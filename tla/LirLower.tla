------------------------------ MODULE LirLower ------------------------------
(***************************************************************************)
(* qy/passes/lir: a MIR function becomes one stream of instructions        *)
(* (linearize), whose effect placeholders are then replaced, for the       *)
(* register VM by language-level instructions (lower_compat_effects),      *)
(* followed by peephole and compact_registers, or for the abstract machine *)
(* by handler and continuation instructions (lower_effects).  Every step   *)
(* that changes the number of instructions has to move the jump targets.   *)
(***************************************************************************)
EXTENDS Ir

Retarget(ins, map) == [ins EXCEPT !.to = [i \in DOMAIN @ |-> map[@[i]]]]

-----------------------------------------------------------------------------
(* linearize_function. *)

\* A branch is a conditional jump to the false side and a jump to the true one.
EmitTerminator(t) ==
    IF t.op = "BRANCH" THEN <<Jmp("JUMP_IF_FALSE", 0, t.uses, <<t.to[2]>>),
                              Jmp("JUMP", 0, <<>>, <<t.to[1]>>)>>
    ELSE <<t>>

\* The constant itself becomes the operand; here it stays in consts.
LowerInstruction(ins) == IF ins.op = "LOAD_CONST" THEN [ins EXCEPT !.op = "LOAD_HOST"] ELSE ins

linearize(f) ==
    LET emitted == [i \in DOMAIN f.blocks |->
            [k \in DOMAIN f.blocks[i].instrs |-> LowerInstruction(f.blocks[i].instrs[k])]
            \o EmitTerminator(f.blocks[i].term)]
        offset == [i \in DOMAIN emitted |-> Len(FlattenSeq(SubSeq(emitted, 1, i - 1))) + 1]
        code == FlattenSeq(emitted)
    IN [code |-> [i \in DOMAIN code |-> Retarget(code[i], offset)],
        regs |-> f.regs, params |-> f.params, consts |-> f.consts]

-----------------------------------------------------------------------------
(* Expanding one instruction into several.  The image of an old index is    *)
(* the position of the first instruction emitted for it; for an instruction *)
(* that vanishes, of the one that follows.                                  *)

Image(parts) == [i \in DOMAIN parts |-> Len(FlattenSeq(SubSeq(parts, 1, i - 1))) + 1]

\* The END that closes the region of the BEGIN at i.  The lowering emits BEGIN
\* and END of one handle_id side by side.
DstOfRegion(code, i) ==
    code[CHOOSE j \in DOMAIN code : /\ j > i /\ code[j].op = "EFFECT_HANDLE_END"
                                    /\ \A k \in (i+1)..(j-1) : code[k].op # "EFFECT_HANDLE_END"].dst

-----------------------------------------------------------------------------
(* lower_compat_effects. *)

CompatPart(code, i) ==
    LET ins == code[i]
    IN CASE ins.op = "EFFECT_HANDLE_BEGIN" -> <<Ins("HANDLE", DstOfRegion(code, i), <<>>, "")>>
         [] ins.op = "EFFECT_HANDLE_END" -> <<>>
         [] ins.op = "EFFECT_PERFORM" -> <<Ins("PERFORM", ins.dst, ins.uses, ""),
                                           Jmp("JUMP_RESUME", 0, <<>>, ins.to)>>
         [] OTHER -> <<ins>>

\* Mutation of Elide: the targets behind a dropped jump are not moved.
MutElideUnshifted(code) ==
    LET skip == {i \in DOMAIN code : code[i].op = "JUMP_RESUME" /\ code[i].to[1] = i + 1}
        keep == SelectSeq([i \in DOMAIN code |-> i], LAMBDA i : i \notin skip)
        plain(ins) == IF ins.op = "JUMP_RESUME" THEN [ins EXCEPT !.op = "JUMP"] ELSE ins
    IN [k \in DOMAIN keep |-> plain(code[keep[k]])]

\* The jump behind a PERFORM is dropped when it leads to the next instruction;
\* shift moves the targets behind the dropped ones.
Elide(code) ==
    LET skip == {i \in DOMAIN code : code[i].op = "JUMP_RESUME" /\ code[i].to[1] = i + 1}
        shift == [i \in DOMAIN code |-> i - Cardinality({j \in skip : j < i})]
        keep == SelectSeq([i \in DOMAIN code |-> i], LAMBDA i : i \notin skip)
        plain(ins) == IF ins.op = "JUMP_RESUME" THEN [ins EXCEPT !.op = "JUMP"] ELSE ins
    IN [k \in DOMAIN keep |-> plain(Retarget(code[keep[k]], shift))]

lower_compat_effects(f) ==
    LET parts == [i \in DOMAIN f.code |-> CompatPart(f.code, i)]
        code == FlattenSeq(parts)
    IN [f EXCEPT !.code = Elide([i \in DOMAIN code |-> Retarget(code[i], Image(parts))])]

-----------------------------------------------------------------------------
(* peephole drops self moves, and does not touch jump targets.  None and T  *)
(* get load instructions of their own.  (No move is ever forwarded: its     *)
(* destination counts as a use.)                                            *)

NormalLoad(ins, consts) ==
    IF ins.op = "LOAD_HOST" /\ consts[ins.ref] \in {PyNone, T}
    THEN Ins(IF consts[ins.ref] = T THEN "LOAD_T" ELSE "LOAD_NIL", ins.dst, <<>>, "")
    ELSE ins
_normalize_loads(f) == [f EXCEPT !.code = [i \in DOMAIN @ |-> NormalLoad(@[i], f.consts)]]

peephole(f) ==
    [_normalize_loads(f) EXCEPT !.code = SelectSeq(@, LAMBDA i : ~(i.op = "MOVE" /\ i.uses = <<i.dst>>))]

(* compact_registers renumbers the registers in the order in which they     *)
(* occur, destination first, after the slots of the parameters.             *)

Occurrences(ins) == (IF ins.dst = 0 THEN <<>> ELSE <<ins.dst>>) \o ins.uses
MapRegister(map, r) == IF \E i \in DOMAIN map : map[i] = r THEN map ELSE Append(map, r)

compact_registers(f) ==
    LET map == FoldLeft(MapRegister, [p \in 1..Len(f.params) |-> p],
                        FlattenSeq([i \in DOMAIN f.code |-> Occurrences(f.code[i])]))
        slot == [r \in ToSet(map) |-> CHOOSE i \in DOMAIN map : map[i] = r]
    IN [f EXCEPT !.regs = Len(map),
                 !.code = [i \in DOMAIN @ |->
                    [@[i] EXCEPT !.uses = [j \in DOMAIN @ |-> slot[@[j]]],
                                 !.dst = IF @ = 0 THEN 0 ELSE slot[@]]]]

-----------------------------------------------------------------------------
(***************************************************************************)
(* lower_effects.  A handle region becomes                                 *)
(*   HANDLER_PUSH dispatch; CALL body; HANDLER_POP; JUMP after;            *)
(*   dispatch: EFFECT_DISPATCH; CALL handler; HANDLER_POP; after: ...      *)
(* and a perform CONT_CAPTURE resume; EFFECT_UNWIND.  MAKE_FUNCTION of the *)
(* body is part of CALL_BODY here.  The jump over the dispatch and the     *)
(* dispatch label are new indices already when _remap_jump_targets runs.   *)
(***************************************************************************)

\* Mutation of AmPart: the handler stays pushed when its body has returned.
MutBodyNoPop(code, i, here) ==
    LET ins == code[i]
        dst == DstOfRegion(code, i)
    IN CASE ins.op = "EFFECT_HANDLE_BEGIN" ->
              <<Jmp("HANDLER_PUSH", 0, <<>>, <<here + 4>>), Ins("MAKE_FUNCTION", 0, <<>>, ""),
                Ins("CALL_BODY", dst, <<>>, ""), Jmp("JUMP", 0, <<>>, <<here + 7>>),
                Ins("EFFECT_DISPATCH", 0, <<>>, ""), Ins("CALL_HANDLER", dst, <<>>, ""),
                Ins("HANDLER_POP", 0, <<>>, "")>>
         [] ins.op = "EFFECT_HANDLE_END" -> <<>>
         [] ins.op = "EFFECT_PERFORM" -> <<Jmp("CONT_CAPTURE", ins.dst, ins.uses, ins.to),
                                           Ins("EFFECT_UNWIND", 0, <<>>, "")>>
         [] OTHER -> <<ins>>

AmPart(code, i, here) ==
    LET ins == code[i]
        dst == DstOfRegion(code, i)
        pop == Ins("HANDLER_POP", 0, <<>>, "")
    IN CASE ins.op = "EFFECT_HANDLE_BEGIN" ->
              <<Jmp("HANDLER_PUSH", 0, <<>>, <<here + 5>>), Ins("MAKE_FUNCTION", 0, <<>>, ""),
                Ins("CALL_BODY", dst, <<>>, ""), pop, Jmp("JUMP", 0, <<>>, <<here + 8>>),
                Ins("EFFECT_DISPATCH", 0, <<>>, ""), Ins("CALL_HANDLER", dst, <<>>, ""), pop>>
         [] ins.op = "EFFECT_HANDLE_END" -> <<>>
         [] ins.op = "EFFECT_PERFORM" -> <<Jmp("CONT_CAPTURE", ins.dst, ins.uses, ins.to),
                                           Ins("EFFECT_UNWIND", 0, <<>>, "")>>
         [] OTHER -> <<ins>>

RECURSIVE AmParts(_, _, _)
AmParts(code, i, here) ==
    IF i > Len(code) THEN <<>>
    ELSE LET part == AmPart(code, i, here)
         IN <<part>> \o AmParts(code, i + 1, here + Len(part))

\* _remap_jump_targets: a target that is an old index is replaced by its image,
\* for every JUMP and JUMP_IF_FALSE of the new stream - the jumps over the
\* dispatch, whose target is new, included.  CONT_CAPTURE is patched on its own.
RemapJumpTargets(code, oldToNew) ==
    [i \in DOMAIN code |->
        IF code[i].op \in {"JUMP", "JUMP_IF_FALSE"} /\ code[i].to[1] \in DOMAIN oldToNew
        THEN Retarget(code[i], oldToNew)
        ELSE IF code[i].op = "CONT_CAPTURE" THEN Retarget(code[i], oldToNew)
        ELSE code[i]]

lower_effects(f) ==
    LET parts == AmParts(f.code, 1, 1)
    IN [f EXCEPT !.code = RemapJumpTargets(FlattenSeq(parts), Image(parts))]

-----------------------------------------------------------------------------
(* lir.select_builtins: a call whose callee register can only hold a        *)
(* builtin operator becomes CALL_BUILTIN, which neither looks the name up   *)
(* nor dispatches on the operator.  The instruction stream is the only      *)
(* evidence: the pass looks backwards for the write of the register and     *)
(* gives up when something can jump in between.                             *)

\* The operators of the ABI that the programs here name, and their arity.  The
\* session binds them to the implementation's own operators (_canonical_operators).
BUILTIN_OPERATORS == [s \in {"+"} |-> 2]

register_operands_of(ins) == (Reads(ins) \cup {ins.dst}) \ {0}

\* _shadowed_names of the program: here of its one function.  Parameters are not
\* in it.
_shadowed_names(code) ==
    {ins.sym : ins \in {i \in ToSet(code) : i.op \in {"DEFINE_ONCE", "STORE_LOCAL"}}}

_jump_targets(code) ==
    UNION {ToSet(ins.to) : ins \in {i \in ToSet(code) : i.op \in {"JUMP", "JUMP_IF_FALSE"}}}

\* The number an instruction has as its first operand: what it writes, or else what
\* it reads, or the target of a jump.  (The number of a handler or continuation is left
\* out; it could only make the pass give up.)
FirstOperand(ins) ==
    CASE ins.dst # 0 -> ins.dst
      [] ins.op \in {"JUMP_IF_FALSE", "RETURN", "TAIL_CALL", "RAISE_EFFECT"} /\ ins.uses # <<>> -> ins.uses[1]
      [] ins.op = "JUMP" -> ins.to[1]
      [] OTHER -> 0
\* _nearest_write takes the first operand of any instruction for its destination;
\* 0: none.
_nearest_write(code, i, r) ==
    Max({0} \cup {k \in 1..(i - 1) : FirstOperand(code[k]) = r})

\* The call at i can be selected: straight-line code leads to it from the load of an
\* operator that nothing shadows, and it passes as many arguments as the ABI takes.
Selected(code, i) ==
    /\ code[i].op = "CALL"
    /\ LET def == _nearest_write(code, i, code[i].uses[1])
       IN /\ def # 0 /\ code[def].op = "LOAD_ENV"
          /\ _jump_targets(code) \cap (def + 1)..i = {}
          /\ code[def].sym \in DOMAIN BUILTIN_OPERATORS \ _shadowed_names(code)
          /\ Len(code[i].uses) - 1 = BUILTIN_OPERATORS[code[def].sym]

SelectedCall(code, i) ==
    Ins("CALL_BUILTIN", code[i].dst, Tail(code[i].uses), code[_nearest_write(code, i, code[i].uses[1])].sym)

\* A load that has lost its last use goes too; but its own destination counts as a
\* use, so none ever does.
StillUsed(code) ==
    UNION {IF ins.op = "CALL_BUILTIN" THEN Reads(ins) ELSE register_operands_of(ins) : ins \in ToSet(code)}

_select_in_function(f) ==
    LET calls == {i \in DOMAIN f.code : Selected(f.code, i)}
        registers == {f.code[i].uses[1] : i \in calls}
        rewritten == [i \in DOMAIN f.code |-> IF i \in calls THEN SelectedCall(f.code, i) ELSE f.code[i]]
    IN [f EXCEPT !.code = SelectSeq(rewritten, LAMBDA ins :
            ~(ins.op = "LOAD_ENV" /\ ins.dst \in registers \ StillUsed(rewritten)))]
=============================================================================
