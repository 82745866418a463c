----------------------------- MODULE LirVerify -----------------------------
(***************************************************************************)
(* verify_lir: the gate between LIR and bytecode.  It looks at one stream  *)
(* of instructions at a time; errors stop the build, warnings do not.      *)
(* Not in the streams modelled here, and so not among the checks: slots,   *)
(* frames, continuous instructions.                                        *)
(***************************************************************************)
EXTENDS LirLower

_TERMINATORS == {"RETURN", "TAIL_CALL", "RAISE_EFFECT", "EFFECT_UNWIND"}
_JUMP_OPCODES == {"JUMP", "JUMP_IF_FALSE"}
MirPlaceholders == {"EFFECT_HANDLE_BEGIN", "EFFECT_HANDLE_END", "EFFECT_PERFORM"}
_ABSTRACT_MACHINE_ONLY_OPCODES ==
    {"CONT_CAPTURE", "HANDLER_PUSH", "HANDLER_POP", "EFFECT_UNWIND", "EFFECT_DISPATCH"}
\* The effect instructions a dialect must not keep.
Forbidden(dialect) ==
    MirPlaceholders \cup (IF dialect = "abstract-machine" THEN {"PERFORM", "HANDLE"}
                          ELSE _ABSTRACT_MACHINE_ONLY_OPCODES)

\* Where a block begins: the entry, and the targets of jumps, handlers and
\* continuations.
_block_entry_points(code) == {1} \cup UNION {ToSet(code[i].to) : i \in DOMAIN code}

\* The warning about instructions behind one that leaves the stream.
UnreachableAt(code) ==
    {i \in DOMAIN code : i > 1 /\ code[i - 1].op \in _TERMINATORS /\ i \notin _block_entry_points(code)}

-----------------------------------------------------------------------------
(* Nesting of push and pop, over the control flow.  st is [depth, work]: the *)
(* depth with which an instruction was met first, and those still to visit,  *)
(* the last one next.                                                        *)

\* What follows instruction i; a captured continuation's resume point does not.
_cfg_successors(code, i) ==
    LET next == SelectSeq(<<i + 1>>, LAMBDA k : k \in DOMAIN code)
    IN CASE code[i].op = "JUMP" -> code[i].to
         [] code[i].op = "JUMP_IF_FALSE" -> next \o code[i].to
         [] code[i].op \in _TERMINATORS -> <<>>
         [] OTHER -> next

_relax_depth(st, i, d) ==
    IF i \in DOMAIN st.depth THEN st
    ELSE [depth |-> [k \in DOMAIN st.depth \cup {i} |-> IF k = i THEN d ELSE st.depth[k]],
          work |-> Append(st.work, i)]

RECURSIVE Depths(_, _, _, _)
Depths(code, push, pop, st) ==
    IF st.work = <<>> THEN st.depth
    ELSE LET i == Last(st.work)
             d == st.depth[i]
             next == CASE code[i].op = push -> d + 1 [] code[i].op = pop /\ d > 0 -> d - 1 [] OTHER -> d
             taken == [st EXCEPT !.work = Front(@)]
             pushed == IF code[i].op = push /\ code[i].to # <<>>
                       THEN _relax_depth(taken, code[i].to[1], d + 1) ELSE taken
         IN Depths(code, push, pop,
                   FoldLeft(LAMBDA s, k : _relax_depth(s, k, next), pushed, _cfg_successors(code, i)))

DepthAt(code, push, pop) ==
    Depths(code, push, pop, [depth |-> [i \in {1} |-> 0], work |-> <<1>>])
\* pop without push, and a push that is open where the function is left.
Underflow(code, push, pop) ==
    LET depth == DepthAt(code, push, pop) IN \E i \in DOMAIN depth : code[i].op = pop /\ depth[i] < 1
Unclosed(code, push, pop) ==
    LET depth == DepthAt(code, push, pop)
    IN \E i \in DOMAIN depth : code[i].op \in {"RETURN", "TAIL_CALL"} /\ depth[i] > 0

l11_handler_push_pop_nesting(code) ==
    ~Underflow(code, "HANDLER_PUSH", "HANDLER_POP") /\ ~Unclosed(code, "HANDLER_PUSH", "HANDLER_POP")

-----------------------------------------------------------------------------

_verify_builtin_call(ins) ==
    ins.sym \in DOMAIN BUILTIN_OPERATORS /\ Len(ins.uses) = BUILTIN_OPERATORS[ins.sym]

\* No error.
verify_lir(f, dialect) ==
    /\ \E i \in DOMAIN f.code : f.code[i].op \in _TERMINATORS
    /\ \A i \in DOMAIN f.code :
          /\ f.code[i].op \notin Forbidden(dialect)
          /\ register_operands_of(f.code[i]) \subseteq 1..f.regs
          /\ f.code[i].op = "CALL_BUILTIN" => _verify_builtin_call(f.code[i])
          /\ f.code[i].op \in _JUMP_OPCODES => f.code[i].to[1] \in DOMAIN f.code
    /\ l11_handler_push_pop_nesting(f.code)
=============================================================================
