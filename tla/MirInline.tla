------------------------------ MODULE MirInline ------------------------------
(***************************************************************************)
(* The passes of OPTIMIZE_PASSES that change control flow between blocks   *)
(* and functions: tailcall, licm, loop_opt, inline, aggressive_inline.     *)
(***************************************************************************)
EXTENDS MirPasses

\* A call whose value the block returns at once becomes a tail call.
tailcall(f) ==
    LET block(b) ==
            IF /\ b.term.op = "RETURN" /\ b.instrs # <<>> /\ Last(b.instrs).op = "CALL"
               /\ b.term.uses = <<Last(b.instrs).dst>>
            THEN Block(Front(b.instrs), Jmp("TAIL_CALL", 0, Last(b.instrs).uses, <<>>)) ELSE b
    IN WithBlocks(f, [i \in DOMAIN f.blocks |-> block(f.blocks[i])])

-----------------------------------------------------------------------------
(* licm.  A loop is a back edge (to a block that dominates its source), the *)
(* blocks from which the source is reached without the header, and the      *)
(* first block outside that leads to the header.                            *)

PredecessorIds(f, id) == {p \in DOMAIN f.blocks : id \in Targets(f.blocks[p].term)}

RECURSIVE Dominators(_, _)
Dominators(f, dom) ==
    LET step == [b \in DOMAIN f.blocks |->
                    IF b = 1 \/ PredecessorIds(f, b) = {} THEN dom[b]
                    ELSE {b} \cup {d \in DOMAIN f.blocks : \A p \in PredecessorIds(f, b) : d \in dom[p]}]
    IN IF step = dom THEN dom ELSE Dominators(f, step)
_compute_dominators(f) ==
    Dominators(f, [b \in DOMAIN f.blocks |-> IF b = 1 THEN {1} ELSE DOMAIN f.blocks])

RECURSIVE _compute_loop_body(_, _, _)
_compute_loop_body(f, header, body) ==
    LET more == body \cup UNION {PredecessorIds(f, b) : b \in body \ {header}}
    IN IF more = body THEN body ELSE _compute_loop_body(f, header, more)

\* In the order of the sources of the back edges.
_find_natural_loops(f) ==
    LET dom == _compute_dominators(f)
        edges(b) == SelectSeq(f.blocks[b].term.to, LAMBDA t : t \in dom[b])
        loop(b, header) ==
            LET body == _compute_loop_body(f, header, {header, b})
            IN [body |-> body, outside |-> PredecessorIds(f, header) \ body]
        loops == FlattenSeq([b \in DOMAIN f.blocks |->
                    LET es == edges(b) IN [i \in DOMAIN es |-> loop(b, es[i])]])
    IN SelectSeq(loops, LAMBDA l : l.outside # {})

\* Loads, and moves from outside, of registers that no instruction of the loop
\* reads go to the end of the block before the loop.
HoistLoop(f, loop) ==
    LET inside == UNION {ToSet(f.blocks[b].instrs) : b \in loop.body}
        defs == {ins.dst : ins \in inside}
        reads == UNION {Reads(ins) : ins \in inside}
        hoist(ins) == /\ \/ ins.op \in {"LOAD_CONST", "LOAD_ENV"}
                         \/ ins.op = "MOVE" /\ ins.uses[1] \notin defs
                      /\ ins.dst \notin reads
        hoisted == FlattenSeq([b \in 1..Len(f.blocks) |->
                       IF b \in loop.body THEN SelectSeq(f.blocks[b].instrs, hoist) ELSE <<>>])
    IN WithBlocks(f, [b \in DOMAIN f.blocks |->
           Block(CASE b \in loop.body -> SelectSeq(f.blocks[b].instrs, LAMBDA i : ~hoist(i))
                   [] b = Min(loop.outside) -> f.blocks[b].instrs \o hoisted
                   [] OTHER -> f.blocks[b].instrs,
                 f.blocks[b].term)])

licm(f) == Fold(HoistLoop, f, _find_natural_loops(f))

\* loop_opt finds the loops and returns the function as it is.
loop_opt(f) == f

-----------------------------------------------------------------------------
(* inline_core. *)

\* What must not move to another environment.  Gathers are not listed.
SIDE_EFFECT_OPCODES == {"DEFINE_ONCE", "STORE_LOCAL", "ENTER_SCOPE", "EXIT_SCOPE", "MAKE_FUNCTION"}
ALLOWED_TERMINATORS == {"JUMP", "BRANCH", "RETURN"}


\* lexical: the names some symbol space of the program binds.
is_inlinable(f, lexical) ==
    /\ \A ins \in ToSet(Instrs(f)) :
          /\ ins.op \notin SIDE_EFFECT_OPCODES
          /\ ins.op = "LOAD_ENV" => ins.sym \in ToSet(f.params) \/ ins.sym \notin lexical
    /\ \A b \in ToSet(f.blocks) : b.term.op \in ALLOWED_TERMINATORS

Makes(ins, fn) == ins.op = "MAKE_FUNCTION" /\ ins.ref = fn
is_recursive(f, fn) == \E ins \in ToSet(Instrs(f)) : Makes(ins, fn)
count_calls(fs, fn) ==
    Cardinality({<<i, k>> \in (DOMAIN fs) \X (1..Max({Len(Instrs(f)) : f \in ToSet(fs)})) :
                    k \in DOMAIN Instrs(fs[i]) /\ Makes(Instrs(fs[i])[k], fn)})

\* The calls <<caller, block, instruction>> of the register that last held fn: made
\* there, or loaded by the name under which that register was defined.
find_all_call_sites(fs, fn) ==
    LET point(i, st, at) ==
            LET ins == fs[i].blocks[at[1]].instrs[at[2]]
                reg == IF Makes(ins, fn) THEN ins.dst ELSE st.reg
                name == IF ins.op = "DEFINE_ONCE" /\ reg # 0 /\ ins.uses[1] = reg THEN ins.sym ELSE st.name
                now == IF ins.op = "LOAD_ENV" /\ name # "" /\ ins.sym = name THEN ins.dst ELSE reg
            IN [reg |-> now, name |-> name,
                sites |-> IF ins.op = "CALL" /\ now # 0 /\ ins.uses[1] = now
                          THEN Append(st.sites, <<i, at[1], at[2]>>) ELSE st.sites]
        points(f) == FlattenSeq([i \in DOMAIN f.order |->
                        [k \in DOMAIN f.blocks[f.order[i]].instrs |-> <<f.order[i], k>>]])
    IN FlattenSeq([i \in DOMAIN fs |->
           Fold(LAMBDA st, at : point(i, st, at), [reg |-> 0, name |-> "", sites |-> <<>>],
                points(fs[i])).sites])

\* Another use of the register of the closure than its definition and this call.
\* The arguments of a tail call are not looked at.
_fn_value_used_elsewhere(f, reg, site) ==
    \/ \E b \in DOMAIN f.blocks : \E k \in DOMAIN f.blocks[b].instrs :
          LET ins == f.blocks[b].instrs[k]
          IN /\ <<b, k>> # <<site[2], site[3]>> /\ ins.op \notin {"MAKE_FUNCTION", "DEFINE_ONCE"}
             /\ reg \in Reads(ins) \cup {ins.dst}
    \/ \E b \in ToSet(f.blocks) :
          b.term.op \in {"RETURN", "BRANCH", "TAIL_CALL"} /\ b.term.uses # <<>> /\ b.term.uses[1] = reg

\* An instruction of the callee in the registers of the caller: the load of a
\* parameter is a move from the register of the argument.
_offset_instruction(ins, offset, values) ==
    IF ins.op = "LOAD_ENV" /\ ins.sym \in DOMAIN values
    THEN Ins("MOVE", ins.dst + offset, <<values[ins.sym]>>, "")
    ELSE [ins EXCEPT !.dst = IF @ = 0 THEN 0 ELSE @ + offset, !.uses = [i \in DOMAIN @ |-> @[i] + offset]]

\* Only a branch is moved; the target of a jump stays.
_offset_terminator(term, offset, blocks) ==
    IF term.op = "BRANCH" THEN [term EXCEPT !.uses = <<@[1] + offset>>,
                                            !.to = [i \in DOMAIN @ |-> @[i] + blocks]]
    ELSE term


CanInlineInto(caller, site, callee, fn) ==
    LET made == SelectSeq(StoredInstrs(caller), LAMBDA ins : Makes(ins, fn))
    IN /\ made # <<>> => ~_fn_value_used_elsewhere(caller, made[1].dst, site)
       /\ Len(caller.blocks[site[2]].instrs[site[3]].uses) - 1 = Len(callee.params)

\* unmoved: a jump of the inlined code still names a block of the callee.
\* The call block is cut at the call: it jumps to the entry of the callee's blocks,
\* whose returns move the value and jump to the rest of the block.  The rest has the
\* highest number and is stored before the blocks of the callee.
inline_into(caller, site, callee, fn) ==
    LET block == caller.blocks[site[2]]
        call == block.instrs[site[3]]
        values == [n \in ToSet(callee.params) |->
                      call.uses[1 + (CHOOSE i \in DOMAIN callee.params : callee.params[i] = n)]]
        entry == Len(caller.blocks) + 1
        rest == entry + Len(callee.blocks)
        jump(to) == Jmp("JUMP", 0, <<>>, <<to>>)
        kept(ins) == ~Makes(ins, fn)
        before == Block(SelectSeq(SubSeq(block.instrs, 1, site[3] - 1), kept), jump(entry))
        after == Block(SubSeq(block.instrs, site[3] + 1, Len(block.instrs)), block.term)
        moved(b) == [i \in DOMAIN b.instrs |-> _offset_instruction(b.instrs[i], caller.regs, values)]
        inlined(b) ==
            IF b.term.op = "RETURN"
            THEN Block(Append(moved(b), Ins("MOVE", call.dst, <<b.term.uses[1] + caller.regs>>, "")), jump(rest))
            ELSE Block(moved(b), _offset_terminator(b.term, caller.regs, entry - 1))
    IN [caller EXCEPT !.regs = @ + callee.regs,
                      !.blocks = [@ EXCEPT ![site[2]] = before]
                                 \o [i \in DOMAIN callee.blocks |-> inlined(callee.blocks[i])] \o <<after>>,
                      !.order = @ \o <<rest>> \o [i \in DOMAIN callee.order |-> callee.order[i] + entry - 1],
                      !.unmoved = @ \/ \E b \in ToSet(callee.blocks) : b.term.op = "JUMP"]

\* referenced_fn_indices and drop_functions: only closures are looked at and renumbered.
referenced_fn_indices(fs) ==
    {ins.ref : ins \in {i \in UNION {ToSet(Instrs(f)) : f \in ToSet(fs)} : i.op = "MAKE_FUNCTION"}}

\* Mutation of drop_functions: the closures keep the old indices.
MutDropUnmapped(p, dropped) ==
    LET left == SelectSeq([i \in DOMAIN p.functions |-> i], LAMBDA i : i \notin dropped)
    IN [p EXCEPT !.functions = [i \in DOMAIN left |-> p.functions[left[i]]]]

drop_functions(p, dropped) ==
    LET left == SelectSeq([i \in DOMAIN p.functions |-> i], LAMBDA i : i \notin dropped)
        new(i) == CHOOSE k \in DOMAIN left : left[k] = i
        remap(ins) == IF ins.op = "MAKE_FUNCTION" /\ ins.ref \notin dropped
                      THEN [ins EXCEPT !.ref = new(@)] ELSE ins
        pass(f) == MapBlocks(f, LAMBDA instrs : [k \in DOMAIN instrs |-> remap(instrs[k])])
    IN [p EXCEPT !.functions = [i \in DOMAIN left |-> pass(p.functions[left[i]])],
                 !.main = new(@)]

-----------------------------------------------------------------------------
(* The two policies.  A round goes over the candidates of the program it    *)
(* starts from and inlines each at one site: inline takes the first site or *)
(* none, aggressive_inline the first at which it can.                       *)

_MAX_BLOCKS == 3
_MAX_INLINED_INSTRUCTIONS == 64
_MAX_INLINE_DEPTH == 4

\* Of the functions that are called and small enough for a policy, the candidates.
_find_candidates(fs, lexical, small) ==
    SelectSeq([i \in DOMAIN fs |-> i],
              LAMBDA i : i \in small /\ ~is_recursive(fs[i], i) /\ is_inlinable(fs[i], lexical))

Able(fs, fn, sites, firstOnly) ==
    SelectSeq(IF firstOnly /\ sites # <<>> THEN <<sites[1]>> ELSE sites,
              LAMBDA s : CanInlineInto(fs[s[1]], s, fs[fn], fn))
InlineAtFirst(st, fn, sites) ==
    IF sites = <<>> THEN st
    ELSE [fs |-> [st.fs EXCEPT ![sites[1][1]] = inline_into(@, sites[1], st.fs[fn], fn)],
          inlined |-> st.inlined \cup {fn}]
InlineRound(fs, candidates, firstOnly) ==
    LET one(st, fn) ==
            InlineAtFirst(st, fn, Able(st.fs, fn, find_all_call_sites(st.fs, fn), firstOnly))
    IN Fold(one, [fs |-> fs, inlined |-> {}], candidates)

Dropping(p, round) ==
    LET dropped == round.inlined \ referenced_fn_indices(round.fs)
        q == rebuild_program(p, round.fs)
    IN IF dropped = {} THEN q ELSE drop_functions(q, dropped)

inline(p, lexical) ==
    LET fs == p.functions
        small == {i \in DOMAIN fs : count_calls(fs, i) = 1 /\ Len(fs[i].blocks) =< _MAX_BLOCKS}
    IN Dropping(p, InlineRound(fs, _find_candidates(fs, lexical, small), TRUE))

RECURSIVE AggressiveInline(_, _, _)
AggressiveInline(p, lexical, depth) ==
    LET fs == p.functions
        small == {i \in DOMAIN fs : count_calls(fs, i) > 0
                                     /\ Len(Instrs(fs[i])) =< _MAX_INLINED_INSTRUCTIONS}
        round == InlineRound(fs, _find_candidates(fs, lexical, small), FALSE)
    IN IF depth = 0 \/ round.inlined = {} THEN p
       ELSE AggressiveInline(Dropping(p, round), lexical, depth - 1)
aggressive_inline(p, lexical) == AggressiveInline(p, lexical, _MAX_INLINE_DEPTH)
=============================================================================
