----------------------------- MODULE MirOptimize -----------------------------
(***************************************************************************)
(* MIR optimisation passes that rewrite registers, instructions or blocks: *)
(* copy_prop, dce, cfg_simplify and reg_alloc (with the liveness analysis  *)
(* it rests on).  Each maps a MIR function to a MIR function.              *)
(***************************************************************************)
EXTENDS Ir

WithBlocks(f, blocks) == [f EXCEPT !.blocks = blocks]
Fold(Op(_, _), base, seq) == FoldLeft(Op, base, seq)
Ascending(S) == SelectSeq([i \in 1..Max(S \cup {0}) |-> i], LAMBDA i : i \in S)

-----------------------------------------------------------------------------
(* copy_prop.  One scan goes over the blocks in the order in which they are *)
(* stored, whatever the control flow, with the copies known so far and the  *)
(* registers defined so far; it is repeated until nothing changes.          *)

\* The opcodes copy_prop._def knows; an effect result is not among them.
CopyDef(ins) ==
    IF ins.op \in {"LOAD_CONST", "LOAD_ENV", "MOVE", "MAKE_FUNCTION", "CALL"} THEN ins.dst ELSE 0

\* _substitute_instruction replaces uses; terminators are left alone.
CopySubstitute(ins, copies) ==
    IF ins.op \in {"MOVE", "CALL", "STORE_LOCAL", "DEFINE_ONCE", "APPEND_RESULT"}
    THEN [ins EXCEPT !.uses = [i \in DOMAIN @ |-> IF copies[@[i]] = 0 THEN @[i] ELSE copies[@[i]]]]
    ELSE ins

CopyInstr(st, ins) ==
    LET d == CopyDef(ins)
        copies == IF d = 0 THEN st.copies ELSE [st.copies EXCEPT ![d] = 0]
        defs == st.defs \cup ({d} \ {0})
        known == IF ins.op = "MOVE" /\ ins.uses[1] \notin defs
                 THEN [copies EXCEPT ![ins.dst] = ins.uses[1]] ELSE copies
    IN [copies |-> known, defs |-> defs, out |-> Append(st.out, CopySubstitute(ins, known))]

CopyBlock(st, block) ==
    LET r == Fold(CopyInstr, [copies |-> st.copies, defs |-> st.defs, out |-> <<>>], block.instrs)
    IN [copies |-> r.copies, defs |-> r.defs, blocks |-> Append(st.blocks, Block(r.out, block.term))]

RECURSIVE copy_prop(_)
copy_prop(f) ==
    LET scan == Fold(CopyBlock, [copies |-> [r \in 1..f.regs |-> 0], defs |-> {}, blocks |-> <<>>],
                     f.blocks)
    IN IF scan.blocks = f.blocks THEN f ELSE copy_prop(WithBlocks(f, scan.blocks))

-----------------------------------------------------------------------------
(* dce: remove, until nothing changes, what has no side effect and writes a *)
(* register that nothing reads.                                             *)

SideEffectFree == {"LOAD_CONST", "LOAD_ENV", "MOVE", "MAKE_FUNCTION", "BUILD_TUPLE"}
UsedRegisters(f) ==
    UNION {UNION {Reads(b.instrs[i]) : i \in DOMAIN b.instrs} \cup Reads(b.term) : b \in ToSet(f.blocks)}

RECURSIVE dce(_)
dce(f) ==
    LET used == UsedRegisters(f)
        alive(ins) == ins.op \notin SideEffectFree \/ ins.dst \in used
        blocks == [i \in DOMAIN f.blocks |->
                     Block(SelectSeq(f.blocks[i].instrs, alive), f.blocks[i].term)]
    IN IF blocks = f.blocks THEN f ELSE dce(WithBlocks(f, blocks))

-----------------------------------------------------------------------------
(* cfg_simplify.  g is a partial function from block ids to blocks.         *)

RECURSIVE FindReachable(_, _)
FindReachable(g, ids) ==
    LET more == ids \cup UNION {Targets(g[i].term) : i \in ids}
    IN IF more = ids THEN ids ELSE FindReachable(g, more)

Reachable(g) == LET ids == FindReachable(g, {1}) IN [i \in ids |-> g[i]]

\* Follow empty blocks that only jump; a cycle ends where it is met again.
RECURSIVE ResolveTarget(_, _, _)
ResolveTarget(g, id, seen) ==
    IF id \in seen \/ g[id].instrs # <<>> \/ g[id].term.op # "JUMP" THEN id
    ELSE ResolveTarget(g, g[id].term.to[1], seen \cup {id})

\* The resume block of a perform is not threaded.
ThreadJumps(g) ==
    [id \in DOMAIN g |->
        IF g[id].term.op \in {"JUMP", "BRANCH"}
        THEN [g[id] EXCEPT !.term.to = [i \in DOMAIN @ |-> ResolveTarget(g, @[i], {id})]]
        ELSE g[id]]

\* Edges into a block; a branch with equal sides counts twice.
Predecessors(g, id) ==
    {<<p, i>> \in (DOMAIN g) \X {1, 2} : i \in DOMAIN g[p].term.to /\ g[p].term.to[i] = id}

\* A block that jumps to a block with no other predecessor swallows it.
Mergeable(g) ==
    {id \in DOMAIN g : g[id].term.op = "JUMP" /\
        LET succ == g[id].term.to[1]
        IN succ \notin {id, 1} /\ Cardinality(Predecessors(g, succ)) = 1}

RECURSIVE MergeLinear(_)
MergeLinear(g) ==
    IF Mergeable(g) = {} THEN g
    ELSE LET id == Min(Mergeable(g))
             succ == g[id].term.to[1]
             merged == Block(g[id].instrs \o g[succ].instrs, g[succ].term)
         IN MergeLinear([i \in DOMAIN g \ {succ} |-> IF i = id THEN merged ELSE g[i]])

\* Renumber the blocks that are left, in their order.
Renumber(g) ==
    LET ids == Ascending(DOMAIN g)
        new(id) == CHOOSE i \in DOMAIN ids : ids[i] = id
    IN [i \in DOMAIN ids |-> [g[ids[i]] EXCEPT !.term.to = [j \in DOMAIN @ |-> new(@[j])]]]

\* Mutation of cfg_simplify: blocks that threading cut off are kept.
MutKeepThreaded(f) == WithBlocks(f, Renumber(MergeLinear(ThreadJumps(Reachable(f.blocks)))))

cfg_simplify(f) ==
    WithBlocks(f, Renumber(MergeLinear(Reachable(ThreadJumps(Reachable(f.blocks))))))

-----------------------------------------------------------------------------
(* compute_liveness: per block the registers read before they are written   *)
(* (gen) and those written (kill), live-in and live-out by iteration.       *)

GenKill(st, ins) ==
    [gen |-> st.gen \cup (Reads(ins) \ st.kill), kill |-> st.kill \cup ({ins.dst} \ {0})]
BlockGenKill(b) == Fold(GenKill, [gen |-> {}, kill |-> {}], Append(b.instrs, b.term))

\* Mutation of LiveOut: only the terminator's own reads are live at the end.
MutLiveOutLocal(f, live, i) == Reads(f.blocks[i].term)

\* What the terminator reads is live at the end of its block.
LiveOut(f, live, i) ==
    Reads(f.blocks[i].term) \cup UNION {live[t] : t \in Targets(f.blocks[i].term)}

RECURSIVE LiveIn(_, _, _)
LiveIn(f, gk, live) ==
    LET more == [i \in DOMAIN f.blocks |-> gk[i].gen \cup (LiveOut(f, live, i) \ gk[i].kill)]
    IN IF more = live THEN live ELSE LiveIn(f, gk, more)

(***************************************************************************)
(* _compute_intervals: a register's first and last position, the blocks    *)
(* being numbered through in their order with a position for each          *)
(* terminator.  A register begins where it is live at the start of a block *)
(* or written by an instruction, and ends where an instruction reads it or *)
(* where it is live at the end of a block.                                 *)
(***************************************************************************)
BlockStart(f) ==
    [i \in DOMAIN f.blocks |->
        Fold(LAMBDA n, b : n + Len(b.instrs) + 1, 0, SubSeq(f.blocks, 1, i - 1))]

Intervals(f) ==
    LET at == BlockStart(f)
        gk == [i \in DOMAIN f.blocks |-> BlockGenKill(f.blocks[i])]
        live == LiveIn(f, gk, [i \in DOMAIN f.blocks |-> {}])
        liveOut == [i \in DOMAIN f.blocks |-> LiveOut(f, live, i)]
        points == {<<i, j>> : i \in DOMAIN f.blocks, j \in 1..Max({Len(b.instrs) : b \in ToSet(f.blocks)})}
        instr(p) == f.blocks[p[1]].instrs[p[2]]
        pos(p) == at[p[1]] + p[2] - 1
        inside == {p \in points : p[2] =< Len(f.blocks[p[1]].instrs)}
        begins(r) == {pos(p) : p \in {q \in inside : instr(q).dst = r}}
                     \cup {at[i] : i \in {k \in DOMAIN f.blocks : r \in live[k]}}
        ends(r) == {pos(p) : p \in {q \in inside : r \in Reads(instr(q))}}
                   \cup {at[i] + Len(f.blocks[i].instrs) :
                           i \in {k \in DOMAIN f.blocks : r \in liveOut[k]}}
        first(r) == IF begins(r) = {} THEN 0 ELSE Min(begins(r))
    IN [r \in {q \in 1..f.regs : begins(q) \cup ends(q) # {}} |->
           <<first(r), IF ends(r) = {} THEN first(r) ELSE Max(ends(r))>>]

-----------------------------------------------------------------------------
(* reg_alloc: linear scan.  The slots of the parameters are not shared.  A  *)
(* register takes the first slot whose last register ended before it.       *)

ScanRegister(intervals, st, r) ==
    IF r \in DOMAIN st.slot THEN st
    ELSE LET free == {p \in DOMAIN st.ends : st.ends[p] # -1 /\ st.ends[p] < intervals[r][1]}
             p == IF free = {} THEN Len(st.ends) + 1 ELSE Min(free)
         IN [slot |-> [q \in DOMAIN st.slot \cup {r} |-> IF q = r THEN p ELSE st.slot[q]],
             ends |-> IF free = {} THEN Append(st.ends, intervals[r][2])
                      ELSE [st.ends EXCEPT ![p] = intervals[r][2]]]

\* A register without an interval gets a slot of its own.
OwnSlot(st, r) ==
    IF r \in DOMAIN st.slot THEN st
    ELSE [slot |-> [q \in DOMAIN st.slot \cup {r} |-> IF q = r THEN Len(st.ends) + 1 ELSE st.slot[q]],
          ends |-> Append(st.ends, -1)]

Referenced(f) ==
    UNION {UNION {Reads(i) \cup {i.dst} : i \in ToSet(Append(b.instrs, b.term))} : b \in ToSet(f.blocks)}
    \ {0}

Reassign(slot, ins) ==
    [ins EXCEPT !.uses = [i \in DOMAIN @ |-> slot[@[i]]], !.dst = IF @ = 0 THEN 0 ELSE slot[@]]

\* The registers in the order in which their intervals start.
ByStart(intervals) ==
    FlattenSeq([p \in 1..(Max({intervals[r][1] : r \in DOMAIN intervals} \cup {0}) + 1) |->
                   Ascending({r \in DOMAIN intervals : intervals[r][1] = p - 1})])
LinearScan(f, intervals) ==
    Fold(LAMBDA st, r : ScanRegister(intervals, st, r),
         [slot |-> [p \in 1..Len(f.params) |-> p], ends |-> [p \in 1..Len(f.params) |-> -1]],
         ByStart(intervals))
Assigned(f, all) ==
    [f EXCEPT !.regs = Len(all.ends),
              !.blocks = [i \in DOMAIN @ |->
                 Block([j \in DOMAIN @[i].instrs |-> Reassign(all.slot, @[i].instrs[j])],
                       Reassign(all.slot, @[i].term))]]
reg_alloc(f) == Assigned(f, Fold(OwnSlot, LinearScan(f, Intervals(f)), Ascending(Referenced(f))))
=============================================================================
