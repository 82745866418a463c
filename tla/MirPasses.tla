------------------------------ MODULE MirPasses ------------------------------
(***************************************************************************)
(* The other passes of OPTIMIZE_PASSES, on whole MIR programs: constants   *)
(* (const_prop, const_fold, strength_reduce, intern), stores and common    *)
(* expressions (dse, cse) and tuples (scalar_replace).                     *)
(***************************************************************************)
EXTENDS MirProgram

Instrs(f) == FlattenSeq([b \in DOMAIN f.blocks |-> f.blocks[b].instrs])
\* The instructions in the order in which the blocks are stored, which after inlining
\* is not that of their numbers.
StoredInstrs(f) == FlattenSeq([i \in DOMAIN f.order |-> f.blocks[f.order[i]].instrs])
AllInstrs(p) == UNION {ToSet(Instrs(f)) : f \in ToSet(p.functions)}
\* f with the instructions of each block replaced.
MapBlocks(f, New(_)) ==
    WithBlocks(f, [b \in DOMAIN f.blocks |-> Block(New(f.blocks[b].instrs), f.blocks[b].term)])
rebuild_program(p, functions) == [p EXCEPT !.functions = functions]
EachFunction(p, Pass(_)) ==
    rebuild_program(p, [i \in DOMAIN p.functions |-> Pass(p.functions[i])])

\* facts.shadowed_names: what a define or a let of the program binds, anywhere.
\* (An import binds names too; programs here have none.)  Parameters are not in it.
shadowed_names(p) ==
    {ins.sym : ins \in {i \in AllInstrs(p) : i.op \in {"DEFINE_ONCE", "STORE_LOCAL"}}}

-----------------------------------------------------------------------------
(* Passes that replace an instruction whose value they know by the load of  *)
(* a new constant.  Known is that value in a set, empty when not known.     *)

_SAFE_LITERAL_KINDS == {"number", "nil", "T"}

\* const_prop: the load of a literal spelling that nothing in the program binds.
\* _env_agrees: the environment of the session binds it to the same value.
PropagatedValue(shadowed, ins) ==
    {v \in {Globals(ins.sym)} : /\ ins.op = "LOAD_ENV" /\ ins.sym \in DOMAIN Literals
                                /\ ins.sym \notin shadowed /\ v.k \in _SAFE_LITERAL_KINDS}

\* _unique_definitions: the instructions that write a register no other writes.
Definitions(f, r) == {i \in DOMAIN Instrs(f) : Instrs(f)[i].dst = r}
IsUnique(f, r, op) == /\ Cardinality(Definitions(f, r)) = 1
                      /\ \A i \in Definitions(f, r) : Instrs(f)[i].op = op
TheDefinition(f, r) == Instrs(f)[CHOOSE i \in Definitions(f, r) : TRUE]

\* const_fold: the call of a pure operator nothing binds, on constants, that does
\* not fail.
FoldedValue(f, pool, shadowed, ins) ==
    IF ins.op # "CALL" \/ ~IsUnique(f, ins.uses[1], "LOAD_ENV")
       \/ \E i \in 2..Len(ins.uses) : ~IsUnique(f, ins.uses[i], "LOAD_CONST") THEN {}
    ELSE LET op == TheDefinition(f, ins.uses[1]).sym
             args == [i \in 1..(Len(ins.uses) - 1) |-> pool[TheDefinition(f, ins.uses[i + 1]).ref]]
         IN {v \in {OperatorValue(op, args)} : op \in PureOperators \ shadowed /\ v.k # "error"}

\* strength_reduce: a product of two constants, by the last instruction that writes
\* each register, whatever is bound to *.  It asks for numbers of the host; the
\* numbers of the pool are NumberValue.
LastWrites(f, r, op) == Definitions(f, r) # {} /\ Instrs(f)[Max(Definitions(f, r))].op = op
LastWrite(f, r) == Instrs(f)[Max(Definitions(f, r))]
ReducedValue(f, pool, ins) ==
    IF /\ ins.op = "CALL" /\ Len(ins.uses) = 3
       /\ LastWrites(f, ins.uses[1], "LOAD_ENV") /\ LastWrite(f, ins.uses[1]).sym = "*"
       /\ \A i \in {2, 3} : /\ LastWrites(f, ins.uses[i], "LOAD_CONST")
                            /\ pool[LastWrite(f, ins.uses[i]).ref].k = "host number"
    THEN {OperatorValue("*", [i \in 1..2 |-> pool[LastWrite(f, ins.uses[i + 1]).ref]])} ELSE {}

Known(rule, f, pool, shadowed, ins) ==
    CASE rule = "const_prop" -> PropagatedValue(shadowed, ins)
      [] rule = "const_fold" -> FoldedValue(f, pool, shadowed, ins)
      [] rule = "strength_reduce" -> ReducedValue(f, pool, ins)

\* One sweep over a function threads the pool through its blocks; the sweeps are
\* repeated until nothing changes.
LoadKnown(st, ins, known) ==
    IF known = {} THEN [st EXCEPT !.out = Append(@, ins)]
    ELSE [pool |-> st.pool \o SetToSeq(known),
          out |-> Append(st.out, Ref("LOAD_CONST", ins.dst, Len(st.pool) + 1))]
BlockDone(st, b, r) == [pool |-> r.pool, blocks |-> Append(st.blocks, Block(r.out, b.term))]
Sweep(rule, shadowed, f, pool) ==
    LET instr(st, ins) == LoadKnown(st, ins, Known(rule, f, st.pool, shadowed, ins))
        block(st, b) == BlockDone(st, b, Fold(instr, [pool |-> st.pool, out |-> <<>>], b.instrs))
    IN Fold(block, [pool |-> pool, blocks |-> <<>>], f.blocks)
RECURSIVE Settle(_, _, _, _)
Settle(rule, shadowed, f, sweep) ==
    IF sweep.blocks = f.blocks THEN [f |-> f, pool |-> sweep.pool]
    ELSE LET g == WithBlocks(f, sweep.blocks)
         IN Settle(rule, shadowed, g, Sweep(rule, shadowed, g, sweep.pool))

WithConstants(q, i, r) == [q EXCEPT !.functions[i] = r.f, !.constants = r.pool]
ConstantPass(rule, p) ==
    LET function(q, i) ==
            WithConstants(q, i, Settle(rule, shadowed_names(p), q.functions[i],
                                       Sweep(rule, shadowed_names(p), q.functions[i], q.constants)))
    IN Fold(function, p, [i \in DOMAIN p.functions |-> i])

\* intern: a pool without equal constants, where only values whose identity cannot
\* be seen are merged; the loads are renumbered.
_intern_key(v) == v.k \in _SAFE_LITERAL_KINDS
intern(p) ==
    LET add(st, v) ==
            LET same == {i \in DOMAIN st.pool : _intern_key(v) /\ st.pool[i] = v}
            IN IF same = {} THEN [pool |-> Append(st.pool, v), map |-> Append(st.map, Len(st.pool) + 1)]
               ELSE [st EXCEPT !.map = Append(@, Min(same))]
        new == Fold(add, [pool |-> <<>>, map |-> <<>>], p.constants)
        remap(ins) == IF ins.op = "LOAD_CONST" THEN [ins EXCEPT !.ref = new.map[@]] ELSE ins
        pass(f) == MapBlocks(f, LAMBDA instrs : [i \in DOMAIN instrs |-> remap(instrs[i])])
    IN [EachFunction(p, pass) EXCEPT !.constants = new.pool]

-----------------------------------------------------------------------------
(* dse: a store of a register with no use is dead.  The store itself is     *)
(* counted as a use.  A gather falls under the default of _uses: its        *)
(* register and the indices of its thunks.                                  *)

DseReads(ins) == IF ins.op = "ALL_GATHER" THEN {ins.dst, ins.ref} ELSE Reads(ins)
UseCount(f, r) ==
    Cardinality({i \in DOMAIN Instrs(f) : r \in DseReads(Instrs(f)[i])})
    + Cardinality({<<b, i>> \in (DOMAIN f.blocks) \X (1..3) :
                     i \in DOMAIN f.blocks[b].term.uses /\ f.blocks[b].term.uses[i] = r})

RECURSIVE dse(_)
dse(f) ==
    LET instr(st, ins) ==
            IF ins.op \in {"STORE_LOCAL", "DEFINE_ONCE"} /\ st.uses[ins.uses[1]] = 0
            THEN [st EXCEPT !.uses[ins.uses[1]] = @ - 1] ELSE [st EXCEPT !.out = Append(@, ins)]
        block(st, b) ==
            LET r == Fold(instr, [uses |-> st.uses, out |-> <<>>], b.instrs)
            IN [uses |-> r.uses, blocks |-> Append(st.blocks, Block(r.out, b.term))]
        blocks == Fold(block, [uses |-> [r \in 1..f.regs |-> UseCount(f, r)], blocks |-> <<>>],
                       f.blocks).blocks
    IN IF blocks = f.blocks THEN f ELSE dse(WithBlocks(f, blocks))

(* cse: a repeated load or closure becomes a move from the register of the  *)
(* first.  The key of an instruction holds its destination too, and the     *)
(* register of the first must not have been written at all.                 *)

RECURSIVE cse(_)
cse(f) ==
    LET safe == {"LOAD_CONST", "LOAD_ENV", "MAKE_FUNCTION"}
        instr(st, ins) ==
            LET d == IF ins.op \in safe \cup {"MOVE"} THEN ins.dst ELSE 0
                exprs == {e \in st.exprs : e.dst # d}
                defs == st.defs \cup ({d} \ {0})
                same == {e \in exprs : e = ins /\ e.dst \notin defs}
            IN IF ins.op \notin safe THEN [exprs |-> exprs, defs |-> defs, out |-> Append(st.out, ins)]
               ELSE IF same # {}
               THEN [exprs |-> exprs, defs |-> defs,
                     out |-> Append(st.out, Ins("MOVE", d, <<(CHOOSE e \in same : TRUE).dst>>, ""))]
               ELSE [exprs |-> exprs \cup {ins}, defs |-> defs, out |-> Append(st.out, ins)]
        block(st, b) ==
            LET r == Fold(instr, [exprs |-> st.exprs, defs |-> st.defs, out |-> <<>>], b.instrs)
            IN [exprs |-> r.exprs, defs |-> r.defs, blocks |-> Append(st.blocks, Block(r.out, b.term))]
        blocks == Fold(block, [exprs |-> {}, defs |-> {}, blocks |-> <<>>], f.blocks).blocks
    IN IF blocks = f.blocks THEN f ELSE cse(WithBlocks(f, blocks))

\* scalar_replace: the result of a tuple built here becomes the results of its parts.
RECURSIVE scalar_replace(_)
scalar_replace(f) ==
    LET instr(st, ins) ==
            LET known == {t \in st.tuples : ins.op = "APPEND_RESULT" /\ t.dst = ins.uses[1]}
                parts == (CHOOSE t \in known : TRUE).uses
                others == {t \in st.tuples : t.dst # CopyDef(ins)}
            IN [tuples |-> IF ins.op = "BUILD_TUPLE" THEN others \cup {ins} ELSE others,
                out |-> IF known = {} THEN Append(st.out, ins)
                        ELSE st.out \o [i \in DOMAIN parts |-> Ins("APPEND_RESULT", 0, <<parts[i]>>, "")]]
        block(st, id) ==
            LET r == Fold(instr, [tuples |-> st.tuples, out |-> <<>>], f.blocks[id].instrs)
            IN [tuples |-> r.tuples, blocks |-> [st.blocks EXCEPT ![id].instrs = r.out]]
        blocks == Fold(block, [tuples |-> {}, blocks |-> f.blocks], f.order).blocks
    IN IF blocks = f.blocks THEN f ELSE scalar_replace(WithBlocks(f, blocks))
=============================================================================
