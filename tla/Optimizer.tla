------------------------------ MODULE Optimizer ------------------------------
(***************************************************************************)
(* optimize.mir of the default pipeline: the passes of OPTIMIZE_PASSES in  *)
(* their order, one action each, on the MIR of a compilation unit.         *)
(***************************************************************************)
EXTENDS MirVerify

CONSTANT Units    \* compilation units: the top-level forms of each

VARIABLES body,      \* the unit
          program,   \* its MIR
          done       \* passes that have run

vars == <<body, program, done>>

_pass_factories ==
    <<"const_prop", "const_fold", "copy_prop", "dce", "dse", "cse", "strength_reduce", "cfg_simplify",
      "tailcall", "licm", "loop_opt", "inline", "aggressive_inline", "scalar_replace", "intern", "dce",
      "cfg_simplify", "reg_alloc">>

RECURSIVE BoundNames(_)
\* lexical_names: what the symbol spaces of the unit bind.
BoundNames(e) ==
    (IF e.k \in {"let", "lambda", "define"} THEN {e.a[1].k} ELSE {})
    \cup UNION {BoundNames(e.a[i]) : i \in DOMAIN e.a}
lexical_names == UNION {BoundNames(body[i]) : i \in DOMAIN body}

\* A function of the passes also has the order in which its blocks are stored and,
\* for the properties, its place when it was lowered and whether code was inlined
\* into it whose jumps were not moved.
Stored(f, place) == [blocks |-> f.blocks, regs |-> f.regs, params |-> f.params,
                     order |-> [b \in DOMAIN f.blocks |-> b], place |-> place, unmoved |-> FALSE]
\* cfg_simplify stores the blocks by their numbers.
StoredByNumber(f) == [f EXCEPT !.order = [b \in DOMAIN f.blocks |-> b]]

\* Every constant of a lowered unit is the None that stands for nil.
Lowered(forms) ==
    LET p == lower_program(forms)
    IN [p EXCEPT !.constants = [i \in DOMAIN @ |-> NilValue],
                 !.functions = [i \in DOMAIN @ |-> Stored(@[i], i)]]

TypeOK ==
    /\ body \in Units
    /\ done \in 0..Len(_pass_factories)
    /\ program.main \in DOMAIN program.functions
    /\ \A v \in ToSet(program.constants) : v.k \in {"number", "nil", "T"}

\* mir.lower.
Init == body \in Units /\ program = Lowered(body) /\ done = 0

\* The next pass, on what the last one returned.
optimize_mir(name, result) ==
    /\ done < Len(_pass_factories) /\ _pass_factories[done + 1] = name
    /\ program' = result
    /\ done' = done + 1
    /\ UNCHANGED body

Next ==
    \/ optimize_mir("const_prop", ConstantPass("const_prop", program))
    \/ optimize_mir("const_fold", ConstantPass("const_fold", program))
    \/ optimize_mir("strength_reduce", ConstantPass("strength_reduce", program))
    \/ optimize_mir("copy_prop", EachFunction(program, copy_prop))
    \/ optimize_mir("dce", EachFunction(program, dce))
    \/ optimize_mir("dse", EachFunction(program, dse))
    \/ optimize_mir("cse", EachFunction(program, cse))
    \/ optimize_mir("cfg_simplify", EachFunction(program, LAMBDA f : StoredByNumber(cfg_simplify(f))))
    \/ optimize_mir("tailcall", EachFunction(program, tailcall))
    \/ optimize_mir("licm", EachFunction(program, licm))
    \/ optimize_mir("loop_opt", EachFunction(program, loop_opt))
    \/ optimize_mir("inline", inline(program, lexical_names))
    \/ optimize_mir("aggressive_inline", aggressive_inline(program, lexical_names))
    \/ optimize_mir("scalar_replace", EachFunction(program, scalar_replace))
    \/ optimize_mir("intern", intern(program))
    \/ optimize_mir("reg_alloc", EachFunction(program, reg_alloc))

Spec == Init /\ [][Next]_vars

-----------------------------------------------------------------------------
(* Properties. *)

(* What the passes do wrong to some units.                                  *)

\* A function was dropped whose place was before that of the thunk of a gather:
\* the gather keeps the old index of its thunk.
GatherMoved ==
    \E ins \in AllInstrs(program) :
        /\ ins.op = "ALL_GATHER"
        /\ \E i \in 1..ins.ref : \A f \in ToSet(program.functions) : f.place # i

\* A function was inlined whose own jumps were not moved with its blocks.
JumpsUnmoved == \E f \in ToSet(program.functions) : f.unmoved

\* A definition has lost its function to the one call at which it was inlined, and
\* the name is looked up again.
DefinitionLost ==
    \E f \in ToSet(program.functions) : \E def \in ReadsBeforeWrite(f) :
        \E ins \in AllInstrs(program) : ins.op = "LOAD_ENV" /\ ins.sym = def.sym

RECURSIVE NamesIn(_)
NamesIn(e) == {e.k} \cup UNION {NamesIn(e.a[i]) : i \in DOMAIN e.a}
RECURSIVE UsedParameters(_)
UsedParameters(e) ==
    (IF e.k = "lambda" /\ \E i \in 2..Len(e.a) : e.a[1].k \in NamesIn(e.a[i]) THEN {e.a[1].k} ELSE {})
    \cup UNION {UsedParameters(e.a[i]) : i \in DOMAIN e.a}
\* A function uses a parameter that is named like a literal or a pure operator,
\* which the constant passes take it to be.
ParameterShadows ==
    UNION {UsedParameters(body[i]) : i \in DOMAIN body} \cap (DOMAIN Literals \cup PureOperators) # {}


\* No pass makes an instruction read a register that was never written, except the
\* definition of a name whose function was inlined away, unless the jumps of
\* inlined code were not moved.
ReadsWritten ==
    JumpsUnmoved \/ \A f \in ToSet(program.functions) : \A ins \in ReadsBeforeWrite(f) :
                        ins.op = "DEFINE_ONCE"

\* Every function and constant an instruction names is one of the program's, and no
\* closure is made of the main function, although the inliner removes functions and
\* renumbers the rest, and the constant passes rebuild the pool; a gather names its
\* thunk until a function before the thunk is dropped, and anything from then on.
IndicesValid ==
    \A ins \in AllInstrs(program) :
        /\ ins.op = "MAKE_FUNCTION" => ins.ref \in DOMAIN program.functions \ {program.main}
        /\ ins.op = "ALL_GATHER" /\ ~GatherMoved =>
              ins.ref \in DOMAIN program.functions /\ program.functions[ins.ref].place = ins.ref
        /\ ins.op = "LOAD_CONST" => ins.ref \in DOMAIN program.constants

=============================================================================
