------------------------------ MODULE Compiler ------------------------------
(***************************************************************************)
(* The pipeline from a function body in HIR to the register VM's code, one *)
(* action per pass: mir.lower, the configured optimisation passes, the     *)
(* LIR lowering of the chosen dialect, and lir.select_builtins.  Each pass *)
(* replaces the artifact.                                                  *)
(***************************************************************************)
EXTENDS MirLower, MirOptimize, Exchange

CONSTANTS Builds,    \* what is compiled: a function body, the names of the
                     \* optimisation passes in order, PipelineOptions.lir_dialect
          Params     \* the parameters of the function

ASSUME BuildsAssumption ==
    \A b \in Builds : /\ b.dialect \in {"compat", "abstract-machine"}
                      /\ ToSet(b.passes) \subseteq {"copy_prop", "dce", "cfg_simplify", "reg_alloc"}

VARIABLES build,   \* the build
          fn,      \* the current artifact
          stage,   \* how far it has come
          done     \* optimisation passes that have run

vars == <<build, fn, stage, done>>

TypeOK ==
    /\ build \in Builds
    /\ stage \in {"hir", "mir", "linear", "effects", "peephole", "lir", "selected", "bytecode",
                  "loaded", "rejected"}
    /\ done \in 0..Len(build.passes)

Init == build \in Builds /\ fn = <<>> /\ stage = "hir" /\ done = 0

Step(from, to, artifact) ==
    stage = from /\ stage' = to /\ fn' = artifact /\ UNCHANGED <<build, done>>

\* The first function of a builder, with the constants of the program.
FirstFunction(b) == [blocks |-> b.fns[1].blocks, regs |-> b.fns[1].regs, params |-> b.fns[1].params, consts |-> b.consts]
LowerMir ==
    Step("hir", "mir", FirstFunction(lower_function(Params, <<build.expr>>, NewBuilder(<<>>, <<>>))))

\* optimize_mir runs the passes in sequence.
Optimize(name, artifact) ==
    /\ stage = "mir" /\ done < Len(build.passes) /\ build.passes[done + 1] = name
    /\ fn' = artifact
    /\ done' = done + 1
    /\ UNCHANGED <<build, stage>>

OptimizeMir ==
    \/ Optimize("copy_prop", copy_prop(fn))
    \/ Optimize("dce", dce(fn))
    \/ Optimize("cfg_simplify", cfg_simplify(fn))
    \/ Optimize("reg_alloc", reg_alloc(fn))

Linearize == done = Len(build.passes) /\ Step("mir", "linear", linearize(fn))

LowerCompat ==
    /\ build.dialect = "compat"
    /\ \/ Step("linear", "effects", lower_compat_effects(fn))
       \/ Step("effects", "peephole", peephole(fn))
       \/ Step("peephole", "lir", compact_registers(fn))

LowerAbstractMachine ==
    build.dialect = "abstract-machine" /\ Step("linear", "lir", lower_effects(_normalize_loads(fn)))

SelectBuiltinCalls == Step("lir", "selected", _select_in_function(fn))

EmitBytecode == Step("selected", "bytecode", compile_lir_bytecode(fn, build.dialect))

\* qy export in one process and run_bytecode_json in another.
Export ==
    /\ stage = "bytecode"
    /\ LET loaded == load_bytecode_json(serialize_bytecode_json(fn))
       IN \/ ~LoadRaises(loaded) /\ Step("bytecode", "loaded", loaded)
          \/ LoadRaises(loaded) /\ Step("bytecode", "rejected", fn)

Next == LowerMir \/ OptimizeMir \/ Linearize \/ LowerCompat \/ LowerAbstractMachine
        \/ SelectBuiltinCalls \/ EmitBytecode \/ Export

Spec == Init /\ [][Next]_vars

-----------------------------------------------------------------------------
(* Properties. *)

\* After lowering and after every optimisation pass the function does what the
\* expression means, under every environment: the same calls and effects with
\* the same arguments in the same order, and the same value or error.
MirPreserves ==
    stage = "mir" => \A env \in Envs : MirMeaning(fn, env) = Meaning(build.expr, env)

\* The same of the code for the register VM, in LIR and in bytecode: no jump,
\* resume target or register is lost when instructions vanish or appear, a call
\* that was selected calls the operator its register would have held, and the None of
\* the compiler, which the VM would take for true, has become nil.
LirPreserves ==
    stage \in {"lir", "selected", "bytecode"} =>
        \A env \in Envs : LirMeaning(fn, env) = Meaning(build.expr, env)

\* What reaches lir.verify passes it, in both dialects: no placeholder is left, no
\* target or register out of range, the handlers nested; no scope is left that was
\* not entered, and optimised code holds nothing that cannot be reached.
LirAccepted ==
    /\ TypeOK
    /\ stage = "selected" =>
        /\ verify_lir(fn, build.dialect)
        /\ ~Underflow(fn.code, "ENTER_SCOPE", "EXIT_SCOPE")
        /\ build.passes # <<>> => UnreachableAt(fn.code) = {}

\* What another process loads is the program that was exported, instruction for
\* instruction and constant for constant; it refuses exactly the programs with a
\* constant that holds an object of the host.
ExchangeExact ==
    [][stage = "bytecode" =>
         IF \E i \in DOMAIN fn.consts : HasPart(fn.consts[i], X("host", <<>>))
         THEN stage' = "rejected" ELSE stage' = "loaded" /\ fn' = fn]_vars
=============================================================================
