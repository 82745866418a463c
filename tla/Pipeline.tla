------------------------------- MODULE Pipeline -------------------------------
(***************************************************************************)
(* The pass pipeline (qy/passes/pipeline.py, qy/build/pipeline.py) from    *)
(* the surface forms of a unit to bytecode, and what the runtime API       *)
(* (qy/runtime.py, evaluate_form_async in machine.py) does with the        *)
(* result.  What a pass computes is a parameter here: Frontend gives it    *)
(* for the passes up to HIR.  Of those from MIR on only the diagnostics    *)
(* are kept (module Compiler has the rest).  A diagnostic is               *)
(* [rule, severity].                                                       *)
(***************************************************************************)
EXTENDS Integers, Sequences, FiniteSets

CONSTANTS
    Programs,       \* id -> the surface forms of a unit
    Jobs,           \* the jobs: [prog, entry, threshold, target, kind]
    Expand(_, _),   \* of forms and a session: the core forms, failed, the session then
    Lower(_, _),    \* of forms and a session: their HIR, its spaces, the rules it breaks
    Layout(_, _),   \* of HIR and its spaces: the symbol-space layout
    Check(_, _, _), \* of HIR, the errors it has and a session: more diagnostics
    Escapes(_)      \* of HIR: the effects performed outside their handlers

None == "none"   \* no kind, no target, no answer yet
Entries == {"program", "form", "core"}
Kinds == {"surface-forms", "core-ast", "hir", "hir-validated", "mir", "lir", "bytecode"}
Diag(rule, severity) == [rule |-> rule, severity |-> severity]
Errors(ds) == {d \in ds : d.severity = "error"}

\* A kind may be left empty; every threshold of the program's callers is positive.
ASSUME JobsAssumption ==
    \A j \in Jobs : j.entry \in Entries /\ j.kind \in Kinds \cup {None} /\ j.threshold \in Nat \ {0}

VARIABLES job,      \* what is compiled, by which entry, with which options
          pc,       \* the next pass, an index of Passes
          kind,     \* current_kind
          art,      \* current_artifact
          diags,    \* the diagnostics collected
          success,
          env,      \* the session: source modules, macro namespaces, hidden bindings
          mismatch, \* a pass was refused its input
          answer    \* None while compiling, then what the caller got

buildVars == <<job, pc, kind, art, diags, success, env, mismatch, answer>>

Pass(name, in, out) == [name |-> name, in |-> in, out |-> out]

\* Mutation of ValidateHIRPass: the output kind that its description names.
MutValidatedKind == Pass("hir.validate", "hir", "hir-validated")
ValidateHIRPass == Pass("hir.validate", "hir", "hir")

\* build_default_pipeline, from macro.expand on.
Passes == <<Pass("macro.expand", "surface-forms", "core-ast"), Pass("hir.lower", "core-ast", "hir"),
            Pass("resolve.spaces", "hir", "hir"), ValidateHIRPass, Pass("effect.analyze", "hir", "hir"),
            Pass("mir.lower", "hir", "mir"), Pass("mir.validate", "mir", "mir"), Pass("optimize.mir", "mir", "mir"),
            Pass("lir.lower", "mir", "lir"), Pass("lir.select_builtins", None, None), Pass("lir.verify", "lir", "lir"),
            Pass("emit.bytecode", "lir", "bytecode")>>

-----------------------------------------------------------------------------
(* The passes.  Between two of them a program is its forms, or its HIR and   *)
(* what the passes attached to it.                                           *)

\* own: program.diagnostics; empty: it has no functions.
Artifact(fs) == [forms |-> fs, es |-> <<>>, spaces |-> <<>>, own |-> {}, layout |-> <<>>, empty |-> FALSE]
Result(ok, a, ds, e) == [ok |-> ok, art |-> a, diags |-> ds, env |-> e]

\* A form that fails is dropped; that some did is one diagnostic here.
ExpansionError == Diag("expansion", "error")
CoreResult(x) ==
    Result(TRUE, [art EXCEPT !.forms = x.forms], IF x.failed THEN {ExpansionError} ELSE {}, x.env)
MacroExpandPass == CoreResult(Expand(art.forms, env))
HirResult(p) ==
    LET ds == {Diag(r, "error") : r \in p.broken}
    IN Result(TRUE, [art EXCEPT !.es = p.es, !.spaces = p.spaces, !.own = ds], ds, env)
LowerHIRPass == HirResult(Lower(art.forms, env))
ResolveSpacesPass == Result(TRUE, [art EXCEPT !.layout = Layout(art.es, art.spaces)], {}, env)
RunValidateHIR ==
    LET ds == Check(art.es, Errors(art.own), env)
    IN Result(Errors(ds) = {}, [art EXCEPT !.own = @ \cup ds], ds, env)
EffectAnalyzePass == Result(TRUE, art, {Diag("EA1", "hint") : n \in Escapes(art.es)}, env)

\* ValidateMIRPass.  Unresolved nodes may make the MIR of a wrong program invalid.
ValidateMIRPass(bad) ==
    LET ds == IF bad THEN {Diag("mir", "error")} ELSE {}
    IN Result(~bad, [art EXCEPT !.own = @ \cup ds], ds, env)
\* lower_lir gives no functions for a program with errors.
LowerLIRPass == Result(TRUE, [art EXCEPT !.empty = Errors(art.own) # {}], {}, env)
VerifyLIRPass ==
    LET ds == IF art.empty THEN {Diag("no-main", "error")} ELSE {}
    IN Result(~art.empty, [art EXCEPT !.own = @ \cup ds], ds, env)
EmitBytecodePass == Result(TRUE, [art EXCEPT !.empty = Errors(art.own) # {}], {}, env)

RunPass(name, bad) ==
    CASE name = "macro.expand" -> MacroExpandPass
      [] name = "hir.lower" -> LowerHIRPass
      [] name = "resolve.spaces" -> ResolveSpacesPass
      [] name = "hir.validate" -> RunValidateHIR
      [] name = "effect.analyze" -> EffectAnalyzePass
      [] name = "mir.validate" -> ValidateMIRPass(bad)
      [] name = "lir.lower" -> LowerLIRPass
      [] name = "lir.verify" -> VerifyLIRPass
      [] name = "emit.bytecode" -> EmitBytecodePass
      [] OTHER -> Result(TRUE, art, {}, env)     \* mir.lower, optimize.mir, lir.select_builtins

-----------------------------------------------------------------------------
\* The entry "core" starts after macro expansion (compile_core_forms_to_bytecode_async).
Start(j) == IF j.entry = "core" THEN 2 ELSE 1
BuildInit ==
    /\ job \in Jobs
    /\ pc = Start(job)
    /\ kind = job.kind
    /\ art = Artifact(Programs[job.prog]) /\ diags = {} /\ success = TRUE
    /\ env = [mods |-> <<>>, macros |-> <<>>, root |-> <<>>] /\ mismatch = FALSE /\ answer = None

\* should_stop_after the pass before pc, or no pass is left.
Stopped ==
    \/ pc > Len(Passes) \/ ~success
    \/ pc > Start(job) /\ job.target = Passes[pc - 1].name

\* fail_with_kind_mismatch.
KindMismatch ==
    /\ answer = None /\ ~Stopped
    /\ Passes[pc].in # None /\ kind \notin {None, Passes[pc].in}
    /\ mismatch' = TRUE /\ success' = FALSE /\ diags' = diags \cup {Diag("kind", "error")}
    /\ UNCHANGED <<job, pc, kind, art, env, answer>>

\* absorb: the diagnostics are counted, the result becomes the current artifact.
RunNext(bad) ==
    /\ answer = None /\ ~Stopped
    /\ Passes[pc].in = None \/ kind \in {None, Passes[pc].in}
    /\ bad => Passes[pc].name = "mir.validate" /\ Errors(art.own) # {}
    /\ \E r \in {RunPass(Passes[pc].name, bad)} :
          /\ art' = r.art /\ env' = r.env /\ diags' = diags \cup r.diags
          /\ success' = (r.ok /\ Cardinality(Errors(diags')) < job.threshold)
    /\ kind' = IF Passes[pc].out = None THEN kind ELSE Passes[pc].out
    /\ pc' = pc + 1
    /\ UNCHANGED <<job, mismatch, answer>>

\* Mutation of Raises: evaluate_program looks at the bytecode only.
MutRaisesOwnOnly ==
    CASE job.entry = "program" -> kind # "bytecode" \/ Errors(art.own) # {}
      [] job.entry = "form" -> ~success \/ kind # "bytecode" \/ Errors(art.own) # {}
      [] OTHER -> FALSE

\* What the caller does: evaluate_program raises on every error diagnostic,
\* evaluate_form only when the pipeline did not succeed; the virtual machine
\* raises on the errors that came with the bytecode.
Raises == CASE job.entry = "program" -> Errors(diags) # {} \/ (kind = "bytecode" /\ Errors(art.own) # {})
            [] job.entry = "form" -> ~success \/ kind # "bytecode" \/ Errors(art.own) # {}
            [] OTHER -> FALSE
Answer ==
    /\ answer = None /\ Stopped
    /\ answer' = IF job.entry = "core" \/ job.target # None THEN "result"
                 ELSE IF Raises THEN "raised" ELSE IF kind = "bytecode" THEN "ran" ELSE "nothing"
    /\ UNCHANGED <<job, pc, kind, art, diags, success, env, mismatch>>

BuildNext == KindMismatch \/ (\E bad \in BOOLEAN : RunNext(bad)) \/ Answer
BuildSpec == BuildInit /\ [][BuildNext]_buildVars

-----------------------------------------------------------------------------
(* Properties. *)

\* Type invariant.
BuildTypeOK ==
    /\ job \in Jobs /\ pc \in 1..(Len(Passes) + 1) /\ success \in BOOLEAN /\ mismatch \in BOOLEAN
    /\ kind \in Kinds \cup {None}
    /\ answer \in {None, "ran", "raised", "nothing", "result"}
    /\ art.own \subseteq diags

\* The kinds of the artifacts: no pass is refused the artifact of the one before it,
\* whatever the entry, the target and the diagnostics; only a caller that starts
\* the pipeline with the wrong kind is refused, at the first pass (Pipeline.run).
KindsFit == mismatch => pc = Start(job) /\ job.kind \notin {None, Passes[pc].in}

\* The errors decide what a caller gets, although the pipeline goes on after most
\* of them.  What runs has none - evaluate_form's only that of a form whose
\* expansion failed and which was dropped.  A program without one is not refused,
\* and one that could not be compiled is never taken for an empty program (the
\* comment at _evaluate_program_via_pipeline says why this would be wrong).
ErrorsDecide ==
    /\ answer = "ran" => \A d \in Errors(diags) : job.entry = "form" /\ d = ExpansionError
    /\ answer = "raised" => Errors(diags) # {}
    /\ answer # "nothing"
=============================================================================
