---------------------------- MODULE RuntimeProofs ----------------------------
(***************************************************************************)
(* Two parts of the runtime.  The cache, for every set of callers and      *)
(* every number of cancellations: types hold, CACHE_EVAL evaluates e at    *)
(* most once at a time, and a caller of it only ever writes or discards    *)
(* its own cache entry.  The pass pipeline, for every program and whatever *)
(* its passes compute: they fit together, and the errors they report       *)
(* decide what a caller gets.                                              *)
(***************************************************************************)
EXTENDS CacheEval, Pipeline, FiniteSetTheorems, TLAPS

-----------------------------------------------------------------------------
(* (cache e). *)

\* A caller of the opcode only awaits the task it created, and has none before.
OwnTask ==
    ~legacy => \A c \in Callers : on[c] = c /\ (call[c] = "idle" => task[c] = "new")

\* The inductive invariant: with the opcode, what runs and what is awaited is
\* what the cache names.
IInv == TypeOK /\ OwnTask /\ OwnEntry /\ RunningIsCached

\* What the three kinds of cache entry are.
LEMMA EntryKinds ==
    ASSUME NEW c \in Callers
    PROVE  /\ NoEntry(c) \in Entry /\ TaskEntry(c) \in Entry /\ ValueEntry(c) \in Entry
           /\ NoEntry(c).kind = "none" /\ TaskEntry(c).kind = "task"
           /\ ValueEntry(c).kind = "value"
           /\ TaskEntry(c).of = c /\ ValueEntry(c).of = c
BY DEF Entry, NoEntry, TaskEntry, ValueEntry

\* The cache starts empty and nobody waits.
LEMMA InitIInv == Init => IInv
<1> SUFFICES ASSUME Init PROVE IInv
    OBVIOUS
<1>1. TypeOK
    BY MaxCancelsAssumption DEF Init, TypeOK, Outcome, TaskStates, NoEntry, Entry
<1> QED BY <1>1 DEF Init, IInv, OwnTask, OwnEntry, RunningIsCached

\* A miss finds nobody waiting and nothing running, so the entry it writes is the
\* only one anybody relies on (create_task, then cache_define, in one step).
LEMMA MissIInv ==
    ASSUME IInv, UNCHANGED legacy, NEW c \in Callers, Miss(c) PROVE IInv'
<1>1. cache' = TaskEntry(c) /\ call' = [call EXCEPT ![c] = "await"]
      /\ task' = [task EXCEPT ![c] = "running"] /\ on' = [on EXCEPT ![c] = c]
    BY DEF Miss, StartTask
<1>2. TypeOK'
    BY <1>1, EntryKinds DEF IInv, TypeOK, Miss, TaskStates
<1>3. CASE legacy
    BY <1>2, <1>3 DEF IInv, OwnTask, OwnEntry, RunningIsCached
<1>4. CASE ~legacy
  <2>1. \A d \in Callers : call[d] # "await" /\ task[d] # "running"
      BY <1>4, EntryKinds DEF Miss, IInv, OwnEntry, RunningIsCached
  <2>2. OwnEntry' /\ RunningIsCached'
      BY <1>1, <1>4, <2>1 DEF OwnEntry, RunningIsCached, IInv, TypeOK
  <2>3. OwnTask'
      BY <1>1, <1>4 DEF OwnTask, IInv, TypeOK
  <2> QED BY <1>2, <2>2, <2>3 DEF IInv
<1> QED BY <1>3, <1>4

\* A hit leaves the entry alone, whether it hands out a value or the task, or
\* waits for the task.
LEMMA HitIInv ==
    ASSUME IInv, UNCHANGED legacy, NEW c \in Callers, HitValue(c) \/ HitTask(c) PROVE IInv'
<1>1. cache.of \in Callers
    BY DEF IInv, TypeOK, Entry
<1>2. CASE legacy /\ HitTask(c)
  <2>1. TypeOK'
      BY <1>1, <1>2 DEF HitTask, IInv, TypeOK
  <2> QED BY <1>2, <2>1 DEF IInv, OwnTask, OwnEntry, RunningIsCached
<1>3. CASE ~(legacy /\ HitTask(c))
  <2>1. /\ cache' = cache /\ task' = task /\ on' = on
        /\ call' = [call EXCEPT ![c] = "finished"]
        /\ mustCancel' = mustCancel \ {c}
        /\ cancelReq' = cancelReq /\ cancels' = cancels
        /\ \E k \in {"value", "task"} : result' = [result EXCEPT ![c] = [kind |-> k, of |-> cache.of]]
      BY <1>3 DEF HitValue, HitTask, Finish
  <2>2. TypeOK'
      BY <1>1, <2>1 DEF IInv, TypeOK, Outcome
  <2> QED BY <2>1, <2>2 DEF IInv, TypeOK, OwnTask, OwnEntry, RunningIsCached
<1> QED BY <1>2, <1>3

\* The end of the evaluation leaves the entry to its owner.
LEMMA TaskEndIInv ==
    ASSUME IInv, UNCHANGED legacy, NEW c \in Callers, EndSome(c) PROVE IInv'
<1>1. PICK o \in TaskStates \ {"new", "running"} : TaskEnd(c, o)
    BY DEF EndSome
<1>2. TypeOK'
    BY <1>1 DEF TaskEnd, IInv, TypeOK
<1> QED BY <1>1, <1>2 DEF TaskEnd, IInv, TypeOK, OwnTask, OwnEntry, RunningIsCached

\* The owner replaces or removes an entry that nobody else relies on.
LEMMA ResumeOwnerIInv ==
    ASSUME IInv, UNCHANGED legacy, NEW c \in Callers, ResumeOwner(c) PROVE IInv'
<1>1. /\ task' = task /\ on' = on /\ cancelReq' = cancelReq /\ cancels' = cancels
      /\ call' = [call EXCEPT ![c] = "finished"]
      /\ mustCancel' = mustCancel \ {c}
      /\ \E k \in {"value", "error", "cancelled"} :
            result' = [result EXCEPT ![c] = [kind |-> k, of |-> c]]
      /\ cache' \in {cache, NoEntry(c), ValueEntry(c)}
    BY DEF ResumeOwner, Finish
<1>2. TypeOK'
    BY <1>1, EntryKinds DEF IInv, TypeOK, Outcome
<1>3. CASE legacy
    BY <1>2, <1>3 DEF IInv, OwnTask, OwnEntry, RunningIsCached
<1>4. CASE ~legacy
  <2>1. cache = TaskEntry(c) /\ task[c] # "running" /\ call[c] = "await"
      BY <1>4 DEF ResumeOwner, IInv, OwnEntry
  <2>2. \A d \in Callers : d # c => call[d] # "await" /\ task[d] # "running"
      BY <1>4, <2>1, EntryKinds DEF IInv, OwnEntry, RunningIsCached
  <2>3. OwnEntry' /\ RunningIsCached'
      BY <1>1, <1>4, <2>1, <2>2 DEF OwnEntry, RunningIsCached, IInv, TypeOK
  <2>4. OwnTask'
      BY <1>1, <1>4 DEF OwnTask, IInv, TypeOK
  <2> QED BY <1>2, <2>3, <2>4 DEF IInv
<1> QED BY <1>3, <1>4

\* Only the legacy operator waits for another caller's task; types hold there.
LEMMA ResumeWaiterIInv ==
    ASSUME IInv, UNCHANGED legacy, NEW c \in Callers, ResumeWaiter(c) PROVE IInv'
<1>1. legacy
    BY DEF ResumeWaiter, IInv, OwnTask
<1>2. on[c] \in Callers
    BY DEF IInv, TypeOK
<1>3. TypeOK'
  <2>1. CASE StartTask(c) /\ UNCHANGED <<result, mustCancel>>
      BY <2>1, EntryKinds DEF ResumeWaiter, StartTask, IInv, TypeOK, TaskStates
  <2>2. CASE UNCHANGED <<task, on>> /\ \E k \in {"value", "error", "cancelled"} : Finish(c, k, on[c], cache)
    <3>1. PICK k \in {"value", "error", "cancelled"} : Finish(c, k, on[c], cache)
        BY <2>2
    <3> QED BY <1>2, <2>2, <3>1 DEF ResumeWaiter, Finish, IInv, TypeOK, Outcome
  <2> QED BY <2>1, <2>2 DEF ResumeWaiter
<1> QED BY <1>1, <1>3 DEF IInv, OwnTask, OwnEntry, RunningIsCached

\* A cancellation only asks; it changes no entry.
LEMMA CancelIInv ==
    ASSUME IInv, UNCHANGED legacy, NEW c \in Callers, Cancel(c) PROVE IInv'
<1>1. /\ UNCHANGED <<cache, task, call, on, result>>
      /\ cancels' = cancels + 1 /\ cancels < MaxCancels
      /\ cancelReq' \in {cancelReq, cancelReq \cup {on[c]}}
      /\ mustCancel' \in {mustCancel, mustCancel \cup {c}}
    BY DEF Cancel
<1>2. TypeOK'
  <2>1. on[c] \in Callers BY DEF IInv, TypeOK
  <2>2. cancels' \in 0..MaxCancels BY <1>1, MaxCancelsAssumption DEF IInv, TypeOK
  <2> QED BY <1>1, <2>1, <2>2 DEF IInv, TypeOK
<1> QED BY <1>1, <1>2 DEF IInv, OwnTask, OwnEntry, RunningIsCached

\* Every step of the callers, the tasks and the host keeps the invariant.
LEMMA StepIInv == IInv /\ [Next]_vars => IInv'
<1> SUFFICES ASSUME IInv, [Next]_vars PROVE IInv'
    OBVIOUS
<1>1. CASE UNCHANGED vars
    BY <1>1 DEF vars, IInv, TypeOK, OwnTask, OwnEntry, RunningIsCached
<1>2. ASSUME NEW c \in Callers, Call(c), UNCHANGED legacy PROVE IInv'
    BY <1>2, MissIInv, HitIInv DEF Call
<1>3. ASSUME NEW c \in Callers, EndSome(c), UNCHANGED legacy PROVE IInv'
    BY <1>3, TaskEndIInv
<1>4. ASSUME NEW c \in Callers, Resume(c), UNCHANGED legacy PROVE IInv'
    BY <1>4, ResumeOwnerIInv, ResumeWaiterIInv DEF Resume
<1>5. ASSUME NEW c \in Callers, Cancel(c), UNCHANGED legacy PROVE IInv'
    BY <1>5, CancelIInv
<1> QED BY <1>1, <1>2, <1>3, <1>4, <1>5 DEF Next

\* Type correctness of both implementations of (cache e), and of the opcode the
\* two invariants behind its results, for any number of callers and
\* cancellations: what runs is what the cache names, and an owner finds its own
\* task when it runs again.
THEOREM CacheInvariant == Spec => [](TypeOK /\ OwnEntry /\ RunningIsCached)
<1>1. IInv => TypeOK /\ OwnEntry /\ RunningIsCached
    BY DEF IInv
<1> QED BY InitIInv, StepIInv, <1>1, PTL DEF Spec

\* (cache e) is single-flight (RegisterVirtualMachine._cache_eval publishes the
\* task before it awaits it).
THEOREM CacheSingleFlight == Spec => []SingleFlight
<1>1. RunningIsCached => SingleFlight
    BY EntryKinds DEF RunningIsCached, SingleFlight
<1> QED BY CacheInvariant, <1>1, PTL

\* A value the opcode has cached is never replaced and e is not evaluated again.
THEOREM CacheValueFinal == Spec => ValueIsFinal
<1>1. IInv /\ [Next]_vars =>
        [~legacy /\ cache.kind = "value" => cache' = cache /\ \A c \in Callers :
            task[c] = "new" => task'[c] = "new"]_vars
  <2> SUFFICES ASSUME IInv, Next, ~legacy, cache.kind = "value"
               PROVE  cache' = cache /\ \A c \in Callers : task[c] = "new" => task'[c] = "new"
      OBVIOUS
  <2>1. PICK c \in Callers : Call(c) \/ EndSome(c) \/ Resume(c) \/ Cancel(c)
      BY DEF Next
  <2>2. \A d \in Callers : call[d] # "await" /\ task[d] # "running"
      BY EntryKinds DEF IInv, OwnEntry, RunningIsCached
  <2>3. HitValue(c)
      BY <2>1, <2>2 DEF Call, Miss, HitTask, EndSome, TaskEnd, Resume, ResumeOwner,
                        ResumeWaiter, Cancel
  <2> QED BY <2>3 DEF HitValue, Finish
<1> QED BY InitIInv, StepIInv, <1>1, PTL DEF Spec, ValueIsFinal

\* No caller of the legacy operator, finished or not, holds a task as its result.
LegacyValues == legacy => \A c \in Callers : result[c].kind # "task"

\* The legacy operator awaits a task it finds (_await_cached_value), so that each
\* of its callers gets the value, the error or the cancellation of an evaluation.
THEOREM LegacyValue == Spec => []LegacyResultIsValue
<1>1. Init => LegacyValues
    BY DEF Init, LegacyValues
<1>2. IInv /\ LegacyValues /\ [Next]_vars => LegacyValues'
  <2> SUFFICES ASSUME IInv, LegacyValues, [Next]_vars, legacy'
               PROVE  \A d \in Callers : result'[d].kind # "task"
      BY DEF LegacyValues
  <2>2. legacy /\ \A d \in Callers : result[d].kind # "task"
      BY DEF LegacyValues, Next, vars
  <2>3. ASSUME NEW c \in Callers, NEW k \in {"value", "error", "cancelled"}, NEW of,
               result' = [result EXCEPT ![c] = [kind |-> k, of |-> of]]
        PROVE  \A d \in Callers : result'[d].kind # "task"
      BY <2>2, <2>3 DEF IInv, TypeOK
  <2>4. CASE UNCHANGED result
      BY <2>2, <2>4
  <2>5. ASSUME NEW c \in Callers, HitValue(c) \/ ResumeOwner(c) \/ ResumeWaiter(c), ~ UNCHANGED result
        PROVE  \A d \in Callers : result'[d].kind # "task"
    <3>1. \E k \in {"value", "error", "cancelled"}, of \in Callers \cup {cache.of, on[c]} :
            result' = [result EXCEPT ![c] = [kind |-> k, of |-> of]]
        BY <2>5 DEF HitValue, ResumeOwner, ResumeWaiter, Finish, StartTask
    <3> QED BY <2>3, <3>1
  <2>6. ASSUME NEW c \in Callers, Miss(c) \/ HitTask(c) \/ EndSome(c) \/ Cancel(c)
        PROVE  UNCHANGED result
      BY <2>2, <2>6 DEF Miss, HitTask, EndSome, TaskEnd, Cancel
  <2> QED BY <2>4, <2>5, <2>6 DEF Next, Call, Resume, vars
<1>3. LegacyValues => LegacyResultIsValue
    BY DEF LegacyValues, LegacyResultIsValue, ResultIsValue
<1> QED BY <1>1, <1>2, <1>3, InitIInv, StepIInv, PTL DEF Spec

-----------------------------------------------------------------------------
(* The pass pipeline. *)

\* The kind that pass i is given, when it is not the first that runs.
KindAt == [i \in 1..13 |-> IF i = 1 THEN "surface-forms" ELSE IF i = 2 THEN "core-ast" ELSE IF i <= 6 THEN "hir"
                           ELSE IF i <= 9 THEN "mir" ELSE IF i <= 12 THEN "lir" ELSE "bytecode"]

HasFields(a) == {"own", "empty"} \subseteq DOMAIN a /\ a.empty \in BOOLEAN
PipelineTypes ==
    /\ job \in Jobs /\ pc \in Start(job)..13 /\ success \in BOOLEAN /\ mismatch \in BOOLEAN
    /\ answer \in {None, "ran", "raised", "nothing", "result"}
    /\ HasFields(art) /\ art.own \subseteq diags
KindFollows == kind = IF pc = Start(job) THEN job.kind ELSE KindAt[pc]

\* While no pass has failed, the errors collected are those the program itself
\* carries, and that some form was not expanded; a failure has an error.
ErrorsKept ==
    /\ success => Errors(diags) \subseteq art.own \cup {ExpansionError}
    /\ ~success => Errors(diags) # {}
    /\ pc <= 2 => art.own = {}
    /\ mismatch => ~success

\* The inductive invariant of the pipeline.
PipelineInv == PipelineTypes /\ KindFollows /\ ErrorsKept /\ KindsFit /\ ErrorsDecide

\* The passes one by one.
LEMMA PassAt ==
    /\ Passes[1] = Pass("macro.expand", "surface-forms", "core-ast")
    /\ Passes[2] = Pass("hir.lower", "core-ast", "hir")
    /\ Passes[3] = Pass("resolve.spaces", "hir", "hir")
    /\ Passes[4] = Pass("hir.validate", "hir", "hir")
    /\ Passes[5] = Pass("effect.analyze", "hir", "hir")
    /\ Passes[6] = Pass("mir.lower", "hir", "mir")
    /\ Passes[7] = Pass("mir.validate", "mir", "mir")
    /\ Passes[8] = Pass("optimize.mir", "mir", "mir")
    /\ Passes[9] = Pass("lir.lower", "mir", "lir")
    /\ Passes[10] = Pass("lir.select_builtins", None, None)
    /\ Passes[11] = Pass("lir.verify", "lir", "lir")
    /\ Passes[12] = Pass("emit.bytecode", "lir", "bytecode")
BY DEF Passes, ValidateHIRPass, None

\* What the list of passes is.
LEMMA PassList ==
    /\ Len(Passes) = 12
    /\ \A i \in 1..12 :
          /\ Passes[i].in \in {None, KindAt[i]} /\ Passes[i].name # None
          /\ KindAt[i + 1] = IF Passes[i].out = None THEN KindAt[i] ELSE Passes[i].out
          /\ Passes[i].out = None => i = 10
          /\ Passes[i].name = "hir.lower" => i = 2
          /\ Passes[i].name = "macro.expand" <=> i = 1
<1>1. Len(Passes) = 12
    BY DEF Passes
<1>2. ASSUME NEW i \in 1..12
      PROVE  /\ Passes[i].in \in {None, KindAt[i]} /\ Passes[i].name # None
             /\ KindAt[i + 1] = IF Passes[i].out = None THEN KindAt[i] ELSE Passes[i].out
             /\ Passes[i].out = None => i = 10
             /\ Passes[i].name = "hir.lower" => i = 2
             /\ Passes[i].name = "macro.expand" <=> i = 1
  <2>1. \/ i = 1 \/ i = 2 \/ i = 3 \/ i = 4 \/ i = 5 \/ i = 6
        \/ i = 7 \/ i = 8 \/ i = 9 \/ i = 10 \/ i = 11 \/ i = 12
      OBVIOUS
  <2> QED BY <2>1, PassAt DEF Pass, KindAt, None
<1> QED BY <1>1, <1>2

\* Only the entry "core" leaves macro expansion out.
LEMMA StartAt == Start(job) \in 1..2 /\ (job.entry = "core" <=> Start(job) = 2)
BY DEF Start

\* What follows a pass is a kind of artifact.
LEMMA KindAtKinds == \A i \in 1..13 : KindAt[i] \in Kinds
BY DEF KindAt, Kinds

\* Another field of the artifact does not touch its diagnostics.
LEMMA OwnStays ==
    ASSUME NEW a, HasFields(a), NEW v
    PROVE  /\ HasFields([a EXCEPT !.forms = v]) /\ [a EXCEPT !.forms = v].own = a.own
           /\ HasFields([a EXCEPT !.layout = v]) /\ [a EXCEPT !.layout = v].own = a.own
           /\ v \in BOOLEAN => HasFields([a EXCEPT !.empty = v]) /\ [a EXCEPT !.empty = v].own = a.own
           /\ HasFields([a EXCEPT !.own = v]) /\ [a EXCEPT !.own = v].own = v
BY DEF HasFields

\* What a pass may do with the errors: those it reports are in the diagnostics of
\* the program it makes, and it fails only with one.
PassKeeps(r) ==
    /\ HasFields(r.art) /\ art.own \subseteq r.art.own /\ r.art.own \subseteq art.own \cup r.diags
    /\ r.ok \in BOOLEAN
    /\ r.ok => Errors(r.diags) \subseteq r.art.own \cup {ExpansionError}
    /\ ~r.ok => Errors(r.diags) # {}

\* A result keeps the errors when its program and its diagnostics do.
LEMMA ResultKeeps ==
    ASSUME NEW ok \in BOOLEAN, NEW a, NEW ds, NEW e,
           HasFields(a), art.own \subseteq a.own, a.own \subseteq art.own \cup ds,
           ok => Errors(ds) \subseteq a.own \cup {ExpansionError},
           ~ok => Errors(ds) # {}
    PROVE  PassKeeps(Result(ok, a, ds, e))
BY DEF PassKeeps, Result

\* Macro expansion reports at most that forms were dropped.
LEMMA MacroExpandKeeps ==
    ASSUME HasFields(art)
    PROVE  PassKeeps(MacroExpandPass) /\ MacroExpandPass.art.own = art.own
<1>1. ASSUME NEW x PROVE PassKeeps(CoreResult(x)) /\ CoreResult(x).art.own = art.own
  <2> DEFINE a == [art EXCEPT !.forms = x.forms]
             ds == IF x.failed THEN {ExpansionError} ELSE {}
  <2>1. HasFields(a) /\ a.own = art.own /\ Errors(ds) \subseteq {ExpansionError}
      BY OwnStays DEF Errors
  <2>2. CoreResult(x) = Result(TRUE, a, ds, x.env)
      BY DEF CoreResult
  <2> HIDE DEF a, ds
  <2>3. PassKeeps(Result(TRUE, a, ds, x.env))
      BY <2>1, ResultKeeps
  <2>4. Result(TRUE, a, ds, x.env).art = a
      BY DEF Result
  <2> QED BY <2>1, <2>2, <2>3, <2>4
<1> QED BY <1>1 DEF MacroExpandPass

\* Lowering gives the program all that it reports.
LEMMA LowerHIRKeeps ==
    ASSUME HasFields(art), art.own = {}
    PROVE  PassKeeps(LowerHIRPass)
<1>1. ASSUME NEW p PROVE PassKeeps(HirResult(p))
  <2> DEFINE ds == {Diag(r, "error") : r \in p.broken}
             a == [art EXCEPT !.es = p.es, !.spaces = p.spaces, !.own = ds]
  <2>1. HasFields(a) /\ a.own = ds
      BY DEF HasFields
  <2>2. HirResult(p) = Result(TRUE, a, ds, env)
      BY DEF HirResult
  <2> HIDE DEF ds, a
  <2>3. Errors(ds) \subseteq ds
      BY DEF Errors
  <2> QED BY <2>1, <2>2, <2>3, ResultKeeps
<1> QED BY <1>1 DEF LowerHIRPass

\* A validator gives the program what it reports, and fails on an error.
LEMMA ValidateKeeps ==
    ASSUME HasFields(art), NEW ds, NEW a, a = [art EXCEPT !.own = art.own \cup ds]
    PROVE  PassKeeps(Result(Errors(ds) = {}, a, ds, env))
<1>1. HasFields(a) /\ a.own = art.own \cup ds
    BY OwnStays
<1>2. Errors(ds) \subseteq ds
    BY DEF Errors
<1> QED BY <1>1, <1>2, ResultKeeps

\* The HIR validator is one.
LEMMA RunValidateHIRKeeps ==
    ASSUME HasFields(art) PROVE PassKeeps(RunValidateHIR)
BY ValidateKeeps DEF RunValidateHIR

\* A list with one error, or none.
LEMMA OneError ==
    ASSUME NEW b \in BOOLEAN, NEW rule
    PROVE  (Errors(IF b THEN {Diag(rule, "error")} ELSE {}) = {}) = ~b
<1>1. Errors({Diag(rule, "error")}) = {Diag(rule, "error")} /\ Errors({}) = {}
    BY DEF Errors, Diag
<1> QED BY <1>1

\* So is the MIR validator,
LEMMA ValidateMIRKeeps ==
    ASSUME HasFields(art), NEW bad \in BOOLEAN PROVE PassKeeps(ValidateMIRPass(bad))
BY ValidateKeeps, OneError DEF ValidateMIRPass

\* and the LIR verifier.
LEMMA VerifyLIRKeeps ==
    ASSUME HasFields(art) PROVE PassKeeps(VerifyLIRPass)
BY ValidateKeeps, OneError DEF VerifyLIRPass, HasFields

\* A pass that reports no error and leaves the diagnostics of the program alone.
LEMMA OtherKeeps ==
    ASSUME HasFields(art), NEW a, HasFields(a), a.own = art.own, NEW ds, Errors(ds) = {}
    PROVE  PassKeeps(Result(TRUE, a, ds, env))
BY ResultKeeps

\* Hints are no errors.
LEMMA NoErrors == Errors({}) = {} /\ \A S : Errors({Diag("EA1", "hint") : n \in S}) = {}
BY DEF Errors, Diag

\* Every pass.
LEMMA PassKeepsErrors ==
    ASSUME HasFields(art), pc \in 1..12, pc = 2 => art.own = {}, NEW bad \in BOOLEAN,
           NEW r, r = RunPass(Passes[pc].name, bad)
    PROVE  PassKeeps(r) /\ (pc = 1 => r.art.own = art.own)
<1> DEFINE name == Passes[pc].name
<1>1. (name = "hir.lower" => pc = 2) /\ (pc = 1 => r.art.own = art.own)
    BY PassList, MacroExpandKeeps DEF RunPass
<1> SUFFICES PassKeeps(r)
    BY <1>1
<1>2. CASE name = "macro.expand"
  <2>1. r = MacroExpandPass BY <1>2 DEF RunPass
  <2> QED BY <2>1, MacroExpandKeeps
<1>3. CASE name = "hir.lower"
  <2>1. r = LowerHIRPass BY <1>3 DEF RunPass
  <2> QED BY <1>1, <1>3, <2>1, LowerHIRKeeps
<1>4. CASE name = "resolve.spaces"
  <2> DEFINE v == Layout(art.es, art.spaces)
             a == [art EXCEPT !.layout = v]
  <2>1. r = Result(TRUE, a, {}, env)
      BY <1>4 DEF RunPass, ResolveSpacesPass
  <2>2. HasFields(a) /\ a.own = art.own
      BY OwnStays
  <2> HIDE DEF a
  <2> QED BY <2>1, <2>2, NoErrors, OtherKeeps
<1>5. CASE name = "hir.validate"
  <2>1. r = RunValidateHIR BY <1>5 DEF RunPass
  <2> QED BY <2>1, RunValidateHIRKeeps
<1>6. CASE name = "effect.analyze"
  <2>1. r = EffectAnalyzePass BY <1>6 DEF RunPass
  <2> QED BY <2>1, NoErrors, OtherKeeps DEF EffectAnalyzePass
<1>7. CASE name = "mir.validate"
  <2>1. r = ValidateMIRPass(bad) BY <1>7 DEF RunPass
  <2> QED BY <2>1, ValidateMIRKeeps
<1>8. CASE name = "lir.lower"
  <2> DEFINE v == (Errors(art.own) # {})
             a == [art EXCEPT !.empty = v]
  <2>1. r = Result(TRUE, a, {}, env)
      BY <1>8 DEF RunPass, LowerLIRPass
  <2>2. HasFields(a) /\ a.own = art.own
      BY OwnStays
  <2> HIDE DEF a
  <2> QED BY <2>1, <2>2, NoErrors, OtherKeeps
<1>9. CASE name = "lir.verify"
  <2>1. r = VerifyLIRPass BY <1>9 DEF RunPass
  <2> QED BY <2>1, VerifyLIRKeeps
<1>10. CASE name = "emit.bytecode"
  <2> DEFINE v == (Errors(art.own) # {})
             a == [art EXCEPT !.empty = v]
  <2>1. r = Result(TRUE, a, {}, env)
      BY <1>10 DEF RunPass, EmitBytecodePass
  <2>2. HasFields(a) /\ a.own = art.own
      BY OwnStays
  <2> HIDE DEF a
  <2> QED BY <2>1, <2>2, NoErrors, OtherKeeps
<1>11. CASE name \notin {"macro.expand", "hir.lower", "resolve.spaces", "hir.validate", "effect.analyze",
                         "mir.validate", "lir.lower", "lir.verify", "emit.bytecode"}
  <2>1. r = Result(TRUE, art, {}, env) BY <1>11 DEF RunPass
  <2> QED BY <2>1, NoErrors, OtherKeeps
<1> QED BY <1>2, <1>3, <1>4, <1>5, <1>6, <1>7, <1>8, <1>9, <1>10, <1>11

\* Nothing is compiled yet.
LEMMA InitPipelineInv == BuildInit => PipelineInv
<1> SUFFICES ASSUME BuildInit PROVE PipelineInv
    OBVIOUS
<1>1. HasFields(art) /\ art.own = {}
    BY DEF BuildInit, Artifact, HasFields
<1>2. PipelineTypes
  <2>1. pc \in Start(job)..13
      BY StartAt DEF BuildInit
  <2>2. answer \in {None, "ran", "raised", "nothing", "result"}
      BY DEF BuildInit
  <2> QED BY <1>1, <2>1, <2>2 DEF PipelineTypes, BuildInit
<1>3. ErrorsKept
    BY <1>1 DEF ErrorsKept, BuildInit, Errors
<1> QED BY <1>1, <1>2, <1>3 DEF BuildInit, PipelineInv, KindFollows, KindsFit, ErrorsDecide, None

\* A refused artifact is one that the caller began with, and an error is reported.
LEMMA KindMismatchInv == PipelineInv /\ KindMismatch => PipelineInv'
<1> SUFFICES ASSUME PipelineInv, KindMismatch PROVE PipelineInv'
    OBVIOUS
<1>1. pc \in 1..12
    BY PassList, StartAt DEF PipelineInv, PipelineTypes, KindMismatch, Stopped
<1>2. pc = Start(job) /\ job.kind \notin {None, Passes[pc].in}
    BY <1>1, PassList DEF KindMismatch, PipelineInv, KindFollows
<1>3. Errors(diags') # {}
  <2>1. Diag("kind", "error").severity = "error"
      BY DEF Diag
  <2> QED BY <2>1 DEF KindMismatch, Errors
<1>4. PipelineTypes'
    BY DEF KindMismatch, PipelineInv, PipelineTypes, Start
<1> QED BY <1>2, <1>3, <1>4 DEF KindMismatch, PipelineInv, KindFollows, ErrorsKept, KindsFit, ErrorsDecide, Start, None

\* A pass that ran has left the kind its description names, and kept the errors.
LEMMA RunNextInv == \A bad \in BOOLEAN : PipelineInv /\ RunNext(bad) => PipelineInv'
<1> SUFFICES ASSUME NEW bad \in BOOLEAN, PipelineInv, RunNext(bad) PROVE PipelineInv'
    OBVIOUS
<1>1. pc \in 1..12 /\ success /\ answer = None
    BY PassList, StartAt DEF PipelineInv, PipelineTypes, RunNext, Stopped
<1>2. PICK r : /\ r = RunPass(Passes[pc].name, bad) /\ art' = r.art /\ diags' = diags \cup r.diags
               /\ success' = (r.ok /\ Cardinality(Errors(diags')) < job.threshold)
    BY DEF RunNext
<1>3. PassKeeps(r) /\ (pc = 1 => r.art.own = art.own)
    BY <1>1, <1>2, PassKeepsErrors DEF PipelineInv, PipelineTypes, ErrorsKept
<1>4. /\ pc' = pc + 1 /\ job' = job /\ mismatch' = mismatch /\ answer' = answer /\ Start(job)' = Start(job)
      /\ kind' = IF Passes[pc].out = None THEN kind ELSE Passes[pc].out
    BY DEF RunNext, Start
<1>5. PipelineTypes'
  <2>1. pc' \in Start(job)'..13
      BY <1>1, <1>4, StartAt DEF PipelineInv, PipelineTypes
  <2>2. art'.own \subseteq diags' /\ HasFields(art')
      BY <1>2, <1>3 DEF PassKeeps, PipelineInv, PipelineTypes
  <2>3. success' \in BOOLEAN
      BY <1>2, <1>3 DEF PassKeeps
  <2> QED BY <1>4, <2>1, <2>2, <2>3 DEF PipelineInv, PipelineTypes
<1>6. KindFollows'
    BY <1>1, <1>4, PassList, StartAt DEF KindFollows, PipelineInv, PipelineTypes
<1>7. Errors(diags') = Errors(diags) \cup Errors(r.diags)
    BY <1>2 DEF Errors
<1>8. ErrorsKept'
  <2>1. ASSUME success' PROVE Errors(diags') \subseteq art'.own \cup {ExpansionError}
      BY <1>1, <1>2, <1>3, <1>7, <2>1 DEF PipelineInv, ErrorsKept, PassKeeps
  <2>2. ASSUME ~success', Errors(diags') = {} PROVE FALSE
    <3>1. Errors(r.diags) = {} /\ r.ok
        BY <1>3, <1>7, <2>2 DEF PassKeeps
    <3>2. Cardinality(Errors(diags')) = 0
        BY <2>2, FS_EmptySet
    <3>3. job.threshold \in Nat \ {0}
        BY JobsAssumption DEF PipelineInv, PipelineTypes
    <3>4. Cardinality(Errors(diags')) < job.threshold
        BY <3>2, <3>3
    <3> QED BY Zenon, <1>2, <2>2, <3>1, <3>4
  <2>3. pc' <= 2 => art'.own = {}
      BY <1>1, <1>2, <1>3, <1>4 DEF PipelineInv, ErrorsKept
  <2> QED BY <1>1, <1>4, <2>1, <2>2, <2>3 DEF PipelineInv, ErrorsKept
<1>9. KindsFit'
    BY <1>1, <1>4 DEF PipelineInv, ErrorsKept, KindsFit
<1>10. ErrorsDecide'
    BY <1>1, <1>4 DEF ErrorsDecide, None
<1> QED BY <1>5, <1>6, <1>8, <1>9, <1>10 DEF PipelineInv

\* The caller looks at the diagnostics, at success and at the kind of what it got.
LEMMA AnswerInv == PipelineInv /\ Answer => PipelineInv'
<1> SUFFICES ASSUME PipelineInv, Answer PROVE PipelineInv'
    OBVIOUS
<1>1. UNCHANGED <<job, pc, kind, art, diags, success, mismatch>>
    BY DEF Answer
<1>2. PipelineTypes' /\ KindFollows' /\ ErrorsKept' /\ KindsFit'
    BY <1>1 DEF Answer, PipelineInv, PipelineTypes, KindFollows, ErrorsKept, KindsFit, Start, Errors, None
<1>3. Errors(art.own) \subseteq Errors(diags)
    BY DEF PipelineInv, PipelineTypes, Errors
<1>4. ASSUME success, job.target = None PROVE kind = "bytecode"
  <2>1. pc = 13
      BY <1>4, PassList, StartAt DEF Answer, Stopped, PipelineInv, PipelineTypes
  <2> QED BY <2>1, StartAt DEF PipelineInv, KindFollows, KindAt
<1>5. job.entry \in {"program", "form", "core"}
    BY JobsAssumption DEF PipelineInv, PipelineTypes, Entries
<1>6. ErrorsDecide'
  <2>1. CASE answer' = "result"
      BY <2>1 DEF ErrorsDecide
  <2>2. CASE answer' = "raised" /\ Raises /\ job.target = None
    <3>1. Errors(diags) # {}
        BY <1>3, <1>4, <1>5, <2>2 DEF Raises, PipelineInv, ErrorsKept
    <3> QED BY <1>1, <2>2, <3>1 DEF ErrorsDecide, Errors
  <2>3. CASE answer' = "ran" /\ ~Raises /\ job.entry # "core"
    <3>1. \A d \in Errors(diags) : job.entry = "form" /\ d = ExpansionError
        BY <1>3, <1>5, <2>3 DEF Raises, PipelineInv, ErrorsKept, Errors
    <3> QED BY <1>1, <2>3, <3>1 DEF ErrorsDecide, Errors
  <2>4. CASE ~Raises /\ kind # "bytecode" /\ job.entry # "core" /\ job.target = None
      BY <1>4, <1>5, <2>4 DEF Raises, PipelineInv, ErrorsKept
  <2> QED BY <2>1, <2>2, <2>3, <2>4 DEF Answer
<1> QED BY <1>2, <1>6 DEF PipelineInv

\* Every step of the pipeline and of its caller keeps the invariant.
LEMMA StepPipelineInv == PipelineInv /\ [BuildNext]_buildVars => PipelineInv'
<1>1. PipelineInv /\ UNCHANGED buildVars => PipelineInv'
    BY DEF buildVars, PipelineInv, PipelineTypes, KindFollows, ErrorsKept, KindsFit, ErrorsDecide, Start, Errors, HasFields
<1> QED BY <1>1, KindMismatchInv, RunNextInv, AnswerInv DEF BuildNext

\* Type correctness of the pipeline, whatever its passes compute; and no pass is
\* refused the artifact of the one before it (pass_input_kind, Pipeline.run).
THEOREM PipelineKinds == BuildSpec => [](BuildTypeOK /\ KindsFit)
<1>1. PipelineInv => BuildTypeOK /\ KindsFit
  <2> SUFFICES ASSUME PipelineInv PROVE BuildTypeOK /\ KindsFit
      OBVIOUS
  <2>1. pc \in 1..(Len(Passes) + 1) /\ pc \in 1..13
      BY PassList, StartAt DEF PipelineInv, PipelineTypes
  <2>2. kind \in Kinds \cup {None}
      BY <2>1, KindAtKinds, JobsAssumption DEF PipelineInv, PipelineTypes, KindFollows
  <2> QED BY <2>1, <2>2 DEF PipelineInv, PipelineTypes, BuildTypeOK
<1> QED BY InitPipelineInv, StepPipelineInv, <1>1, PTL DEF BuildSpec

\* Nothing runs that has an error, but what evaluate_form is left with when forms
\* of it could not be expanded; nothing is refused without one; and what could
\* not be compiled is never taken for an empty program - whatever the macro
\* expander, the lowering, the validator and the analysis report.
THEOREM PipelineErrors == BuildSpec => []ErrorsDecide
<1>1. PipelineInv => ErrorsDecide
    BY DEF PipelineInv
<1> QED BY InitPipelineInv, StepPipelineInv, <1>1, PTL DEF BuildSpec
=============================================================================
