------------------------------ MODULE CacheEval ------------------------------
(***************************************************************************)
(* (cache e): one entry of the cache dict that all spaces of a chain share *)
(* (SymbolSpace._cache), and the evaluations of e that run on one event    *)
(* loop.  A caller is one evaluation of (cache e); the asyncio task it     *)
(* creates, if it creates one, is named after it.  Code between two awaits *)
(* is one step.                                                            *)
(*                                                                         *)
(* Two implementations share the model: the opcode CACHE_EVAL              *)
(* (RegisterVirtualMachine._cache_eval) and the legacy operator            *)
(* (qy.std.effects._cache).  They differ in what they do with a cached     *)
(* task: _await_if_needed awaits coroutines only and so hands the Task     *)
(* object on, _await_cached_value awaits anything awaitable.               *)
(***************************************************************************)
EXTENDS Integers, FiniteSets

CONSTANTS Callers,       \* evaluations of (cache e)
          MaxCancels     \* bound: cancellations by the host

ASSUME MaxCancelsAssumption == MaxCancels \in Nat

VARIABLES legacy,    \* FALSE: CACHE_EVAL, TRUE: the legacy operator
          cache,     \* the dict entry: none, a task, or a value
          task,      \* the state of the task each caller created
          call,      \* where each caller is
          on,        \* the task a caller awaits
          result,    \* what a finished caller returned or raised
          cancelReq, \* tasks with a pending Task.cancel()
          mustCancel,\* callers that get CancelledError when they next run
          cancels    \* cancellations so far

vars == <<legacy, cache, task, call, on, result, cancelReq, mustCancel, cancels>>

TaskStates == {"new", "running", "done", "failed", "keyerror", "cancelled"}
Entry == [kind : {"none", "task", "value"}, of : Callers]
Outcome == [kind : {"value", "task", "error", "cancelled"}, of : Callers]
NoEntry(c) == [kind |-> "none", of |-> c]
TaskEntry(c) == [kind |-> "task", of |-> c]
ValueEntry(c) == [kind |-> "value", of |-> c]

TypeOK ==
    /\ legacy \in BOOLEAN
    /\ cache \in Entry
    /\ task \in [Callers -> TaskStates]
    /\ call \in [Callers -> {"idle", "await", "finished"}]
    /\ on \in [Callers -> Callers]
    /\ result \in [Callers -> Outcome]
    /\ cancelReq \subseteq Callers /\ mustCancel \subseteq Callers
    /\ cancels \in 0..MaxCancels

Init ==
    /\ legacy \in BOOLEAN
    /\ cache \in {NoEntry(c) : c \in Callers}
    /\ task = [c \in Callers |-> "new"]
    /\ call = [c \in Callers |-> "idle"]
    /\ on = [c \in Callers |-> c]
    /\ result = [c \in Callers |-> [kind |-> "value", of |-> c]]
    /\ cancelReq = {} /\ mustCancel = {}
    /\ cancels = 0

\* The caller returns or raises; its cache entry becomes e.
Finish(c, kind, of, e) ==
    /\ call' = [call EXCEPT ![c] = "finished"]
    /\ result' = [result EXCEPT ![c] = [kind |-> kind, of |-> of]]
    /\ mustCancel' = mustCancel \ {c}
    /\ cache' = e

\* Mutation of StartTask: the task is not published while it runs.
MutStartTaskUnpublished(c) ==
    /\ task' = [task EXCEPT ![c] = "running"]
    /\ call' = [call EXCEPT ![c] = "await"]
    /\ on' = [on EXCEPT ![c] = c]
    /\ UNCHANGED cache

\* A miss: create the task, publish it in the cache, await it.
StartTask(c) ==
    /\ task' = [task EXCEPT ![c] = "running"]
    /\ cache' = TaskEntry(c)
    /\ call' = [call EXCEPT ![c] = "await"]
    /\ on' = [on EXCEPT ![c] = c]

Miss(c) ==
    /\ call[c] = "idle" /\ cache.kind = "none"
    /\ StartTask(c)
    /\ UNCHANGED <<result, cancelReq, mustCancel, cancels>>

\* Mutation of HitValue: a cached value counts as a miss.
MutHitValueReruns(c) ==
    /\ call[c] = "idle" /\ cache.kind = "value"
    /\ StartTask(c)
    /\ UNCHANGED <<result, cancelReq, mustCancel, cancels>>

HitValue(c) ==
    /\ call[c] = "idle" /\ cache.kind = "value"
    /\ Finish(c, "value", cache.of, cache)
    /\ UNCHANGED <<task, on, cancelReq, cancels>>

\* Mutation of HitTask: the task is returned without an await.
MutHitTaskHandedOn(c) ==
    /\ call[c] = "idle" /\ cache.kind = "task"
    /\ Finish(c, "task", cache.of, cache)
    /\ UNCHANGED <<task, on, cancelReq, cancels>>

\* A hit on a task somebody else created and has not replaced by its value.
HitTask(c) ==
    /\ call[c] = "idle" /\ cache.kind = "task"
    /\ IF legacy
       THEN /\ call' = [call EXCEPT ![c] = "await"]
            /\ on' = [on EXCEPT ![c] = cache.of]
            /\ UNCHANGED <<result, mustCancel, cache>>
       ELSE Finish(c, "task", cache.of, cache) /\ UNCHANGED on
    /\ UNCHANGED <<task, cancelReq, cancels>>

\* Mutation of TaskEnd: a failing task removes its entry itself.
MutTaskEndDiscards(c, outcome) ==
    /\ task[c] = "running"
    /\ outcome = "cancelled" => c \in cancelReq
    /\ task' = [task EXCEPT ![c] = outcome]
    /\ cache' = IF outcome = "failed" THEN NoEntry(c) ELSE cache
    /\ UNCHANGED <<call, on, result, cancelReq, mustCancel, cancels>>

\* The evaluation of e ends.  A requested cancellation ends it as cancelled
\* unless the code under evaluation swallows it (race and the sequential
\* parallel do).
TaskEnd(c, outcome) ==
    /\ task[c] = "running"
    /\ outcome = "cancelled" => c \in cancelReq
    /\ task' = [task EXCEPT ![c] = outcome]
    /\ UNCHANGED <<cache, call, on, result, cancelReq, mustCancel, cancels>>

\* Mutation of ResumeOwner: the entry stays when the evaluation failed.
MutResumeOwnerKeeps(c) ==
    /\ call[c] = "await" /\ on[c] = c /\ task[c] # "running"
    /\ IF task[c] = "done" THEN Finish(c, "value", c, ValueEntry(c)) ELSE Finish(c, "error", c, cache)
    /\ UNCHANGED <<task, on, cancelReq, cancels>>

\* Mutation of ResumeOwner: a failed evaluation is tried again.
MutResumeOwnerRetries(c) ==
    /\ call[c] = "await" /\ on[c] = c /\ task[c] # "running"
    /\ IF task[c] = "done"
       THEN Finish(c, "value", c, ValueEntry(c)) /\ UNCHANGED <<task, on>>
       ELSE StartTask(c) /\ UNCHANGED <<result, mustCancel>>
    /\ UNCHANGED <<cancelReq, cancels>>

\* The caller that created the task runs again: the value replaces the task,
\* an Exception removes it, CancelledError (no Exception) leaves it.
ResumeOwner(c) ==
    /\ call[c] = "await" /\ on[c] = c /\ task[c] # "running"
    /\ \/ /\ c \in mustCancel \/ task[c] = "cancelled"
          /\ Finish(c, "cancelled", c, cache)
       \/ /\ c \notin mustCancel /\ task[c] \in {"failed", "keyerror"}
          /\ Finish(c, "error", c, NoEntry(c))
       \/ /\ c \notin mustCancel /\ task[c] = "done"
          /\ Finish(c, "value", c, ValueEntry(c))
    /\ UNCHANGED <<task, on, cancelReq, cancels>>

\* A caller that awaits another one's task (legacy operator only).  Its await
\* sits inside `except KeyError`: a KeyError from e counts as a miss.
ResumeWaiter(c) ==
    /\ call[c] = "await" /\ on[c] # c /\ task[on[c]] # "running"
    /\ \/ /\ c \in mustCancel \/ task[on[c]] = "cancelled"
          /\ Finish(c, "cancelled", on[c], cache)
          /\ UNCHANGED <<task, on>>
       \/ /\ c \notin mustCancel /\ task[on[c]] = "failed"
          /\ Finish(c, "error", on[c], cache)
          /\ UNCHANGED <<task, on>>
       \/ /\ c \notin mustCancel /\ task[on[c]] = "done"
          /\ Finish(c, "value", on[c], cache)
          /\ UNCHANGED <<task, on>>
       \/ /\ c \notin mustCancel /\ task[on[c]] = "keyerror"
          /\ StartTask(c)
          /\ UNCHANGED <<result, mustCancel>>
    /\ UNCHANGED <<cancelReq, cancels>>

\* The host cancels a waiting caller (wait_for, a losing race, shutdown):
\* Task.cancel is passed on to the task it awaits while that one runs; if it
\* has ended already, the caller itself gets CancelledError.
Cancel(c) ==
    /\ call[c] = "await" /\ cancels < MaxCancels
    /\ cancels' = cancels + 1
    /\ IF task[on[c]] = "running"
       THEN cancelReq' = cancelReq \cup {on[c]} /\ UNCHANGED mustCancel
       ELSE mustCancel' = mustCancel \cup {c} /\ UNCHANGED cancelReq
    /\ UNCHANGED <<cache, task, call, on, result>>

Call(c) == Miss(c) \/ HitValue(c) \/ HitTask(c)
EndSome(c) == \E o \in TaskStates \ {"new", "running"} : TaskEnd(c, o)
Resume(c) == ResumeOwner(c) \/ ResumeWaiter(c)

Next ==
    /\ \E c \in Callers : Call(c) \/ EndSome(c) \/ Resume(c) \/ Cancel(c)
    /\ UNCHANGED legacy

\* The event loop runs what is ready, and the evaluation of e terminates.
Fairness ==
    \A c \in Callers : /\ WF_vars(EndSome(c) /\ UNCHANGED legacy)
                        /\ WF_vars(Resume(c) /\ UNCHANGED legacy)

Spec == Init /\ [][Next]_vars
FairSpec == Spec /\ Fairness

-----------------------------------------------------------------------------
(* Properties. *)

\* (cache e) by the opcode is single-flight: e is never under evaluation twice
\* at a time.
SingleFlight ==
    ~legacy => \A c, d \in Callers : task[c] = "running" /\ task[d] = "running" => c = d

\* A caller that awaits the task it created finds that task in the cache when
\* it runs again, so what it writes or discards is its own entry.
OwnEntry == ~legacy => \A c \in Callers : call[c] = "await" => cache = TaskEntry(c)

\* A running evaluation is the one that the cache entry names.
RunningIsCached == ~legacy => \A c \in Callers : task[c] = "running" => cache = TaskEntry(c)

\* e is evaluated at most once successfully: a cached value is never replaced,
\* and from then on no task is created.
ValueIsFinal ==
    [][~legacy /\ cache.kind = "value" => cache' = cache /\ \A c \in Callers :
          task[c] = "new" => task'[c] = "new"]_vars

\* A failed evaluation is forgotten, so that a later (cache e) tries again -
\* unless the caller that owns it was cancelled in the meantime.
FailureForgotten ==
    \A c \in Callers :
        (cache = TaskEntry(c) /\ task[c] = "failed") ~>
            (cache # TaskEntry(c) \/ c \in mustCancel \/ result[c].kind = "cancelled")

\* Every evaluation of (cache e) ends, whoever fails or is cancelled.
CallReturns == \A c \in Callers : call[c] = "await" ~> call[c] = "finished"

\* (cache e) yields what e evaluates to (mir-spec: CACHE_EVAL caches the
\* thunk's result), never the task that computes it.
ResultIsValue == \A c \in Callers : call[c] = "finished" => result[c].kind # "task"

\* The legacy operator awaits a task it finds (_await_cached_value).
LegacyResultIsValue == legacy => ResultIsValue
=============================================================================
