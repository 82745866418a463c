-------------------------------- MODULE Gather --------------------------------
(***************************************************************************)
(* PARALLEL_GATHER, ALL_GATHER and RACE_FIRST of the register VM           *)
(* (RegisterVirtualMachine._parallel_gather, _race_first): the thunks of   *)
(* one (parallel ...), (all ...) or (race ...), run as asyncio tasks when  *)
(* the static analysis finds them safe and one after the other when not,   *)
(* on one VirtualStack that the tasks of a VM share.  A thunk loses the    *)
(* event loop only inside a call of a host coroutine, between any two of   *)
(* the steps below.                                                        *)
(***************************************************************************)
EXTENDS Integers, Sequences, FiniteSets, FiniteSetsExt, Functions

CONSTANTS N,          \* number of thunks
          MaxDepth    \* bound: frames a thunk has on the virtual stack

ASSUME NAssumption == N \in Nat \ {0}
ASSUME MaxDepthAssumption == MaxDepth \in Nat \ {0}

Thunks == 1..N
Modes == {"parallel", "all", "race"}
\* What the bytecode reachable from a thunk does: nothing but the safe opcodes;
\* an effect, IO or a shared write in this program; or a call of a function
\* that an earlier program of the session defined and that performs an effect,
\* which the analysis does not see.
Kinds == {"pure", "effect", "foreign"}
Outcomes == {"ok", "err", "eff", "cancelled"}

VARIABLES mode, kind,  \* the instruction
          pc,          \* of the opcode: start, wait, cancelling, seq, finished
          thunk,       \* the state of each thunk's task
          depth,       \* frames each thunk has entered and not left
          stack,       \* VirtualStack._frames; 0 is the frame of the opcode
          order,       \* thunks in the order in which they ended
          doneAtWake,  \* race: the tasks that asyncio.wait reports as done
          cancelReq,   \* tasks that cancel() was called on before they had ended
          hostCancel,  \* the host has cancelled the evaluation
          result       \* [kind, of]: of lists the thunks the result is made of

vars == <<mode, kind, pc, thunk, depth, stack, order, doneAtWake, cancelReq, hostCancel, result>>
fixed == <<mode, kind>>

TypeOK ==
    /\ mode \in Modes /\ kind \in [Thunks -> Kinds]
    /\ pc \in {"start", "wait", "cancelling", "seq", "finished"}
    /\ thunk \in [Thunks -> {"new", "ready", "running"} \cup Outcomes]
    /\ depth \in [Thunks -> 0..MaxDepth]
    /\ stack \in Seq(0..N) /\ order \in Seq(Thunks)
    /\ doneAtWake \subseteq Thunks /\ cancelReq \subseteq Thunks
    /\ hostCancel \in BOOLEAN
    /\ result \in [kind : {"none", "tuple", "value", "aggregate", "raise", "cancelled"},
                   of : Seq(Thunks)]

Ended(i) == thunk[i] \in Outcomes
EndedThunks == {i \in Thunks : Ended(i)}
InOrder(S) == [k \in 1..Cardinality(S) |-> CHOOSE i \in S : Cardinality({j \in S : j < i}) = k - 1]

\* _thunks_are_concurrency_safe looks at the functions of this program only.
ThunksAreConcurrencySafe == \A i \in Thunks : kind[i] # "effect"

Init ==
    /\ mode \in Modes /\ kind \in [Thunks -> Kinds]
    /\ pc = "start"
    /\ thunk = [i \in Thunks |-> "new"]
    /\ depth = [i \in Thunks |-> 0]
    /\ stack = <<0>> /\ order = <<>>
    /\ doneAtWake = {} /\ cancelReq = {} /\ hostCancel = FALSE
    /\ result = [kind |-> "none", of |-> <<>>]

Finish(k, of) == pc' = "finished" /\ result' = [kind |-> k, of |-> of]

\* Mutation of Start: the thunks always become tasks.
MutStartConcurrent ==
    /\ pc = "start" /\ pc' = "wait"
    /\ thunk' = [i \in Thunks |-> "ready"]
    /\ UNCHANGED <<fixed, depth, stack, order, doneAtWake, cancelReq, hostCancel, result>>

\* Create a task per thunk, or begin with the first of them.
Start ==
    /\ pc = "start"
    /\ IF ThunksAreConcurrencySafe
       THEN /\ pc' = "wait"
            /\ thunk' = [i \in Thunks |-> "ready"]
       ELSE /\ pc' = "seq"
            /\ thunk' = [thunk EXCEPT ![1] = "ready"]
    /\ UNCHANGED <<fixed, depth, stack, order, doneAtWake, cancelReq, hostCancel, result>>

-----------------------------------------------------------------------------
(* What a thunk does.  VirtualStack pushes and pops at the end of one list, *)
(* whoever's frame is there.                                                *)

Push(i) == depth' = [depth EXCEPT ![i] = @ + 1] /\ stack' = Append(stack, i)
\* Mutation of Pop: an exception leaves all frames but pops one.
MutPopOne(i, n) ==
    depth' = [depth EXCEPT ![i] = @ - n] /\ stack' = SubSeq(stack, 1, Len(stack) - 1)

Pop(i, n) == depth' = [depth EXCEPT ![i] = @ - n]
             /\ stack' = SubSeq(stack, 1, IF n < Len(stack) THEN Len(stack) - n ELSE 0)

\* The first step of the task: _run_function enters the thunk's frame.
Enter(i) ==
    /\ thunk[i] = "ready" /\ i \notin cancelReq
    /\ thunk' = [thunk EXCEPT ![i] = "running"]
    /\ Push(i)
    /\ UNCHANGED <<fixed, pc, order, doneAtWake, cancelReq, hostCancel, result>>

\* A call, a tail call (replace_top) and a return inside the thunk.
Inside(i) ==
    /\ thunk[i] = "running"
    /\ \/ depth[i] < MaxDepth /\ Push(i)
       \/ stack' = [stack EXCEPT ![Len(stack)] = i] /\ UNCHANGED depth
       \/ depth[i] > 1 /\ Pop(i, 1)
    /\ UNCHANGED <<fixed, pc, thunk, order, doneAtWake, cancelReq, hostCancel, result>>

\* What the thunk may end as: an effect signal only where it performs one.  A task
\* that is cancelled before its first step never enters; one that runs gets
\* CancelledError where it waits, and it, or a race, a parallel or a host coroutine
\* in it, may swallow that and end as anything.  CancelledError needs no request
\* either: an awaited task of a cache or of the host may have been cancelled.
May(i, outcome) ==
    \/ /\ thunk[i] = "running"
       /\ outcome = "eff" => kind[i] # "pure"
       /\ outcome = "ok" => depth[i] = 1
    \/ thunk[i] = "ready" /\ i \in cancelReq /\ outcome = "cancelled"

\* The frames of the thunk are left, by return or by the exception.
Leave(i, outcome) ==
    /\ May(i, outcome)
    /\ thunk' = [thunk EXCEPT ![i] = outcome]
    /\ order' = Append(order, i)
    /\ Pop(i, depth[i])

\* A task ends; the opcode learns of it when the event loop wakes it.
TaskEnd(i, outcome) ==
    /\ pc # "seq"
    /\ Leave(i, outcome)
    /\ UNCHANGED <<fixed, pc, doneAtWake, cancelReq, hostCancel, result>>

-----------------------------------------------------------------------------
(* The sequential path: the thunk runs in the opcode's own task, so its end *)
(* and what the opcode does about it are one step.                          *)

\* Mutation of Errors: CancelledError, which is no Exception, counts as a result.
MutErrorsExceptionOnly(outcomes) == {i \in Thunks : outcomes[i] \in {"err", "eff"}}

Errors(outcomes) == {i \in Thunks : outcomes[i] \in Outcomes \ {"ok"}}

\* The loop goes on after a result, and in (parallel ...) after an error too -
\* CancelledError included - but never after an effect signal.
GoesOn(outcome) ==
    mode # "race" /\ (outcome = "ok" \/ (mode = "parallel" /\ outcome # "eff"))

SeqEnd(i, outcome) ==
    /\ pc = "seq"
    /\ Leave(i, outcome)
    /\ \/ mode = "race" /\ Finish(IF outcome = "ok" THEN "value" ELSE "raise", <<i>>)
       \/ mode # "race" /\ ~GoesOn(outcome) /\ Finish("raise", <<i>>)
       \/ /\ GoesOn(outcome) /\ i = N
          /\ IF Errors(thunk') = {} THEN Finish("tuple", InOrder(Thunks))
             ELSE Finish("aggregate", InOrder(Errors(thunk')))
    /\ UNCHANGED <<fixed, doneAtWake, cancelReq, hostCancel>>

\* Mutation of SeqNext: the next thunk is not begun.
MutSeqNextStops(i, outcome) ==
    /\ pc = "seq" /\ GoesOn(outcome) /\ i < N
    /\ Leave(i, outcome)
    /\ UNCHANGED <<fixed, pc, doneAtWake, cancelReq, hostCancel, result>>

\* ... and when it is not the last one, the next thunk begins.
SeqNext(i, outcome) ==
    /\ pc = "seq" /\ GoesOn(outcome) /\ i < N
    /\ May(i, outcome)
    /\ thunk' = [thunk EXCEPT ![i] = outcome, ![i + 1] = "ready"]
    /\ order' = Append(order, i)
    /\ Pop(i, depth[i])
    /\ UNCHANGED <<fixed, pc, doneAtWake, cancelReq, hostCancel, result>>

-----------------------------------------------------------------------------
(* The concurrent path. *)

\* Mutation of GatherWake: of several errors the one that came first is raised.
MutGatherWakeByTime ==
    /\ pc = "wait" /\ mode # "race" /\ EndedThunks = Thunks
    /\ IF hostCancel THEN Finish("cancelled", <<>>)
       ELSE IF Errors(thunk) = {} THEN Finish("tuple", InOrder(Thunks))
       ELSE IF mode = "parallel" THEN Finish("aggregate", InOrder(Errors(thunk)))
       ELSE Finish("raise", <<SelectSeq(order, LAMBDA i : i \in Errors(thunk))[1]>>)
    /\ UNCHANGED <<fixed, thunk, depth, stack, order, doneAtWake, cancelReq, hostCancel>>

\* asyncio.gather(return_exceptions=True) has every result.
GatherWake ==
    /\ pc = "wait" /\ mode # "race" /\ EndedThunks = Thunks
    /\ IF hostCancel THEN Finish("cancelled", <<>>)
       ELSE IF Errors(thunk) = {} THEN Finish("tuple", InOrder(Thunks))
       ELSE IF mode = "parallel" THEN Finish("aggregate", InOrder(Errors(thunk)))
       ELSE Finish("raise", <<Min(Errors(thunk))>>)
    /\ UNCHANGED <<fixed, thunk, depth, stack, order, doneAtWake, cancelReq, hostCancel>>

\* asyncio.wait(FIRST_COMPLETED) returns: at least one task has ended, more may
\* have ended before the opcode runs again.  The others are cancelled.
RaceWake ==
    /\ pc = "wait" /\ mode = "race" /\ EndedThunks # {}
    /\ doneAtWake' = EndedThunks
    /\ cancelReq' = Thunks \ EndedThunks
    /\ pc' = "cancelling"
    /\ UNCHANGED <<fixed, thunk, depth, stack, order, hostCancel, result>>

\* Mutation of RaceReturn: the winner is looked for among all tasks.
MutRaceReturnAmongAll ==
    /\ pc = "cancelling" /\ EndedThunks = Thunks
    /\ Finish(IF thunk[1] = "ok" THEN "value" ELSE "raise", <<1>>)
    /\ UNCHANGED <<fixed, thunk, depth, stack, order, doneAtWake, cancelReq, hostCancel>>

\* Mutation of RaceReturn: the cancelled losers are not awaited.
MutRaceReturnAtOnce ==
    /\ pc = "cancelling"
    /\ LET winner == Min(doneAtWake)
       IN Finish(IF thunk[winner] = "ok" THEN "value" ELSE "raise", <<winner>>)
    /\ UNCHANGED <<fixed, thunk, depth, stack, order, doneAtWake, cancelReq, hostCancel>>

RaceReturn ==
    /\ pc = "cancelling" /\ EndedThunks = Thunks
    /\ LET winner == Min(doneAtWake)
       IN Finish(IF thunk[winner] = "ok" THEN "value" ELSE "raise", <<winner>>)
    /\ UNCHANGED <<fixed, thunk, depth, stack, order, doneAtWake, cancelReq, hostCancel>>

-----------------------------------------------------------------------------
\* The host cancels the evaluation once.  gather passes it to the tasks that have
\* not ended and remembers it for itself, wait raises at once and leaves the tasks
\* running, the clean-up loop of race passes it to the loser that it awaits and
\* swallows it, and on the sequential path it is the thunks that meet it.
HostCancel ==
    /\ ~hostCancel
    /\ hostCancel' = TRUE
    /\ \/ /\ pc = "wait" /\ mode # "race"
          /\ cancelReq' = Thunks \ EndedThunks
          /\ UNCHANGED <<pc, result>>
       \/ /\ pc = "wait" /\ mode = "race"
          /\ Finish("cancelled", <<>>) /\ UNCHANGED cancelReq
       \/ /\ pc = "cancelling"
          /\ \/ \E i \in Thunks \ EndedThunks : cancelReq' = cancelReq \cup {i}
             \/ EndedThunks # doneAtWake /\ UNCHANGED cancelReq
          /\ UNCHANGED <<pc, result>>
       \/ /\ pc = "seq" /\ UNCHANGED <<pc, result, cancelReq>>
    /\ UNCHANGED <<fixed, thunk, depth, stack, order, doneAtWake>>

ThunkStep(i) ==
    \/ Enter(i)
    \/ Inside(i)
    \/ \E o \in Outcomes : TaskEnd(i, o) \/ SeqEnd(i, o) \/ SeqNext(i, o)

Next ==
    \/ Start \/ GatherWake \/ RaceWake \/ RaceReturn \/ HostCancel
    \/ \E i \in Thunks : ThunkStep(i)

\* The event loop runs what is ready and every thunk ends; nobody cancels by
\* obligation.
EndsEventually(i) == \E o \in Outcomes : TaskEnd(i, o) \/ SeqEnd(i, o) \/ SeqNext(i, o)
Fairness ==
    /\ WF_vars(Start) /\ WF_vars(GatherWake) /\ WF_vars(RaceWake) /\ WF_vars(RaceReturn)
    /\ \A i \in Thunks : WF_vars(Enter(i)) /\ WF_vars(EndsEventually(i))

Spec == Init /\ [][Next]_vars /\ Fairness

-----------------------------------------------------------------------------
(* Properties. *)

Finished == pc = "finished"
Running == {i \in Thunks : thunk[i] = "running"}

\* The thunks of an instruction never overlap when one of them has an effect, IO or
\* a shared write in the functions of this program.  Effects in functions of
\* earlier programs are excepted: _thunks_are_concurrency_safe does not see them,
\* and such thunks overlap.
UnsafeThunksAlone == ~ThunksAreConcurrencySafe => Cardinality(Running) =< 1

\* Pushes and pops of interleaved tasks balance: there is a frame for every call in
\* progress and that of the instruction is never lost.  Which frames these are is
\* certain only on the sequential path: those of the one thunk that runs, also after
\* an exception left several calls at once.
StackBalanced ==
    /\ TypeOK
    /\ Len(stack) = 1 + FoldFunction(LAMBDA d, sum : d + sum, 0, depth) /\ stack[1] = 0
    /\ UnsafeThunksAlone
    /\ ~ThunksAreConcurrencySafe => \A k \in 2..Len(stack) : stack[k] \in Running

\* What (parallel ...) and (all ...) answer: all values in declaration order, or all
\* errors, or for all the first declared one.  A cancelled thunk counts as an error.
\* A signal of an effect passes the sequential path as it is, and a cancellation by
\* the host ends the concurrent path even if every thunk swallowed it.
Failed == {i \in Thunks : thunk[i] \in {"err", "eff", "cancelled"}}
Signals == {i \in Thunks : thunk[i] = "eff"}
CollectedByOutcomes ==
    Finished /\ mode # "race" =>
        IF ThunksAreConcurrencySafe /\ hostCancel THEN result = [kind |-> "cancelled", of |-> <<>>]
        ELSE IF ~ThunksAreConcurrencySafe /\ Signals # {}
        THEN \E i \in Signals : result = [kind |-> "raise", of |-> <<i>>]
        ELSE result = IF Failed = {} THEN [kind |-> "tuple", of |-> InOrder(Thunks)]
                      ELSE IF mode = "parallel" THEN [kind |-> "aggregate", of |-> InOrder(Failed)]
                      ELSE [kind |-> "raise", of |-> <<Min(Failed)>>]

\* race answers with the outcome of a thunk that no other one overtook: nobody
\* cancelled it, and it ended before every thunk declared before it.  Only the host
\* ends a race without a winner.
Overtook(j, i) == \E m, n \in DOMAIN order : m < n /\ order[m] = j /\ order[n] = i
RaceAnswers ==
    Finished /\ mode = "race" =>
        IF result.of = <<>> THEN hostCancel /\ result.kind = "cancelled"
        ELSE LET winner == result.of[1]
             IN /\ result.kind = IF thunk[winner] = "ok" THEN "value" ELSE "raise"
                /\ Ended(winner) /\ winner \notin cancelReq
                /\ \A j \in 1..(winner - 1) : ~Overtook(j, winner)

\* The answer follows from what the thunks ended as, on both paths, under every
\* schedule and wherever the host cancels.
ResultByOutcomes == CollectedByOutcomes /\ RaceAnswers

\* When the instruction is over, none of its tasks is left running or waiting to
\* run, unless the host cancelled a race that waited for its first result.
NoOrphans ==
    Finished =>
        \/ mode = "race" /\ hostCancel /\ result.kind = "cancelled"
        \/ \A i \in Thunks : thunk[i] \notin {"ready", "running"}

\* The instruction ends if every thunk does.
Terminates == <>Finished
=============================================================================
