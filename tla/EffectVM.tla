------------------------------ MODULE EffectVM ------------------------------
(* Effects in the register VM: PERFORM, HANDLE and RESUME of the compat      *)
(* dialect, with the calls, scopes and definitions around them.              *)
(*                                                                           *)
(* The coroutines of the VM that are suspended in one another form a stack.  *)
(* An entry is a frame in _run_function ("frame"), a frame in the loop of a  *)
(* continuation's resume ("resumed"), a _handle whose body runs ("handle"),  *)
(* or a _dispatch_effect whose handler runs ("dispatch").  mode says what    *)
(* travels along the stack: nothing, a returned value, or a QyEffectSignal.  *)
EXTENDS Frames

CONSTANTS Programs,    \* a function: programs, each a sequence of [params, code]
          MaxConts     \* bound on the number of performs of one run

ASSUME ProgramsAssumption ==
    MaxConts \in Nat /\ \A p \in DOMAIN Programs : Legal(Programs[p])

VARIABLES program,     \* the program that runs, in DOMAIN Programs
          stack,
          heap,
          conts,       \* the continuations made so far; a value names one
          mode,
          outside      \* history: see "The fragment", below

vars == <<program, stack, heap, conts, mode, outside>>

Running == [st |-> "run"]
Done(kind, v) == [st |-> "done", kind |-> kind, val |-> v]
Why(name) == [kind |-> name]
Halted == mode.st = "done"

Top == stack[Len(stack)]
Below == SubSeq(stack, 1, Len(stack) - 1)
FrameKinds == {"frame", "resumed"}
Marker(kind, specs, env, hid) == [kind |-> kind, specs |-> specs, env |-> env, hid |-> hid]
Run(f) == [kind |-> "frame", frame |-> f]

Funs == Programs[program]
Code(f) == Funs[f.fn].code
Instr == Code(Top.frame)[Top.frame.pc]
At(op) == mode.st = "run" /\ Instr.op = op

\* The stack when the running frame becomes f.
With(f) == Append(Below, [Top EXCEPT !.frame = f])

-----------------------------------------------------------------------------
(* The fragment.  A continuation of the VM is one frame, the one that        *)
(* performs.  outside records that a run has gone beyond what one frame can  *)
(* stand for: it gave up a frame that had more to do, or a handle, that the  *)
(* resumed program still needs; resumed away from its handle; resumed over   *)
(* scopes written since the capture; wrote scopes that a closure took out to *)
(* the handler; or let a handle catch its own handler.                       *)

\* The frame does anything after the call it waits for but return its value.
Live(f) == Code(f)[f.pc] # [op |-> "RETURN", src |-> f.dst]

\* The mark of the nearest handle, 0 without one.  HANDLE allocates a scope,
\* so the size of the heap before it tells handles apart.
NearestHandle ==
    LET marks == {j \in DOMAIN stack : stack[j].kind \notin FrameKinds}
    IN  IF marks = {} THEN 0
        ELSE stack[CHOOSE j \in marks : \A k \in marks : k <= j].hid

Stale(c) ==
    \E s \in DOMAIN c.scopes : s > c.hid /\ heap[s] # c.scopes[s]

\* v is a closure over a scope made under the mark.
ClosesOver(v, mark) == v.kind = "fn" /\ v.env > mark

\* The handler of a continuation has a closure over its scopes, s among them:
\* what the resumed frame writes in s, the closure sees in the VM, where the
\* scope is shared, and not in the language, where the frame has a copy.
Leaked(s) ==
    \E c \in DOMAIN conts : conts[c].leaks /\ s > conts[c].hid /\ s \in DOMAIN conts[c].scopes

\* The mark of the nearest handle that names eff, 0 without one.
NearestFor(eff) ==
    LET marks == {j \in DOMAIN stack :
                    /\ stack[j].kind \notin FrameKinds
                    /\ \E i \in DOMAIN stack[j].specs : stack[j].specs[i].eff = eff}
    IN  IF marks = {} THEN 0
        ELSE stack[CHOOSE j \in marks : \A k \in marks : k <= j].hid

-----------------------------------------------------------------------------
(* Frames and calls                                                          *)

Init ==
    /\ program \in DOMAIN Programs
    /\ heap = <<Scope(0, NoVars)>>
    /\ stack = <<Run(Frame(1, 1))>>
    /\ conts = <<>>
    /\ mode = Running
    /\ outside = FALSE

Fail(why) ==
    /\ mode' = Done("error", Why(why))
    /\ UNCHANGED <<program, stack, heap, conts, outside>>

Local ==
    /\ mode.st = "run"
    /\ Instr.op \in LocalOps
    /\ \/ /\ LocalFails(Instr, Top.frame, heap)
          /\ Fail(Instr.op)
       \/ /\ ~LocalFails(Instr, Top.frame, heap)
          /\ stack' = With(LocalFrame(Instr, Top.frame, heap))
          /\ heap' = LocalHeap(Instr, Top.frame, heap)
          /\ outside' = (outside \/ (Instr.op \in Writing /\ Leaked(Top.frame.env)))
          /\ UNCHANGED <<program, conts, mode>>

\* Enter function value fv on top of the entries in rest.
Enter(fv, args, rest) ==
    IF ArityOk(Funs, fv, args)
    THEN /\ stack' = Append(rest, Run(FrameOf(fv, heap)))
         /\ heap' = FrameHeap(Funs, fv, args, heap)
         /\ mode' = Running
    ELSE /\ mode' = Done("error", Why("arity"))
         /\ UNCHANGED <<stack, heap>>

Call ==
    /\ At("CALL")
    /\ LET f == Top.frame
           callee == f.regs[Instr.callee]
       IN  IF callee.kind # "fn" THEN Fail("call")
           ELSE /\ Enter(callee, Args(f, Instr.args), With(Awaiting(f, Instr.dst)))
                /\ UNCHANGED <<program, conts, outside>>

\* The entry stays what it is: a tail call in a resumed frame runs in the loop
\* of the continuation, not in _run_function.
TailCall ==
    /\ At("TAIL_CALL")
    /\ LET f == Top.frame
           callee == f.regs[Instr.callee]
       IN  IF callee.kind # "fn" THEN Fail("call")
           ELSE IF ~ArityOk(Funs, callee, Args(f, Instr.args)) THEN Fail("arity")
           ELSE /\ stack' = With(FrameOf(callee, heap))
                /\ heap' = FrameHeap(Funs, callee, Args(f, Instr.args), heap)
                /\ UNCHANGED <<program, conts, mode, outside>>

Return ==
    /\ At("RETURN")
    /\ stack' = Below
    /\ mode' = [st |-> "ret", val |-> Top.frame.regs[Instr.src]]
    /\ UNCHANGED <<program, heap, conts, outside>>

\* A continuation that the handler returns is taken for a new dispatch.
MutPassHandleAgain == IF Top.kind = "dispatch" /\ mode.val.kind = "cont" THEN stack ELSE Below

\* The value passes a handle as it is, whatever it is, and lands in the
\* register of the frame that waits for it.
PassHandle == Below
Deliver ==
    /\ mode.st = "ret"
    /\ \/ /\ stack = <<>>
          /\ mode' = Done("value", mode.val)
          /\ stack' = stack
       \/ /\ stack # <<>>
          /\ Top.kind \in FrameKinds
          /\ stack' = With(Put(Top.frame, Top.frame.dst, mode.val))
          /\ mode' = Running
       \/ /\ stack # <<>>
          /\ Top.kind \notin FrameKinds
          /\ stack' = PassHandle
          /\ mode' = mode
    /\ UNCHANGED <<program, heap, conts, outside>>

-----------------------------------------------------------------------------
(* Effects                                                                   *)

\* The declaration of the effect is ignored.
MutResumableAlways(env, eff) == TRUE

\* Whether the effect can be resumed, as the scope of the perform tells; TRUE
\* when the name is unbound or bound to something else.
Resumable(env, eff) ==
    LET def == Resolve(heap, env, eff)
    IN  IF def.kind = "effect" THEN def.resumable ELSE TRUE

\* The snapshot copies registers, pc and parents; the scope is shared.
Snapshot(f) == Advance(f)

\* _perform raises out of the frame, with a continuation of this frame alone.
Perform ==
    /\ At("PERFORM")
    /\ Len(conts) < MaxConts
    /\ LET f == Top.frame
       IN  /\ conts' = Append(conts, [resumable |-> Resumable(f.env, Instr.eff),
                                      frame |-> Snapshot(f), dst |-> Instr.dst,
                                      hid |-> 0, cut |-> FALSE, scopes |-> heap,
                                      near |-> NearestFor(Instr.eff),
                                      leaks |-> ClosesOver(f.regs[Instr.arg], NearestFor(Instr.eff))])
           /\ mode' = [st |-> "signal", eff |-> Instr.eff, arg |-> f.regs[Instr.arg],
                       cont |-> Len(conts) + 1, cut |-> FALSE,
                       crossed |-> Top.kind = "resumed"]
    /\ stack' = Below
    /\ UNCHANGED <<program, heap, outside>>

\* The signal leaves a frame for good.
Unwind ==
    /\ mode.st = "signal"
    /\ stack # <<>>
    /\ Top.kind \in FrameKinds
    /\ stack' = Below
    /\ mode' = [mode EXCEPT !.cut = @ \/ Live(Top.frame),
                            !.crossed = @ \/ Top.kind = "resumed"]
    /\ outside' = (outside \/ (mode.crossed /\ Live(Top.frame)))
    /\ UNCHANGED <<program, heap, conts>>

\* No handle names the effect: the program ends with it.
Unhandled ==
    /\ mode.st = "signal"
    /\ stack = <<>>
    /\ mode' = Done("unhandled", Why(mode.eff))
    /\ UNCHANGED <<program, stack, heap, conts, outside>>

\* The first handler of the specs for the effect, 0 without one.
HandlerFor(specs, eff) ==
    LET found == {j \in DOMAIN specs : specs[j].eff = eff}
    IN  IF found = {} THEN 0
        ELSE specs[CHOOSE j \in found : \A k \in found : j <= k].fn

\* Run handler h of the marker at the top with the signal's argument and
\* continuation; the marker becomes, or stays, a dispatch.
Dispatch(h) ==
    /\ Enter(Fn(h, Top.env), <<mode.arg, Cont(mode.cont)>>,
             Append(Below, [Top EXCEPT !.kind = "dispatch"]))
    /\ conts' = [conts EXCEPT ![mode.cont].hid = Top.hid, ![mode.cont].cut = mode.cut]
    /\ UNCHANGED program

Pass ==
    /\ stack' = Below
    /\ mode' = [mode EXCEPT !.cut = TRUE]
    /\ UNCHANGED <<program, heap, conts, outside>>

\* The signal reaches a _handle that waits for its body.
CatchInBody ==
    /\ mode.st = "signal"
    /\ stack # <<>>
    /\ Top.kind = "handle"
    /\ LET h == HandlerFor(Top.specs, mode.eff)
       IN  IF h = 0 THEN Pass ELSE Dispatch(h) /\ UNCHANGED outside

\* A handler that has started no longer catches.
MutCatchInHandlerPasses ==
    /\ mode.st = "signal"
    /\ stack # <<>>
    /\ Top.kind = "dispatch"
    /\ Pass

\* The signal reaches the loop of _dispatch_effect: out of a resumed body, or
\* out of the handler itself.
CatchInHandler ==
    /\ mode.st = "signal"
    /\ stack # <<>>
    /\ Top.kind = "dispatch"
    /\ LET h == HandlerFor(Top.specs, mode.eff)
       IN  IF h = 0 THEN Pass
           ELSE Dispatch(h) /\ outside' = (outside \/ ~mode.crossed)

Handle ==
    /\ At("HANDLE")
    /\ LET f == Top.frame
       IN  Enter(Fn(Instr.body, f.env), <<>>,
                 Append(With(Awaiting(f, Instr.dst)),
                        Marker("handle", Instr.specs, f.env, Len(heap))))
    /\ UNCHANGED <<program, conts, outside>>

\* _resume and QyContinuation.resume: the snapshot runs again, with the value
\* in the register of the perform, on top of whoever resumes.
Resume ==
    /\ At("RESUME")
    /\ LET f == Top.frame
           k == f.regs[Instr.cont]
       IN  IF k.kind # "cont" THEN Fail("resume")
           ELSE LET c == conts[k.id]
                IN  IF ~c.resumable THEN Fail("not resumable")
                    ELSE /\ stack' = Append(With(Awaiting(f, Instr.dst)),
                                            [kind |-> "resumed",
                                             frame |-> Put(c.frame, c.dst, f.regs[Instr.val])])
                         /\ outside' = (outside \/ c.cut \/ Stale(c) \/ NearestHandle # c.hid)
                         /\ UNCHANGED <<program, heap, conts, mode>>

Next ==
    \/ Local
    \/ Call
    \/ TailCall
    \/ Return
    \/ Deliver
    \/ Perform
    \/ Unwind
    \/ Unhandled
    \/ CatchInBody
    \/ CatchInHandler
    \/ Handle
    \/ Resume

Spec == Init /\ [][Next]_vars /\ WF_vars(Next)

-----------------------------------------------------------------------------
(* Properties                                                                *)

TypeOK ==
    /\ program \in DOMAIN Programs
    /\ mode.st \in {"run", "ret", "signal", "done"}
    /\ outside \in BOOLEAN
    /\ \A s \in DOMAIN heap : heap[s].parent < s
    /\ \A j \in DOMAIN stack :
          IF stack[j].kind \in FrameKinds
          THEN /\ stack[j].frame.env \in DOMAIN heap
               /\ stack[j].frame.pc \in DOMAIN Code(stack[j].frame)
          ELSE stack[j].hid \in DOMAIN heap /\ j > 1

\* A perform is answered by the nearest enclosing handle that names its effect
\* (_handle and the loop of _dispatch_effect), in the body, in code a handler
\* resumed and in a handler; it escapes from the program only without one.
\* Scopes and frames are well formed throughout (TypeOK).
HandledByNearest ==
    /\ TypeOK
    /\ \A c \in DOMAIN conts : conts[c].hid # 0 => conts[c].hid = conts[c].near
    /\ Halted /\ mode.kind = "unhandled" => conts[Len(conts)].near = 0

\* A continuation that a handler returns is an ordinary value and is not
\* dispatched again: every program comes to an end or keeps performing.
Terminates == <>(Halted \/ Len(conts) = MaxConts)

=============================================================================
