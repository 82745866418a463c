----------------------------- MODULE EffectSpec -----------------------------
(* What LANGUAGE.md promises of effects: perform captures the delimited      *)
(* continuation from the perform to the nearest handle that names the        *)
(* effect; resume copies it, with the scopes made inside it, and puts it on  *)
(* top of whoever resumes, the handle included.                              *)
EXTENDS Frames

CONSTANTS Programs, MaxConts

VARIABLES program, sstack, sheap, sconts, smode


SRunning == [st |-> "run"]
SDone(kind, v) == [st |-> "done", kind |-> kind, val |-> v]
SHalted == smode.st = "done"

STop == sstack[Len(sstack)]
SBelow == SubSeq(sstack, 1, Len(sstack) - 1)
SFrame(f) == [kind |-> "frame", frame |-> f]
SFuns == Programs[program]
SInstr == SFuns[STop.frame.fn].code[STop.frame.pc]
SAt(op) == smode.st = "run" /\ SInstr.op = op
SWith(f) == Append(SBelow, SFrame(f))

SInit ==
    /\ sheap = <<Scope(0, NoVars)>>
    /\ sstack = <<SFrame(Frame(1, 1))>>
    /\ sconts = <<>>
    /\ smode = SRunning

SFail(why) ==
    /\ smode' = SDone("error", [kind |-> why])
    /\ UNCHANGED <<sstack, sheap, sconts>>

SLocal ==
    /\ smode.st = "run"
    /\ SInstr.op \in LocalOps
    /\ IF LocalFails(SInstr, STop.frame, sheap) THEN SFail(SInstr.op)
       ELSE /\ sstack' = SWith(LocalFrame(SInstr, STop.frame, sheap))
            /\ sheap' = LocalHeap(SInstr, STop.frame, sheap)
            /\ UNCHANGED <<sconts, smode>>

SEnter(fv, args, rest) ==
    IF ArityOk(SFuns, fv, args)
    THEN /\ sstack' = Append(rest, SFrame(FrameOf(fv, sheap)))
         /\ sheap' = FrameHeap(SFuns, fv, args, sheap)
         /\ smode' = SRunning
    ELSE /\ smode' = SDone("error", [kind |-> "arity"])
         /\ UNCHANGED <<sstack, sheap>>

\* A call keeps its frame on the stack, a tail call does not.
SCall ==
    /\ SAt("CALL") \/ SAt("TAIL_CALL")
    /\ LET f == STop.frame
           callee == f.regs[SInstr.callee]
       IN  IF callee.kind # "fn" THEN SFail("call")
           ELSE /\ SEnter(callee, Args(f, SInstr.args),
                          IF SInstr.op = "CALL" THEN SWith(Awaiting(f, SInstr.dst)) ELSE SBelow)
                /\ UNCHANGED sconts

SReturn ==
    /\ SAt("RETURN")
    /\ sstack' = SBelow
    /\ smode' = [st |-> "ret", val |-> STop.frame.regs[SInstr.src]]
    /\ UNCHANGED <<sheap, sconts>>

SDeliver ==
    /\ smode.st = "ret"
    /\ IF sstack = <<>> THEN smode' = SDone("value", smode.val) /\ sstack' = sstack
       ELSE IF STop.kind = "frame"
            THEN /\ sstack' = SWith(Put(STop.frame, STop.frame.dst, smode.val))
                 /\ smode' = SRunning
            ELSE sstack' = SBelow /\ smode' = smode
    /\ UNCHANGED <<sheap, sconts>>

SHandle ==
    /\ SAt("HANDLE")
    /\ LET f == STop.frame
       IN  SEnter(Fn(SInstr.body, f.env), <<>>,
                  Append(SWith(Awaiting(f, SInstr.dst)),
                         [kind |-> "handle", specs |-> SInstr.specs,
                          env |-> f.env, mark |-> Len(sheap)]))
    /\ UNCHANGED sconts

\* The handlers on the stack for eff, as pairs of an entry and a spec.
Handling(eff) ==
    {p \in (DOMAIN sstack) \X (1 .. 9) :
        /\ sstack[p[1]].kind = "handle"
        /\ p[2] \in DOMAIN sstack[p[1]].specs
        /\ sstack[p[1]].specs[p[2]].eff = eff}

SPerform ==
    /\ SAt("PERFORM")
    /\ Len(sconts) < MaxConts
    /\ LET f == STop.frame
           def == Resolve(sheap, f.env, SInstr.eff)
           all == Handling(SInstr.eff)
       IN  IF all = {}
           THEN /\ smode' = SDone("unhandled", [kind |-> SInstr.eff])
                /\ UNCHANGED <<sstack, sheap, sconts>>
           ELSE LET p == CHOOSE p \in all :
                            \A q \in all : q[1] < p[1] \/ (q[1] = p[1] /\ q[2] >= p[2])
                    marker == sstack[p[1]]
                IN  /\ sconts' = Append(sconts,
                           [resumable |-> IF def.kind = "effect" THEN def.resumable ELSE TRUE,
                            slice |-> SubSeq(SWith(Advance(f)), p[1], Len(sstack)),
                            dst |-> SInstr.dst, mark |-> marker.mark,
                            scopes |-> SubSeq(sheap, marker.mark + 1, Len(sheap))])
                    /\ SEnter(Fn(marker.specs[p[2]].fn, marker.env),
                              <<f.regs[SInstr.arg], Cont(Len(sconts) + 1)>>,
                              SubSeq(sstack, 1, p[1] - 1))

(* The copy of a continuation.  Scopes above its mark move to the end of the  *)
(* heap, and everything in the copy that refers to one of them moves along.  *)
Moved(c, e) == IF e > c.mark /\ e <= c.mark + Len(c.scopes)
               THEN e + Len(sheap) - c.mark ELSE e
MovedVal(c, v) == IF v.kind = "fn" THEN [v EXCEPT !.env = Moved(c, @)] ELSE v
MovedScope(c, s) ==
    Scope(Moved(c, s.parent), [n \in Names |-> MovedVal(c, s.vars[n])])
MovedEntry(c, e) ==
    IF e.kind = "handle"
    THEN [e EXCEPT !.env = Moved(c, @), !.mark = IF @ = c.mark THEN Len(sheap) ELSE Moved(c, @)]
    ELSE SFrame([e.frame EXCEPT
                    !.env = Moved(c, @),
                    !.parents = [j \in DOMAIN @ |-> Moved(c, @[j])],
                    !.regs = [r \in Regs |-> MovedVal(c, @[r])]])

SResume ==
    /\ SAt("RESUME")
    /\ LET f == STop.frame
           k == f.regs[SInstr.cont]
       IN  IF k.kind # "cont" THEN SFail("resume")
           ELSE LET c == sconts[k.id]
                    copy == [j \in DOMAIN c.slice |-> MovedEntry(c, c.slice[j])]
                    last == copy[Len(copy)]
                IN  IF ~c.resumable THEN SFail("not resumable")
                    ELSE /\ sstack' = SWith(Awaiting(f, SInstr.dst))
                                      \o SubSeq(copy, 1, Len(copy) - 1)
                                      \o <<SFrame(Put(last.frame, c.dst, f.regs[SInstr.val]))>>
                         /\ sheap' = sheap \o [j \in DOMAIN c.scopes |-> MovedScope(c, c.scopes[j])]
                         /\ UNCHANGED <<sconts, smode>>

SNext ==
    \/ SLocal
    \/ SCall
    \/ SReturn
    \/ SDeliver
    \/ SHandle
    \/ SPerform
    \/ SResume

=============================================================================
