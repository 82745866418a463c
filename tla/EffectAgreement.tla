-------------------------- MODULE EffectAgreement ---------------------------
(* The VM's effects beside the language's: a program runs on the VM and then *)
(* on the machine of EffectSpec, and the two outcomes are compared.          *)
EXTENDS EffectVM

VARIABLES sstack, sheap, sconts, smode

Lang == INSTANCE EffectSpec

both == <<vars, sstack, sheap, sconts, smode>>

AInit == Init /\ Lang!SInit

ANext ==
    \/ Next /\ UNCHANGED <<sstack, sheap, sconts, smode>>
    \/ Halted /\ Lang!SNext /\ UNCHANGED vars

ASpec == AInit /\ [][ANext]_both /\ WF_both(ANext)

RECURSIVE Shown(_)
\* What a caller sees of a value: of a closure its code, not where its scope is.
Shown(v) ==
    CASE v.kind = "fn" -> [v EXCEPT !.env = 0]
      [] v.kind = "term" -> Term([j \in DOMAIN v.args |-> Shown(v.args[j])])
      [] OTHER -> v

\* Both machines end with the same value, error or unhandled effect.
Agrees ==
    Halted /\ Lang!SHalted => mode.kind = smode.kind /\ Shown(mode.val) = Shown(smode.val)

\* As long as one frame can stand for the delimited continuation (outside is
\* FALSE), _perform, _dispatch_effect and resume give a program the outcome that
\* LANGUAGE.md promises, multi-shot resumes and nested handles included.
AgreesInFragment == ~outside => Agrees

=============================================================================
