------------------------------- MODULE Frames -------------------------------
(* Values, scopes and frames of the register VM, and the instructions that   *)
(* touch one frame only.  EffectVM runs them under the VM's own treatment of *)
(* effects, EffectSpec under the language's.                                 *)
(*                                                                           *)
(* A scope is a cell of a heap: environments are shared by reference, so a   *)
(* frame, a closure and a continuation hold the index of a cell.  Values     *)
(* carry no more than what a program can tell apart: the result of an        *)
(* operator is the term of its arguments.                                    *)
EXTENDS Integers, Sequences, FiniteSets

CONSTANTS Names,     \* the symbols of the programs
          NRegs      \* registers of a frame

ASSUME NRegsAssumption == NRegs \in Nat \ {0}

Regs == 1 .. NRegs

Missing == [kind |-> "missing"]
None == [kind |-> "none"]
Num(n) == [kind |-> "num", n |-> n]
Term(args) == [kind |-> "term", args |-> args]
Fn(f, env) == [kind |-> "fn", fn |-> f, env |-> env]
Cont(id) == [kind |-> "cont", id |-> id]
EffectDefinition(resumable) == [kind |-> "effect", resumable |-> resumable]

-----------------------------------------------------------------------------
(* Scopes                                                                    *)

Scope(parent, vars) == [parent |-> parent, vars |-> vars]
NoVars == [n \in Names |-> Missing]

\* The binding of n nearest to env, Missing when no layer has one.
Resolve(heap, env, n) ==
    LET up[e \in 0 .. Len(heap)] ==
            IF e = 0 THEN Missing
            ELSE IF heap[e].vars[n] = Missing THEN up[heap[e].parent]
            ELSE heap[e].vars[n]
    IN  up[env]

Bind(heap, env, n, v) == [heap EXCEPT ![env].vars[n] = v]

-----------------------------------------------------------------------------
(* Frames                                                                    *)

\* dst is the register that waits for the call in progress.
Frame(f, env) ==
    [fn |-> f, pc |-> 1, regs |-> [r \in Regs |-> None], env |-> env,
     parents |-> <<>>, dst |-> 1]

\* _make_frame: main runs in the closure's own scope, every other function in
\* a child of it that holds the arguments.
ArityOk(funs, fv, args) == Len(funs[fv.fn].params) = Len(args)
FrameHeap(funs, fv, args, heap) ==
    LET params == funs[fv.fn].params
        Bound(n) == {j \in DOMAIN params : params[j] = n}
        vars == [n \in Names |-> IF Bound(n) = {} THEN Missing
                                 ELSE args[CHOOSE j \in Bound(n) : TRUE]]
    IN  IF fv.fn = 1 THEN heap ELSE Append(heap, Scope(fv.env, vars))
FrameOf(fv, heap) == Frame(fv.fn, IF fv.fn = 1 THEN fv.env ELSE Len(heap) + 1)

Advance(f) == [f EXCEPT !.pc = @ + 1]
Awaiting(f, dst) == [Advance(f) EXCEPT !.dst = dst]
Put(f, dst, v) == [f EXCEPT !.regs[dst] = v]
Args(f, rs) == [j \in DOMAIN rs |-> f.regs[rs[j]]]

-----------------------------------------------------------------------------
(* Instructions that touch one frame and its scopes                          *)

LocalOps == {"LOAD_HOST", "LOAD_ENV", "STORE_LOCAL", "DEFINE_ONCE", "DEFEFFECT",
             "MAKE_FUNCTION", "ENTER_SCOPE", "EXIT_SCOPE", "CALL_BUILTIN"}

Writing == {"STORE_LOCAL", "DEFINE_ONCE", "DEFEFFECT"}

\* The instruction raises: an unbound symbol, or a second definition.
LocalFails(i, f, heap) ==
    \/ i.op = "LOAD_ENV" /\ Resolve(heap, f.env, i.name) = Missing
    \/ i.op = "DEFINE_ONCE" /\ heap[f.env].vars[i.name] # Missing

LocalHeap(i, f, heap) ==
    CASE i.op \in {"STORE_LOCAL", "DEFINE_ONCE"} ->
             Bind(heap, f.env, i.name, f.regs[i.src])
      [] i.op = "DEFEFFECT" ->
             Bind(heap, f.env, i.name, EffectDefinition(i.resumable))
      [] i.op = "ENTER_SCOPE" -> Append(heap, Scope(f.env, NoVars))
      [] OTHER -> heap

LocalFrame(i, f, heap) ==
    CASE i.op = "LOAD_HOST" -> Put(Advance(f), i.dst, Num(i.val))
      [] i.op = "LOAD_ENV" -> Put(Advance(f), i.dst, Resolve(heap, f.env, i.name))
      [] i.op = "MAKE_FUNCTION" -> Put(Advance(f), i.dst, Fn(i.fn, f.env))
      [] i.op = "CALL_BUILTIN" -> Put(Advance(f), i.dst, Term(Args(f, i.args)))
      [] i.op = "ENTER_SCOPE" ->
             [Advance(f) EXCEPT !.parents = Append(@, f.env), !.env = Len(heap) + 1]
      [] i.op = "EXIT_SCOPE" ->
             [Advance(f) EXCEPT !.env = f.parents[Len(f.parents)],
                                !.parents = SubSeq(@, 1, Len(@) - 1)]
      [] OTHER -> Advance(f)

-----------------------------------------------------------------------------
(* Legal code: registers and functions exist and nothing runs off the end of *)
(* the code (verify_lir refuses the rest), and a scope is left only after it *)
(* was entered (lower_let; l10_scope_nesting tells).  A tail call may leave  *)
(* scopes open: the VM drops the frame with them.                            *)

Assigning == {"LOAD_HOST", "LOAD_ENV", "MAKE_FUNCTION", "CALL_BUILTIN", "CALL",
              "PERFORM", "HANDLE", "RESUME"}
Ending == {"RETURN", "TAIL_CALL"}

LegalInstr(funs, i) ==
    /\ i.op \in LocalOps \cup Assigning \cup Ending
    /\ i.op \in Assigning => i.dst \in Regs
    /\ i.op \in {"STORE_LOCAL", "DEFINE_ONCE", "RETURN"} => i.src \in Regs
    /\ i.op \in {"LOAD_ENV", "STORE_LOCAL", "DEFINE_ONCE", "DEFEFFECT"} => i.name \in Names
    /\ i.op \in {"CALL_BUILTIN", "CALL", "TAIL_CALL"} => i.args \in Seq(Regs)
    /\ i.op \in {"CALL", "TAIL_CALL"} => i.callee \in Regs
    /\ i.op = "MAKE_FUNCTION" => i.fn \in DOMAIN funs
    /\ i.op = "PERFORM" => i.eff \in Names /\ i.arg \in Regs
    /\ i.op = "RESUME" => i.cont \in Regs /\ i.val \in Regs
    /\ i.op = "HANDLE" => /\ i.body \in DOMAIN funs
                          /\ DOMAIN i.specs = 1 .. Len(i.specs)
                          /\ \A j \in DOMAIN i.specs : i.specs[j].fn \in DOMAIN funs

\* How many scopes are open before the instruction at pc.
Before(code, pc, op) == {k \in 1 .. (pc - 1) : code[k].op = op}
Depth(code, pc) ==
    Cardinality(Before(code, pc, "ENTER_SCOPE")) - Cardinality(Before(code, pc, "EXIT_SCOPE"))

LegalCode(funs, code) ==
    /\ Len(code) \in Nat \ {0} /\ DOMAIN code = 1 .. Len(code)
    /\ \A pc \in DOMAIN code :
          /\ LegalInstr(funs, code[pc])
          /\ code[pc].op \notin Ending => pc < Len(code)
          /\ code[pc].op = "EXIT_SCOPE" => Depth(code, pc) > 0

\* Functions are numbered from 1, the main one.
Legal(funs) ==
    /\ 1 \in DOMAIN funs /\ 0 \notin DOMAIN funs
    /\ \A f \in DOMAIN funs : funs[f].params \in Seq(Names) /\ LegalCode(funs, funs[f].code)

=============================================================================
