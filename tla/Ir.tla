--------------------------------- MODULE Ir ---------------------------------
(***************************************************************************)
(* The three program representations the compiler core works on, and what  *)
(* each of them means.                                                     *)
(*                                                                         *)
(* HIR: expressions [k, a], a kind and the sub-expressions.  MIR: a        *)
(* function is a sequence of basic blocks [instrs, term] over virtual      *)
(* registers, entered at block 1.  LIR: one sequence of instructions with  *)
(* instruction indices as jump targets.  An instruction or terminator is   *)
(* [op, dst, uses, to, sym, ref]: the register it writes (0: none), those  *)
(* it reads, its targets (blocks in MIR, indices in LIR), a symbol, and    *)
(* the index of the constant or function it names (0: none).               *)
(* Registers, blocks and indices count from 1.                             *)
(*                                                                         *)
(* A value is the term [k, a] that computed it, so two runs agree exactly  *)
(* when they pass the same values to the same calls in the same order.     *)
(***************************************************************************)
EXTENDS Integers, Sequences, FiniteSets, SequencesExt, FiniteSetsExt

CONSTANT Fuel    \* bound: instructions a run may execute

-----------------------------------------------------------------------------
(* HIR expressions. *)

X(k, a) == [k |-> k, a |-> a]
Var(s) == X(s, <<>>)
CallOf(operator, args) == X("call", <<operator>> \o args)
Call(args) == CallOf(Var("f"), args)
Cond(clauses) == X("cond", clauses)        \* condition and result in turn
Asserting(c) == X("assert", <<c>>)
LetOf(s, value, body) == X("let", <<Var(s), value, body>>)
Let(value, body) == LetOf("x", value, body)
Perform(e) == X("perform", <<e>>)
Handle == X("handle", <<>>)                \* its body is a function of its own
Quote(v) == X("quote", <<v>>)              \* a literal or a quoted form: the value v

Syms == {"x", "y", "f", "h", "+"}
Nil == X("nil", <<>>)
T == X("t", <<>>)
PyNone == X("None", <<>>)                  \* the host's None, which is not nil
Unset == X("unset", <<>>)
Truthy(v) == v # Nil
\* What the symbols are bound to when the function is called: arguments that are
\* true or nil, a function, a builtin operator, and whether the body of a handle
\* performs an effect.
Envs == {[s \in Syms |-> IF s \in true \cup {"f", "+"} THEN Var(s) ELSE Nil] :
            true \in SUBSET {"x", "y", "h"}}

\* The outcome of a run: the value returned or raised, and what was called or
\* performed on the way, in order.
Out(kind, v, tr) == [kind |-> kind, v |-> v, tr |-> tr]
HandleValue(env) == X(IF Truthy(env["h"]) THEN "handler" ELSE "body", <<>>)
Failed == X("assertion", <<>>)

-----------------------------------------------------------------------------
(* The reference: what an expression means. *)

RECURSIVE Eval(_, _, _)
RECURSIVE EvalArgs(_, _, _, _)
RECURSIVE EvalCond(_, _, _)

\* Left to right; the first argument that raises ends the evaluation.
EvalArgs(args, env, tr, vals) ==
    IF args = <<>> THEN Out("ok", X("args", vals), tr)
    ELSE LET r == Eval(Head(args), env, tr)
         IN IF r.kind # "ok" THEN r ELSE EvalArgs(Tail(args), env, r.tr, Append(vals, r.v))

EvalCond(clauses, env, tr) ==
    IF clauses = <<>> THEN Out("ok", Nil, tr)
    ELSE LET c == Eval(clauses[1], env, tr)
         IN IF c.kind # "ok" THEN c
            ELSE IF Truthy(c.v) THEN Eval(clauses[2], env, c.tr)
            ELSE EvalCond(SubSeq(clauses, 3, Len(clauses)), env, c.tr)

Eval(e, env, tr) ==
    CASE e.k \in Syms -> Out("ok", env[e.k], tr)
      [] e.k = "nil" -> Out("ok", Nil, tr)
      [] e.k = "quote" -> Out("ok", e.a[1], tr)
      [] e.k = "cond" -> EvalCond(e.a, env, tr)
      [] e.k = "let" ->
           LET r == Eval(e.a[2], env, tr)
           IN IF r.kind # "ok" THEN r ELSE Eval(e.a[3], [env EXCEPT ![e.a[1].k] = r.v], r.tr)
      [] e.k = "assert" ->
           LET r == Eval(e.a[1], env, tr)
           IN IF r.kind = "ok" /\ ~Truthy(r.v) THEN Out("raise", Failed, r.tr) ELSE r
      [] e.k = "handle" -> Out("ok", HandleValue(env), Append(tr, HandleValue(env)))
      [] OTHER ->    \* call, perform
           LET r == EvalArgs(e.a, env, tr, <<>>)
               v == X(e.k, r.v.a)
           IN IF r.kind # "ok" THEN r ELSE Out("ok", v, Append(r.tr, v))

Meaning(e, env) == Eval(e, env, <<>>)

-----------------------------------------------------------------------------
(* Instructions. *)

Ins(op, dst, uses, sym) ==
    [op |-> op, dst |-> dst, uses |-> uses, to |-> <<>>, sym |-> sym, ref |-> 0]
Jmp(op, dst, uses, to) ==
    [op |-> op, dst |-> dst, uses |-> uses, to |-> to, sym |-> "", ref |-> 0]
Ref(op, dst, ref) == [Ins(op, dst, <<>>, "") EXCEPT !.ref = ref]
Block(instrs, term) == [instrs |-> instrs, term |-> term]

\* terminator_targets: JUMP, both sides of BRANCH, the resume block of a perform.
Targets(term) == ToSet(term.to)
Reads(ins) == ToSet(ins.uses)

-----------------------------------------------------------------------------
(* Running.  A state is [pc, regs, scopes, consts, tr]; scopes is the      *)
(* chain, head last, consts the constants that instructions name.  A       *)
(* perform is answered by a handler outside the function, which resumes it *)
(* with a value.                                                           *)

Start(f, env, pc) ==
    [pc |-> pc, regs |-> [r \in 1..f.regs |-> Unset], scopes |-> <<env>>, consts |-> f.consts,
     tr |-> <<>>]
Args(s, ins) == [i \in DOMAIN ins.uses |-> s.regs[ins.uses[i]]]
Set(s, r, v) == [s EXCEPT !.regs[r] = v]
Event(s, v) == [s EXCEPT !.tr = Append(@, v)]

\* The effect of an instruction that goes on with the next one.  In MIR the None of
\* the constant pool stands for nil; the register VM loads what it is given.
Effect(s, ins) ==
    CASE ins.op = "LOAD_CONST" ->
           Set(s, ins.dst, IF s.consts[ins.ref] = PyNone THEN Nil ELSE s.consts[ins.ref])
      [] ins.op = "LOAD_HOST" -> Set(s, ins.dst, s.consts[ins.ref])
      [] ins.op \in {"LOAD_NIL", "LOAD_T"} -> Set(s, ins.dst, IF ins.op = "LOAD_NIL" THEN Nil ELSE T)
      [] ins.op = "LOAD_ENV" -> Set(s, ins.dst, Last(s.scopes)[ins.sym])
      [] ins.op = "MOVE" -> Set(s, ins.dst, s.regs[ins.uses[1]])
      [] ins.op = "CALL" -> Event(Set(s, ins.dst, X("call", Args(s, ins))), X("call", Args(s, ins)))
      [] ins.op = "CALL_BUILTIN" ->
           LET v == X("call", <<Var(ins.sym)>> \o Args(s, ins)) IN Event(Set(s, ins.dst, v), v)
      [] ins.op = "ENTER_SCOPE" -> [s EXCEPT !.scopes = Append(@, Last(@))]
      [] ins.op = "EXIT_SCOPE" -> [s EXCEPT !.scopes = Front(@)]
      [] ins.op = "STORE_LOCAL" ->
           [s EXCEPT !.scopes[Len(s.scopes)] = [@ EXCEPT ![ins.sym] = s.regs[ins.uses[1]]]]
      [] ins.op \in {"HANDLE", "EFFECT_HANDLE_END"} ->
           Event(Set(s, ins.dst, HandleValue(s.scopes[1])), HandleValue(s.scopes[1]))
      [] OTHER -> s

Performed(s, ins) ==
    Event(Set(s, ins.dst, X("perform", Args(s, ins))), X("perform", Args(s, ins)))

\* The outcome at an instruction that leaves the function.
Leaving == {"RETURN", "TAIL_CALL", "RAISE_EFFECT"}
Outcome(s, ins) ==
    CASE ins.op = "RETURN" ->
           Out("ok", IF ins.uses = <<>> THEN Nil ELSE s.regs[ins.uses[1]], s.tr)
      [] ins.op = "TAIL_CALL" ->
           Out("ok", X("call", Args(s, ins)), Append(s.tr, X("call", Args(s, ins))))
      [] OTHER -> Out("raise", Failed, s.tr)

Stuck(s) == Out("stuck", Unset, s.tr)

RECURSIVE RunMir(_, _, _)
\* s.pc is <<block, index>>.
RunMir(f, s, fuel) ==
    IF fuel = 0 THEN Stuck(s)
    ELSE LET b == f.blocks[s.pc[1]]
             goto(t, blk) == [t EXCEPT !.pc = <<blk, 1>>]
         IN IF s.pc[2] =< Len(b.instrs)
            THEN RunMir(f, [Effect(s, b.instrs[s.pc[2]]) EXCEPT !.pc[2] = @ + 1], fuel - 1)
            ELSE CASE b.term.op = "JUMP" -> RunMir(f, goto(s, b.term.to[1]), fuel - 1)
                   [] b.term.op = "BRANCH" ->
                        RunMir(f, goto(s, b.term.to[IF Truthy(s.regs[b.term.uses[1]]) THEN 1 ELSE 2]),
                               fuel - 1)
                   [] b.term.op = "EFFECT_PERFORM" ->
                        RunMir(f, goto(Performed(s, b.term), b.term.to[1]), fuel - 1)
                   [] OTHER -> Outcome(s, b.term)

RECURSIVE RunLir(_, _, _)
\* The register VM on a compat stream, and on an abstract-machine stream: there
\* a perform in the body of a handle goes to the dispatch label of the
\* HANDLER_PUSH, and CONT_RESTORE to the resume target of the CONT_CAPTURE.
RunLir(code, s, fuel) ==
    IF fuel = 0 \/ s.pc \notin DOMAIN code THEN Stuck(s)
    ELSE LET ins == code[s.pc]
             next(t) == RunLir(code, [t EXCEPT !.pc = @ + 1], fuel - 1)
             goto(t, i) == RunLir(code, [t EXCEPT !.pc = i], fuel - 1)
         IN CASE ins.op = "JUMP" -> goto(s, ins.to[1])
              [] ins.op = "JUMP_IF_FALSE" ->
                   IF Truthy(s.regs[ins.uses[1]]) THEN next(s) ELSE goto(s, ins.to[1])
              [] ins.op = "PERFORM" -> next(Performed(s, ins))
              [] ins.op = "CONT_CAPTURE" -> goto(Performed(s, ins), ins.to[1])
              [] ins.op = "HANDLER_PUSH" ->
                   IF Truthy(s.scopes[1]["h"]) THEN goto(s, ins.to[1]) ELSE next(s)
              [] ins.op \in {"CALL_BODY", "CALL_HANDLER"} ->
                   LET v == X(IF ins.op = "CALL_BODY" THEN "body" ELSE "handler", <<>>)
                   IN next(Event(Set(s, ins.dst, v), v))
              [] ins.op \in Leaving -> Outcome(s, ins)
              [] OTHER -> next(Effect(s, ins))

MirMeaning(f, env) == RunMir(f, Start(f, env, <<1, 1>>), Fuel)
LirMeaning(f, env) == RunLir(f.code, Start(f, env, 1), Fuel)
=============================================================================
