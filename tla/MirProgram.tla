----------------------------- MODULE MirProgram -----------------------------
(***************************************************************************)
(* What a MIR program means: functions that make closures, bind names in   *)
(* scopes and call each other, operators and host functions.  The register *)
(* VM runs the same instructions once LIR lowering has made one stream of  *)
(* the blocks.  A program is [functions, constants, main].                 *)
(*                                                                         *)
(* A value is [k, a, n]: a kind, the values it was made from and numbers   *)
(* (of a number, or the function and scope of a closure).                  *)
(***************************************************************************)
EXTENDS MirLower, MirOptimize

Value(k, a, n) == [k |-> k, a |-> a, n |-> n]
Number(i) == Value("number", <<>>, <<i>>)
NilValue == Value("nil", <<>>, <<>>)
UnsetValue == Value("unset", <<>>, <<>>)        \* None in a register never written

\* HIR of programs.
Do(body) == X("do", body)
Lambda(param, body) == X("lambda", <<Var(param)>> \o body)
Define(name, e) == X("define", <<Var(name), e>>)
All(e) == X("all", <<e>>)

\* What the root environment binds: literal spellings, pure operators, and the
\* host function f, which can be seen to be called.
Literals == [s \in {"1", "2", "3", "T", "nil"} |->
    CASE s = "1" -> Number(1) [] s = "2" -> Number(2) [] s = "3" -> Number(3)
      [] OTHER -> Value(s, <<>>, <<>>)]
PureOperators == {"+", "*"}
Globals(s) == IF s \in DOMAIN Literals THEN Literals[s]
              ELSE IF s \in PureOperators \cup {"f"} THEN Value(s, <<>>, <<>>)
              ELSE Value("unbound", <<>>, <<>>)

\* The value of an operator, or an error: numbers, any count of them.
OperatorValue(op, args) ==
    IF \E i \in DOMAIN args : args[i].k # "number" THEN Value("error", <<>>, <<>>)
    ELSE Number(FoldLeft(LAMBDA acc, v : IF op = "+" THEN acc + v.n[1] ELSE acc * v.n[1],
                         IF op = "+" THEN 0 ELSE 1, args))

-----------------------------------------------------------------------------
(* The machine.  A frame is [fn, pc, regs, scope, dst, gather]: the current *)
(* instruction is pc[2] of block pc[1], dst the register of the caller that *)
(* takes the value, in a tuple when gather.  Scopes are [parent, names] and *)
(* shared: a closure sees what is defined after it was made.                *)

RECURSIVE Lookup(_, _, _)
Lookup(scopes, id, s) ==
    IF id = 0 THEN Globals(s)
    ELSE IF s \in DOMAIN scopes[id].names THEN scopes[id].names[s]
    ELSE Lookup(scopes, scopes[id].parent, s)

Bind(scope, s, v) == [scope EXCEPT !.names = [n \in DOMAIN @ \cup {s} |-> IF n = s THEN v ELSE @[n]]]

Frame(p, fn, scope, dst, gather) ==
    [fn |-> fn, pc |-> <<1, 1>>, regs |-> [r \in 1..p.functions[fn].regs |-> UnsetValue],
     scope |-> scope, dst |-> dst, gather |-> gather]

Top(s) == Last(s.frames)
WithTop(s, frame) == [s EXCEPT !.frames = Append(Front(@), frame)]
Advance(s) == WithTop(s, [Top(s) EXCEPT !.pc[2] = @ + 1])
SetTop(s, r, v) == WithTop(s, [Top(s) EXCEPT !.regs[r] = v])

\* What an observer sees of a value: of a closure only that it is one.
Observed(v) == IF v.k = "closure" THEN Value("closure", <<>>, <<>>) ELSE v

\* Enter function fn with the parameters bound in a new scope; a function index
\* outside the program and a wrong number of arguments are errors.
Enter(p, s, fn, parent, args, dst, gather) ==
    LET params == p.functions[fn].params
        names == [n \in ToSet(params) |-> args[CHOOSE i \in DOMAIN params : params[i] = n]]
    IN IF fn \notin DOMAIN p.functions \/ Len(params) # Len(args) THEN [s EXCEPT !.end = "raise"]
       ELSE [s EXCEPT !.scopes = Append(@, [parent |-> parent, names |-> names]),
                      !.frames = Append(@, Frame(p, fn, Len(s.scopes) + 1, dst, gather))]

\* RETURN: v goes to the register the caller waits with, or the run ends.
Deliver(s, v) ==
    LET frame == Top(s)
        value == IF frame.gather THEN Value("tuple", <<v>>, <<>>) ELSE v
    IN IF Len(s.frames) = 1 THEN [s EXCEPT !.end = "ok"]
       ELSE SetTop([s EXCEPT !.frames = Front(@)], frame.dst, value)

\* CALL and TAIL_CALL; a tail call gives up its frame.
Invoke(p, s, ins, callee, args) ==
    LET tail == ins.op = "TAIL_CALL"
        answer(t, v) == IF tail THEN Deliver(t, v) ELSE SetTop(Advance(t), ins.dst, v)
        event == Value("call", [i \in DOMAIN args |-> Observed(args[i])], <<>>)
    IN CASE callee.k = "closure" ->
              IF tail THEN Enter(p, [s EXCEPT !.frames = Front(@)], callee.n[1], callee.n[2], args,
                                 Top(s).dst, Top(s).gather)
              ELSE Enter(p, Advance(s), callee.n[1], callee.n[2], args, ins.dst, FALSE)
         [] callee.k = "f" -> answer([s EXCEPT !.tr = Append(@, event)], event)
         [] callee.k \in PureOperators /\ OperatorValue(callee.k, args).k # "error" ->
              answer(s, OperatorValue(callee.k, args))
         [] OTHER -> [s EXCEPT !.end = "raise"]

MachineStep(p, s) ==
    LET frame == Top(s)
        block == p.functions[frame.fn].blocks[frame.pc[1]]
        ins == IF frame.pc[2] =< Len(block.instrs) THEN block.instrs[frame.pc[2]] ELSE block.term
        args == [i \in DOMAIN ins.uses |-> frame.regs[ins.uses[i]]]
        set(v) == SetTop(Advance(s), ins.dst, v)
        raise == [s EXCEPT !.end = "raise"]
        jump(b) == WithTop(s, [frame EXCEPT !.pc = <<b, 1>>])
        scope == s.scopes[frame.scope]
        bind == [Advance(s) EXCEPT !.scopes[frame.scope] = Bind(scope, ins.sym, args[1])]
    IN CASE ins.op = "LOAD_CONST" -> set(p.constants[ins.ref])
         [] ins.op = "LOAD_ENV" ->
              LET v == Lookup(s.scopes, frame.scope, ins.sym) IN IF v.k = "unbound" THEN raise ELSE set(v)
         [] ins.op = "MOVE" -> set(args[1])
         [] ins.op = "MAKE_FUNCTION" ->
              IF ins.ref \in DOMAIN p.functions THEN set(Value("closure", <<>>, <<ins.ref, frame.scope>>))
              ELSE raise
         [] ins.op = "STORE_LOCAL" -> bind
         [] ins.op = "DEFINE_ONCE" -> IF ins.sym \in DOMAIN scope.names THEN raise ELSE bind
         [] ins.op = "ENTER_SCOPE" ->
              [WithTop(Advance(s), [Top(Advance(s)) EXCEPT !.scope = Len(s.scopes) + 1])
                  EXCEPT !.scopes = Append(@, [parent |-> frame.scope, names |-> <<>>])]
         [] ins.op = "EXIT_SCOPE" -> WithTop(Advance(s), [Top(Advance(s)) EXCEPT !.scope = scope.parent])
         [] ins.op = "APPEND_RESULT" -> [Advance(s) EXCEPT !.results = Append(@, Observed(args[1]))]
         [] ins.op = "ALL_GATHER" -> Enter(p, Advance(s), ins.ref, frame.scope, <<>>, ins.dst, TRUE)
         [] ins.op \in {"CALL", "TAIL_CALL"} -> Invoke(p, s, ins, args[1], Tail(args))
         [] ins.op = "JUMP" -> jump(ins.to[1])
         [] ins.op = "BRANCH" -> jump(ins.to[IF args[1].k = "nil" THEN 2 ELSE 1])
         [] ins.op = "RETURN" -> Deliver(s, IF args = <<>> THEN NilValue ELSE args[1])
         [] OTHER -> raise

RECURSIVE RunProgram(_, _, _)
RunProgram(p, s, fuel) ==
    IF s.end # "" \/ fuel = 0 THEN [end |-> s.end, results |-> s.results, tr |-> s.tr]
    ELSE RunProgram(p, MachineStep(p, s), fuel - 1)

\* The outcome of a program: how it ended, the values of its top-level forms and
\* the calls of the host function.
ProgramMeaning(p) ==
    RunProgram(p, [frames |-> <<Frame(p, p.main, 1, 0, FALSE)>>,
                   scopes |-> <<[parent |-> 0, names |-> <<>>]>>,
                   results |-> <<>>, tr |-> <<>>, end |-> ""], Fuel)
=============================================================================
