------------------------------ MODULE MirLower ------------------------------
(***************************************************************************)
(* qy/passes/mir/normalize.py: a HIR expression, the body of a function,   *)
(* becomes a MIR control-flow graph.  The builder b is _FunctionLowerer    *)
(* with what its owner collects: [blocks, cur, regs, fns, consts], the     *)
(* blocks so far, the current one, the number of registers handed out, the *)
(* functions and the constants of the program so far.  Lowering an         *)
(* expression returns [b, r], r = 0 when there is no result register.      *)
(***************************************************************************)
EXTENDS Ir

Open == Jmp("open", 0, <<>>, <<>>)            \* a block without a terminator
NewBuilder(fns, consts) ==
    [blocks |-> <<Block(<<>>, Open)>>, cur |-> 1, regs |-> 0, fns |-> fns, consts |-> consts]

terminated(b) == b.blocks[b.cur].term # Open
register(b) == [b EXCEPT !.regs = @ + 1]      \* the register is the new b.regs
new_block(b) == [b EXCEPT !.blocks = Append(@, Block(<<>>, Open))]
switch_to(b, id) == [b EXCEPT !.cur = id]

\* Nothing is emitted into a block that has its terminator.
emit(b, ins) ==
    IF terminated(b) THEN b ELSE [b EXCEPT !.blocks[b.cur].instrs = Append(@, ins)]
terminate(b, term) ==
    IF terminated(b) THEN b ELSE [b EXCEPT !.blocks[b.cur].term = term]

Res(b, r) == [b |-> b, r |-> r]
\* A fresh register that the instruction writes.
EmitNew(b, op, uses, sym) ==
    LET b1 == register(b) IN Res(emit(b1, Ins(op, b1.regs, uses, sym)), b1.regs)

\* emit_load_const: each call takes a new place in the constant pool.
emit_load_const(b, v) ==
    LET b1 == [register(b) EXCEPT !.consts = Append(@, v)]
    IN Res(emit(b1, Ref("LOAD_CONST", b1.regs, Len(b1.consts))), b1.regs)
EmitNil(b) == emit_load_const(b, PyNone)

RECURSIVE lower_expr(_, _, _)
RECURSIVE lower_args(_, _, _)
RECURSIVE lower_clauses(_, _, _, _, _)
RECURSIVE lower_sequence(_, _, _, _)

\* APPEND_RESULT of what an expression left.
Collecting(collect, l) ==
    IF collect /\ l.r # 0 THEN Res(emit(l.b, Ins("APPEND_RESULT", 0, <<l.r>>, "")), l.r) ELSE l

\* The expressions of a body up to one that leaves the function; the body of the
\* main function collects their values.
lower_sequence(body, tail, collect, l) ==
    IF body = <<>> \/ terminated(l.b) THEN l
    ELSE lower_sequence(Tail(body), tail, collect,
                        Collecting(collect, lower_expr(Head(body), tail /\ Len(body) = 1, l.b)))

OrNil(l) == IF l.r = 0 /\ ~terminated(l.b) THEN EmitNil(l.b) ELSE l
lower_body(body, tail, collect, b) == OrNil(lower_sequence(body, tail, collect, Res(b, 0)))

\* finish: a block left open returns nil.
finish(params, b) ==
    [blocks |-> [i \in DOMAIN b.blocks |->
                   IF b.blocks[i].term = Open
                   THEN Block(b.blocks[i].instrs, Jmp("RETURN", 0, <<>>, <<>>))
                   ELSE b.blocks[i]],
     regs |-> b.regs, params |-> params]
Returning(l) == IF l.r = 0 THEN l.b ELSE terminate(l.b, Jmp("RETURN", 0, <<l.r>>, <<>>))

\* b with what the builder of an inner function collected.
WithFunction(b, params, inner) ==
    [b EXCEPT !.fns = [inner.fns EXCEPT ![Len(b.fns) + 1] = finish(params, inner)], !.consts = inner.consts]

\* The place of a function is reserved before the functions inside it get theirs.
lower_function(params, body, b) ==
    WithFunction(b, params,
        Returning(lower_body(body, TRUE, FALSE,
                             NewBuilder(Append(b.fns, finish(<<>>, NewBuilder(<<>>, <<>>))), b.consts))))

lower_args(args, b, regs) ==
    IF args = <<>> THEN [b |-> b, regs |-> regs]
    ELSE LET l == lower_expr(Head(args), FALSE, b)
         IN lower_args(Tail(args), l.b, IF l.r = 0 THEN regs ELSE Append(regs, l.r))

lower_call(e, tail, b) ==
    LET l == lower_args(e.a, b, <<>>)
    IN IF tail THEN Res(terminate(l.b, Jmp("TAIL_CALL", 0, l.regs, <<>>)), 0)
       ELSE EmitNew(l.b, "CALL", l.regs, "")

\* The clauses of a cond: the end block and the result register exist before
\* them, so that the end block precedes their blocks in the function.
lower_clauses(clauses, tail, result, end, b) ==
    IF clauses = <<>> THEN b
    ELSE LET c == lower_expr(clauses[1], FALSE, b)
             rest == SubSeq(clauses, 3, Len(clauses))
             then_id == Len(c.b.blocks) + 1
             b1 == terminate(new_block(new_block(c.b)),
                             Jmp("BRANCH", 0, <<c.r>>, <<then_id, then_id + 1>>))
             l == lower_expr(clauses[2], tail, switch_to(b1, then_id))
             b2 == IF l.r = 0 THEN l.b
                   ELSE IF tail THEN terminate(l.b, Jmp("RETURN", 0, <<l.r>>, <<>>))
                   ELSE terminate(emit(l.b, Ins("MOVE", result, <<l.r>>, "")),
                                  Jmp("JUMP", 0, <<>>, <<end>>))
         IN IF c.r = 0 THEN lower_clauses(rest, tail, result, end, c.b)
            ELSE lower_clauses(rest, tail, result, end, switch_to(b2, then_id + 1))

lower_cond(e, tail, b) ==
    LET b0 == IF tail THEN b ELSE new_block(register(b))
        result == b0.regs
        end == Len(b0.blocks)
        default == EmitNil(lower_clauses(e.a, tail, result, end, b0))
    IN IF tail THEN Res(terminate(default.b, Jmp("RETURN", 0, <<default.r>>, <<>>)), 0)
       ELSE Res(switch_to(terminate(emit(default.b, Ins("MOVE", result, <<default.r>>, "")),
                                    Jmp("JUMP", 0, <<>>, <<end>>)), end), result)

lower_assert(e, tail, b) ==
    LET c == lower_expr(e.a[1], FALSE, b)
        pass == Len(c.b.blocks) + 1
        b1 == terminate(new_block(new_block(c.b)), Jmp("BRANCH", 0, <<c.r>>, <<pass, pass + 1>>))
        msg == EmitNil(switch_to(b1, pass + 1))
        b2 == switch_to(terminate(msg.b, Jmp("RAISE_EFFECT", 0, <<msg.r>>, <<>>)), pass)
        b3 == new_block(register(b2))
    IN IF tail THEN Res(terminate(b2, Jmp("RETURN", 0, <<c.r>>, <<>>)), 0)
       ELSE Res(switch_to(terminate(emit(b3, Ins("MOVE", b3.regs, <<c.r>>, "")),
                                    Jmp("JUMP", 0, <<>>, <<Len(b3.blocks)>>)), Len(b3.blocks)),
                b3.regs)

\* The scope is left only where the body has not left the function.
lower_let(e, tail, b) ==
    LET l == lower_expr(e.a[2], FALSE, emit(b, Ins("ENTER_SCOPE", 0, <<>>, "")))
        body == lower_body(<<e.a[3]>>, tail, FALSE,
                           emit(l.b, Ins("STORE_LOCAL", 0, <<l.r>>, e.a[1].k)))
    IN Res(emit(body.b, Ins("EXIT_SCOPE", 0, <<>>, "")), body.r)

lower_perform(e, b) ==
    LET arg == lower_expr(e.a[1], FALSE, b)
        b1 == new_block(register(arg.b))
        resume == Len(b1.blocks)
    IN Res(switch_to(terminate(b1, Jmp("EFFECT_PERFORM", b1.regs, <<arg.r>>, <<resume>>)), resume),
           b1.regs)

lower_handle(b) ==
    EmitNew(emit(b, Ins("EFFECT_HANDLE_BEGIN", 0, <<>>, "")), "EFFECT_HANDLE_END", <<>>, "")

\* Functions and thunks: the parameters are names that the body reads with
\* LOAD_ENV.  A gather names the functions of its thunks, here one.
lower_lambda(e, b) ==
    LET b1 == register(lower_function(<<e.a[1].k>>, Tail(e.a), b))
    IN Res(emit(b1, Ref("MAKE_FUNCTION", b1.regs, Len(b.fns) + 1)), b1.regs)
lower_parallel_all(e, tail, b) ==
    LET b1 == register(lower_function(<<>>, e.a, b))
        b2 == emit(b1, Ref("ALL_GATHER", b1.regs, Len(b.fns) + 1))
    IN IF tail THEN Res(terminate(b2, Jmp("RETURN", 0, <<b1.regs>>, <<>>)), 0) ELSE Res(b2, b1.regs)

\* The register of a define is handed out before its value is lowered; a lambda
\* is built in it, another value moved to it.
lower_define(e, b) ==
    LET b1 == register(b)
        fn == lower_function(<<e.a[2].a[1].k>>, Tail(e.a[2].a), b1)
        v == lower_expr(e.a[2], FALSE, b1)
        b2 == IF e.a[2].k = "lambda" THEN emit(fn, Ref("MAKE_FUNCTION", b1.regs, Len(b.fns) + 1))
              ELSE IF v.r = 0 THEN v.b ELSE emit(v.b, Ins("MOVE", b1.regs, <<v.r>>, ""))
    IN Res(emit(b2, Ins("DEFINE_ONCE", 0, <<b1.regs>>, e.a[1].k)), b1.regs)

lower_expr(e, tail, b) ==
    CASE e.k = "nil" -> EmitNil(b)
      [] e.k = "quote" -> emit_load_const(b, e.a[1])    \* LiteralExpr, QuoteExpr
      [] e.k = "call" -> lower_call(e, tail, b)
      [] e.k = "cond" -> lower_cond(e, tail, b)
      [] e.k = "assert" -> lower_assert(e, tail, b)
      [] e.k = "let" -> lower_let(e, tail, b)
      [] e.k = "perform" -> lower_perform(e, b)
      [] e.k = "handle" -> lower_handle(b)
      [] e.k = "do" -> lower_body(e.a, tail, FALSE, b)    \* PipelineExpr
      [] e.k = "lambda" -> lower_lambda(e, b)
      [] e.k = "all" -> lower_parallel_all(e, tail, b)
      [] e.k = "define" -> lower_define(e, b)
      [] OTHER -> EmitNew(b, "LOAD_ENV", <<>>, e.k)    \* a symbol

\* lower: function 1 is the main function, whose body collects its values.
Program(b) == [functions |-> [b.fns EXCEPT ![1] = finish(<<>>, b)], constants |-> b.consts, main |-> 1]
lower_program(body) ==
    Program(Returning(lower_body(body, FALSE, TRUE,
                                 NewBuilder(<<finish(<<>>, NewBuilder(<<>>, <<>>))>>, <<>>))))
=============================================================================
