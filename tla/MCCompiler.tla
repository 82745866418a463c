----------------------------- MODULE MCCompiler -----------------------------
(* Compiler on sets of small function bodies. *)
EXTENDS Compiler

MCParams == <<"x", "y">>

Simple == {Var("x"), Cond(<<Var("x"), Var("y")>>), Call(<<Var("y")>>), Perform(Var("y")),
           Handle, Asserting(Var("y"))}

\* Two-clause conds, calls and lets over every kind of expression.
MCExprs ==
    {Cond(<<a, b, Var("x"), d>>) : a, b \in Simple, d \in {Var("y"), Handle, Perform(Var("y"))}}
    \cup {Call(<<Cond(<<a, b, c, Var("x")>>), d>>) : a, b, c, d \in {Var("y"), Perform(Var("x")), Cond(<<Var("x"), Var("y")>>)}}
    \cup {Let(a, Call(<<b>>)) : a, b \in Simple}
    \cup {Call(<<Let(a, b), Var("x")>>) : a, b \in Simple}

\* Calls of +, also shadowed by a let, with another number of arguments, with a cond
\* between the load of the operator and the call, and of an operator that is chosen.
Plus == Var("+")
MCSums ==
    {Call(<<CallOf(Plus, <<a, b>>), Var("x")>>) : a, b \in Simple}
    \cup {Call(<<LetOf("+", a, CallOf(Plus, <<b, Var("y")>>)), CallOf(Plus, <<Var("x"), Var("y")>>)>>) :
            a \in {Var("f"), Plus, Call(<<Var("y")>>)}, b \in Simple}
    \cup {Call(<<CallOf(Plus, <<a>>)>>) : a \in Simple}
    \cup {Call(<<CallOf(Cond(<<a, o1, b, o2>>), <<c, Var("y")>>)>>) :
            a, b, c \in {Var("x"), Var("y"), Perform(Var("y"))}, o1, o2 \in {Plus, Var("f")}}

\* Constants: atoms, chains of each pair of them that end in nil or otherwise, tuples
\* and value objects around them, host objects inside.  (No form holds None: it
\* is the compiler that loads it.)
Atoms == {X(k, <<>>) : k \in {"nil", "t", "none", "int", "string", "symbol", "host"}}
Values ==
    LET boxed == {X("IntValue", <<X("int", <<>>)>>), X("StringValue", <<X("string", <<>>)>>)}
        small == Atoms \cup boxed \cup {X("chain", <<X("symbol", <<>>), Nil>>)}
    IN small \cup {X("chain", <<h, t>>) : h, t \in small}
       \cup {X("TupleValue", <<X("tuple", <<v, Nil>>)>>) : v \in small}
MCQuotes ==
    {Call(<<Quote(v), Var("x")>>) : v \in Values}
    \cup {Call(<<Cond(<<Quote(v), Var("x"), Var("y"), Quote(w)>>)>>) : v, w \in {Nil, T, X("host", <<>>)}}

\* A handle so near the end that the label behind it is no index of the old stream.
SmallHandles == {Handle, Call(<<Handle>>), Call(<<Handle, Var("x")>>), Call(<<Var("x"), Handle>>),
                 Let(Handle, Var("x")), Asserting(Handle)}

\* Bodies without a handle, in which a cond is never an argument: its clauses
\* return, so that the only moves are those of assertions.
TailConds ==
    LET arg == {Var("x"), Call(<<Var("y")>>), Perform(Var("y")), Asserting(Var("y"))}
    IN {Cond(<<a, Call(<<b>>), c, d>>) : a, b, c, d \in arg}
       \cup {Let(a, Call(<<b, c>>)) : a, b, c \in arg}

\* The passes of OPTIMIZE_PASSES that work on one function and can change it; the
\* whole list runs in Optimizer.
WithoutCopyProp == <<"dce", "cfg_simplify", "dce", "cfg_simplify", "reg_alloc">>
DefaultPasses == <<"copy_prop">> \o WithoutCopyProp

BuildsOf(exprs, passes, dialect) ==
    {[expr |-> e, passes |-> passes, dialect |-> dialect] : e \in exprs}

\* With and without optimisation, and the other dialect where it is right.
MCBuilds == BuildsOf(MCExprs \cup MCSums, WithoutCopyProp, "compat")
            \cup BuildsOf(MCExprs \cup MCSums, <<>>, "compat")
            \cup BuildsOf(MCQuotes, WithoutCopyProp, "compat")
            \cup BuildsOf({Call(<<Quote(v), Var("x")>>) : v \in Atoms}, <<>>, "abstract-machine")
            \cup BuildsOf(SmallHandles, WithoutCopyProp, "abstract-machine")
            \cup BuildsOf(TailConds, DefaultPasses, "abstract-machine")
=============================================================================
