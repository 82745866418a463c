----------------------------- MODULE MCOptimizer -----------------------------
(* Optimizer on small compilation units. *)
EXTENDS Optimizer

One == Var("1")
Two == Var("2")
Sum(a, b) == CallOf(Var("+"), <<a, b>>)
Arguments == {One, Sum(One, Two), Call(<<One>>), Var("T")}
\* Bodies of a function of p: its parameter, constants, effects, closures.
Bodies == {<<Var("p")>>, <<One>>, <<Call(<<Var("p")>>), Var("p")>>, <<Cond(<<Var("p"), One>>)>>,
           <<Call(<<Var("p")>>)>>, <<Sum(Var("p"), Two)>>, <<Let(Var("p"), Var("x"))>>}
Fns == {Lambda("p", b) : b \in Bodies}

Applied == {<<CallOf(fn, <<a>>)>> : fn \in Fns, a \in Arguments}
\* A function defined by name, called once or twice, before or after other forms.
G == Var("g")
Named == {<<Define("g", fn), CallOf(G, <<a>>), Call(<<CallOf(G, <<One>>)>>)>> : fn \in Fns, a \in Arguments}
         \cup {<<Define("g", fn), Cond(<<CallOf(G, <<One>>), CallOf(fn, <<Two>>)>>)>> : fn \in Fns}
\* Local functions: closures over x, and names used outside their scope's function.
Local == {<<Let(One, Do(<<Define("g", Lambda("p", b)), CallOf(G, <<a>>)>>))>> :
              b \in Bodies \cup {<<Call(<<Var("x"), Var("p")>>)>>}, a \in {One, Var("x")}}
OverX == {<<Var("x")>>, <<Sum(Var("p"), Var("x"))>>, <<Let(Var("p"), Var("x"))>>}
Closures == {<<Define("g", Let(a, Lambda("p", b))), CallOf(G, <<Two>>)>> :
                b \in OverX, a \in Arguments}
            \cup {<<CallOf(Let(a, Lambda("p", b)), <<Two>>)>> : b \in OverX, a \in Arguments}
\* A function that is inlined away before one that stays.
Pairs == {<<CallOf(fn, <<One>>), Define("g", fn2), CallOf(G, <<a>>)>> :
             fn, fn2 \in Fns, a \in {Two, Call(<<One>>)}}
\* Operators and literals that the unit binds again.
Shadowing == {<<Define("+", Lambda("p", b)), CallOf(Var("+"), <<a>>), Sum(One, Two)>> :
                 b \in Bodies, a \in Arguments}
             \cup {<<CallOf(Var("*"), <<a, Two>>), Define("*", Lambda("p", <<One>>)), CallOf(Var("*"), <<a>>)>> :
                     a \in Arguments}
\* Gathers before and behind functions that are dropped.
Gathers == {<<All(e), Define("g", fn), CallOf(G, <<All(One)>>), CallOf(G, <<Two>>)>> :
               e \in {Call(<<One>>), Sum(One, Two)}, fn \in Fns}
           \cup {<<CallOf(fn, <<One>>), All(e)>> : fn \in Fns, e \in {Call(<<One>>), Sum(One, Two)}}
           \cup {<<CallOf(fn, <<One>>), All(Call(<<One>>)), Define("g", fn2), CallOf(G, <<Two>>)>> :
                   fn, fn2 \in Fns}
\* Code with jumps of its own that can be inlined: a cond whose value is not that of
\* the function, or a function into which another was inlined first.
Jumping == {Lambda("p", <<Cond(<<Var("p"), One>>), b>>) : b \in {Var("p"), Call(<<Var("p")>>)}}
           \cup {Lambda("p", <<Call(<<Cond(<<Var("p"), One, One, Two>>)>>), Var("p")>>),
                 Lambda("p", <<CallOf(Lambda("q", <<Var("q")>>), <<Var("p")>>), Var("p")>>)}
Jumps == {<<CallOf(fn, <<a>>)>> : fn \in Jumping, a \in Arguments \cup {Var("nil")}}
         \cup {<<Define("g", fn), CallOf(G, <<One>>)>> : fn \in Jumping}
\* Functions whose name is used twice, or as a value, where it is defined.
Twice == {<<Let(One, Do(<<Define("g", Lambda("p", b)), CallOf(G, <<a>>), last>>))>> :
             b \in Bodies, a \in {One, Var("x")}, last \in {G, CallOf(G, <<Two>>), Call(<<G>>), Var("x")}}
\* Parameters named like an operator or a literal, and like nothing else.
Parameters == {<<CallOf(Lambda(s, b), <<a>>)>> :
                  s \in {"+", "*", "1", "T", "f", "q"}, a \in Arguments \cup {Var("+")},
                  b \in {<<Sum(One, Two)>>, <<Call(<<One, Var("T")>>)>>, <<CallOf(Var("*"), <<Two, Two>>)>>}}
Conds == {<<Cond(<<a, Call(<<One>>), b, Call(<<Two>>)>>), Call(<<Cond(<<a, b>>)>>)>> :
             a, b \in Arguments \cup {Var("nil"), Sum(Var("T"), Two)}}
MCUnits == Applied \cup Named \cup Local \cup Closures \cup Pairs \cup Shadowing \cup Gathers \cup Conds
           \cup Jumps \cup Twice \cup Parameters
=============================================================================
