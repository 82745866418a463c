------------------------------- MODULE MCMacro -------------------------------
(***************************************************************************)
(* Units for the expander: macros whose templates bind tmp in each way the *)
(* language has, used in contexts that bind tmp, or the macro's name, too; *)
(* modules with macros of their own; errors and endless expansion; aliases *)
(* of operators with one prefix; templates of every shape.                 *)
(***************************************************************************)
EXTENDS Macro

S(b) == Sym(Name(b), <<>>, 0)
L(xs) == Lst(xs)
Q(f) == L(<<S("quote"), f>>)
QQ(f) == L(<<S("quasiquote"), f>>)
U(f) == L(<<S("unquote"), f>>)
Splice(f) == L(<<S("unquote-splicing"), f>>)
Let1(x, v, body) == L(<<S("let"), L(<<L(<<x, v>>)>>), body>>)
MacroM(params, body) == L(<<S("macro"), S("m"), L(params), body>>)
F(xs) == L(<<S("f")>> \o xs)

a == S("a")
tmp == S("tmp")
one == S("1")

\* (macro m (a) ...): the ways a template binds tmp around its argument.
Templates == <<
    QQ(Let1(tmp, one, F(<<U(a), tmp>>))),
    QQ(L(<<S("lambda"), L(<<tmp>>), F(<<U(a), tmp>>)>>)),
    QQ(L(<<S("defun"), S("h"), L(<<tmp>>), F(<<U(a), tmp>>)>>)),
    QQ(L(<<S("handle"), U(a), L(<<L(<<S("Err"), L(<<tmp, S("k")>>), F(<<U(a), tmp, S("k")>>)>>)>>)>>)),
    QQ(L(<<S("let"), L(<<L(<<tmp, U(a)>>), L(<<S("x"), tmp>>)>>), F(<<tmp, S("x"), U(a)>>)>>)),
    L(<<S("let"), L(<<L(<<S("s"), L(<<S("gensym"), Q(tmp)>>)>>)>>),
        QQ(Let1(U(S("s")), one, F(<<U(a), U(S("s"))>>))) >>),
    QQ(Let1(tmp, U(L(<<S("capture"), Q(tmp)>>)), F(<<U(a), tmp>>))),
    QQ(L(<<S("m2"), Let1(tmp, one, U(a)), tmp>>)),
    QQ(L(<<S("g"), U(a)>>)),
    QQ(L(<<S("m"), U(a)>>))
    >>
\* A second macro, with a rest parameter, for templates that call another macro.
Second == L(<<S("macro"), S("m2"), L(<<a, S("&rest"), S("r")>>),
              QQ(Let1(tmp, U(a), F(<<tmp, Splice(S("r"))>>)))>>)

CallM(x) == L(<<S("m"), x>>)
Contexts == <<
    CallM(tmp),
    Let1(tmp, one, CallM(tmp)),
    L(<<S("lambda"), L(<<tmp>>), CallM(CallM(tmp))>>),
    L(<<S("let"), L(<<L(<<S("m"), S("f")>>)>>), CallM(tmp), F(<<CallM(tmp)>>)>>),
    L(<<S("defun"), S("m"), L(<<tmp>>), CallM(tmp)>>),
    L(<<S("defun"), S("g"), L(<<tmp>>), L(<<S("let"), L(<<L(<<S("g"), tmp>>)>>), CallM(S("g"))>>)>>),
    L(<<S("let"), L(<<>>), L(<<S("macro"), S("l"), L(<<S("b")>>), QQ(Let1(tmp, one, F(<<U(S("b")), tmp>>)))>>),
        L(<<S("l"), CallM(tmp)>>)>>),
    F(<<CallM(tmp), Let1(tmp, one, CallM(tmp))>>)
    >>

\* A module with a helper, and a macro that calls it.
ModuleUnit(name, macro) == <<
    L(<<S("module"), S(name),
        L(<<S("defun"), S("g"), L(<<S("x")>>), S("x")>>),
        L(<<S("macro"), S(macro), L(<<a>>), QQ(Let1(tmp, U(a), L(<<S("g"), tmp>>)))>>)>>) >>
UseUnit(name, macro) == <<
    L(<<S("from"), S(name), S("import"), S(macro)>>),
    Let1(S("g"), one, Let1(tmp, one, L(<<S(macro), F(<<S("g"), tmp>>)>>))) >>

\* Macros whose templates use the operators + and -, and a module with a function
\* that calls one of them.
Op(name, op) == L(<<S("macro"), S(name), L(<<a>>), QQ(L(<<S(op), U(a), one>>))>>)
Call(name, x) == L(<<S(name), x>>)
Caller(name) == L(<<S("module"), S("C"), L(<<S("defun"), S("g"), L(<<S("x")>>), Call(name, S("x"))>>)>>)
Operators == <<Op("plus", "+"), Op("minus", "-")>>
AliasUnits == <<
    Operators \o <<F(<<Call("plus", one), Call("minus", one)>>)>>,
    Operators \o <<Call("plus", one), Caller("minus"), Call("minus", one)>>,
    Operators \o <<Call("plus", one), Caller("plus"), Call("minus", one)>>,
    Operators \o <<Let1(tmp, Call("minus", tmp), Call("plus", tmp))>>,
    Operators \o <<L(<<S("lambda"), L(<<tmp>>), Call("plus", tmp), L(<<S("minus")>>)>>), Call("minus", one)>>,
    <<Call("minus", one), Call("plus", one)>>
    >>

\* (macro q (a &rest r) `template): a splice at the start, in the middle, at the
\* end, alone, twice and in an inner list; unquote as the rest of a chain; wrong
\* numbers of arguments; quasiquotes inside, with what they unquote and splice.
r == S("r")
QuoteTemplates == <<
    L(<<Splice(r), S("f")>>), F(<<Splice(r), one>>), F(<<Splice(r)>>), L(<<Splice(r)>>),
    L(<<Splice(r), Splice(a)>>), F(<<L(<<S("g"), Splice(r), U(a)>>), Splice(r)>>), U(a), S("f"), nil,
    F(<<S("unquote"), a>>), F(<<L(<<S("unquote"), a, a>>)>>), F(<<L(<<S("unquote-splicing")>>)>>),
    F(<<Splice(F(<<>>))>>), F(<<U(QQ(L(<<S("g"), Splice(r)>>)))>>), F(<<L(<<S("quasiquote"), a, a>>)>>),
    QQ(U(a)), F(<<QQ(L(<<S("g"), U(a)>>))>>), F(<<QQ(L(<<S("g"), U(L(<<S("h"), U(a)>>))>>))>>),
    F(<<QQ(L(<<S("g"), Splice(r)>>)), Splice(r)>>), L(<<Splice(r), QQ(S("f"))>>)
    >>
QuoteUnit(i) == <<L(<<S("macro"), S("q"), L(<<a, S("&rest"), r>>), QQ(QuoteTemplates[i])>>),
                  L(<<S("q"), S("f"), one, tmp>>)>>

Sources ==
    [u \in (DOMAIN Templates) \X (DOMAIN Contexts) |->
        <<Second, MacroM(<<a>>, Templates[u[1]]), Contexts[u[2]], CallM(tmp)>>]
    @@ (<<0, 1>> :> ModuleUnit("A", "ma")) @@ (<<0, 2>> :> ModuleUnit("B", "mb"))
    @@ (<<0, 3>> :> UseUnit("A", "ma")) @@ (<<0, 4>> :> UseUnit("B", "mb"))
    @@ (<<0, 7>> :> ModuleUnit("A", "ma") \o UseUnit("A", "ma"))
    @@ (<<0, 8>> :> ModuleUnit("B", "mb") \o UseUnit("B", "mb"))
    @@ (<<0, 9>> :> ModuleUnit("A", "ma") \o UseUnit("A", "ma") \o ModuleUnit("B", "mb") \o UseUnit("B", "mb"))
    @@ [u \in {0} \X (10..15) |-> AliasUnits[u[2] - 9]]
    @@ [u \in {0} \X {20 + i : i \in DOMAIN QuoteTemplates} |-> QuoteUnit(u[2] - 20)]
    @@ (<<0, 5>> :> <<Contexts[2], Contexts[3]>>)
    @@ (<<0, 6>> :> <<L(<<S("defun"), S("g"), L(<<tmp>>), tmp>>), CallM(tmp)>>)

\* The reader makes every symbol an object of its own.
MCUnits == [u \in DOMAIN Sources |-> Items(Relabel(Lst(Sources[u]), <<1>> \o u))]
=============================================================================
