------------------------------ MODULE MCFrontend ------------------------------
(***************************************************************************)
(* Units for the pipeline: a body in a context, with the definitions that  *)
(* both may use before and after it.                                       *)
(***************************************************************************)
EXTENDS Frontend

S(b) == Sym(Name(b), <<>>, 0)
C(xs) == Lst(xs)
Call1(op, x) == C(<<S(op), x>>)
Def(n, v) == C(<<S("define"), S(n), v>>)
Defun(n, p, body) == C(<<S("defun"), S(n), C(<<S(p)>>)>> \o body)
Let1(n, v, body) == C(<<S("let"), C(<<C(<<S(n), v>>)>>)>> \o body)
Lam(p, body) == C(<<S("lambda"), C(<<S(p)>>)>> \o body)
Handle(e, p, k, body) == C(<<S("handle"), e, C(<<C(<<S("E"), C(<<S(p), S(k)>>)>> \o body)>>)>>)
Resume(k, v) == C(<<S("resume"), S(k), v>>)
Template(t) == C(<<S("macro"), S("t1"), C(<<S("e")>>), Call1("quasiquote", t)>>)
one == S("1")
x == S("x")

\* f: no signature; g: one argument, a number; m: a meta operator; q: takes data.
MCProfile == [n \in {Name("f"), Name("g"), Name("m"), Name("q")} |->
    [ty |-> "operator", op |-> IF n = Name("m") THEN "meta" ELSE "pure", eager |-> n # Name("q"),
     sig |-> n = Name("g"), lo |-> 1, hi |-> 1, arg |-> IF n = Name("g") THEN "number" ELSE "any",
     ret |-> IF n = Name("g") THEN "number" ELSE "any"]]

\* Bodies, with a free x.
Bodies == <<
    <<Call1("f", x)>>,
    <<Call1("g", x), C(<<S("g"), x, x>>)>>,
    <<Let1("x", Call1("f", x), <<Call1("f", x)>>)>>,
    <<C(<<S("let"), C(<<C(<<S("x"), one>>), C(<<S("y"), x>>)>>), C(<<S("f"), x, S("y")>>)>>)>>,
    <<Def("y", x), Call1("f", S("y"))>>,
    <<Def("x", one), Call1("f", x)>>,
    <<Defun("a", "n", <<Call1("b", S("n"))>>), Defun("b", "n", <<Call1("a", x)>>), Call1("a", one)>>,
    <<Def("h", Lam("x", <<Call1("h", x)>>)), Call1("h", one)>>,
    <<C(<<S("pipeline"), Def("y", one), Defun("p", "y", <<Call1("p", S("y"))>>)>>), C(<<S("p"), S("y")>>)>>,
    <<C(<<S("cond"), C(<<Call1("f", x), Call1("f", x)>>), C(<<S("t"), Let1("y", x, <<Call1("g", S("y"))>>)>>)>>)>>,
    <<Handle(C(<<S("perform"), S("E"), x>>), "v", "k", <<Call1("f", S("v")), Resume("k", x)>>)>>,
    <<Handle(Call1("f", x), "x", "k", <<Let1("y", x, <<Resume("k", S("y"))>>)>>)>>,
    <<C(<<S("handle"), C(<<S("on"), S("D"), C(<<S("x"), S("k")>>), Resume("k", x)>>),
          C(<<S("perform"), S("D"), one>>)>>)>>,
    <<Resume("x", one)>>,
    <<C(<<S("module"), S("M"), C(<<S("exports"), S("w")>>), Def("w", one), Defun("u", "n", <<C(<<S("f"), S("w"), x>>)>>)>>),
      C(<<S("from"), S("M"), S("import"), S("w")>>), Call1("f", S("w"))>>,
    <<C(<<S("race"), Call1("f", x), Lam("y", <<Call1("f", S("y"))>>)>>), Call1("cache", Call1("f", x))>>,
    <<C(<<S("macro"), S("twice"), C(<<S("e")>>),
          Call1("quasiquote", C(<<S("f"), Call1("unquote", S("e")), Call1("unquote", S("e"))>>))>>), Call1("twice", x)>>,
    <<C(<<S("macro"), S("bad"), C(<<S("e")>>), S("nowhere")>>), Call1("bad", x)>>,
    <<C(<<S("macro"), S("id"), C(<<S("e")>>), Let1("s", Call1("gensym", S("e")), <<S("s")>>)>>)>>,
    <<Call1("q", S("nowhere")), Call1("quote", S("nowhere"))>>,
    <<Call1("m", x)>>,
    <<Call1("nowhere", x)>>,
    <<Call1("f", Defun("a", "n", <<Call1("a", x)>>))>>,
    <<Lam("n", <<Defun("f", "x", <<Call1("f", Call1("f", x))>>), Call1("f", S("n"))>>)>>,
    <<Template(C(<<S("f"), Call1("q", S("nowhere")), Call1("g", Call1("unquote", S("e")))>>)),
      Let1("f", one, <<Call1("t1", x)>>)>>,
    <<Template(C(<<S("g"), S("e"), Call1("unquote", S("e"))>>)), Call1("t1", x)>>,
    <<Template(Call1("m", Call1("unquote", S("e")))), Call1("t1", x)>>
    >>

\* Where the body is.  The effect E is declared before all of them.
Contexts(b) == <<
    <<Def("x", one)>> \o b,
    <<Def("x", one), Lam("z", b)>>,
    <<Def("x", one), C(<<S("let"), C(<<>>)>> \o b)>>,
    <<Let1("x", one, b)>>,
    <<Lam("x", b), Def("z", Call1("f", one))>>,
    <<Defun("c", "x", <<Defun("d", "y", b), Call1("d", x)>>), Call1("c", one)>>,
    <<Def("x", one), Lam("z", <<Handle(C(<<S("pipeline")>> \o b), "v", "k", <<Call1("f", S("v"))>>)>>)>>,
    <<Def("x", one), Lam("z", <<Handle(x, "v", "k", b)>>)>>
    >>
Prelude == <<Call1("defeffect", S("E"))>>

Sources == [p \in (DOMAIN Bodies) \X (1..8) |-> Prelude \o Contexts(Bodies[p[1]])[p[2]]]
            @@ (<<0, 1>> :> Bodies[18]) @@ (<<0, 2>> :> <<>>)
MCPrograms == LET src == Sources IN [p \in DOMAIN src |-> Items(Relabel(Lst(src[p]), p))] @@ Empty

\* Every target, on two programs; both thresholds and all entries on all; and
\* callers that give no kind, or a wrong one.
Job(p, entry, th, target) == [prog |-> p, entry |-> entry, threshold |-> th, target |-> target,
                              kind |-> IF entry = "core" THEN "core-ast" ELSE "surface-forms"]
MCJobs == {Job(p, entry, th, None) : p \in DOMAIN Sources, entry \in {"program", "form", "core"}, th \in {1, 1000000}}
    \cup {Job(p, entry, 1000000, Passes[i].name) : p \in {<<1, 1>>, <<12, 2>>}, entry \in {"program", "core"}, i \in DOMAIN Passes}
    \cup {[Job(<<1, 1>>, entry, 1, None) EXCEPT !.kind = k] : entry \in {"program", "core"}, k \in {None, "mir"}}
=============================================================================
