----------------------------- MODULE MacroExpand -----------------------------
(***************************************************************************)
(* Macro expansion (qy/macro/expand.py), its compile-time evaluator        *)
(* (qy/macro/evaluator.py) and hygiene (qy/macro/hygiene.py), as functions *)
(* of a MacroExpansionContext.  An operator that models code returns       *)
(* [f, c]: the form and the context after it.  A raised EvaluationError is *)
(* c.ok = FALSE; what was done to shared dicts before stays done.          *)
(*                                                                         *)
(* The context c:                                                          *)
(*   hyg, gen  the hygiene and gensym counters, copied into child contexts *)
(*   scopes    the MacroScope chain, innermost first, dicts name -> macro  *)
(*   shadow    shadowed_macros                                             *)
(*   ns, mns   the macro namespaces in the cache of the environment        *)
(*   mods      the source modules known by name, with their exported names *)
(*   local     the bindings of the module body's own environment           *)
(*   defs      the bindings of the session's environment                   *)
(*   aliases   the hygiene alias namespace: <<macro id, name>> -> alias    *)
(*   root      hidden bindings at the root of the chain: alias -> value    *)
(*   next      identities of Python objects made so far                    *)
(*   stamp     ghost: expansions begun so far                              *)
(*   want      ghost: the value each alias was made for                    *)
(*   again     ghost: a counter that made an alias was taken back          *)
(*   exps      ghost: identities of the operator symbols expanded          *)
(***************************************************************************)
EXTENDS Forms, FiniteSets

CONSTANTS MaxDepth,   \* MacroExpansionOptions.max_depth
          Standard    \* the words that the standard environment binds

R(f, c) == [f |-> f, c |-> c]
AsList(r) == R(Lst(r.f), r.c)
Raise(c) == R(nil, [c EXCEPT !.ok = FALSE])

\* A partial function with one more entry, as a dict update.
Put(d, key, v) == (key :> v) @@ d
Keys(d) == DOMAIN d
Empty == <<>>

\* hygiene._SYNTAX_FORM_NAMES: operators that never get a definition-site alias.
_SYNTAX_FORM_NAMES == {Name(b) : b \in {"all", "apply", "assert", "cond", "defeffect", "define",
    "defun", "eval", "from", "handle", "lambda", "let", "macro", "module", "parallel", "perform",
    "pipeline", "quasiquote", "quote", "race", "resume", "unquote", "unquote-splicing"}}
LiteralNames == {Name("1"), Name("2"), Name("t")}

-----------------------------------------------------------------------------
(* MacroScope and MacroExpansionContext. *)

resolve_macro(c, n) ==
    LET at == {i \in DOMAIN c.scopes : n \in Keys(c.scopes[i])}
    IN IF at = {} THEN [ok |-> FALSE]
       ELSE [ok |-> TRUE, m |-> c.scopes[CHOOSE i \in at : \A j \in at : i <= j][n]]

\* Mutation of define_macro: every scope publishes what is defined in it.
MutPublishAlways(c, n, m) == [c EXCEPT !.scopes[1] = Put(@, n, m), !.ns = Put(@, n, m)]

\* Only the scope of the whole unit publishes what is defined in it.
define_macro(c, n, m) ==
    [c EXCEPT !.scopes[1] = Put(@, n, m),
              !.ns = IF Len(c.scopes) = 1 THEN Put(@, n, m) ELSE @]

NewObject(c) == [c EXCEPT !.next = @ + 1]

\* Every character that is no letter, digit or underscore becomes an underscore:
\* the operators of one sign all get the same prefix.
_gensym_prefix(b) == IF b \in {"+", "-", "*", "/", "<", ">", "="} THEN "_" ELSE b

Wrapped(n, cat, counter) == [b |-> _gensym_prefix(n.b), i |-> Append(n.i, <<cat, counter>>)]

fresh_hygienic_symbol(c, n, cat) ==
    LET c1 == [NewObject(c) EXCEPT !.hyg = @ + 1]
    IN R(Sym(Wrapped(n, cat, c1.hyg), <<0, c1.next>>, c.stamp), c1)

gensym(c, n) ==
    LET c1 == [NewObject(c) EXCEPT !.gen = @ + 1]
    IN R(Sym(Wrapped(n, "gensym", c1.gen), <<0, c1.next>>, -c1.next), c1)

\* What the environment of a macro definition resolves a name to: the bindings of
\* its module, of the session, of the standard environment.
ClosureValues(m, c) == m.closure @@ c.defs @@ [n \in {Name(b) : b \in Standard} |-> [where |-> 0, n |-> n]]
ClosureResolves(m, c, n) == n \in Keys(ClosureValues(m, c))
ClosureValue(m, c, n) == ClosureValues(m, c)[n]

-----------------------------------------------------------------------------
(* The compile-time evaluator.  env: the parameters, name -> form.         *)

RECURSIVE Stamp(_, _)
\* Ghost: a template is quoted in expansion g.
Stamp(f, g) ==
    IF is_symbol(f) THEN [f EXCEPT !.g = g]
    ELSE [f EXCEPT !.xs = [i \in DOMAIN f.xs |-> Stamp(f.xs[i], g)]]

RECURSIVE _eval_form(_, _, _)
RECURSIVE _eval_args(_, _, _)
RECURSIVE _eval_quasiquote(_, _, _, _)
RECURSIVE _eval_chain(_, _, _, _)
RECURSIVE _eval_cond(_, _, _)
RECURSIVE _eval_let(_, _, _)
RECURSIVE evaluate_compile_time_body(_, _, _)

_eval_form(e, env, c) ==
    IF ~c.ok THEN R(nil, c)
    ELSE IF is_symbol(e) THEN IF e.n \in Keys(env) THEN R(env[e.n], c) ELSE Raise(c)
    ELSE IF ~_is_list_form(e) THEN R(e, c)
    ELSE LET one == Len(e.xs) = 2 IN
    CASE _is_special_form(e, "quote") -> IF one THEN R(Stamp(e.xs[2], c.stamp), c) ELSE Raise(c)
      [] _is_special_form(e, "quasiquote") ->
            IF one THEN _eval_quasiquote(e.xs[2], env, 0, c) ELSE Raise(c)
      [] _is_special_form(e, "cond") -> _eval_cond(Tail(e.xs), env, c)
      [] _is_special_form(e, "let") ->
            IF Len(e.xs) < 3 THEN Raise(c)
            ELSE LET l == _eval_let(Items(e.xs[2]), env, c)
                 IN evaluate_compile_time_body(From(e, 3), l.f, l.c)
      [] _is_special_form(e, "cons") ->
            LET a == _eval_form(Nth(e, 2), env, c)
                d == _eval_form(Nth(e, 3), env, a.c)
            IN IF Len(e.xs) = 3 /\ d.c.ok /\ d.f.k = "list" THEN R(Lst(<<a.f>> \o d.f.xs), d.c)
               ELSE Raise(d.c)
      [] _is_special_form(e, "append") ->
            LET a == _eval_form(Nth(e, 2), env, c)
                d == _eval_form(Nth(e, 3), env, a.c)
            IN IF Len(e.xs) = 3 /\ d.c.ok /\ a.f.k = "list" /\ d.f.k = "list"
               THEN R(Lst(a.f.xs \o d.f.xs), d.c) ELSE Raise(d.c)
      [] _is_special_form(e, "list") -> AsList(_eval_args(Tail(e.xs), env, c))
      [] _is_special_form(e, "gensym") ->
            LET a == _eval_form(Nth(e, 2), env, c)
            IN IF a.c.ok /\ is_symbol(a.f) THEN gensym(a.c, a.f.n) ELSE Raise(a.c)
      [] _is_special_form(e, "capture") ->
            LET a == _eval_form(Nth(e, 2), env, c) IN R(CapturedForm(Stamp(a.f, 0)), a.c)
      [] OTHER -> Raise(c)    \* assert (an effect, denied), an operator that is no function, ...

_eval_args(xs, env, c) ==
    IF xs = <<>> \/ ~c.ok THEN R(<<>>, c)
    ELSE LET a == _eval_form(xs[1], env, c)
             r == _eval_args(Tail(xs), env, a.c)
         IN R(<<a.f>> \o r.f, r.c)

\* The bindings of a compile-time let, in order; f is the new environment.
_eval_let(bs, env, c) ==
    IF bs = <<>> THEN R(env, c)
    ELSE LET v == _eval_form(Nth(bs[1], 2), env, c)
         IN IF Len(Items(bs[1])) # 2 \/ ~is_symbol(Nth(bs[1], 1)) THEN R(env, [c EXCEPT !.ok = FALSE])
            ELSE _eval_let(Tail(bs), Put(env, Nth(bs[1], 1).n, v.f), v.c)

_eval_cond(clauses, env, c) ==
    IF clauses = <<>> THEN R(nil, c)
    ELSE IF Len(Items(clauses[1])) # 2 THEN Raise(c)
    ELSE LET t == _eval_form(clauses[1].xs[1], env, c)
         IN IF ~t.c.ok THEN t
            ELSE IF ~is_nil(t.f) THEN _eval_form(clauses[1].xs[2], env, t.c)
            ELSE _eval_cond(Tail(clauses), env, t.c)

_eval_quasiquote(f, env, depth, c) ==
    IF ~c.ok THEN R(nil, c)
    ELSE IF (_is_special_form(f, "unquote") \/ _is_special_form(f, "quasiquote")) /\ Len(f.xs) # 2
    THEN Raise(c)
    ELSE IF _is_special_form(f, "unquote") /\ depth = 0 THEN _eval_form(f.xs[2], env, c)
    ELSE IF _is_special_form(f, "unquote") \/ _is_special_form(f, "quasiquote") THEN
         LET a == _eval_quasiquote(f.xs[2], env,
                                   IF _is_special_form(f, "unquote") THEN depth - 1 ELSE depth + 1, c)
         IN R(Lst(<<Stamp(f.xs[1], c.stamp), a.f>>), a.c)
    ELSE IF f.k = "list" THEN _eval_chain(f.xs, env, depth, c)
    ELSE R(Stamp(f, c.stamp), c)

\* _eval_quasiquote_chain: element by element, (unquote-splicing x) in place.
_eval_chain(xs, env, depth, c) ==
    IF xs = <<>> THEN R(nil, c)
    ELSE LET splice == _is_special_form(xs[1], "unquote-splicing") /\ depth = 0
             h == IF splice THEN _eval_form(Nth(xs[1], 2), env, c)
                  ELSE _eval_quasiquote(xs[1], env, depth, c)
             t == _eval_chain(Tail(xs), env, depth, h.c)
         IN IF splice /\ (Len(xs[1].xs) # 2 \/ h.f.k # "list") THEN Raise(h.c)
            ELSE R(Lst((IF splice THEN h.f.xs ELSE <<h.f>>) \o t.f.xs), t.c)

evaluate_compile_time_body(body, env, c) ==
    IF body = <<>> THEN Raise(c)
    ELSE LET r == _eval_form(body[1], env, c)
         IN IF Len(body) = 1 \/ ~r.c.ok THEN r ELSE evaluate_compile_time_body(Tail(body), env, r.c)

-----------------------------------------------------------------------------
(* Hygiene.  h: [macro, cs], the macro and the identities of its arguments; *)
(* map: renamed_locals, name -> name.                                      *)

_definition_site_alias(n, h, c) ==
    LET key == <<h.macro.id, n>> IN
    IF n \in _SYNTAX_FORM_NAMES \cup LiteralNames \/ ~ClosureResolves(h.macro, c, n)
    THEN [ok |-> FALSE, n |-> n, c |-> c]
    ELSE IF key \in Keys(c.aliases) THEN [ok |-> TRUE, n |-> c.aliases[key], c |-> c]
    ELSE LET a == fresh_hygienic_symbol(c, n, "def")
         IN [ok |-> TRUE, n |-> a.f.n,
             c |-> [a.c EXCEPT !.root = Put(@, a.f.n, ClosureValue(h.macro, c, n)),   \* define_hidden_root
                               !.want = @ \cup {[alias |-> a.f.n, value |-> ClosureValue(h.macro, c, n)]},
                               !.aliases = Put(@, key, a.f.n)]]

\* Mutation of _rewrite_binding_symbol: a binder keeps its name.
MutBinderKept(v, h, map, c) == [f |-> v, map |-> map, c |-> c]

\* _rewrite_binding_symbol: a binder of the template gets a fresh name.
_rewrite_binding_symbol(v, h, map, c) ==
    IF ~is_symbol(v) \/ v.o \in h.cs THEN [f |-> v, map |-> map, c |-> c]
    ELSE LET s == fresh_hygienic_symbol(c, v.n, "binding")
         IN [f |-> [s.f EXCEPT !.g = v.g, !.w = v.w], map |-> Put(map, v.n, s.f.n), c |-> s.c]

RECURSIVE BinderSeq(_, _, _, _)
\* A parameter list: every item of it is a binder.
BinderSeq(ps, h, map, c) ==
    IF ps = <<>> THEN [f |-> <<>>, map |-> map, c |-> c]
    ELSE LET b == _rewrite_binding_symbol(ps[1], h, map, c)
             r == BinderSeq(Tail(ps), h, b.map, b.c)
         IN [r EXCEPT !.f = <<b.f>> \o @]

RECURSIVE _rewrite_hygienic_form(_, _, _, _, _)
RECURSIVE _rewrite_default_items(_, _, _, _, _)
RECURSIVE LetBindings(_, _, _, _)
RECURSIVE HandlerClauses(_, _, _, _)

_rewrite_default_items(xs, h, cap, map, c) ==
    IF xs = <<>> THEN R(<<>>, c)
    ELSE LET a == _rewrite_hygienic_form(xs[1], h, cap, map, c)
             r == _rewrite_default_items(Tail(xs), h, cap, map, a.c)
         IN R(<<a.f>> \o r.f, r.c)

\* The bindings of a let: a value sees the binders before it.
LetBindings(bs, h, map, c) ==
    IF bs = <<>> THEN [f |-> <<>>, map |-> map, c |-> c]
    ELSE IF Len(Items(bs[1])) # 2
    THEN LET a == _rewrite_hygienic_form(bs[1], h, FALSE, map, c)
             r == LetBindings(Tail(bs), h, map, a.c)
         IN [r EXCEPT !.f = <<a.f>> \o @]
    ELSE LET v == _rewrite_hygienic_form(bs[1].xs[2], h, FALSE, map, c)
             b == _rewrite_binding_symbol(bs[1].xs[1], h, map, v.c)
             r == LetBindings(Tail(bs), h, b.map, b.c)
         IN [r EXCEPT !.f = <<Lst(<<b.f, v.f>>)>> \o @]

HandlerClauses(cl, h, map, c) ==
    IF cl = <<>> THEN R(<<>>, c)
    ELSE LET plain == Len(Items(cl[1])) < 3 \/ Nth(cl[1], 2).k # "list"
             p == BinderSeq(Items(Nth(cl[1], 2)), h, map, c)
             b == _rewrite_default_items(From(cl[1], 3), h, FALSE, p.map, p.c)
             a == IF plain THEN _rewrite_hygienic_form(cl[1], h, FALSE, map, c)
                  ELSE R(Lst(<<cl[1].xs[1], Lst(p.f)>> \o b.f), b.c)
             r == HandlerClauses(Tail(cl), h, map, a.c)
         IN R(<<a.f>> \o r.f, r.c)

\* lambda (at = 2) and defun (at = 3): the parameters at position `at`.
_rewrite_hygienic_callable(xs, at, h, map, c) ==
    IF xs[at].k # "list" THEN _rewrite_default_items(xs, h, FALSE, map, c)
    ELSE LET p == BinderSeq(xs[at].xs, h, map, c)
             pre == _rewrite_default_items(SubSeq(xs, 1, at - 1), h, FALSE, map, p.c)
             b == _rewrite_default_items(SubSeq(xs, at + 1, Len(xs)), h, FALSE, p.map, pre.c)
         IN R(pre.f \o <<Lst(p.f)>> \o b.f, b.c)

_rewrite_hygienic_let(xs, h, map, c) ==
    IF xs[2].k # "list" THEN _rewrite_default_items(xs, h, FALSE, map, c)
    ELSE LET l == LetBindings(xs[2].xs, h, map, c)
             b == _rewrite_default_items(SubSeq(xs, 3, Len(xs)), h, FALSE, l.map, l.c)
         IN R(<<xs[1], Lst(l.f)>> \o b.f, b.c)

\* The defined name is renamed for its own value only.
_rewrite_hygienic_define(xs, h, map, c) ==
    LET b == _rewrite_binding_symbol(xs[2], h, map, c)
        v == _rewrite_hygienic_form(xs[3], h, FALSE, b.map, b.c)
    IN R(<<xs[1], b.f, v.f>>, v.c)

_rewrite_hygienic_handle(xs, h, map, c) ==
    IF xs[3].k # "list" THEN _rewrite_default_items(xs, h, FALSE, map, c)
    ELSE LET e == _rewrite_hygienic_form(xs[2], h, FALSE, map, c)
             k == HandlerClauses(xs[3].xs, h, map, e.c)
         IN R(<<xs[1], e.f, Lst(k.f)>>, k.c)

_rewrite_hygienic_form(v, h, cap, map, c) ==
    IF v.k = "cap" THEN _rewrite_hygienic_form(v.xs[1], h, TRUE, map, c)
    ELSE IF cap \/ (is_symbol(v) /\ v.o \in h.cs) THEN
         IF is_symbol(v) THEN R(v, c)
         ELSE AsList(_rewrite_default_items(v.xs, h, TRUE, map, c))
    ELSE IF is_symbol(v) THEN
         IF v.n \in Keys(map) THEN R([v EXCEPT !.n = map[v.n], !.o = <<0, c.next + 1>>], NewObject(c))
         ELSE IF resolve_macro(c, v.n).ok THEN R(v, c)
         ELSE LET a == _definition_site_alias(v.n, h, c)
              IN IF ~a.ok THEN R(v, c)
                 ELSE R([v EXCEPT !.n = a.n, !.o = <<0, a.c.next + 1>>], NewObject(a.c))
    ELSE IF is_nil(v) \/ \E w \in {"quote", "quasiquote", "unquote", "unquote-splicing"} :
                              _is_special_form(v, w) THEN R(v, c)
    ELSE LET n == Len(v.xs) IN
         AsList(CASE _is_special_form(v, "define") /\ n >= 3 -> _rewrite_hygienic_define(v.xs, h, map, c)
                  [] _is_special_form(v, "let") /\ n >= 2 -> _rewrite_hygienic_let(v.xs, h, map, c)
                  [] _is_special_form(v, "lambda") /\ n >= 2 ->
                         _rewrite_hygienic_callable(v.xs, 2, h, map, c)
                  [] _is_special_form(v, "defun") /\ n >= 3 ->
                         _rewrite_hygienic_callable(v.xs, 3, h, map, c)
                  [] _is_special_form(v, "handle") /\ n = 3 -> _rewrite_hygienic_handle(v.xs, h, map, c)
                  [] OTHER -> _rewrite_default_items(v.xs, h, FALSE, map, c))

apply_hygiene(v, m, args, c) ==
    LET cs == UNION {{s.o : s \in SymbolsOf(args[i])} : i \in DOMAIN args}
    IN _rewrite_hygienic_form(v, [macro |-> m, cs |-> cs], FALSE, Empty, c)

-----------------------------------------------------------------------------
(* Expansion. *)

HygienicResult(m, args, v) == IF ~v.c.ok THEN v ELSE apply_hygiene(v.f, m, args, v.c)

\* MacroDefinition.expand, then hygiene: the parameters are bound to the
\* unevaluated arguments, the rest parameter to a chain of the others.
_expand_macro(m, args, c0) ==
    LET c == [c0 EXCEPT !.stamp = @ + 1]
        fixed == Len(m.params)
        env == [n \in {m.params[i] : i \in 1..fixed} |->
                   args[CHOOSE i \in 1..fixed : m.params[i] = n]]
        full == IF m.rest = NoName THEN env ELSE Put(env, m.rest, Lst(SubSeq(args, fixed + 1, Len(args))))
    IN IF Len(args) < fixed \/ (m.rest = NoName /\ Len(args) # fixed) THEN Raise(c)
       ELSE HygienicResult(m, args, evaluate_compile_time_body(m.body, full, c))

IsRestMarker(f) == is_symbol(f) /\ f.n \in {Name("&rest"), Name("&body")}

\* _define_macro: (macro name (a b &rest r) body...).
_define_macro(f, c) ==
    LET ps == f.xs[3].xs
        at == {i \in DOMAIN ps : IsRestMarker(ps[i])}
        first == CHOOSE i \in at : \A j \in at : i <= j
        bad == \/ \E i \in DOMAIN ps : ~is_symbol(ps[i])
               \/ at # {} /\ Len(ps) # first + 1
        c1 == NewObject(c)
    IN IF bad THEN Raise(c)
       ELSE R(nil, define_macro(c1, f.xs[2].n,
                [id |-> c1.next, name |-> f.xs[2].n,
                 params |-> [i \in 1..(IF at = {} THEN Len(ps) ELSE first - 1) |-> ps[i].n],
                 rest |-> IF at = {} THEN NoName ELSE ps[first + 1].n,
                 body |-> From(f, 4), closure |-> c.local]))

_is_definition(f) ==
    Len(f.xs) >= 4 /\ is_symbol(f.xs[2]) /\ f.xs[3].k = "list"

_parameter_names(ps) == {ps.xs[i].n : i \in {j \in DOMAIN Items(ps) : is_symbol(ps.xs[j]) /\ ~IsRestMarker(ps.xs[j])}}

\* Mutation of _shadowed_names: the parameters of a function do not shadow.
MutShadowNone(f, start) == {}

\* _shadowed_names: what a lambda (start = 3) or a defun (start = 4) binds.
_shadowed_names(f, start) ==
    IF start = 4 THEN {f.xs[2].n : i \in {j \in {2} : is_symbol(f.xs[j])}} \cup _parameter_names(f.xs[3])
    ELSE IF f.xs[2].k # "list" THEN {}
    ELSE IF _is_list_form(Nth(f.xs[2], 1))
         THEN {Nth(b, 1).n : b \in {x \in {f.xs[2].xs[i] : i \in DOMAIN f.xs[2].xs} : is_symbol(Nth(x, 1))}}
         ELSE _parameter_names(f.xs[2])

\* _defined_names: a definition shadows a macro for the forms after it.
_defined_names(f) ==
    IF /\ \E w \in {"define", "defun", "defeffect", "module"} : _is_special_form(f, w)
       /\ is_symbol(Nth(f, 2))
    THEN {f.xs[2].n} ELSE {}

\* child_scope().shadowed(names), and what is left of it when its body is done:
\* sync_from hands the counters back, unless an error passed by.
Child(c, names, local) ==
    [c EXCEPT !.scopes = <<Empty>> \o @, !.shadow = @ \cup names, !.local = local]

\* Mutation of Leave: the counters of the body are forgotten.
MutLeaveNoSync(c, b) ==
    [b EXCEPT !.scopes = Tail(@), !.shadow = c.shadow, !.local = c.local,
              !.hyg = c.hyg, !.gen = c.gen]

Leave(c, b) ==
    [b EXCEPT !.scopes = Tail(@), !.shadow = c.shadow, !.local = c.local,
              !.hyg = IF b.ok THEN @ ELSE c.hyg, !.gen = IF b.ok THEN @ ELSE c.gen,
              !.again = @ \/ (~b.ok /\ b.aliases # c.aliases)]

\* _parse_export_names; the exported macros of a module body.
ExportNames(body) ==
    UNION {{s.n : s \in SymbolsOf(Lst(From(body[i], 2)))} :
           i \in {j \in DOMAIN body : _is_special_form(body[j], "exports")}}
_exported_module_macros(body, c) ==
    LET own == c.scopes[1]
        names == ExportNames(body)
    IN IF names = {} THEN own ELSE [n \in names \cap Keys(own) |-> own[n]]

\* build_provisional_module: what the forms of a module body will define, and
\* the part of it that is exported.  The first form with a name is remembered.
ProvisionalExports(body, c) ==
    LET definers == {i \in DOMAIN body : \E w \in {"define", "defun", "defeffect", "module", "macro"} :
                         _is_special_form(body[i], w) /\ is_symbol(Nth(body[i], 2))}
        froms == {i \in DOMAIN body : _is_special_form(body[i], "from") /\ Nth(body[i], 2).n \in Keys(c.mods)}
        locals == {body[i].xs[2].n : i \in definers}
                    \cup UNION {{s.n : s \in SymbolsOf(Lst(From(body[i], 4)))} \cap c.mods[body[i].xs[2].n] : i \in froms}
    IN IF ExportNames(body) = {} THEN locals ELSE ExportNames(body) \cap locals
remember_source_module(f, c) ==
    IF f.xs[2].n \in Keys(c.mods) THEN c
    ELSE [c EXCEPT !.mods = Put(@, f.xs[2].n, ProvisionalExports(From(f, 3), c))]

\* (from M import a b ...): the names after import.
_import_macros_from_form(f, c) ==
    LET m == Nth(f, 2).n
        names == {s.n : s \in SymbolsOf(Lst(From(f, 4)))}
        macros == c.mns[m]
    IN IF m \notin Keys(c.mns) THEN [c EXCEPT !.diags = TRUE]
       ELSE [c EXCEPT !.scopes[1] = [n \in names \cap Keys(macros) |-> macros[n]] @@ @]

RECURSIVE _macroexpand_form(_, _, _)
RECURSIVE ExpandItems(_, _, _)
RECURSIVE ExpandBody(_, _, _, _)
RECURSIVE ExpandBindings(_, _, _)
RECURSIVE CompileDefuns(_, _)

ExpandItems(xs, d, c) ==
    IF xs = <<>> \/ ~c.ok THEN R(<<>>, c)
    ELSE LET a == _macroexpand_form(xs[1], d, c)
             r == ExpandItems(Tail(xs), d, a.c)
         IN R(<<a.f>> \o r.f, r.c)

\* The forms of a body in its context: what expands to nil is dropped, a
\* definition shadows for the forms after it when `definers` says so.
ExpandBody(xs, d, definers, c) ==
    IF xs = <<>> \/ ~c.ok THEN R(<<>>, c)
    ELSE LET a == _macroexpand_form(xs[1], d, c)
             c1 == [a.c EXCEPT !.shadow = IF definers THEN @ \cup _defined_names(xs[1]) ELSE @]
             r == ExpandBody(Tail(xs), d, definers, c1)
         IN R((IF is_nil(a.f) THEN <<>> ELSE <<a.f>>) \o r.f, r.c)

\* _macroexpand_body_form: start is the position of the first body form.
_macroexpand_body_form(f, d, start, c) ==
    IF Len(f.xs) < start THEN AsList(ExpandItems(f.xs, d, c))
    ELSE LET pre == ExpandItems(SubSeq(f.xs, 1, start - 1), d, c)
             b == ExpandBody(From(f, start), d, TRUE, Child(pre.c, _shadowed_names(f, start), c.local))
         IN IF ~pre.c.ok THEN R(nil, pre.c) ELSE R(Lst(pre.f \o b.f), Leave(pre.c, b.c))

\* The bindings of a let: the values in the context outside, the names as they are.
ExpandBindings(bs, d, c) ==
    IF bs = <<>> \/ ~c.ok THEN R(<<>>, c)
    ELSE LET pair == Len(Items(bs[1])) = 2 /\ is_symbol(Nth(bs[1], 1))
             v == IF pair THEN _macroexpand_form(bs[1].xs[2], d, c) ELSE _macroexpand_form(bs[1], d, c)
             r == ExpandBindings(Tail(bs), d, v.c)
         IN R(<<IF pair THEN Lst(<<bs[1].xs[1], v.f>>) ELSE v.f>> \o r.f, r.c)

_macroexpand_let_form(f, d, c) ==
    IF Len(f.xs) < 2 \/ Nth(f, 2).k # "list" THEN _macroexpand_body_form(f, d, 3, c)
    ELSE LET names == {Nth(b, 1).n : b \in {x \in {f.xs[2].xs[i] : i \in DOMAIN f.xs[2].xs} :
                                                 Len(Items(x)) = 2 /\ is_symbol(Nth(x, 1))}}
             bs == ExpandBindings(f.xs[2].xs, d, c)
             b == ExpandBody(From(f, 3), d, TRUE, Child(bs.c, names, c.local))
         IN IF ~bs.c.ok THEN R(nil, bs.c) ELSE R(Lst(<<f.xs[1], Lst(bs.f)>> \o b.f), Leave(bs.c, b.c))

\* _prepopulate_module_locals compiles each defun of the body on its own: a new
\* MacroExpansionContext, with counters that begin at 0 again.
CompileDefuns(ds, c) ==
    IF ds = <<>> THEN c
    ELSE LET fresh == [c EXCEPT !.hyg = 0, !.gen = 0, !.scopes = <<c.ns>>, !.shadow = {}]
             lam == Lst(<<Word("lambda")>> \o From(ds[1], 3))
             r == _macroexpand_form(lam, 0, fresh).c
         IN CompileDefuns(Tail(ds), [c EXCEPT !.aliases = r.aliases, !.root = r.root, !.want = r.want,
                                              !.again = @ \/ r.aliases # c.aliases,
                                              !.next = r.next, !.stamp = r.stamp])

_macroexpand_module_form(f, d, c) ==
    IF Len(f.xs) <= 2 THEN AsList(ExpandItems(f.xs, d, c))
    ELSE LET body == From(f, 3)
             defuns == SelectSeq(body, LAMBDA x : _is_special_form(x, "defun") /\ is_symbol(Nth(x, 2)))
             c1 == NewObject(c)
             locals == [n \in {defuns[i].xs[2].n : i \in DOMAIN defuns} |->
                           [where |-> c1.next, n |-> n]]
             env == locals @@ c.local
             c2 == CompileDefuns(defuns, [c1 EXCEPT !.local = env])
             b == ExpandBody(body, d, FALSE, Child(c2, {}, env))
             own == _exported_module_macros(body, b.c)
             c3 == Leave([c2 EXCEPT !.local = c.local], b.c)
         IN IF ~b.c.ok THEN R(nil, c3)
            ELSE R(Lst(SubSeq(f.xs, 1, 2) \o b.f),
                   IF is_symbol(f.xs[2])
                   THEN remember_source_module(f, [c3 EXCEPT !.mns = Put(@, f.xs[2].n, own)]) ELSE c3)

\* A macro call: its expansion is expanded in turn, one level deeper.
Reexpand(f, d, x) ==
    IF ~x.c.ok THEN x
    ELSE _macroexpand_form(x.f, d + 1, [x.c EXCEPT !.exps = @ \cup {f.xs[1].o}])
ExpandCall(f, d, c) ==
    Reexpand(f, d, _expand_macro(resolve_macro(c, f.xs[1].n).m, Tail(f.xs), c))

_macroexpand_form(f, d, c) ==
    IF ~c.ok THEN R(nil, c)
    ELSE IF d > MaxDepth THEN Raise(c)
    ELSE IF ~_is_list_form(f) THEN R(f, c)
    ELSE LET op == f.xs[1]
             default == AsList(ExpandItems(f.xs, d, c))
         IN
    CASE _is_special_form(f, "quote") -> R(f, c)
      [] _is_special_form(f, "quasiquote") ->
            IF Len(f.xs) # 2 THEN R(f, c) ELSE _macroexpand_form(expand_quasiquote(f.xs[2], 0), d, c)
      [] _is_special_form(f, "macro") -> IF _is_definition(f) THEN _define_macro(f, c) ELSE default
      [] _is_special_form(f, "from") -> R(f, _import_macros_from_form(f, c))
      [] _is_special_form(f, "let") -> _macroexpand_let_form(f, d, c)
      [] _is_special_form(f, "module") -> _macroexpand_module_form(f, d, c)
      [] _is_special_form(f, "lambda") -> _macroexpand_body_form(f, d, 3, c)
      [] _is_special_form(f, "defun") -> _macroexpand_body_form(f, d, 4, c)
      [] _is_special_form(f, "define") -> _macroexpand_body_form(f, d, 3, c)
      [] OTHER ->
            IF is_symbol(op) /\ op.n \notin c.shadow /\ resolve_macro(c, op.n).ok
            THEN ExpandCall(f, d, c) ELSE default
=============================================================================
