------------------------------- MODULE HirLower -------------------------------
(***************************************************************************)
(* HIR lowering (qy/passes/hir/lower.py): expanded forms become typed      *)
(* nodes whose symbols are resolved to bindings, and every binding gets a  *)
(* slot in the symbol space that owns it.  st is the lowering state:       *)
(*   diags   error diagnostics, by their kind                              *)
(*   spaces  the symbol spaces made, [parent, slots]; space 1 is Main      *)
(*   mods    the source modules known, with their exports                  *)
(*   macros  the macros of each module, stripped by the expander           *)
(*   root    the hidden bindings that the expander made: alias -> value    *)
(* A scope is the chain of frames [b, sp], innermost first; the frame of   *)
(* the environment is the last one and belongs to no space (sp = 0).       *)
(***************************************************************************)
EXTENDS MacroExpand, SequencesExt

CONSTANT Profile      \* builtin name -> [ty, op, eager, sig, lo, hi, arg, ret]; sig: it
                      \* is one of the names of core/operator_signature.py

\* The profile is the standard environment.
ASSUME ProfileAssumption == Keys(Profile) = {Name(b) : b \in Standard}

Node(k) == [k |-> k, n |-> NoName, ns |-> <<>>, own |-> 0, src |-> "", sp |-> 0, tail |-> FALSE,
            ty |-> "any", xs |-> <<>>, hs |-> <<>>]
Binding(src, ty, own) == [src |-> src, ty |-> ty, own |-> own, op |-> "", eager |-> TRUE]

L(e, st) == [e |-> e, st |-> st]
InScope(scope, st) == [scope |-> scope, st |-> st]
diagnostic(st, d) == [st EXCEPT !.diags = @ \cup {d}]
DiagIf(st, cond, d) == IF cond THEN diagnostic(st, d) ELSE st

\* Scope.child, Scope.lookup.
NewSpace(parent) == [parent |-> parent, slots |-> <<>>]
child(scope, st) ==
    LET id == Len(st.spaces) + 1
    IN InScope(<<[b |-> Empty, sp |-> id]>> \o scope,
               [st EXCEPT !.spaces = Append(@, NewSpace(scope[1].sp))])
Binds(scope, n) == {i \in DOMAIN scope : n \in Keys(scope[i].b)}
lookup(scope, n) == scope[CHOOSE i \in Binds(scope, n) : \A j \in Binds(scope, n) : i <= j].b[n]
has_local(scope, n) == n \in Keys(scope[1].b)
Bound(scope, n, b) == [scope EXCEPT ![1].b = Put(@, n, b)]

\* _scope_from_environment: the frame of the builtins below the space Main.
_scope_from_environment ==
    <<[b |-> Empty, sp |-> 1],
      [b |-> [n \in Keys(Profile) |-> [src |-> "builtin", ty |-> Profile[n].ty, own |-> 0,
                                       op |-> Profile[n].op, eager |-> Profile[n].eager]],
       sp |-> 0]>>

\* Mutation of _define_local: the slot goes to the current space, not to the owner.
MutSlotInScope(scope, n, b, st, allow, emit) ==
    LET id == scope[1].sp
        st1 == DiagIf(st, emit /\ has_local(scope, n) /\ ~allow, "rebound")
    IN InScope(Bound(scope, n, b),
               IF \E i \in DOMAIN st.spaces[id].slots : st.spaces[id].slots[i] = n THEN st1
               ELSE [st1 EXCEPT !.spaces[id].slots = Append(@, n)])

_define_local(scope, n, b, st, allow, emit) ==
    LET st1 == DiagIf(st, emit /\ has_local(scope, n) /\ ~allow, "rebound")
    IN InScope(Bound(scope, n, b),
               IF \E i \in DOMAIN st.spaces[b.own].slots : st.spaces[b.own].slots[i] = n THEN st1
               ELSE [st1 EXCEPT !.spaces[b.own].slots = Append(@, n)])

RECURSIVE _define_parameters(_, _, _)
_define_parameters(scope, ns, st) ==
    IF ns = <<>> THEN InScope(scope, st)
    ELSE LET d == _define_local(scope, ns[1], Binding("lambda-param", "any", scope[1].sp), st, FALSE, TRUE)
         IN _define_parameters(d.scope, Tail(ns), d.st)

\* _parameter_symbols_and_rest: the fixed parameters, then the rest parameter.
Params(ps, st) ==
    LET syms == SelectSeq(Items(ps), is_symbol)
        plain == SelectSeq(syms, LAMBDA s : ~IsRestMarker(s))
        at == {i \in DOMAIN syms : IsRestMarker(syms[i])}
        bad == Len(syms) # Len(Items(ps)) \/ ps.k # "list" \/ (at # {} /\ at # {Len(syms) - 1})
    IN [ns |-> [i \in DOMAIN plain |-> plain[i].n], st |-> DiagIf(st, bad, "parameters")]

_effect_is_declared(n, scope) == Binds(scope, n) # {} /\ lookup(scope, n).ty = "effect"

IsDefine(f) == _is_special_form(f, "define") /\ is_symbol(Nth(f, 2))
IsDefun(f) == _is_special_form(f, "defun") /\ is_symbol(Nth(f, 2))

RECURSIVE _predeclare_callable_definitions(_, _)
\* Functions are visible in the whole body, before their definition.
_predeclare_callable_definitions(body, scope) ==
    IF body = <<>> THEN scope
    ELSE LET f == body[1]
             s == IF IsDefun(f) THEN Bound(scope, f.xs[2].n, Binding("defun", "function", scope[1].sp))
                  ELSE IF IsDefine(f) /\ _is_special_form(Nth(f, 3), "lambda")
                  THEN Bound(scope, f.xs[2].n, Binding("define", "function", scope[1].sp))
                  ELSE scope
         IN _predeclare_callable_definitions(Tail(body), s)

RECURSIVE DefineImports(_, _, _)
DefineImports(ns, scope, st) ==
    IF ns = <<>> THEN InScope(scope, st)
    ELSE LET d == _define_local(scope, ns[1], Binding("import", "any", scope[1].sp), st, FALSE, TRUE)
         IN DefineImports(Tail(ns), d.scope, d.st)

RECURSIVE _scope_after_form(_, _, _, _, _)
RECURSIVE AfterPipeline(_, _, _, _)
\* The scope for the forms after this one.  A pipeline makes no space: what its
\* forms define is visible after it.
_scope_after_form(f, e, scope, st, emit) ==
    LET n == Nth(f, 2).n
        def(src, ty, allow, say) == _define_local(scope, n, Binding(src, ty, scope[1].sp), st, allow, say)
        none == InScope(scope, st)
    IN IF Len(Items(f)) < 2 THEN none
       ELSE IF _is_special_form(f, "pipeline") /\ e.k = "pipeline" THEN AfterPipeline(Tail(f.xs), e.xs, scope, st)
       ELSE IF ~is_symbol(f.xs[2]) THEN none
       ELSE CASE IsDefun(f) -> def("defun", "function", TRUE, emit)
              [] IsDefine(f) -> LET ty == IF e.xs = <<>> THEN "any" ELSE e.xs[1].ty
                                IN def("define", ty, has_local(scope, n) /\ ty = "function", emit)
              [] _is_special_form(f, "defeffect") -> def("defeffect", "effect", TRUE, TRUE)
              [] _is_special_form(f, "module") -> def("module", "any", FALSE, emit)
              [] _is_special_form(f, "macro") ->
                    _define_local(scope, n, [Binding("macro-param", "operator", scope[1].sp)
                                             EXCEPT !.op = "meta", !.eager = FALSE], st, FALSE, TRUE)
              [] _is_special_form(f, "from") /\ n \in Keys(st.mods) ->
                    DefineImports(SelectSeq([i \in DOMAIN From(f, 4) |-> From(f, 4)[i].n],
                                            LAMBDA x : x \in st.mods[n]), scope, st)
              [] OTHER -> none
AfterPipeline(fs, es, scope, st) ==
    IF fs = <<>> THEN InScope(scope, st)
    ELSE LET a == _scope_after_form(fs[1], es[1], scope, st, FALSE)
         IN AfterPipeline(Tail(fs), Tail(es), a.scope, a.st)

\* What context.env.resolve has for a name that no frame binds: an alias, bound to
\* a builtin (where = 0) or to a function of a module.
AliasBinding(v) ==
    LET b == [src |-> "default-literal", ty |-> "function", own |-> 0, op |-> "", eager |-> TRUE]
    IN IF v.where # 0 THEN b
       ELSE [b EXCEPT !.ty = Profile[v.n].ty, !.op = Profile[v.n].op, !.eager = Profile[v.n].eager]
BindingsOf(n, scope, st) ==
    IF Binds(scope, n) # {} THEN {lookup(scope, n)}
    ELSE {AliasBinding(st.root[x]) : x \in Keys(st.root) \cap {n}}

\* _lower_symbol: a binding in scope; else data; else a literal, by its spelling;
\* else what the environment can resolve.
_lower_symbol(s, scope, st, data) ==
    LET bs == BindingsOf(s.n, scope, st)
        b == CHOOSE b \in bs : TRUE
        ref == [Node("ref") EXCEPT !.n = s.n]
    IN
    IF bs # {} /\ (data => Binds(scope, s.n) # {})
    THEN L([ref EXCEPT !.own = b.own, !.src = b.src, !.ty = b.ty], st)
    ELSE IF data THEN L([Node("literal") EXCEPT !.n = s.n, !.ty = "symbol"], st)
    ELSE IF s.n \in LiteralNames THEN L([ref EXCEPT !.src = "default-literal", !.ty = "number"], st)
    ELSE L([Node("unresolved") EXCEPT !.n = s.n, !.ty = "unknown"], diagnostic(st, "unresolved"))

\* _operator_signature: of the value bound to the operator, and when the binding
\* has no value - any binding of the program - of the builtin with that name.
Signature(op, st) ==
    LET n == IF op.n \in Keys(st.root) /\ st.root[op.n].where = 0 THEN st.root[op.n].n ELSE op.n
    IN IF op.k = "ref" /\ n \in Keys(Profile) /\ Profile[n].sig THEN {Profile[n]} ELSE {}

\* _infer_call_type: the diagnostics of a call.
_infer_call_type(op, args, st) ==
    LET sigs == Signature(op, st)
        wrong(s) == ~(Len(args) \in s.lo..s.hi)
        types(s) == s.arg # "any" /\ \E i \in DOMAIN args : args[i].ty \notin {s.arg, "unknown", "any"}
        callable == op.ty \in {"operator", "function", "unknown", "any"}
    IN IF sigs # {} THEN DiagIf(DiagIf(st, \E s \in sigs : wrong(s),
                                        IF op.own = 0 THEN "arity" ELSE "arity-of-shadowed"),
                                \E s \in sigs : types(s), "type")
       ELSE DiagIf(st, ~callable, "not-callable")

LastType(es) == IF es = <<>> THEN "unknown" ELSE es[Len(es)].ty

RECURSIVE _lower_form(_, _, _, _, _)
RECURSIVE LowerItems(_, _, _, _)
RECURSIVE LowerSeq(_, _, _, _)
RECURSIVE LowerBindings(_, _, _)
RECURSIVE LowerClauses(_, _, _, _)
RECURSIVE LowerHandlers(_, _, _, _)

\* Forms of one scope, none of them in tail position.
LowerItems(fs, scope, st, data) ==
    IF fs = <<>> THEN L(<<>>, st)
    ELSE LET a == _lower_form(fs[1], scope, st, FALSE, data)
             r == LowerItems(Tail(fs), scope, a.st, data)
         IN L(<<a.e>> \o r.e, r.st)

\* The rest of a body, in the scope its first form, lowered as a, leaves.
SeqAfter(fs, scope, tail, a) ==
    LET s == _scope_after_form(fs[1], a.e, scope, a.st, TRUE)
        r == LowerSeq(Tail(fs), s.scope, s.st, tail)
    IN L(<<a.e>> \o r.e, r.st)

\* Mutation of LowerSeq: every form of a body gets the body's tail flag.
MutTailEverywhere(fs, scope, st, tail) ==
    IF fs = <<>> THEN L(<<>>, st)
    ELSE SeqAfter(fs, scope, tail, _lower_form(fs[1], scope, st, tail, FALSE))

\* The forms of a body in order, each in the scope the ones before it leave.
LowerSeq(fs, scope, st, tail) ==
    IF fs = <<>> THEN L(<<>>, st)
    ELSE SeqAfter(fs, scope, tail, _lower_form(fs[1], scope, st, tail /\ Len(fs) = 1, FALSE))

_lower_body(fs, scope, st, tail) ==
    IF fs = <<>> THEN L(<<>>, diagnostic(st, "empty-body"))
    ELSE LowerSeq(fs, _predeclare_callable_definitions(fs, scope), st, tail)

\* The bindings of a let, each value in the scope of the ones before.
LowerBindings(bs, scope, st) ==
    IF bs = <<>> THEN [ns |-> <<>>, xs |-> <<>>, scope |-> scope, st |-> st]
    ELSE IF Len(Items(bs[1])) # 2 \/ ~is_symbol(Nth(bs[1], 1))
    THEN LowerBindings(Tail(bs), scope, diagnostic(st, "binding"))
    ELSE LET n == bs[1].xs[1].n
             v == _lower_form(bs[1].xs[2], scope, st, FALSE, FALSE)
             d == _define_local(scope, n, Binding("let-binding", v.e.ty, scope[1].sp), v.st, FALSE, TRUE)
             r == LowerBindings(Tail(bs), d.scope, d.st)
         IN [r EXCEPT !.ns = <<n>> \o @, !.xs = <<v.e>> \o @]

_lower_let(f, scope, st, tail) ==
    IF Len(f.xs) < 3 \/ f.xs[2].k # "list" THEN L(Node("let"), diagnostic(st, "let"))
    ELSE LET c == child(scope, st)
             bs == LowerBindings(f.xs[2].xs, c.scope, c.st)
             b == _lower_body(From(f, 3), bs.scope, bs.st, tail)
         IN L([Node("let") EXCEPT !.ns = bs.ns, !.xs = bs.xs \o b.e, !.sp = c.scope[1].sp,
                                  !.ty = LastType(b.e)], b.st)

\* A function body, after the scope of its parameters is made.
Lambda(ps, body, scope, st) ==
    LET p == Params(ps, st)
        d == _define_parameters(scope, p.ns, p.st)
        b == _lower_body(body, d.scope, d.st, TRUE)
    IN L([Node("lambda") EXCEPT !.ns = p.ns, !.xs = b.e, !.sp = scope[1].sp, !.ty = "function"], b.st)

_lower_lambda(f, scope, st) ==
    IF Len(f.xs) < 3 THEN L(Node("lambda"), diagnostic(st, "lambda"))
    ELSE LET c == child(scope, st) IN Lambda(f.xs[2], From(f, 3), c.scope, c.st)

\* Mutation of _lower_defun: the name belongs to the space of the parameters.
MutDefunOwnSpace(f, scope, st) ==
    LET c == child(scope, st)
        d == _define_local(c.scope, f.xs[2].n, Binding("defun", "function", c.scope[1].sp), c.st, FALSE, TRUE)
        lam == Lambda(f.xs[3], From(f, 4), d.scope, d.st)
    IN L([Node("define") EXCEPT !.n = f.xs[2].n, !.own = scope[1].sp, !.xs = <<lam.e>>, !.ty = "any"], lam.st)

\* The function sees itself; its name belongs to the space around it.
_lower_defun(f, scope, st) ==
    IF Len(f.xs) < 4 \/ ~is_symbol(f.xs[2]) THEN L(Node("define"), diagnostic(st, "defun"))
    ELSE LET c == child(scope, st)
             n == f.xs[2].n
             d == _define_local(c.scope, n, Binding("defun", "function", scope[1].sp), c.st, FALSE, TRUE)
             lam == Lambda(f.xs[3], From(f, 4), d.scope, d.st)
         IN L([Node("define") EXCEPT !.n = n, !.own = scope[1].sp, !.xs = <<lam.e>>, !.ty = "any"], lam.st)

_lower_define(f, scope, st) ==
    IF Len(f.xs) < 3 \/ ~is_symbol(f.xs[2]) THEN L(Node("define"), diagnostic(st, "define"))
    ELSE LET v == _lower_form(f.xs[3], scope, st, FALSE, FALSE)
         IN L([Node("define") EXCEPT !.n = f.xs[2].n, !.own = scope[1].sp, !.xs = <<v.e>>, !.ty = v.e.ty], v.st)

_lower_defeffect(f, scope, st) ==
    IF ~is_symbol(Nth(f, 2)) THEN L(Node("define"), diagnostic(st, "defeffect"))
    ELSE L([Node("define") EXCEPT !.n = f.xs[2].n, !.own = scope[1].sp,
              !.xs = <<[Node("defeffect") EXCEPT !.n = f.xs[2].n, !.ty = "effect"]>>], st)

_lower_module(f, scope, st) ==
    IF ~is_symbol(Nth(f, 2)) THEN L(Node("module"), diagnostic(st, "module"))
    ELSE LET body == SelectSeq(From(f, 3), LAMBDA x : ~_is_special_form(x, "exports"))
             n == f.xs[2].n
             c == child(scope, st)
             b == LowerSeq(body, _predeclare_callable_definitions(body, c.scope), c.st, FALSE)
         IN L([Node("module") EXCEPT !.n = n, !.ns = SetToSeq(ExportNames(From(f, 3))), !.xs = b.e,
                                     !.sp = c.scope[1].sp], b.st)

_lower_from(f, st) ==
    LET names == {s.n : s \in SymbolsOf(Lst(From(f, 4)))} n == Nth(f, 2).n
        known == IF n \in Keys(st.mods) THEN names \cap st.mods[n] ELSE {}
    IN L([Node("from") EXCEPT !.n = n, !.ns = SetToSeq(known)],
         IF n \notin Keys(st.mods) THEN diagnostic(st, "no-module")
         ELSE DiagIf(st, ~(names \subseteq st.mods[n]), "no-export"))

LowerClauses(cl, scope, st, tail) ==
    IF cl = <<>> THEN L(<<>>, st)
    ELSE IF Len(Items(cl[1])) # 2 THEN LowerClauses(Tail(cl), scope, diagnostic(st, "clause"), tail)
    ELSE LET t == _lower_form(cl[1].xs[1], scope, st, FALSE, FALSE)
             v == _lower_form(cl[1].xs[2], scope, t.st, tail, FALSE)
             r == LowerClauses(Tail(cl), scope, v.st, tail)
         IN L(<<t.e, v.e>> \o r.e, r.st)

\* Handler clauses (effect (arg k) body...): each in a space of its own.
LowerHandlers(cl, scope, st, tail) ==
    IF cl = <<>> THEN L(<<>>, st)
    ELSE LET x == IF _is_special_form(cl[1], "on") THEN Lst(Tail(cl[1].xs)) ELSE cl[1]
             eff == Nth(x, 1).n
             p == Params(Nth(x, 2), DiagIf(st, ~_effect_is_declared(eff, scope), "effect"))
             c == child(scope, p.st)
             d == _define_parameters(c.scope, p.ns, c.st)
             b == _lower_body(From(x, 3), d.scope, d.st, tail)
             bad == Len(Items(x)) < 3 \/ Len(p.ns) # 2
             r == LowerHandlers(Tail(cl), scope, IF bad THEN diagnostic(p.st, "handler") ELSE b.st, tail)
         IN IF bad THEN r
            ELSE L(<<[n |-> eff, ns |-> p.ns, sp |-> c.scope[1].sp, auto |-> _is_special_form(cl[1], "on"),
                      xs |-> b.e]>> \o r.e, r.st)

\* The node of a handle: its type is that of the last handler.
HandleNode(e, h) ==
    L([Node("handle") EXCEPT !.xs = <<e>>, !.hs = h.e,
                             !.ty = IF h.e = <<>> THEN e.ty ELSE LastType(h.e[Len(h.e)].xs)], h.st)

\* (handle e ((effect (arg k) body...) ...)), or (handle (on effect (arg k) body...) e),
\* which declares its effect when nobody has.
_lower_handle(f, scope, st, tail) ==
    IF Len(f.xs) # 3 THEN L(Node("handle"), diagnostic(st, "handle"))
    ELSE LET on == _is_special_form(f.xs[2], "on")
             eff == Nth(f.xs[2], 2).n
             d == IF on /\ ~_effect_is_declared(eff, scope)
                  THEN _define_local(scope, eff, Binding("defeffect", "effect", scope[1].sp), st, FALSE, TRUE)
                  ELSE InScope(scope, st)
             e == _lower_form(IF on THEN f.xs[3] ELSE f.xs[2], d.scope, d.st, tail, FALSE)
         IN HandleNode(e.e, LowerHandlers(IF on THEN <<f.xs[2]>> ELSE Items(f.xs[3]), d.scope, e.st, tail))

_lower_perform(f, scope, st) ==
    IF Len(f.xs) # 3 \/ ~is_symbol(f.xs[2]) THEN L(Node("perform"), diagnostic(st, "perform"))
    ELSE LET a == _lower_form(f.xs[3], scope, DiagIf(st, ~_effect_is_declared(f.xs[2].n, scope), "effect"),
                              FALSE, FALSE)
         IN L([Node("perform") EXCEPT !.n = f.xs[2].n, !.xs = <<a.e>>], a.st)

_lower_pipeline(f, scope, st, tail) ==
    IF Len(f.xs) = 1 THEN L(Node("literal"), diagnostic(st, "pipeline"))
    ELSE LET b == LowerSeq(Tail(f.xs), _predeclare_callable_definitions(Tail(f.xs), scope), st, tail)
         IN L([Node("pipeline") EXCEPT !.xs = b.e], b.st)

\* Forms whose parts are lowered one by one: how many parts each may have.
Plain == [eval |-> 1..1, resume |-> 2..2, assert |-> 1..2, parallel |-> 0..9, all |-> 0..9,
          race |-> 0..9, apply |-> 2..2, cache |-> 1..1]
LowerPlain(w, f, scope, st) ==
    IF Len(f.xs) - 1 \notin Plain[w] THEN L(Node(w), diagnostic(st, w))
    ELSE LET a == LowerItems(Tail(f.xs), scope, st, FALSE) IN L([Node(w) EXCEPT !.xs = a.e], a.st)

_lower_quote(f, st) == L(Node("quote"), DiagIf(st, Len(f.xs) # 2, "quote"))
_lower_quasiquote(f, scope, st, tail) ==
    IF Len(f.xs) # 2 THEN L(Node("quote"), diagnostic(st, "quasiquote"))
    ELSE _lower_form(expand_quasiquote(f.xs[2], 0), scope, st, tail, FALSE)
_lower_cond(f, scope, st, tail) ==
    LET c == LowerClauses(Tail(f.xs), scope, st, tail)
    IN L([Node("cond") EXCEPT !.xs = c.e, !.ty = IF c.e = <<>> THEN "none" ELSE LastType(c.e)], c.st)
\* A macro that was not expanded: its body sees gensym and capture.
_lower_macro(f, scope, st) ==
    IF Len(f.xs) < 4 \/ ~is_symbol(f.xs[2]) THEN L(Node("macro"), diagnostic(st, "macro"))
    ELSE LET c == child(scope, st)
             ps == SelectSeq(Items(f.xs[3]), is_symbol)
             p == _define_parameters(c.scope, [i \in DOMAIN ps |-> ps[i].n],
                                     DiagIf(c.st, Len(ps) # Len(Items(f.xs[3])) \/ f.xs[3].k # "list", "parameters"))
             op == Binding("builtin", "operator", c.scope[1].sp)
             d == _define_local(p.scope, Name("gensym"), op, p.st, FALSE, TRUE)
             d2 == _define_local(d.scope, Name("capture"), op, d.st, FALSE, TRUE)
             b == _lower_body(From(f, 4), d2.scope, d2.st, FALSE)
         IN L([Node("macro") EXCEPT !.n = f.xs[2].n, !.ns = [i \in DOMAIN ps |-> ps[i].n], !.xs = b.e,
                                    !.sp = c.scope[1].sp], b.st)

_call_uses_non_eager_arguments(b) == b.ty = "operator" /\ ~b.eager

\* A call.  A builtin may take its arguments as data.
LowerCall(f, scope, st, tail) ==
    LET o == _lower_form(f.xs[1], scope, st, FALSE, FALSE)
        bs == IF is_symbol(f.xs[1]) THEN BindingsOf(f.xs[1].n, scope, st) ELSE {}
        a == LowerItems(Tail(f.xs), scope, o.st, \E b \in bs : _call_uses_non_eager_arguments(b))
        ret == {s.ret : s \in Signature(o.e, st)}
    IN IF \E b \in bs : b.op = "meta" THEN L(Node("unresolved"), diagnostic(o.st, "meta"))
       ELSE L([Node("call") EXCEPT !.xs = <<o.e>> \o a.e, !.tail = tail,
                                   !.ty = IF ret = {} THEN "any" ELSE CHOOSE t \in ret : TRUE],
              _infer_call_type(o.e, a.e, a.st))

_lower_form(f, scope, st, tail, data) ==
    IF is_symbol(f) THEN _lower_symbol(f, scope, st, data)
    ELSE IF f.k = "cap" THEN _lower_form(f.xs[1], scope, st, tail, data)
    ELSE IF is_nil(f) THEN L([Node("literal") EXCEPT !.ty = "nil"], st)
    ELSE CASE _is_special_form(f, "quote") -> _lower_quote(f, st)
           [] _is_special_form(f, "quasiquote") -> _lower_quasiquote(f, scope, st, tail)
           [] _is_special_form(f, "cond") -> _lower_cond(f, scope, st, tail)
           [] _is_special_form(f, "macro") -> _lower_macro(f, scope, st)
           [] _is_special_form(f, "let") -> _lower_let(f, scope, st, tail)
           [] _is_special_form(f, "lambda") -> _lower_lambda(f, scope, st)
           [] _is_special_form(f, "defun") -> _lower_defun(f, scope, st)
           [] _is_special_form(f, "defeffect") -> _lower_defeffect(f, scope, st)
           [] _is_special_form(f, "module") -> _lower_module(f, scope, st)
           [] _is_special_form(f, "from") -> _lower_from(f, st)
           [] _is_special_form(f, "perform") -> _lower_perform(f, scope, st)
           [] _is_special_form(f, "handle") -> _lower_handle(f, scope, st, tail)
           [] _is_special_form(f, "define") -> _lower_define(f, scope, st)
           [] _is_special_form(f, "pipeline") -> _lower_pipeline(f, scope, st, tail)
           [] \E w \in DOMAIN Plain : _is_special_form(f, w) ->
                LowerPlain(CHOOSE w \in DOMAIN Plain : _is_special_form(f, w), f, scope, st)
           [] OTHER -> LowerCall(f, scope, st, tail)

\* lower: the forms of a unit in the space Main, none of them in tail position.
lower(fs, session) ==
    LET st == [diags |-> {}, spaces |-> <<NewSpace(0)>>, mods |-> session.mods, macros |-> session.macros,
               root |-> session.root]
    IN LowerSeq(fs, _predeclare_callable_definitions(fs, _scope_from_environment), st, FALSE)
=============================================================================
