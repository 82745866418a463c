-------------------------------- MODULE Macro --------------------------------
(***************************************************************************)
(* A session that compiles units one after the other in one environment    *)
(* (macroexpand_async in qy/macro/expand.py).  The counters live as long   *)
(* as one unit; the macro namespaces, the aliases and the hidden bindings  *)
(* at the root live as long as the session.                                *)
(***************************************************************************)
EXTENDS MacroExpand

CONSTANTS Units,      \* function: id of a unit -> its forms, as the reader made them
          MaxUnits    \* bound on the units of a session

VARIABLES ctx,      \* the context of MacroExpand
          hist,     \* the units begun, the last one current
          pos,      \* the next top-level form of it; 0 between units
          out,      \* its expanded forms
          failed,   \* the unit has an error diagnostic
          emitted   \* the expanded forms of the units that were run

vars == <<ctx, hist, pos, out, failed, emitted>>

Unit == Units[hist[Len(hist)]]

Init ==
    /\ ctx = [hyg |-> 0, gen |-> 0, next |-> 0, stamp |-> 0, scopes |-> <<Empty>>, shadow |-> {},
              ns |-> Empty, mns |-> Empty, mods |-> Empty, local |-> Empty, defs |-> Empty, aliases |-> Empty,
              root |-> Empty, want |-> {}, again |-> FALSE, diags |-> FALSE, exps |-> {}, ok |-> TRUE]
    /\ hist = <<>> /\ pos = 0 /\ out = <<>> /\ failed = FALSE /\ emitted = <<>>

\* MacroExpansionContext.create: the scope starts with a copy of the namespace.
BeginUnit(u) ==
    /\ pos = 0 /\ Len(hist) < MaxUnits
    /\ hist' = Append(hist, u) /\ pos' = 1 /\ out' = <<>> /\ failed' = FALSE
    /\ ctx' = [ctx EXCEPT !.hyg = 0, !.gen = 0, !.scopes = <<ctx.ns>>, !.shadow = {},
                          !.again = @ \/ ctx.aliases # Empty,
                          !.diags = FALSE, !.exps = {}, !.ok = TRUE]
    /\ UNCHANGED emitted

\* One turn of the loop over the forms.  An error drops the form and its
\* shadowing, and the loop goes on.
ExpandTop ==
    /\ pos > 0 /\ pos \in DOMAIN Unit
    /\ \E x \in {_macroexpand_form(Unit[pos], 0, ctx)} :
          /\ ctx' = [x.c EXCEPT !.ok = TRUE,
                                !.shadow = IF x.c.ok THEN @ \cup _defined_names(Unit[pos]) ELSE @]
          /\ out' = IF x.c.ok /\ ~is_nil(x.f) THEN Append(out, x.f) ELSE out
          /\ failed' = (failed \/ ~x.c.ok \/ x.c.diags)
    /\ pos' = pos + 1
    /\ UNCHANGED <<hist, emitted>>

\* The values a unit binds in the session's environment when it runs.
Defined ==
    LET forms == {i \in DOMAIN out : \E w \in {"define", "defun"} : _is_special_form(out[i], w)}
    IN [n \in {out[i].xs[2].n : i \in forms} |-> [where |-> -Len(hist), n |-> n]]

\* The rest of the pipeline runs the unit, unless expansion failed.
EndUnit ==
    /\ pos > 0 /\ pos \notin DOMAIN Unit
    /\ pos' = 0
    /\ emitted' = IF failed THEN emitted ELSE Append(emitted, out)
    /\ ctx' = IF failed THEN ctx ELSE [ctx EXCEPT !.defs = Defined @@ @]
    /\ UNCHANGED <<hist, out, failed>>

Next == (\E u \in DOMAIN Units : BeginUnit(u)) \/ ExpandTop \/ EndUnit

Spec == Init /\ [][Next]_vars

-----------------------------------------------------------------------------
(* Type invariant: between two forms only the unit's own scope is left.    *)
TypeOK ==
    /\ Len(ctx.scopes) = 1 /\ ctx.local = Empty /\ ctx.ok
    /\ ctx.hyg \in Nat /\ ctx.gen \in Nat
    /\ pos \in 0..(1 + (IF hist = <<>> THEN 0 ELSE Len(Unit))) /\ Len(hist) <= MaxUnits
    /\ Len(emitted) <= Len(hist)

\* References of expanded code.  A reference has the binder its name finds and
\* the one it means by the template, or the source, it was written in: among the
\* binders written there (the same expansion g) the one of its word.
Free == [at |-> <<>>, g |-> 0]
Find(d, key) == IF key \in DOMAIN d THEN d[key] ELSE Free
Bind(e, binders, p) ==
    LET is == {i \in DOMAIN binders : is_symbol(binders[i])}
        last(i, K(_)) == \A j \in is : K(binders[j]) = K(binders[i]) => j <= i
        name(x) == x.n
        word(x) == <<x.w, x.g>>
        at(K(_)) == [key \in {K(binders[i]) : i \in is} |->
                        LET i == CHOOSE i \in is : K(binders[i]) = key /\ last(i, K)
                        IN [at |-> Append(p, i), g |-> binders[i].g]]
    IN [n |-> at(name) @@ e.n, w |-> at(word) @@ e.w]

RECURSIVE Refs(_, _, _)
RECURSIVE LetRefs(_, _, _, _, _)
RefsOf(xs, first, e, p) == UNION {Refs(xs[i], e, Append(p, i)) : i \in first..Len(xs)}
Refs(f, e, p) ==
    IF is_symbol(f)
    THEN {[s |-> f, byName |-> Find(e.n, f.n), meant |-> Find(e.w, <<f.w, f.g>>)]}
    ELSE IF is_nil(f) \/ \E w \in {"quote", "from", "macro"} : _is_special_form(f, w) THEN {}
    ELSE CASE _is_special_form(f, "let") -> LetRefs(f, 1, e, p, {})
           [] _is_special_form(f, "lambda") -> RefsOf(f.xs, 3, Bind(e, Items(f.xs[2]), p), p)
           [] _is_special_form(f, "defun") -> RefsOf(f.xs, 4, Bind(e, Items(f.xs[3]), p), p)
           [] _is_special_form(f, "define") -> RefsOf(f.xs, 3, e, p)
           [] _is_special_form(f, "module") -> RefsOf(f.xs, 3, e, p)
           [] _is_special_form(f, "handle") ->
                Refs(f.xs[2], e, Append(p, 2)) \cup
                UNION {LET q == p \o <<3, i>>
                       IN RefsOf(f.xs[3].xs[i].xs, 3, Bind(e, Items(f.xs[3].xs[i].xs[2]), q), q)
                       : i \in DOMAIN f.xs[3].xs}
           [] OTHER -> RefsOf(f.xs, 1, e, p)
\* The bindings of a let one after the other, then its body.
LetRefs(f, i, e, p, acc) ==
    IF i > Len(Items(f.xs[2])) THEN acc \cup RefsOf(f.xs, 3, e, p)
    ELSE LET b == f.xs[2].xs[i] q == p \o <<2, i>>
         IN LetRefs(f, i + 1, Bind(e, <<Nth(b, 1)>>, q), p, acc \cup Refs(Nth(b, 2), e, q))

References(forms) == UNION {Refs(forms[i], [n |-> Empty, w |-> Empty], <<i>>) : i \in DOMAIN forms}

\* Hygiene (docs/pipeline.md, _rewrite_binding_symbol): a binder that a template
\* introduces captures no symbol of the call site, and no symbol that a template
\* binds is captured by another binder.  The one way a name may find a binder
\* that was not meant: a free symbol of a template, without a value in the
\* environment of its macro, finds a binder of the source.
NoCapture ==
    \A r \in References(out) :
        r.byName = r.meant \/ (r.meant = Free /\ r.s.g > 0 /\ r.byName.g = 0)

\* A definition-site alias that code of the session uses is bound, at the root,
\* to the value its macro meant (docs/pipeline.md: free symbols are resolved by
\* the binding at the definition site).
AliasMeaning == \A w \in ctx.want : ctx.root[w.alias] = w.value

\* The part of it that holds: no alias is taken twice, although operators share
\* their prefix, until counters that made aliases are taken back.  They begin at 0
\* in every unit and for every function of a module body, which is compiled on its
\* own, and an error in a body takes them back to those of the context around it.
AliasMeaningInUnit == ctx.again \/ AliasMeaning

\* Hygiene, of what templates bind (NoCapture) and of what they leave free.
Hygienic == NoCapture /\ AliasMeaningInUnit

\* Operators that a let, a lambda, a defun or an earlier definition of the same
\* body rebinds, by the scoping rules of the language.
RECURSIVE ShadowedOps(_, _)
RECURSIVE BodyOps(_, _, _)
BodyOps(xs, i, names) ==
    IF i > Len(xs) THEN {} ELSE ShadowedOps(xs[i], names) \cup BodyOps(xs, i + 1, names \cup _defined_names(xs[i]))
Named(binders) == {binders[i].n : i \in {j \in DOMAIN binders : is_symbol(binders[j])}}
ShadowedOps(f, names) ==
    IF ~_is_list_form(f) \/ _is_special_form(f, "quote") \/ _is_special_form(f, "macro") THEN {}
    ELSE CASE _is_special_form(f, "let") ->
                LET bs == Items(f.xs[2]) IN
                UNION {ShadowedOps(Nth(bs[i], 2), names) : i \in DOMAIN bs}
                    \cup BodyOps(f.xs, 3, names \cup Named([i \in DOMAIN bs |-> Nth(bs[i], 1)]))
           [] _is_special_form(f, "lambda") -> BodyOps(f.xs, 3, names \cup Named(Items(f.xs[2])))
           [] _is_special_form(f, "defun") ->
                BodyOps(f.xs, 4, names \cup Named(<<f.xs[2]>>) \cup Named(Items(f.xs[3])))
           [] OTHER -> {f.xs[1].o : i \in {j \in {1} : is_symbol(f.xs[j]) /\ f.xs[j].n \in names}}
                           \cup UNION {ShadowedOps(f.xs[i], names) : i \in DOMAIN f.xs}

\* A local binding wins over a macro of the same name (shadowed_macros): no call
\* that the source's scoping gives to a local function was expanded.
ShadowingRespected == pos = 0 \/ ctx.exps \cap BodyOps(Unit, 1, {}) = {}

\* The session's namespace has the macros defined at the top of units, none of
\* those defined inside a let, a function or a module (publish_definitions).
LocalMacroStaysLocal ==
    \A n \in Keys(ctx.ns) : \E i \in DOMAIN hist : \E j \in DOMAIN Units[hist[i]] :
        LET f == Units[hist[i]][j] IN _is_special_form(f, "macro") /\ f.xs[2].n = n

\* A name is a macro exactly where its definition reaches and nothing shadows it:
\* the two rules above, and between two forms only the unit's scope is left.
MacroScopes == TypeOK /\ ShadowingRespected /\ LocalMacroStaysLocal

RECURSIVE Strip(_)
\* A form by its names alone.
Strip(f) == IF is_symbol(f) THEN <<"sym", f.n>> ELSE <<"list", [i \in DOMAIN f.xs |-> Strip(f.xs[i])]>>

RECURSIVE Nests(_)
\* A template with a quasiquote in it that is no part of an unquoted form.
Nests(t) ==
    /\ _is_list_form(t)
    /\ ~(_is_special_form(t, "unquote") \/ _is_special_form(t, "unquote-splicing"))
    /\ \/ _is_special_form(t, "quasiquote") /\ Len(t.xs) = 2
       \/ \E i \in DOMAIN t.xs : Nests(t.xs[i])

\* The two readings of a quasiquote agree: the calls that the expander makes of
\* it (qy/core/quasiquote.py), evaluated, build what the compile-time evaluator
\* builds from the template itself, and fail when that fails.  The exception are
\* templates with a quasiquote inside: the evaluator builds them, the calls, which
\* name the unbound unquote and quasiquote, all fail.
QuasiquoteAgrees ==
    \A n \in Keys(ctx.ns) : \A v \in {nil, Lst(<<Word("arg"), Lst(<<Word("arg")>>)>>)} :
        LET m == ctx.ns[n]
            t == m.body[Len(m.body)]
            env == [x \in {m.params[i] : i \in DOMAIN m.params} \cup ({m.rest} \ {NoName}) |-> v]
        IN (_is_special_form(t, "quasiquote") /\ Len(m.body) = 1)
              => LET a == _eval_form(t, env, ctx)
                     b == _eval_form(expand_quasiquote(t.xs[2], 0), env, ctx)
                 IN b.c.ok = (a.c.ok /\ ~Nests(t.xs[2])) /\ (b.c.ok => Strip(a.f) = Strip(b.f))
=============================================================================
