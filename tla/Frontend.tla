------------------------------- MODULE Frontend -------------------------------
(***************************************************************************)
(* The pipeline with its passes from the surface forms to validated HIR:   *)
(* macro expansion (MacroExpand), lowering (HirLower) and, here, what is   *)
(* done over HIR: the symbol-space layout (qy/passes/resolve/spaces.py),   *)
(* the validator (qy/ir/hir/predicates.py, rules H1 to H14) and the effect *)
(* analysis (qy/passes/effect/analyze.py).  The rules that no lowered      *)
(* program can break at present - H1, H2, H4, H10 to H14, which the code   *)
(* answers with no diagnostic - are left out.                              *)
(***************************************************************************)
EXTENDS HirLower, Pipeline

CONSTANT ProfileEffects   \* the effects the profile declares (env.effect_names)

\* _children: the nodes below a node.
_children(e) == {e.xs[i] : i \in DOMAIN e.xs} \cup UNION {{e.hs[i].xs[j] : j \in DOMAIN e.hs[i].xs} : i \in DOMAIN e.hs}

RECURSIVE Nodes(_)
Nodes(e) == {e} \cup UNION {Nodes(x) : x \in _children(e)}
NodesOf(es) == UNION {Nodes(es[i]) : i \in DOMAIN es}

-----------------------------------------------------------------------------
(* resolve.spaces: the spaces that some reference or definition names, with *)
(* the slots the lowering gave them.                                       *)
collect_symbol_spaces(es, spaces) ==
    LET used == {x.own : x \in {y \in NodesOf(es) : y.k \in {"ref", "define"} /\ y.src # "builtin"}} \ {0}
    IN [id \in used |-> [parent |-> IF spaces[id].parent \in used THEN spaces[id].parent ELSE 0,
                         slots |-> spaces[id].slots]]

-----------------------------------------------------------------------------
(* hir.validate.  sc: [parent, eff, decl, macros], the Scope of the descent.*)
\* Mutation of _LEGAL_TAIL_PARENTS: a handler's body is not one of them.
MutLegalTailParents == {"top", "func-body", "cond-result", "pipeline-last", "let-body"}
_LEGAL_TAIL_PARENTS == {"top", "func-body", "cond-result", "pipeline-last", "let-body", "handle-body"}

_declared_effect_name(e) ==
    IF e.k = "define" /\ e.xs # <<>> /\ e.xs[1].k = "defeffect" THEN {e.n} ELSE {}
_collect_defined_in_module(m, macros) ==
    {x.n : x \in {y \in {m.xs[i] : i \in DOMAIN m.xs} : y.k = "define"}}
        \cup (IF m.n \in Keys(macros) THEN Keys(macros[m.n]) ELSE {})

h3_node_shape(e, macros) ==
    CASE e.k = "let" /\ e.xs = <<>> -> {Diag("H3", "error")}
      [] e.k = "module" /\ e.xs = <<>> /\ e.ns = <<>> /\ _collect_defined_in_module(e, macros) = {} ->
            {Diag("H3", "warning")}
      [] OTHER -> {}
h5_call_tail_position(e, sc) ==
    IF e.tail /\ sc.parent \notin _LEGAL_TAIL_PARENTS THEN {Diag("H5", "error")} ELSE {}
h6_handle_effect_declared(e, sc) ==
    IF \E i \in DOMAIN e.hs : ~e.hs[i].auto /\ e.hs[i].n \notin sc.decl THEN {Diag("H6", "warning")} ELSE {}
\* Mutation of _h7_in_handler: a resume is taken everywhere.
MutResumeAnywhere(sc) == {}
_h7_in_handler(sc) == IF sc.eff = NoName THEN {Diag("H7", "error")} ELSE {}
h9_module_export_defined(e, macros) ==
    IF \E i \in DOMAIN e.ns : e.ns[i] \notin _collect_defined_in_module(e, macros)
    THEN {Diag("H9", "warning")} ELSE {}
h8_perform_effect_declared(e, sc) == IF e.n \in sc.decl THEN {} ELSE {Diag("H8", "warning")}

RECURSIVE _check(_, _)
RECURSIVE _check_body(_, _)
RECURSIVE CheckPipeline(_, _)

\* The forms of a body in order: an effect is declared from its defeffect on.
_check_body(es, sc) ==
    IF es = <<>> THEN {}
    ELSE _check(es[1], sc)
            \cup _check_body(Tail(es), [sc EXCEPT !.decl = @ \cup _declared_effect_name(es[1])])

CheckPipeline(es, sc) ==
    IF es = <<>> THEN {}
    ELSE _check(es[1], [sc EXCEPT !.parent = IF Len(es) = 1 THEN "pipeline-last" ELSE "arg"])
            \cup CheckPipeline(Tail(es), [sc EXCEPT !.decl = @ \cup _declared_effect_name(es[1])])

\* A let, a function and a module begin a Scope without the current effect.
_check(e, sc) ==
    LET inner(parent) == [sc EXCEPT !.parent = parent, !.eff = NoName]
        all == UNION {_check(e.xs[i], sc) : i \in DOMAIN e.xs}
    IN h3_node_shape(e, sc.macros) \cup
       CASE e.k = "call" -> h5_call_tail_position(e, sc) \cup all
         [] e.k = "handle" ->
              LET decl == sc.decl \cup {e.hs[i].n : i \in {j \in DOMAIN e.hs : e.hs[j].auto}}
              IN h6_handle_effect_declared(e, sc)
                   \cup UNION {_check(e.xs[i], [sc EXCEPT !.decl = decl]) : i \in DOMAIN e.xs}
                   \cup UNION {_check_body(e.hs[i].xs, [sc EXCEPT !.parent = "handle-body", !.eff = e.hs[i].n, !.decl = decl])
                               : i \in DOMAIN e.hs}
         [] e.k = "resume" -> _h7_in_handler(sc) \cup all
         [] e.k = "perform" -> h8_perform_effect_declared(e, sc) \cup all
         [] e.k = "module" -> h9_module_export_defined(e, sc.macros) \cup _check_body(e.xs, inner("top"))
         [] e.k = "let" ->
              LET n == Len(e.ns)
              IN UNION {_check(e.xs[i], inner("let-body")) : i \in 1..n}
                   \cup _check_body(SubSeq(e.xs, n + 1, Len(e.xs)), inner("let-body"))
         [] e.k = "lambda" -> _check_body(e.xs, inner("func-body"))
         [] e.k = "macro" -> _check_body(e.xs, sc)
         [] e.k = "cond" ->
              UNION {_check(e.xs[i], IF i % 2 = 1 THEN sc ELSE [sc EXCEPT !.parent = "cond-result"])
                     : i \in DOMAIN e.xs}
         [] e.k = "pipeline" -> CheckPipeline(e.xs, sc)
         [] OTHER -> all

\* check_program: nothing is checked when the lowering already failed.
check_program(es, errors, macros) ==
    IF errors # {} THEN {}
    ELSE _check_body(es, [parent |-> "top", eff |-> NoName, decl |-> ProfileEffects, macros |-> macros])

-----------------------------------------------------------------------------
(* effect.analyze: the effects performed outside every handler for them.   *)
RECURSIVE Escaping(_, _)
Escaping(e, active) ==
    CASE e.k = "defeffect" -> {}
      [] e.k = "perform" -> ({e.n} \ active) \cup UNION {Escaping(e.xs[i], active) : i \in DOMAIN e.xs}
      [] e.k = "handle" ->
           UNION {Escaping(e.xs[i], active \cup {e.hs[j].n : j \in DOMAIN e.hs}) : i \in DOMAIN e.xs}
             \cup UNION {UNION {Escaping(e.hs[j].xs[i], active) : i \in DOMAIN e.hs[j].xs} : j \in DOMAIN e.hs}
      [] OTHER -> UNION {Escaping(x, active) : x \in _children(e)}
analyze_effects(es) == UNION {Escaping(es[i], {}) : i \in DOMAIN es}

-----------------------------------------------------------------------------
(* macro.expand of a unit, and the passes as Pipeline runs them.            *)
RECURSIVE macroexpand_async(_, _, _, _)
\* The forms of a unit one after the other.  A form that fails is dropped.
GoOn(fs, out, failed, x) ==
    LET c == [x.c EXCEPT !.ok = TRUE, !.shadow = IF x.c.ok THEN @ \cup _defined_names(fs[1]) ELSE @]
    IN macroexpand_async(Tail(fs), c, IF x.c.ok /\ ~is_nil(x.f) THEN Append(out, x.f) ELSE out,
                         failed \/ ~x.c.ok)
macroexpand_async(fs, c, out, failed) ==
    IF fs = <<>> THEN [out |-> out, c |-> c, failed |-> failed \/ c.diags]
    ELSE GoOn(fs, out, failed, _macroexpand_form(fs[1], 0, c))
create(session) ==
    [hyg |-> 0, gen |-> 0, next |-> 0, stamp |-> 0, scopes |-> <<Empty>>, shadow |-> {}, ns |-> Empty,
     mns |-> session.macros, mods |-> session.mods, local |-> Empty, defs |-> Empty, aliases |-> Empty,
     root |-> session.root, want |-> {}, again |-> FALSE, diags |-> FALSE, exps |-> {}, ok |-> TRUE]

\* What the parameters of Pipeline stand for.
ExpandForms(fs, session) ==
    LET x == macroexpand_async(fs, create(session), <<>>, FALSE)
    IN [forms |-> x.out, failed |-> x.failed, env |-> [mods |-> x.c.mods, macros |-> x.c.mns, root |-> x.c.root]]
LowerForms(fs, session) ==
    LET p == lower(fs, session)
    IN [es |-> p.e, spaces |-> p.st.spaces, broken |-> p.st.diags]
CheckHir(es, errors, session) == check_program(es, errors, session.macros)

-----------------------------------------------------------------------------
(* Properties. *)

After(name) == pc > Start(job) /\ Passes[pc - 1].name = name
Lowered == After("hir.lower") /\ art.es # <<>> /\ Errors(art.own) = {}

\* Symbol lookup at run time: a scope per let, function body, handler and
\* module; a name is sought from the innermost scope outwards among what was
\* defined before, and the functions of the same body.
Nearest(scopes, n) ==
    LET at == {i \in DOMAIN scopes : n \in scopes[i].names}
    IN IF at = {} THEN 0 ELSE scopes[CHOOSE i \in at : \A j \in at : i <= j].sp
RECURSIVE DefinedBy(_)
DefinedBy(e) ==
    CASE e.k \in {"define", "module", "macro"} -> {e.n}
      [] e.k = "from" -> {e.ns[i] : i \in DOMAIN e.ns}
      [] e.k = "pipeline" -> UNION {DefinedBy(e.xs[i]) : i \in DOMAIN e.xs}
      [] OTHER -> {}
With(scopes, names) == [scopes EXCEPT ![1].names = @ \cup names]
Functions(es) == {es[i].n : i \in {j \in DOMAIN es : es[j].k = "define" /\ es[j].xs[1].k = "lambda"}}

RECURSIVE Astray(_, _)
RECURSIVE AstraySeq(_, _)
\* The references that lowering gave to another space than the lookup finds.
AstraySeq(es, scopes) ==
    IF es = <<>> THEN {} ELSE Astray(es[1], scopes) \cup AstraySeq(Tail(es), With(scopes, DefinedBy(es[1])))
AstrayBody(es, sp, names, scopes) ==
    AstraySeq(es, <<[sp |-> sp, names |-> names \cup Functions(es)]>> \o scopes)
Astray(e, scopes) ==
    CASE e.k = "ref" -> IF e.src = "default-literal" \/ e.own = Nearest(scopes, e.n) THEN {} ELSE {e}
      [] e.k = "let" ->
            LET inner(i) == <<[sp |-> e.sp, names |-> {e.ns[j] : j \in 1..(i - 1)}]>> \o scopes
            IN UNION {Astray(e.xs[i], inner(i)) : i \in DOMAIN e.ns}
                 \cup AstrayBody(SubSeq(e.xs, Len(e.ns) + 1, Len(e.xs)), e.sp, {e.ns[i] : i \in DOMAIN e.ns}, scopes)
      [] e.k = "define" /\ e.xs[1].k = "lambda" -> Astray(e.xs[1], With(scopes, {e.n}))
      [] e.k = "lambda" -> AstrayBody(e.xs, e.sp, {e.ns[i] : i \in DOMAIN e.ns}, scopes)
      [] e.k = "module" -> AstrayBody(e.xs, e.sp, {}, scopes)
      [] e.k = "macro" -> AstrayBody(e.xs, e.sp, {e.ns[i] : i \in DOMAIN e.ns} \cup {Name("gensym"), Name("capture")}, scopes)
      [] e.k = "pipeline" -> AstraySeq(e.xs, With(scopes, Functions(e.xs)))
      [] e.k = "handle" ->
            UNION {Astray(e.xs[i], scopes) : i \in DOMAIN e.xs}
              \cup UNION {AstrayBody(e.hs[i].xs, e.hs[i].sp, {e.hs[i].ns[j] : j \in DOMAIN e.hs[i].ns}, scopes)
                          : i \in DOMAIN e.hs}
      [] OTHER -> UNION {Astray(e.xs[i], scopes) : i \in DOMAIN e.xs}

\* The layout is complete: the space that owns a reference of the program is in
\* it and has exactly one slot with that name (collect_symbol_spaces, _define_local).
SlotsComplete ==
    (After("resolve.spaces") /\ Errors(art.own) = {}) =>
        \A r \in {x \in NodesOf(art.es) : x.k = "ref" /\ x.own > 0 /\ x.src # "builtin"} :
            /\ r.own \in DOMAIN art.layout
            /\ Cardinality({i \in DOMAIN art.layout[r.own].slots : art.layout[r.own].slots[i] = r.n}) = 1

\* Resolution: lowering gives every symbol the binding that the run-time lookup
\* by name would find - in lets, nested functions, mutually recursive functions,
\* pipelines that define into the scope around them, modules and imports
\* (Scope.lookup, _predeclare_callable_definitions, _scope_after_form) - and that
\* binding has its slot.
ResolutionAgrees ==
    /\ Lowered => AstraySeq(art.es, <<[sp |-> 1, names |-> Functions(art.es)]>>) = {}
    /\ SlotsComplete

RECURSIVE TailCalls(_)
\* The calls after which their function has nothing left to do.
LastOf(es) == IF es = <<>> THEN {} ELSE TailCalls(es[Len(es)])
TailCalls(e) ==
    CASE e.k = "call" -> {e}
      [] e.k = "cond" -> UNION {TailCalls(e.xs[i]) : i \in {j \in DOMAIN e.xs : j % 2 = 0}}
      [] e.k \in {"let", "pipeline"} -> LastOf(e.xs)
      [] e.k = "handle" -> LastOf(e.xs) \cup UNION {LastOf(e.hs[i].xs) : i \in DOMAIN e.hs}
      [] OTHER -> {}

\* A call is marked as a tail call, and replaces its frame, only when it is the
\* last thing its function does (LowerSeq, _lower_cond, _lower_handle).
TailPositions ==
    Lowered => {x \in NodesOf(art.es) : x.tail}
                   \subseteq UNION {LastOf(x.xs) : x \in {y \in NodesOf(art.es) : y.k = "lambda"}}

RECURSIVE LooseResumes(_)
LooseResumes(e) ==
    (IF e.k = "resume" THEN {e} ELSE {}) \cup UNION {LooseResumes(e.xs[i]) : i \in DOMAIN e.xs}

\* A program that runs resumes only inside handlers: every resume of it is in
\* the body of some handler (h7_resume_in_handler).
ResumeInHandler == (answer = "ran") => \A i \in DOMAIN art.es : LooseResumes(art.es[i]) = {}

\* The resumes that no handler encloses, or that a let, a function or a module
\* separates from the handler they are in.
Separates(e) == e.k \in {"let", "lambda", "module"}
RECURSIVE Severed(_, _)
Severed(e, handled) ==
    (IF e.k = "resume" /\ ~handled THEN {e} ELSE {})
        \cup UNION {Severed(e.xs[i], handled /\ ~Separates(e)) : i \in DOMAIN e.xs}
        \cup UNION {UNION {Severed(e.hs[i].xs[j], TRUE) : j \in DOMAIN e.hs[i].xs} : i \in DOMAIN e.hs}

\* The passes fit together: each takes what the one before it made, and what
\* lowering builds without an error, the validator accepts, up to one rule of its
\* own: H7 refuses a program exactly for a resume that no handler encloses, and -
\* against docs/hir-spec.md, which allows resume anywhere in the body of a handler -
\* for one in a let, function or module of a handler.  Nothing runs that breaks H7.
ValidatorAccepts ==
    /\ BuildTypeOK /\ KindsFit /\ ResumeInHandler
    /\ After("hir.validate") =>
         LET found == {d \in Errors(art.own) : d.rule \in {"H3", "H5", "H7"}}
             severed == UNION {Severed(art.es[i], FALSE) : i \in DOMAIN art.es}
         IN found = IF Errors(art.own) = found /\ severed # {} THEN {Diag("H7", "error")} ELSE {}
=============================================================================
