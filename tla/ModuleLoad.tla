------------------------------ MODULE ModuleLoad ------------------------------
(***************************************************************************)
(* How a name in (from name import ...) becomes a module: the registry of  *)
(* the process (qy/import_/registry.py), the caches of an environment      *)
(* (qy/import_/loader.py), the packages of qy.toml (qy/project/package.py),*)
(* and the stages of evaluate_form_async that each look the name up again: *)
(* the macro expander and the VM through load_module, the HIR lowering     *)
(* twice through resolve_known_module.                                     *)
(*                                                                         *)
(* A session evaluates the forms of the file "main" one after the other    *)
(* and goes on after an error.  A file module is evaluated form by form in *)
(* an environment of its own, inside the stage that asked for it; an error *)
(* in it ends every evaluation that waits for it.  The disk does not       *)
(* change here (module PackageStore has the writers).                      *)
(***************************************************************************)
EXTENDS Integers, Sequences, FiniteSets, FiniteSetsExt, SequencesExt

CONSTANTS Worlds,     \* what is on disk: files, qy.toml, packages
          MaxDepth    \* bound: evaluations that wait for one another

VARIABLES world,      \* the world of this behaviour
          registry,   \* _MODULE_LOADERS: name -> module, of the process
          stack,      \* the running evaluations, the session first
          done,       \* history: the from forms that ran to their end
          errors      \* history: the errors of the session's forms

vars == <<world, registry, stack, done, errors>>

\* A name: parts is the path split at "/".  is_package_path looks for a domain.
Name(kind, parts) == [kind |-> kind, parts |-> parts]
is_package_path(n) == n.kind = "package"

NameSet == [kind : {"plain", "file", "package"}, parts : Seq(STRING)]
\* The files of a package are files on disk.
IsPackage(pkg, files) ==
    /\ DOMAIN pkg.src \subseteq Seq(STRING) /\ \A s \in DOMAIN pkg.src : pkg.src[s] \in files
\* A disk with its qy.toml.  The files number less than the evaluations that may
\* wait for one another, and no builtin has the name of a package.
IsWorld(w) ==
    /\ "main" \in DOMAIN w.forms /\ DOMAIN w.forms \subseteq STRING \ {""}
    /\ IsFiniteSet(DOMAIN w.forms) /\ Cardinality(DOMAIN w.forms) < MaxDepth
    /\ \A f \in DOMAIN w.forms : w.forms[f] \in Seq([op : {"from", "module"}, name : NameSet])
    /\ \A n \in w.builtins : n \in NameSet /\ ~is_package_path(n)
    /\ w.manifest \in BOOLEAN /\ w.deps \cup w.replaces \subseteq Seq(STRING)
    /\ \A p \in DOMAIN w.cache : w.cache[p].state = "package" /\ IsPackage(w.cache[p], DOMAIN w.forms)
    /\ \A p \in DOMAIN w.local : \/ w.local[p].state \in {"absent", "bare"}
                                 \/ w.local[p].state = "package" /\ IsPackage(w.local[p], DOMAIN w.forms)
ASSUME WorldsAssumption == MaxDepth \in Nat /\ \A w \in Worlds : IsWorld(w)

Stages == {"expand", "lower", "scope", "run"}
Empty == [n \in {} |-> {}]
\* A module is told apart by the form that made it; ix = 0: the whole file.
Module(file, ix) == [file |-> file, ix |-> ix]
NoModule == Module("", 0)
\* source: the source modules, macros: the module macro namespace, packages:
\* the package registry, bound: the module bindings of an environment.
standard_environment == [source |-> Empty, macros |-> {}, packages |-> {}, bound |-> Empty]
\* as: the name under which _resolve_package_module caches the loaded module.
Frame(file, as) == [file |-> file, ix |-> 1, stage |-> "expand", env |-> standard_environment,
                    compiled |-> NoModule, as |-> as]
NoName == Name("none", <<>>)

Top == stack[Len(stack)]
Below == SubSeq(stack, 1, Len(stack) - 1)
Forms(f) == world.forms[f]
Form == Forms(Top.file)[Top.ix]
Put(f, k, v) == [x \in DOMAIN f \cup {k} |-> IF x = k THEN v ELSE f[x]]

---------------------------------------------------------------------------
(* Packages. *)

is_exported(pkg, sub) ==
    /\ \A i \in 1 .. Len(sub) - 1 : sub[i] # "internal"
    /\ pkg.listed => sub \in pkg.modules
\* root_module_path and resolve_submodule: the file, if there is one.
resolve_submodule(pkg, sub) == IF sub \in DOMAIN pkg.src THEN pkg.src[sub] ELSE ""

\* The longest prefix that is a known package, and the rest.
split_package_module(n, known) ==
    LET cuts == {i \in 1 .. Len(n.parts) : SubSeq(n.parts, 1, i) \in known}
        i == IF cuts = {} THEN Len(n.parts) ELSE Max(cuts)
    IN [pkg |-> SubSeq(n.parts, 1, i), sub |-> SubSeq(n.parts, i + 1, Len(n.parts))]

\* get_cached and [replace]: what is at the two places of a package.
Cached(p) == p \in world.deps /\ p \in DOMAIN world.cache
Local(p) == IF p \in DOMAIN world.local THEN world.local[p] ELSE [state |-> "absent"]

\* What a lookup ends in: a module, a file to evaluate, or an exception.
Found(m, e) == [kind |-> "module", module |-> m, file |-> "", env |-> e, as |-> NoName]
Load(f, e, as) == [kind |-> "load", module |-> NoModule, file |-> f, env |-> e, as |-> as]
Raise(exc, e) == [kind |-> exc, module |-> NoModule, file |-> "", env |-> e, as |-> NoName]

\* Mutation of LoadFrom: a submodule is read from the root module.
MutLoadRoot(pkg, sub, e, as) == Load(resolve_submodule(pkg, <<>>), e, as)
LoadFrom(pkg, sub, e, as) ==
    LET f == resolve_submodule(pkg, sub)
    IN IF f = "" THEN Raise("KeyError", e) ELSE Load(f, e, as)

\* registry._load_package_module: no environment; a replaced package is not
\* asked for its exports.
_load_package_module(n, e) ==
    LET s == split_package_module(n, world.deps)
        replaced == s.pkg \in world.replaces
        pkg == IF replaced THEN Local(s.pkg) ELSE world.cache[s.pkg]
    IN IF ~world.manifest \/ (~replaced /\ ~Cached(s.pkg)) THEN Raise("KeyError", e)
       ELSE IF pkg.state # "package" THEN Raise("FileNotFoundError", e)
       ELSE IF ~replaced /\ s.sub # <<>> /\ ~is_exported(pkg, s.sub) THEN Raise("KeyError", e)
       ELSE LoadFrom(pkg, s.sub, e, NoName)

\* Mutation of _load_package_for_module: the cached package first.
MutCachedFirst(p) ==
    IF Cached(p) THEN world.cache[p] ELSE IF p \in world.replaces THEN Local(p) ELSE [state |-> "absent"]
\* loader._load_package_for_module.
_load_package_for_module(p) ==
    IF ~world.manifest THEN [state |-> "absent"]
    ELSE IF p \in world.replaces /\ Local(p).state # "absent" THEN Local(p)
    ELSE IF Cached(p) THEN world.cache[p] ELSE [state |-> "absent"]

\* Mutation of _resolve_package_module: the exports are not asked.
MutResolveInternal(n, e) ==
    LET s == split_package_module(n, IF e.packages # {} THEN e.packages ELSE world.deps)
        pkg == _load_package_for_module(s.pkg)
        e1 == [e EXCEPT !.packages = @ \cup {s.pkg}]
    IN IF pkg.state = "absent" THEN Raise("NotInGraph", e)
       ELSE IF pkg.state = "bare" THEN Raise("FileNotFoundError", e)
       ELSE LoadFrom(pkg, s.sub, e1, n)
\* loader._resolve_package_module.  The declared packages are read only while
\* no package is in the registry of the environment.
_resolve_package_module(n, e) ==
    LET known == IF e.packages # {} THEN e.packages ELSE IF world.manifest THEN world.deps ELSE {}
        s == split_package_module(n, known)
        pkg == _load_package_for_module(s.pkg)
        e1 == [e EXCEPT !.packages = @ \cup {s.pkg}]
    IN IF pkg.state = "absent" THEN Raise("NotInGraph", e)
       ELSE IF pkg.state = "bare" THEN Raise("FileNotFoundError", e)
       ELSE IF s.sub # <<>> /\ ~is_exported(pkg, s.sub) THEN Raise("KeyError", e1)
       ELSE LoadFrom(pkg, s.sub, e1, n)

---------------------------------------------------------------------------
(* Lookup by name. *)

load_module(n, e) ==
    IF n \in DOMAIN registry THEN Found(registry[n], e)
    ELSE IF is_package_path(n) THEN _load_package_module(n, e)
    ELSE IF n.kind = "file" /\ n.parts[1] \in DOMAIN world.forms THEN Load(n.parts[1], e, NoName)
    ELSE Raise("KeyError", e)

resolve_known_module(n, e) ==
    IF n \in DOMAIN e.source THEN Found(e.source[n], e)
    ELSE IF is_package_path(n) THEN _resolve_package_module(n, e)
    ELSE load_module(n, e)

\* _resolve_module_macros.
_resolve_module_macros(n, e) == IF n \in e.macros THEN Found(NoModule, e) ELSE load_module(n, e)

---------------------------------------------------------------------------
(* The evaluations. *)

Init ==
    /\ world \in Worlds
    /\ registry = [n \in world.builtins |-> Module("builtin", 0)]
    /\ stack = <<Frame("main", NoName)>>
    /\ done = {} /\ errors = {}

\* The exception ends the form of the session and all that waits for it.
RaiseError(exc, e) ==
    LET session == IF Len(stack) = 1 THEN [Top EXCEPT !.env = e] ELSE stack[1]
    IN /\ errors' = errors \cup {[exc |-> exc, name |-> Form.name, depth |-> Len(stack)]}
       /\ stack' = <<[session EXCEPT !.ix = @ + 1, !.stage = "expand", !.compiled = NoModule]>>
       /\ UNCHANGED <<world, registry, done>>

NextForm(fr) == [fr EXCEPT !.ix = @ + 1, !.stage = "expand", !.compiled = NoModule]
After == [expand |-> "lower", lower |-> "scope", scope |-> "run"]

\* Mutation of Deliver: the scope stage starts the lowering again.
MutDeliverAgain(fr, m) ==
    IF fr.stage = "run" THEN NextForm(fr)
    ELSE [fr EXCEPT !.stage = IF @ = "scope" THEN "lower" ELSE After[@],
                    !.compiled = IF fr.stage = "lower" THEN m ELSE @]
\* A stage of a from form has its module and the form goes on.
Deliver(fr, m) ==
    IF fr.stage = "run" THEN NextForm(fr)
    ELSE [fr EXCEPT !.stage = After[@], !.compiled = IF fr.stage = "lower" THEN m ELSE @]

\* The fold of a from form that ran.
Completed(fr, m, form) ==
    done' = IF fr.stage # "run" THEN done
            ELSE done \cup {[name |-> form.name, compiled |-> fr.compiled, ran |-> m, file |-> fr.file,
                             bound |-> IF form.name \in DOMAIN fr.env.bound THEN fr.env.bound[form.name]
                                       ELSE NoModule]}

\* One stage of (from name import ...): lookup is what its loader answers,
\* goOn the exceptions that the stage turns into a diagnostic without effect.
FromStage(stage, lookup, goOn) ==
    /\ stack # <<>> /\ Top.ix <= Len(Forms(Top.file)) /\ Form.op = "from" /\ Top.stage = stage
    /\ LET fr == [Top EXCEPT !.env = lookup.env]
       IN \/ /\ lookup.kind = "module"
             /\ stack' = Append(Below, Deliver(fr, lookup.module))
             /\ Completed(fr, lookup.module, Form)
             /\ UNCHANGED <<world, registry, errors>>
          \/ /\ lookup.kind = "load" /\ Len(stack) < MaxDepth
             /\ stack' = Append(Append(Below, fr), Frame(lookup.file, lookup.as))
             /\ UNCHANGED <<world, registry, done, errors>>
          \/ /\ lookup.kind \in goOn
             /\ stack' = Append(Below, Deliver(fr, NoModule))
             /\ UNCHANGED <<world, registry, done, errors>>
          \/ /\ lookup.kind = "load" /\ Len(stack) >= MaxDepth
             /\ RaiseError("exhausted", lookup.env)
          \/ /\ lookup.kind \notin goOn \cup {"module", "load"}
             /\ RaiseError(lookup.kind, lookup.env)

\* macro.expand: _import_macros_from_form.
ExpandFrom == FromStage("expand", _resolve_module_macros(Form.name, Top.env), {"KeyError"})
\* hir.lower: _lower_from; a diagnostic here fails the pipeline.
LowerFrom == FromStage("lower", resolve_known_module(Form.name, Top.env), {})
\* hir.lower: the from case of _scope_after_form.
ScopeFrom == FromStage("scope", resolve_known_module(Form.name, Top.env), {"KeyError", "NotInGraph"})
\* FROM_IMPORT: RegisterVirtualMachine._from_import.
RunFrom == FromStage("run", load_module(Form.name, Top.env), {})

\* Replaces the top of the stack; the history stays.
SetTop(fr) == stack' = Append(Below, fr) /\ UNCHANGED <<world, done>>

\* (module name ...) in the compiler: the macros of the module and, unless the
\* environment has a module of that name, a provisional one.
CompileModule ==
    /\ stack # <<>> /\ Top.ix <= Len(Forms(Top.file)) /\ Form.op = "module" /\ Top.stage = "expand"
    /\ LET e == Top.env
           src == IF Form.name \in DOMAIN e.source THEN e.source
                  ELSE Put(e.source, Form.name, Module(Top.file, Top.ix))
       IN SetTop([Top EXCEPT !.stage = "run", !.env = [e EXCEPT !.source = src, !.macros = @ \cup {Form.name}]])
    /\ UNCHANGED <<registry, errors>>

\* DEFINE_MODULE: _define_module.  register_module and cache_source_module come
\* before define_once, which may raise.
RunModule ==
    /\ stack # <<>> /\ Top.ix <= Len(Forms(Top.file)) /\ Form.op = "module" /\ Top.stage = "run"
    /\ LET n == Form.name
           m == Module(Top.file, Top.ix)
           e == [Top.env EXCEPT !.source = Put(@, n, m)]
       IN /\ registry' = Put(registry, n, m)
          /\ IF n \in DOMAIN e.bound
             THEN LET session == IF Len(stack) = 1 THEN [Top EXCEPT !.env = e] ELSE stack[1]
                  IN /\ errors' = errors \cup {[exc |-> "define_once", name |-> n, depth |-> Len(stack)]}
                     /\ stack' = <<NextForm(session)>>
                     /\ UNCHANGED <<world, done>>
             ELSE /\ SetTop(NextForm([Top EXCEPT !.env = [e EXCEPT !.bound = Put(@, n, m)]]))
                  /\ UNCHANGED errors

\* The module of a file that has run: its last module form, or the file itself.
FileModule(f) ==
    LET n == Len(Forms(f))
    IN IF n > 0 /\ Forms(f)[n].op = "module" THEN Module(f, n) ELSE Module(f, 0)
\* The stage that waits goes on with it; the loader caches package modules.
Return ==
    /\ Len(stack) > 1 /\ Top.ix > Len(Forms(Top.file))
    /\ LET m == FileModule(Top.file)
           caller == stack[Len(stack) - 1]
           form == Forms(caller.file)[caller.ix]
           fr == IF Top.as = NoName THEN caller ELSE [caller EXCEPT !.env.source = Put(@, Top.as, m)]
       IN /\ stack' = Append(SubSeq(stack, 1, Len(stack) - 2), Deliver(fr, m))
          /\ Completed(fr, m, form)
    /\ UNCHANGED <<world, registry, errors>>

\* The session has no form left.
EndSession ==
    /\ Len(stack) = 1 /\ Top.ix > Len(Forms(Top.file))
    /\ stack' = <<>>
    /\ UNCHANGED <<world, registry, done, errors>>

Next == \/ ExpandFrom \/ LowerFrom \/ ScopeFrom \/ RunFrom
        \/ CompileModule \/ RunModule \/ Return \/ EndSession

Spec == Init /\ [][Next]_vars /\ WF_vars(Next)

---------------------------------------------------------------------------
(* Properties. *)

\* The forms of all files, each with its place.
Places == UNION {{<<f, i>> : i \in 1 .. Len(Forms(f))} : f \in DOMAIN world.forms}
Names == {Forms(q[1])[q[2]].name : q \in Places} \cup world.builtins
Modules == {Module(q[1], q[2]) : q \in Places}
             \cup {Module(f, 0) : f \in DOMAIN world.forms \cup {"builtin", ""}}

\* Types of the registry, the running evaluations and the history.
TypeOK ==
    /\ DOMAIN registry \subseteq Names /\ \A n \in DOMAIN registry : registry[n] \in Modules
    /\ Len(stack) <= MaxDepth
    /\ \A i \in 1 .. Len(stack) :
         /\ stack[i].file \in DOMAIN world.forms /\ stack[i].stage \in Stages
         /\ stack[i].ix \in 1 .. Len(Forms(stack[i].file)) + 1
         /\ stack[i].env.packages \subseteq world.deps \cup world.replaces
         /\ DOMAIN stack[i].env.bound \subseteq DOMAIN registry
    /\ \A d \in done : d.ran \in Modules \ {NoModule}

Declared == world.deps \cup world.replaces
\* The declared packages that a name could belong to.
Owners(n) == {p \in Declared : Len(p) <= Len(n.parts) /\ SubSeq(n.parts, 1, Len(p)) = p}
Rest(n, p) == SubSeq(n.parts, Len(p) + 1, Len(n.parts))
\* The module forms that define a name, in all files.
Definitions(n) == {Module(q[1], q[2]) : q \in {r \in Places : Forms(r[1])[r[2]] = [op |-> "module", name |-> n]}}
Roots(p) == (IF p \in DOMAIN world.cache THEN {world.cache[p]} ELSE {})
              \cup (IF Local(p).state = "package" THEN {Local(p)} ELSE {})
\* The files that a name leads to.
FilesOf(n) ==
    IF n.kind = "file" THEN {n.parts[1]} \cap DOMAIN world.forms
    ELSE {resolve_submodule(_load_package_for_module(p), Rest(n, p)) :
            p \in {q \in Owners(n) : is_package_path(n) /\ _load_package_for_module(q).state = "package"}} \ {""}
\* All that a name can mean: a builtin, a module form, the module of a file.
Meanings(n) == (IF n \in world.builtins THEN {Module("builtin", 0)} ELSE {})
                 \cup Definitions(n) \cup {FileModule(f) : f \in FilesOf(n)}

\* The four lookups of one from form agree: the module whose exports the
\* lowering resolved is the one whose exports the VM folds, and it is the one
\* bound to the name in the environment, if there is one.  Names with two
\* meanings are excepted: that two module forms define, that a builtin has,
\* that belong to two declared packages, or that a module form defines outside
\* of the file they lead to.  There the registry of the process and the caches
\* of the environment do answer differently.
StagesAgree ==
    TypeOK /\ \A d \in done :
        (\A m1, m2 \in Meanings(d.name) : m1 = m2) => d.ran = d.compiled /\ d.bound \in {NoModule, d.ran}

Exported(n, f) ==
    \E p \in Owners(n) : \E pkg \in Roots(p) :
        LET sub == Rest(n, p) IN (sub = <<>> \/ is_exported(pkg, sub)) /\ resolve_submodule(pkg, sub) = f
\* A from form of a package path runs to its end only with a module that a
\* declared package exports (or that a module form registered under that
\* name), although the expander and the VM use a lookup that never asks a
\* replaced package for its exports.  Excepted is a replaced package whose path
\* continues that of another one, or the other way round: the lowering asks the
\* one for its exports and the VM loads from the other.
ExportsRespected ==
    \A d \in done :
        /\ is_package_path(d.name) /\ Definitions(d.name) = {}
        /\ (\A p, q \in Owners(d.name) : p = q) \/ Owners(d.name) \cap world.replaces = {}
        => Exported(d.name, d.ran.file)

\* The files that the from forms of a file can make the loader evaluate.
Leads(n) ==
    IF n.kind = "file" THEN {n.parts[1]}
    ELSE UNION {{resolve_submodule(pkg, Rest(n, p)) : pkg \in Roots(p)} : p \in Owners(n)}
Imports(f) == UNION {Leads(Forms(f)[i].name) : i \in {j \in 1 .. Len(Forms(f)) : Forms(f)[j].op = "from"}}
Cyclic == \E S \in SUBSET (DOMAIN world.forms) \ {{}} : \A f \in S : Imports(f) \cap S # {}

\* The loader runs out of stack or threads only for files that import each
\* other: no cache between the environments is needed for termination, and
\* nothing detects a cycle.
CyclesOnlyExhaust == (\E x \in errors : x.exc = "exhausted") => Cyclic

\* Every session ends, also when a file imports itself.
Ends == <>(stack = <<>>)
=============================================================================
