----------------------------- MODULE SymbolSpace -----------------------------
(***************************************************************************)
(* The symbol-space-chain (qy/core/symbol_space.py) with its run-time      *)
(* wrapper RuntimeSpace (qy/session/runtime_space.py): a tree of layers,   *)
(* each a dict of bindings and a dict of hidden (hygiene) bindings, with   *)
(* the literals recognised by the pre-defined spaces at the root.  Every   *)
(* method is synchronous Python on one event loop, so every action is the  *)
(* whole method.                                                           *)
(***************************************************************************)
EXTENDS Bindings, FiniteSets

CONSTANTS Spaces,         \* identities of SymbolSpace objects
          Root,           \* the space without a parent
          NoSpace,        \* Python's None as a parent
          HygieneNames,   \* names of the form __qy_hygiene_def_*
          Literals,       \* names number-ss / char-ss / string-ss recognise
          LiteralOf,      \* ... and the value each resolves to
          Modules,        \* the modules a caller may import from
          NameLists,      \* name sequences a caller may select
          Aliases,        \* alias maps (several names may get one alias)
          Prefixes        \* prefix maps

ASSUME SpacesAssumption == Root \in Spaces /\ NoSpace \notin Spaces
ASSUME NamesAssumption ==
    /\ HygieneNames \subseteq Symbols
    /\ Literals \subseteq Symbols \ HygieneNames
    /\ LiteralOf \in [Literals -> Values]
ASSUME ModulesAssumption == Modules \subseteq [exports : Layer, macro_exports : SUBSET Symbols]
ASSUME InputsAssumption ==
    /\ NameLists \subseteq Seq(Symbols)
    /\ Aliases \cup Prefixes \subseteq [Symbols -> Symbols]
    /\ \A p \in Prefixes : \A s, t \in Symbols : p[s] = p[t] => s = t

VARIABLES live,      \* the spaces created so far
          parent,    \* SymbolSpace._parent
          bindings,  \* SymbolSpace._bindings
          hidden,    \* SymbolSpace._hidden
          last       \* the method that returned or raised last, and how

vars == <<live, parent, bindings, hidden, last>>

UserNames == Symbols \ (HygieneNames \cup Literals)
Ops == {"init", "child", "define", "define_once", "define_hidden",
        "fold_import", "fold", "fold!", "unfold", "unfold!"}

TypeOK ==
    /\ live \subseteq Spaces /\ Root \in live
    /\ parent \in [Spaces -> Spaces \cup {NoSpace}]
    /\ bindings \in [Spaces -> Layer]
    /\ hidden \in [Spaces -> HiddenLayer]
    /\ last \in [op : Ops, space : Spaces, ok : BOOLEAN]

-----------------------------------------------------------------------------
(* Reading. *)

\* SymbolSpace.lookup: this layer only; bindings, then hidden, then resolver.
Lookup(sp, s) ==
    IF bindings[sp][s] # MISSING THEN bindings[sp][s]
    ELSE IF hidden[sp][s] # MISSING THEN hidden[sp][s]
    ELSE IF sp = Root /\ s \in Literals THEN Val(LiteralOf[s])
    ELSE MISSING

\* Mutation of Resolve: the target of an alias is looked up from the use.
MutResolveFromUse(head, symbol) ==
    LET walk[sp \in Spaces \cup {NoSpace}, s \in Symbols, seen \in SUBSET Symbols] ==
            IF sp = NoSpace \/ s \in seen THEN MISSING
            ELSE LET b == Lookup(sp, s)
                 IN CASE b.kind = "missing" -> walk[parent[sp], s, seen]
                      [] b.kind = "alias"   -> walk[head, b.target, seen \cup {s}]
                      [] OTHER              -> b
    IN walk[head, symbol, {}]

\* Mutation of Resolve: a miss goes to the root at once.
MutResolveSkipsParents(head, symbol) ==
    IF Lookup(head, symbol) # MISSING THEN Lookup(head, symbol) ELSE Lookup(Root, symbol)

\* SymbolSpace.resolve: walk to the parent on a miss; at an alias go on with
\* its target from the layer that holds the alias; a symbol met again is a
\* cycle and unbound.
Sites == [sp : Spaces \cup {NoSpace}, s : Symbols, seen : SUBSET Symbols]
Walk[at \in Sites] ==
    IF at.sp = NoSpace \/ at.s \in at.seen THEN MISSING
    ELSE LET b == Lookup(at.sp, at.s)
         IN CASE b.kind = "missing" -> Walk[[at EXCEPT !.sp = parent[at.sp]]]
              [] b.kind = "alias"   -> Walk[[sp |-> at.sp, s |-> b.target, seen |-> at.seen \cup {at.s}]]
              [] OTHER              -> b
Resolve(head, symbol) == Walk[[sp |-> head, s |-> symbol, seen |-> {}]]

\* The layers of a chain, head first (SymbolSpaceChain.frames reversed).
Up[sp \in Spaces \cup {NoSpace}] ==
    IF sp = NoSpace THEN <<>> ELSE <<sp>> \o Up[parent[sp]]
Chain(head) == Up[head]

-----------------------------------------------------------------------------
(* Writing.  A method that raises is a step too: its caller catches the    *)
(* error (REPL, handler, gather) and the space lives on.                   *)

Init ==
    /\ live = {Root}
    /\ parent = [sp \in Spaces |-> NoSpace]
    /\ bindings = [sp \in Spaces |-> EmptyLayer]
    /\ hidden = [sp \in Spaces |-> EmptyLayer]
    /\ last = [op |-> "init", space |-> Root, ok |-> TRUE]

\* A write to the bindings of sp whose outcome is r.
Write(op, sp, r) ==
    /\ bindings' = [bindings EXCEPT ![sp] = r.layer]
    /\ last' = [op |-> op, space |-> sp, ok |-> r.ok]
    /\ UNCHANGED <<live, parent, hidden>>

\* SymbolSpace.child: ENTER_SCOPE, SS_ENTER, a call's argument layer, a module body.
child(p, c) ==
    /\ p \in live /\ c \in Spaces \ live
    /\ live' = live \cup {c}
    /\ parent' = [parent EXCEPT ![c] = p]
    /\ last' = [op |-> "child", space |-> c, ok |-> TRUE]
    /\ UNCHANGED <<bindings, hidden>>

\* Mutation of define: a name the parent binds is rebound there.
MutDefineOuter(sp, s, v) ==
    /\ LET to == IF parent[sp] # NoSpace /\ bindings[parent[sp]][s] # MISSING THEN parent[sp] ELSE sp
       IN bindings' = [bindings EXCEPT ![to][s] = Val(v)]
    /\ last' = [op |-> "define", space |-> sp, ok |-> TRUE]
    /\ UNCHANGED <<live, parent, hidden>>

\* STORE_LOCAL, DEFEFFECT, register_*.
define(sp, s, v) == Write("define", sp, Define(bindings[sp], s, Val(v)))

\* DEFINE_ONCE, SLOT_COMPLETE, a module definition.
define_once(sp, s, v) == Write("define_once", sp, DefineOnce(bindings[sp], s, Val(v)))

\* _install_hygiene_aliases (an alias, in the VM's own space) and
\* define_hidden_root (a value, at the root of the chain).
define_hidden(sp, s, b) ==
    /\ hidden' = [hidden EXCEPT ![sp] = Define(hidden[sp], s, b).layer]
    /\ last' = [op |-> "define_hidden", space |-> sp, ok |-> TRUE]
    /\ UNCHANGED <<live, parent, bindings>>

define_hidden_root(sp, s, v) ==
    LET chain == Chain(sp) IN define_hidden(chain[Len(chain)], s, Val(v))

\* (from m import ...), by the VM and by the runtime operator.
fold_import(sp, module, names, alias) ==
    Write("fold_import", sp, FoldImport(bindings[sp], module, names, alias))

fold(sp, source, names, rename, check) ==
    Write(IF check THEN "fold" ELSE "fold!", sp,
          Fold(bindings[sp], source, names, rename, check))

unfold(sp, source, names, prefix, check) ==
    Write(IF check THEN "unfold" ELSE "unfold!", sp,
          Unfold(bindings[sp], source, names, prefix, check))

Next ==
    \/ \E p \in live, c \in Spaces : child(p, c)
    \/ \E sp \in live, s \in UserNames, v \in Values :
          define(sp, s, v) \/ define_once(sp, s, v)
    \/ \E sp \in live, s \in HygieneNames, t \in UserNames : define_hidden(sp, s, SymbolAlias(t))
    \/ \E sp \in live, s \in HygieneNames, v \in Values : define_hidden_root(sp, s, v)
    \/ \E sp \in live, m \in Modules, names \in NameLists, a \in Aliases :
          \/ fold_import(sp, m, names, a)
          \/ \E check \in BOOLEAN : fold(sp, m.exports, names, a, check)
    \/ \E sp \in live, m \in Modules, names \in NameLists, p \in Prefixes, check \in BOOLEAN :
          unfold(sp, m.exports, names, p, check)

Spec == Init /\ [][Next]_vars

-----------------------------------------------------------------------------
(* Properties. *)

\* A hygiene alias means what its target means where the alias was installed:
\* no binding of the target between the use and that layer captures it, and a
\* target that is defined after the alias is found (SymbolAlias's docstring:
\* the target must be resolved lazily).
HygieneNoCapture ==
    \A use \in live, s \in HygieneNames :
        LET chain == Chain(use)
            holds == {i \in DOMAIN chain : Lookup(chain[i], s) # MISSING}
        IN holds # {} =>
             LET i == CHOOSE i \in holds : \A j \in holds : i =< j
                 b == Lookup(chain[i], s)
             IN b.kind = "alias" => Resolve(use, s) = Resolve(chain[i], b.target)

\* Lexical scope: the layers are layers (TypeOK), a user name means its nearest
\* binding on the chain, a literal nobody rebinds means itself in every scope, and
\* resolution always ends.
NearestBinding ==
    TypeOK /\ \A use \in live, s \in UserNames \cup Literals :
        LET chain == Chain(use)
            holds == {i \in DOMAIN chain : bindings[chain[i]][s] # MISSING}
        IN Resolve(use, s) =
             IF holds # {}
             THEN bindings[chain[CHOOSE i \in holds : \A j \in holds : i =< j]][s]
             ELSE IF s \in Literals THEN Val(LiteralOf[s]) ELSE MISSING

\* A write is seen only below the layer it goes to: no step changes what a name
\* means in a space whose chain does not contain the written layer.
ScopeIsolation ==
    [][\A d \in live : (\A i \in DOMAIN Chain(d) : Chain(d)[i] # last'.space) =>
            \A s \in Symbols : Resolve(d, s)' = Resolve(d, s)]_vars

\* Only define and an unchecked fold may change a binding that a name already
\* has; nothing removes one.
BoundOnce ==
    [][\A sp \in live, s \in Symbols :
            bindings[sp][s] # MISSING =>
                \/ bindings'[sp][s] = bindings[sp][s]
                \/ last'.op \in {"define", "fold!"} /\ bindings'[sp][s] # MISSING]_vars

\* An import that raises imports nothing - for the operations that check every
\* name before they write (qy.import_.fold and unfold).
CheckedImportAtomic ==
    [][last'.op \in {"define_once", "fold", "fold!", "unfold"} /\ ~last'.ok
            => bindings' = bindings]_vars
=============================================================================
