------------------------------ MODULE Bindings ------------------------------
(***************************************************************************)
(* One layer of the symbol-space-chain as a value, and the writes of       *)
(* qy/core/symbol_space.py, qy/import_/resolver.py and                     *)
(* qy/import_/__init__.py as pure operators on it.  A layer is a total     *)
(* function from symbols to bindings; a symbol the dict does not hold is   *)
(* bound to MISSING.  A write returns [ok, layer]: ok is FALSE when the    *)
(* method raises, and layer is what the dict holds when it has returned or *)
(* raised.                                                                 *)
(***************************************************************************)
EXTENDS Integers, Sequences, FiniteSets

CONSTANTS Symbols,   \* the names a program uses
          Values     \* run-time values (opaque)

\* What a dict entry can be: a value, a SymbolAlias, or no entry at all.
MISSING == [kind |-> "missing", v |-> "none", target |-> "none"]
Val(v) == [kind |-> "val", v |-> v, target |-> "none"]
SymbolAlias(t) == [kind |-> "alias", v |-> "none", target |-> t]

ValueBindings == {Val(v) : v \in Values}
AliasBindings == {SymbolAlias(t) : t \in Symbols}
Layer == [Symbols -> ValueBindings \cup {MISSING}]
HiddenLayer == [Symbols -> ValueBindings \cup AliasBindings \cup {MISSING}]

EmptyLayer == [s \in Symbols |-> MISSING]
Bound(layer) == {s \in Symbols : layer[s] # MISSING}
Done(layer) == [ok |-> TRUE, layer |-> layer]
Raised(layer) == [ok |-> FALSE, layer |-> layer]

\* SymbolSpace.define: rebinding is allowed.
Define(layer, s, b) == Done([layer EXCEPT ![s] = b])

\* Mutation of DefineOnce: the name is not looked up first.
MutDefineOnceRebinds(layer, s, b) == Define(layer, s, b)

\* SymbolSpace.define_once: raises on a name bound in this layer.
DefineOnce(layer, s, b) ==
    IF layer[s] # MISSING THEN Raised(layer) ELSE Define(layer, s, b)

\* The entries at the positions T of a list, in their order.
Selected(list, T) ==
    [k \in 1..Cardinality(T) |-> list[CHOOSE i \in T : Cardinality({j \in T : j < i}) = k - 1]]

(***************************************************************************)
(* SymbolSpace.fold_from tests and writes one name at a time, so the names *)
(* before the first refused one stay written.  A name is refused when it   *)
(* is bound already - by an earlier write of the same call too - or when   *)
(* the source does not hold it.                                            *)
(***************************************************************************)
Refused(layer, source, names, i) ==
    \/ layer[names[i]] # MISSING
    \/ \E j \in 1..(i-1) : names[j] = names[i]
    \/ source[names[i]] = MISSING

FoldFrom(layer, source, names) ==
    LET bad == {i \in DOMAIN names : Refused(layer, source, names, i)}
        written == {names[i] : i \in {j \in DOMAIN names : \A b \in bad : j < b}}
    IN [ok |-> bad = {},
        layer |-> [s \in Symbols |-> IF s \in written THEN source[s] ELSE layer[s]]]

\* A dict built by result[rename[name]] = source[name] over the names in order:
\* of several names with one target the last decides the value ...
Renamed(source, names, rename) ==
    [t \in Symbols |->
        LET from == {i \in DOMAIN names : rename[names[i]] = t}
        IN IF from = {} THEN MISSING
           ELSE source[names[CHOOSE i \in from : \A j \in from : j =< i]]]

\* ... and the first decides the place of the key.
KeyOrder(names, rename) ==
    LET key(i) == rename[names[i]]
        first == {i \in DOMAIN names : \A j \in 1..(i-1) : key(j) # key(i)}
    IN Selected([i \in DOMAIN names |-> key(i)], first)

(***************************************************************************)
(* fold_import, the one implementation of (from m import name as alias     *)
(* ...).  A name that is neither exported nor a macro export raises before *)
(* anything is written; macro exports have no run-time binding and are     *)
(* skipped; the rest goes through fold_from.                               *)
(***************************************************************************)
FoldImport(layer, module, names, alias) ==
    LET runtime == Selected(names, {i \in DOMAIN names : module.exports[names[i]] # MISSING})
    IN IF \E i \in DOMAIN names :
              module.exports[names[i]] = MISSING /\ names[i] \notin module.macro_exports
       THEN Raised(layer)
       ELSE FoldFrom(layer, Renamed(module.exports, runtime, alias), KeyOrder(runtime, alias))

\* qy.import_.fold: every name and every conflict is checked before a write;
\* without check_conflicts existing bindings are overwritten.
Fold(layer, source, names, rename, check_conflicts) ==
    LET incoming == Renamed(source, names, rename)
    IN IF \/ \E i \in DOMAIN names : source[names[i]] = MISSING
          \/ check_conflicts /\ Bound(incoming) \cap Bound(layer) # {}
       THEN Raised(layer)
       ELSE Done([s \in Symbols |-> IF s \in Bound(incoming) THEN incoming[s] ELSE layer[s]])

\* Mutation of Unfold: names are checked one by one while they are written.
MutUnfoldUnchecked(layer, source, names, prefix, check_conflicts) ==
    FoldFrom(layer, Renamed(source, names, prefix), KeyOrder(names, prefix))

\* qy.import_.unfold: the prefix is an injective rename; every write is a
\* define_once, also without check_conflicts, so that a conflict the check was
\* told to ignore still raises after the writes that precede it.
Unfold(layer, source, names, prefix, check_conflicts) ==
    LET incoming == Renamed(source, names, prefix)
    IN IF \/ \E i \in DOMAIN names : source[names[i]] = MISSING
          \/ check_conflicts /\ Bound(incoming) \cap Bound(layer) # {}
       THEN Raised(layer)
       ELSE FoldFrom(layer, incoming, KeyOrder(names, prefix))
=============================================================================
