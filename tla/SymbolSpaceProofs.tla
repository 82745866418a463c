-------------------------- MODULE SymbolSpaceProofs --------------------------
(***************************************************************************)
(* For every set of names, values, spaces and modules: what the writes of  *)
(* the symbol-space-chain may do to a layer, and what a name means on the  *)
(* chain.                                                                  *)
(***************************************************************************)
EXTENDS SymbolSpace, FiniteSetTheorems, SequenceTheorems, Induction, TLAPS

-----------------------------------------------------------------------------
(* The lists of names an import works on. *)

LEMMA Positions ==
    ASSUME NEW S, NEW names \in Seq(S)
    PROVE  /\ DOMAIN names = 1..Len(names) /\ Len(names) \in Nat
           /\ \A i \in DOMAIN names : names[i] \in S /\ i \in Nat
           /\ \A T \in SUBSET DOMAIN names : T \in SUBSET Nat /\ IsFiniteSet(T) /\ Cardinality(T) \in Nat
<1>1. DOMAIN names = 1..Len(names) /\ Len(names) \in Nat /\ \A i \in 1..Len(names) : names[i] \in S
    BY LenProperties, ElementOfSeq
<1>2. IsFiniteSet(1..Len(names))
    BY <1>1, FS_Interval
<1> QED BY <1>1, <1>2, FS_Subset, FS_CardinalityType

\* Selected takes its k-th entry from a position of its own.
LEMMA SelectedFrom ==
    ASSUME NEW S, NEW names \in Seq(S), NEW T \in SUBSET DOMAIN names
    PROVE  /\ Selected(names, T) \in Seq(S)
           /\ \E at \in [DOMAIN Selected(names, T) -> T] :
                /\ \A k \in DOMAIN Selected(names, T) : Selected(names, T)[k] = names[at[k]]
                /\ \A k, l \in DOMAIN Selected(names, T) : at[k] = at[l] => k = l
<1> DEFINE n == Cardinality(T)
           place(k) == CHOOSE i \in T : Cardinality({j \in T : j < i}) = k - 1
           at == [k \in 1..n |-> place(k)]
<1>1. n \in Nat /\ \A i \in T : names[i] \in S
    BY Positions
<1>2. \A k \in 1..n : place(k) \in T /\ Cardinality({j \in T : j < place(k)}) = k - 1
  <2>1. \A k \in 1..n : \E i \in T : Cardinality({j \in T : j < i}) = k - 1
      BY Positions, KthExists
  <2> QED BY <2>1
<1>3. at \in [1..n -> T]
    BY <1>2
<1>4. Selected(names, T) = [k \in 1..n |-> names[place(k)]]
    BY DEF Selected
<1> HIDE DEF place
<1>5. Selected(names, T) \in [1..n -> S]
    BY <1>1, <1>2, <1>4
<1>6. \A k, l \in 1..n : at[k] = at[l] => k = l
  <2> SUFFICES ASSUME NEW k \in 1..n, NEW l \in 1..n, place(k) = place(l) PROVE k = l
      OBVIOUS
  <2>1. k - 1 = l - 1
      BY <1>2
  <2>2. k \in Int /\ l \in Int
      BY <1>1
  <2> QED BY <2>1, <2>2
<1>7. Selected(names, T) \in Seq(S)
    BY <1>1, <1>5, SeqDef
<1>8. /\ DOMAIN Selected(names, T) = 1..n
      /\ \A k \in 1..n : Selected(names, T)[k] = names[at[k]]
    BY <1>4
<1> HIDE DEF at, n
<1> QED BY <1>3, <1>6, <1>7, <1>8

\* The dict of an import maps names to bindings.
LEMMA RenamedIsLayer ==
    ASSUME NEW source \in Layer, NEW names \in Seq(Symbols), NEW rename \in [Symbols -> Symbols]
    PROVE  Renamed(source, names, rename) \in Layer
<1> DEFINE from(t) == {i \in DOMAIN names : rename[names[i]] = t}
           latest(t) == CHOOSE i \in from(t) : \A j \in from(t) : j =< i
<1>1. ASSUME NEW t \in Symbols, from(t) # {} PROVE latest(t) \in from(t)
  <2>1. from(t) \in SUBSET DOMAIN names
      OBVIOUS
  <2>2. from(t) \in SUBSET Nat /\ IsFiniteSet(from(t))
      BY <2>1, Positions
  <2> HIDE DEF from
  <2>3. \E i \in from(t) : \A j \in from(t) : j =< i
      BY <1>1, <2>2, GreatestNat
  <2> QED BY <2>3
<1>2. \A t \in Symbols : from(t) # {} => names[latest(t)] \in Symbols
    BY <1>1, Positions
<1>3. Renamed(source, names, rename) =
        [t \in Symbols |-> IF from(t) = {} THEN MISSING ELSE source[names[latest(t)]]]
    BY DEF Renamed
<1> HIDE DEF from, latest
<1> QED BY <1>2, <1>3 DEF Layer

\* Its keys are the new names, each once.
LEMMA KeyOrderKeys ==
    ASSUME NEW names \in Seq(Symbols), NEW rename \in [Symbols -> Symbols]
    PROVE  LET keys == KeyOrder(names, rename)
           IN  /\ keys \in Seq(Symbols)
               /\ \A k, l \in DOMAIN keys : keys[k] = keys[l] => k = l
               /\ \A k \in DOMAIN keys : \E i \in DOMAIN names : keys[k] = rename[names[i]]
<1> DEFINE key == [i \in DOMAIN names |-> rename[names[i]]]
           first == {i \in DOMAIN names : \A j \in 1..(i-1) : rename[names[j]] # rename[names[i]]}
           keys == Selected(key, first)
<1>1. KeyOrder(names, rename) = keys
    BY DEF KeyOrder
<1>2. key \in Seq(Symbols) /\ DOMAIN key = DOMAIN names /\ first \in SUBSET DOMAIN key
  <2>1. key \in [1..Len(names) -> Symbols] /\ Len(names) \in Nat
      BY Positions
  <2> QED BY <2>1, SeqDef
<1>3. \A i, j \in first : key[i] = key[j] => i = j
  <2> SUFFICES ASSUME NEW i \in first, NEW j \in first, key[i] = key[j], i # j PROVE FALSE
      OBVIOUS
  <2>1. i \in 1..Len(names) /\ j \in 1..Len(names) /\ Len(names) \in Nat
      BY Positions
  <2>2. i \in 1..(j - 1) \/ j \in 1..(i - 1)
      BY <2>1
  <2> QED BY <2>2
<1> HIDE DEF first
<1>4. PICK at \in [DOMAIN keys -> first] :
        /\ \A k \in DOMAIN keys : keys[k] = key[at[k]]
        /\ \A k, l \in DOMAIN keys : at[k] = at[l] => k = l
    BY <1>2, SelectedFrom
<1>5. keys \in Seq(Symbols)
    BY <1>2, SelectedFrom
<1> HIDE DEF keys, key
<1>6. \A k, l \in DOMAIN keys : keys[k] = keys[l] => k = l
    BY <1>3, <1>4
<1>7. \A k \in DOMAIN keys : at[k] \in DOMAIN names /\ keys[k] = rename[names[at[k]]]
    BY <1>2, <1>4 DEF key
<1> QED BY <1>1, <1>5, <1>6, <1>7

-----------------------------------------------------------------------------
(* Writes to one layer. *)

\* What every write but define and an unchecked fold guarantees of the layer, and
\* what those two do.
Keeps(layer, new) == \A s \in Symbols : layer[s] # MISSING => new[s] = layer[s]
KeepsBound(layer, new) == \A s \in Symbols : layer[s] # MISSING => new[s] # MISSING

LEMMA FoldFromWrites ==
    ASSUME NEW layer \in Layer, NEW source \in Layer, NEW keys \in Seq(Symbols)
    PROVE  LET r == FoldFrom(layer, source, keys)
           IN  r.ok \in BOOLEAN /\ r.layer \in Layer /\ Keeps(layer, r.layer)
<1> DEFINE bad == {i \in DOMAIN keys : Refused(layer, source, keys, i)}
           written == {keys[i] : i \in {j \in DOMAIN keys : \A b \in bad : j < b}}
           new == [s \in Symbols |-> IF s \in written THEN source[s] ELSE layer[s]]
<1>1. FoldFrom(layer, source, keys) = [ok |-> bad = {}, layer |-> new]
    BY DEF FoldFrom
<1>2. new \in Layer
    BY DEF Layer
<1>3. ASSUME NEW s \in written PROVE layer[s] = MISSING
  <2>1. PICK i \in DOMAIN keys : keys[i] = s /\ \A b \in bad : i < b
      OBVIOUS
  <2>2. i \in Nat
      BY Positions
  <2>3. i \notin bad
      BY <2>1, <2>2
  <2> QED BY <2>1, <2>3 DEF Refused
<1> HIDE DEF bad, written
<1>4. Keeps(layer, new)
    BY <1>3 DEF Keeps
<1> QED BY <1>1, <1>2, <1>4

\* (from m import ...): also when it raises half-way.
LEMMA FoldImportWrites ==
    ASSUME NEW layer \in Layer, NEW m \in Modules, NEW names \in NameLists, NEW alias \in Aliases
    PROVE  LET r == FoldImport(layer, m, names, alias)
           IN  r.ok \in BOOLEAN /\ r.layer \in Layer /\ Keeps(layer, r.layer)
<1>1. m.exports \in Layer /\ names \in Seq(Symbols) /\ alias \in [Symbols -> Symbols]
    BY ModulesAssumption, InputsAssumption
<1> DEFINE runtime == Selected(names, {i \in DOMAIN names : m.exports[names[i]] # MISSING})
           source == Renamed(m.exports, runtime, alias)
           keys == KeyOrder(runtime, alias)
<1>2. runtime \in Seq(Symbols)
    BY <1>1, SelectedFrom
<1> HIDE DEF runtime
<1>3. source \in Layer /\ keys \in Seq(Symbols)
    BY <1>1, <1>2, RenamedIsLayer, KeyOrderKeys
<1> HIDE DEF source, keys
<1>4. FoldImport(layer, m, names, alias) \in {Raised(layer), FoldFrom(layer, source, keys)}
    BY DEF FoldImport, source, keys, runtime
<1>5. CASE FoldImport(layer, m, names, alias) = Raised(layer)
    BY <1>5 DEF Raised, Keeps
<1>6. CASE FoldImport(layer, m, names, alias) = FoldFrom(layer, source, keys)
    BY <1>3, <1>6, FoldFromWrites
<1> QED BY <1>4, <1>5, <1>6

\* qy.import_.fold.
LEMMA FoldWrites ==
    ASSUME NEW layer \in Layer, NEW m \in Modules, NEW names \in NameLists, NEW rename \in Aliases,
           NEW check \in BOOLEAN
    PROVE  LET r == Fold(layer, m.exports, names, rename, check)
           IN  /\ r.ok \in BOOLEAN /\ r.layer \in Layer
               /\ KeepsBound(layer, r.layer) /\ (check => Keeps(layer, r.layer))
               /\ ~r.ok => r.layer = layer
<1>1. m.exports \in Layer /\ names \in Seq(Symbols) /\ rename \in [Symbols -> Symbols]
    BY ModulesAssumption, InputsAssumption
<1> DEFINE incoming == Renamed(m.exports, names, rename)
           new == [s \in Symbols |-> IF s \in Bound(incoming) THEN incoming[s] ELSE layer[s]]
           refused == \/ \E i \in DOMAIN names : m.exports[names[i]] = MISSING
                      \/ check /\ Bound(incoming) \cap Bound(layer) # {}
<1>2. incoming \in Layer
    BY <1>1, RenamedIsLayer
<1>3. Fold(layer, m.exports, names, rename, check) = IF refused THEN Raised(layer) ELSE Done(new)
    BY DEF Fold
<1>4. CASE refused
  <2>1. Fold(layer, m.exports, names, rename, check) = [ok |-> FALSE, layer |-> layer]
    <3> HIDE DEF refused
    <3> QED BY <1>3, <1>4 DEF Raised
  <2> QED BY <2>1 DEF Keeps, KeepsBound
<1>5. CASE ~refused
  <2>1. new \in Layer
    <3> HIDE DEF incoming
    <3> QED BY <1>2 DEF Layer
  <2>2. KeepsBound(layer, new)
      BY DEF KeepsBound, Bound
  <2>3. check => Keeps(layer, new)
    <3> HIDE DEF incoming
    <3> QED BY <1>5 DEF Keeps, Bound
  <2> HIDE DEF new
  <2> QED BY <1>3, <1>5, <2>1, <2>2, <2>3 DEF Done
<1> QED BY <1>4, <1>5

\* qy.import_.unfold: with the check its writes cannot be refused.
LEMMA UnfoldWrites ==
    ASSUME NEW layer \in Layer, NEW m \in Modules, NEW names \in NameLists, NEW prefix \in Prefixes,
           NEW check \in BOOLEAN
    PROVE  LET r == Unfold(layer, m.exports, names, prefix, check)
           IN  /\ r.ok \in BOOLEAN /\ r.layer \in Layer /\ Keeps(layer, r.layer)
               /\ check /\ ~r.ok => r.layer = layer
<1>1. m.exports \in Layer /\ names \in Seq(Symbols) /\ prefix \in [Symbols -> Symbols]
    BY ModulesAssumption, InputsAssumption
<1> DEFINE incoming == Renamed(m.exports, names, prefix)
           keys == KeyOrder(names, prefix)
           refused == \/ \E i \in DOMAIN names : m.exports[names[i]] = MISSING
                      \/ check /\ Bound(incoming) \cap Bound(layer) # {}
<1>2. incoming \in Layer /\ keys \in Seq(Symbols)
    BY <1>1, RenamedIsLayer, KeyOrderKeys
<1>3. Unfold(layer, m.exports, names, prefix, check) =
        IF refused THEN Raised(layer) ELSE FoldFrom(layer, incoming, keys)
    BY DEF Unfold
<1>4. CASE refused
  <2>1. Unfold(layer, m.exports, names, prefix, check) = [ok |-> FALSE, layer |-> layer]
    <3> HIDE DEF refused
    <3> QED BY <1>3, <1>4 DEF Raised
  <2> QED BY <2>1 DEF Keeps
<1>5. CASE ~refused
  <2> DEFINE r == FoldFrom(layer, incoming, keys)
  <2>1. r.ok \in BOOLEAN /\ r.layer \in Layer /\ Keeps(layer, r.layer)
    <3> HIDE DEF incoming, keys
    <3> QED BY <1>2, FoldFromWrites
  <2>2. ASSUME check PROVE r.ok
    <3>1. \A k, l \in DOMAIN keys : keys[k] = keys[l] => k = l
        BY <1>1, KeyOrderKeys
    <3>2. ASSUME NEW k \in DOMAIN keys PROVE keys[k] \in Bound(incoming)
      <4>1. PICK i \in DOMAIN names : keys[k] = prefix[names[i]]
          BY <1>1, KeyOrderKeys
      <4>2. keys[k] \in Symbols
          BY <1>2, Positions
      <4> DEFINE from == {j \in DOMAIN names : prefix[names[j]] = keys[k]}
      <4>3. from \in SUBSET DOMAIN names /\ i \in from
          BY <4>1
      <4>4. from \in SUBSET Nat /\ IsFiniteSet(from)
          BY <1>1, <4>3, Positions
      <4> HIDE DEF keys
      <4>5. incoming[keys[k]] = m.exports[names[CHOOSE j \in from : \A l \in from : l =< j]]
          BY <4>2, <4>3 DEF Renamed
      <4> HIDE DEF from, incoming
      <4>6. \E j \in from : \A l \in from : l =< j
          BY <4>3, <4>4, GreatestNat
      <4>7. (CHOOSE j \in from : \A l \in from : l =< j) \in DOMAIN names
          BY <4>3, <4>6
      <4> QED BY <1>5, <4>2, <4>5, <4>7 DEF Bound
    <3>3. Bound(incoming) \cap Bound(layer) = {}
        BY <1>5, <2>2
    <3> HIDE DEF incoming, keys
    <3>4. ASSUME NEW k \in DOMAIN keys, Refused(layer, incoming, keys, k) PROVE FALSE
      <4>1. keys[k] \in Symbols /\ k \in 1..Len(keys) /\ Len(keys) \in Nat
          BY <1>2, Positions
      <4>2. layer[keys[k]] = MISSING /\ incoming[keys[k]] # MISSING
          BY <3>2, <3>3, <4>1 DEF Bound
      <4>3. PICK j \in 1..(k - 1) : keys[j] = keys[k]
          BY <3>4, <4>2 DEF Refused
      <4>4. j \in 1..Len(keys) /\ j # k
          BY <4>1
      <4> QED BY <1>2, <3>1, <4>3, <4>4, Positions
    <3> QED BY <3>4 DEF FoldFrom
  <2> HIDE DEF r
  <2> QED BY <1>3, <1>5, <2>1, <2>2 DEF r
<1> QED BY <1>4, <1>5

-----------------------------------------------------------------------------
(* The tree of the layers. *)

\* A space ranks above its parent, and no rank exceeds n.
RankedBelow(n, rank) ==
    /\ rank \in [Spaces -> 0..n]
    /\ \A sp \in Spaces : parent[sp] # NoSpace => rank[parent[sp]] < rank[sp]

\* Every chain is finite and, for a space that was created, ends at the root.
Tree ==
    /\ parent \in [Spaces -> Spaces \cup {NoSpace}] /\ parent[Root] = NoSpace
    /\ \A sp \in Spaces : parent[sp] # NoSpace => sp \in live /\ parent[sp] \in live
    /\ \A sp \in live : sp = Root \/ parent[sp] # NoSpace
    /\ \E n \in Nat : \E rank : RankedBelow(n, rank)

Height(rank, sp) == IF sp = NoSpace THEN 0 ELSE rank[sp] + 1

LEMMA Heights ==
    ASSUME Tree, NEW n \in Nat, NEW rank, RankedBelow(n, rank)
    PROVE  /\ \A sp \in Spaces \cup {NoSpace} : Height(rank, sp) \in Nat /\ Height(rank, sp) <= n + 1
           /\ \A sp \in Spaces : sp # NoSpace /\ Height(rank, sp) >= 1
           /\ \A sp \in Spaces : parent[sp] \in Spaces \cup {NoSpace}
                                 /\ Height(rank, parent[sp]) < Height(rank, sp)
<1>1. \A sp \in Spaces : rank[sp] \in Nat /\ rank[sp] <= n /\ sp # NoSpace
    BY SpacesAssumption DEF RankedBelow
<1>2. \A sp \in Spaces : parent[sp] \in Spaces \cup {NoSpace}
    BY DEF Tree
<1> QED BY <1>1, <1>2 DEF Height, RankedBelow

\* Induction along the chains, from the root of each upwards.
LEMMA ChainInduction ==
    ASSUME Tree, NEW Q, \A sp \in Spaces : parent[sp] = NoSpace \/ parent[sp] \in Q => sp \in Q
    PROVE  \A sp \in Spaces : sp \in Q
<1>1. PICK n \in Nat : \E rank : RankedBelow(n, rank)
    BY DEF Tree
<1>2. PICK rank : RankedBelow(n, rank)
    BY <1>1
<1> DEFINE S == {k \in Nat : \A sp \in Spaces : Height(rank, sp) <= k => sp \in Q}
<1>3. 0 \in S
    BY <1>2, Heights
<1>4. ASSUME NEW k \in Nat, k \in S PROVE k + 1 \in S
  <2> SUFFICES ASSUME NEW sp \in Spaces, Height(rank, sp) <= k + 1 PROVE sp \in Q
      OBVIOUS
  <2>1. /\ parent[sp] \in Spaces \cup {NoSpace} /\ Height(rank, parent[sp]) < Height(rank, sp)
        /\ Height(rank, parent[sp]) \in Nat /\ Height(rank, sp) \in Nat
      BY <1>2, Heights
  <2>2. Height(rank, parent[sp]) <= k
      BY <2>1
  <2>3. parent[sp] = NoSpace \/ parent[sp] \in Q
      BY <1>4, <2>1, <2>2
  <2> QED BY <2>3
<1> HIDE DEF S
<1>5. \A k \in Nat : k \in S
    BY <1>3, <1>4, NatSetInduction
<1>6. ASSUME NEW sp \in Spaces PROVE sp \in Q
  <2>1. Height(rank, sp) \in Nat /\ Height(rank, sp) <= Height(rank, sp)
      BY <1>2, Heights
  <2> QED BY <1>5, <2>1 DEF S
<1> QED BY <1>6

\* The equation of Up has a solution: that of the chains of height k + 1 is made
\* of that of the chains of height k.
UpStep(u, sp) == IF sp = NoSpace THEN <<>> ELSE <<sp>> \o u[parent[sp]]

LEMMA UpEquation ==
    Tree => \A sp \in Spaces \cup {NoSpace} : Up[sp] = UpStep(Up, sp)
<1> SUFFICES ASSUME Tree PROVE \A sp \in Spaces \cup {NoSpace} : Up[sp] = UpStep(Up, sp)
    OBVIOUS
<1>1. PICK n \in Nat : \E rank : RankedBelow(n, rank)
    BY DEF Tree
<1>2. PICK rank : RankedBelow(n, rank)
    BY <1>1
<1> DEFINE D == Spaces \cup {NoSpace}
           S == {k \in Nat : \E u : u = [sp \in D |-> u[sp]] /\
                    \A sp \in D : Height(rank, sp) <= k => u[sp] = UpStep(u, sp)}
<1>3. 0 \in S
  <2> DEFINE u == [sp \in D |-> <<>>]
  <2>1. \A sp \in D : Height(rank, sp) <= 0 => u[sp] = UpStep(u, sp)
      BY <1>2, Heights DEF UpStep
  <2> QED BY <2>1
<1>4. ASSUME NEW k \in Nat, k \in S PROVE k + 1 \in S
  <2>1. PICK u : \A sp \in D : Height(rank, sp) <= k => u[sp] = UpStep(u, sp)
      BY <1>4
  <2> DEFINE v == [sp \in D |-> IF Height(rank, sp) <= k THEN u[sp] ELSE UpStep(u, sp)]
  <2>2. ASSUME NEW sp \in D, Height(rank, sp) <= k + 1 PROVE v[sp] = UpStep(v, sp)
    <3>1. v[sp] = UpStep(u, sp)
        BY <2>1
    <3>2. CASE sp = NoSpace
        BY <3>1, <3>2 DEF UpStep
    <3>3. CASE sp # NoSpace
      <4>1. /\ parent[sp] \in D /\ Height(rank, parent[sp]) < Height(rank, sp)
            /\ Height(rank, parent[sp]) \in Nat /\ Height(rank, sp) \in Nat
          BY <1>2, <3>3, Heights
      <4>2. Height(rank, parent[sp]) <= k
          BY <2>2, <4>1
      <4>3. v[parent[sp]] = u[parent[sp]]
          BY <4>1, <4>2
      <4> HIDE DEF v
      <4> QED BY <3>1, <3>3, <4>3 DEF UpStep
    <3> QED BY <3>2, <3>3
  <2>3. v = [sp \in D |-> v[sp]]
      OBVIOUS
  <2>4. k + 1 \in Nat
      OBVIOUS
  <2> HIDE DEF v
  <2>5. \A sp \in D : Height(rank, sp) <= k + 1 => v[sp] = UpStep(v, sp)
      BY <2>2
  <2> QED BY Zenon, <2>3, <2>4, <2>5
<1> HIDE DEF S
<1>5. \A k \in Nat : k \in S
    BY <1>3, <1>4, NatSetInduction
<1>6. PICK u : u = [sp \in D |-> u[sp]] /\ \A sp \in D : Height(rank, sp) <= n + 1 => u[sp] = UpStep(u, sp)
  <2>1. n + 1 \in S
      BY <1>5
  <2> QED BY <2>1 DEF S
<1>7. \A sp \in D : u[sp] = UpStep(u, sp)
    BY <1>2, <1>6, Heights
<1>8. u = [sp \in D |-> UpStep(u, sp)]
    BY <1>6, <1>7
<1>9. Up = [sp \in D |-> UpStep(Up, sp)]
    BY Zenon, <1>8 DEF Up, UpStep
<1> HIDE DEF D
<1>10. \A sp \in D : Up[sp] = UpStep(Up, sp)
    BY Zenon, <1>9
<1> QED BY <1>10 DEF D

-----------------------------------------------------------------------------
(* Resolution. *)

\* What the layers hold: only a hygiene name is hidden, and an alias leads to a
\* name that users write.
Contents ==
    /\ bindings \in [Spaces -> Layer]
    /\ hidden \in [Spaces -> HiddenLayer]
    /\ \A sp \in Spaces, s \in Symbols :
          hidden[sp][s] # MISSING =>
              s \in HygieneNames /\ (hidden[sp][s].kind = "alias" => hidden[sp][s].target \in UserNames)

LEMMA Lookups ==
    ASSUME Contents, NEW sp \in Spaces, NEW s \in Symbols
    PROVE  /\ Lookup(sp, s).kind \in {"missing", "val", "alias"}
           /\ Lookup(sp, s).kind = "missing" <=> Lookup(sp, s) = MISSING
           /\ Lookup(sp, s).kind = "alias" => s \in HygieneNames /\ Lookup(sp, s).target \in UserNames
           /\ s \notin HygieneNames =>
                Lookup(sp, s) = IF bindings[sp][s] # MISSING THEN bindings[sp][s]
                                ELSE IF sp = Root /\ s \in Literals THEN Val(LiteralOf[s])
                                ELSE MISSING
<1>1. /\ bindings[sp][s] \in ValueBindings \cup {MISSING}
      /\ hidden[sp][s] \in ValueBindings \cup AliasBindings \cup {MISSING}
    BY DEF Contents, Layer, HiddenLayer
<1>2. /\ bindings[sp][s].kind \in {"missing", "val"}
      /\ bindings[sp][s].kind = "missing" <=> bindings[sp][s] = MISSING
      /\ hidden[sp][s].kind \in {"missing", "val", "alias"}
      /\ hidden[sp][s].kind = "missing" <=> hidden[sp][s] = MISSING
    BY <1>1 DEF ValueBindings, AliasBindings, Val, SymbolAlias, MISSING
<1>3. hidden[sp][s] # MISSING =>
        s \in HygieneNames /\ (hidden[sp][s].kind = "alias" => hidden[sp][s].target \in UserNames)
    BY DEF Contents
<1>4. \A v : Val(v).kind = "val" /\ MISSING.kind = "missing" /\ Val(v) # MISSING
    BY DEF Val, MISSING
<1> QED BY <1>2, <1>3, <1>4 DEF Lookup

Outer(at) == [at EXCEPT !.sp = parent[at.sp]]
Target(at) == [sp |-> at.sp, s |-> Lookup(at.sp, at.s).target, seen |-> at.seen \cup {at.s}]
WalkStep(w, at) ==
    IF at.sp = NoSpace \/ at.s \in at.seen THEN MISSING
    ELSE LET b == Lookup(at.sp, at.s)
         IN CASE b.kind = "missing" -> w[Outer(at)]
              [] b.kind = "alias"   -> w[Target(at)]
              [] OTHER              -> b

\* A walk goes down: to a lower space, or from a hygiene name to a user's.
Level(rank, at) ==
    IF at.sp = NoSpace THEN 0
    ELSE 2 * Height(rank, at.sp) + (IF at.s \in HygieneNames THEN 1 ELSE 0)

LEMMA WalkGoesDown ==
    ASSUME Tree, Contents, NEW n \in Nat, NEW rank, RankedBelow(n, rank), NEW at \in Sites
    PROVE  /\ Level(rank, at) \in Nat /\ Level(rank, at) <= 2 * n + 3
           /\ at.sp # NoSpace =>
                /\ Level(rank, at) > 0
                /\ Outer(at) \in Sites /\ Level(rank, Outer(at)) < Level(rank, at)
                /\ Lookup(at.sp, at.s).kind = "alias" =>
                     Target(at) \in Sites /\ Level(rank, Target(at)) < Level(rank, at)
<1>0. /\ at.sp \in Spaces \cup {NoSpace} /\ at.s \in Symbols /\ at.seen \in SUBSET Symbols
      /\ at = [sp |-> at.sp, s |-> at.s, seen |-> at.seen]
    BY DEF Sites
<1>1. Height(rank, at.sp) \in Nat /\ Height(rank, at.sp) <= n + 1
    BY <1>0, Heights
<1>2. Level(rank, at) \in Nat /\ Level(rank, at) <= 2 * n + 3
    BY <1>1 DEF Level
<1>3. ASSUME at.sp # NoSpace
      PROVE  /\ Level(rank, at) > 0
             /\ Outer(at) \in Sites /\ Level(rank, Outer(at)) < Level(rank, at)
  <2>1. /\ at.sp \in Spaces /\ Height(rank, at.sp) >= 1
        /\ parent[at.sp] \in Spaces \cup {NoSpace}
        /\ Height(rank, parent[at.sp]) < Height(rank, at.sp)
        /\ Height(rank, parent[at.sp]) \in Nat
      BY <1>0, <1>3, Heights
  <2>2. Outer(at) = [sp |-> parent[at.sp], s |-> at.s, seen |-> at.seen]
      BY <1>0 DEF Outer
  <2>3. Outer(at) \in Sites
      BY <1>0, <2>1, <2>2 DEF Sites
  <2> QED BY <1>1, <1>3, <2>1, <2>2, <2>3 DEF Level
<1>4. ASSUME at.sp # NoSpace, Lookup(at.sp, at.s).kind = "alias"
      PROVE  Target(at) \in Sites /\ Level(rank, Target(at)) < Level(rank, at)
  <2> DEFINE t == Lookup(at.sp, at.s).target
  <2>1. at.s \in HygieneNames /\ t \in UserNames
      BY <1>0, <1>4, Lookups
  <2>2. t \in Symbols /\ t \notin HygieneNames
      BY <2>1 DEF UserNames
  <2>3. Target(at) = [sp |-> at.sp, s |-> t, seen |-> at.seen \cup {at.s}]
      BY <1>0 DEF Target
  <2> HIDE DEF t
  <2>4. Target(at) \in Sites
      BY <1>0, <2>2, <2>3 DEF Sites
  <2> QED BY <1>1, <1>4, <2>1, <2>2, <2>3, <2>4 DEF Level
<1> QED BY <1>2, <1>3, <1>4

LEMMA WalkStepLocal ==
    ASSUME Tree, Contents, NEW n \in Nat, NEW rank, RankedBelow(n, rank), NEW at \in Sites,
           NEW v, NEW w, \A x \in Sites : Level(rank, x) < Level(rank, at) => v[x] = w[x]
    PROVE  WalkStep(v, at) = WalkStep(w, at)
<1>1. CASE at.sp = NoSpace \/ at.s \in at.seen
    BY <1>1 DEF WalkStep
<1>2. CASE ~(at.sp = NoSpace \/ at.s \in at.seen)
  <2>1. v[Outer(at)] = w[Outer(at)]
      BY <1>2, WalkGoesDown
  <2>2. Lookup(at.sp, at.s).kind = "alias" => v[Target(at)] = w[Target(at)]
      BY <1>2, WalkGoesDown
  <2> QED BY <1>2, <2>1, <2>2 DEF WalkStep
<1> QED BY <1>1, <1>2

LEMMA WalkEquation ==
    Tree /\ Contents => \A at \in Sites : Walk[at] = WalkStep(Walk, at)
<1> SUFFICES ASSUME Tree, Contents PROVE \A at \in Sites : Walk[at] = WalkStep(Walk, at)
    OBVIOUS
<1>1. PICK n \in Nat : \E rank : RankedBelow(n, rank)
    BY DEF Tree
<1>2. PICK rank : RankedBelow(n, rank)
    BY <1>1
<1> DEFINE S == {k \in Nat : \E w : w = [at \in Sites |-> w[at]] /\
                    \A at \in Sites : Level(rank, at) <= k => w[at] = WalkStep(w, at)}
<1>3. 0 \in S
  <2> DEFINE w == [at \in Sites |-> MISSING]
  <2>1. ASSUME NEW at \in Sites, Level(rank, at) <= 0 PROVE w[at] = WalkStep(w, at)
    <3>1. at.sp = NoSpace
        BY <1>2, <2>1, WalkGoesDown
    <3> QED BY <3>1 DEF WalkStep
  <2>2. w = [at \in Sites |-> w[at]]
      OBVIOUS
  <2> HIDE DEF w
  <2>3. \A at \in Sites : Level(rank, at) <= 0 => w[at] = WalkStep(w, at)
      BY <2>1
  <2> QED BY Zenon, <2>2, <2>3
<1>4. ASSUME NEW k \in Nat, k \in S PROVE k + 1 \in S
  <2>1. PICK v : \A at \in Sites : Level(rank, at) <= k => v[at] = WalkStep(v, at)
      BY <1>4
  <2> DEFINE w == [at \in Sites |-> IF Level(rank, at) <= k THEN v[at] ELSE WalkStep(v, at)]
  <2>2. ASSUME NEW at \in Sites, Level(rank, at) <= k + 1 PROVE w[at] = WalkStep(w, at)
    <3>1. w[at] = WalkStep(v, at)
        BY <2>1
    <3>2. ASSUME NEW x \in Sites, Level(rank, x) < Level(rank, at) PROVE v[x] = w[x]
      <4>1. Level(rank, x) \in Nat /\ Level(rank, at) \in Nat
          BY <1>2, WalkGoesDown
      <4>2. Level(rank, x) <= k
          BY <2>2, <3>2, <4>1
      <4> QED BY <4>2
    <3> HIDE DEF w
    <3>3. WalkStep(v, at) = WalkStep(w, at)
        BY <1>2, <3>2, WalkStepLocal
    <3> QED BY <3>1, <3>3
  <2>3. w = [at \in Sites |-> w[at]]
      OBVIOUS
  <2>4. k + 1 \in Nat
      OBVIOUS
  <2> HIDE DEF w
  <2>5. \A at \in Sites : Level(rank, at) <= k + 1 => w[at] = WalkStep(w, at)
      BY <2>2
  <2> QED BY Zenon, <2>3, <2>4, <2>5
<1> HIDE DEF S
<1>5. \A k \in Nat : k \in S
    BY <1>3, <1>4, NatSetInduction
<1>6. PICK w : w = [at \in Sites |-> w[at]]
               /\ \A at \in Sites : Level(rank, at) <= 2 * n + 3 => w[at] = WalkStep(w, at)
  <2>1. 2 * n + 3 \in S
      BY <1>5
  <2> QED BY <2>1 DEF S
<1>7. \A at \in Sites : w[at] = WalkStep(w, at)
    BY <1>2, <1>6, WalkGoesDown
<1>8. w = [at \in Sites |-> WalkStep(w, at)]
    BY <1>6, <1>7
<1>9. Walk = [at \in Sites |-> WalkStep(Walk, at)]
    BY Zenon, <1>8 DEF Walk, WalkStep, Sites, Outer, Target
<1> QED BY Zenon, <1>9

-----------------------------------------------------------------------------
(* Chains. *)

LEMMA ChainCons ==
    ASSUME Tree, NEW sp \in Spaces
    PROVE  /\ parent[sp] = NoSpace => Chain(sp) = <<sp>>
           /\ parent[sp] # NoSpace /\ Chain(parent[sp]) \in Seq(Spaces) =>
                /\ Chain(sp) \in Seq(Spaces) /\ Chain(sp)[1] = sp
                /\ Len(Chain(sp)) = Len(Chain(parent[sp])) + 1
                /\ \A i \in 1..Len(Chain(parent[sp])) : Chain(sp)[i + 1] = Chain(parent[sp])[i]
<1>1. parent[sp] \in Spaces \cup {NoSpace} /\ sp # NoSpace /\ <<sp>> \in Seq(Spaces)
    BY SpacesAssumption DEF Tree
<1>2. Chain(sp) = <<sp>> \o Chain(parent[sp])
    BY <1>1, UpEquation DEF UpStep, Chain
<1>3. CASE parent[sp] = NoSpace
  <2>1. Chain(parent[sp]) = <<>>
      BY <1>3, UpEquation DEF UpStep, Chain
  <2>2. <<sp>> \o <<>> = <<sp>>
      BY <1>1, ConcatEmptySeq
  <2> QED BY <1>2, <1>3, <2>1, <2>2
<1>4. ASSUME parent[sp] # NoSpace, Chain(parent[sp]) \in Seq(Spaces)
      PROVE  /\ Chain(sp) \in Seq(Spaces) /\ Chain(sp)[1] = sp
             /\ Len(Chain(sp)) = Len(Chain(parent[sp])) + 1
             /\ \A i \in 1..Len(Chain(parent[sp])) : Chain(sp)[i + 1] = Chain(parent[sp])[i]
  <2> DEFINE c == Chain(parent[sp])
             t == <<sp>> \o c
  <2>1. c \in Seq(Spaces) /\ Len(c) \in Nat /\ Len(<<sp>>) = 1 /\ <<sp>>[1] = sp
      BY <1>4
  <2> HIDE DEF c
  <2>2. /\ t \in Seq(Spaces) /\ Len(t) = Len(<<sp>>) + Len(c)
        /\ \A i \in 1..(Len(<<sp>>) + Len(c)) :
              t[i] = IF i <= Len(<<sp>>) THEN <<sp>>[i] ELSE c[i - Len(<<sp>>)]
      BY <1>1, <2>1, ConcatProperties
  <2> HIDE DEF t
  <2>3. t[1] = sp /\ Len(t) = Len(c) + 1
      BY <2>1, <2>2
  <2>4. \A i \in 1..Len(c) : t[i + 1] = c[i]
    <3> SUFFICES ASSUME NEW i \in 1..Len(c) PROVE t[i + 1] = c[i]
        OBVIOUS
    <3>1. i + 1 \in 1..(1 + Len(c)) /\ ~(i + 1 <= 1) /\ (i + 1) - 1 = i
        BY <2>1
    <3> QED BY <2>1, <2>2, <3>1
  <2> QED BY <1>2, <2>2, <2>3, <2>4 DEF c, t
<1> QED BY <1>3, <1>4

\* From a space to its parent, up to a space without one.
Path(sp) ==
    LET c == Chain(sp)
    IN /\ c \in Seq(Spaces) /\ Len(c) \in Nat /\ Len(c) >= 1 /\ c[1] = sp
       /\ \A i \in 1..(Len(c) - 1) : parent[c[i]] = c[i + 1]
       /\ parent[c[Len(c)]] = NoSpace
       /\ sp \in live => \A i \in 1..Len(c) : c[i] \in live

LEMMA ChainIsPath == Tree => \A sp \in Spaces : Path(sp)
<1> SUFFICES ASSUME Tree PROVE \A sp \in Spaces : Path(sp)
    OBVIOUS
<1> DEFINE Q == {sp \in Spaces : Path(sp)}
<1>1. ASSUME NEW sp \in Spaces, parent[sp] = NoSpace PROVE Path(sp)
  <2>1. Chain(sp) = <<sp>>
      BY <1>1, ChainCons
  <2>2. Chain(sp) \in Seq(Spaces) /\ Len(Chain(sp)) = 1 /\ Chain(sp)[1] = sp
      BY <2>1
  <2> QED BY <1>1, <2>2 DEF Path
<1>2. ASSUME NEW sp \in Spaces, parent[sp] # NoSpace, Path(parent[sp]) PROVE Path(sp)
  <2> DEFINE c == Chain(sp)
             d == Chain(parent[sp])
  <2>1. /\ d \in Seq(Spaces) /\ Len(d) \in Nat /\ Len(d) >= 1 /\ d[1] = parent[sp]
        /\ \A i \in 1..(Len(d) - 1) : parent[d[i]] = d[i + 1]
        /\ parent[d[Len(d)]] = NoSpace
        /\ parent[sp] \in live => \A i \in 1..Len(d) : d[i] \in live
      BY <1>2 DEF Path
  <2>2. /\ c \in Seq(Spaces) /\ c[1] = sp /\ Len(c) = Len(d) + 1
        /\ \A i \in 1..Len(d) : c[i + 1] = d[i]
      BY <1>2, <2>1, ChainCons
  <2> HIDE DEF c, d
  <2>3. \A i \in 2..Len(c) : i - 1 \in 1..Len(d) /\ (i - 1) + 1 = i
      BY <2>1, <2>2
  <2>4. \A i \in 2..Len(c) : c[i] = d[i - 1]
      BY Zenon, <2>2, <2>3
  <2>5. ASSUME NEW i \in 1..(Len(c) - 1) PROVE parent[c[i]] = c[i + 1]
    <3>1. CASE i = 1
      <4>1. 2 \in 2..Len(c) /\ 2 - 1 = 1 /\ i + 1 = 2
          BY <2>1, <2>2, <3>1
      <4> QED BY <2>1, <2>2, <2>4, <3>1, <4>1
    <3>2. CASE i # 1
      <4>1. /\ i \in 2..Len(c) /\ i + 1 \in 2..Len(c) /\ (i + 1) - 1 = i /\ (i - 1) + 1 = i
            /\ i - 1 \in 1..(Len(d) - 1)
          BY <2>1, <2>2, <2>5, <3>2
      <4>2. c[i] = d[i - 1] /\ c[i + 1] = d[i]
          BY <2>4, <4>1
      <4>3. parent[d[i - 1]] = d[(i - 1) + 1]
          BY <2>1, <4>1
      <4> QED BY <4>1, <4>2, <4>3
    <3> QED BY <3>1, <3>2
  <2>6. parent[c[Len(c)]] = NoSpace
    <3>1. Len(c) \in 2..Len(c) /\ Len(c) - 1 = Len(d)
        BY <2>1, <2>2
    <3> QED BY <2>1, <2>4, <3>1
  <2>7. sp \in live /\ parent[sp] \in live
      BY <1>2 DEF Tree
  <2>8. \A i \in 1..Len(c) : c[i] \in live
    <3> SUFFICES ASSUME NEW i \in 1..Len(c), i # 1 PROVE c[i] \in live
        BY <2>2, <2>7
    <3>1. i \in 2..Len(c)
        BY <2>1, <2>2
    <3> QED BY <2>1, <2>3, <2>4, <2>7, <3>1
  <2>9. Len(c) \in Nat /\ Len(c) >= 1
      BY <2>1, <2>2
  <2> QED BY <2>2, <2>5, <2>6, <2>8, <2>9 DEF Path, c
<1>3. \A sp \in Spaces : parent[sp] = NoSpace \/ parent[sp] \in Q => sp \in Q
    BY <1>1, <1>2, SpacesAssumption
<1> HIDE DEF Q
<1>4. \A sp \in Spaces : sp \in Q
    BY <1>3, ChainInduction
<1> QED BY <1>4 DEF Q

\* The root is the last layer of every chain that begins at a space in use, and
\* of no chain an inner one.
LEMMA RootIsLast ==
    ASSUME Tree, NEW sp \in Spaces, NEW i \in DOMAIN Chain(sp)
    PROVE  /\ Chain(sp)[i] = Root => i = Len(Chain(sp))
           /\ sp \in live => Chain(sp)[Len(Chain(sp))] = Root
<1> DEFINE c == Chain(sp)
<1>1. /\ c \in Seq(Spaces) /\ Len(c) \in Nat /\ Len(c) >= 1
      /\ \A k \in 1..(Len(c) - 1) : parent[c[k]] = c[k + 1]
      /\ parent[c[Len(c)]] = NoSpace
      /\ sp \in live => \A k \in 1..Len(c) : c[k] \in live
    BY ChainIsPath DEF Path
<1> HIDE DEF c
<1>2. i \in 1..Len(c)
    BY <1>1 DEF c
<1>3. ASSUME c[i] = Root PROVE i = Len(c)
  <2> SUFFICES ASSUME i # Len(c) PROVE FALSE
      OBVIOUS
  <2>1. i \in 1..(Len(c) - 1) /\ i + 1 \in 1..Len(c)
      BY <1>1, <1>2
  <2>2. c[i + 1] = NoSpace
      BY <1>1, <1>3, <2>1 DEF Tree
  <2>3. c[i + 1] \in Spaces
      BY <1>1, <2>1, ElementOfSeq
  <2> QED BY <2>2, <2>3, SpacesAssumption
<1>4. sp \in live => c[Len(c)] = Root
    BY <1>1 DEF Tree
<1> QED BY <1>3, <1>4 DEF c

-----------------------------------------------------------------------------
(* What a name means: a walk climbs to the first layer that holds it. *)

Site(sp, s, seen) == [sp |-> sp, s |-> s, seen |-> seen]

\* Layer i of the chain of sp is the first that holds s.
FirstHolder(sp, s, i) ==
    /\ i \in DOMAIN Chain(sp) /\ Lookup(Chain(sp)[i], s) # MISSING
    /\ \A j \in DOMAIN Chain(sp) : Lookup(Chain(sp)[j], s) # MISSING => i =< j

Climbs(sp, s, seen) ==
    \/ /\ \A i \in DOMAIN Chain(sp) : Lookup(Chain(sp)[i], s) = MISSING
       /\ Walk[Site(sp, s, seen)] = MISSING
    \/ \E i \in DOMAIN Chain(sp) :
          FirstHolder(sp, s, i) /\ Walk[Site(sp, s, seen)] = Walk[Site(Chain(sp)[i], s, seen)]

LEMMA SiteWalk ==
    ASSUME Tree, Contents, NEW sp \in Spaces, NEW s \in Symbols, NEW seen \in SUBSET Symbols, s \notin seen
    PROVE  /\ Lookup(sp, s) = MISSING /\ parent[sp] = NoSpace => Walk[Site(sp, s, seen)] = MISSING
           /\ Lookup(sp, s) = MISSING /\ parent[sp] # NoSpace =>
                Walk[Site(sp, s, seen)] = Walk[Site(parent[sp], s, seen)]
           /\ Lookup(sp, s).kind = "alias" =>
                Walk[Site(sp, s, seen)] = Walk[Site(sp, Lookup(sp, s).target, seen \cup {s})]
           /\ Lookup(sp, s).kind = "val" => Walk[Site(sp, s, seen)] = Lookup(sp, s)
<1> DEFINE at == Site(sp, s, seen)
<1>1. /\ at \in Sites /\ at.sp = sp /\ at.s = s /\ at.seen = seen /\ sp # NoSpace
      /\ parent[sp] \in Spaces \cup {NoSpace}
    BY SpacesAssumption DEF Site, Sites, Tree
<1>2. Outer(at) = Site(parent[sp], s, seen) /\ Outer(at) \in Sites
    BY <1>1 DEF Outer, Site, Sites
<1>3. Target(at) = Site(sp, Lookup(sp, s).target, seen \cup {s})
    BY <1>1 DEF Target, Site
<1>4. Walk[at] = WalkStep(Walk, at)
    BY <1>1, WalkEquation
<1>5. Lookup(sp, s).kind = "missing" <=> Lookup(sp, s) = MISSING
    BY Lookups
<1> HIDE DEF at
<1>6. CASE Lookup(sp, s) = MISSING
  <2>1. Walk[at] = Walk[Outer(at)]
      BY <1>1, <1>4, <1>5, <1>6 DEF WalkStep
  <2>2. parent[sp] = NoSpace => Walk[Outer(at)] = MISSING
    <3> SUFFICES ASSUME parent[sp] = NoSpace PROVE Walk[Outer(at)] = MISSING
        OBVIOUS
    <3>1. Walk[Outer(at)] = WalkStep(Walk, Outer(at)) /\ Outer(at).sp = NoSpace
        BY <1>2, WalkEquation DEF Site
    <3> QED BY <3>1 DEF WalkStep
  <2> QED BY <1>2, <1>5, <1>6, <2>1, <2>2 DEF at
<1>7. CASE Lookup(sp, s).kind = "alias"
  <2>1. Walk[at] = Walk[Target(at)]
      BY <1>1, <1>4, <1>7 DEF WalkStep
  <2> QED BY <1>3, <1>5, <1>7, <2>1 DEF at
<1>8. CASE Lookup(sp, s).kind = "val"
  <2>1. Walk[at] = Lookup(sp, s)
      BY <1>1, <1>4, <1>8 DEF WalkStep
  <2> QED BY <1>5, <1>8, <2>1 DEF at
<1> QED BY <1>6, <1>7, <1>8

LEMMA WalksClimb ==
    ASSUME Tree, Contents, NEW s \in Symbols, NEW seen \in SUBSET Symbols, s \notin seen
    PROVE  \A sp \in Spaces : Climbs(sp, s, seen)
<1> DEFINE Q == {sp \in Spaces : Climbs(sp, s, seen)}
<1>1. ASSUME NEW sp \in Spaces, parent[sp] = NoSpace \/ Climbs(parent[sp], s, seen)
      PROVE  Climbs(sp, s, seen)
  <2> DEFINE c == Chain(sp)
  <2>1. c \in Seq(Spaces) /\ Len(c) \in Nat /\ Len(c) >= 1 /\ c[1] = sp /\ DOMAIN c = 1..Len(c)
    <3>1. Path(sp)
        BY ChainIsPath
    <3> QED BY <3>1 DEF Path
  <2> HIDE DEF c
  <2>2. CASE Lookup(sp, s) # MISSING
    <3>1. FirstHolder(sp, s, 1)
        BY <2>1, <2>2 DEF FirstHolder, c
    <3> QED BY <2>1, <3>1 DEF Climbs, FirstHolder, c
  <2>3. CASE Lookup(sp, s) = MISSING /\ parent[sp] = NoSpace
    <3>1. c = <<sp>>
        BY <2>3, ChainCons DEF c
    <3>2. \A i \in DOMAIN c : c[i] = sp
        BY <3>1
    <3> QED BY <2>3, <3>2, SiteWalk DEF Climbs, c
  <2>4. CASE Lookup(sp, s) = MISSING /\ parent[sp] # NoSpace
    <3> DEFINE d == Chain(parent[sp])
    <3>1. d \in Seq(Spaces) /\ Len(d) \in Nat /\ DOMAIN d = 1..Len(d)
      <4>1. Path(parent[sp])
          BY <2>4, ChainIsPath DEF Tree
      <4> QED BY <4>1 DEF Path
    <3>2. Len(c) = Len(d) + 1 /\ \A i \in 1..Len(d) : c[i + 1] = d[i]
        BY <2>4, <3>1, ChainCons DEF c
    <3>3. Walk[Site(sp, s, seen)] = Walk[Site(parent[sp], s, seen)]
        BY <2>4, SiteWalk
    <3> HIDE DEF d
    <3>4. \A j \in DOMAIN c : j = 1 \/ (j - 1 \in DOMAIN d /\ c[j] = d[j - 1])
      <4> SUFFICES ASSUME NEW j \in DOMAIN c, j # 1 PROVE j - 1 \in DOMAIN d /\ c[j] = d[j - 1]
          OBVIOUS
      <4>1. j - 1 \in 1..Len(d) /\ (j - 1) + 1 = j
          BY <2>1, <3>1, <3>2
      <4>2. c[(j - 1) + 1] = d[j - 1]
          BY Zenon, <3>2, <4>1
      <4> QED BY <3>1, <4>1, <4>2
    <3>5. CASE /\ \A i \in DOMAIN d : Lookup(d[i], s) = MISSING
               /\ Walk[Site(parent[sp], s, seen)] = MISSING
      <4>1. \A j \in DOMAIN c : Lookup(c[j], s) = MISSING
          BY <2>1, <2>4, <3>4, <3>5
      <4> QED BY <3>3, <3>5, <4>1 DEF Climbs, c
    <3>6. CASE \E i \in DOMAIN d :
                  FirstHolder(parent[sp], s, i)
                  /\ Walk[Site(parent[sp], s, seen)] = Walk[Site(d[i], s, seen)]
      <4>1. PICK i \in DOMAIN d : FirstHolder(parent[sp], s, i)
                                  /\ Walk[Site(parent[sp], s, seen)] = Walk[Site(d[i], s, seen)]
          BY <3>6
      <4>2. i + 1 \in DOMAIN c /\ c[i + 1] = d[i]
          BY <2>1, <3>1, <3>2
      <4>3. ASSUME NEW j \in DOMAIN c, Lookup(c[j], s) # MISSING PROVE i + 1 =< j
        <5>1. j - 1 \in DOMAIN d /\ c[j] = d[j - 1]
            BY <2>1, <2>4, <3>4, <4>3
        <5>2. i =< j - 1
            BY <4>1, <4>3, <5>1 DEF FirstHolder, d
        <5> QED BY <2>1, <3>1, <5>2
      <4>4. FirstHolder(sp, s, i + 1)
          BY <4>1, <4>2, <4>3 DEF FirstHolder, c, d
      <4> QED BY <3>3, <4>1, <4>2, <4>4 DEF Climbs, c
    <3> QED BY <1>1, <2>4, <3>5, <3>6 DEF Climbs, d
  <2> QED BY <2>2, <2>3, <2>4
<1>2. \A sp \in Spaces : parent[sp] = NoSpace \/ parent[sp] \in Q => sp \in Q
    BY <1>1
<1> HIDE DEF Q
<1>3. \A sp \in Spaces : sp \in Q
    BY <1>2, ChainInduction
<1> QED BY <1>3 DEF Q

\* The first holder is the one a CHOOSE of the least finds.
LEMMA FirstHolderIsLeast ==
    ASSUME Tree, NEW sp \in Spaces, NEW i, NEW H \in SUBSET DOMAIN Chain(sp), i \in H,
           \A j \in H : i =< j
    PROVE  (CHOOSE k \in H : \A j \in H : k =< j) = i
<1>1. Path(sp)
    BY ChainIsPath
<1>2. H \in SUBSET Nat
    BY <1>1 DEF Path
<1> DEFINE k == CHOOSE k \in H : \A j \in H : k =< j
<1>3. k \in H /\ \A j \in H : k =< j
    BY Zenon
<1> HIDE DEF k
<1>4. k =< i /\ i =< k /\ k \in Nat /\ i \in Nat
    BY <1>2, <1>3
<1>5. k = i
    BY <1>4
<1> QED BY <1>5 DEF k

LEMMA NearestOnChain ==
    ASSUME Tree, Contents, live \subseteq Spaces, NEW use \in live, NEW s \in UserNames \cup Literals
    PROVE  LET chain == Chain(use)
               holds == {i \in DOMAIN chain : bindings[chain[i]][s] # MISSING}
           IN Resolve(use, s) =
                IF holds # {}
                THEN bindings[chain[CHOOSE i \in holds : \A j \in holds : i =< j]][s]
                ELSE IF s \in Literals THEN Val(LiteralOf[s]) ELSE MISSING
<1> DEFINE chain == Chain(use)
           holds == {i \in DOMAIN chain : bindings[chain[i]][s] # MISSING}
<1>1. s \in Symbols /\ s \notin HygieneNames /\ use \in Spaces
    BY NamesAssumption DEF UserNames
<1>2. chain \in Seq(Spaces) /\ Len(chain) \in Nat /\ Len(chain) >= 1 /\ DOMAIN chain = 1..Len(chain)
  <2>1. Path(use)
      BY <1>1, ChainIsPath
  <2> QED BY <2>1 DEF Path
<1>3. Climbs(use, s, {})
    BY <1>1, WalksClimb
<1>4. Resolve(use, s) = Walk[Site(use, s, {})]
    BY DEF Resolve, Site
<1>5. \A i \in DOMAIN chain : chain[i] \in Spaces
    BY <1>2, ElementOfSeq
<1>6. \A i \in DOMAIN chain :
        /\ Lookup(chain[i], s) = IF bindings[chain[i]][s] # MISSING THEN bindings[chain[i]][s]
                                 ELSE IF chain[i] = Root /\ s \in Literals THEN Val(LiteralOf[s])
                                 ELSE MISSING
        /\ Lookup(chain[i], s) # MISSING => Walk[Site(chain[i], s, {})] = Lookup(chain[i], s)
  <2> SUFFICES ASSUME NEW i \in DOMAIN chain
               PROVE  /\ Lookup(chain[i], s) =
                            IF bindings[chain[i]][s] # MISSING THEN bindings[chain[i]][s]
                            ELSE IF chain[i] = Root /\ s \in Literals THEN Val(LiteralOf[s])
                            ELSE MISSING
                      /\ Lookup(chain[i], s) # MISSING => Walk[Site(chain[i], s, {})] = Lookup(chain[i], s)
      OBVIOUS
  <2> DEFINE sp == chain[i]
  <2>1. sp \in Spaces
      BY <1>5
  <2> HIDE DEF sp
  <2>2. /\ Lookup(sp, s) = IF bindings[sp][s] # MISSING THEN bindings[sp][s]
                           ELSE IF sp = Root /\ s \in Literals THEN Val(LiteralOf[s]) ELSE MISSING
        /\ Lookup(sp, s) # MISSING => Lookup(sp, s).kind = "val"
      BY <1>1, <2>1, Lookups
  <2>3. Lookup(sp, s).kind = "val" => Walk[Site(sp, s, {})] = Lookup(sp, s)
      BY <1>1, <2>1, SiteWalk
  <2> QED BY <2>2, <2>3 DEF sp
<1>7. \A i \in DOMAIN chain : chain[i] = Root => i = Len(chain)
    BY <1>1, RootIsLast
<1>8. Len(chain) \in DOMAIN chain /\ chain[Len(chain)] = Root
  <2>1. Len(chain) \in DOMAIN chain
      BY <1>2
  <2> QED BY <1>1, <2>1, RootIsLast
<1>9. \A v : Val(v) # MISSING
    BY DEF Val, MISSING
<1>10. CASE holds # {}
  <2>1. holds \in SUBSET Nat /\ holds \in SUBSET DOMAIN chain
      BY <1>2
  <2>2. PICK i \in holds : \A j \in holds : i <= j
      BY <1>10, <2>1, LeastNat
  <2>3. (CHOOSE k \in holds : \A j \in holds : k =< j) = i
      BY <1>1, <2>1, <2>2, FirstHolderIsLeast
  <2>4. Lookup(chain[i], s) # MISSING
      BY <1>6, <2>2
  <2>5. PICK k \in DOMAIN chain : FirstHolder(use, s, k)
                                  /\ Walk[Site(use, s, {})] = Walk[Site(chain[k], s, {})]
      BY <1>3, <2>1, <2>4 DEF Climbs
  <2>6. Lookup(chain[k], s) # MISSING /\ k <= i
      BY <2>1, <2>4, <2>5 DEF FirstHolder
  <2>7. k = i
    <3>1. k \in Nat /\ i \in Nat /\ i <= Len(chain)
        BY <1>2, <2>1
    <3>2. CASE k \in holds
        BY <2>2, <2>6, <3>1, <3>2
    <3>3. CASE k \notin holds
      <4>1. k = Len(chain)
          BY <1>6, <1>7, <2>6, <3>3
      <4> QED BY <2>6, <3>1, <4>1
    <3> QED BY <3>2, <3>3
  <2>8. Walk[Site(chain[i], s, {})] = bindings[chain[i]][s]
      BY <1>6, <2>2, <2>4
  <2>9. Resolve(use, s) = bindings[chain[i]][s]
      BY <1>4, <2>5, <2>7, <2>8
  <2> HIDE DEF holds
  <2> QED BY Zenon, <1>10, <2>3, <2>9 DEF holds
<1>11. CASE holds = {}
  <2>1. \A i \in DOMAIN chain : bindings[chain[i]][s] = MISSING
      BY <1>11
  <2>2. CASE s \in Literals
    <3>1. Lookup(chain[Len(chain)], s) # MISSING
        BY <1>6, <1>8, <1>9, <2>1, <2>2
    <3>2. PICK k \in DOMAIN chain : FirstHolder(use, s, k)
                                    /\ Walk[Site(use, s, {})] = Walk[Site(chain[k], s, {})]
        BY <1>3, <1>8, <3>1 DEF Climbs
    <3>3. Lookup(chain[k], s) # MISSING
        BY <3>2 DEF FirstHolder
    <3>4. Walk[Site(chain[k], s, {})] = Val(LiteralOf[s])
        BY <1>6, <2>1, <3>3
    <3> HIDE DEF holds, chain
    <3> QED BY <1>4, <1>11, <2>2, <3>2, <3>4 DEF holds, chain
  <2>3. CASE s \notin Literals
    <3>1. \A i \in DOMAIN chain : Lookup(chain[i], s) = MISSING
        BY <1>6, <2>1, <2>3
    <3>2. Walk[Site(use, s, {})] = MISSING
        BY <1>3, <3>1 DEF Climbs, FirstHolder
    <3> HIDE DEF holds, chain
    <3> QED BY <1>4, <1>11, <2>3, <3>2 DEF holds, chain
  <2> QED BY <2>2, <2>3
<1> QED BY <1>10, <1>11

LEMMA AliasOnChain ==
    ASSUME Tree, Contents, live \subseteq Spaces PROVE HygieneNoCapture
<1> SUFFICES ASSUME NEW use \in live, NEW s \in HygieneNames
             PROVE  LET chain == Chain(use)
                        holds == {i \in DOMAIN chain : Lookup(chain[i], s) # MISSING}
                    IN holds # {} =>
                         LET i == CHOOSE i \in holds : \A j \in holds : i =< j
                             b == Lookup(chain[i], s)
                         IN b.kind = "alias" => Resolve(use, s) = Resolve(chain[i], b.target)
    BY DEF HygieneNoCapture
<1> DEFINE chain == Chain(use)
           holds == {i \in DOMAIN chain : Lookup(chain[i], s) # MISSING}
<1>1. s \in Symbols /\ use \in Spaces
    BY NamesAssumption
<1>2. chain \in Seq(Spaces) /\ Len(chain) \in Nat /\ DOMAIN chain = 1..Len(chain)
  <2>1. Path(use)
      BY <1>1, ChainIsPath
  <2> QED BY <2>1 DEF Path
<1> SUFFICES ASSUME holds # {}
             PROVE  LET i == CHOOSE i \in holds : \A j \in holds : i =< j
                        b == Lookup(chain[i], s)
                    IN b.kind = "alias" => Resolve(use, s) = Resolve(chain[i], b.target)
    OBVIOUS
<1>3. holds \in SUBSET DOMAIN chain
    OBVIOUS
<1>4. Climbs(use, s, {})
    BY <1>1, WalksClimb
<1>5. PICK i \in DOMAIN chain : FirstHolder(use, s, i)
                                /\ Walk[Site(use, s, {})] = Walk[Site(chain[i], s, {})]
    BY <1>4 DEF Climbs
<1>6. i \in holds /\ \A j \in holds : i =< j
    BY <1>5 DEF FirstHolder
<1>7. (CHOOSE k \in holds : \A j \in holds : k =< j) = i
    BY <1>1, <1>3, <1>6, FirstHolderIsLeast
<1>8. ASSUME Lookup(chain[i], s).kind = "alias"
      PROVE  Resolve(use, s) = Resolve(chain[i], Lookup(chain[i], s).target)
  <2> DEFINE sp == chain[i]
             t == Lookup(sp, s).target
  <2>1. sp \in Spaces
      BY <1>2, ElementOfSeq
  <2>2. t \in UserNames /\ t \in Symbols /\ t \notin HygieneNames
      BY <1>1, <1>8, <2>1, Lookups DEF UserNames
  <2>3. Walk[Site(sp, s, {})] = Walk[Site(sp, t, {s})]
    <3> HIDE DEF sp
    <3> QED BY <1>1, <1>8, <2>1, SiteWalk DEF sp
  <2> HIDE DEF t
  <2>4. Walk[Site(sp, t, {s})] = Walk[Site(sp, t, {})]
    <3> HIDE DEF sp
    <3>1. t \notin {s} /\ t \notin {}
        BY <2>2
    <3>2. Climbs(sp, t, {s}) /\ Climbs(sp, t, {})
        BY <1>1, <2>1, <2>2, <3>1, WalksClimb
    <3>3. CASE \A k \in DOMAIN Chain(sp) : Lookup(Chain(sp)[k], t) = MISSING
        BY <3>2, <3>3 DEF Climbs, FirstHolder
    <3>4. CASE ~ \A k \in DOMAIN Chain(sp) : Lookup(Chain(sp)[k], t) = MISSING
      <4>1. PICK k \in DOMAIN Chain(sp) :
              FirstHolder(sp, t, k) /\ Walk[Site(sp, t, {s})] = Walk[Site(Chain(sp)[k], t, {s})]
          BY <3>2, <3>4 DEF Climbs
      <4>2. PICK l \in DOMAIN Chain(sp) :
              FirstHolder(sp, t, l) /\ Walk[Site(sp, t, {})] = Walk[Site(Chain(sp)[l], t, {})]
          BY <3>2, <3>4 DEF Climbs
      <4>3. k = l
        <5>1. k \in Nat /\ l \in Nat
          <6>1. Path(sp)
              BY <2>1, ChainIsPath
          <6> QED BY <4>1, <4>2, <6>1 DEF Path
        <5>2. k <= l /\ l <= k
            BY <4>1, <4>2 DEF FirstHolder
        <5> QED BY <5>1, <5>2
      <4> DEFINE q == Chain(sp)[k]
      <4>4. q \in Spaces /\ Lookup(q, t) # MISSING
        <5>1. Path(sp)
            BY <2>1, ChainIsPath
        <5>2. q \in Spaces
            BY <5>1, ElementOfSeq DEF Path
        <5> QED BY <4>1, <5>2 DEF FirstHolder
      <4> HIDE DEF q
      <4>5. Lookup(q, t).kind = "val"
          BY <2>2, <4>4, Lookups
      <4>6. Walk[Site(q, t, {s})] = Lookup(q, t) /\ Walk[Site(q, t, {})] = Lookup(q, t)
        <5>1. {s} \in SUBSET Symbols /\ {} \in SUBSET Symbols
            BY <1>1
        <5>2. \A seen \in SUBSET Symbols : t \notin seen => Walk[Site(q, t, seen)] = Lookup(q, t)
            BY <2>2, <4>4, <4>5, SiteWalk
        <5> QED BY <3>1, <5>1, <5>2
      <4> QED BY <4>1, <4>2, <4>3, <4>6 DEF q
    <3> QED BY <3>3, <3>4
  <2> QED BY <1>5, <2>3, <2>4 DEF Resolve, Site, t
<1> HIDE DEF holds, chain
<1> QED BY Zenon, <1>7, <1>8

-----------------------------------------------------------------------------
(* The inductive invariant, and the three kinds of steps. *)

IInv ==
    /\ live \subseteq Spaces /\ Root \in live
    /\ Tree /\ Contents
    /\ last \in [op : Ops, space : Spaces, ok : BOOLEAN]

\* What a method may make of a layer.
AllowedWrite(op, layer, r) ==
    /\ op \in Ops /\ r.ok \in BOOLEAN /\ r.layer \in Layer
    /\ KeepsBound(layer, r.layer)
    /\ op \notin {"define", "fold!"} => Keeps(layer, r.layer)
    /\ op \in {"define_once", "fold", "fold!", "unfold"} /\ ~r.ok => r.layer = layer
LayerWrite(sp) == \E op \in Ops : \E r : AllowedWrite(op, bindings[sp], r) /\ Write(op, sp, r)
HiddenWrite == \E sp \in live, s \in HygieneNames :
                  \/ \E t \in UserNames : define_hidden(sp, s, SymbolAlias(t))
                  \/ \E v \in Values : define_hidden(sp, s, Val(v))
NewChild == \E p \in live, c \in Spaces : child(p, c)

LEMMA RootOfChain == IInv => \A sp \in live : Chain(sp)[Len(Chain(sp))] = Root
<1> SUFFICES ASSUME IInv, NEW sp \in live PROVE Chain(sp)[Len(Chain(sp))] = Root
    OBVIOUS
<1>1. sp \in Spaces /\ Path(sp)
    BY ChainIsPath DEF IInv
<1>2. Len(Chain(sp)) \in DOMAIN Chain(sp)
    BY <1>1 DEF Path
<1> QED BY <1>1, <1>2, RootIsLast DEF IInv

LEMMA ValBinding == \A v \in Values : Val(v) \in ValueBindings /\ Val(v) # MISSING
BY DEF ValueBindings, Val, MISSING

LEMMA Kinds == IInv /\ Next => NewChild \/ HiddenWrite \/ \E sp \in live : LayerWrite(sp)
<1> SUFFICES ASSUME IInv, Next PROVE NewChild \/ HiddenWrite \/ \E sp \in live : LayerWrite(sp)
    OBVIOUS
<1>0. \A sp \in live : sp \in Spaces /\ bindings[sp] \in Layer
    BY DEF IInv, Contents
<1>1. ASSUME NEW sp \in live, NEW s \in UserNames, NEW v \in Values, define(sp, s, v)
      PROVE  LayerWrite(sp)
  <2> DEFINE r == Define(bindings[sp], s, Val(v))
  <2>1. r.ok = TRUE /\ r.layer = [bindings[sp] EXCEPT ![s] = Val(v)]
      BY DEF Define, Done
  <2>2. r.layer \in Layer /\ KeepsBound(bindings[sp], r.layer)
      BY <1>0, <2>1, ValBinding DEF Layer, KeepsBound
  <2>3. AllowedWrite("define", bindings[sp], r)
      BY <2>1, <2>2 DEF AllowedWrite, Ops
  <2>4. Write("define", sp, r) /\ "define" \in Ops
      BY <1>1 DEF define, Ops
  <2> HIDE DEF r
  <2> QED BY <2>3, <2>4 DEF LayerWrite
<1>2. ASSUME NEW sp \in live, NEW s \in UserNames, NEW v \in Values, define_once(sp, s, v)
      PROVE  LayerWrite(sp)
  <2> DEFINE r == DefineOnce(bindings[sp], s, Val(v))
  <2>1. CASE bindings[sp][s] # MISSING
    <3>1. r.ok = FALSE /\ r.layer = bindings[sp]
        BY <2>1 DEF DefineOnce, Raised
    <3> HIDE DEF r
    <3>2. AllowedWrite("define_once", bindings[sp], r)
        BY <1>0, <3>1 DEF AllowedWrite, Ops, Keeps, KeepsBound
    <3> QED BY <1>2, <3>2 DEF LayerWrite, define_once, AllowedWrite, r
  <2>2. CASE bindings[sp][s] = MISSING
    <3>1. r.ok = TRUE /\ r.layer = [bindings[sp] EXCEPT ![s] = Val(v)]
        BY <2>2 DEF DefineOnce, Define, Done
    <3> HIDE DEF r
    <3>2. /\ r.layer \in Layer
          /\ \A z \in Symbols : r.layer[z] = IF z = s THEN Val(v) ELSE bindings[sp][z]
        BY <1>0, <3>1, ValBinding DEF Layer
    <3>4. KeepsBound(bindings[sp], r.layer) /\ Keeps(bindings[sp], r.layer)
        BY <2>2, <3>2, ValBinding DEF KeepsBound, Keeps
    <3>3. AllowedWrite("define_once", bindings[sp], r)
        BY <3>1, <3>2, <3>4 DEF AllowedWrite, Ops
    <3> QED BY <1>2, <3>3 DEF LayerWrite, define_once, AllowedWrite, r
  <2> QED BY <2>1, <2>2
<1>3. ASSUME NEW sp \in live, NEW m \in Modules, NEW names \in NameLists, NEW a \in Aliases,
             fold_import(sp, m, names, a)
      PROVE  LayerWrite(sp)
  <2> DEFINE r == FoldImport(bindings[sp], m, names, a)
  <2>1. r.ok \in BOOLEAN /\ r.layer \in Layer /\ Keeps(bindings[sp], r.layer)
      BY <1>0, FoldImportWrites
  <2>2. Write("fold_import", sp, r) /\ "fold_import" \in Ops
      BY <1>3 DEF fold_import, Ops
  <2> HIDE DEF r
  <2>3. AllowedWrite("fold_import", bindings[sp], r)
      BY <2>1 DEF AllowedWrite, Keeps, KeepsBound, Ops
  <2> QED BY <2>2, <2>3 DEF LayerWrite
<1>4. ASSUME NEW sp \in live, NEW m \in Modules, NEW names \in NameLists, NEW a \in Aliases,
             NEW check \in BOOLEAN, fold(sp, m.exports, names, a, check)
      PROVE  LayerWrite(sp)
  <2> DEFINE r == Fold(bindings[sp], m.exports, names, a, check)
             op == IF check THEN "fold" ELSE "fold!"
  <2>1. /\ r.ok \in BOOLEAN /\ r.layer \in Layer
        /\ KeepsBound(bindings[sp], r.layer) /\ (check => Keeps(bindings[sp], r.layer))
        /\ ~r.ok => r.layer = bindings[sp]
      BY <1>0, FoldWrites
  <2>2. Write(op, sp, r)
      BY <1>4 DEF fold
  <2>3. op \in Ops /\ (op \notin {"define", "fold!"} => check)
      BY DEF Ops
  <2> HIDE DEF r, op
  <2>4. AllowedWrite(op, bindings[sp], r)
      BY <2>1, <2>3 DEF AllowedWrite
  <2> QED BY <2>2, <2>3, <2>4 DEF LayerWrite
<1>5. ASSUME NEW sp \in live, NEW m \in Modules, NEW names \in NameLists, NEW p \in Prefixes,
             NEW check \in BOOLEAN, unfold(sp, m.exports, names, p, check)
      PROVE  LayerWrite(sp)
  <2> DEFINE r == Unfold(bindings[sp], m.exports, names, p, check)
             op == IF check THEN "unfold" ELSE "unfold!"
  <2>1. /\ r.ok \in BOOLEAN /\ r.layer \in Layer /\ Keeps(bindings[sp], r.layer)
        /\ check /\ ~r.ok => r.layer = bindings[sp]
      BY <1>0, UnfoldWrites
  <2>2. Write(op, sp, r)
      BY <1>5 DEF unfold
  <2>3. op \in Ops /\ (op \in {"define_once", "fold", "fold!", "unfold"} => check)
      BY DEF Ops
  <2> HIDE DEF r, op
  <2>4. AllowedWrite(op, bindings[sp], r)
      BY <2>1, <2>3 DEF AllowedWrite, Keeps, KeepsBound
  <2> QED BY <2>2, <2>3, <2>4 DEF LayerWrite
<1>6. ASSUME NEW sp \in live, NEW s \in HygieneNames, NEW v \in Values, define_hidden_root(sp, s, v)
      PROVE  HiddenWrite
  <2>1. define_hidden(Root, s, Val(v)) /\ Root \in live
      BY <1>6, RootOfChain DEF define_hidden_root, IInv
  <2> QED BY <2>1 DEF HiddenWrite
<1> QED BY <1>1, <1>2, <1>3, <1>4, <1>5, <1>6 DEF Next, NewChild, HiddenWrite

LEMMA InitIInv == Init => IInv
<1> SUFFICES ASSUME Init PROVE IInv
    OBVIOUS
<1>1. EmptyLayer \in Layer /\ EmptyLayer \in HiddenLayer /\ \A s \in Symbols : EmptyLayer[s] = MISSING
    BY DEF EmptyLayer, Layer, HiddenLayer
<1>2. Contents
    BY <1>1 DEF Init, Contents
<1>3. RankedBelow(0, [sp \in Spaces |-> 0])
    BY DEF Init, RankedBelow
<1>4. Tree
    BY <1>3, SpacesAssumption DEF Init, Tree
<1> QED BY <1>2, <1>4, SpacesAssumption DEF Init, IInv, Ops

\* A new space ranks above all others, its parent included.
LEMMA ChildIInv == IInv /\ NewChild => IInv'
<1> SUFFICES ASSUME IInv, NewChild PROVE IInv'
    OBVIOUS
<1>1. PICK p \in live, c \in Spaces \ live : child(p, c)
    BY DEF NewChild, child
<1>2. /\ live' = live \cup {c} /\ parent' = [parent EXCEPT ![c] = p]
      /\ last' = [op |-> "child", space |-> c, ok |-> TRUE] /\ UNCHANGED <<bindings, hidden>>
    BY <1>1 DEF child
<1>3. p \in Spaces /\ p # c /\ p # NoSpace /\ c # Root
    BY SpacesAssumption DEF IInv
<1>4. parent' \in [Spaces -> Spaces \cup {NoSpace}] /\ \A sp \in Spaces : parent'[sp] = IF sp = c THEN p ELSE parent[sp]
    BY <1>2, <1>3 DEF IInv, Tree
<1>5. \A sp \in Spaces : parent[sp] # NoSpace => parent[sp] # c
    BY DEF IInv, Tree
<1>6. \E n \in Nat : \E rank : RankedBelow(n, rank)'
  <2>1. PICK n \in Nat : \E rank : RankedBelow(n, rank)
      BY DEF IInv, Tree
  <2>2. PICK rank : RankedBelow(n, rank)
      BY <2>1
  <2> DEFINE above == [rank EXCEPT ![c] = n + 1]
  <2>3. rank \in [Spaces -> 0..n]
      BY <2>2 DEF RankedBelow
  <2>4. \A sp \in Spaces : rank[sp] \in 0..(n + 1) /\ rank[sp] < n + 1
      BY <2>3
  <2>5. above \in [Spaces -> 0..(n + 1)] /\ \A sp \in Spaces : above[sp] = IF sp = c THEN n + 1 ELSE rank[sp]
      BY <2>3, <2>4
  <2> HIDE DEF above
  <2>6. ASSUME NEW sp \in Spaces, parent'[sp] # NoSpace PROVE above[parent'[sp]] < above[sp]
    <3>1. CASE sp = c
        BY <1>3, <1>4, <2>4, <2>5, <3>1
    <3>2. CASE sp # c
      <4>1. parent'[sp] = parent[sp] /\ parent[sp] # c /\ parent[sp] \in Spaces
          BY <1>4, <1>5, <2>6, <3>2 DEF IInv, Tree
      <4> QED BY <2>2, <2>5, <2>6, <3>2, <4>1 DEF RankedBelow
    <3> QED BY <3>1, <3>2
  <2>7. RankedBelow(n + 1, above)'
      BY <2>5, <2>6 DEF RankedBelow
  <2>8. n + 1 \in Nat
      OBVIOUS
  <2> QED BY <2>7, <2>8
<1>7. Tree'
    BY <1>2, <1>3, <1>4, <1>6 DEF IInv, Tree
<1>8. Contents'
    BY <1>2 DEF IInv, Contents
<1> QED BY <1>2, <1>7, <1>8 DEF IInv, Ops

LEMMA TreeStays == Tree /\ UNCHANGED <<live, parent>> => Tree'
BY DEF Tree, RankedBelow

LEMMA WriteIInv == IInv /\ (\E sp \in live : LayerWrite(sp)) => IInv'
<1> SUFFICES ASSUME IInv, NEW sp \in live, NEW op \in Ops, NEW r,
                    AllowedWrite(op, bindings[sp], r), Write(op, sp, r)
             PROVE  IInv'
    BY DEF LayerWrite
<1>1. /\ bindings' = [bindings EXCEPT ![sp] = r.layer] /\ UNCHANGED <<live, parent, hidden>>
      /\ last' = [op |-> op, space |-> sp, ok |-> r.ok] /\ r.layer \in Layer /\ r.ok \in BOOLEAN
    BY DEF Write, AllowedWrite
<1>2. Contents'
    BY <1>1 DEF IInv, Contents
<1>3. Tree'
    BY <1>1, TreeStays DEF IInv
<1> QED BY <1>1, <1>2, <1>3 DEF IInv

LEMMA HiddenIInv == IInv /\ HiddenWrite => IInv'
<1> SUFFICES ASSUME IInv, HiddenWrite PROVE IInv'
    OBVIOUS
<1>1. PICK sp \in live, s \in HygieneNames :
        \E b : /\ b \in ValueBindings \cup AliasBindings
               /\ b.kind = "alias" => b.target \in UserNames
               /\ define_hidden(sp, s, b)
  <2>1. \A t \in UserNames : SymbolAlias(t) \in AliasBindings /\ SymbolAlias(t).target = t
      BY DEF SymbolAlias, AliasBindings, UserNames
  <2>2. \A v \in Values : Val(v) \in ValueBindings /\ Val(v).kind = "val"
      BY DEF ValueBindings, Val
  <2> QED BY <2>1, <2>2 DEF HiddenWrite
<1>2. PICK b : /\ b \in ValueBindings \cup AliasBindings
               /\ b.kind = "alias" => b.target \in UserNames
               /\ define_hidden(sp, s, b)
    BY <1>1
<1>3. /\ hidden' = [hidden EXCEPT ![sp] = [hidden[sp] EXCEPT ![s] = b]]
      /\ UNCHANGED <<live, parent, bindings>>
      /\ last' = [op |-> "define_hidden", space |-> sp, ok |-> TRUE]
    BY <1>2 DEF define_hidden, Define, Done
<1>4. s \in Symbols /\ sp \in Spaces /\ hidden \in [Spaces -> HiddenLayer]
    BY NamesAssumption DEF IInv, Contents
<1>5. hidden' \in [Spaces -> HiddenLayer]
    BY <1>2, <1>3, <1>4 DEF HiddenLayer
<1>6. \A q \in Spaces, z \in Symbols : hidden'[q][z] = IF q = sp /\ z = s THEN b ELSE hidden[q][z]
    BY <1>3, <1>4 DEF HiddenLayer
<1>7. Contents'
    BY <1>2, <1>3, <1>5, <1>6 DEF IInv, Contents
<1>8. Tree'
    BY <1>3, TreeStays DEF IInv
<1> QED BY <1>3, <1>4, <1>7, <1>8 DEF IInv, Ops

LEMMA StutterIInv == IInv /\ UNCHANGED vars => IInv'
BY TreeStays DEF IInv, vars, Contents

LEMMA StepIInv == IInv /\ [Next]_vars => IInv'
BY Kinds, ChildIInv, WriteIInv, HiddenIInv, StutterIInv

LEMMA AlwaysIInv == Spec => []IInv
BY InitIInv, StepIInv, PTL DEF Spec

-----------------------------------------------------------------------------
(* Before and after a step. *)

\* SiteWalk for every site, in a form that holds of the next state too.
SitesWalk ==
    \A sp \in Spaces, s \in Symbols, seen \in SUBSET Symbols : s \notin seen =>
        /\ Lookup(sp, s) = MISSING /\ parent[sp] = NoSpace => Walk[Site(sp, s, seen)] = MISSING
        /\ Lookup(sp, s) = MISSING /\ parent[sp] # NoSpace =>
             Walk[Site(sp, s, seen)] = Walk[Site(parent[sp], s, seen)]
        /\ Lookup(sp, s).kind = "alias" =>
             Walk[Site(sp, s, seen)] = Walk[Site(sp, Lookup(sp, s).target, seen \cup {s})]
        /\ Lookup(sp, s).kind = "val" => Walk[Site(sp, s, seen)] = Lookup(sp, s)

LEMMA IInvWalks == IInv => SitesWalk
BY SiteWalk DEF IInv, SitesWalk

LEMMA IInvWalksNext == IInv' => SitesWalk'
BY IInvWalks, PTL

\* A step changes one layer, and the parent of that layer's space only.
LEMMA OneLayer ==
    IInv /\ Next =>
        \A sp \in Spaces : sp # last'.space =>
            parent'[sp] = parent[sp] /\ \A s \in Symbols : Lookup(sp, s)' = Lookup(sp, s)
<1> SUFFICES ASSUME IInv, Next, NEW sp \in Spaces, sp # last'.space
             PROVE  parent'[sp] = parent[sp] /\ bindings'[sp] = bindings[sp] /\ hidden'[sp] = hidden[sp]
    BY DEF Lookup
<1>0. parent \in [Spaces -> Spaces \cup {NoSpace}] /\ bindings \in [Spaces -> Layer]
      /\ hidden \in [Spaces -> HiddenLayer]
    BY DEF IInv, Tree, Contents
<1>1. CASE NewChild
  <2>1. PICK p \in live, c \in Spaces : child(p, c)
      BY <1>1 DEF NewChild
  <2> QED BY <1>0, <2>1 DEF child
<1>2. CASE HiddenWrite
  <2>1. \E q, h : /\ hidden' = [hidden EXCEPT ![q] = h] /\ last'.space = q
                  /\ UNCHANGED <<live, parent, bindings>>
      BY <1>2 DEF HiddenWrite, define_hidden
  <2> QED BY <1>0, <2>1
<1>3. CASE \E q \in live : LayerWrite(q)
  <2>1. PICK q \in live : LayerWrite(q)
      BY <1>3
  <2>2. PICK op \in Ops : \E r : AllowedWrite(op, bindings[q], r) /\ Write(op, q, r)
      BY <2>1 DEF LayerWrite
  <2>3. PICK r : Write(op, q, r)
      BY <2>2
  <2>4. bindings' = [bindings EXCEPT ![q] = r.layer] /\ last'.space = q /\ UNCHANGED <<live, parent, hidden>>
      BY <2>3 DEF Write
  <2> QED BY <1>0, <2>4
<1> QED BY <1>1, <1>2, <1>3, Kinds

LEMMA Isolation ==
    IInv /\ IInv' /\ Next =>
        \A d \in live : (\A i \in DOMAIN Chain(d) : Chain(d)[i] # last'.space) =>
            \A s \in Symbols : Resolve(d, s)' = Resolve(d, s)
<1> SUFFICES ASSUME IInv, IInv', Next
             PROVE  \A d \in live : (\A i \in DOMAIN Chain(d) : Chain(d)[i] # last'.space) =>
                        \A s \in Symbols : Resolve(d, s)' = Resolve(d, s)
    OBVIOUS
<1> DEFINE w == last'.space
           Avoids(sp) == \A i \in DOMAIN Chain(sp) : Chain(sp)[i] # w
           Same(sp, s, seen) == Walk'[Site(sp, s, seen)] = Walk[Site(sp, s, seen)]
<1>0. SitesWalk /\ SitesWalk' /\ Tree /\ Contents
    BY IInvWalks, IInvWalksNext DEF IInv
<1>1. ASSUME NEW sp \in Spaces, Avoids(sp)
      PROVE  /\ sp # w /\ parent'[sp] = parent[sp] /\ \A s \in Symbols : Lookup(sp, s)' = Lookup(sp, s)
             /\ parent[sp] # NoSpace => parent[sp] \in Spaces /\ Avoids(parent[sp])
  <2>1. Path(sp)
      BY <1>0, ChainIsPath
  <2>2. 1 \in DOMAIN Chain(sp) /\ Chain(sp)[1] = sp
      BY <2>1 DEF Path
  <2>3. sp # w
      BY <1>1, <2>2
  <2>4. ASSUME parent[sp] # NoSpace PROVE parent[sp] \in Spaces /\ Avoids(parent[sp])
    <3>1. parent[sp] \in Spaces
        BY <1>0, <2>4 DEF Tree
    <3>2. /\ Chain(parent[sp]) \in Seq(Spaces) /\ Len(Chain(parent[sp])) \in Nat
          /\ DOMAIN Chain(parent[sp]) = 1..Len(Chain(parent[sp]))
      <4>1. Path(parent[sp])
          BY <1>0, <3>1, ChainIsPath
      <4> QED BY <4>1 DEF Path
    <3>3. /\ Chain(sp) \in Seq(Spaces) /\ Len(Chain(sp)) = Len(Chain(parent[sp])) + 1
          /\ \A i \in 1..Len(Chain(parent[sp])) : Chain(sp)[i + 1] = Chain(parent[sp])[i]
        BY <1>0, <2>4, <3>2, ChainCons
    <3>4. \A i \in DOMAIN Chain(parent[sp]) :
            i + 1 \in DOMAIN Chain(sp) /\ Chain(sp)[i + 1] = Chain(parent[sp])[i]
        BY <3>2, <3>3
    <3>5. Avoids(parent[sp])
        BY <1>1, <3>4
    <3> QED BY <3>1, <3>5
  <2> HIDE DEF Avoids, w
  <2>5. parent'[sp] = parent[sp] /\ \A s \in Symbols : Lookup(sp, s)' = Lookup(sp, s)
      BY <2>3, OneLayer DEF w
  <2> QED BY <2>3, <2>4, <2>5
<1> HIDE DEF Avoids, w, Same
<1>2. ASSUME NEW s \in Symbols, NEW seen \in SUBSET Symbols, s \notin seen,
             s \notin HygieneNames \/ seen = {},
             s \in HygieneNames => \A t \in Symbols \ HygieneNames : \A sp \in Spaces :
                                      Avoids(sp) => Same(sp, t, {s})
      PROVE  \A sp \in Spaces : Avoids(sp) => Same(sp, s, seen)
  <2> DEFINE Q == {sp \in Spaces : Avoids(sp) => Same(sp, s, seen)}
  <2>1. ASSUME NEW sp \in Spaces, parent[sp] = NoSpace \/ parent[sp] \in Q, Avoids(sp)
        PROVE  Same(sp, s, seen)
    <3> DEFINE b == Lookup(sp, s)
    <3>1. Lookup(sp, s)' = b /\ parent'[sp] = parent[sp]
        BY <1>1, <2>1
    <3>2. b.kind \in {"missing", "val", "alias"} /\ (b.kind = "missing" <=> b = MISSING)
          /\ (b.kind = "alias" => s \in HygieneNames /\ b.target \in UserNames)
        BY <1>0, Lookups
    <3>7. /\ Lookup(sp, s)' = MISSING /\ parent'[sp] = NoSpace => Walk'[Site(sp, s, seen)] = MISSING
          /\ Lookup(sp, s)' = MISSING /\ parent'[sp] # NoSpace =>
               Walk'[Site(sp, s, seen)] = Walk'[Site(parent'[sp], s, seen)]
        BY <1>0, <1>2 DEF SitesWalk, Site
    <3>8. /\ b = MISSING /\ parent[sp] = NoSpace => Walk'[Site(sp, s, seen)] = MISSING
          /\ b = MISSING /\ parent[sp] # NoSpace =>
               Walk'[Site(sp, s, seen)] = Walk'[Site(parent[sp], s, seen)]
        BY Zenon, <3>1, <3>7
    <3> HIDE DEF b
    <3>3. CASE b = MISSING /\ parent[sp] = NoSpace
      <4>1. Walk[Site(sp, s, seen)] = MISSING
          BY <1>0, <1>2, <3>3 DEF SitesWalk, b
      <4>2. Walk'[Site(sp, s, seen)] = MISSING
          BY <3>3, <3>8
      <4> QED BY <4>1, <4>2 DEF Same
    <3>4. CASE b = MISSING /\ parent[sp] # NoSpace
      <4>1. Walk[Site(sp, s, seen)] = Walk[Site(parent[sp], s, seen)]
          BY <1>0, <1>2, <3>4 DEF SitesWalk, b
      <4>2. Walk'[Site(sp, s, seen)] = Walk'[Site(parent[sp], s, seen)]
          BY <3>4, <3>8
      <4>3. Same(parent[sp], s, seen)
          BY <1>1, <2>1, <3>4
      <4> QED BY <4>1, <4>2, <4>3 DEF Same
    <3>5. CASE b.kind = "val"
      <4>1. Walk[Site(sp, s, seen)] = b
          BY <1>0, <1>2, <3>5 DEF SitesWalk, b
      <4>2. Walk'[Site(sp, s, seen)] = b
          BY <1>0, <1>2, <3>1, <3>5 DEF SitesWalk, Site
      <4> QED BY <4>1, <4>2 DEF Same
    <3>6. CASE b.kind = "alias"
      <4>1. seen \cup {s} = {s} /\ b.target \in Symbols \ HygieneNames
          BY <1>2, <3>2, <3>6 DEF UserNames
      <4>2. Walk[Site(sp, s, seen)] = Walk[Site(sp, b.target, seen \cup {s})]
          BY <1>0, <1>2, <3>6 DEF SitesWalk, b
      <4>3. Walk'[Site(sp, s, seen)] = Walk'[Site(sp, b.target, seen \cup {s})]
          BY <1>0, <1>2, <3>1, <3>6 DEF SitesWalk, Site
      <4>4. Same(sp, b.target, {s})
          BY <1>2, <2>1, <3>2, <3>6, <4>1
      <4> QED BY <4>1, <4>2, <4>3, <4>4 DEF Same
    <3> QED BY <3>2, <3>3, <3>4, <3>5, <3>6
  <2>2. \A sp \in Spaces : parent[sp] = NoSpace \/ parent[sp] \in Q => sp \in Q
      BY <2>1
  <2> HIDE DEF Q
  <2>3. \A sp \in Spaces : sp \in Q
      BY <1>0, <2>2, ChainInduction
  <2> QED BY <2>3 DEF Q
<1>3. \A t \in Symbols \ HygieneNames, seen \in SUBSET Symbols, sp \in Spaces :
        t \notin seen /\ Avoids(sp) => Same(sp, t, seen)
    BY <1>2
<1>4. \A s \in Symbols, sp \in Spaces : Avoids(sp) => Same(sp, s, {})
  <2> SUFFICES ASSUME NEW s \in Symbols PROVE \A sp \in Spaces : Avoids(sp) => Same(sp, s, {})
      OBVIOUS
  <2>1. {s} \in SUBSET Symbols /\ {} \in SUBSET Symbols /\ s \notin {}
      OBVIOUS
  <2>2. s \in HygieneNames => \A t \in Symbols \ HygieneNames : \A sp \in Spaces :
                                Avoids(sp) => Same(sp, t, {s})
      BY <1>3, <2>1
  <2> QED BY <1>2, <2>1, <2>2
<1>5. ASSUME NEW d \in live, Avoids(d), NEW s \in Symbols PROVE Resolve(d, s)' = Resolve(d, s)
  <2>1. d \in Spaces
      BY DEF IInv
  <2>2. Same(d, s, {})
      BY <1>4, <1>5, <2>1
  <2> QED BY <2>2 DEF Same, Resolve, Site
<1> QED BY <1>5 DEF Avoids, w

-----------------------------------------------------------------------------
(* The theorems. *)

\* A user name means its nearest binding on the chain and a literal that nobody
\* rebinds means itself (SymbolSpace.lookup and resolve), types hold, and every
\* resolution ends: in the tree of layers a walk cannot come back.
THEOREM ScopesNearest == Spec => []NearestBinding
<1>1. IInv => TypeOK
    BY DEF IInv, TypeOK, Tree, Contents
<1>2. IInv => \A use \in live, s \in UserNames \cup Literals :
        LET chain == Chain(use)
            holds == {i \in DOMAIN chain : bindings[chain[i]][s] # MISSING}
        IN Resolve(use, s) =
             IF holds # {}
             THEN bindings[chain[CHOOSE i \in holds : \A j \in holds : i =< j]][s]
             ELSE IF s \in Literals THEN Val(LiteralOf[s]) ELSE MISSING
    BY NearestOnChain DEF IInv
<1>3. IInv => NearestBinding
    BY <1>1, <1>2 DEF NearestBinding
<1> QED BY <1>3, AlwaysIInv, PTL

\* A hygiene alias means what its target means at the layer that holds the alias
\* (SymbolSpace.resolve goes on from there), so that no binding at or above the
\* use of an expanded macro captures the names its body refers to.
THEOREM ScopesHygiene == Spec => []HygieneNoCapture
<1>1. IInv => HygieneNoCapture
    BY AliasOnChain DEF IInv
<1> QED BY <1>1, AlwaysIInv, PTL

\* A definition, an import or a new scope changes what names mean in the spaces
\* whose chain has the written layer, and nowhere else.
THEOREM ScopesIsolated == Spec => ScopeIsolation
<1>1. IInv /\ IInv' /\ [Next]_vars =>
        [\A d \in live : (\A i \in DOMAIN Chain(d) : Chain(d)[i] # last'.space) =>
            \A s \in Symbols : Resolve(d, s)' = Resolve(d, s)]_vars
    BY Isolation
<1> QED BY <1>1, AlwaysIInv, PTL DEF Spec, ScopeIsolation

\* Of all writes only define and an unchecked fold may rebind a name of a layer,
\* and none unbinds one - also when an import raises half-way.
THEOREM ScopesBoundOnce == Spec => BoundOnce
<1>1. IInv /\ Next =>
        \A sp \in live, s \in Symbols :
            bindings[sp][s] # MISSING =>
                \/ bindings'[sp][s] = bindings[sp][s]
                \/ last'.op \in {"define", "fold!"} /\ bindings'[sp][s] # MISSING
  <2> SUFFICES ASSUME IInv, Next, NEW sp \in live, NEW s \in Symbols, bindings[sp][s] # MISSING
               PROVE  \/ bindings'[sp][s] = bindings[sp][s]
                      \/ last'.op \in {"define", "fold!"} /\ bindings'[sp][s] # MISSING
      OBVIOUS
  <2>1. CASE NewChild \/ HiddenWrite
      BY <2>1 DEF NewChild, child, HiddenWrite, define_hidden
  <2>2. CASE \E q \in live : LayerWrite(q)
    <3>1. PICK q \in live, op \in Ops : \E r : AllowedWrite(op, bindings[q], r) /\ Write(op, q, r)
        BY <2>2 DEF LayerWrite
    <3>2. PICK r : AllowedWrite(op, bindings[q], r) /\ Write(op, q, r)
        BY <3>1
    <3>3. bindings' = [bindings EXCEPT ![q] = r.layer] /\ last'.op = op
        BY <3>2 DEF Write
    <3>4. sp \in Spaces /\ bindings \in [Spaces -> Layer]
        BY DEF IInv, Contents
    <3>5. bindings'[sp] = IF sp = q THEN r.layer ELSE bindings[sp]
        BY <3>3, <3>4
    <3> QED BY <3>2, <3>3, <3>5 DEF AllowedWrite, Keeps, KeepsBound
  <2> QED BY <2>1, <2>2, Kinds
<1>2. IInv /\ [Next]_vars =>
        [\A sp \in live, s \in Symbols :
            bindings[sp][s] # MISSING =>
                \/ bindings'[sp][s] = bindings[sp][s]
                \/ last'.op \in {"define", "fold!"} /\ bindings'[sp][s] # MISSING]_vars
    BY <1>1
<1> QED BY <1>2, AlwaysIInv, PTL DEF Spec, BoundOnce

\* A define_once, a fold or a checked unfold that raises has written nothing: all
\* names are checked before the first of them is bound, and the checks are all that
\* the writes can fail on (also when several names are imported as one).
THEOREM ScopesImportAtomic == Spec => CheckedImportAtomic
<1>1. IInv /\ Next =>
        (last'.op \in {"define_once", "fold", "fold!", "unfold"} /\ ~last'.ok => bindings' = bindings)
  <2> SUFFICES ASSUME IInv, Next, last'.op \in {"define_once", "fold", "fold!", "unfold"}, ~last'.ok
               PROVE  bindings' = bindings
      OBVIOUS
  <2>1. CASE NewChild \/ HiddenWrite
      BY <2>1 DEF NewChild, child, HiddenWrite, define_hidden
  <2>2. CASE \E q \in live : LayerWrite(q)
    <3>1. PICK q \in live, op \in Ops : \E r : AllowedWrite(op, bindings[q], r) /\ Write(op, q, r)
        BY <2>2 DEF LayerWrite
    <3>2. PICK r : AllowedWrite(op, bindings[q], r) /\ Write(op, q, r)
        BY <3>1
    <3>3. bindings' = [bindings EXCEPT ![q] = r.layer] /\ last'.op = op /\ last'.ok = r.ok
        BY <3>2 DEF Write
    <3>4. r.layer = bindings[q] /\ q \in Spaces /\ bindings \in [Spaces -> Layer]
        BY <3>2, <3>3 DEF IInv, Contents, AllowedWrite
    <3> QED BY <3>3, <3>4
  <2> QED BY <2>1, <2>2, Kinds
<1>2. IInv /\ [Next]_vars =>
        [last'.op \in {"define_once", "fold", "fold!", "unfold"} /\ ~last'.ok => bindings' = bindings]_vars
    BY <1>1
<1> QED BY <1>2, AlwaysIInv, PTL DEF Spec, CheckedImportAtomic
=============================================================================
