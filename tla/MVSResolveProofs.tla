-------------------------- MODULE MVSResolveProofs --------------------------
(***************************************************************************)
(* The closure of the build list, proved for every set of packages,        *)
(* versions and manifests.  Closed and Justified speak of the end of the   *)
(* walk and of selected versions only; the inductive invariant says what   *)
(* is still to be done while the walk is under way.                        *)
(***************************************************************************)
EXTENDS MVSResolve, FiniteSetTheorems, TLAPS

\* A frame of the recursion is at a manifest that exists and was asked for.
FramesRead ==
    \A k \in DOMAIN stack :
        /\ stack[k].node \in visited \cup {Root}
        /\ manifests[stack[k].node] # None

\* A dependency of a manifest that was read is satisfied, or a frame of that
\* manifest has not come to it yet.
Pending ==
    \A n \in visited \cup {Root} : manifests[n] # None =>
        \A i \in DOMAIN manifests[n] :
            \/ Satisfied(manifests[n][i])
            \/ \E k \in DOMAIN stack : stack[k].node = n /\ stack[k].next =< i

\* The manifest of the version selected for a path has been asked for.
SelectedRead ==
    \A p \in Paths : requirements[p] # None => <<p, requirements[p]>> \in visited

Inv == TypeOK /\ FramesRead /\ Pending /\ SelectedRead /\ Justified

-----------------------------------------------------------------------------

\* A manifest is a sequence of at most MaxDeps dependencies.
LEMMA ManifestIsSeq ==
    ASSUME NEW m \in Manifest
    PROVE  /\ Len(m) \in 0..MaxDeps
           /\ DOMAIN m = 1..Len(m)
           /\ \A i \in 1..Len(m) : m[i] \in Dependency
<1>1. PICK n \in 0..MaxDeps : m \in [1..n -> Dependency]
  BY MaxDepsAssumption DEF Manifest
<1>2. m \in Seq(Dependency) /\ Len(m) = n
  BY <1>1, MaxDepsAssumption
<1> QED
  BY <1>1, <1>2

\* max_version returns one of its arguments, and none of them is larger.
LEMMA MaxVersionIsUpperBound ==
    ASSUME NEW a \in Versions, NEW b \in Versions
    PROVE  /\ max_version(a, b) \in {a, b}
           /\ Parsed[max_version(a, b)] >= Parsed[a]
           /\ Parsed[max_version(a, b)] >= Parsed[b]
BY ParsedAssumption DEF max_version

\* The walk starts in the invariant: the frame of the root manifest has
\* everything still to do.
LEMMA InitInv == Init => Inv
<1> SUFFICES ASSUME Init PROVE Inv
  OBVIOUS
<1>1. manifests \in [Node \cup {Root} -> Manifest \cup {None}] /\ manifests[Root] # None
  BY UniverseAssumption DEF Init
<1>2. stack = <<FrameAt(Root, 1)>> /\ FrameAt(Root, 1) \in Frame
  BY MaxDepsAssumption DEF Init, FrameAt, Frame
<1>3. stack \in Seq(Frame) /\ DOMAIN stack = {1} /\ stack[1].node = Root /\ stack[1].next = 1
  BY <1>2 DEF FrameAt
<1>4. TypeOK
  BY <1>1, <1>3 DEF Init, TypeOK
<1>5. FramesRead /\ SelectedRead /\ Justified
  BY <1>1, <1>3 DEF Init, FramesRead, SelectedRead, Justified
<1>6. Pending
  <2>1. manifests[Root] \in Manifest
    BY <1>1
  <2> QED
    BY <1>1, <1>3, <2>1, ManifestIsSeq DEF Init, Pending
<1> QED
  BY <1>4, <1>5, <1>6 DEF Inv

\* What one turn of the loop works on: the frame is at an existing dependency,
\* and the version it selects satisfies it and lowers no requirement.
LEMMA CollectStep ==
    ASSUME Inv, Collect
    PROVE  /\ Len(stack) \in Nat \ {0}
           /\ Len(stack) \in DOMAIN stack
           /\ Top \in Frame
           /\ Top.node \in visited \cup {Root}
           /\ manifests[Top.node] \in Manifest
           /\ Top.next \in 1..Len(manifests[Top.node])
           /\ manifests[Top.node][Top.next] \in Dependency
           /\ Selected(manifests[Top.node][Top.next]) \in Versions
           /\ Advanced \in Seq(Frame)
           /\ DOMAIN Advanced = DOMAIN stack
           /\ \A k \in DOMAIN stack : Advanced[k].node = stack[k].node
           /\ \A k \in DOMAIN stack : k # Len(stack) => Advanced[k] = stack[k]
           /\ Advanced[Len(stack)].next = Top.next + 1
<1>1. stack \in Seq(Frame) /\ stack # <<>>
  BY DEF Inv, TypeOK, Collect
<1>2. Len(stack) \in Nat \ {0} /\ Len(stack) \in DOMAIN stack /\ Top \in Frame
  BY <1>1 DEF Top
<1>3. Top.node \in visited \cup {Root} /\ manifests[Top.node] # None
  BY <1>2 DEF Inv, FramesRead, Top
<1>4. Top.node \in Node \cup {Root} /\ manifests[Top.node] \in Manifest
  BY <1>2, <1>3 DEF Inv, TypeOK, Frame
<1>5. Len(manifests[Top.node]) \in 0..MaxDeps
  BY <1>4, ManifestIsSeq
<1>6. Top.next \in 1..Len(manifests[Top.node])
  BY <1>2, <1>5, MaxDepsAssumption DEF Collect, Frame
<1>7. manifests[Top.node][Top.next] \in Dependency
  BY <1>4, <1>6, ManifestIsSeq
<1>8. Selected(manifests[Top.node][Top.next]) \in Versions
  BY <1>7, MaxVersionIsUpperBound DEF Selected, Dependency, Inv, TypeOK
<1>9. FrameAt(Top.node, Top.next + 1) \in Frame
  BY <1>4, <1>5, <1>6, MaxDepsAssumption DEF Frame, FrameAt
<1>10. /\ Advanced \in Seq(Frame)
       /\ DOMAIN Advanced = DOMAIN stack
       /\ \A k \in DOMAIN stack : k # Len(stack) => Advanced[k] = stack[k]
       /\ Advanced[Len(stack)] = FrameAt(Top.node, Top.next + 1)
  BY <1>1, <1>2, <1>9 DEF Advanced
<1>11. Advanced[Len(stack)].node = stack[Len(stack)].node /\ Advanced[Len(stack)].next = Top.next + 1
  BY <1>10 DEF FrameAt, Top
<1> QED
  BY <1>2, <1>3, <1>4, <1>6, <1>7, <1>8, <1>10, <1>11

\* The requirement recorded by a turn of the loop satisfies the dependency, and
\* what was satisfied stays so.
LEMMA CollectRaises ==
    ASSUME Inv, Collect
    PROVE  /\ \A dep \in Dependency : dep = manifests[Top.node][Top.next] => Satisfied(dep)'
           /\ \A dep \in Dependency : Satisfied(dep) => Satisfied(dep)'
           /\ \A p \in Paths : requirements[p] # None =>
                 /\ requirements'[p] # None
                 /\ Parsed[requirements'[p]] >= Parsed[requirements[p]]
<1> DEFINE dep == manifests[Top.node][Top.next]
<1>1. dep \in Dependency /\ Selected(dep) \in Versions
  BY CollectStep
<1>2. requirements' = [requirements EXCEPT ![dep.path] = Selected(dep)] /\ manifests' = manifests
  BY DEF Collect
<1>3. requirements \in [Paths -> Versions \cup {None}] /\ dep.path \in Paths /\ dep.min_version \in Versions
  BY <1>1 DEF Inv, TypeOK, Dependency
<1>4. requirements'[dep.path] = Selected(dep) /\ Selected(dep) # None
      /\ Parsed[Selected(dep)] >= Parsed[dep.min_version]
  BY <1>1, <1>2, <1>3, NoneAssumption, MaxVersionIsUpperBound, ParsedAssumption DEF Selected
<1>5. \A p \in Paths : requirements[p] # None =>
         /\ requirements'[p] # None
         /\ Parsed[requirements'[p]] >= Parsed[requirements[p]]
  <2> SUFFICES ASSUME NEW p \in Paths, requirements[p] # None
               PROVE  requirements'[p] # None /\ Parsed[requirements'[p]] >= Parsed[requirements[p]]
    OBVIOUS
  <2>1. CASE p = dep.path
    BY <1>1, <1>2, <1>3, <1>4, <2>1, MaxVersionIsUpperBound DEF Selected
  <2>2. CASE p # dep.path
    BY <1>2, <1>3, <2>2, ParsedAssumption
  <2> QED
    BY <2>1, <2>2
<1>6. \A d \in Dependency : Satisfied(d) => Satisfied(d)'
  <2> SUFFICES ASSUME NEW d \in Dependency, Satisfied(d) PROVE Satisfied(d)'
    OBVIOUS
  <2>1. d.path \in Paths /\ d.min_version \in Versions
    BY DEF Dependency
  <2>2. requirements[d.path] \in Versions /\ requirements'[d.path] \in Versions
    BY <1>1, <1>2, <1>3, <1>5, <2>1 DEF Satisfied
  <2> QED
    BY <1>5, <2>1, <2>2, ParsedAssumption DEF Satisfied
<1>7. \A d \in Dependency : d = dep => Satisfied(d)'
  BY <1>2, <1>4 DEF Satisfied
<1> QED
  BY <1>5, <1>6, <1>7

\* The stack after a turn of the loop: the frames of before with the top one
\* moved on, and perhaps a frame for a manifest not read before.
LEMMA CollectStack ==
    ASSUME Inv, Collect
    PROVE  LET key == <<manifests[Top.node][Top.next].path,
                        Selected(manifests[Top.node][Top.next])>>
           IN /\ key \in Node
              /\ stack' \in Seq(Frame)
              /\ \A k \in DOMAIN stack : /\ k \in DOMAIN stack'
                                         /\ stack'[k] = Advanced[k]
              /\ \A k \in DOMAIN stack' \ DOMAIN stack :
                    /\ k = Len(stack) + 1 /\ key \notin visited
                    /\ stack'[k].node = key /\ manifests[key] # None
              /\ key \in visited \/ manifests[key] = None
                 \/ \E k \in DOMAIN stack' : stack'[k].node = key /\ stack'[k].next = 1
<1> DEFINE dep == manifests[Top.node][Top.next]
           key == <<dep.path, Selected(dep)>>
<1>1. key \in Node /\ FrameAt(key, 1) \in Frame
  BY CollectStep, MaxDepsAssumption DEF Node, Dependency, Frame, FrameAt
<1>2. stack \in Seq(Frame) /\ Advanced \in Seq(Frame) /\ DOMAIN Advanced = DOMAIN stack
  BY CollectStep DEF Inv, TypeOK
<1>3. CASE key \in visited \/ manifests[key] = None
  <2>1. stack' = Advanced
    BY <1>3 DEF Collect
  <2> QED
    BY <1>1, <1>2, <1>3, <2>1
<1>4. CASE ~(key \in visited \/ manifests[key] = None)
  <2>1. stack' = Append(Advanced, FrameAt(key, 1))
    BY <1>4 DEF Collect
  <2>2. /\ stack' \in Seq(Frame)
        /\ DOMAIN stack' = DOMAIN stack \cup {Len(stack) + 1}
        /\ \A k \in DOMAIN stack : stack'[k] = Advanced[k]
        /\ stack'[Len(stack) + 1] = FrameAt(key, 1)
    <3> HIDE DEF key
    <3>1. Len(Advanced) = Len(stack)
      BY <1>2
    <3> QED
      BY <1>1, <1>2, <2>1, <3>1
  <2>3. FrameAt(key, 1).node = key /\ FrameAt(key, 1).next = 1
    BY DEF FrameAt
  <2> QED
    BY <1>1, <1>4, <2>2, <2>3
<1> QED
  BY <1>3, <1>4

\* A turn of the loop keeps the invariant.
LEMMA CollectInv == Inv /\ Collect => Inv'
<1> SUFFICES ASSUME Inv, Collect PROVE Inv'
  OBVIOUS
<1> DEFINE dep == manifests[Top.node][Top.next]
           key == <<dep.path, Selected(dep)>>
<1>1. /\ requirements' = [requirements EXCEPT ![dep.path] = Selected(dep)]
      /\ visited' = visited \cup {key}
      /\ manifests' = manifests
  BY DEF Collect
<1>2. dep \in Dependency /\ dep.path \in Paths /\ Selected(dep) \in Versions
      /\ Top.node \in visited \cup {Root}
  BY CollectStep DEF Dependency
<1>3. TypeOK'
  BY <1>1, <1>2, CollectStack DEF Inv, TypeOK
<1>4. FramesRead'
  <2> SUFFICES ASSUME NEW k \in DOMAIN stack'
               PROVE  /\ stack'[k].node \in visited' \cup {Root}
                      /\ manifests'[stack'[k].node] # None
    BY DEF FramesRead
  <2>1. CASE k \in DOMAIN stack
    BY <1>1, <2>1, CollectStack, CollectStep DEF Inv, FramesRead
  <2>2. CASE k \notin DOMAIN stack
    BY <1>1, <2>2, CollectStack
  <2> QED
    BY <2>1, <2>2
<1>5. SelectedRead'
  <2> SUFFICES ASSUME NEW p \in Paths, requirements'[p] # None
               PROVE  <<p, requirements'[p]>> \in visited'
    BY DEF SelectedRead
  <2>1. CASE p = dep.path
    BY <1>1, <1>2, <2>1 DEF Inv, TypeOK
  <2>2. CASE p # dep.path
    BY <1>1, <1>2, <2>2 DEF Inv, TypeOK, SelectedRead
  <2> QED
    BY <2>1, <2>2
<1>6. Justified'
  <2> SUFFICES ASSUME NEW p \in Paths, requirements'[p] # None
               PROVE  \E n \in visited' \cup {Root} : manifests'[n] # None /\
                         \E i \in DOMAIN manifests'[n] :
                            manifests'[n][i] = [path |-> p, min_version |-> requirements'[p]]
    BY DEF Justified
  <2>1. CASE requirements'[p] = requirements[p]
    BY <1>1, <2>1 DEF Inv, Justified
  <2>2. CASE requirements'[p] # requirements[p]
    <3>1. p = dep.path /\ requirements'[p] = Selected(dep)
      BY <1>1, <1>2, <2>2 DEF Inv, TypeOK
    <3>2. Selected(dep) = dep.min_version
      BY <2>2, <3>1, <1>2, MaxVersionIsUpperBound DEF Selected, max_version
    <3>3. dep = [path |-> p, min_version |-> requirements'[p]]
      BY <1>2, <3>1, <3>2 DEF Dependency
    <3>4. manifests[Top.node] # None /\ Top.next \in DOMAIN manifests[Top.node]
      BY CollectStep, ManifestIsSeq DEF Inv, FramesRead, Top
    <3> QED
      BY <1>1, <1>2, <3>3, <3>4
  <2> QED
    BY <2>1, <2>2
<1>7. Pending'
  <2>0. \A n \in visited' \cup {Root} : manifests[n] # None =>
           /\ manifests[n] \in Manifest
           /\ Len(manifests[n]) \in Nat
           /\ \A i \in DOMAIN manifests[n] : i \in 1..Len(manifests[n]) /\ manifests[n][i] \in Dependency
    <3> TAKE n \in visited' \cup {Root}
    <3> HAVE manifests[n] # None
    <3>1. n \in Node \cup {Root}
      BY <1>1, CollectStack DEF Inv, TypeOK
    <3>2. manifests[n] \in Manifest
      BY <3>1 DEF Inv, TypeOK
    <3> QED
      BY <3>2, ManifestIsSeq, MaxDepsAssumption
  <2> SUFFICES \A n \in visited' \cup {Root} : manifests[n] # None =>
                 \A i \in DOMAIN manifests[n] :
                    \/ \A d \in Dependency : d = manifests[n][i] => Satisfied(d)'
                    \/ \E k \in DOMAIN stack' : stack'[k].node = n /\ stack'[k].next =< i
    BY <1>1, <2>0 DEF Pending, Satisfied
  <2> TAKE n \in visited' \cup {Root}
  <2> HAVE manifests[n] # None
  <2> TAKE i \in DOMAIN manifests[n]
  <2>1. manifests[n] \in Manifest /\ i \in 1..Len(manifests[n]) /\ Len(manifests[n]) \in Nat
        /\ manifests[n][i] \in Dependency
    BY <2>0
  <2>2. CASE n \in visited \cup {Root}
    <3>1. CASE Satisfied(manifests[n][i])
      BY <2>1, <3>1, CollectRaises
    <3>2. CASE \E k \in DOMAIN stack : stack[k].node = n /\ stack[k].next =< i
      <4>1. PICK k \in DOMAIN stack : stack[k].node = n /\ stack[k].next =< i
        BY <3>2
      <4>2. CASE k = Len(stack) /\ stack[k].next = i
        BY <4>1, <4>2, <2>1, CollectRaises DEF Top
      <4>3. CASE k = Len(stack) /\ stack[k].next # i
        <5>1. stack'[k].node = n /\ stack'[k].next = stack[k].next + 1 /\ k \in DOMAIN stack'
          BY <4>1, <4>3, CollectStep, CollectStack DEF Top
        <5>2. stack[k].next \in Int
          BY <4>3, CollectStep DEF Frame, Top
        <5> QED
          BY <2>1, <4>1, <4>3, <5>1, <5>2
      <4>4. CASE k # Len(stack)
        BY <4>1, <4>4, CollectStep, CollectStack
      <4> QED
        BY <4>2, <4>3, <4>4
    <3> QED
      BY <2>2, <3>1, <3>2 DEF Inv, Pending
  <2>3. CASE n \notin visited \cup {Root}
    <3>1. n = key
      BY <1>1, <2>3
    <3>2. PICK k \in DOMAIN stack' : stack'[k].node = n /\ stack'[k].next = 1
      BY <2>3, <3>1, CollectStack
    <3> QED
      BY <2>1, <3>2
  <2> QED
    BY <2>2, <2>3
<1> QED
  BY <1>3, <1>4, <1>5, <1>6, <1>7 DEF Inv

\* Leaving a frame keeps the invariant: the frame had come to the end.
LEMMA ReturnInv == Inv /\ Return => Inv'
<1> SUFFICES ASSUME Inv, Return PROVE Inv'
  OBVIOUS
<1>1. UNCHANGED <<manifests, requirements, visited>> /\ stack' = Pop
      /\ stack # <<>> /\ Top.next > Len(manifests[Top.node])
  BY DEF Return
<1>2. stack \in Seq(Frame) /\ Len(stack) \in Nat \ {0} /\ Len(stack) \in DOMAIN stack
  BY <1>1 DEF Inv, TypeOK
<1>3. /\ stack' \in Seq(Frame)
      /\ DOMAIN stack' = DOMAIN stack \ {Len(stack)}
      /\ \A k \in DOMAIN stack' : stack'[k] = stack[k]
  BY <1>1, <1>2 DEF Pop
<1>4. TypeOK' /\ FramesRead' /\ SelectedRead' /\ Justified'
  BY <1>1, <1>3 DEF Inv, TypeOK, FramesRead, SelectedRead, Justified
<1>5. Pending'
  <2> SUFFICES ASSUME NEW n \in visited \cup {Root}, manifests[n] # None,
                      NEW i \in DOMAIN manifests[n], ~Satisfied(manifests[n][i])
               PROVE  \E k \in DOMAIN stack' : stack'[k].node = n /\ stack'[k].next =< i
    BY <1>1 DEF Pending, Satisfied
  <2>1. PICK k \in DOMAIN stack : stack[k].node = n /\ stack[k].next =< i
    BY DEF Inv, Pending
  <2>2. manifests[n] \in Manifest
    BY DEF Inv, TypeOK
  <2>3. i =< Len(manifests[n]) /\ i \in Nat /\ Len(manifests[n]) \in Nat
    BY <2>2, ManifestIsSeq, MaxDepsAssumption
  <2>4. stack[k].next \in Int
    <3>1. stack[k] \in Frame
      BY <1>2
    <3> QED
      BY <3>1, MaxDepsAssumption DEF Frame
  <2>5. k # Len(stack)
    BY <1>1, <2>1, <2>3, <2>4 DEF Top
  <2> QED
    BY <1>3, <2>1, <2>5
<1> QED
  BY <1>4, <1>5 DEF Inv

\* The walk never leaves the invariant.
THEOREM MVSInvariant == Spec => []Inv
<1>1. Inv /\ [Next]_vars => Inv'
  <2>1. Inv /\ UNCHANGED vars => Inv'
    BY DEF vars, Inv, TypeOK, FramesRead, Pending, SelectedRead, Justified, Satisfied
  <2> QED
    BY <2>1, CollectInv, ReturnInv DEF Next
<1> QED
  BY InitInv, <1>1, PTL DEF Spec

\* The build list resolve returns is closed under the requirements of what it
\* selects, and everything in it was asked for.
THEOREM MVSClosed == Spec => [](TypeOK /\ Closed /\ Justified)
<1>1. Inv => TypeOK /\ Closed /\ Justified
  <2> SUFFICES ASSUME Inv, stack = <<>>,
                      NEW n \in {Root} \cup {<<p, requirements[p]>> :
                                   p \in {q \in Paths : requirements[q] # None}},
                      manifests[n] # None, NEW i \in DOMAIN manifests[n]
               PROVE  Satisfied(manifests[n][i])
    BY DEF Inv, Closed
  <2>1. n \in visited \cup {Root}
    BY DEF Inv, SelectedRead
  <2>2. DOMAIN stack = {}
    OBVIOUS
  <2> QED
    BY <2>1, <2>2 DEF Inv, Pending
<1> QED
  BY <1>1, MVSInvariant, PTL

\* No step of the walk lowers a requirement.
THEOREM MVSNeverLowered == Spec => NeverLowered
<1> DEFINE Kept == \A p \in Paths : requirements[p] # None =>
                      /\ requirements'[p] # None
                      /\ Parsed[requirements'[p]] >= Parsed[requirements[p]]
<1>1. Inv /\ [Next]_vars => [Kept]_vars
  BY CollectRaises, ParsedAssumption DEF Next, Return, vars, Inv, TypeOK
<1> QED
  BY <1>1, MVSInvariant, PTL DEF Spec, NeverLowered

-----------------------------------------------------------------------------
(* The end of the walk. *)

\* No manifest is being read twice at a time.
Distinct == \A j, k \in DOMAIN stack : stack[j].node = stack[k].node => j = k

\* What the walk may still do: begin with a manifest (0), take its dependencies
\* one by one, and leave it.
Ahead ==
    {w \in (Node \cup {Root}) \X (0..(MaxDeps + 1)) :
        \/ w[1] \notin visited \cup {Root}
        \/ \E k \in DOMAIN stack : stack[k].node = w[1] /\ stack[k].next =< w[2]}

Shrinks == Ahead' \subseteq Ahead /\ Ahead' # Ahead

\* A turn of the loop takes one dependency, and begins only with a manifest
\* that was not read before (the test of visited in _collect_requirements).
LEMMA CollectShrinks == Inv /\ Distinct /\ Collect => Distinct' /\ Shrinks
<1> SUFFICES ASSUME Inv, Distinct, Collect PROVE Distinct' /\ Shrinks
  OBVIOUS
<1> DEFINE key == <<manifests[Top.node][Top.next].path, Selected(manifests[Top.node][Top.next])>>
           done == <<Top.node, Top.next>>
<1>1. visited' = visited \cup {key}
  BY DEF Collect
<1>2. /\ \A k \in DOMAIN stack : k \in DOMAIN stack' /\ stack'[k] = Advanced[k]
      /\ \A k \in DOMAIN stack' \ DOMAIN stack :
            k = Len(stack) + 1 /\ key \notin visited /\ stack'[k].node = key
      /\ key \in Node
  BY CollectStack
<1>3. /\ Len(stack) \in DOMAIN stack /\ Top.node \in visited \cup {Root}
      /\ \A k \in DOMAIN stack : stack'[k].node = stack[k].node
      /\ \A k \in DOMAIN stack : k # Len(stack) => stack'[k] = stack[k]
      /\ stack'[Len(stack)].next = Top.next + 1
  BY <1>2, CollectStep
<1>4. \A k \in DOMAIN stack : stack[k].node \in visited \cup {Root} /\ stack[k].next \in 1..(MaxDeps + 1)
  <2> TAKE k \in DOMAIN stack
  <2>1. stack[k] \in Frame
    BY DEF Inv, TypeOK
  <2> QED
    BY <2>1 DEF Frame, Inv, FramesRead
<1>5. key # Root
  BY <1>2, RootAssumption DEF Node
<1>6. Distinct'
  <2> SUFFICES ASSUME NEW j \in DOMAIN stack', NEW k \in DOMAIN stack', stack'[j].node = stack'[k].node
               PROVE  j = k
    BY DEF Distinct
  <2> HIDE DEF key
  <2>1. CASE j \in DOMAIN stack /\ k \in DOMAIN stack
    BY <1>3, <2>1 DEF Distinct
  <2>2. CASE j \notin DOMAIN stack \/ k \notin DOMAIN stack
    BY <1>2, <1>3, <1>4, <1>5, <2>2
  <2> QED
    BY <2>1, <2>2
<1>7. Ahead' \subseteq Ahead
  <2> SUFFICES ASSUME NEW w \in Ahead' PROVE w \in Ahead
    OBVIOUS
  <2>1. w \in (Node \cup {Root}) \X (0..(MaxDeps + 1)) /\ w[2] \in Int
    BY MaxDepsAssumption DEF Ahead
  <2>2. \/ w[1] \notin visited' \cup {Root}
        \/ \E k \in DOMAIN stack' : stack'[k].node = w[1] /\ stack'[k].next =< w[2]
    BY DEF Ahead
  <2> HIDE DEF key
  <2>3. CASE w[1] \notin visited' \cup {Root}
    BY <1>1, <2>1, <2>3 DEF Ahead
  <2>4. ASSUME NEW k \in DOMAIN stack', stack'[k].node = w[1], stack'[k].next =< w[2]
        PROVE  w \in Ahead
    <3>1. CASE k \in DOMAIN stack
      <4>1. stack[k].next =< w[2]
        BY <1>3, <1>4, <2>1, <2>4, <3>1 DEF Top
      <4> QED
        BY <1>3, <2>1, <2>4, <3>1, <4>1 DEF Ahead
    <3>2. CASE k \notin DOMAIN stack
      BY <1>2, <1>5, <2>1, <2>4, <3>2 DEF Ahead
    <3> QED
      BY <3>1, <3>2
  <2> QED
    BY <2>2, <2>3, <2>4
<1>8. done \in Ahead
  <2>1. Top.node \in Node \cup {Root} /\ Top.next \in 0..(MaxDeps + 1)
    BY CollectStep, MaxDepsAssumption DEF Frame
  <2>2. stack[Len(stack)].node = done[1] /\ stack[Len(stack)].next =< done[2]
    BY <1>3, <1>4 DEF Top
  <2> QED
    BY <1>3, <2>1, <2>2 DEF Ahead
<1>9. done \notin Ahead'
  <2> HIDE DEF key
  <2>1. done[1] \in visited' \cup {Root}
    BY <1>1, <1>3
  <2>2. ASSUME NEW k \in DOMAIN stack', stack'[k].node = done[1], stack'[k].next =< done[2]
        PROVE  FALSE
    <3>1. CASE k \in DOMAIN stack
      <4>1. k = Len(stack)
        BY <1>3, <2>2, <3>1 DEF Distinct, Top
      <4> QED
        BY <1>3, <1>4, <2>2, <4>1 DEF Top
    <3>2. CASE k \notin DOMAIN stack
      BY <1>2, <1>3, <1>5, <2>2, <3>2
    <3> QED
      BY <3>1, <3>2
  <2> QED
    BY <2>1, <2>2 DEF Ahead
<1> QED
  BY <1>6, <1>7, <1>8, <1>9 DEF Shrinks

\* So does leaving a frame.
LEMMA ReturnShrinks == Inv /\ Distinct /\ Return => Distinct' /\ Shrinks
<1> SUFFICES ASSUME Inv, Distinct, Return PROVE Distinct' /\ Shrinks
  OBVIOUS
<1> DEFINE done == <<Top.node, Top.next>>
<1>1. stack \in Seq(Frame) /\ Len(stack) \in Nat \ {0} /\ Len(stack) \in DOMAIN stack /\ Top \in Frame
  BY DEF Return, Inv, TypeOK, Top
<1>2. /\ visited' = visited /\ DOMAIN stack' = DOMAIN stack \ {Len(stack)}
      /\ \A k \in DOMAIN stack' : stack'[k] = stack[k]
  BY <1>1 DEF Return, Pop
<1>3. Distinct'
  BY <1>2 DEF Distinct
<1>4. Ahead' \subseteq Ahead
  BY <1>2 DEF Ahead
<1>5. done \in Ahead
  <2>1. done \in (Node \cup {Root}) \X (0..(MaxDeps + 1)) /\ Top.next \in Int
    BY <1>1, MaxDepsAssumption DEF Frame
  <2>2. stack[Len(stack)].node = done[1] /\ stack[Len(stack)].next =< done[2]
    BY <2>1 DEF Top
  <2> QED
    BY <1>1, <2>1, <2>2 DEF Ahead
<1>6. done \notin Ahead'
  <2>1. done[1] \in visited \cup {Root}
    BY <1>1 DEF Inv, FramesRead, Top
  <2>2. \A k \in DOMAIN stack' : stack'[k].node # done[1]
    BY <1>1, <1>2 DEF Distinct, Top
  <2> QED
    BY <1>2, <2>1, <2>2 DEF Ahead
<1> QED
  BY <1>3, <1>4, <1>5, <1>6 DEF Shrinks

\* With finitely many packages and versions every step of the walk lowers a
\* natural number: it ends, whatever the manifests say, in cycles or not.
THEOREM MVSBounded ==
    ASSUME IsFiniteSet(Paths), IsFiniteSet(Versions)
    PROVE  Spec => [][Cardinality(Ahead) \in Nat /\ Cardinality(Ahead') < Cardinality(Ahead)]_vars
<1>1. Init => Distinct
  BY DEF Init, Distinct
<1>2. Inv /\ Distinct /\ [Next]_vars => Distinct'
  BY CollectShrinks, ReturnShrinks DEF Next, vars, Distinct
<1>3. IsFiniteSet((Node \cup {Root}) \X (0..(MaxDeps + 1)))
  <2>1. IsFiniteSet(Node \cup {Root})
    BY FS_Product, FS_AddElement DEF Node
  <2>2. IsFiniteSet(0..(MaxDeps + 1))
    BY FS_Interval, MaxDepsAssumption
  <2> QED
    BY <2>1, <2>2, FS_Product
<1>4. IsFiniteSet(Ahead)
  BY <1>3, FS_Subset DEF Ahead
<1>5. Inv /\ Distinct /\ [Next]_vars =>
        [Cardinality(Ahead) \in Nat /\ Cardinality(Ahead') < Cardinality(Ahead)]_vars
  <2> SUFFICES ASSUME Inv, Distinct, Next
               PROVE  Cardinality(Ahead) \in Nat /\ Cardinality(Ahead') < Cardinality(Ahead)
    OBVIOUS
  <2>1. Shrinks
    BY CollectShrinks, ReturnShrinks DEF Next
  <2>2. Cardinality(Ahead) \in Nat
    BY <1>4, FS_CardinalityType
  <2> HIDE DEF Ahead
  <2>3. Cardinality(Ahead') < Cardinality(Ahead)
    BY <1>4, <2>1, <2>2, FS_Subset, FS_CardinalityType DEF Shrinks
  <2> QED
    BY <2>2, <2>3
<1> QED
  BY <1>1, <1>2, <1>5, MVSInvariant, PTL DEF Spec
=============================================================================
