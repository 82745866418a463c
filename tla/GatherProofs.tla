----------------------------- MODULE GatherProofs -----------------------------
(***************************************************************************)
(* For every number of thunks, every depth of their calls and whatever the *)
(* thunks do: the stack the tasks share stays balanced, thunks that the    *)
(* analysis finds unsafe do not overlap, nothing is left running, and the  *)
(* answer of the instruction is a function of what the thunks ended as.    *)
(***************************************************************************)
EXTENDS Gather, FiniteSetTheorems, SequenceTheorems, Induction, TLAPS

-----------------------------------------------------------------------------
(* The frames in progress.  FoldFunction takes the thunks in the order of   *)
(* CHOOSE; SumOver is that fold on every set of thunks.                     *)

Total(d) == FoldFunction(LAMBDA v, sum : v + sum, 0, d)

One(S) == CHOOSE x \in S : TRUE
SumsOf(d, g) == [S \in SUBSET Thunks |-> IF S = {} THEN 0 ELSE d[One(S)] + g[S \ {One(S)}]]
SumOver(d) == CHOOSE g : g = SumsOf(d, g)

LEMMA TotalIsSum == \A d \in [Thunks -> Nat] : Total(d) = SumOver(d)[Thunks]
BY DEF Total, FoldFunction, FoldFunctionOnSet, MapThenFoldSet, SumOver, SumsOf, One

LEMMA ThunksFinite == IsFiniteSet(Thunks) /\ \A S \in SUBSET Thunks : IsFiniteSet(S)
<1>1. IsFiniteSet(Thunks)
    BY NAssumption, FS_Interval DEF Thunks
<1> QED BY <1>1, FS_Subset

\* The recursive equation has a solution: the sums over the sets of at most k
\* thunks determine those over the sets of k + 1.
SumsUpTo(d, k, g) ==
    g = [S \in {T \in SUBSET Thunks : Cardinality(T) <= k} |->
            IF S = {} THEN 0 ELSE d[One(S)] + g[S \ {One(S)}]]

LEMMA SumsUpToExist ==
    ASSUME NEW d \in [Thunks -> Nat]
    PROVE  \A k \in Nat : \E g : SumsUpTo(d, k, g)
<1> DEFINE Q == {k \in Nat : \E g : SumsUpTo(d, k, g)}
<1>1. 0 \in Q
  <2> DEFINE z == [S \in {T \in SUBSET Thunks : Cardinality(T) <= 0} |-> 0]
  <2>1. \A S \in SUBSET Thunks : Cardinality(S) <= 0 => S = {}
      BY ThunksFinite, FS_EmptySet, FS_CardinalityType
  <2>2. SumsUpTo(d, 0, z)
      BY <2>1 DEF SumsUpTo
  <2> QED BY <2>2
<1>2. ASSUME NEW k \in Nat, k \in Q PROVE k + 1 \in Q
  <2>1. PICK g : SumsUpTo(d, k, g)
      BY <1>2
  <2> DEFINE h == [S \in {T \in SUBSET Thunks : Cardinality(T) <= k + 1} |->
                      IF S = {} THEN 0 ELSE d[One(S)] + g[S \ {One(S)}]]
  <2>2. \A S \in SUBSET Thunks : Cardinality(S) <= k => h[S] = g[S]
    <3>1. \A S \in SUBSET Thunks : Cardinality(S) \in Nat
        BY ThunksFinite, FS_CardinalityType
    <3> SUFFICES ASSUME NEW S \in SUBSET Thunks, Cardinality(S) <= k PROVE h[S] = g[S]
        OBVIOUS
    <3>2. S \in {T \in SUBSET Thunks : Cardinality(T) <= k}
        OBVIOUS
    <3>3. g[S] = IF S = {} THEN 0 ELSE d[One(S)] + g[S \ {One(S)}]
        BY Zenon, <2>1, <3>2 DEF SumsUpTo
    <3>4. S \in {T \in SUBSET Thunks : Cardinality(T) <= k + 1}
        BY <3>1
    <3> QED BY Zenon, <3>3, <3>4
  <2>3. \A S \in SUBSET Thunks : S # {} /\ Cardinality(S) <= k + 1 =>
            S \ {One(S)} \in SUBSET Thunks /\ Cardinality(S \ {One(S)}) <= k
    <3> SUFFICES ASSUME NEW S \in SUBSET Thunks, S # {}, Cardinality(S) <= k + 1
                 PROVE  Cardinality(S \ {One(S)}) <= k
        OBVIOUS
    <3>1. One(S) \in S
        BY DEF One
    <3>2. IsFiniteSet(S) /\ Cardinality(S) \in Nat
        BY ThunksFinite, FS_CardinalityType
    <3>3. Cardinality(S \ {One(S)}) = Cardinality(S) - 1
        BY <3>1, <3>2, FS_RemoveElement
    <3> QED BY <3>2, <3>3
  <2>4. SumsUpTo(d, k + 1, h)
      BY <2>2, <2>3 DEF SumsUpTo
  <2> QED BY <2>4
<1> HIDE DEF Q
<1>3. \A k \in Nat : k \in Q
    BY <1>1, <1>2, NatSetInduction
<1> QED BY <1>3 DEF Q

LEMMA SumOverDef ==
    ASSUME NEW d \in [Thunks -> Nat]
    PROVE  SumOver(d) = SumsOf(d, SumOver(d))
<1>1. \A S \in SUBSET Thunks : Cardinality(S) <= N
  <2>1. Cardinality(Thunks) = N
      BY NAssumption, FS_Interval DEF Thunks
  <2> QED BY <2>1, ThunksFinite, FS_Subset
<1>2. PICK g : SumsUpTo(d, N, g)
    BY SumsUpToExist, NAssumption
<1>3. {T \in SUBSET Thunks : Cardinality(T) <= N} = SUBSET Thunks
    BY <1>1
<1>4. g = SumsOf(d, g)
    BY Zenon, <1>2, <1>3 DEF SumsUpTo, SumsOf
<1> QED BY Zenon, <1>4 DEF SumOver

LEMMA SumOverEquation ==
    ASSUME NEW d \in [Thunks -> Nat]
    PROVE  /\ SumOver(d)[{}] = 0
           /\ \A S \in SUBSET Thunks : S # {} =>
                /\ One(S) \in S
                /\ SumOver(d)[S] = d[One(S)] + SumOver(d)[S \ {One(S)}]
<1>1. \A S \in SUBSET Thunks :
        SumOver(d)[S] = IF S = {} THEN 0 ELSE d[One(S)] + SumOver(d)[S \ {One(S)}]
  <2> DEFINE f == SumOver(d)
  <2>1. f = SumsOf(d, f)
      BY SumOverDef
  <2> HIDE DEF f
  <2>2. \A S \in SUBSET Thunks : f[S] = IF S = {} THEN 0 ELSE d[One(S)] + f[S \ {One(S)}]
      BY Zenon, <2>1 DEF SumsOf
  <2> QED BY <2>2 DEF f
<1>2. \A S : S # {} => One(S) \in S
    BY DEF One
<1> QED BY Zenon, <1>1, <1>2

\* A sum is a natural number, at least every one of its terms, and changes with
\* a term as it should.
LEMMA SumOverType ==
    ASSUME NEW d \in [Thunks -> Nat]
    PROVE  \A S \in SUBSET Thunks : SumOver(d)[S] \in Nat
<1> DEFINE Q == {S \in SUBSET Thunks : SumOver(d)[S] \in Nat}
<1>1. ASSUME NEW S \in SUBSET Thunks, \A U \in SUBSET S : U # S => U \in Q
      PROVE  S \in Q
  <2>1. CASE S = {}
      BY <2>1, SumOverEquation
  <2>2. CASE S # {}
    <3>1. One(S) \in S /\ SumOver(d)[S] = d[One(S)] + SumOver(d)[S \ {One(S)}]
        BY <2>2, SumOverEquation
    <3>2. S \ {One(S)} \in Q
        BY <1>1, <3>1
    <3> QED BY <3>1, <3>2
  <2> QED BY <2>1, <2>2
<1> HIDE DEF Q
<1>2. \A S \in SUBSET Thunks : S \in Q
    BY <1>1, ThunksFinite, SubsetInduction
<1> QED BY <1>2 DEF Q

LEMMA SumOverUpdate ==
    ASSUME NEW d \in [Thunks -> Nat], NEW i \in Thunks, NEW n \in Nat
    PROVE  \A S \in SUBSET Thunks :
              SumOver([d EXCEPT ![i] = n])[S] + (IF i \in S THEN d[i] ELSE 0)
                = SumOver(d)[S] + (IF i \in S THEN n ELSE 0)
<1> DEFINE e == [d EXCEPT ![i] = n]
           Q == {S \in SUBSET Thunks : SumOver(e)[S] + (IF i \in S THEN d[i] ELSE 0)
                                        = SumOver(d)[S] + (IF i \in S THEN n ELSE 0)}
<1>1. e \in [Thunks -> Nat] /\ \A j \in Thunks : e[j] = IF j = i THEN n ELSE d[j]
    OBVIOUS
<1> HIDE DEF e
<1>2. ASSUME NEW S \in SUBSET Thunks, \A U \in SUBSET S : U # S => U \in Q
      PROVE  S \in Q
  <2>1. CASE S = {}
      BY <1>1, <2>1, SumOverEquation
  <2>2. CASE S # {}
    <3> DEFINE x == One(S)
               U == S \ {x}
    <3>1. x \in S /\ SumOver(d)[S] = d[x] + SumOver(d)[U] /\ SumOver(e)[S] = e[x] + SumOver(e)[U]
        BY <1>1, <2>2, SumOverEquation
    <3> HIDE DEF x
    <3>2. U \in Q
        BY <1>2, <3>1
    <3>3. SumOver(d)[U] \in Nat /\ SumOver(e)[U] \in Nat
        BY <1>1, SumOverType
    <3>4. i \in S <=> (i \in U \/ i = x)
        BY <3>1
    <3> QED BY <1>1, <3>1, <3>2, <3>3, <3>4
  <2> QED BY <2>1, <2>2
<1> HIDE DEF Q
<1>3. \A S \in SUBSET Thunks : S \in Q
    BY <1>2, ThunksFinite, SubsetInduction
<1> QED BY <1>3 DEF Q, e

\* The frames of all thunks, when a thunk has n frames instead of d[i].
LEMMA TotalUpdate ==
    ASSUME NEW d \in [Thunks -> Nat], NEW i \in Thunks, NEW n \in Nat
    PROVE  /\ Total(d) \in Nat /\ Total(d) >= d[i]
           /\ Total([d EXCEPT ![i] = n]) = Total(d) - d[i] + n
<1>1. [d EXCEPT ![i] = n] \in [Thunks -> Nat] /\ [d EXCEPT ![i] = 0] \in [Thunks -> Nat]
    OBVIOUS
<1>2. Total(d) = SumOver(d)[Thunks] /\ Total([d EXCEPT ![i] = n]) = SumOver([d EXCEPT ![i] = n])[Thunks]
    BY <1>1, TotalIsSum
<1>3. SumOver(d)[Thunks] \in Nat /\ SumOver([d EXCEPT ![i] = 0])[Thunks] \in Nat
      /\ SumOver([d EXCEPT ![i] = n])[Thunks] \in Nat
    BY <1>1, SumOverType
<1>4. SumOver([d EXCEPT ![i] = n])[Thunks] + d[i] = SumOver(d)[Thunks] + n
    BY SumOverUpdate
<1>5. SumOver([d EXCEPT ![i] = 0])[Thunks] + d[i] = SumOver(d)[Thunks] + 0
    BY SumOverUpdate
<1> QED BY <1>2, <1>3, <1>4, <1>5

LEMMA TotalZero == Total([i \in Thunks |-> 0]) = 0
<1> DEFINE d == [i \in Thunks |-> 0]
           Q == {S \in SUBSET Thunks : SumOver(d)[S] = 0}
<1>1. d \in [Thunks -> Nat] /\ \A i \in Thunks : d[i] = 0
    OBVIOUS
<1> HIDE DEF d
<1>2. ASSUME NEW S \in SUBSET Thunks, \A U \in SUBSET S : U # S => U \in Q
      PROVE  S \in Q
  <2>1. CASE S = {}
      BY <1>1, <2>1, SumOverEquation
  <2>2. CASE S # {}
    <3>1. One(S) \in S /\ SumOver(d)[S] = d[One(S)] + SumOver(d)[S \ {One(S)}]
        BY <1>1, <2>2, SumOverEquation
    <3>2. S \ {One(S)} \in Q
        BY <1>2, <3>1
    <3> QED BY <1>1, <3>1, <3>2
  <2> QED BY <2>1, <2>2
<1> HIDE DEF Q
<1>3. Thunks \in Q
    BY <1>2, ThunksFinite, SubsetInduction
<1>4. SumOver(d)[Thunks] = 0
    BY <1>3 DEF Q
<1> QED BY <1>1, <1>4, TotalIsSum DEF d

-----------------------------------------------------------------------------
(* The inductive invariant. *)

\* A thunk has frames on the stack exactly while it runs, and the stack holds
\* these frames on top of that of the instruction.
FramesOfRunning == \A i \in Thunks : thunk[i] = "running" <=> depth[i] # 0
Balanced == Len(stack) = 1 + Total(depth) /\ stack[1] = 0

\* What each place of the opcode knows.  The sequential path is at thunk c: those
\* before it let the loop go on, those after it have not begun.
Current(c) ==
    /\ thunk[c] \in {"ready", "running"}
    /\ \A j \in Thunks : j < c => thunk[j] \in Outcomes /\ GoesOn(thunk[j])
    /\ \A j \in Thunks : j > c => thunk[j] = "new"
AtStart == pc = "start" => ~hostCancel /\ cancelReq = {} /\ \A i \in Thunks : thunk[i] = "new"
AtSeq == pc = "seq" => ~ThunksAreConcurrencySafe /\ cancelReq = {} /\ \E c \in Thunks : Current(c)
AtWait == pc \in {"wait", "cancelling"} => ThunksAreConcurrencySafe
AtRaceWait == pc = "wait" /\ mode = "race" => ~hostCancel /\ cancelReq = {}
\* What asyncio.wait reports as done ended before everything else, and nobody
\* cancelled it.
AtCancelling ==
    pc = "cancelling" =>
        /\ mode = "race" /\ doneAtWake # {} /\ doneAtWake \subseteq EndedThunks \ cancelReq
        /\ \A i \in doneAtWake, j \in Thunks : Overtook(j, i) => j \in doneAtWake
UnsafeDone == Finished /\ ~ThunksAreConcurrencySafe => \A i \in Thunks : thunk[i] \notin {"ready", "running"}
OrderEnded == \A m \in DOMAIN order : Ended(order[m])
\* Without overlap the frames are those of the thunk that runs.
OwnFrames == ~ThunksAreConcurrencySafe => \A k \in 2..Len(stack) : stack[k] \in Running

IInv ==
    /\ TypeOK /\ FramesOfRunning /\ Balanced
    /\ AtStart /\ AtSeq /\ AtWait /\ AtRaceWait /\ AtCancelling /\ UnsafeDone /\ OrderEnded
    /\ OwnFrames /\ NoOrphans /\ ResultByOutcomes

-----------------------------------------------------------------------------
(* The lists an answer is made of. *)

LEMMA MinIsIn == \A S \in SUBSET Thunks : S # {} => Min(S) \in S /\ \A i \in S : Min(S) <= i
<1> SUFFICES ASSUME NEW S \in SUBSET Thunks, S # {}
             PROVE  Min(S) \in S /\ \A i \in S : Min(S) <= i
    OBVIOUS
<1>1. S \in SUBSET Nat
    BY NAssumption DEF Thunks
<1>2. \E x \in S : \A y \in S : x <= y
    BY <1>1, LeastNat
<1> QED BY <1>2 DEF Min

LEMMA InOrderIsSeq == \A S \in SUBSET Thunks : InOrder(S) \in Seq(Thunks)
<1> SUFFICES ASSUME NEW S \in SUBSET Thunks PROVE InOrder(S) \in Seq(Thunks)
    OBVIOUS
<1>1. Cardinality(S) \in Nat
    BY ThunksFinite, FS_CardinalityType
<1>2. \A k \in 1..Cardinality(S) :
        (CHOOSE i \in S : Cardinality({j \in S : j < i}) = k - 1) \in Thunks
  <2>1. S \in SUBSET Nat /\ IsFiniteSet(S)
      BY ThunksFinite, NAssumption DEF Thunks
  <2>2. \A k \in 1..Cardinality(S) : \E i \in S : Cardinality({j \in S : j < i}) = k - 1
      BY <2>1, KthExists
  <2> QED BY <2>2
<1>3. InOrder(S) \in [1..Cardinality(S) -> Thunks]
    BY <1>2 DEF InOrder
<1> QED BY <1>1, <1>3, SeqDef

LEMMA ErrorsAreThunks == \A f : Errors(f) \in SUBSET Thunks
BY DEF Errors

-----------------------------------------------------------------------------
(* The stack. *)

\* n frames leave the stack, whose first frame stays.
LEMMA PopStack ==
    ASSUME NEW s \in Seq(0..N), NEW n \in Nat, n < Len(s), s[1] = 0
    PROVE  LET t == SubSeq(s, 1, IF n < Len(s) THEN Len(s) - n ELSE 0)
           IN  t \in Seq(0..N) /\ Len(t) = Len(s) - n /\ t[1] = 0
<1> DEFINE m == Len(s) - n
<1>0. Len(s) \in Nat /\ \A i \in 1..Len(s) : s[i] \in 0..N
    BY LenProperties, ElementOfSeq
<1>1. Len(s) \in Nat /\ m \in 1..Len(s) /\ \A i \in 1..Len(s) : s[i] \in 0..N
    BY <1>0
<1> HIDE DEF m
<1>2. /\ SubSeq(s, 1, m) \in Seq(0..N) /\ Len(SubSeq(s, 1, m)) = m
      /\ SubSeq(s, 1, m)[1] = s[1]
  <2>1. \A i \in 1..m : s[i] \in 0..N
      BY <1>1
  <2> QED BY <1>1, <2>1, SubSeqProperties
<1> QED BY <1>2 DEF m

StackOK == depth \in [Thunks -> 0..MaxDepth] /\ stack \in Seq(0..N) /\ Balanced

\* The stack has room for the frames of every thunk above the first one.
LEMMA StackHolds ==
    ASSUME StackOK, NEW i \in Thunks
    PROVE  /\ depth \in [Thunks -> Nat] /\ depth[i] \in Nat /\ Len(stack) \in Nat
           /\ Total(depth) \in Nat /\ Len(stack) = 1 + Total(depth) /\ depth[i] < Len(stack)
<1>1. depth \in [Thunks -> Nat] /\ depth[i] \in Nat
    BY MaxDepthAssumption DEF StackOK
<1>2. Total(depth) \in Nat /\ Total(depth) >= depth[i]
    BY <1>1, TotalUpdate
<1> QED BY <1>1, <1>2 DEF StackOK, Balanced

LEMMA StackGrows ==
    ASSUME StackOK, NEW i \in Thunks, NEW n \in Nat
    PROVE  Total([depth EXCEPT ![i] = n]) = Total(depth) - depth[i] + n
BY StackHolds, TotalUpdate

\* A call.
LEMMA PushKeepsStack ==
    ASSUME StackOK, NEW i \in Thunks, depth[i] < MaxDepth, Push(i) PROVE StackOK'
<1>1. depth' = [depth EXCEPT ![i] = depth[i] + 1] /\ stack' = Append(stack, i)
    BY DEF Push
<1>2. depth' \in [Thunks -> 0..MaxDepth]
    BY <1>1, MaxDepthAssumption DEF StackOK
<1>3. i \in 0..N
    BY NAssumption DEF Thunks
<1>4. stack \in Seq(0..N) /\ stack[1] = 0
    BY DEF StackOK, Balanced
<1>5. depth[i] \in Nat /\ Total(depth) \in Nat /\ Len(stack) \in Nat /\ Len(stack) = 1 + Total(depth)
    BY StackHolds
<1>6. Total(depth') = Total(depth) + 1
  <2>1. Total([depth EXCEPT ![i] = depth[i] + 1]) = Total(depth) - depth[i] + (depth[i] + 1)
    <3>1. depth[i] + 1 \in Nat
        BY <1>5
    <3> QED BY <3>1, StackGrows
  <2> QED BY <1>1, <1>5, <2>1
<1>7. stack' \in Seq(0..N) /\ Len(stack') = Len(stack) + 1 /\ stack'[1] = stack[1]
    BY <1>1, <1>3, <1>4, <1>5, AppendProperties
<1> QED BY <1>2, <1>4, <1>5, <1>6, <1>7 DEF StackOK, Balanced

\* A return, or an exception that leaves n frames.
LEMMA PopKeepsStack ==
    ASSUME StackOK, NEW i \in Thunks, NEW n \in 0..depth[i], Pop(i, n) PROVE StackOK'
<1>1. depth' = [depth EXCEPT ![i] = depth[i] - n]
    BY Zenon DEF Pop
<1>2. depth[i] \in 0..MaxDepth /\ n \in Nat /\ depth[i] - n \in 0..depth[i]
    BY MaxDepthAssumption DEF StackOK
<1>3. depth' \in [Thunks -> 0..MaxDepth]
    BY <1>1, <1>2, MaxDepthAssumption DEF StackOK
<1>4. stack \in Seq(0..N) /\ stack[1] = 0 /\ Len(stack) = 1 + Total(depth)
    BY DEF StackOK, Balanced
<1>5. n < Len(stack) /\ Total(depth) \in Nat /\ Total(depth') = Total(depth) - n
  <2>1. Total(depth) \in Nat /\ depth[i] < Len(stack) /\ depth[i] \in Nat /\ Len(stack) \in Nat
      BY StackHolds
  <2>2. Total([depth EXCEPT ![i] = depth[i] - n]) = Total(depth) - depth[i] + (depth[i] - n)
      BY <1>2, StackGrows
  <2> QED BY <1>1, <1>2, <2>1, <2>2
<1>6. stack' \in Seq(0..N) /\ Len(stack') = Len(stack) - n /\ stack'[1] = 0
    BY <1>2, <1>4, <1>5, PopStack DEF Pop
<1> QED BY <1>2, <1>3, <1>4, <1>5, <1>6 DEF StackOK, Balanced

\* A tail call replaces the top of the stack, which is not the first frame.
LEMMA ReplaceKeepsStack ==
    ASSUME StackOK, NEW i \in Thunks, depth[i] # 0,
           stack' = [stack EXCEPT ![Len(stack)] = i], UNCHANGED depth
    PROVE  StackOK'
<1>1. depth[i] \in Nat /\ depth[i] < Len(stack) /\ Len(stack) \in Nat
    BY StackHolds
<1>2. i \in 0..N
    BY NAssumption DEF Thunks
<1>3. Len(stack) \in 2..Len(stack) /\ stack \in Seq(0..N)
    BY <1>1 DEF StackOK
<1>4. stack' \in Seq(0..N) /\ Len(stack') = Len(stack) /\ stack'[1] = stack[1]
    BY <1>2, <1>3, ExceptSeq
<1> QED BY <1>4 DEF StackOK, Balanced

LEMMA LeaveKeepsStack ==
    ASSUME StackOK, FramesOfRunning, NEW i \in Thunks, NEW o \in Outcomes,
           May(i, o), thunk \in [Thunks -> {"new", "ready", "running"} \cup Outcomes],
           NEW f, f \in {thunk, [thunk EXCEPT ![i + 1] = "ready"]},
           i + 1 \in Thunks => thunk[i + 1] = "new" \/ f = thunk,
           thunk' = [f EXCEPT ![i] = o], Pop(i, depth[i])
    PROVE  StackOK' /\ FramesOfRunning'
<1>1. depth[i] \in 0..depth[i] /\ depth' = [depth EXCEPT ![i] = 0]
  <2>1. depth[i] \in 0..depth[i] /\ depth[i] - depth[i] = 0
      BY StackHolds
  <2> QED BY Zenon, <2>1 DEF Pop
<1>2. StackOK'
    BY <1>1, PopKeepsStack
<1>3. o # "running"
    BY DEF Outcomes
<1>4. \A j \in Thunks : j # i => (thunk'[j] = "running" <=> thunk[j] = "running")
    BY DEF Thunks
<1>5. thunk'[i] = o
    BY DEF Thunks
<1>6. FramesOfRunning'
    BY <1>1, <1>3, <1>4, <1>5 DEF FramesOfRunning, StackOK
<1> QED BY <1>2, <1>6

-----------------------------------------------------------------------------
(* Steps.  Stack and types first, then what the opcode knows. *)

ThunkType == thunk \in [Thunks -> {"new", "ready", "running"} \cup Outcomes]

LEMMA StackStep == IInv /\ [Next]_vars => StackOK' /\ FramesOfRunning'
<1> SUFFICES ASSUME IInv, [Next]_vars PROVE StackOK' /\ FramesOfRunning'
    OBVIOUS
<1>0. StackOK /\ FramesOfRunning /\ ThunkType
    BY DEF IInv, TypeOK, StackOK, ThunkType
<1>1. CASE UNCHANGED <<depth, stack, thunk>>
    BY <1>0, <1>1 DEF StackOK, Balanced, FramesOfRunning
<1>2. CASE Start
  <2>1. UNCHANGED <<depth, stack>> /\ \A i \in Thunks : thunk[i] # "running" /\ thunk'[i] # "running"
      BY <1>0, <1>2 DEF Start, IInv, AtStart, ThunkType
  <2> QED BY <1>0, <2>1 DEF StackOK, Balanced, FramesOfRunning
<1>3. ASSUME NEW i \in Thunks, Enter(i) PROVE StackOK' /\ FramesOfRunning'
  <2>1. depth[i] = 0 /\ Push(i) /\ thunk' = [thunk EXCEPT ![i] = "running"]
      BY <1>0, <1>3 DEF Enter, FramesOfRunning
  <2>2. StackOK'
      BY <1>0, <2>1, MaxDepthAssumption, PushKeepsStack
  <2> QED BY <1>0, <2>1, <2>2 DEF Push, FramesOfRunning, StackOK, ThunkType
<1>4. ASSUME NEW i \in Thunks, Inside(i) PROVE StackOK' /\ FramesOfRunning'
  <2>1. depth[i] # 0 /\ depth[i] \in Nat /\ UNCHANGED thunk /\ thunk[i] = "running"
      BY <1>0, <1>4, StackHolds DEF Inside, FramesOfRunning
  <2>2. CASE depth[i] < MaxDepth /\ Push(i)
    <3>1. StackOK'
        BY <1>0, <2>2, PushKeepsStack
    <3> QED BY <1>0, <2>1, <2>2, <3>1 DEF Push, FramesOfRunning, StackOK
  <2>3. CASE stack' = [stack EXCEPT ![Len(stack)] = i] /\ UNCHANGED depth
    <3>1. StackOK'
        BY <1>0, <2>1, <2>3, ReplaceKeepsStack
    <3> QED BY <1>0, <2>1, <2>3, <3>1 DEF FramesOfRunning
  <2>4. CASE depth[i] > 1 /\ Pop(i, 1)
    <3>1. 1 \in 0..depth[i]
        BY <2>1, <2>4
    <3>2. StackOK'
        BY <1>0, <2>4, <3>1, PopKeepsStack
    <3> QED BY <1>0, <2>1, <2>4, <3>2 DEF Pop, FramesOfRunning, StackOK
  <2> QED BY <1>4, <2>2, <2>3, <2>4 DEF Inside
<1>5. ASSUME NEW i \in Thunks, NEW o \in Outcomes, TaskEnd(i, o) \/ SeqEnd(i, o)
      PROVE  StackOK' /\ FramesOfRunning'
  <2>1. May(i, o) /\ thunk' = [thunk EXCEPT ![i] = o] /\ Pop(i, depth[i])
      BY <1>5 DEF TaskEnd, SeqEnd, Leave
  <2> QED BY <1>0, <2>1, LeaveKeepsStack DEF ThunkType
<1>6. ASSUME NEW i \in Thunks, NEW o \in Outcomes, SeqNext(i, o)
      PROVE  StackOK' /\ FramesOfRunning'
  <2>1. May(i, o) /\ Pop(i, depth[i]) /\ i < N /\ pc = "seq"
        /\ thunk' = [thunk EXCEPT ![i] = o, ![i + 1] = "ready"]
      BY <1>6 DEF SeqNext
  <2>2. PICK c \in Thunks : Current(c)
      BY <2>1 DEF IInv, AtSeq
  <2>3. c = i
      BY <2>1, <2>2 DEF May, Current, Outcomes, Thunks
  <2>4. i + 1 \in Thunks /\ i + 1 # i /\ thunk[i + 1] = "new"
      BY <2>1, <2>2, <2>3, NAssumption DEF Current, Thunks
  <2> DEFINE f == [thunk EXCEPT ![i + 1] = "ready"]
  <2>5. thunk' = [f EXCEPT ![i] = o]
      BY <1>0, <2>1, <2>4 DEF ThunkType
  <2> HIDE DEF f
  <2>6. f \in {thunk, [thunk EXCEPT ![i + 1] = "ready"]}
      BY DEF f
  <2> QED BY <1>0, <2>1, <2>4, <2>5, <2>6, LeaveKeepsStack DEF ThunkType
<1>7. CASE GatherWake \/ RaceWake \/ RaceReturn \/ HostCancel
    BY <1>1, <1>7 DEF GatherWake, RaceWake, RaceReturn, HostCancel
<1> QED BY <1>1, <1>2, <1>3, <1>4, <1>5, <1>6, <1>7 DEF Next, ThunkStep, vars

ResultKinds == {"none", "tuple", "value", "aggregate", "raise", "cancelled"}
ControlType ==
    /\ mode \in Modes /\ kind \in [Thunks -> Kinds]
    /\ pc \in {"start", "wait", "cancelling", "seq", "finished"}
    /\ ThunkType /\ order \in Seq(Thunks)
    /\ doneAtWake \subseteq Thunks /\ cancelReq \subseteq Thunks
    /\ hostCancel \in BOOLEAN
    /\ result \in [kind : ResultKinds, of : Seq(Thunks)]

LEMMA FinishType ==
    ASSUME NEW k \in ResultKinds, NEW of \in Seq(Thunks), Finish(k, of)
    PROVE  pc' = "finished" /\ result' \in [kind : ResultKinds, of : Seq(Thunks)]
BY DEF Finish

LEMMA SingletonIsSeq == \A i \in Thunks : <<i>> \in Seq(Thunks)
OBVIOUS

LEMMA TypeStep == IInv /\ [Next]_vars => ControlType'
<1> SUFFICES ASSUME IInv, [Next]_vars PROVE ControlType'
    OBVIOUS
<1>0. ControlType
    BY DEF IInv, TypeOK, ControlType, ThunkType, ResultKinds
<1>1. CASE UNCHANGED vars
    BY <1>0, <1>1 DEF vars, ControlType, ThunkType
<1>2. CASE Start
    BY <1>0, <1>2 DEF Start, fixed, ControlType, ThunkType
<1>3. ASSUME NEW i \in Thunks, Enter(i) \/ Inside(i) PROVE ControlType'
    BY <1>0, <1>3 DEF Enter, Inside, fixed, ControlType, ThunkType
<1>4. ASSUME NEW i \in Thunks, NEW o \in Outcomes, TaskEnd(i, o) \/ SeqEnd(i, o) \/ SeqNext(i, o)
      PROVE  ControlType'
  <2>1. order' = Append(order, i) /\ UNCHANGED <<fixed, doneAtWake, cancelReq, hostCancel>>
      BY <1>4 DEF TaskEnd, SeqEnd, SeqNext, Leave
  <2>2. order' \in Seq(Thunks)
      BY <1>0, <2>1, AppendProperties DEF ControlType
  <2>3. ThunkType'
      BY <1>0, <1>4 DEF TaskEnd, SeqEnd, SeqNext, Leave, ControlType, ThunkType
  <2>4. CASE UNCHANGED <<pc, result>>
      BY <1>0, <2>1, <2>2, <2>3, <2>4 DEF fixed, ControlType
  <2>5. CASE ~ UNCHANGED <<pc, result>>
    <3>1. SeqEnd(i, o)
        BY <1>4, <2>5 DEF TaskEnd, SeqNext
    <3>2. Thunks \in SUBSET Thunks /\ Errors(thunk') \in SUBSET Thunks
        BY ErrorsAreThunks
    <3>3. \E k \in ResultKinds, of \in Seq(Thunks) : Finish(k, of)
      <4>1. CASE \E k \in {"value", "raise"} : Finish(k, <<i>>)
          BY <4>1, SingletonIsSeq DEF ResultKinds
      <4>2. CASE IF Errors(thunk') = {} THEN Finish("tuple", InOrder(Thunks))
                 ELSE Finish("aggregate", InOrder(Errors(thunk')))
          BY <3>2, <4>2, InOrderIsSeq DEF ResultKinds
      <4> QED BY <3>1, <4>1, <4>2 DEF SeqEnd
    <3>4. pc' = "finished" /\ result' \in [kind : ResultKinds, of : Seq(Thunks)]
        BY <3>3, FinishType
    <3> QED BY <1>0, <2>1, <2>2, <2>3, <3>4 DEF fixed, ControlType
  <2> QED BY <2>4, <2>5
<1>5. CASE GatherWake
  <2>1. Thunks \in SUBSET Thunks /\ Errors(thunk) \in SUBSET Thunks /\ <<>> \in Seq(Thunks)
      BY ErrorsAreThunks
  <2>2. Errors(thunk) # {} => <<Min(Errors(thunk))>> \in Seq(Thunks)
      BY <2>1, MinIsIn, SingletonIsSeq
  <2>3. \E k \in ResultKinds, of \in Seq(Thunks) : Finish(k, of)
      BY <1>5, <2>1, <2>2, InOrderIsSeq DEF GatherWake, ResultKinds
  <2>4. pc' = "finished" /\ result' \in [kind : ResultKinds, of : Seq(Thunks)]
      BY <2>3, FinishType
  <2> QED BY <1>0, <1>5, <2>4 DEF GatherWake, fixed, ControlType, ThunkType
<1>6. CASE RaceWake
    BY <1>0, <1>6 DEF RaceWake, EndedThunks, fixed, ControlType, ThunkType
<1>7. CASE RaceReturn
  <2>1. doneAtWake # {} /\ doneAtWake \in SUBSET Thunks
      BY <1>0, <1>7 DEF RaceReturn, IInv, AtCancelling, ControlType
  <2>2. <<Min(doneAtWake)>> \in Seq(Thunks)
      BY <2>1, MinIsIn, SingletonIsSeq
  <2>3. \E k \in ResultKinds, of \in Seq(Thunks) : Finish(k, of)
      BY <1>7, <2>2 DEF RaceReturn, ResultKinds
  <2>4. pc' = "finished" /\ result' \in [kind : ResultKinds, of : Seq(Thunks)]
      BY <2>3, FinishType
  <2> QED BY <1>0, <1>7, <2>4 DEF RaceReturn, fixed, ControlType, ThunkType
<1>8. CASE HostCancel
  <2>1. CASE UNCHANGED <<pc, result>>
    <3>1. cancelReq' \subseteq Thunks
        BY <1>0, <1>8 DEF HostCancel, Finish, ControlType
    <3> QED BY <1>0, <1>8, <2>1, <3>1 DEF HostCancel, fixed, ControlType, ThunkType
  <2>2. CASE Finish("cancelled", <<>>) /\ UNCHANGED cancelReq
    <3>1. pc' = "finished" /\ result' \in [kind : ResultKinds, of : Seq(Thunks)]
        BY <2>2, FinishType, EmptySeq DEF ResultKinds
    <3> QED BY <1>0, <1>8, <2>2, <3>1 DEF HostCancel, fixed, ControlType, ThunkType
  <2> QED BY <1>8, <2>1, <2>2 DEF HostCancel
<1> QED BY <1>1, <1>2, <1>3, <1>4, <1>5, <1>6, <1>7, <1>8 DEF Next, ThunkStep

-----------------------------------------------------------------------------
(* What the opcode knows, action by action. *)

Knows == /\ AtStart /\ AtSeq /\ AtWait /\ AtRaceWait /\ AtCancelling /\ UnsafeDone /\ OrderEnded
         /\ NoOrphans /\ ResultByOutcomes

LEMMA InitKnows == Init => IInv
<1> SUFFICES ASSUME Init PROVE IInv
    OBVIOUS
<1>1. depth = [i \in Thunks |-> 0] /\ stack = <<0>>
    BY DEF Init
<1>2. stack \in Seq(0..N) /\ Len(stack) = 1 /\ stack[1] = 0
    BY <1>1, NAssumption
<1>3. Balanced
    BY <1>1, <1>2, TotalZero DEF Balanced
<1>4. TypeOK
  <2>1. depth \in [Thunks -> 0..MaxDepth] /\ <<>> \in Seq(Thunks)
      BY <1>1, MaxDepthAssumption, EmptySeq
  <2> QED BY <1>2, <2>1 DEF Init, TypeOK
<1>5. Knows
    BY DEF Init, Knows, AtStart, AtSeq, AtWait, AtRaceWait, AtCancelling, UnsafeDone, OrderEnded,
           NoOrphans, ResultByOutcomes, CollectedByOutcomes, RaceAnswers, Finished
<1>6. FramesOfRunning
    BY DEF Init, FramesOfRunning
<1>7. OwnFrames
    BY <1>2 DEF OwnFrames
<1> QED BY <1>3, <1>4, <1>5, <1>6, <1>7 DEF IInv, Knows

LEMMA StartKnows == IInv /\ Start => Knows'
<1> SUFFICES ASSUME IInv, Start PROVE Knows'
    OBVIOUS
<1>0. ThunkType /\ AtStart /\ OrderEnded /\ pc = "start" /\ 1 \in Thunks /\ \A j \in Thunks : ~(j < 1)
    BY NAssumption DEF IInv, TypeOK, ThunkType, Start, Thunks
<1>1. /\ ~hostCancel' /\ cancelReq' = {} /\ UNCHANGED <<fixed, order>>
      /\ ThunksAreConcurrencySafe' <=> ThunksAreConcurrencySafe
    BY <1>0 DEF Start, AtStart, ThunksAreConcurrencySafe, fixed
<1>2. (NoOrphans /\ ResultByOutcomes)'
  <2>1. pc' # "finished"
      BY DEF Start
  <2> QED BY <2>1 DEF NoOrphans, ResultByOutcomes, CollectedByOutcomes, RaceAnswers, Finished
<1>3. OrderEnded'
  <2>1. \A m \in DOMAIN order : order[m] \in Thunks
      BY ElementOfSeq, LenProperties DEF IInv, TypeOK
  <2>2. \A m \in DOMAIN order : FALSE
      BY <1>0, <2>1 DEF AtStart, OrderEnded, Ended, Outcomes
  <2> QED BY <1>1, <2>2 DEF OrderEnded
<1>4. CASE ThunksAreConcurrencySafe
  <2>1. pc' = "wait"
      BY <1>4 DEF Start
  <2> QED BY <1>1, <1>2, <1>3, <1>4, <2>1
          DEF Knows, AtStart, AtSeq, AtWait, AtRaceWait, AtCancelling, UnsafeDone, Finished
<1>5. CASE ~ThunksAreConcurrencySafe
  <2>1. pc' = "seq" /\ thunk' = [thunk EXCEPT ![1] = "ready"]
      BY <1>5 DEF Start
  <2>2. thunk'[1] = "ready" /\ \A j \in Thunks : j > 1 => thunk'[j] = "new"
      BY <1>0, <2>1 DEF ThunkType, AtStart
  <2>3. Current(1)'
      BY <1>0, <2>2 DEF Current
  <2>4. AtSeq'
      BY <1>0, <1>1, <1>5, <2>3 DEF AtSeq
  <2> QED BY <1>1, <1>2, <1>3, <2>1, <2>4
          DEF Knows, AtStart, AtWait, AtRaceWait, AtCancelling, UnsafeDone, Finished
<1> QED BY <1>4, <1>5

\* Without overlap, the thunk that can do something is the current one.
LEMMA OnlyCurrentActs ==
    ASSUME IInv, NEW i \in Thunks, thunk[i] \in {"ready", "running"}
    PROVE  /\ pc = "seq" => ~ThunksAreConcurrencySafe /\ Current(i) /\ cancelReq = {}
           /\ ~ThunksAreConcurrencySafe => pc = "seq"
<1>1. CASE pc = "seq"
  <2>1. PICK c \in Thunks : Current(c)
      BY <1>1 DEF IInv, AtSeq
  <2>2. c = i
      BY <2>1 DEF Current, Outcomes, Thunks
  <2> QED BY <1>1, <2>1, <2>2 DEF IInv, AtSeq
<1>2. CASE pc # "seq"
  <2>1. pc \in {"start", "wait", "cancelling", "finished"} /\ pc # "start"
      BY <1>2 DEF IInv, TypeOK, AtStart
  <2> QED BY <1>2, <2>1 DEF IInv, AtWait, UnsafeDone, Finished
<1> QED BY <1>1, <1>2

\* Nothing moves any more once the instruction is over, but the tasks of a race that
\* the host cancelled.
LEMMA ActsWhenFinished ==
    ASSUME IInv, NEW i \in Thunks, thunk[i] \in {"ready", "running"}, Finished
    PROVE  mode = "race" /\ hostCancel /\ result.kind = "cancelled" /\ result.of = <<>>
BY DEF IInv, NoOrphans, ResultByOutcomes, RaceAnswers

\* A thunk goes on; the outcomes stay what they are.
LEMMA RunKnows ==
    ASSUME IInv, NEW i \in Thunks, Enter(i) \/ Inside(i) PROVE Knows'
<1>0. ThunkType /\ Knows
    BY DEF IInv, TypeOK, ThunkType, Knows
<1>1. /\ thunk[i] \in {"ready", "running"}
      /\ thunk'[i] = "running" /\ \A j \in Thunks : j # i => thunk'[j] = thunk[j]
      /\ UNCHANGED <<mode, kind, pc, order, doneAtWake, cancelReq, hostCancel, result>>
    BY <1>0 DEF Enter, Inside, ThunkType, fixed
<1>2. ThunksAreConcurrencySafe' <=> ThunksAreConcurrencySafe
    BY <1>1 DEF ThunksAreConcurrencySafe
<1>3. pc # "start" /\ (Finished => mode = "race" /\ hostCancel /\ result.kind = "cancelled" /\ result.of = <<>>)
    BY <1>0, <1>1, ActsWhenFinished DEF Knows, AtStart
<1>4. AtSeq'
  <2> SUFFICES ASSUME pc = "seq" PROVE AtSeq'
      BY <1>1 DEF AtSeq
  <2>1. Current(i) /\ ~ThunksAreConcurrencySafe /\ cancelReq = {}
      BY <1>1, OnlyCurrentActs
  <2>2. Current(i)'
      BY <1>1, <2>1 DEF Current, GoesOn
  <2> QED BY <1>1, <1>2, <2>1, <2>2 DEF AtSeq
<1>5. (NoOrphans /\ ResultByOutcomes)'
    BY <1>1, <1>3 DEF NoOrphans, ResultByOutcomes, CollectedByOutcomes, RaceAnswers, Finished
<1>6. UnsafeDone'
    BY <1>0, <1>1, <1>2, OnlyCurrentActs DEF UnsafeDone, Finished
<1>7. \A j \in Thunks : Ended(j) => Ended(j)'
    BY <1>1 DEF Ended, Outcomes
<1>8. OrderEnded'
  <2>1. \A m \in DOMAIN order : order[m] \in Thunks
      BY ElementOfSeq, LenProperties DEF IInv, TypeOK
  <2> QED BY <1>0, <1>1, <1>7, <2>1 DEF Knows, OrderEnded
<1>9. AtCancelling'
  <2>1. EndedThunks \subseteq EndedThunks'
      BY <1>7 DEF EndedThunks
  <2> QED BY <1>0, <1>1, <2>1 DEF Knows, AtCancelling, Overtook
<1> QED BY <1>0, <1>1, <1>2, <1>3, <1>4, <1>5, <1>6, <1>8, <1>9 DEF Knows, AtStart, AtWait, AtRaceWait

\* The list of the thunks that have ended, when one more ends.
LEMMA EndsLast ==
    ASSUME IInv, NEW i \in Thunks, thunk[i] \in {"ready", "running"}, order' = Append(order, i),
           \A j \in Thunks : Ended(j) => Ended(j)', Ended(i)'
    PROVE  /\ OrderEnded'
           /\ \A a \in EndedThunks, b \in Thunks : Overtook(b, a)' => Overtook(b, a)
<1>1. order \in Seq(Thunks) /\ OrderEnded /\ ~Ended(i)
    BY DEF IInv, TypeOK, Ended, Outcomes
<1>2. \A m \in DOMAIN order : order[m] \in Thunks
    BY <1>1, ElementOfSeq, LenProperties
<1>3. /\ Len(order) \in Nat /\ DOMAIN order = 1..Len(order)
      /\ DOMAIN order' = 1..(Len(order) + 1) /\ order'[Len(order) + 1] = i
      /\ \A m \in 1..Len(order) : order'[m] = order[m]
    BY <1>1, AppendProperties, LenProperties
<1>4. OrderEnded'
  <2> SUFFICES ASSUME NEW m \in 1..(Len(order) + 1) PROVE thunk'[order'[m]] \in Outcomes
      BY <1>3 DEF OrderEnded, Ended
  <2>1. CASE m = Len(order) + 1
      BY <1>3, <2>1 DEF Ended
  <2>2. CASE m \in 1..Len(order)
    <3>1. order'[m] = order[m] /\ order[m] \in Thunks /\ Ended(order[m])
        BY <1>1, <1>2, <1>3, <2>2 DEF OrderEnded
    <3> QED BY <3>1 DEF Ended
  <2> QED BY <1>3, <2>1, <2>2
<1>5. ASSUME NEW a \in EndedThunks, NEW b \in Thunks, Overtook(b, a)' PROVE Overtook(b, a)
  <2>1. PICK m, n \in 1..(Len(order) + 1) : m < n /\ order'[m] = b /\ order'[n] = a
      BY <1>3, <1>5 DEF Overtook
  <2>2. a # i
      BY <1>1 DEF EndedThunks
  <2>3. m \in 1..Len(order) /\ n \in 1..Len(order)
      BY <1>3, <2>1, <2>2
  <2> QED BY <1>3, <2>1, <2>3 DEF Overtook
<1> QED BY <1>4, <1>5

\* A task ends, whatever it ends as.
LEMMA TaskEndKnows ==
    ASSUME IInv, NEW i \in Thunks, NEW o \in Outcomes, TaskEnd(i, o) PROVE Knows'
<1>0. ThunkType /\ Knows
    BY DEF IInv, TypeOK, ThunkType, Knows
<1>1. /\ thunk[i] \in {"ready", "running"} /\ order' = Append(order, i)
      /\ thunk'[i] = o /\ \A j \in Thunks : j # i => thunk'[j] = thunk[j]
      /\ UNCHANGED <<mode, kind, pc, doneAtWake, cancelReq, hostCancel, result>> /\ pc # "seq"
    BY <1>0 DEF TaskEnd, Leave, May, ThunkType, fixed
<1>2. ThunksAreConcurrencySafe' <=> ThunksAreConcurrencySafe
    BY <1>1 DEF ThunksAreConcurrencySafe
<1>3. pc # "start" /\ (Finished => mode = "race" /\ hostCancel /\ result.kind = "cancelled" /\ result.of = <<>>)
    BY <1>0, <1>1, ActsWhenFinished DEF Knows, AtStart
<1>4. (NoOrphans /\ ResultByOutcomes)'
    BY <1>1, <1>3 DEF NoOrphans, ResultByOutcomes, CollectedByOutcomes, RaceAnswers, Finished
<1>5. UnsafeDone'
    BY <1>0, <1>1, <1>2, OnlyCurrentActs DEF UnsafeDone, Finished
<1>6. Ended(i)' /\ \A j \in Thunks : Ended(j) => Ended(j)'
    BY <1>1 DEF Ended
<1>7. OrderEnded' /\ \A a \in EndedThunks, b \in Thunks : Overtook(b, a)' => Overtook(b, a)
    BY <1>1, <1>6, EndsLast
<1>8. AtCancelling'
  <2>1. EndedThunks \subseteq EndedThunks'
      BY <1>6 DEF EndedThunks
  <2> QED BY <1>0, <1>1, <1>7, <2>1 DEF Knows, AtCancelling
<1> QED BY <1>0, <1>1, <1>2, <1>3, <1>4, <1>5, <1>7, <1>8 DEF Knows, AtStart, AtSeq, AtWait, AtRaceWait

LEMMA SeqNextKnows ==
    ASSUME IInv, NEW i \in Thunks, NEW o \in Outcomes, SeqNext(i, o) PROVE Knows'
<1>0. ThunkType /\ Knows
    BY DEF IInv, TypeOK, ThunkType, Knows
<1>1. /\ May(i, o) /\ pc = "seq" /\ GoesOn(o) /\ i < N
      /\ thunk' = [thunk EXCEPT ![i] = o, ![i + 1] = "ready"] /\ order' = Append(order, i)
      /\ UNCHANGED <<mode, kind, pc, doneAtWake, cancelReq, hostCancel, result>>
    BY DEF SeqNext, fixed
<1>2. ~ThunksAreConcurrencySafe /\ Current(i) /\ cancelReq = {} /\ thunk[i] \in {"ready", "running"}
    BY <1>1, OnlyCurrentActs DEF May
<1>3. ThunksAreConcurrencySafe' <=> ThunksAreConcurrencySafe
    BY <1>1 DEF ThunksAreConcurrencySafe
<1>4. /\ i + 1 \in Thunks /\ i + 1 # i
      /\ \A j \in Thunks : j < i + 1 => ((j < i /\ j # i) \/ j = i) /\ j # i + 1
    BY <1>1, NAssumption DEF Thunks
<1>5. /\ thunk'[i] = o /\ thunk'[i + 1] = "ready"
      /\ \A j \in Thunks : j # i /\ j # i + 1 => thunk'[j] = thunk[j]
    BY <1>0, <1>1, <1>4 DEF ThunkType
<1>6. Current(i + 1)'
  <2>1. \A j \in Thunks : j < i + 1 => GoesOn(thunk'[j]) /\ thunk'[j] \in Outcomes
      BY <1>1, <1>2, <1>4, <1>5 DEF Current
  <2>2. \A j \in Thunks : j > i + 1 => thunk'[j] = "new"
      BY <1>2, <1>4, <1>5, NAssumption DEF Current, Thunks
  <2> QED BY <1>1, <1>5, <2>1, <2>2 DEF Current, GoesOn
<1>7. AtSeq'
    BY <1>1, <1>2, <1>3, <1>4, <1>6 DEF AtSeq
<1>8. OrderEnded'
  <2>1. thunk[i + 1] = "new"
      BY <1>2, <1>4, NAssumption DEF Current, Thunks
  <2>2. Ended(i)' /\ \A j \in Thunks : Ended(j) => Ended(j)'
      BY <1>5, <2>1 DEF Ended, Outcomes
  <2> QED BY <1>1, <1>2, <2>2, EndsLast
<1> QED BY <1>0, <1>1, <1>3, <1>7, <1>8
        DEF Knows, AtStart, AtWait, AtRaceWait, AtCancelling, UnsafeDone, Finished,
            NoOrphans, ResultByOutcomes, CollectedByOutcomes, RaceAnswers

\* The end of the sequential path: a race answers with the first thunk; a signal or
\* the first error of all ends the loop, so that no other thunk has failed; what is
\* left are the outcomes of all thunks.
LEMMA SeqEndAnswers ==
    ASSUME IInv, NEW i \in Thunks, NEW o \in Outcomes, SeqEnd(i, o)
    PROVE  (NoOrphans /\ ResultByOutcomes)' /\ UnsafeDone'
<1>0. ThunkType /\ mode \in Modes
    BY DEF IInv, TypeOK, ThunkType
<1>1. /\ May(i, o) /\ pc = "seq" /\ thunk' = [thunk EXCEPT ![i] = o]
      /\ UNCHANGED <<mode, kind, doneAtWake, cancelReq, hostCancel>>
    BY DEF SeqEnd, Leave, fixed
<1>2. ~ThunksAreConcurrencySafe /\ Current(i) /\ cancelReq = {}
    BY <1>1, OnlyCurrentActs DEF May
<1>3. ~ThunksAreConcurrencySafe'
    BY <1>1, <1>2 DEF ThunksAreConcurrencySafe
<1>4. thunk'[i] = o /\ \A j \in Thunks : j # i => thunk'[j] = thunk[j]
    BY <1>0, <1>1 DEF ThunkType
<1>5. \A j \in Thunks : /\ j < i \/ j > i \/ j = i
                        /\ j < i => j # i /\ thunk'[j] \in Outcomes /\ GoesOn(thunk'[j])
                        /\ j > i => j # i /\ thunk'[j] = "new"
    BY <1>2, <1>4, NAssumption DEF Current, Thunks
<1>6. \A j \in Thunks : thunk'[j] \notin {"ready", "running"}
    BY <1>4, <1>5 DEF Outcomes
<1>7. Failed' = Errors(thunk') /\ Signals' = {j \in Thunks : thunk'[j] = "eff"}
    BY DEF Failed, Errors, Signals, Outcomes
<1>8. CASE mode = "race"
  <2>1. Finish(IF o = "ok" THEN "value" ELSE "raise", <<i>>)
      BY <1>8 DEF SeqEnd, GoesOn
  <2>2. /\ pc' = "finished" /\ result'.of = <<i>> /\ result'.of[1] = i /\ <<i>> # <<>>
        /\ result'.kind = IF o = "ok" THEN "value" ELSE "raise"
      BY <2>1 DEF Finish
  <2>3. \A j \in 1..(i - 1) : FALSE
      BY <1>5, <1>8, NAssumption DEF GoesOn, Thunks
  <2>4. RaceAnswers'
      BY <1>1, <1>2, <1>4, <2>2, <2>3 DEF RaceAnswers, Ended
  <2> QED BY <1>1, <1>6, <1>8, <2>4 DEF NoOrphans, ResultByOutcomes, CollectedByOutcomes, UnsafeDone
<1>9. CASE mode # "race" /\ ~GoesOn(o)
  <2>1. pc' = "finished" /\ result' = [kind |-> "raise", of |-> <<i>>]
      BY <1>9 DEF SeqEnd, Finish
  <2>2. o # "eff" => mode = "all" /\ o \in {"err", "cancelled"}
      BY <1>0, <1>9 DEF GoesOn, Modes, Outcomes
  <2>3. \A j \in Thunks : j # i => thunk'[j] # "eff" /\ (mode = "all" => thunk'[j] \in {"ok", "new"})
      BY <1>5 DEF GoesOn
  <2>4. CASE o = "eff"
    <3>1. i \in Signals'
        BY <1>4, <1>7, <2>4
    <3> QED BY <1>1, <1>3, <1>6, <1>9, <2>1, <3>1
            DEF NoOrphans, ResultByOutcomes, CollectedByOutcomes, RaceAnswers, UnsafeDone
  <2>5. CASE o # "eff"
    <3>1. Signals' = {}
        BY <1>4, <1>7, <2>3, <2>5
    <3>2. Failed' = {i}
        BY <1>4, <2>2, <2>3, <2>5 DEF Failed
    <3>3. Min({i}) = i
        BY MinIsIn
    <3>4. CollectedByOutcomes'
        BY <1>1, <1>3, <2>1, <2>2, <2>5, <3>1, <3>2, <3>3 DEF CollectedByOutcomes
    <3> QED BY <1>1, <1>6, <1>9, <3>4 DEF NoOrphans, ResultByOutcomes, RaceAnswers, UnsafeDone
  <2> QED BY <2>4, <2>5
<1>10. CASE mode # "race" /\ GoesOn(o)
  <2>1. /\ i = N
        /\ IF Errors(thunk') = {} THEN Finish("tuple", InOrder(Thunks))
           ELSE Finish("aggregate", InOrder(Errors(thunk')))
      BY <1>10 DEF SeqEnd
  <2>2. \A j \in Thunks : GoesOn(thunk'[j])
    <3>1. \A j \in Thunks : ~(j > i)
        BY <2>1, NAssumption DEF Thunks
    <3> QED BY <1>4, <1>5, <1>10, <3>1
  <2>3. mode = "parallel" \/ Errors(thunk') = {}
      BY <2>2 DEF GoesOn, Errors
  <2>4. Signals' = {}
      BY <1>7, <2>2 DEF GoesOn
  <2>5. CollectedByOutcomes'
      BY <1>1, <1>3, <1>7, <2>1, <2>3, <2>4 DEF CollectedByOutcomes, Finish
  <2> QED BY <1>1, <1>6, <1>10, <2>5 DEF NoOrphans, ResultByOutcomes, RaceAnswers, UnsafeDone
<1> QED BY <1>8, <1>9, <1>10

LEMMA SeqEndKnows ==
    ASSUME IInv, NEW i \in Thunks, NEW o \in Outcomes, SeqEnd(i, o) PROVE Knows'
<1>1. pc' = "finished"
    BY DEF SeqEnd, Finish
<1>2. (NoOrphans /\ ResultByOutcomes)' /\ UnsafeDone'
    BY SeqEndAnswers
<1>3. OrderEnded'
  <2>1. ThunkType /\ May(i, o) /\ thunk' = [thunk EXCEPT ![i] = o] /\ order' = Append(order, i)
      BY DEF SeqEnd, Leave, IInv, TypeOK, ThunkType
  <2>2. thunk[i] \in {"ready", "running"} /\ Ended(i)' /\ \A j \in Thunks : Ended(j) => Ended(j)'
      BY <2>1 DEF May, Ended, ThunkType
  <2> QED BY <2>1, <2>2, EndsLast
<1> QED BY <1>1, <1>2, <1>3 DEF Knows, AtStart, AtSeq, AtWait, AtRaceWait, AtCancelling

\* The tasks of parallel and all have ended, and their results are looked at in
\* the order of their declaration.
LEMMA GatherWakeKnows == IInv /\ GatherWake => Knows'
<1> SUFFICES ASSUME IInv, GatherWake PROVE Knows'
    OBVIOUS
<1>1. /\ pc = "wait" /\ pc' = "finished" /\ UNCHANGED <<mode, kind, thunk, order, hostCancel>> /\ mode # "race"
      /\ \A i \in Thunks : thunk[i] \in Outcomes
    BY DEF GatherWake, Finish, EndedThunks, Ended, fixed
<1>2. mode \in Modes /\ OrderEnded /\ ThunksAreConcurrencySafe'
    BY <1>1 DEF IInv, TypeOK, AtWait, ThunksAreConcurrencySafe
<1>3. \A i \in Thunks : thunk'[i] \notin {"ready", "running"}
    BY <1>1 DEF Outcomes
<1>4. Failed' = Errors(thunk)
    BY <1>1 DEF Failed, Errors, Outcomes
<1>5. CollectedByOutcomes'
    BY <1>1, <1>2, <1>4 DEF GatherWake, Finish, CollectedByOutcomes
<1>6. RaceAnswers' /\ OrderEnded'
    BY <1>1, <1>2 DEF RaceAnswers, OrderEnded, Ended
<1> QED BY <1>1, <1>3, <1>5, <1>6 DEF Knows, AtStart, AtSeq, AtWait, AtRaceWait, AtCancelling,
        UnsafeDone, NoOrphans, ResultByOutcomes

\* What asyncio.wait reports as done ended before any cancellation, and before
\* everything that has not ended.
LEMMA RaceWakeKnows == IInv /\ RaceWake => Knows'
<1> SUFFICES ASSUME IInv, RaceWake PROVE Knows'
    OBVIOUS
<1>1. /\ pc = "wait" /\ pc' = "cancelling" /\ mode = "race" /\ doneAtWake' = EndedThunks /\ EndedThunks # {}
      /\ cancelReq' = Thunks \ EndedThunks /\ UNCHANGED <<mode, kind, thunk, order, hostCancel>>
    BY DEF RaceWake, fixed
<1>2. ThunksAreConcurrencySafe' /\ OrderEnded /\ order \in Seq(Thunks)
    BY <1>1 DEF IInv, TypeOK, AtWait, ThunksAreConcurrencySafe
<1>3. \A i \in EndedThunks, j \in Thunks : Overtook(j, i) => j \in EndedThunks
    BY <1>2 DEF Overtook, OrderEnded, EndedThunks
<1>4. EndedThunks' = EndedThunks /\ OrderEnded'
    BY <1>1, <1>2 DEF EndedThunks, OrderEnded, Ended
<1>5. AtCancelling'
    BY <1>1, <1>3, <1>4 DEF AtCancelling, Overtook
<1> QED BY <1>1, <1>2, <1>4, <1>5 DEF Knows, AtStart, AtSeq, AtWait, AtRaceWait,
        UnsafeDone, NoOrphans, ResultByOutcomes, CollectedByOutcomes, RaceAnswers, Finished

LEMMA RaceReturnKnows == IInv /\ RaceReturn => Knows'
<1> SUFFICES ASSUME IInv, RaceReturn PROVE Knows'
    OBVIOUS
<1> DEFINE w == Min(doneAtWake)
<1>1. /\ pc = "cancelling" /\ Finish(IF thunk[w] = "ok" THEN "value" ELSE "raise", <<w>>)
      /\ UNCHANGED <<mode, kind, thunk, order, cancelReq, hostCancel>> /\ \A i \in Thunks : thunk[i] \in Outcomes
    BY DEF RaceReturn, EndedThunks, Ended, fixed
<1>2. /\ mode = "race" /\ OrderEnded /\ doneAtWake \subseteq EndedThunks \ cancelReq
      /\ doneAtWake # {} /\ doneAtWake \in SUBSET Thunks
      /\ \A i \in doneAtWake, j \in Thunks : Overtook(j, i) => j \in doneAtWake
    BY <1>1 DEF IInv, TypeOK, AtCancelling
<1>3. w \in doneAtWake /\ \A i \in doneAtWake : w <= i
    BY <1>2, MinIsIn
<1> HIDE DEF w
<1>4. \A j \in 1..(w - 1) : ~Overtook(j, w)
  <2>1. \A j \in 1..(w - 1) : j \in Thunks /\ ~(w <= j)
      BY <1>2, <1>3, NAssumption DEF Thunks
  <2> QED BY <1>2, <1>3, <2>1
<1>5. /\ pc' = "finished" /\ result'.of = <<w>> /\ result'.of[1] = w /\ <<w>> # <<>>
      /\ result'.kind = IF thunk[w] = "ok" THEN "value" ELSE "raise"
    BY <1>1 DEF Finish
<1>6. RaceAnswers'
    BY <1>1, <1>2, <1>3, <1>4, <1>5 DEF RaceAnswers, Overtook, Ended, EndedThunks
<1>7. \A i \in Thunks : thunk'[i] \notin {"ready", "running"}
    BY <1>1 DEF Outcomes
<1>8. OrderEnded'
    BY <1>1, <1>2 DEF OrderEnded, Ended
<1> QED BY <1>1, <1>2, <1>5, <1>6, <1>7, <1>8 DEF Knows, AtStart, AtSeq, AtWait, AtRaceWait, AtCancelling,
        UnsafeDone, NoOrphans, ResultByOutcomes, CollectedByOutcomes

\* The host cancels a race that waits by ending the opcode; whatever else it does
\* leaves the outcomes and the winners of a race alone.
LEMMA HostCancelKnows == IInv /\ HostCancel => Knows'
<1> SUFFICES ASSUME IInv, HostCancel PROVE Knows'
    OBVIOUS
<1>0. Knows
    BY DEF IInv, Knows
<1>1. /\ hostCancel' = TRUE /\ UNCHANGED <<mode, kind, thunk, order, doneAtWake>> /\ pc # "start"
      /\ (ThunksAreConcurrencySafe' <=> ThunksAreConcurrencySafe)
      /\ EndedThunks' = EndedThunks /\ OrderEnded'
    BY <1>0 DEF HostCancel, fixed, ThunksAreConcurrencySafe, EndedThunks, Ended, Knows, OrderEnded
<1>2. CASE pc = "wait" /\ mode = "race" /\ Finish("cancelled", <<>>)
  <2>1. pc' = "finished" /\ ThunksAreConcurrencySafe' /\ result'.of = <<>> /\ result'.kind = "cancelled"
      BY <1>0, <1>1, <1>2 DEF Finish, Knows, AtWait
  <2> QED BY <1>1, <1>2, <2>1 DEF Knows, AtStart, AtSeq, AtWait, AtRaceWait, AtCancelling,
        UnsafeDone, NoOrphans, ResultByOutcomes, CollectedByOutcomes, RaceAnswers, Finished
<1>3. CASE pc = "seq" /\ UNCHANGED <<pc, cancelReq>>
  <2>1. AtSeq'
      BY <1>0, <1>1, <1>3 DEF Knows, AtSeq, Current, GoesOn
  <2> QED BY <1>1, <1>3, <2>1 DEF Knows, AtStart, AtWait, AtRaceWait, AtCancelling,
        UnsafeDone, NoOrphans, ResultByOutcomes, CollectedByOutcomes, RaceAnswers, Finished
<1>4. CASE /\ UNCHANGED pc /\ pc \in {"wait", "cancelling"} /\ (pc = "wait" => mode # "race")
           /\ pc = "cancelling" => \E S \in SUBSET (Thunks \ EndedThunks) : cancelReq' = cancelReq \cup S
  <2>1. AtCancelling'
      BY <1>0, <1>1, <1>4 DEF Knows, AtCancelling, Overtook
  <2> QED BY <1>0, <1>1, <1>4, <2>1 DEF Knows, AtStart, AtSeq, AtWait, AtRaceWait,
        UnsafeDone, NoOrphans, ResultByOutcomes, CollectedByOutcomes, RaceAnswers, Finished
<1>5. pc = "cancelling" => \E S \in SUBSET (Thunks \ EndedThunks) : cancelReq' = cancelReq \cup S
  <2> SUFFICES ASSUME pc = "cancelling"
               PROVE  \E S \in SUBSET (Thunks \ EndedThunks) : cancelReq' = cancelReq \cup S
      OBVIOUS
  <2>1. CASE \E i \in Thunks \ EndedThunks : cancelReq' = cancelReq \cup {i}
      BY <2>1
  <2>2. CASE UNCHANGED cancelReq
    <3>1. {} \in SUBSET (Thunks \ EndedThunks) /\ cancelReq' = cancelReq \cup {}
        BY <2>2
    <3> QED BY <3>1
  <2> QED BY <2>1, <2>2 DEF HostCancel
<1> QED BY <1>2, <1>3, <1>4, <1>5 DEF HostCancel

LEMMA StutterKnows == IInv /\ UNCHANGED vars => Knows'
BY DEF IInv, vars, Knows, AtStart, AtSeq, Current, GoesOn, AtWait, AtRaceWait, AtCancelling,
    UnsafeDone, OrderEnded, NoOrphans, ResultByOutcomes, CollectedByOutcomes, RaceAnswers, Overtook,
    Failed, Signals, Ended, EndedThunks, Finished, ThunksAreConcurrencySafe

\* Without overlap every frame above the first is that of the running thunk, whose
\* end takes all of them.
LEMMA KindsFixed == [Next]_vars => UNCHANGED fixed
<1>1. CASE Start \/ GatherWake \/ RaceWake \/ RaceReturn \/ HostCancel \/ UNCHANGED vars
    BY <1>1 DEF Start, GatherWake, RaceWake, RaceReturn, HostCancel, vars, fixed
<1>2. CASE \E i \in Thunks : ThunkStep(i)
    BY <1>2 DEF ThunkStep, Enter, Inside, TaskEnd, SeqEnd, SeqNext
<1> QED BY <1>1, <1>2 DEF Next

LEMMA OwnFramesStep == IInv /\ [Next]_vars => OwnFrames'
<1> SUFFICES ASSUME IInv, [Next]_vars, ~ThunksAreConcurrencySafe PROVE OwnFrames'
    BY KindsFixed DEF OwnFrames, ThunksAreConcurrencySafe, fixed
<1>0. ThunkType /\ StackOK /\ FramesOfRunning
    BY DEF IInv, TypeOK, ThunkType, StackOK
<1>1. stack \in Seq(0..N) /\ Len(stack) \in Nat /\ \A k \in 2..Len(stack) : stack[k] \in Running
    BY <1>0, LenProperties DEF IInv, OwnFrames, StackOK
<1>2. CASE UNCHANGED <<stack, thunk>>
    BY <1>1, <1>2 DEF OwnFrames, Running
<1>3. CASE Start
  <2>1. UNCHANGED stack /\ Running = {}
      BY <1>3 DEF Start, IInv, AtStart, Running
  <2> QED BY <1>1, <2>1 DEF OwnFrames
<1>4. ASSUME NEW i \in Thunks, Enter(i) PROVE OwnFrames'
  <2>1. stack' = Append(stack, i) /\ thunk' = [thunk EXCEPT ![i] = "running"] /\ thunk[i] = "ready"
      BY <1>4 DEF Enter, Push
  <2>2. Running \subseteq Running' /\ i \in Running'
      BY <1>0, <2>1 DEF Running, ThunkType
  <2>3. /\ Len(stack') = Len(stack) + 1 /\ stack'[Len(stack) + 1] = i
        /\ \A k \in 1..Len(stack) : stack'[k] = stack[k]
    <3>1. i \in 0..N
        BY NAssumption DEF Thunks
    <3> QED BY <1>1, <2>1, <3>1, AppendProperties
  <2> QED BY <1>1, <2>2, <2>3 DEF OwnFrames
<1>5. ASSUME NEW i \in Thunks, Inside(i) PROVE OwnFrames'
  <2>1. UNCHANGED thunk /\ i \in Running
      BY <1>5 DEF Inside, Running
  <2>2. CASE Push(i)
    <3>1. i \in 0..N
        BY NAssumption DEF Thunks
    <3>2. /\ Len(stack') = Len(stack) + 1 /\ stack'[Len(stack) + 1] = i
          /\ \A k \in 1..Len(stack) : stack'[k] = stack[k]
        BY <1>1, <2>2, <3>1, AppendProperties DEF Push
    <3> QED BY <1>1, <2>1, <3>2 DEF OwnFrames, Running
  <2>3. CASE stack' = [stack EXCEPT ![Len(stack)] = i]
    <3>1. Len(stack') = Len(stack) /\ \A k \in 1..Len(stack) : stack'[k] \in {stack[k], i}
        BY <1>1, <2>3
    <3> QED BY <1>1, <2>1, <3>1 DEF OwnFrames, Running
  <2>4. CASE depth[i] > 1 /\ Pop(i, 1)
    <3>1. 1 < Len(stack)
        BY <1>0, <1>1, <2>4, StackHolds
    <3>2. Len(stack) - 1 \in 1..Len(stack)
        BY <1>1, <3>1
    <3>3. stack' = SubSeq(stack, 1, Len(stack) - 1)
        BY <2>4, <3>1 DEF Pop
    <3>4. Len(stack') = Len(stack) - 1 /\ \A k \in 1..(Len(stack) - 1) : stack'[k] = stack[k]
        BY <1>1, <3>2, <3>3
    <3> QED BY <1>1, <2>1, <3>2, <3>4 DEF OwnFrames, Running
  <2> QED BY <1>5, <2>2, <2>3, <2>4 DEF Inside
<1>6. ASSUME NEW i \in Thunks, NEW o \in Outcomes, TaskEnd(i, o) \/ SeqEnd(i, o) \/ SeqNext(i, o)
      PROVE  OwnFrames'
  <2>1. May(i, o) /\ Pop(i, depth[i]) /\ thunk[i] \in {"ready", "running"}
      BY <1>6 DEF TaskEnd, SeqEnd, SeqNext, Leave, May
  <2>2. Current(i)
      BY <2>1, OnlyCurrentActs
  <2>3. \A j \in Thunks : j # i => depth[j] = 0
    <3>1. \A j \in Thunks : j # i => j < i \/ j > i
        BY NAssumption DEF Thunks
    <3>2. \A j \in Thunks : j # i => thunk[j] # "running"
        BY <2>2, <3>1 DEF Current, Outcomes
    <3> QED BY <1>0, <3>2 DEF FramesOfRunning
  <2>4. depth[i] - depth[i] = 0
      BY <1>0, StackHolds
  <2>5. depth' = [depth EXCEPT ![i] = 0]
      BY Zenon, <2>1, <2>4 DEF Pop
  <2>6. depth' = [j \in Thunks |-> 0]
      BY <1>0, <2>3, <2>5 DEF StackOK
  <2>7. Len(stack') = 1
      BY <2>6, TotalZero, StackStep DEF StackOK, Balanced
  <2> QED BY <2>7 DEF OwnFrames
<1>7. CASE GatherWake \/ RaceWake \/ RaceReturn \/ HostCancel
    BY <1>2, <1>7 DEF GatherWake, RaceWake, RaceReturn, HostCancel
<1> QED BY <1>2, <1>3, <1>4, <1>5, <1>6, <1>7 DEF Next, ThunkStep, vars

LEMMA Inductive == IInv /\ [Next]_vars => IInv'
<1> SUFFICES ASSUME IInv, [Next]_vars PROVE IInv'
    OBVIOUS
<1>1. Knows'
    BY StutterKnows, StartKnows, RunKnows, TaskEndKnows, SeqEndKnows, SeqNextKnows,
       GatherWakeKnows, RaceWakeKnows, RaceReturnKnows, HostCancelKnows DEF Next, ThunkStep
<1>2. StackOK' /\ FramesOfRunning' /\ OwnFrames'
    BY StackStep, OwnFramesStep
<1>3. ControlType'
    BY TypeStep
<1> QED BY <1>1, <1>2, <1>3 DEF IInv, TypeOK, StackOK, ControlType, ThunkType, ResultKinds, Knows

LEMMA AlwaysIInv == Spec => []IInv
BY InitKnows, Inductive, PTL DEF Spec

-----------------------------------------------------------------------------
(* The theorems. *)

\* A thunk that is not safe to overlap has the event loop for itself: on the
\* sequential path only the current thunk runs.
LEMMA InvariantAlone == IInv => UnsafeThunksAlone
<1> SUFFICES ASSUME IInv, ~ThunksAreConcurrencySafe PROVE Cardinality(Running) <= 1
    BY DEF UnsafeThunksAlone
<1>0. pc \in {"start", "wait", "cancelling", "seq", "finished"}
    BY DEF IInv, TypeOK
<1>1. \E c : Running \subseteq {c}
  <2>1. CASE pc = "seq"
    <3>1. PICK c \in Thunks : Current(c)
        BY <2>1 DEF IInv, AtSeq
    <3>2. Running \subseteq {c}
        BY <3>1 DEF Running, Current, Outcomes, Thunks
    <3> QED BY <3>2
  <2>2. CASE pc # "seq"
    <3>1. Running = {}
        BY <1>0, <2>2 DEF Running, IInv, AtStart, AtWait, UnsafeDone, Finished
    <3> QED BY <3>1
  <2> QED BY <2>1, <2>2
<1>2. PICK c : Running \subseteq {c}
    BY <1>1
<1>3. IsFiniteSet({c}) /\ Cardinality({c}) = 1
    BY FS_Singleton
<1>4. Cardinality(Running) \in Nat /\ Cardinality(Running) <= 1
    BY <1>2, <1>3, FS_Subset, FS_CardinalityType
<1> QED BY <1>4

\* The pushes and pops of VirtualStack balance, however the tasks of the thunks
\* interleave and wherever an exception or a cancellation leaves several frames at
\* once: the stack has as many frames as there are calls in progress, on top of the
\* frame of the instruction.  Thunks that _thunks_are_concurrency_safe finds unsafe
\* never overlap, and the stack then holds the frames of the running one only.
THEOREM GatherStack == Spec => []StackBalanced
<1>1. IInv => StackBalanced
    BY InvariantAlone DEF IInv, Balanced, OwnFrames, Total, StackBalanced
<1> QED BY <1>1, AlwaysIInv, PTL

\* An instruction that is over leaves no task running or waiting to run - gather
\* waits for all of them, and _race_first for the losers it cancels, also when the
\* host cancels it there - but for a race cancelled before its first result.
THEOREM GatherNoOrphans == Spec => []NoOrphans
<1>1. IInv => NoOrphans
    BY DEF IInv
<1> QED BY <1>1, AlwaysIInv, PTL

\* What _parallel_gather and _race_first answer is determined by what the thunks
\* ended as, for every number of thunks, on both paths, under every schedule, and also
\* when the host cancels and thunks swallow the cancellation.
THEOREM GatherResult == Spec => []ResultByOutcomes
<1>1. IInv => ResultByOutcomes
    BY DEF IInv
<1> QED BY <1>1, AlwaysIInv, PTL
=============================================================================
