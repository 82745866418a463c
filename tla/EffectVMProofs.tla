--------------------------- MODULE EffectVMProofs ---------------------------
(***************************************************************************)
(* Every effect of EffectVM is answered by the nearest handle that names   *)
(* it, for all legal programs, any number of performs, and whatever is     *)
(* resumed, how often and from where.                                      *)
(***************************************************************************)
EXTENDS EffectVM, FiniteSetTheorems, SequenceTheorems, Induction, TLAPS

-----------------------------------------------------------------------------
(* Sequences of anything. *)

Listed(s) == s \in Seq({s[j] : j \in DOMAIN s})

LEMMA ListedLen ==
    ASSUME NEW T, NEW s \in Seq(T)
    PROVE  /\ Listed(s) /\ Len(s) \in Nat /\ DOMAIN s = 1 .. Len(s)
           /\ s # <<>> => Len(s) \in DOMAIN s
<1>1. Len(s) \in Nat /\ DOMAIN s = 1 .. Len(s) /\ s = [j \in 1 .. Len(s) |-> s[j]]
    BY LenProperties
<1>2. s # <<>> => Len(s) # 0
    BY EmptySeq
<1> DEFINE S == {s[j] : j \in DOMAIN s}
<1>3. \A j \in 1 .. Len(s) : s[j] \in S
    BY <1>1
<1>4. s \in Seq(S)
    BY <1>1, <1>3, SeqDef
<1> QED BY <1>1, <1>2, <1>4 DEF Listed

LEMMA ListedAppend ==
    ASSUME NEW s, Listed(s), NEW x
    PROVE  /\ Listed(Append(s, x)) /\ Len(Append(s, x)) = Len(s) + 1
           /\ DOMAIN Append(s, x) = 1 .. Len(s) + 1
           /\ Append(s, x)[Len(s) + 1] = x
           /\ \A j \in 1 .. Len(s) : Append(s, x)[j] = s[j]
           /\ Append(s, x) # <<>>
<1> DEFINE T == {s[j] : j \in DOMAIN s} \cup {x}
           t == Append(s, x)
<1>1. s \in Seq({s[j] : j \in DOMAIN s})
    BY DEF Listed
<1>2. s \in Seq(T) /\ x \in T /\ Len(s) \in Nat
    BY <1>1, SeqMonotonic, LenProperties
<1>3. /\ t \in Seq(T) /\ t # <<>> /\ Len(t) = Len(s) + 1
      /\ \A j \in 1 .. Len(s) : t[j] = s[j]
      /\ t[Len(s) + 1] = x
    BY <1>2, AppendProperties
<1>4. Listed(t) /\ DOMAIN t = 1 .. Len(t)
    BY <1>3, ListedLen
<1> QED BY <1>3, <1>4

LEMMA ListedBelow ==
    ASSUME NEW s, Listed(s), s # <<>>
    PROVE  LET b == SubSeq(s, 1, Len(s) - 1)
           IN  /\ Listed(b) /\ Len(b) = Len(s) - 1 /\ DOMAIN b = 1 .. Len(s) - 1
               /\ \A j \in 1 .. Len(s) - 1 : b[j] = s[j]
               /\ Len(s) \in Nat /\ Len(s) >= 1 /\ DOMAIN s = 1 .. Len(s) /\ Len(s) \in DOMAIN s
<1> DEFINE T == {s[j] : j \in DOMAIN s}
           b == SubSeq(s, 1, Len(s) - 1)
<1>1. s \in Seq(T)
    BY DEF Listed
<1> HIDE DEF T
<1>2. Len(s) \in Nat /\ DOMAIN s = 1 .. Len(s) /\ Len(s) \in DOMAIN s
    BY <1>1, ListedLen
<1>3. Len(s) >= 1
    BY <1>2
<1>4. \A j \in 1 .. Len(s) - 1 : s[j] \in T
    BY <1>1, <1>2, ElementOfSeq
<1>5. /\ b \in Seq(T) /\ Len(b) = Len(s) - 1
      /\ \A j \in 1 .. Len(s) - 1 : b[j] = s[j]
    BY <1>2, <1>3, <1>4, SubSeqProperties
<1>6. Listed(b) /\ DOMAIN b = 1 .. Len(b)
    BY <1>5, ListedLen
<1> QED BY <1>2, <1>3, <1>5, <1>6

-----------------------------------------------------------------------------
(* Legal state: h is the number of scopes, k of continuations. *)

Sound(funs, h, k, v) ==
    /\ v.kind = "fn" => v.fn \in DOMAIN funs /\ v.env \in 1 .. h
    /\ v.kind = "cont" => v.id \in 1 .. k

FrameOK(funs, h, k, f) ==
    /\ f = [fn |-> f.fn, pc |-> f.pc, regs |-> f.regs, env |-> f.env,
            parents |-> f.parents, dst |-> f.dst]
    /\ f.fn \in DOMAIN funs /\ f.pc \in DOMAIN funs[f.fn].code
    /\ f.env \in 1 .. h /\ f.dst \in Regs
    /\ f.parents \in Seq(1 .. h) /\ Len(f.parents) = Depth(funs[f.fn].code, f.pc)
    /\ DOMAIN f.regs = Regs /\ f.regs = [r \in Regs |-> f.regs[r]]
    /\ \A r \in Regs : Sound(funs, h, k, f.regs[r])

ScopeOK(funs, h, k, s, c) ==
    /\ c = Scope(c.parent, c.vars)
    /\ c.parent \in 0 .. s - 1
    /\ c.vars = [n \in Names |-> c.vars[n]]
    /\ \A n \in Names : Sound(funs, h, k, c.vars[n])

HeapOK(funs, k, hp) ==
    Listed(hp) /\ \A s \in 1 .. Len(hp) : ScopeOK(funs, Len(hp), k, s, hp[s])

\* With more scopes and continuations everything stays legal.
LEMMA SoundGrows ==
    ASSUME NEW funs, NEW h \in Nat, NEW k \in Nat, NEW h2 \in Nat, NEW k2 \in Nat, h <= h2, k <= k2
    PROVE  /\ \A v : Sound(funs, h, k, v) => Sound(funs, h2, k2, v)
           /\ \A f : FrameOK(funs, h, k, f) => FrameOK(funs, h2, k2, f)
           /\ \A s, c : ScopeOK(funs, h, k, s, c) => ScopeOK(funs, h2, k2, s, c)
<1>0. 1 .. h \subseteq 1 .. h2 /\ 1 .. k \subseteq 1 .. k2
    OBVIOUS
<1>1. \A v : Sound(funs, h, k, v) => Sound(funs, h2, k2, v)
    BY <1>0 DEF Sound
<1>2. ASSUME NEW f, FrameOK(funs, h, k, f) PROVE FrameOK(funs, h2, k2, f)
  <2>1. f.parents \in Seq(1 .. h2)
      BY <1>0, <1>2, SeqMonotonic DEF FrameOK
  <2>2. f.env \in 1 .. h2
      BY <1>0, <1>2 DEF FrameOK
  <2>3. \A r \in Regs : Sound(funs, h2, k2, f.regs[r])
      BY <1>1, <1>2 DEF FrameOK
  <2> QED BY Zenon, <1>2, <2>1, <2>2, <2>3 DEF FrameOK
<1>3. ASSUME NEW s, NEW c, ScopeOK(funs, h, k, s, c) PROVE ScopeOK(funs, h2, k2, s, c)
    BY Zenon, <1>1, <1>3 DEF ScopeOK
<1> QED BY <1>1, <1>2, <1>3

-----------------------------------------------------------------------------
(* Scopes. *)

LEMMA Atoms ==
    ASSUME NEW funs, NEW h, NEW k
    PROVE  /\ Sound(funs, h, k, Missing) /\ Sound(funs, h, k, None)
           /\ \A n : Sound(funs, h, k, Num(n)) /\ Sound(funs, h, k, Term(n))
           /\ \A r : Sound(funs, h, k, EffectDefinition(r))
           /\ \A f \in DOMAIN funs : \A e \in 1 .. h : Sound(funs, h, k, Fn(f, e))
           /\ \A i \in 1 .. k : Sound(funs, h, k, Cont(i))
BY DEF Sound, Missing, None, Num, Term, EffectDefinition, Fn, Cont

LEMMA HeapGrows ==
    ASSUME NEW funs, NEW k \in Nat, NEW hp, HeapOK(funs, k, hp),
           NEW e \in 1 .. Len(hp), NEW held, held = [n \in Names |-> held[n]],
           \A n \in Names : Sound(funs, Len(hp), k, held[n])
    PROVE  /\ HeapOK(funs, k, Append(hp, Scope(e, held)))
           /\ Len(Append(hp, Scope(e, held))) = Len(hp) + 1
<1> DEFINE c == Scope(e, held)
           new == Append(hp, c)
<1>0. Len(hp) \in Nat /\ Listed(hp)
    BY ListedLen DEF HeapOK, Listed
<1>1. /\ Listed(new) /\ Len(new) = Len(hp) + 1 /\ new[Len(hp) + 1] = c
      /\ \A j \in 1 .. Len(hp) : new[j] = hp[j]
    BY <1>0, ListedAppend
<1>2. c.parent = e /\ c.vars = held /\ c = Scope(c.parent, c.vars)
    BY DEF Scope
<1>3. ScopeOK(funs, Len(hp), k, Len(hp) + 1, c)
  <2>1. e \in 0 .. (Len(hp) + 1) - 1
      BY <1>0
  <2> HIDE DEF c
  <2> QED BY <1>2, <2>1 DEF ScopeOK
<1> HIDE DEF new, c
<1>4. \A s \in 1 .. Len(hp) : ScopeOK(funs, Len(hp), k, s, new[s])
    BY <1>1 DEF HeapOK
<1>5. \A s \in 1 .. Len(hp) + 1 : s \in 1 .. Len(hp) \/ s = Len(hp) + 1
    BY <1>0
<1>6. \A s \in 1 .. Len(hp) + 1 : ScopeOK(funs, Len(hp), k, s, new[s])
    BY <1>1, <1>3, <1>4, <1>5
<1>7. \A s \in 1 .. Len(hp) + 1 : ScopeOK(funs, Len(hp) + 1, k, s, new[s])
  <2>1. /\ Len(hp) + 1 \in Nat /\ Len(hp) <= Len(hp) + 1 /\ k <= k
        /\ Len(hp) \in Nat
      BY <1>0
  <2>2. \A s, d : ScopeOK(funs, Len(hp), k, s, d) => ScopeOK(funs, Len(hp) + 1, k, s, d)
      BY ONLY <2>1, SoundGrows, k \in Nat
  <2> QED BY Zenon, <1>6, <2>2
<1> QED BY <1>1, <1>7 DEF HeapOK, new, c

LEMMA HeapBind ==
    ASSUME NEW funs, NEW k \in Nat, NEW hp, HeapOK(funs, k, hp),
           NEW e \in 1 .. Len(hp), NEW n \in Names, NEW v, Sound(funs, Len(hp), k, v)
    PROVE  HeapOK(funs, k, Bind(hp, e, n, v)) /\ Len(Bind(hp, e, n, v)) = Len(hp)
<1> DEFINE new == Bind(hp, e, n, v)
           c == [hp[e] EXCEPT !.vars[n] = v]
<1>0. Len(hp) \in Nat /\ DOMAIN hp = 1 .. Len(hp) /\ hp \in Seq({hp[j] : j \in DOMAIN hp})
    BY ListedLen DEF HeapOK, Listed
<1>1. new = [hp EXCEPT ![e] = c]
    BY <1>0 DEF Bind
<1>2. ScopeOK(funs, Len(hp), k, e, hp[e])
    BY DEF HeapOK
<1>3. c.parent = hp[e].parent /\ c.vars = [hp[e].vars EXCEPT ![n] = v] /\ c = Scope(c.parent, c.vars)
    BY <1>2 DEF ScopeOK, Scope
<1> HIDE DEF c
<1>4. /\ c.vars = [m \in Names |-> c.vars[m]]
      /\ \A m \in Names : c.vars[m] = IF m = n THEN v ELSE hp[e].vars[m]
    BY <1>2, <1>3 DEF ScopeOK
<1>5. ScopeOK(funs, Len(hp), k, e, c)
    BY <1>2, <1>3, <1>4 DEF ScopeOK
<1> DEFINE T == {hp[j] : j \in DOMAIN hp} \cup {c}
<1>6. hp \in Seq(T) /\ c \in T
    BY <1>0, SeqMonotonic
<1> HIDE DEF T, new
<1>7. /\ new \in Seq(T) /\ Len(new) = Len(hp)
      /\ \A j \in 1 .. Len(hp) : new[j] = IF j = e THEN c ELSE hp[j]
    BY <1>1, <1>6, ExceptSeq
<1>8. \A s \in 1 .. Len(hp) : ScopeOK(funs, Len(hp), k, s, new[s])
    BY <1>5, <1>7 DEF HeapOK
<1> QED BY <1>7, <1>8, ListedLen DEF HeapOK, new

\* What a name means is a legal value.
ResolveStep(hp, n, up, e) ==
    IF e = 0 THEN Missing
    ELSE IF hp[e].vars[n] = Missing THEN up[hp[e].parent] ELSE hp[e].vars[n]

LEMMA ResolveSound ==
    ASSUME NEW funs, NEW k \in Nat, NEW hp, HeapOK(funs, k, hp), NEW n \in Names
    PROVE  \A e \in 1 .. Len(hp) : Sound(funs, Len(hp), k, Resolve(hp, e, n))
<1> DEFINE D == 0 .. Len(hp)
           S == {m \in Nat : \E w : w = [e \in D |-> w[e]] /\
                    \A e \in D : e <= m => w[e] = ResolveStep(hp, n, w, e)}
<1>0. Len(hp) \in Nat /\ \A e \in 1 .. Len(hp) : hp[e].parent \in 0 .. e - 1
    BY ListedLen DEF HeapOK, Listed, ScopeOK
<1>1. 0 \in S
  <2> DEFINE w == [e \in D |-> Missing]
  <2>1. w = [e \in D |-> w[e]] /\ \A e \in D : e <= 0 => w[e] = ResolveStep(hp, n, w, e)
      BY <1>0 DEF ResolveStep
  <2> HIDE DEF w
  <2> QED BY Zenon, <2>1
<1>2. ASSUME NEW m \in Nat, m \in S PROVE m + 1 \in S
  <2>1. PICK v : \A e \in D : e <= m => v[e] = ResolveStep(hp, n, v, e)
      BY <1>2
  <2> DEFINE w == [e \in D |-> IF e <= m THEN v[e] ELSE ResolveStep(hp, n, v, e)]
  <2>2. ASSUME NEW e \in D, e <= m + 1 PROVE w[e] = ResolveStep(hp, n, w, e)
    <3>1. w[e] = ResolveStep(hp, n, v, e)
        BY <2>1
    <3>2. e # 0 => hp[e].parent \in D /\ hp[e].parent <= m
        BY <1>0, <2>2
    <3>3. e # 0 => v[hp[e].parent] = w[hp[e].parent]
        BY <3>2
    <3> HIDE DEF w
    <3> QED BY <3>1, <3>3 DEF ResolveStep
  <2>3. w = [e \in D |-> w[e]] /\ m + 1 \in Nat
      OBVIOUS
  <2> HIDE DEF w
  <2>4. \A e \in D : e <= m + 1 => w[e] = ResolveStep(hp, n, w, e)
      BY <2>2
  <2> QED BY Zenon, <2>3, <2>4
<1> HIDE DEF S
<1>3. Len(hp) \in S
    BY <1>0, <1>1, <1>2, NatSetInduction
<1>4. PICK w : w = [e \in D |-> w[e]] /\ \A e \in D : e <= Len(hp) => w[e] = ResolveStep(hp, n, w, e)
    BY <1>3 DEF S
<1> DEFINE up == CHOOSE u : u = [e \in D |-> ResolveStep(hp, n, u, e)]
<1>5. w = [e \in D |-> ResolveStep(hp, n, w, e)]
    BY <1>0, <1>4
<1>6. up = [e \in D |-> ResolveStep(hp, n, up, e)]
    BY Zenon, <1>5
<1>7. \A e \in D : Resolve(hp, e, n) = up[e]
    BY Zenon DEF Resolve, ResolveStep
<1> HIDE DEF up
<1> DEFINE Q == {m \in Nat : \A e \in D : e <= m => Sound(funs, Len(hp), k, up[e])}
<1>8. up[0] = Missing
    BY <1>0, <1>6 DEF ResolveStep
<1>9. 0 \in Q
    BY <1>0, <1>8, Atoms
<1>10. ASSUME NEW m \in Nat, m \in Q PROVE m + 1 \in Q
  <2>1. ASSUME NEW e \in D, e <= m + 1, e # 0 PROVE Sound(funs, Len(hp), k, up[e])
    <3>1. e \in 1 .. Len(hp) /\ hp[e].parent \in D /\ hp[e].parent <= m
        BY <1>0, <2>1
    <3>2. Sound(funs, Len(hp), k, up[hp[e].parent])
        BY <1>10, <3>1
    <3>3. Sound(funs, Len(hp), k, hp[e].vars[n])
        BY <3>1 DEF HeapOK, ScopeOK
    <3>4. up[e] = up[hp[e].parent] \/ up[e] = hp[e].vars[n]
        BY <1>6, <2>1 DEF ResolveStep
    <3> QED BY <3>2, <3>3, <3>4
  <2>2. Sound(funs, Len(hp), k, up[0])
      BY <1>8, Atoms
  <2> QED BY <2>1, <2>2
<1> HIDE DEF Q
<1>11. Len(hp) \in Q
    BY <1>0, <1>9, <1>10, NatSetInduction
<1>12. \A e \in D : Sound(funs, Len(hp), k, up[e])
    BY <1>0, <1>11 DEF Q
<1> QED BY <1>0, <1>7, <1>12

-----------------------------------------------------------------------------
(* Frames. *)

LEMMA BeforeNext ==
    ASSUME NEW code, NEW pc \in Nat \ {0}, NEW op
    PROVE  /\ IsFiniteSet(Before(code, pc, op)) /\ Cardinality(Before(code, pc, op)) \in Nat
           /\ code[pc].op = op =>
                Cardinality(Before(code, pc + 1, op)) = Cardinality(Before(code, pc, op)) + 1
           /\ code[pc].op # op => Before(code, pc + 1, op) = Before(code, pc, op)
<1>1. IsFiniteSet(1 .. (pc - 1))
    BY FS_Interval
<1>2. IsFiniteSet(Before(code, pc, op))
    BY <1>1, FS_Subset DEF Before
<1>3. 1 .. ((pc + 1) - 1) = 1 .. (pc - 1) \cup {pc} /\ pc \notin 1 .. (pc - 1)
    OBVIOUS
<1>4. code[pc].op = op =>
        Before(code, pc + 1, op) = Before(code, pc, op) \cup {pc} /\ pc \notin Before(code, pc, op)
    BY <1>3 DEF Before
<1>5. code[pc].op # op => Before(code, pc + 1, op) = Before(code, pc, op)
    BY <1>3 DEF Before
<1>6. Cardinality(Before(code, pc, op)) \in Nat
    BY <1>2, FS_CardinalityType
<1> QED BY <1>2, <1>4, <1>5, <1>6, FS_AddElement

LEMMA DepthNext ==
    ASSUME NEW code, NEW pc \in Nat \ {0}
    PROVE  /\ Depth(code, pc) \in Int
           /\ code[pc].op = "ENTER_SCOPE" => Depth(code, pc + 1) = Depth(code, pc) + 1
           /\ code[pc].op = "EXIT_SCOPE" => Depth(code, pc + 1) = Depth(code, pc) - 1
           /\ code[pc].op \notin {"ENTER_SCOPE", "EXIT_SCOPE"} => Depth(code, pc + 1) = Depth(code, pc)
<1>1. /\ Cardinality(Before(code, pc, "ENTER_SCOPE")) \in Nat
      /\ Cardinality(Before(code, pc, "EXIT_SCOPE")) \in Nat
    BY BeforeNext
<1>2. CASE code[pc].op = "ENTER_SCOPE"
  <2>1. Cardinality(Before(code, pc + 1, "ENTER_SCOPE")) = Cardinality(Before(code, pc, "ENTER_SCOPE")) + 1
      BY <1>2, BeforeNext
  <2>2. Before(code, pc + 1, "EXIT_SCOPE") = Before(code, pc, "EXIT_SCOPE")
      BY <1>2, BeforeNext
  <2> QED BY <1>1, <1>2, <2>1, <2>2 DEF Depth
<1>3. CASE code[pc].op = "EXIT_SCOPE"
  <2>1. Cardinality(Before(code, pc + 1, "EXIT_SCOPE")) = Cardinality(Before(code, pc, "EXIT_SCOPE")) + 1
      BY <1>3, BeforeNext
  <2>2. Before(code, pc + 1, "ENTER_SCOPE") = Before(code, pc, "ENTER_SCOPE")
      BY <1>3, BeforeNext
  <2> QED BY <1>1, <1>3, <2>1, <2>2 DEF Depth
<1>4. CASE code[pc].op \notin {"ENTER_SCOPE", "EXIT_SCOPE"}
  <2>1. /\ Before(code, pc + 1, "ENTER_SCOPE") = Before(code, pc, "ENTER_SCOPE")
        /\ Before(code, pc + 1, "EXIT_SCOPE") = Before(code, pc, "EXIT_SCOPE")
      BY <1>4, BeforeNext
  <2> QED BY <1>1, <1>4, <2>1 DEF Depth
<1> QED BY <1>2, <1>3, <1>4

LEMMA DepthAtStart == ASSUME NEW code PROVE Depth(code, 1) = 0
<1>1. Before(code, 1, "ENTER_SCOPE") = {} /\ Before(code, 1, "EXIT_SCOPE") = {}
    BY DEF Before
<1> QED BY <1>1, FS_EmptySet DEF Depth

\* The instruction of a legal frame, and what may follow.
LEMMA LegalAt ==
    ASSUME NEW funs, Legal(funs), NEW h, NEW k, NEW f, FrameOK(funs, h, k, f),
           NEW code, code = funs[f.fn].code
    PROVE  /\ LegalInstr(funs, code[f.pc]) /\ f.pc \in Nat \ {0}
           /\ code[f.pc].op \notin Ending => f.pc + 1 \in DOMAIN code
           /\ code[f.pc].op = "EXIT_SCOPE" => Depth(code, f.pc) > 0
<1>1. LegalCode(funs, code) /\ f.pc \in DOMAIN code
    BY DEF Legal, FrameOK
<1> QED BY <1>1 DEF LegalCode

LEMMA PutOK ==
    ASSUME NEW funs, NEW h, NEW k, NEW f, FrameOK(funs, h, k, f),
           NEW d \in Regs, NEW v, Sound(funs, h, k, v)
    PROVE  FrameOK(funs, h, k, Put(f, d, v))
<1> DEFINE g == Put(f, d, v)
<1>1. /\ g = [fn |-> f.fn, pc |-> f.pc, regs |-> [f.regs EXCEPT ![d] = v], env |-> f.env,
              parents |-> f.parents, dst |-> f.dst]
    BY DEF Put, FrameOK
<1>2. /\ g.fn = f.fn /\ g.pc = f.pc /\ g.env = f.env /\ g.parents = f.parents /\ g.dst = f.dst
      /\ g.regs = [f.regs EXCEPT ![d] = v]
      /\ g = [fn |-> g.fn, pc |-> g.pc, regs |-> g.regs, env |-> g.env, parents |-> g.parents, dst |-> g.dst]
    BY <1>1
<1> HIDE DEF g
<1>3. /\ DOMAIN g.regs = Regs /\ g.regs = [r \in Regs |-> g.regs[r]]
      /\ \A r \in Regs : g.regs[r] = IF r = d THEN v ELSE f.regs[r]
    BY <1>2 DEF FrameOK
<1>4. \A r \in Regs : Sound(funs, h, k, g.regs[r])
    BY <1>3 DEF FrameOK
<1>5. FrameOK(funs, h, k, g)
    BY <1>2, <1>3, <1>4 DEF FrameOK
<1> QED BY <1>5 DEF g

LEMMA AdvanceOK ==
    ASSUME NEW funs, Legal(funs), NEW h, NEW k, NEW f, FrameOK(funs, h, k, f),
           funs[f.fn].code[f.pc].op \notin Ending \cup {"ENTER_SCOPE", "EXIT_SCOPE"}
    PROVE  /\ FrameOK(funs, h, k, Advance(f)) /\ Advance(f).regs = f.regs
           /\ \A d \in Regs : FrameOK(funs, h, k, Awaiting(f, d))
<1> DEFINE g == Advance(f)
           code == funs[f.fn].code
<1>1. /\ g = [fn |-> f.fn, pc |-> f.pc + 1, regs |-> f.regs, env |-> f.env,
              parents |-> f.parents, dst |-> f.dst]
    BY DEF Advance, FrameOK
<1>2. /\ g.fn = f.fn /\ g.pc = f.pc + 1 /\ g.env = f.env /\ g.parents = f.parents /\ g.dst = f.dst
      /\ g.regs = f.regs
      /\ g = [fn |-> g.fn, pc |-> g.pc, regs |-> g.regs, env |-> g.env, parents |-> g.parents, dst |-> g.dst]
    BY <1>1
<1> HIDE DEF g
<1>3. f.pc \in Nat \ {0} /\ f.pc + 1 \in DOMAIN code
    BY LegalAt
<1>4. Depth(code, f.pc + 1) = Depth(code, f.pc)
    BY <1>3, DepthNext
<1>5. FrameOK(funs, h, k, g)
    BY <1>2, <1>3, <1>4 DEF FrameOK
<1>6. ASSUME NEW d \in Regs PROVE FrameOK(funs, h, k, Awaiting(f, d))
  <2> DEFINE a == Awaiting(f, d)
  <2>1. a = [fn |-> g.fn, pc |-> g.pc, regs |-> g.regs, env |-> g.env, parents |-> g.parents, dst |-> d]
      BY <1>5 DEF Awaiting, FrameOK, g
  <2>2. /\ a.fn = g.fn /\ a.pc = g.pc /\ a.env = g.env /\ a.parents = g.parents /\ a.dst = d
        /\ a.regs = g.regs
        /\ a = [fn |-> a.fn, pc |-> a.pc, regs |-> a.regs, env |-> a.env, parents |-> a.parents, dst |-> a.dst]
      BY <2>1
  <2> HIDE DEF a
  <2>3. FrameOK(funs, h, k, a)
      BY <1>5, <2>2 DEF FrameOK
  <2> QED BY <2>3 DEF a
<1> QED BY <1>2, <1>5, <1>6 DEF g

\* _make_frame gives a legal frame and scope.
LEMMA FrameOfOK ==
    ASSUME NEW funs, Legal(funs), NEW k \in Nat, NEW hp, HeapOK(funs, k, hp),
           NEW fv, fv.fn \in DOMAIN funs, fv.env \in 1 .. Len(hp),
           NEW args, ArityOk(funs, fv, args),
           \A j \in 1 .. Len(args) : Sound(funs, Len(hp), k, args[j])
    PROVE  LET new == FrameHeap(funs, fv, args, hp)
           IN  /\ HeapOK(funs, k, new) /\ Len(new) \in Nat /\ Len(hp) <= Len(new)
               /\ FrameOK(funs, Len(new), k, FrameOf(fv, hp))
<1> DEFINE params == funs[fv.fn].params
           Bound(n) == {j \in DOMAIN params : params[j] = n}
           held == [n \in Names |-> IF Bound(n) = {} THEN Missing
                                    ELSE args[CHOOSE j \in Bound(n) : TRUE]]
           new == FrameHeap(funs, fv, args, hp)
           env == IF fv.fn = 1 THEN fv.env ELSE Len(hp) + 1
<1>0. Len(hp) \in Nat /\ DOMAIN params = 1 .. Len(args)
    BY ListedLen, LenProperties DEF HeapOK, Listed, ArityOk, Legal
<1>1. ASSUME NEW n \in Names PROVE Sound(funs, Len(hp), k, held[n])
  <2>1. CASE Bound(n) = {}
      BY <2>1, Atoms
  <2>2. CASE Bound(n) # {}
    <3>1. (CHOOSE j \in Bound(n) : TRUE) \in Bound(n)
        BY Zenon, <2>2
    <3>2. (CHOOSE j \in Bound(n) : TRUE) \in 1 .. Len(args)
        BY <1>0, <3>1
    <3>3. held[n] = args[CHOOSE j \in Bound(n) : TRUE]
        BY <2>2
    <3> QED BY <3>2, <3>3
  <2> QED BY <2>1, <2>2
<1>2. held = [n \in Names |-> held[n]]
    OBVIOUS
<1>3. new = IF fv.fn = 1 THEN hp ELSE Append(hp, Scope(fv.env, held))
    BY DEF FrameHeap
<1> HIDE DEF held, new
<1>4. HeapOK(funs, k, new) /\ Len(new) \in Nat /\ Len(hp) <= Len(new) /\ env \in 1 .. Len(new)
  <2>1. CASE fv.fn = 1
      BY <1>0, <1>3, <2>1
  <2>2. CASE fv.fn # 1
    <3>1. HeapOK(funs, k, new) /\ Len(new) = Len(hp) + 1
        BY <1>1, <1>2, <1>3, <2>2, HeapGrows
    <3> QED BY <1>0, <2>2, <3>1
  <2> QED BY <2>1, <2>2
<1> DEFINE g == FrameOf(fv, hp)
<1>5. g = [fn |-> fv.fn, pc |-> 1, regs |-> [r \in Regs |-> None], env |-> env,
           parents |-> <<>>, dst |-> 1]
    BY DEF FrameOf, Frame
<1>6. /\ g.fn = fv.fn /\ g.pc = 1 /\ g.env = env /\ g.parents = <<>> /\ g.dst = 1
      /\ g.regs = [r \in Regs |-> None]
      /\ g = [fn |-> g.fn, pc |-> g.pc, regs |-> g.regs, env |-> g.env, parents |-> g.parents, dst |-> g.dst]
    BY <1>5
<1> HIDE DEF g, env
<1>7. 1 \in Regs /\ 1 \in DOMAIN funs[fv.fn].code
    BY NRegsAssumption DEF Regs, Legal, LegalCode
<1>8. <<>> \in Seq(1 .. Len(new)) /\ Len(<<>>) = 0
    BY EmptySeq
<1>9. \A r \in Regs : Sound(funs, Len(new), k, None)
    BY Atoms
<1>10. FrameOK(funs, Len(new), k, g)
    BY <1>4, <1>6, <1>7, <1>8, <1>9, DepthAtStart DEF FrameOK
<1> QED BY <1>4, <1>10 DEF new, g

\* Two fields of a frame replaced.
LEMMA TwoFields ==
    ASSUME NEW fn, NEW pc, NEW regs, NEW env, NEW parents, NEW dst, NEW a,
           a = [fn |-> fn, pc |-> pc, regs |-> regs, env |-> env, parents |-> parents, dst |-> dst],
           NEW e, NEW p
    PROVE  /\ a.parents = parents
           /\ [a EXCEPT !.parents = p, !.env = e] =
                [fn |-> fn, pc |-> pc, regs |-> regs, env |-> e, parents |-> p, dst |-> dst]
           /\ [a EXCEPT !.env = e, !.parents = p] =
                [fn |-> fn, pc |-> pc, regs |-> regs, env |-> e, parents |-> p, dst |-> dst]
<1> DEFINE c == [a EXCEPT !.parents = p]
           d == [a EXCEPT !.env = e]
<1>1. /\ [a EXCEPT !.parents = p, !.env = e] = [c EXCEPT !.env = e]
      /\ [a EXCEPT !.env = e, !.parents = p] = [d EXCEPT !.parents = p]
    OBVIOUS
<1>2. /\ c = [fn |-> fn, pc |-> pc, regs |-> regs, env |-> env, parents |-> p, dst |-> dst]
      /\ d = [fn |-> fn, pc |-> pc, regs |-> regs, env |-> e, parents |-> parents, dst |-> dst]
    OBVIOUS
<1> HIDE DEF c, d
<1>3. /\ [c EXCEPT !.env = e] =
           [fn |-> fn, pc |-> pc, regs |-> regs, env |-> e, parents |-> p, dst |-> dst]
      /\ [d EXCEPT !.parents = p] =
           [fn |-> fn, pc |-> pc, regs |-> regs, env |-> e, parents |-> p, dst |-> dst]
    BY <1>2
<1>4. a.parents = parents
    OBVIOUS
<1> QED BY Zenon, <1>1, <1>3, <1>4

LEMMA EnterScopeOK ==
    ASSUME NEW funs, Legal(funs), NEW k \in Nat, NEW hp, HeapOK(funs, k, hp),
           NEW f, FrameOK(funs, Len(hp), k, f), funs[f.fn].code[f.pc].op = "ENTER_SCOPE"
    PROVE  FrameOK(funs, Len(hp) + 1, k,
                   [Advance(f) EXCEPT !.parents = Append(@, f.env), !.env = Len(hp) + 1])
<1> DEFINE g == [Advance(f) EXCEPT !.parents = Append(@, f.env), !.env = Len(hp) + 1]
           code == funs[f.fn].code
<1>0. Len(hp) \in Nat
    BY ListedLen DEF HeapOK, Listed
<1>1. f.parents \in Seq(1 .. Len(hp) + 1) /\ f.env \in 1 .. Len(hp) + 1
  <2>1. 1 .. Len(hp) \subseteq 1 .. Len(hp) + 1
      BY <1>0
  <2>2. f.parents \in Seq(1 .. Len(hp)) /\ f.env \in 1 .. Len(hp)
      BY DEF FrameOK
  <2> QED BY <2>1, <2>2, SeqMonotonic
<1>2. /\ Append(f.parents, f.env) \in Seq(1 .. Len(hp) + 1)
      /\ Len(Append(f.parents, f.env)) = Len(f.parents) + 1
    BY <1>1, AppendProperties
<1>3. f.pc \in Nat \ {0} /\ f.pc + 1 \in DOMAIN code
    BY LegalAt DEF Ending
<1>4. Depth(code, f.pc + 1) = Depth(code, f.pc) + 1
    BY <1>3, DepthNext
<1>5. g = [fn |-> f.fn, pc |-> f.pc + 1, regs |-> f.regs, env |-> Len(hp) + 1,
           parents |-> Append(f.parents, f.env), dst |-> f.dst]
  <2> DEFINE a == Advance(f)
  <2>1. a = [fn |-> f.fn, pc |-> f.pc + 1, regs |-> f.regs, env |-> f.env,
             parents |-> f.parents, dst |-> f.dst]
      BY DEF Advance, FrameOK
  <2> HIDE DEF a
  <2>2. a.parents = f.parents
      BY <2>1
  <2>3. g = [a EXCEPT !.parents = Append(f.parents, f.env), !.env = Len(hp) + 1]
      BY Zenon, <2>2 DEF a
  <2> HIDE DEF g
  <2> QED BY Zenon, <2>1, <2>3, TwoFields
<1>6. /\ g.fn = f.fn /\ g.pc = f.pc + 1 /\ g.env = Len(hp) + 1 /\ g.dst = f.dst /\ g.regs = f.regs
      /\ g.parents = Append(f.parents, f.env)
      /\ g = [fn |-> g.fn, pc |-> g.pc, regs |-> g.regs, env |-> g.env, parents |-> g.parents, dst |-> g.dst]
    BY <1>5
<1> HIDE DEF g
<1>7. Len(hp) + 1 \in 1 .. Len(hp) + 1
    BY <1>0
<1>8. \A r \in Regs : Sound(funs, Len(hp) + 1, k, f.regs[r])
  <2>1. Len(hp) + 1 \in Nat /\ Len(hp) <= Len(hp) + 1 /\ k <= k
      BY <1>0
  <2>2. \A v : Sound(funs, Len(hp), k, v) => Sound(funs, Len(hp) + 1, k, v)
      BY ONLY <1>0, <2>1, SoundGrows, k \in Nat
  <2> QED BY Zenon, <2>2 DEF FrameOK
<1>9. FrameOK(funs, Len(hp) + 1, k, g)
    BY <1>2, <1>3, <1>4, <1>6, <1>7, <1>8 DEF FrameOK
<1> QED BY <1>9 DEF g

LEMMA ExitScopeOK ==
    ASSUME NEW funs, Legal(funs), NEW h \in Nat, NEW k \in Nat,
           NEW f, FrameOK(funs, h, k, f), funs[f.fn].code[f.pc].op = "EXIT_SCOPE"
    PROVE  FrameOK(funs, h, k, [Advance(f) EXCEPT !.env = f.parents[Len(f.parents)],
                                                  !.parents = SubSeq(@, 1, Len(@) - 1)])
<1> DEFINE g == [Advance(f) EXCEPT !.env = f.parents[Len(f.parents)],
                                   !.parents = SubSeq(@, 1, Len(@) - 1)]
           code == funs[f.fn].code
           b == SubSeq(f.parents, 1, Len(f.parents) - 1)
<1>1. f.pc \in Nat \ {0} /\ f.pc + 1 \in DOMAIN code /\ Depth(code, f.pc) > 0
    BY LegalAt DEF Ending
<1>2. Depth(code, f.pc + 1) = Depth(code, f.pc) - 1
    BY <1>1, DepthNext
<1>3. f.parents \in Seq(1 .. h) /\ Len(f.parents) \in Nat \ {0} /\ Len(f.parents) = Depth(code, f.pc)
    BY <1>1, LenProperties DEF FrameOK
<1>4. f.parents[Len(f.parents)] \in 1 .. h
    BY <1>3, ElementOfSeq
<1>5. b \in Seq(1 .. h) /\ Len(b) = Len(f.parents) - 1
  <2>1. \A j \in 1 .. Len(f.parents) - 1 : f.parents[j] \in 1 .. h
      BY <1>3, ElementOfSeq
  <2> QED BY <1>3, <2>1, SubSeqProperties
<1>6. g = [fn |-> f.fn, pc |-> f.pc + 1, regs |-> f.regs, env |-> f.parents[Len(f.parents)],
           parents |-> b, dst |-> f.dst]
  <2> DEFINE a == Advance(f)
  <2>1. a = [fn |-> f.fn, pc |-> f.pc + 1, regs |-> f.regs, env |-> f.env,
             parents |-> f.parents, dst |-> f.dst]
      BY DEF Advance, FrameOK
  <2> HIDE DEF a
  <2>2. a.parents = f.parents
      BY <2>1
  <2>3. g = [a EXCEPT !.env = f.parents[Len(f.parents)], !.parents = b]
      BY Zenon, <2>2 DEF a
  <2> HIDE DEF g
  <2> QED BY Zenon, <2>1, <2>3, TwoFields
<1>7. /\ g.fn = f.fn /\ g.pc = f.pc + 1 /\ g.env = f.parents[Len(f.parents)] /\ g.dst = f.dst
      /\ g.regs = f.regs /\ g.parents = b
      /\ g = [fn |-> g.fn, pc |-> g.pc, regs |-> g.regs, env |-> g.env, parents |-> g.parents, dst |-> g.dst]
    BY <1>6
<1> HIDE DEF g, b
<1>8. FrameOK(funs, h, k, g)
    BY <1>1, <1>2, <1>3, <1>4, <1>5, <1>7 DEF FrameOK
<1> QED BY <1>8 DEF g

\* A local instruction leaves frame and scopes legal.
LEMMA LocalOK ==
    ASSUME NEW funs, Legal(funs), NEW k \in Nat, NEW hp, HeapOK(funs, k, hp),
           NEW f, FrameOK(funs, Len(hp), k, f),
           NEW i, i = funs[f.fn].code[f.pc], i.op \in LocalOps
    PROVE  LET new == LocalHeap(i, f, hp)
           IN  /\ HeapOK(funs, k, new) /\ Len(new) \in Nat /\ Len(hp) <= Len(new)
               /\ FrameOK(funs, Len(new), k, LocalFrame(i, f, hp))
<1>0. Len(hp) \in Nat
    BY ListedLen DEF HeapOK, Listed
<1>1. LegalInstr(funs, i)
    BY LegalAt
<1>2. f.env \in 1 .. Len(hp) /\ \A r \in Regs : Sound(funs, Len(hp), k, f.regs[r])
    BY DEF FrameOK
<1>3. i.op \notin {"ENTER_SCOPE", "EXIT_SCOPE"} => FrameOK(funs, Len(hp), k, Advance(f))
    BY AdvanceOK DEF LocalOps, Ending
<1>4. ASSUME i.op \in {"LOAD_HOST", "LOAD_ENV", "MAKE_FUNCTION", "CALL_BUILTIN"}
      PROVE  /\ LocalHeap(i, f, hp) = hp
             /\ FrameOK(funs, Len(hp), k, LocalFrame(i, f, hp))
  <2>1. i.dst \in Regs
      BY <1>1, <1>4 DEF LegalInstr, Assigning
  <2>2. \A v : Sound(funs, Len(hp), k, v) => FrameOK(funs, Len(hp), k, Put(Advance(f), i.dst, v))
      BY <1>3, <1>4, <2>1, PutOK
  <2>3. CASE i.op = "LOAD_HOST"
    <3>1. LocalFrame(i, f, hp) = Put(Advance(f), i.dst, Num(i.val)) /\ LocalHeap(i, f, hp) = hp
        BY <2>3 DEF LocalFrame, LocalHeap
    <3>2. Sound(funs, Len(hp), k, Num(i.val))
        BY Atoms
    <3> QED BY <2>2, <3>1, <3>2
  <2>4. CASE i.op = "LOAD_ENV"
    <3>1. i.name \in Names
        BY <1>1, <2>4 DEF LegalInstr
    <3>2. Sound(funs, Len(hp), k, Resolve(hp, f.env, i.name))
        BY <1>2, <3>1, ResolveSound
    <3>3. /\ LocalFrame(i, f, hp) = Put(Advance(f), i.dst, Resolve(hp, f.env, i.name))
          /\ LocalHeap(i, f, hp) = hp
        BY <2>4 DEF LocalFrame, LocalHeap
    <3> QED BY <2>2, <3>2, <3>3
  <2>5. CASE i.op = "MAKE_FUNCTION"
    <3>1. i.fn \in DOMAIN funs
        BY <1>1, <2>5 DEF LegalInstr
    <3>2. Sound(funs, Len(hp), k, Fn(i.fn, f.env))
        BY <1>2, <3>1, Atoms
    <3>3. LocalFrame(i, f, hp) = Put(Advance(f), i.dst, Fn(i.fn, f.env)) /\ LocalHeap(i, f, hp) = hp
        BY <2>5 DEF LocalFrame, LocalHeap
    <3> QED BY <2>2, <3>2, <3>3
  <2>6. CASE i.op = "CALL_BUILTIN"
    <3>1. LocalFrame(i, f, hp) = Put(Advance(f), i.dst, Term(Args(f, i.args))) /\ LocalHeap(i, f, hp) = hp
        BY <2>6 DEF LocalFrame, LocalHeap
    <3>2. Sound(funs, Len(hp), k, Term(Args(f, i.args)))
        BY Atoms
    <3> QED BY <2>2, <3>1, <3>2
  <2> QED BY <1>4, <2>3, <2>4, <2>5, <2>6
<1>5. ASSUME i.op \in {"STORE_LOCAL", "DEFINE_ONCE", "DEFEFFECT"}
      PROVE  /\ LocalFrame(i, f, hp) = Advance(f)
             /\ HeapOK(funs, k, LocalHeap(i, f, hp)) /\ Len(LocalHeap(i, f, hp)) = Len(hp)
  <2>1. i.name \in Names
      BY <1>1, <1>5 DEF LegalInstr
  <2>2. \A e \in 1 .. Len(hp), n \in Names : \A v : Sound(funs, Len(hp), k, v)
           => HeapOK(funs, k, Bind(hp, e, n, v)) /\ Len(Bind(hp, e, n, v)) = Len(hp)
      BY HeapBind
  <2>3. CASE i.op \in {"STORE_LOCAL", "DEFINE_ONCE"}
    <3>1. i.src \in Regs
        BY <1>1, <2>3 DEF LegalInstr
    <3>2. Sound(funs, Len(hp), k, f.regs[i.src])
        BY <1>2, <3>1
    <3>3. /\ LocalFrame(i, f, hp) = Advance(f)
          /\ LocalHeap(i, f, hp) = Bind(hp, f.env, i.name, f.regs[i.src])
        BY <2>3 DEF LocalFrame, LocalHeap
    <3>4. HeapOK(funs, k, Bind(hp, f.env, i.name, f.regs[i.src]))
          /\ Len(Bind(hp, f.env, i.name, f.regs[i.src])) = Len(hp)
        BY Zenon, <1>2, <2>1, <2>2, <3>2
    <3> QED BY <3>3, <3>4
  <2>4. CASE i.op = "DEFEFFECT"
    <3>1. Sound(funs, Len(hp), k, EffectDefinition(i.resumable))
        BY Atoms
    <3>2. /\ LocalFrame(i, f, hp) = Advance(f)
          /\ LocalHeap(i, f, hp) = Bind(hp, f.env, i.name, EffectDefinition(i.resumable))
        BY <2>4 DEF LocalFrame, LocalHeap
    <3>3. HeapOK(funs, k, Bind(hp, f.env, i.name, EffectDefinition(i.resumable)))
          /\ Len(Bind(hp, f.env, i.name, EffectDefinition(i.resumable))) = Len(hp)
        BY Zenon, <1>2, <2>1, <2>2, <3>1
    <3> QED BY <3>2, <3>3
  <2> QED BY <1>5, <2>3, <2>4
<1>6. CASE i.op \in {"LOAD_HOST", "LOAD_ENV", "MAKE_FUNCTION", "CALL_BUILTIN"}
    BY <1>0, <1>4, <1>6
<1>7. CASE i.op \in {"STORE_LOCAL", "DEFINE_ONCE", "DEFEFFECT"}
    BY <1>0, <1>3, <1>5, <1>7
<1>8. CASE i.op = "ENTER_SCOPE"
  <2>1. NoVars = [n \in Names |-> NoVars[n]] /\ \A n \in Names : Sound(funs, Len(hp), k, NoVars[n])
      BY Atoms DEF NoVars
  <2>2. /\ HeapOK(funs, k, Append(hp, Scope(f.env, NoVars)))
        /\ Len(Append(hp, Scope(f.env, NoVars))) = Len(hp) + 1
      BY <1>2, <2>1, HeapGrows
  <2>3. /\ LocalFrame(i, f, hp) = [Advance(f) EXCEPT !.parents = Append(@, f.env), !.env = Len(hp) + 1]
        /\ LocalHeap(i, f, hp) = Append(hp, Scope(f.env, NoVars))
      BY <1>8 DEF LocalFrame, LocalHeap
  <2>4. FrameOK(funs, Len(hp) + 1, k, [Advance(f) EXCEPT !.parents = Append(@, f.env), !.env = Len(hp) + 1])
      BY <1>8, EnterScopeOK
  <2> QED BY <1>0, <2>2, <2>3, <2>4
<1>9. CASE i.op = "EXIT_SCOPE"
  <2> DEFINE g == [Advance(f) EXCEPT !.env = f.parents[Len(f.parents)],
                                     !.parents = SubSeq(@, 1, Len(@) - 1)]
  <2>1. LocalFrame(i, f, hp) = g /\ LocalHeap(i, f, hp) = hp
      BY <1>9 DEF LocalFrame, LocalHeap
  <2>2. FrameOK(funs, Len(hp), k, g)
      BY <1>0, <1>9, ExitScopeOK
  <2> HIDE DEF g
  <2> QED BY <1>0, <2>1, <2>2
<1> QED BY <1>6, <1>7, <1>8, <1>9 DEF LocalOps

-----------------------------------------------------------------------------
(* The stack, the continuations, and the whole state. *)

SpecsOK(funs, specs) ==
    /\ DOMAIN specs = 1 .. Len(specs)
    /\ \A j \in DOMAIN specs : specs[j].fn \in DOMAIN funs

EntryOK(funs, h, k, e) ==
    \/ /\ e.kind \in FrameKinds
       /\ e = [kind |-> e.kind, frame |-> e.frame]
       /\ FrameOK(funs, h, k, e.frame)
    \/ /\ e.kind \in {"handle", "dispatch"}
       /\ e = Marker(e.kind, e.specs, e.env, e.hid)
       /\ e.env \in 1 .. h /\ e.hid \in 1 .. h /\ SpecsOK(funs, e.specs)

StackOK(funs, h, k, st) ==
    /\ Listed(st)
    /\ \A j \in 1 .. Len(st) : EntryOK(funs, h, k, st[j])
    /\ st # <<>> => st[1].kind \in FrameKinds

ContOK(funs, h, k, c) ==
    /\ c = [resumable |-> c.resumable, frame |-> c.frame, dst |-> c.dst, hid |-> c.hid,
            cut |-> c.cut, scopes |-> c.scopes, near |-> c.near, leaks |-> c.leaks]
    /\ FrameOK(funs, h, k, c.frame) /\ c.dst \in Regs
    /\ c.hid # 0 => c.hid = c.near

ContsOK(funs, h, cs) ==
    Listed(cs) /\ \A j \in 1 .. Len(cs) : ContOK(funs, h, Len(cs), cs[j])

StateOK(funs, hp, cs, st) ==
    /\ HeapOK(funs, Len(cs), hp)
    /\ ContsOK(funs, Len(hp), cs)
    /\ StackOK(funs, Len(hp), Len(cs), st)

\* Something that is legal runs, is returned, or is on its way to a handle.  The
\* signal is that of the last continuation, whose nearest handle has not changed
\* since the perform.
ModeOK ==
    \/ mode.st = "run" /\ stack # <<>> /\ Top.kind \in FrameKinds
    \/ /\ mode.st = "ret"
       /\ Sound(Funs, Len(heap), Len(conts), mode.val)
    \/ /\ mode.st = "signal"
       /\ mode = [st |-> "signal", eff |-> mode.eff, arg |-> mode.arg, cont |-> mode.cont,
                  cut |-> mode.cut, crossed |-> mode.crossed]
       /\ Sound(Funs, Len(heap), Len(conts), mode.arg)
       /\ mode.cont = Len(conts) /\ Len(conts) > 0
       /\ conts[Len(conts)].near = NearestFor(mode.eff)
    \/ /\ mode.st = "done"
       /\ mode.kind = "unhandled" => conts[Len(conts)].near = 0

IInv ==
    /\ program \in DOMAIN Programs /\ outside \in BOOLEAN
    /\ StateOK(Funs, heap, conts, stack)
    /\ ModeOK

LEMMA LegalFuns == ASSUME program \in DOMAIN Programs PROVE Legal(Funs)
BY ProgramsAssumption DEF Funs

LEMMA EntryGrows ==
    ASSUME NEW funs, NEW h \in Nat, NEW k \in Nat, NEW h2 \in Nat, NEW k2 \in Nat, h <= h2, k <= k2
    PROVE  \A e : EntryOK(funs, h, k, e) => EntryOK(funs, h2, k2, e)
<1>1. \A f : FrameOK(funs, h, k, f) => FrameOK(funs, h2, k2, f)
    BY SoundGrows
<1>2. 1 .. h \subseteq 1 .. h2
    OBVIOUS
<1> QED BY Zenon, <1>1, <1>2 DEF EntryOK

\* A stack with one entry more, or without its top.
LEMMA PushOK ==
    ASSUME NEW funs, NEW h, NEW k, NEW st, StackOK(funs, h, k, st),
           NEW e, EntryOK(funs, h, k, e), st = <<>> => e.kind \in FrameKinds
    PROVE  /\ StackOK(funs, h, k, Append(st, e)) /\ Append(st, e) # <<>>
           /\ Append(st, e)[Len(Append(st, e))] = e
<1> DEFINE new == Append(st, e)
<1>0. Listed(st) /\ Len(st) \in Nat /\ (st # <<>> => Len(st) >= 1)
  <2>1. Listed(st)
      BY DEF StackOK
  <2> QED BY <2>1, ListedLen DEF Listed
<1>1. /\ Listed(new) /\ Len(new) = Len(st) + 1 /\ new[Len(st) + 1] = e /\ new # <<>>
      /\ \A j \in 1 .. Len(st) : new[j] = st[j]
  <2>1. Listed(st)
      BY <1>0
  <2> QED BY ONLY <2>1, ListedAppend
<1> HIDE DEF new
<1>2. \A j \in 1 .. Len(st) : EntryOK(funs, h, k, new[j])
    BY <1>1 DEF StackOK
<1>3. \A j \in 1 .. Len(new) : j \in 1 .. Len(st) \/ j = Len(st) + 1
    BY <1>0, <1>1
<1>4. \A j \in 1 .. Len(new) : EntryOK(funs, h, k, new[j])
    BY <1>1, <1>2, <1>3
<1>5. new[1].kind \in FrameKinds
  <2>1. CASE st = <<>>
      BY <1>1, <2>1
  <2>2. CASE st # <<>>
      BY <1>0, <1>1, <2>2 DEF StackOK
  <2> QED BY <2>1, <2>2
<1> QED BY <1>1, <1>4, <1>5 DEF StackOK, new

LEMMA PopOK ==
    ASSUME NEW funs, NEW h, NEW k, NEW st, StackOK(funs, h, k, st), st # <<>>
    PROVE  LET b == SubSeq(st, 1, Len(st) - 1)
           IN  /\ StackOK(funs, h, k, b)
               /\ EntryOK(funs, h, k, st[Len(st)])
               /\ b = <<>> => st[Len(st)].kind \in FrameKinds
<1> DEFINE b == SubSeq(st, 1, Len(st) - 1)
<1>1. /\ Listed(b) /\ Len(b) = Len(st) - 1 /\ \A j \in 1 .. Len(st) - 1 : b[j] = st[j]
      /\ Len(st) \in Nat /\ Len(st) >= 1
    BY ListedBelow DEF StackOK
<1> HIDE DEF b
<1>2. \A j \in 1 .. Len(b) : EntryOK(funs, h, k, b[j])
    BY <1>1 DEF StackOK
<1>3. b # <<>> => b[1].kind \in FrameKinds
  <2> SUFFICES ASSUME b # <<>> PROVE b[1].kind \in FrameKinds
      OBVIOUS
  <2>1. Len(b) >= 1
      BY <1>1, ListedLen DEF Listed
  <2> QED BY <1>1, <2>1 DEF StackOK
<1>4. b = <<>> => st[Len(st)].kind \in FrameKinds
  <2> SUFFICES ASSUME b = <<>> PROVE st[Len(st)].kind \in FrameKinds
      OBVIOUS
  <2>1. Len(b) = 0
      BY EmptySeq
  <2>2. Len(st) = 1
      BY <1>1, <2>1
  <2> QED BY <2>2 DEF StackOK
<1> QED BY <1>1, <1>2, <1>3, <1>4 DEF StackOK, b

\* What a growing heap or a new continuation leaves legal.
LEMMA GrowHeap ==
    ASSUME NEW funs, NEW hp, NEW cs, NEW st, StateOK(funs, hp, cs, st),
           NEW hp2, HeapOK(funs, Len(cs), hp2), Len(hp) <= Len(hp2)
    PROVE  StateOK(funs, hp2, cs, st)
<1> DEFINE h == Len(hp)
           h2 == Len(hp2)
           k == Len(cs)
<1>1. h \in Nat /\ h2 \in Nat /\ k \in Nat /\ h <= h2 /\ k <= k
    BY ListedLen DEF StateOK, HeapOK, ContsOK, Listed
<1> HIDE DEF h, h2, k
<1>2. /\ \A f : FrameOK(funs, h, k, f) => FrameOK(funs, h2, k, f)
      /\ \A e : EntryOK(funs, h, k, e) => EntryOK(funs, h2, k, e)
    BY <1>1, SoundGrows, EntryGrows
<1>3. ContsOK(funs, h2, cs)
    BY Zenon, <1>2 DEF StateOK, ContsOK, ContOK, h, k
<1>4. StackOK(funs, h2, k, st)
    BY Zenon, <1>2 DEF StateOK, StackOK, h, k
<1> QED BY <1>3, <1>4 DEF StateOK, h2, k

LEMMA GrowConts ==
    ASSUME NEW funs, NEW hp, NEW cs, NEW st, StateOK(funs, hp, cs, st),
           NEW c, ContOK(funs, Len(hp), Len(cs) + 1, c)
    PROVE  /\ StateOK(funs, hp, Append(cs, c), st)
           /\ Len(Append(cs, c)) = Len(cs) + 1 /\ Append(cs, c)[Len(cs) + 1] = c
           /\ Len(cs) \in Nat
<1> DEFINE h == Len(hp)
           k == Len(cs)
           new == Append(cs, c)
<1>1. h \in Nat /\ k \in Nat /\ k + 1 \in Nat /\ h <= h /\ k <= k + 1
    BY ListedLen DEF StateOK, HeapOK, ContsOK, Listed
<1>2. Listed(new) /\ Len(new) = k + 1 /\ new[k + 1] = c /\ \A j \in 1 .. k : new[j] = cs[j]
    BY ListedAppend DEF StateOK, ContsOK
<1> HIDE DEF h, k, new
<1>3. /\ \A f : FrameOK(funs, h, k, f) => FrameOK(funs, h, k + 1, f)
      /\ \A e : EntryOK(funs, h, k, e) => EntryOK(funs, h, k + 1, e)
      /\ \A s, d : ScopeOK(funs, h, k, s, d) => ScopeOK(funs, h, k + 1, s, d)
    BY <1>1, SoundGrows, EntryGrows
<1>4. \A j \in 1 .. k : ContOK(funs, h, k, new[j])
    BY <1>2 DEF StateOK, ContsOK, h, k
<1>5. \A j \in 1 .. k : ContOK(funs, h, k + 1, new[j])
    BY Zenon, <1>3, <1>4 DEF ContOK
<1>6. \A j \in 1 .. k + 1 : j \in 1 .. k \/ j = k + 1
    BY <1>1
<1>7. ContsOK(funs, h, new)
  <2>1. ContOK(funs, h, k + 1, new[k + 1])
      BY <1>2 DEF h, k
  <2>2. \A j \in 1 .. k + 1 : ContOK(funs, h, k + 1, new[j])
      BY <1>5, <1>6, <2>1
  <2> QED BY <1>2, <2>2 DEF ContsOK
<1>8. HeapOK(funs, Len(new), hp)
  <2>1. HeapOK(funs, k + 1, hp)
      BY Zenon, <1>3 DEF StateOK, HeapOK, h, k
  <2> QED BY <1>2, <2>1
<1>9. StackOK(funs, h, Len(new), st)
  <2>1. StackOK(funs, h, k + 1, st)
      BY Zenon, <1>3 DEF StateOK, StackOK, h, k
  <2> QED BY <1>2, <2>1
<1> QED BY <1>1, <1>2, <1>7, <1>8, <1>9 DEF StateOK, h, k, new

-----------------------------------------------------------------------------
(* The nearest handle. *)

Marks(st, eff) ==
    {j \in DOMAIN st : /\ st[j].kind \notin FrameKinds
                       /\ \E i \in DOMAIN st[j].specs : st[j].specs[i].eff = eff}
Nearest(st, eff) ==
    IF Marks(st, eff) = {} THEN 0
    ELSE st[CHOOSE j \in Marks(st, eff) : \A i \in Marks(st, eff) : i <= j].hid

LEMMA NearestHere == \A eff : NearestFor(eff) = Nearest(stack, eff)
BY DEF NearestFor, Nearest, Marks

\* An entry that is no handle for eff does not matter, one at the top that is
\* is the nearest, and without entries there is none.
LEMMA NearestBelow ==
    ASSUME NEW st, Listed(st), st # <<>>, NEW eff, Len(st) \notin Marks(st, eff)
    PROVE  Nearest(SubSeq(st, 1, Len(st) - 1), eff) = Nearest(st, eff)
<1> DEFINE b == SubSeq(st, 1, Len(st) - 1)
           m == Marks(st, eff)
           top(S) == CHOOSE j \in S : \A i \in S : i <= j
<1>1. /\ DOMAIN b = 1 .. Len(st) - 1 /\ \A j \in 1 .. Len(st) - 1 : b[j] = st[j]
      /\ DOMAIN st = 1 .. Len(st) /\ Len(st) \in Nat
    BY ListedBelow
<1> HIDE DEF b
<1>2. Marks(b, eff) = m
  <2>1. \A j \in 1 .. Len(st) : j \in 1 .. Len(st) - 1 \/ j = Len(st)
    <3>1. \A n \in Nat : \A j \in 1 .. n : j \in 1 .. n - 1 \/ j = n
        OBVIOUS
    <3> QED BY Zenon, <1>1, <3>1
  <2>2. \A j \in DOMAIN b : j \in DOMAIN st /\ b[j] = st[j]
      BY <1>1
  <2>3. \A j \in m : j \in DOMAIN b
      BY <1>1, <2>1 DEF Marks
  <2>4. \A j \in DOMAIN b : j \in Marks(b, eff) <=> j \in m
      BY <2>2 DEF Marks
  <2>5. \A j \in Marks(b, eff) : j \in DOMAIN b
      BY DEF Marks
  <2> HIDE DEF m
  <2> QED BY <2>3, <2>4, <2>5
<1>3. CASE m = {}
    BY <1>2, <1>3 DEF Nearest, b
<1>4. CASE m # {}
  <2>1. m \subseteq DOMAIN b /\ m \subseteq Nat /\ IsFiniteSet(m)
    <3>1. m \subseteq DOMAIN b
        BY <1>2 DEF Marks
    <3>2. IsFiniteSet(1 .. Len(st) - 1)
        BY <1>1, FS_Interval
    <3> QED BY <1>1, <3>1, <3>2, FS_Subset
  <2>2. \E j \in m : \A i \in m : i <= j
      BY <1>4, <2>1, GreatestNat
  <2>3. top(m) \in m
    <3> HIDE DEF m
    <3> QED BY Zenon, <2>2
  <2>4. b[top(m)] = st[top(m)]
      BY <1>1, <2>1, <2>3
  <2>5. Nearest(b, eff) = b[top(m)].hid
      BY Zenon, <1>2, <1>4 DEF Nearest
  <2>6. Nearest(st, eff) = st[top(m)].hid
      BY Zenon, <1>4 DEF Nearest
  <2> QED BY <2>4, <2>5, <2>6 DEF b
<1> QED BY <1>3, <1>4

LEMMA NearestTop ==
    ASSUME NEW st, Listed(st), st # <<>>, NEW eff, Len(st) \in Marks(st, eff)
    PROVE  Nearest(st, eff) = st[Len(st)].hid
<1> DEFINE m == Marks(st, eff)
           top == CHOOSE j \in m : \A i \in m : i <= j
<1>1. DOMAIN st = 1 .. Len(st) /\ Len(st) \in Nat
    BY ListedBelow
<1>2. \A i \in m : i \in Nat /\ i <= Len(st)
    BY <1>1 DEF Marks
<1>3. Len(st) \in m
    OBVIOUS
<1> HIDE DEF m
<1>4. \E j \in m : \A i \in m : i <= j
    BY <1>2, <1>3
<1>5. top \in m /\ \A i \in m : i <= top
    BY Zenon, <1>4
<1> HIDE DEF top
<1>6. top = Len(st)
    BY <1>1, <1>2, <1>3, <1>5
<1> QED BY Zenon, <1>3, <1>6 DEF Nearest, m, top

LEMMA NearestNone == \A eff : Nearest(<<>>, eff) = 0
BY DEF Nearest, Marks

-----------------------------------------------------------------------------
(* The steps. *)

LEMMA Sizes ==
    ASSUME NEW funs, NEW hp, NEW cs, NEW st, StateOK(funs, hp, cs, st)
    PROVE  Len(hp) \in Nat /\ Len(cs) \in Nat /\ Len(st) \in Nat
BY ListedLen DEF StateOK, HeapOK, ContsOK, StackOK, Listed

\* What is known of the machine while it runs.
LEMMA RunningFrame ==
    ASSUME IInv, mode.st = "run"
    PROVE  /\ stack # <<>> /\ Top.kind \in FrameKinds
           /\ FrameOK(Funs, Len(heap), Len(conts), Top.frame)
           /\ Instr = Funs[Top.frame.fn].code[Top.frame.pc]
           /\ Legal(Funs) /\ LegalInstr(Funs, Instr)
           /\ Top.frame.env \in 1 .. Len(heap)
           /\ \A r \in Regs : Sound(Funs, Len(heap), Len(conts), Top.frame.regs[r])
           /\ StackOK(Funs, Len(heap), Len(conts), Below)
<1>1. stack # <<>> /\ Top.kind \in FrameKinds
    BY DEF IInv, ModeOK
<1>2. /\ EntryOK(Funs, Len(heap), Len(conts), Top)
      /\ StackOK(Funs, Len(heap), Len(conts), Below)
    BY <1>1, PopOK DEF IInv, StateOK, Top, Below
<1>3. FrameOK(Funs, Len(heap), Len(conts), Top.frame)
    BY <1>1, <1>2 DEF EntryOK, FrameKinds
<1>4. Instr = Funs[Top.frame.fn].code[Top.frame.pc]
    BY DEF Instr, Code
<1>5. Legal(Funs)
    BY LegalFuns DEF IInv
<1>6. LegalInstr(Funs, Instr)
    BY <1>3, <1>4, <1>5, LegalAt
<1>7. /\ Top.frame.env \in 1 .. Len(heap)
      /\ \A r \in Regs : Sound(Funs, Len(heap), Len(conts), Top.frame.regs[r])
    BY <1>3 DEF FrameOK
<1> QED BY <1>1, <1>2, <1>3, <1>4, <1>5, <1>6, <1>7

LEMMA WithOK ==
    ASSUME NEW h, NEW k, StackOK(Funs, h, k, stack), stack # <<>>, Top.kind \in FrameKinds,
           NEW f, FrameOK(Funs, h, k, f)
    PROVE  /\ StackOK(Funs, h, k, With(f)) /\ With(f) # <<>>
           /\ With(f)[Len(With(f))].kind \in FrameKinds
<1> DEFINE e == [Top EXCEPT !.frame = f]
<1>1. StackOK(Funs, h, k, Below) /\ EntryOK(Funs, h, k, Top)
    BY PopOK DEF Top, Below
<1>2. Top = [kind |-> Top.kind, frame |-> Top.frame]
    BY <1>1 DEF EntryOK, FrameKinds
<1>3. e = [kind |-> Top.kind, frame |-> f]
    BY <1>2
<1>4. e.kind = Top.kind /\ e.frame = f /\ e = [kind |-> e.kind, frame |-> e.frame]
    BY <1>3
<1> HIDE DEF e
<1>5. EntryOK(Funs, h, k, e) /\ e.kind \in FrameKinds
    BY <1>4 DEF EntryOK
<1>6. /\ StackOK(Funs, h, k, Append(Below, e)) /\ Append(Below, e) # <<>>
      /\ Append(Below, e)[Len(Append(Below, e))] = e
    BY <1>1, <1>5, PushOK
<1> QED BY <1>5, <1>6 DEF With, e

LEMMA Conclude ==
    ASSUME IInv, program' = program, outside' \in BOOLEAN,
           StateOK(Funs, heap', conts', stack'), ModeOK'
    PROVE  IInv'
<1>1. Funs' = Funs
    BY DEF Funs
<1> QED BY <1>1 DEF IInv

LEMMA FailStep ==
    ASSUME IInv, NEW why, Fail(why)
    PROVE  IInv'
<1>1. mode'.st = "done" /\ mode'.kind = "error"
    BY DEF Fail, Done
<1>2. ModeOK'
    BY <1>1 DEF ModeOK
<1>3. StateOK(Funs, heap', conts', stack') /\ program' = program /\ outside' \in BOOLEAN
    BY DEF Fail, IInv
<1> QED BY <1>2, <1>3, Conclude

\* A call of a function that exists, on top of legal entries.
LEMMA EnterOK ==
    ASSUME program \in DOMAIN Programs,
           NEW cs, StateOK(Funs, heap, cs, stack),
           NEW rest, StackOK(Funs, Len(heap), Len(cs), rest),
           NEW fv, fv.fn \in DOMAIN Funs, fv.env \in 1 .. Len(heap),
           NEW args, \A j \in 1 .. Len(args) : Sound(Funs, Len(heap), Len(cs), args[j]),
           Enter(fv, args, rest), program' = program
    PROVE  /\ StateOK(Funs, heap', cs, stack')
           /\ ModeOK'
<1>1. CASE ~ArityOk(Funs, fv, args)
  <2>1. mode' = Done("error", Why("arity")) /\ stack' = stack /\ heap' = heap
      BY <1>1 DEF Enter
  <2>2. mode'.st = "done" /\ mode'.kind = "error"
      BY <2>1 DEF Done
  <2>3. ModeOK'
      BY <2>2 DEF ModeOK
  <2> QED BY <2>1, <2>3
<1>2. CASE ArityOk(Funs, fv, args)
  <2> DEFINE new == FrameHeap(Funs, fv, args, heap)
             e == Run(FrameOf(fv, heap))
  <2>1. mode' = Running /\ stack' = Append(rest, e) /\ heap' = new
      BY <1>2 DEF Enter
  <2>2. /\ HeapOK(Funs, Len(cs), new) /\ Len(heap) <= Len(new)
        /\ FrameOK(Funs, Len(new), Len(cs), FrameOf(fv, heap))
    <3>1. Legal(Funs) /\ HeapOK(Funs, Len(cs), heap) /\ Len(cs) \in Nat
        BY LegalFuns, Sizes DEF StateOK
    <3> QED BY <1>2, <3>1, FrameOfOK
  <2> HIDE DEF new
  <2>3. e.kind = "frame" /\ e.frame = FrameOf(fv, heap) /\ e = [kind |-> e.kind, frame |-> e.frame]
      BY DEF Run
  <2> HIDE DEF e
  <2>4. EntryOK(Funs, Len(new), Len(cs), e) /\ e.kind \in FrameKinds
      BY <2>2, <2>3 DEF EntryOK, FrameKinds
  <2>5. StateOK(Funs, heap, cs, rest)
      BY DEF StateOK
  <2>6. StateOK(Funs, new, cs, rest)
      BY <2>2, <2>5, GrowHeap
  <2>7. /\ StackOK(Funs, Len(new), Len(cs), Append(rest, e)) /\ Append(rest, e) # <<>>
        /\ Append(rest, e)[Len(Append(rest, e))] = e
      BY <2>4, <2>6, PushOK DEF StateOK
  <2>8. StateOK(Funs, heap', cs, stack')
      BY <2>1, <2>6, <2>7 DEF StateOK
  <2>9. mode'.st = "run" /\ stack' # <<>> /\ Top'.kind \in FrameKinds
      BY <2>1, <2>4, <2>7 DEF Top, Running
  <2>10. ModeOK'
      BY <2>9 DEF ModeOK
  <2> QED BY <2>8, <2>10
<1> QED BY <1>1, <1>2

LEMMA LocalStep == ASSUME IInv, Local PROVE IInv'
<1> DEFINE i == Instr
           f == Top.frame
           new == LocalHeap(i, f, heap)
           g == LocalFrame(i, f, heap)
<1>0. mode.st = "run" /\ i.op \in LocalOps
    BY DEF Local
<1>1. CASE Fail(i.op)
    BY <1>1, FailStep
<1>2. CASE ~Fail(i.op)
  <2> DEFINE w == outside \/ (i.op \in Writing /\ Leaked(f.env))
  <2>1. stack' = With(g) /\ heap' = new /\ UNCHANGED <<program, conts, mode>> /\ outside' = w
      BY <1>2 DEF Local
  <2> HIDE DEF w
  <2>2. /\ HeapOK(Funs, Len(conts), new) /\ Len(heap) <= Len(new)
        /\ FrameOK(Funs, Len(new), Len(conts), g)
    <3>1. /\ Legal(Funs) /\ Len(conts) \in Nat /\ HeapOK(Funs, Len(conts), heap)
          /\ FrameOK(Funs, Len(heap), Len(conts), f) /\ i = Funs[f.fn].code[f.pc]
        BY <1>0, RunningFrame, Sizes DEF IInv, StateOK
    <3> HIDE DEF i, f
    <3> QED BY <1>0, <3>1, LocalOK
  <2> HIDE DEF new, g
  <2>3. StateOK(Funs, new, conts, stack)
      BY <2>2, GrowHeap DEF IInv
  <2>4. stack # <<>> /\ Top.kind \in FrameKinds
      BY <1>0, RunningFrame
  <2>5. /\ StackOK(Funs, Len(new), Len(conts), With(g)) /\ With(g) # <<>>
        /\ With(g)[Len(With(g))].kind \in FrameKinds
      BY <2>2, <2>3, <2>4, WithOK DEF StateOK
  <2>6. StateOK(Funs, heap', conts', stack')
      BY <2>1, <2>3, <2>5 DEF StateOK
  <2>7. mode'.st = "run" /\ stack' # <<>> /\ Top'.kind \in FrameKinds
      BY <1>0, <2>1, <2>5 DEF Top
  <2>8. ModeOK'
      BY <2>7 DEF ModeOK
  <2>9. program' = program /\ outside' \in BOOLEAN
    <3>1. w \in BOOLEAN
        BY Zenon DEF w
    <3> QED BY <2>1, <3>1
  <2> QED BY <2>6, <2>8, <2>9, Conclude
<1> QED BY <1>1, <1>2

\* The arguments of a call are legal values.
LEMMA ArgsSound ==
    ASSUME NEW funs, NEW h, NEW k, NEW f, \A r \in Regs : Sound(funs, h, k, f.regs[r]),
           NEW rs \in Seq(Regs)
    PROVE  \A j \in 1 .. Len(Args(f, rs)) : Sound(funs, h, k, Args(f, rs)[j])
<1>1. DOMAIN rs = 1 .. Len(rs) /\ Len(rs) \in Nat /\ \A j \in 1 .. Len(rs) : rs[j] \in Regs
    BY LenProperties, ElementOfSeq
<1> DEFINE T == {f.regs[rs[j]] : j \in 1 .. Len(rs)}
           a == [j \in 1 .. Len(rs) |-> f.regs[rs[j]]]
<1>2. Args(f, rs) = a
    BY <1>1 DEF Args
<1>3. a \in Seq(T)
    BY <1>1, SeqDef
<1>4. DOMAIN a = 1 .. Len(a)
    BY <1>3, LenProperties
<1>5. \A j \in 1 .. Len(a) : j \in 1 .. Len(rs) /\ a[j] = f.regs[rs[j]]
    BY <1>4
<1> HIDE DEF a
<1>6. \A j \in 1 .. Len(a) : Sound(funs, h, k, a[j])
    BY <1>1, <1>5
<1> QED BY <1>2, <1>6

LEMMA CallStep == ASSUME IInv, Call PROVE IInv'
<1> DEFINE f == Top.frame
           callee == f.regs[Instr.callee]
           args == Args(f, Instr.args)
           g == Awaiting(f, Instr.dst)
<1>0. mode.st = "run" /\ Instr.op = "CALL"
    BY DEF Call, At
<1>1. CASE callee.kind # "fn"
  <2>1. Fail("call")
      BY <1>1 DEF Call
  <2> QED BY <2>1, FailStep
<1>2. CASE callee.kind = "fn"
  <2>1. Enter(callee, args, With(g)) /\ UNCHANGED <<program, conts, outside>>
      BY <1>2 DEF Call
  <2>2. Instr.callee \in Regs /\ Instr.args \in Seq(Regs) /\ Instr.dst \in Regs
      BY <1>0, RunningFrame DEF LegalInstr, Assigning
  <2>3. /\ \A r \in Regs : Sound(Funs, Len(heap), Len(conts), f.regs[r])
        /\ FrameOK(Funs, Len(heap), Len(conts), f) /\ Legal(Funs)
        /\ stack # <<>> /\ Top.kind \in FrameKinds /\ Instr = Funs[f.fn].code[f.pc]
      BY <1>0, RunningFrame
  <2>4. callee.fn \in DOMAIN Funs /\ callee.env \in 1 .. Len(heap)
      BY <1>2, <2>2, <2>3 DEF Sound
  <2>5. \A j \in 1 .. Len(args) : Sound(Funs, Len(heap), Len(conts), args[j])
    <3> HIDE DEF f
    <3> QED BY <2>2, <2>3, ArgsSound
  <2>6. FrameOK(Funs, Len(heap), Len(conts), g)
    <3>1. Funs[f.fn].code[f.pc].op \notin Ending \cup {"ENTER_SCOPE", "EXIT_SCOPE"}
        BY <1>0, <2>3 DEF Ending
    <3> HIDE DEF f
    <3> QED BY <2>2, <2>3, <3>1, AdvanceOK
  <2>7. StackOK(Funs, Len(heap), Len(conts), With(g))
    <3> HIDE DEF g
    <3> QED BY <2>3, <2>6, WithOK DEF IInv, StateOK
  <2> HIDE DEF callee, args, g
  <2>8. StateOK(Funs, heap', conts, stack') /\ ModeOK'
      BY <2>1, <2>4, <2>5, <2>7, EnterOK DEF IInv
  <2> QED BY <2>1, <2>8, Conclude DEF IInv
<1> QED BY <1>1, <1>2

LEMMA TailCallStep == ASSUME IInv, TailCall PROVE IInv'
<1> DEFINE f == Top.frame
           callee == f.regs[Instr.callee]
           args == Args(f, Instr.args)
           new == FrameHeap(Funs, callee, args, heap)
           g == FrameOf(callee, heap)
<1>0. mode.st = "run" /\ Instr.op = "TAIL_CALL"
    BY DEF TailCall, At
<1>1. CASE callee.kind # "fn" \/ ~ArityOk(Funs, callee, args)
  <2>1. Fail("call") \/ Fail("arity")
      BY <1>1 DEF TailCall
  <2> QED BY <2>1, FailStep
<1>2. CASE callee.kind = "fn" /\ ArityOk(Funs, callee, args)
  <2>1. stack' = With(g) /\ heap' = new /\ UNCHANGED <<program, conts, mode, outside>>
      BY <1>2 DEF TailCall
  <2>2. Instr.callee \in Regs /\ Instr.args \in Seq(Regs)
      BY <1>0, RunningFrame DEF LegalInstr
  <2>3. /\ \A r \in Regs : Sound(Funs, Len(heap), Len(conts), f.regs[r])
        /\ Legal(Funs) /\ stack # <<>> /\ Top.kind \in FrameKinds
      BY <1>0, RunningFrame
  <2>4. callee.fn \in DOMAIN Funs /\ callee.env \in 1 .. Len(heap)
      BY <1>2, <2>2, <2>3 DEF Sound
  <2>5. \A j \in 1 .. Len(args) : Sound(Funs, Len(heap), Len(conts), args[j])
    <3> HIDE DEF f
    <3> QED BY <2>2, <2>3, ArgsSound
  <2>6. HeapOK(Funs, Len(conts), heap) /\ Len(conts) \in Nat
      BY Sizes DEF IInv, StateOK
  <2> HIDE DEF callee, args
  <2>7. /\ HeapOK(Funs, Len(conts), new) /\ Len(heap) <= Len(new)
        /\ FrameOK(Funs, Len(new), Len(conts), g)
      BY <1>2, <2>3, <2>4, <2>5, <2>6, FrameOfOK
  <2> HIDE DEF new, g
  <2>8. StateOK(Funs, new, conts, stack)
      BY <2>7, GrowHeap DEF IInv
  <2>9. /\ StackOK(Funs, Len(new), Len(conts), With(g)) /\ With(g) # <<>>
        /\ With(g)[Len(With(g))].kind \in FrameKinds
      BY <2>3, <2>7, <2>8, WithOK DEF StateOK
  <2>10. StateOK(Funs, heap', conts', stack')
      BY <2>1, <2>8, <2>9 DEF StateOK
  <2>11. mode'.st = "run" /\ stack' # <<>> /\ Top'.kind \in FrameKinds
      BY <1>0, <2>1, <2>9 DEF Top
  <2>12. ModeOK'
      BY <2>11 DEF ModeOK
  <2> QED BY <2>1, <2>10, <2>12, Conclude DEF IInv
<1> QED BY <1>1, <1>2

LEMMA ReturnStep == ASSUME IInv, Return PROVE IInv'
<1> DEFINE v == Top.frame.regs[Instr.src]
<1>0. mode.st = "run" /\ Instr.op = "RETURN"
    BY DEF Return, At
<1>1. stack' = Below /\ mode' = [st |-> "ret", val |-> v] /\ UNCHANGED <<program, heap, conts, outside>>
    BY DEF Return
<1>2. Sound(Funs, Len(heap), Len(conts), v)
  <2>1. Instr.src \in Regs
      BY <1>0, RunningFrame DEF LegalInstr
  <2> QED BY <1>0, <2>1, RunningFrame
<1> HIDE DEF v
<1>3. mode'.st = "ret" /\ mode'.val = v /\ Funs' = Funs
    BY <1>1 DEF Funs
<1>4. ModeOK'
    BY <1>1, <1>2, <1>3 DEF ModeOK
<1>5. StateOK(Funs, heap', conts', stack')
    BY <1>0, <1>1, RunningFrame DEF IInv, StateOK
<1> QED BY <1>1, <1>4, <1>5, Conclude DEF IInv

LEMMA DeliverStep == ASSUME IInv, Deliver PROVE IInv'
<1>0. mode.st = "ret" /\ Sound(Funs, Len(heap), Len(conts), mode.val)
    BY DEF IInv, ModeOK, Deliver
<1>1. UNCHANGED <<program, heap, conts, outside>>
    BY DEF Deliver
<1>2. CASE stack = <<>>
  <2>1. mode' = Done("value", mode.val) /\ stack' = stack
      BY <1>2 DEF Deliver
  <2>2. mode'.st = "done" /\ mode'.kind = "value"
      BY <2>1 DEF Done
  <2>3. ModeOK'
      BY <2>2 DEF ModeOK
  <2> QED BY <1>1, <2>1, <2>3, Conclude DEF IInv
<1>3. CASE stack # <<>> /\ Top.kind \in FrameKinds
  <2> DEFINE g == Put(Top.frame, Top.frame.dst, mode.val)
  <2>1. mode' = Running /\ stack' = With(g)
      BY <1>3 DEF Deliver
  <2>2. EntryOK(Funs, Len(heap), Len(conts), Top)
      BY <1>3, PopOK DEF IInv, StateOK, Top
  <2>3. FrameOK(Funs, Len(heap), Len(conts), Top.frame)
      BY <1>3, <2>2 DEF EntryOK, FrameKinds
  <2>4. Top.frame.dst \in Regs
      BY <2>3 DEF FrameOK
  <2>5. FrameOK(Funs, Len(heap), Len(conts), g)
      BY <1>0, <2>3, <2>4, PutOK
  <2> HIDE DEF g
  <2>6. /\ StackOK(Funs, Len(heap), Len(conts), With(g)) /\ With(g) # <<>>
        /\ With(g)[Len(With(g))].kind \in FrameKinds
      BY <1>3, <2>5, WithOK DEF IInv, StateOK
  <2>7. mode'.st = "run" /\ stack' # <<>> /\ Top'.kind \in FrameKinds
      BY <2>1, <2>6 DEF Top, Running
  <2>8. ModeOK'
      BY <2>7 DEF ModeOK
  <2>9. StateOK(Funs, heap', conts', stack')
      BY <1>1, <2>1, <2>6 DEF IInv, StateOK
  <2> QED BY <1>1, <2>8, <2>9, Conclude DEF IInv
<1>4. CASE stack # <<>> /\ Top.kind \notin FrameKinds
  <2>1. mode' = mode /\ stack' = Below
      BY <1>4 DEF Deliver, PassHandle
  <2>2. StackOK(Funs, Len(heap), Len(conts), Below)
      BY <1>4, PopOK DEF IInv, StateOK, Below
  <2>3. StateOK(Funs, heap', conts', stack')
      BY <1>1, <2>1, <2>2 DEF IInv, StateOK
  <2>4. Funs' = Funs /\ mode'.st = "ret" /\ mode'.val = mode.val
      BY <1>0, <1>1, <2>1 DEF Funs
  <2>5. ModeOK'
      BY <1>0, <1>1, <2>4 DEF ModeOK
  <2> QED BY <1>1, <2>3, <2>5, Conclude DEF IInv
<1> QED BY <1>2, <1>3, <1>4

LEMMA NoArgs == ASSUME NEW funs, NEW h, NEW k PROVE \A j \in 1 .. Len(<<>>) : Sound(funs, h, k, <<>>[j])
<1>1. Len(<<>>) = 0
    BY EmptySeq
<1> QED BY <1>1

LEMMA HandleStep == ASSUME IInv, Handle PROVE IInv'
<1> DEFINE f == Top.frame
           fv == Fn(Instr.body, f.env)
           g == Awaiting(f, Instr.dst)
           m == Marker("handle", Instr.specs, f.env, Len(heap))
<1>0. mode.st = "run" /\ Instr.op = "HANDLE"
    BY DEF Handle, At
<1>1. Enter(fv, <<>>, Append(With(g), m)) /\ UNCHANGED <<program, conts, outside>>
    BY DEF Handle
<1>2. /\ Instr.dst \in Regs /\ Instr.body \in DOMAIN Funs
      /\ DOMAIN Instr.specs = 1 .. Len(Instr.specs)
      /\ \A j \in DOMAIN Instr.specs : Instr.specs[j].fn \in DOMAIN Funs
    BY <1>0, RunningFrame DEF LegalInstr, Assigning
<1>3. /\ FrameOK(Funs, Len(heap), Len(conts), f) /\ Legal(Funs) /\ f.env \in 1 .. Len(heap)
      /\ stack # <<>> /\ Top.kind \in FrameKinds /\ Instr = Funs[f.fn].code[f.pc]
    BY <1>0, RunningFrame
<1>4. FrameOK(Funs, Len(heap), Len(conts), g)
  <2>1. Funs[f.fn].code[f.pc].op \notin Ending \cup {"ENTER_SCOPE", "EXIT_SCOPE"}
      BY <1>0, <1>3 DEF Ending
  <2> HIDE DEF f
  <2> QED BY <1>2, <1>3, <2>1, AdvanceOK
<1>5. StackOK(Funs, Len(heap), Len(conts), With(g)) /\ With(g) # <<>>
  <2> HIDE DEF g
  <2> QED BY <1>3, <1>4, WithOK DEF IInv, StateOK
<1>6. fv.fn \in DOMAIN Funs /\ fv.env \in 1 .. Len(heap)
    BY <1>2, <1>3 DEF Fn
<1>7. EntryOK(Funs, Len(heap), Len(conts), m)
  <2>1. /\ m.kind = "handle" /\ m.specs = Instr.specs /\ m.env = f.env /\ m.hid = Len(heap)
        /\ m = Marker(m.kind, m.specs, m.env, m.hid)
      BY DEF Marker
  <2>2. Len(heap) \in 1 .. Len(heap)
      BY <1>3, Sizes DEF IInv
  <2> HIDE DEF m, f
  <2>3. SpecsOK(Funs, m.specs)
      BY <1>2, <2>1 DEF SpecsOK
  <2> QED BY <1>3, <2>1, <2>2, <2>3 DEF EntryOK
<1> HIDE DEF fv, g, m
<1>8. StackOK(Funs, Len(heap), Len(conts), Append(With(g), m))
    BY <1>5, <1>7, PushOK
<1>9. StateOK(Funs, heap', conts, stack') /\ ModeOK'
    BY <1>1, <1>6, <1>8, NoArgs, EnterOK DEF IInv
<1> QED BY <1>1, <1>9, Conclude DEF IInv

LEMMA ResumeStep == ASSUME IInv, Resume PROVE IInv'
<1> DEFINE f == Top.frame
           v == f.regs[Instr.cont]
           c == conts[v.id]
           g == Awaiting(f, Instr.dst)
           r == Put(c.frame, c.dst, f.regs[Instr.val])
           e == [kind |-> "resumed", frame |-> r]
<1>0. mode.st = "run" /\ Instr.op = "RESUME"
    BY DEF Resume, At
<1>1. CASE v.kind # "cont" \/ ~c.resumable
  <2>1. Fail("resume") \/ Fail("not resumable")
      BY <1>1 DEF Resume
  <2> QED BY <2>1, FailStep
<1>2. CASE v.kind = "cont" /\ c.resumable
  <2>1. /\ stack' = Append(With(g), e) /\ UNCHANGED <<program, heap, conts, mode>>
        /\ outside' \in BOOLEAN
      BY <1>2 DEF Resume
  <2>2. Instr.dst \in Regs /\ Instr.cont \in Regs /\ Instr.val \in Regs
      BY <1>0, RunningFrame DEF LegalInstr, Assigning
  <2>3. /\ FrameOK(Funs, Len(heap), Len(conts), f) /\ Legal(Funs)
        /\ stack # <<>> /\ Top.kind \in FrameKinds /\ Instr = Funs[f.fn].code[f.pc]
        /\ \A q \in Regs : Sound(Funs, Len(heap), Len(conts), f.regs[q])
      BY <1>0, RunningFrame
  <2>4. v.id \in 1 .. Len(conts)
      BY <1>2, <2>2, <2>3 DEF Sound
  <2>5. FrameOK(Funs, Len(heap), Len(conts), c.frame) /\ c.dst \in Regs
      BY <2>4 DEF IInv, StateOK, ContsOK, ContOK
  <2>6. FrameOK(Funs, Len(heap), Len(conts), r)
    <3>1. Sound(Funs, Len(heap), Len(conts), f.regs[Instr.val])
        BY <2>2, <2>3
    <3> HIDE DEF f, c
    <3> QED BY <2>5, <3>1, PutOK
  <2>7. FrameOK(Funs, Len(heap), Len(conts), g)
    <3>1. Funs[f.fn].code[f.pc].op \notin Ending \cup {"ENTER_SCOPE", "EXIT_SCOPE"}
        BY <1>0, <2>3 DEF Ending
    <3> HIDE DEF f
    <3> QED BY <2>2, <2>3, <3>1, AdvanceOK
  <2> HIDE DEF r, g
  <2>8. StackOK(Funs, Len(heap), Len(conts), With(g)) /\ With(g) # <<>>
      BY <2>3, <2>7, WithOK DEF IInv, StateOK
  <2>9. e.kind = "resumed" /\ e.frame = r /\ e = [kind |-> e.kind, frame |-> e.frame]
      OBVIOUS
  <2> HIDE DEF e
  <2>10. EntryOK(Funs, Len(heap), Len(conts), e)
      BY <2>6, <2>9 DEF EntryOK, FrameKinds
  <2>11. /\ StackOK(Funs, Len(heap), Len(conts), Append(With(g), e)) /\ Append(With(g), e) # <<>>
         /\ Append(With(g), e)[Len(Append(With(g), e))] = e
      BY <2>8, <2>10, PushOK
  <2>12. mode'.st = "run" /\ stack' # <<>> /\ Top'.kind \in FrameKinds
      BY <1>0, <2>1, <2>9, <2>11 DEF Top, FrameKinds
  <2>13. ModeOK'
      BY <2>12 DEF ModeOK
  <2>14. StateOK(Funs, heap', conts', stack')
      BY <2>1, <2>11 DEF IInv, StateOK
  <2> QED BY <2>1, <2>13, <2>14, Conclude
<1> QED BY <1>1, <1>2

-----------------------------------------------------------------------------
(* Signals. *)

LEMMA NearestNext == NearestFor(mode.eff)' = Nearest(stack', mode'.eff)
BY DEF NearestFor, Nearest, Marks

LEMMA PerformStep == ASSUME IInv, Perform PROVE IInv'
<1> DEFINE f == Top.frame
           eff == Instr.eff
           n == Len(conts)
           c == [resumable |-> Resumable(f.env, eff), frame |-> Snapshot(f), dst |-> Instr.dst,
                 hid |-> 0, cut |-> FALSE, scopes |-> heap, near |-> NearestFor(eff),
                 leaks |-> ClosesOver(f.regs[Instr.arg], NearestFor(eff))]
           arg == f.regs[Instr.arg]
           crossed == Top.kind = "resumed"
<1>0. mode.st = "run" /\ Instr.op = "PERFORM"
    BY DEF Perform, At
<1>1. /\ conts' = Append(conts, c) /\ stack' = Below /\ UNCHANGED <<program, heap, outside>>
      /\ mode' = [st |-> "signal", eff |-> eff, arg |-> arg, cont |-> n + 1, cut |-> FALSE,
                  crossed |-> crossed]
    BY DEF Perform
<1>2. Instr.dst \in Regs /\ Instr.arg \in Regs
    BY <1>0, RunningFrame DEF LegalInstr, Assigning
<1>3. /\ FrameOK(Funs, Len(heap), n, f) /\ Legal(Funs) /\ Instr = Funs[f.fn].code[f.pc]
      /\ stack # <<>> /\ Top.kind \in FrameKinds
      /\ \A q \in Regs : Sound(Funs, Len(heap), n, f.regs[q])
      /\ StackOK(Funs, Len(heap), n, Below)
    BY <1>0, RunningFrame
<1>4. n \in Nat /\ n + 1 \in Nat /\ Len(heap) \in Nat /\ n <= n + 1 /\ Len(heap) <= Len(heap)
    BY Sizes DEF IInv
<1>5. FrameOK(Funs, Len(heap), n, Snapshot(f))
  <2>1. Funs[f.fn].code[f.pc].op \notin Ending \cup {"ENTER_SCOPE", "EXIT_SCOPE"}
      BY <1>0, <1>3 DEF Ending
  <2> HIDE DEF f
  <2> QED BY <1>3, <2>1, AdvanceOK DEF Snapshot
<1>6. /\ c.frame = Snapshot(f) /\ c.dst = Instr.dst /\ c.hid = 0 /\ c.near = NearestFor(eff)
      /\ c = [resumable |-> c.resumable, frame |-> c.frame, dst |-> c.dst, hid |-> c.hid,
              cut |-> c.cut, scopes |-> c.scopes, near |-> c.near, leaks |-> c.leaks]
    OBVIOUS
<1> HIDE DEF c, n, f, eff, arg, crossed
<1>7. ContOK(Funs, Len(heap), n + 1, c)
  <2>1. FrameOK(Funs, Len(heap), n + 1, Snapshot(f))
      BY <1>4, <1>5, SoundGrows
  <2> QED BY <1>2, <1>6, <2>1 DEF ContOK
<1>8. StateOK(Funs, heap, conts, Below)
    BY <1>3 DEF IInv, StateOK, n
<1>9. StateOK(Funs, heap, conts', Below) /\ Len(conts') = n + 1 /\ conts'[n + 1] = c
    BY <1>1, <1>7, <1>8, GrowConts DEF n
<1>10. Sound(Funs, Len(heap), n + 1, arg)
  <2>1. Sound(Funs, Len(heap), n, arg)
      BY <1>2, <1>3 DEF arg
  <2> QED BY <1>4, <2>1, SoundGrows
<1>11. Nearest(stack', eff) = NearestFor(eff)
  <2>1. Listed(stack)
      BY DEF IInv, StateOK, StackOK
  <2>2. Len(stack) \notin Marks(stack, eff)
      BY <1>3 DEF Marks, Top
  <2>3. Nearest(Below, eff) = Nearest(stack, eff)
      BY <1>3, <2>1, <2>2, NearestBelow DEF Below
  <2> QED BY <1>1, <2>3, NearestHere
<1>12. /\ mode'.st = "signal" /\ mode'.eff = eff /\ mode'.arg = arg /\ mode'.cont = n + 1
       /\ mode' = [st |-> "signal", eff |-> mode'.eff, arg |-> mode'.arg, cont |-> mode'.cont,
                   cut |-> mode'.cut, crossed |-> mode'.crossed]
    BY <1>1
<1>13. ModeOK'
  <2>1. Funs' = Funs /\ heap' = heap
      BY <1>1 DEF Funs
  <2>2. conts'[Len(conts')].near = Nearest(stack', mode'.eff)
      BY <1>6, <1>9, <1>11, <1>12
  <2>3. Len(conts') > 0 /\ mode'.cont = Len(conts')
      BY <1>4, <1>9, <1>12
  <2>4. Sound(Funs, Len(heap), Len(conts'), mode'.arg)
      BY <1>9, <1>10, <1>12
  <2>5. conts'[Len(conts')].near = NearestFor(mode.eff)'
      BY <2>2, NearestNext
  <2> QED BY <1>12, <2>1, <2>3, <2>4, <2>5 DEF ModeOK
<1> QED BY <1>1, <1>9, <1>13, Conclude DEF IInv

\* Two fields of a signal replaced.
LEMMA SignalFields ==
    ASSUME NEW eff, NEW arg, NEW cont, NEW cut, NEW crossed, NEW m,
           m = [st |-> "signal", eff |-> eff, arg |-> arg, cont |-> cont, cut |-> cut, crossed |-> crossed],
           NEW x, NEW y
    PROVE  /\ [m EXCEPT !.cut = x] =
                [st |-> "signal", eff |-> eff, arg |-> arg, cont |-> cont, cut |-> x, crossed |-> crossed]
           /\ [m EXCEPT !.cut = x, !.crossed = y] =
                [st |-> "signal", eff |-> eff, arg |-> arg, cont |-> cont, cut |-> x, crossed |-> y]
<1> DEFINE c == [m EXCEPT !.cut = x]
<1>1. [m EXCEPT !.cut = x, !.crossed = y] = [c EXCEPT !.crossed = y]
    OBVIOUS
<1>2. c = [st |-> "signal", eff |-> eff, arg |-> arg, cont |-> cont, cut |-> x, crossed |-> crossed]
    OBVIOUS
<1> HIDE DEF c
<1>3. [c EXCEPT !.crossed = y] =
        [st |-> "signal", eff |-> eff, arg |-> arg, cont |-> cont, cut |-> x, crossed |-> y]
    BY <1>2
<1> QED BY Zenon, <1>1, <1>2, <1>3 DEF c

\* What is known of a signal.
LEMMA SignalFacts ==
    ASSUME IInv, mode.st = "signal"
    PROVE  /\ mode = [st |-> "signal", eff |-> mode.eff, arg |-> mode.arg, cont |-> mode.cont,
                      cut |-> mode.cut, crossed |-> mode.crossed]
           /\ Sound(Funs, Len(heap), Len(conts), mode.arg)
           /\ mode.cont = Len(conts) /\ Len(conts) > 0 /\ Len(conts) \in Nat
           /\ conts[Len(conts)].near = Nearest(stack, mode.eff)
           /\ Listed(stack) /\ Legal(Funs)
BY NearestHere, Sizes, LegalFuns DEF IInv, ModeOK, StateOK, StackOK

\* The signal passes an entry that does not handle its effect.
LEMMA PassOn ==
    ASSUME IInv, mode.st = "signal", stack # <<>>, Len(stack) \notin Marks(stack, mode.eff),
           stack' = Below, UNCHANGED <<program, heap, conts>>, outside' \in BOOLEAN,
           NEW x, NEW y,
           mode' = [st |-> "signal", eff |-> mode.eff, arg |-> mode.arg, cont |-> mode.cont,
                    cut |-> x, crossed |-> y]
    PROVE  IInv'
<1>1. /\ mode'.st = "signal" /\ mode'.eff = mode.eff /\ mode'.arg = mode.arg /\ mode'.cont = mode.cont
      /\ mode' = [st |-> "signal", eff |-> mode'.eff, arg |-> mode'.arg, cont |-> mode'.cont,
                  cut |-> mode'.cut, crossed |-> mode'.crossed]
    OBVIOUS
<1>2. StackOK(Funs, Len(heap), Len(conts), Below)
    BY PopOK DEF IInv, StateOK, Below
<1>3. StateOK(Funs, heap', conts', stack')
    BY <1>2 DEF IInv, StateOK
<1>4. Nearest(stack', mode'.eff) = Nearest(stack, mode.eff)
    BY <1>1, SignalFacts, NearestBelow DEF Below
<1>5. conts'[Len(conts')].near = NearestFor(mode.eff)'
    BY <1>4, SignalFacts, NearestNext
<1>6. Sound(Funs', Len(heap'), Len(conts'), mode'.arg)
    BY <1>1, SignalFacts DEF Funs
<1>7. mode'.cont = Len(conts') /\ Len(conts') > 0
    BY <1>1, SignalFacts
<1>8. ModeOK'
    BY <1>1, <1>5, <1>6, <1>7 DEF ModeOK
<1> QED BY <1>3, <1>8, Conclude

LEMMA UnwindStep == ASSUME IInv, Unwind PROVE IInv'
<1> DEFINE x == mode.cut \/ Live(Top.frame)
           y == mode.crossed \/ Top.kind = "resumed"
<1>1. /\ mode.st = "signal" /\ stack # <<>> /\ Top.kind \in FrameKinds /\ stack' = Below
      /\ UNCHANGED <<program, heap, conts>> /\ outside' \in BOOLEAN
    BY DEF Unwind
<1>2. mode' = [mode EXCEPT !.cut = x, !.crossed = y]
    BY DEF Unwind
<1> HIDE DEF x, y
<1>3. mode' = [st |-> "signal", eff |-> mode.eff, arg |-> mode.arg, cont |-> mode.cont,
               cut |-> x, crossed |-> y]
    BY Zenon, <1>1, <1>2, SignalFacts, SignalFields
<1>4. Len(stack) \notin Marks(stack, mode.eff)
    BY <1>1 DEF Marks, Top
<1> QED BY <1>1, <1>3, <1>4, PassOn

LEMMA UnhandledStep == ASSUME IInv, Unhandled PROVE IInv'
<1>1. /\ mode.st = "signal" /\ stack = <<>> /\ mode' = Done("unhandled", Why(mode.eff))
      /\ UNCHANGED <<program, stack, heap, conts, outside>>
    BY DEF Unhandled
<1>2. conts[Len(conts)].near = 0
    BY <1>1, SignalFacts, NearestNone
<1>3. mode'.st = "done"
    BY <1>1 DEF Done
<1>4. ModeOK'
    BY <1>1, <1>2, <1>3 DEF ModeOK
<1> QED BY <1>1, <1>4, Conclude DEF IInv

\* The entry at the top is a handle or the loop of one.
LEMMA TopMarker ==
    ASSUME IInv, stack # <<>>, Top.kind \in {"handle", "dispatch"}
    PROVE  /\ Top = Marker(Top.kind, Top.specs, Top.env, Top.hid)
           /\ Top.env \in 1 .. Len(heap) /\ Top.hid \in 1 .. Len(heap) /\ SpecsOK(Funs, Top.specs)
           /\ StackOK(Funs, Len(heap), Len(conts), Below) /\ Below # <<>>
<1>1. /\ EntryOK(Funs, Len(heap), Len(conts), Top)
      /\ StackOK(Funs, Len(heap), Len(conts), Below)
      /\ Below = <<>> => Top.kind \in FrameKinds
    BY PopOK DEF IInv, StateOK, Top, Below
<1> QED BY <1>1 DEF EntryOK, FrameKinds

\* HandlerFor finds a handler exactly when the specs name the effect.
LEMMA HandlerFound ==
    ASSUME NEW funs, NEW specs, SpecsOK(funs, specs), 0 \notin DOMAIN funs, NEW eff
    PROVE  /\ HandlerFor(specs, eff) # 0 => /\ HandlerFor(specs, eff) \in DOMAIN funs
                                            /\ \E j \in DOMAIN specs : specs[j].eff = eff
           /\ HandlerFor(specs, eff) = 0 => \A j \in DOMAIN specs : specs[j].eff # eff
<1> DEFINE found == {j \in DOMAIN specs : specs[j].eff = eff}
           first == CHOOSE j \in found : \A k \in found : j <= k
<1>1. found \subseteq Nat
    BY DEF SpecsOK
<1>2. CASE found = {}
    BY <1>2 DEF HandlerFor
<1>3. CASE found # {}
  <2>1. \E j \in found : \A k \in found : j <= k
    <3> HIDE DEF found
    <3> QED BY <1>1, <1>3, LeastNat
  <2>2. first \in found
    <3> HIDE DEF found
    <3> QED BY Zenon, <2>1
  <2>3. HandlerFor(specs, eff) = specs[first].fn
      BY Zenon, <1>3 DEF HandlerFor
  <2> HIDE DEF first
  <2>4. specs[first].fn \in DOMAIN funs /\ specs[first].eff = eff /\ first \in DOMAIN specs
      BY <2>2 DEF SpecsOK
  <2> QED BY <2>3, <2>4
<1> QED BY <1>2, <1>3

\* A continuation that is handed to a handler of its nearest handle.
LEMMA MarkOK ==
    ASSUME NEW funs, NEW h, NEW k, NEW c, ContOK(funs, h, k, c), NEW a, NEW b, a = c.near
    PROVE  ContOK(funs, h, k, [[c EXCEPT !.hid = a] EXCEPT !.cut = b])
<1> DEFINE d == [[c EXCEPT !.hid = a] EXCEPT !.cut = b]
<1>1. c = [resumable |-> c.resumable, frame |-> c.frame, dst |-> c.dst, hid |-> c.hid,
           cut |-> c.cut, scopes |-> c.scopes, near |-> c.near, leaks |-> c.leaks]
    BY DEF ContOK
<1>2. d = [resumable |-> c.resumable, frame |-> c.frame, dst |-> c.dst, hid |-> a,
           cut |-> b, scopes |-> c.scopes, near |-> c.near, leaks |-> c.leaks]
  <2>1. PICK resumable, frame, dst, hid, cut, scopes, near, leaks :
           c = [resumable |-> resumable, frame |-> frame, dst |-> dst, hid |-> hid,
                cut |-> cut, scopes |-> scopes, near |-> near, leaks |-> leaks]
      BY Zenon, <1>1
  <2>2. /\ c.resumable = resumable /\ c.frame = frame /\ c.dst = dst
        /\ c.scopes = scopes /\ c.near = near
      BY <2>1
  <2> DEFINE e == [c EXCEPT !.hid = a]
  <2>3. e = [resumable |-> resumable, frame |-> frame, dst |-> dst, hid |-> a,
             cut |-> cut, scopes |-> scopes, near |-> near, leaks |-> leaks]
      BY <2>1
  <2> HIDE DEF e
  <2>4. [e EXCEPT !.cut = b] = [resumable |-> resumable, frame |-> frame, dst |-> dst, hid |-> a,
                                cut |-> b, scopes |-> scopes, near |-> near, leaks |-> leaks]
      BY <2>3
  <2> QED BY Zenon, <2>2, <2>4 DEF e
<1> HIDE DEF d
<1>3. /\ d.resumable = c.resumable /\ d.frame = c.frame /\ d.dst = c.dst /\ d.hid = a
      /\ d.cut = b /\ d.scopes = c.scopes /\ d.near = c.near /\ d.leaks = c.leaks
    BY <1>2
<1> QED BY <1>2, <1>3 DEF ContOK

Marked(cs, k, a, b) == [cs EXCEPT ![k].hid = a, ![k].cut = b]

LEMMA MarkedOK ==
    ASSUME NEW funs, NEW h, NEW cs, ContsOK(funs, h, cs), NEW k \in 1 .. Len(cs),
           NEW a, NEW b, a = cs[k].near
    PROVE  ContsOK(funs, h, Marked(cs, k, a, b)) /\ Len(Marked(cs, k, a, b)) = Len(cs)
<1> DEFINE c == cs[k]
           d == [[c EXCEPT !.hid = a] EXCEPT !.cut = b]
           mid == [cs EXCEPT ![k] = [c EXCEPT !.hid = a]]
           new == [cs EXCEPT ![k].hid = a, ![k].cut = b]
           one == [cs EXCEPT ![k] = d]
           S == {cs[j] : j \in DOMAIN cs} \cup {d}
<1>1. Listed(cs) /\ cs \in Seq({cs[j] : j \in DOMAIN cs})
    BY DEF ContsOK, Listed
<1>2. /\ Len(cs) \in Nat /\ DOMAIN cs = 1 .. Len(cs) /\ cs = [j \in 1 .. Len(cs) |-> cs[j]]
    BY <1>1, LenProperties
<1>3. new = one
  <2> DEFINE c1 == [c EXCEPT !.hid = a]
  <2>1. new = [mid EXCEPT ![k].cut = b]
      OBVIOUS
  <2>2. mid[k] = c1
      BY <1>2
  <2>3. [mid EXCEPT ![k].cut = b] = [mid EXCEPT ![k] = [mid[k] EXCEPT !.cut = b]]
      OBVIOUS
  <2>4. [mid EXCEPT ![k] = d] = [cs EXCEPT ![k] = d]
    <3> HIDE DEF d, c
    <3> QED BY <1>2
  <2> HIDE DEF mid, new, one
  <2> QED BY Zenon, <2>1, <2>2, <2>3, <2>4 DEF one, d
<1>4. cs \in Seq(S) /\ d \in S
    BY <1>1, SeqMonotonic
<1> HIDE DEF S, d
<1>5. one \in Seq(S) /\ Len(one) = Len(cs) /\ one[k] = d
      /\ \A j \in 1 .. Len(cs) : j # k => one[j] = cs[j]
    BY <1>2, <1>4, ExceptSeq
<1> HIDE DEF one, new
<1>6. Listed(one)
    BY <1>5, ListedLen
<1>7. ContOK(funs, h, Len(cs), c)
    BY DEF ContsOK
<1>8. ContOK(funs, h, Len(cs), d)
    BY Zenon, <1>7, MarkOK DEF d
<1>9. \A j \in 1 .. Len(one) : ContOK(funs, h, Len(one), one[j])
    BY <1>5, <1>8 DEF ContsOK
<1> QED BY <1>3, <1>5, <1>6, <1>9 DEF ContsOK, new, Marked

LEMMA PassStep ==
    ASSUME IInv, mode.st = "signal", stack # <<>>, Top.kind \in {"handle", "dispatch"},
           HandlerFor(Top.specs, mode.eff) = 0, Pass
    PROVE  IInv'
<1>1. stack' = Below /\ mode' = [mode EXCEPT !.cut = TRUE] /\ UNCHANGED <<program, heap, conts, outside>>
    BY DEF Pass
<1>2. mode' = [st |-> "signal", eff |-> mode.eff, arg |-> mode.arg, cont |-> mode.cont,
               cut |-> TRUE, crossed |-> mode.crossed]
    BY Zenon, <1>1, SignalFacts, SignalFields
<1>3. Len(stack) \notin Marks(stack, mode.eff)
  <2>1. SpecsOK(Funs, Top.specs) /\ 0 \notin DOMAIN Funs
      BY TopMarker, SignalFacts DEF Legal
  <2>2. \A j \in DOMAIN Top.specs : Top.specs[j].eff # mode.eff
      BY <2>1, HandlerFound
  <2> QED BY <2>2 DEF Marks, Top
<1>4. outside' \in BOOLEAN
    BY <1>1 DEF IInv
<1> QED BY <1>1, <1>2, <1>3, <1>4, PassOn

LEMMA DispatchStep ==
    ASSUME IInv, mode.st = "signal", stack # <<>>, Top.kind \in {"handle", "dispatch"},
           NEW fn, fn = HandlerFor(Top.specs, mode.eff), fn # 0,
           Dispatch(fn), outside' \in BOOLEAN
    PROVE  IInv'
<1> DEFINE n == Len(conts)
           fv == Fn(fn, Top.env)
           v == Cont(mode.cont)
           args == <<mode.arg, v>>
           m == [Top EXCEPT !.kind = "dispatch"]
           rest == Append(Below, m)
<1>1. /\ Enter(fv, args, rest) /\ program' = program
      /\ conts' = [conts EXCEPT ![mode.cont].hid = Top.hid, ![mode.cont].cut = mode.cut]
    BY DEF Dispatch
<1>2. /\ Sound(Funs, Len(heap), n, mode.arg) /\ mode.cont = n /\ n > 0 /\ n \in Nat
      /\ conts[n].near = Nearest(stack, mode.eff) /\ Listed(stack) /\ 0 \notin DOMAIN Funs
    BY SignalFacts DEF Legal
<1>3. /\ Top = Marker(Top.kind, Top.specs, Top.env, Top.hid)
      /\ Top.env \in 1 .. Len(heap) /\ Top.hid \in 1 .. Len(heap) /\ SpecsOK(Funs, Top.specs)
      /\ StackOK(Funs, Len(heap), n, Below) /\ Below # <<>>
    BY TopMarker
<1>4. fn \in DOMAIN Funs /\ \E j \in DOMAIN Top.specs : Top.specs[j].eff = mode.eff
    BY <1>2, <1>3, HandlerFound
<1>5. Top.hid = conts[n].near
  <2>1. Len(stack) \in DOMAIN stack
      BY <1>2, ListedBelow
  <2>2. Len(stack) \in Marks(stack, mode.eff)
      BY <1>4, <2>1 DEF Marks, Top, FrameKinds
  <2> QED BY <1>2, <2>2, NearestTop DEF Top
<1>6. ContsOK(Funs, Len(heap), conts') /\ Len(conts') = n
  <2>1. mode.cont \in 1 .. n /\ Top.hid = conts[mode.cont].near
      BY <1>2, <1>5
  <2>2. ContsOK(Funs, Len(heap), conts)
      BY DEF IInv, StateOK
  <2>3. conts' = Marked(conts, mode.cont, Top.hid, mode.cut)
      BY <1>1 DEF Marked
  <2>4. PICK k \in 1 .. Len(conts) : k = mode.cont
      BY <2>1
  <2>5. \A a, b : a = conts[k].near
           => ContsOK(Funs, Len(heap), Marked(conts, k, a, b)) /\ Len(Marked(conts, k, a, b)) = Len(conts)
      BY <2>2, MarkedOK
  <2>6. /\ ContsOK(Funs, Len(heap), Marked(conts, k, Top.hid, mode.cut))
        /\ Len(Marked(conts, k, Top.hid, mode.cut)) = Len(conts)
      BY Zenon, <2>1, <2>4, <2>5
  <2> QED BY <2>3, <2>4, <2>6
<1>7. StateOK(Funs, heap, conts', stack)
    BY <1>6 DEF IInv, StateOK
<1>8. EntryOK(Funs, Len(heap), n, m)
  <2>1. m = Marker("dispatch", Top.specs, Top.env, Top.hid)
    <3>1. PICK kind, specs, env, hid : Top = Marker(kind, specs, env, hid)
        BY Zenon, <1>3
    <3>2. Top.specs = specs /\ Top.env = env /\ Top.hid = hid
        BY <3>1 DEF Marker
    <3>3. m = Marker("dispatch", specs, env, hid)
        BY <3>1 DEF Marker
    <3> QED BY Zenon, <3>2, <3>3
  <2> HIDE DEF m
  <2>2. m.kind = "dispatch" /\ m.specs = Top.specs /\ m.env = Top.env /\ m.hid = Top.hid
      BY <2>1 DEF Marker
  <2> QED BY <1>3, <2>1, <2>2 DEF EntryOK
<1> HIDE DEF m
<1>9. StackOK(Funs, Len(heap), Len(conts'), rest)
    BY <1>3, <1>6, <1>8, PushOK
<1>10. fv.fn \in DOMAIN Funs /\ fv.env \in 1 .. Len(heap)
    BY <1>3, <1>4 DEF Fn
<1>11. \A j \in 1 .. Len(args) : Sound(Funs, Len(heap), Len(conts'), args[j])
  <2>1. v.kind = "cont" /\ v.id = n
      BY <1>2 DEF Cont
  <2> HIDE DEF v
  <2>2. Sound(Funs, Len(heap), n, v)
      BY <1>2, <2>1 DEF Sound
  <2>3. Len(args) = 2 /\ args[1] = mode.arg /\ args[2] = v
      OBVIOUS
  <2> HIDE DEF args
  <2>4. \A j \in 1 .. Len(args) : j = 1 \/ j = 2
      BY <2>3
  <2> QED BY <1>2, <1>6, <2>2, <2>3, <2>4
<1> HIDE DEF args, fv, rest
<1>12. StateOK(Funs, heap', conts', stack') /\ ModeOK'
    BY <1>1, <1>7, <1>9, <1>10, <1>11, EnterOK DEF IInv
<1> QED BY <1>1, <1>12, Conclude

LEMMA CatchInBodyStep == ASSUME IInv, CatchInBody PROVE IInv'
<1> DEFINE fn == HandlerFor(Top.specs, mode.eff)
<1>1. mode.st = "signal" /\ stack # <<>> /\ Top.kind \in {"handle", "dispatch"}
    BY DEF CatchInBody
<1>2. CASE fn = 0
  <2>1. Pass
      BY <1>2 DEF CatchInBody
  <2> QED BY <1>1, <1>2, <2>1, PassStep
<1>3. CASE fn # 0
  <2>1. Dispatch(fn) /\ outside' = outside
      BY <1>3 DEF CatchInBody
  <2>2. outside' \in BOOLEAN
      BY <2>1 DEF IInv
  <2> QED BY <1>1, <1>3, <2>1, <2>2, DispatchStep
<1> QED BY <1>2, <1>3

LEMMA CatchInHandlerStep == ASSUME IInv, CatchInHandler PROVE IInv'
<1> DEFINE fn == HandlerFor(Top.specs, mode.eff)
<1>1. mode.st = "signal" /\ stack # <<>> /\ Top.kind \in {"handle", "dispatch"}
    BY DEF CatchInHandler
<1>2. CASE fn = 0
  <2>1. Pass
      BY <1>2 DEF CatchInHandler
  <2> QED BY <1>1, <1>2, <2>1, PassStep
<1>3. CASE fn # 0
  <2>1. Dispatch(fn) /\ outside' \in BOOLEAN
      BY <1>3 DEF CatchInHandler
  <2> QED BY <1>1, <1>3, <2>1, DispatchStep
<1> QED BY <1>2, <1>3

-----------------------------------------------------------------------------
(* The theorems. *)

LEMMA Singleton == ASSUME NEW x PROVE Listed(<<x>>) /\ Len(<<x>>) = 1 /\ <<x>>[1] = x /\ <<x>> # <<>>
<1>1. <<x>> \in Seq({x}) /\ Len(<<x>>) = 1 /\ <<x>>[1] = x
    OBVIOUS
<1>2. <<x>> # <<>>
    BY <1>1, EmptySeq
<1> QED BY <1>1, <1>2, ListedLen

LEMMA InitOK == Init => IInv
<1> SUFFICES ASSUME Init PROVE IInv
    OBVIOUS
<1> DEFINE s == Scope(0, NoVars)
           f == Frame(1, 1)
           e == Run(f)
<1>1. /\ program \in DOMAIN Programs /\ heap = <<s>> /\ stack = <<e>>
      /\ conts = <<>> /\ mode = Running /\ outside = FALSE
    BY DEF Init
<1>2. Len(heap) = 1 /\ Len(conts) = 0 /\ Len(stack) = 1
    BY <1>1, Singleton, EmptySeq
<1>3. Legal(Funs)
    BY <1>1, LegalFuns
<1>4. HeapOK(Funs, 0, heap)
  <2>1. /\ s.parent = 0 /\ s.vars = NoVars /\ s = Scope(s.parent, s.vars)
      BY DEF Scope
  <2> HIDE DEF s
  <2>2. \A n \in Names : NoVars[n] = Missing
      BY DEF NoVars
  <2>3. Missing.kind = "missing"
      BY DEF Missing
  <2>4. \A n \in Names : Sound(Funs, 1, 0, NoVars[n])
      BY <2>2, <2>3 DEF Sound
  <2>5. NoVars = [n \in Names |-> NoVars[n]]
      BY <2>2 DEF NoVars
  <2>6. ScopeOK(Funs, 1, 0, 1, s)
    <3>1. 0 \in 0 .. 1 - 1
        OBVIOUS
    <3> QED BY <2>1, <2>4, <2>5, <3>1 DEF ScopeOK
  <2>7. Listed(heap) /\ heap[1] = s
      BY <1>1, Singleton
  <2>8. \A j \in 1 .. Len(heap) : j = 1
      BY <1>2
  <2> QED BY <1>2, <2>6, <2>7, <2>8 DEF HeapOK
<1>5. ContsOK(Funs, Len(heap), conts)
  <2>1. Listed(conts)
      BY <1>1 DEF Listed
  <2>2. \A j \in 1 .. Len(conts) : FALSE
      BY <1>2
  <2> QED BY <2>1, <2>2 DEF ContsOK
<1>6. FrameOK(Funs, 1, 0, f)
  <2>1. /\ f.fn = 1 /\ f.pc = 1 /\ f.regs = [r \in Regs |-> None] /\ f.env = 1
        /\ f.parents = <<>> /\ f.dst = 1
        /\ f = [fn |-> f.fn, pc |-> f.pc, regs |-> f.regs, env |-> f.env,
                parents |-> f.parents, dst |-> f.dst]
      BY DEF Frame
  <2> HIDE DEF f
  <2>2. 1 \in DOMAIN Funs /\ LegalCode(Funs, Funs[1].code)
      BY <1>3 DEF Legal
  <2>3. 1 \in DOMAIN Funs[1].code
      BY <2>2 DEF LegalCode
  <2>4. 1 \in Regs /\ 1 \in 1 .. 1
      BY NRegsAssumption DEF Regs
  <2>5. <<>> \in Seq(1 .. 1) /\ Len(<<>>) = 0 /\ Depth(Funs[1].code, 1) = 0
      BY EmptySeq, DepthAtStart
  <2>6. None.kind = "none"
      BY DEF None
  <2>7. Sound(Funs, 1, 0, None)
      BY <2>6 DEF Sound
  <2>8. /\ DOMAIN f.regs = Regs /\ f.regs = [r \in Regs |-> f.regs[r]]
        /\ \A r \in Regs : f.regs[r] = None
      BY <2>1
  <2> QED BY <2>1, <2>2, <2>3, <2>4, <2>5, <2>7, <2>8 DEF FrameOK
<1>7. e.kind = "frame" /\ e.frame = f /\ e = [kind |-> e.kind, frame |-> e.frame]
    BY DEF Run
<1> HIDE DEF s, f, e
<1>8. EntryOK(Funs, 1, 0, e) /\ e.kind \in FrameKinds
    BY <1>6, <1>7 DEF EntryOK, FrameKinds
<1>9. Listed(stack) /\ stack[1] = e /\ stack # <<>>
    BY <1>1, Singleton
<1>10. StackOK(Funs, 1, 0, stack)
  <2>1. \A j \in 1 .. Len(stack) : j = 1
      BY <1>2
  <2> QED BY <1>8, <1>9, <2>1 DEF StackOK
<1>11. StateOK(Funs, heap, conts, stack)
    BY <1>2, <1>4, <1>5, <1>10 DEF StateOK
<1>12. ModeOK
  <2>1. mode.st = "run" /\ Top = e
      BY <1>1, <1>2, <1>9 DEF Running, Top
  <2> QED BY <1>8, <1>9, <2>1 DEF ModeOK
<1> QED BY <1>1, <1>11, <1>12 DEF IInv

LEMMA StepOK == IInv /\ [Next]_vars => IInv'
<1> SUFFICES ASSUME IInv, [Next]_vars PROVE IInv'
    OBVIOUS
<1>1. CASE UNCHANGED vars
  <2>1. UNCHANGED <<program, stack, heap, conts, mode, outside>>
      BY <1>1 DEF vars
  <2>2. ModeOK'
      BY <2>1 DEF IInv, ModeOK, Top, Funs, NearestFor
  <2> QED BY <2>1, <2>2, Conclude DEF IInv
<1>2. CASE Next
    BY Zenon, <1>2, LocalStep, CallStep, TailCallStep, ReturnStep, DeliverStep, PerformStep,
       UnwindStep, UnhandledStep, CatchInBodyStep, CatchInHandlerStep, HandleStep, ResumeStep
    DEF Next
<1> QED BY <1>1, <1>2

\* Every value, scope, frame, entry of the stack and continuation is legal in
\* every state, and a signal is looking for the handle that was the nearest at
\* its perform (_perform, _handle, _dispatch_effect, QyContinuation.resume).
THEOREM EffectInvariant == Spec => []IInv
BY InitOK, StepOK, PTL DEF Spec

LEMMA Answered == IInv => HandledByNearest
<1> SUFFICES ASSUME IInv PROVE HandledByNearest
    OBVIOUS
<1>1. /\ Listed(heap) /\ Listed(stack) /\ Listed(conts)
      /\ \A j \in 1 .. Len(conts) : ContOK(Funs, Len(heap), Len(conts), conts[j])
      /\ \A s \in 1 .. Len(heap) : ScopeOK(Funs, Len(heap), Len(conts), s, heap[s])
      /\ \A j \in 1 .. Len(stack) : EntryOK(Funs, Len(heap), Len(conts), stack[j])
    BY DEF IInv, StateOK, HeapOK, ContsOK, StackOK
<1>2. /\ DOMAIN heap = 1 .. Len(heap) /\ DOMAIN stack = 1 .. Len(stack)
      /\ DOMAIN conts = 1 .. Len(conts) /\ Len(heap) \in Nat /\ Len(stack) \in Nat
    BY <1>1, ListedLen DEF Listed
<1>3. \A c \in DOMAIN conts : conts[c].hid # 0 => conts[c].hid = conts[c].near
    BY <1>1, <1>2 DEF ContOK
<1>4. Halted /\ mode.kind = "unhandled" => conts[Len(conts)].near = 0
    BY DEF IInv, ModeOK, Halted
<1>5. \A s \in DOMAIN heap : heap[s].parent < s
  <2> TAKE s \in DOMAIN heap
  <2>1. s \in Nat /\ ScopeOK(Funs, Len(heap), Len(conts), s, heap[s])
      BY <1>1, <1>2
  <2>2. heap[s].parent \in 0 .. s - 1
      BY <2>1 DEF ScopeOK
  <2> QED BY <2>1, <2>2
<1>6. \A j \in DOMAIN stack :
          IF stack[j].kind \in FrameKinds
          THEN /\ stack[j].frame.env \in DOMAIN heap
               /\ stack[j].frame.pc \in DOMAIN Code(stack[j].frame)
          ELSE stack[j].hid \in DOMAIN heap /\ j > 1
  <2> TAKE j \in DOMAIN stack
  <2> DEFINE e == stack[j]
  <2>1. EntryOK(Funs, Len(heap), Len(conts), e)
      BY <1>1, <1>2
  <2>2. CASE e.kind \in FrameKinds
    <3>1. FrameOK(Funs, Len(heap), Len(conts), e.frame)
        BY <2>1, <2>2 DEF EntryOK, FrameKinds
    <3> QED BY <1>2, <2>2, <3>1 DEF FrameOK, Code
  <2>3. CASE e.kind \notin FrameKinds
    <3>1. e.hid \in 1 .. Len(heap)
        BY <2>1, <2>3 DEF EntryOK
    <3>2. j \in Nat /\ j >= 1 /\ j # 1 /\ stack # <<>>
      <4>1. stack # <<>>
          BY <1>2, EmptySeq
      <4>2. stack[1].kind \in FrameKinds
          BY <4>1 DEF IInv, StateOK, StackOK
      <4> QED BY <1>2, <2>3, <4>1, <4>2
    <3> QED BY <1>2, <2>3, <3>1, <3>2
  <2> QED BY <2>2, <2>3
<1>7. mode.st \in {"run", "ret", "signal", "done"}
    BY DEF IInv, ModeOK
<1>8. TypeOK
    BY <1>5, <1>6, <1>7 DEF TypeOK, IInv
<1> QED BY <1>3, <1>4, <1>8 DEF HandledByNearest

\* For all legal programs: a perform is answered by the nearest enclosing handle
\* that names its effect, in the body, in code that a handler resumed and in a
\* handler, and escapes from the program only without one (_handle and the loop
\* of _dispatch_effect).
THEOREM EffectHandled == Spec => []HandledByNearest
BY EffectInvariant, Answered, PTL
=============================================================================
