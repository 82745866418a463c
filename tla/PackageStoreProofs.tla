-------------------------- MODULE PackageStoreProofs ---------------------------
(***************************************************************************)
(* The package cache and the edits of qy.toml implement PackageSpec, for   *)
(* every number of processes, packages, commands and faults.  The          *)
(* invariant speaks of the packages that are not damaged: one process at   *)
(* most changes such a package, and its place in its command tells what is *)
(* on the disk.  Then, step by step: a step of p touches one key, and is   *)
(* one step of PackageSpec on that key, or none.                           *)
(***************************************************************************)
EXTENDS PackageStore, FiniteSetTheorems, TLAPS

-----------------------------------------------------------------------------
(* The inductive invariant. *)

PackagePcs == {"archive", "open", "copy", "target", "rm", "mkdir", "unzip", "extract", "fill", "parse", "read"}
EditPcs == {"truncate", "write"}
Pcs == PackagePcs \cup EditPcs \cup {"idle"}
Manifests == [deps : [Deps -> Versions \cup {0}], rest : BOOLEAN]
Control == [pc : Pcs, key : Keys \cup {Project}, n : 0 .. 3, todo : SUBSET File,
            after : {"", "mkdir", "cleared"}, new : Manifests, old : Manifests]
Answers == [key : Keys \cup {Project},
            what : {"none", "package", "broken", "unavailable", "raised", "cleared",
                    "not cached", "edited", "refused"}]
Archive == [exists : BOOLEAN, chunks : SUBSET Chunks]
Directory == [exists : BOOLEAN, files : [File -> {"absent", "partial", "whole"}]]
DiskOK == archive \in [Keys -> Archive] /\ tree \in [Keys -> Directory] /\ toml \in Manifests
ControlOK ==
    /\ proc \in [Procs -> Control] /\ answer \in [Procs -> Answers]
    /\ ops \in 0 .. MaxOps /\ faults \in 0 .. MaxFaults
    /\ damaged \subseteq Keys \cup {Project}

-----------------------------------------------------------------------------
(* What the control of a process does: it is at pc, it has n, and the rest   *)
(* of its record is as before.                                               *)

OthersRest(p) == \A q \in Procs \ {p} : proc'[q] = proc[q] /\ answer'[q] = answer[q]

LEMMA Bounds == MaxOps \in Nat /\ MaxFaults \in Nat
BY StoreAssumption
LEMMA OneMore == \A m \in Nat : \A i \in 0 .. m : i < m => i + 1 \in 0 .. m
OBVIOUS

LEMMA StartingFields ==
    ASSUME NEW c, NEW pc, NEW k, NEW todo, NEW after, c = Starting(pc, k, todo, after)
    PROVE  c.pc = pc /\ c.key = k /\ c.todo = todo /\ c.after = after
BY DEF Starting
LEMMA StoppedFields ==
    ASSUME NEW c, NEW k, c = Stopped(k)
    PROVE  c.pc = "idle" /\ c.key = k
BY DEF Stopped, Starting

LEMMA StoppedInControl == \A k \in Keys \cup {Project} : Stopped(k) \in Control
<1>1. NoManifest \in Manifests
    BY DEF Manifests, NoManifest
<1>2. "idle" \in Pcs /\ {} \in SUBSET File
    BY DEF Pcs
<1> QED BY <1>1, <1>2 DEF Stopped, Starting, Control

LEMMA GotoEffect ==
    ASSUME NEW p \in Procs, NEW pc \in Pcs, ControlOK, Goto(p, pc)
    PROVE  /\ ControlOK' /\ OthersRest(p) /\ UNCHANGED <<ops, faults, damaged, answer>>
           /\ proc'[p].pc = pc /\ proc'[p].key = K(p) /\ proc'[p].n = proc[p].n
           /\ proc'[p].todo = proc[p].todo /\ proc'[p].after = proc[p].after
           /\ proc'[p].new = proc[p].new /\ proc'[p].old = proc[p].old
BY DEF ControlOK, Goto, OthersRest, K, Control

LEMMA GotoAtEffect ==
    ASSUME NEW p \in Procs, NEW pc \in Pcs, NEW n \in 0 .. 3, ControlOK, GotoAt(p, pc, n)
    PROVE  /\ ControlOK' /\ OthersRest(p) /\ UNCHANGED <<ops, faults, damaged, answer>>
           /\ proc'[p].pc = pc /\ proc'[p].key = K(p) /\ proc'[p].n = n
           /\ proc'[p].todo = proc[p].todo /\ proc'[p].after = proc[p].after
           /\ proc'[p].new = proc[p].new /\ proc'[p].old = proc[p].old
BY DEF ControlOK, GotoAt, OthersRest, K, Control

LEMMA EndEffect ==
    ASSUME NEW p \in Procs, NEW what, [key |-> K(p), what |-> what] \in Answers, ControlOK, End(p, what)
    PROVE  /\ ControlOK' /\ OthersRest(p) /\ UNCHANGED <<ops, faults, damaged>>
           /\ proc'[p].pc = "idle" /\ proc'[p].key = K(p)
           /\ answer' = [answer EXCEPT ![p] = [key |-> K(p), what |-> what]]
<1>1. K(p) \in Keys \cup {Project}
    BY DEF ControlOK, Control, K
<1>2. Stopped(K(p)) \in Control
    BY <1>1, StoppedInControl
<1>3. proc' = [proc EXCEPT ![p] = Stopped(K(p))]
    BY DEF End
<1>4. proc'[p] = Stopped(K(p)) /\ OthersRest(p)
    BY <1>3 DEF End, ControlOK, OthersRest
<1>5. proc'[p].pc = "idle" /\ proc'[p].key = K(p)
    BY <1>4, StoppedFields
<1>6. ControlOK'
    BY <1>2, <1>3 DEF End, ControlOK
<1> QED BY <1>4, <1>5, <1>6 DEF End

LEMMA SetTreeEffect ==
    ASSUME NEW k \in Keys, NEW t \in Directory, tree \in [Keys -> Directory], SetTree(k, t)
    PROVE  tree' \in [Keys -> Directory] /\ tree'[k] = t /\ \A j \in Keys \ {k} : tree'[j] = tree[j]
BY DEF SetTree, cached_package_dir

LEMMA BeginEffect ==
    ASSUME NEW p \in Procs, NEW k \in Keys \cup {Project}, NEW pc \in Pcs, NEW what, NEW changes,
           NEW todo \in SUBSET File, pc = "idle" => [key |-> k, what |-> what] \in Answers,
           ControlOK, Begin(p, k, pc, what, changes, todo)
    PROVE  /\ ControlOK' /\ OthersRest(p) /\ Idle(p)
           /\ Overlap(p, k, changes) => damaged' = damaged \cup {k}
           /\ ~Overlap(p, k, changes) => damaged' = damaged
           /\ proc'[p].pc = pc /\ proc'[p].key = k /\ proc'[p].todo = todo
           /\ pc = "rm" => proc'[p].after = "cleared"
<1>1. Starting(pc, k, todo, IF pc = "rm" THEN "cleared" ELSE "") \in Control
    BY DEF Control, Starting, Manifests, NoManifest
<1>0. ops < MaxOps /\ ops' = ops + 1 /\ ops \in 0 .. MaxOps
    BY DEF Begin, ControlOK
<1>2. ops' \in 0 .. MaxOps
    BY <1>0, Bounds, OneMore
<1>3. proc' = [proc EXCEPT ![p] = Starting(pc, k, todo, IF pc = "rm" THEN "cleared" ELSE "")]
    BY DEF Begin
<1>4. ControlOK'
    BY <1>1, <1>2, <1>3 DEF Begin, ControlOK
<1> DEFINE a == IF pc = "rm" THEN "cleared" ELSE ""
<1>5. proc'[p] = Starting(pc, k, todo, a) /\ OthersRest(p)
    BY <1>3 DEF Begin, ControlOK, OthersRest
<1>6. pc = "rm" => a = "cleared"
    OBVIOUS
<1> HIDE DEF a
<1>7. proc'[p].pc = pc /\ proc'[p].key = k /\ proc'[p].todo = todo /\ proc'[p].after = a
    BY <1>5, StartingFields
<1>8. /\ Idle(p)
      /\ Overlap(p, k, changes) => damaged' = damaged \cup {k}
      /\ ~Overlap(p, k, changes) => damaged' = damaged
    BY DEF Begin
<1> QED BY <1>4, <1>5, <1>6, <1>7, <1>8

LEMMA DieEffect ==
    ASSUME NEW p \in Procs, NEW what, what # "" => [key |-> K(p), what |-> what] \in Answers, ControlOK, Die(p, what)
    PROVE  /\ ControlOK' /\ OthersRest(p)
           /\ InPieces(K(p)) => damaged' = damaged \cup {K(p)}
           /\ ~InPieces(K(p)) => damaged' = damaged
           /\ proc'[p].pc = "idle" /\ proc'[p].key = K(p)
<1>1. K(p) \in Keys \cup {Project}
    BY DEF ControlOK, Control, K
<1>2. Stopped(K(p)) \in Control
    BY <1>1, StoppedInControl
<1>0. faults < MaxFaults /\ faults' = faults + 1 /\ faults \in 0 .. MaxFaults
    BY DEF Die, ControlOK
<1>3. faults' \in 0 .. MaxFaults
    BY <1>0, Bounds, OneMore
<1>4. proc' = [proc EXCEPT ![p] = Stopped(K(p))]
    BY DEF Die
<1>5. ControlOK'
    BY <1>1, <1>2, <1>3, <1>4 DEF Die, ControlOK
<1>6. proc'[p] = Stopped(K(p)) /\ OthersRest(p)
    BY <1>4 DEF Die, ControlOK, OthersRest
<1>7. proc'[p].pc = "idle" /\ proc'[p].key = K(p)
    BY <1>6, StoppedFields
<1>8. /\ InPieces(K(p)) => damaged' = damaged \cup {K(p)}
      /\ ~InPieces(K(p)) => damaged' = damaged
    BY DEF Die
<1> QED BY <1>5, <1>6, <1>7, <1>8

LEMMA EditLoadEffect ==
    ASSUME NEW p \in Procs, NEW d \in Deps, NEW v \in Versions \cup {0}, ControlOK, DiskOK, EditLoad(p, d, v)
    PROVE  /\ ControlOK' /\ OthersRest(p) /\ Idle(p)
           /\ damaged' = IF Overlap(p, Project, TRUE) THEN damaged \cup {Project} ELSE damaged
           /\ proc'[p].pc = "truncate" /\ proc'[p].key = Project
           /\ proc'[p].new = NewManifest(toml, d, v) /\ proc'[p].old = toml
<1>1. toml \in Manifests
    BY DEF DiskOK
<1>2. toml.deps \in [Deps -> Versions \cup {0}]
    BY <1>1 DEF Manifests
<1>3. [toml.deps EXCEPT ![d] = v] \in [Deps -> Versions \cup {0}]
    BY <1>2
<1>4. NewManifest(toml, d, v) \in Manifests
    BY <1>1, <1>3 DEF NewManifest, Manifests
<1> DEFINE c == Editing(NewManifest(toml, d, v), toml)
<1>5. Stopped(Project) \in Control
    BY StoppedInControl
<1>6. /\ c.pc = "truncate" /\ c.key = Project /\ c.new = NewManifest(toml, d, v) /\ c.old = toml
      /\ c \in Control
    BY <1>1, <1>4 DEF Control, Editing, Pcs, EditPcs
<1>7. proc' = [proc EXCEPT ![p] = c] /\ answer' = answer /\ faults' = faults /\ Idle(p)
      /\ damaged' = IF Overlap(p, Project, TRUE) THEN damaged \cup {Project} ELSE damaged
    BY DEF EditLoad
<1>8. ops < MaxOps /\ ops' = ops + 1 /\ ops \in 0 .. MaxOps
    BY DEF EditLoad, ControlOK
<1>9. ops' \in 0 .. MaxOps
    BY <1>8, Bounds, OneMore
<1> HIDE DEF c
<1>10. ControlOK'
    BY <1>6, <1>7, <1>9 DEF ControlOK
<1>11. proc'[p] = c /\ OthersRest(p)
    BY <1>7 DEF ControlOK, OthersRest
<1> QED BY <1>6, <1>7, <1>10, <1>11

-----------------------------------------------------------------------------
(* The inductive invariant: while nothing is damaged, a package that nobody  *)
(* changes is whole or absent, one process at most changes it, and the place *)
(* of that process in its command tells how far the files have got.          *)

\* Which command a process is in tells whether its key is a package.
KeyOfCommand == \A p \in Procs : /\ proc[p].pc \in EditPcs => K(p) = Project
                                 /\ proc[p].pc \in PackagePcs => K(p) \in Keys
\* The counter of a copy is a chunk, that of an extraction a file.
CounterAt(pc, n) == (pc = "copy" => n \in 1 .. 3) /\ (pc \in {"extract", "fill"} => n \in 1 .. 2)
Counters == \A p \in Procs : CounterAt(proc[p].pc, proc[p].n)
Exclusive ==
    \A p, q \in Procs : p # q /\ ~Idle(p) /\ ~Idle(q) /\ K(p) = K(q) /\ K(p) \notin damaged
        => proc[p].pc \in Readers
\* A directory that does not exist is empty.
NoDirNoFiles == \A k \in Keys : Tree(k).exists \/ \A f \in File : Tree(k).files[f] = "absent"

FilesAre(k, t, s) == Tree(k).files["toml"] = t /\ Tree(k).files["src"] = s
Complete(k) == archive[k].exists => archive[k].chunks = Chunks
Downloaded(k) == archive[k].exists /\ archive[k].chunks = Chunks
\* What a command may find: a whole archive or none, a whole package or none.
Sound(k) == Complete(k) /\ (is_cached(k) => Whole(k))
Quiet(k) == \A p \in Procs : K(p) = k => proc[p].pc \in Readers

\* What holds of the package of p at the places of a fetch, a clear, an import.
AtWork(p, k) ==
    /\ At(p, "archive") => Complete(k) /\ ~is_cached(k)
    /\ At(p, "open") => ~archive[k].exists /\ ~is_cached(k)
    /\ At(p, "copy") => /\ archive[k].exists /\ ~is_cached(k) /\ proc[p].n \in 1 .. 3
                        /\ archive[k].chunks = {ChunkAt[i] : i \in 1 .. proc[p].n - 1}
    /\ At(p, "target") => Downloaded(k) /\ ~is_cached(k)
    /\ At(p, "rm") => /\ proc[p].todo = {f \in File : Tree(k).files[f] # "absent"} /\ Tree(k).exists
                      /\ Complete(k) /\ proc[p].after \in {"mkdir", "cleared"}
                      /\ proc[p].after = "mkdir" => Downloaded(k) /\ ~is_cached(k)
    /\ At(p, "mkdir") => Downloaded(k) /\ FilesAre(k, "absent", "absent")
    /\ At(p, "unzip") => Downloaded(k) /\ FilesAre(k, "absent", "absent") /\ Tree(k).exists
    /\ At(p, "extract") => /\ Downloaded(k) /\ proc[p].n \in {1, 2} /\ Tree(k).exists
                           /\ FilesAre(k, IF proc[p].n = 1 THEN "absent" ELSE "whole", "absent")
    /\ At(p, "fill") => /\ Downloaded(k) /\ proc[p].n \in {1, 2} /\ Tree(k).exists
                        /\ IF proc[p].n = 1 THEN FilesAre(k, "partial", "absent") ELSE FilesAre(k, "whole", "partial")
    /\ At(p, "parse") => is_cached(k)
    /\ At(p, "read") => is_cached(k) /\ proc[p].n = 0

Packages == \A k \in Keys \ damaged :
    /\ Quiet(k) => Sound(k)
    /\ \A p \in Procs : K(p) = k => AtWork(p, k)

\* An edit writes one dependency into what it read.
OneDependency(p) == \E d \in Deps, v \in Versions \cup {0} : proc[p].new = NewManifest(proc[p].old, d, v)
FileOfEdit(p) == toml = IF At(p, "truncate") THEN proc[p].old ELSE NoManifest
Edits == \A p \in Procs : proc[p].pc \in EditPcs =>
            OneDependency(p) /\ (Project \notin damaged => FileOfEdit(p))

IInv == DiskOK /\ ControlOK /\ KeyOfCommand /\ Counters /\ Exclusive /\ NoDirNoFiles /\ Packages /\ Edits

-----------------------------------------------------------------------------
(* A step of p on the key k.                                                 *)

StepOf(p, k) ==
    /\ OthersRest(p)
    /\ \A j \in Keys \ {k} : tree'[j] = tree[j] /\ archive'[j] = archive[j]
    /\ k # Project => toml' = toml
    /\ damaged' = damaged \/ damaged' = damaged \cup {k}
    /\ proc'[p].key = k
    /\ answer'[p] # answer[p] => answer'[p].key = k
    /\ Idle(p) \/ K(p) = k
Alone(p, k) == \A q \in Procs \ {p} : K(q) = k => Idle(q)
Reading(p, k) ==
    /\ \A q \in Procs \ {p} : K(q) = k => proc[q].pc \in Readers
    /\ proc[p].pc \in Readers /\ proc'[p].pc \in Readers
    /\ k # Project /\ UNCHANGED disk

\* What of the invariant does not depend on who is at work.
Rest(p) ==
    /\ DiskOK' /\ ControlOK' /\ NoDirNoFiles'
    /\ proc'[p].pc \in EditPcs => proc'[p].key = Project /\ OneDependency(p)'
    /\ proc'[p].pc \in PackagePcs => proc'[p].key \in Keys
    /\ CounterAt(proc'[p].pc, proc'[p].n)

LEMMA OtherKeys ==
    ASSUME IInv, NEW p \in Procs, NEW k \in Keys \cup {Project}, StepOf(p, k), Rest(p)
    PROVE  /\ KeyOfCommand' /\ Counters'
           /\ \A j \in Keys : j # k /\ j \notin damaged' =>
                /\ Quiet(j)' => Sound(j)'
                /\ \A q \in Procs : K(q)' = j => AtWork(q, j)'
           /\ \A q \in Procs \ {p} : proc'[q].pc \in EditPcs =>
                /\ OneDependency(q)'
                /\ k # Project /\ Project \notin damaged' => FileOfEdit(q)'
<1>1. KeyOfCommand'
    BY DEF KeyOfCommand, IInv, StepOf, OthersRest, Rest, K
<1>4. Counters'
    BY DEF Counters, IInv, StepOf, OthersRest, Rest
<1>2. ASSUME NEW j \in Keys, j # k, j \notin damaged'
      PROVE  /\ Quiet(j)' => Sound(j)'
             /\ \A q \in Procs : K(q)' = j => AtWork(q, j)'
  <2>1. j \in Keys \ damaged /\ tree'[j] = tree[j] /\ archive'[j] = archive[j]
      BY <1>2 DEF StepOf
  <2>2. Sound(j)' = Sound(j)
      BY <2>1 DEF Sound, Complete, is_cached, Whole, Tree, cached_package_dir
  <2>3. Quiet(j)' => Quiet(j)
      BY <1>2 DEF Quiet, StepOf, OthersRest, K, Idle, Readers
  <2>4. ASSUME NEW q \in Procs, K(q)' = j PROVE AtWork(q, j)'
    <3>1. q # p /\ proc'[q] = proc[q]
        BY <1>2, <2>4 DEF StepOf, OthersRest, K
    <3>2. AtWork(q, j)
        BY <2>1, <2>4, <3>1 DEF IInv, Packages, K
    <3> QED BY <2>1, <3>1, <3>2
            DEF AtWork, At, Complete, Downloaded, FilesAre, is_cached, Tree, cached_package_dir
  <2> QED BY <2>1, <2>2, <2>3, <2>4 DEF IInv, Packages
<1>3. ASSUME NEW q \in Procs \ {p}, proc'[q].pc \in EditPcs
      PROVE  OneDependency(q)' /\ (k # Project /\ Project \notin damaged' => FileOfEdit(q)')
  <2>1. proc'[q] = proc[q] /\ q \in Procs
      BY DEF StepOf, OthersRest
  <2>2. OneDependency(q) /\ (Project \notin damaged => FileOfEdit(q))
      BY <1>3, <2>1 DEF IInv, Edits
  <2>3. OneDependency(q)'
      BY <2>1, <2>2 DEF OneDependency
  <2> QED BY <2>1, <2>2, <2>3 DEF FileOfEdit, At, StepOf
<1> QED BY <1>1, <1>2, <1>3, <1>4

LEMMA AloneStep ==
    ASSUME IInv, NEW p \in Procs, NEW k \in Keys \cup {Project}, StepOf(p, k), Rest(p),
           k \notin damaged' =>
             /\ Alone(p, k)
             /\ k \in Keys => AtWork(p, k)' /\ (proc'[p].pc \in Readers => Sound(k)')
             /\ proc'[p].pc \in EditPcs => FileOfEdit(p)'
    PROVE  IInv'
<1>1. KeyOfCommand' /\ Counters'
    BY OtherKeys
<1>2. Exclusive'
  <2> SUFFICES ASSUME NEW r \in Procs, NEW q \in Procs, r # q, ~Idle(r)', ~Idle(q)', K(r)' = K(q)', K(r)' \notin damaged'
               PROVE  proc'[r].pc \in Readers
      BY DEF Exclusive
  <2>1. CASE K(r)' = k
    <3>1. Alone(p, k)
        BY <2>1
    <3>2. ASSUME NEW s \in Procs \ {p}, K(s)' = k PROVE Idle(s)'
        BY <3>1, <3>2 DEF Alone, StepOf, OthersRest, K, Idle
    <3>3. r \in Procs \ {p} \/ q \in Procs \ {p}
        OBVIOUS
    <3> QED BY <2>1, <3>2, <3>3
  <2>2. CASE K(r)' # k
    <3>1. r # p /\ q # p /\ proc'[r] = proc[r] /\ proc'[q] = proc[q]
        BY <2>2 DEF StepOf, OthersRest, K
    <3> QED BY <3>1 DEF IInv, Exclusive, K, Idle, StepOf
  <2> QED BY <2>1, <2>2
<1>3. Packages'
  <2> SUFFICES ASSUME NEW j \in Keys, j \notin damaged'
               PROVE  (Quiet(j)' => Sound(j)') /\ \A q \in Procs : K(q)' = j => AtWork(q, j)'
      BY DEF Packages
  <2>1. CASE j # k
      BY <2>1, OtherKeys
  <2>2. CASE j = k
    <3>1. Quiet(k)' => Sound(k)'
        BY <2>2 DEF Quiet, StepOf, K
    <3>2. ASSUME NEW q \in Procs, K(q)' = k, q # p PROVE AtWork(q, k)'
      <4>1. proc'[q].pc = "idle"
          BY <2>2, <3>2 DEF Alone, Idle, K, StepOf, OthersRest
      <4> QED BY <4>1 DEF AtWork, At
    <3> QED BY <2>2, <3>1, <3>2
  <2> QED BY <2>1, <2>2
<1>4. Edits'
  <2> SUFFICES ASSUME NEW q \in Procs, proc'[q].pc \in EditPcs
               PROVE  OneDependency(q)' /\ (Project \notin damaged' => FileOfEdit(q)')
      BY DEF Edits
  <2>1. CASE q = p
      BY <2>1 DEF Rest, StepOf
  <2>2. CASE q # p
    <3>1. K(q) = Project /\ ~Idle(q)
        BY <2>2 DEF IInv, KeyOfCommand, StepOf, OthersRest, Idle, EditPcs
    <3>2. k = Project => Project \in damaged'
        BY <2>2, <3>1 DEF Alone
    <3> QED BY <2>2, <3>2, OtherKeys
  <2> QED BY <2>1, <2>2
<1> QED BY <1>1, <1>2, <1>3, <1>4 DEF IInv, Rest

LEMMA ReadStep ==
    ASSUME IInv, NEW p \in Procs, NEW k \in Keys, StepOf(p, k), Rest(p), proc'[p].pc \in Readers,
           k \notin damaged' => Reading(p, k) /\ AtWork(p, k)'
    PROVE  IInv'
<1>1. KeyOfCommand' /\ Counters'
    BY OtherKeys
<1>2. Exclusive'
  <2> SUFFICES ASSUME NEW r \in Procs, NEW q \in Procs, r # q, ~Idle(r)', ~Idle(q)', K(r)' = K(q)', K(r)' \notin damaged'
               PROVE  proc'[r].pc \in Readers
      BY DEF Exclusive
  <2>1. CASE r = p
      BY <2>1
  <2>2. CASE r # p /\ K(r)' = k
    <3>1. Reading(p, k) /\ r \in Procs \ {p}
        BY <2>2
    <3>2. proc'[r] = proc[r]
        BY <2>2 DEF StepOf, OthersRest
    <3> QED BY <2>2, <3>1, <3>2 DEF Reading, K
  <2>3. CASE r # p /\ K(r)' # k
    <3>1. q # p /\ proc'[r] = proc[r] /\ proc'[q] = proc[q]
        BY <2>3 DEF StepOf, OthersRest, K
    <3> QED BY <3>1 DEF IInv, Exclusive, K, Idle, StepOf
  <2> QED BY <2>1, <2>2, <2>3
<1>3. Packages'
  <2> SUFFICES ASSUME NEW j \in Keys, j \notin damaged'
               PROVE  (Quiet(j)' => Sound(j)') /\ \A q \in Procs : K(q)' = j => AtWork(q, j)'
      BY DEF Packages
  <2>1. CASE j # k
      BY <2>1, OtherKeys
  <2>2. CASE j = k
    <3>1. k \in Keys \ damaged /\ Reading(p, k) /\ AtWork(p, k)'
        BY <2>2 DEF StepOf
    <3>2. tree'[k] = tree[k] /\ archive'[k] = archive[k]
        BY <3>1 DEF Reading, disk
    <3>3. Quiet(k)
        BY <3>1 DEF Quiet, Reading
    <3>4. Sound(k)'
        BY <3>1, <3>2, <3>3 DEF IInv, Packages, Sound, Complete, is_cached, Whole, Tree, cached_package_dir
    <3>5. ASSUME NEW q \in Procs, K(q)' = k, q # p PROVE AtWork(q, k)'
      <4>1. proc'[q] = proc[q]
          BY <3>5 DEF StepOf, OthersRest
      <4>2. AtWork(q, k)
          BY <3>1, <3>5, <4>1 DEF IInv, Packages, K
      <4> QED BY <3>2, <4>1, <4>2
              DEF AtWork, At, Complete, Downloaded, FilesAre, is_cached, Tree, cached_package_dir
    <3> QED BY <2>2, <3>1, <3>4, <3>5
  <2> QED BY <2>1, <2>2
<1>4. Edits'
  <2> SUFFICES ASSUME NEW q \in Procs, proc'[q].pc \in EditPcs
               PROVE  OneDependency(q)' /\ (Project \notin damaged' => FileOfEdit(q)')
      BY DEF Edits
  <2>1. q # p
      BY DEF Readers, EditPcs
  <2>2. k # Project
      BY StoreAssumption
  <2> QED BY <2>1, <2>2, OtherKeys
<1> QED BY <1>1, <1>2, <1>3, <1>4 DEF IInv, Rest

-----------------------------------------------------------------------------
(* What a step of p on k is for PackageSpec. *)

AbstractStep == [Abstract!Next]_<<{k \in Keys : Whole(k)}, Visible, damaged, answer>>

LEMMA VisibleSame ==
    ASSUME IInv, NEW p \in Procs, NEW k \in Keys, StepOf(p, k), Rest(p)
    PROVE  Visible' = Visible
<1>1. k # Project
    BY StoreAssumption
<1>2. ~At(p, "write") /\ ~At(p, "write")'
    BY <1>1 DEF IInv, KeyOfCommand, StepOf, Rest, At, Idle, EditPcs, K
<1>3. \A q \in Procs : At(q, "write")' <=> At(q, "write")
    BY <1>2 DEF StepOf, OthersRest, At
<1>4. Writers' = Writers
    BY <1>3 DEF Writers
<1>5. \A q \in Writers : proc'[q] = proc[q]
    BY <1>2 DEF Writers, StepOf, OthersRest
<1>6. toml' = toml
    BY <1>1 DEF StepOf
<1> QED BY <1>4, <1>5, <1>6 DEF Visible

LEMMA CachedSame ==
    ASSUME NEW p \in Procs, NEW k \in Keys \cup {Project}, StepOf(p, k)
    PROVE  /\ {j \in Keys : Whole(j)}' \ {k} = {j \in Keys : Whole(j)} \ {k}
           /\ ((k \in Keys /\ Whole(k)' = Whole(k)) \/ k \notin Keys) =>
                {j \in Keys : Whole(j)}' = {j \in Keys : Whole(j)}
<1>1. \A j \in Keys \ {k} : Whole(j)' <=> Whole(j)
    BY DEF StepOf, Whole, Tree, cached_package_dir
<1> QED BY <1>1

LEMMA DamagedStep ==
    ASSUME IInv, NEW p \in Procs, NEW k \in Keys \cup {Project}, StepOf(p, k), Rest(p), k \in damaged'
    PROVE  AbstractStep
<1>1. damaged' = damaged \cup {k}
    BY DEF StepOf
<1>2. {j \in Keys : Whole(j)}' \ {k} = {j \in Keys : Whole(j)} \ {k}
    BY CachedSame
<1>3. k # Project => Visible' = Visible
    BY VisibleSame
<1>4. \A q \in Procs : answer'[q] # answer[q] => answer'[q].key = k
    BY DEF StepOf, OthersRest
<1>5. Abstract!Anything(k)
    BY <1>1, <1>2, <1>3, <1>4 DEF Abstract!Anything
<1> QED BY <1>5 DEF AbstractStep, Abstract!Next

Answered(p, k, what) == answer' = [answer EXCEPT ![p] = [key |-> k, what |-> what]]
\* The steps PackageSpec has for a package that is not damaged.
Promised(p, k) ==
    \/ answer' = answer /\ (Whole(k)' => Whole(k))
    \/ Answered(p, k, "package") /\ Whole(k)'
    \/ \E what \in {"unavailable", "not cached", "cleared"} : Answered(p, k, what) /\ ~Whole(k) /\ ~Whole(k)'

LEMMA PromisedStep ==
    ASSUME IInv, NEW p \in Procs, NEW k \in Keys, StepOf(p, k), Rest(p), k \notin damaged' => Promised(p, k)
    PROVE  AbstractStep
<1>1. CASE k \in damaged'
    BY <1>1, DamagedStep
<1>2. CASE k \notin damaged'
  <2> DEFINE cached == {j \in Keys : Whole(j)}
  <2>1. damaged' = damaged /\ Visible' = Visible
      BY <1>2, VisibleSame DEF StepOf
  <2>2. \A j \in Keys \ {k} : Whole(j)' <=> Whole(j)
      BY DEF StepOf, Whole, Tree, cached_package_dir
  <2>3. CASE answer' = answer /\ Whole(k)' /\ Whole(k)
    <3>1. cached' = cached
        BY <2>2, <2>3
    <3> QED BY <2>1, <2>3, <3>1 DEF AbstractStep
  <2>4. CASE answer' = answer /\ ~Whole(k)'
    <3>1. cached' = cached \ {k}
        BY <2>2, <2>4
    <3>2. Abstract!Clear(k)
        BY <2>1, <2>4, <3>1 DEF Abstract!Clear
    <3> QED BY <3>2 DEF AbstractStep, Abstract!Next
  <2>5. CASE Answered(p, k, "package") /\ Whole(k)'
    <3>1. cached' = cached \cup {k}
        BY <2>2, <2>5
    <3>2. Abstract!Fetch(p, k)
        BY <2>1, <2>5, <3>1 DEF Abstract!Fetch, Abstract!Answer, Answered
    <3> QED BY <3>2 DEF AbstractStep, Abstract!Next
  <2>6. ASSUME NEW what \in {"unavailable", "not cached", "cleared"}, Answered(p, k, what), ~Whole(k), ~Whole(k)'
        PROVE  AbstractStep
    <3>1. cached' = cached /\ k \notin cached
        BY <2>2, <2>6
    <3>2. Abstract!Unavailable(p, k) \/ Abstract!Use(p, k) \/ Abstract!Cleared(p, k)
        BY <2>1, <2>6, <3>1
           DEF Abstract!Unavailable, Abstract!Use, Abstract!Cleared, Abstract!Answer, Answered
    <3> QED BY <3>2 DEF AbstractStep, Abstract!Next
  <2> QED BY <1>2, <2>3, <2>4, <2>5, <2>6 DEF Promised
<1> QED BY <1>1, <1>2

-----------------------------------------------------------------------------
(* What a process of a package command knows, and what its step keeps.       *)

LEMMA AtPlace ==
    ASSUME IInv, NEW p \in Procs, proc[p].pc \in PackagePcs
    PROVE  /\ K(p) \in Keys /\ ~Idle(p)
           /\ K(p) \notin damaged =>
                /\ AtWork(p, K(p))
                /\ proc[p].pc \notin Readers => Alone(p, K(p))
                /\ \A q \in Procs \ {p} : K(q) = K(p) => proc[q].pc \in Readers
<1>1. K(p) \in Keys /\ ~Idle(p)
    BY DEF IInv, KeyOfCommand, Idle, PackagePcs
<1>2. K(p) \notin damaged => AtWork(p, K(p))
    BY <1>1 DEF IInv, Packages
<1>3. ASSUME K(p) \notin damaged, NEW q \in Procs \ {p}, K(q) = K(p)
      PROVE  proc[q].pc \in Readers /\ (proc[p].pc \notin Readers => Idle(q))
    BY <1>1, <1>3 DEF IInv, Exclusive, Idle, Readers
<1> QED BY <1>1, <1>2, <1>3 DEF Alone

LEMMA DiskStays ==
    ASSUME IInv, UNCHANGED disk
    PROVE  /\ DiskOK' /\ NoDirNoFiles'
           /\ tree' = tree /\ archive' = archive /\ toml' = toml
           /\ \A k : /\ Whole(k)' = Whole(k) /\ is_cached(k)' = is_cached(k) /\ Tree(k)' = Tree(k)
                     /\ Complete(k)' = Complete(k) /\ Downloaded(k)' = Downloaded(k)
                     /\ Sound(k)' = Sound(k)
BY DEF disk, IInv, DiskOK, NoDirNoFiles, Whole, is_cached, Tree, Complete, Downloaded, Sound, cached_package_dir

LEMMA Moved ==
    ASSUME IInv, NEW p \in Procs, NEW k \in Keys, OthersRest(p), ControlOK', DiskOK', NoDirNoFiles',
           \A j \in Keys \ {k} : tree'[j] = tree[j] /\ archive'[j] = archive[j], toml' = toml,
           damaged' = damaged \/ damaged' = damaged \cup {k},
           proc'[p].key = k, proc'[p].pc \notin EditPcs, Idle(p) \/ K(p) = k,
           CounterAt(proc'[p].pc, proc'[p].n), answer' = answer \/ \E what : Answered(p, k, what)
    PROVE  StepOf(p, k) /\ Rest(p)
<1>1. answer'[p] # answer[p] => answer'[p].key = k
    BY DEF IInv, ControlOK, Answered
<1> QED BY <1>1 DEF StepOf, Rest

\* The two ways in which a step of a package command keeps the invariant.
LEMMA ChangeStep ==
    ASSUME IInv, NEW p \in Procs, NEW k \in Keys, StepOf(p, k), Rest(p), proc'[p].pc \notin EditPcs,
           k \notin damaged' =>
             /\ Alone(p, k) /\ AtWork(p, k)' /\ Promised(p, k)
             /\ proc'[p].pc \in Readers => Sound(k)'
    PROVE  IInv' /\ AbstractStep
BY AloneStep, PromisedStep

LEMMA LookStep ==
    ASSUME IInv, NEW p \in Procs, NEW k \in Keys, StepOf(p, k), Rest(p), proc'[p].pc \in Readers,
           k \notin damaged' => Reading(p, k) /\ AtWork(p, k)' /\ Promised(p, k)
    PROVE  IInv' /\ AbstractStep
BY ReadStep, PromisedStep

\* AtWork, place by place.
WorkPlaces == \A p \in Procs, k \in Keys :
    /\ proc[p].pc = "idle" => AtWork(p, k)
    /\ proc[p].pc = "archive" => (AtWork(p, k) <=> Complete(k) /\ ~is_cached(k))
    /\ proc[p].pc = "open" => (AtWork(p, k) <=> ~archive[k].exists /\ ~is_cached(k))
    /\ proc[p].pc = "copy" =>
         (AtWork(p, k) <=> /\ archive[k].exists /\ ~is_cached(k) /\ proc[p].n \in 1 .. 3
                           /\ archive[k].chunks = {ChunkAt[i] : i \in 1 .. proc[p].n - 1})
    /\ proc[p].pc = "target" => (AtWork(p, k) <=> Downloaded(k) /\ ~is_cached(k))
    /\ proc[p].pc = "rm" =>
         (AtWork(p, k) <=> /\ proc[p].todo = {f \in File : Tree(k).files[f] # "absent"} /\ Tree(k).exists
                           /\ Complete(k) /\ proc[p].after \in {"mkdir", "cleared"}
                           /\ proc[p].after = "mkdir" => Downloaded(k) /\ ~is_cached(k))
    /\ proc[p].pc = "mkdir" => (AtWork(p, k) <=> Downloaded(k) /\ FilesAre(k, "absent", "absent"))
    /\ proc[p].pc = "unzip" =>
         (AtWork(p, k) <=> Downloaded(k) /\ FilesAre(k, "absent", "absent") /\ Tree(k).exists)
    /\ proc[p].pc = "extract" =>
         (AtWork(p, k) <=> /\ Downloaded(k) /\ proc[p].n \in {1, 2} /\ Tree(k).exists
                           /\ FilesAre(k, IF proc[p].n = 1 THEN "absent" ELSE "whole", "absent"))
    /\ proc[p].pc = "fill" =>
         (AtWork(p, k) <=> /\ Downloaded(k) /\ proc[p].n \in {1, 2} /\ Tree(k).exists
                           /\ IF proc[p].n = 1 THEN FilesAre(k, "partial", "absent")
                              ELSE FilesAre(k, "whole", "partial"))
    /\ proc[p].pc = "parse" => (AtWork(p, k) <=> is_cached(k))
    /\ proc[p].pc = "read" => (AtWork(p, k) <=> is_cached(k) /\ proc[p].n = 0)
LEMMA PlacesNow == WorkPlaces
<1> SUFFICES ASSUME NEW p \in Procs, NEW k \in Keys
             PROVE  WorkPlaces!(p, k)
    BY DEF WorkPlaces
<1> QED BY DEF AtWork, At
LEMMA PlacesNext == WorkPlaces'
BY PlacesNow, PTL

\* A whole package is one that a fetch finds.
LEMMA WholeIsCached == ASSUME IInv, NEW k \in Keys, Whole(k) PROVE is_cached(k)
<1>1. \A f \in File : Tree(k).files[f] = "whole"
    BY DEF Whole
<1>2. "toml" \in File
    BY DEF File
<1>3. Tree(k).exists
    BY <1>1, <1>2 DEF IInv, NoDirNoFiles
<1> QED BY <1>1, <1>2, <1>3 DEF is_cached

-----------------------------------------------------------------------------
(* The parts of a step: where the process goes, and what becomes of the disk. *)

Whats == {"none", "package", "broken", "unavailable", "raised", "cleared", "not cached", "edited", "refused"}
Elsewhere(k) == toml' = toml /\ \A j \in Keys \ {k} : tree'[j] = tree[j] /\ archive'[j] = archive[j]

LEMMA GotoStep ==
    ASSUME IInv, NEW p \in Procs, NEW k \in Keys, K(p) = k, NEW pc \in PackagePcs, Goto(p, pc), CounterAt(pc, proc[p].n),
           DiskOK', NoDirNoFiles', Elsewhere(k)
    PROVE  /\ StepOf(p, k) /\ Rest(p) /\ damaged' = damaged /\ answer' = answer
           /\ proc'[p].pc = pc /\ proc'[p].n = proc[p].n /\ pc \notin EditPcs
<1>1. pc \in Pcs /\ pc \notin EditPcs
    BY DEF Pcs, PackagePcs, EditPcs
<1>2. /\ ControlOK' /\ OthersRest(p) /\ UNCHANGED <<damaged, answer>>
      /\ proc'[p].pc = pc /\ proc'[p].key = k /\ proc'[p].n = proc[p].n
    BY <1>1, GotoEffect DEF IInv
<1>3. StepOf(p, k) /\ Rest(p)
    BY <1>1, <1>2, Moved DEF Elsewhere
<1> QED BY <1>1, <1>2, <1>3

LEMMA GotoAtStep ==
    ASSUME IInv, NEW p \in Procs, NEW k \in Keys, K(p) = k, NEW pc \in PackagePcs, NEW n \in 0 .. 3, GotoAt(p, pc, n),
           CounterAt(pc, n), DiskOK', NoDirNoFiles', Elsewhere(k)
    PROVE  /\ StepOf(p, k) /\ Rest(p) /\ damaged' = damaged /\ answer' = answer
           /\ proc'[p].pc = pc /\ proc'[p].n = n /\ pc \notin EditPcs
<1>1. pc \in Pcs /\ pc \notin EditPcs
    BY DEF Pcs, PackagePcs, EditPcs
<1>2. /\ ControlOK' /\ OthersRest(p) /\ UNCHANGED <<damaged, answer>>
      /\ proc'[p].pc = pc /\ proc'[p].key = k /\ proc'[p].n = n
    BY <1>1, GotoAtEffect DEF IInv
<1>3. StepOf(p, k) /\ Rest(p)
    BY <1>1, <1>2, Moved DEF Elsewhere
<1> QED BY <1>1, <1>2, <1>3

LEMMA EndStep ==
    ASSUME IInv, NEW p \in Procs, NEW k \in Keys, K(p) = k, NEW what \in Whats, End(p, what),
           DiskOK', NoDirNoFiles', Elsewhere(k)
    PROVE  /\ StepOf(p, k) /\ Rest(p) /\ damaged' = damaged /\ Answered(p, k, what)
           /\ proc'[p].pc = "idle" /\ "idle" \notin EditPcs /\ AtWork(p, k)'
<1>1. [key |-> k, what |-> what] \in Answers /\ "idle" \notin EditPcs
    BY DEF Answers, Whats, EditPcs
<1>2. /\ ControlOK' /\ OthersRest(p) /\ damaged' = damaged /\ Answered(p, k, what)
      /\ proc'[p].pc = "idle" /\ proc'[p].key = k
    BY <1>1, EndEffect DEF IInv, Answered
<1>3. StepOf(p, k) /\ Rest(p)
    BY <1>1, <1>2, Moved DEF Elsewhere, CounterAt
<1>4. AtWork(p, k)'
    BY <1>2, PlacesNext DEF WorkPlaces
<1> QED BY <1>1, <1>2, <1>3, <1>4

LEMMA DiskElsewhere == ASSUME NEW k, UNCHANGED disk PROVE Elsewhere(k)
BY DEF disk, Elsewhere

LEMMA TreeStep ==
    ASSUME IInv, NEW k \in Keys, NEW t \in Directory, SetTree(k, t), UNCHANGED <<archive, toml>>,
           t.exists \/ \A f \in File : t.files[f] = "absent"
    PROVE  /\ DiskOK' /\ NoDirNoFiles' /\ Elsewhere(k) /\ Tree(k)' = t
           /\ archive' = archive /\ Complete(k)' = Complete(k) /\ Downloaded(k)' = Downloaded(k)
<1>1. tree' \in [Keys -> Directory] /\ tree'[k] = t /\ \A j \in Keys \ {k} : tree'[j] = tree[j]
    BY SetTreeEffect DEF IInv, DiskOK
<1>2. DiskOK'
    BY <1>1 DEF IInv, DiskOK
<1>3. NoDirNoFiles'
    BY <1>1 DEF IInv, NoDirNoFiles, Tree, cached_package_dir
<1> QED BY <1>1, <1>2, <1>3 DEF Elsewhere, Tree, cached_package_dir, Complete, Downloaded

LEMMA ArchiveStep ==
    ASSUME IInv, NEW k \in Keys, NEW a \in Archive, archive' = [archive EXCEPT ![k] = a], UNCHANGED <<tree, toml>>
    PROVE  /\ DiskOK' /\ NoDirNoFiles' /\ Elsewhere(k) /\ archive'[k] = a
           /\ Tree(k)' = Tree(k) /\ is_cached(k)' = is_cached(k) /\ Whole(k)' = Whole(k)
<1>1. archive' \in [Keys -> Archive] /\ archive'[k] = a /\ \A j \in Keys \ {k} : archive'[j] = archive[j]
    BY DEF IInv, DiskOK
<1>2. DiskOK'
    BY <1>1 DEF IInv, DiskOK
<1>3. NoDirNoFiles'
    BY DEF IInv, NoDirNoFiles, Tree, cached_package_dir
<1> QED BY <1>1, <1>2, <1>3 DEF Elsewhere, Tree, cached_package_dir, is_cached, Whole

-----------------------------------------------------------------------------
(* The steps of fetch_package. *)

LEMMA PcsAre == \A pc \in PackagePcs \cup EditPcs \cup {"idle"} : pc \in Pcs
BY DEF Pcs

LEMMA DownloadCheckStep == ASSUME IInv, NEW p \in Procs, NEW k \in Keys, K(p) = k, DownloadCheck(p) PROVE IInv' /\ AbstractStep
<1> DEFINE pc == IF archive[k].exists THEN "target" ELSE "open"
<1>1. proc[p].pc = "archive" /\ Goto(p, pc) /\ UNCHANGED disk
    BY DEF DownloadCheck, At
<1>2. k \in Keys /\ ~Idle(p) /\ (k \notin damaged => AtWork(p, k) /\ Alone(p, k))
    BY <1>1, AtPlace DEF PackagePcs, Readers
<1>3. pc \in Pcs /\ pc \notin Readers \cup EditPcs
    BY DEF Pcs, PackagePcs, Readers, EditPcs
<1>4. archive[k].exists \in BOOLEAN
    BY <1>2 DEF IInv, DiskOK, Archive
<1>5. (pc = "target" /\ archive[k].exists) \/ (pc = "open" /\ ~archive[k].exists)
    OBVIOUS
<1> HIDE DEF pc
<1>6. /\ ControlOK' /\ OthersRest(p) /\ UNCHANGED <<damaged, answer>>
      /\ proc'[p].pc = pc /\ proc'[p].key = k
    BY <1>1, <1>3, GotoEffect DEF IInv
<1>7. StepOf(p, k) /\ Rest(p)
    BY <1>1, <1>2, <1>3, <1>5, <1>6, Moved, DiskStays DEF CounterAt
<1>8. Promised(p, k)
    BY <1>1, <1>6, DiskStays DEF Promised
<1>9. k \notin damaged => AtWork(p, k)'
  <2>1. k \notin damaged => Complete(k) /\ ~is_cached(k)
      BY <1>1, <1>2, PlacesNow DEF WorkPlaces
  <2>2. /\ Complete(k)' = Complete(k) /\ is_cached(k)' = is_cached(k) /\ archive' = archive
        /\ Downloaded(k)' = Downloaded(k)
      BY <1>1, DiskStays
  <2>3. Complete(k) /\ archive[k].exists => Downloaded(k)
      BY DEF Complete, Downloaded
  <2> QED BY <1>2, <1>5, <1>6, <2>1, <2>2, <2>3, PlacesNext DEF WorkPlaces
<1> QED BY <1>2, <1>3, <1>6, <1>7, <1>8, <1>9, ChangeStep

LEMMA DownloadFailsStep == ASSUME IInv, NEW p \in Procs, NEW k \in Keys, K(p) = k, DownloadFails(p) PROVE IInv' /\ AbstractStep
<1>1. proc[p].pc = "open" /\ End(p, "unavailable") /\ UNCHANGED disk
    BY DEF DownloadFails, At
<1>2. k \in Keys /\ ~Idle(p) /\ (k \notin damaged => AtWork(p, k) /\ Alone(p, k))
    BY <1>1, AtPlace DEF PackagePcs, Readers
<1>3. [key |-> k, what |-> "unavailable"] \in Answers
    BY <1>2 DEF Answers
<1>4. /\ ControlOK' /\ OthersRest(p) /\ damaged' = damaged /\ Answered(p, k, "unavailable")
      /\ proc'[p].pc = "idle" /\ proc'[p].key = k
    BY <1>1, <1>3, EndEffect DEF IInv, Answered
<1>5. StepOf(p, k) /\ Rest(p)
    BY <1>1, <1>2, <1>4, Moved, DiskStays DEF EditPcs, CounterAt
<1>6. k \notin damaged => ~archive[k].exists /\ ~is_cached(k)
    BY <1>1, <1>2, PlacesNow DEF WorkPlaces
<1>7. k \notin damaged => ~Whole(k) /\ Sound(k)
    BY <1>2, <1>6, WholeIsCached DEF Sound, Complete
<1>8. Whole(k)' = Whole(k) /\ Sound(k)' = Sound(k)
    BY <1>1, DiskStays
<1>9. k \notin damaged => Promised(p, k)
    BY <1>4, <1>7, <1>8 DEF Promised
<1>10. AtWork(p, k)'
    BY <1>2, <1>4, PlacesNext DEF WorkPlaces
<1> QED BY <1>2, <1>4, <1>5, <1>7, <1>8, <1>9, <1>10, ChangeStep DEF EditPcs

LEMMA ChunksAtAll == {ChunkAt[i] : i \in 1 .. 3} = Chunks
<1>1. 1 .. 3 = {1, 2, 3}
    OBVIOUS
<1>2. ChunkAt[1] = "toml" /\ ChunkAt[2] = "src" /\ ChunkAt[3] = "index"
    BY DEF ChunkAt
<1> QED BY <1>1, <1>2 DEF Chunks

LEMMA DownloadOpenStep ==
    ASSUME IInv, NEW p \in Procs, NEW k \in Keys, K(p) = k, DownloadOpen(p) PROVE IInv' /\ AbstractStep
<1> DEFINE a == [exists |-> TRUE, chunks |-> {}]
<1>1. proc[p].pc = "open" /\ GotoAt(p, "copy", 1) /\ archive' = [archive EXCEPT ![k] = a] /\ UNCHANGED <<tree, toml>>
    BY DEF DownloadOpen, At
<1>2. k \notin damaged => AtWork(p, k) /\ Alone(p, k)
    BY <1>1, AtPlace DEF PackagePcs, Readers
<1>3. a \in Archive /\ a.exists /\ a.chunks = {} /\ "copy" \in PackagePcs /\ "copy" \notin Readers
    BY DEF Archive, PackagePcs, Readers
<1> HIDE DEF a
<1>4. /\ DiskOK' /\ NoDirNoFiles' /\ Elsewhere(k) /\ archive'[k] = a
      /\ is_cached(k)' = is_cached(k) /\ Whole(k)' = Whole(k)
    BY <1>1, <1>3, ArchiveStep
<1>5. /\ StepOf(p, k) /\ Rest(p) /\ damaged' = damaged /\ answer' = answer
      /\ proc'[p].pc = "copy" /\ proc'[p].n = 1 /\ proc'[p].pc \notin EditPcs
    BY <1>1, <1>3, <1>4, GotoAtStep DEF CounterAt
<1>6. Promised(p, k)
    BY <1>4, <1>5 DEF Promised
<1>7. k \notin damaged => AtWork(p, k)'
  <2>1. k \notin damaged => ~is_cached(k)
      BY <1>1, <1>2, PlacesNow DEF WorkPlaces
  <2>2. {} = {ChunkAt[i] : i \in 1 .. 1 - 1}
      OBVIOUS
  <2> QED BY <1>3, <1>4, <1>5, <2>1, <2>2, PlacesNext DEF WorkPlaces
<1> QED BY <1>2, <1>3, <1>5, <1>6, <1>7, ChangeStep

LEMMA DownloadCopyStep ==
    ASSUME IInv, NEW p \in Procs, NEW k \in Keys, K(p) = k, DownloadCopy(p) PROVE IInv' /\ AbstractStep
<1> DEFINE n == proc[p].n
           a == [archive[k] EXCEPT !.chunks = @ \cup {ChunkAt[n]}]
<1>1. /\ proc[p].pc = "copy" /\ archive' = [archive EXCEPT ![k] = a] /\ UNCHANGED <<tree, toml>>
      /\ IF n = 3 THEN Goto(p, "target") ELSE GotoAt(p, "copy", n + 1)
    BY DEF DownloadCopy, At
<1>2. k \notin damaged => AtWork(p, k) /\ Alone(p, k)
    BY <1>1, AtPlace DEF PackagePcs, Readers
<1>3. {"copy", "target"} \subseteq PackagePcs /\ {"copy", "target"} \cap Readers = {}
    BY DEF PackagePcs, Readers
<1>4. n \in 1 .. 3
    BY <1>1 DEF IInv, Counters, CounterAt
<1>5. ChunkAt[n] \in Chunks
    BY <1>4 DEF ChunkAt, Chunks
<1>6. archive[k] \in Archive
    BY DEF IInv, DiskOK
<1>7. a \in Archive /\ a.exists = archive[k].exists /\ a.chunks = archive[k].chunks \cup {ChunkAt[n]}
    BY <1>5, <1>6 DEF Archive
<1> HIDE DEF a
<1>8. /\ DiskOK' /\ NoDirNoFiles' /\ Elsewhere(k) /\ archive'[k] = a
      /\ is_cached(k)' = is_cached(k) /\ Whole(k)' = Whole(k)
    BY <1>1, <1>7, ArchiveStep
<1>9. k \notin damaged => archive[k].exists /\ ~is_cached(k) /\ archive[k].chunks = {ChunkAt[i] : i \in 1 .. n - 1}
    BY <1>1, <1>2, PlacesNow DEF WorkPlaces
<1>10. k \notin damaged => a.exists /\ a.chunks = {ChunkAt[i] : i \in 1 .. n}
  <2>1. {ChunkAt[i] : i \in 1 .. n - 1} \cup {ChunkAt[n]} = {ChunkAt[i] : i \in 1 .. n}
    <3>1. 1 .. n = (1 .. n - 1) \cup {n}
        BY <1>4
    <3> QED BY <3>1
  <2> QED BY <1>7, <1>9, <2>1
<1>11. CASE n = 3
  <2>1. Goto(p, "target")
      BY <1>1, <1>11
  <2>2. /\ StepOf(p, k) /\ Rest(p) /\ damaged' = damaged /\ answer' = answer
        /\ proc'[p].pc = "target" /\ proc'[p].pc \notin EditPcs
      BY <1>3, <1>8, <2>1, GotoStep DEF CounterAt
  <2>3. Promised(p, k)
      BY <1>8, <2>2 DEF Promised
  <2>4. {ChunkAt[i] : i \in 1 .. 3} = Chunks
      BY ChunksAtAll
  <2>5. k \notin damaged => Downloaded(k)'
      BY <1>8, <1>10, <1>11, <2>4 DEF Downloaded
  <2>6. k \notin damaged => AtWork(p, k)'
      BY <1>8, <1>9, <2>2, <2>5, PlacesNext DEF WorkPlaces
  <2> QED BY <1>2, <1>3, <2>2, <2>3, <2>6, ChangeStep
<1>12. CASE n # 3
  <2>1. GotoAt(p, "copy", n + 1) /\ n + 1 \in 1 .. 3 /\ n + 1 \in 0 .. 3
      BY <1>1, <1>4, <1>12
  <2>2. /\ StepOf(p, k) /\ Rest(p) /\ damaged' = damaged /\ answer' = answer
        /\ proc'[p].pc = "copy" /\ proc'[p].n = n + 1 /\ proc'[p].pc \notin EditPcs
      BY <1>3, <1>8, <2>1, GotoAtStep DEF CounterAt
  <2>3. Promised(p, k)
      BY <1>8, <2>2 DEF Promised
  <2>4. 1 .. (n + 1) - 1 = 1 .. n
      BY <1>4
  <2>5. k \notin damaged => AtWork(p, k)'
    <3>1. k \notin damaged => archive'[k].chunks = {ChunkAt[i] : i \in 1 .. proc'[p].n - 1}
        BY <1>8, <1>10, <2>2, <2>4
    <3> QED BY <1>8, <1>9, <1>10, <2>1, <2>2, <3>1, PlacesNext DEF WorkPlaces
  <2> QED BY <1>2, <1>3, <2>2, <2>3, <2>5, ChangeStep
<1> QED BY <1>11, <1>12

LEMMA CacheTargetStep ==
    ASSUME IInv, NEW p \in Procs, NEW k \in Keys, K(p) = k, CacheTarget(p) PROVE IInv' /\ AbstractStep
<1> DEFINE todo == {f \in File : Tree(k).files[f] # "absent"}
<1>1. proc[p].pc = "target" /\ UNCHANGED disk
    BY DEF CacheTarget, At
<1>2. k \notin damaged => AtWork(p, k) /\ Alone(p, k)
    BY <1>1, AtPlace DEF PackagePcs, Readers
<1>3. k \notin damaged => Downloaded(k) /\ ~is_cached(k)
    BY <1>1, <1>2, PlacesNow DEF WorkPlaces
<1>4. /\ DiskOK' /\ NoDirNoFiles' /\ Elsewhere(k) /\ tree' = tree /\ Tree(k)' = Tree(k) /\ Whole(k)' = Whole(k)
      /\ is_cached(k)' = is_cached(k) /\ Downloaded(k)' = Downloaded(k) /\ Complete(k)' = Complete(k)
    BY <1>1, DiskStays, DiskElsewhere
<1>5. {"rm", "mkdir"} \subseteq Pcs \ EditPcs /\ {"rm", "mkdir"} \subseteq PackagePcs /\ {"rm", "mkdir"} \cap Readers = {}
    BY DEF Pcs, PackagePcs, EditPcs, Readers
<1>6. CASE Tree(k).exists
  <2>0. todo \in SUBSET File
      OBVIOUS
  <2>1. /\ proc' = [proc EXCEPT ![p].pc = "rm", ![p].after = "mkdir", ![p].todo = todo]
        /\ UNCHANGED <<ops, faults, damaged, answer>>
      BY <1>6 DEF CacheTarget
  <2> HIDE DEF todo
  <2>2. proc[p] \in Control
      BY DEF IInv, ControlOK
  <2>3. /\ proc'[p].pc = "rm" /\ proc'[p].after = "mkdir" /\ proc'[p].todo = todo /\ proc'[p].key = k
        /\ proc' \in [Procs -> Control] /\ OthersRest(p)
      BY <1>5, <2>0, <2>1, <2>2 DEF IInv, ControlOK, Control, OthersRest, K
  <2>4. ControlOK'
      BY <2>1, <2>3 DEF IInv, ControlOK
  <2>5. StepOf(p, k) /\ Rest(p)
      BY <1>4, <1>5, <2>1, <2>3, <2>4, Moved DEF Elsewhere, CounterAt
  <2>6. Promised(p, k)
      BY <1>4, <2>1 DEF Promised
  <2>7. k \notin damaged => AtWork(p, k)'
    <3>1. Tree(k)'.exists /\ todo = {f \in File : Tree(k)'.files[f] # "absent"}
        BY <1>4, <1>6 DEF todo
    <3>2. Downloaded(k) => Complete(k)
        BY DEF Downloaded, Complete
    <3> QED BY <1>3, <1>4, <2>3, <3>1, <3>2, PlacesNext DEF WorkPlaces
  <2> QED BY <1>2, <1>5, <2>1, <2>3, <2>5, <2>6, <2>7, ChangeStep
<1>7. CASE ~Tree(k).exists
  <2>1. Goto(p, "mkdir")
      BY <1>7 DEF CacheTarget
  <2>2. /\ StepOf(p, k) /\ Rest(p) /\ damaged' = damaged /\ answer' = answer
        /\ proc'[p].pc = "mkdir" /\ proc'[p].pc \notin EditPcs
      BY <1>4, <1>5, <2>1, GotoStep DEF CounterAt
  <2>3. Promised(p, k)
      BY <1>4, <2>2 DEF Promised
  <2>4. k \notin damaged => AtWork(p, k)'
    <3>1. FilesAre(k, "absent", "absent")
        BY <1>7 DEF IInv, NoDirNoFiles, FilesAre, File
    <3>2. FilesAre(k, "absent", "absent")'
        BY <1>4, <3>1 DEF FilesAre
    <3> QED BY <1>3, <1>4, <2>2, <3>2, PlacesNext DEF WorkPlaces
  <2> QED BY <1>2, <1>5, <2>2, <2>3, <2>4, ChangeStep
<1> QED BY <1>6, <1>7

\* A directory that is made or removed, and one with one file changed.
LEMMA WithExists ==
    ASSUME NEW t \in Directory, NEW e \in BOOLEAN, NEW u, u = [t EXCEPT !.exists = e]
    PROVE  u \in Directory /\ u.exists = e /\ u.files = t.files
BY DEF Directory

LEMMA WithFile ==
    ASSUME NEW t \in Directory, NEW f \in File, NEW s \in {"absent", "partial", "whole"},
           NEW u, u = [t EXCEPT !.files[f] = s]
    PROVE  /\ u \in Directory /\ u.exists = t.exists /\ u.files[f] = s
           /\ \A g \in File \ {f} : u.files[g] = t.files[g]
<1>1. t.files \in [File -> {"absent", "partial", "whole"}] /\ t.exists \in BOOLEAN
    BY DEF Directory
<1>2. u = [exists |-> t.exists, files |-> [t.files EXCEPT ![f] = s]]
    BY DEF Directory
<1>3. [t.files EXCEPT ![f] = s] \in [File -> {"absent", "partial", "whole"}]
    BY <1>1
<1>4. u.exists = t.exists /\ u.files = [t.files EXCEPT ![f] = s] /\ u \in Directory
    BY <1>1, <1>2, <1>3 DEF Directory
<1> QED BY <1>1, <1>4

LEMMA MkdirStep == ASSUME IInv, NEW p \in Procs, NEW k \in Keys, K(p) = k, Mkdir(p) PROVE IInv' /\ AbstractStep
<1> DEFINE t == [Tree(k) EXCEPT !.exists = TRUE]
<1>1. proc[p].pc = "mkdir" /\ SetTree(k, [Tree(k) EXCEPT !.exists = TRUE]) /\ Goto(p, "unzip")
      /\ UNCHANGED <<archive, toml>>
    BY DEF Mkdir, At
<1>2. k \notin damaged => AtWork(p, k) /\ Alone(p, k)
    BY <1>1, AtPlace DEF PackagePcs, Readers
<1>3. k \notin damaged => Downloaded(k) /\ FilesAre(k, "absent", "absent")
    BY <1>1, <1>2, PlacesNow DEF WorkPlaces
<1>4. Tree(k) \in Directory
    BY DEF IInv, DiskOK, Tree, cached_package_dir
<1>6. SetTree(k, t)
    BY <1>1
<1>5. t \in Directory /\ t.exists /\ t.files = Tree(k).files
    BY <1>4, WithExists
<1> HIDE DEF t
<1>7. /\ DiskOK' /\ NoDirNoFiles' /\ Elsewhere(k) /\ Tree(k)' = t /\ Downloaded(k)' = Downloaded(k)
    BY <1>1, <1>5, <1>6, TreeStep
<1>8. "unzip" \in PackagePcs /\ "unzip" \notin Readers
    BY DEF PackagePcs, Readers
<1>9. /\ StepOf(p, k) /\ Rest(p) /\ damaged' = damaged /\ answer' = answer
      /\ proc'[p].pc = "unzip" /\ proc'[p].pc \notin EditPcs
    BY <1>1, <1>7, <1>8, GotoStep DEF CounterAt
<1>10. Promised(p, k)
    BY <1>5, <1>7, <1>9 DEF Promised, Whole
<1>11. k \notin damaged => AtWork(p, k)'
  <2>1. k \notin damaged => FilesAre(k, "absent", "absent")' /\ Tree(k)'.exists
      BY <1>3, <1>5, <1>7 DEF FilesAre
  <2> QED BY <1>3, <1>7, <1>9, <2>1, PlacesNext DEF WorkPlaces
<1> QED BY <1>2, <1>8, <1>9, <1>10, <1>11, ChangeStep

LEMMA OpenZipStep == ASSUME IInv, NEW p \in Procs, NEW k \in Keys, K(p) = k, OpenZip(p) PROVE IInv' /\ AbstractStep
<1>1. proc[p].pc = "unzip" /\ UNCHANGED disk
    BY DEF OpenZip, At
<1>2. k \notin damaged => AtWork(p, k) /\ Alone(p, k)
    BY <1>1, AtPlace DEF PackagePcs, Readers
<1>3. k \notin damaged => Downloaded(k) /\ FilesAre(k, "absent", "absent") /\ Tree(k).exists
    BY <1>1, <1>2, PlacesNow DEF WorkPlaces
<1>4. /\ DiskOK' /\ NoDirNoFiles' /\ Elsewhere(k) /\ Tree(k)' = Tree(k) /\ Whole(k)' = Whole(k)
      /\ Downloaded(k)' = Downloaded(k)
    BY <1>1, DiskStays, DiskElsewhere
<1>5. CASE "index" \in archive[k].chunks
  <2>1. GotoAt(p, "extract", 1) /\ "extract" \in PackagePcs /\ "extract" \notin Readers
      BY <1>5 DEF OpenZip, PackagePcs, Readers
  <2>2. /\ StepOf(p, k) /\ Rest(p) /\ damaged' = damaged /\ answer' = answer
        /\ proc'[p].pc = "extract" /\ proc'[p].n = 1 /\ proc'[p].pc \notin EditPcs
      BY <1>4, <2>1, GotoAtStep DEF CounterAt
  <2>3. Promised(p, k)
      BY <1>4, <2>2 DEF Promised
  <2>4. k \notin damaged => AtWork(p, k)'
    <3>1. FilesAre(k, "absent", "absent") => FilesAre(k, "absent", "absent")'
        BY <1>4 DEF FilesAre
    <3> QED BY <1>3, <1>4, <2>2, <3>1, PlacesNext DEF WorkPlaces
  <2> QED BY <1>2, <2>1, <2>2, <2>3, <2>4, ChangeStep
<1>6. CASE "index" \notin archive[k].chunks
  <2>1. End(p, "raised") /\ "raised" \in Whats
      BY <1>6 DEF OpenZip, Whats
  <2>2. k \in damaged
      BY <1>3, <1>6 DEF Downloaded, Chunks
  <2>3. StepOf(p, k) /\ Rest(p) /\ damaged' = damaged /\ proc'[p].pc = "idle" /\ "idle" \notin EditPcs
      BY <1>4, <2>1, EndStep
  <2> QED BY <2>2, <2>3, ChangeStep
<1> QED BY <1>5, <1>6

LEMMA ExtractStep == ASSUME IInv, NEW p \in Procs, NEW k \in Keys, K(p) = k, Extract(p) PROVE IInv' /\ AbstractStep
<1> DEFINE n == proc[p].n
           f == Files[n]
           t == [exists |-> TRUE, files |-> [Tree(k).files EXCEPT ![f] = "partial"]]
<1>1. proc[p].pc = "extract" /\ UNCHANGED <<archive, toml>>
    BY DEF Extract, At
<1>2. k \notin damaged => AtWork(p, k) /\ Alone(p, k)
    BY <1>1, AtPlace DEF PackagePcs, Readers
<1>3. k \notin damaged => Downloaded(k) /\ Tree(k).exists /\ FilesAre(k, IF n = 1 THEN "absent" ELSE "whole", "absent")
    BY <1>1, <1>2, PlacesNow DEF WorkPlaces
<1>4. n \in {1, 2}
    BY <1>1 DEF IInv, Counters, CounterAt
<1>5. f = (IF n = 1 THEN "toml" ELSE "src") /\ f \in File
    BY <1>4 DEF Files, File
<1>6. Tree(k) \in Directory
    BY DEF IInv, DiskOK, Tree, cached_package_dir
<1>7. CASE f \in archive[k].chunks
  <2>1. SetTree(k, t) /\ Goto(p, "fill")
      BY <1>7 DEF Extract
  <2>2. /\ t \in Directory /\ t.exists /\ t.files[f] = "partial" /\ \A g \in File \ {f} : t.files[g] = Tree(k).files[g]
      BY <1>5, <1>6 DEF Directory
  <2> HIDE DEF t
  <2>3. /\ DiskOK' /\ NoDirNoFiles' /\ Elsewhere(k) /\ Tree(k)' = t /\ Downloaded(k)' = Downloaded(k)
      BY <1>1, <2>1, <2>2, TreeStep
  <2>4. "fill" \in PackagePcs /\ "fill" \notin Readers
      BY DEF PackagePcs, Readers
  <2>5. /\ StepOf(p, k) /\ Rest(p) /\ damaged' = damaged /\ answer' = answer
        /\ proc'[p].pc = "fill" /\ proc'[p].n = n /\ proc'[p].pc \notin EditPcs
      BY <1>4, <2>1, <2>3, <2>4, GotoStep DEF CounterAt
  <2>6. ~Whole(k)'
      BY <1>5, <2>2, <2>3 DEF Whole
  <2>7. Promised(p, k)
      BY <2>5, <2>6 DEF Promised
  <2>8. k \notin damaged => AtWork(p, k)'
    <3>1. CASE k \notin damaged /\ n = 1
      <4>1. FilesAre(k, "partial", "absent")'
          BY <1>3, <1>5, <2>2, <2>3, <3>1 DEF FilesAre, File
      <4> QED BY <1>3, <1>4, <2>2, <2>3, <2>5, <3>1, <4>1, PlacesNext DEF WorkPlaces
    <3>2. CASE k \notin damaged /\ n = 2
      <4>1. FilesAre(k, "whole", "partial")'
          BY <1>3, <1>5, <2>2, <2>3, <3>2 DEF FilesAre, File
      <4>2. proc'[p].n # 1 /\ proc'[p].n \in {1, 2}
          BY <2>5, <3>2
      <4> QED BY <1>3, <2>2, <2>3, <2>5, <3>2, <4>1, <4>2, PlacesNext DEF WorkPlaces
    <3> QED BY <1>4, <3>1, <3>2
  <2> QED BY <1>2, <2>4, <2>5, <2>7, <2>8, ChangeStep
<1>8. CASE f \notin archive[k].chunks
  <2>1. End(p, "raised") /\ UNCHANGED tree /\ "raised" \in Whats
      BY <1>8 DEF Extract, Whats
  <2>2. k \in damaged
      BY <1>3, <1>5, <1>8 DEF Downloaded, Chunks, File
  <2>3. UNCHANGED disk
      BY <1>1, <2>1 DEF disk
  <2>4. StepOf(p, k) /\ Rest(p) /\ damaged' = damaged /\ proc'[p].pc = "idle" /\ "idle" \notin EditPcs
      BY <2>1, <2>3, EndStep, DiskStays, DiskElsewhere
  <2> QED BY <2>2, <2>4, ChangeStep
<1> QED BY <1>7, <1>8

LEMMA FillStep == ASSUME IInv, NEW p \in Procs, NEW k \in Keys, K(p) = k, Fill(p) PROVE IInv' /\ AbstractStep
<1> DEFINE n == proc[p].n
           f == Files[n]
           t == IF Tree(k).files[f] = "absent" THEN Tree(k) ELSE [Tree(k) EXCEPT !.files[f] = "whole"]
<1>1. /\ proc[p].pc = "fill" /\ UNCHANGED <<archive, toml>> /\ SetTree(k, t)
      /\ IF n < 2 THEN GotoAt(p, "extract", 2)
         ELSE End(p, IF \A g \in File : t.files[g] = "whole" THEN "package" ELSE "broken")
    BY DEF Fill, At
<1>2. k \notin damaged => AtWork(p, k) /\ Alone(p, k)
    BY <1>1, AtPlace DEF PackagePcs, Readers
<1>3. k \notin damaged => /\ Downloaded(k) /\ Tree(k).exists
                          /\ IF n = 1 THEN FilesAre(k, "partial", "absent") ELSE FilesAre(k, "whole", "partial")
    BY <1>1, <1>2, PlacesNow DEF WorkPlaces
<1>4. n \in {1, 2}
    BY <1>1 DEF IInv, Counters, CounterAt
<1>5. f = (IF n = 1 THEN "toml" ELSE "src") /\ f \in File
    BY <1>4 DEF Files, File
<1>6. Tree(k) \in Directory /\ (Tree(k).exists \/ Tree(k).files[f] = "absent")
    BY <1>5 DEF IInv, DiskOK, NoDirNoFiles, Tree, cached_package_dir
<1>7. /\ t \in Directory /\ t.exists = Tree(k).exists
      /\ Tree(k).files[f] # "absent" => t.files[f] = "whole"
      /\ \A g \in File \ {f} : t.files[g] = Tree(k).files[g]
      /\ t.exists \/ \A g \in File : t.files[g] = "absent"
  <2>1. CASE Tree(k).files[f] = "absent"
      BY <1>6, <2>1 DEF IInv, NoDirNoFiles
  <2>2. CASE Tree(k).files[f] # "absent"
      BY <1>5, <1>6, <2>2, WithFile
  <2> QED BY <2>1, <2>2
<1> HIDE DEF t
<1>8. /\ DiskOK' /\ NoDirNoFiles' /\ Elsewhere(k) /\ Tree(k)' = t
      /\ Downloaded(k)' = Downloaded(k) /\ Complete(k)' = Complete(k)
    BY <1>1, <1>7, TreeStep
<1>9. CASE n = 1
  <2>1. GotoAt(p, "extract", 2) /\ "extract" \in PackagePcs /\ "extract" \notin Readers
      BY <1>1, <1>9 DEF PackagePcs, Readers
  <2>2. /\ StepOf(p, k) /\ Rest(p) /\ damaged' = damaged /\ answer' = answer
        /\ proc'[p].pc = "extract" /\ proc'[p].n = 2 /\ proc'[p].pc \notin EditPcs
      BY <1>8, <2>1, GotoAtStep DEF CounterAt
  <2>3. k \notin damaged => FilesAre(k, "whole", "absent")'
      BY <1>3, <1>5, <1>7, <1>8, <1>9 DEF FilesAre, File
  <2>4. k \notin damaged => Promised(p, k)
    <3>1. k \notin damaged => ~Whole(k)'
        BY <2>3 DEF Whole, FilesAre, File
    <3> QED BY <2>2, <3>1 DEF Promised
  <2>5. k \notin damaged => AtWork(p, k)'
    <3>1. proc'[p].n # 1 /\ proc'[p].n \in {1, 2}
        BY <2>2
    <3> QED BY <1>3, <1>7, <1>8, <2>2, <2>3, <3>1, PlacesNext DEF WorkPlaces
  <2> QED BY <1>2, <2>1, <2>2, <2>4, <2>5, ChangeStep
<1>10. CASE n = 2
  <2> DEFINE what == IF \A g \in File : t.files[g] = "whole" THEN "package" ELSE "broken"
  <2>1. End(p, what) /\ what \in Whats
      BY <1>1, <1>10 DEF Whats
  <2>2. k \notin damaged => \A g \in File : t.files[g] = "whole"
      BY <1>3, <1>5, <1>7, <1>10 DEF FilesAre, File
  <2>3. k \notin damaged => what = "package"
      BY <2>2
  <2> HIDE DEF what
  <2>4. /\ StepOf(p, k) /\ Rest(p) /\ damaged' = damaged /\ Answered(p, k, what)
        /\ proc'[p].pc = "idle" /\ "idle" \notin EditPcs /\ AtWork(p, k)'
      BY <1>8, <2>1, EndStep
  <2>5. k \notin damaged => Whole(k)'
      BY <1>8, <2>2 DEF Whole
  <2>6. k \notin damaged => Promised(p, k)
      BY <2>3, <2>4, <2>5 DEF Promised
  <2>7. k \notin damaged => Sound(k)'
    <3>1. Downloaded(k) => Complete(k)
        BY DEF Downloaded, Complete
    <3> QED BY <1>3, <1>8, <2>5, <3>1 DEF Sound
  <2> QED BY <1>2, <2>4, <2>6, <2>7, ChangeStep
<1> QED BY <1>4, <1>9, <1>10

-----------------------------------------------------------------------------
(* The steps of rmtree. *)

LEMMA RmFileStep == ASSUME IInv, NEW p \in Procs, NEW k \in Keys, K(p) = k, RmFile(p) PROVE IInv' /\ AbstractStep
<1>1. proc[p].pc = "rm" /\ UNCHANGED <<archive, toml>>
    BY DEF RmFile, At
<1>2. k \notin damaged => AtWork(p, k) /\ Alone(p, k)
    BY <1>1, AtPlace DEF PackagePcs, Readers
<1>3. k \notin damaged => /\ proc[p].todo = {f \in File : Tree(k).files[f] # "absent"} /\ Tree(k).exists
                          /\ Complete(k) /\ proc[p].after \in {"mkdir", "cleared"}
                          /\ proc[p].after = "mkdir" => Downloaded(k) /\ ~is_cached(k)
    BY <1>1, <1>2, PlacesNow DEF WorkPlaces
<1>4. PICK f \in proc[p].todo :
        IF Tree(k).files[f] = "absent" THEN End(p, "raised") /\ UNCHANGED tree
        ELSE /\ SetTree(k, [Tree(k) EXCEPT !.files[f] = "absent"])
             /\ proc' = [proc EXCEPT ![p].todo = @ \ {f}]
             /\ UNCHANGED <<ops, faults, damaged, answer>>
    BY DEF RmFile
<1>5. proc[p] \in Control /\ proc[p].todo \subseteq File /\ f \in File
    BY DEF IInv, ControlOK, Control
<1>6. Tree(k) \in Directory /\ (Tree(k).exists \/ Tree(k).files[f] = "absent")
    BY <1>5 DEF IInv, DiskOK, NoDirNoFiles, Tree, cached_package_dir
<1>7. CASE Tree(k).files[f] = "absent"
  <2>1. End(p, "raised") /\ UNCHANGED disk /\ "raised" \in Whats
      BY <1>1, <1>4, <1>7 DEF Whats, disk
  <2>2. k \in damaged
      BY <1>3, <1>7
  <2>3. StepOf(p, k) /\ Rest(p) /\ damaged' = damaged /\ proc'[p].pc = "idle" /\ "idle" \notin EditPcs
      BY <2>1, EndStep, DiskStays, DiskElsewhere
  <2> QED BY <2>2, <2>3, ChangeStep
<1>8. CASE Tree(k).files[f] # "absent"
  <2> DEFINE t == [Tree(k) EXCEPT !.files[f] = "absent"]
  <2>1. SetTree(k, t) /\ proc' = [proc EXCEPT ![p].todo = @ \ {f}] /\ UNCHANGED <<ops, faults, damaged, answer>>
      BY <1>4, <1>8
  <2>2. /\ t \in Directory /\ t.exists /\ t.files[f] = "absent"
        /\ \A g \in File \ {f} : t.files[g] = Tree(k).files[g]
      BY <1>5, <1>6, <1>8, WithFile
  <2> HIDE DEF t
  <2>3. /\ DiskOK' /\ NoDirNoFiles' /\ Elsewhere(k) /\ Tree(k)' = t
        /\ Downloaded(k)' = Downloaded(k) /\ Complete(k)' = Complete(k)
      BY <1>1, <2>1, <2>2, TreeStep
  <2>4. /\ proc'[p].pc = "rm" /\ proc'[p].after = proc[p].after /\ proc'[p].todo = proc[p].todo \ {f}
        /\ proc'[p].key = k /\ proc' \in [Procs -> Control] /\ OthersRest(p)
      BY <1>1, <1>5, <2>1 DEF IInv, ControlOK, Control, OthersRest, K
  <2>5. "rm" \notin EditPcs /\ "rm" \notin Readers /\ ControlOK'
      BY <2>1, <2>4 DEF EditPcs, Readers, IInv, ControlOK
  <2>6. StepOf(p, k) /\ Rest(p)
      BY <2>1, <2>3, <2>4, <2>5, Moved DEF Elsewhere, CounterAt
  <2>7. ~Whole(k)'
      BY <1>5, <2>2, <2>3 DEF Whole
  <2>8. Promised(p, k)
      BY <2>1, <2>7 DEF Promised
  <2>9. k \notin damaged => AtWork(p, k)'
    <3>1. k \notin damaged => proc'[p].todo = {g \in File : Tree(k)'.files[g] # "absent"}
        BY <1>3, <2>2, <2>3, <2>4
    <3>2. ~is_cached(k) => ~is_cached(k)'
        BY <1>5, <1>6, <1>8, <2>2, <2>3 DEF is_cached, File
    <3> QED BY <1>3, <2>2, <2>3, <2>4, <3>1, <3>2, PlacesNext DEF WorkPlaces
  <2> QED BY <1>2, <2>1, <2>4, <2>5, <2>6, <2>8, <2>9, ChangeStep
<1> QED BY <1>7, <1>8

LEMMA RmDirStep == ASSUME IInv, NEW p \in Procs, NEW k \in Keys, K(p) = k, RmDir(p) PROVE IInv' /\ AbstractStep
<1>1. proc[p].pc = "rm" /\ proc[p].todo = {} /\ UNCHANGED <<archive, toml>>
    BY DEF RmDir, At
<1>2. k \notin damaged => AtWork(p, k) /\ Alone(p, k)
    BY <1>1, AtPlace DEF PackagePcs, Readers
<1>3. k \notin damaged => /\ proc[p].todo = {f \in File : Tree(k).files[f] # "absent"} /\ Tree(k).exists
                          /\ Complete(k) /\ proc[p].after \in {"mkdir", "cleared"}
                          /\ proc[p].after = "mkdir" => Downloaded(k) /\ ~is_cached(k)
    BY <1>1, <1>2, PlacesNow DEF WorkPlaces
<1>4. Tree(k) \in Directory
    BY DEF IInv, DiskOK, Tree, cached_package_dir
<1>5. CASE ~(Tree(k).exists /\ \A f \in File : Tree(k).files[f] = "absent")
  <2>1. End(p, "raised") /\ UNCHANGED tree /\ "raised" \in Whats
      BY <1>5 DEF RmDir, Whats
  <2>2. k \in damaged
      BY <1>1, <1>3, <1>5
  <2>3. UNCHANGED disk
      BY <1>1, <2>1 DEF disk
  <2>4. StepOf(p, k) /\ Rest(p) /\ damaged' = damaged /\ proc'[p].pc = "idle" /\ "idle" \notin EditPcs
      BY <2>1, <2>3, EndStep, DiskStays, DiskElsewhere
  <2> QED BY <2>2, <2>4, ChangeStep
<1>6. CASE Tree(k).exists /\ \A f \in File : Tree(k).files[f] = "absent"
  <2> DEFINE t == [Tree(k) EXCEPT !.exists = FALSE]
  <2>1. SetTree(k, t) /\ IF proc[p].after = "mkdir" THEN Goto(p, "mkdir") ELSE End(p, "cleared")
      BY <1>6 DEF RmDir
  <2>2. t \in Directory /\ t.files = Tree(k).files /\ t.exists = FALSE
      BY <1>4, WithExists
  <2> HIDE DEF t
  <2>3. /\ DiskOK' /\ NoDirNoFiles' /\ Elsewhere(k) /\ Tree(k)' = t
        /\ Downloaded(k)' = Downloaded(k) /\ Complete(k)' = Complete(k)
      BY <1>1, <1>6, <2>1, <2>2, TreeStep
  <2>4. ~Whole(k) /\ ~Whole(k)' /\ FilesAre(k, "absent", "absent")' /\ ~is_cached(k)'
      BY <1>6, <2>2, <2>3 DEF Whole, FilesAre, is_cached, File
  <2>5. CASE proc[p].after = "mkdir"
    <3>1. Goto(p, "mkdir") /\ "mkdir" \in PackagePcs /\ "mkdir" \notin Readers
        BY <2>1, <2>5 DEF PackagePcs, Readers
    <3>2. /\ StepOf(p, k) /\ Rest(p) /\ damaged' = damaged /\ answer' = answer
          /\ proc'[p].pc = "mkdir" /\ proc'[p].pc \notin EditPcs
        BY <2>3, <3>1, GotoStep DEF CounterAt
    <3>3. Promised(p, k)
        BY <2>4, <3>2 DEF Promised
    <3>4. k \notin damaged => AtWork(p, k)'
        BY <1>3, <2>3, <2>4, <2>5, <3>2, PlacesNext DEF WorkPlaces
    <3> QED BY <1>2, <3>1, <3>2, <3>3, <3>4, ChangeStep
  <2>6. CASE proc[p].after # "mkdir"
    <3>1. End(p, "cleared") /\ "cleared" \in Whats
        BY <2>1, <2>6 DEF Whats
    <3>2. /\ StepOf(p, k) /\ Rest(p) /\ damaged' = damaged /\ Answered(p, k, "cleared")
          /\ proc'[p].pc = "idle" /\ "idle" \notin EditPcs /\ AtWork(p, k)'
        BY <2>3, <3>1, EndStep
    <3>3. Promised(p, k)
        BY <2>4, <3>2 DEF Promised
    <3>4. k \notin damaged => Sound(k)'
        BY <1>3, <2>3, <2>4 DEF Sound
    <3> QED BY <1>2, <3>2, <3>3, <3>4, ChangeStep
  <2> QED BY <2>5, <2>6
<1> QED BY <1>5, <1>6

-----------------------------------------------------------------------------
(* The steps of an import. *)

LEMMA AtLook ==
    ASSUME IInv, NEW p \in Procs, NEW k \in Keys, K(p) = k, proc[p].pc \in {"parse", "read"}, UNCHANGED disk,
           proc'[p].pc \in Readers, k \notin damaged
    PROVE  Reading(p, k) /\ AtWork(p, k) /\ is_cached(k) /\ Whole(k)
<1>1. proc[p].pc \in PackagePcs /\ proc[p].pc \in Readers
    BY DEF PackagePcs, Readers
<1>2. AtWork(p, k) /\ \A q \in Procs \ {p} : K(q) = k => proc[q].pc \in Readers
    BY <1>1, AtPlace
<1>3. is_cached(k)
    BY <1>2, PlacesNow DEF WorkPlaces
<1>4. Quiet(k)
    BY <1>1, <1>2 DEF Quiet
<1>5. Whole(k)
    BY <1>3, <1>4 DEF IInv, Packages, Sound
<1> QED BY <1>1, <1>2, <1>3, <1>5, StoreAssumption DEF Reading

LEMMA ParseManifestStep ==
    ASSUME IInv, NEW p \in Procs, NEW k \in Keys, K(p) = k, ParseManifest(p) PROVE IInv' /\ AbstractStep
<1>1. proc[p].pc = "parse" /\ UNCHANGED disk
    BY DEF ParseManifest, At
<1>2. /\ DiskOK' /\ NoDirNoFiles' /\ Elsewhere(k) /\ Whole(k)' = Whole(k) /\ is_cached(k)' = is_cached(k)
    BY <1>1, DiskStays, DiskElsewhere
<1>3. CASE Tree(k).files["toml"] # "whole" /\ End(p, "raised")
  <2>1. /\ StepOf(p, k) /\ Rest(p) /\ damaged' = damaged /\ proc'[p].pc = "idle"
      BY <1>2, <1>3, EndStep DEF Whats
  <2>2. proc'[p].pc \in Readers
      BY <2>1 DEF Readers
  <2>3. k \in damaged
      BY <1>1, <1>3, <2>2, AtLook DEF Whole, File
  <2> QED BY <2>1, <2>2, <2>3, LookStep
<1>4. ASSUME NEW n \in {0, 1}, GotoAt(p, "read", n), n = 1 => Tree(k).files["toml"] = "partial"
      PROVE  IInv' /\ AbstractStep
  <2>1. "read" \in PackagePcs /\ "read" \in Readers
      BY DEF PackagePcs, Readers
  <2>2. n \in 0 .. 3
      OBVIOUS
  <2>3. /\ StepOf(p, k) /\ Rest(p) /\ damaged' = damaged /\ answer' = answer
        /\ proc'[p].pc = "read" /\ proc'[p].n = n
      BY <1>2, <1>4, <2>1, <2>2, GotoAtStep DEF CounterAt
  <2>4. Promised(p, k)
      BY <1>2, <2>3 DEF Promised
  <2>5. k \notin damaged => Reading(p, k) /\ is_cached(k) /\ Whole(k)
      BY <1>1, <2>1, <2>3, AtLook
  <2>6. k \notin damaged => n = 0
      BY <1>4, <2>5 DEF Whole, File
  <2>7. k \notin damaged => AtWork(p, k)'
      BY <1>2, <2>3, <2>5, <2>6, PlacesNext DEF WorkPlaces
  <2> QED BY <2>1, <2>3, <2>4, <2>5, <2>7, LookStep
<1>5. \/ Tree(k).files["toml"] # "whole" /\ End(p, "raised")
      \/ \E n \in {0, 1} : GotoAt(p, "read", n) /\ (n = 1 => Tree(k).files["toml"] = "partial")
    BY DEF ParseManifest
<1> QED BY <1>3, <1>4, <1>5

LEMMA ReadSourceStep ==
    ASSUME IInv, NEW p \in Procs, NEW k \in Keys, K(p) = k, ReadSource(p) PROVE IInv' /\ AbstractStep
<1> DEFINE s == Tree(k).files["src"]
           what == IF s = "absent" THEN "raised" ELSE IF s = "whole" /\ proc[p].n = 0 THEN "package" ELSE "broken"
<1>1. proc[p].pc = "read" /\ UNCHANGED disk /\ End(p, what)
    BY DEF ReadSource, At
<1>2. /\ DiskOK' /\ NoDirNoFiles' /\ Elsewhere(k) /\ Whole(k)' = Whole(k)
    BY <1>1, DiskStays, DiskElsewhere
<1>3. what \in Whats
    BY DEF Whats
<1>4. s = "whole" /\ proc[p].n = 0 => what = "package"
    OBVIOUS
<1> HIDE DEF what
<1>5. /\ StepOf(p, k) /\ Rest(p) /\ damaged' = damaged /\ Answered(p, k, what)
      /\ proc'[p].pc = "idle" /\ AtWork(p, k)'
    BY <1>1, <1>2, <1>3, EndStep
<1>6. proc'[p].pc \in Readers
    BY <1>5 DEF Readers
<1>7. k \notin damaged => Reading(p, k) /\ AtWork(p, k) /\ Whole(k)
    BY <1>1, <1>6, AtLook
<1>8. k \notin damaged => proc[p].n = 0
    BY <1>1, <1>7, PlacesNow DEF WorkPlaces
<1>9. k \notin damaged => Promised(p, k)
    BY <1>2, <1>4, <1>5, <1>7, <1>8 DEF Promised, Whole, File
<1> QED BY <1>5, <1>6, <1>7, <1>9, LookStep

-----------------------------------------------------------------------------
(* The first steps of the commands. *)

LEMMA BeginStep ==
    ASSUME IInv, NEW p \in Procs, NEW k \in Keys, NEW pc \in {"idle", "archive", "rm", "parse"}, NEW what,
           pc = "idle" => what \in Whats, NEW changes, NEW todo \in SUBSET File,
           Begin(p, k, pc, what, changes, todo), UNCHANGED disk
    PROVE  /\ StepOf(p, k) /\ Rest(p) /\ proc'[p].pc = pc /\ proc'[p].todo = todo /\ pc \notin EditPcs
           /\ pc = "rm" => proc'[p].after = "cleared"
           /\ pc = "idle" => Answered(p, k, what)
           /\ pc # "idle" => answer' = answer
           /\ k \notin damaged' =>
                /\ damaged' = damaged /\ Sound(k)
                /\ changes => Alone(p, k)
                /\ pc \in Readers => Reading(p, k)
<1>0. k \in Keys \cup {Project} /\ ControlOK
    BY DEF IInv
<1>1. pc \in Pcs /\ pc \notin EditPcs /\ CounterAt(pc, proc'[p].n)
    BY DEF Pcs, PackagePcs, EditPcs, CounterAt
<1>2. pc = "idle" => [key |-> k, what |-> what] \in Answers
    BY DEF Answers, Whats
<1>3. /\ ControlOK' /\ OthersRest(p) /\ Idle(p)
      /\ Overlap(p, k, changes) => damaged' = damaged \cup {k}
      /\ ~Overlap(p, k, changes) => damaged' = damaged
      /\ proc'[p].pc = pc /\ proc'[p].key = k /\ proc'[p].todo = todo
      /\ pc = "rm" => proc'[p].after = "cleared"
    BY <1>0, <1>1, <1>2, BeginEffect
<1>6. (pc = "idle" => Answered(p, k, what)) /\ (pc # "idle" => answer' = answer)
    BY DEF Begin, Answered
<1>4. StepOf(p, k) /\ Rest(p)
    BY <1>1, <1>3, <1>6, Moved, DiskStays
<1>5. ASSUME k \notin damaged'
      PROVE  /\ damaged' = damaged /\ Sound(k)
             /\ changes => Alone(p, k)
             /\ pc \in Readers => Reading(p, k)
  <2>1. ~Overlap(p, k, changes) /\ damaged' = damaged
      BY <1>3, <1>5
  <2>2. \A q \in Procs \ {p} : K(q) = k => proc[q].pc \in Readers /\ (changes => Idle(q))
      BY <2>1 DEF Overlap, Idle, Readers
  <2>3. proc[p].pc \in Readers
      BY <1>3 DEF Idle, Readers
  <2>4. Quiet(k)
      BY <2>2, <2>3 DEF Quiet
  <2> QED BY <1>3, <1>5, <2>1, <2>2, <2>3, <2>4, StoreAssumption DEF IInv, Packages, Alone, Reading
<1> QED BY <1>1, <1>3, <1>4, <1>5, <1>6

LEMMA FetchPackageStep ==
    ASSUME IInv, NEW p \in Procs, NEW k \in Keys, FetchPackage(p, k) PROVE IInv' /\ AbstractStep
<1>1. UNCHANGED disk
    BY DEF FetchPackage
<1>2. Whole(k)' = Whole(k) /\ is_cached(k)' = is_cached(k) /\ Complete(k)' = Complete(k) /\ {} \in SUBSET File
    BY <1>1, DiskStays
<1>3. CASE is_cached(k)
  <2> DEFINE what == IF Whole(k) THEN "package" ELSE "broken"
  <2>1. Begin(p, k, "idle", what, FALSE, {}) /\ what \in Whats
      BY <1>3 DEF FetchPackage, Whats
  <2>2. Whole(k) => what = "package"
      OBVIOUS
  <2> HIDE DEF what
  <2>3. /\ StepOf(p, k) /\ Rest(p) /\ proc'[p].pc = "idle" /\ Answered(p, k, what)
        /\ k \notin damaged' => damaged' = damaged /\ Sound(k) /\ ("idle" \in Readers => Reading(p, k))
      BY <1>1, <1>2, <2>1, BeginStep
  <2>4. "idle" \in Readers /\ AtWork(p, k)'
      BY <2>3, PlacesNext DEF WorkPlaces, Readers
  <2>5. k \notin damaged' => Promised(p, k)
      BY <1>2, <1>3, <2>2, <2>3 DEF Promised, Sound
  <2> QED BY <2>3, <2>4, <2>5, LookStep
<1>4. CASE ~is_cached(k)
  <2>1. Begin(p, k, "archive", "", TRUE, {}) /\ "archive" \notin Readers
      BY <1>4 DEF FetchPackage, Readers
  <2>2. /\ StepOf(p, k) /\ Rest(p) /\ proc'[p].pc = "archive" /\ "archive" \notin EditPcs /\ answer' = answer
        /\ k \notin damaged' => damaged' = damaged /\ Sound(k) /\ Alone(p, k)
      BY <1>1, <1>2, <2>1, BeginStep
  <2>3. Promised(p, k)
      BY <1>2, <2>2 DEF Promised
  <2>4. k \notin damaged' => AtWork(p, k)'
      BY <1>2, <1>4, <2>2, PlacesNext DEF WorkPlaces, Sound
  <2> QED BY <2>1, <2>2, <2>3, <2>4, ChangeStep
<1> QED BY <1>3, <1>4

LEMMA ClearCacheStep ==
    ASSUME IInv, NEW p \in Procs, NEW k \in Keys, ClearCache(p, k) PROVE IInv' /\ AbstractStep
<1>1. UNCHANGED disk
    BY DEF ClearCache
<1>2. /\ Whole(k)' = Whole(k) /\ is_cached(k)' = is_cached(k) /\ Complete(k)' = Complete(k) /\ Sound(k)' = Sound(k)
      /\ Tree(k)' = Tree(k) /\ {} \in SUBSET File /\ TRUE \in BOOLEAN
    BY <1>1, DiskStays
<1>3. CASE Tree(k).exists
  <2> DEFINE todo == {f \in File : Tree(k).files[f] # "absent"}
  <2>1. Begin(p, k, "rm", "", TRUE, todo) /\ "rm" \notin Readers /\ todo \in SUBSET File
      BY <1>3 DEF ClearCache, Readers
  <2>2. todo = {f \in File : Tree(k)'.files[f] # "absent"}
      BY <1>2
  <2> HIDE DEF todo
  <2>3. /\ StepOf(p, k) /\ Rest(p) /\ proc'[p].pc = "rm" /\ proc'[p].todo = todo /\ "rm" \notin EditPcs
        /\ proc'[p].after = "cleared" /\ answer' = answer
        /\ k \notin damaged' => damaged' = damaged /\ Sound(k) /\ Alone(p, k)
      BY <1>1, <1>2, <2>1, BeginStep
  <2>4. Promised(p, k)
      BY <1>2, <2>3 DEF Promised
  <2>5. k \notin damaged' => AtWork(p, k)'
      BY <1>2, <1>3, <2>2, <2>3, PlacesNext DEF WorkPlaces, Sound
  <2> QED BY <2>1, <2>3, <2>4, <2>5, ChangeStep
<1>4. CASE ~Tree(k).exists
  <2>1. Begin(p, k, "idle", "cleared", TRUE, {}) /\ "cleared" \in Whats
      BY <1>4 DEF ClearCache, Whats
  <2>2. /\ StepOf(p, k) /\ Rest(p) /\ proc'[p].pc = "idle" /\ "idle" \notin EditPcs /\ Answered(p, k, "cleared")
        /\ k \notin damaged' => damaged' = damaged /\ Sound(k) /\ Alone(p, k)
      BY <1>1, <1>2, <2>1, BeginStep
  <2>3. ~Whole(k)
      BY <1>4, WholeIsCached DEF is_cached
  <2>4. Promised(p, k) /\ AtWork(p, k)'
      BY <1>2, <2>2, <2>3, PlacesNext DEF WorkPlaces, Promised
  <2> QED BY <1>2, <2>2, <2>4, ChangeStep
<1> QED BY <1>3, <1>4

LEMMA LoadPackageStep ==
    ASSUME IInv, NEW p \in Procs, NEW k \in Keys, LoadPackage(p, k) PROVE IInv' /\ AbstractStep
<1>1. UNCHANGED disk
    BY DEF LoadPackage
<1>2. Whole(k)' = Whole(k) /\ is_cached(k)' = is_cached(k) /\ {} \in SUBSET File
    BY <1>1, DiskStays
<1>3. CASE is_cached(k)
  <2>1. Begin(p, k, "parse", "", FALSE, {}) /\ "parse" \in Readers
      BY <1>3 DEF LoadPackage, Readers
  <2>2. /\ StepOf(p, k) /\ Rest(p) /\ proc'[p].pc = "parse" /\ answer' = answer
        /\ k \notin damaged' => damaged' = damaged /\ Reading(p, k)
      BY <1>1, <1>2, <2>1, BeginStep
  <2>3. Promised(p, k) /\ AtWork(p, k)'
      BY <1>2, <1>3, <2>2, PlacesNext DEF WorkPlaces, Promised
  <2> QED BY <2>1, <2>2, <2>3, LookStep
<1>4. CASE ~is_cached(k)
  <2>1. Begin(p, k, "idle", "not cached", FALSE, {}) /\ "not cached" \in Whats /\ "idle" \in Readers
      BY <1>4 DEF LoadPackage, Whats, Readers
  <2>2. /\ StepOf(p, k) /\ Rest(p) /\ proc'[p].pc = "idle" /\ Answered(p, k, "not cached")
        /\ k \notin damaged' => damaged' = damaged /\ Reading(p, k)
      BY <1>1, <1>2, <2>1, BeginStep
  <2>3. ~Whole(k)
      BY <1>4, WholeIsCached
  <2>4. Promised(p, k) /\ AtWork(p, k)'
      BY <1>2, <2>2, <2>3, PlacesNext DEF WorkPlaces, Promised
  <2> QED BY <2>1, <2>2, <2>4, LookStep
<1> QED BY <1>3, <1>4

LEMMA PkgVerifyStep ==
    ASSUME IInv, NEW p \in Procs, NEW k \in Keys, PkgVerify(p, k) PROVE IInv' /\ AbstractStep
<1> DEFINE what == IF ~is_cached(k) THEN "not cached" ELSE IF verify_package(k) THEN "package" ELSE "broken"
<1>1. UNCHANGED disk /\ Begin(p, k, "idle", what, FALSE, {}) /\ what \in Whats /\ "idle" \in Readers
    BY DEF PkgVerify, Whats, Readers
<1>2. Whole(k)' = Whole(k) /\ {} \in SUBSET File
    BY <1>1, DiskStays
<1>3. is_cached(k) /\ Whole(k) => what = "package"
    BY DEF verify_package, Whole, File
<1>4. ~is_cached(k) => what = "not cached"
    OBVIOUS
<1> HIDE DEF what
<1>5. /\ StepOf(p, k) /\ Rest(p) /\ proc'[p].pc = "idle" /\ Answered(p, k, what)
      /\ k \notin damaged' => damaged' = damaged /\ Sound(k) /\ Reading(p, k)
    BY <1>1, <1>2, BeginStep
<1>6. AtWork(p, k)'
    BY <1>5, PlacesNext DEF WorkPlaces
<1>7. ~is_cached(k) => ~Whole(k)
    BY WholeIsCached
<1>8. k \notin damaged' => Promised(p, k)
    BY <1>2, <1>3, <1>4, <1>5, <1>7 DEF Promised, Sound
<1> QED BY <1>1, <1>5, <1>6, <1>8, LookStep

-----------------------------------------------------------------------------
(* The commands that edit qy.toml. *)

LEMMA ProjectMoved ==
    ASSUME IInv, NEW p \in Procs, OthersRest(p), ControlOK', toml' \in Manifests, UNCHANGED <<archive, tree>>,
           damaged' = damaged \/ damaged' = damaged \cup {Project},
           proc'[p].key = Project, proc'[p].pc \in EditPcs \cup {"idle"}, Idle(p) \/ K(p) = Project,
           proc'[p].pc \in EditPcs => OneDependency(p)',
           answer' = answer \/ \E what : Answered(p, Project, what)
    PROVE  StepOf(p, Project) /\ Rest(p)
<1>1. answer'[p] # answer[p] => answer'[p].key = Project
    BY DEF IInv, ControlOK, Answered
<1>2. DiskOK' /\ NoDirNoFiles'
    BY DEF IInv, DiskOK, NoDirNoFiles, Tree, cached_package_dir
<1>3. CounterAt(proc'[p].pc, proc'[p].n) /\ proc'[p].pc \notin PackagePcs
    BY DEF CounterAt, EditPcs, PackagePcs
<1> QED BY <1>1, <1>2, <1>3 DEF StepOf, Rest

\* A process alone at the project sees the manifest that a reader sees.
LEMMA VisibleAlone ==
    ASSUME IInv, NEW p \in Procs, Alone(p, Project), StepOf(p, Project)
    PROVE  /\ Visible = IF At(p, "write") THEN proc[p].old ELSE toml
           /\ Visible' = IF At(p, "write")' THEN proc'[p].old ELSE toml'
<1>1. \A q \in Procs \ {p} : ~At(q, "write") /\ ~At(q, "write")'
  <2> SUFFICES ASSUME NEW q \in Procs \ {p}, At(q, "write") PROVE FALSE
      BY DEF StepOf, OthersRest, At
  <2>1. K(q) = Project /\ ~Idle(q)
      BY DEF IInv, KeyOfCommand, At, EditPcs, Idle
  <2> QED BY <2>1 DEF Alone
<1>2. Writers = (IF At(p, "write") THEN {p} ELSE {}) /\ Writers' = (IF At(p, "write")' THEN {p} ELSE {})
    BY <1>1 DEF Writers
<1>3. (CHOOSE q \in {p} : TRUE) = p /\ {p} # {}
    OBVIOUS
<1> QED BY <1>2, <1>3 DEF Visible

\* The steps PackageSpec has for qy.toml.
PromisedEdit(p) ==
    \/ Visible' = Visible /\ (answer' = answer \/ Answered(p, Project, "refused"))
    \/ /\ Answered(p, Project, "edited")
       /\ \E d \in Deps, v \in Versions \cup {0} : Visible' = NewManifest(Visible, d, v)

LEMMA EditStep ==
    ASSUME IInv, NEW p \in Procs, StepOf(p, Project), Rest(p),
           Project \notin damaged' =>
             /\ Alone(p, Project) /\ PromisedEdit(p)
             /\ proc'[p].pc \in EditPcs => FileOfEdit(p)'
    PROVE  IInv' /\ AbstractStep
<1>1. IInv'
    BY AloneStep, StoreAssumption
<1>2. CASE Project \in damaged'
    BY <1>1, <1>2, DamagedStep
<1>3. ASSUME Project \notin damaged' PROVE AbstractStep
  <2> DEFINE cached == {j \in Keys : Whole(j)}
  <2>1. cached' = cached /\ damaged' = damaged
      BY <1>3, CachedSame, StoreAssumption DEF StepOf
  <2>2. CASE Visible' = Visible /\ answer' = answer
      BY <2>1, <2>2 DEF AbstractStep
  <2>3. CASE Visible' = Visible /\ Answered(p, Project, "refused")
    <3>1. Abstract!Refuse(p)
        BY <2>1, <2>3 DEF Abstract!Refuse, Abstract!Answer, Answered
    <3> QED BY <3>1 DEF AbstractStep, Abstract!Next
  <2>4. ASSUME Answered(p, Project, "edited"), NEW d \in Deps, NEW v \in Versions \cup {0},
               Visible' = NewManifest(Visible, d, v)
        PROVE  AbstractStep
    <3>1. Abstract!Edit(p, d, v)
        BY <2>1, <2>4 DEF Abstract!Edit, Abstract!Answer, Answered, NewManifest
    <3> QED BY <3>1 DEF AbstractStep, Abstract!Next
  <2> QED BY <1>3, <2>2, <2>3, <2>4 DEF PromisedEdit
<1> QED BY <1>1, <1>2, <1>3

LEMMA AtEdit ==
    ASSUME IInv, NEW p \in Procs, proc[p].pc \in EditPcs
    PROVE  /\ K(p) = Project /\ ~Idle(p) /\ OneDependency(p)
           /\ Project \notin damaged => FileOfEdit(p) /\ Alone(p, Project)
<1>1. K(p) = Project /\ ~Idle(p) /\ proc[p].pc \notin Readers
    BY DEF IInv, KeyOfCommand, Idle, EditPcs, Readers
<1>2. OneDependency(p) /\ (Project \notin damaged => FileOfEdit(p))
    BY DEF IInv, Edits
<1>3. Project \notin damaged => Alone(p, Project)
    BY <1>1 DEF IInv, Exclusive, Alone
<1> QED BY <1>1, <1>2, <1>3

LEMMA EditLoadStep ==
    ASSUME IInv, NEW p \in Procs, NEW d \in Deps, NEW v \in Versions \cup {0}, EditLoad(p, d, v)
    PROVE  IInv' /\ AbstractStep
<1>1. UNCHANGED <<archive, tree, toml>> /\ answer' = answer /\ toml \in Manifests
    BY DEF EditLoad, disk, IInv, DiskOK
<1>2. /\ ControlOK' /\ OthersRest(p) /\ Idle(p)
      /\ damaged' = IF Overlap(p, Project, TRUE) THEN damaged \cup {Project} ELSE damaged
      /\ proc'[p].pc = "truncate" /\ proc'[p].key = Project
      /\ proc'[p].new = NewManifest(toml, d, v) /\ proc'[p].old = toml
    BY EditLoadEffect DEF IInv
<1>3. OneDependency(p)'
    BY <1>2 DEF OneDependency
<1>4. StepOf(p, Project) /\ Rest(p)
    BY <1>1, <1>2, <1>3, ProjectMoved DEF EditPcs
<1>5. ASSUME Project \notin damaged' PROVE Alone(p, Project) /\ PromisedEdit(p) /\ FileOfEdit(p)'
  <2>1. Alone(p, Project)
      BY <1>2, <1>5 DEF Overlap, Alone
  <2>2. ~At(p, "write") /\ ~At(p, "write")'
      BY <1>2 DEF At, Idle
  <2>3. Visible' = Visible
      BY <1>1, <1>4, <2>1, <2>2, VisibleAlone
  <2>4. FileOfEdit(p)'
      BY <1>1, <1>2 DEF FileOfEdit, At
  <2> QED BY <1>1, <2>1, <2>3, <2>4 DEF PromisedEdit
<1> QED BY <1>4, <1>5, EditStep

LEMMA PkgRefuseStep ==
    ASSUME IInv, NEW p \in Procs, NEW d \in Deps, PkgRefuse(p, d)
    PROVE  IInv' /\ AbstractStep
<1>1. Begin(p, Project, "idle", "refused", FALSE, {}) /\ UNCHANGED <<archive, tree, toml>> /\ toml \in Manifests
    BY DEF PkgRefuse, disk, IInv, DiskOK
<1>2. [key |-> Project, what |-> "refused"] \in Answers /\ {} \in SUBSET File /\ "idle" \in Pcs /\ ControlOK
      /\ Project \in Keys \cup {Project}
    BY DEF Answers, Pcs, IInv
<1>3. /\ ControlOK' /\ OthersRest(p) /\ Idle(p)
      /\ Overlap(p, Project, FALSE) => damaged' = damaged \cup {Project}
      /\ ~Overlap(p, Project, FALSE) => damaged' = damaged
      /\ proc'[p].pc = "idle" /\ proc'[p].key = Project
    BY <1>1, <1>2, BeginEffect
<1>4. Answered(p, Project, "refused")
    BY <1>1 DEF Begin, Answered
<1>5. StepOf(p, Project) /\ Rest(p) /\ "idle" \notin EditPcs
    BY <1>1, <1>3, <1>4, ProjectMoved DEF EditPcs
<1>6. ASSUME Project \notin damaged' PROVE Alone(p, Project) /\ PromisedEdit(p)
  <2>1. ASSUME NEW q \in Procs \ {p}, K(q) = Project PROVE Idle(q)
    <3>1. ~Overlap(p, Project, FALSE)
        BY <1>3, <1>6
    <3>2. ~Idle(q) => proc[q].pc \in Readers
        BY <2>1, <3>1 DEF Overlap
    <3>3. proc[q].pc \notin PackagePcs /\ q \in Procs
        BY <2>1, StoreAssumption DEF IInv, KeyOfCommand
    <3> QED BY <3>2, <3>3 DEF Readers, PackagePcs, Idle
  <2>2. Alone(p, Project)
      BY <2>1 DEF Alone
  <2>3. ~At(p, "write") /\ ~At(p, "write")'
      BY <1>3 DEF At, Idle
  <2>4. Visible' = Visible
      BY <1>1, <1>5, <2>2, <2>3, VisibleAlone
  <2> QED BY <1>4, <2>2, <2>4 DEF PromisedEdit
<1> QED BY <1>3, <1>5, <1>6, EditStep

LEMMA EditTruncateStep == ASSUME IInv, NEW p \in Procs, EditTruncate(p) PROVE IInv' /\ AbstractStep
<1>1. proc[p].pc = "truncate" /\ toml' = NoManifest /\ Goto(p, "write") /\ UNCHANGED <<archive, tree>>
    BY DEF EditTruncate, At
<1>2. /\ K(p) = Project /\ ~Idle(p) /\ OneDependency(p)
      /\ Project \notin damaged => FileOfEdit(p) /\ Alone(p, Project)
    BY <1>1, AtEdit DEF EditPcs
<1>3. "write" \in Pcs /\ NoManifest \in Manifests
    BY DEF Pcs, EditPcs, NoManifest, Manifests
<1>4. /\ ControlOK' /\ OthersRest(p) /\ damaged' = damaged /\ answer' = answer
      /\ proc'[p].pc = "write" /\ proc'[p].key = Project /\ proc'[p].new = proc[p].new /\ proc'[p].old = proc[p].old
    BY <1>1, <1>2, <1>3, GotoEffect DEF IInv
<1>5. OneDependency(p)'
    BY <1>2, <1>4 DEF OneDependency
<1>6. StepOf(p, Project) /\ Rest(p)
    BY <1>1, <1>2, <1>3, <1>4, <1>5, ProjectMoved DEF EditPcs
<1>7. ASSUME Project \notin damaged' PROVE Alone(p, Project) /\ PromisedEdit(p) /\ FileOfEdit(p)'
  <2>1. toml = proc[p].old /\ Alone(p, Project)
      BY <1>1, <1>2, <1>4, <1>7 DEF FileOfEdit, At
  <2>2. Visible = toml /\ Visible' = proc'[p].old
      BY <1>1, <1>4, <1>6, <2>1, VisibleAlone DEF At
  <2>3. FileOfEdit(p)'
      BY <1>1, <1>4 DEF FileOfEdit, At
  <2> QED BY <1>4, <2>1, <2>2, <2>3 DEF PromisedEdit
<1> QED BY <1>6, <1>7, EditStep

LEMMA EditWriteStep == ASSUME IInv, NEW p \in Procs, EditWrite(p) PROVE IInv' /\ AbstractStep
<1>1. proc[p].pc = "write" /\ toml' = proc[p].new /\ End(p, "edited") /\ UNCHANGED <<archive, tree>>
    BY DEF EditWrite, At
<1>2. /\ K(p) = Project /\ ~Idle(p) /\ OneDependency(p)
      /\ Project \notin damaged => FileOfEdit(p) /\ Alone(p, Project)
    BY <1>1, AtEdit DEF EditPcs
<1>3. [key |-> Project, what |-> "edited"] \in Answers /\ proc[p].new \in Manifests
    BY DEF Answers, IInv, ControlOK, Control
<1>4. /\ ControlOK' /\ OthersRest(p) /\ damaged' = damaged /\ Answered(p, Project, "edited")
      /\ proc'[p].pc = "idle" /\ proc'[p].key = Project
    BY <1>1, <1>2, <1>3, EndEffect DEF IInv, Answered
<1>5. StepOf(p, Project) /\ Rest(p) /\ "idle" \notin EditPcs
    BY <1>1, <1>2, <1>3, <1>4, ProjectMoved DEF EditPcs
<1>6. ASSUME Project \notin damaged' PROVE Alone(p, Project) /\ PromisedEdit(p)
  <2>1. Alone(p, Project)
      BY <1>2, <1>4, <1>6
  <2>2. Visible = proc[p].old /\ Visible' = proc[p].new
      BY <1>1, <1>4, <1>5, <2>1, VisibleAlone DEF At
  <2> QED BY <1>2, <1>4, <2>1, <2>2 DEF PromisedEdit, OneDependency
<1> QED BY <1>4, <1>5, <1>6, EditStep

-----------------------------------------------------------------------------
(* A process or a connection dies. *)

LEMMA DieAtProject ==
    ASSUME IInv, NEW p \in Procs, K(p) = Project, ~Idle(p), Die(p, "")
    PROVE  IInv' /\ AbstractStep
<1>0. ControlOK /\ ("" # "" => [key |-> K(p), what |-> ""] \in Answers)
    BY DEF IInv
<1>7. /\ ControlOK' /\ OthersRest(p)
      /\ InPieces(K(p)) => damaged' = damaged \cup {K(p)}
      /\ ~InPieces(K(p)) => damaged' = damaged
      /\ proc'[p].pc = "idle" /\ proc'[p].key = K(p)
    BY <1>0, DieEffect
<1>8. answer' = answer
    BY DEF Die, IInv, ControlOK
<1>1. /\ ControlOK' /\ OthersRest(p) /\ answer' = answer
      /\ damaged' = damaged \/ damaged' = damaged \cup {Project}
      /\ Project \notin damaged' => Project \notin damaged /\ ~InPieces(Project)
      /\ proc'[p].pc = "idle" /\ proc'[p].key = Project
    BY <1>7, <1>8
<1>2. UNCHANGED <<archive, tree, toml>> /\ toml \in Manifests
    BY DEF Die, disk, IInv, DiskOK
<1>3. proc[p].pc \in EditPcs
    BY StoreAssumption DEF IInv, ControlOK, Control, KeyOfCommand, Pcs, Idle
<1>4. Project \notin damaged => FileOfEdit(p) /\ Alone(p, Project)
    BY <1>3, AtEdit
<1>5. StepOf(p, Project) /\ Rest(p) /\ "idle" \notin EditPcs
    BY <1>1, <1>2, ProjectMoved DEF EditPcs
<1>6. ASSUME Project \notin damaged' PROVE Alone(p, Project) /\ PromisedEdit(p)
  <2>1. Project \notin damaged /\ toml # NoManifest
      BY <1>1, <1>6 DEF InPieces
  <2>2. At(p, "truncate") /\ Alone(p, Project)
      BY <1>4, <2>1 DEF FileOfEdit
  <2>3. Visible' = Visible
      BY <1>1, <1>2, <1>5, <2>2, VisibleAlone DEF At
  <2> QED BY <1>1, <2>2, <2>3 DEF PromisedEdit
<1> QED BY <1>1, <1>5, <1>6, EditStep

LEMMA BelowThree == \A n \in 1 .. 3 : \A i \in 1 .. n - 1 : i = 1 \/ i = 2
<1> SUFFICES ASSUME NEW n \in 1 .. 3, NEW i \in 1 .. n - 1 PROVE i = 1 \/ i = 2
    OBVIOUS
<1>1. n \in Int /\ i \in Int /\ 1 <= i /\ i <= n - 1 /\ n <= 3
    OBVIOUS
<1>2. i < 3
    BY <1>1
<1> QED BY <1>1, <1>2

LEMMA DieAtPackage ==
    ASSUME IInv, NEW p \in Procs, NEW k \in Keys, K(p) = k, ~Idle(p), NEW what \in {"", "raised"}, Die(p, what),
           what = "raised" => At(p, "copy")
    PROVE  IInv' /\ AbstractStep
<1>1. ControlOK /\ (what # "" => [key |-> K(p), what |-> what] \in Answers)
    BY DEF Answers, IInv
<1>11. /\ ControlOK' /\ OthersRest(p)
       /\ InPieces(K(p)) => damaged' = damaged \cup {K(p)}
       /\ ~InPieces(K(p)) => damaged' = damaged
       /\ proc'[p].pc = "idle" /\ proc'[p].key = K(p)
    BY <1>1, DieEffect
<1>12. UNCHANGED disk
    BY DEF Die
<1>13. /\ damaged' = damaged \/ damaged' = damaged \cup {k}
       /\ k \notin damaged' => k \notin damaged /\ ~InPieces(k)
    BY <1>11
<1>2. /\ ControlOK' /\ OthersRest(p) /\ UNCHANGED disk
      /\ damaged' = damaged \/ damaged' = damaged \cup {k}
      /\ k \notin damaged' => k \notin damaged /\ ~InPieces(k)
      /\ proc'[p].pc = "idle" /\ proc'[p].key = k
    BY <1>11, <1>12, <1>13
<1>3. answer' = answer \/ Answered(p, k, "raised")
    BY DEF Die, Answered, IInv, ControlOK
<1>4. what = "" => answer' = answer
    BY DEF Die, IInv, ControlOK
<1>5. StepOf(p, k) /\ Rest(p) /\ "idle" \notin EditPcs /\ "idle" \in Readers
    BY <1>2, <1>3, Moved, DiskStays DEF EditPcs, CounterAt, Readers
<1>6. proc[p].pc \in PackagePcs
    BY StoreAssumption DEF IInv, ControlOK, Control, KeyOfCommand, Pcs, Idle
<1>7. AtWork(p, k)'
    BY <1>2, PlacesNext DEF WorkPlaces
<1>8. ASSUME k \notin damaged' PROVE k \notin damaged /\ Sound(k)' /\ Promised(p, k)
  <2>1. k \notin damaged /\ ~InPieces(k)
      BY <1>2, <1>8
  <2>2. Sound(k) /\ Complete(k)
      BY <2>1, StoreAssumption DEF InPieces, Sound, Complete
  <2>3. what # "raised"
    <3> SUFFICES ASSUME At(p, "copy") PROVE FALSE
        OBVIOUS
    <3>1. archive[k].exists /\ proc[p].n \in 1 .. 3 /\ archive[k].chunks = {ChunkAt[i] : i \in 1 .. proc[p].n - 1}
        BY <1>6, <2>1, AtPlace DEF AtWork
    <3>2. "index" \in {ChunkAt[i] : i \in 1 .. proc[p].n - 1}
        BY <2>2, <3>1 DEF Complete, Chunks
    <3>3. PICK i \in 1 .. proc[p].n - 1 : ChunkAt[i] = "index"
        BY <3>2
    <3>5. i = 1 \/ i = 2
        BY <3>1, BelowThree
    <3>6. ChunkAt[1] = "toml" /\ ChunkAt[2] = "src"
        BY DEF ChunkAt
    <3> QED BY <3>3, <3>5, <3>6
  <2>4. answer' = answer
      BY <1>4, <2>3
  <2> QED BY <1>2, <2>1, <2>2, <2>4, DiskStays DEF Promised
<1>9. CASE proc[p].pc \in Readers
  <2>1. k \notin damaged' => Reading(p, k)
      BY <1>2, <1>5, <1>6, <1>8, <1>9, AtPlace, StoreAssumption DEF Reading
  <2> QED BY <1>2, <1>5, <1>7, <1>8, <2>1, LookStep
<1>10. CASE proc[p].pc \notin Readers
  <2>1. k \notin damaged' => Alone(p, k)
      BY <1>6, <1>8, <1>10, AtPlace
  <2> QED BY <1>2, <1>5, <1>7, <1>8, <2>1, ChangeStep
<1> QED BY <1>9, <1>10

LEMMA CrashStep == ASSUME IInv, NEW p \in Procs, Crash(p) PROVE IInv' /\ AbstractStep
<1>1. K(p) \in Keys \cup {Project} /\ ~Idle(p) /\ Die(p, "")
    BY DEF Crash, IInv, ControlOK, Control, K
<1> QED BY <1>1, DieAtProject, DieAtPackage

LEMMA DownloadDropsStep == ASSUME IInv, NEW p \in Procs, DownloadDrops(p) PROVE IInv' /\ AbstractStep
<1>1. At(p, "copy") /\ Die(p, "raised")
    BY DEF DownloadDrops
<1>2. K(p) \in Keys /\ ~Idle(p)
    BY <1>1, AtPlace DEF At, PackagePcs
<1> QED BY <1>1, <1>2, DieAtPackage

-----------------------------------------------------------------------------
(* The store implements PackageSpec. *)

LEMMA InitIInv == Init => IInv /\ Abstract!Init
<1> SUFFICES ASSUME Init PROVE IInv /\ Abstract!Init
    OBVIOUS
<1>1. proc = [p \in Procs |-> Stopped(Project)]
    BY DEF Init
<1>2. \A p \in Procs : proc[p] = Stopped(Project)
    BY <1>1
<1>3. \A p \in Procs : proc[p].pc = "idle" /\ K(p) = Project
    BY <1>2, StoppedFields DEF K
<1>4. DiskOK
  <2>1. toml \in Manifests
      BY DEF Init, Manifests
  <2>2. [k \in Keys |-> [exists |-> FALSE, chunks |-> {}]] \in [Keys -> Archive]
      BY DEF Archive
  <2>3. [k \in Keys |-> [exists |-> FALSE, files |-> [f \in File |-> "absent"]]] \in [Keys -> Directory]
      BY DEF Directory
  <2> QED BY <2>1, <2>2, <2>3 DEF Init, DiskOK
<1>5. ControlOK
  <2>1. proc \in [Procs -> Control]
      BY <1>1, StoppedInControl
  <2>2. [key |-> Project, what |-> "none"] \in Answers
      BY DEF Answers
  <2>3. answer \in [Procs -> Answers]
      BY <2>2 DEF Init
  <2>4. 0 \in 0 .. MaxOps /\ 0 \in 0 .. MaxFaults
      BY Bounds
  <2> QED BY <2>1, <2>3, <2>4 DEF Init, ControlOK
<1>6. \A k \in Keys : ~archive[k].exists /\ ~Tree(k).exists /\ \A f \in File : Tree(k).files[f] = "absent"
    BY DEF Init, Tree, cached_package_dir
<1>7. KeyOfCommand /\ Counters /\ Exclusive /\ Edits
    BY <1>3 DEF KeyOfCommand, Counters, CounterAt, Exclusive, Edits, Idle, EditPcs, PackagePcs
<1>8. NoDirNoFiles
    BY <1>6 DEF NoDirNoFiles
<1>9. Packages
  <2>1. \A k \in Keys : Sound(k)
      BY <1>6 DEF Sound, Complete, is_cached
  <2>2. \A p \in Procs, k \in Keys : AtWork(p, k)
      BY <1>3, PlacesNow DEF WorkPlaces
  <2> QED BY <2>1, <2>2 DEF Packages
<1>10. {k \in Keys : Whole(k)} = {}
  <2>1. "toml" \in File /\ "absent" # "whole"
      BY DEF File
  <2> QED BY <1>6, <2>1 DEF Whole
<1>11. Visible = toml
  <2>1. Writers = {}
      BY <1>3 DEF Writers, At
  <2> QED BY <2>1 DEF Visible
<1>12. Abstract!Init
    BY <1>10, <1>11 DEF Abstract!Init, Init
<1> QED BY <1>4, <1>5, <1>7, <1>8, <1>9, <1>12 DEF IInv

LEMMA StutterIInv == ASSUME IInv, UNCHANGED vars PROVE IInv'
<1> USE DEF vars
<1>1. DiskOK' /\ ControlOK' /\ NoDirNoFiles'
    BY DEF IInv, DiskOK, ControlOK, NoDirNoFiles, Tree
<1>2. KeyOfCommand' /\ Counters' /\ Exclusive'
    BY DEF IInv, KeyOfCommand, Counters, Exclusive, K, Idle
<1>3. Edits'
    BY DEF IInv, Edits, OneDependency, FileOfEdit, At
<1>4. Packages'
  <2> SUFFICES ASSUME NEW k \in Keys \ damaged'
               PROVE  (Quiet(k)' => Sound(k)') /\ \A p \in Procs : K(p)' = k => AtWork(p, k)'
      BY DEF Packages
  <2>1. (Quiet(k) => Sound(k)) /\ \A p \in Procs : K(p) = k => AtWork(p, k)
      BY DEF IInv, Packages
  <2>2. Quiet(k)' = Quiet(k) /\ Sound(k)' = Sound(k)
      BY DEF Quiet, Sound, Complete, is_cached, Whole, Tree, K
  <2>3. ASSUME NEW p \in Procs, K(p)' = k PROVE AtWork(p, k)'
    <3>1. AtWork(p, k)
        BY <2>1, <2>3 DEF K
    <3> QED BY <3>1 DEF AtWork, At, Complete, Downloaded, FilesAre, is_cached, Tree
  <2> QED BY <2>1, <2>2, <2>3
<1> QED BY <1>1, <1>2, <1>3, <1>4 DEF IInv

LEMMA StutterAbstract == ASSUME UNCHANGED vars PROVE AbstractStep
<1>1. {k \in Keys : Whole(k)}' = {k \in Keys : Whole(k)}
    BY DEF vars, Whole, Tree
<1>2. Visible' = Visible
    BY DEF vars, Visible, Writers, At
<1> QED BY <1>1, <1>2 DEF vars, AbstractStep

\* A step inside a command is at the project or at a package.
LEMMA StepStep == ASSUME IInv, NEW p \in Procs, Step(p) PROVE IInv' /\ AbstractStep
<1>1. CASE EditTruncate(p) \/ EditWrite(p)
    BY <1>1, EditTruncateStep, EditWriteStep
<1>2. CASE ~(EditTruncate(p) \/ EditWrite(p))
  <2>1. proc[p].pc \in PackagePcs
      BY <1>2 DEF Step, At, PackagePcs, DownloadCheck, DownloadFails, DownloadOpen, DownloadCopy,
                  CacheTarget, Mkdir, OpenZip, Extract, Fill, RmFile, RmDir, ParseManifest, ReadSource
  <2>2. PICK k \in Keys : K(p) = k
      BY <2>1 DEF IInv, KeyOfCommand
  <2> QED BY <1>2, <2>2, DownloadCheckStep, DownloadFailsStep, DownloadOpenStep, DownloadCopyStep,
             CacheTargetStep, MkdirStep, OpenZipStep, ExtractStep, FillStep, RmFileStep, RmDirStep,
             ParseManifestStep, ReadSourceStep DEF Step
<1> QED BY <1>1, <1>2

LEMMA NextStep == ASSUME IInv, [Next]_vars PROVE IInv' /\ AbstractStep
<1>1. CASE UNCHANGED vars
    BY <1>1, StutterIInv, StutterAbstract
<1>2. CASE Next
  <2>1. PICK p \in Procs :
            \/ Step(p) \/ Crash(p) \/ DownloadDrops(p)
            \/ \E k \in Keys : FetchPackage(p, k) \/ ClearCache(p, k) \/ LoadPackage(p, k) \/ PkgVerify(p, k)
            \/ \E d \in Deps : PkgRemove(p, d) \/ PkgRefuse(p, d)
            \/ \E d \in Deps, v \in Versions : PkgAdd(p, d, v) \/ PkgUpdate(p, d, v)
      BY <1>2 DEF Next
  <2>2. CASE Step(p) \/ Crash(p) \/ DownloadDrops(p)
      BY <2>2, StepStep, CrashStep, DownloadDropsStep
  <2>3. CASE \E k \in Keys : FetchPackage(p, k) \/ ClearCache(p, k) \/ LoadPackage(p, k) \/ PkgVerify(p, k)
      BY <2>3, FetchPackageStep, ClearCacheStep, LoadPackageStep, PkgVerifyStep
  <2>4. CASE \E d \in Deps : PkgRemove(p, d) \/ PkgRefuse(p, d)
    <3>1. PICK d \in Deps : EditLoad(p, d, 0) \/ PkgRefuse(p, d)
        BY <2>4 DEF PkgRemove
    <3> QED BY <3>1, EditLoadStep, PkgRefuseStep
  <2>5. CASE \E d \in Deps, v \in Versions : PkgAdd(p, d, v) \/ PkgUpdate(p, d, v)
    <3>1. PICK d \in Deps, v \in Versions : EditLoad(p, d, v)
        BY <2>5 DEF PkgAdd, PkgUpdate
    <3> QED BY <3>1, EditLoadStep
  <2> QED BY <2>1, <2>2, <2>3, <2>4, <2>5
<1> QED BY <1>1, <1>2

LEMMA TypesHold == IInv => TypeOK
<1> SUFFICES ASSUME IInv PROVE TypeOK
    OBVIOUS
<1>1. DiskOK /\ ControlOK
    BY DEF IInv
<1>2. \A p \in Procs : proc[p].key \in Keys \cup {Project} /\ proc[p].todo \subseteq File
    BY <1>1 DEF ControlOK, Control
<1> QED BY <1>1, <1>2 DEF TypeOK, DiskOK, ControlOK, Archive, Directory, Manifests

LEMMA AlwaysIInv == Spec => []IInv
BY InitIInv, NextStep, PTL DEF Spec

\* The package cache and qy.toml, used by several processes that may die at any
\* point (fetch.py, checksum.py, pkg.py), implement the atomic store of
\* PackageSpec, whatever the number of processes, keys, dependencies, commands
\* and faults: for a key that no two processes use while one changes it, and that
\* no dying process leaves in pieces, a hit is a whole package, a fetch fails only
\* if the network does, and no edit of qy.toml is lost; what is damaged stays
\* with its key.
THEOREM PackageStoreAtomic == Spec => Atomic
<1>1. Init => Abstract!Init
    BY InitIInv
<1>2. IInv /\ [Next]_vars => [Abstract!Next]_<<{k \in Keys : Whole(k)}, Visible, damaged, answer>>
    BY NextStep DEF AbstractStep
<1> QED BY <1>1, <1>2, AlwaysIInv, TypesHold, PTL DEF Spec, Atomic, Abstract!Spec

-----------------------------------------------------------------------------
(* The end of a command. *)

\* How many of its steps a process has before it at most, by where it is.
Left(c) ==
    CASE c.pc = "idle" -> 0
      [] c.pc \in {"read", "write"} -> 1
      [] c.pc \in {"parse", "truncate"} -> 2
      [] c.pc = "fill" -> 5 - 2 * c.n
      [] c.pc = "extract" -> 6 - 2 * c.n
      [] c.pc = "unzip" -> 5
      [] c.pc = "mkdir" -> 6
      [] c.pc = "rm" -> 7 + Cardinality(c.todo)
      [] c.pc = "target" -> 10
      [] c.pc = "copy" -> 14 - c.n
      [] c.pc = "open" -> 14
      [] c.pc = "archive" -> 15
Nearer(p) == Left(proc'[p]) < Left(proc[p])

\* The places one by one.
LEMMA LeftAt ==
    ASSUME NEW c
    PROVE  /\ c.pc = "idle" => Left(c) = 0
           /\ c.pc \in {"read", "write"} => Left(c) = 1
           /\ c.pc \in {"parse", "truncate"} => Left(c) = 2
           /\ c.pc = "fill" => Left(c) = 5 - 2 * c.n
           /\ c.pc = "extract" => Left(c) = 6 - 2 * c.n
           /\ c.pc = "unzip" => Left(c) = 5
           /\ c.pc = "mkdir" => Left(c) = 6
           /\ c.pc = "rm" => Left(c) = 7 + Cardinality(c.todo)
           /\ c.pc = "target" => Left(c) = 10
           /\ c.pc = "copy" => Left(c) = 14 - c.n
           /\ c.pc = "open" => Left(c) = 14
           /\ c.pc = "archive" => Left(c) = 15
BY DEF Left

\* At most two files are left to unlink.
LEMMA TodoSize ==
    ASSUME NEW T \in SUBSET File
    PROVE  /\ Cardinality(T) \in 0 .. 2
           /\ \A f \in T : Cardinality(T \ {f}) < Cardinality(T)
<1>1. IsFiniteSet(File) /\ Cardinality(File) <= 2
  <2>1. IsFiniteSet({"toml"}) /\ Cardinality({"toml"}) = 1
      BY FS_Singleton
  <2>2. File = {"toml"} \cup {"src"}
      BY DEF File
  <2> QED BY <2>1, <2>2, FS_AddElement
<1>2. IsFiniteSet(T) /\ Cardinality(T) <= Cardinality(File)
    BY <1>1, FS_Subset
<1>3. Cardinality(T) \in Nat /\ Cardinality(File) \in Nat
    BY <1>1, <1>2, FS_CardinalityType
<1>4. \A f \in T : Cardinality(T \ {f}) = Cardinality(T) - 1
    BY <1>2, FS_RemoveElement
<1> QED BY <1>1, <1>2, <1>3, <1>4

\* Nobody has more than fifteen steps before it, and only a process without a
\* command has none.
LEMMA LeftBounds ==
    ASSUME NEW c \in Control, CounterAt(c.pc, c.n)
    PROVE  Left(c) \in 0 .. 15 /\ (c.pc # "idle" => Left(c) >= 1)
<1>1. c.todo \in SUBSET File /\ c.n \in 0 .. 3 /\ c.pc \in Pcs
    BY DEF Control
<1>2. Cardinality(c.todo) \in 0 .. 2
    BY <1>1, TodoSize
<1>3. CASE c.pc \in {"idle", "read", "write", "parse", "truncate", "unzip", "mkdir"}
    BY <1>3, LeftAt
<1>4. CASE c.pc \in {"target", "open", "archive"}
    BY <1>4, LeftAt
<1>5. CASE c.pc \in {"fill", "extract", "copy"}
    BY <1>1, <1>5, LeftAt DEF CounterAt
<1>6. CASE c.pc = "rm"
    BY <1>2, <1>6, LeftAt
<1> QED BY <1>1, <1>3, <1>4, <1>5, <1>6 DEF Pcs, PackagePcs, EditPcs

\* The end of the command is nearer than any other place.
LEMMA EndNearer ==
    ASSUME IInv, NEW p \in Procs, ~Idle(p), NEW what, End(p, what)
    PROVE  Nearer(p)
<1>1. proc[p] \in Control /\ CounterAt(proc[p].pc, proc[p].n) /\ proc \in [Procs -> Control]
    BY DEF IInv, ControlOK, Counters
<1>2. Left(proc[p]) \in 0 .. 15 /\ Left(proc[p]) >= 1
    BY <1>1, LeftBounds DEF Idle
<1>3. proc'[p] = Stopped(K(p))
    BY <1>1 DEF End
<1>4. Left(proc'[p]) = 0
    BY <1>3, StoppedFields, LeftAt
<1> QED BY <1>2, <1>4 DEF Nearer

\* Where a step goes on to.
LEMMA GotoLeft ==
    ASSUME IInv, NEW p \in Procs, NEW pc, Goto(p, pc)
    PROVE  proc'[p].pc = pc /\ proc'[p].n = proc[p].n /\ proc'[p].todo = proc[p].todo
BY DEF IInv, ControlOK, Control, Goto
\* The same with the counter that the step leaves.
LEMMA GotoAtLeft ==
    ASSUME IInv, NEW p \in Procs, NEW pc, NEW n, GotoAt(p, pc, n)
    PROVE  proc'[p].pc = pc /\ proc'[p].n = n
BY DEF IInv, ControlOK, Control, GotoAt

\* What the clearing of a directory sets.
LEMMA UnlinkFields ==
    ASSUME NEW p \in Procs, NEW T, proc \in [Procs -> Control],
           proc' = [proc EXCEPT ![p].pc = "rm", ![p].after = "mkdir", ![p].todo = T]
    PROVE  proc'[p].pc = "rm" /\ proc'[p].todo = T
<1> DEFINE c == proc[p]
           d == [[[c EXCEPT !.pc = "rm"] EXCEPT !.after = "mkdir"] EXCEPT !.todo = T]
<1>1. c \in Control
    OBVIOUS
<1>2. proc'[p] = d
    OBVIOUS
<1>3. "pc" \in DOMAIN c /\ "todo" \in DOMAIN c
    BY <1>1 DEF Control
<1>4. d.pc = "rm" /\ d.todo = T
    BY <1>3
<1> QED BY <1>2, <1>4

\* Every step of a command brings its end nearer.
LEMMA StepNearer == ASSUME IInv, NEW p \in Procs, Step(p) PROVE Nearer(p)
<1>0. proc[p] \in Control /\ CounterAt(proc[p].pc, proc[p].n) /\ proc[p].n \in 0 .. 3 /\ proc[p].todo \in SUBSET File
    BY DEF IInv, ControlOK, Counters, Control
<1>1. Cardinality(proc[p].todo) \in 0 .. 2
    BY <1>0, TodoSize
<1>2. ASSUME NEW what, End(p, what), ~Idle(p) PROVE Nearer(p)
    BY <1>2, EndNearer
<1>3. CASE DownloadCheck(p)
  <2>1. PICK pc \in {"target", "open"} : Goto(p, pc) /\ proc[p].pc = "archive"
      BY <1>3 DEF DownloadCheck, At
  <2> QED BY <2>1, GotoLeft, LeftAt DEF Nearer
<1>4. CASE DownloadFails(p)
    BY <1>2, <1>4 DEF DownloadFails, At, Idle
<1>5. CASE DownloadOpen(p)
  <2>1. GotoAt(p, "copy", 1) /\ proc[p].pc = "open"
      BY <1>5 DEF DownloadOpen, At
  <2> QED BY <2>1, GotoAtLeft, LeftAt DEF Nearer
<1>6. CASE DownloadCopy(p)
  <2>1. proc[p].pc = "copy" /\ proc[p].n \in 1 .. 3
      BY <1>0, <1>6 DEF DownloadCopy, At, CounterAt
  <2>2. CASE Goto(p, "target")
      BY <2>1, <2>2, GotoLeft, LeftAt DEF Nearer
  <2>3. CASE GotoAt(p, "copy", proc[p].n + 1)
      BY <2>1, <2>3, GotoAtLeft, LeftAt DEF Nearer
  <2> QED BY <1>6, <2>2, <2>3 DEF DownloadCopy
<1>7. CASE CacheTarget(p)
  <2>1. proc[p].pc = "target"
      BY <1>7 DEF CacheTarget, At
  <2>2. CASE Goto(p, "mkdir")
      BY <2>1, <2>2, GotoLeft, LeftAt DEF Nearer
  <2>3. CASE ~Goto(p, "mkdir")
    <3> DEFINE T == {f \in File : Tree(K(p)).files[f] # "absent"}
    <3>a. proc' = [proc EXCEPT ![p].pc = "rm", ![p].after = "mkdir", ![p].todo = T]
        BY <1>7, <2>3 DEF CacheTarget
    <3>b. T \in SUBSET File
        OBVIOUS
    <3>c. proc'[p].pc = "rm" /\ proc'[p].todo = T
        <4> HIDE DEF T
        <4> QED BY <1>0, <3>a, UnlinkFields DEF IInv, ControlOK
    <3>1. proc'[p].pc = "rm" /\ proc'[p].todo \in SUBSET File
        BY <3>b, <3>c
    <3>2. Cardinality(proc'[p].todo) \in 0 .. 2
        BY <3>1, TodoSize
    <3> QED BY <2>1, <3>1, <3>2, LeftAt DEF Nearer
  <2> QED BY <2>2, <2>3
<1>8. CASE Mkdir(p)
  <2>1. Goto(p, "unzip") /\ proc[p].pc = "mkdir"
      BY <1>8 DEF Mkdir, At
  <2> QED BY <2>1, GotoLeft, LeftAt DEF Nearer
<1>9. CASE OpenZip(p)
  <2>1. proc[p].pc = "unzip" /\ (GotoAt(p, "extract", 1) \/ End(p, "raised"))
      BY <1>9 DEF OpenZip, At
  <2>2. CASE GotoAt(p, "extract", 1)
      BY <2>1, <2>2, GotoAtLeft, LeftAt DEF Nearer
  <2> QED BY <1>2, <2>1, <2>2 DEF Idle
<1>10. CASE Extract(p)
  <2>1. proc[p].pc = "extract" /\ proc[p].n \in 1 .. 2 /\ (Goto(p, "fill") \/ End(p, "raised"))
      BY <1>0, <1>10 DEF Extract, At, CounterAt
  <2>2. CASE Goto(p, "fill")
      BY <2>1, <2>2, GotoLeft, LeftAt DEF Nearer
  <2> QED BY <1>2, <2>1, <2>2 DEF Idle
<1>11. CASE Fill(p)
  <2>1. proc[p].pc = "fill" /\ proc[p].n \in 1 .. 2
      BY <1>0, <1>11 DEF Fill, At, CounterAt
  <2>2. (proc[p].n < 2 /\ GotoAt(p, "extract", 2)) \/ \E what : End(p, what)
      BY <1>11 DEF Fill
  <2>3. CASE proc[p].n < 2 /\ GotoAt(p, "extract", 2)
      BY <2>1, <2>3, GotoAtLeft, LeftAt DEF Nearer
  <2> QED BY <1>2, <2>1, <2>2, <2>3 DEF Idle
<1>12. CASE RmFile(p)
  <2>1. proc[p].pc = "rm"
      BY <1>12 DEF RmFile, At
  <2>2. CASE End(p, "raised")
      BY <1>2, <2>1, <2>2 DEF Idle
  <2>3. CASE ~End(p, "raised")
    <3>1. PICK f \in proc[p].todo : proc' = [proc EXCEPT ![p].todo = @ \ {f}]
        BY <1>12, <2>3 DEF RmFile
    <3>2. proc'[p].pc = "rm" /\ proc'[p].todo = proc[p].todo \ {f}
        BY <2>1, <3>1 DEF IInv, ControlOK, Control
    <3>3. Cardinality(proc'[p].todo) < Cardinality(proc[p].todo) /\ Cardinality(proc'[p].todo) \in 0 .. 2
        BY <1>0, <3>2, TodoSize
    <3> QED BY <1>1, <2>1, <3>2, <3>3, LeftAt DEF Nearer
  <2> QED BY <2>2, <2>3
<1>13. CASE RmDir(p)
  <2>1. proc[p].pc = "rm" /\ (Goto(p, "mkdir") \/ \E what : End(p, what))
      BY <1>13 DEF RmDir, At
  <2>2. CASE Goto(p, "mkdir")
      BY <1>1, <2>1, <2>2, GotoLeft, LeftAt DEF Nearer
  <2> QED BY <1>2, <2>1, <2>2 DEF Idle
<1>14. CASE ParseManifest(p)
  <2>1. proc[p].pc = "parse" /\ (End(p, "raised") \/ \E n \in 0 .. 1 : GotoAt(p, "read", n))
      BY <1>14 DEF ParseManifest, At
  <2>2. ASSUME NEW n \in 0 .. 1, GotoAt(p, "read", n) PROVE Nearer(p)
      BY <2>1, <2>2, GotoAtLeft, LeftAt DEF Nearer
  <2> QED BY <1>2, <2>1, <2>2 DEF Idle
<1>15. CASE ReadSource(p)
  <2>1. proc[p].pc = "read" /\ \E what : End(p, what)
      BY <1>15 DEF ReadSource, At
  <2> QED BY <1>2, <2>1 DEF Idle
<1>16. CASE EditTruncate(p)
  <2>1. Goto(p, "write") /\ proc[p].pc = "truncate"
      BY <1>16 DEF EditTruncate, At
  <2> QED BY <2>1, GotoLeft, LeftAt DEF Nearer
<1>17. CASE EditWrite(p)
  <2>1. proc[p].pc = "write" /\ End(p, "edited")
      BY <1>17 DEF EditWrite, At
  <2> QED BY <1>2, <2>1 DEF Idle
<1> QED BY <1>3, <1>4, <1>5, <1>6, <1>7, <1>8, <1>9, <1>10, <1>11, <1>12, <1>13, <1>14, <1>15, <1>16, <1>17 DEF Step

\* A step of p moves no other process.
LEMMA OnlyOwn ==
    ASSUME ControlOK, NEW p \in Procs, NEW q \in Procs, q # p,
           \/ Step(p) \/ Crash(p) \/ DownloadDrops(p)
           \/ \E k \in Keys : FetchPackage(p, k) \/ ClearCache(p, k) \/ LoadPackage(p, k) \/ PkgVerify(p, k)
           \/ \E d \in Deps : PkgRemove(p, d) \/ PkgRefuse(p, d)
           \/ \E d \in Deps, v \in Versions : PkgAdd(p, d, v) \/ PkgUpdate(p, d, v)
    PROVE  proc'[q] = proc[q]
<1>1. ASSUME NEW c, proc' = [proc EXCEPT ![p] = c] PROVE proc'[q] = proc[q]
    BY <1>1 DEF ControlOK
<1>2. ASSUME NEW pc, Goto(p, pc) PROVE proc'[q] = proc[q]
    BY <1>2 DEF Goto, ControlOK
<1>3. ASSUME NEW pc, NEW n, GotoAt(p, pc, n) PROVE proc'[q] = proc[q]
    BY <1>3 DEF GotoAt, ControlOK
<1>4. ASSUME NEW what, End(p, what) PROVE proc'[q] = proc[q]
    BY <1>1, <1>4 DEF End
<1>5. ASSUME NEW k, NEW pc, NEW what, NEW changes, NEW todo, Begin(p, k, pc, what, changes, todo)
      PROVE  proc'[q] = proc[q]
    BY <1>1, <1>5 DEF Begin
<1>6. ASSUME NEW what, Die(p, what) PROVE proc'[q] = proc[q]
    BY <1>1, <1>6 DEF Die
<1>7. ASSUME NEW d, NEW v, EditLoad(p, d, v) PROVE proc'[q] = proc[q]
    BY <1>1, <1>7 DEF EditLoad
<1>8. CASE CacheTarget(p) \/ RmFile(p)
  <2>1. CASE CacheTarget(p)
      BY <1>2, <2>1 DEF CacheTarget, ControlOK
  <2>2. CASE RmFile(p)
      BY <1>4, <2>2 DEF RmFile, ControlOK
  <2> QED BY <1>8, <2>1, <2>2
<1>9. CASE Step(p) /\ ~CacheTarget(p) /\ ~RmFile(p)
  <2>1. (\E pc : Goto(p, pc)) \/ (\E pc, n : GotoAt(p, pc, n)) \/ \E what : End(p, what)
      BY <1>9 DEF Step, DownloadCheck, DownloadFails, DownloadOpen, DownloadCopy, Mkdir, OpenZip, Extract,
                  Fill, RmDir, ParseManifest, ReadSource, EditTruncate, EditWrite
  <2> QED BY <1>2, <1>3, <1>4, <2>1
<1>10. CASE Crash(p) \/ DownloadDrops(p)
    BY <1>6, <1>10 DEF Crash, DownloadDrops
<1>11. CASE \E k \in Keys : FetchPackage(p, k) \/ ClearCache(p, k) \/ LoadPackage(p, k) \/ PkgVerify(p, k)
    BY <1>5, <1>11 DEF FetchPackage, ClearCache, LoadPackage, PkgVerify
<1>12. CASE \E d \in Deps : PkgRemove(p, d) \/ PkgRefuse(p, d)
    BY <1>5, <1>7, <1>12 DEF PkgRemove, PkgRefuse
<1>13. CASE \E d \in Deps, v \in Versions : PkgAdd(p, d, v) \/ PkgUpdate(p, d, v)
    BY <1>7, <1>13 DEF PkgAdd, PkgUpdate
<1> QED BY <1>8, <1>9, <1>10, <1>11, <1>12, <1>13

\* A process that no command keeps begins one; any other change of its place is
\* its own and brings its end nearer, or is its death.
LEMMA NextNearer ==
    ASSUME IInv, NEW p \in Procs, Next
    PROVE  proc'[p] # proc[p] => Idle(p) \/ Nearer(p)
<1> SUFFICES ASSUME proc'[p] # proc[p], ~Idle(p) PROVE Nearer(p)
    OBVIOUS
<1>1. PICK q \in Procs :
            \/ Step(q) \/ Crash(q) \/ DownloadDrops(q)
            \/ \E k \in Keys : FetchPackage(q, k) \/ ClearCache(q, k) \/ LoadPackage(q, k) \/ PkgVerify(q, k)
            \/ \E d \in Deps : PkgRemove(q, d) \/ PkgRefuse(q, d)
            \/ \E d \in Deps, v \in Versions : PkgAdd(q, d, v) \/ PkgUpdate(q, d, v)
    BY DEF Next
<1>2. q = p
    BY <1>1, OnlyOwn DEF IInv
<1>3. CASE Step(p)
    BY <1>3, StepNearer
<1>4. CASE Crash(p) \/ DownloadDrops(p)
  <2>1. PICK what : Die(p, what)
      BY <1>4 DEF Crash, DownloadDrops
  <2>2. proc[p] \in Control /\ CounterAt(proc[p].pc, proc[p].n) /\ proc \in [Procs -> Control]
      BY DEF IInv, ControlOK, Counters
  <2>3. Left(proc[p]) \in 0 .. 15 /\ Left(proc[p]) >= 1
      BY <2>2, LeftBounds DEF Idle
  <2>4. proc'[p] = Stopped(K(p))
      BY <2>1, <2>2 DEF Die
  <2>5. Left(proc'[p]) = 0
      BY <2>4, StoppedFields, LeftAt
  <2> QED BY <2>3, <2>5 DEF Nearer
<1> QED BY <1>1, <1>2, <1>3, <1>4 DEF FetchPackage, ClearCache, LoadPackage, PkgVerify, PkgRemove, PkgRefuse,
                                     PkgAdd, PkgUpdate, Begin, EditLoad

\* No command waits for another process or goes round in circles, whatever the
\* others do to its files meanwhile: a command has at most fifteen steps, and each
\* of them brings its end nearer (fetch.py, pkg.py have no lock and no retry).
THEOREM PackageStoreBounded ==
    Spec => [][\A p \in Procs :
                  /\ Left(proc[p]) \in 0 .. 15
                  /\ proc'[p] # proc[p] => Idle(p) \/ Nearer(p)
                  /\ Step(p) => Nearer(p)]_vars
<1> DEFINE Bounded == \A p \in Procs : /\ Left(proc[p]) \in 0 .. 15
                                       /\ proc'[p] # proc[p] => Idle(p) \/ Nearer(p)
                                       /\ Step(p) => Nearer(p)
<1>1. IInv /\ [Next]_vars => [Bounded]_vars
  <2> SUFFICES ASSUME IInv, Next PROVE Bounded
      OBVIOUS
  <2>1. ASSUME NEW p \in Procs PROVE Left(proc[p]) \in 0 .. 15
      BY LeftBounds DEF IInv, ControlOK, Counters
  <2> QED BY <2>1, NextNearer, StepNearer
<1> QED BY <1>1, AlwaysIInv, PTL DEF Spec
=============================================================================
