----------------------------- MODULE PackageStore -----------------------------
(***************************************************************************)
(* The package cache under QY_HOME (qy/project/fetch.py), the integrity    *)
(* check (qy/project/checksum.py) and the commands that edit qy.toml       *)
(* (qy/cli/commands/pkg.py), used by several processes at once.  A step is *)
(* one call into the file system or the network: nothing locks, nothing is *)
(* renamed into place, and a process or a connection may die in between.   *)
(*                                                                         *)
(* A key is a package path with a version.  Its archive holds one chunk    *)
(* per file and the index at the end; its directory holds the two files    *)
(* that matter, qy.toml and the sources, and zipfile writes qy.toml first. *)
(***************************************************************************)
EXTENDS Integers, Sequences, FiniteSets

CONSTANTS Procs, Keys, Deps, Versions,
          Recorded,   \* the keys with an entry in qy.sum
          Project,    \* stands for the project with its qy.toml
          MaxOps,     \* bound: commands
          MaxFaults   \* bound: processes and connections that die

ASSUME StoreAssumption == MaxOps \in Nat /\ MaxFaults \in Nat /\ Project \notin Keys /\ Recorded \subseteq Keys

VARIABLES archive,  \* download cache: does the file exist, which chunks are in it
          tree,     \* mod cache: does the directory exist, the state of its files
          toml,     \* qy.toml of the project
          proc,     \* where each process is in its command
          ops, faults,
          damaged,  \* history: what was left in pieces or used while it changed
          answer    \* history: the answer of the last command

vars == <<archive, tree, toml, proc, ops, faults, damaged, answer>>
disk == <<archive, tree, toml>>

Files == <<"toml", "src">>
File == {"toml", "src"}
Chunks == {"toml", "src", "index"}
ChunkAt == <<"toml", "src", "index">>
Idle(p) == proc[p].pc = "idle"
At(p, pc) == proc[p].pc = pc
K(p) == proc[p].key
NoManifest == [deps |-> [d \in Deps |-> 0], rest |-> FALSE]
\* A process at pc with key k, before its first step.
Starting(pc, k, todo, after) == [pc |-> pc, key |-> k, n |-> 0, todo |-> todo, after |-> after,
                                 new |-> NoManifest, old |-> NoManifest]
Editing(new, old) == [pc |-> "truncate", key |-> Project, n |-> 0, todo |-> {}, after |-> "",
                      new |-> new, old |-> old]
Stopped(k) == Starting("idle", k, {}, "")

\* Mutation of cached_package_dir: the version is not part of the directory.
MutDirOfPath(k) == CHOOSE j \in Keys : TRUE
\* The directory of a package; archives have one per key too.
cached_package_dir(k) == k
Tree(k) == tree[cached_package_dir(k)]
SetTree(k, t) == tree' = [tree EXCEPT ![cached_package_dir(k)] = t]

is_cached(k) == Tree(k).exists /\ Tree(k).files["toml"] # "absent"
Whole(k) == \A f \in File : Tree(k).files[f] = "whole"

TypeOK ==
    /\ archive \in [Keys -> [exists : BOOLEAN, chunks : SUBSET Chunks]]
    /\ tree \in [Keys -> [exists : BOOLEAN, files : [File -> {"absent", "partial", "whole"}]]]
    /\ toml \in [deps : [Deps -> Versions \cup {0}], rest : BOOLEAN]
    /\ \A p \in Procs : proc[p].key \in Keys \cup {Project} /\ proc[p].todo \subseteq File
    /\ ops \in 0 .. MaxOps /\ faults \in 0 .. MaxFaults
    /\ damaged \subseteq Keys \cup {Project}

Init ==
    /\ archive = [k \in Keys |-> [exists |-> FALSE, chunks |-> {}]]
    /\ tree = [k \in Keys |-> [exists |-> FALSE, files |-> [f \in File |-> "absent"]]]
    /\ toml = [deps |-> [d \in Deps |-> 0], rest |-> TRUE]
    /\ proc = [p \in Procs |-> Stopped(Project)]
    /\ ops = 0 /\ faults = 0 /\ damaged = {}
    /\ answer = [p \in Procs |-> [key |-> Project, what |-> "none"]]

---------------------------------------------------------------------------
(* The control of a process. *)

Goto(p, pc) == proc' = [proc EXCEPT ![p].pc = pc] /\ UNCHANGED <<ops, faults, damaged, answer>>
GotoAt(p, pc, n) == proc' = [proc EXCEPT ![p].pc = pc, ![p].n = n] /\ UNCHANGED <<ops, faults, damaged, answer>>
\* The command ends with an answer.
End(p, what) ==
    /\ proc' = [proc EXCEPT ![p] = Stopped(K(p))]
    /\ answer' = [answer EXCEPT ![p] = [key |-> K(p), what |-> what]]
    /\ UNCHANGED <<ops, faults, damaged>>

\* Another process is at work on the key, and one of the two changes it.
Readers == {"idle", "parse", "read"}
Overlap(p, k, changes) ==
    \E q \in Procs \ {p} : ~Idle(q) /\ K(q) = k /\ (changes \/ proc[q].pc \notin Readers)
\* A command starts and goes on at pc, or answers at once.
Begin(p, k, pc, what, changes, todo) ==
    /\ Idle(p) /\ ops < MaxOps
    /\ ops' = ops + 1
    /\ damaged' = IF Overlap(p, k, changes) THEN damaged \cup {k} ELSE damaged
    /\ proc' = [proc EXCEPT ![p] = Starting(pc, k, todo, IF pc = "rm" THEN "cleared" ELSE "")]
    /\ answer' = IF pc = "idle" THEN [answer EXCEPT ![p] = [key |-> k, what |-> what]] ELSE answer
    /\ UNCHANGED faults

---------------------------------------------------------------------------
(* fetch_package *)

\* get_cached: a hit is returned as it is.
FetchPackage(p, k) ==
    /\ IF is_cached(k) THEN Begin(p, k, "idle", IF Whole(k) THEN "package" ELSE "broken", FALSE, {})
       ELSE Begin(p, k, "archive", "", TRUE, {})
    /\ UNCHANGED disk

\* _download_archive: an archive that exists is taken as it is.
DownloadCheck(p) ==
    /\ At(p, "archive")
    /\ Goto(p, IF archive[K(p)].exists THEN "target" ELSE "open")
    /\ UNCHANGED disk
\* urlopen fails before the file is created, or open(..., "wb") truncates it.
DownloadFails(p) == At(p, "open") /\ End(p, "unavailable") /\ UNCHANGED disk
DownloadOpen(p) ==
    /\ At(p, "open")
    /\ archive' = [archive EXCEPT ![K(p)] = [exists |-> TRUE, chunks |-> {}]]
    /\ GotoAt(p, "copy", 1)
    /\ UNCHANGED <<tree, toml>>

\* shutil.copyfileobj; two writers fill in the same chunks.
DownloadCopy(p) ==
    /\ At(p, "copy")
    /\ archive' = [archive EXCEPT ![K(p)].chunks = @ \cup {ChunkAt[proc[p].n]}]
    /\ IF proc[p].n = 3 THEN Goto(p, "target") ELSE GotoAt(p, "copy", proc[p].n + 1)
    /\ UNCHANGED <<tree, toml>>

\* cache_from_archive: an old directory is removed, then made again.
CacheTarget(p) ==
    /\ At(p, "target")
    /\ IF Tree(K(p)).exists
       THEN /\ proc' = [proc EXCEPT ![p].pc = "rm", ![p].after = "mkdir",
                                    ![p].todo = {f \in File : Tree(K(p)).files[f] # "absent"}]
            /\ UNCHANGED <<ops, faults, damaged, answer>>
       ELSE Goto(p, "mkdir")
    /\ UNCHANGED disk
Mkdir(p) ==
    /\ At(p, "mkdir")
    /\ SetTree(K(p), [Tree(K(p)) EXCEPT !.exists = TRUE])
    /\ Goto(p, "unzip")
    /\ UNCHANGED <<archive, toml>>
\* ZipFile(...) reads the index.
OpenZip(p) ==
    /\ At(p, "unzip")
    /\ IF "index" \in archive[K(p)].chunks THEN GotoAt(p, "extract", 1) ELSE End(p, "raised")
    /\ UNCHANGED disk
\* extractall: each file is created and then filled.
Extract(p) ==
    /\ At(p, "extract")
    /\ IF Files[proc[p].n] \in archive[K(p)].chunks
       THEN /\ SetTree(K(p), [exists |-> TRUE, files |-> [Tree(K(p)).files EXCEPT ![Files[proc[p].n]] = "partial"]])
            /\ Goto(p, "fill")
       ELSE End(p, "raised") /\ UNCHANGED tree
    /\ UNCHANGED <<archive, toml>>
\* The file may have been unlinked meanwhile; then the data is lost.
Fill(p) ==
    /\ At(p, "fill")
    /\ LET f == Files[proc[p].n]
           t == IF Tree(K(p)).files[f] = "absent" THEN Tree(K(p)) ELSE [Tree(K(p)) EXCEPT !.files[f] = "whole"]
       IN /\ SetTree(K(p), t)
          /\ IF proc[p].n < 2 THEN GotoAt(p, "extract", 2)
             ELSE End(p, IF \A g \in File : t.files[g] = "whole" THEN "package" ELSE "broken")
    /\ UNCHANGED <<archive, toml>>

---------------------------------------------------------------------------
(* clear_cache, and shutil.rmtree, which raises when files appear or vanish. *)

ClearCache(p, k) ==
    /\ IF Tree(k).exists THEN Begin(p, k, "rm", "", TRUE, {f \in File : Tree(k).files[f] # "absent"})
       ELSE Begin(p, k, "idle", "cleared", TRUE, {})
    /\ UNCHANGED disk
RmFile(p) ==
    /\ At(p, "rm")
    /\ \E f \in proc[p].todo :
         IF Tree(K(p)).files[f] = "absent" THEN End(p, "raised") /\ UNCHANGED tree
         ELSE /\ SetTree(K(p), [Tree(K(p)) EXCEPT !.files[f] = "absent"])
              /\ proc' = [proc EXCEPT ![p].todo = @ \ {f}]
              /\ UNCHANGED <<ops, faults, damaged, answer>>
    /\ UNCHANGED <<archive, toml>>
\* Mutation of RmDir: a directory that is not empty is tried again.
MutRmDirRetry(p) ==
    /\ At(p, "rm") /\ proc[p].todo = {}
    /\ \A f \in File : Tree(K(p)).files[f] = "absent"
    /\ SetTree(K(p), [Tree(K(p)) EXCEPT !.exists = FALSE])
    /\ IF proc[p].after = "mkdir" THEN Goto(p, "mkdir") ELSE End(p, "cleared")
    /\ UNCHANGED <<archive, toml>>
RmDir(p) ==
    /\ At(p, "rm") /\ proc[p].todo = {}
    /\ IF Tree(K(p)).exists /\ \A f \in File : Tree(K(p)).files[f] = "absent"
       THEN /\ SetTree(K(p), [Tree(K(p)) EXCEPT !.exists = FALSE])
            /\ IF proc[p].after = "mkdir" THEN Goto(p, "mkdir") ELSE End(p, "cleared")
       ELSE End(p, "raised") /\ UNCHANGED tree
    /\ UNCHANGED <<archive, toml>>

---------------------------------------------------------------------------
(* An import of a module of the package, and pkg verify. *)

LoadPackage(p, k) ==
    /\ IF is_cached(k) THEN Begin(p, k, "parse", "", FALSE, {}) ELSE Begin(p, k, "idle", "not cached", FALSE, {})
    /\ UNCHANGED disk
\* load_package: half a qy.toml may or may not parse.
ParseManifest(p) ==
    /\ At(p, "parse")
    /\ \/ Tree(K(p)).files["toml"] # "whole" /\ End(p, "raised")
       \/ Tree(K(p)).files["toml"] = "partial" /\ GotoAt(p, "read", 1)
       \/ Tree(K(p)).files["toml"] = "whole" /\ GotoAt(p, "read", 0)
    /\ UNCHANGED disk
\* The module file is looked for and read.
ReadSource(p) ==
    /\ At(p, "read")
    /\ LET s == Tree(K(p)).files["src"]
       IN End(p, IF s = "absent" THEN "raised" ELSE IF s = "whole" /\ proc[p].n = 0 THEN "package" ELSE "broken")
    /\ UNCHANGED disk
\* verify_package: without an entry in qy.sum every package is good.
verify_package(k) == k \notin Recorded \/ Tree(k).files["src"] = "whole"
PkgVerify(p, k) ==
    /\ Begin(p, k, "idle", IF ~is_cached(k) THEN "not cached" ELSE IF verify_package(k) THEN "package" ELSE "broken",
             FALSE, {})
    /\ UNCHANGED disk

---------------------------------------------------------------------------
(* pkg add, remove, update: read, change, write. *)

\* All fields of the manifest are copied, one dependency is set or removed.
NewManifest(m, d, v) == [m EXCEPT !.deps[d] = v]
EditLoad(p, d, v) ==
    /\ Idle(p) /\ ops < MaxOps
    /\ ops' = ops + 1
    /\ damaged' = IF Overlap(p, Project, TRUE) THEN damaged \cup {Project} ELSE damaged
    /\ proc' = [proc EXCEPT ![p] = Editing(NewManifest(toml, d, v), toml)]
    /\ UNCHANGED <<answer, faults>> /\ UNCHANGED disk
PkgAdd(p, d, v) == EditLoad(p, d, v)
PkgRemove(p, d) == toml.deps[d] # 0 /\ EditLoad(p, d, 0)
PkgUpdate(p, d, v) == toml.deps[d] # 0 /\ EditLoad(p, d, v)
\* remove and update of a dependency that is not there.
PkgRefuse(p, d) ==
    /\ toml.deps[d] = 0
    /\ Begin(p, Project, "idle", "refused", FALSE, {})
    /\ UNCHANGED disk
\* write_text truncates the file and writes it; an empty file is a manifest.
EditTruncate(p) ==
    /\ At(p, "truncate")
    /\ toml' = NoManifest
    /\ Goto(p, "write")
    /\ UNCHANGED <<archive, tree>>
EditWrite(p) ==
    /\ At(p, "write")
    /\ toml' = proc[p].new
    /\ End(p, "edited")
    /\ UNCHANGED <<archive, tree>>

---------------------------------------------------------------------------
(* Faults. *)

\* What a dying process leaves that a later command takes for good.
InPieces(k) ==
    IF k = Project THEN toml = NoManifest
    ELSE \/ archive[k].exists /\ archive[k].chunks # Chunks
         \/ is_cached(k) /\ ~Whole(k)
Die(p, what) ==
    /\ faults < MaxFaults /\ faults' = faults + 1
    /\ proc' = [proc EXCEPT ![p] = Stopped(K(p))]
    /\ damaged' = IF InPieces(K(p)) THEN damaged \cup {K(p)} ELSE damaged
    /\ answer' = [answer EXCEPT ![p] = IF what = "" THEN @ ELSE [key |-> K(p), what |-> what]]
    /\ UNCHANGED ops /\ UNCHANGED disk
Crash(p) == ~Idle(p) /\ Die(p, "")
\* The connection is lost during the copy; only URLError is caught.
DownloadDrops(p) == At(p, "copy") /\ Die(p, "raised")

Step(p) ==
    \/ DownloadCheck(p) \/ DownloadFails(p) \/ DownloadOpen(p) \/ DownloadCopy(p)
    \/ CacheTarget(p) \/ Mkdir(p) \/ OpenZip(p) \/ Extract(p) \/ Fill(p)
    \/ RmFile(p) \/ RmDir(p) \/ ParseManifest(p) \/ ReadSource(p)
    \/ EditTruncate(p) \/ EditWrite(p)
Next ==
    \E p \in Procs :
        \/ Step(p) \/ Crash(p) \/ DownloadDrops(p)
        \/ \E k \in Keys : FetchPackage(p, k) \/ ClearCache(p, k) \/ LoadPackage(p, k) \/ PkgVerify(p, k)
        \/ \E d \in Deps : PkgRemove(p, d) \/ PkgRefuse(p, d)
        \/ \E d \in Deps, v \in Versions : PkgAdd(p, d, v) \/ PkgUpdate(p, d, v)
Spec == Init /\ [][Next]_vars /\ \A p \in Procs : WF_vars(Step(p))

---------------------------------------------------------------------------
(* Properties. *)

\* The manifest as a reader between the commands sees it.
Writers == {p \in Procs : At(p, "write")}
Visible == IF Writers # {} THEN proc[CHOOSE p \in Writers : TRUE].old ELSE toml
Abstract == INSTANCE PackageSpec WITH cached <- {k \in Keys : Whole(k)}, manifest <- Visible

\* As long as no two processes use a key at the same time and no process dies
\* in a way that leaves pieces, the cache and qy.toml are the atomic store of
\* PackageSpec: a hit is a whole package, a retried fetch works, commands on
\* one key do not disturb another, and edits are never lost.
Atomic == []TypeOK /\ Abstract!Spec

\* A command that started ends, with an answer or an exception.
CommandsEnd == \A p \in Procs : ~Idle(p) ~> Idle(p)
=============================================================================
