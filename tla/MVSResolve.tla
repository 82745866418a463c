----------------------------- MODULE MVSResolve -----------------------------
(***************************************************************************)
(* qy/project/resolve.py: minimum version selection.  resolve walks the    *)
(* manifests depth first from the project's own; a frame of the recursion  *)
(* _collect_requirements is [node, next]: the manifest it reads and the    *)
(* dependency it looks at next.  The manifests a provider can hand out are *)
(* arbitrary and fixed for the walk.                                       *)
(***************************************************************************)
EXTENDS Integers, Sequences, FiniteSets

CONSTANTS Paths,       \* package paths
          Versions,    \* version strings
          Parsed,      \* Versions -> Int: _parse_version, order and ties
          Root,        \* the project's own manifest
          None,        \* no manifest; no requirement yet
          MaxDeps,     \* bound: dependencies of one manifest
          Universe     \* what a provider and a project may hold between them

ASSUME ParsedAssumption == Parsed \in [Versions -> Int]
ASSUME MaxDepsAssumption == MaxDeps \in Nat
ASSUME RootAssumption == Root \notin Paths \X Versions
ASSUME NoneAssumption == None \notin Versions

Node == Paths \X Versions
Dependency == [path : Paths, min_version : Versions]
\* [dependencies] is a table: a path occurs once in a manifest.
Manifest == {m \in UNION {[1..n -> Dependency] : n \in 0..MaxDeps} :
                \A i, j \in DOMAIN m : m[i].path = m[j].path => i = j}
Frame == [node : Node \cup {Root}, next : 1..(MaxDeps + 1)]

ASSUME UniverseAssumption ==
    \A m \in Universe : /\ m \in [Node \cup {Root} -> Manifest \cup {None}]
                        /\ m[Root] # None

VARIABLES manifests,       \* what get_manifest answers, and the root manifest
          requirements,    \* path -> version selected so far
          visited,         \* (path, version) pairs whose manifest was read
          stack            \* frames of _collect_requirements, innermost last

vars == <<manifests, requirements, visited, stack>>

TypeOK ==
    /\ manifests \in [Node \cup {Root} -> Manifest \cup {None}]
    /\ manifests[Root] # None
    /\ requirements \in [Paths -> Versions \cup {None}]
    /\ visited \subseteq Node
    /\ stack \in Seq(Frame)

\* On a tie of the parsed versions the first one stays.
max_version(a, b) == IF Parsed[a] >= Parsed[b] THEN a ELSE b

Top == stack[Len(stack)]
Pop == SubSeq(stack, 1, Len(stack) - 1)
FrameAt(node, next) == [node |-> node, next |-> next]
Advanced == [stack EXCEPT ![Len(stack)] = FrameAt(Top.node, Top.next + 1)]

Init ==
    /\ manifests \in Universe
    /\ requirements = [p \in Paths |-> None]
    /\ visited = {}
    /\ stack = <<FrameAt(Root, 1)>>

\* Mutation of Selected: the last requirement wins.
MutSelectedLast(dep) == dep.min_version

\* The version selected for a dependency, given what is required so far.
Selected(dep) ==
    IF requirements[dep.path] = None THEN dep.min_version
    ELSE max_version(requirements[dep.path], dep.min_version)

\* Mutation of Collect: a path is visited once, whatever the version.
MutCollectByPath ==
    /\ stack # <<>> /\ Top.next =< Len(manifests[Top.node])
    /\ LET dep == manifests[Top.node][Top.next]
           key == <<dep.path, Selected(dep)>>
       IN /\ requirements' = [requirements EXCEPT ![dep.path] = Selected(dep)]
          /\ visited' = visited \cup {key}
          /\ stack' = IF requirements[dep.path] # None \/ manifests[key] = None THEN Advanced
                      ELSE Append(Advanced, FrameAt(key, 1))
          /\ UNCHANGED manifests

\* One turn of the loop over manifest.dependencies: record the requirement,
\* and read the manifest of the selected version unless that was done.
Collect ==
    /\ stack # <<>> /\ Top.next =< Len(manifests[Top.node])
    /\ LET dep == manifests[Top.node][Top.next]
           key == <<dep.path, Selected(dep)>>
       IN /\ requirements' = [requirements EXCEPT ![dep.path] = Selected(dep)]
          /\ visited' = visited \cup {key}
          /\ stack' = IF key \in visited \/ manifests[key] = None THEN Advanced
                      ELSE Append(Advanced, FrameAt(key, 1))
          /\ UNCHANGED manifests

\* Mutation of Return: a manifest is read again at its end.
MutReturnRescans ==
    /\ stack # <<>> /\ Top.next > Len(manifests[Top.node])
    /\ stack' = [stack EXCEPT ![Len(stack)] = FrameAt(Top.node, 1)]
    /\ UNCHANGED <<manifests, requirements, visited>>

Return ==
    /\ stack # <<>> /\ Top.next > Len(manifests[Top.node])
    /\ stack' = Pop
    /\ UNCHANGED <<manifests, requirements, visited>>

Next == Collect \/ Return

Spec == Init /\ [][Next]_vars
FairSpec == Spec /\ WF_vars(Next)

-----------------------------------------------------------------------------
(* Properties. *)

Satisfied(dep) ==
    requirements[dep.path] # None /\ Parsed[requirements[dep.path]] >= Parsed[dep.min_version]

\* The build list is closed: when the walk ends, every dependency of the project
\* and of the manifest of every selected version is in the build list with at
\* least the version that manifest asks for - although requirements keep rising
\* after manifests have been read, and manifests already visited are skipped.
Closed ==
    stack = <<>> =>
        \A n \in {Root} \cup {<<p, requirements[p]>> : p \in {q \in Paths : requirements[q] # None}} :
            manifests[n] # None =>
                \A i \in DOMAIN manifests[n] : Satisfied(manifests[n][i])

\* The selection is justified: every selected version is the minimum version
\* that the project or a manifest the walk has read asks for.
Justified ==
    \A p \in Paths : requirements[p] # None =>
        \E n \in visited \cup {Root} : manifests[n] # None /\
            \E i \in DOMAIN manifests[n] :
                manifests[n][i] = [path |-> p, min_version |-> requirements[p]]

\* A requirement is never lowered or dropped, whatever order the walk takes.
NeverLowered ==
    [][\A p \in Paths : requirements[p] # None =>
          /\ requirements'[p] # None
          /\ Parsed[requirements'[p]] >= Parsed[requirements[p]]]_vars

\* The walk ends on every set of manifests, cyclic ones included.
Terminates == <>(stack = <<>>)
=============================================================================
