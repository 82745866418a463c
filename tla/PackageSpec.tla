----------------------------- MODULE PackageSpec ------------------------------
(***************************************************************************)
(* What the users of the package cache and of qy.toml rely on: a command   *)
(* takes effect in one step, a cached package is whole, and a fetch fails  *)
(* only if the network does.  Nothing is promised for what was damaged: a  *)
(* package that one process changed while another used it, or that a dying *)
(* process left in pieces, and a qy.toml with that fate.                   *)
(***************************************************************************)
EXTENDS Integers

CONSTANTS Procs, Keys, Deps, Versions, Project

VARIABLES cached,    \* the packages in the mod cache
          manifest,  \* qy.toml of the project: its dependencies and the rest
          damaged,   \* keys, and Project for qy.toml
          answer     \* the answer of the last command of each process

Answer(p, k, what) == answer' = [answer EXCEPT ![p] = [key |-> k, what |-> what]]

\* The package is in the cache when the fetch returns.
Fetch(p, k) == Answer(p, k, "package") /\ cached' = cached \cup {k} /\ UNCHANGED <<manifest, damaged>>
\* Only a package that is not cached needs the network.
Unavailable(p, k) == k \notin cached /\ Answer(p, k, "unavailable") /\ UNCHANGED <<cached, manifest, damaged>>
\* An import of a module of the package, or pkg verify.
Use(p, k) ==
    /\ Answer(p, k, IF k \notin cached THEN "not cached" ELSE "package")
    /\ UNCHANGED <<cached, manifest, damaged>>
\* clear_cache takes effect, and then returns.
Clear(k) == cached' = cached \ {k} /\ UNCHANGED <<manifest, damaged, answer>>
Cleared(p, k) == k \notin cached /\ Answer(p, k, "cleared") /\ UNCHANGED <<cached, manifest, damaged>>
\* pkg add, remove, update: one dependency changes, or none.
Edit(p, d, v) ==
    /\ manifest' = [manifest EXCEPT !.deps[d] = v]
    /\ Answer(p, Project, "edited")
    /\ UNCHANGED <<cached, damaged>>
Refuse(p) == Answer(p, Project, "refused") /\ UNCHANGED <<cached, manifest, damaged>>

\* What happens to a damaged key does not reach another one.
Anything(k) ==
    /\ damaged' = damaged \cup {k}
    /\ cached' \ {k} = cached \ {k}
    /\ k # Project => manifest' = manifest
    /\ \A p \in Procs : answer'[p] # answer[p] => answer'[p].key = k

Init ==
    /\ cached = {} /\ damaged = {}
    /\ manifest.deps = [d \in Deps |-> 0] /\ manifest.rest = TRUE
    /\ answer = [p \in Procs |-> [key |-> Project, what |-> "none"]]
Next ==
    \/ \E p \in Procs, k \in Keys : Fetch(p, k) \/ Unavailable(p, k) \/ Use(p, k) \/ Cleared(p, k)
    \/ \E k \in Keys : Clear(k)
    \/ \E p \in Procs, d \in Deps, v \in Versions \cup {0} : Edit(p, d, v)
    \/ \E p \in Procs : Refuse(p)
    \/ \E k \in Keys \cup {Project} : Anything(k)
Spec == Init /\ [][Next]_<<cached, manifest, damaged, answer>>
=============================================================================
