---------------------------- MODULE MCMVSResolve ----------------------------
(* Three packages in two versions each.  The project asks for a and b; each *)
(* version of a and b may be unknown to the provider, ask for nothing, or   *)
(* ask for a version of another package; c may ask for the newer a.         *)
EXTENDS MVSResolve, TLC

CONSTANTS a, b, c

MCVersions == {"1.0", "2.0"}
MCParsed == ("1.0" :> 1) @@ ("2.0" :> 2)

Dep(p, v) == [path |-> p, min_version |-> v]
Of(p) == {None, <<>>} \cup {<<Dep(q, v)>> : q \in Paths \ {p}, v \in MCVersions}

MCUniverse ==
    {(Root :> <<Dep(a, va), Dep(b, vb)>>)
     @@ (<<a, "1.0">> :> a1) @@ (<<a, "2.0">> :> a2)
     @@ (<<b, "1.0">> :> b1) @@ (<<b, "2.0">> :> b2)
     @@ (<<c, "1.0">> :> c1) @@ (<<c, "2.0">> :> <<>>) :
        va, vb \in MCVersions, a1, a2 \in Of(a), b1, b2 \in Of(b),
        c1 \in {<<>>, <<Dep(a, "2.0")>>}}
=============================================================================
