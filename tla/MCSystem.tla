-------------------------------- MODULE MCSystem --------------------------------
(* Small instances of System for TLC. *)
EXTENDS System

MCNames == {"pol", "pol-dev"}
MCNameOf == [a \in MCNames |-> a]
MCPrefixOf == {<<"pol", "pol">>, <<"pol", "pol-dev">>, <<"pol-dev", "pol-dev">>}
MCPolicies == {"Policy/ns/p", "ClusterPolicy/q"}
MCClusterPolicies == {"ClusterPolicy/q"}
MCUserObjects == {NoPolicy}

(* Both define q, with the same spec or with another one; only one has p.   *)
Manifest(spec) ==
    [a \in MCNames |-> [p \in MCPolicies |->
        IF a = "pol" THEN "s1" ELSE IF p = "ClusterPolicy/q" THEN spec ELSE NoSpec]]
MCManifests == {Manifest("s1"), Manifest("s2")}
=============================================================================
