------------------------------ MODULE MCPolicyGC ------------------------------
(* Small instances of PolicyGC for TLC. *)
EXTENDS PolicyGC

(* Two artifacts, the name of one a prefix of the other's, as the samples'   *)
(* "policies" and "policies-dev" would be.                                   *)
MCNames == {"pol", "pol-dev"}
MCNameOf == [a \in MCNames |-> a]
OneArtifact == {"pol-dev"}
OneNameOf == [a \in OneArtifact |-> a]
MCPrefixOf == {<<"pol", "pol">>, <<"pol", "pol-dev">>, <<"pol-dev", "pol-dev">>}

OnePolicy == {"Policy/ns/p"}
TwoPolicies == {"Policy/ns/p", "ClusterPolicy/q"}
MCClusterPolicies == {"ClusterPolicy/q"}

LegacyPolicy == [managed |-> TRUE, version |-> TRUE, artifact |-> NoName]
UnversionedPolicy == [managed |-> TRUE, version |-> FALSE, artifact |-> "pol"]
UserPolicy == [managed |-> FALSE, version |-> TRUE, artifact |-> "pol"]
RemovedPolicy == [managed |-> TRUE, version |-> TRUE, artifact |-> "pol"]

SomeUserObjects == {LegacyPolicy, UserPolicy, RemovedPolicy, NoPolicy}
AllUserObjects == {LegacyPolicy, UnversionedPolicy, UserPolicy, NoPolicy}
LegacyOrNone == {LegacyPolicy, NoPolicy}
=============================================================================
