SPECIFICATION SystemSpec
CONSTANTS
    Artifacts <- MCNames
    Names <- MCNames
    NameOf <- MCNameOf
    PrefixOf <- MCPrefixOf
    Policies <- MCPolicies
    ClusterPolicies <- MCClusterPolicies
    NoName = NoName
    NoPolicy = NoPolicy
    UserObjects <- MCUserObjects
    MaxFaults = 1
    Specs = {"s1", "s2"}
    NoSpec = NoSpec
    Manifests <- MCManifests
    Cleanup = {"pol"}
    MaxRemovals = 2
INVARIANTS SystemTypeOK
PROPERTIES ClusterAsExpected PoliciesMatchArtifacts
