SPECIFICATION ISpec
CONSTANTS
    Artifacts <- OneArtifact
    Names <- MCNames
    NameOf <- OneNameOf
    PrefixOf <- MCPrefixOf
    Policies <- OnePolicy
    ClusterPolicies = {}
    NoName = NoName
    NoPolicy = NoPolicy
    UserObjects <- LegacyOrNone
    MaxFaults = 0
PROPERTIES EachObjectHasGrace
