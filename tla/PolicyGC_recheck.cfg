SPECIFICATION HSpec
CONSTANTS
    Artifacts <- MCNames
    Names <- MCNames
    NameOf <- MCNameOf
    PrefixOf <- MCPrefixOf
    Policies <- OnePolicy
    ClusterPolicies = {}
    NoName = NoName
    NoPolicy = NoPolicy
    UserObjects <- AllUserObjects
    MaxFaults = 1
PROPERTIES DeletedObjectIsOrphaned
