SPECIFICATION HSpec
CONSTANTS
    Artifacts <- OneArtifact
    Names <- MCNames
    NameOf <- OneNameOf
    PrefixOf <- MCPrefixOf
    Policies <- TwoPolicies
    ClusterPolicies <- MCClusterPolicies
    NoName = NoName
    NoPolicy = NoPolicy
    UserObjects <- SomeUserObjects
    MaxFaults = 1
INVARIANTS CollectorInv
PROPERTIES HealthyArtifactKeepsPolicies OneGapForgiven OnlyWatcherPoliciesCollected AbandonedPoliciesCollected CollectsGracefully
