SPECIFICATION HSpec
CONSTANTS
    p = p
    q = q
    Files = {p, q}
    NamespacedFiles = {}
    Specs <- MCSpecs
    Tags <- MCTags
    Contents <- ImmutableTags
    NoSpec = NoSpec
    NoVersion = NoVersion
    NoTag = NoTag
    Latest = "latest"
    NoObject = NoObject
    DriftObjects <- MCDrift
    Provider = "github"
    UrlTag = NoTag
    PollInterval = 60
    PollForTagChanges = TRUE
    ReconcilePoliciesFromChecksum = FALSE
    DeletePoliciesOnTermination = TRUE
    Bounds <- CleanupBounds
PROPERTIES CleanedUp
