SPECIFICATION Spec
CONSTANTS
    p = p
    q = q
    Files = {p, q}
    NamespacedFiles = {p}
    Specs <- MCSpecs
    Tags <- MCTags
    Contents <- OverwrittenTag
    NoSpec = NoSpec
    NoVersion = NoVersion
    NoTag = NoTag
    Latest = "latest"
    NoObject = NoObject
    DriftObjects <- MCDrift
    Provider = "github"
    UrlTag = NoTag
    PollInterval = 60
    PollForTagChanges = TRUE
    ReconcilePoliciesFromChecksum = TRUE
    DeletePoliciesOnTermination = TRUE
    Bounds <- ChecksumBounds
PROPERTIES EventuallyConverged SignalEndsProcess
