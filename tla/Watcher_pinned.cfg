SPECIFICATION HSpec
CONSTANTS
    p = p
    q = q
    Files = {p, q}
    NamespacedFiles = {p}
    Specs <- MCSpecs
    Tags <- MCTags
    Contents <- MutableTags
    NoSpec = NoSpec
    NoVersion = NoVersion
    NoTag = NoTag
    Latest = "latest"
    NoObject = NoObject
    DriftObjects <- MCDrift
    Provider = "github"
    UrlTag = "v1"
    PollInterval = 60
    PollForTagChanges = FALSE
    ReconcilePoliciesFromChecksum = TRUE
    DeletePoliciesOnTermination = FALSE
    Bounds <- PinnedBounds
INVARIANTS WatcherInv OnlyUrlTagApplied
PROPERTIES EventuallyConverged UnchangedPoliciesLeftAlone
