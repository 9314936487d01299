-------------------------------- MODULE Delivery --------------------------------
(***************************************************************************)
(* From the spec of one KyvernoArtifact to the policies in the cluster:    *)
(* the operator turns the spec into the environment of a pod, the watcher  *)
(* in it reads a configuration out of the environment, finds the wanted    *)
(* tag, pulls the artifact under it and applies what it found.  Operator   *)
(* and Watcher hold the interleavings of each half, over one fixed         *)
(* configuration.  Here a reconciliation and a pass of the watcher's main  *)
(* loop are one step each, and the configuration, the references and the   *)
(* files are what varies.                                                  *)
(***************************************************************************)
EXTENDS Configuration, ArtifactFiles

CONSTANTS
    Keys,              \* kind, namespace and name of a policy
    InitialSpecs,
    FieldValues,       \* what a user writes into each field of the spec
    InitialRegistry,   \* repository -> its versions
    Pushes,            \* what is pushed: tags and layers
    NoPod, Down,       \* no pod; the pod's process does not run
    MaxEvents          \* bound: edits, pushes and restarts

Fields == {"url", "provider", "pollingInterval", "pollForTagChanges",
           "reconcilePoliciesFromChecksum"}

ASSUME FieldsAssumption == DOMAIN FieldValues = Fields
ASSUME SpecsAssumption ==
    \A s \in InitialSpecs : DOMAIN s = Fields /\ \A f \in Fields : s[f] \in FieldValues[f]
ASSUME MaxEventsAssumption == MaxEvents \in Nat

(* A repository has its versions in a list; a tag is a word. *)
IsListing(versions) ==
    /\ IsSeq(versions)
    /\ \A version \in Range(versions) :
           IsVersion(version) /\ \A tag \in Range(version.tags) : IsWord(tag)

ASSUME RegistryAssumption ==
    \A repository \in DOMAIN InitialRegistry :
        /\ repository.valid /\ repository.host[1] \in Hosts
        /\ IsListing(InitialRegistry[repository])
ASSUME PushesAssumption ==
    \A pushed \in Pushes :
        IsListing(<<[tags |-> pushed.tags, updated |-> 1, layers |-> pushed.layers]>>)
ASSUME UrlAssumption == \A url \in FieldValues["url"] \ {Unset} : IsReference(url)

VARIABLES
    spec,        \* of the KyvernoArtifact
    env,         \* environment of its pod
    config,      \* what the running watcher has read
    lastFile,    \* the bookmark, in the pod's emptyDir
    registry,
    policies,    \* the cluster: spec and policy-version label
    budget

vars == <<spec, env, config, lastFile, registry, policies, budget>>

VersionsIn(repository) ==
    IF repository \in DOMAIN registry THEN registry[repository] ELSE <<>>

Init ==
    /\ spec \in InitialSpecs
    /\ env = NoPod
    /\ config = Down
    /\ lastFile = NoTag
    /\ registry = InitialRegistry
    /\ policies = [k \in Keys |-> NoPolicy]
    /\ budget = MaxEvents

-----------------------------------------------------------------------------
(* The operator. *)

CreatePod ==
    /\ env = NoPod /\ spec.url # Unset
    /\ env' = Environment(spec)
    /\ UNCHANGED <<spec, config, lastFile, registry, policies, budget>>

(* Mutant: the process outlives its pod. *)
DeletePodOnly ==
    /\ env # NoPod /\ NeedsUpdate(spec, env)
    /\ env' = NoPod /\ lastFile' = NoTag
    /\ UNCHANGED <<spec, config, registry, policies, budget>>

(* The pod goes with its process and its emptyDir. *)
DeletePod ==
    /\ env # NoPod /\ NeedsUpdate(spec, env)
    /\ env' = NoPod /\ config' = Down /\ lastFile' = NoTag
    /\ UNCHANGED <<spec, registry, policies, budget>>

(* Without URL: an error and another try; a pod that fits: nothing.         *)
LeaveAlone ==
    /\ IF env = NoPod THEN spec.url = Unset ELSE ~NeedsUpdate(spec, env)
    /\ UNCHANGED vars

Reconcile == CreatePod \/ DeletePod \/ LeaveAlone

-----------------------------------------------------------------------------
(* The watcher. *)

(* The kubelet starts no container without its secrets, and starts one      *)
(* again whose process ended.                                               *)
StartWatcher ==
    /\ env # NoPod /\ config = Down
    /\ HasValues(env) /\ ~Fatal(env)
    /\ config' = loadConfig(env)
    /\ UNCHANGED <<spec, env, lastFile, registry, policies, budget>>

RestartWatcher ==
    /\ config # Down /\ budget > 0
    /\ config' = Down
    /\ budget' = budget - 1
    /\ UNCHANGED <<spec, env, lastFile, registry, policies>>

(* What the API of the provider says is the newest; NoTag: nothing, or an   *)
(* error.  The API of GitHub is asked for owner and package, whatever the   *)
(* host.                                                                    *)
AskedRepository(c) ==
    IF c.Provider = "github"
    THEN [valid |-> TRUE, host |-> <<"ghcr.io">>,
          path |-> c.Package.owner \o <<"/">> \o c.Package.package]
    ELSE ArtifactoryRepository(c.ImageBase)

NewestTag(c) ==
    LET versions == VersionsIn(AskedRepository(c))
    IN  IF c.Provider = "github"
        THEN IF versions = <<>> THEN NoTag ELSE getLatestTagOrDigest(versions)
        ELSE IF Tagged(versions) = {} THEN NoTag ELSE getLatestArtifactoryTag(versions)

(* The tag of this pass. *)
LatestOf(c) ==
    LET base == c.ImageBase
    IN  CASE ~c.PollForTagChanges -> PinnedTag(base)
          [] c.PollForTagChanges /\ c.PollInterval = 0 ->
                 IF Identifier(base) = LatestTag THEN NewestTag(c) ELSE Identifier(base)
          [] c.PollForTagChanges /\ c.PollInterval # 0 /\ c.Provider = "github" ->
                 NewestTag(c)
          [] OTHER ->
                 IF ArtifactoryTag(base) = NoTag THEN NewestTag(c) ELSE ArtifactoryTag(base)

isTagChanged(c, tag) ==
    CASE ~c.PollForTagChanges -> tag # lastFile /\ lastFile # NoTag
      [] c.PollForTagChanges /\ c.PollInterval = 0 -> TRUE
      [] OTHER -> tag # lastFile

(* Files that are applied: all of a new tag, otherwise those that differ.   *)
ToApply(version, tag) ==
    {i \in FilesOf(version) :
        LET document == FirstDocument(version, i)
        IN  /\ document.key \notin Refused
            /\ isTagChanged(config, tag) \/ Differs(document, policies[document.key])}

(* Files are applied in the order of a Go map: of two with the same key     *)
(* either may be the last.                                                  *)
Applied(version, files, tag) ==
    LET keyOf(i) == FirstDocument(version, i).key
        keys == {keyOf(i) : i \in files}
    IN  {[k \in Keys |-> IF k \in keys
                         THEN [spec |-> FirstDocument(version, last[k]).spec, tag |-> tag]
                         ELSE policies[k]] :
            last \in {l \in [keys -> files] : \A k \in keys : keyOf(l[k]) = k}}

(* A pass that ends early, without tag or with an error, changes nothing.   *)
WatchLoop ==
    /\ config # Down
    /\ \E tag \in {LatestOf(config)} \ {NoTag} :
           /\ isTagChanged(config, tag) \/ config.ReconcilePoliciesFromChecksum
           /\ \E reference \in {PullReference(config.ImageBase, tag)} :
              \E repository \in {IF config.Provider = "github" THEN ParseReference(reference)
                                                              ELSE OrasReference(reference)} :
              \E version \in Pulled(VersionsIn(repository), ReferenceTag(reference)) :
              \E files \in {ToApply(version, tag)} :
                  /\ policies' \in Applied(version, files, tag)
                  /\ lastFile' = IF isTagChanged(config, tag) \/ files # {} THEN tag ELSE lastFile
    /\ UNCHANGED <<spec, env, config, registry, budget>>

-----------------------------------------------------------------------------
(* Users and their pipelines. *)

EditSpec ==
    /\ budget > 0
    /\ \E f \in Fields : \E value \in FieldValues[f] :
           value # spec[f] /\ spec' = [spec EXCEPT ![f] = value]
    /\ budget' = budget - 1
    /\ UNCHANGED <<env, config, lastFile, registry, policies>>

(* The tags that are not taken, in their order. *)
Without(tags, taken) ==
    LET kept == {i \in DOMAIN tags : tags[i] \notin taken}
        place(i) == Cardinality({j \in kept : j <= i})
    IN  [n \in 1..Cardinality(kept) |-> tags[CHOOSE i \in kept : place(i) = n]]

(* A pushed version takes its tags from the others and is listed first or last. *)
Push ==
    /\ budget > 0
    /\ \E repository \in DOMAIN registry, pushed \in Pushes :
           LET versions == registry[repository]
               untagged == [i \in DOMAIN versions |->
                   [versions[i] EXCEPT !.tags = Without(@, Range(pushed.tags))]]
               version == [tags |-> pushed.tags, layers |-> pushed.layers,
                           updated |-> IF versions = <<>> THEN 1 ELSE Newest(versions) + 1]
           IN  \E list \in {Append(untagged, version), <<version>> \o untagged} :
                   registry' = [registry EXCEPT ![repository] = list]
    /\ budget' = budget - 1
    /\ UNCHANGED <<spec, env, config, lastFile, policies>>

-----------------------------------------------------------------------------
Next ==
    \/ Reconcile \/ StartWatcher \/ RestartWatcher \/ WatchLoop
    \/ EditSpec \/ Push

(* Reconciliations are requeued, the kubelet restarts what ended, and the   *)
(* main loop has no end.                                                    *)
Fairness == WF_vars(Reconcile) /\ WF_vars(StartWatcher) /\ WF_vars(WatchLoop)

Spec == Init /\ [][Next]_vars /\ Fairness

-----------------------------------------------------------------------------
(* Type invariant. *)
TypeOK ==
    /\ DOMAIN spec = Fields /\ \A f \in Fields : spec[f] \in FieldValues[f]
    /\ env # NoPod => \E url \in FieldValues["url"] \ {Unset} : env.IMAGE_BASE = Written(url)
    /\ config # Down => env # NoPod /\ ~Fatal(env) /\ config = loadConfig(env)
    /\ DOMAIN registry = DOMAIN InitialRegistry
    /\ DOMAIN policies = Keys
    /\ budget \in 0..MaxEvents

(* A watcher in whose pod the operator finds nothing to change runs with    *)
(* what docs/configuration.md:31-37 says of the spec: the defaults of the   *)
(* operator, those of the watcher, what is compared and what is not, and    *)
(* the two spellings of a provider agree (reconcilePoliciesFromChecksum is  *)
(* the exception: it is not compared).                                      *)
ConfigAsDocumented ==
    (config # Down /\ ~NeedsUpdate(spec, env)) =>
        \A field \in DOMAIN config \ {"ReconcilePoliciesFromChecksum"} :
            config[field] = Documented(spec)[field]

(* Without a host parseImageBase takes the first component for one, so that *)
(* a reference of three components gets a package; on Docker Hub, which is  *)
(* meant then, there are two at most.  schema.go:197 expects a host.        *)
HostNamed ==
    \A url \in FieldValues["url"] \ {Unset} : url.host # NoTag \/ Len(url.path) <= 2

(* Whatever a pass writes is a document of the repository that the URL      *)
(* names, pulled under the tag that the label then says: cutting the        *)
(* reference apart and putting it together again never leads elsewhere, and *)
(* the bookmark is the tag of such a pass.                                  *)
PulledAsWritten ==
    [][\A url \in FieldValues["url"] \ {Unset} :
          (<<lastFile, policies>>' # <<lastFile, policies>> /\ config' # Down
               /\ config.ImageBase = Written(url)) =>
              LET under(tag) == Pulled(VersionsIn(RepositoryOf(url)), tag)
              IN  /\ \A k \in Keys : policies'[k] # policies[k] =>
                         \E version \in under(policies'[k].tag) :
                             [key |-> k, spec |-> policies'[k].spec] \in AllDocuments(version)
                  /\ lastFile' # lastFile => under(lastFile') # {}]_vars

-----------------------------------------------------------------------------
(* The version that is wanted, read off the parts of the URL.               *)

Provider == getEnvOrDefault(spec.provider, "github")
Interval == getEnvOrDefault(spec.pollingInterval, 60)
Polls == getEnvOrDefault(spec.pollForTagChanges, TRUE)
Versions == VersionsIn(RepositoryOf(spec.url))
InitialVersionsIn(repository) ==
    IF repository \in DOMAIN InitialRegistry THEN InitialRegistry[repository] ELSE <<>>

(* A tag in the URL pins the version (docs/configuration.md:31), but latest, *)
(* which is also what no tag means (README.md:56), follows the newest one.  *)
FollowsNewest == Polls /\ spec.url.tag \in {NoTag, LatestTag}

(* What the code can deliver.  Not delivered: a provider in another         *)
(* spelling or without its secret; a host with a port; for GitHub, another  *)
(* host or fewer than three components; no tag where one is needed.  A tag  *)
(* in the URL does not pin where GitHub is polled (helpers.go:142).         *)
Reachable ==
    /\ spec.url # Unset
    /\ Provider \in {"github", "artifactory"} /\ HasValues(Environment(spec))
    /\ spec.url.host # NoTag /\ spec.url.port = NoTag
    /\ Provider = "github" => spec.url.host = <<"ghcr.io">> /\ Len(spec.url.path) >= 2
    /\ Polls \/ spec.url.tag # NoTag
    /\ Provider = "github" /\ Polls /\ Interval # 0 => spec.url.tag \in {NoTag, LatestTag}

(* With checksums, or where the bookmark tells versions apart since no tag  *)
(* has been moved; a pinned tag needs checksums.  A change of               *)
(* reconcilePoliciesFromChecksum alone does not reach the pod.  Interval 0  *)
(* disables polling (README.md:61, "process the given tag once",            *)
(* helpers.go:105): nothing is asked for once something has been pushed.    *)
Noticed ==
    /\ env # NoPod
    /\ \/ getEnvOrDefault(env.CHECKSUM_RECONCILIATION, FALSE)
       \/ Polls /\ \A version \in Range(Versions) : version.tags # <<>>
    /\ Interval = 0 => Versions = InitialVersionsIn(RepositoryOf(spec.url))

(* The wanted version: the newest one, unless it has no tag, or the one     *)
(* under the tag of the URL.  getLatestArtifactoryTagReal assumes that the  *)
(* list ends with the newest. *)
Wanted ==
    IF ~(Reachable /\ Noticed) THEN {}
    ELSE IF FollowsNewest
    THEN {version \in Range(Versions) :
             /\ version.updated = Newest(Versions) /\ version.tags # <<>>
             /\ Provider = "artifactory" => version = Last(Versions)}
    ELSE Pulled(Versions, spec.url.tag)

InCluster(documents) ==
    \A document \in {d \in documents : d.key \notin Refused} :
        \E other \in documents :
            /\ other.key = document.key /\ policies[document.key] # NoPolicy
            /\ other.spec = policies[document.key].spec

FirstDocuments(version) == {FirstDocument(version, i) : i \in FilesOf(version)}

(* Where the code can deliver and notices, the first documents of the       *)
(* wanted version are in the cluster in the end, after whatever users did   *)
(* to spec, tags and repositories; of two that define the same policy, one  *)
(* of them.                                                                 *)
EventuallyDelivered ==
    <>[]({version \in Wanted : ~InCluster(FirstDocuments(version))} = {})

(* watcher.go:787 says of applyManifestFile "It supports multi-document     *)
(* YAML files (where documents are separated by '---')": then all documents *)
(* are in the cluster in the end.                                           *)
AllDocumentsDelivered ==
    <>[]({version \in Wanted : ~InCluster(AllDocuments(version))} = {})
=============================================================================
