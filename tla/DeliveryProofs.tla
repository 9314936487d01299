----------------------------- MODULE DeliveryProofs -----------------------------
(***************************************************************************)
(* Proofs about Delivery: what the operator writes into the environment of *)
(* a pod and what the watcher in it reads there agree with the spec, and   *)
(* what that watcher pulls is what the URL names.                          *)
(***************************************************************************)
EXTENDS Delivery, ImageRefProofs

(* The variables of the credentials are those of the provider as it is      *)
(* written, so that a provider in another spelling leaves a watcher without *)
(* any.                                                                     *)
CredentialsInv == env # NoPod => env.credentials = Credentials(env.PROVIDER)

DeliveryInv == TypeOK /\ CredentialsInv

-----------------------------------------------------------------------------
(* Preservation. *)

(* What the type invariant says of a pod stays true of it. *)
LEMMA PodUnchanged ==
  ASSUME DeliveryInv, UNCHANGED <<env, config>>
  PROVE  /\ env' # NoPod => \E url \in FieldValues["url"] \ {Unset} : env'.IMAGE_BASE = Written(url)
         /\ config' # Down => env' # NoPod /\ ~Fatal(env') /\ config' = loadConfig(env')
         /\ CredentialsInv'
BY DEF DeliveryInv, TypeOK, CredentialsInv

LEMMA ReconcilePreserves ==
  ASSUME DeliveryInv, Reconcile
  PROVE  DeliveryInv'
<1>1. CASE CreatePod
  <2>1. spec.url \in FieldValues["url"] \ {Unset} /\ env'.IMAGE_BASE = Written(spec.url)
    <3>1. "url" \in Fields
      BY DEF Fields
    <3> QED BY <1>1, <3>1 DEF CreatePod, DeliveryInv, TypeOK, Environment, ImageBase
  <2>2. config' = Down
    BY <1>1 DEF CreatePod, DeliveryInv, TypeOK
  <2>3. env'.credentials = Credentials(env'.PROVIDER)
    BY <1>1 DEF CreatePod, Environment
  <2> QED BY <1>1, <2>1, <2>2, <2>3 DEF CreatePod, DeliveryInv, TypeOK, CredentialsInv
<1>2. CASE DeletePod
  BY <1>2 DEF DeletePod, DeliveryInv, TypeOK, CredentialsInv
<1>3. CASE LeaveAlone
  BY <1>3, PodUnchanged DEF LeaveAlone, vars, DeliveryInv, TypeOK
<1> QED BY <1>1, <1>2, <1>3 DEF Reconcile

LEMMA WatcherPreserves ==
  ASSUME DeliveryInv, StartWatcher \/ RestartWatcher \/ WatchLoop
  PROVE  DeliveryInv'
<1>1. CASE StartWatcher
  BY <1>1 DEF StartWatcher, DeliveryInv, TypeOK, CredentialsInv
<1>2. CASE RestartWatcher
  <2>1. budget - 1 \in 0..MaxEvents
    BY <1>2, MaxEventsAssumption DEF RestartWatcher, DeliveryInv, TypeOK
  <2> QED BY <1>2, <2>1 DEF RestartWatcher, DeliveryInv, TypeOK, CredentialsInv
<1>3. CASE WatchLoop
  <2>1. DOMAIN policies' = Keys /\ UNCHANGED <<spec, env, config, registry, budget>>
    BY <1>3 DEF WatchLoop, Applied
  <2> QED BY <2>1, PodUnchanged DEF DeliveryInv, TypeOK
<1> QED BY <1>1, <1>2, <1>3

LEMMA UsersPreserve ==
  ASSUME DeliveryInv, EditSpec \/ Push
  PROVE  DeliveryInv'
<1>1. budget > 0 /\ budget' = budget - 1 /\ UNCHANGED <<env, config, policies>>
  BY DEF EditSpec, Push
<1>2. budget' \in 0..MaxEvents
  BY <1>1, MaxEventsAssumption DEF DeliveryInv, TypeOK
<1>3. DOMAIN spec' = Fields /\ \A f \in Fields : spec'[f] \in FieldValues[f]
  BY DEF EditSpec, Push, DeliveryInv, TypeOK
<1>4. DOMAIN registry' = DOMAIN InitialRegistry
  BY DEF EditSpec, Push, DeliveryInv, TypeOK
<1> QED BY <1>1, <1>2, <1>3, <1>4, PodUnchanged DEF DeliveryInv, TypeOK

(* The type invariant is inductive together with what is known of the       *)
(* credentials.                                                             *)
LEMMA Invariance == Spec => []DeliveryInv
<1>1. Init => DeliveryInv
  BY SpecsAssumption, MaxEventsAssumption DEF Init, DeliveryInv, TypeOK, CredentialsInv
<1>2. DeliveryInv /\ [Next]_vars => DeliveryInv'
  <2> SUFFICES ASSUME DeliveryInv, [Next]_vars PROVE DeliveryInv'
    OBVIOUS
  <2>1. CASE UNCHANGED vars
    BY <2>1, PodUnchanged DEF vars, DeliveryInv, TypeOK
  <2> QED BY <2>1, ReconcilePreserves, WatcherPreserves, UsersPreserve DEF Next
<1> QED BY <1>1, <1>2, PTL DEF Spec

(* Every pod was made from a URL of some spec, and what runs in it has read *)
(* the environment of that very pod.                                        *)
THEOREM TypeCorrect == Spec => []TypeOK
<1>1. DeliveryInv => TypeOK
  BY DEF DeliveryInv
<1> QED BY <1>1, Invariance, PTL

-----------------------------------------------------------------------------
(* A watcher only runs with a provider that the operator knows: in another  *)
(* spelling it has no credentials.                                          *)
LEMMA ProviderKnown ==
  ASSUME DeliveryInv, config # Down
  PROVE  /\ env.PROVIDER \in {"github", "artifactory"}
         /\ ToLower(env.PROVIDER) = env.PROVIDER
<1>1. env # NoPod /\ ~Fatal(env) /\ env.credentials = Credentials(env.PROVIDER)
  BY DEF DeliveryInv, TypeOK, CredentialsInv
<1>2. DOMAIN env.credentials # {}
  BY <1>1 DEF Fatal
<1>3. env.PROVIDER \in {"github", "artifactory"}
  BY <1>1, <1>2 DEF Credentials
<1> QED BY <1>3 DEF ToLower

(* The package is the one that the URL means, since the watcher has started *)
(* with it.                                                                 *)
LEMMA PackageDocumented ==
  ASSUME HostNamed, DeliveryInv, config # Down, env.IMAGE_BASE = ImageBase(spec),
         env.PROVIDER = "github"
  PROVE  parseImageBase(env.IMAGE_BASE) = PackageOf(spec.url)
<1>1. parseImageBase(env.IMAGE_BASE).valid
  BY ProviderKnown DEF DeliveryInv, TypeOK, Fatal
<1>2. spec.url # Unset
  <2> SUFFICES ASSUME spec.url = Unset PROVE FALSE
    OBVIOUS
  <2>1. env.IMAGE_BASE = <<>>
    BY DEF ImageBase
  <2>2. BeforeFirst(<<>>, ":") = <<>> /\ Positions(<<>>, "/") = {}
    BY DEF BeforeFirst, Has, Positions
  <2>3. Cardinality(Positions(BeforeFirst(<<>>, ":"), "/")) = 0
    BY <2>2, FS_EmptySet
  <2> QED BY <1>1, <2>1, <2>3 DEF parseImageBase, Invalid
<1>3. spec.url \in FieldValues["url"] \ {Unset} /\ env.IMAGE_BASE = Written(spec.url)
  BY <1>2 DEF DeliveryInv, TypeOK, Fields, ImageBase
<1>4. IsReference(spec.url) /\ (spec.url.host # NoTag \/ Len(spec.url.path) <= 2)
  BY <1>3, UrlAssumption DEF HostNamed
<1> QED BY <1>1, <1>3, <1>4, ParsedAsMeant

(* Where the operator finds nothing to change, the watcher runs with what   *)
(* the documentation says of the spec: whatever specs, URLs, pushes and     *)
(* restarts there are.                                                      *)
THEOREM Documentation ==
  ASSUME HostNamed
  PROVE  Spec => []ConfigAsDocumented
<1>1. DeliveryInv => ConfigAsDocumented
  <2> SUFFICES ASSUME DeliveryInv, config # Down, ~NeedsUpdate(spec, env),
                      NEW field \in DOMAIN config \ {"ReconcilePoliciesFromChecksum"}
               PROVE  config[field] = Documented(spec)[field]
    BY DEF ConfigAsDocumented
  <2>1. config = loadConfig(env)
    BY DEF DeliveryInv, TypeOK
  <2>2. /\ env.IMAGE_BASE = ImageBase(spec)
        /\ env.POLL_INTERVAL = getEnvOrDefault(spec.pollingInterval, 60)
        /\ env.PROVIDER = getEnvOrDefault(spec.provider, "github")
        /\ getEnvOrDefault(env.POLL_FOR_TAG_CHANGES, TRUE)
               = getEnvOrDefault(spec.pollForTagChanges, TRUE)
    BY DEF NeedsUpdate
  <2>3. env.PROVIDER \in {"github", "artifactory"} /\ ToLower(env.PROVIDER) = env.PROVIDER
    BY ProviderKnown
  <2>4. config.ImageBase = Documented(spec).ImageBase
    BY <2>1, <2>2 DEF loadConfig, Documented
  <2>5. config.Package = Documented(spec).Package
    <3>1. CASE env.PROVIDER = "github"
      BY <2>1, <2>2, <2>3, <3>1, PackageDocumented DEF loadConfig, Documented
    <3>2. CASE env.PROVIDER # "github"
      BY <2>1, <2>2, <2>3, <3>2 DEF loadConfig, Documented
    <3> QED BY <3>1, <3>2
  <2>6. config.Provider = Documented(spec).Provider
    BY <2>1, <2>2, <2>3 DEF loadConfig, Documented
  <2>7. config.PollInterval = Documented(spec).PollInterval
    <3>1. env.POLL_INTERVAL # Unset
      BY <2>2, UnsetAssumption DEF getEnvOrDefault
    <3> QED BY <2>1, <2>2, <3>1 DEF loadConfig, Documented, getEnvOrDefault
  <2>8. config.PollForTagChanges = Documented(spec).PollForTagChanges
    BY <2>1, <2>2 DEF loadConfig, Documented
  <2>9. field \in {"ImageBase", "Package", "Provider", "PollInterval", "PollForTagChanges"}
    BY <2>1 DEF loadConfig
  <2> QED BY <2>4, <2>5, <2>6, <2>7, <2>8, <2>9
<1> QED BY <1>1, Invariance, PTL

-----------------------------------------------------------------------------
(* The registry. *)

(* What is left of the tags are some of them. *)
LEMMA WithoutIs ==
  ASSUME NEW S, NEW tags \in Seq(S), NEW taken
  PROVE  Without(tags, taken) \in Seq(S)
<1> DEFINE kept == {i \in DOMAIN tags : tags[i] \notin taken}
           length == Cardinality(kept)
           at(n) == CHOOSE i \in kept : Cardinality({j \in kept : j <= i}) = n
<1>1. DOMAIN tags = 1..Len(tags) /\ Len(tags) \in Nat /\ \A i \in 1..Len(tags) : tags[i] \in S
  BY SeqDomain
<1>2. kept \in SUBSET (1..Len(tags))
  BY <1>1
<1>3. length \in Nat
  <2>1. 1 \in Int /\ Len(tags) \in Int
    BY <1>1
  <2>2. IsFiniteSet(1..Len(tags))
    BY <2>1, FS_Interval
  <2>3. IsFiniteSet(kept)
    BY <1>2, <2>2, FS_Subset
  <2> QED BY <2>3, FS_CardinalityType
<1>4. Without(tags, taken) = [n \in 1..length |-> tags[at(n)]]
  BY DEF Without
<1> HIDE DEF kept
<1>5. ASSUME NEW n \in 1..length PROVE tags[at(n)] \in S
  <2>1. \E i \in kept : Cardinality({j \in kept : j <= i}) = n
    BY <1>1, <1>2, Place
  <2>2. at(n) \in kept
    BY <2>1
  <2> QED BY <1>1, <1>2, <2>2
<1> HIDE DEF length, at
<1>6. [n \in 1..length |-> tags[at(n)]] \in [1..length -> S]
  BY <1>5
<1> QED BY <1>3, <1>4, <1>6, FunctionIsSeq

(* What is on sale in the registry is listed. *)
(* Every repository stays a list of versions whose tags are words.          *)
RegistryInv == \A repository \in DOMAIN registry : IsListing(registry[repository])

IsTagged(version) == IsVersion(version) /\ \A tag \in Range(version.tags) : IsWord(tag)

LEMMA Listing ==
  ASSUME NEW V, \A version \in V : IsTagged(version), NEW versions \in Seq(V)
  PROVE  IsListing(versions)
<1>1. versions \in Seq(Range(versions)) /\ Range(versions) \subseteq V
  BY SeqOfRange, RangeOfSeq
<1> QED BY <1>1 DEF IsListing, IsSeq, IsTagged

LEMMA Listed ==
  ASSUME NEW versions, IsListing(versions)
  PROVE  /\ versions \in Seq(Range(versions))
         /\ DOMAIN versions = 1..Len(versions) /\ Len(versions) \in Nat
         /\ \A i \in DOMAIN versions : IsTagged(versions[i])
         /\ \A version \in Range(versions) : IsTagged(version)
<1>1. versions \in Seq(Range(versions)) /\ \A version \in Range(versions) : IsTagged(version)
  BY DEF IsListing, IsSeq, IsTagged
<1>2. DOMAIN versions = 1..Len(versions) /\ Len(versions) \in Nat
  BY <1>1, SeqDomain
<1>3. \A i \in DOMAIN versions : versions[i] \in Range(versions)
  BY DEF Range
<1> QED BY <1>1, <1>2, <1>3

(* The newest version is one of the list. *)
LEMMA NewestIs ==
  ASSUME NEW versions, IsListing(versions), versions # <<>>
  PROVE  /\ Newest(versions) \in Nat
         /\ \E i \in DOMAIN versions : versions[i].updated = Newest(versions)
<1> DEFINE length == Len(versions)
           f == [i \in 1..length |-> versions[i].updated]
<1>1. length \in Nat \ {0} /\ DOMAIN versions = 1..length
  BY Listed, EmptySeq
<1>2. \A i \in 1..length : versions[i].updated \in Nat
  BY <1>1, Listed DEF IsTagged, IsVersion
<1>3. f \in [1..length -> Nat]
  BY <1>2
<1>4. {f[i] : i \in 1..length} = {versions[i].updated : i \in DOMAIN versions}
  BY <1>1
<1> HIDE DEF f, length
<1>5. Max({f[i] : i \in 1..length}) \in {f[i] : i \in 1..length}
  BY <1>1, <1>3, GreatestOfList
<1>6. Newest(versions) \in {versions[i].updated : i \in DOMAIN versions}
  BY <1>4, <1>5 DEF Newest
<1> QED BY <1>1, <1>2, <1>6

(* A version without some of its tags is one. *)
LEMMA UntaggedIs ==
  ASSUME NEW version, IsTagged(version), NEW taken
  PROVE  IsTagged([version EXCEPT !.tags = Without(@, taken)])
<1> DEFINE tags == version.tags
           left == Without(tags, taken)
           untagged == [tags |-> left, updated |-> version.updated, layers |-> version.layers]
<1>1. version = [tags |-> tags, updated |-> version.updated, layers |-> version.layers]
  BY DEF IsTagged, IsVersion
<1>2. [version EXCEPT !.tags = Without(@, taken)] = untagged
  BY <1>1
<1>3. tags \in Seq(Range(tags)) /\ \A tag \in Range(tags) : IsWord(tag)
  BY DEF IsTagged, IsVersion, IsSeq
<1> HIDE DEF tags
<1>4. left \in Seq(Range(tags))
  BY <1>3, WithoutIs
<1> HIDE DEF left
<1>5. left \in Seq(Range(left)) /\ Range(left) \subseteq Range(tags)
  BY <1>4, SeqOfRange, RangeOfSeq
<1>6. \A tag \in Range(left) : IsWord(tag)
  BY <1>3, <1>5
<1>7. IsVersion(untagged)
  BY <1>5 DEF IsTagged, IsVersion, IsSeq
<1>8. IsTagged(untagged)
  BY <1>6, <1>7 DEF IsTagged
<1> QED BY <1>2, <1>8

LEMMA PushLists ==
  ASSUME NEW versions, IsListing(versions), NEW pushed \in Pushes,
         NEW untagged, untagged = [i \in DOMAIN versions |->
             [versions[i] EXCEPT !.tags = Without(@, Range(pushed.tags))]],
         NEW version, version = [tags |-> pushed.tags, layers |-> pushed.layers,
             updated |-> IF versions = <<>> THEN 1 ELSE Newest(versions) + 1]
  PROVE  IsListing(Append(untagged, version)) /\ IsListing(<<version>> \o untagged)
<1> DEFINE U == {[versions[i] EXCEPT !.tags = Without(@, Range(pushed.tags))] : i \in DOMAIN versions}
           V == U \cup {version}
<1>1. DOMAIN versions = 1..Len(versions) /\ Len(versions) \in Nat
      /\ \A i \in DOMAIN versions : IsTagged(versions[i])
  BY Listed
<1>2. \A v \in U : IsTagged(v)
  <2>1. ASSUME NEW i \in DOMAIN versions
        PROVE  IsTagged([versions[i] EXCEPT !.tags = Without(@, Range(pushed.tags))])
    <3> DEFINE old == versions[i]
               taken == Range(pushed.tags)
    <3>1. IsTagged(old)
      BY <1>1
    <3> HIDE DEF old, taken
    <3>2. IsTagged([old EXCEPT !.tags = Without(@, taken)])
      BY <3>1, UntaggedIs
    <3> QED BY <3>2 DEF old, taken
  <2> QED BY <2>1
<1>3. version.updated \in Nat
  BY NewestIs
<1>4. IsTagged(version)
  <2> DEFINE first == [tags |-> pushed.tags, updated |-> 1, layers |-> pushed.layers]
  <2>1. IsListing(<<first>>)
    BY PushesAssumption
  <2>2. first \in Range(<<first>>)
    <3>1. 1 \in DOMAIN <<first>> /\ <<first>>[1] = first
      OBVIOUS
    <3> QED BY <3>1 DEF Range
  <2>3. IsTagged(first)
    BY <2>1, <2>2, Listed
  <2>4. /\ version.tags = first.tags /\ version.layers = first.layers
        /\ version = [tags |-> version.tags, updated |-> version.updated, layers |-> version.layers]
    OBVIOUS
  <2> HIDE DEF first
  <2> QED BY <1>3, <2>3, <2>4 DEF IsTagged, IsVersion
<1>5. untagged \in [1..Len(versions) -> V]
  BY <1>1
<1>6. \A v \in V : IsTagged(v)
  BY <1>2, <1>4
<1>7. version \in V
  OBVIOUS
<1> HIDE DEF V, U
<1>8. untagged \in Seq(V)
  BY <1>1, <1>5, FunctionIsSeq
<1>9. <<version>> \in Seq(V)
  BY <1>7
<1>10. Append(untagged, version) \in Seq(V) /\ <<version>> \o untagged \in Seq(V)
  BY <1>7, <1>8, <1>9, AppendProperties, ConcatProperties
<1> QED BY <1>6, <1>10, Listing

LEMMA RegistryPreserved ==
  ASSUME RegistryInv, [Next]_vars
  PROVE  RegistryInv'
<1>1. CASE Push
  <2>1. PICK repository \in DOMAIN registry, pushed \in Pushes :
           LET versions == registry[repository]
               untagged == [i \in DOMAIN versions |->
                   [versions[i] EXCEPT !.tags = Without(@, Range(pushed.tags))]]
               version == [tags |-> pushed.tags, layers |-> pushed.layers,
                           updated |-> IF versions = <<>> THEN 1 ELSE Newest(versions) + 1]
           IN  \E list \in {Append(untagged, version), <<version>> \o untagged} :
                   registry' = [registry EXCEPT ![repository] = list]
    BY <1>1 DEF Push
  <2> DEFINE versions == registry[repository]
             untagged == [i \in DOMAIN versions |->
                 [versions[i] EXCEPT !.tags = Without(@, Range(pushed.tags))]]
             version == [tags |-> pushed.tags, layers |-> pushed.layers,
                         updated |-> IF versions = <<>> THEN 1 ELSE Newest(versions) + 1]
  <2>2. PICK list \in {Append(untagged, version), <<version>> \o untagged} :
           registry' = [registry EXCEPT ![repository] = list]
    BY <2>1
  <2>3. IsListing(versions)
    BY DEF RegistryInv
  <2>4. IsListing(Append(untagged, version)) /\ IsListing(<<version>> \o untagged)
    BY <2>3, PushLists
  <2>5. IsListing(list)
    BY <2>2, <2>4
  <2> QED BY <2>2, <2>5 DEF RegistryInv
<1>2. CASE ~Push
  <2>1. registry' = registry
    BY <1>2 DEF Next, Reconcile, CreatePod, DeletePod, LeaveAlone, StartWatcher,
                RestartWatcher, WatchLoop, EditSpec, vars
  <2> QED BY <2>1 DEF RegistryInv
<1> QED BY <1>1, <1>2

LEMMA VersionIdIs == IsWord(VersionId)
BY DEF IsWord, VersionId

LEMMA VersionsListed ==
  ASSUME RegistryInv, NEW repository
  PROVE  IsListing(VersionsIn(repository))
<1>1. <<>> \in Seq(Range(<<>>)) /\ Range(<<>>) = {}
  BY DEF Range
<1>2. IsListing(<<>>)
  BY <1>1 DEF IsListing, IsSeq
<1> QED BY <1>2 DEF RegistryInv, VersionsIn

LEMMA TagsOf ==
  ASSUME NEW version, IsTagged(version)
  PROVE  /\ Len(version.tags) \in Nat
         /\ \A i \in 1..Len(version.tags) : IsWord(version.tags[i])
         /\ version.tags # <<>> => Len(version.tags) > 0
<1> DEFINE tags == version.tags
<1>1. tags \in Seq(Range(tags)) /\ \A tag \in Range(tags) : IsWord(tag)
  BY DEF IsTagged, IsVersion, IsSeq
<1> HIDE DEF tags
<1>2. Len(tags) \in Nat /\ \A i \in 1..Len(tags) : tags[i] \in Range(tags)
  BY <1>1, SeqDomain
<1>3. tags # <<>> => Len(tags) > 0
  BY <1>1, <1>2, EmptySeq
<1> QED BY <1>1, <1>2, <1>3 DEF tags

(* GitHub's newest tag is one of the newest version's, or made up; that of  *)
(* Artifactory one of the last version with tags.                           *)
LEMMA LatestOnGitHub ==
  ASSUME NEW versions, IsListing(versions), versions # <<>>
  PROVE  IsWord(getLatestTagOrDigest(versions))
<1> DEFINE S == {i \in DOMAIN versions : versions[i].updated = Newest(versions)}
           latest == Min(S)
<1>1. DOMAIN versions = 1..Len(versions) /\ \A i \in DOMAIN versions : IsTagged(versions[i])
  BY Listed
<1>2. S \in SUBSET Nat
  BY <1>1
<1>3. S # {}
  BY NewestIs
<1>4. latest \in DOMAIN versions
  <2>1. latest \in S
    <3> HIDE DEF S
    <3> QED BY <1>2, <1>3, Least
  <2> QED BY <2>1
<1>5. getLatestTagOrDigest(versions) =
          IF versions[latest].tags = <<>> THEN VersionId ELSE versions[latest].tags[1]
  BY DEF getLatestTagOrDigest
<1> DEFINE version == versions[latest]
<1>6. IsTagged(version)
  BY <1>1, <1>4
<1> HIDE DEF S, version
<1>7. version.tags # <<>> => IsWord(version.tags[1])
  <2>1. version.tags # <<>> => 1 \in 1..Len(version.tags)
    BY <1>6, TagsOf
  <2> QED BY <1>6, <2>1, TagsOf
<1> QED BY <1>5, <1>7, VersionIdIs DEF version

LEMMA LatestOnArtifactory ==
  ASSUME NEW versions, IsListing(versions), Tagged(versions) # {}
  PROVE  IsWord(getLatestArtifactoryTag(versions))
<1> DEFINE latest == Max(Tagged(versions))
           version == versions[latest]
<1>1. DOMAIN versions = 1..Len(versions) /\ Len(versions) \in Nat
      /\ \A i \in DOMAIN versions : IsTagged(versions[i])
  BY Listed
<1>2. Tagged(versions) \in SUBSET Nat /\ \A i \in Tagged(versions) : i <= Len(versions)
  BY <1>1 DEF Tagged
<1>3. latest \in Tagged(versions)
  BY <1>1, <1>2, Greatest
<1>4. version.tags # <<>> /\ IsTagged(version)
  BY <1>1, <1>3 DEF Tagged
<1>5. getLatestArtifactoryTag(versions) = version.tags[Len(version.tags)]
  BY DEF getLatestArtifactoryTag, Last
<1> HIDE DEF version
<1>6. Len(version.tags) \in 1..Len(version.tags)
  BY <1>4, TagsOf
<1> QED BY <1>4, <1>5, <1>6, TagsOf

LEMMA NewestTagIs ==
  ASSUME RegistryInv, NEW c, NewestTag(c) # NoTag
  PROVE  IsWord(NewestTag(c))
<1> DEFINE versions == VersionsIn(AskedRepository(c))
<1>1. IsListing(versions)
  BY VersionsListed
<1>2. NewestTag(c) =
         IF c.Provider = "github"
         THEN IF versions = <<>> THEN NoTag ELSE getLatestTagOrDigest(versions)
         ELSE IF Tagged(versions) = {} THEN NoTag ELSE getLatestArtifactoryTag(versions)
  BY DEF NewestTag
<1> HIDE DEF versions
<1> QED BY <1>1, <1>2, LatestOnGitHub, LatestOnArtifactory

(* The tag of a pass. *)
LEMMA LatestIs ==
  ASSUME RegistryInv, NEW url, IsReference(url), NEW c, c.ImageBase = Written(url),
         LatestOf(c) # NoTag
  PROVE  IsTag(LatestOf(c)) /\ (url.port = NoTag => ~Has(LatestOf(c), "/"))
<1>1. LatestOf(c) \in {PinnedTag(Written(url)), Identifier(Written(url)),
                       ArtifactoryTag(Written(url)), NewestTag(c)}
  BY DEF LatestOf
<1>2. CASE LatestOf(c) = NewestTag(c)
  BY <1>2, NewestTagIs, WordIsTag
<1>3. CASE LatestOf(c) # NewestTag(c)
  <2> DEFINE tag == LatestOf(c)
  <2>1. tag \in {PinnedTag(Written(url)), Identifier(Written(url)), ArtifactoryTag(Written(url))}
    BY <1>1, <1>3
  <2>2. tag # NoTag
    OBVIOUS
  <2> HIDE DEF tag
  <2>3. IsTag(tag) /\ (url.port = NoTag => ~Has(tag, "/"))
    BY <2>1, <2>2, UrlTagIs
  <2> QED BY <2>3 DEF tag
<1> QED BY <1>2, <1>3

-----------------------------------------------------------------------------
(* A pass. *)

(* The file that is applied is a document of the version. *)
LEMMA FirstDocumentIs ==
  ASSUME NEW version, IsTagged(version), NEW i \in FilesOf(version)
  PROVE  /\ FirstDocument(version, i) \in AllDocuments(version)
         /\ FirstDocument(version, i) = [key |-> FirstDocument(version, i).key,
                                         spec |-> FirstDocument(version, i).spec]
<1> DEFINE file == version.layers[i]
           document == file[1]
<1>1. i \in DOMAIN version.layers /\ file # <<>> /\ document # NoPolicy
  BY DEF FilesOf
<1>2. file \in Range(version.layers)
  BY <1>1 DEF Range
<1>3. file \in Seq(Range(file))
      /\ \A d \in Range(file) : d = NoPolicy \/ d = [key |-> d.key, spec |-> d.spec]
  BY <1>2 DEF IsTagged, IsVersion, IsSeq
<1>4. FirstDocument(version, i) = document
  BY DEF FirstDocument
<1> HIDE DEF file
<1>5. 1 \in DOMAIN file
  <2>1. DOMAIN file = 1..Len(file) /\ Len(file) \in Nat
    BY <1>3, SeqDomain
  <2>2. Len(file) # 0
    BY <1>1, <1>3, EmptySeq
  <2> QED BY <2>1, <2>2
<1>6. document \in Range(file)
  BY <1>5 DEF Range
<1>7. document \in AllDocuments(version)
  <2>1. Range(file) \in {Range(layer) : layer \in Range(version.layers)}
    BY <1>2
  <2>2. document \in UNION {Range(layer) : layer \in Range(version.layers)}
    BY <1>6, <2>1
  <2> QED BY <1>1, <2>2 DEF AllDocuments
<1> QED BY <1>1, <1>3, <1>4, <1>6, <1>7

(* What is pulled is in the repository that the URL names, under the tag of *)
(* the pass.                                                                *)
LEMMA PulledFromUrl ==
  ASSUME HostNamed, DeliveryInv, RegistryInv, config # Down,
         NEW url \in FieldValues["url"] \ {Unset}, config.ImageBase = Written(url),
         NEW tag, tag = LatestOf(config), tag # NoTag,
         NEW repository, repository = IF config.Provider = "github"
                                      THEN ParseReference(PullReference(config.ImageBase, tag))
                                      ELSE OrasReference(PullReference(config.ImageBase, tag)),
         NEW version \in Pulled(VersionsIn(repository),
                                ReferenceTag(PullReference(config.ImageBase, tag)))
  PROVE  version \in Pulled(VersionsIn(RepositoryOf(url)), tag)
<1>1. IsReference(url) /\ (url.host # NoTag \/ Len(url.path) <= 2)
  BY UrlAssumption DEF HostNamed
<1>2. IsTag(tag) /\ (url.port = NoTag => ~Has(tag, "/"))
  BY <1>1, LatestIs
<1>3. ReferenceTag(PullReference(config.ImageBase, tag)) = tag
  BY <1>1, <1>2, PullReferenceIs
<1>4. repository \in DOMAIN InitialRegistry
  <2>1. VersionsIn(repository) # <<>>
    <3> SUFFICES ASSUME VersionsIn(repository) = <<>> PROVE FALSE
      OBVIOUS
    <3>1. Range(<<>>) = {}
      BY DEF Range
    <3> QED BY <3>1 DEF Pulled
  <2>2. repository \in DOMAIN registry
    BY <2>1 DEF VersionsIn
  <2> QED BY <2>2 DEF DeliveryInv, TypeOK
<1>5. repository # Invalid /\ repository.host[1] \in Hosts
  BY <1>4, RegistryAssumption DEF Invalid
<1>6. repository = RepositoryOf(url)
  <2>1. CASE config.Provider = "github"
    <3>1. parseImageBase(Written(url)).valid
      BY <2>1 DEF DeliveryInv, TypeOK, loadConfig, Fatal
    <3>2. url.host # NoTag /\ url.port = NoTag
      BY <1>1, <3>1, ParsedHost
    <3> QED BY <1>1, <1>2, <2>1, <3>2, ParsedRepository
  <2>2. CASE config.Provider # "github"
    <3>1. repository = OrasReference(PullReference(Written(url), tag))
      BY <2>2
    <3> QED BY <1>1, <1>2, <1>5, <3>1, OrasRepository
  <2> QED BY <2>1, <2>2
<1> QED BY <1>3, <1>6

(* What a pass applies, it has from that version. *)
LEMMA AppliedFrom ==
  ASSUME NEW version, IsTagged(version), NEW tag,
         policies' \in Applied(version, ToApply(version, tag), tag),
         NEW k \in Keys, policies'[k] # policies[k]
  PROVE  /\ policies'[k].tag = tag
         /\ [key |-> k, spec |-> policies'[k].spec] \in AllDocuments(version)
<1> DEFINE files == ToApply(version, tag)
           keys == {FirstDocument(version, i).key : i \in files}
<1>1. PICK last \in [keys -> files] :
         /\ \A key \in keys : FirstDocument(version, last[key]).key = key
         /\ policies' = [key \in Keys |->
                IF key \in keys
                THEN [spec |-> FirstDocument(version, last[key]).spec, tag |-> tag]
                ELSE policies[key]]
  BY DEF Applied
<1>2. k \in keys
  BY <1>1
<1>3. policies'[k] = [spec |-> FirstDocument(version, last[k]).spec, tag |-> tag]
  BY <1>1, <1>2
<1>4. last[k] \in FilesOf(version) /\ FirstDocument(version, last[k]).key = k
  BY <1>1, <1>2 DEF ToApply
<1> HIDE DEF files, keys
<1>5. /\ FirstDocument(version, last[k]) \in AllDocuments(version)
      /\ FirstDocument(version, last[k]) = [key |-> k, spec |-> FirstDocument(version, last[k]).spec]
  BY <1>4, FirstDocumentIs
<1> QED BY <1>3, <1>5

(* A step that is not one of the main loop of a watcher changes neither     *)
(* bookmark nor cluster, or it takes the watcher with it.                   *)
LEMMA OnlyWatchLoopWrites ==
  ASSUME DeliveryInv, [Next]_vars, <<lastFile, policies>>' # <<lastFile, policies>>,
         config' # Down
  PROVE  WatchLoop
BY DEF Next, Reconcile, CreatePod, DeletePod, LeaveAlone, StartWatcher, RestartWatcher,
       EditSpec, Push, vars

(* Of every URL, provider, interval and history of pushes: what a pass      *)
(* writes is in the repository that the URL names, under the tag that the   *)
(* label says.                                                              *)
THEOREM Pulling ==
  ASSUME HostNamed
  PROVE  Spec => PulledAsWritten
<1> DEFINE under(url, tag) == Pulled(VersionsIn(RepositoryOf(url)), tag)
           Step(url) ==
               (<<lastFile, policies>>' # <<lastFile, policies>> /\ config' # Down
                   /\ config.ImageBase = Written(url)) =>
                   /\ \A k \in Keys : policies'[k] # policies[k] =>
                          \E version \in under(url, policies'[k].tag) :
                              [key |-> k, spec |-> policies'[k].spec] \in AllDocuments(version)
                   /\ lastFile' # lastFile => under(url, lastFile') # {}
<1>1. RegistryInv /\ DeliveryInv /\ [Next]_vars =>
          [\A url \in FieldValues["url"] \ {Unset} : Step(url)]_vars
  <2> SUFFICES ASSUME RegistryInv, DeliveryInv, [Next]_vars,
                      NEW url \in FieldValues["url"] \ {Unset},
                      <<lastFile, policies>>' # <<lastFile, policies>>, config' # Down,
                      config.ImageBase = Written(url)
               PROVE  /\ \A k \in Keys : policies'[k] # policies[k] =>
                             \E version \in under(url, policies'[k].tag) :
                                 [key |-> k, spec |-> policies'[k].spec] \in AllDocuments(version)
                      /\ lastFile' # lastFile => under(url, lastFile') # {}
    OBVIOUS
  <2>1. WatchLoop
    BY OnlyWatchLoopWrites
  <2>2. PICK tag \in {LatestOf(config)} \ {NoTag} :
           \E reference \in {PullReference(config.ImageBase, tag)} :
           \E repository \in {IF config.Provider = "github" THEN ParseReference(reference)
                                                            ELSE OrasReference(reference)} :
           \E version \in Pulled(VersionsIn(repository), ReferenceTag(reference)) :
           \E files \in {ToApply(version, tag)} :
               /\ policies' \in Applied(version, files, tag)
               /\ lastFile' = IF isTagChanged(config, tag) \/ files # {} THEN tag ELSE lastFile
    BY <2>1 DEF WatchLoop
  <2> DEFINE reference == PullReference(config.ImageBase, tag)
             repository == IF config.Provider = "github" THEN ParseReference(reference)
                                                         ELSE OrasReference(reference)
  <2>3. PICK version \in Pulled(VersionsIn(repository), ReferenceTag(reference)) :
           /\ policies' \in Applied(version, ToApply(version, tag), tag)
           /\ lastFile' \in {tag, lastFile}
    BY <2>2
  <2>4. version \in under(url, tag)
    <3>1. config # Down
      BY <2>1 DEF WatchLoop
    <3> QED BY <2>2, <3>1, PulledFromUrl
  <2>5. IsTagged(version)
    <3>1. IsListing(VersionsIn(RepositoryOf(url)))
      BY VersionsListed
    <3>2. version \in Range(VersionsIn(RepositoryOf(url)))
      BY <2>4 DEF Pulled
    <3> QED BY <3>1, <3>2, Listed
  <2>6. \A k \in Keys : policies'[k] # policies[k] =>
            /\ policies'[k].tag = tag
            /\ [key |-> k, spec |-> policies'[k].spec] \in AllDocuments(version)
    BY <2>3, <2>5, AppliedFrom
  <2> QED BY <2>3, <2>4, <2>6
<1>2. Init => RegistryInv
  BY RegistryAssumption DEF Init, RegistryInv
<1>3. Spec => []RegistryInv
  BY <1>2, RegistryPreserved, PTL DEF Spec
<1> QED BY <1>1, <1>3, Invariance, PTL DEF Spec, PulledAsWritten
=============================================================================
