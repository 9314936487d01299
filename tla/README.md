# Verification of the Kyverno Artifact Operator

TLA+ models of the three programs in this repository's one binary (`src/cmd/main.go`
dispatches on its arguments) and of the system they form, the TLC runs that check them, and
TLAPS proofs about the collector, the watcher, the operator, the way from a spec to the policies,
and the composition. Everything is translated from the source under `src/`; a reference like
`gc.go:62` is to the file of that name under `src/internal`.

## 1. The system

A `KyvernoArtifact` names an OCI artifact that contains Kyverno policies. The **operator**
keeps one **watcher** pod per artifact; the watcher pulls the artifact and writes its
policies into the cluster; the **garbage collector** deletes policies whose artifact or
watcher has disappeared. The three share no memory. They meet in the Kubernetes API
server: the operator creates the pod that is the watcher, the watcher labels the policies
by which the collector judges them, and the collector looks for the artifacts and pods by
name.

| Component | State | Operations | What is hard | What makes it correct |
|---|---|---|---|---|
| Garbage collector `gc/gc.go` | `orphanedPolicies`, an in-memory map from policy key to the time it was first seen orphaned; the list of the cycle | list, `isOrphaned` (two API calls), a second `isOrphaned`, delete | artifacts, pods and policies change between any two calls; calls fail; the map is lost on restart | healthy artifacts keep their policies; one gap is forgiven; only the watcher's policies are deleted; abandoned ones are deleted in the end |
| Watcher, main loop `watcher/watcher.go`, `helpers.go` | `last_seen` (the bookmark, a file in an `emptyDir`); tag, checksums and files of the pass | `tagChanged`, pinned mode, pull, `checksumsChanged`, Get and Create/Update per manifest, bookmark | a push between looking a tag up and pulling it; a crash between two applies or between truncating and writing the bookmark; failing calls; drift | the cluster converges to the wanted version; labels tell which version a policy is of; a bookmark does not lie about the latest pass |
| Watcher, cleanup `watcher.go:76-184` | list of policies to delete | list by label and delete, per kind; `os.Exit` | runs beside the main loop, which goes on applying | the process ends; policies are gone |
| Operator `controller/kyvernoartifact_controller.go` | informer caches, work queue | `Reconcile`: get artifact, get pod, create or compare and delete | caches lag behind the API server on which it acts; errors and requeues; restarts; two operators during a rolling update | every artifact ends with one pod that runs its present configuration and image; a good pod is not deleted |
| Operator metrics `updateMetrics` | two gauges | recounted on some paths of `Reconcile` | the count comes from a cache and is not repeated | right once everything is quiet |
| Configuration `controller:81-172`, `watcher/schema.go` | the environment of the pod | build, compare, `loadConfig` | defaults on both sides; fields that are compared and fields that are not | the running watcher has the documented configuration |
| Image references `schema.go:193`, `watcher.go`, `helpers.go` | none | `parseImageBase`, tag, repository, reference to pull | one string is taken apart in five places | what is pulled is what the URL names |
| Registry access and manifests on disk `watcher.go` | files in `/tmp` | newest version, pull, labels, documents | ties, missing tags, several documents | every policy of the wanted version is applied |
| Manager, command line, Kubernetes client, API types | none | wiring | leader election is off by default | see section 7 |

The interactions in detail: the operator's `Delete` of a pod sends the watcher SIGTERM,
which starts the cleanup; the pod's end makes the collector see an artifact without
watcher; a pod recreated by the operator has a new `emptyDir` and so no bookmark. Deleting
an artifact leaves the pod to Kubernetes' own garbage collection by owner reference, and
the policies to the cleanup or to the collector.

## 2. Modules

| Module | Contents |
|---|---|
| `PolicyGC` | the collector, one action per API call, and the cluster around it |
| `PolicyGCHistory` | history variables, the inductive invariant, the safety properties |
| `PolicyGCIncarnations` | one more history variable: objects that follow one another under a key |
| `GracefulCollection` | abstract: what the collector promises |
| `PolicyGCProofs` | theorems about `PolicyGCHistory` |
| `Watcher` | main loop, termination goroutine and environment of one watcher |
| `WatcherHistory` | history variables, the inductive invariant, the safety properties |
| `PolicySync` | abstract: what a pass of the watcher promises |
| `WatcherProofs` | theorems about `WatcherHistory` |
| `WatcherPassProofs` | more of them: what a bookmark, a checksum pass and a cleanup promise |
| `Operator` | API server, watch events, caches, queue, worker; one or more operators |
| `OperatorProofs` | theorems about `Operator` |
| `ImageRef` | the operators on image references |
| `ImageRefProofs` | lemmas about numbers and sequences; theorems about `ImageRef` |
| `Configuration` | from a spec to an environment and from that to the watcher's `Config` |
| `ArtifactFiles` | from a repository to the manifests that are applied |
| `Delivery` | the three before in one system: specs, pods, registry and cluster |
| `DeliveryProofs` | theorems about `Delivery` |
| `System` | the collector with the operator, the kubelet and several watchers |
| `SystemProofs` | theorems about `System` |
| `MC...` | instances for TLC: names, versions, bounds |

`XHistory` extends `X` with variables that record what happened. They never occur in a
guard of `X`, so `HSpec` has the behaviours of `Spec`; the properties need them because
they relate a step to earlier ones.

Definitions with the comment `Mutant:` are not part of a specification. Each is a
plausible bug in the definition that follows it; replacing that definition by it violates
the property named in `PROJECT.json`, which shows that the property says something.

### PolicyGC and gc.go

`Run` is one thread, so its program counter `pc` names the next API call and its locals
are `policyList` (what is left of the list), `policy` (the loop variable) and `recheck`
(whether the running `isOrphaned` is the second one). One cycle is `GetClients`,
`ListPolicies`, `ListClusterPolicies`, then per policy `NextPolicy`, `CheckArtifacts` and
`CheckPods`, possibly both once more, and `deletePolicy`; `EndCycle` sleeps. `Orphaned`
and `NotOrphaned` are the two results of `isOrphaned` with everything the caller does with
them. `isOrphanedLegacy`, for policies without `artifact-name`, asks for pods first. An
API error is a step with `ApiFails`; a failed delete may or may not have reached the
server. The map holds keys only: the time in it is written to the log and decides nothing.

The cluster actions are what others do: users, the operator, the kubelet and the watchers.
`WatcherApplies` is what a watcher's Create or Update means to the collector. A policy is
its three labels. `PrefixOf` is the prefix relation between artifact names, which
`checkForSpecificWatcher` uses where it means equality.

### Watcher and watcher.go, helpers.go

`pc` is the main loop's next call and `handler` that of the signal goroutine; both run at
once, as in the code. `Poll` stands for `tagChanged` and the pinned mode; `UsesUrlTag` and
`ChosenTag` say from where the tag comes, for each provider, interval and
`pollForTagChanges`. `PullImageToDir` fetches what the registry holds at that moment under
the tag looked up before. `ChecksumsChanged` compares one file per step. `GetExisting`
and `CreateOrUpdate` are the two calls of `applyResource`: `existing` becomes `"stale"`
when anyone writes the policy in between, in which case Create answers AlreadyExists and
Update a conflict, and the file is skipped. `os.WriteFile` is `TruncateLastFile` and
`WriteLastFile`.

A file is identified with the policy that it defines, and a version is a function from
files to specs, as two specs are compared by checksum only. `Crash` restarts the container
in the same pod (the bookmark survives), `Kill` and `NewPod` replace the pod (it does not).
`Push` chooses which tag is the newest afterwards, since GitHub orders by `updated_at` and
Artifactory by position.

### Operator and kyvernoartifact_controller.go

`artifacts` and `pods` are the API server; every write appends to one feed per operator,
and `DeliverArtifact` and `DeliverPod` move an event into that operator's cache and put
the key into its queue (`SetupWithManager`: `For` and `Owns`). `GetArtifact` takes a key,
`GetPod` decides, `Create` and `Delete` act. `UpdateMetrics` is one step for the list of artifacts
and one for each pod that is looked up, with the count so far in `count`. `Requeue` is both an error
and `RequeueAfter`: the key is back in the queue, at an unspecified time. `Configs` are
the compared fields taken together (URL, interval, provider, `pollForTagChanges`).
Pods are deleted gracefully: marked, and removed later by `Kubelet`. `Start` fills the
caches from a list; `Stop` is a restart, or the end of the old operator in a rolling
update. An artifact stands for its namespace and name.

### Delivery and its three parts

`Operator` and `Watcher` have the interleavings of either half over one fixed configuration;
`Delivery` is about the configuration. A reconciliation and a pass are one step each, and what
varies are the spec, field by field, and the registry.

`ImageRef` writes a reference as a sequence of words and of the separators `:` and `/`, so that
`AfterLast` and `BeforeFirst` do what `strings.Split` does in each of the five places; `Written`
and `RepositoryOf` say how a reference is spelled and what is meant by it. `Configuration` has
the operator's environment (`Environment`, `NeedsUpdate`) and the watcher's `loadConfig`, whose
`logFatal`s are `Fatal`. `ArtifactFiles` is the choice of the newest version, the layers that
become files, and what `pullImageToDirReal` keeps of a file: its first document. A file is a
sequence of documents, a document a key and a spec; `Refused` are keys that no call accepts.

### System

`System` extends `PolicyGC` and puts in the place of its cluster actions, which do anything at
any time, the parts that do them: the operator creates pods of artifacts (`CreatePod`), the
kubelet starts and ends them, watchers compare (`Compare`) and apply (`Apply`) what their artifact
defines, and a cleanup lists and deletes (`ListOwn`, `DeleteOwn`) while its main loop goes on. It deletes
ClusterPolicies only: for namespaced ones its request is wrong (section 5).
A version stays; pushes are the matter of `Watcher` and `Delivery`.

### Abstract specifications

`GracefulCollection` knows keys, objects and suspects: a visit that finds the owner lapsed makes
the key a suspect, a later one may delete. `PolicyGCHistory!CollectsGracefully` is its `Spec`
under a mapping in which `suspects` is `orphanedPolicies` and the owner has `lapsed` when it was
not healthy all through the cycle. `PolicySync` fixes a tag and a version, attempts every file
once and bookmarks the tag at the end; `Watcher!SyncsWholeVersions` is its `Spec`, with the
program counter mapped away.

## 3. Runs

| Run | Properties | Question |
|---|---|---|
| `gc_collect` | `CollectorInv`, `HealthyArtifactKeepsPolicies`, `OneGapForgiven`, `OnlyWatcherPoliciesCollected`, `AbandonedPoliciesCollected`, `CollectsGracefully` | what is never deleted, with two policies in one list and a fault anywhere; the abandoned are deleted in the end; refinement |
| `watcher_rollout` | `BookmarkCompletesPass`, `LabelsTellTheTruth`, `EventuallyRolledOut`, `CleanedUnlessRewritten`, `SyncsWholeVersions` | tag polling with a crash, a lost pod and a termination anywhere, and rollbacks; refinement |
| `watcher_checksum` | `EventuallyConverged`, `SignalEndsProcess` | checksums repair drift, overwritten tags and failures; the cleanup ends |
| `watcher_pinned` | `WatcherInv`, `OnlyUrlTagApplied`, `EventuallyConverged`, `UnchangedPoliciesLeftAlone` | pinned mode reaches the version of the URL, writes no other and nothing that is right |
| `operator_converge` | `TypeOK`, `GoodPodInv`, `EventuallySettled`, `GoodPodKept` | one operator with changes, removal, drain, eviction, error and restart |
| `operator_rolling` | `EventuallySettled`, `EventuallyCounted` | old and new operator at once; gauges |
| `delivery` | `TypeOK`, `ConfigAsDocumented`, `PulledAsWritten`, `EventuallyDelivered` | every combination of fields within two edits or pushes |
| `system` | `SystemTypeOK`, `ClusterAsExpected`, `PoliciesMatchArtifacts` | collector, pods, watchers and cleanups over a shared policy |
| `gc_recheck` | `DeletedObjectIsOrphaned` (violated) | finding 1 |
| `gc_recreated` | `EachObjectHasGrace` (violated) | finding 2 |
| `watcher_cleanup_race` | `CleanedUp` (violated) | finding 3 |
| `delivery_multidoc` | `AllDocumentsDelivered` (violated) | finding 4 |

What the properties mean:

* **`HealthyArtifactKeepsPolicies`**: an artifact that exists with an active pod ever since
  the cycle began loses no policy that nobody has written since the list. This relates the
  moments of up to six API calls.
* **`OneGapForgiven`**: every deletion follows an earlier visit of the same key, by the same
  process, in which the artifact had a gap as well.
* **`BookmarkCompletesPass`**: if `last_seen` names the tag of the latest pass, all of that
  version is in the cluster, whenever the process was interrupted. It asks that no call has failed
  and nobody else has written so far (`Undisturbed`): `applyManifests` forgives failures, and
  without checksums drift is never looked at.
* **`EventuallyRolledOut`**: without checksums the newest version is reached, with one
  exception that the property spells out. When a process dies in the middle of version 2 and
  version 1 becomes the newest again, `last_seen` still says 1, nothing has changed for
  `tagChanged`, and what was applied of version 2 stays.
* **`EventuallyConverged`**: the same with checksums, where there is no exception.
* **`LabelsTellTheTruth`**: spec and `policy-version` of a policy come from one and the same
  push, although the tag is looked up in one call and the content fetched in another.
* **`CleanedUnlessRewritten`**: when no call fails, cleanup leaves no ClusterPolicy but those
  that were written since it listed them.
* **`GoodPodKept`**: while nobody else removes pods, the operator deletes only a pod whose
  artifact has been applied again, or whose image is not its own. With removals by others
  this fails: `Delete` has no uid precondition, so a replacement that is right can be deleted
  in place of the pod that the cache showed. The pod comes back (`EventuallySettled`).
* **`EventuallySettled`**: in the end each artifact with a URL has exactly the pod it calls
  for, and no other pod is left. The exception is a Failed pod, say after an eviction:
  `Reconcile` comes back to it every five seconds and leaves it.
* **`CollectsGracefully`**, **`SyncsWholeVersions`**: the refinements of section 2.
* **`ConfigAsDocumented`**: when the operator finds nothing to change in a pod, its watcher runs
  with what the documents say of the spec. The defaults of the operator, those of the watcher
  and the two comparisons have to agree for that.
* **`PulledAsWritten`**: what a pass writes is in the repository that the URL names, under the tag
  that the label says.
* **`EventuallyDelivered`**: after all edits and pushes the wanted version, which is read off the
  parts of the URL and not off the code's way of cutting it, is in the cluster. What the code cannot
  deliver is spelled out in `Reachable`, `Noticed` and `Wanted`; section 5 lists it. Where code and
  documents differ about what is wanted, the property takes neither side: GitHub polled with a tag in
  the URL is left out, and so is interval 0 once something has been pushed to the repository.
* **`PoliciesMatchArtifacts`**: whatever cleanups, stale lists and the collector take from one
  another, in the end the policies of living artifacts are there, and no others.
* **`ClusterAsExpected`**: `System` is an implementation of `PolicyGC`'s `Init /\ [][Next]_vars`.

### Bounds

All are in the `MC` modules and the `.cfg` files. `MaxFaults` and `Bounds` count events
that could otherwise go on for ever: faults, pushes, drift, crashes, signals, applies.
They appear in the guards of those events alone, and never in a step of the program.

* Collector: the cluster is unbounded; artifacts, pods and policies change for ever. Two
  policies, one per kind, bring the order of the list and the sharing of the map. In `gc_collect`
  one artifact comes and goes, and policies also bear the name of a removed one, which is a prefix
  of its name; in `gc_recheck` and `system` there are two artifacts. One fault: each path has at most
  one call that could fail before the verdict is dropped.
* Watcher: two files, so that a pass can be half done and a version can lose a file; two tags
  and two specs; three pushes, so that an older tag comes back.
* Operator: three configurations, one without URL; two applies, so that a second
  change arrives while the first is being worked on; feeds of up to two events (one with two
  operators): the cache may be two versions behind, which is what it takes for `Create` and
  `Delete` to meet a pod other than the one looked at.
* Delivery: nine URLs (two providers, nested path, with and without tag, port and host), all values
  of the other fields, four initial specs. The secret has the keys of both providers, so that
  no pod waits for one (`HasValues` is always true here; the theorems are about any secret); two events, so that an edit can meet a push, a restart or
  another edit. A version has a file of one document, of two, of none, of an empty one, and a key that is
  refused; the pushes define a policy twice, move a tag, and come without a tag.
* System: two artifacts that both define one policy, with the same spec or another one; one has a
  policy of its own and cleans up. One fault or restart of the collector, two removals, so that a
  removed artifact's pod can be lost as well.

Deadlock is checked, except for `Operator`: once its events are used up and everything has
settled, a system without work has nothing to do.

### Fairness

* Collector: `WF(GCStep)`. `Run` is an endless loop with one thread; every call returns.
* Watcher: weak fairness of either goroutine, and of `NewPod`, which is the operator's duty.
  No fairness of pushes, drift, crashes or signals.
* Operator: the queue is first in, first out, so a key that is put back again and again is
  still taken: strong fairness of `GetArtifact` per key. Weak fairness of the worker's next
  step, the delivery of events, the start of an operator, the kubelet and ownership
  collection. A retiring operator stops in the end; nothing else makes one stop.
* Delivery: reconciliation (requeued), starts of the container (kubelet) and passes (an endless loop).
* System: the collector and, per artifact, the main loop, and the pod's life taken together (create, start,
  end). No fairness of users, evictions of living artifacts' pods, or the cleanup, which its grace
  period may cut off.

The fairness of the collector and the watcher takes that every call returns. For the client that
lists GitHub's versions this is an assumption: it has no timeout (`watcher.go:332`).

## 4. Proofs

`tlapm` checks `PolicyGCProofs`, `WatcherProofs`, `WatcherPassProofs`, `OperatorProofs`,
`ImageRefProofs`, `DeliveryProofs` and `SystemProofs`. The assumptions are the named `ASSUME`s on the
constants; the number of artifacts, policies, files, tags and events, and the length of references, tag lists
and repositories, are arbitrary. Every invariant and action property of the runs is stated by a theorem.

**Collector.** `CollectorCorrect`: `HSpec => []CollectorInv`. The properties are not
inductive; the invariant adds why they hold:

* `LoopInv`: the locals of `collectGarbage` follow its program counter; during a recheck the
  policy is in the map.
* `ListInv`: what was listed is still so, of the policies not written since.
* `VerdictInv`: a recheck means that the owner has had a gap in this cycle, and an entry in
  the map that it had one in the latest visit.

`HealthyKept`, `GapForgiven` and `OnlyWatcherPolicies` follow from it, since the only step
that deletes is `deletePolicy`. The legacy path is in scope of all of them. `Graceful` proves the
refinement of `GracefulCollection`: every action is one step of it or a stutter, and in `deletePolicy`
the invariant supplies that the key is a suspect and its owner has lapsed.

**Watcher.** `WatcherCorrect`: `HSpec => []WatcherInv`, and from it `TruthfulLabels`. The
strengthening: whatever can be pulled was published (`RegistryInv`); a pass keeps one tag
and the version that it pulled under it (`PassInv`), and works on files of that version
(`WorkInv`). `PinnedTag` shows `OnlyUrlTagApplied` for every configuration in which
`UsesUrlTag` holds, Artifactory with a tag in its URL included, which no run covers. `SyncsVersions` proves the
refinement of `PolicySync`; `PassInv` and `WorkInv` make the files still to be attempted those of the
pass's version.

`WatcherPassProofs` has the properties that span passes, processes and pods. Each has an inductive invariant
of its own beside `WatcherInv`:

* `SparesUnchanged` (`UnchangedPoliciesLeftAlone`), by `SparesInv`: what the checksums have left to
  apply is disjoint from what has been equal since the pull; the set of equal policies only shrinks
  within a pass.
* `Cleaned` (`CleanedUnlessRewritten`), by `CleanupInv`: a ClusterPolicy of the artifact is on the list
  of the cleanup or has been written since.
* `BookmarkComplete` (`BookmarkCompletesPass`), by `BookmarkInv`: the tag of a pass under way is not the one
  in `last_seen`, the files that it has attempted are as pulled, and nobody writes between a `Get` and its
  `Create` or `Update`. That is so with tag polling (`TagPolling`: an interval, and no checksum reconciliation),
  which is the theorem's hypothesis: with checksums or interval 0 a pass works on a
  tag that `last_seen` has already. Budgets never grow (`BudgetInv`), so that "no error so far" holds of all
  earlier steps too. Overwritten tags are in its scope, which no run of this property has.

**Operator.** `TypeCorrect` is the type invariant, for any number of operators. `GoodPodsKept` shows
`GoodPodKept` for one operator (`Alone`) with any number of artifacts, configurations, events and
restarts, and feeds of any length. It says something of the API server that was decided from caches,
so its invariant `GoodPodInv` accounts for the way in between, for each artifact:

* `ArtifactSeen`: cache and feed hold earlier versions of the artifact, in order, and the worker's copy
  is no older than the pod.
* `PodSeen`: cache and feed together show one pod's life, possibly with the absence before or after it.
  That is because only the operator creates pods, and it does so once it has seen the end of the last;
  and only it deletes, and so only a pod that it has seen.

So the pod that is there when `Delete` is called has the configuration of the one that `GetPod` compared,
although it may be a later version of it; if it differs from what the worker has read of the artifact, it
is of an older version.

**References.** `ParsedAsMeant`: `parseImageBase` rejects what `Written` has spelled, or finds the owner and
the package that are meant; for a path of any length. The lemmas before it say what a cut at the first or the last
separator leaves (`CutFirst`, `CutLast`, `AfterLastIs`) and how a spelling is put together (`WrittenIs`, `BaseIs`);
those after it, what the two clients ask for (`PullReferenceIs`, `ParsedRepository`, `OrasRepository`).
Induction over numbers is by the least counterexample (`Steps`, from `WFMin`).

**Delivery.** `TypeCorrect`; `Documentation`: `ConfigAsDocumented`; `Pulling`: `PulledAsWritten`. They hold for
all URLs, values of fields, repositories and pushes that are well-formed (`IsReference`, `IsListing`), and any
number of edits and restarts.

* A pod's environment is that of some spec, but not of the present one; its credentials are those of its
  provider as it is spelled (`CredentialsInv`). So a watcher that runs at all has `github` or `artifactory` in small
  letters, and the two comparisons of providers agree. The package is compared by the URL, and `ParsedAsMeant`
  says that it is the one of the URL.
* For `Pulling`, what is pulled comes from the repository of the URL or from none. With host and without
  port, both clients find host and path again. With a port, the cut at its colon leaves the host alone: GitHub's
  watcher does not start, and ORAS finds no repository with a tag. Without a host, GitHub's does not start either,
  and ORAS takes a component without a dot for the registry. The tag of a pass has no colon, wherever it comes
  from: for the newest tag this is `RegistryInv`, that pushes leave lists of versions whose tags are words.

Both need `HostNamed`: a URL has a host, or at most two components, which is all that Docker Hub has. With three
components and no host `parseImageBase` takes the first one for the host, as its comment expects
one (`schema.go:197`). `MCDelivery` asserts that the run's URLs satisfy it, one of them
without host.

**System.** `SystemTypeCorrect` and `Composition`. The latter is the step simulation of `PolicyGC`
by `System`: the type invariant is needed for the pods and labels that each part writes, and that
the collector changes no pod and no artifact follows from its actions.

Only model-checked: the liveness properties (`EventuallyConverged`, `EventuallyRolledOut`, `SignalEndsProcess`,
`AbandonedPoliciesCollected`, `EventuallySettled`, `EventuallyCounted`, `EventuallyDelivered`,
`PoliciesMatchArtifacts`), since fairness and ENABLED are beyond the prover.

## 5. Where code and documents disagree

Shown by a run:

1. `gc_recheck`: `gc.go:84` calls a deletion safe after the recheck, but both checks use the
   labels of the list. A policy that another, healthy artifact has applied since is deleted. `system`
   shows that it comes back if that artifact reconciles from checksums.
2. `gc_recreated`: `gc.go:24` says that `orphanedPolicies` tracks when policies were first detected
   as orphaned; an entry outlives its policy, and a new one under its key gets no grace period.
3. `watcher_cleanup_race`: `docs/configuration.md:35` says that policies are deleted on
   termination; the main loop may apply one, for the first time or again, after the cleanup has
   listed what to delete, and it stays.
4. `delivery_multidoc`: `watcher.go:787` says that files may hold several documents; labelling
   (`watcher.go:529`, `:571`) cuts them to the first.

Met while modelling; the models do what the code does:

* A Failed pod (an eviction) is only requeued, never replaced (`kyvernoartifact_controller.go:247`),
  although the branch is to "check if it needs to be recreated" (`:244`).
* The selector of `checkForActiveWatchers` (`gc.go:331`) matches no pod that the operator
  creates, so a policy without `artifact-name` label always counts as orphaned.
* The collector looks for an artifact by name in all namespaces (`gc.go:318`): while one artifact of a
  name lives, the policies of another of that name stay, although the repository's README (`:205`)
  has policies without a corresponding artifact cleaned up.
* A pod keeps the policies of every artifact whose name is a prefix of its own's (`gc.go:292`).
* `deleteResourcesByLabel` (`watcher.go:175`) deletes without a namespace, which cannot work
  for a namespaced `Policy`.
* `applyManifests` returns nil when files failed, and the bookmark is written
  (`watcher.go:776`).
* With interval 0 the tag is applied in every turn of a loop without pause, and a version that is
  pushed under it later too, not "once" (`helpers.go:105`; the repository's README, `:61`, has polling
  disabled).
* With provider `github` and a polling interval, the tag in the URL is ignored
  (`helpers.go:142`), although `docs/configuration.md:31` says that a tag pins the version. (The
  repository's README calls it a tag "to start from", `:55`.)
* In pinned mode without checksums a fresh pod applies nothing (`watcher.go:235`).
* Changes of `deletePoliciesOnTermination` and `reconcilePoliciesFromChecksum` never reach a
  running pod (`kyvernoartifact_controller.go:281`).
* A provider in capitals passes the watcher's check (`watcher/schema.go:73`) but gets no
  credentials from the operator (`kyvernoartifact_controller.go:137`): the watcher ends at every start.
* A URL with a port delivers nothing: the reference is cut at the port's colon (`watcher.go:482`,
  `schema.go:195`).
* With provider `github`, versions are looked up at api.github.com whatever the host (`watcher.go:319`).
* The newest version counts even if it has no tag; nothing is rolled out then (`watcher.go:391`).
* The gauges are not updated when an artifact is removed, when its pod is terminal, or when
  their list has failed (`kyvernoartifact_controller.go:59`, `:249`, `:346`).

## 6. Plan

Done: the components `PolicyGC`, `Watcher`, `Operator`, with proofs; their abstract specifications
`GracefulCollection` and `PolicySync`; `ImageRef`, `Configuration` and `ArtifactFiles` in `Delivery`,
with proofs; the composition `System`. Left, in this order:

1. `System` with pushes, so that a version changes under a cleanup.
2. A safety property of `System` beside the liveness one, with its inductive invariant: what of a living
   artifact the collector may still delete.

## 7. Not modelled

* The HTTP, OCI and ORAS protocols, the syntax of YAML and the disk: I/O, present as calls that
  answer or fail. The pull itself authenticates by the default keychain and not by the token
  (`watcher.go:669`); a registry that refuses it is a failing call.
* Digest references (`@sha256:...`), tags or hosts with characters that no registry accepts, and hosts
  without a dot (`localhost`): `RegistryAssumption` and `UrlAssumption` say so.
* A file that a new version no longer has: nothing removes its policy (`watcher.go:254`), and no document
  says that anything would.
* Flags, TLS, probes and the dispatch in `main.go`; `k8s/client.go`; the generated code and
  type declarations in `api/`: no state that changes. Leader election is off by default
  (`main.go:107`) and not modelled.
* Time: sleeps, the 5 seconds of `RequeueAfter` and back-off are "some time later".
* Succeeded pods behave as Failed ones in `Reconcile`, and stand for them.
