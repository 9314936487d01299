------------------------------- MODULE Watcher -------------------------------
(***************************************************************************)
(* The watcher of src/internal/watcher: the process in the pod of one      *)
(* KyvernoArtifact.  Its main loop asks the registry for a tag, compares it *)
(* with the bookmark file last_seen, pulls the artifact, applies its       *)
(* manifests one by one and writes the bookmark.  A second goroutine waits *)
(* for SIGTERM and, while the main loop goes on, deletes the policies of   *)
(* this artifact and ends the process.                                     *)
(*                                                                         *)
(* Every call to the registry, to the API server or to the file system is  *)
(* a step of its own.  A manifest file holds one policy and is identified  *)
(* with it.  The last_seen file is in an emptyDir: it survives a crash of  *)
(* the container and is lost with the pod.                                 *)
(***************************************************************************)
EXTENDS Naturals, FiniteSets

CONSTANTS
    Files,                \* manifest files = the policies they define
    NamespacedFiles,      \* those of kind Policy; the others: ClusterPolicy
    Specs,                \* policy specs, told apart by their checksum
    Tags,                 \* tags of the artifact's repository
    Contents,             \* what can be pushed under each tag
    NoSpec,               \* a file that a version does not have
    NoVersion,            \* nothing can be pulled under this tag
    NoTag,                \* no tag in the URL / no bookmark / no label
    Latest,               \* the tag "latest"
    NoObject,             \* no such policy in the cluster
    DriftObjects,         \* what others write over a policy
    Provider,             \* "github" or "artifactory"
    UrlTag,               \* tag in IMAGE_BASE
    PollInterval,
    PollForTagChanges,
    ReconcilePoliciesFromChecksum,
    DeletePoliciesOnTermination,
    Bounds                \* bound: how often each kind of event happens

Events == {"push", "drift", "error", "crash", "kill", "signal"}

(* spec, policy-version label, and whether artifact-name names this watcher *)
Objects == [spec : Specs, tag : Tags \cup {NoTag}, mine : BOOLEAN]
Versions == [Files -> Specs \cup {NoSpec}]

ASSUME FilesAssumption == NamespacedFiles \subseteq Files
ASSUME ContentsAssumption == Contents \in [Tags -> SUBSET (Versions \cup {NoVersion})]
ASSUME DriftAssumption == DriftObjects \subseteq Objects \cup {NoObject}
ASSUME TagAssumption == NoTag \notin Tags /\ UrlTag \in Tags \cup {NoTag}
ASSUME NoneAssumption ==
    NoSpec \notin Specs /\ NoVersion \notin Versions /\ NoObject \notin Objects
ASSUME ConfigAssumption ==
    /\ Provider \in {"github", "artifactory"}
    /\ PollInterval \in Nat
    /\ PollForTagChanges \in BOOLEAN
    /\ ReconcilePoliciesFromChecksum \in BOOLEAN
    /\ DeletePoliciesOnTermination \in BOOLEAN
ASSUME BoundsAssumption == Bounds \in [Events -> Nat]

VARIABLES
    registry,    \* the version under each tag
    newest,      \* the tag the registry's API reports as the newest
    cluster,     \* the policies in the cluster
    lastFile,    \* content of last_seen; NoTag: missing or empty
    pc,          \* main loop: its next call
    latest,      \* main loop: the tag of this pass
    isTagChanged,
    manifests,   \* main loop: the pulled version
    todo,        \* main loop: files to compare, then files to apply
    toApply,     \* main loop: files found to differ
    file,        \* main loop: the file being applied
    existing,    \* main loop: what Get said: "absent", "found", or "stale"
                 \* when the object was written since
    handler,     \* termination goroutine: its next call
    toDelete,    \* termination goroutine: listed policies not deleted yet
    budget       \* events of each kind that may still happen

registryVars == <<registry, newest>>
passVars == <<latest, isTagChanged, manifests, todo, toApply, file, existing>>
mainVars == <<pc, passVars>>
handlerVars == <<handler, toDelete>>
vars == <<registryVars, cluster, lastFile, mainVars, handlerVars, budget>>

PCs == {"poll", "clients", "pull", "compare", "apply", "put", "truncate",
        "write", "sleep", "exited"}
HandlerPCs == {"waiting", "clients", "listPolicies", "deletePolicies",
               "listClusterPolicies", "deleteClusterPolicies", "exited"}

TypeOK ==
    /\ registry \in [Tags -> Versions \cup {NoVersion}]
    /\ newest \in Tags \cup {NoTag}
    /\ cluster \in [Files -> Objects \cup {NoObject}]
    /\ lastFile \in Tags \cup {NoTag}
    /\ pc \in PCs
    /\ latest \in Tags \cup {NoTag}
    /\ isTagChanged \in BOOLEAN
    /\ manifests \in Versions \cup {NoVersion}
    /\ todo \subseteq Files
    /\ toApply \subseteq Files
    /\ file \in Files \cup {NoObject}
    /\ existing \in {"absent", "found", "stale"}
    /\ handler \in HandlerPCs
    /\ toDelete \subseteq Files
    /\ budget \in [Events -> Nat]

Init ==
    /\ registry = [t \in Tags |-> NoVersion]
    /\ newest = NoTag
    /\ cluster = [f \in Files |-> NoObject]
    /\ lastFile = NoTag
    /\ pc = "poll"
    /\ latest = NoTag
    /\ isTagChanged = FALSE
    /\ manifests = NoVersion
    /\ todo = {}
    /\ toApply = {}
    /\ file = NoObject
    /\ existing = "absent"
    /\ handler = "waiting"
    /\ toDelete = {}
    /\ budget = Bounds

-----------------------------------------------------------------------------
Happens(event) ==
    /\ budget[event] > 0
    /\ budget' = [budget EXCEPT ![event] = @ - 1]

(* The outcome of a call: an answer, or an error. *)
CallAnswers == UNCHANGED budget
CallFails == Happens("error")

Pullable(tag) == tag # NoTag /\ registry[tag] # NoVersion

(* Mutant: files that a version lacks count as well. *)
AllFilesOf(version) == Files

FilesOf(version) == {f \in Files : version[f] # NoSpec}

(* Any write of a policy by others, or by the other goroutine, makes the    *)
(* resourceVersion that the main loop has read stale.                       *)
OthersWrite(f, object) ==
    /\ cluster' = [cluster EXCEPT ![f] = object]
    /\ existing' = IF pc = "put" /\ file = f /\ object # cluster[f]
                   THEN "stale" ELSE existing

ForgetPass ==
    /\ latest' = NoTag
    /\ isTagChanged' = FALSE
    /\ manifests' = NoVersion
    /\ todo' = {}
    /\ toApply' = {}
    /\ file' = NoObject
    /\ existing' = "absent"

(* watchLoop returned, with an error or without. *)
EndPass == pc' = "sleep" /\ ForgetPass

-----------------------------------------------------------------------------
(* tagChanged, and the pinned mode of watchLoop. *)

(* GitHub polling never looks at the tag of the URL. *)
UsesUrlTag ==
    \/ ~PollForTagChanges
    \/ /\ UrlTag \notin {NoTag, Latest}
       /\ PollInterval = 0 \/ Provider = "artifactory"

(* Mutant: the tag of the URL is ignored everywhere. *)
NewestTag == newest

ChosenTag == IF UsesUrlTag THEN UrlTag ELSE newest

TagIsChanged(tag, prevTag) ==
    IF PollForTagChanges
    THEN tag # NoTag /\ (PollInterval = 0 \/ tag # prevTag)
    ELSE tag # prevTag /\ prevTag # NoTag

(* Mutant: a pod without a bookmark does nothing in pinned mode. *)
NothingPinnedYet == ~PollForTagChanges /\ lastFile = NoTag

(* Without a tag to pin to there is nothing to do. *)
NothingPinned == ~PollForTagChanges /\ UrlTag = NoTag

(* last_seen is read. Polling takes a file that cannot be read for an empty *)
(* one; in pinned mode the error ends the pass.                             *)
ReadLastFile(prevTag) ==
    \/ CallAnswers /\ prevTag = lastFile
    \/ CallFails /\ PollForTagChanges /\ PollInterval > 0 /\ prevTag = NoTag

Poll ==
    /\ pc = "poll"
    /\ \/ /\ ~UsesUrlTag \/ ~PollForTagChanges
          /\ CallFails
          /\ EndPass
       \/ /\ CallAnswers
          /\ NothingPinned
          /\ EndPass
       \/ /\ ~NothingPinned
          /\ \E prevTag \in Tags \cup {NoTag} :
                /\ ReadLastFile(prevTag)
                /\ isTagChanged' = TagIsChanged(ChosenTag, prevTag)
          /\ \/ /\ isTagChanged' \/ ReconcilePoliciesFromChecksum
                /\ pc' = "clients"
                /\ latest' = ChosenTag
                /\ UNCHANGED <<manifests, todo, toApply, file, existing>>
             \/ /\ ~isTagChanged'
                /\ ~ReconcilePoliciesFromChecksum
                /\ EndPass
    /\ UNCHANGED <<registryVars, cluster, lastFile, handlerVars>>

GetKubernetesClients ==
    /\ pc = "clients"
    /\ \/ CallFails /\ EndPass
       \/ CallAnswers /\ pc' = "pull" /\ UNCHANGED passVars
    /\ UNCHANGED <<registryVars, cluster, lastFile, handlerVars>>

(* The registry is asked for the tag again; what it holds now is pulled.    *)
(* A new tag has all its files applied; an old one has them compared first. *)
PullImageToDir ==
    /\ pc = "pull"
    /\ \/ /\ CallFails
          /\ EndPass
       \/ /\ CallAnswers
          /\ ~Pullable(latest)
          /\ EndPass
       \/ /\ CallAnswers
          /\ Pullable(latest)
          /\ manifests' = registry[latest]
          /\ todo' = FilesOf(registry[latest])
          /\ pc' = IF isTagChanged THEN "apply" ELSE "compare"
          /\ UNCHANGED <<latest, isTagChanged, toApply, file, existing>>
    /\ UNCHANGED <<registryVars, cluster, lastFile, handlerVars>>

(* Mutant: a policy that is missing in the cluster does not differ. *)
DiffersIfPresent(f) == cluster[f] # NoObject /\ cluster[f].spec # manifests[f]

(* checksumsChanged: only the spec is compared, never a label. A policy     *)
(* that cannot be read is not applied.                                      *)
Differs(f) == cluster[f] = NoObject \/ cluster[f].spec # manifests[f]

(* Mutant: one difference has every file applied. *)
AllOrNothingChecksums ==
    /\ pc = "compare"
    /\ \/ \E f \in todo :
            /\ todo' = todo \ {f}
            /\ \/ CallFails /\ UNCHANGED toApply
               \/ CallAnswers /\ toApply' = IF Differs(f) THEN toApply \cup {f} ELSE toApply
            /\ UNCHANGED <<pc, latest, isTagChanged, manifests, file, existing>>
       \/ /\ todo = {}
          /\ toApply = {}
          /\ CallAnswers
          /\ EndPass
       \/ /\ todo = {}
          /\ toApply # {}
          /\ CallAnswers
          /\ pc' = "apply"
          /\ todo' = FilesOf(manifests)
          /\ toApply' = {}
          /\ UNCHANGED <<latest, isTagChanged, manifests, file, existing>>
    /\ UNCHANGED <<registryVars, cluster, lastFile, handlerVars>>

ChecksumsChanged ==
    /\ pc = "compare"
    /\ \/ \E f \in todo :
            /\ todo' = todo \ {f}
            /\ \/ CallFails /\ UNCHANGED toApply
               \/ CallAnswers /\ toApply' = IF Differs(f) THEN toApply \cup {f} ELSE toApply
            /\ UNCHANGED <<pc, latest, isTagChanged, manifests, file, existing>>
       \/ /\ todo = {}
          /\ toApply = {}
          /\ CallAnswers
          /\ EndPass
       \/ /\ todo = {}
          /\ toApply # {}
          /\ CallAnswers
          /\ pc' = "apply"
          /\ todo' = toApply
          /\ toApply' = {}
          /\ UNCHANGED <<latest, isTagChanged, manifests, file, existing>>
    /\ UNCHANGED <<registryVars, cluster, lastFile, handlerVars>>

(* applyResource, first half: Get. An error is logged and the file skipped. *)
GetExisting ==
    /\ pc = "apply"
    /\ \E f \in todo :
        /\ todo' = todo \ {f}
        /\ \/ CallFails /\ UNCHANGED <<pc, file, existing>>
           \/ /\ CallAnswers
              /\ file' = f
              /\ existing' = IF cluster[f] = NoObject THEN "absent" ELSE "found"
              /\ pc' = "put"
    /\ UNCHANGED <<registryVars, cluster, lastFile, handlerVars,
                   latest, isTagChanged, manifests, toApply>>

(* Mutant: the label is looked up again when the manifest is applied. *)
ManifestWithNewestTag(f) == [spec |-> manifests[f], tag |-> newest, mine |-> TRUE]

LabelledManifest(f) == [spec |-> manifests[f], tag |-> latest, mine |-> TRUE]

(* applyResource, second half: Create, or Update with the resourceVersion   *)
(* that Get returned. Neither succeeds when the object was written since    *)
(* Get; whatever the outcome, applyManifests goes on with the next file.    *)
CreateOrUpdate ==
    /\ pc = "put"
    /\ \/ /\ CallAnswers
          /\ existing # "stale"
          /\ cluster' = [cluster EXCEPT ![file] = LabelledManifest(file)]
       \/ /\ CallAnswers
          /\ existing = "stale"
          /\ UNCHANGED cluster
       \/ /\ CallFails
          /\ UNCHANGED cluster
    /\ pc' = "apply"
    /\ file' = NoObject
    /\ existing' = "absent"
    /\ UNCHANGED <<registryVars, lastFile, handlerVars,
                   latest, isTagChanged, manifests, todo, toApply>>

(* Mutant: the bookmark does not wait for the last file. *)
SomeApplied ==
    /\ pc = "apply"
    /\ pc' = "truncate"
    /\ UNCHANGED <<registryVars, cluster, lastFile, handlerVars, passVars, budget>>

(* applyManifests returns nil however many files failed. *)
AllApplied ==
    /\ pc = "apply"
    /\ todo = {}
    /\ pc' = "truncate"
    /\ UNCHANGED <<registryVars, cluster, lastFile, handlerVars, passVars, budget>>

(* os.WriteFile truncates last_seen, then writes the tag. *)
TruncateLastFile ==
    /\ pc = "truncate"
    /\ \/ CallFails /\ UNCHANGED lastFile /\ EndPass
       \/ CallAnswers /\ lastFile' = NoTag /\ pc' = "write" /\ UNCHANGED passVars
    /\ UNCHANGED <<registryVars, cluster, handlerVars>>

(* Mutant: the tag is looked up again for the bookmark. *)
WriteNewestTag ==
    /\ pc = "write"
    /\ CallAnswers
    /\ lastFile' = newest
    /\ EndPass
    /\ UNCHANGED <<registryVars, cluster, handlerVars>>

WriteLastFile ==
    /\ pc = "write"
    /\ \/ CallFails /\ UNCHANGED lastFile
       \/ CallAnswers /\ lastFile' = latest
    /\ EndPass
    /\ UNCHANGED <<registryVars, cluster, handlerVars>>

Sleep ==
    /\ pc = "sleep"
    /\ pc' = "poll"
    /\ UNCHANGED <<registryVars, cluster, lastFile, handlerVars, passVars, budget>>

MainStep ==
    \/ Poll \/ GetKubernetesClients \/ PullImageToDir \/ ChecksumsChanged
    \/ GetExisting \/ CreateOrUpdate \/ AllApplied
    \/ TruncateLastFile \/ WriteLastFile \/ Sleep

-----------------------------------------------------------------------------
(* The termination goroutine: cleanupPolicies, then os.Exit. *)

ProcessEnds ==
    /\ pc' = "exited"
    /\ ForgetPass
    /\ handler' = "exited"
    /\ toDelete' = {}

(* The pod is being deleted. Without the option SIGTERM kills the process.  *)
Signal ==
    /\ handler = "waiting"
    /\ Happens("signal")
    /\ \/ ~DeletePoliciesOnTermination /\ ProcessEnds
       \/ /\ DeletePoliciesOnTermination
          /\ handler' = "clients"
          /\ UNCHANGED <<toDelete, mainVars>>
    /\ UNCHANGED <<registryVars, cluster, lastFile>>

(* Mutant: without clients the goroutine waits for another signal. *)
CleanupWaitsAgain ==
    /\ handler = "clients"
    /\ \/ CallFails /\ handler' = "waiting"
       \/ CallAnswers /\ handler' = "listPolicies"
    /\ UNCHANGED <<registryVars, cluster, lastFile, toDelete, mainVars>>

(* Without clients there is no cleanup: log.Fatalf ends the process. *)
CleanupClients ==
    /\ handler = "clients"
    /\ \/ CallFails /\ ProcessEnds
       \/ /\ CallAnswers
          /\ handler' = "listPolicies"
          /\ UNCHANGED <<toDelete, mainVars>>
    /\ UNCHANGED <<registryVars, cluster, lastFile>>

Mine(kind) == {f \in kind : cluster[f] # NoObject /\ cluster[f].mine}

(* deleteResourcesByLabel lists; an error is logged and nothing deleted. *)
ListMine(call, kind, then) ==
    /\ handler = call
    /\ handler' = then
    /\ \/ CallAnswers /\ toDelete' = Mine(kind)
       \/ CallFails /\ UNCHANGED toDelete
    /\ UNCHANGED <<registryVars, cluster, lastFile, mainVars>>

(* Mutant: the ClusterPolicies are not listed after the Policies. *)
DeletePolicyOnly ==
    /\ handler = "deletePolicies"
    /\ \/ /\ \E f \in toDelete : toDelete' = toDelete \ {f}
          /\ UNCHANGED handler
       \/ /\ toDelete = {}
          /\ handler' = "deleteClusterPolicies"
          /\ UNCHANGED toDelete
    /\ UNCHANGED <<registryVars, cluster, lastFile, mainVars, budget>>

(* The request for a namespaced Policy carries no namespace: the API server *)
(* knows no such resource and the error is logged.                          *)
DeletePolicy ==
    /\ handler = "deletePolicies"
    /\ \/ /\ \E f \in toDelete : toDelete' = toDelete \ {f}
          /\ UNCHANGED handler
       \/ /\ toDelete = {}
          /\ handler' = "listClusterPolicies"
          /\ UNCHANGED toDelete
    /\ UNCHANGED <<registryVars, cluster, lastFile, mainVars, budget>>

DeleteClusterPolicy ==
    /\ handler = "deleteClusterPolicies"
    /\ \E f \in toDelete :
        /\ toDelete' = toDelete \ {f}
        /\ \/ CallAnswers /\ OthersWrite(f, NoObject)
           \/ CallFails /\ UNCHANGED <<cluster, existing>>
    /\ UNCHANGED <<registryVars, lastFile, handler, pc, latest, isTagChanged,
                   manifests, todo, toApply, file>>

Exit ==
    /\ handler = "deleteClusterPolicies"
    /\ toDelete = {}
    /\ ProcessEnds
    /\ UNCHANGED <<registryVars, cluster, lastFile, budget>>

HandlerStep ==
    \/ CleanupClients
    \/ ListMine("listPolicies", NamespacedFiles, "deletePolicies")
    \/ DeletePolicy
    \/ ListMine("listClusterPolicies", Files \ NamespacedFiles, "deleteClusterPolicies")
    \/ DeleteClusterPolicy
    \/ Exit

-----------------------------------------------------------------------------
(* The container crashes and the kubelet restarts it in the same pod.       *)
Crash ==
    /\ handler = "waiting"
    /\ Happens("crash")
    /\ pc' = "poll"
    /\ ForgetPass
    /\ UNCHANGED <<registryVars, cluster, lastFile, handlerVars>>

(* The pod is lost without a signal, or killed when its grace period ends.  *)
Kill ==
    /\ handler # "exited"
    /\ Happens("kill")
    /\ ProcessEnds
    /\ UNCHANGED <<registryVars, cluster, lastFile>>

(* A new pod for the same artifact: a new emptyDir. *)
NewPod ==
    /\ handler = "exited"
    /\ handler' = "waiting"
    /\ pc' = "poll"
    /\ lastFile' = NoTag
    /\ UNCHANGED <<registryVars, cluster, passVars, toDelete, budget>>

(* Somebody pushes a version. The registry's order decides which tag is     *)
(* newest afterwards: GitHub by updated_at, Artifactory by list position. A *)
(* version without a tag is reported as a name nothing can be pulled under. *)
Push ==
    /\ Happens("push")
    /\ \E t \in Tags : \E version \in Contents[t] :
        /\ registry' = [registry EXCEPT ![t] = version]
        /\ newest' \in {t, newest} \ {NoTag}
    /\ UNCHANGED <<cluster, lastFile, mainVars, handlerVars>>

(* Users, the garbage collector and other watchers. *)
Drift ==
    /\ Happens("drift")
    /\ \E f \in Files, object \in DriftObjects : OthersWrite(f, object)
    /\ UNCHANGED <<registryVars, lastFile, handlerVars, pc, latest, isTagChanged,
                   manifests, todo, toApply, file>>

Environment == Push \/ Drift \/ Signal \/ Crash \/ Kill \/ NewPod

Next == MainStep \/ HandlerStep \/ Environment

(* Both goroutines always run; the operator creates a pod that is missing.  *)
Fairness ==
    WF_vars(MainStep) /\ WF_vars(HandlerStep) /\ WF_vars(NewPod)

Spec == Init /\ [][Next]_vars /\ Fairness

-----------------------------------------------------------------------------
(* The cluster holds what the registry holds under the tag this watcher is  *)
(* configured to follow.                                                    *)
Converged ==
    Pullable(ChosenTag) =>
        \A f \in FilesOf(registry[ChosenTag]) :
            cluster[f] # NoObject /\ cluster[f].spec = registry[ChosenTag][f]

(* Once pushes, drift, errors and restarts have stopped, the cluster gets   *)
(* to the wanted version and stays there. With checksums this repairs       *)
(* drift, overwritten tags and failed applies; without them it holds when   *)
(* tags are immutable, nobody else writes the policies and no call fails    *)
(* (watchLoop, checksumsChanged, applyManifests).                           *)
EventuallyConverged == <>[]Converged

(* A pass of watchLoop, with crashes, signals, failing calls, writes of     *)
(* others and pushes in between, is a pass of PolicySync: one version under *)
(* one tag, every chosen file attempted before the bookmark is touched.     *)
Sync == INSTANCE PolicySync WITH
    bookmark <- lastFile,
    tag <- IF manifests = NoVersion THEN NoTag ELSE latest,
    version <- manifests,
    left <- todo \cup toApply \cup (IF pc = "put" THEN {file} ELSE {})

SyncsWholeVersions == Sync!Spec

(* A termination signal ends the process, whatever its cleanup meets.       *)
SignalEndsProcess == handler = "clients" ~> handler = "exited"
=============================================================================
