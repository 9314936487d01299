------------------------------- MODULE Operator -------------------------------
(***************************************************************************)
(* The operator of src/internal/controller: for each KyvernoArtifact it    *)
(* keeps one watcher pod that runs the wanted configuration and image.     *)
(*                                                                         *)
(* Reconcile reads artifacts and pods from an informer cache, which lags   *)
(* behind the API server, and creates and deletes pods at the API server   *)
(* itself.  Each operator has one worker and a work queue of keys; every   *)
(* read and every call of the worker is a step of its own.  Without leader *)
(* election (the default) a rolling update runs the old operator beside    *)
(* the new one; each has the image of its own release.                     *)
(*                                                                         *)
(* An artifact stands for its key (namespace and name), so two artifacts   *)
(* never share a pod.                                                      *)
(***************************************************************************)
EXTENDS Naturals, FiniteSets, Sequences

CONSTANTS
    Artifacts,   \* keys of KyvernoArtifacts
    Operators,   \* running copies of the operator
    Retiring,    \* those that a rolling update replaces
    ImageOf,     \* the WATCHER_IMAGE of each operator
    Configs,     \* URL, interval, provider and pollForTagChanges together
    NoUrl,       \* the config without artifact URL
    Absent,      \* no such object
    NoKey,       \* the worker has no key
    MaxLag,      \* bound: events of one object a cache may be behind
    Bounds       \* bound: how often each kind of event happens

Events == {"apply", "remove", "disrupt", "evict", "error", "restart"}
Phases == {"Pending", "Running", "Failed"}

ASSUME OperatorsAssumption == Retiring \subseteq Operators
ASSUME ArtifactsAssumption == IsFiniteSet(Artifacts)
ASSUME LagAssumption == MaxLag \in Nat \ {0}
ASSUME BoundsAssumption == Bounds \in [Events -> Nat]

(* generation counts the applies of all artifacts; uid is the generation    *)
(* of the apply that created the object.                                    *)
ArtifactObjects == [config : Configs, uid : Nat, generation : Nat]

(* What the pod's environment, image and owner reference say. generation is *)
(* that of the artifact the pod was built from; no code reads it.           *)
PodObjects == [config : Configs, image : {ImageOf[o] : o \in Operators}, owner : Nat,
               generation : Nat, phase : Phases, deleting : BOOLEAN]

ASSUME AbsentAssumption == Absent \notin ArtifactObjects \cup PodObjects

VARIABLES
    artifacts,     \* API server: the KyvernoArtifacts
    pods,          \* API server: the watcher pods
    artifactFeed,  \* per operator and key: watch events not yet delivered
    podFeed,
    artifactCache, \* per operator and key: the informer cache
    podCache,
    queue,         \* per operator: the work queue
    worker,        \* per operator: the running Reconcile
    metrics,       \* per operator: the two gauges
    count,         \* per operator: what a running updateMetrics has counted
    budget         \* events of each kind that may still happen

apiVars == <<artifacts, pods>>
artifactVars == <<artifacts, artifactFeed>>
podVars == <<pods, podFeed>>
cacheVars == <<artifactCache, podCache>>
gaugeVars == <<metrics, count>>
vars == <<apiVars, artifactFeed, podFeed, cacheVars, queue, worker, gaugeVars, budget>>

PCs == {"down", "idle", "getPod", "create", "delete", "metrics", "phases"}

PhaseLabels == Phases \cup {"Unknown"}
Gauges == [total : Nat, byPhase : [PhaseLabels -> Nat]]
Counts == [todo : SUBSET Artifacts, byPhase : [PhaseLabels -> Nat]]

Feeds(objects) == [Operators -> [Artifacts -> Seq(objects)]]
Short(feed) == \A o \in Operators, a \in Artifacts : Len(feed[o][a]) <= MaxLag

TypeOK ==
    /\ artifacts \in [Artifacts -> ArtifactObjects \cup {Absent}]
    /\ pods \in [Artifacts -> PodObjects \cup {Absent}]
    /\ artifactFeed \in Feeds(ArtifactObjects \cup {Absent}) /\ Short(artifactFeed)
    /\ podFeed \in Feeds(PodObjects \cup {Absent}) /\ Short(podFeed)
    /\ artifactCache \in [Operators -> [Artifacts -> ArtifactObjects \cup {Absent}]]
    /\ podCache \in [Operators -> [Artifacts -> PodObjects \cup {Absent}]]
    /\ queue \in [Operators -> SUBSET Artifacts]
    /\ worker \in [Operators -> [pc : PCs, key : Artifacts \cup {NoKey},
                                 artifact : ArtifactObjects \cup {Absent}]]
    /\ \A o \in Operators : worker[o].pc \notin {"down", "idle"} =>
          worker[o].key \in Artifacts /\ worker[o].artifact \in ArtifactObjects
    /\ metrics \in [Operators -> Gauges]
    /\ count \in [Operators -> Counts]
    /\ budget \in [Events -> Nat]
    /\ \A event \in Events : budget[event] <= Bounds[event]

Worker(pc) == [pc |-> pc, key |-> NoKey, artifact |-> Absent]
Nothing == [a \in Artifacts |-> Absent]
NoPhases == [ph \in PhaseLabels |-> 0]
Zero == [total |-> 0, byPhase |-> NoPhases]
NotCounting == [todo |-> {}, byPhase |-> NoPhases]

(* A retiring operator runs already, the others are about to start. *)
Init ==
    /\ artifacts = Nothing
    /\ pods = Nothing
    /\ artifactFeed = [o \in Operators |-> [a \in Artifacts |-> <<>>]]
    /\ podFeed = artifactFeed
    /\ artifactCache = [o \in Operators |-> Nothing]
    /\ podCache = artifactCache
    /\ queue = [o \in Operators |-> {}]
    /\ worker = [o \in Operators |-> Worker(IF o \in Retiring THEN "idle" ELSE "down")]
    /\ metrics = [o \in Operators |-> Zero]
    /\ count = [o \in Operators |-> NotCounting]
    /\ budget = Bounds

-----------------------------------------------------------------------------
Happens(event) ==
    /\ budget[event] > 0
    /\ budget' = [budget EXCEPT ![event] = @ - 1]

CallAnswers == UNCHANGED budget
CallFails == Happens("error")

Runs(o) == worker[o].pc # "down"

(* The API server sends an object's new state to every running operator.   *)
Published(feed, a, object) ==
    [o \in Operators |-> IF Runs(o) THEN [feed[o] EXCEPT ![a] = Append(@, object)]
                                    ELSE feed[o]]

Room(feed, a) == \A o \in Operators : Len(feed[o][a]) < MaxLag

WriteArtifact(a, artifact) ==
    /\ Room(artifactFeed, a)
    /\ artifacts' = [artifacts EXCEPT ![a] = artifact]
    /\ artifactFeed' = Published(artifactFeed, a, artifact)

WritePod(a, pod) ==
    /\ Room(podFeed, a)
    /\ pods' = [pods EXCEPT ![a] = pod]
    /\ podFeed' = Published(podFeed, a, pod)

(* Deletion is graceful: the pod is marked, the kubelet removes it later.   *)
DeletePod(a) ==
    /\ pods[a] # Absent
    /\ IF pods[a].deleting THEN UNCHANGED podVars
       ELSE WritePod(a, [pods[a] EXCEPT !.deleting = TRUE])

Enqueue(o, a) == queue' = [queue EXCEPT ![o] = @ \cup {a}]

(* SetupWithManager: For(KyvernoArtifact), and Owns(Pod) by owner name. *)
DeliverArtifact(o, a) ==
    /\ artifactFeed[o][a] # <<>>
    /\ artifactCache' = [artifactCache EXCEPT ![o][a] = Head(artifactFeed[o][a])]
    /\ artifactFeed' = [artifactFeed EXCEPT ![o][a] = Tail(@)]
    /\ Enqueue(o, a)
    /\ UNCHANGED <<artifacts, podVars, podCache, worker, gaugeVars, budget>>

(* Mutant: no Owns(Pod): a pod event updates the cache only. *)
CachePodOnly(o, a) ==
    /\ podFeed[o][a] # <<>>
    /\ podCache' = [podCache EXCEPT ![o][a] = Head(podFeed[o][a])]
    /\ podFeed' = [podFeed EXCEPT ![o][a] = Tail(@)]
    /\ UNCHANGED <<artifactVars, pods, artifactCache, queue, worker, gaugeVars, budget>>

DeliverPod(o, a) ==
    /\ podFeed[o][a] # <<>>
    /\ podCache' = [podCache EXCEPT ![o][a] = Head(podFeed[o][a])]
    /\ podFeed' = [podFeed EXCEPT ![o][a] = Tail(@)]
    /\ Enqueue(o, a)
    /\ UNCHANGED <<artifactVars, pods, artifactCache, worker, gaugeVars, budget>>

-----------------------------------------------------------------------------
(* Reconcile. *)

GoTo(o, pc) == worker' = [worker EXCEPT ![o].pc = pc] /\ UNCHANGED queue
Done(o) == worker' = [worker EXCEPT ![o] = Worker("idle")] /\ UNCHANGED queue

(* Mutant: the key is forgotten before it is queued again. *)
RequeueAfterReset(o) ==
    /\ worker' = [worker EXCEPT ![o] = Worker("idle")]
    /\ queue' = [queue EXCEPT ![o] = @ \cup {worker'[o].key}]

(* An error or RequeueAfter: the key comes back later. *)
Requeue(o) ==
    /\ worker' = [worker EXCEPT ![o] = Worker("idle")]
    /\ Enqueue(o, worker[o].key)

(* A deleted artifact ends Reconcile at once: its pod is left to the        *)
(* garbage collector of Kubernetes, and the gauges are not updated.         *)
GetArtifact(o, a) ==
    /\ worker[o].pc = "idle"
    /\ a \in queue[o]
    /\ \/ CallFails /\ UNCHANGED <<queue, worker>>
       \/ /\ CallAnswers
          /\ queue' = [queue EXCEPT ![o] = @ \ {a}]
          /\ IF artifactCache[o][a] = Absent
             THEN UNCHANGED worker
             ELSE worker' = [worker EXCEPT ![o] =
                    [pc |-> "getPod", key |-> a, artifact |-> artifactCache[o][a]]]
    /\ UNCHANGED <<artifactVars, podVars, cacheVars, gaugeVars>>

(* Mutant: the image of an older release is good enough. *)
ConfigDiffers(o, pod, artifact) == pod.config # artifact.config

(* Mutant: a pod that does not run yet is replaced. *)
NotRunningOrDiffers(o, pod, artifact) ==
    pod.config # artifact.config \/ pod.image # ImageOf[o] \/ pod.phase = "Pending"

(* deletePoliciesOnTermination and reconcilePoliciesFromChecksum are not    *)
(* compared, so that no field here stands for them.                         *)
NeedsUpdate(o, pod, artifact) ==
    pod.config # artifact.config \/ pod.image # ImageOf[o]

GetPod(o) ==
    LET pod == podCache[o][worker[o].key]
        artifact == worker[o].artifact
    IN  /\ worker[o].pc = "getPod"
        /\ \/ CallFails /\ Requeue(o)
           \/ /\ CallAnswers
              /\ pod = Absent
              /\ IF artifact.config = NoUrl THEN Requeue(o) ELSE GoTo(o, "create")
           \/ /\ CallAnswers
              /\ pod # Absent
              /\ IF pod.phase = "Failed" THEN Requeue(o)
                 ELSE GoTo(o, IF NeedsUpdate(o, pod, artifact) THEN "delete" ELSE "metrics")
        /\ UNCHANGED <<artifactVars, podVars, cacheVars, gaugeVars>>

WatcherPod(o, artifact) ==
    [config |-> artifact.config, image |-> ImageOf[o], owner |-> artifact.uid,
     generation |-> artifact.generation, phase |-> "Pending", deleting |-> FALSE]

(* A pod of that name that the cache has not seen yet is an error as well. *)
Create(o) ==
    LET a == worker[o].key
    IN  /\ worker[o].pc = "create"
        /\ \/ /\ CallAnswers
              /\ pods[a] = Absent
              /\ WritePod(a, WatcherPod(o, worker[o].artifact))
              /\ GoTo(o, "metrics")
           \/ /\ CallAnswers
              /\ pods[a] # Absent
              /\ Requeue(o)
              /\ UNCHANGED podVars
           \/ /\ CallFails
              /\ Requeue(o)
              /\ UNCHANGED podVars
        /\ UNCHANGED <<artifactVars, cacheVars, gaugeVars>>

(* By name, with no precondition on the uid: whatever pod is there now. *)
Delete(o) ==
    LET a == worker[o].key
    IN  /\ worker[o].pc = "delete"
        /\ Requeue(o)
        /\ \/ CallAnswers /\ DeletePod(a)
           \/ CallAnswers /\ pods[a] = Absent /\ UNCHANGED podVars
           \/ CallFails /\ UNCHANGED podVars
        /\ UNCHANGED <<artifactVars, cacheVars, gaugeVars>>

(* updateMetrics: the artifacts are listed, and then the pod of each is     *)
(* looked up, in any order, while the caches move on.                       *)
Items(someArtifacts) == {a \in Artifacts : someArtifacts[a] # Absent}
PhaseOf(pod) == IF pod = Absent THEN "Unknown" ELSE pod.phase

(* Mutant: the phase gauge is not reset before it is set. *)
CountOnWithoutReset(o, total, todo, byPhase) ==
    LET shown(ph) == IF byPhase[ph] = 0 THEN metrics[o].byPhase[ph] ELSE byPhase[ph]
        phases == IF todo = {} THEN [ph \in PhaseLabels |-> shown(ph)] ELSE metrics[o].byPhase
    IN  /\ metrics' = [metrics EXCEPT ![o] = [total |-> total, byPhase |-> phases]]
        /\ count' = [count EXCEPT
                ![o] = IF todo = {} THEN NotCounting ELSE [todo |-> todo, byPhase |-> byPhase]]
        /\ IF todo = {} THEN Done(o) ELSE GoTo(o, "phases")

(* The total is set at once, the phases when every pod has been looked up.  *)
CountOn(o, total, todo, byPhase) ==
    LET phases == IF todo = {} THEN byPhase ELSE metrics[o].byPhase
    IN  /\ metrics' = [metrics EXCEPT ![o] = [total |-> total, byPhase |-> phases]]
        /\ count' = [count EXCEPT
                ![o] = IF todo = {} THEN NotCounting ELSE [todo |-> todo, byPhase |-> byPhase]]
        /\ IF todo = {} THEN Done(o) ELSE GoTo(o, "phases")

ListArtifacts(o) ==
    LET items == Items(artifactCache[o])
    IN  /\ worker[o].pc = "metrics"
        /\ \/ CallFails /\ Done(o) /\ UNCHANGED gaugeVars
           \/ CallAnswers /\ CountOn(o, Cardinality(items), items, NoPhases)
        /\ UNCHANGED <<artifactVars, podVars, cacheVars>>

(* Any error counts as a pod that is not there. *)
CountPod(o) ==
    /\ worker[o].pc = "phases"
    /\ \E a \in count[o].todo, phase \in PhaseLabels :
        /\ \/ CallAnswers /\ phase = PhaseOf(podCache[o][a])
           \/ CallFails /\ phase = "Unknown"
        /\ CountOn(o, metrics[o].total, count[o].todo \ {a},
                   [count[o].byPhase EXCEPT ![phase] = @ + 1])
    /\ UNCHANGED <<artifactVars, podVars, cacheVars>>

UpdateMetrics(o) == ListArtifacts(o) \/ CountPod(o)

Reconcile(o) == GetPod(o) \/ Create(o) \/ Delete(o) \/ UpdateMetrics(o)

-----------------------------------------------------------------------------
(* Mutant: the worker does not wait for the cache of pods to be filled. *)
StartUnsynced(o) ==
    /\ ~Runs(o)
    /\ o \notin Retiring
    /\ worker' = [worker EXCEPT ![o] = Worker("idle")]
    /\ artifactCache' = [artifactCache EXCEPT ![o] = artifacts]
    /\ queue' = [queue EXCEPT ![o] = {a \in Artifacts : artifacts[a] # Absent}]
    /\ UNCHANGED <<apiVars, artifactFeed, podFeed, podCache, gaugeVars, budget>>

(* Operators start and stop. Starting lists everything: each object is      *)
(* delivered once.                                                          *)
Start(o) ==
    /\ ~Runs(o)
    /\ o \notin Retiring
    /\ worker' = [worker EXCEPT ![o] = Worker("idle")]
    /\ artifactCache' = [artifactCache EXCEPT ![o] = artifacts]
    /\ podCache' = [podCache EXCEPT ![o] = pods]
    /\ queue' = [queue EXCEPT ![o] =
                    {a \in Artifacts : artifacts[a] # Absent \/ pods[a] # Absent}]
    /\ UNCHANGED <<apiVars, artifactFeed, podFeed, gaugeVars, budget>>

Stop(o) ==
    /\ Runs(o)
    /\ IF o \in Retiring THEN UNCHANGED budget ELSE Happens("restart")
    /\ worker' = [worker EXCEPT ![o] = Worker("down")]
    /\ artifactFeed' = [artifactFeed EXCEPT ![o] = [a \in Artifacts |-> <<>>]]
    /\ podFeed' = [podFeed EXCEPT ![o] = [a \in Artifacts |-> <<>>]]
    /\ artifactCache' = [artifactCache EXCEPT ![o] = Nothing]
    /\ podCache' = [podCache EXCEPT ![o] = Nothing]
    /\ queue' = [queue EXCEPT ![o] = {}]
    /\ metrics' = [metrics EXCEPT ![o] = Zero]
    /\ count' = [count EXCEPT ![o] = NotCounting]
    /\ UNCHANGED apiVars

OperatorStep(o) ==
    \/ \E a \in Artifacts :
         DeliverArtifact(o, a) \/ DeliverPod(o, a) \/ GetArtifact(o, a)
    \/ Reconcile(o) \/ Start(o) \/ Stop(o)

-----------------------------------------------------------------------------
(* Users create, change and remove artifacts. *)
UserApplies ==
    /\ Happens("apply")
    /\ \E a \in Artifacts, config \in Configs :
        LET now == 1 + Bounds["apply"] - budget["apply"]
        IN  WriteArtifact(a, [config |-> config, generation |-> now,
                uid |-> IF artifacts[a] = Absent THEN now ELSE artifacts[a].uid])
    /\ UNCHANGED <<podVars, cacheVars, queue, worker, gaugeVars>>

UserRemoves ==
    /\ Happens("remove")
    /\ \E a \in Artifacts : artifacts[a] # Absent /\ WriteArtifact(a, Absent)
    /\ UNCHANGED <<podVars, cacheVars, queue, worker, gaugeVars>>

(* Drains, deletions by hand, and evictions, which leave a Failed pod. *)
Disrupt ==
    /\ Happens("disrupt")
    /\ \E a \in Artifacts : DeletePod(a)
    /\ UNCHANGED <<artifactVars, cacheVars, queue, worker, gaugeVars>>

Evict ==
    /\ Happens("evict")
    /\ \E a \in Artifacts :
        /\ pods[a] # Absent
        /\ pods[a].phase # "Failed"
        /\ WritePod(a, [pods[a] EXCEPT !.phase = "Failed"])
    /\ UNCHANGED <<artifactVars, cacheVars, queue, worker, gaugeVars>>

(* The kubelet runs a pod and removes one that is being deleted. *)
Kubelet(a) ==
    /\ pods[a] # Absent
    /\ \/ /\ pods[a].phase = "Pending"
          /\ WritePod(a, [pods[a] EXCEPT !.phase = "Running"])
       \/ /\ pods[a].deleting
          /\ WritePod(a, Absent)
    /\ UNCHANGED <<artifactVars, cacheVars, queue, worker, gaugeVars, budget>>

(* The garbage collector of Kubernetes: the pod's owner is gone. *)
CollectPod(a) ==
    /\ pods[a] # Absent
    /\ ~pods[a].deleting
    /\ artifacts[a] # Absent => artifacts[a].uid # pods[a].owner
    /\ DeletePod(a)
    /\ UNCHANGED <<artifactVars, cacheVars, queue, worker, gaugeVars, budget>>

Environment ==
    \/ UserApplies \/ UserRemoves \/ Disrupt \/ Evict
    \/ \E a \in Artifacts : Kubelet(a) \/ CollectPod(a)

Next == (\E o \in Operators : OperatorStep(o)) \/ Environment

(* The queue is first in, first out, so every key gets its turn; a rolling  *)
(* update stops the old operator in the end.                                *)
Fairness ==
    /\ \A o \in Operators :
        /\ WF_vars(Reconcile(o))
        /\ WF_vars(Start(o))
        /\ o \in Retiring => WF_vars(Stop(o))
        /\ \A a \in Artifacts :
            /\ SF_vars(GetArtifact(o, a))
            /\ WF_vars(DeliverArtifact(o, a))
            /\ WF_vars(DeliverPod(o, a))
    /\ \A a \in Artifacts : WF_vars(Kubelet(a)) /\ WF_vars(CollectPod(a))

Spec == Init /\ [][Next]_vars /\ Fairness

-----------------------------------------------------------------------------
Wanted(a) == artifacts[a] # Absent /\ artifacts[a].config # NoUrl

(* The pod of a is the one the artifact's present spec calls for. *)
RunsAsWanted(a) ==
    /\ pods[a] # Absent
    /\ pods[a].phase = "Running"
    /\ ~pods[a].deleting
    /\ pods[a].owner = artifacts[a].uid
    /\ pods[a].config = artifacts[a].config
    /\ \E o \in Operators \ Retiring : pods[a].image = ImageOf[o]

(* A Failed pod of a living artifact is never deleted: Reconcile only comes *)
(* back to it every five seconds.                                           *)
StuckFailed(a) ==
    /\ artifacts[a] # Absent
    /\ pods[a] # Absent
    /\ pods[a].phase = "Failed"
    /\ pods[a].owner = artifacts[a].uid

(* Reconcile converges: once users, failures and restarts are quiet, each   *)
(* artifact with a URL has a running pod with its configuration, its uid    *)
(* and the new operator's image, and no other pod is left, although every   *)
(* decision was made from a stale cache. The one exception is an evicted    *)
(* pod, which the code leaves as it is.                                     *)
EventuallySettled ==
    <>[]\A a \in Artifacts :
        \/ StuckFailed(a)
        \/ IF Wanted(a) THEN RunsAsWanted(a) ELSE pods[a] = Absent

(* As long as nobody else has removed a pod or an artifact, a single        *)
(* operator deletes a pod only for a reason: its image is another           *)
(* release's, or the artifact was applied again after the version the pod   *)
(* was built from. Stale caches alone never cost a good pod, although       *)
(* Delete names the pod and not the object that Reconcile looked at.        *)
Deletes(o, a) ==
    /\ worker[o].pc = "delete"
    /\ worker[o].key = a
    /\ worker'[o].pc = "idle"
    /\ pods'[a] # pods[a]
NobodyRemoves == \A event \in {"disrupt", "remove"} : budget[event] = Bounds[event]
GoodPodKept ==
    [][\A o \in Operators, a \in Artifacts : Deletes(o, a) /\ NobodyRemoves =>
          \/ pods[a].image # ImageOf[o]
          \/ artifacts[a].generation # pods[a].generation]_vars

(* Why that is so, with one operator. Of the artifacts: what the operator   *)
(* has seen of one is an earlier version of it, in order, and a pod is      *)
(* built from a version that the operator has seen.                         *)
Applies == Bounds["apply"] - budget["apply"]
Busy(o, a) == worker[o].pc \notin {"down", "idle"} /\ worker[o].key = a

Earlier(a, artifact) ==
    /\ artifact.uid = artifacts[a].uid
    /\ artifact.generation <= artifacts[a].generation
    /\ artifact.generation = artifacts[a].generation => artifact.config = artifacts[a].config

ArtifactSeen(o, a) ==
    LET feed == artifactFeed[o][a]
        cached == artifactCache[o][a]
    IN  /\ Runs(o) \/ feed = <<>>
        /\ cached # Absent => artifacts[a] # Absent /\ Earlier(a, cached)
        /\ \A i \in 1..Len(feed) :
            /\ feed[i] # Absent /\ artifacts[a] # Absent /\ Earlier(a, feed[i])
            /\ cached # Absent => cached.generation <= feed[i].generation
            /\ \A j \in i..Len(feed) : feed[i].generation <= feed[j].generation
        /\ Busy(o, a) =>
            /\ cached # Absent /\ artifacts[a] # Absent
            /\ Earlier(a, worker[o].artifact)
            /\ worker[o].artifact.generation <= cached.generation
            /\ pods[a] # Absent => pods[a].generation <= worker[o].artifact.generation
        /\ pods[a] # Absent /\ Runs(o) =>
            cached # Absent /\ pods[a].generation <= cached.generation

PodOf(a) ==
    pods[a] # Absent =>
        /\ artifacts[a] # Absent
        /\ pods[a].owner = artifacts[a].uid
        /\ pods[a].generation <= artifacts[a].generation
        /\ pods[a].generation = artifacts[a].generation => pods[a].config = artifacts[a].config

(* Of the pods: what the cache and the feed show is of one pod's life. A    *)
(* pod that the operator has not seen is not deleted, since Reconcile only  *)
(* deletes what it has seen; none is created before the operator has seen   *)
(* the end of the one before.                                               *)
PodSeen(o, a) ==
    LET feed == podFeed[o][a]
        cached == podCache[o][a]
        alive == pods[a] # Absent /\ ~pods[a].deleting
    IN  /\ IF Runs(o) THEN pods[a] = IF feed = <<>> THEN cached ELSE feed[Len(feed)]
                      ELSE cached = Absent /\ feed = <<>>
        /\ \A i \in 1..Len(feed) : feed[i] = Absent => cached # Absent /\ i = Len(feed)
        /\ cached = Absent => feed = <<>> \/ alive
        /\ pods[a] # Absent =>
            /\ cached # Absent => cached.config = pods[a].config
            /\ \A i \in 1..Len(feed) : feed[i] # Absent => feed[i].config = pods[a].config
        /\ Busy(o, a) /\ worker[o].pc = "create" => (cached = Absent /\ feed = <<>>) \/ alive
        /\ Busy(o, a) /\ worker[o].pc = "delete" =>
            /\ cached = Absent => feed = <<>>
            /\ pods[a] # Absent => pods[a].config # worker[o].artifact.config

Accounted(a) ==
    /\ artifacts[a] # Absent => artifacts[a].generation <= Applies
    /\ PodOf(a)
    /\ \A o \in Operators : ArtifactSeen(o, a) /\ PodSeen(o, a)

(* The inductive invariant of GoodPodKept (Reconcile and its caches).       *)
GoodPodInv ==
    NobodyRemoves => \A a \in Artifacts : Accounted(a)

(* updateMetrics: the gauges count the artifacts and the phases of their    *)
(* pods (docs/metrics.md:11 and :22), and are right once everything is      *)
(* quiet, although they are set on some paths of Reconcile only, and from   *)
(* caches that change while they are counted. It takes that no artifact is  *)
(* removed, no pod fails and no call of updateMetrics does.                 *)
Counted ==
    [total |-> Cardinality(Items(artifacts)),
     byPhase |-> [ph \in PhaseLabels |->
         Cardinality({a \in Items(artifacts) : PhaseOf(pods[a]) = ph})]]
EventuallyCounted == <>[]\A o \in Operators : Runs(o) => metrics[o] = Counted
=============================================================================
