--------------------------------- MODULE System ---------------------------------
(***************************************************************************)
(* The collector of PolicyGC together with the parts it is up against: the *)
(* operator that keeps a pod for every artifact, the kubelet, and the      *)
(* watchers of several artifacts, which may define the same policy.  What  *)
(* PolicyGC leaves to chance in its Cluster actions is here done by these  *)
(* parts, in their own order.                                              *)
(*                                                                         *)
(* The watchers reconcile from checksums (reconcilePoliciesFromChecksum)   *)
(* a version that stays.  A comparison of all its files is one step here,  *)
(* every manifest applied or deleted another; Watcher has the finer steps. *)
(***************************************************************************)
EXTENDS PolicyGC

CONSTANTS
    Specs,          \* policy specs, told apart by their checksum
    NoSpec,         \* a policy that a version does not have; no object
    Manifests,      \* bound: what the artifacts may define
    Cleanup,        \* artifacts with deletePoliciesOnTermination
    MaxRemovals     \* bound: artifacts removed and pods evicted

ASSUME NoSpecAssumption == NoSpec \notin Specs
ASSUME ManifestsAssumption == Manifests \subseteq [Artifacts -> [Policies -> Specs \cup {NoSpec}]]
ASSUME CleanupAssumption == Cleanup \subseteq Artifacts
ASSUME DeletionAssumption == NoPolicy \in UserObjects
ASSUME MaxRemovalsAssumption == MaxRemovals \in Nat

VARIABLES
    manifests,      \* what each artifact's version defines
    specs,          \* spec of each policy in the cluster
    signal,         \* each pod after its SIGTERM: what its cleanup does next
    toApply,        \* each main loop: files found to differ
    toDelete,       \* each cleanup: listed policies
    removals

watcherVars == <<specs, toApply, toDelete>>
sysVars == <<vars, manifests, signal, watcherVars, removals>>

SystemTypeOK ==
    /\ manifests \in Manifests
    /\ specs \in [Policies -> Specs \cup {NoSpec}]
    /\ \A p \in Policies : specs[p] = NoSpec <=> policies[p] = NoPolicy
    /\ signal \in [Artifacts -> {"none", "list", "delete"}]
    /\ \A a \in Artifacts : signal[a] # "none" => pods[a] = "Running"
    /\ toApply \in [Artifacts -> SUBSET Policies]
    /\ \A a \in Artifacts : \A p \in toApply[a] : manifests[a][p] # NoSpec
    /\ toDelete \in [Artifacts -> SUBSET Policies]
    /\ \A a \in Artifacts : toDelete[a] # {} => a \in Cleanup /\ signal[a] = "delete"
    /\ removals \in 0..MaxRemovals

SystemInit ==
    /\ Init
    /\ policies = [p \in Policies |-> NoPolicy]
    /\ manifests \in Manifests
    /\ specs = [p \in Policies |-> NoSpec]
    /\ signal = [a \in Artifacts |-> "none"]
    /\ toApply = [a \in Artifacts |-> {}]
    /\ toDelete = [a \in Artifacts |-> {}]
    /\ removals = 0

-----------------------------------------------------------------------------
(* The collector: what it deletes has no spec any more. *)
Collector ==
    /\ GCStep
    /\ specs' = [p \in Policies |-> IF policies'[p] = NoPolicy THEN NoSpec ELSE specs[p]]
    /\ UNCHANGED <<manifests, signal, toApply, toDelete, removals>>

CollectorRestarts ==
    /\ GCRestart
    /\ UNCHANGED <<manifests, signal, watcherVars, removals>>

(* Users. *)
Removal == removals < MaxRemovals /\ removals' = removals + 1

CreateArtifact(a) ==
    /\ ArtifactCreated(a)
    /\ UNCHANGED <<manifests, signal, watcherVars, removals>>

DeleteArtifact(a) ==
    /\ Removal
    /\ ArtifactDeleted(a)
    /\ UNCHANGED <<manifests, signal, watcherVars>>

-----------------------------------------------------------------------------
(* The operator and the kubelet. *)

PodPhase(a, phase) ==
    /\ pods' = [pods EXCEPT ![a] = phase]
    /\ UNCHANGED <<artifacts, policies, gcVars>>

CreatePod(a) ==
    /\ a \in artifacts /\ pods[a] = "Absent"
    /\ PodPhase(a, "Pending")
    /\ UNCHANGED <<manifests, signal, watcherVars, removals>>

StartPod(a) ==
    /\ pods[a] = "Pending"
    /\ PodPhase(a, "Running")
    /\ UNCHANGED <<manifests, signal, watcherVars, removals>>

(* Mutant: the pod has no owner. *)
DeletePodUnowned(a) ==
    /\ a \in artifacts /\ Removal
    /\ \/ /\ pods[a] = "Pending"
          /\ PodPhase(a, "Absent")
          /\ UNCHANGED signal
       \/ /\ pods[a] = "Running" /\ signal[a] = "none"
          /\ signal' = [signal EXCEPT ![a] = "list"]
          /\ UNCHANGED vars
    /\ UNCHANGED <<manifests, watcherVars>>

(* By its owner reference when the artifact is gone, or by an eviction.     *)
DeletePod(a) ==
    /\ \/ a \notin artifacts /\ UNCHANGED removals
       \/ a \in artifacts /\ Removal
    /\ \/ /\ pods[a] = "Pending"
          /\ PodPhase(a, "Absent")
          /\ UNCHANGED signal
       \/ /\ pods[a] = "Running" /\ signal[a] = "none"
          /\ signal' = [signal EXCEPT ![a] = "list"]
          /\ UNCHANGED vars
    /\ UNCHANGED <<manifests, watcherVars>>

(* The process has ended, or its grace period.                              *)
PodEnds(a) ==
    /\ signal[a] # "none"
    /\ PodPhase(a, "Absent")
    /\ signal' = [signal EXCEPT ![a] = "none"]
    /\ toApply' = [toApply EXCEPT ![a] = {}]
    /\ toDelete' = [toDelete EXCEPT ![a] = {}]
    /\ UNCHANGED <<manifests, specs, removals>>

-----------------------------------------------------------------------------
(* A watcher. Its main loop goes on while the cleanup runs. *)
Watches(a) == pods[a] = "Running" /\ (signal[a] = "none" \/ a \in Cleanup)

Compare(a) ==
    /\ Watches(a) /\ toApply[a] = {}
    /\ toApply' = [toApply EXCEPT ![a] =
           {p \in Policies : manifests[a][p] \notin {NoSpec, specs[p]}}]
    /\ UNCHANGED <<vars, manifests, signal, specs, toDelete, removals>>

(* Mutant: a watcher that has no name of an artifact. *)
ApplyWithoutName(a) ==
    /\ Watches(a)
    /\ \E p \in toApply[a] :
           /\ policies' = [policies EXCEPT ![p] =
                  [managed |-> TRUE, version |-> TRUE, artifact |-> NoName]]
           /\ specs' = [specs EXCEPT ![p] = manifests[a][p]]
           /\ toApply' = [toApply EXCEPT ![a] = @ \ {p}]
    /\ UNCHANGED <<artifacts, pods, gcVars, manifests, signal, toDelete, removals>>

Apply(a) ==
    /\ Watches(a)
    /\ \E p \in toApply[a] :
           /\ WatcherApplies(a, p)
           /\ specs' = [specs EXCEPT ![p] = manifests[a][p]]
           /\ toApply' = [toApply EXCEPT ![a] = @ \ {p}]
    /\ UNCHANGED <<manifests, signal, toDelete, removals>>

(* What the cleanup can delete.  The namespaced policies are on its list    *)
(* too, but its request says no namespace and always fails (watcher.go:175). *)
Own(a) == {p \in ClusterPolicies : policies[p] # NoPolicy /\ policies[p].artifact = NameOf[a]}

(* Mutant: the policies are deleted whatever the configuration says. *)
ListOwnAlways(a) ==
    /\ signal[a] = "list"
    /\ signal' = [signal EXCEPT ![a] = "delete"]
    /\ toDelete' = [toDelete EXCEPT ![a] = Own(a)]
    /\ UNCHANGED <<vars, manifests, specs, toApply, removals>>

(* By label; deleted by name, whoever the object belongs to by then.        *)
ListOwn(a) ==
    /\ a \in Cleanup /\ signal[a] = "list"
    /\ signal' = [signal EXCEPT ![a] = "delete"]
    /\ toDelete' = [toDelete EXCEPT ![a] = Own(a)]
    /\ UNCHANGED <<vars, manifests, specs, toApply, removals>>

DeleteOwn(a) ==
    /\ \E p \in toDelete[a] :
           /\ UserWrites(p, NoPolicy)
           /\ specs' = [specs EXCEPT ![p] = NoSpec]
           /\ toDelete' = [toDelete EXCEPT ![a] = @ \ {p}]
    /\ UNCHANGED <<manifests, signal, toApply, removals>>

-----------------------------------------------------------------------------
Pod(a) == CreatePod(a) \/ StartPod(a) \/ PodEnds(a) \/ (a \notin artifacts /\ DeletePod(a))
MainLoop(a) == Compare(a) \/ Apply(a)

SystemNext ==
    \/ Collector \/ CollectorRestarts
    \/ \E a \in Artifacts :
           \/ CreateArtifact(a) \/ DeleteArtifact(a)
           \/ CreatePod(a) \/ StartPod(a) \/ DeletePod(a) \/ PodEnds(a)
           \/ Compare(a) \/ Apply(a) \/ ListOwn(a) \/ DeleteOwn(a)

(* The collector's loop and the main loops never stop; the operator, the    *)
(* kubelet and ownership collection retry until pods are as they should be. *)
(* Nothing is assumed of users, nor of the cleanup, whose grace period ends.*)
SystemSpec ==
    /\ SystemInit /\ [][SystemNext]_sysVars
    /\ WF_sysVars(Collector)
    /\ \A a \in Artifacts : WF_sysVars(Pod(a)) /\ WF_sysVars(MainLoop(a))

-----------------------------------------------------------------------------
(* Whatever these parts do is something that PolicyGC expects of a cluster, *)
(* so that what is proved of the collector holds beside them.               *)
ClusterAsExpected == Init /\ [][Next]_vars

(* In the end, with users at rest, the cluster holds the policies that an   *)
(* artifact defines, labelled with the name of one that is there, and no    *)
(* others: neither a shared policy that was labelled with a removed         *)
(* artifact, nor what a dying watcher wrote, nor what its cleanup took from *)
(* another artifact stays as it is.                                         *)
PoliciesMatchArtifacts ==
    \A p \in Policies :
        <>[](IF \E a \in artifacts : manifests[a][p] # NoSpec
             THEN policies[p] # NoPolicy /\ \E a \in artifacts : policies[p].artifact = NameOf[a]
             ELSE policies[p] = NoPolicy)
=============================================================================
