------------------------------ MODULE SystemProofs ------------------------------
(***************************************************************************)
(* Theorems about System: its type invariant, and that every step of the   *)
(* composition is a step that PolicyGC allows a cluster.                   *)
(***************************************************************************)
EXTENDS System, TLAPS

(* What the simulation needs: a pod that has its SIGTERM is running.        *)
SystemInv ==
    /\ SystemTypeOK
    /\ pods \in [Artifacts -> Phases]
    /\ DOMAIN policies = Policies

(* The collector removes policies from the cluster and adds none; it leaves *)
(* artifacts and pods alone.                                                *)
LEMMA CollectorRemoves ==
    ASSUME DOMAIN policies = Policies, GCStep
    PROVE  /\ DOMAIN policies' = Policies
           /\ UNCHANGED <<artifacts, pods>>
           /\ \A p \in Policies : policies'[p] \in {policies[p], NoPolicy}
<1>1. CASE GetClients BY <1>1 DEF GetClients, clusterVars
<1>2. CASE ListPolicies BY <1>2 DEF ListPolicies, clusterVars
<1>3. CASE ListClusterPolicies BY <1>3 DEF ListClusterPolicies, clusterVars
<1>4. CASE NextPolicy BY <1>4 DEF NextPolicy, clusterVars
<1>5. CASE CheckArtifacts BY <1>5 DEF CheckArtifacts, clusterVars
<1>6. CASE CheckPods BY <1>6 DEF CheckPods, clusterVars
<1>7. CASE deletePolicy BY <1>7 DEF deletePolicy, Removed
<1>8. CASE EndCycle BY <1>8 DEF EndCycle, clusterVars
<1>9. QED
    BY <1>1, <1>2, <1>3, <1>4, <1>5, <1>6, <1>7, <1>8 DEF GCStep

LEMMA InvInit == SystemInit => SystemInv
<1>1. SUFFICES ASSUME SystemInit PROVE SystemInv
    OBVIOUS
<1>2. pods \in [Artifacts -> Phases] /\ DOMAIN policies = Policies
    BY <1>1 DEF SystemInit, Init, Phases
<1>3. removals \in 0..MaxRemovals
    BY <1>1, MaxRemovalsAssumption DEF SystemInit
<1>4. \A p \in Policies : specs[p] = NoSpec <=> policies[p] = NoPolicy
    BY <1>1 DEF SystemInit
<1>5. QED
    BY <1>1, <1>2, <1>3, <1>4 DEF SystemInit, SystemInv, SystemTypeOK

(* Removals are counted up to their bound. *)
LEMMA Counted ==
    ASSUME removals \in 0..MaxRemovals, Removal
    PROVE  removals' \in 0..MaxRemovals
BY MaxRemovalsAssumption DEF Removal

(* A watcher leaves an object, with the spec of its version.                *)
LEMMA WatcherWrites ==
    ASSUME SystemInv, NEW a \in Artifacts, NEW p \in toApply[a], WatcherApplies(a, p)
    PROVE  /\ manifests[a][p] \in Specs
           /\ policies'[p] # NoPolicy
           /\ \A q \in Policies : q # p => policies'[q] = policies[q]
           /\ DOMAIN policies' = Policies /\ UNCHANGED pods
<1>1. p \in Policies /\ manifests[a][p] \in Specs
    BY ManifestsAssumption DEF SystemInv, SystemTypeOK
<1>2. [managed |-> TRUE, version |-> TRUE, artifact |-> NameOf[a]] \in Labels
    BY NameOfAssumption DEF Labels, Owners
<1>3. policies'[p] = [managed |-> TRUE, version |-> TRUE, artifact |-> NameOf[a]]
    BY <1>1 DEF WatcherApplies, SystemInv
<1>4. policies'[p] # NoPolicy
    BY <1>2, <1>3, NoPolicyAssumption
<1>5. QED
    BY <1>1, <1>4 DEF WatcherApplies, SystemInv

LEMMA InvStep == SystemInv /\ [SystemNext]_sysVars => SystemInv'
<1>. SUFFICES ASSUME SystemInv, [SystemNext]_sysVars PROVE SystemInv'
    OBVIOUS
<1>. USE DEF SystemInv, SystemTypeOK
<1>1. CASE Collector
    <2>1. /\ DOMAIN policies' = Policies
          /\ UNCHANGED <<artifacts, pods>>
          /\ \A p \in Policies : policies'[p] \in {policies[p], NoPolicy}
        BY <1>1, CollectorRemoves DEF Collector
    <2>2. /\ specs' \in [Policies -> Specs \cup {NoSpec}]
          /\ \A p \in Policies : specs'[p] = NoSpec <=> policies'[p] = NoPolicy
        BY <1>1, <2>1 DEF Collector
    <2>3. QED
        BY <1>1, <2>1, <2>2 DEF Collector
<1>2. CASE CollectorRestarts
    BY <1>2 DEF CollectorRestarts, GCRestart, clusterVars, watcherVars
<1>3. ASSUME NEW a \in Artifacts, CreateArtifact(a) PROVE SystemInv'
    BY <1>3 DEF CreateArtifact, ArtifactCreated, watcherVars
<1>4. ASSUME NEW a \in Artifacts, DeleteArtifact(a) PROVE SystemInv'
    BY <1>4, Counted DEF DeleteArtifact, ArtifactDeleted, watcherVars
<1>5. ASSUME NEW a \in Artifacts, CreatePod(a) PROVE SystemInv'
    BY <1>5 DEF CreatePod, PodPhase, Phases, watcherVars
<1>6. ASSUME NEW a \in Artifacts, StartPod(a) PROVE SystemInv'
    BY <1>6 DEF StartPod, PodPhase, Phases, watcherVars
<1>7. ASSUME NEW a \in Artifacts, DeletePod(a) PROVE SystemInv'
    <2>1. removals' \in 0..MaxRemovals
        BY <1>7, Counted DEF DeletePod
    <2>2. CASE pods[a] = "Pending" /\ PodPhase(a, "Absent") /\ UNCHANGED signal
        BY <1>7, <2>1, <2>2 DEF DeletePod, PodPhase, Phases, watcherVars
    <2>3. CASE /\ pods[a] = "Running" /\ signal' = [signal EXCEPT ![a] = "list"]
               /\ signal[a] = "none" /\ UNCHANGED vars
        BY <1>7, <2>1, <2>3 DEF DeletePod, watcherVars, vars, clusterVars
    <2>4. QED
        BY <1>7, <2>2, <2>3 DEF DeletePod
<1>8. ASSUME NEW a \in Artifacts, PodEnds(a) PROVE SystemInv'
    BY <1>8 DEF PodEnds, PodPhase, Phases
<1>9. ASSUME NEW a \in Artifacts, Compare(a) PROVE SystemInv'
    BY <1>9 DEF Compare, vars, clusterVars
<1>10. ASSUME NEW a \in Artifacts, Apply(a) PROVE SystemInv'
    <2>1. PICK p \in toApply[a] :
              /\ WatcherApplies(a, p)
              /\ specs' = [specs EXCEPT ![p] = manifests[a][p]]
              /\ toApply' = [toApply EXCEPT ![a] = @ \ {p}]
        BY <1>10 DEF Apply
    <2>2. /\ manifests[a][p] \in Specs
          /\ policies'[p] # NoPolicy
          /\ \A q \in Policies : q # p => policies'[q] = policies[q]
          /\ DOMAIN policies' = Policies /\ UNCHANGED pods
        BY <2>1, WatcherWrites
    <2>3. /\ specs' \in [Policies -> Specs \cup {NoSpec}]
          /\ \A q \in Policies : specs'[q] = NoSpec <=> policies'[q] = NoPolicy
        BY <2>1, <2>2, NoSpecAssumption
    <2>4. QED
        BY <1>10, <2>1, <2>2, <2>3 DEF Apply
<1>11. ASSUME NEW a \in Artifacts, ListOwn(a) PROVE SystemInv'
    BY <1>11, ClusterPoliciesAssumption DEF ListOwn, Own, vars, clusterVars
<1>12. ASSUME NEW a \in Artifacts, DeleteOwn(a) PROVE SystemInv'
    BY <1>12 DEF DeleteOwn, UserWrites
<1>13. CASE UNCHANGED sysVars
    BY <1>13 DEF sysVars, vars, clusterVars, watcherVars
<1>14. QED
    BY <1>1, <1>2, <1>3, <1>4, <1>5, <1>6, <1>7, <1>8, <1>9, <1>10, <1>11, <1>12, <1>13
    DEF SystemNext

-----------------------------------------------------------------------------
(* The step of PolicyGC that a step of the composition is.                  *)
LEMMA StepAllowed == SystemInv /\ [SystemNext]_sysVars => [Next]_vars
<1>. SUFFICES ASSUME SystemInv, [SystemNext]_sysVars PROVE [Next]_vars
    OBVIOUS
<1>1. CASE Collector
    BY <1>1 DEF Collector, Next
<1>2. CASE CollectorRestarts
    BY <1>2 DEF CollectorRestarts, Next
<1>3. ASSUME NEW a \in Artifacts, CreateArtifact(a) PROVE Next
    BY <1>3 DEF CreateArtifact, ClusterStep, Next
<1>4. ASSUME NEW a \in Artifacts, DeleteArtifact(a) PROVE Next
    BY <1>4 DEF DeleteArtifact, ClusterStep, Next
<1>5. ASSUME NEW a \in Artifacts, CreatePod(a) \/ StartPod(a) PROVE Next
    <2>1. PodChanges(a)
        BY <1>5 DEF CreatePod, StartPod, PodPhase, PodChanges
    <2>2. QED
        BY <2>1 DEF ClusterStep, Next
<1>6. ASSUME NEW a \in Artifacts, DeletePod(a) PROVE [Next]_vars
    <2>1. PodChanges(a) \/ UNCHANGED vars
        BY <1>6 DEF DeletePod, PodPhase, PodChanges
    <2>2. QED
        BY <2>1 DEF ClusterStep, Next
<1>7. ASSUME NEW a \in Artifacts, PodEnds(a) PROVE Next
    <2>1. pods[a] = "Running"
        BY <1>7 DEF PodEnds, SystemInv, SystemTypeOK
    <2>2. PodChanges(a)
        BY <1>7, <2>1 DEF PodEnds, PodPhase, PodChanges
    <2>3. QED
        BY <2>2 DEF ClusterStep, Next
<1>8. ASSUME NEW a \in Artifacts, Compare(a) \/ ListOwn(a) PROVE UNCHANGED vars
    BY <1>8 DEF Compare, ListOwn
<1>9. ASSUME NEW a \in Artifacts, Apply(a) PROVE Next
    <2>1. PICK p \in toApply[a] : WatcherApplies(a, p)
        BY <1>9 DEF Apply
    <2>2. p \in Policies
        BY DEF SystemInv, SystemTypeOK
    <2>3. QED
        BY <2>1, <2>2 DEF ClusterStep, Next
<1>10. ASSUME NEW a \in Artifacts, DeleteOwn(a) PROVE Next
    <2>1. PICK p \in toDelete[a] : UserWrites(p, NoPolicy)
        BY <1>10 DEF DeleteOwn
    <2>2. p \in Policies /\ NoPolicy \in UserObjects
        BY DeletionAssumption DEF SystemInv, SystemTypeOK
    <2>3. QED
        BY <2>1, <2>2 DEF ClusterStep, Next
<1>11. CASE UNCHANGED sysVars
    BY <1>11 DEF sysVars
<1>12. QED
    BY <1>1, <1>2, <1>3, <1>4, <1>5, <1>6, <1>7, <1>8, <1>9, <1>10, <1>11 DEF SystemNext

(* The initial policies of the composition are among those of PolicyGC.     *)
LEMMA InitAllowed == SystemInit => Init
BY DEF SystemInit

(* Type correctness of the composition, and what ties its parts together:   *)
(* a policy has a spec exactly while it exists, only a running pod has a    *)
(* SIGTERM, and only a watcher with deletePoliciesOnTermination lists       *)
(* policies to delete (watcher.go:66-97).                                   *)
THEOREM SystemTypeCorrect == SystemSpec => []SystemTypeOK
<1>1. SystemInv => SystemTypeOK
    BY DEF SystemInv
<1>2. QED
    BY <1>1, InvInit, InvStep, PTL DEF SystemSpec

(* The operator, the kubelet and the watchers do nothing to the cluster     *)
(* that PolicyGC does not expect: what is proved of the collector among     *)
(* arbitrary cluster steps holds in their company (collectGarbage beside    *)
(* Reconcile, watchLoop and cleanupPolicies).                               *)
THEOREM Composition == SystemSpec => ClusterAsExpected
<1>1. QED
    BY InitAllowed, InvInit, InvStep, StepAllowed, PTL DEF SystemSpec, ClusterAsExpected
=============================================================================
