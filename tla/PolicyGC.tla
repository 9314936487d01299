------------------------------ MODULE PolicyGC ------------------------------
(***************************************************************************)
(* The garbage collector of src/internal/gc: one sequential loop that      *)
(* lists the policies labelled managed-by=kyverno-watcher, decides for     *)
(* each one whether the KyvernoArtifact named by its artifact-name label   *)
(* and that artifact's watcher pod are still there, and deletes it when    *)
(* two consecutive looks in one cycle and one look in an earlier cycle     *)
(* found it orphaned.                                                      *)
(*                                                                         *)
(* Every API call of the collector is a step of its own, so that the rest  *)
(* of the cluster (users, the operator, the kubelet, the watchers: the     *)
(* "Cluster" actions) moves between a list and the decision it feeds.      *)
(***************************************************************************)
EXTENDS Naturals, FiniteSets

CONSTANTS
    Artifacts,        \* KyvernoArtifact objects
    Names,            \* metadata.name values of KyvernoArtifacts
    NameOf,           \* the name of each artifact
    PrefixOf,         \* <<m, n>>: name m is a string prefix of name n
    Policies,         \* policy keys: kind, namespace, name
    ClusterPolicies,  \* the keys of kind ClusterPolicy
    NoName,           \* a policy without artifact-name label
    NoPolicy,         \* no such object in the cluster / no current policy
    UserObjects,      \* what users write (NoPolicy: a deletion) and left before
    MaxFaults         \* bound: API errors and collector crashes in a behaviour

(* What an artifact-name label, or its absence, gives the collector. *)
Owners == Names \cup {NoName}

(* The labels of a policy the collector looks at: managed-by =             *)
(* kyverno-watcher, presence of policy-version, artifact-name.             *)
Labels == [managed : BOOLEAN, version : BOOLEAN, artifact : Owners]

PolicyInfo == [key : Policies, version : BOOLEAN, artifact : Owners]

ASSUME NameOfAssumption == NameOf \in [Artifacts -> Names]
ASSUME PrefixAssumption == \A n \in Names : <<n, n>> \in PrefixOf
ASSUME ClusterPoliciesAssumption == ClusterPolicies \subseteq Policies
ASSUME NoNameAssumption == NoName \notin Names
ASSUME NoPolicyAssumption == NoPolicy \notin Labels \cup PolicyInfo \cup Policies
ASSUME UserObjectsAssumption == UserObjects \subseteq Labels \cup {NoPolicy}
ASSUME MaxFaultsAssumption == MaxFaults \in Nat

VARIABLES
    artifacts,          \* the KyvernoArtifacts that exist
    pods,               \* phase of the watcher pod of each artifact
    policies,           \* the policies of the cluster, by key
    orphanedPolicies,   \* collector: keys of the map "first seen orphaned"
    policyList,         \* collector: listed policies not looked at yet
    policy,             \* collector: the policy being looked at
    recheck,            \* collector: TRUE in the second isOrphaned call
    pc,                 \* collector: its next API call
    faults              \* API errors and crashes so far

clusterVars == <<artifacts, pods, policies>>
loopVars == <<policyList, policy, recheck, pc>>
vars == <<clusterVars, orphanedPolicies, loopVars, faults>>

Phases == {"Absent", "Pending", "Running", "Terminal"}
PCs == {"sleep", "listPolicies", "listClusterPolicies", "next",
        "artifacts", "pods", "delete"}

TypeOK ==
    /\ artifacts \subseteq Artifacts
    /\ pods \in [Artifacts -> Phases]
    /\ policies \in [Policies -> Labels \cup {NoPolicy}]
    /\ orphanedPolicies \subseteq Policies
    /\ policyList \subseteq PolicyInfo
    /\ policy \in PolicyInfo \cup {NoPolicy}
    /\ recheck \in BOOLEAN
    /\ pc \in PCs
    /\ faults \in 0..MaxFaults

(* The cluster may hold policies of earlier releases (no artifact-name) and *)
(* of users when the collector starts; its map is empty.                    *)
Init ==
    /\ artifacts = {}
    /\ pods = [a \in Artifacts |-> "Absent"]
    /\ policies \in [Policies -> UserObjects]
    /\ orphanedPolicies = {}
    /\ policyList = {}
    /\ policy = NoPolicy
    /\ recheck = FALSE
    /\ pc = "sleep"
    /\ faults = 0

-----------------------------------------------------------------------------
(* The outcome of an API call: an answer, or an error. *)
ApiAnswers == UNCHANGED faults
ApiFails == faults < MaxFaults /\ faults' = faults + 1

IsActive(a) == pods[a] \in {"Pending", "Running"}

checkForSpecificKyvernoArtifact(n) == \E a \in artifacts : NameOf[a] = n

(* Mutant: a watcher pod that is still Pending does not count.              *)
OnlyRunningWatcher(n) ==
    \E a \in Artifacts : <<n, NameOf[a]>> \in PrefixOf /\ pods[a] = "Running"

(* Pods are matched by the prefix kyverno-artifact-manager-<name>. *)
checkForSpecificWatcher(n) ==
    \E a \in Artifacts : <<n, NameOf[a]>> \in PrefixOf /\ IsActive(a)

(* The selector app=kyverno-artifact-manager: the operator puts the four    *)
(* app.kubernetes.io/* labels on a watcher pod and no label "app".          *)
WatcherPodLabels ==
    {"app.kubernetes.io/name", "app.kubernetes.io/instance",
     "app.kubernetes.io/managed-by", "app.kubernetes.io/component"}
checkForActiveWatchers ==
    \E a \in Artifacts : "app" \in WatcherPodLabels /\ IsActive(a)

checkForKyvernoArtifacts == artifacts # {}

IsLegacy == policy.artifact = NoName

(* Mutant: listed without the managed-by selector. *)
AllPoliciesByKind(kind) ==
    {[key |-> p, version |-> policies[p].version,
      artifact |-> policies[p].artifact] : p \in {q \in kind : policies[q] # NoPolicy}}

getPoliciesByKind(kind) ==
    {[key |-> p, version |-> policies[p].version,
      artifact |-> policies[p].artifact] :
        p \in {q \in kind : policies[q] # NoPolicy /\ policies[q].managed}}

-----------------------------------------------------------------------------
(* The steps of collectGarbage. *)

GetClients ==
    /\ pc = "sleep"
    /\ \/ ApiAnswers /\ pc' = "listPolicies"
       \/ ApiFails /\ UNCHANGED pc
    /\ UNCHANGED <<clusterVars, orphanedPolicies, policyList, policy, recheck>>

(* A failed list is logged and contributes nothing. *)
ListPolicies ==
    /\ pc = "listPolicies"
    /\ pc' = "listClusterPolicies"
    /\ \/ ApiAnswers /\ policyList' = getPoliciesByKind(Policies \ ClusterPolicies)
       \/ ApiFails /\ UNCHANGED policyList
    /\ UNCHANGED <<clusterVars, orphanedPolicies, policy, recheck>>

ListClusterPolicies ==
    /\ pc = "listClusterPolicies"
    /\ pc' = "next"
    /\ \/ ApiAnswers /\ policyList' = policyList \cup getPoliciesByKind(ClusterPolicies)
       \/ ApiFails /\ UNCHANGED policyList
    /\ UNCHANGED <<clusterVars, orphanedPolicies, policy, recheck>>

(* isOrphaned asks for the artifacts first; isOrphanedLegacy for the pods. *)
FirstCheck(info) == IF info.artifact = NoName THEN "pods" ELSE "artifacts"

(* Namespaced Policies come before ClusterPolicies in the list. *)
NextPolicy ==
    /\ pc = "next"
    /\ \E info \in policyList :
        /\ info.key \in ClusterPolicies =>
               \A other \in policyList : other.key \in ClusterPolicies
        /\ policyList' = policyList \ {info}
        /\ \/ /\ ~info.version
              /\ orphanedPolicies' = orphanedPolicies \ {info.key}
              /\ UNCHANGED <<policy, pc>>
           \/ /\ info.version
              /\ policy' = info
              /\ pc' = FirstCheck(info)
              /\ UNCHANGED orphanedPolicies
    /\ UNCHANGED <<clusterVars, recheck, faults>>

(* Mutant: the recheck flag survives the policy. *)
PolicyDoneWithoutReset ==
    /\ pc' = "next"
    /\ policy' = NoPolicy
    /\ UNCHANGED recheck

PolicyDone ==
    /\ pc' = "next"
    /\ policy' = NoPolicy
    /\ recheck' = FALSE

(* Mutant: a policy that is not orphaned stays in the map. *)
NotOrphanedButTracked == UNCHANGED orphanedPolicies /\ PolicyDone

(* isOrphaned returned false, in the first call or in the recheck. *)
NotOrphaned ==
    /\ orphanedPolicies' = orphanedPolicies \ {policy.key}
    /\ PolicyDone

(* Mutant: the grace period counts for the collector, not for the policy.   *)
OrphanedWithSharedGrace ==
    \/ /\ ~recheck
       /\ orphanedPolicies = {}
       /\ orphanedPolicies' = orphanedPolicies \cup {policy.key}
       /\ PolicyDone
    \/ /\ ~recheck
       /\ orphanedPolicies # {}
       /\ recheck' = TRUE
       /\ pc' = FirstCheck(policy)
       /\ UNCHANGED <<orphanedPolicies, policy>>
    \/ /\ recheck
       /\ pc' = "delete"
       /\ UNCHANGED <<orphanedPolicies, policy, recheck>>

(* isOrphaned returned true. *)
Orphaned ==
    \/ /\ ~recheck
       /\ policy.key \notin orphanedPolicies
       /\ orphanedPolicies' = orphanedPolicies \cup {policy.key}
       /\ PolicyDone
    \/ /\ ~recheck
       /\ policy.key \in orphanedPolicies
       /\ recheck' = TRUE
       /\ pc' = FirstCheck(policy)
       /\ UNCHANGED <<orphanedPolicies, policy>>
    \/ /\ recheck
       /\ pc' = "delete"
       /\ UNCHANGED <<orphanedPolicies, policy, recheck>>

NextCheck(call) ==
    pc' = call /\ UNCHANGED <<orphanedPolicies, policy, recheck>>

(* Mutant: an artifact without a watcher still keeps its policies. *)
CheckArtifactsOnly ==
    /\ pc = "artifacts"
    /\ \/ /\ ApiFails
          /\ NotOrphaned
       \/ /\ ApiAnswers
          /\ IF checkForSpecificKyvernoArtifact(policy.artifact)
             THEN NotOrphaned ELSE Orphaned
    /\ UNCHANGED <<clusterVars, policyList>>

CheckArtifacts ==
    /\ pc = "artifacts"
    /\ \/ /\ ApiFails
          /\ NotOrphaned
       \/ /\ ApiAnswers
          /\ ~IsLegacy
          /\ IF checkForSpecificKyvernoArtifact(policy.artifact)
             THEN NextCheck("pods") ELSE Orphaned
       \/ /\ ApiAnswers
          /\ IsLegacy
          /\ IF checkForKyvernoArtifacts THEN NotOrphaned ELSE Orphaned
    /\ UNCHANGED <<clusterVars, policyList>>

CheckPods ==
    /\ pc = "pods"
    /\ \/ /\ ApiFails
          /\ NotOrphaned
       \/ /\ ApiAnswers
          /\ ~IsLegacy
          /\ IF checkForSpecificWatcher(policy.artifact)
             THEN NotOrphaned ELSE Orphaned
       \/ /\ ApiAnswers
          /\ IsLegacy
          /\ IF checkForActiveWatchers THEN NextCheck("artifacts") ELSE Orphaned
    /\ UNCHANGED <<clusterVars, policyList>>

Removed(p) == policies' = [policies EXCEPT ![p] = NoPolicy]

(* Delete by name, without precondition. Any error, NotFound included,      *)
(* keeps the map entry; a failed call may still have deleted the object.    *)
deletePolicy ==
    /\ pc = "delete"
    /\ \/ /\ ApiAnswers
          /\ policies[policy.key] # NoPolicy
          /\ Removed(policy.key)
          /\ orphanedPolicies' = orphanedPolicies \ {policy.key}
       \/ /\ ApiAnswers
          /\ policies[policy.key] = NoPolicy
          /\ UNCHANGED <<policies, orphanedPolicies>>
       \/ /\ ApiFails
          /\ UNCHANGED policies \/ Removed(policy.key)
          /\ UNCHANGED orphanedPolicies
    /\ PolicyDone
    /\ UNCHANGED <<artifacts, pods, policyList>>

EndCycle ==
    /\ pc = "next"
    /\ policyList = {}
    /\ pc' = "sleep"
    /\ UNCHANGED <<clusterVars, orphanedPolicies, policyList, policy, recheck, faults>>

(* The collector process dies and starts again: the map is in memory only. *)
GCRestart ==
    /\ ApiFails
    /\ orphanedPolicies' = {}
    /\ policyList' = {}
    /\ policy' = NoPolicy
    /\ recheck' = FALSE
    /\ pc' = "sleep"
    /\ UNCHANGED clusterVars

GCStep ==
    \/ GetClients
    \/ ListPolicies
    \/ ListClusterPolicies
    \/ NextPolicy
    \/ CheckArtifacts
    \/ CheckPods
    \/ deletePolicy
    \/ EndCycle

-----------------------------------------------------------------------------
(* The rest of the cluster. *)

gcVars == <<orphanedPolicies, loopVars, faults>>

ArtifactCreated(a) ==
    /\ a \notin artifacts
    /\ artifacts' = artifacts \cup {a}
    /\ UNCHANGED <<pods, policies, gcVars>>

(* The watcher pod outlives its artifact until ownership collection. *)
ArtifactDeleted(a) ==
    /\ a \in artifacts
    /\ artifacts' = artifacts \ {a}
    /\ UNCHANGED <<pods, policies, gcVars>>

(* The operator creates the pod (from a cache that may still hold a deleted *)
(* artifact); the kubelet moves its phase; the operator, ownership          *)
(* collection or an eviction removes it.                                    *)
PodChanges(a) ==
    /\ \/ /\ pods[a] = "Absent"
          /\ pods' = [pods EXCEPT ![a] = "Pending"]
       \/ /\ pods[a] = "Pending"
          /\ \E phase \in {"Running", "Terminal"} : pods' = [pods EXCEPT ![a] = phase]
       \/ /\ pods[a] = "Running"
          /\ pods' = [pods EXCEPT ![a] = "Terminal"]
       \/ /\ pods[a] # "Absent"
          /\ pods' = [pods EXCEPT ![a] = "Absent"]
    /\ UNCHANGED <<artifacts, policies, gcVars>>

(* A watcher applies a manifest: it sets all the labels. *)
WatcherApplies(a, p) ==
    /\ pods[a] = "Running"
    /\ policies' = [policies EXCEPT ![p] =
           [managed |-> TRUE, version |-> TRUE, artifact |-> NameOf[a]]]
    /\ UNCHANGED <<artifacts, pods, gcVars>>

(* A user deletes a policy, or creates or relabels one. *)
UserWrites(p, object) ==
    /\ policies' = [policies EXCEPT ![p] = object]
    /\ UNCHANGED <<artifacts, pods, gcVars>>

ClusterStep ==
    \/ \E a \in Artifacts : ArtifactCreated(a) \/ ArtifactDeleted(a) \/ PodChanges(a)
    \/ \E a \in Artifacts, p \in Policies : WatcherApplies(a, p)
    \/ \E p \in Policies, object \in UserObjects : UserWrites(p, object)

Next == GCStep \/ GCRestart \/ ClusterStep

(* The collector's loop never stops: Run is for { collectGarbage(); Sleep } *)
(* and its only thread is always runnable. Nothing is assumed of the rest   *)
(* of the cluster.                                                          *)
Spec == Init /\ [][Next]_vars /\ WF_vars(GCStep)

-----------------------------------------------------------------------------
OwnedBy(p, owner) ==
    /\ policies[p] # NoPolicy
    /\ policies[p].managed
    /\ policies[p].version
    /\ policies[p].artifact = owner

NoArtifact(owner) ==
    IF owner = NoName THEN ~checkForKyvernoArtifacts
    ELSE ~checkForSpecificKyvernoArtifact(owner)

NoWatcher(owner) ==
    IF owner = NoName THEN \A a \in Artifacts : ~IsActive(a)
    ELSE ~checkForSpecificWatcher(owner)

(* A policy whose artifact is gone for good, or whose watcher is, does not  *)
(* stay for good: as long as API errors and restarts are finitely many, the *)
(* collector gets rid of it (collectGarbage, isOrphaned, deletePolicy).     *)
AbandonedPoliciesCollected ==
    \A p \in Policies, owner \in Owners :
        /\ []<>~(OwnedBy(p, owner) /\ NoArtifact(owner))
        /\ []<>~(OwnedBy(p, owner) /\ NoWatcher(owner))
=============================================================================
