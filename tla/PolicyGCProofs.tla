---------------------------- MODULE PolicyGCProofs ----------------------------
(***************************************************************************)
(* Proofs about the collector, for every set of artifacts, names and       *)
(* policies and every number of faults.  CollectorInv is inductive; the    *)
(* action properties follow from it at deletePolicy, the only step that    *)
(* collects.                                                               *)
(***************************************************************************)
EXTENDS PolicyGCHistory, TLAPS

USE DEF ApiAnswers, ApiFails

LEMMA ListedTyped ==
    ASSUME TypeOK, NEW kind \in SUBSET Policies
    PROVE  getPoliciesByKind(kind) \subseteq PolicyInfo
<1> SUFFICES ASSUME NEW p \in kind, policies[p] # NoPolicy
             PROVE  [key |-> p, version |-> policies[p].version,
                     artifact |-> policies[p].artifact] \in PolicyInfo
    BY DEF getPoliciesByKind
<1>1. policies[p] \in Labels
    BY DEF TypeOK
<1> QED BY <1>1 DEF Labels, PolicyInfo

LEMMA InitTyped == HInit => HistoryTypeOK
<1> SUFFICES ASSUME HInit PROVE HistoryTypeOK
    OBVIOUS
<1>1. policies \in [Policies -> Labels \cup {NoPolicy}]
    BY UserObjectsAssumption DEF HInit, Init
<1>2. pods \in [Artifacts -> Phases]
    BY DEF HInit, Init, Phases
<1>3. faults \in 0..MaxFaults
    BY MaxFaultsAssumption DEF HInit, Init
<1>4. pc \in PCs
    BY DEF HInit, Init, PCs
<1> QED BY <1>1, <1>2, <1>3, <1>4 DEF HInit, Init, HistoryTypeOK, TypeOK

LEMMA GCStepTyped ==
    ASSUME TypeOK, LoopInv, GCStep
    PROVE  TypeOK'
<1> USE MaxFaultsAssumption DEF clusterVars, loopVars, PCs
<1>1. CASE GetClients
    BY <1>1 DEF TypeOK, GetClients
<1>2. CASE ListPolicies
    BY <1>2, ListedTyped DEF TypeOK, ListPolicies
<1>3. CASE ListClusterPolicies
    BY <1>3, ListedTyped, ClusterPoliciesAssumption DEF TypeOK, ListClusterPolicies
<1>4. CASE NextPolicy
    BY <1>4 DEF TypeOK, NextPolicy, FirstCheck, PolicyInfo
<1>5. ASSUME InVisit, NotOrphaned \/ Orphaned \/ \E call \in PCs : NextCheck(call)
      PROVE  /\ orphanedPolicies' \subseteq Policies
             /\ policy' \in PolicyInfo \cup {NoPolicy}
             /\ recheck' \in BOOLEAN
             /\ pc' \in PCs
    <2>1. policy.key \in Policies
        BY <1>5 DEF TypeOK, LoopInv, PolicyInfo
    <2>2. CASE NotOrphaned
        BY <2>1, <2>2 DEF TypeOK, NotOrphaned, PolicyDone
    <2>3. CASE Orphaned
        BY <2>1, <2>3 DEF TypeOK, Orphaned, PolicyDone, FirstCheck
    <2>4. CASE \E call \in PCs : NextCheck(call)
        BY <2>4 DEF TypeOK, NextCheck
    <2> QED BY <1>5, <2>2, <2>3, <2>4
<1>6. CASE CheckArtifacts
    <2>1. InVisit /\ (NotOrphaned \/ Orphaned \/ \E call \in PCs : NextCheck(call))
        BY <1>6 DEF CheckArtifacts, InVisit
    <2> QED BY <1>5, <1>6, <2>1 DEF TypeOK, CheckArtifacts
<1>7. CASE CheckPods
    <2>1. InVisit /\ (NotOrphaned \/ Orphaned \/ \E call \in PCs : NextCheck(call))
        BY <1>7 DEF CheckPods, InVisit
    <2> QED BY <1>5, <1>7, <2>1 DEF TypeOK, CheckPods
<1>8. CASE deletePolicy
    <2>1. policies' \in [Policies -> Labels \cup {NoPolicy}]
        BY <1>8 DEF TypeOK, deletePolicy, Removed
    <2>2. orphanedPolicies' \subseteq Policies /\ faults' \in 0..MaxFaults
        BY <1>8 DEF TypeOK, deletePolicy
    <2> QED BY <1>8, <2>1, <2>2 DEF TypeOK, deletePolicy, PolicyDone
<1>9. CASE EndCycle
    BY <1>9 DEF TypeOK, EndCycle
<1> QED BY <1>1, <1>2, <1>3, <1>4, <1>6, <1>7, <1>8, <1>9 DEF GCStep

LEMMA GCRestartTyped ==
    ASSUME TypeOK, GCRestart
    PROVE  TypeOK'
<1> USE DEF TypeOK, GCRestart
<1>1. faults' \in 0..MaxFaults
    BY MaxFaultsAssumption
<1>2. pc' \in PCs
    BY DEF PCs
<1> QED BY <1>1, <1>2 DEF clusterVars

LEMMA ClusterStepTyped ==
    ASSUME TypeOK, ClusterStep
    PROVE  TypeOK'
<1> USE DEF TypeOK, gcVars, loopVars
<1>1. ASSUME NEW a \in Artifacts, ArtifactCreated(a) \/ ArtifactDeleted(a)
      PROVE  TypeOK'
    BY <1>1 DEF ArtifactCreated, ArtifactDeleted
<1>2. ASSUME NEW a \in Artifacts, PodChanges(a)
      PROVE  TypeOK'
    BY <1>2 DEF PodChanges, Phases
<1>3. ASSUME NEW a \in Artifacts, NEW p \in Policies, WatcherApplies(a, p)
      PROVE  TypeOK'
    <2>1. NameOf[a] \in Owners
        BY NameOfAssumption DEF Owners
    <2>2. [managed |-> TRUE, version |-> TRUE, artifact |-> NameOf[a]] \in Labels
        BY <2>1 DEF Labels
    <2> QED BY <1>3, <2>2 DEF WatcherApplies
<1>4. ASSUME NEW p \in Policies, NEW object \in UserObjects, UserWrites(p, object)
      PROVE  TypeOK'
    BY <1>4, UserObjectsAssumption DEF UserWrites
<1> QED BY <1>1, <1>2, <1>3, <1>4 DEF ClusterStep

LEMMA StepTyped ==
    ASSUME CollectorInv, [HNext]_hvars
    PROVE  HistoryTypeOK'
<1> USE DEF CollectorInv, HistoryTypeOK
<1>1. CASE UNCHANGED hvars
    BY <1>1 DEF hvars, vars, history, clusterVars, loopVars, TypeOK
<1>2. CASE HNext
    <2>1. TypeOK'
        BY <1>2, GCStepTyped, GCRestartTyped, ClusterStepTyped DEF HNext
    <2>2. steady' \subseteq Artifacts
        BY <1>2 DEF HNext, RememberHealth, Healthy, TypeOK
    <2>3. touched' \subseteq Policies
        BY <1>2 DEF HNext, RememberWrites, Written
    <2>4. policy # NoPolicy => policy.key \in Policies
        BY DEF TypeOK, PolicyInfo
    <2>5. Visited \subseteq Policies
        BY <2>4 DEF Visited
    <2>6. calm' \subseteq Policies
        BY <1>2, <2>5 DEF HNext, RememberVisit, ForgetVisits
    <2> QED BY <2>1, <2>2, <2>3, <2>6
<1> QED BY <1>1, <1>2

LEMMA ClusterFrame == ClusterStep => UNCHANGED gcVars
BY DEF ClusterStep, ArtifactCreated, ArtifactDeleted, PodChanges, WatcherApplies,
       UserWrites

(* A verdict leaves the loop variables in one of three ways. *)
LEMMA VerdictLoop ==
    ASSUME InVisit, policy.version, policy # NoPolicy,
           recheck => policy.key \in orphanedPolicies,
           NotOrphaned \/ Orphaned \/ NextCheck("pods") \/ NextCheck("artifacts"),
           UNCHANGED policyList
    PROVE  LoopInv'
<1>1. CASE NotOrphaned
    BY <1>1 DEF LoopInv, InVisit, NotOrphaned, PolicyDone
<1>2. CASE Orphaned
    BY <1>2 DEF LoopInv, InVisit, Orphaned, PolicyDone, FirstCheck
<1>3. CASE NextCheck("pods") \/ NextCheck("artifacts")
    BY <1>3 DEF LoopInv, InVisit, NextCheck
<1> QED BY <1>1, <1>2, <1>3

LEMMA LoopPreserved ==
    ASSUME TypeOK, LoopInv, [HNext]_hvars
    PROVE  LoopInv'
<1>1. CASE UNCHANGED hvars \/ ClusterStep
    BY <1>1, ClusterFrame DEF LoopInv, InVisit, hvars, vars, gcVars, loopVars
<1>2. CASE GCRestart
    BY <1>2 DEF LoopInv, InVisit, GCRestart
<1>3. CASE GetClients
    BY <1>3 DEF LoopInv, InVisit, GetClients
<1>4. CASE ListPolicies
    BY <1>4 DEF LoopInv, InVisit, ListPolicies, getPoliciesByKind
<1>5. CASE ListClusterPolicies
    BY <1>5 DEF LoopInv, InVisit, ListClusterPolicies
<1>6. CASE NextPolicy
    <2>1. \A info \in policyList : info # NoPolicy
        BY NoPolicyAssumption DEF TypeOK
    <2> QED BY <1>6, <2>1 DEF LoopInv, InVisit, NextPolicy, FirstCheck
<1>7. CASE CheckArtifacts \/ CheckPods
    <2>1. InVisit /\ UNCHANGED policyList
        BY <1>7 DEF CheckArtifacts, CheckPods, InVisit
    <2>2. NotOrphaned \/ Orphaned \/ NextCheck("pods") \/ NextCheck("artifacts")
        BY <1>7 DEF CheckArtifacts, CheckPods
    <2> QED BY <2>1, <2>2, VerdictLoop DEF LoopInv
<1>8. CASE deletePolicy
    BY <1>8 DEF LoopInv, InVisit, deletePolicy, PolicyDone
<1>9. CASE EndCycle
    BY <1>9 DEF LoopInv, InVisit, EndCycle
<1> QED BY <1>1, <1>2, <1>3, <1>4, <1>5, <1>6, <1>7, <1>8, <1>9
        DEF HNext, GCStep

LEMMA PendingTyped ==
    ASSUME TypeOK, LoopInv
    PROVE  Pending \subseteq PolicyInfo
BY DEF TypeOK, LoopInv, Pending

(* As long as nothing is added to the pending policies, ListInv survives    *)
(* every write, because the write is remembered.                            *)
LEMMA ListKept ==
    ASSUME TypeOK, LoopInv, ListInv, Pending' \subseteq Pending,
           touched' = touched \cup Written
    PROVE  ListInv'
<1> SUFFICES ASSUME NEW info \in Pending', info.key \notin touched'
             PROVE  policies'[info.key] = [managed |-> TRUE, version |-> info.version,
                                           artifact |-> info.artifact]
    BY DEF ListInv
<1>1. info \in Pending /\ info.key \in Policies /\ info.key \notin touched
    BY PendingTyped DEF PolicyInfo
<1>2. policies'[info.key] = policies[info.key]
    BY <1>1 DEF Written
<1> QED BY <1>1, <1>2 DEF ListInv

(* What a list call returns is true of the policies when it returns. *)
LEMMA ListedTrue ==
    ASSUME TypeOK, NEW kind \in SUBSET Policies, NEW info \in getPoliciesByKind(kind)
    PROVE  /\ info.key \in kind
           /\ policies[info.key] = [managed |-> TRUE, version |-> info.version,
                                    artifact |-> info.artifact]
<1>1. PICK p \in kind :
          /\ policies[p] # NoPolicy /\ policies[p].managed
          /\ info = [key |-> p, version |-> policies[p].version,
                     artifact |-> policies[p].artifact]
    BY DEF getPoliciesByKind
<1>2. policies[p] \in Labels
    BY <1>1 DEF TypeOK
<1>3. policies[p] = [managed |-> TRUE, version |-> policies[p].version,
                    artifact |-> policies[p].artifact]
    BY <1>1, <1>2 DEF Labels
<1> QED BY <1>1, <1>3

LEMMA ListPreserved ==
    ASSUME TypeOK, LoopInv, ListInv, [HNext]_hvars
    PROVE  ListInv'
<1>1. CASE UNCHANGED hvars
    BY <1>1 DEF ListInv, Pending, InVisit, hvars, vars, history, clusterVars, loopVars
<1> SUFFICES ASSUME HNext PROVE ListInv'
    BY <1>1
<1>2. CASE ListPolicies
    <2>1. \A info \in Pending' : info \in getPoliciesByKind(Policies \ ClusterPolicies)
        BY <1>2 DEF ListPolicies, Pending, InVisit, LoopInv
    <2>2. UNCHANGED policies
        BY <1>2 DEF ListPolicies, clusterVars
    <2> QED BY <2>1, <2>2, ListedTrue DEF ListInv
<1>3. CASE ListClusterPolicies
    <2>1. \A info \in Pending' :
              info \in getPoliciesByKind(ClusterPolicies) \/ info \in Pending
        BY <1>3 DEF ListClusterPolicies, Pending, InVisit
    <2>2. \A info \in Pending : info.key \notin ClusterPolicies
        BY <1>3 DEF ListClusterPolicies, Pending, InVisit, LoopInv
    <2>3. UNCHANGED policies /\ touched' = touched \ ClusterPolicies
        BY <1>3 DEF ListClusterPolicies, clusterVars, HNext, RememberWrites, ListStep
    <2> QED BY <2>1, <2>2, <2>3, ListedTrue, ClusterPoliciesAssumption DEF ListInv
<1>4. CASE ~ListPolicies /\ ~ListClusterPolicies
    <2>1. Pending' \subseteq Pending
        <3>1. CASE ClusterStep
            BY <3>1, ClusterFrame DEF Pending, InVisit, gcVars, loopVars
        <3>2. CASE GCRestart \/ GetClients \/ EndCycle \/ deletePolicy
            BY <3>2 DEF GCRestart, GetClients, EndCycle, deletePolicy, PolicyDone,
                        Pending, InVisit, LoopInv
        <3>3. CASE NextPolicy
            BY <3>3 DEF NextPolicy, Pending, InVisit, FirstCheck
        <3>4. CASE CheckArtifacts \/ CheckPods
            BY <3>4 DEF CheckArtifacts, CheckPods, NotOrphaned, Orphaned, PolicyDone,
                        NextCheck, FirstCheck, Pending, InVisit
        <3> QED BY <1>4, <3>1, <3>2, <3>3, <3>4 DEF HNext, GCStep
    <2>2. ~ListStep("listPolicies", "listClusterPolicies") /\ ~ListStep("listClusterPolicies", "next")
        <3>1. CASE ClusterStep
            BY <3>1, ClusterFrame DEF ListStep, gcVars, loopVars
        <3>2. CASE GCRestart
            BY <3>2 DEF GCRestart, ListStep
        <3>3. CASE GCStep
            BY <1>4, <3>3 DEF GCStep, GetClients, EndCycle, deletePolicy, NextPolicy,
                              CheckArtifacts, CheckPods, ListStep
        <3> QED BY <3>1, <3>2, <3>3 DEF HNext
    <2>3. touched' = touched \cup Written
        BY <2>2 DEF HNext, RememberWrites
    <2> QED BY <2>1, <2>3, ListKept
<1> QED BY <1>2, <1>3, <1>4

(* A verdict "orphaned" that an answer of the API supports: an artifact of  *)
(* that name, healthy since the cycle began, would have been found.         *)
LEMMA CheckVerdict ==
    ASSUME TypeOK, LoopInv, VerdictInv, CheckArtifacts \/ CheckPods
    PROVE  \/ NotOrphaned
           \/ NextCheck("pods") \/ NextCheck("artifacts")
           \/ Orphaned /\ ~SteadyOwner(policy.artifact)
<1>1. \A a \in steady : a \in artifacts /\ a \in Artifacts /\ IsActive(a)
    BY DEF VerdictInv, Healthy, TypeOK
<1>2. CASE policy.artifact = NoName
    <2>1. ~SteadyOwner(policy.artifact)
        BY <1>1, <1>2, NameOfAssumption, NoNameAssumption DEF SteadyOwner
    <2> QED BY <2>1 DEF CheckArtifacts, CheckPods
<1>3. CASE policy.artifact # NoName
    <2>1. CASE CheckArtifacts
        <3>1. ~checkForSpecificKyvernoArtifact(policy.artifact)
                  => ~SteadyOwner(policy.artifact)
            BY <1>1 DEF checkForSpecificKyvernoArtifact, SteadyOwner
        <3> QED BY <1>3, <2>1, <3>1 DEF CheckArtifacts, IsLegacy
    <2>2. CASE CheckPods
        <3>1. ~checkForSpecificWatcher(policy.artifact)
                  => ~SteadyOwner(policy.artifact)
            BY <1>1, NameOfAssumption, PrefixAssumption
            DEF checkForSpecificWatcher, SteadyOwner
        <3> QED BY <1>3, <2>2, <3>1 DEF CheckPods, IsLegacy
    <2> QED BY <2>1, <2>2
<1> QED BY <1>2, <1>3

(* Health is only lost during a cycle, and history follows the visits. *)
LEMMA SteadyShrinks ==
    ASSUME HNext, VerdictInv
    PROVE  /\ steady' \subseteq Healthy'
           /\ pc # "sleep" =>
                  \A owner : ~SteadyOwner(owner) => ~SteadyOwner(owner)'
<1>1. pc # "sleep" => steady' \subseteq steady
    BY DEF HNext, RememberHealth
<1> QED BY <1>1 DEF HNext, RememberHealth, SteadyOwner

LEMMA VisitOver ==
    ASSUME HNext, ~GCRestart, policy # NoPolicy, pc' = "next",
           ~SteadyOwner(policy.artifact)
    PROVE  calm' = calm \ {policy.key}
BY DEF HNext, RememberVisit, Visited

LEMMA VisitGoesOn ==
    ASSUME HNext, ~GCRestart, policy = NoPolicy \/ pc' # "next"
    PROVE  calm' = calm
BY DEF HNext, RememberVisit, Visited

LEMMA VerdictPreserved ==
    ASSUME TypeOK, LoopInv, VerdictInv, [HNext]_hvars
    PROVE  VerdictInv'
<1>1. CASE UNCHANGED hvars
    BY <1>1 DEF VerdictInv, Healthy, IsActive, SteadyOwner, hvars, vars, history,
                clusterVars, loopVars
<1> SUFFICES ASSUME HNext
             PROVE  /\ recheck' => ~SteadyOwner(policy.artifact)'
                    /\ orphanedPolicies' \cap calm' = {}
    BY <1>1, SteadyShrinks DEF VerdictInv
<1> USE DEF VerdictInv
<1>2. CASE GCRestart
    BY <1>2 DEF GCRestart
<1> SUFFICES ASSUME ~GCRestart
             PROVE  /\ recheck' => ~SteadyOwner(policy.artifact)'
                    /\ orphanedPolicies' \cap calm' = {}
    BY <1>2
<1>3. CASE ClusterStep
    <2>1. UNCHANGED gcVars
        BY <1>3, ClusterFrame
    <2>2. policy = NoPolicy \/ pc' # "next"
        BY <2>1 DEF LoopInv, InVisit, gcVars, loopVars
    <2>3. recheck => pc # "sleep"
        BY DEF LoopInv, InVisit
    <2> QED BY <2>1, <2>2, <2>3, VisitGoesOn, SteadyShrinks DEF gcVars, loopVars
<1>4. CASE GetClients \/ ListPolicies \/ ListClusterPolicies \/ EndCycle
    <2>1. policy = NoPolicy /\ ~recheck /\ UNCHANGED <<recheck, orphanedPolicies>>
        BY <1>4 DEF GetClients, ListPolicies, ListClusterPolicies, EndCycle, LoopInv, InVisit
    <2> QED BY <2>1, VisitGoesOn
<1>5. CASE NextPolicy
    <2>1. policy = NoPolicy /\ ~recheck /\ UNCHANGED recheck
        BY <1>5 DEF NextPolicy, LoopInv, InVisit
    <2>2. orphanedPolicies' \subseteq orphanedPolicies
        BY <1>5 DEF NextPolicy
    <2> QED BY <2>1, <2>2, VisitGoesOn
<1>6. CASE CheckArtifacts \/ CheckPods
    <2>1. policy # NoPolicy /\ pc # "sleep" /\ pc # "next"
        BY <1>6 DEF CheckArtifacts, CheckPods, LoopInv, InVisit
    <2>2. CASE NotOrphaned
        <3>1. calm' \subseteq calm \cup {policy.key}
            BY <2>1 DEF HNext, RememberVisit, Visited
        <3> QED BY <2>2, <3>1 DEF NotOrphaned, PolicyDone
    <2>3. CASE NextCheck("pods") \/ NextCheck("artifacts")
        BY <2>1, <2>3, VisitGoesOn, SteadyShrinks DEF NextCheck
    <2>4. CASE Orphaned /\ ~SteadyOwner(policy.artifact)
        <3>1. CASE PolicyDone
            BY <2>1, <2>4, <3>1, VisitOver DEF Orphaned, PolicyDone
        <3>2. CASE ~PolicyDone
            BY <2>1, <2>4, <3>2, VisitGoesOn, SteadyShrinks DEF Orphaned, FirstCheck
        <3> QED BY <3>1, <3>2
    <2> QED BY <1>6, <2>2, <2>3, <2>4, CheckVerdict
<1>7. CASE deletePolicy
    <2>1. policy # NoPolicy /\ ~SteadyOwner(policy.artifact)
        BY <1>7 DEF deletePolicy, LoopInv, InVisit
    <2>2. orphanedPolicies' \subseteq orphanedPolicies /\ pc' = "next" /\ ~recheck'
        BY <1>7 DEF deletePolicy, PolicyDone
    <2> QED BY <2>1, <2>2, VisitOver
<1> QED BY <1>3, <1>4, <1>5, <1>6, <1>7 DEF HNext, GCStep

(* The invariant that carries every property of the collector. *)
THEOREM CollectorCorrect == HSpec => []CollectorInv
<1>1. HInit => CollectorInv
    <2> SUFFICES ASSUME HInit PROVE CollectorInv
        OBVIOUS
    <2>1. LoopInv
        BY DEF HInit, Init, LoopInv, InVisit
    <2>2. ListInv
        BY DEF HInit, Init, ListInv, Pending, InVisit
    <2>3. VerdictInv
        BY DEF HInit, Init, VerdictInv
    <2> QED BY <2>1, <2>2, <2>3, InitTyped DEF CollectorInv
<1>2. CollectorInv /\ [HNext]_hvars => CollectorInv'
    BY StepTyped, LoopPreserved, ListPreserved, VerdictPreserved
    DEF CollectorInv, HistoryTypeOK
<1> QED BY <1>1, <1>2, PTL DEF HSpec

-----------------------------------------------------------------------------
(* What is known when the collector's delete call removes a policy. *)
LEMMA Collected ==
    ASSUME CollectorInv, [HNext]_hvars, NEW p \in Policies, Collects(p)
    PROVE  /\ p = policy.key
           /\ p \in orphanedPolicies
           /\ ~SteadyOwner(policy.artifact)
           /\ p \notin touched => /\ policies[p].managed
                                 /\ policies[p].version
                                 /\ policies[p].artifact = policy.artifact
<1>1. pc = "delete" /\ p = policy.key
    BY DEF Collects
<1>2. recheck /\ policy.version /\ policy \in Pending
    BY <1>1 DEF CollectorInv, LoopInv, InVisit, Pending
<1>3. p \in orphanedPolicies /\ ~SteadyOwner(policy.artifact)
    BY <1>1, <1>2 DEF CollectorInv, LoopInv, VerdictInv
<1>4. p \notin touched => policies[p] = [managed |-> TRUE, version |-> TRUE,
                                        artifact |-> policy.artifact]
    BY <1>1, <1>2 DEF CollectorInv, ListInv, HistoryTypeOK, TypeOK, PolicyInfo
<1> QED BY <1>1, <1>3, <1>4

(* An artifact with an active pod throughout the cycle keeps every policy   *)
(* that nobody rewrote under the collector's hands.                         *)
THEOREM HealthyKept == HSpec => HealthyArtifactKeepsPolicies
<1>1. ASSUME CollectorInv, [HNext]_hvars, NEW p \in Policies, Collects(p), p \notin touched
      PROVE  ~SteadyOwner(policies[p].artifact)
    BY <1>1, Collected
<1>2. CollectorInv /\ [HNext]_hvars
          => [\A p \in Policies :
                  Collects(p) /\ p \notin touched
                      => ~SteadyOwner(policies[p].artifact)]_hvars
    BY <1>1
<1> QED BY <1>2, CollectorCorrect, PTL DEF HSpec, HealthyArtifactKeepsPolicies

(* A policy whose artifact had no gap in its latest visit, or that this     *)
(* process never visited, is not collected.                                 *)
THEOREM GapForgiven == HSpec => OneGapForgiven
<1>1. CollectorInv /\ [HNext]_hvars => [\A p \in Policies : Collects(p) => p \notin calm]_hvars
    BY Collected DEF CollectorInv, VerdictInv
<1> QED BY <1>1, CollectorCorrect, PTL DEF HSpec, OneGapForgiven

(* Nothing a user labelled otherwise is collected. *)
THEOREM OnlyWatcherPolicies == HSpec => OnlyWatcherPoliciesCollected
<1>1. CollectorInv /\ [HNext]_hvars
          => [\A p \in Policies : Collects(p) /\ p \notin touched =>
                  policies[p].managed /\ policies[p].version]_hvars
    BY Collected
<1> QED BY <1>1, CollectorCorrect, PTL DEF HSpec, OnlyWatcherPoliciesCollected

-----------------------------------------------------------------------------
(* Every step of the collector, and of the cluster around it, is a step of  *)
(* GracefulCollection or changes nothing there.                             *)

LEMMA VisitFacts ==
    ASSUME CollectorInv
    PROVE  /\ policy = NoPolicy <=> ~InVisit
           /\ policy # NoPolicy => policy.key \in Policies /\ policy.key # NoPolicy
           /\ policies \in [Policies -> Labels \cup {NoPolicy}]
           /\ orphanedPolicies \subseteq Policies
BY NoPolicyAssumption DEF CollectorInv, HistoryTypeOK, TypeOK, LoopInv, PolicyInfo

(* While a visit goes on, and outside of visits, all that can happen is     *)
(* that somebody writes a policy or that the owner lapses.                  *)
LEMMA OthersStep ==
    ASSUME CollectorInv, CollectorInv', HNext, UNCHANGED <<orphanedPolicies, policy>>
    PROVE  Grace!Others
<1>1. policy # NoPolicy => pc # "sleep"
    BY VisitFacts DEF InVisit
<1>2. policy # NoPolicy /\ ~SteadyOwner(policy.artifact) => ~SteadyOwner(policy.artifact)'
    BY <1>1, SteadyShrinks DEF CollectorInv
<1>3. policies' \in [Policies -> Labels \cup {NoPolicy}]
    BY DEF CollectorInv, HistoryTypeOK, TypeOK
<1> QED BY <1>2, <1>3, VisitFacts DEF Grace!Others, Grace!Clusters

LEMMA StepGraceful ==
    ASSUME CollectorInv, CollectorInv', [HNext]_hvars
    PROVE  [Grace!Next]_(Grace!vars)
<1>1. CASE UNCHANGED hvars
    BY <1>1 DEF Grace!vars, hvars, vars, history, clusterVars, loopVars, SteadyOwner
<1> SUFFICES ASSUME HNext PROVE Grace!Next
    BY <1>1
<1>2. CASE UNCHANGED <<orphanedPolicies, policy>>
    BY <1>2, OthersStep DEF Grace!Next
<1>3. CASE GCRestart
    <2>1. Grace!Restart
        BY <1>3 DEF GCRestart, clusterVars, Grace!Restart, Grace!EndVisit
    <2> QED BY <2>1 DEF Grace!Next
<1>4. CASE NextPolicy
    <2>1. policy = NoPolicy /\ UNCHANGED policies
        BY <1>4, VisitFacts DEF NextPolicy, InVisit, clusterVars
    <2>2. PICK info \in policyList :
              \/ orphanedPolicies' = orphanedPolicies \ {info.key} /\ UNCHANGED policy
              \/ policy' = info /\ UNCHANGED orphanedPolicies
        BY <1>4 DEF NextPolicy
    <2>3. info.key \in Policies /\ info # NoPolicy
        BY NoPolicyAssumption DEF CollectorInv, HistoryTypeOK, TypeOK, PolicyInfo
    <2>4. Grace!Clear(info.key) \/ Grace!Visit(info.key)
        BY <2>1, <2>2, <2>3 DEF Grace!Clear, Grace!Visit, Grace!EndVisit
    <2> QED BY <2>3, <2>4 DEF Grace!Next
<1>5. ASSUME InVisit, policy' = NoPolicy, UNCHANGED policies,
             orphanedPolicies' = orphanedPolicies \ {policy.key}
      PROVE  Grace!Next
    <2>1. Grace!Clear(policy.key)
        BY <1>5, VisitFacts DEF Grace!Clear, Grace!EndVisit
    <2> QED BY <1>5, <2>1, VisitFacts DEF Grace!Next
<1>6. CASE CheckArtifacts \/ CheckPods
    <2>1. InVisit /\ UNCHANGED policies
        BY <1>6 DEF CheckArtifacts, CheckPods, InVisit, clusterVars
    <2>2. CASE NotOrphaned
        BY <1>5, <2>1, <2>2 DEF NotOrphaned, PolicyDone
    <2>3. CASE NextCheck("pods") \/ NextCheck("artifacts")
        BY <1>2, <2>3 DEF NextCheck
    <2>4. CASE Orphaned /\ ~SteadyOwner(policy.artifact)
        <3>1. CASE UNCHANGED <<orphanedPolicies, policy>>
            BY <1>2, <3>1
        <3>2. CASE ~UNCHANGED <<orphanedPolicies, policy>>
            <4>1. /\ policy.key \notin orphanedPolicies
                  /\ orphanedPolicies' = orphanedPolicies \cup {policy.key}
                  /\ policy' = NoPolicy
                BY <2>4, <3>2 DEF Orphaned, PolicyDone
            <4>2. Grace!Suspect(policy.key)
                BY <2>1, <2>4, <4>1, VisitFacts DEF Grace!Suspect, Grace!EndVisit
            <4> QED BY <2>1, <4>2, VisitFacts DEF Grace!Next
        <3> QED BY <3>1, <3>2
    <2> QED BY <1>6, <2>2, <2>3, <2>4, CheckVerdict DEF CollectorInv, HistoryTypeOK
<1>7. CASE deletePolicy
    <2>1. InVisit /\ policy' = NoPolicy
        BY <1>7 DEF deletePolicy, InVisit, PolicyDone
    <2>2. ~SteadyOwner(policy.artifact) /\ policy.key \in orphanedPolicies
        BY <1>7 DEF deletePolicy, CollectorInv, LoopInv, VerdictInv
    <2>3. policies' \in {policies, [policies EXCEPT ![policy.key] = NoPolicy]}
        BY <1>7 DEF deletePolicy, Removed
    <2>4. orphanedPolicies' \in {orphanedPolicies, orphanedPolicies \ {policy.key}}
        BY <1>7 DEF deletePolicy
    <2>5. Grace!Collect(policy.key)
        BY <2>1, <2>2, <2>3, <2>4, VisitFacts DEF Grace!Collect, Grace!EndVisit
    <2> QED BY <2>1, <2>5, VisitFacts DEF Grace!Next
<1>8. CASE ClusterStep
    BY <1>2, <1>8, ClusterFrame DEF gcVars, loopVars
<1>9. CASE GetClients \/ ListPolicies \/ ListClusterPolicies \/ EndCycle
    BY <1>2, <1>9 DEF GetClients, ListPolicies, ListClusterPolicies, EndCycle
<1> QED BY <1>3, <1>4, <1>6, <1>7, <1>8, <1>9 DEF HNext, GCStep

(* Whatever the collector and the cluster do, in any order and with any     *)
(* faults, is what GracefulCollection allows: two lapses of the owner, in   *)
(* two visits with none in between that found it well, before any deletion. *)
THEOREM Graceful == HSpec => CollectsGracefully
<1>1. HInit => Grace!Init
    <2> SUFFICES ASSUME HInit PROVE Grace!Init
        OBVIOUS
    <2>1. policies \in [Policies -> Labels \cup {NoPolicy}]
        BY InitTyped DEF HistoryTypeOK, TypeOK
    <2> QED BY <2>1 DEF HInit, Init, Grace!Init, Grace!Clusters
<1>2. CollectorInv /\ CollectorInv' /\ [HNext]_hvars => [Grace!Next]_(Grace!vars)
    BY StepGraceful
<1> QED BY <1>1, <1>2, CollectorCorrect, PTL DEF HSpec, CollectsGracefully, Grace!Spec
=============================================================================
