--------------------------- MODULE PolicyGCHistory ---------------------------
(***************************************************************************)
(* PolicyGC with history variables: what happened to the artifacts and to  *)
(* the policies between the collector's looks at them.  The history never  *)
(* restricts a step of PolicyGC.  A visit of a policy is what one cycle    *)
(* does with it, from NextPolicy to its verdict or its deletion.           *)
(***************************************************************************)
EXTENDS PolicyGC

VARIABLES
    steady,   \* artifacts that have existed, with an active pod, at every
              \* moment since the present cycle began
    touched,  \* policies written or deleted since the collector listed them
    calm      \* policies whose artifact was steady in the latest visit of
              \* this collector process, or that it never visited

history == <<steady, touched, calm>>
hvars == <<vars, history>>

Healthy == {a \in artifacts : IsActive(a)}

SteadyOwner(owner) == \E a \in steady : NameOf[a] = owner

HistoryTypeOK ==
    /\ TypeOK
    /\ steady \subseteq Artifacts
    /\ touched \subseteq Policies
    /\ calm \subseteq Policies

HInit ==
    /\ Init
    /\ steady = {}
    /\ touched = {}
    /\ calm = Policies

Written == {p \in Policies : policies'[p] # policies[p]}

ListStep(call, then) == pc = call /\ pc' = then
Visited == IF policy # NoPolicy /\ pc' = "next" THEN {policy.key} ELSE {}

RememberHealth ==
    steady' = (IF pc = "sleep" THEN Healthy ELSE steady) \cap Healthy'

RememberWrites ==
    touched' =
        IF ListStep("listPolicies", "listClusterPolicies") THEN touched \cap ClusterPolicies
        ELSE IF ListStep("listClusterPolicies", "next") THEN touched \ ClusterPolicies
        ELSE touched \cup Written

RememberVisit ==
    calm' = IF policy # NoPolicy /\ SteadyOwner(policy.artifact)
            THEN calm \cup Visited ELSE calm \ Visited

ForgetVisits == calm' = Policies

HNext ==
    /\ \/ (GCStep \/ ClusterStep) /\ RememberVisit
       \/ GCRestart /\ ForgetVisits
    /\ RememberHealth
    /\ RememberWrites

HSpec == HInit /\ [][HNext]_hvars /\ WF_vars(GCStep)

-----------------------------------------------------------------------------
(* The inductive invariant behind the properties below. *)

InVisit == pc \in {"artifacts", "pods", "delete"}

(* The local variables of collectGarbage follow its program counter. *)
LoopInv ==
    /\ pc \in {"sleep", "listPolicies"} => policyList = {}
    /\ pc = "listClusterPolicies" => \A info \in policyList : info.key \notin ClusterPolicies
    /\ InVisit <=> policy # NoPolicy
    /\ InVisit => policy.version
    /\ pc = "delete" => recheck
    /\ recheck => InVisit /\ policy.key \in orphanedPolicies

(* What was listed is still true of the policies nobody wrote since. *)
Pending == policyList \cup (IF InVisit THEN {policy} ELSE {})
ListInv ==
    \A info \in Pending :
        info.key \notin touched =>
            policies[info.key] = [managed |-> TRUE, version |-> info.version,
                                  artifact |-> info.artifact]

(* A first or a second verdict "orphaned" means that the owner had a gap in *)
(* this cycle; a map entry that it had one in the latest visit.             *)
VerdictInv ==
    /\ steady \subseteq Healthy
    /\ recheck => ~SteadyOwner(policy.artifact)
    /\ orphanedPolicies \cap calm = {}

CollectorInv == HistoryTypeOK /\ LoopInv /\ ListInv /\ VerdictInv

-----------------------------------------------------------------------------
(* The collector's own delete call removes the object of policy p. *)
Collects(p) == pc = "delete" /\ policy.key = p /\ policies[p] # NoPolicy
                   /\ pc' = "next" /\ policies'[p] = NoPolicy

(* An artifact that has existed with an active watcher pod ever since the   *)
(* cycle began keeps its policies: whatever errors the API returns and      *)
(* whatever happens to other artifacts, isOrphaned twice in a row does not  *)
(* condemn a policy that nobody has rewritten since it was listed.          *)
HealthyArtifactKeepsPolicies ==
    [][\A p \in Policies :
           Collects(p) /\ p \notin touched => ~SteadyOwner(policies[p].artifact)]_hvars

(* One gap is forgiven: a policy is collected only if the same collector    *)
(* process had visited that key in an earlier cycle and its artifact had a  *)
(* gap in that cycle too (the orphanedPolicies map; a restart forgets it).  *)
OneGapForgiven ==
    [][\A p \in Policies : Collects(p) => p \notin calm]_hvars

(* A policy nobody has written since it was listed is collected only if it  *)
(* carries the watcher's labels: a user's own policies are never deleted.   *)
OnlyWatcherPoliciesCollected ==
    [][\A p \in Policies : Collects(p) /\ p \notin touched =>
           policies[p].managed /\ policies[p].version]_hvars

(* The calls of collectGarbage, isOrphaned and deletePolicy, interleaved    *)
(* with everything else that happens in the cluster, amount to what         *)
(* GracefulCollection promises: an object is deleted only in a visit whose  *)
(* owner lapsed and whose key has been a suspect since an earlier visit.    *)
Grace == INSTANCE GracefulCollection WITH
    Keys <- Policies,
    Objects <- Labels,
    NoObject <- NoPolicy,
    NoKey <- NoPolicy,
    cluster <- policies,
    suspects <- orphanedPolicies,
    visiting <- IF policy = NoPolicy THEN NoPolicy ELSE policy.key,
    lapsed <- policy # NoPolicy /\ ~SteadyOwner(policy.artifact)

CollectsGracefully == Grace!Spec

-----------------------------------------------------------------------------
(* What a comment of gc.go says, and the code does not do: gc.go:84, "Still *)
(* orphaned after grace period and recheck - safe to delete".  The object   *)
(* that is deleted may be another one than the one that was rechecked.      *)
DeletedObjectIsOrphaned ==
    [][\A p \in Policies : Collects(p) => ~SteadyOwner(policies[p].artifact)]_hvars
=============================================================================
