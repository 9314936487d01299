---------------------------- MODULE WatcherHistory ----------------------------
(***************************************************************************)
(* Watcher with history variables: where the objects in the cluster come   *)
(* from, what the latest pass set out to do and what the others did        *)
(* meanwhile.  The history never restricts a step of Watcher.              *)
(***************************************************************************)
EXTENDS Watcher

VARIABLES
    pushed,    \* <<tag, file, spec>> ever published
    edited,    \* policies whose present object the main loop did not write
    target,    \* tag and version that the latest pass set out to apply
    same,      \* files whose policy has had the pulled spec ever since the
               \* pull of this pass
    rewritten, \* policies written since the cleanup listed ClusterPolicies,
               \* except by the cleanup
    torn       \* a process ended between its first apply and its bookmark,
               \* and no pass has got to its bookmark since

history == <<pushed, edited, target, same, rewritten, torn>>
hvars == <<vars, history>>

NoTarget == [tag |-> NoTag, version |-> NoVersion]

HistoryTypeOK ==
    /\ TypeOK
    /\ pushed \subseteq Tags \X Files \X Specs
    /\ edited \subseteq Files
    /\ target \in [tag : Tags \cup {NoTag}, version : Versions \cup {NoVersion}]
    /\ same \subseteq Files
    /\ rewritten \subseteq Files
    /\ torn \in BOOLEAN

HInit ==
    /\ Init
    /\ pushed = {}
    /\ edited = Files
    /\ target = NoTarget
    /\ same = {}
    /\ rewritten = {}
    /\ torn = FALSE

Published(t) ==
    IF registry'[t] = NoVersion THEN {}
    ELSE {<<t, f, registry'[t][f]>> : f \in FilesOf(registry'[t])}

Written == {f \in Files : cluster'[f] # cluster[f]}

(* The main loop's Create or Update of f. *)
MainWrites(f) == pc = "put" /\ pc' = "apply" /\ file = f
                     /\ cluster'[f] = LabelledManifest(f)

Applying(counter) == counter \in {"apply", "put", "truncate", "write"}

RememberPushes == pushed' = pushed \cup UNION {Published(t) : t \in Tags}

RememberWriters ==
    edited' = (edited \cup Written) \ {f \in Files : MainWrites(f)}

RememberTarget ==
    target' = IF ~Applying(pc) /\ Applying(pc')
              THEN [tag |-> latest, version |-> manifests'] ELSE target

Equal(f) == manifests' # NoVersion /\ cluster'[f] # NoObject
                /\ cluster'[f].spec = manifests'[f]

RememberSame ==
    same' = {f \in (IF pc = "pull" THEN Files ELSE same) : Equal(f)}

CleanupLists == handler = "listClusterPolicies" /\ handler' = "deleteClusterPolicies"
CleanupDeletes == handler = "deleteClusterPolicies" /\ toDelete' # toDelete

RememberRewritten ==
    rewritten' = IF CleanupLists \/ handler = "waiting" THEN {}
                 ELSE IF CleanupDeletes THEN rewritten
                 ELSE rewritten \cup Written

RememberTornPass ==
    torn' = \/ torn /\ pc' # "write"
            \/ pc \in {"apply", "put", "truncate"} /\ pc' \in {"poll", "exited"}

HNext ==
    /\ Next
    /\ RememberPushes
    /\ RememberWriters
    /\ RememberTarget
    /\ RememberSame
    /\ RememberRewritten
    /\ RememberTornPass

HSpec == HInit /\ [][HNext]_hvars /\ Fairness

-----------------------------------------------------------------------------
(* What the watcher wrote is what somebody published: spec and              *)
(* policy-version label of a policy come from one and the same push, although *)
(* the tag is looked up before the artifact is pulled and manifests are     *)
(* applied one by one.                                                      *)
LabelsTellTheTruth ==
    \A f \in Files \ edited :
        cluster[f] # NoObject => <<cluster[f].tag, f, cluster[f].spec>> \in pushed

(* Why: whatever can be pulled was published, a pass keeps one tag and the  *)
(* version it pulled under it, and it works on files of that version only.  *)
RegistryInv ==
    \A t \in Tags : registry[t] # NoVersion =>
        \A f \in FilesOf(registry[t]) : <<t, f, registry[t][f]>> \in pushed

PassInv ==
    manifests # NoVersion =>
        /\ latest \in Tags
        /\ \A f \in FilesOf(manifests) : <<latest, f, manifests[f]>> \in pushed

BeforePull == pc \in {"poll", "clients", "pull", "sleep", "exited"}
WorkInv ==
    /\ BeforePull => manifests = NoVersion /\ todo = {}
    /\ ~BeforePull => manifests # NoVersion /\ todo \cup toApply \subseteq FilesOf(manifests)
    /\ pc # "compare" => toApply = {}
    /\ pc = "put" => file \in FilesOf(manifests) \ todo
    /\ pc \in {"truncate", "write"} => todo = {}
    /\ handler = "exited" => pc = "exited"

WatcherInv == HistoryTypeOK /\ RegistryInv /\ PassInv /\ WorkInv /\ LabelsTellTheTruth

(* The bookmark is crash-safe: when it names the tag that the latest pass   *)
(* set out to apply, every file of that version is in the cluster, with     *)
(* that label (tag polling; no call has failed, nobody else has written).   *)
NoErrors == budget["error"] = Bounds["error"]
Undisturbed == NoErrors /\ budget["drift"] = Bounds["drift"]
BookmarkCompletesPass ==
    Undisturbed /\ handler = "waiting" /\ lastFile # NoTag /\ lastFile = target.tag =>
        \A f \in FilesOf(target.version) :
            cluster[f] = [spec |-> target.version[f], tag |-> lastFile, mine |-> TRUE]

(* Tag polling without checksums rolls the newest version out in the end,   *)
(* over crashes, lost pods and tags that become the newest again, when no   *)
(* call fails and nobody else writes.  One case is excepted, in which the   *)
(* code gives up: a version was interrupted and the tag then went back to   *)
(* the one in last_seen, so that tagChanged sees nothing to do.             *)
EventuallyRolledOut ==
    <>[](Converged \/ (torn /\ lastFile = ChosenTag))

(* Checksum reconciliation does not touch a policy that has been as the     *)
(* artifact wants it ever since the artifact was pulled.                    *)
UnchangedPoliciesLeftAlone ==
    [][\A f \in Files : MainWrites(f) /\ ~isTagChanged => f \notin same]_hvars

(* When no call fails, cleanupPolicies leaves no ClusterPolicy of this      *)
(* artifact behind, except those that were written since it listed them.    *)
Exits == handler = "deleteClusterPolicies" /\ toDelete = {} /\ handler' = "exited"
CleanedUnlessRewritten ==
    [][Exits /\ NoErrors => Mine(Files \ NamespacedFiles) \subseteq rewritten]_hvars

(* Where the configuration says so (pinned mode, or Artifactory with a tag  *)
(* in the URL), the watcher writes no other version than that of the URL.   *)
OnlyUrlTagApplied ==
    \A f \in Files \ edited : cluster[f] # NoObject => cluster[f].tag = UrlTag

-----------------------------------------------------------------------------
(* What a document says, and the code does not do:                          *)
(* docs/configuration.md:35: "policies created by this artifact will be     *)
(* deleted when the watcher pod is terminated".  The main loop still        *)
(* applies while the cleanup works off its lists.                           *)
CleanedUp == [][Exits /\ NoErrors => Mine(Files) = {}]_hvars
=============================================================================
