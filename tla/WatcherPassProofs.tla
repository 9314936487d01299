--------------------------- MODULE WatcherPassProofs ---------------------------
(***************************************************************************)
(* More proofs about the watcher: what a pass of the main loop and a       *)
(* cleanup achieve, and what they leave alone, for every set of files, tags *)
(* and versions and every budget of events.                                *)
(***************************************************************************)
EXTENDS WatcherProofs

USE DEF CallAnswers, CallFails

-----------------------------------------------------------------------------
(* Budgets never grow. While nothing has failed, nothing fails.             *)

BudgetInv == \A e \in Events : budget[e] <= Bounds[e]

LEMMA BudgetFalls ==
    ASSUME TypeOK, Next
    PROVE  \A e \in Events : budget'[e] <= budget[e]
<1>1. UNCHANGED budget \/ \E e \in Events : Happens(e)
    <2>1. "error" \in Events
        BY DEF Events
    <2>2. MainStep => UNCHANGED budget \/ Happens("error")
        BY DEF MainStep, Poll, ReadLastFile, GetKubernetesClients, PullImageToDir,
               ChecksumsChanged, GetExisting, CreateOrUpdate, AllApplied,
               TruncateLastFile, WriteLastFile, Sleep
    <2>3. HandlerStep => UNCHANGED budget \/ Happens("error")
        BY DEF HandlerStep, CleanupClients, ListMine, DeletePolicy,
               DeleteClusterPolicy, Exit
    <2>4. Environment => UNCHANGED budget \/ \E e \in Events : Happens(e)
        BY DEF Environment, Push, Drift, Signal, Crash, Kill, NewPod, Events
    <2> QED BY <2>1, <2>2, <2>3, <2>4 DEF Next
<1>2. ASSUME NEW e \in Events
      PROVE  budget[e] \in Nat
    BY DEF TypeOK
<1>3. CASE UNCHANGED budget
    BY <1>2, <1>3
<1>4. ASSUME NEW e \in Events, Happens(e), NEW d \in Events
      PROVE  budget'[d] <= budget[d]
    <2>1. budget'[d] = IF d = e THEN budget[d] - 1 ELSE budget[d]
        BY <1>4 DEF Happens, TypeOK
    <2> QED BY <1>2, <2>1
<1> QED BY <1>1, <1>3, <1>4

LEMMA BudgetPreserved ==
    ASSUME TypeOK, TypeOK', BudgetInv, Next
    PROVE  BudgetInv'
<1> SUFFICES ASSUME NEW e \in Events PROVE budget'[e] <= Bounds[e]
    BY DEF BudgetInv
<1>1. budget[e] \in Nat /\ budget'[e] \in Nat /\ Bounds[e] \in Nat
    BY BoundsAssumption DEF TypeOK
<1>2. budget'[e] <= budget[e] /\ budget[e] <= Bounds[e]
    BY BudgetFalls DEF BudgetInv
<1> QED BY <1>1, <1>2

(* An event that has not happened after a step did not happen before it, and *)
(* is not this step.                                                        *)
LEMMA NotYet ==
    ASSUME TypeOK, TypeOK', BudgetInv, Next,
           NEW e \in Events, budget'[e] = Bounds[e]
    PROVE  budget[e] = Bounds[e] /\ ~Happens(e)
<1>1. budget[e] \in Nat /\ budget'[e] \in Nat /\ Bounds[e] \in Nat
    BY BoundsAssumption DEF TypeOK
<1>2. budget'[e] <= budget[e] /\ budget[e] <= Bounds[e]
    BY BudgetFalls DEF BudgetInv
<1>3. budget[e] = Bounds[e]
    BY <1>1, <1>2
<1>4. ~Happens(e)
    <2>1. Happens(e) => budget'[e] = budget[e] - 1
        BY DEF Happens, TypeOK
    <2> QED BY <1>1, <1>3, <2>1
<1> QED BY <1>3, <1>4

(* Both facts about budgets, for every behaviour. *)
THEOREM BudgetCorrect == HSpec => [](TypeOK /\ BudgetInv)
<1>1. HInit => TypeOK /\ BudgetInv
    <2> SUFFICES ASSUME HInit PROVE BudgetInv
        BY InitTyped DEF HistoryTypeOK
    <2>1. ASSUME NEW e \in Events PROVE budget[e] <= Bounds[e]
        <3>1. Bounds[e] \in Nat /\ budget[e] = Bounds[e]
            BY BoundsAssumption DEF HInit, Init
        <3> QED BY <3>1
    <2> QED BY <2>1 DEF BudgetInv
<1>2. WatcherInv /\ WatcherInv' /\ BudgetInv /\ [HNext]_hvars => BudgetInv'
    <2>1. ASSUME UNCHANGED hvars, BudgetInv PROVE BudgetInv'
        BY <2>1 DEF hvars, vars, BudgetInv
    <2> QED BY <2>1, BudgetPreserved DEF WatcherInv, HistoryTypeOK, HNext
<1>3. WatcherInv => TypeOK
    BY DEF WatcherInv, HistoryTypeOK
<1> QED BY <1>1, <1>2, <1>3, WatcherCorrect, PTL DEF HSpec

-----------------------------------------------------------------------------
(* Checksums: what the pass still has to apply is not as it should be.      *)

SparesInv ==
    ~isTagChanged =>
        /\ toApply \cap same = {}
        /\ pc = "apply" => todo \cap same = {}
        /\ pc = "put" => (todo \cup {file}) \cap same = {}

(* Where there is no version there is nothing to spare.                     *)
LEMMA NothingSame ==
    ASSUME HNext, manifests' = NoVersion
    PROVE  SparesInv'
<1>1. same' = {}
    BY DEF HNext, RememberSame, Equal
<1> QED BY <1>1 DEF SparesInv

(* A step that leaves the work of the pass alone does not add to same.      *)
LEMMA SparesKept ==
    ASSUME SparesInv, HNext, pc # "pull", pc' = pc,
           UNCHANGED <<isTagChanged, todo, toApply, file>>
    PROVE  SparesInv'
<1>1. same' \subseteq same
    BY DEF HNext, RememberSame
<1> QED BY <1>1 DEF SparesInv

LEMMA MainStepSpares ==
    ASSUME TypeOK, WorkInv, SparesInv, HNext, MainStep
    PROVE  SparesInv'
<1>1. CASE EndPass \/ Poll \/ GetKubernetesClients \/ Sleep
    <2>1. manifests' = NoVersion
        BY <1>1 DEF EndPass, ForgetPass, Poll, GetKubernetesClients, Sleep, WorkInv,
                    BeforePull, passVars
    <2> QED BY <2>1, NothingSame
<1>2. CASE PullImageToDir /\ ~EndPass
    <2>1. /\ toApply' = {} /\ UNCHANGED isTagChanged
          /\ pc' = IF isTagChanged THEN "apply" ELSE "compare"
        BY <1>2 DEF PullImageToDir, WorkInv
    <2> QED BY <2>1 DEF SparesInv
<1>3. ~BeforePull => same' \subseteq same
    BY DEF HNext, RememberSame, BeforePull
<1>4. CASE ChecksumsChanged /\ ~EndPass
    <2>1. ~BeforePull /\ pc = "compare" /\ UNCHANGED isTagChanged
        BY <1>4 DEF ChecksumsChanged, BeforePull
    <2>2. CASE \E f \in todo :
                  /\ UNCHANGED toApply
                     \/ toApply' = IF Differs(f) THEN toApply \cup {f} ELSE toApply
                  /\ pc' = pc /\ UNCHANGED <<cluster, manifests>>
        <3>1. PICK f \in todo :
                  /\ UNCHANGED toApply
                     \/ toApply' = IF Differs(f) THEN toApply \cup {f} ELSE toApply
                  /\ pc' = pc /\ UNCHANGED <<cluster, manifests>>
            BY <2>2
        <3>2. Differs(f) => f \notin same'
            BY <2>1, <3>1 DEF HNext, RememberSame, Differs, Equal
        <3> QED BY <1>3, <2>1, <3>1, <3>2 DEF SparesInv
    <2>3. CASE pc' = "apply" /\ todo' = toApply /\ toApply' = {}
        BY <1>3, <2>1, <2>3 DEF SparesInv
    <2> QED BY <1>4, <2>2, <2>3 DEF ChecksumsChanged
<1>5. CASE GetExisting
    BY <1>3, <1>5 DEF GetExisting, BeforePull, SparesInv
<1>6. CASE CreateOrUpdate
    BY <1>3, <1>6 DEF CreateOrUpdate, BeforePull, SparesInv
<1>7. CASE AllApplied
    BY <1>3, <1>7 DEF AllApplied, passVars, BeforePull, SparesInv
<1>8. CASE TruncateLastFile /\ ~EndPass
    BY <1>3, <1>8 DEF TruncateLastFile, passVars, BeforePull, SparesInv
<1>9. CASE WriteLastFile
    BY <1>1, <1>9 DEF WriteLastFile
<1> QED BY <1>1, <1>2, <1>4, <1>5, <1>6, <1>7, <1>8, <1>9 DEF MainStep

LEMMA OthersSpare ==
    ASSUME TypeOK, WorkInv, SparesInv, HNext, HandlerStep \/ Environment
    PROVE  SparesInv'
<1>1. CASE manifests' = NoVersion
    BY <1>1, NothingSame
<1>2. CASE manifests' # NoVersion
    <2>1. ~ForgetPass
        BY <1>2 DEF ForgetPass
    <2>2. UNCHANGED <<isTagChanged, manifests, todo, toApply, file>> /\ (NewPod \/ pc' = pc)
        BY <2>1 DEF HandlerStep, CleanupClients, ListMine, DeletePolicy,
                    DeleteClusterPolicy, Exit, Environment, Push, Drift, Signal, Crash,
                    Kill, NewPod, ProcessEnds, mainVars, passVars
    <2>3. ~BeforePull
        BY <1>2, <2>2 DEF WorkInv
    <2>4. ~NewPod
        BY <2>3 DEF NewPod, WorkInv, BeforePull
    <2> QED BY <2>2, <2>3, <2>4, SparesKept DEF BeforePull
<1> QED BY <1>1, <1>2

(* Checksum reconciliation leaves every policy alone that has had the       *)
(* pulled spec since the pull, in every configuration, whatever fails and   *)
(* whoever writes meanwhile.                                                *)
THEOREM SparesUnchanged == HSpec => UnchangedPoliciesLeftAlone
<1>1. HInit => SparesInv
    BY DEF HInit, Init, SparesInv
<1>2. WatcherInv /\ SparesInv /\ [HNext]_hvars => SparesInv'
    <2>1. ASSUME UNCHANGED hvars, SparesInv PROVE SparesInv'
        BY <2>1 DEF hvars, vars, history, mainVars, passVars, SparesInv
    <2> QED BY <2>1, MainStepSpares, OthersSpare
        DEF WatcherInv, HistoryTypeOK, HNext, Next
<1>3. SparesInv =>
          [\A f \in Files : (MainWrites(f) /\ ~isTagChanged) => f \notin same]_hvars
    BY DEF SparesInv, MainWrites
<1> QED BY <1>1, <1>2, <1>3, WatcherCorrect, PTL DEF HSpec, UnchangedPoliciesLeftAlone

-----------------------------------------------------------------------------
(* The cleanup: every ClusterPolicy of this artifact that it has not        *)
(* deleted yet is listed, or has been written since it listed them.         *)

CleanupInv ==
    NoErrors /\ handler = "deleteClusterPolicies" =>
        Mine(Files \ NamespacedFiles) \subseteq toDelete \cup rewritten

(* Where nothing but Written may have been written, and listed and          *)
(* remembered policies stay so.                                             *)
LEMMA StillListed ==
    ASSUME CleanupInv, NoErrors, HNext,
           handler = "deleteClusterPolicies", UNCHANGED toDelete
    PROVE  CleanupInv'
<1> SUFFICES ASSUME NEW f \in Files \ NamespacedFiles, f \in Mine(Files \ NamespacedFiles)'
             PROVE  f \in toDelete \cup rewritten'
    BY DEF CleanupInv, Mine
<1>1. rewritten' = rewritten \cup Written
    BY DEF HNext, RememberRewritten, CleanupLists, CleanupDeletes
<1>2. CASE f \in Written
    BY <1>1, <1>2
<1>3. CASE f \notin Written
    <2>1. f \in Mine(Files \ NamespacedFiles)
        BY <1>3 DEF Written, Mine
    <2> QED BY <1>1, <2>1 DEF CleanupInv
<1> QED BY <1>2, <1>3

LEMMA CleanupPreserved ==
    ASSUME TypeOK, TypeOK', BudgetInv, CleanupInv, HNext
    PROVE  CleanupInv'
<1> SUFFICES ASSUME NoErrors', handler' = "deleteClusterPolicies"
             PROVE  CleanupInv'
    BY DEF CleanupInv
<1>1. NoErrors /\ ~Happens("error")
    <2>1. "error" \in Events /\ Next /\ budget'["error"] = Bounds["error"]
        BY DEF Events, HNext, NoErrors
    <2> QED BY <2>1, NotYet DEF NoErrors
<1>2. CASE MainStep
    <2>1. UNCHANGED handlerVars
        BY <1>2 DEF MainStep, Poll, GetKubernetesClients, PullImageToDir, ChecksumsChanged,
               GetExisting, CreateOrUpdate, AllApplied, TruncateLastFile, WriteLastFile,
               Sleep
    <2> QED BY <1>1, <2>1, StillListed DEF handlerVars
<1>3. CASE HandlerStep
    <2>1. CASE ListMine("listClusterPolicies", Files \ NamespacedFiles, "deleteClusterPolicies")
        BY <1>1, <2>1 DEF ListMine, CleanupInv, Mine
    <2>2. CASE DeleteClusterPolicy
        <3>1. PICK f \in toDelete :
                  /\ toDelete' = toDelete \ {f}
                  /\ OthersWrite(f, NoObject)
            BY <1>1, <2>2 DEF DeleteClusterPolicy
        <3>2. f \in Files /\ cluster' = [cluster EXCEPT ![f] = NoObject]
            BY <3>1 DEF OthersWrite, TypeOK
        <3>3. /\ cluster'[f] = NoObject
              /\ \A g \in Files : g # f => cluster'[g] = cluster[g]
            BY <3>2 DEF TypeOK
        <3>4. Mine(Files \ NamespacedFiles)' \subseteq Mine(Files \ NamespacedFiles) \ {f}
            BY <3>3 DEF Mine
        <3>5. rewritten' = rewritten
            BY <2>2, <3>1 DEF DeleteClusterPolicy, HNext, RememberRewritten,
                              CleanupLists, CleanupDeletes
        <3>6. handler = "deleteClusterPolicies"
            BY <2>2 DEF DeleteClusterPolicy
        <3> QED BY <1>1, <3>1, <3>4, <3>5, <3>6 DEF CleanupInv
    <2>3. ~CleanupClients /\ ~DeletePolicy /\ ~Exit
          /\ ~ListMine("listPolicies", NamespacedFiles, "deletePolicies")
        BY DEF CleanupClients, ListMine, DeletePolicy, Exit, ProcessEnds
    <2> QED BY <1>3, <2>1, <2>2, <2>3 DEF HandlerStep
<1>4. CASE Environment
    <2>1. UNCHANGED handlerVars
        BY <1>4 DEF Environment, Push, Drift, Signal, Crash, Kill, NewPod, ProcessEnds
    <2> QED BY <1>1, <2>1, StillListed DEF handlerVars
<1> QED BY <1>2, <1>3, <1>4 DEF HNext, Next

(* A cleanup that meets no error leaves no ClusterPolicy of its artifact    *)
(* behind but those that were written under its hands, in every             *)
(* configuration.                                                           *)
THEOREM Cleaned == HSpec => CleanedUnlessRewritten
<1>1. HInit => CleanupInv
    BY DEF HInit, Init, CleanupInv
<1>2. WatcherInv /\ WatcherInv' /\ BudgetInv /\ CleanupInv /\ [HNext]_hvars => CleanupInv'
    <2>1. ASSUME UNCHANGED hvars, CleanupInv PROVE CleanupInv'
        BY <2>1 DEF hvars, vars, history, handlerVars, CleanupInv, NoErrors, Mine
    <2> QED BY <2>1, CleanupPreserved DEF WatcherInv, HistoryTypeOK
<1>3. CleanupInv =>
          [Exits /\ NoErrors => Mine(Files \ NamespacedFiles) \subseteq rewritten]_hvars
    BY DEF CleanupInv, Exits
<1> QED BY <1>1, <1>2, <1>3, WatcherCorrect, BudgetCorrect, PTL
        DEF HSpec, CleanedUnlessRewritten

-----------------------------------------------------------------------------
(* Tag polling without checksums: a pass begins only for a tag that is not  *)
(* in last_seen, nobody keeps the main loop from writing what it attempts,  *)
(* and the cleanup, which does, ends with a new pod and an empty last_seen. *)

TagPolling == PollForTagChanges /\ PollInterval # 0 /\ ~ReconcilePoliciesFromChecksum

Attempted == FilesOf(manifests) \ (todo \cup IF pc = "put" THEN {file} ELSE {})

NewTag ==
    /\ pc \in {"clients", "pull"} => isTagChanged
    /\ pc \in {"clients", "pull"} \/ Applying(pc) => latest # lastFile
    /\ pc # "compare"

Progress ==
    Applying(pc) =>
        /\ target = [tag |-> latest, version |-> manifests]
        /\ \A f \in Attempted : cluster[f] = LabelledManifest(f)

BookmarkInv ==
    Undisturbed =>
        /\ handler \in {"waiting", "exited"} => existing # "stale"
        /\ handler = "waiting" => NewTag /\ Progress /\ BookmarkCompletesPass

LEMMA StillUndisturbed ==
    ASSUME TypeOK, TypeOK', BudgetInv, Next, Undisturbed'
    PROVE  Undisturbed /\ ~Happens("error") /\ ~Drift
<1>1. /\ "error" \in Events /\ "drift" \in Events
      /\ budget'["error"] = Bounds["error"] /\ budget'["drift"] = Bounds["drift"]
    BY DEF Events, Undisturbed, NoErrors
<1>2. budget["error"] = Bounds["error"] /\ ~Happens("error")
    BY <1>1, NotYet
<1>3. budget["drift"] = Bounds["drift"] /\ ~Happens("drift")
    BY <1>1, NotYet
<1> QED BY <1>2, <1>3 DEF Undisturbed, NoErrors, Drift

(* The pass ends, and with it nothing but the pass.                         *)
LEMMA PassOver ==
    ASSUME Undisturbed, handler = "waiting", BookmarkCompletesPass, HNext,
           ForgetPass, pc' \in {"sleep", "poll"}, UNCHANGED <<cluster, lastFile>>
    PROVE  existing' # "stale" /\ NewTag' /\ Progress' /\ BookmarkCompletesPass'
<1>1. target' = target
    BY DEF HNext, RememberTarget, Applying
<1>2. existing' # "stale" /\ NewTag' /\ Progress'
    BY DEF ForgetPass, NewTag, Progress, Applying
<1>3. BookmarkCompletesPass'
    BY <1>1 DEF BookmarkCompletesPass, FilesOf
<1> QED BY <1>2, <1>3

(* Within a pass the target stays, and the bookmark does not name it.       *)
LEMMA PassGoesOn ==
    ASSUME HNext, Applying(pc), Applying(pc'), NewTag, Progress,
           UNCHANGED <<latest, manifests, lastFile>>
    PROVE  /\ target' = [tag |-> latest', version |-> manifests']
           /\ NewTag'
           /\ BookmarkCompletesPass'
<1>1. target' = target
    BY DEF HNext, RememberTarget
<1> QED BY <1>1 DEF NewTag, Progress, Applying, BookmarkCompletesPass

LEMMA MainStepBooks ==
    ASSUME TagPolling, TypeOK, PassInv, WorkInv, BookmarkInv, HNext, MainStep,
           Undisturbed, ~Happens("error"), handler = "waiting"
    PROVE  existing' # "stale" /\ NewTag' /\ Progress' /\ BookmarkCompletesPass'
<1>1. existing # "stale" /\ NewTag /\ Progress /\ BookmarkCompletesPass
    BY DEF BookmarkInv
<1>2. CASE EndPass /\ UNCHANGED <<cluster, lastFile>>
    BY <1>1, <1>2, PassOver DEF EndPass
<1>3. CASE Poll /\ ~EndPass
    <2>1. /\ pc' = "clients" /\ latest' = ChosenTag /\ UNCHANGED <<cluster, lastFile, existing>>
          /\ isTagChanged' /\ isTagChanged' = TagIsChanged(ChosenTag, lastFile)
          /\ pc = "poll"
        BY <1>3 DEF Poll, ReadLastFile, TagPolling
    <2>2. latest' # lastFile'
        BY <2>1 DEF TagIsChanged, TagPolling
    <2>3. target' = target
        BY <2>1 DEF HNext, RememberTarget, Applying
    <2> QED BY <1>1, <2>1, <2>2, <2>3
            DEF NewTag, Progress, Applying, BookmarkCompletesPass, FilesOf
<1>4. CASE GetKubernetesClients /\ ~EndPass
    <2>1. pc = "clients" /\ pc' = "pull" /\ UNCHANGED <<passVars, cluster, lastFile>>
        BY <1>4 DEF GetKubernetesClients
    <2>2. target' = target
        BY <2>1 DEF HNext, RememberTarget, Applying
    <2> QED BY <1>1, <2>1, <2>2
            DEF NewTag, Progress, Applying, BookmarkCompletesPass, FilesOf, passVars
<1>5. CASE PullImageToDir /\ ~EndPass
    <2>1. /\ pc = "pull" /\ pc' = "apply" /\ todo' = FilesOf(manifests')
          /\ UNCHANGED <<latest, isTagChanged, existing, cluster, lastFile>>
        BY <1>1, <1>5 DEF PullImageToDir, NewTag
    <2>2. target' = [tag |-> latest', version |-> manifests']
        BY <2>1 DEF HNext, RememberTarget, Applying
    <2>3. latest' # lastFile' /\ Attempted' = {}
        BY <1>1, <2>1 DEF NewTag, Attempted, FilesOf
    <2> QED BY <1>1, <2>1, <2>2, <2>3 DEF NewTag, Progress, Applying, BookmarkCompletesPass
<1>6. CASE GetExisting
    <2>1. /\ pc = "apply" /\ pc' = "put" /\ existing' # "stale"
          /\ UNCHANGED <<cluster, lastFile, latest, manifests>>
        BY <1>6 DEF GetExisting
    <2>2. PICK f \in todo : todo' = todo \ {f} /\ file' = f
        BY <1>6 DEF GetExisting
    <2>3. Attempted' = Attempted
        BY <2>1, <2>2 DEF Attempted, FilesOf
    <2> QED BY <1>1, <2>1, <2>3, PassGoesOn DEF Progress, Applying, LabelledManifest
<1>7. CASE CreateOrUpdate
    <2>1. /\ pc = "put" /\ pc' = "apply" /\ existing' # "stale"
          /\ cluster' = [cluster EXCEPT ![file] = LabelledManifest(file)]
          /\ UNCHANGED <<lastFile, latest, manifests, todo>>
        BY <1>1, <1>7 DEF CreateOrUpdate
    <2>2. Attempted' = Attempted \cup {file} /\ file \in Files
        BY <2>1 DEF Attempted, FilesOf, WorkInv
    <2>3. ASSUME NEW f \in Attempted'
          PROVE  cluster'[f] = LabelledManifest(f)'
        <3>1. f \in Files
            BY <2>3 DEF Attempted, FilesOf
        <3>2. f # file => cluster[f] = LabelledManifest(f)
            BY <1>1, <2>1, <2>2, <2>3 DEF Progress, Applying
        <3> QED BY <2>1, <2>2, <3>1, <3>2 DEF TypeOK, LabelledManifest
    <2> QED BY <1>1, <2>1, <2>3, PassGoesOn DEF Progress, Applying
<1>8. CASE AllApplied
    <2>1. /\ pc = "apply" /\ pc' = "truncate"
          /\ UNCHANGED <<passVars, cluster, lastFile>>
        BY <1>8 DEF AllApplied
    <2> QED BY <1>1, <2>1, PassGoesOn
            DEF Progress, Applying, Attempted, FilesOf, LabelledManifest, passVars
<1>9. CASE TruncateLastFile /\ ~EndPass
    <2>1. /\ pc = "truncate" /\ pc' = "write" /\ lastFile' = NoTag
          /\ UNCHANGED <<passVars, cluster>>
        BY <1>9 DEF TruncateLastFile
    <2>2. target' = target
        BY <2>1 DEF HNext, RememberTarget, Applying
    <2>3. latest \in Tags
        BY <2>1 DEF WorkInv, PassInv, BeforePull
    <2> QED BY <1>1, <2>1, <2>2, <2>3, TagAssumption
            DEF NewTag, Progress, Applying, Attempted, FilesOf, LabelledManifest,
                BookmarkCompletesPass, passVars
<1>10. CASE WriteLastFile
    <2>1. /\ pc = "write" /\ pc' = "sleep" /\ lastFile' = latest /\ ForgetPass
          /\ UNCHANGED cluster
        BY <1>10 DEF WriteLastFile, EndPass
    <2>2. target' = target /\ target = [tag |-> latest, version |-> manifests]
        BY <1>1, <2>1 DEF HNext, RememberTarget, Applying, Progress
    <2>3. Attempted = FilesOf(manifests)
        BY <2>1 DEF Attempted, WorkInv
    <2>4. \A f \in FilesOf(manifests) : cluster[f] = LabelledManifest(f)
        BY <1>1, <2>1, <2>3 DEF Progress, Applying
    <2>5. BookmarkCompletesPass'
        BY <2>1, <2>2, <2>4 DEF BookmarkCompletesPass, FilesOf, LabelledManifest
    <2> QED BY <2>1, <2>5 DEF NewTag, Progress, Applying, ForgetPass
<1>11. CASE Sleep
    <2>1. /\ pc = "sleep" /\ pc' = "poll" /\ UNCHANGED <<passVars, cluster, lastFile>>
        BY <1>11 DEF Sleep
    <2>2. target' = target
        BY <2>1 DEF HNext, RememberTarget, Applying
    <2> QED BY <1>1, <2>1, <2>2
            DEF NewTag, Progress, Applying, BookmarkCompletesPass, FilesOf, passVars
<1>12. ~ChecksumsChanged
    BY <1>1 DEF ChecksumsChanged, NewTag
<1>13. EndPass /\ ~WriteLastFile => UNCHANGED <<cluster, lastFile>>
    BY DEF MainStep, EndPass, Poll, GetKubernetesClients, PullImageToDir,
           ChecksumsChanged, GetExisting, CreateOrUpdate, AllApplied, TruncateLastFile,
           Sleep
<1> QED BY <1>2, <1>3, <1>4, <1>5, <1>6, <1>7, <1>8, <1>9, <1>10, <1>11, <1>12, <1>13
        DEF MainStep

(* What the environment does: a push changes no pass that runs, a crash ends *)
(* one, a signal leaves the main loop to the cleanup, and a new pod has no   *)
(* bookmark.                                                                *)
LEMMA EnvironmentBooks ==
    ASSUME TypeOK, WorkInv, BookmarkInv, HNext, Environment,
           Undisturbed, ~Drift
    PROVE  BookmarkInv'
<1>1. CASE Push
    <2>1. /\ UNCHANGED <<cluster, lastFile, pc, latest, isTagChanged, manifests, todo, file,
                         existing, handler>>
        BY <1>1 DEF Push, mainVars, passVars, handlerVars
    <2>2. target' = target
        BY <2>1 DEF HNext, RememberTarget, Applying
    <2> QED BY <2>1, <2>2 DEF BookmarkInv, NewTag, Progress, Applying, Attempted, FilesOf,
                              LabelledManifest, BookmarkCompletesPass
<1>2. CASE Signal
    <2>1. handler' # "waiting" /\ (existing' = existing \/ existing' = "absent")
        BY <1>2 DEF Signal, ProcessEnds, ForgetPass, mainVars, passVars
    <2>2. handler = "waiting"
        BY <1>2 DEF Signal
    <2> QED BY <2>1, <2>2 DEF BookmarkInv
<1>3. CASE Crash
    <2>1. /\ handler = "waiting" /\ pc' = "poll" /\ ForgetPass
          /\ UNCHANGED <<cluster, lastFile, handler>>
        BY <1>3 DEF Crash, handlerVars
    <2> QED BY <2>1, PassOver DEF BookmarkInv
<1>4. CASE Kill
    BY <1>4 DEF Kill, ProcessEnds, ForgetPass, BookmarkInv
<1>5. CASE NewPod
    <2>1. /\ handler = "exited" /\ pc' = "poll" /\ lastFile' = NoTag
          /\ UNCHANGED existing
        BY <1>5 DEF NewPod, passVars
    <2> QED BY <2>1 DEF BookmarkInv, NewTag, Progress, Applying, BookmarkCompletesPass
<1> QED BY <1>1, <1>2, <1>3, <1>4, <1>5 DEF Environment

LEMMA HandlerStepBooks ==
    ASSUME HandlerStep
    PROVE  BookmarkInv'
<1>1. handler' # "waiting" /\ (handler' = "exited" => existing' = "absent")
    BY DEF HandlerStep, CleanupClients, ListMine, DeletePolicy, DeleteClusterPolicy, Exit,
           ProcessEnds, ForgetPass
<1> QED BY <1>1 DEF BookmarkInv

(* While no call fails and nobody else writes, a bookmark that names the    *)
(* tag of the latest pass says that every file of it is in the cluster, over *)
(* crashes, signals, lost pods and pushes, overwritten tags included.       *)
THEOREM BookmarkComplete == ASSUME TagPolling PROVE HSpec => []BookmarkCompletesPass
<1>1. HInit => BookmarkInv
    BY DEF HInit, Init, BookmarkInv, NewTag, Progress, Applying, BookmarkCompletesPass
<1>2. WatcherInv /\ WatcherInv' /\ BudgetInv /\ BookmarkInv /\ [HNext]_hvars => BookmarkInv'
    <2> SUFFICES ASSUME WatcherInv, WatcherInv', BudgetInv, BookmarkInv, [HNext]_hvars,
                        Undisturbed'
                 PROVE  BookmarkInv'
        BY DEF BookmarkInv
    <2>1. CASE UNCHANGED hvars
        BY <2>1 DEF hvars, vars, history, mainVars, passVars, handlerVars, BookmarkInv,
                    Undisturbed, NoErrors, NewTag, Progress, Applying, Attempted, FilesOf,
                    LabelledManifest, BookmarkCompletesPass
    <2>2. CASE HNext
        <3>1. TypeOK /\ TypeOK' /\ PassInv /\ WorkInv /\ Next
            BY <2>2 DEF WatcherInv, HistoryTypeOK, HNext
        <3>2. Undisturbed /\ ~Happens("error") /\ ~Drift
            BY <3>1, StillUndisturbed
        <3>3. CASE MainStep /\ handler = "waiting"
            BY <2>2, <3>1, <3>2, <3>3, MainStepBooks DEF BookmarkInv
        <3>4. CASE MainStep /\ handler # "waiting"
            <4>1. handler' = handler /\ handler # "exited"
                BY <3>1, <3>4 DEF MainStep, Poll, GetKubernetesClients, PullImageToDir,
                       ChecksumsChanged, GetExisting, CreateOrUpdate, AllApplied,
                       TruncateLastFile, WriteLastFile, Sleep, handlerVars, WorkInv
            <4> QED BY <3>4, <4>1 DEF BookmarkInv
        <3>5. CASE HandlerStep
            BY <3>5, HandlerStepBooks
        <3>6. CASE Environment
            BY <2>2, <3>1, <3>2, <3>6, EnvironmentBooks
        <3> QED BY <3>1, <3>3, <3>4, <3>5, <3>6 DEF Next
    <2> QED BY <2>1, <2>2
<1>3. BookmarkInv => BookmarkCompletesPass
    BY DEF BookmarkInv, BookmarkCompletesPass
<1> QED BY <1>1, <1>2, <1>3, WatcherCorrect, BudgetCorrect, PTL DEF HSpec
=============================================================================
