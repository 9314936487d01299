---------------------------- MODULE WatcherProofs ----------------------------
(***************************************************************************)
(* Proofs about the watcher, for every set of files, tags and versions,    *)
(* every configuration and every budget of events.  WatcherInv is          *)
(* inductive: the main loop works only on files of the version it pulled   *)
(* (WorkInv), under the tag it pulled it with (PassInv), and that version  *)
(* was published (RegistryInv); so what it writes is labelled truthfully.  *)
(***************************************************************************)
EXTENDS WatcherHistory, TLAPS

USE DEF CallAnswers, CallFails

-----------------------------------------------------------------------------
(* Type correctness. *)

LEMMA HappensTyped ==
    ASSUME budget \in [Events -> Nat], NEW e \in Events, Happens(e)
    PROVE  budget' \in [Events -> Nat]
<1>1. budget[e] - 1 \in Nat
    BY DEF Happens
<1> QED BY <1>1 DEF Happens

LEMMA CallTyped ==
    ASSUME budget \in [Events -> Nat], UNCHANGED budget \/ Happens("error")
    PROVE  budget' \in [Events -> Nat]
<1>1. "error" \in Events
    BY DEF Events
<1> QED BY <1>1, HappensTyped

LEMMA SpecOfFile ==
    ASSUME NEW version \in Versions, NEW f \in FilesOf(version)
    PROVE  f \in Files /\ version[f] \in Specs
BY DEF FilesOf, Versions

LEMMA InitTyped == HInit => HistoryTypeOK
<1> SUFFICES ASSUME HInit PROVE HistoryTypeOK
    OBVIOUS
<1>1. budget \in [Events -> Nat]
    BY BoundsAssumption DEF HInit, Init
<1>2. pc \in PCs /\ handler \in HandlerPCs
    BY DEF HInit, Init, PCs, HandlerPCs
<1>3. registry \in [Tags -> Versions \cup {NoVersion}]
      /\ cluster \in [Files -> Objects \cup {NoObject}]
    BY DEF HInit, Init
<1>4. target \in [tag : Tags \cup {NoTag}, version : Versions \cup {NoVersion}]
    BY DEF HInit, NoTarget
<1>5. TypeOK
    BY <1>1, <1>2, <1>3 DEF HInit, Init, TypeOK
<1> QED BY <1>4, <1>5 DEF HInit, HistoryTypeOK

LEMMA ForgetPassTyped ==
    ASSUME ForgetPass
    PROVE  /\ latest' \in Tags \cup {NoTag}
           /\ isTagChanged' \in BOOLEAN
           /\ manifests' \in Versions \cup {NoVersion}
           /\ todo' \subseteq Files
           /\ toApply' \subseteq Files
           /\ file' \in Files \cup {NoObject}
           /\ existing' \in {"absent", "found", "stale"}
BY DEF ForgetPass

LEMMA LabelledManifestTyped ==
    ASSUME TypeOK, PassInv, WorkInv, pc = "put"
    PROVE  file \in Files /\ LabelledManifest(file) \in Objects
<1>1. manifests \in Versions /\ file \in FilesOf(manifests)
    BY DEF TypeOK, WorkInv, BeforePull
<1>2. latest \in Tags
    BY <1>1, NoneAssumption DEF PassInv
<1> QED BY <1>1, <1>2, SpecOfFile DEF LabelledManifest, Objects

(* The steps of a pass leave registry, handler and history alone. *)
LEMMA MainStepTyped ==
    ASSUME TypeOK, PassInv, WorkInv, MainStep
    PROVE  TypeOK'
<1>1. budget' \in [Events -> Nat]
    <2>1. UNCHANGED budget \/ Happens("error")
        BY DEF MainStep, Poll, ReadLastFile, GetKubernetesClients, PullImageToDir,
               ChecksumsChanged, GetExisting, CreateOrUpdate, AllApplied,
               TruncateLastFile, WriteLastFile, Sleep
    <2> QED BY <2>1, CallTyped DEF TypeOK
<1>2. CASE Poll
    <2>1. ChosenTag \in Tags \cup {NoTag}
        BY TagAssumption DEF ChosenTag, TypeOK
    <2>2. isTagChanged' \in BOOLEAN
        BY <1>2 DEF Poll, TagIsChanged, EndPass, ForgetPass
    <2> QED BY <1>1, <1>2, <2>1, <2>2, ForgetPassTyped
        DEF TypeOK, Poll, EndPass, PCs, registryVars, handlerVars
<1>3. CASE GetKubernetesClients
    BY <1>1, <1>3, ForgetPassTyped
    DEF TypeOK, GetKubernetesClients, EndPass, PCs, registryVars, handlerVars, passVars
<1>4. CASE PullImageToDir
    BY <1>1, <1>4, ForgetPassTyped
    DEF TypeOK, PullImageToDir, Pullable, FilesOf, EndPass, PCs, registryVars, handlerVars
<1>5. CASE ChecksumsChanged
    BY <1>1, <1>5, ForgetPassTyped
    DEF TypeOK, ChecksumsChanged, EndPass, PCs, registryVars, handlerVars
<1>6. CASE GetExisting
    BY <1>1, <1>6 DEF TypeOK, GetExisting, PCs, registryVars, handlerVars
<1>7. CASE CreateOrUpdate
    <2>1. cluster' \in [Files -> Objects \cup {NoObject}]
        BY <1>7, LabelledManifestTyped DEF TypeOK, CreateOrUpdate
    <2> QED BY <1>1, <1>7, <2>1 DEF TypeOK, CreateOrUpdate, PCs, registryVars, handlerVars
<1>8. CASE AllApplied
    BY <1>1, <1>8 DEF TypeOK, AllApplied, PCs, registryVars, handlerVars, passVars
<1>9. CASE TruncateLastFile
    BY <1>1, <1>9, ForgetPassTyped
    DEF TypeOK, TruncateLastFile, EndPass, PCs, registryVars, handlerVars, passVars
<1>10. CASE WriteLastFile
    BY <1>1, <1>10, ForgetPassTyped
    DEF TypeOK, WriteLastFile, EndPass, PCs, registryVars, handlerVars
<1>11. CASE Sleep
    BY <1>1, <1>11 DEF TypeOK, Sleep, PCs, registryVars, handlerVars, passVars
<1> QED BY <1>2, <1>3, <1>4, <1>5, <1>6, <1>7, <1>8, <1>9, <1>10, <1>11 DEF MainStep

LEMMA ProcessEndsTyped ==
    ASSUME TypeOK, ProcessEnds, UNCHANGED <<registryVars, cluster, lastFile>>,
           budget' \in [Events -> Nat]
    PROVE  TypeOK'
BY ForgetPassTyped DEF ProcessEnds, TypeOK, PCs, HandlerPCs, registryVars

LEMMA OthersWriteTyped ==
    ASSUME TypeOK, NEW f \in Files, NEW object \in Objects \cup {NoObject},
           OthersWrite(f, object)
    PROVE  /\ cluster' \in [Files -> Objects \cup {NoObject}]
           /\ existing' \in {"absent", "found", "stale"}
BY DEF OthersWrite, TypeOK

LEMMA HandlerStepTyped ==
    ASSUME TypeOK, HandlerStep
    PROVE  TypeOK'
<1>1. budget' \in [Events -> Nat]
    <2>1. UNCHANGED budget \/ Happens("error")
        BY DEF HandlerStep, CleanupClients, ListMine, DeletePolicy,
               DeleteClusterPolicy, Exit
    <2> QED BY <2>1, CallTyped DEF TypeOK
<1>2. CASE CleanupClients
    <2>1. CASE ProcessEnds
        BY <1>1, <1>2, <2>1, ProcessEndsTyped DEF CleanupClients
    <2>2. CASE handler' = "listPolicies" /\ UNCHANGED <<toDelete, mainVars>>
        BY <1>1, <1>2, <2>2
        DEF CleanupClients, TypeOK, HandlerPCs, registryVars, mainVars, passVars
    <2> QED BY <1>2, <2>1, <2>2 DEF CleanupClients
<1>3. ASSUME NEW call, NEW kind \in SUBSET Files, NEW then \in HandlerPCs,
             ListMine(call, kind, then)
      PROVE  TypeOK'
    BY <1>1, <1>3 DEF ListMine, Mine, TypeOK, registryVars, mainVars, passVars
<1>4. CASE ListMine("listPolicies", NamespacedFiles, "deletePolicies")
    BY <1>3, <1>4, FilesAssumption DEF HandlerPCs
<1>5. CASE DeletePolicy
    BY <1>1, <1>5 DEF DeletePolicy, TypeOK, HandlerPCs, registryVars, mainVars, passVars
<1>6. CASE ListMine("listClusterPolicies", Files \ NamespacedFiles, "deleteClusterPolicies")
    BY <1>3, <1>6 DEF HandlerPCs
<1>7. CASE DeleteClusterPolicy
    <2>1. PICK f \in toDelete :
              /\ toDelete' = toDelete \ {f}
              /\ \/ OthersWrite(f, NoObject)
                 \/ UNCHANGED <<cluster, existing>>
        BY <1>7 DEF DeleteClusterPolicy
    <2>2. f \in Files
        BY DEF TypeOK
    <2>3. /\ cluster' \in [Files -> Objects \cup {NoObject}]
          /\ existing' \in {"absent", "found", "stale"}
        BY <2>1, <2>2, OthersWriteTyped DEF TypeOK
    <2> QED BY <1>1, <1>7, <2>1, <2>3 DEF DeleteClusterPolicy, TypeOK, registryVars
<1>8. CASE Exit
    BY <1>1, <1>8, ProcessEndsTyped DEF Exit
<1> QED BY <1>2, <1>4, <1>5, <1>6, <1>7, <1>8 DEF HandlerStep

LEMMA EnvironmentTyped ==
    ASSUME TypeOK, Environment
    PROVE  TypeOK'
<1>1. budget' \in [Events -> Nat]
    <2>1. UNCHANGED budget \/ \E e \in Events : Happens(e)
        BY DEF Environment, Push, Drift, Signal, Crash, Kill, NewPod, Events
    <2> QED BY <2>1, HappensTyped DEF TypeOK
<1>2. CASE Push
    <2>1. PICK t \in Tags : \E version \in Contents[t] :
              /\ registry' = [registry EXCEPT ![t] = version]
              /\ newest' \in {t, newest} \ {NoTag}
        BY <1>2 DEF Push
    <2>2. Contents[t] \subseteq Versions \cup {NoVersion}
        BY ContentsAssumption
    <2>3. registry' \in [Tags -> Versions \cup {NoVersion}] /\ newest' \in Tags \cup {NoTag}
        BY <2>1, <2>2 DEF TypeOK
    <2> QED BY <1>1, <1>2, <2>3 DEF Push, TypeOK, mainVars, passVars, handlerVars
<1>3. CASE Drift
    <2>1. PICK f \in Files, object \in DriftObjects : OthersWrite(f, object)
        BY <1>3 DEF Drift
    <2>2. /\ cluster' \in [Files -> Objects \cup {NoObject}]
          /\ existing' \in {"absent", "found", "stale"}
        BY <2>1, OthersWriteTyped, DriftAssumption
    <2> QED BY <1>1, <1>3, <2>2 DEF Drift, TypeOK, registryVars, handlerVars
<1>4. CASE Signal
    <2>1. CASE ProcessEnds
        BY <1>1, <1>4, <2>1, ProcessEndsTyped DEF Signal
    <2>2. CASE handler' = "clients" /\ UNCHANGED <<toDelete, mainVars>>
        BY <1>1, <1>4, <2>2
        DEF Signal, TypeOK, HandlerPCs, registryVars, mainVars, passVars
    <2> QED BY <1>4, <2>1, <2>2 DEF Signal
<1>5. CASE Crash
    BY <1>1, <1>5, ForgetPassTyped DEF Crash, TypeOK, PCs, registryVars, handlerVars
<1>6. CASE Kill
    BY <1>1, <1>6, ProcessEndsTyped DEF Kill
<1>7. CASE NewPod
    BY <1>1, <1>7 DEF NewPod, TypeOK, PCs, HandlerPCs, registryVars, passVars
<1> QED BY <1>2, <1>3, <1>4, <1>5, <1>6, <1>7 DEF Environment

-----------------------------------------------------------------------------
(* The history is typed whatever the step is. *)

LEMMA HistoryTyped ==
    ASSUME HistoryTypeOK, TypeOK', PassInv, WorkInv, HNext
    PROVE  HistoryTypeOK'
<1>1. pushed' \subseteq Tags \X Files \X Specs
    <2>1. ASSUME NEW t \in Tags PROVE Published(t) \subseteq Tags \X Files \X Specs
        <3>1. CASE registry'[t] = NoVersion
            BY <3>1 DEF Published
        <3>2. CASE registry'[t] # NoVersion
            <4>1. registry'[t] \in Versions
                BY <3>2 DEF TypeOK
            <4> QED BY <3>2, <4>1, SpecOfFile DEF Published
        <3> QED BY <3>1, <3>2
    <2> QED BY <2>1 DEF HNext, RememberPushes, HistoryTypeOK
<1>2. edited' \subseteq Files /\ same' \subseteq Files /\ rewritten' \subseteq Files
    BY DEF HNext, RememberWriters, RememberSame, RememberRewritten, Written, HistoryTypeOK
<1>3. target' \in [tag : Tags \cup {NoTag}, version : Versions \cup {NoVersion}]
    BY DEF HNext, RememberTarget, HistoryTypeOK, TypeOK
<1>4. torn' \in BOOLEAN
    BY DEF HNext, RememberTornPass
<1> QED BY <1>1, <1>2, <1>3, <1>4 DEF HistoryTypeOK

-----------------------------------------------------------------------------
(* The work of a pass. *)

LEMMA ProcessEndsWork ==
    ASSUME ProcessEnds
    PROVE  WorkInv' /\ PassInv'
BY DEF ProcessEnds, ForgetPass, WorkInv, PassInv, BeforePull

LEMMA EndPassWork ==
    ASSUME EndPass, handler # "exited", UNCHANGED handler
    PROVE  WorkInv'
BY DEF EndPass, ForgetPass, WorkInv, BeforePull

LEMMA MainStepWork ==
    ASSUME TypeOK, WorkInv, MainStep
    PROVE  WorkInv'
<1>1. handler # "exited" /\ UNCHANGED handler
    BY DEF MainStep, Poll, GetKubernetesClients, PullImageToDir, ChecksumsChanged,
           GetExisting, CreateOrUpdate, AllApplied, TruncateLastFile, WriteLastFile,
           Sleep, WorkInv, handlerVars
<1>2. CASE EndPass
    BY <1>1, <1>2, EndPassWork
<1>3. CASE ~EndPass
    <2>1. CASE Poll
        BY <1>1, <1>3, <2>1 DEF Poll, WorkInv, BeforePull
    <2>2. CASE GetKubernetesClients
        BY <1>1, <1>3, <2>2
        DEF GetKubernetesClients, passVars, WorkInv, BeforePull
    <2>3. CASE PullImageToDir
        BY <1>1, <1>3, <2>3 DEF PullImageToDir, Pullable, WorkInv, BeforePull
    <2>4. CASE ChecksumsChanged
        BY <1>1, <1>3, <2>4 DEF ChecksumsChanged, WorkInv, BeforePull
    <2>5. CASE GetExisting
        BY <1>1, <2>5 DEF GetExisting, WorkInv, BeforePull
    <2>6. CASE CreateOrUpdate
        BY <1>1, <2>6 DEF CreateOrUpdate, WorkInv, BeforePull
    <2>7. CASE AllApplied
        BY <1>1, <2>7 DEF AllApplied, passVars, WorkInv, BeforePull
    <2>8. CASE TruncateLastFile
        BY <1>1, <1>3, <2>8 DEF TruncateLastFile, passVars, WorkInv, BeforePull
    <2>9. CASE WriteLastFile
        BY <1>3, <2>9 DEF WriteLastFile
    <2>10. CASE Sleep
        BY <1>1, <2>10 DEF Sleep, passVars, WorkInv, BeforePull
    <2> QED BY <2>1, <2>2, <2>3, <2>4, <2>5, <2>6, <2>7, <2>8, <2>9, <2>10 DEF MainStep
<1> QED BY <1>2, <1>3

LEMMA HandlerStepWork ==
    ASSUME TypeOK, WorkInv, HandlerStep
    PROVE  WorkInv'
<1>1. CASE ProcessEnds
    BY <1>1, ProcessEndsWork
<1>2. CASE ~ProcessEnds
    <2>1. handler' # "exited" /\ pc' = pc
        BY <1>2 DEF HandlerStep, CleanupClients, ListMine, DeletePolicy,
                    DeleteClusterPolicy, Exit, mainVars
    <2>2. UNCHANGED <<manifests, todo, toApply, file>>
        BY <1>2 DEF HandlerStep, CleanupClients, ListMine, DeletePolicy,
                    DeleteClusterPolicy, Exit, mainVars, passVars
    <2> QED BY <2>1, <2>2 DEF WorkInv, BeforePull, FilesOf
<1> QED BY <1>1, <1>2

LEMMA EnvironmentWork ==
    ASSUME TypeOK, WorkInv, Environment
    PROVE  WorkInv'
<1>1. CASE Push \/ Drift
    BY <1>1 DEF Push, Drift, mainVars, passVars, handlerVars, WorkInv, BeforePull, FilesOf
<1>2. CASE Signal
    <2>1. CASE ProcessEnds
        BY <2>1, ProcessEndsWork
    <2>2. CASE ~ProcessEnds
        BY <1>2, <2>2 DEF Signal, mainVars, passVars, WorkInv, BeforePull, FilesOf
    <2> QED BY <2>1, <2>2
<1>3. CASE Crash
    BY <1>3 DEF Crash, ForgetPass, handlerVars, WorkInv, BeforePull
<1>4. CASE Kill
    BY <1>4, ProcessEndsWork DEF Kill
<1>5. CASE NewPod
    BY <1>5 DEF NewPod, passVars, WorkInv, BeforePull
<1> QED BY <1>1, <1>2, <1>3, <1>4, <1>5 DEF Environment

-----------------------------------------------------------------------------
(* What was published. *)

LEMMA RegistryPreserved ==
    ASSUME HNext
    PROVE  RegistryInv'
<1> SUFFICES ASSUME NEW t \in Tags, registry'[t] # NoVersion,
                    NEW f \in FilesOf(registry'[t])
             PROVE  <<t, f, registry'[t][f]>> \in pushed'
    BY DEF RegistryInv, FilesOf
<1>1. <<t, f, registry'[t][f]>> \in Published(t)
    BY DEF Published
<1> QED BY <1>1 DEF HNext, RememberPushes

(* Apart from the pull, a step keeps the tag and the version of the pass or *)
(* forgets the version.                                                     *)
LEMMA PassKept ==
    ASSUME TypeOK, WorkInv, Next, manifests' # NoVersion
    PROVE  \/ UNCHANGED <<manifests, latest>>
           \/ Pullable(latest) /\ latest' = latest /\ manifests' = registry[latest]
<1>1. ~ForgetPass
    BY DEF ForgetPass
<1>2. CASE MainStep
    <2>1. CASE Poll
        BY <1>1, <2>1 DEF Poll, EndPass, WorkInv, BeforePull
    <2>2. CASE PullImageToDir
        BY <1>1, <2>2 DEF PullImageToDir, EndPass
    <2> QED BY <1>1, <1>2, <2>1, <2>2
        DEF MainStep, GetKubernetesClients, ChecksumsChanged, GetExisting,
            CreateOrUpdate, AllApplied, TruncateLastFile, WriteLastFile, Sleep,
            EndPass, passVars
<1>3. CASE HandlerStep
    BY <1>1, <1>3 DEF HandlerStep, CleanupClients, ListMine, DeletePolicy,
                      DeleteClusterPolicy, Exit, ProcessEnds, mainVars, passVars
<1>4. CASE Environment
    BY <1>1, <1>4 DEF Environment, Push, Drift, Signal, Crash, Kill, NewPod,
                      ProcessEnds, mainVars, passVars
<1> QED BY <1>2, <1>3, <1>4 DEF Next

LEMMA PassPreserved ==
    ASSUME TypeOK, RegistryInv, PassInv, WorkInv, HNext
    PROVE  PassInv'
<1> SUFFICES ASSUME manifests' # NoVersion
             PROVE  /\ latest' \in Tags
                    /\ \A f \in FilesOf(manifests') : <<latest', f, manifests'[f]>> \in pushed'
    BY DEF PassInv, FilesOf
<1>1. pushed \subseteq pushed'
    BY DEF HNext, RememberPushes
<1>2. CASE UNCHANGED <<manifests, latest>>
    BY <1>1, <1>2 DEF PassInv
<1>3. CASE Pullable(latest) /\ latest' = latest /\ manifests' = registry[latest]
    <2>1. latest \in Tags
        BY <1>3 DEF Pullable, TypeOK
    <2> QED BY <1>1, <1>3, <2>1 DEF Pullable, RegistryInv
<1> QED BY <1>2, <1>3, PassKept DEF HNext

LEMMA LabelsPreserved ==
    ASSUME TypeOK, PassInv, WorkInv, LabelsTellTheTruth, HNext
    PROVE  LabelsTellTheTruth'
<1> SUFFICES ASSUME NEW f \in Files, f \notin edited', cluster'[f] # NoObject
             PROVE  <<cluster'[f].tag, f, cluster'[f].spec>> \in pushed'
    BY DEF LabelsTellTheTruth
<1>1. pushed \subseteq pushed'
    BY DEF HNext, RememberPushes
<1>2. CASE MainWrites(f)
    <2>1. manifests # NoVersion /\ f \in FilesOf(manifests)
        BY <1>2 DEF MainWrites, WorkInv, BeforePull
    <2>2. cluster'[f].tag = latest /\ cluster'[f].spec = manifests[f]
        BY <1>2 DEF MainWrites, LabelledManifest
    <2> QED BY <1>1, <2>1, <2>2 DEF PassInv
<1>3. CASE ~MainWrites(f)
    <2>1. f \notin edited /\ cluster'[f] = cluster[f]
        BY <1>3 DEF HNext, RememberWriters, Written
    <2> QED BY <1>1, <2>1 DEF LabelsTellTheTruth
<1> QED BY <1>2, <1>3

-----------------------------------------------------------------------------
LEMMA Stutter ==
    ASSUME WatcherInv, UNCHANGED hvars
    PROVE  WatcherInv'
<1> USE DEF hvars, vars, history, registryVars, mainVars, passVars, handlerVars
<1>1. HistoryTypeOK'
    BY DEF WatcherInv, HistoryTypeOK, TypeOK
<1>2. RegistryInv' /\ PassInv' /\ WorkInv' /\ LabelsTellTheTruth'
    BY DEF WatcherInv, RegistryInv, PassInv, WorkInv, BeforePull, FilesOf,
           LabelsTellTheTruth
<1> QED BY <1>1, <1>2 DEF WatcherInv

(* The watcher's invariant holds in every configuration.                    *)
THEOREM WatcherCorrect == HSpec => []WatcherInv
<1>1. HInit => WatcherInv
    <2> SUFFICES ASSUME HInit PROVE WatcherInv
        OBVIOUS
    <2>1. RegistryInv /\ PassInv
        BY DEF HInit, Init, RegistryInv, PassInv
    <2>2. WorkInv
        BY DEF HInit, Init, WorkInv, BeforePull
    <2>3. LabelsTellTheTruth
        BY DEF HInit, Init, LabelsTellTheTruth
    <2> QED BY <2>1, <2>2, <2>3, InitTyped DEF WatcherInv
<1>2. WatcherInv /\ [HNext]_hvars => WatcherInv'
    <2>1. ASSUME WatcherInv, HNext
          PROVE  WatcherInv'
        <3> USE <2>1
        <3>1. TypeOK'
            BY MainStepTyped, HandlerStepTyped, EnvironmentTyped
            DEF WatcherInv, HistoryTypeOK, HNext, Next
        <3>2. HistoryTypeOK'
            BY <3>1, HistoryTyped DEF WatcherInv
        <3>3. WorkInv'
            BY MainStepWork, HandlerStepWork, EnvironmentWork
            DEF WatcherInv, HistoryTypeOK, HNext, Next
        <3>4. RegistryInv' /\ PassInv'
            BY RegistryPreserved, PassPreserved DEF WatcherInv, HistoryTypeOK
        <3>5. LabelsTellTheTruth'
            BY LabelsPreserved DEF WatcherInv, HistoryTypeOK
        <3> QED BY <3>2, <3>3, <3>4, <3>5 DEF WatcherInv
    <2> QED BY <2>1, Stutter
<1> QED BY <1>1, <1>2, PTL DEF HSpec

(* Spec and policy-version label of every policy that the watcher wrote     *)
(* last were pushed together, whatever fails and whoever interferes.        *)
THEOREM TruthfulLabels == HSpec => []LabelsTellTheTruth
<1>1. WatcherInv => LabelsTellTheTruth
    BY DEF WatcherInv
<1> QED BY <1>1, WatcherCorrect, PTL

-----------------------------------------------------------------------------
(* A configuration that pins the tag of the URL is obeyed. *)

PinInv == latest \in {NoTag, UrlTag} /\ OnlyUrlTagApplied

LEMMA LatestPinned ==
    ASSUME UsesUrlTag, latest \in {NoTag, UrlTag}, Next
    PROVE  latest' \in {NoTag, UrlTag}
<1>1. CASE ForgetPass
    BY <1>1 DEF ForgetPass
<1>2. CASE Poll
    BY <1>2 DEF Poll, ChosenTag, EndPass, ForgetPass
<1>3. CASE ~ForgetPass /\ ~Poll
    BY <1>3 DEF Next, MainStep, GetKubernetesClients, PullImageToDir, ChecksumsChanged,
           GetExisting, CreateOrUpdate, AllApplied, TruncateLastFile, WriteLastFile,
           Sleep, HandlerStep, CleanupClients, ListMine, DeletePolicy,
           DeleteClusterPolicy, Exit, Environment, Push, Drift, Signal, Crash, Kill,
           NewPod, ProcessEnds, EndPass, mainVars, passVars
<1> QED BY <1>1, <1>2, <1>3

(* Pinned mode, or Artifactory with a tag in the URL: no other version than *)
(* that of the URL is ever written by the watcher.                          *)
THEOREM PinnedTag == ASSUME UsesUrlTag PROVE HSpec => []OnlyUrlTagApplied
<1>1. HInit => PinInv
    BY DEF HInit, Init, PinInv, OnlyUrlTagApplied
<1>2. WatcherInv /\ PinInv /\ [HNext]_hvars => PinInv'
    <2> SUFFICES ASSUME WatcherInv, PinInv, [HNext]_hvars PROVE PinInv'
        OBVIOUS
    <2>1. CASE UNCHANGED hvars
        BY <2>1 DEF PinInv, OnlyUrlTagApplied, hvars, vars, history, mainVars, passVars
    <2>2. CASE HNext
        <3>1. latest' \in {NoTag, UrlTag}
            BY <2>2, LatestPinned DEF PinInv, HNext
        <3>2. ASSUME NEW f \in Files, f \notin edited', cluster'[f] # NoObject
              PROVE  cluster'[f].tag = UrlTag
            <4>1. CASE MainWrites(f)
                <5>1. manifests # NoVersion
                    BY <4>1 DEF MainWrites, WatcherInv, WorkInv, BeforePull
                <5>2. latest = UrlTag
                    BY <5>1, TagAssumption DEF WatcherInv, PassInv, PinInv
                <5> QED BY <4>1, <5>2 DEF MainWrites, LabelledManifest
            <4>2. CASE ~MainWrites(f)
                BY <2>2, <3>2, <4>2
                DEF HNext, RememberWriters, Written, PinInv, OnlyUrlTagApplied
            <4> QED BY <4>1, <4>2
        <3> QED BY <3>1, <3>2 DEF PinInv, OnlyUrlTagApplied
    <2> QED BY <2>1, <2>2
<1>3. PinInv => OnlyUrlTagApplied
    BY DEF PinInv
<1> QED BY <1>1, <1>2, <1>3, WatcherCorrect, PTL DEF HSpec

-----------------------------------------------------------------------------
(* Every step of the watcher, and of the cluster and the registry around    *)
(* it, is a step of PolicySync or changes nothing there.                    *)

LEMMA Ended ==
    ASSUME WorkInv, pc' \in {"sleep", "poll", "exited"}, ForgetPass, UNCHANGED lastFile
    PROVE  \/ Sync!Idle /\ Sync!Others
           \/ Sync!EndPass /\ ~Sync!Idle
<1>1. pc' # "put"
    OBVIOUS
<1>2. CASE manifests = NoVersion
    <2>1. BeforePull /\ pc # "put"
        BY <1>2 DEF WorkInv, BeforePull
    <2>2. todo \cup toApply = {}
        BY <2>1 DEF WorkInv, BeforePull
    <2> QED BY <1>1, <1>2, <2>1, <2>2 DEF ForgetPass, Sync!Idle, Sync!Others
<1>3. CASE manifests # NoVersion
    BY <1>1, <1>3 DEF ForgetPass, Sync!Idle, Sync!EndPass
<1> QED BY <1>2, <1>3

(* A pass that ends without having written its bookmark. *)
LEMMA PassGivenUp ==
    ASSUME WorkInv, pc' \in {"sleep", "poll", "exited"}, ForgetPass,
           UNCHANGED <<registryVars, cluster, lastFile>>
    PROVE  Sync!Next
<1>1. CASE Sync!Idle /\ Sync!Others
    BY <1>1 DEF Sync!Next
<1>2. CASE Sync!EndPass /\ ~Sync!Idle
    <2>1. Sync!GiveUp
        BY <1>2 DEF Sync!GiveUp, registryVars
    <2> QED BY <2>1 DEF Sync!Next
<1> QED BY <1>1, <1>2, Ended

(* Whatever leaves the pass and the bookmark alone is the work of others.   *)
LEMMA PassUntouched ==
    ASSUME UNCHANGED <<lastFile, manifests, todo, toApply>>,
           manifests # NoVersion => UNCHANGED latest,
           (pc # "put" /\ pc' # "put") \/ UNCHANGED <<pc, file>>
    PROVE  Sync!Next
<1>1. Sync!Others
    BY DEF Sync!Others
<1> QED BY <1>1 DEF Sync!Next

LEMMA MainStepSyncs ==
    ASSUME TypeOK, PassInv, WorkInv, MainStep
    PROVE  Sync!Next
<1> USE DEF registryVars, passVars
<1>1. CASE EndPass /\ UNCHANGED <<registryVars, cluster, lastFile>>
    BY <1>1, PassGivenUp DEF EndPass
<1>2. CASE Poll /\ ~EndPass
    <2>1. manifests = NoVersion
        BY <1>2 DEF Poll, WorkInv, BeforePull
    <2> QED BY <1>2, <2>1, PassUntouched DEF Poll
<1>3. CASE GetKubernetesClients /\ ~EndPass
    BY <1>3, PassUntouched DEF GetKubernetesClients
<1>4. CASE PullImageToDir /\ ~EndPass
    <2>1. /\ manifests = NoVersion /\ todo = {} /\ toApply = {} /\ pc = "pull"
          /\ latest \in Tags /\ registry[latest] \in Versions /\ UNCHANGED latest
          /\ manifests' = registry[latest] /\ todo' = FilesOf(registry[latest])
          /\ toApply' = {} /\ pc' \in {"apply", "compare"}
          /\ UNCHANGED <<registry, cluster, lastFile>>
        BY <1>4 DEF PullImageToDir, Pullable, TypeOK, WorkInv, BeforePull
    <2>2. manifests' # NoVersion /\ todo' \subseteq Files /\ pc' # "put"
        BY <2>1, NoneAssumption DEF FilesOf
    <2>3. Sync!Begin
        BY <2>1, <2>2 DEF Sync!Begin, Sync!Idle
    <2> QED BY <2>3 DEF Sync!Next
<1>5. CASE ChecksumsChanged /\ ~EndPass
    <2>1. /\ manifests # NoVersion /\ pc = "compare" /\ pc' # "put"
          /\ UNCHANGED <<registry, cluster, lastFile, latest, manifests>>
        BY <1>5 DEF ChecksumsChanged, WorkInv, BeforePull
    <2>2. CASE todo' \cup toApply' = todo \cup toApply
        <3>1. Sync!Others
            BY <2>1, <2>2 DEF Sync!Others
        <3> QED BY <3>1 DEF Sync!Next
    <2>3. CASE todo' \cup toApply' # todo \cup toApply
        <3>1. PICK f \in todo : todo' = todo \ {f} /\ UNCHANGED toApply
            BY <1>5, <2>3 DEF ChecksumsChanged
        <3>2. f \in Files /\ todo' \cup toApply' = (todo \cup toApply) \ {f}
            BY <2>3, <3>1 DEF TypeOK
        <3>3. Sync!Attempt(f)
            BY <2>1, <3>1, <3>2 DEF Sync!Attempt
        <3> QED BY <3>2, <3>3 DEF Sync!Next
    <2> QED BY <2>2, <2>3
<1>6. CASE GetExisting
    <2>1. /\ manifests # NoVersion /\ pc = "apply"
          /\ UNCHANGED <<registry, cluster, lastFile, latest, manifests, toApply>>
        BY <1>6 DEF GetExisting, WorkInv, BeforePull
    <2>2. PICK f \in todo :
              /\ todo' = todo \ {f}
              /\ \/ file' = f /\ pc' = "put"
                 \/ file' = file /\ pc' = pc
        BY <1>6 DEF GetExisting
    <2>3. CASE file' = f /\ pc' = "put"
        <3>1. Sync!Others
            BY <2>1, <2>2, <2>3 DEF Sync!Others
        <3> QED BY <3>1 DEF Sync!Next
    <2>4. CASE file' = file /\ pc' = pc
        <3>1. f \in Files /\ toApply = {}
            BY <2>1 DEF TypeOK, WorkInv
        <3>2. Sync!Attempt(f)
            BY <2>1, <2>2, <2>4, <3>1 DEF Sync!Attempt
        <3> QED BY <3>1, <3>2 DEF Sync!Next
    <2> QED BY <2>2, <2>3, <2>4
<1>7. CASE CreateOrUpdate
    <2>1. /\ manifests # NoVersion /\ pc = "put" /\ pc' = "apply"
          /\ file \in Files /\ file \notin todo /\ toApply = {}
        BY <1>7 DEF CreateOrUpdate, WorkInv, BeforePull, FilesOf
    <2>2. cluster' \in {cluster, [cluster EXCEPT ![file] = LabelledManifest(file)]}
        BY <1>7 DEF CreateOrUpdate
    <2>3. UNCHANGED <<registry, lastFile, latest, manifests, todo, toApply>>
        BY <1>7 DEF CreateOrUpdate
    <2>4. Sync!Attempt(file)
        BY <2>1, <2>2, <2>3 DEF Sync!Attempt, Sync!Manifest, LabelledManifest
    <2> QED BY <2>1, <2>4 DEF Sync!Next
<1>8. CASE AllApplied \/ Sleep
    BY <1>8, PassUntouched DEF AllApplied, Sleep
<1>9. CASE TruncateLastFile /\ ~EndPass
    <2>1. /\ manifests # NoVersion /\ pc = "truncate" /\ pc' = "write"
          /\ todo = {} /\ toApply = {} /\ lastFile' = NoTag
          /\ UNCHANGED <<registry, cluster, latest, manifests, todo, toApply, file>>
        BY <1>9 DEF TruncateLastFile, WorkInv, BeforePull
    <2>2. Sync!Bookmark
        BY <2>1 DEF Sync!Bookmark, Sync!Idle
    <2> QED BY <2>2 DEF Sync!Next
<1>10. CASE WriteLastFile /\ ~UNCHANGED lastFile
    <2>1. /\ manifests # NoVersion /\ pc = "write" /\ todo = {} /\ toApply = {}
          /\ lastFile' = latest /\ EndPass /\ UNCHANGED <<registry, cluster>>
        BY <1>10 DEF WriteLastFile, WorkInv, BeforePull
    <2>2. Sync!Bookmark
        BY <2>1 DEF EndPass, ForgetPass, Sync!Bookmark, Sync!Idle, Sync!EndPass
    <2> QED BY <2>2 DEF Sync!Next
<1>11. Poll \/ GetKubernetesClients \/ PullImageToDir \/ ChecksumsChanged \/ TruncateLastFile
           => UNCHANGED <<registryVars, cluster>> /\ (EndPass => UNCHANGED lastFile)
    <2>1. TruncateLastFile => (EndPass => UNCHANGED lastFile)
        BY DEF TruncateLastFile, EndPass
    <2> QED BY <2>1 DEF Poll, GetKubernetesClients, PullImageToDir, ChecksumsChanged,
                       TruncateLastFile
<1>12. WriteLastFile => EndPass /\ UNCHANGED <<registryVars, cluster>>
    BY DEF WriteLastFile
<1> QED BY <1>1, <1>2, <1>3, <1>4, <1>5, <1>6, <1>7, <1>8, <1>9, <1>10, <1>11, <1>12
        DEF MainStep

LEMMA HandlerStepSyncs ==
    ASSUME WorkInv, HandlerStep
    PROVE  Sync!Next
<1> USE DEF mainVars, passVars, registryVars
<1>1. CASE ProcessEnds
    BY <1>1, PassGivenUp
    DEF HandlerStep, CleanupClients, ListMine, DeletePolicy, DeleteClusterPolicy, Exit,
        ProcessEnds, ForgetPass
<1>2. CASE ~ProcessEnds
    BY <1>2, PassUntouched
    DEF HandlerStep, CleanupClients, ListMine, DeletePolicy, DeleteClusterPolicy, Exit
<1> QED BY <1>1, <1>2

LEMMA EnvironmentSyncs ==
    ASSUME WorkInv, Environment
    PROVE  Sync!Next
<1> USE DEF mainVars, passVars
<1>1. CASE Push \/ Drift
    BY <1>1, PassUntouched DEF Push, Drift
<1>2. CASE Signal /\ ~ProcessEnds
    BY <1>2, PassUntouched DEF Signal
<1>3. CASE (Signal /\ ProcessEnds) \/ Kill
    BY <1>3, PassGivenUp DEF Signal, Kill, ProcessEnds
<1>4. CASE Crash
    BY <1>4, PassGivenUp DEF Crash
<1>5. CASE NewPod
    <2>1. pc = "exited" /\ manifests = NoVersion
        BY <1>5 DEF NewPod, WorkInv, BeforePull
    <2>2. Sync!Lose
        BY <1>5, <2>1 DEF NewPod, Sync!Lose, Sync!Idle, registryVars
    <2> QED BY <2>2 DEF Sync!Next
<1> QED BY <1>1, <1>2, <1>3, <1>4, <1>5 DEF Environment

(* The watcher implements PolicySync: whatever fails, crashes or is written *)
(* by others, a pass works on one version under one tag, and the bookmark   *)
(* waits for the last file.                                                 *)
THEOREM SyncsVersions == HSpec => SyncsWholeVersions
<1>1. HInit => Sync!Init
    BY DEF HInit, Init, Sync!Init
<1>2. WatcherInv /\ [HNext]_hvars => [Sync!Next]_(Sync!vars)
    <2>1. ASSUME WatcherInv, HNext PROVE Sync!Next
        BY <2>1, MainStepSyncs, HandlerStepSyncs, EnvironmentSyncs
        DEF WatcherInv, HistoryTypeOK, HNext, Next
    <2>2. ASSUME UNCHANGED hvars PROVE UNCHANGED Sync!vars
        BY <2>2 DEF hvars, vars, registryVars, mainVars, passVars, Sync!vars
    <2> QED BY <2>1, <2>2
<1> QED BY <1>1, <1>2, WatcherCorrect, PTL DEF HSpec, SyncsWholeVersions, Sync!Spec
=============================================================================
