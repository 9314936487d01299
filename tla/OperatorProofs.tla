----------------------------- MODULE OperatorProofs -----------------------------
(***************************************************************************)
(* Theorems about Operator: its type invariant, for any number of          *)
(* operators, and that one operator alone never deletes a good pod.        *)
(***************************************************************************)
EXTENDS Operator, FiniteSetTheorems, SequenceTheorems, TLAPS

USE DEF Runs, gaugeVars

(* An event that finds room leaves the feeds short. *)
LEMMA PublishedType ==
    ASSUME NEW S, NEW feed \in Feeds(S), NEW a \in Artifacts, NEW x \in S,
           Short(feed), Room(feed, a)
    PROVE  Published(feed, a, x) \in Feeds(S) /\ Short(Published(feed, a, x))
<1>1. ASSUME NEW o \in Operators
      PROVE  /\ [feed[o] EXCEPT ![a] = Append(@, x)] \in [Artifacts -> Seq(S)]
             /\ \A b \in Artifacts : Len([feed[o] EXCEPT ![a] = Append(@, x)][b]) <= MaxLag
    BY LagAssumption DEF Feeds, Short, Room
<1>2. Published(feed, a, x) \in Feeds(S)
    BY <1>1 DEF Feeds, Published
<1>3. QED
    BY <1>1, <1>2 DEF Feeds, Published, Short

(* What a delivered event leaves of the feeds. *)
LEMMA DeliveredType ==
    ASSUME NEW S, NEW feed \in Feeds(S), Short(feed), NEW o \in Operators, NEW a \in Artifacts,
           feed[o][a] # <<>>
    PROVE  /\ [feed EXCEPT ![o][a] = Tail(@)] \in Feeds(S)
           /\ Short([feed EXCEPT ![o][a] = Tail(@)])
           /\ Head(feed[o][a]) \in S
<1>1. feed[o][a] \in Seq(S) /\ Len(feed[o][a]) <= MaxLag
    BY DEF Feeds, Short
<1>2. /\ Tail(feed[o][a]) \in Seq(S) /\ Head(feed[o][a]) \in S
      /\ Len(Tail(feed[o][a])) <= MaxLag
    BY <1>1, LagAssumption
<1>3. [feed EXCEPT ![o][a] = Tail(@)] \in Feeds(S)
    BY <1>2 DEF Feeds
<1>4. QED
    BY <1>2, <1>3 DEF Feeds, Short

(* A feed of a stopped operator is empty. *)
LEMMA DroppedType ==
    ASSUME NEW S, NEW feed \in Feeds(S), Short(feed), NEW o \in Operators
    PROVE  /\ [feed EXCEPT ![o] = [a \in Artifacts |-> <<>>]] \in Feeds(S)
           /\ Short([feed EXCEPT ![o] = [a \in Artifacts |-> <<>>]])
<1>1. [a \in Artifacts |-> <<>>] \in [Artifacts -> Seq(S)]
    OBVIOUS
<1>2. QED
    BY <1>1, LagAssumption DEF Feeds, Short

(* A step of updateMetrics is one of a turn that ends or goes on counting.  *)
LEMMA CountTurn ==
    ASSUME NEW o \in Operators, UpdateMetrics(o)
    PROVE  /\ worker[o].pc \in {"metrics", "phases"}
           /\ Done(o) \/ GoTo(o, "phases")
           /\ CallAnswers \/ CallFails
           /\ UNCHANGED <<artifactVars, podVars, cacheVars>>
<1>1. CASE ListArtifacts(o)
    BY <1>1 DEF ListArtifacts, CountOn
<1>2. CASE CountPod(o)
    BY <1>2 DEF CountPod, CountOn
<1>3. QED
    BY <1>1, <1>2 DEF UpdateMetrics

(* What is counted are numbers of artifacts. *)
LEMMA CountOnType ==
    ASSUME TypeOK, NEW o \in Operators, NEW total \in Nat, NEW todo \in SUBSET Artifacts,
           NEW byPhase \in [PhaseLabels -> Nat], CountOn(o, total, todo, byPhase)
    PROVE  metrics' \in [Operators -> Gauges] /\ count' \in [Operators -> Counts]
<1>1. metrics \in [Operators -> Gauges] /\ count \in [Operators -> Counts]
    BY DEF TypeOK
<1>2. NotCounting \in Counts /\ [todo |-> todo, byPhase |-> byPhase] \in Counts
    BY DEF NotCounting, NoPhases, Counts
<1>3. metrics[o].byPhase \in [PhaseLabels -> Nat]
    BY <1>1 DEF Gauges
<1>. DEFINE phases == IF todo = {} THEN byPhase ELSE metrics[o].byPhase
<1>4. [total |-> total, byPhase |-> phases] \in Gauges
    BY <1>3 DEF Gauges
<1>. HIDE DEF phases
<1>5. metrics' = [metrics EXCEPT ![o] = [total |-> total, byPhase |-> phases]]
    BY DEF CountOn, phases
<1>6. QED
    BY <1>1, <1>2, <1>4, <1>5 DEF CountOn

LEMMA CountType ==
    ASSUME TypeOK, NEW o \in Operators, UpdateMetrics(o)
    PROVE  metrics' \in [Operators -> Gauges] /\ count' \in [Operators -> Counts]
<1>1. CASE ListArtifacts(o)
    <2>. DEFINE items == Items(artifactCache[o])
    <2>1. items \in SUBSET Artifacts /\ Cardinality(items) \in Nat
        BY ArtifactsAssumption, FS_Subset, FS_CardinalityType DEF Items
    <2>2. NoPhases \in [PhaseLabels -> Nat]
        BY DEF NoPhases
    <2>3. CASE UNCHANGED gaugeVars
        BY <2>3 DEF TypeOK
    <2>4. CASE CountOn(o, Cardinality(items), items, NoPhases)
        BY <2>1, <2>2, <2>4, CountOnType
    <2>5. QED
        BY <1>1, <2>3, <2>4 DEF ListArtifacts
<1>2. CASE CountPod(o)
    <2>1. PICK a \in count[o].todo, phase \in PhaseLabels :
            CountOn(o, metrics[o].total, count[o].todo \ {a},
                    [count[o].byPhase EXCEPT ![phase] = @ + 1])
        BY <1>2 DEF CountPod
    <2>2. /\ metrics[o].total \in Nat
          /\ count[o].todo \ {a} \in SUBSET Artifacts
          /\ count[o].byPhase \in [PhaseLabels -> Nat]
        BY DEF TypeOK, Gauges, Counts
    <2>3. [count[o].byPhase EXCEPT ![phase] = @ + 1] \in [PhaseLabels -> Nat]
        BY <2>2
    <2>4. QED
        BY <2>1, <2>2, <2>3, CountOnType
<1>3. QED
    BY <1>1, <1>2 DEF UpdateMetrics

(* The writes of the API server keep its types. *)
LEMMA WriteArtifactType ==
    ASSUME TypeOK, NEW a \in Artifacts, NEW artifact \in ArtifactObjects \cup {Absent},
           WriteArtifact(a, artifact)
    PROVE  /\ artifacts' \in [Artifacts -> ArtifactObjects \cup {Absent}]
           /\ artifactFeed' \in Feeds(ArtifactObjects \cup {Absent}) /\ Short(artifactFeed)'
<1>1. artifactFeed' = Published(artifactFeed, a, artifact) /\ Room(artifactFeed, a)
    BY DEF WriteArtifact
<1>2. artifactFeed \in Feeds(ArtifactObjects \cup {Absent}) /\ Short(artifactFeed)
    BY DEF TypeOK
<1>3. Published(artifactFeed, a, artifact) \in Feeds(ArtifactObjects \cup {Absent})
      /\ Short(Published(artifactFeed, a, artifact))
    BY <1>1, <1>2, PublishedType
<1>4. QED
    BY <1>1, <1>3 DEF WriteArtifact, TypeOK, Short

LEMMA WritePodType ==
    ASSUME TypeOK, NEW a \in Artifacts, NEW pod \in PodObjects \cup {Absent}, WritePod(a, pod)
    PROVE  /\ pods' \in [Artifacts -> PodObjects \cup {Absent}]
           /\ podFeed' \in Feeds(PodObjects \cup {Absent}) /\ Short(podFeed)'
<1>1. podFeed' = Published(podFeed, a, pod) /\ Room(podFeed, a)
    BY DEF WritePod
<1>2. podFeed \in Feeds(PodObjects \cup {Absent}) /\ Short(podFeed)
    BY DEF TypeOK
<1>3. Published(podFeed, a, pod) \in Feeds(PodObjects \cup {Absent})
      /\ Short(Published(podFeed, a, pod))
    BY <1>1, <1>2, PublishedType
<1>4. QED
    BY <1>1, <1>3 DEF WritePod, TypeOK, Short

LEMMA DeletePodType ==
    ASSUME TypeOK, NEW a \in Artifacts, DeletePod(a)
    PROVE  /\ pods' \in [Artifacts -> PodObjects \cup {Absent}]
           /\ podFeed' \in Feeds(PodObjects \cup {Absent}) /\ Short(podFeed)'
<1>1. CASE pods[a].deleting
    BY <1>1 DEF DeletePod, podVars, TypeOK, Short
<1>2. CASE ~pods[a].deleting
    <2>1. [pods[a] EXCEPT !.deleting = TRUE] \in PodObjects
        <3>1. pods[a] \in PodObjects
            BY DEF DeletePod, TypeOK
        <3>2. QED
            BY <3>1 DEF PodObjects
    <2>2. QED
        BY <1>2, <2>1, WritePodType DEF DeletePod
<1>3. QED
    BY <1>1, <1>2

(* A call that fails, or any other event, uses up its budget. *)
LEMMA HappensType ==
    ASSUME TypeOK, NEW event \in Events, Happens(event)
    PROVE  /\ budget' \in [Events -> Nat]
           /\ \A e \in Events : budget'[e] <= Bounds[e]
<1>1. budget[event] \in Nat /\ budget[event] > 0 /\ budget[event] <= Bounds[event]
    BY DEF Happens, TypeOK
<1>2. \A e \in Events : budget[e] \in Nat /\ Bounds[e] \in Nat /\ budget[e] <= Bounds[e]
    BY BoundsAssumption DEF TypeOK
<1>3. budget \in [Events -> Nat] /\ budget' = [budget EXCEPT ![event] = @ - 1]
    BY DEF Happens, TypeOK
<1>4. QED
    BY <1>1, <1>2, <1>3

LEMMA CallType ==
    ASSUME TypeOK, CallAnswers \/ CallFails
    PROVE  /\ budget' \in [Events -> Nat]
           /\ \A e \in Events : budget'[e] <= Bounds[e]
BY HappensType DEF CallAnswers, CallFails, TypeOK, Events

(* The ends of a turn of Reconcile. *)
LEMMA TurnType ==
    ASSUME TypeOK, NEW o \in Operators, worker[o].pc \notin {"down", "idle"},
           \/ Requeue(o) \/ Done(o)
           \/ GoTo(o, "create") \/ GoTo(o, "delete")
           \/ GoTo(o, "metrics") \/ GoTo(o, "phases")
    PROVE  /\ queue' \in [Operators -> SUBSET Artifacts]
           /\ worker' \in [Operators -> [pc : PCs, key : Artifacts \cup {NoKey},
                                          artifact : ArtifactObjects \cup {Absent}]]
           /\ \A p \in Operators : worker'[p].pc \notin {"down", "idle"} =>
                 worker'[p].key \in Artifacts /\ worker'[p].artifact \in ArtifactObjects
<1>0. /\ queue \in [Operators -> SUBSET Artifacts]
      /\ worker \in [Operators -> [pc : PCs, key : Artifacts \cup {NoKey},
                                   artifact : ArtifactObjects \cup {Absent}]]
      /\ \A p \in Operators : worker[p].pc \notin {"down", "idle"} =>
            worker[p].key \in Artifacts /\ worker[p].artifact \in ArtifactObjects
    BY DEF TypeOK
<1>. USE DEF PCs
<1>1. Worker("idle") \in [pc : PCs, key : Artifacts \cup {NoKey},
                          artifact : ArtifactObjects \cup {Absent}]
    BY DEF Worker
<1>2. CASE Requeue(o) BY <1>0, <1>1, <1>2 DEF Requeue, Enqueue, Worker
<1>3. CASE Done(o) BY <1>0, <1>1, <1>3 DEF Done, Worker
<1>4. CASE GoTo(o, "create") BY <1>0, <1>4 DEF GoTo
<1>5. CASE GoTo(o, "delete") BY <1>0, <1>5 DEF GoTo
<1>6. CASE GoTo(o, "metrics") BY <1>0, <1>6 DEF GoTo
<1>7. CASE GoTo(o, "phases") BY <1>0, <1>7 DEF GoTo
<1>8. QED BY <1>2, <1>3, <1>4, <1>5, <1>6, <1>7

LEMMA DeliverArtifactType ==
    ASSUME TypeOK, NEW o \in Operators, NEW a \in Artifacts, DeliverArtifact(o, a)
    PROVE  /\ artifactFeed' \in Feeds(ArtifactObjects \cup {Absent}) /\ Short(artifactFeed)'
           /\ Head(artifactFeed[o][a]) \in ArtifactObjects \cup {Absent}
<1>1. artifactFeed \in Feeds(ArtifactObjects \cup {Absent}) /\ Short(artifactFeed)
    BY DEF TypeOK
<1>2. artifactFeed[o][a] # <<>> /\ artifactFeed' = [artifactFeed EXCEPT ![o][a] = Tail(@)]
    BY DEF DeliverArtifact
<1>3. /\ [artifactFeed EXCEPT ![o][a] = Tail(@)] \in Feeds(ArtifactObjects \cup {Absent})
      /\ Short([artifactFeed EXCEPT ![o][a] = Tail(@)])
      /\ Head(artifactFeed[o][a]) \in ArtifactObjects \cup {Absent}
    BY <1>1, <1>2, DeliveredType
<1>4. QED
    BY <1>2, <1>3 DEF Short

LEMMA DeliverPodType ==
    ASSUME TypeOK, NEW o \in Operators, NEW a \in Artifacts, DeliverPod(o, a)
    PROVE  /\ podFeed' \in Feeds(PodObjects \cup {Absent}) /\ Short(podFeed)'
           /\ Head(podFeed[o][a]) \in PodObjects \cup {Absent}
<1>1. podFeed \in Feeds(PodObjects \cup {Absent}) /\ Short(podFeed)
    BY DEF TypeOK
<1>2. podFeed[o][a] # <<>> /\ podFeed' = [podFeed EXCEPT ![o][a] = Tail(@)]
    BY DEF DeliverPod
<1>3. /\ [podFeed EXCEPT ![o][a] = Tail(@)] \in Feeds(PodObjects \cup {Absent})
      /\ Short([podFeed EXCEPT ![o][a] = Tail(@)])
      /\ Head(podFeed[o][a]) \in PodObjects \cup {Absent}
    BY <1>1, <1>2, DeliveredType
<1>4. QED
    BY <1>2, <1>3 DEF Short

-----------------------------------------------------------------------------
LEMMA TypeInit == Init => TypeOK
<1>1. SUFFICES ASSUME Init PROVE TypeOK
    OBVIOUS
<1>2. ASSUME NEW S PROVE [o \in Operators |-> [a \in Artifacts |-> <<>>]] \in Feeds(S)
    BY DEF Feeds
<1>3. /\ artifactFeed \in Feeds(ArtifactObjects \cup {Absent})
      /\ podFeed \in Feeds(PodObjects \cup {Absent})
    BY <1>1, <1>2 DEF Init
<1>4. Short(artifactFeed) /\ Short(podFeed)
    BY <1>1, LagAssumption DEF Init, Short
<1>5. Zero \in Gauges /\ NotCounting \in Counts
    BY DEF Zero, NotCounting, NoPhases, Gauges, Counts
<1>6. QED
    BY <1>1, <1>3, <1>4, <1>5, BoundsAssumption DEF Init, TypeOK, Nothing, Worker, PCs

LEMMA TypeStep == TypeOK /\ [Next]_vars => TypeOK'
<1>. SUFFICES ASSUME TypeOK, [Next]_vars PROVE TypeOK'
    OBVIOUS
<1>. USE DEF TypeOK, Short
<1>1. ASSUME NEW o \in Operators, NEW a \in Artifacts, DeliverArtifact(o, a) PROVE TypeOK'
    <2>1. /\ artifactFeed' \in Feeds(ArtifactObjects \cup {Absent}) /\ Short(artifactFeed)'
          /\ Head(artifactFeed[o][a]) \in ArtifactObjects \cup {Absent}
        BY <1>1, DeliverArtifactType
    <2>2. artifactCache' \in [Operators -> [Artifacts -> ArtifactObjects \cup {Absent}]]
        BY <1>1, <2>1 DEF DeliverArtifact
    <2>3. QED
        BY <1>1, <2>1, <2>2 DEF DeliverArtifact, Enqueue, podVars
<1>2. ASSUME NEW o \in Operators, NEW a \in Artifacts, DeliverPod(o, a) PROVE TypeOK'
    <2>1. /\ podFeed' \in Feeds(PodObjects \cup {Absent}) /\ Short(podFeed)'
          /\ Head(podFeed[o][a]) \in PodObjects \cup {Absent}
        BY <1>2, DeliverPodType
    <2>2. podCache' \in [Operators -> [Artifacts -> PodObjects \cup {Absent}]]
        BY <1>2, <2>1 DEF DeliverPod
    <2>3. QED
        BY <1>2, <2>1, <2>2 DEF DeliverPod, Enqueue, artifactVars
<1>3. ASSUME NEW o \in Operators, NEW a \in Artifacts, GetArtifact(o, a) PROVE TypeOK'
    <2>1. /\ budget' \in [Events -> Nat]
          /\ \A e \in Events : budget'[e] <= Bounds[e]
        BY <1>3, CallType DEF GetArtifact
    <2>2. CASE UNCHANGED <<queue, worker>>
        BY <1>3, <2>1, <2>2 DEF GetArtifact, artifactVars, podVars, cacheVars
    <2>3. CASE queue' = [queue EXCEPT ![o] = @ \ {a}] /\ UNCHANGED worker
        BY <1>3, <2>1, <2>3 DEF GetArtifact, artifactVars, podVars, cacheVars
    <2>4. CASE /\ queue' = [queue EXCEPT ![o] = @ \ {a}]
               /\ artifactCache[o][a] # Absent
               /\ worker' = [worker EXCEPT ![o] =
                    [pc |-> "getPod", key |-> a, artifact |-> artifactCache[o][a]]]
        <3>1. artifactCache[o][a] \in ArtifactObjects
            BY <2>4
        <3>2. QED
            BY <1>3, <2>1, <2>4, <3>1 DEF GetArtifact, artifactVars, podVars, cacheVars, PCs
    <2>5. QED
        BY <1>3, <2>2, <2>3, <2>4 DEF GetArtifact
<1>4. ASSUME NEW o \in Operators, GetPod(o) PROVE TypeOK'
    <2>1. CallAnswers \/ CallFails
        BY <1>4 DEF GetPod
    <2>2. Requeue(o) \/ GoTo(o, "create") \/ GoTo(o, "delete") \/ GoTo(o, "metrics")
        BY <1>4 DEF GetPod
    <2>3. worker[o].pc \notin {"down", "idle"}
        BY <1>4 DEF GetPod
    <2>4. QED
        BY <1>4, <2>1, <2>2, <2>3, CallType, TurnType
        DEF GetPod, artifactVars, podVars, cacheVars
<1>5. ASSUME NEW o \in Operators, Create(o) PROVE TypeOK'
    <2>1. /\ CallAnswers \/ CallFails
          /\ Requeue(o) \/ GoTo(o, "metrics")
          /\ worker[o].pc \notin {"down", "idle"}
        BY <1>5 DEF Create
    <2>2. worker[o].key \in Artifacts /\ worker[o].artifact \in ArtifactObjects
        BY <2>1
    <2>3. WatcherPod(o, worker[o].artifact) \in PodObjects
        BY <2>2 DEF WatcherPod, PodObjects, ArtifactObjects, Phases
    <2>4. /\ pods' \in [Artifacts -> PodObjects \cup {Absent}]
          /\ podFeed' \in Feeds(PodObjects \cup {Absent}) /\ Short(podFeed)'
        BY <1>5, <2>2, <2>3, WritePodType DEF Create, podVars
    <2>5. QED
        BY <1>5, <2>1, <2>4, CallType, TurnType DEF Create, artifactVars, cacheVars
<1>6. ASSUME NEW o \in Operators, Delete(o) PROVE TypeOK'
    <2>1. /\ CallAnswers \/ CallFails
          /\ Requeue(o)
          /\ worker[o].pc \notin {"down", "idle"}
        BY <1>6 DEF Delete
    <2>2. /\ pods' \in [Artifacts -> PodObjects \cup {Absent}]
          /\ podFeed' \in Feeds(PodObjects \cup {Absent}) /\ Short(podFeed)'
        BY <1>6, <2>1, DeletePodType DEF Delete, podVars
    <2>3. QED
        BY <1>6, <2>1, <2>2, CallType, TurnType DEF Delete, artifactVars, cacheVars
<1>7. ASSUME NEW o \in Operators, UpdateMetrics(o) PROVE TypeOK'
    <2>1. /\ worker[o].pc \in {"metrics", "phases"}
          /\ Done(o) \/ GoTo(o, "phases")
          /\ CallAnswers \/ CallFails
          /\ UNCHANGED <<artifactVars, podVars, cacheVars>>
        BY <1>7, CountTurn
    <2>2. metrics' \in [Operators -> Gauges] /\ count' \in [Operators -> Counts]
        BY <1>7, CountType
    <2>3. worker[o].pc \notin {"down", "idle"}
        BY <2>1
    <2>4. QED
        BY <2>1, <2>2, <2>3, CallType, TurnType DEF artifactVars, podVars, cacheVars
<1>8. ASSUME NEW o \in Operators, Start(o) PROVE TypeOK'
    BY <1>8 DEF Start, apiVars, Worker, PCs
<1>9. ASSUME NEW o \in Operators, Stop(o) PROVE TypeOK'
    <2>1. /\ budget' \in [Events -> Nat]
          /\ \A e \in Events : budget'[e] <= Bounds[e]
        BY <1>9, HappensType DEF Stop, Events
    <2>2. /\ artifactFeed' \in Feeds(ArtifactObjects \cup {Absent}) /\ Short(artifactFeed)'
          /\ podFeed' \in Feeds(PodObjects \cup {Absent}) /\ Short(podFeed)'
        BY <1>9, DroppedType DEF Stop
    <2>3. Zero \in Gauges /\ NotCounting \in Counts
        BY DEF Zero, NotCounting, NoPhases, Gauges, Counts
    <2>4. QED
        BY <1>9, <2>1, <2>2, <2>3 DEF Stop, apiVars, Worker, PCs, Nothing
<1>10. CASE UserApplies
    <2>1. PICK a \in Artifacts, config \in Configs :
            LET now == 1 + Bounds["apply"] - budget["apply"]
            IN  WriteArtifact(a, [config |-> config, generation |-> now,
                    uid |-> IF artifacts[a] = Absent THEN now ELSE artifacts[a].uid])
        BY <1>10 DEF UserApplies
    <2>. DEFINE now == 1 + Bounds["apply"] - budget["apply"]
                artifact == [config |-> config, generation |-> now,
                             uid |-> IF artifacts[a] = Absent THEN now ELSE artifacts[a].uid]
    <2>2. now \in Nat
        BY BoundsAssumption DEF Events
    <2>3. artifact \in ArtifactObjects
        BY <2>2 DEF ArtifactObjects
    <2>4. /\ artifacts' \in [Artifacts -> ArtifactObjects \cup {Absent}]
          /\ artifactFeed' \in Feeds(ArtifactObjects \cup {Absent}) /\ Short(artifactFeed)'
        BY <2>1, <2>3, WriteArtifactType
    <2>5. QED
        BY <1>10, <2>4, HappensType DEF UserApplies, Events, podVars, cacheVars
<1>11. CASE UserRemoves
    <2>1. /\ artifacts' \in [Artifacts -> ArtifactObjects \cup {Absent}]
          /\ artifactFeed' \in Feeds(ArtifactObjects \cup {Absent}) /\ Short(artifactFeed)'
        BY <1>11, WriteArtifactType DEF UserRemoves
    <2>2. QED
        BY <1>11, <2>1, HappensType DEF UserRemoves, Events, podVars, cacheVars
<1>12. CASE Disrupt
    BY <1>12, DeletePodType, HappensType DEF Disrupt, Events, artifactVars, cacheVars
<1>13. CASE Evict
    <2>1. PICK a \in Artifacts :
            /\ pods[a] # Absent
            /\ WritePod(a, [pods[a] EXCEPT !.phase = "Failed"])
        BY <1>13 DEF Evict
    <2>2. pods[a] \in PodObjects
        BY <2>1
    <2>3. [pods[a] EXCEPT !.phase = "Failed"] \in PodObjects
        BY <2>2 DEF PodObjects, Phases
    <2>4. QED
        BY <1>13, <2>1, <2>3, WritePodType, HappensType DEF Evict, Events, artifactVars, cacheVars
<1>14. ASSUME NEW a \in Artifacts, Kubelet(a) PROVE TypeOK'
    <2>1. pods[a] \in PodObjects
        BY <1>14 DEF Kubelet
    <2>2. [pods[a] EXCEPT !.phase = "Running"] \in PodObjects
        BY <2>1 DEF PodObjects, Phases
    <2>3. QED
        BY <1>14, <2>2, WritePodType DEF Kubelet, artifactVars, cacheVars
<1>15. ASSUME NEW a \in Artifacts, CollectPod(a) PROVE TypeOK'
    BY <1>15, DeletePodType DEF CollectPod, artifactVars, cacheVars
<1>16. CASE UNCHANGED vars
    BY <1>16 DEF vars, apiVars, cacheVars
<1>17. QED
    BY <1>1, <1>2, <1>3, <1>4, <1>5, <1>6, <1>7, <1>8, <1>9, <1>10, <1>11, <1>12, <1>13,
       <1>14, <1>15, <1>16
    DEF Next, OperatorStep, Reconcile, Environment

(* Type correctness for any number of operators and artifacts: a worker     *)
(* between the calls of Reconcile has the key and the artifact it started   *)
(* with, and no informer is further behind than MaxLag events.              *)
THEOREM TypeCorrect == Spec => []TypeOK
BY TypeInit, TypeStep, PTL DEF Spec

-----------------------------------------------------------------------------
(* One operator alone. *)
Alone == \A o, p \in Operators : o = p

(* A step that does not touch what a conjunct is about. *)
LEMMA ArtifactFrame ==
    ASSUME NEW o \in Operators, NEW a \in Artifacts, ArtifactSeen(o, a),
           artifacts'[a] = artifacts[a],
           artifactFeed'[o][a] = artifactFeed[o][a],
           artifactCache'[o][a] = artifactCache[o][a],
           Runs(o)' = Runs(o),
           Busy(o, a)' => Busy(o, a) /\ worker'[o].artifact = worker[o].artifact,
           pods'[a] # Absent => pods[a] # Absent /\ pods'[a].generation = pods[a].generation
    PROVE  ArtifactSeen(o, a)'
BY DEF ArtifactSeen, Earlier

LEMMA PodOfFrame ==
    ASSUME NEW a \in Artifacts, PodOf(a),
           artifacts'[a] = artifacts[a],
           pods'[a] # Absent =>
              /\ pods[a] # Absent
              /\ pods'[a].config = pods[a].config
              /\ pods'[a].owner = pods[a].owner
              /\ pods'[a].generation = pods[a].generation
    PROVE  PodOf(a)'
BY DEF PodOf

LEMMA PodFrame ==
    ASSUME NEW o \in Operators, NEW a \in Artifacts, PodSeen(o, a),
           pods'[a] = pods[a],
           podFeed'[o][a] = podFeed[o][a],
           podCache'[o][a] = podCache[o][a],
           Runs(o)' = Runs(o),
           Busy(o, a)' => Busy(o, a) /\ worker'[o].artifact = worker[o].artifact
                                     /\ worker'[o].pc = worker[o].pc
    PROVE  PodSeen(o, a)'
BY DEF PodSeen, Busy

(* A pod changes but remains what it was built for. Its deletion begins     *)
(* only after the operator has seen it.                                     *)
LEMMA PodWritten ==
    ASSUME TypeOK, NEW o \in Operators, NEW a \in Artifacts, PodSeen(o, a),
           pods[a] # Absent, pods'[a] # Absent,
           pods'[a].config = pods[a].config,
           ~pods[a].deleting /\ pods'[a].deleting => podCache[o][a] # Absent /\ worker[o].pc # "create",
           Runs(o) => podFeed'[o][a] = Append(podFeed[o][a], pods'[a]),
           ~Runs(o) => podFeed'[o][a] = podFeed[o][a],
           podCache'[o][a] = podCache[o][a],
           Runs(o)' = Runs(o),
           Busy(o, a)' => Busy(o, a) /\ worker'[o].artifact = worker[o].artifact
                                     /\ worker'[o].pc = worker[o].pc
    PROVE  PodSeen(o, a)'
<1>1. podFeed[o][a] \in Seq(PodObjects \cup {Absent})
    BY DEF TypeOK, Feeds
<1>2. CASE ~Runs(o)
    BY <1>1, <1>2 DEF PodSeen, Busy
<1>3. CASE Runs(o)
    <2>. DEFINE feed == podFeed[o][a]
    <2>1. /\ Len(feed') = Len(feed) + 1 /\ Len(feed) \in Nat
          /\ feed'[Len(feed')] = pods'[a]
          /\ \A i \in 1..Len(feed) : feed'[i] = feed[i]
          /\ feed' # <<>>
        BY <1>1, <1>3
    <2>2. \A i \in 1..Len(feed) : feed[i] # Absent
        BY <1>1, <1>3 DEF PodSeen
    <2>3. \A i \in 1..Len(feed') : (i \in 1..Len(feed) \/ i = Len(feed')) /\ feed'[i] # Absent
        <3>1. ASSUME NEW i \in 1..Len(feed') PROVE i \in 1..Len(feed) \/ i = Len(feed')
            <4>. HIDE DEF feed
            <4>1. QED
                BY <2>1
        <3>2. QED
            BY <3>1, <2>1, <2>2
    <2>4. podCache[o][a] = Absent => feed # <<>> /\ ~pods[a].deleting
        BY <1>3 DEF PodSeen
    <2>5. podCache[o][a] = Absent => ~pods'[a].deleting
        BY <2>4
    <2>6. ASSUME NEW i \in 1..Len(feed'), feed'[i] # Absent
          PROVE  feed'[i].config = pods'[a].config
        <3>1. \A j \in 1..Len(feed) : feed[j].config = pods[a].config
            BY <2>2 DEF PodSeen
        <3>2. CASE i \in 1..Len(feed)
            BY <2>1, <3>1, <3>2
        <3>3. CASE i = Len(feed')
            BY <2>1, <3>3
        <3>4. QED
            BY <2>3, <3>2, <3>3
    <2>7. Busy(o, a) /\ worker[o].pc = "create" => ~pods'[a].deleting
        BY <2>4 DEF PodSeen
    <2>8. Busy(o, a) /\ worker[o].pc = "delete" =>
            podCache[o][a] # Absent /\ pods'[a].config # worker[o].artifact.config
        BY <2>4 DEF PodSeen
    <2>. HIDE DEF feed
    <2>9. QED
        BY <1>3, <2>1, <2>3, <2>5, <2>6, <2>7, <2>8 DEF PodSeen, Busy, feed
<1>4. QED
    BY <1>2, <1>3

(* The kubelet removes a pod that is being deleted. *)
LEMMA PodRemoved ==
    ASSUME TypeOK, NEW o \in Operators, NEW a \in Artifacts, PodSeen(o, a),
           pods[a] # Absent, pods[a].deleting, pods'[a] = Absent,
           Runs(o) => podFeed'[o][a] = Append(podFeed[o][a], Absent),
           ~Runs(o) => podFeed'[o][a] = podFeed[o][a],
           podCache'[o][a] = podCache[o][a],
           worker'[o] = worker[o]
    PROVE  PodSeen(o, a)'
<1>1. podFeed[o][a] \in Seq(PodObjects \cup {Absent})
    BY DEF TypeOK, Feeds
<1>2. CASE ~Runs(o)
    BY <1>1, <1>2 DEF PodSeen, Busy
<1>3. CASE Runs(o)
    <2>. DEFINE feed == podFeed[o][a]
    <2>1. /\ Len(feed') = Len(feed) + 1 /\ Len(feed) \in Nat
          /\ feed'[Len(feed')] = Absent
          /\ \A i \in 1..Len(feed) : feed'[i] = feed[i]
          /\ feed' # <<>>
        BY <1>1, <1>3
    <2>2. \A i \in 1..Len(feed) : feed[i] # Absent
        BY <1>1, <1>3 DEF PodSeen
    <2>3. podCache[o][a] # Absent
        BY <1>3 DEF PodSeen
    <2>4. ~(Busy(o, a) /\ worker[o].pc = "create")
        BY <2>3 DEF PodSeen
    <2>5. ASSUME NEW i \in 1..Len(feed'), feed'[i] = Absent PROVE i = Len(feed')
        <3>1. i \in 1..Len(feed) \/ i = Len(feed')
            <4>. HIDE DEF feed
            <4>1. QED
                BY <2>1
        <3>2. QED
            BY <3>1, <2>1, <2>2, <2>5
    <2>. HIDE DEF feed
    <2>6. QED
        BY <1>3, <2>1, <2>3, <2>4, <2>5 DEF PodSeen, Busy, feed
<1>4. QED
    BY <1>2, <1>3

(* Reconcile creates a pod only when it has seen the end of the last one.   *)
LEMMA PodCreated ==
    ASSUME TypeOK, NEW o \in Operators, NEW a \in Artifacts, PodSeen(o, a),
           Busy(o, a), worker[o].pc = "create", pods[a] = Absent,
           pods'[a] \in PodObjects, ~pods'[a].deleting,
           podFeed'[o][a] = Append(podFeed[o][a], pods'[a]),
           podCache'[o][a] = podCache[o][a],
           worker'[o].pc = "metrics"
    PROVE  PodSeen(o, a)'
<1>1. podCache[o][a] = Absent /\ podFeed[o][a] = <<>>
    BY DEF PodSeen
<1>2. pods'[a] # Absent
    BY AbsentAssumption
<1>3. podFeed'[o][a] = <<pods'[a]>>
    BY <1>1
<1>4. QED
    BY <1>1, <1>2, <1>3 DEF PodSeen, Busy

LEMMA TailFacts ==
    ASSUME NEW S, NEW s \in Seq(S), s # <<>>
    PROVE  /\ Len(s) \in Nat /\ Len(Tail(s)) = Len(s) - 1
           /\ 1 \in 1..Len(s) /\ Head(s) = s[1]
           /\ \A i \in 1..Len(Tail(s)) : i + 1 \in 1..Len(s) /\ Tail(s)[i] = s[i + 1]
           /\ Tail(s) = <<>> <=> Len(s) = 1
<1>1. Len(s) \in Nat /\ Len(s) > 0 /\ Len(Tail(s)) = Len(s) - 1
    OBVIOUS
<1>2. 1 \in 1..Len(s) /\ Head(s) = s[1]
    BY <1>1
<1>3. ASSUME NEW i \in 1..Len(Tail(s)) PROVE i + 1 \in 1..Len(s) /\ Tail(s)[i] = s[i + 1]
    BY <1>1
<1>4. Tail(s) = <<>> <=> Len(s) = 1
    <2>1. Tail(s) \in Seq(S) /\ Len(<<>>) = 0
        BY HeadTailProperties, EmptySeq
    <2>2. Tail(s) # <<>> => Len(Tail(s)) > 0
        BY <2>1, EmptySeq
    <2>3. QED
        BY <1>1, <2>1, <2>2
<1>5. QED
    BY <1>1, <1>2, <1>3, <1>4

LEMMA PodDelivered ==
    ASSUME TypeOK, NEW o \in Operators, NEW a \in Artifacts, PodSeen(o, a),
           Runs(o), podFeed[o][a] # <<>>,
           pods'[a] = pods[a],
           podFeed'[o][a] = Tail(podFeed[o][a]),
           podCache'[o][a] = Head(podFeed[o][a]),
           worker'[o] = worker[o]
    PROVE  PodSeen(o, a)'
<1>. DEFINE feed == podFeed[o][a]
<1>1. feed \in Seq(PodObjects \cup {Absent})
    BY DEF TypeOK, Feeds
<1>2. /\ Len(feed) \in Nat /\ Len(feed') = Len(feed) - 1
      /\ 1 \in 1..Len(feed) /\ podCache'[o][a] = feed[1]
      /\ \A i \in 1..Len(feed') : i + 1 \in 1..Len(feed) /\ feed'[i] = feed[i + 1]
      /\ feed' = <<>> <=> Len(feed) = 1
    BY <1>1, TailFacts
<1>3. feed[1] = Absent => feed' = <<>>
    BY <1>2 DEF PodSeen
<1>4. ASSUME NEW i \in 1..Len(feed'), feed'[i] = Absent
      PROVE  feed[1] # Absent /\ i = Len(feed')
    <2>1. i + 1 = Len(feed)
        BY <1>2, <1>4 DEF PodSeen
    <2>2. feed' # <<>>
        BY <1>2, <2>1
    <2>3. QED
        BY <1>2, <1>3, <2>1, <2>2
<1>5. pods[a] = IF feed' = <<>> THEN feed[1] ELSE feed'[Len(feed')]
    <2>1. pods[a] = feed[Len(feed)]
        BY DEF PodSeen
    <2>2. CASE feed' = <<>>
        BY <1>2, <2>1, <2>2
    <2>3. CASE feed' # <<>>
        <3>1. Len(feed') \in 1..Len(feed') /\ Len(feed') + 1 = Len(feed)
            <4>. HIDE DEF feed
            <4>1. QED
                BY <1>2, <2>3
        <3>2. QED
            BY <1>2, <2>1, <2>3, <3>1
    <2>4. QED
        BY <2>2, <2>3
<1>6. /\ pods[a] = feed[Len(feed)]
      /\ pods[a] # Absent => \A i \in 1..Len(feed) : feed[i] # Absent => feed[i].config = pods[a].config
      /\ Busy(o, a) /\ worker[o].pc = "create" => pods[a] # Absent /\ ~pods[a].deleting
      /\ Busy(o, a) /\ worker[o].pc = "delete" =>
           (pods[a] # Absent => pods[a].config # worker[o].artifact.config)
    BY DEF PodSeen
<1>7. pods[a] # Absent =>
        \A i \in 1..Len(feed') : feed'[i] # Absent => feed'[i].config = pods[a].config
    BY <1>2, <1>6
<1>. HIDE DEF feed
<1>8. QED
    BY <1>2, <1>3, <1>4, <1>5, <1>6, <1>7 DEF PodSeen, Busy, feed

LEMMA ArtifactDelivered ==
    ASSUME TypeOK, NEW o \in Operators, NEW a \in Artifacts, ArtifactSeen(o, a),
           Runs(o), artifactFeed[o][a] # <<>>,
           artifacts'[a] = artifacts[a], pods'[a] = pods[a],
           artifactFeed'[o][a] = Tail(artifactFeed[o][a]),
           artifactCache'[o][a] = Head(artifactFeed[o][a]),
           worker'[o] = worker[o]
    PROVE  ArtifactSeen(o, a)'
<1>. DEFINE feed == artifactFeed[o][a]
            cached == artifactCache[o][a]
<1>1. feed \in Seq(ArtifactObjects \cup {Absent})
    BY DEF TypeOK, Feeds
<1>2. /\ Len(feed) \in Nat /\ Len(feed') = Len(feed) - 1
      /\ 1 \in 1..Len(feed) /\ cached' = feed[1]
      /\ \A i \in 1..Len(feed') : i + 1 \in 1..Len(feed) /\ feed'[i] = feed[i + 1]
    BY <1>1, TailFacts
<1>3. /\ cached' # Absent /\ artifacts[a] # Absent /\ Earlier(a, cached')
      /\ \A i \in 1..Len(feed) : feed[1].generation <= feed[i].generation
      /\ cached # Absent => cached.generation <= cached'.generation
    BY <1>2 DEF ArtifactSeen
<1>4. \A i \in 1..Len(feed') :
          /\ feed'[i] # Absent /\ Earlier(a, feed'[i])
          /\ cached'.generation <= feed'[i].generation
    BY <1>2, <1>3 DEF ArtifactSeen
<1>5. ASSUME NEW i \in 1..Len(feed'), NEW j \in i..Len(feed')
      PROVE  feed'[i].generation <= feed'[j].generation
    <2>1. j \in 1..Len(feed') /\ j + 1 \in (i + 1)..Len(feed)
        BY <1>2
    <2>2. feed'[i] = feed[i + 1] /\ feed'[j] = feed[j + 1] /\ i + 1 \in 1..Len(feed)
        BY <1>2, <2>1
    <2>3. QED
        BY <2>1, <2>2 DEF ArtifactSeen
<1>6. cached # Absent =>
        /\ cached \in ArtifactObjects /\ cached' \in ArtifactObjects
        /\ cached.generation \in Nat /\ cached'.generation \in Nat
    BY <1>1, <1>2, <1>3 DEF TypeOK, ArtifactObjects
<1>7. Busy(o, a) =>
        /\ cached # Absent
        /\ worker[o].artifact.generation \in Nat
        /\ worker[o].artifact.generation <= cached.generation
    BY DEF ArtifactSeen, TypeOK, ArtifactObjects, Busy
<1>8. Busy(o, a) => worker[o].artifact.generation <= cached'.generation
    <2>. HIDE DEF cached
    <2>1. QED
        BY <1>3, <1>6, <1>7
<1>9. pods[a] # Absent => cached # Absent /\ pods[a].generation <= cached.generation
                           /\ pods[a].generation \in Nat
    BY DEF ArtifactSeen, TypeOK, PodObjects
<1>10. pods[a] # Absent => pods[a].generation <= cached'.generation
    <2>. HIDE DEF cached
    <2>1. QED
        BY <1>3, <1>6, <1>9
<1>. HIDE DEF feed, cached
<1>11. QED
    BY <1>3, <1>4, <1>5, <1>8, <1>10 DEF ArtifactSeen, Busy, Earlier, feed, cached

(* A user applies an artifact. *)
LEMMA ArtifactApplied ==
    ASSUME TypeOK, NEW o \in Operators, NEW a \in Artifacts, ArtifactSeen(o, a),
           artifacts'[a] \in ArtifactObjects,
           artifacts[a] # Absent =>
              /\ artifacts'[a].uid = artifacts[a].uid
              /\ artifacts[a].generation < artifacts'[a].generation,
           Runs(o) => artifactFeed'[o][a] = Append(artifactFeed[o][a], artifacts'[a]),
           ~Runs(o) => artifactFeed'[o][a] = artifactFeed[o][a],
           artifactCache'[o][a] = artifactCache[o][a],
           worker'[o] = worker[o], pods'[a] = pods[a]
    PROVE  ArtifactSeen(o, a)'
<1>. DEFINE feed == artifactFeed[o][a]
            cached == artifactCache[o][a]
            new == artifacts'[a]
<1>1. feed \in Seq(ArtifactObjects \cup {Absent}) /\ new # Absent
    BY AbsentAssumption DEF TypeOK, Feeds
<1>2. /\ new.generation \in Nat
      /\ artifacts[a] # Absent => artifacts[a].generation \in Nat
      /\ cached # Absent => cached.generation \in Nat
      /\ \A i \in 1..Len(feed) : feed[i] # Absent => feed[i].generation \in Nat
      /\ Busy(o, a) => worker[o].artifact.generation \in Nat
    BY <1>1 DEF TypeOK, ArtifactObjects, Busy
<1>3. ASSUME NEW x, artifacts[a] # Absent, Earlier(a, x), x.generation \in Nat
      PROVE  /\ x.uid = new.uid /\ x.generation < new.generation
    BY <1>2, <1>3 DEF Earlier
<1>4. /\ cached # Absent => cached.uid = new.uid /\ cached.generation < new.generation
      /\ Busy(o, a) => /\ worker[o].artifact.uid = new.uid
                       /\ worker[o].artifact.generation < new.generation
      /\ \A i \in 1..Len(feed) :
            feed[i].uid = new.uid /\ feed[i].generation < new.generation
    BY <1>2, <1>3 DEF ArtifactSeen
<1>5. CASE ~Runs(o)
    BY <1>1, <1>2, <1>4, <1>5 DEF ArtifactSeen, Busy, Earlier
<1>6. CASE Runs(o)
    <2>1. /\ Len(feed') = Len(feed) + 1 /\ Len(feed) \in Nat
          /\ feed'[Len(feed')] = new
          /\ \A i \in 1..Len(feed) : feed'[i] = feed[i]
        BY <1>1, <1>6
    <2>2. \A i \in 1..Len(feed') : i \in 1..Len(feed) \/ i = Len(feed')
        <3>. HIDE DEF feed
        <3>1. QED
            BY <2>1
    <2>3. ASSUME NEW i \in 1..Len(feed')
          PROVE  /\ feed'[i] # Absent /\ feed'[i].uid = new.uid
                 /\ feed'[i].generation <= new.generation /\ feed'[i].generation \in Nat
                 /\ feed'[i].generation = new.generation => feed'[i].config = new.config
                 /\ cached # Absent => cached.generation <= feed'[i].generation
        <3>1. CASE i \in 1..Len(feed)
            <4>1. feed'[i] = feed[i] /\ feed[i] # Absent /\ feed[i].generation \in Nat
                  /\ (cached # Absent => cached.generation <= feed[i].generation)
                BY <1>2, <2>1, <3>1 DEF ArtifactSeen
            <4>2. feed[i].uid = new.uid /\ feed[i].generation < new.generation
                BY <1>4, <3>1
            <4>. HIDE DEF feed, cached, new
            <4>3. QED
                BY <1>2, <4>1, <4>2
        <3>2. CASE i = Len(feed')
            <4>1. feed'[i] = new /\ new # Absent
                BY <1>1, <2>1, <3>2
            <4>. HIDE DEF feed, cached, new
            <4>2. QED
                BY <1>2, <1>4, <4>1
        <3>3. QED
            BY <2>2, <3>1, <3>2
    <2>4. ASSUME NEW i \in 1..Len(feed'), NEW j \in i..Len(feed')
          PROVE  feed'[i].generation <= feed'[j].generation
        <3>1. j \in 1..Len(feed')
            BY <2>1
        <3>2. CASE j = Len(feed')
            BY <2>1, <2>3, <3>2
        <3>3. CASE j \in 1..Len(feed)
            <4>1. i \in 1..Len(feed) /\ j \in i..Len(feed)
                BY <2>1, <3>3
            <4>2. QED
                BY <2>1, <3>3, <4>1 DEF ArtifactSeen
        <3>4. QED
            BY <2>2, <3>1, <3>2, <3>3
    <2>. HIDE DEF feed
    <2>5. QED
        BY <1>1, <1>2, <1>4, <1>6, <2>3, <2>4 DEF ArtifactSeen, Busy, Earlier, feed
<1>7. QED
    BY <1>5, <1>6

-----------------------------------------------------------------------------
(* Events are used up and never come back. *)
LEMMA BudgetFalls ==
    ASSUME TypeOK, [Next]_vars
    PROVE  UNCHANGED budget \/ \E event \in Events : Happens(event)
<1>. USE DEF Events, CallFails, CallAnswers
<1>1. ASSUME NEW o \in Operators, OperatorStep(o)
      PROVE  UNCHANGED budget \/ \E event \in Events : Happens(event)
    BY <1>1 DEF OperatorStep, DeliverArtifact, DeliverPod, GetArtifact, Reconcile, GetPod,
                Create, Delete, UpdateMetrics, ListArtifacts, CountPod, Start, Stop
<1>2. CASE Environment
    BY <1>2 DEF Environment, UserApplies, UserRemoves, Disrupt, Evict, Kubelet, CollectPod
<1>3. CASE UNCHANGED vars
    BY <1>3 DEF vars
<1>4. QED
    BY <1>1, <1>2, <1>3 DEF Next

LEMMA StillNobodyRemoves ==
    ASSUME TypeOK, [Next]_vars, NobodyRemoves'
    PROVE  /\ NobodyRemoves
           /\ ~UserRemoves /\ ~Disrupt
           /\ Applies \in Nat /\ Applies' \in Nat /\ Applies <= Applies'
<1>1. \A e \in Events : /\ budget[e] \in Nat /\ Bounds[e] \in Nat
                        /\ budget[e] <= Bounds[e]
                        /\ budget'[e] \in Nat /\ budget'[e] <= budget[e]
    <2>1. \A e \in Events : budget[e] \in Nat /\ Bounds[e] \in Nat /\ budget[e] <= Bounds[e]
        BY BoundsAssumption DEF TypeOK
    <2>2. CASE UNCHANGED budget
        BY <2>1, <2>2
    <2>3. ASSUME NEW event \in Events, Happens(event)
          PROVE  \A e \in Events : budget'[e] \in Nat /\ budget'[e] <= budget[e]
        <3>1. budget \in [Events -> Nat]
            BY DEF TypeOK
        <3>2. QED
            BY <2>1, <2>3, <3>1 DEF Happens
    <2>4. QED
        BY <2>1, <2>2, <2>3, BudgetFalls
<1>2. "apply" \in Events /\ "remove" \in Events /\ "disrupt" \in Events
    BY DEF Events
<1>3. NobodyRemoves
    BY <1>1, <1>2 DEF NobodyRemoves
<1>4. ASSUME NEW event \in {"remove", "disrupt"} PROVE ~Happens(event)
    <2>1. budget \in [Events -> Nat]
        BY DEF TypeOK
    <2>2. QED
        BY <1>1, <1>2, <1>3, <2>1 DEF Happens, NobodyRemoves
<1>5. QED
    BY <1>1, <1>2, <1>3, <1>4 DEF UserRemoves, Disrupt, Applies

(* Each step of an operator that is alone, and of its environment, keeps an *)
(* artifact's accounts.                                                     *)
LEMMA DeliverArtifactKeeps ==
    ASSUME Alone, TypeOK, NEW a \in Artifacts, Accounted(a), Applies' = Applies,
           NEW o \in Operators, NEW k \in Artifacts, DeliverArtifact(o, k)
    PROVE  Accounted(a)'
<1>. USE DEF DeliverArtifact, podVars, TypeOK, Feeds
<1>1. UNCHANGED <<artifacts, pods, podFeed, podCache, worker>>
    OBVIOUS
<1>2. ArtifactSeen(o, a) /\ PodSeen(o, a) /\ PodOf(a)
    BY DEF Accounted
<1>3. ArtifactSeen(o, a)'
    <2>1. CASE k = a /\ Runs(o)
        BY <1>1, <1>2, <2>1, ArtifactDelivered
    <2>2. CASE k = a /\ ~Runs(o)
        BY <1>2, <2>2 DEF ArtifactSeen
    <2>3. CASE k # a
        BY <1>1, <1>2, <2>3, ArtifactFrame DEF Busy
    <2>4. QED
        BY <2>1, <2>2, <2>3
<1>4. PodSeen(o, a)'
    BY <1>1, <1>2, PodFrame DEF Busy
<1>5. PodOf(a)'
    BY <1>1, <1>2, PodOfFrame
<1>6. QED
    BY <1>1, <1>3, <1>4, <1>5 DEF Alone, Accounted

LEMMA DeliverPodKeeps ==
    ASSUME Alone, TypeOK, NEW a \in Artifacts, Accounted(a), Applies' = Applies,
           NEW o \in Operators, NEW k \in Artifacts, DeliverPod(o, k)
    PROVE  Accounted(a)'
<1>. USE DEF DeliverPod, artifactVars, TypeOK, Feeds
<1>1. UNCHANGED <<artifacts, pods, artifactFeed, artifactCache, worker>>
    OBVIOUS
<1>2. ArtifactSeen(o, a) /\ PodSeen(o, a) /\ PodOf(a)
    BY DEF Accounted
<1>3. PodSeen(o, a)'
    <2>1. CASE k = a /\ Runs(o)
        BY <1>1, <1>2, <2>1, PodDelivered
    <2>2. CASE k = a /\ ~Runs(o)
        BY <1>2, <2>2 DEF PodSeen
    <2>3. CASE k # a
        BY <1>1, <1>2, <2>3, PodFrame DEF Busy
    <2>4. QED
        BY <2>1, <2>2, <2>3
<1>4. ArtifactSeen(o, a)'
    BY <1>1, <1>2, ArtifactFrame DEF Busy
<1>5. PodOf(a)'
    BY <1>1, <1>2, PodOfFrame
<1>6. QED
    BY <1>1, <1>3, <1>4, <1>5 DEF Alone, Accounted

LEMMA GetArtifactKeeps ==
    ASSUME Alone, TypeOK, NEW a \in Artifacts, Accounted(a), Applies <= Applies', Applies \in Nat,
           Applies' \in Nat, NEW o \in Operators, NEW k \in Artifacts, GetArtifact(o, k)
    PROVE  Accounted(a)'
<1>1. UNCHANGED <<artifacts, pods, artifactFeed, podFeed, artifactCache, podCache>>
    BY DEF GetArtifact, artifactVars, podVars, cacheVars
<1>2. ArtifactSeen(o, a) /\ PodSeen(o, a) /\ PodOf(a) /\ worker[o].pc = "idle"
    BY DEF Accounted, GetArtifact
<1>3. CASE UNCHANGED worker \/ k # a
    <2>1. ~Busy(o, a)' /\ Runs(o)' /\ Runs(o)
        BY <1>2, <1>3 DEF GetArtifact, Busy, TypeOK
    <2>2. ArtifactSeen(o, a)' /\ PodSeen(o, a)'
        BY <1>1, <1>2, <2>1, ArtifactFrame, PodFrame
    <2>3. QED
        BY <1>1, <1>2, <2>2, PodOfFrame DEF Alone, Accounted, TypeOK, ArtifactObjects
<1>4. CASE /\ k = a /\ artifactCache[o][a] # Absent
           /\ worker'[o] = [pc |-> "getPod", key |-> a, artifact |-> artifactCache[o][a]]
    <2>1. artifactCache[o][a].generation \in Nat
        BY <1>4 DEF TypeOK, ArtifactObjects
    <2>2. ArtifactSeen(o, a)'
        BY <1>1, <1>2, <1>4, <2>1 DEF ArtifactSeen, Busy, Earlier
    <2>3. PodSeen(o, a)'
        BY <1>1, <1>2, <1>4 DEF PodSeen, Busy
    <2>4. QED
        BY <1>1, <1>2, <2>2, <2>3, PodOfFrame DEF Alone, Accounted, TypeOK, ArtifactObjects
<1>5. QED
    BY <1>3, <1>4 DEF GetArtifact, TypeOK

(* What follows a turn of Reconcile for the key it works on. *)
LEMMA TurnEnds ==
    ASSUME TypeOK, NEW o \in Operators, worker[o].pc \notin {"down", "idle"}
    PROVE  /\ Requeue(o) \/ Done(o) => worker'[o].pc = "idle"
           /\ \A pc \in {"create", "delete", "metrics", "phases"} :
                GoTo(o, pc) => /\ worker'[o].pc = pc /\ worker'[o].key = worker[o].key
                               /\ worker'[o].artifact = worker[o].artifact
BY DEF Requeue, Done, GoTo, Worker, TypeOK

LEMMA GetPodKeeps ==
    ASSUME Alone, TypeOK, NEW a \in Artifacts, Accounted(a), Applies <= Applies', Applies \in Nat,
           Applies' \in Nat, NEW o \in Operators, GetPod(o)
    PROVE  Accounted(a)'
<1>1. UNCHANGED <<artifacts, pods, artifactFeed, podFeed, artifactCache, podCache>>
    BY DEF GetPod, artifactVars, podVars, cacheVars
<1>2. ArtifactSeen(o, a) /\ PodSeen(o, a) /\ PodOf(a) /\ worker[o].pc = "getPod"
    BY DEF Accounted, GetPod
<1>3. ArtifactSeen(o, a)' /\ PodSeen(o, a)'
    <2>1. CASE Requeue(o)
        <3>1. ~Busy(o, a)' /\ Runs(o)' /\ Runs(o)
            BY <1>2, <2>1, TurnEnds DEF Busy
        <3>2. QED
            BY <1>1, <1>2, <3>1, ArtifactFrame, PodFrame
    <2>2. CASE /\ podCache[o][worker[o].key] = Absent /\ GoTo(o, "create")
        <3>1. /\ Runs(o)' /\ Runs(o) /\ worker'[o].pc = "create"
              /\ worker'[o].key = worker[o].key /\ worker'[o].artifact = worker[o].artifact
            BY <1>2, <2>2, TurnEnds
        <3>2. ArtifactSeen(o, a)'
            BY <1>1, <1>2, <3>1, ArtifactFrame DEF Busy
        <3>3. PodSeen(o, a)'
            BY <1>1, <1>2, <2>2, <3>1 DEF PodSeen, Busy
        <3>4. QED
            BY <3>2, <3>3
    <2>3. CASE /\ podCache[o][worker[o].key] # Absent /\ GoTo(o, "metrics")
        <3>1. /\ Runs(o)' /\ Runs(o) /\ worker'[o].pc = "metrics"
              /\ worker'[o].key = worker[o].key /\ worker'[o].artifact = worker[o].artifact
            BY <1>2, <2>3, TurnEnds
        <3>2. ArtifactSeen(o, a)'
            BY <1>1, <1>2, <3>1, ArtifactFrame DEF Busy
        <3>3. PodSeen(o, a)'
            BY <1>1, <1>2, <3>1 DEF PodSeen, Busy
        <3>4. QED
            BY <3>2, <3>3
    <2>4. CASE /\ podCache[o][worker[o].key] # Absent /\ GoTo(o, "delete")
               /\ NeedsUpdate(o, podCache[o][worker[o].key], worker[o].artifact)
        <3>1. /\ Runs(o)' /\ Runs(o) /\ worker'[o].pc = "delete"
              /\ worker'[o].key = worker[o].key /\ worker'[o].artifact = worker[o].artifact
            BY <1>2, <2>4, TurnEnds
        <3>2. ArtifactSeen(o, a)'
            BY <1>1, <1>2, <3>1, ArtifactFrame DEF Busy
        <3>3. ASSUME Busy(o, a)' PROVE podCache[o][a].config # worker[o].artifact.config
            <4>1. worker[o].key = a
                BY <3>1, <3>3 DEF Busy
            <4>2. podCache[o][a] \in PodObjects
                BY <2>4, <4>1 DEF TypeOK
            <4>3. podCache[o][a].image = ImageOf[o]
                BY <4>2 DEF PodObjects, Alone
            <4>4. QED
                BY <2>4, <4>1, <4>3 DEF NeedsUpdate
        <3>4. PodSeen(o, a)'
            BY <1>1, <1>2, <2>4, <3>1, <3>3 DEF PodSeen, Busy
        <3>5. QED
            BY <3>2, <3>4
    <2>5. QED
        BY <2>1, <2>2, <2>3, <2>4 DEF GetPod
<1>4. QED
    BY <1>1, <1>2, <1>3, PodOfFrame DEF Alone, Accounted, TypeOK, ArtifactObjects

LEMMA UpdateMetricsKeeps ==
    ASSUME Alone, TypeOK, NEW a \in Artifacts, Accounted(a), Applies <= Applies', Applies \in Nat,
           Applies' \in Nat, NEW o \in Operators, UpdateMetrics(o)
    PROVE  Accounted(a)'
<1>1. UNCHANGED <<artifacts, pods, artifactFeed, podFeed, artifactCache, podCache>>
    BY CountTurn DEF artifactVars, podVars, cacheVars
<1>2. /\ ArtifactSeen(o, a) /\ PodSeen(o, a) /\ PodOf(a)
      /\ worker[o].pc \in {"metrics", "phases"}
      /\ Done(o) \/ GoTo(o, "phases")
    BY CountTurn DEF Accounted
<1>3. ArtifactSeen(o, a)' /\ PodSeen(o, a)'
    <2>1. CASE Done(o)
        <3>1. ~Busy(o, a)' /\ Runs(o)' /\ Runs(o)
            BY <1>2, <2>1, TurnEnds DEF Busy
        <3>2. QED
            BY <1>1, <1>2, <3>1, ArtifactFrame, PodFrame
    <2>2. CASE GoTo(o, "phases")
        <3>1. /\ Runs(o)' /\ Runs(o) /\ worker'[o].pc = "phases"
              /\ worker'[o].key = worker[o].key /\ worker'[o].artifact = worker[o].artifact
            BY <1>2, <2>2, TurnEnds
        <3>2. ArtifactSeen(o, a)'
            BY <1>1, <1>2, <3>1, ArtifactFrame DEF Busy
        <3>3. PodSeen(o, a)'
            BY <1>1, <1>2, <3>1 DEF PodSeen, Busy
        <3>4. QED
            BY <3>2, <3>3
    <2>3. QED
        BY <1>2, <2>1, <2>2
<1>4. QED
    BY <1>1, <1>2, <1>3, PodOfFrame DEF Alone, Accounted, TypeOK, ArtifactObjects

(* What writing a pod does to the feed of the one operator. *)
LEMMA PodPublished ==
    ASSUME TypeOK, NEW o \in Operators, NEW k \in Artifacts, NEW a \in Artifacts, NEW pod,
           WritePod(k, pod)
    PROVE  /\ pods'[a] = IF a = k THEN pod ELSE pods[a]
           /\ podFeed'[o][a] = IF a = k /\ Runs(o) THEN Append(podFeed[o][a], pod)
                                                   ELSE podFeed[o][a]
BY DEF WritePod, Published, TypeOK, Feeds

LEMMA CreateKeeps ==
    ASSUME Alone, TypeOK, NEW a \in Artifacts, Accounted(a), Applies <= Applies', Applies \in Nat,
           Applies' \in Nat, NEW o \in Operators, Create(o)
    PROVE  Accounted(a)'
<1>. DEFINE k == worker[o].key
            pod == WatcherPod(o, worker[o].artifact)
<1>1. UNCHANGED <<artifacts, artifactFeed, artifactCache, podCache>>
    BY DEF Create, artifactVars, cacheVars
<1>2. /\ ArtifactSeen(o, a) /\ PodSeen(o, a) /\ PodOf(a) /\ worker[o].pc = "create"
      /\ k \in Artifacts /\ worker[o].artifact \in ArtifactObjects
    BY DEF Accounted, Create, TypeOK
<1>3. CASE Requeue(o) /\ UNCHANGED podVars
    <2>1. ~Busy(o, a)' /\ Runs(o)' /\ Runs(o)
        BY <1>2, <1>3, TurnEnds DEF Busy
    <2>2. UNCHANGED <<pods, podFeed>>
        BY <1>3 DEF podVars
    <2>3. ArtifactSeen(o, a)' /\ PodSeen(o, a)'
        BY <1>1, <1>2, <2>1, <2>2, ArtifactFrame, PodFrame
    <2>4. QED
        BY <1>1, <1>2, <2>2, <2>3, PodOfFrame DEF Alone, Accounted, TypeOK, ArtifactObjects
<1>4. CASE pods[k] = Absent /\ WritePod(k, pod) /\ GoTo(o, "metrics")
    <2>1. /\ Runs(o)' /\ Runs(o) /\ worker'[o].pc = "metrics"
          /\ worker'[o].key = k /\ worker'[o].artifact = worker[o].artifact
        BY <1>2, <1>4, TurnEnds
    <2>2. /\ pods'[a] = IF a = k THEN pod ELSE pods[a]
          /\ podFeed'[o][a] = IF a = k THEN Append(podFeed[o][a], pod) ELSE podFeed[o][a]
        BY <1>2, <1>4, <2>1, PodPublished
    <2>3. CASE a # k
        <3>1. UNCHANGED pods[a] /\ UNCHANGED podFeed[o][a] /\ ~Busy(o, a)'
            BY <2>1, <2>2, <2>3 DEF Busy
        <3>2. ArtifactSeen(o, a)' /\ PodSeen(o, a)'
            BY <1>1, <1>2, <2>1, <3>1, ArtifactFrame, PodFrame
        <3>3. QED
            BY <1>1, <1>2, <3>1, <3>2, PodOfFrame DEF Alone, Accounted, TypeOK, ArtifactObjects
    <2>4. CASE a = k
        <3>1. Busy(o, a)
            BY <1>2, <2>4 DEF Busy
        <3>2. /\ pod \in PodObjects /\ ~pod.deleting
              /\ pod.owner = worker[o].artifact.uid
              /\ pod.generation = worker[o].artifact.generation
              /\ pod.config = worker[o].artifact.config
              /\ pod.generation \in Nat
            BY <1>2 DEF WatcherPod, PodObjects, ArtifactObjects, Phases
        <3>3. pods[a] = Absent /\ pods'[a] = pod
            BY <1>4, <2>2, <2>4
        <3>. HIDE DEF pod
        <3>4. podFeed'[o][a] = Append(podFeed[o][a], pods'[a])
            BY <2>2, <2>4, <3>3
        <3>5. PodSeen(o, a)'
            BY <1>1, <1>2, <2>1, <3>1, <3>2, <3>3, <3>4, PodCreated
        <3>6. ArtifactSeen(o, a)'
            BY <1>1, <1>2, <2>1, <3>1, <3>2, <3>3 DEF ArtifactSeen, Busy, Earlier
        <3>7. PodOf(a)'
            BY <1>1, <1>2, <3>1, <3>2, <3>3 DEF ArtifactSeen, PodOf, Earlier
        <3>8. QED
            BY <1>1, <3>5, <3>6, <3>7 DEF Alone, Accounted, TypeOK, ArtifactObjects
    <2>5. QED
        BY <2>3, <2>4
<1>5. QED
    BY <1>3, <1>4 DEF Create

(* A write to a pod that leaves what it was built for. *)
LEMMA PodUpdateKeeps ==
    ASSUME TypeOK, NEW a \in Artifacts, Accounted(a), Applies <= Applies', Applies \in Nat,
           Applies' \in Nat, NEW k \in Artifacts, NEW pod \in PodObjects, WritePod(k, pod),
           pods[k] # Absent, pod.config = pods[k].config, pod.owner = pods[k].owner,
           pod.generation = pods[k].generation,
           ~pods[k].deleting /\ pod.deleting =>
              \A o \in Operators : podCache[o][k] # Absent /\ worker[o].pc # "create",
           UNCHANGED <<artifacts, artifactFeed, artifactCache, podCache>>,
           \A o \in Operators :
              /\ Runs(o)' = Runs(o)
              /\ Busy(o, a)' => Busy(o, a) /\ worker'[o].artifact = worker[o].artifact
                                           /\ worker'[o].pc = worker[o].pc
    PROVE  Accounted(a)'
<1>1. pod # Absent
    BY AbsentAssumption
<1>2. ASSUME NEW o \in Operators PROVE ArtifactSeen(o, a)' /\ PodSeen(o, a)'
    <2>1. /\ pods'[a] = IF a = k THEN pod ELSE pods[a]
          /\ podFeed'[o][a] = IF a = k /\ Runs(o) THEN Append(podFeed[o][a], pod)
                                                  ELSE podFeed[o][a]
        BY PodPublished
    <2>2. ArtifactSeen(o, a) /\ PodSeen(o, a)
        BY DEF Accounted
    <2>3. ArtifactSeen(o, a)'
        BY <1>1, <2>1, <2>2, ArtifactFrame
    <2>4. CASE a = k
        <3>1. /\ pods'[a] = pod
              /\ Runs(o) => podFeed'[o][a] = Append(podFeed[o][a], pods'[a])
              /\ ~Runs(o) => podFeed'[o][a] = podFeed[o][a]
            BY <2>1, <2>4
        <3>2. QED
            BY <1>1, <2>2, <2>3, <2>4, <3>1, PodWritten
    <2>5. CASE a # k
        <3>1. pods'[a] = pods[a] /\ podFeed'[o][a] = podFeed[o][a]
            BY <2>1, <2>5
        <3>2. QED
            BY <2>2, <2>3, <3>1, PodFrame
    <2>6. QED
        BY <2>3, <2>4, <2>5
<1>3. PodOf(a)'
    <2>1. pods'[a] = IF a = k THEN pod ELSE pods[a]
        BY DEF WritePod, TypeOK
    <2>2. QED
        BY <1>1, <2>1, PodOfFrame DEF Accounted
<1>4. QED
    BY <1>2, <1>3 DEF Accounted, TypeOK, ArtifactObjects

LEMMA DeleteKeeps ==
    ASSUME Alone, TypeOK, NEW a \in Artifacts, \A b \in Artifacts : Accounted(b),
           Applies <= Applies', Applies \in Nat, Applies' \in Nat, NEW o \in Operators, Delete(o)
    PROVE  Accounted(a)'
<1>. DEFINE k == worker[o].key
<1>1. UNCHANGED <<artifacts, artifactFeed, artifactCache, podCache>>
    BY DEF Delete, artifactVars, cacheVars
<1>2. /\ ArtifactSeen(o, a) /\ PodSeen(o, a) /\ PodOf(a) /\ worker[o].pc = "delete"
      /\ k \in Artifacts
    BY DEF Accounted, Delete, TypeOK
<1>3. ~Busy(o, a)' /\ Runs(o)' /\ Runs(o)
    BY <1>2, TurnEnds DEF Delete, Busy
<1>4. CASE UNCHANGED podVars
    <2>1. UNCHANGED <<pods, podFeed>>
        BY <1>4 DEF podVars
    <2>2. ArtifactSeen(o, a)' /\ PodSeen(o, a)'
        BY <1>1, <1>2, <1>3, <2>1, ArtifactFrame, PodFrame
    <2>3. QED
        BY <1>1, <1>2, <2>1, <2>2, PodOfFrame DEF Alone, Accounted, TypeOK, ArtifactObjects
<1>5. CASE /\ pods[k] # Absent /\ ~pods[k].deleting
           /\ WritePod(k, [pods[k] EXCEPT !.deleting = TRUE])
    <2>1. pods[k] \in PodObjects
        BY <1>2, <1>5 DEF TypeOK
    <2>2. /\ [pods[k] EXCEPT !.deleting = TRUE] \in PodObjects
          /\ [pods[k] EXCEPT !.deleting = TRUE].config = pods[k].config
          /\ [pods[k] EXCEPT !.deleting = TRUE].owner = pods[k].owner
          /\ [pods[k] EXCEPT !.deleting = TRUE].generation = pods[k].generation
        BY <2>1 DEF PodObjects
    <2>3. podCache[o][k] # Absent
        <3>1. PodSeen(o, k) /\ Busy(o, k)
            BY <1>2 DEF Accounted, Busy
        <3>2. QED
            BY <1>2, <1>3, <1>5, <3>1 DEF PodSeen
    <2>4. \A p \in Operators : p = o
        BY DEF Alone
    <2>5. Accounted(a)
        OBVIOUS
    <2>6. /\ \A p \in Operators : podCache[p][k] # Absent /\ worker[p].pc # "create"
          /\ \A p \in Operators :
                /\ Runs(p)' = Runs(p)
                /\ Busy(p, a)' => Busy(p, a) /\ worker'[p].artifact = worker[p].artifact
                                             /\ worker'[p].pc = worker[p].pc
        BY <1>2, <1>3, <2>3, <2>4
    <2>. HIDE DEF k
    <2>7. QED
        BY <1>1, <1>2, <1>5, <2>2, <2>5, <2>6, PodUpdateKeeps
<1>6. QED
    BY <1>4, <1>5 DEF Delete, DeletePod

LEMMA EvictKeeps ==
    ASSUME TypeOK, NEW a \in Artifacts, Accounted(a), Applies <= Applies', Applies \in Nat,
           Applies' \in Nat, Evict
    PROVE  Accounted(a)'
<1>1. UNCHANGED <<artifacts, artifactFeed, artifactCache, podCache, worker>>
    BY DEF Evict, artifactVars, cacheVars
<1>2. PICK k \in Artifacts :
        pods[k] # Absent /\ WritePod(k, [pods[k] EXCEPT !.phase = "Failed"])
    BY DEF Evict
<1>3. /\ [pods[k] EXCEPT !.phase = "Failed"] \in PodObjects
      /\ [pods[k] EXCEPT !.phase = "Failed"].config = pods[k].config
      /\ [pods[k] EXCEPT !.phase = "Failed"].owner = pods[k].owner
      /\ [pods[k] EXCEPT !.phase = "Failed"].generation = pods[k].generation
      /\ [pods[k] EXCEPT !.phase = "Failed"].deleting = pods[k].deleting
    <2>1. pods[k] \in PodObjects
        BY <1>2 DEF TypeOK
    <2>2. QED
        BY <2>1 DEF PodObjects, Phases
<1>4. QED
    BY <1>1, <1>2, <1>3, PodUpdateKeeps DEF Busy

LEMMA KubeletKeeps ==
    ASSUME TypeOK, NEW a \in Artifacts, Accounted(a), Applies <= Applies', Applies \in Nat,
           Applies' \in Nat, NEW k \in Artifacts, Kubelet(k)
    PROVE  Accounted(a)'
<1>1. UNCHANGED <<artifacts, artifactFeed, artifactCache, podCache, worker>> /\ pods[k] # Absent
    BY DEF Kubelet, artifactVars, cacheVars
<1>2. CASE WritePod(k, [pods[k] EXCEPT !.phase = "Running"])
    <2>1. pods[k] \in PodObjects
        BY <1>1 DEF TypeOK
    <2>2. /\ [pods[k] EXCEPT !.phase = "Running"] \in PodObjects
          /\ [pods[k] EXCEPT !.phase = "Running"].config = pods[k].config
          /\ [pods[k] EXCEPT !.phase = "Running"].owner = pods[k].owner
          /\ [pods[k] EXCEPT !.phase = "Running"].generation = pods[k].generation
          /\ [pods[k] EXCEPT !.phase = "Running"].deleting = pods[k].deleting
        BY <2>1 DEF PodObjects, Phases
    <2>3. QED
        BY <1>1, <1>2, <2>2, PodUpdateKeeps DEF Busy
<1>3. CASE pods[k].deleting /\ WritePod(k, Absent)
    <2>1. ASSUME NEW o \in Operators PROVE ArtifactSeen(o, a)' /\ PodSeen(o, a)'
        <3>1. /\ pods'[a] = IF a = k THEN Absent ELSE pods[a]
              /\ podFeed'[o][a] = IF a = k /\ Runs(o) THEN Append(podFeed[o][a], Absent)
                                                      ELSE podFeed[o][a]
            BY <1>3, PodPublished
        <3>2. ArtifactSeen(o, a) /\ PodSeen(o, a)
            BY DEF Accounted
        <3>3. ArtifactSeen(o, a)'
            BY <1>1, <3>1, <3>2, ArtifactFrame DEF Busy
        <3>4. CASE a = k
            <4>1. /\ pods'[a] = Absent
                  /\ Runs(o) => podFeed'[o][a] = Append(podFeed[o][a], Absent)
                  /\ ~Runs(o) => podFeed'[o][a] = podFeed[o][a]
                BY <3>1, <3>4
            <4>2. QED
                BY <1>1, <1>3, <3>2, <3>3, <3>4, <4>1, PodRemoved
        <3>5. CASE a # k
            <4>1. pods'[a] = pods[a] /\ podFeed'[o][a] = podFeed[o][a]
                BY <3>1, <3>5
            <4>2. QED
                BY <1>1, <3>2, <3>3, <4>1, PodFrame DEF Busy
        <3>6. QED
            BY <3>3, <3>4, <3>5
    <2>2. PodOf(a)'
        <3>1. pods'[a] = IF a = k THEN Absent ELSE pods[a]
            BY <1>3 DEF WritePod, TypeOK
        <3>2. QED
            BY <1>1, <3>1, PodOfFrame DEF Accounted
    <2>3. QED
        BY <1>1, <2>1, <2>2 DEF Accounted, TypeOK, ArtifactObjects
<1>4. QED
    BY <1>2, <1>3 DEF Kubelet

(* A pod whose owner lives is not collected. *)
LEMMA CollectPodKeeps ==
    ASSUME NEW k \in Artifacts, Accounted(k) PROVE ~CollectPod(k)
BY DEF Accounted, PodOf, CollectPod

LEMMA StartKeeps ==
    ASSUME Alone, TypeOK, NEW a \in Artifacts, Accounted(a), Applies <= Applies', Applies \in Nat,
           Applies' \in Nat, NEW o \in Operators, Start(o)
    PROVE  Accounted(a)'
<1>1. /\ UNCHANGED <<artifacts, pods, artifactFeed, podFeed>>
      /\ artifactCache'[o] = artifacts /\ podCache'[o] = pods
      /\ ~Runs(o) /\ Runs(o)' /\ ~Busy(o, a)'
    BY DEF Start, apiVars, Worker, Busy, TypeOK
<1>2. ArtifactSeen(o, a) /\ PodSeen(o, a) /\ PodOf(a)
    BY DEF Accounted
<1>3. ArtifactSeen(o, a)'
    <2>1. artifactFeed[o][a] = <<>> /\ Len(<<>>) = 0
        BY <1>1, <1>2 DEF ArtifactSeen
    <2>2. artifacts[a] # Absent => artifacts[a].generation \in Nat
        BY DEF TypeOK, ArtifactObjects
    <2>3. QED
        BY <1>1, <1>2, <2>1, <2>2 DEF ArtifactSeen, Earlier, PodOf
<1>4. PodSeen(o, a)'
    <2>1. podFeed[o][a] = <<>> /\ Len(<<>>) = 0
        BY <1>1, <1>2 DEF PodSeen
    <2>2. QED
        BY <1>1, <2>1 DEF PodSeen
<1>5. QED
    BY <1>1, <1>2, <1>3, <1>4, PodOfFrame DEF Alone, Accounted, TypeOK, ArtifactObjects

LEMMA StopKeeps ==
    ASSUME Alone, TypeOK, NEW a \in Artifacts, Accounted(a), Applies <= Applies', Applies \in Nat,
           Applies' \in Nat, NEW o \in Operators, Stop(o)
    PROVE  Accounted(a)'
<1>1. /\ UNCHANGED <<artifacts, pods>>
      /\ artifactCache'[o][a] = Absent /\ podCache'[o][a] = Absent
      /\ artifactFeed'[o][a] = <<>> /\ podFeed'[o][a] = <<>>
      /\ ~Runs(o)' /\ ~Busy(o, a)'
    BY DEF Stop, apiVars, Worker, Busy, TypeOK, Feeds, Nothing
<1>2. PodOf(a) /\ Len(<<>>) = 0
    BY DEF Accounted
<1>3. ArtifactSeen(o, a)'
    BY <1>1, <1>2 DEF ArtifactSeen
<1>4. PodSeen(o, a)'
    BY <1>1, <1>2 DEF PodSeen
<1>5. QED
    BY <1>1, <1>2, <1>3, <1>4, PodOfFrame DEF Alone, Accounted, TypeOK, ArtifactObjects

LEMMA UserAppliesKeeps ==
    ASSUME TypeOK, TypeOK', NEW a \in Artifacts, Accounted(a), UserApplies
    PROVE  Accounted(a)'
<1>1. UNCHANGED <<pods, podFeed, artifactCache, podCache, worker>>
    BY DEF UserApplies, podVars, cacheVars
<1>. DEFINE now == 1 + Bounds["apply"] - budget["apply"]
<1>2. PICK k \in Artifacts, config \in Configs :
        WriteArtifact(k, [config |-> config, generation |-> now,
            uid |-> IF artifacts[k] = Absent THEN now ELSE artifacts[k].uid])
    BY DEF UserApplies
<1>. DEFINE new == [config |-> config, generation |-> now,
                    uid |-> IF artifacts[k] = Absent THEN now ELSE artifacts[k].uid]
<1>3. now = Applies + 1 /\ Applies' = Applies + 1 /\ Applies \in Nat
    <2>1. budget["apply"] \in Nat /\ Bounds["apply"] \in Nat /\ budget["apply"] <= Bounds["apply"]
        BY BoundsAssumption DEF TypeOK, Events
    <2>2. budget'["apply"] = budget["apply"] - 1
        BY DEF UserApplies, Happens, TypeOK, Events
    <2>3. QED
        BY <2>1, <2>2 DEF Applies
<1>4. /\ artifacts'[a] = IF a = k THEN new ELSE artifacts[a]
      /\ \A o \in Operators :
            artifactFeed'[o][a] = IF a = k /\ Runs(o) THEN Append(artifactFeed[o][a], new)
                                                      ELSE artifactFeed[o][a]
    BY <1>2 DEF WriteArtifact, Published, TypeOK, Feeds
<1>5. CASE a # k
    <2>1. artifacts'[a] = artifacts[a]
        BY <1>4, <1>5
    <2>2. ASSUME NEW o \in Operators PROVE ArtifactSeen(o, a)' /\ PodSeen(o, a)'
        <3>1. artifactFeed'[o][a] = artifactFeed[o][a]
            BY <1>4, <1>5
        <3>2. ArtifactSeen(o, a) /\ PodSeen(o, a)
            BY DEF Accounted
        <3>3. QED
            BY <1>1, <2>1, <3>1, <3>2, ArtifactFrame, PodFrame DEF Busy
    <2>. HIDE DEF now
    <2>3. artifacts[a] # Absent => artifacts[a].generation <= Applies'
        BY <1>3 DEF Accounted, TypeOK, ArtifactObjects
    <2>4. QED
        BY <1>1, <2>1, <2>2, <2>3, PodOfFrame DEF Accounted
<1>6. CASE a = k
    <2>1. artifacts'[a] = new
        BY <1>4, <1>6
    <2>2. new \in ArtifactObjects /\ new # Absent
        <3>1. now \in Nat
            BY <1>3
        <3>. HIDE DEF now
        <3>2. new \in ArtifactObjects
            BY <3>1 DEF ArtifactObjects, TypeOK
        <3>3. QED
            BY <3>2, AbsentAssumption
    <2>3. /\ new.generation = Applies'
          /\ artifacts[a] # Absent =>
                new.uid = artifacts[a].uid /\ artifacts[a].generation < new.generation
        <3>1. artifacts[a] # Absent =>
                artifacts[a].generation \in Nat /\ artifacts[a].generation <= Applies
            BY DEF Accounted, TypeOK, ArtifactObjects
        <3>2. new.generation = Applies' /\ (artifacts[a] # Absent => new.uid = artifacts[a].uid)
            BY <1>3, <1>6
        <3>. HIDE DEF new, now
        <3>3. QED
            BY <1>3, <3>1, <3>2
    <2>. HIDE DEF new, now
    <2>4. ASSUME NEW o \in Operators PROVE ArtifactSeen(o, a)' /\ PodSeen(o, a)'
        <3>1. /\ Runs(o) => artifactFeed'[o][a] = Append(artifactFeed[o][a], artifacts'[a])
              /\ ~Runs(o) => artifactFeed'[o][a] = artifactFeed[o][a]
            BY <1>4, <1>6, <2>1
        <3>2. ArtifactSeen(o, a) /\ PodSeen(o, a)
            BY DEF Accounted
        <3>3. ArtifactSeen(o, a)'
            BY <1>1, <2>1, <2>2, <2>3, <3>1, <3>2, ArtifactApplied
        <3>4. PodSeen(o, a)'
            BY <1>1, <3>2, PodFrame DEF Busy
        <3>5. QED
            BY <3>3, <3>4
    <2>5. PodOf(a)'
        <3>1. pods[a] # Absent =>
                /\ artifacts[a] # Absent
                /\ pods[a].generation \in Nat /\ artifacts[a].generation \in Nat
                /\ pods[a].owner = artifacts[a].uid
                /\ pods[a].generation <= artifacts[a].generation
            BY DEF Accounted, PodOf, TypeOK, PodObjects, ArtifactObjects
        <3>2. new.generation \in Nat
            BY <2>2 DEF ArtifactObjects
        <3>3. QED
            BY <1>1, <2>1, <2>2, <2>3, <3>1, <3>2 DEF PodOf
    <2>6. new.generation <= Applies'
        BY <1>3, <2>3
    <2>7. QED
        BY <2>1, <2>4, <2>5, <2>6 DEF Accounted
<1>7. QED
    BY <1>5, <1>6

-----------------------------------------------------------------------------
LEMMA GoodPodInit == Init => GoodPodInv
<1>1. SUFFICES ASSUME Init, NEW a \in Artifacts PROVE Accounted(a)
    BY DEF GoodPodInv
<1>2. /\ artifacts[a] = Absent /\ pods[a] = Absent
      /\ \A o \in Operators :
            /\ artifactFeed[o][a] = <<>> /\ podFeed[o][a] = <<>>
            /\ artifactCache[o][a] = Absent /\ podCache[o][a] = Absent
            /\ worker[o].pc \in {"idle", "down"}
    BY <1>1 DEF Init, Nothing, Worker
<1>3. Len(<<>>) = 0
    OBVIOUS
<1>4. QED
    BY <1>2, <1>3 DEF Accounted, PodOf, ArtifactSeen, PodSeen, Busy

LEMMA GoodPodStep ==
    ASSUME Alone, TypeOK, TypeOK', GoodPodInv, [Next]_vars PROVE GoodPodInv'
<1>1. SUFFICES ASSUME NobodyRemoves', NEW a \in Artifacts PROVE Accounted(a)'
    BY DEF GoodPodInv
<1>2. /\ ~UserRemoves /\ ~Disrupt
      /\ Applies \in Nat /\ Applies' \in Nat /\ Applies <= Applies'
      /\ \A b \in Artifacts : Accounted(b)
    BY <1>1, StillNobodyRemoves DEF GoodPodInv
<1>3. Accounted(a)
    BY <1>2
<1>4. ASSUME NEW o \in Operators, NEW k \in Artifacts,
             DeliverArtifact(o, k) \/ DeliverPod(o, k) \/ GetArtifact(o, k)
      PROVE  Accounted(a)'
    <2>1. DeliverArtifact(o, k) \/ DeliverPod(o, k) => Applies' = Applies
        BY DEF DeliverArtifact, DeliverPod, Applies
    <2>2. QED
        BY <1>2, <1>3, <1>4, <2>1, DeliverArtifactKeeps, DeliverPodKeeps, GetArtifactKeeps
<1>5. ASSUME NEW o \in Operators, Reconcile(o) PROVE Accounted(a)'
    BY <1>2, <1>3, <1>5, GetPodKeeps, CreateKeeps, DeleteKeeps, UpdateMetricsKeeps DEF Reconcile
<1>6. ASSUME NEW o \in Operators, Start(o) \/ Stop(o) PROVE Accounted(a)'
    BY <1>2, <1>3, <1>6, StartKeeps, StopKeeps
<1>7. CASE UserApplies
    BY <1>3, <1>7, UserAppliesKeeps
<1>8. CASE Evict
    BY <1>2, <1>3, <1>8, EvictKeeps
<1>9. ASSUME NEW k \in Artifacts, Kubelet(k) \/ CollectPod(k) PROVE Accounted(a)'
    BY <1>2, <1>3, <1>9, KubeletKeeps, CollectPodKeeps
<1>10. CASE UNCHANGED vars
    <2>1. /\ UNCHANGED <<artifacts, pods, artifactFeed, podFeed, artifactCache, podCache, worker>>
          /\ Applies' = Applies
        BY <1>10 DEF vars, apiVars, cacheVars, Applies
    <2>2. ASSUME NEW o \in Operators PROVE ArtifactSeen(o, a)' /\ PodSeen(o, a)'
        BY <1>3, <2>1, ArtifactFrame, PodFrame DEF Accounted, Busy
    <2>3. QED
        BY <1>3, <2>1, <2>2, PodOfFrame DEF Accounted
<1>11. QED
    BY <1>2, <1>4, <1>5, <1>6, <1>7, <1>8, <1>9, <1>10 DEF Next, OperatorStep, Environment

(* A deletion by the operator is the step Delete.                           *)
LEMMA DeletesByDelete ==
    ASSUME TypeOK, [Next]_vars, NEW o \in Operators, NEW a \in Artifacts, Deletes(o, a)
    PROVE  Delete(o)
<1>1. worker[o].pc = "delete" /\ worker'[o].pc = "idle"
    BY DEF Deletes
<1>2. worker' # worker
    BY <1>1
<1>3. ASSUME NEW p \in Operators, NEW k \in Artifacts,
             DeliverArtifact(p, k) \/ DeliverPod(p, k) \/ GetArtifact(p, k)
      PROVE  FALSE
    BY <1>1, <1>2, <1>3 DEF DeliverArtifact, DeliverPod, GetArtifact, TypeOK
<1>4. ASSUME NEW p \in Operators, p # o,
             Reconcile(p) \/ Start(p) \/ Stop(p)
      PROVE  FALSE
    BY <1>1, <1>4, CountTurn DEF Reconcile, GetPod, Create, Delete, Start, Stop,
                                 Requeue, Done, GoTo, TypeOK
<1>5. ASSUME GetPod(o) \/ Create(o) \/ UpdateMetrics(o) \/ Start(o) \/ Stop(o) PROVE FALSE
    BY <1>1, <1>5, CountTurn DEF GetPod, Create, Start, Stop, Worker, TypeOK
<1>6. ASSUME Environment \/ UNCHANGED vars PROVE FALSE
    BY <1>2, <1>6 DEF Environment, UserApplies, UserRemoves, Disrupt, Evict, Kubelet, CollectPod,
                      vars
<1>7. QED
    BY <1>3, <1>4, <1>5, <1>6 DEF Next, OperatorStep, Reconcile

(* The pod that is there differs from what the worker has read of the       *)
(* artifact, so that it is of an older version than the artifact.           *)
LEMMA DeletesWithReason ==
    ASSUME TypeOK, GoodPodInv, [Next]_vars, NobodyRemoves,
           NEW o \in Operators, NEW a \in Artifacts, Deletes(o, a)
    PROVE  artifacts[a].generation # pods[a].generation
<1>1. /\ worker[o].pc = "delete" /\ worker[o].key = a /\ Busy(o, a)
      /\ pods[a] # Absent
    <2>1. Delete(o) /\ worker[o].key = a /\ pods'[a] # pods[a]
        BY DeletesByDelete DEF Deletes
    <2>2. QED
        BY <2>1 DEF Delete, DeletePod, podVars, Busy
<1>2. PodOf(a) /\ ArtifactSeen(o, a) /\ PodSeen(o, a)
    BY DEF GoodPodInv, Accounted
<1>3. /\ artifacts[a] # Absent
      /\ pods[a].generation <= worker[o].artifact.generation
      /\ worker[o].artifact.generation <= artifacts[a].generation
      /\ worker[o].artifact.generation = artifacts[a].generation =>
            worker[o].artifact.config = artifacts[a].config
      /\ pods[a].generation = artifacts[a].generation => pods[a].config = artifacts[a].config
      /\ pods[a].config # worker[o].artifact.config
    BY <1>1, <1>2 DEF PodOf, ArtifactSeen, PodSeen, Earlier
<1>4. /\ artifacts[a].generation \in Nat /\ pods[a].generation \in Nat
      /\ worker[o].artifact.generation \in Nat
    BY <1>1, <1>3 DEF TypeOK, ArtifactObjects, PodObjects
<1>5. QED
    BY <1>3, <1>4

(* The accounts of one operator alone: its caches are old, but in order.    *)
THEOREM GoodPodInvariant == Alone /\ Spec => []GoodPodInv
<1>1. SUFFICES ASSUME Alone PROVE Spec => []GoodPodInv
    OBVIOUS
<1>2. TypeOK /\ GoodPodInv /\ [Next]_vars => (TypeOK /\ GoodPodInv)'
    BY <1>1, TypeStep, GoodPodStep
<1>3. QED
    BY <1>2, TypeInit, GoodPodInit, PTL DEF Spec

(* One operator alone deletes no pod that is right (Reconcile's comparison  *)
(* and r.Delete, kyvernoartifact_controller.go:275-325), for any number of  *)
(* artifacts, configurations, faults and restarts, and caches any number of *)
(* events behind.                                                           *)
THEOREM GoodPodsKept == Alone /\ Spec => GoodPodKept
<1>1. SUFFICES ASSUME Alone PROVE Spec => GoodPodKept
    OBVIOUS
<1>2. TypeOK /\ GoodPodInv /\ [Next]_vars =>
        [\A o \in Operators, a \in Artifacts : Deletes(o, a) /\ NobodyRemoves =>
            \/ pods[a].image # ImageOf[o]
            \/ artifacts[a].generation # pods[a].generation]_vars
    BY DeletesWithReason
<1>3. QED
    BY <1>1, <1>2, TypeCorrect, GoodPodInvariant, PTL DEF Spec, GoodPodKept
=============================================================================
