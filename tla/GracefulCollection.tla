-------------------------- MODULE GracefulCollection --------------------------
(***************************************************************************)
(* What the garbage collector of src/internal/gc promises, whatever calls  *)
(* it makes to keep the promise.  It visits one key at a time.  A visit    *)
(* that finds the owner lapsed makes the key a suspect; a later visit that *)
(* finds the owner lapsed again may delete the object under a key that has *)
(* been a suspect ever since; every other visit clears the key.            *)
(***************************************************************************)
CONSTANTS
    Keys,       \* keys an object can be stored under
    Objects,    \* what can be stored under a key
    NoObject,   \* nothing is: none of the Objects
    NoKey       \* no key is being visited: none of the Keys

VARIABLES
    cluster,    \* the object under each key
    suspects,   \* keys with one strike
    visiting,   \* the key being visited
    lapsed      \* its owner was not well at some moment of this cycle

vars == <<cluster, suspects, visiting, lapsed>>

Clusters == [Keys -> Objects \cup {NoObject}]

Init ==
    /\ cluster \in Clusters
    /\ suspects = {}
    /\ visiting = NoKey
    /\ lapsed = FALSE

EndVisit == visiting' = NoKey /\ lapsed' = FALSE

Visit(k) ==
    /\ visiting = NoKey
    /\ visiting' = k
    /\ lapsed' \in BOOLEAN
    /\ UNCHANGED <<cluster, suspects>>

Suspect(k) ==
    /\ visiting = k
    /\ lapsed
    /\ k \notin suspects
    /\ suspects' = suspects \cup {k}
    /\ EndVisit
    /\ UNCHANGED cluster

(* The delete call may fail, and a failed call may have deleted. *)
Collect(k) ==
    /\ visiting = k
    /\ lapsed
    /\ k \in suspects
    /\ cluster' \in {cluster, [cluster EXCEPT ![k] = NoObject]}
    /\ suspects' \in {suspects, suspects \ {k}}
    /\ EndVisit

(* A key that is skipped without a visit is cleared as well. *)
Clear(k) ==
    /\ visiting \in {NoKey, k}
    /\ suspects' = suspects \ {k}
    /\ EndVisit
    /\ UNCHANGED cluster

Restart ==
    /\ suspects' = {}
    /\ EndVisit
    /\ UNCHANGED cluster

(* Others write objects, and owners fall ill; a lapse is not taken back. *)
Others ==
    /\ cluster' \in Clusters
    /\ lapsed => lapsed'
    /\ lapsed' \in BOOLEAN
    /\ visiting = NoKey => ~lapsed'
    /\ UNCHANGED <<suspects, visiting>>

Next ==
    \/ \E k \in Keys : Visit(k) \/ Suspect(k) \/ Collect(k) \/ Clear(k)
    \/ Restart
    \/ Others

Spec == Init /\ [][Next]_vars
=============================================================================
