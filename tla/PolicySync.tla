------------------------------ MODULE PolicySync ------------------------------
(***************************************************************************)
(* What a pass of the watcher of src/internal/watcher promises, whatever   *)
(* calls it makes: it fixes one tag and the version under it, attempts     *)
(* each file it chose once, and puts the tag into the bookmark only when   *)
(* every one of them has been attempted.  A pass may be given up at any    *)
(* moment.  Others write the cluster and the registry as they like.        *)
(***************************************************************************)
CONSTANTS
    Files,       \* files of a version = policies
    Tags,
    Versions,    \* what can be published
    NoTag,       \* the bookmark is empty: none of the Tags
    NoVersion    \* no pass is under way: none of the Versions

VARIABLES
    registry,    \* the version under each tag
    cluster,     \* the policies
    bookmark,    \* tag of the latest completed pass
    tag,         \* tag of the present pass
    version,     \* its version
    left         \* files of it still to be attempted

vars == <<registry, cluster, bookmark, tag, version, left>>

(* The policy of a file: its spec, labelled with tag and artifact. *)
Manifest(f) == [spec |-> version[f], tag |-> tag, mine |-> TRUE]

Idle == version = NoVersion

EndPass == tag' = NoTag /\ version' = NoVersion /\ left' = {}

Init ==
    /\ bookmark = NoTag
    /\ tag = NoTag
    /\ version = NoVersion
    /\ left = {}

Begin ==
    /\ Idle
    /\ tag' \in Tags
    /\ version' = registry[tag']
    /\ version' \in Versions
    /\ left' \subseteq Files
    /\ UNCHANGED <<registry, cluster, bookmark>>

(* The file needs nothing, or an attempt fails, or the policy is written.   *)
Attempt(f) ==
    /\ f \in left
    /\ left' = left \ {f}
    /\ cluster' \in {cluster, [cluster EXCEPT ![f] = Manifest(f)]}
    /\ UNCHANGED <<registry, bookmark, tag, version>>

(* The bookmark is emptied before it is written. *)
Bookmark ==
    /\ ~Idle
    /\ left = {}
    /\ \/ bookmark' = NoTag /\ UNCHANGED <<tag, version, left>>
       \/ bookmark' = tag /\ EndPass
    /\ UNCHANGED <<registry, cluster>>

GiveUp == ~Idle /\ EndPass /\ UNCHANGED <<registry, cluster, bookmark>>

(* A bookmark is lost with the disk it is on, between two passes. *)
Lose == Idle /\ bookmark' = NoTag /\ UNCHANGED <<registry, cluster, tag, version, left>>

Others == UNCHANGED <<bookmark, tag, version, left>>

Next ==
    \/ Begin
    \/ \E f \in Files : Attempt(f)
    \/ Bookmark
    \/ GiveUp
    \/ Lose
    \/ Others

Spec == Init /\ [][Next]_vars
=============================================================================
