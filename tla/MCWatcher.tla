------------------------------- MODULE MCWatcher -------------------------------
(* Small instances of Watcher for TLC. *)
EXTENDS Watcher

CONSTANTS p, q    \* a namespaced Policy and a ClusterPolicy

MCTags == {"v1", "v2"}
MCSpecs == {"s1", "s2"}

Version(sp, sq) == [f \in {p, q} |-> IF f = p THEN sp ELSE sq]

(* Immutable tags: one version each. *)
ImmutableTags ==
    [t \in MCTags |-> IF t = "v1" THEN {Version("s1", "s1")} ELSE {Version("s2", "s2")}]

(* Tags that are overwritten, deleted or lose a file. *)
MutableTags ==
    [t \in MCTags |-> {Version("s1", "s1"), Version("s2", NoSpec), NoVersion}]

(* One tag is overwritten and the other one deleted. *)
OverwrittenTag ==
    [t \in MCTags |-> IF t = "v1" THEN {Version("s1", "s1"), Version("s2", NoSpec)}
                                  ELSE {Version("s2", "s1"), NoVersion}]

(* A user edits a policy, deletes it, or another artifact takes it over. *)
MCDrift == {NoObject,
            [spec |-> "s2", tag |-> "v1", mine |-> TRUE],
            [spec |-> "s1", tag |-> "v1", mine |-> FALSE]}

Budget(push, drift, error, crash, kill, signal) ==
    [e \in Events |-> CASE e = "push" -> push [] e = "drift" -> drift
                        [] e = "error" -> error [] e = "crash" -> crash
                        [] e = "kill" -> kill [] e = "signal" -> signal]

RolloutBounds == Budget(3, 0, 0, 1, 1, 1)
ChecksumBounds == Budget(2, 1, 1, 1, 1, 1)
PinnedBounds == Budget(2, 1, 1, 1, 0, 1)
CleanupBounds == Budget(2, 0, 0, 0, 0, 1)
=============================================================================
