------------------------- MODULE PolicyGCIncarnations -------------------------
(***************************************************************************)
(* PolicyGCHistory with one more history variable, which tells an object   *)
(* from another one that was stored under the same key before.  The map    *)
(* orphanedPolicies of gc.go does not.                                     *)
(***************************************************************************)
EXTENDS PolicyGCHistory

VARIABLE unseen    \* policies that no visit has ended for since they were created

ivars == <<hvars, unseen>>

Created == {p \in Written : policies[p] = NoPolicy}

ISpec ==
    /\ HInit /\ unseen = Policies
    /\ [][HNext /\ unseen' = (unseen \ Visited) \cup Created]_ivars

(* What a comment of gc.go says, and the code does not do: gc.go:24,        *)
(* "orphanedPolicies tracks when policies were first detected as orphaned". *)
(* Then no object is deleted in the first visit that is made to it; but an  *)
(* entry outlives its policy, and the next policy of that name inherits it. *)
EachObjectHasGrace ==
    [][\A p \in Policies : Collects(p) /\ p \notin touched => p \notin unseen]_ivars
=============================================================================
