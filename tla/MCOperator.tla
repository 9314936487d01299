------------------------------ MODULE MCOperator ------------------------------
(* Small instances of Operator for TLC. *)
EXTENDS Operator

CONSTANTS old, new

OneImage == [o \in {new} |-> "image2"]
TwoImages == [o \in {old, new} |-> IF o = old THEN "image1" ELSE "image2"]

Budget(apply, remove, disrupt, evict, error, restart) ==
    [e \in Events |-> CASE e = "apply" -> apply [] e = "remove" -> remove
                        [] e = "disrupt" -> disrupt [] e = "evict" -> evict
                        [] e = "error" -> error [] e = "restart" -> restart]

ConvergeBounds == Budget(2, 1, 1, 1, 1, 1)
RollingBounds == Budget(1, 0, 1, 0, 0, 1)
=============================================================================
