--------------------------- MODULE MCPolicyGCHistory ---------------------------
(* The instances of MCPolicyGC with the history variables. *)
EXTENDS PolicyGCHistory, MCPolicyGC
=============================================================================
