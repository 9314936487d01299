------------------------ MODULE MCPolicyGCIncarnations ------------------------
(* The instances of MCPolicyGC, with objects told apart. *)
EXTENDS PolicyGCIncarnations, MCPolicyGC
=============================================================================
