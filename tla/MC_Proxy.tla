------------------------------ MODULE MC_Proxy ------------------------------
(* Model-checking instance of Proxy: two processes, one endpoint, one      *)
(* request, and enough churn for both processes' views to go stale.       *)
EXTENDS Proxy

MCNodes == {"n1", "n2"}
MCEndpoints == {"e1"}
MCReqs == {"r1"}
=============================================================================
