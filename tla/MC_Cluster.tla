----------------------------- MODULE MC_Cluster -----------------------------
(* Model-checking instance of Cluster: three processes, one endpoint; the *)
(* listener, churn and crash bounds are set by each cfg.                   *)
EXTENDS Cluster

MCNodes == {"n1", "n2", "n3"}
MCEndpoints == {"e1"}
=============================================================================
