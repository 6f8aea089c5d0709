-------------------------- MODULE MC_ClusterState ---------------------------
(* Model-checking instance of ClusterState: two processes, each calling    *)
(* the State API of its own State with every argument, two endpoints.     *)
EXTENDS ClusterState

MCNodes == {"n1", "n2"}
MCEndpoints == {"e1", "e2"}

\* AddNode may overwrite a known node, so the Nodes gauge is unbounded:
\* the safety run explores it up to MaxGauge, the most nodes a view can hold.
MaxGauge == Cardinality(Nodes)
GaugeBound == \A p \in Nodes, s \in Statuses : metricNodes[p][s] <= MaxGauge

\* No guard of the State reads the gauge, so the runs whose properties do
\* not mention it tell states apart by the map and the subscriber only.
StateView == <<nodes, published>>
=============================================================================
