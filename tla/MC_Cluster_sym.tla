--------------------------- MODULE MC_Cluster_sym ---------------------------
(* Safety instance of Cluster with the processes as a symmetry set. No    *)
(* definition of Cluster or ClusterState singles out a process (there is  *)
(* no CHOOSE over Nodes), so permuting them maps behaviours to behaviours, *)
(* and the invariants checked are quantified over all processes alike.    *)
EXTENDS Cluster

CONSTANTS n1, n2, n3

SymNodes == {n1, n2, n3}
SymEndpoints == {"e1"}
NodeSymmetry == Permutations(SymNodes)
=============================================================================
