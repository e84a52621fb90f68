------------------------------ MODULE MCCluster ------------------------------
(* Cluster with one or two tables and one or two clients. *)
EXTENDS Cluster, TLC

CONSTANTS none, t1, t2, c1, c2

\* Clients are alike.  Tables are not: DROP DATABASE takes them in an order.
Symmetry == Permutations(Clients)
=============================================================================
