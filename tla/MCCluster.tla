----------------------------- MODULE MCCluster -----------------------------
(* Instances of Cluster for TLC.                                            *)
EXTENDS Cluster

\* No property tells two nodes, two clients or two messages apart.
Symmetry == Permutations(Node) \cup Permutations(Client) \cup Permutations(Msg)
=============================================================================
