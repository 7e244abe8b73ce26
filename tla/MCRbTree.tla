------------------------------ MODULE MCRbTree ------------------------------
(* An instance for TLC: the nodes are interchangeable. *)
EXTENDS RbTree, TLC
NodeSymmetry == Permutations(Nodes)
=============================================================================
