-------------------------- MODULE MCReuseDistance --------------------------
(* A small instance of ReuseDistance for TLC: more lines than it takes to    *)
(* have two skip nodes, and a threshold in the middle of the list.           *)
EXTENDS ReuseDistance, TLC

Symmetry == Permutations(Tag)
=============================================================================
