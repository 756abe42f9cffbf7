------------------------------ MODULE MCStores ------------------------------
(* Constants of the run of Stores. *)
EXTENDS Stores, TLC

Symmetry == Permutations(Runs)
=============================================================================
