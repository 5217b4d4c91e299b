---------------------------- MODULE MCMessageView ---------------------------
(* A small instance of MessageView for TLC.                                *)
EXTENDS MessageView, TLC

CONSTANTS w1, w2, l1, l2

Symmetry == Permutations({w1, w2}) \cup Permutations({l1, l2})
=============================================================================
