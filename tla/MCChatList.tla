----------------------------- MODULE MCChatList ----------------------------
(* A small instance of ChatList for TLC.                                   *)
EXTENDS ChatList, TLC

CONSTANTS w1, w2, s1, s2, l1, l2

Symmetry ==
    Permutations({w1, w2}) \cup Permutations({s1, s2}) \cup Permutations({l1, l2})
=============================================================================
