---------------------------- MODULE MCHistories ----------------------------
(* Instances of Histories for TLC.  Where all chats are own channels, one  *)
(* is as good as another; only safety is checked under this symmetry.      *)
EXTENDS Histories, TLC

Symmetry == Permutations(Chats)
=============================================================================
