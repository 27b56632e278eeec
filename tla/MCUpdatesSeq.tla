----------------------------- MODULE MCUpdatesSeq -----------------------------
(* Instances of UpdatesSeq for TLC.                                          *)
EXTENDS UpdatesSeq
=============================================================================
