---------------------------- MODULE MCReceivedIds ----------------------------
(* Instances of ReceivedIds for TLC.                                         *)
EXTENDS ReceivedIds
=============================================================================
