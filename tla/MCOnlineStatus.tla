---------------------------- MODULE MCOnlineStatus ----------------------------
(* Instances of OnlineStatus for TLC.                                      *)
EXTENDS OnlineStatus
=============================================================================
