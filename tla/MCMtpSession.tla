---------------------------- MODULE MCMtpSession ----------------------------
(* Instances of MtpSession for TLC.                                         *)
EXTENDS MtpSession
=============================================================================
