----------------------------- MODULE MCDownloads -----------------------------
(* Bounds of the checked instances of Downloads.                             *)
EXTENDS Downloads
=============================================================================
