--------------------------- MODULE MCCommonUpdates ---------------------------
(* Bounds of the checked instances of CommonUpdates.                        *)
EXTENDS CommonUpdates

=============================================================================
