--------------------------- MODULE MCChannelUpdates ---------------------------
(* Bounds of the checked instances of ChannelUpdates.                        *)
EXTENDS ChannelUpdates
=============================================================================
