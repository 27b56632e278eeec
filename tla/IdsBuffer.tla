------------------------------ MODULE IdsBuffer ------------------------------
(***************************************************************************)
(* What both halves of a session share: how many ids of messages either    *)
(* remembers (mtproto/details/mtproto_received_ids_manager.h).             *)
(***************************************************************************)
EXTENDS Integers

CONSTANT IdsBufferSize  \* kIdsBufferSize

ASSUME BufferAssumption == IdsBufferSize \in Nat \ {0}
=============================================================================
