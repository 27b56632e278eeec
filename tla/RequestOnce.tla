---------------------------- MODULE RequestOnce ----------------------------
(***************************************************************************)
(* What MTP::Instance promises whoever sends a request                     *)
(* (mtproto/mtp_instance.h, send() and cancel()): the callback runs at     *)
(* most once, never after the request is cancelled, and only when the      *)
(* server has answered that request and no other.  How often the request   *)
(* travels, and how many of its answers are lost, is nobody's business.    *)
(***************************************************************************)
CONSTANT Requests

VARIABLES
    called,    \* requests sent by a caller
    waiting,   \* those whose callback may still run
    offered,   \* those for which an answer of the server is on its way
    finished   \* those whose callback has run

vars == <<called, waiting, offered, finished>>

Init ==
    /\ called = {} /\ waiting = {} /\ offered = {} /\ finished = {}

Call(r) ==
    /\ r \notin called
    /\ called' = called \cup {r} /\ waiting' = waiting \cup {r}
    /\ UNCHANGED <<offered, finished>>

Offer(r) ==
    /\ r \in called /\ offered' = offered \cup {r}
    /\ UNCHANGED <<called, waiting, finished>>

(* Answers are lost, or come for what nobody waits for.                    *)
Lose ==
    /\ offered' \in SUBSET offered
    /\ UNCHANGED <<called, waiting, finished>>

Return(r) ==
    /\ r \in waiting \cap offered
    /\ waiting' = waiting \ {r} /\ finished' = finished \cup {r}
    /\ offered' \in SUBSET offered
    /\ UNCHANGED called

Cancel(r) ==
    /\ r \in waiting /\ waiting' = waiting \ {r}
    /\ UNCHANGED <<called, offered, finished>>

Next ==
    \/ \E r \in Requests : Call(r) \/ Offer(r) \/ Return(r) \/ Cancel(r)
    \/ Lose

Spec == Init /\ [][Next]_vars
=============================================================================
