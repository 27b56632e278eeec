---------------------------- MODULE HistoryOrder ----------------------------
(***************************************************************************)
(* What Data::Histories promises the code that reads a chat's messages     *)
(* while others delete from it: a page of history is never asked for, nor  *)
(* accepted, while a deletion of the same chat is out; the deletion comes  *)
(* first, and the reads it put off are asked once the last one has ended.  *)
(***************************************************************************)
CONSTANT Chats

VARIABLES
    waiting,  \* requests for history put off, for each chat
    running,  \* requests for history at the server
    edits     \* deletions at the server

vars == <<waiting, running, edits>>

Init ==
    /\ waiting = [c \in Chats |-> {}]
    /\ running = [c \in Chats |-> {}]
    /\ edits = [c \in Chats |-> {}]

(* A request for history is sent, or put off until the deletions end.      *)
Ask(c, i) ==
    /\ IF edits[c] = {}
       THEN running' = [running EXCEPT ![c] = @ \cup {i}] /\ UNCHANGED waiting
       ELSE waiting' = [waiting EXCEPT ![c] = @ \cup {i}] /\ UNCHANGED running
    /\ UNCHANGED edits

(* A deletion takes back the requests that are out.                        *)
Edit(c, i) ==
    /\ edits' = [edits EXCEPT ![c] = @ \cup {i}]
    /\ waiting' = [waiting EXCEPT ![c] = @ \cup running[c]]
    /\ running' = [running EXCEPT ![c] = {}]

(* The deletion i has ended, and had to be followed by the deletions more. *)
EndEdit(c, i, more) ==
    /\ i \in edits[c]
    /\ edits' = [edits EXCEPT ![c] = (@ \ {i}) \cup more]
    /\ IF edits'[c] = {}
       THEN /\ running' = [running EXCEPT ![c] = @ \cup waiting[c]]
            /\ waiting' = [waiting EXCEPT ![c] = {}]
       ELSE UNCHANGED <<waiting, running>>

(* A request that is out is answered.                                      *)
Answer(c, i) ==
    /\ i \in running[c]
    /\ running' = [running EXCEPT ![c] = @ \ {i}]
    /\ UNCHANGED <<waiting, edits>>

(* The caller takes its request back.                                      *)
Withdraw(c, i) ==
    /\ waiting' = [waiting EXCEPT ![c] = @ \ {i}]
    /\ running' = [running EXCEPT ![c] = @ \ {i}]
    /\ UNCHANGED edits

(* Requests are named by anything: one that is new is found after the step.*)
Next == \E c \in Chats :
    \/ \E i \in waiting'[c] \cup running'[c] : Ask(c, i)
    \/ \E i \in edits'[c] : Edit(c, i)
    \/ \E i \in waiting[c] \cup running[c] : Answer(c, i) \/ Withdraw(c, i)
    \/ \E i \in edits[c] : \/ EndEdit(c, i, {})
                            \/ \E j \in edits'[c] : EndEdit(c, i, {j})

Spec == Init /\ [][Next]_vars
=============================================================================
