------------------------------ MODULE Histories ------------------------------
(***************************************************************************)
(* Data::Histories (data/data_histories.cpp) with the read state of        *)
(* History (history/history.cpp) and what the fork adds to both: the       *)
(* requests of a chat that must keep an order (pages of history, deletions,*)
(* sent messages, reads), the requests for its entry in the chats list and *)
(* the reads of incoming messages, told to the server at once or after a   *)
(* delay.                                                                  *)
(*                                                                         *)
(* A chat is one record.  Its first fields are Histories::State; a chat    *)
(* that has no State in _states is one these fields of which are Cleared.   *)
(* Requests are numbered within their chat.  One getPeerDialogs asks for   *)
(* several chats; here each is answered on its own.                        *)
(***************************************************************************)
EXTENDS Integers, FiniteSets

CONSTANTS
    Chats,
    OwnChannels,  \* chats that "delete for everybody" deletes as channels
    MaxMsg,       \* bound: message ids
    Outgoing,     \* those that are never unread
    MaxCalls,     \* bound: what the user and other code do with a chat
    MaxRefused,   \* bound: requests answered with an error
    MaxGhost      \* bound: changes and uses of the ghost mode

ASSUME ChatsAssumption == OwnChannels \subseteq Chats
ASSUME BoundsAssumption ==
    /\ MaxMsg \in Nat \ {0} /\ MaxCalls \in Nat /\ MaxRefused \in Nat
    /\ MaxGhost \in Nat /\ Outgoing \subseteq 1..MaxMsg

MsgIds == 0..MaxMsg
Types == {"History", "ReadInbox", "Delete", "Send"}
Requests == [id : Nat, type : Types, till : MsgIds, ends : BOOLEAN]
    \* till: of a read; ends: its handlers call finish()
Asks == [id : Nat, dirty : BOOLEAN, crossed : BOOLEAN]
    \* a getPeerDialogs at the server; dirty: a request that changes the chat
    \* was out at the same time; crossed: so was another getPeerDialogs

VARIABLES
    chat,       \* the record of each chat
    timer,      \* _readRequestsTimer is active
    posted,     \* sendDialogRequests() is posted
    sendReads,  \* the setting sendReadMessages: ghost mode is off
    ghosted,    \* history: changes and uses of the ghost mode
    calls, refused

budget == <<ghosted, calls, refused>>
vars == <<chat, timer, posted, sendReads, budget>>

(* wire: requests whose handlers MTP will call; next: their last number;   *)
(* entry: where _dialogRequestsPending and _dialogRequests have the chat;  *)
(* reader: a readInbox() waits there; local: inboxReadTillId(); told: the  *)
(* same at the server; last, known: lastServerMessage(); refused: the      *)
(* server would not take a read, or say what the entry is.                 *)
NewChat(n) == [sent |-> {}, postponed |-> {}, will |-> 0, when |-> FALSE,
               sentTill |-> 0, done |-> FALSE, again |-> FALSE,
               wire |-> {}, next |-> 0, asks |-> {},
               entry |-> "none", reader |-> FALSE, local |-> 0,
               told |-> 0, last |-> n, known |-> TRUE, refused |-> FALSE]

ChatRecords ==
    [sent : SUBSET Requests, postponed : SUBSET Requests, will : MsgIds,
     when : BOOLEAN, sentTill : MsgIds, done : BOOLEAN, again : BOOLEAN,
     wire : SUBSET Requests, next : Nat, asks : SUBSET Asks,
     entry : {"none", "pending", "requested"}, reader : BOOLEAN, local : MsgIds,
     told : MsgIds, last : MsgIds, known : BOOLEAN, refused : BOOLEAN]

Larger(m, n) == IF m > n THEN m ELSE n
Cleared(k) == [k EXCEPT !.sent = {}, !.postponed = {}, !.will = 0,
                        !.when = FALSE, !.sentTill = 0, !.done = FALSE,
                        !.again = FALSE]
HasState(k) == Cleared(k) # k

-----------------------------------------------------------------------------
(* The requests of a chat.                                                 *)

IsOut(S, type) == \E r \in S : r.type = type

(* Mutant of PostponeHistoryRequest: anything but reads keeps history out.  *)
PostponeToo(k) == \E r \in k.sent : r.type \in {"Delete", "Send"}

PostponeHistoryRequest(k) == IsOut(k.sent, "Delete")

PostponeEntryRequest(S) == \E r \in S : r.type # "History"

(* Mutants of SendRequest: the entry that was asked before the chat changes*)
(* is taken for good; it is asked again wherever the chat waits.           *)
SendRequestQuietly(k, type, till, ends) ==
    LET r == [id |-> k.next + 1, type |-> type, till |-> till, ends |-> ends]
    IN [k EXCEPT !.next = @ + 1, !.sent = @ \cup {r}, !.wire = @ \cup {r},
                 !.asks = IF type = "History" THEN @
                          ELSE {[a EXCEPT !.dirty = TRUE] : a \in @}]
SendRequestAskingAgain(k, type, till, ends) ==
    LET r == [id |-> k.next + 1, type |-> type, till |-> till, ends |-> ends]
    IN [k EXCEPT !.next = @ + 1, !.sent = @ \cup {r}, !.wire = @ \cup {r},
                 !.again = @ \/ (type # "History" /\ k.entry # "none")]

(* History requests that a Delete finds out are cancelled and put off.     *)
SendRequest(k, type, till, ends) ==
    LET r == [id |-> k.next + 1, type |-> type, till |-> till, ends |-> ends]
        sent == k.sent \cup {r}
        back == IF IsOut(sent, "Delete")
                THEN {h \in sent : h.type = "History"} ELSE {}
    IN IF type = "History" /\ PostponeHistoryRequest(k)
       THEN [k EXCEPT !.next = @ + 1, !.postponed = @ \cup {r}]
       ELSE [k EXCEPT !.next = @ + 1,
                !.sent = sent \ back,
                !.wire = (@ \cup {r}) \ back,
                !.postponed = @ \cup back,
                !.again = @ \/ /\ PostponeEntryRequest(sent)
                               /\ k.entry = "requested",
                !.asks = IF type = "History" THEN @
                         ELSE {[a EXCEPT !.dirty = TRUE] : a \in @}]

(* Mutants of FinishSentRequest: the end of any request sends what was put *)
(* off; what was put off stays so; the entry stays requested.              *)
FinishResending(k, id) ==
    LET sent == {r \in k.sent : r.id # id} \cup k.postponed
    IN [k EXCEPT !.sent = sent, !.postponed = {},
                 !.wire = {r \in @ : r.id # id} \cup k.postponed]
FinishWithoutResending(k, id) ==
    LET sent == {r \in k.sent : r.id # id}
        free == k.again /\ ~PostponeEntryRequest(sent)
    IN [k EXCEPT !.sent = sent, !.wire = {r \in @ : r.id # id},
                 !.entry = IF free THEN "pending" ELSE @,
                 !.again = @ /\ ~free]
FinishWithoutEntry(k, id) ==
    LET left == {r \in k.sent : r.id # id}
        back == IF IsOut(left, "Delete") THEN {} ELSE k.postponed
    IN [k EXCEPT !.sent = left \cup back, !.postponed = @ \ back,
                 !.wire = {r \in @ : r.id # id} \cup back]

(* finishSentRequest: what was put off is sent when nothing is in its way. *)
FinishSentRequest(k, id) ==
    LET left == {r \in k.sent : r.id # id}
        back == IF IsOut(left, "Delete") THEN {} ELSE k.postponed
        sent == left \cup back
        free == k.again /\ ~PostponeEntryRequest(sent)
    IN [k EXCEPT !.sent = sent,
                 !.wire = (@ \ (k.sent \ left)) \cup back,
                 !.postponed = @ \ back,
                 !.entry = IF free THEN "pending" ELSE @,
                 !.again = @ /\ ~free]

(* requestDialogEntry.                                                     *)
RequestDialogEntry(k, reader) ==
    [k EXCEPT !.entry = IF @ = "none" THEN "pending" ELSE @,
              !.reader = @ \/ reader]

(* postponeRequestDialogEntries: the first of the pending chats posts.     *)
Posts(after) ==
    LET pending == {c \in Chats : after[c].entry = "pending"}
    IN posted' = (posted \/ /\ Cardinality(pending) = 1
                            /\ \E c \in pending : chat[c].entry # "pending")

-----------------------------------------------------------------------------
(* Reads of incoming messages.                                             *)

(* setInboxReadTill.  Its mutant keeps _inboxReadBefore for the last read.  *)
SetInboxReadBefore(k, till) == [k EXCEPT !.local = Larger(@, till + 1)]
SetInboxReadTill(k, till) == [k EXCEPT !.local = Larger(@, till)]

(* Mutant of SendReadRequest: the read to send is not taken.               *)
SendReadRequestLeaving(k) ==
    SendRequest([k EXCEPT !.sentTill = k.will, !.when = FALSE,
                          !.done = FALSE], "ReadInbox", k.will, TRUE)

(* sendReadRequest.                                                        *)
SendReadRequest(k) ==
    SendRequest([k EXCEPT !.sentTill = k.will, !.will = 0, !.when = FALSE,
                          !.done = FALSE], "ReadInbox", k.will, TRUE)

(* What a handler works on: the chats, _readRequestsTimer and the setting. *)
World == [chats |-> chat, timer |-> timer, sends |-> sendReads]
Put(w, c, k) == [w EXCEPT !.chats[c] = k]
With(c, k) == Put(World, c, k)

(* Mutants of SendReadRequests: the timer is not started again for the     *)
(* reads that wait; the setting is not looked at.                          *)
SendReadRequestsOnce(w, due) ==
    LET sends(c) == w.chats[c].will # 0 /\ (w.chats[c].when => c \in due)
    IN IF ~w.sends
       THEN [w EXCEPT !.chats = [c \in Chats |-> Cleared(@[c])]]
       ELSE [w EXCEPT !.timer = FALSE, !.chats = [c \in Chats |->
                         IF sends(c) THEN SendReadRequest(@[c]) ELSE @[c]]]
SendReadRequestsAnyway(w, due) ==
    [w EXCEPT !.chats = [c \in Chats |-> IF @[c].will # 0
                         THEN SendReadRequest(@[c]) ELSE @[c]]]

(* sendReadRequests, for the reads that are due; in ghost mode it forgets  *)
(* every State there is.                                                   *)
SendReadRequests(w, due) ==
    LET sends(c) == w.chats[c].will # 0 /\ (w.chats[c].when => c \in due)
        after == [c \in Chats |-> IF sends(c) THEN SendReadRequest(w.chats[c])
                                 ELSE w.chats[c]]
    IN IF ~w.sends
       THEN [w EXCEPT !.chats = [c \in Chats |-> Cleared(@[c])]]
       ELSE IF \A c \in Chats : ~HasState(w.chats[c]) THEN w
       ELSE [w EXCEPT !.chats = after,
                      !.timer = \E c \in Chats : after[c].when]

(* countStillUnreadLocal, against the count that is known: whether any     *)
(* message stays unread, and whether as many as before.                    *)
Unread(m, n) == (m + 1)..n \ Outgoing
StillUnread(k, till) ==
    {"unknown",
     IF Unread(till, k.last) = {} THEN "none"
     ELSE IF Unread(k.local, till) = {} THEN "same" ELSE "fewer"}

(* Mutants of Skipped: the read that was sent is forgotten; any read to be *)
(* sent is enough.                                                         *)
SkippedUnsent(k, till, force) ==
    \/ till <= k.local /\ (~force \/ k.will = 0)
    \/ k.will >= till /\ ~(force /\ k.when)
SkippedIfAny(k, till, force) ==
    \/ till <= k.local /\ (~force \/ k.will = 0)
    \/ k.sentTill >= till
    \/ k.will # 0 /\ ~(force /\ k.when)

(* The early returns of readInboxTill.                                     *)
Skipped(k, till, force) ==
    \/ till <= k.local /\ (~force \/ k.will = 0)
    \/ k.sentTill >= till
    \/ k.will >= till /\ ~(force /\ k.when)

(* readInboxTill(history, tillId, force): nothing to do, a State to leave  *)
(* as it is because no count changes, reads to send now, or a delay.  When *)
(* it returns the syncGuard reads the last message locally.                *)
ReadInboxTill(w, c, till, force, still, due) ==
    LET k == w.chats[c]
        skipped == Skipped(k, till, force)
        same == ~force /\ still = "same"
        now == force \/ still \in {"unknown", "none"}
        asked == Put(w, c, [k EXCEPT !.will = Larger(@, till), !.when = ~now])
        result == IF skipped \/ same THEN w
                  ELSE IF now THEN SendReadRequests(asked, due)
                  ELSE [asked EXCEPT !.timer = @ \/ ~k.when]
        marks == \/ ~skipped /\ k.will < till /\ still # "unknown"
                 \/ k.known /\ till = k.last
    IN IF marks THEN Put(result, c, SetInboxReadTill(result.chats[c], till))
       ELSE result

(* dialogEntryApplied(history): those who wait for the entry read it, the  *)
(* reader till the message last; then a read that is done counts as local. *)
(* In ghost mode the reader's read has destroyed the State still used: its *)
(* old fields may or may not be found (stale).                             *)
DialogEntryApplied(w, c, last, still, due, stale) ==
    LET k == w.chats[c]
        applied == Put(w, c, [k EXCEPT !.entry = "none", !.reader = FALSE,
                                       !.known = TRUE])
        read == IF k.reader
                THEN ReadInboxTill(applied, c, last, FALSE, still, due)
                ELSE applied
        j == read.chats[c]
        till == IF j.done THEN j.sentTill
                ELSE IF stale /\ k.done /\ HasState(k) /\ ~HasState(j)
                THEN k.sentTill ELSE 0
    IN IF k.again THEN w
       ELSE Put(read, c, [SetInboxReadTill(j, till) EXCEPT
                             !.sentTill = IF till = @ THEN 0 ELSE @])

-----------------------------------------------------------------------------
(* What the rest of the program does.                                      *)

Become(w) ==
    /\ chat' = w.chats /\ timer' = w.timer
    /\ Posts(w.chats)
    /\ UNCHANGED <<sendReads, refused>>

Call(c) ==
    /\ calls < MaxCalls /\ calls' = calls + 1
    /\ UNCHANGED ghosted

(* A page of history, a search, the messages around an album.              *)
LoadHistory(c) ==
    Call(c) /\ Become(With(c, SendRequest(chat[c], "History", 0, TRUE)))

(* sendPreparedMessage.                                                    *)
SendMessage(c) ==
    Call(c) /\ Become(With(c, SendRequest(chat[c], "Send", 0, TRUE)))

(* deleteMessages(history, ids): the last message may be among them.       *)
DeleteMessages(c, wasLast) ==
    LET k == SendRequest(chat[c], "Delete", 0, TRUE)
    IN /\ Call(c)
       /\ Become(With(c, IF wasLast
                         THEN RequestDialogEntry([k EXCEPT !.known = FALSE],
                                                 FALSE)
                         ELSE k))

(* deleteAllMessages: deleting the own channel has no finish().            *)
DeleteAllMessages(c) ==
    /\ Call(c)
    /\ Become(With(c, SendRequest(chat[c], "Delete", 0, c \notin OwnChannels)))

(* cancelRequest, by those who keep the id of what they asked.             *)
CancelRequest(c, r) ==
    /\ r.type = "History" /\ r \in chat[c].sent \cup chat[c].postponed
    /\ Call(c)
    /\ Become(With(c, FinishSentRequest([chat[c] EXCEPT !.postponed = @ \ {r}],
                                        r.id)))

(* A message comes; if it is seen at once, readInboxOnNewMessage.          *)
NewMessage(c, seen, still, due) ==
    LET n == chat[c].last + 1
        w == With(c, [chat[c] EXCEPT !.last = n, !.known = TRUE])
    IN /\ n <= MaxMsg
       /\ seen => n \notin Outgoing
       /\ Become(IF seen THEN ReadInboxTill(w, c, n, TRUE, still, due) ELSE w)
       /\ UNCHANGED <<ghosted, calls>>

(* readInboxTill(item), for a message that is on the screen.               *)
View(c, till, still, due) ==
    /\ till \in 1..chat[c].last
    /\ Call(c)
    /\ Become(ReadInboxTill(World, c, till, FALSE, still, due))

(* readInbox(history): till the last message, once that is known.          *)
ReadInbox(c, still, due) ==
    /\ Call(c)
    /\ \/ Become(ReadInboxTill(World, c, chat[c].last, FALSE, still, due))
       \/ ~chat[c].known /\ Become(With(c, RequestDialogEntry(chat[c], TRUE)))

(* sendPendingReadInbox, when the chat is closed.                          *)
LeaveChat(c, due) ==
    /\ chat[c].will # 0 /\ chat[c].when
    /\ Call(c)
    /\ Become(SendReadRequests(With(c, [chat[c] EXCEPT !.when = FALSE]), due))

(* applyInboxReadUpdate: read by another of the user's devices.            *)
ReadElsewhere(c, till, known) ==
    LET k == SetInboxReadTill([chat[c] EXCEPT !.told = till], till)
    IN /\ till \in chat[c].told + 1 .. chat[c].last
       /\ Call(c)
       /\ Become(With(c, IF known \/ chat[c].local >= till THEN k
                         ELSE RequestDialogEntry(k, FALSE)))

-----------------------------------------------------------------------------
(* The event loop.                                                         *)

(* _readRequestsTimer, for the reads whose time has come.                  *)
ReadRequestsTimer(due) ==
    /\ timer
    /\ due # {} \/ \A c \in Chats : ~chat[c].when
    /\ UNCHANGED <<ghosted, calls>>
    /\ Become(SendReadRequests([World EXCEPT !.timer = FALSE], due))

(* Mutant of SendDialogRequests: who waits for a request is not noted.     *)
SendDialogRequestsOnly ==
    /\ posted /\ posted' = FALSE
    /\ chat' = [c \in Chats |->
           IF chat[c].entry # "pending" THEN chat[c]
           ELSE [chat[c] EXCEPT !.entry = "requested",
                    !.asks = IF PostponeEntryRequest(chat[c].sent) THEN @
                             ELSE @ \cup {[id |-> 0, dirty |-> FALSE,
                                           crossed |-> FALSE]}]]
    /\ UNCHANGED <<timer, sendReads, budget>>

(* sendDialogRequests: chats with a request that changes them wait for it. *)
SendDialogRequests ==
    LET asked(k) ==
            [k EXCEPT !.next = @ + 1,
                !.asks = {[a EXCEPT !.crossed = TRUE] : a \in @} \cup
                    {[id |-> k.next + 1, dirty |-> PostponeEntryRequest(k.wire),
                      crossed |-> k.asks # {}]}]
        sent(k) == IF PostponeEntryRequest(k.sent)
                   THEN [k EXCEPT !.entry = "requested", !.again = TRUE]
                   ELSE [asked(k) EXCEPT !.entry = "requested"]
    IN /\ posted /\ posted' = FALSE
       /\ chat' = [c \in Chats |-> IF chat[c].entry = "pending"
                                   THEN sent(chat[c]) ELSE chat[c]]
       /\ UNCHANGED <<timer, sendReads, budget>>

-----------------------------------------------------------------------------
(* Answers.                                                                *)

Answered(c, r) == [chat[c] EXCEPT !.wire = @ \ {r}]

AnswerHistory(c, r) ==
    /\ r \in chat[c].wire /\ r.type = "History"
    /\ UNCHANGED <<ghosted, calls>>
    /\ Become(With(c, FinishSentRequest(Answered(c, r), r.id)))

AnswerSend(c, r) ==
    /\ r \in chat[c].wire /\ r.type = "Send"
    /\ UNCHANGED <<ghosted, calls>>
    /\ Become(With(c, FinishSentRequest(Answered(c, r), r.id)))

(* Deletions go on while the server says that there is more to delete, and *)
(* ask for the last message afterwards (requestChatListMessage).           *)
AnswerDelete(c, r, more) ==
    LET k == FinishSentRequest(
                 IF more THEN SendRequest(Answered(c, r), "Delete", 0, TRUE)
                 ELSE Answered(c, r), r.id)
    IN /\ r \in chat[c].wire /\ r.type = "Delete" /\ r.ends
       /\ IF more THEN Call(c) ELSE UNCHANGED <<ghosted, calls>>
       /\ Become(With(c, IF ~more /\ ~k.known THEN RequestDialogEntry(k, FALSE)
                         ELSE k))

(* channels.deleteChannel: whatever the answer, nobody calls finish().     *)
AnswerDeleteChannel(c, r) ==
    /\ r \in chat[c].wire /\ r.type = "Delete" /\ ~r.ends
    /\ UNCHANGED <<ghosted, calls>>
    /\ Become(With(c, Answered(c, r)))

(* finished(), in the answer to a read: unless the entry has to tell what  *)
(* is unread now, the read is complete.                                    *)
AnswerRead(c, r, done, due) ==
    LET k == [Answered(c, r) EXCEPT
                 !.told = IF done THEN Larger(@, r.till) ELSE @,
                 !.refused = @ \/ ~done]
        mine == [k EXCEPT !.done = TRUE]
        read == IF k.sentTill # r.till THEN k
                ELSE IF k.local < r.till THEN RequestDialogEntry(mine, FALSE)
                ELSE [mine EXCEPT !.sentTill = 0]
        w == SendReadRequests(With(c, read), due)
    IN /\ r \in chat[c].wire /\ r.type = "ReadInbox" /\ r.ends
       /\ done \/ refused < MaxRefused
       /\ UNCHANGED <<sendReads, ghosted, calls>>
       /\ refused' = IF done THEN refused ELSE refused + 1
       /\ chat' = [w.chats EXCEPT ![c] = FinishSentRequest(@, r.id)]
       /\ timer' = w.timer
       /\ Posts(chat')

(* The fork's readHistory() has no finish() either.                        *)
AnswerReadHistory(c, r) ==
    /\ r \in chat[c].wire /\ r.type = "ReadInbox" /\ ~r.ends
    /\ Become(With(c, [Answered(c, r) EXCEPT !.told = Larger(@, r.till)]))
    /\ UNCHANGED <<ghosted, calls>>

(* applyDialog and the end of getPeerDialogs.                              *)
AnswerEntry(c, a, done, still, due, stale) ==
    LET k == [SetInboxReadTill(chat[c], IF done THEN chat[c].told ELSE 0)
                 EXCEPT !.asks = @ \ {a}, !.refused = @ \/ ~done]
        w == DialogEntryApplied(With(c, k), c, IF done THEN k.last ELSE 0,
                                still, due, stale)
    IN /\ a \in chat[c].asks
       /\ done \/ refused < MaxRefused
       /\ UNCHANGED <<sendReads, ghosted, calls>>
       /\ refused' = IF done THEN refused ELSE refused + 1
       /\ chat' = w.chats /\ timer' = w.timer
       /\ Posts(chat')

(* The chat is in a part of the chats list that was asked for: its dialog  *)
(* is applied with the others (applyDialog).                               *)
DialogsSlice(c, still, due, stale) ==
    /\ Call(c)
    /\ Become(DialogEntryApplied(With(c, SetInboxReadTill(chat[c], chat[c].told)),
                                 c, chat[c].last, still, due, stale))

-----------------------------------------------------------------------------
(* The fork's ghost mode.                                                  *)

Ghost == ghosted < MaxGhost /\ ghosted' = ghosted + 1 /\ UNCHANGED calls

SetSendReadMessages ==
    /\ Ghost
    /\ sendReads' = ~sendReads
    /\ UNCHANGED <<chat, timer, posted, refused>>

(* "Read messages" of the menu, locally: readInbox() of a chat while the   *)
(* setting is off, just for the call.                                      *)
LocalRead(c, still) ==
    /\ Ghost
    /\ Become(ReadInboxTill([World EXCEPT !.sends = FALSE], c, chat[c].last,
                            FALSE, still, {}))

(* readHistory(), before a message is sent in ghost mode.                  *)
ReadHistory(c) ==
    /\ Ghost /\ ~sendReads
    /\ Become(With(c, SendRequest(chat[c], "ReadInbox", chat[c].last, FALSE)))

-----------------------------------------------------------------------------

Init ==
    /\ chat = [c \in Chats |-> NewChat(1)]
    /\ timer = FALSE /\ posted = FALSE /\ sendReads = TRUE
    /\ ghosted = 0 /\ calls = 0 /\ refused = 0

Delayed == {c \in Chats : chat[c].when}
Stills(c) == StillUnread(chat[c], chat[c].last)

Calls(c) ==
    \/ LoadHistory(c) \/ SendMessage(c) \/ DeleteAllMessages(c)
    \/ \E wasLast \in BOOLEAN : DeleteMessages(c, wasLast)
    \/ \E r \in chat[c].sent \cup chat[c].postponed : CancelRequest(c, r)
    \/ \E till \in MsgIds, known \in BOOLEAN : ReadElsewhere(c, till, known)
    \/ \E due \in SUBSET Delayed :
         \/ LeaveChat(c, due)
         \/ \E seen \in BOOLEAN, still \in {"unknown", "none"} :
               NewMessage(c, seen, still, due)
         \/ \E till \in MsgIds : \E still \in StillUnread(chat[c], till) :
               View(c, till, still, due)
         \/ \E still \in Stills(c) : ReadInbox(c, still, due)

Answers(c) ==
    \/ \E r \in chat[c].wire :
         \/ AnswerHistory(c, r) \/ AnswerSend(c, r) \/ AnswerDeleteChannel(c, r)
         \/ AnswerReadHistory(c, r)
         \/ \E more \in BOOLEAN : AnswerDelete(c, r, more)
         \/ \E done \in BOOLEAN, due \in SUBSET Delayed : AnswerRead(c, r, done, due)
    \/ \E stale \in {FALSE, ~sendReads}, still \in Stills(c), due \in SUBSET Delayed :
         \/ DialogsSlice(c, still, due, stale)
         \/ \E a \in chat[c].asks, done \in BOOLEAN :
               AnswerEntry(c, a, done, still, due, stale)

GhostMode ==
    \/ SetSendReadMessages
    \/ \E c \in Chats : ReadHistory(c) \/ \E still \in Stills(c) : LocalRead(c, still)

Next ==
    \/ \E c \in Chats : Calls(c) \/ Answers(c)
    \/ \E due \in SUBSET Delayed : ReadRequestsTimer(due)
    \/ SendDialogRequests
    \/ GhostMode

Spec == Init /\ [][Next]_vars

(* The server answers what it is asked, and the event loop goes on.  What  *)
(* the user and other code do is theirs to decide.                         *)
Fairness ==
    /\ \A c \in Chats :
         /\ WF_vars(\E r \in chat[c].wire :
                \/ AnswerHistory(c, r) \/ AnswerSend(c, r)
                \/ AnswerDelete(c, r, FALSE) \/ AnswerDeleteChannel(c, r)
                \/ AnswerRead(c, r, TRUE, {}))
         /\ WF_vars(\E a \in chat[c].asks, still \in Stills(c) :
                       AnswerEntry(c, a, TRUE, still, {}, FALSE))
         /\ WF_vars(\E due \in SUBSET Delayed : c \in due /\ ReadRequestsTimer(due))
    /\ WF_vars(SendDialogRequests)

FairSpec == Spec /\ Fairness

-----------------------------------------------------------------------------
(* Safety.                                                                 *)

(* Every variable has the type the code gives it; message ids stay among   *)
(* those there are.                                                        *)
TypeOK ==
    /\ chat \in [Chats -> ChatRecords]
    /\ timer \in BOOLEAN /\ posted \in BOOLEAN /\ sendReads \in BOOLEAN
    /\ ghosted \in 0..MaxGhost /\ calls \in 0..MaxCalls
    /\ refused \in 0..MaxRefused

(* A page of history is not at the server together with a deletion of the  *)
(* same chat, so it cannot bring back what the deletion removes.           *)
NoHistoryDuringDelete ==
    \A c \in Chats : ~(IsOut(chat[c].wire, "History")
                        /\ IsOut(chat[c].wire, "Delete"))

(* Requests are put off only while a deletion is registered, the end of    *)
(* which sends them; ghost mode forgets both or neither.                   *)
PostponedHasCause ==
    \A c \in Chats : chat[c].postponed # {} => IsOut(chat[c].sent, "Delete")

(* Whoever waits for the entry of a chat waits for something: a posted     *)
(* call, a getPeerDialogs at the server, or the end of a request that is   *)
(* registered and keeps the entry from being asked.                        *)
EntryIsOnItsWay ==
    \A c \in Chats :
        /\ chat[c].entry = "pending" => posted
        /\ chat[c].entry = "requested" => chat[c].asks # {} \/ chat[c].again

(* The flag to ask for the entry once more is there only when it finds the *)
(* chat among the requested ones, as finishSentRequest() asserts, and when *)
(* a request whose end looks at it is registered.                          *)
AgainIsRequested ==
    \A c \in Chats : chat[c].again =>
        chat[c].entry = "requested" /\ PostponeEntryRequest(chat[c].sent)

(* An answer with an entry computed while the chat was being changed is    *)
(* recognised: the entry is going to be asked for again.  The exception is *)
(* an answer that was overtaken by another request for the same entry.     *)
OverlappedIsAskedAgain ==
    \A c \in Chats : \A a \in chat[c].asks :
        a.dirty /\ ~a.crossed /\ chat[c].entry = "requested" => chat[c].again

(* A read to send is of more than the one sent before, as sendReadRequest()*)
(* expects, in ghost mode as well.                                         *)
ReadsGoForward ==
    \A c \in Chats : chat[c].will # 0 => chat[c].will > chat[c].sentTill

(* The answer to a read finds that read, a later one or none as the last   *)
(* sent, as finished() asserts.                                            *)
ReadAnswerInOrder ==
    \A c \in Chats : \A r \in chat[c].wire :
        r.type = "ReadInbox" => chat[c].sentTill = 0 \/ chat[c].sentTill >= r.till

(* Delayed reads have a running timer, whichever chat started it.          *)
DelayedReadHasTimer == \A c \in Chats : chat[c].when => timer

(* An incoming message that is shown as read is one the server knows is    *)
(* read, or will hear of: the read is registered or at the server.         *)
ShownReadIsTold ==
    \A c \in Chats : ~chat[c].refused =>
        \A m \in Unread(chat[c].told, chat[c].local) :
            \/ chat[c].will >= m
            \/ \E r \in chat[c].wire : r.type = "ReadInbox" /\ r.till >= m

(* What the five collections of a chat and the timers say of each other, in *)
(* ghost mode as well: each thing put off or delayed has what ends it.     *)
Consistent ==
    /\ TypeOK
    /\ PostponedHasCause /\ AgainIsRequested /\ ReadsGoForward /\ DelayedReadHasTimer

(* What ghost mode may break, by clearing all states of the chats: nothing *)
(* is put at risk by a deletion, waited for in vain or read only here.     *)
NothingForgotten == NoHistoryDuringDelete /\ EntryIsOnItsWay /\ ShownReadIsTold

(* The inductive invariant, of the record of one chat.  With or without     *)
(* ghost mode: what is put off is history, behind a deletion that is       *)
(* registered; the entry is asked again once a registered request ends; a  *)
(* read to send is a later one than the one sent.                          *)
Kept(k) ==
    /\ \A r \in k.postponed : r.type = "History"
    /\ k.postponed # {} => IsOut(k.sent, "Delete")
    /\ k.again => k.entry = "requested" /\ PostponeEntryRequest(k.sent)
    /\ k.will # 0 => k.will > k.sentTill

(* Without ghost mode: what MTP answers is registered, under a number of   *)
(* its own, and never history beside a deletion.                           *)
Registered(k) ==
    /\ k.wire \subseteq k.sent
    /\ ~(IsOut(k.sent, "History") /\ IsOut(k.sent, "Delete"))
    /\ \A r \in k.sent \cup k.postponed : r.id <= k.next
    /\ \A r, s \in k.sent \cup k.postponed : r.id = s.id => r = s

(* The entry that was asked comes, and is taken unless the chat changes.   *)
EntryAwaited(k) ==
    /\ k.entry = "requested" => k.asks # {} \/ k.again
    /\ \A a \in k.asks :
         a.dirty /\ ~a.crossed /\ k.entry = "requested" => k.again

(* Reads are sent in order, and each answered one is known or shown.       *)
ReadsOut(k) == {r \in k.wire : r.type = "ReadInbox"}

ReadsInOrder(k) ==
    \A r \in ReadsOut(k) :
        /\ r.till <= Larger(k.sentTill, k.local)
        /\ k.sentTill # 0 => r.till <= k.sentTill
        /\ k.will # 0 => r.till < k.will

(* What stands for a message that is read here: the server knows, or it    *)
(* will be told by the read to send or by one that is out.                 *)
Covered(k, m) ==
    m <= k.told \/ m <= k.will \/ \E r \in ReadsOut(k) : m <= r.till

ReadsTold(k) ==
    k.refused \/ /\ Covered(k, k.sentTill)
                 /\ k.done => k.sentTill <= k.told
                 /\ \A m \in Unread(0, k.local) : Covered(k, m)

Firm(k) == Registered(k) /\ EntryAwaited(k) /\ ReadsInOrder(k) /\ ReadsTold(k)

(* In ghost mode no message comes to be known as read at the server by way *)
(* of Histories: only readHistory() starts a read.                         *)
GhostStartsNoRead ==
    [][~sendReads => \A c \in Chats : \A r \in chat'[c].wire \ chat[c].wire :
           r.type = "ReadInbox" => ~r.ends]_vars

-----------------------------------------------------------------------------
(* Liveness.                                                               *)

(* A deletion of an own channel is never finished.                         *)
Stuck(c) == \E r \in chat[c].sent : r.type = "Delete" /\ ~r.ends

(* The requests for history of a chat are all answered or taken back in   *)
(* the end, however many deletions put them off.                           *)
HistoryIsAnswered ==
    \A c \in Chats :
        IsOut(chat[c].sent \cup chat[c].postponed, "History")
        ~> (Stuck(c) \/ ~IsOut(chat[c].sent \cup chat[c].postponed, "History"))

(* Whoever waits for the entry of a chat gets it.                          *)
EntryArrives ==
    \A c \in Chats : chat[c].entry # "none" ~> chat[c].entry = "none" \/ Stuck(c)

(* Neither a request for history nor a wait for the entry lasts for ever,  *)
(* except in a chat with a deletion that finishes never.                   *)
NobodyWaitsForEver == HistoryIsAnswered /\ EntryArrives

(* What is shown as read comes to be known as read at the server.          *)
ReadsAreTold ==
    \A c \in Chats, m \in 1..MaxMsg \ Outgoing :
        m \in Unread(0, chat[c].local) ~> chat[c].told >= m \/ chat[c].refused

(* Without ghost mode a chat's requests keep the order of HistoryOrder.    *)
IdsOf(S) == {r.id : r \in S}
OfType(S, type) == {r \in S : r.type = type}
Order == INSTANCE HistoryOrder WITH
    waiting <- [c \in Chats |-> IdsOf(chat[c].postponed)],
    running <- [c \in Chats |-> IdsOf(OfType(chat[c].sent, "History"))],
    edits <- [c \in Chats |-> IdsOf(OfType(chat[c].sent, "Delete"))]
KeepsOrder == Order!Spec
=============================================================================
