--------------------------- MODULE HistoriesProofs ---------------------------
(***************************************************************************)
(* For every number of chats, messages, calls and errors: what is put off  *)
(* or delayed has what ends it, in ghost mode as well; without ghost mode  *)
(* nothing is forgotten, answers to reads come in order, and a chat's      *)
(* requests implement HistoryOrder.                                        *)
(***************************************************************************)
EXTENDS Histories, TLAPS, FiniteSetTheorems

-----------------------------------------------------------------------------
(* What the operators make of the record of a chat.                        *)

SameReads(n, k) ==
    /\ n.will = k.will /\ n.when = k.when /\ n.sentTill = k.sentTill
    /\ n.done = k.done /\ n.local = k.local /\ n.told = k.told
    /\ n.refused = k.refused /\ n.last = k.last /\ n.known = k.known
    /\ n.reader = k.reader

New(k, type, till, ends) ==
    [id |-> k.next + 1, type |-> type, till |-> till, ends |-> ends]

(* A request is put off behind a deletion, or sent, with what it takes     *)
(* back.                                                                   *)
PutOff(n, k, type, r) ==
    /\ type = "History" /\ IsOut(k.sent, "Delete")
    /\ n.postponed = k.postponed \cup {r}
    /\ n.sent = k.sent /\ n.wire = k.wire
    /\ n.again = k.again /\ n.asks = k.asks

SentNow(n, k, type, r, back) ==
    /\ back = IF IsOut(k.sent \cup {r}, "Delete")
              THEN {h \in k.sent \cup {r} : h.type = "History"} ELSE {}
    /\ ~(type = "History" /\ IsOut(k.sent, "Delete"))
    /\ n.postponed = k.postponed \cup back
    /\ n.sent = (k.sent \cup {r}) \ back
    /\ n.wire = (k.wire \cup {r}) \ back
    /\ n.again = (k.again \/ /\ PostponeEntryRequest(k.sent \cup {r})
                             /\ k.entry = "requested")
    /\ n.asks = IF type = "History" THEN k.asks
                ELSE {[a EXCEPT !.dirty = TRUE] : a \in k.asks}

Sends(n, k, type, r) ==
    /\ n \in ChatRecords /\ SameReads(n, k) /\ r \in Requests
    /\ n.entry = k.entry /\ n.next = k.next + 1
    /\ \/ PutOff(n, k, type, r)
       \/ \E back \in SUBSET (k.sent \cup {r}) : SentNow(n, k, type, r, back)

LEMMA SendRequestFields ==
    ASSUME NEW k \in ChatRecords, NEW type \in Types, NEW till \in MsgIds,
           NEW ends \in BOOLEAN
    PROVE  Sends(SendRequest(k, type, till, ends), k, type, New(k, type, till, ends))
  <1> DEFINE n == SendRequest(k, type, till, ends)
             r == New(k, type, till, ends)
  <1> HIDE DEF r
  <1>1. r \in Requests
    BY DEF r, New, Requests, ChatRecords
  <1> DEFINE back == IF IsOut(k.sent \cup {r}, "Delete")
                     THEN {h \in k.sent \cup {r} : h.type = "History"} ELSE {}
  <1>2. CASE type = "History" /\ PostponeHistoryRequest(k)
    <2>1. n = [k EXCEPT !.next = @ + 1, !.postponed = @ \cup {r}]
      BY <1>2 DEF SendRequest, r, New
    <2>2. n \in ChatRecords
      <3> DEFINE x == k.next + 1
                 p == k.postponed \cup {r}
      <3>1. x \in Nat /\ p \in SUBSET Requests
        BY <1>1 DEF ChatRecords
      <3>2. n = [k EXCEPT !.next = x, !.postponed = p]
        BY <2>1
      <3> HIDE DEF x, p
      <3> QED  BY <3>1, <3>2 DEF ChatRecords
    <2>3. /\ SameReads(n, k) /\ n.entry = k.entry /\ n.next = k.next + 1
          /\ PutOff(n, k, type, r)
      BY <1>2, <2>1 DEF ChatRecords, SameReads, PutOff, PostponeHistoryRequest
    <2> HIDE DEF n
    <2> QED  BY <1>1, <2>2, <2>3 DEF Sends, r, n
  <1>3. CASE ~(type = "History" /\ PostponeHistoryRequest(k))
    <2>1. n = [k EXCEPT !.next = @ + 1,
                !.sent = (k.sent \cup {r}) \ back,
                !.wire = (@ \cup {r}) \ back,
                !.postponed = @ \cup back,
                !.again = @ \/ /\ PostponeEntryRequest(k.sent \cup {r})
                               /\ k.entry = "requested",
                !.asks = IF type = "History" THEN @
                         ELSE {[a EXCEPT !.dirty = TRUE] : a \in @}]
      BY <1>3 DEF SendRequest, r, New
    <2> HIDE DEF back
    <2>2. k.sent \in SUBSET Requests /\ k.postponed \in SUBSET Requests
          /\ k.wire \in SUBSET Requests /\ k.asks \in SUBSET Asks
      BY DEF ChatRecords
    <2>3. back \in SUBSET (k.sent \cup {r})
      BY DEF back
    <2>4. \A a \in k.asks : [a EXCEPT !.dirty = TRUE] \in Asks
      BY <2>2 DEF Asks
    <2>5. n \in ChatRecords
      <3> DEFINE x == k.next + 1
                 s == (k.sent \cup {r}) \ back
                 w == (k.wire \cup {r}) \ back
                 p == k.postponed \cup back
                 b == k.again \/ /\ PostponeEntryRequest(k.sent \cup {r})
                                 /\ k.entry = "requested"
                 q == IF type = "History" THEN k.asks
                      ELSE {[a EXCEPT !.dirty = TRUE] : a \in k.asks}
      <3>1. /\ x \in Nat /\ s \in SUBSET Requests
            /\ w \in SUBSET Requests /\ p \in SUBSET Requests
        BY <1>1, <2>2, <2>3 DEF ChatRecords
      <3>2. q \in SUBSET Asks
        BY <2>2, <2>4
      <3>3. b \in BOOLEAN
        BY DEF ChatRecords
      <3>4. n = [k EXCEPT !.next = x, !.sent = s, !.wire = w, !.postponed = p,
                          !.again = b, !.asks = q]
        BY <2>1
      <3> HIDE DEF x, s, w, p, b, q
      <3> QED  BY <3>1, <3>2, <3>3, <3>4 DEF ChatRecords
    <2>6. /\ SameReads(n, k) /\ n.entry = k.entry /\ n.next = k.next + 1
          /\ n.postponed = k.postponed \cup back
          /\ n.sent = (k.sent \cup {r}) \ back
          /\ n.wire = (k.wire \cup {r}) \ back
          /\ n.again = (k.again \/ /\ PostponeEntryRequest(k.sent \cup {r})
                                   /\ k.entry = "requested")
          /\ n.asks = IF type = "History" THEN k.asks
                      ELSE {[a EXCEPT !.dirty = TRUE] : a \in k.asks}
      BY <2>1 DEF ChatRecords, SameReads
    <2> HIDE DEF n
    <2>7. SentNow(n, k, type, r, back)
      BY <1>3, <2>6 DEF SentNow, back, PostponeHistoryRequest
    <2> QED  BY <1>1, <2>3, <2>5, <2>6, <2>7 DEF Sends, r, n
  <1> QED  BY <1>2, <1>3

(* A request ends; what was put off is sent when nothing is in its way, and *)
(* the entry is asked again when nothing changes the chat any more.        *)
Left(k, id) == {r \in k.sent : r.id # id}

Finishes(n, k, id, back) ==
    /\ n \in ChatRecords /\ SameReads(n, k)
    /\ n.next = k.next /\ n.asks = k.asks
    /\ back = IF IsOut(Left(k, id), "Delete") THEN {} ELSE k.postponed
    /\ n.sent = Left(k, id) \cup back
    /\ n.wire = (k.wire \ (k.sent \ Left(k, id))) \cup back
    /\ n.postponed = k.postponed \ back
    /\ PostponeEntryRequest(n.sent) <=> PostponeEntryRequest(Left(k, id))
    /\ \/ /\ k.again /\ ~PostponeEntryRequest(Left(k, id))
          /\ n.entry = "pending" /\ n.again = FALSE
       \/ /\ ~(k.again /\ ~PostponeEntryRequest(Left(k, id)))
          /\ n.entry = k.entry /\ n.again = k.again

LEMMA FinishFields ==
    ASSUME NEW k \in ChatRecords, NEW id \in Nat,
           \A r \in k.postponed : r.type = "History"
    PROVE  \E back \in SUBSET k.postponed :
               Finishes(FinishSentRequest(k, id), k, id, back)
  <1> DEFINE n == FinishSentRequest(k, id)
             left == Left(k, id)
             back == IF IsOut(left, "Delete") THEN {} ELSE k.postponed
             s == left \cup back
             w == (k.wire \ (k.sent \ left)) \cup back
             p == k.postponed \ back
             free == k.again /\ ~PostponeEntryRequest(s)
             e == IF free THEN "pending" ELSE k.entry
             b == k.again /\ ~free
  <1>1. /\ k.sent \in SUBSET Requests /\ k.postponed \in SUBSET Requests
        /\ k.wire \in SUBSET Requests /\ k.again \in BOOLEAN
        /\ k.entry \in {"none", "pending", "requested"}
    BY DEF ChatRecords
  <1>2. n = [k EXCEPT !.sent = s, !.wire = w, !.postponed = p, !.entry = e,
                      !.again = b]
    BY DEF FinishSentRequest, Left
  <1>3. left \in SUBSET k.sent /\ back \in SUBSET k.postponed
    BY DEF Left
  <1>4. PostponeEntryRequest(s) <=> PostponeEntryRequest(left)
    BY <1>3 DEF PostponeEntryRequest
  <1> HIDE DEF left, back
  <1>5. /\ s \in SUBSET Requests /\ w \in SUBSET Requests /\ p \in SUBSET Requests
        /\ e \in {"none", "pending", "requested"} /\ b \in BOOLEAN
    BY <1>1, <1>3
  <1> HIDE DEF s, w, p, e, b, free
  <1>6. /\ n \in ChatRecords /\ SameReads(n, k) /\ n.next = k.next /\ n.asks = k.asks
        /\ n.sent = s /\ n.wire = w /\ n.postponed = p /\ n.entry = e /\ n.again = b
    BY <1>2, <1>5 DEF ChatRecords, SameReads
  <1>7. \/ /\ k.again /\ ~PostponeEntryRequest(left)
           /\ n.entry = "pending" /\ n.again = FALSE
        \/ /\ ~(k.again /\ ~PostponeEntryRequest(left))
           /\ n.entry = k.entry /\ n.again = k.again
    BY <1>1, <1>4, <1>6 DEF e, b, free
  <1> HIDE DEF n
  <1>8. Finishes(n, k, id, back)
    BY <1>4, <1>6, <1>7 DEF Finishes, left, back, s, w, p
  <1> QED  BY <1>3, <1>8 DEF n

-----------------------------------------------------------------------------
(* What holds in ghost mode too.                                           *)

LEMMA SendKeeps ==
    ASSUME NEW k \in ChatRecords, Kept(k), NEW type \in Types, NEW till \in MsgIds,
           NEW ends \in BOOLEAN
    PROVE  Kept(SendRequest(k, type, till, ends))
  <1> DEFINE n == SendRequest(k, type, till, ends)
             r == New(k, type, till, ends)
  <1>1. Sends(n, k, type, r)
    BY SendRequestFields
  <1>2. r.type = type
    BY DEF New
  <1> HIDE DEF n, r
  <1>3. n.will # 0 => n.will > n.sentTill
    BY <1>1 DEF Sends, SameReads, Kept
  <1>4. ASSUME PutOff(n, k, type, r) PROVE Kept(n)
    <2>1. \A x \in n.postponed : x.type = "History"
      BY <1>2, <1>4 DEF PutOff, Kept
    <2>2. IsOut(n.sent, "Delete")
      BY <1>4 DEF PutOff
    <2>3. n.again => n.entry = "requested" /\ PostponeEntryRequest(n.sent)
      BY <1>1, <1>4 DEF PutOff, Sends, Kept
    <2> QED  BY <1>3, <2>1, <2>2, <2>3 DEF Kept
  <1>5. ASSUME NEW back \in SUBSET (k.sent \cup {r}), SentNow(n, k, type, r, back)
        PROVE  Kept(n)
    <2>1. \A x \in back : x.type = "History" /\ IsOut(k.sent \cup {r}, "Delete")
      BY <1>5 DEF SentNow
    <2>2. \A x \in n.postponed : x.type = "History"
      BY <1>5, <2>1 DEF SentNow, Kept
    <2>3. IsOut(k.sent \cup {r}, "Delete") => IsOut(n.sent, "Delete")
      BY <1>5, <2>1 DEF SentNow, IsOut
    <2>4. n.postponed # {} => IsOut(n.sent, "Delete")
      <3>1. k.postponed # {} => IsOut(k.sent \cup {r}, "Delete")
        BY DEF Kept, IsOut
      <3> QED  BY <1>5, <2>1, <2>3, <3>1 DEF SentNow
    <2>5. PostponeEntryRequest(k.sent \cup {r}) => PostponeEntryRequest(n.sent)
      BY <1>5, <2>1 DEF SentNow, PostponeEntryRequest
    <2>6. PostponeEntryRequest(k.sent) => PostponeEntryRequest(k.sent \cup {r})
      BY DEF PostponeEntryRequest
    <2>7. n.again => n.entry = "requested" /\ PostponeEntryRequest(n.sent)
      BY <1>1, <1>5, <2>5, <2>6 DEF SentNow, Sends, Kept
    <2> QED  BY <1>3, <2>2, <2>4, <2>7 DEF Kept
  <1> QED  BY <1>1, <1>4, <1>5 DEF Sends, n

LEMMA FinishKeeps ==
    ASSUME NEW k \in ChatRecords, Kept(k), NEW id \in Nat
    PROVE  /\ FinishSentRequest(k, id) \in ChatRecords
           /\ Kept(FinishSentRequest(k, id))
  <1> DEFINE n == FinishSentRequest(k, id)
  <1>1. \A r \in k.postponed : r.type = "History"
    BY DEF Kept
  <1>2. PICK back \in SUBSET k.postponed : Finishes(n, k, id, back)
    BY <1>1, FinishFields
  <1> HIDE DEF n
  <1>3. n.will # 0 => n.will > n.sentTill
    BY <1>2 DEF Finishes, SameReads, Kept
  <1>4. \A r \in n.postponed : r.type = "History"
    BY <1>1, <1>2 DEF Finishes
  <1>5. n.postponed # {} => IsOut(n.sent, "Delete")
    BY <1>2 DEF Finishes, IsOut
  <1>6. n.again => n.entry = "requested" /\ PostponeEntryRequest(n.sent)
    BY <1>2 DEF Finishes, Kept
  <1> QED  BY <1>2, <1>3, <1>4, <1>5, <1>6 DEF Kept, Finishes, n

(* Other changes of a record that leave the requests alone.                *)
SameRequests(n, k) ==
    /\ n \in ChatRecords /\ n.sent = k.sent /\ n.postponed = k.postponed
    /\ n.wire = k.wire /\ n.next = k.next /\ n.again = k.again /\ n.asks = k.asks

LEMMA RequestEntryFields ==
    ASSUME NEW k \in ChatRecords, NEW reader \in BOOLEAN, Kept(k)
    PROVE  LET n == RequestDialogEntry(k, reader)
           IN /\ SameRequests(n, k) /\ Kept(n)
              /\ n.entry = (IF k.entry = "none" THEN "pending" ELSE k.entry)
              /\ n.will = k.will /\ n.when = k.when /\ n.sentTill = k.sentTill
              /\ n.done = k.done /\ n.local = k.local /\ n.told = k.told
              /\ n.refused = k.refused
  <1> DEFINE n == RequestDialogEntry(k, reader)
             e == IF k.entry = "none" THEN "pending" ELSE k.entry
             b == k.reader \/ reader
  <1>1. n = [k EXCEPT !.entry = e, !.reader = b]
    BY DEF RequestDialogEntry
  <1>2. e \in {"none", "pending", "requested"} /\ b \in BOOLEAN
    BY DEF ChatRecords
  <1> HIDE DEF b
  <1>3. /\ SameRequests(n, k) /\ n.entry = e
        /\ n.will = k.will /\ n.when = k.when /\ n.sentTill = k.sentTill
        /\ n.done = k.done /\ n.local = k.local /\ n.told = k.told
        /\ n.refused = k.refused
    <2> HIDE DEF e
    <2> QED  BY <1>1, <1>2 DEF ChatRecords, SameRequests
  <1> HIDE DEF n
  <1>4. Kept(n)
    BY <1>3 DEF Kept, SameRequests
  <1> QED  BY <1>3, <1>4 DEF n

LEMMA LargerIsOne ==
    ASSUME NEW m \in MsgIds, NEW n \in MsgIds
    PROVE  Larger(m, n) \in MsgIds /\ m <= Larger(m, n) /\ n <= Larger(m, n)
           /\ (Larger(m, n) = m \/ Larger(m, n) = n)
  BY BoundsAssumption DEF Larger, MsgIds

(* setInboxReadTill().                                                     *)
LEMMA SetInboxFields ==
    ASSUME NEW k \in ChatRecords, NEW till \in MsgIds
    PROVE  LET n == SetInboxReadTill(k, till)
           IN /\ SameRequests(n, k) /\ n.entry = k.entry
              /\ n.local = Larger(k.local, till)
              /\ n.will = k.will /\ n.when = k.when /\ n.sentTill = k.sentTill
              /\ n.done = k.done /\ n.told = k.told /\ n.refused = k.refused
              /\ n.last = k.last /\ n.known = k.known /\ n.reader = k.reader
              /\ Kept(k) => Kept(n)
  <1> DEFINE n == SetInboxReadTill(k, till)
             l == Larger(k.local, till)
  <1>1. l \in MsgIds
    BY LargerIsOne DEF ChatRecords
  <1>2. n = [k EXCEPT !.local = l]
    BY DEF SetInboxReadTill
  <1> HIDE DEF l
  <1>3. /\ SameRequests(n, k) /\ n.entry = k.entry
        /\ n.local = l
        /\ n.will = k.will /\ n.when = k.when /\ n.sentTill = k.sentTill
        /\ n.done = k.done /\ n.told = k.told /\ n.refused = k.refused
        /\ n.last = k.last /\ n.known = k.known /\ n.reader = k.reader
    BY <1>1, <1>2 DEF ChatRecords, SameRequests
  <1> HIDE DEF n
  <1>4. Kept(k) => Kept(n)
    BY <1>3 DEF Kept, SameRequests
  <1> QED  BY <1>3, <1>4 DEF n, l

(* A State that is cleared keeps only what MTP and the chats list know.    *)
LEMMA ClearedKeeps ==
    ASSUME NEW k \in ChatRecords
    PROVE  /\ Cleared(k) \in ChatRecords /\ Kept(Cleared(k))
           /\ Cleared(k).when = FALSE /\ Cleared(k).entry = k.entry
           /\ Cleared(k).wire = k.wire
  <1> DEFINE n == Cleared(k)
  <1>1. n = [k EXCEPT !.sent = {}, !.postponed = {}, !.will = 0, !.when = FALSE,
                      !.sentTill = 0, !.done = FALSE, !.again = FALSE]
    BY DEF Cleared
  <1>2. 0 \in MsgIds
    BY BoundsAssumption DEF MsgIds
  <1>3. /\ n \in ChatRecords /\ n.postponed = {} /\ n.again = FALSE /\ n.will = 0
        /\ n.when = FALSE /\ n.entry = k.entry /\ n.wire = k.wire
    <2>1. /\ n.postponed = {} /\ n.again = FALSE /\ n.will = 0
          /\ n.when = FALSE /\ n.entry = k.entry /\ n.wire = k.wire
      BY <1>1 DEF ChatRecords
    <2> DEFINE none == {}
    <2>2. none \in SUBSET Requests /\ FALSE \in BOOLEAN
      OBVIOUS
    <2>3. n = [k EXCEPT !.sent = none, !.postponed = none, !.will = 0, !.when = FALSE,
                        !.sentTill = 0, !.done = FALSE, !.again = FALSE]
      BY <1>1
    <2> HIDE DEF none
    <2>4. n \in ChatRecords
      BY <1>2, <2>2, <2>3 DEF ChatRecords
    <2> QED  BY <2>1, <2>4
  <1> HIDE DEF n
  <1>4. Kept(n)
    BY <1>3 DEF Kept
  <1> QED  BY <1>3, <1>4 DEF n

(* sendReadRequest(): the read to send is out.                             *)
Taken(k) == [k EXCEPT !.sentTill = k.will, !.will = 0, !.when = FALSE, !.done = FALSE]

LEMMA TakenFields ==
    ASSUME NEW k \in ChatRecords
    PROVE  LET n == Taken(k)
           IN /\ SameRequests(n, k) /\ n.entry = k.entry
              /\ n.will = 0 /\ n.when = FALSE /\ n.sentTill = k.will
              /\ n.done = FALSE /\ n.local = k.local /\ n.told = k.told
              /\ n.refused = k.refused /\ n.last = k.last /\ n.known = k.known
              /\ n.reader = k.reader
              /\ Kept(k) => Kept(n)
  <1> DEFINE n == Taken(k)
  <1>1. 0 \in MsgIds
    BY BoundsAssumption DEF MsgIds
  <1>2. /\ SameRequests(n, k) /\ n.entry = k.entry
        /\ n.will = 0 /\ n.when = FALSE /\ n.sentTill = k.will
        /\ n.done = FALSE /\ n.local = k.local /\ n.told = k.told
        /\ n.refused = k.refused /\ n.last = k.last /\ n.known = k.known
        /\ n.reader = k.reader
    BY <1>1 DEF ChatRecords, SameRequests, Taken
  <1> HIDE DEF n
  <1>3. Kept(k) => Kept(n)
    BY <1>2 DEF Kept, SameRequests
  <1> QED  BY <1>2, <1>3 DEF n

LEMMA ReadRequestKeeps ==
    ASSUME NEW k \in ChatRecords, Kept(k)
    PROVE  LET n == SendReadRequest(k)
           IN /\ n \in ChatRecords /\ Kept(n)
              /\ Sends(n, Taken(k), "ReadInbox", New(Taken(k), "ReadInbox", k.will, TRUE))
              /\ n.entry = k.entry /\ n.when = FALSE
  <1>1. Taken(k) \in ChatRecords /\ Kept(Taken(k)) /\ Taken(k).entry = k.entry
        /\ Taken(k).when = FALSE
    BY TakenFields DEF SameRequests
  <1>2. "ReadInbox" \in Types /\ k.will \in MsgIds /\ TRUE \in BOOLEAN
    BY DEF Types, ChatRecords
  <1>3. SendReadRequest(k) = SendRequest(Taken(k), "ReadInbox", k.will, TRUE)
    BY DEF SendReadRequest, Taken
  <1>4. Sends(SendReadRequest(k), Taken(k), "ReadInbox",
              New(Taken(k), "ReadInbox", k.will, TRUE))
    BY <1>1, <1>2, <1>3, SendRequestFields
  <1> QED  BY <1>1, <1>2, <1>3, <1>4, SendKeeps DEF Sends, SameReads

-----------------------------------------------------------------------------
(* What the handlers make of all chats and the timer.                      *)

Worlds == [chats : [Chats -> ChatRecords], timer : BOOLEAN, sends : BOOLEAN]

AllKept(w) == w \in Worlds /\ \A c \in Chats : Kept(w.chats[c])

Timed(w) == \A c \in Chats : w.chats[c].when => w.timer

LEMMA PutFields ==
    ASSUME NEW w \in Worlds, NEW c \in Chats, NEW k \in ChatRecords
    PROVE  LET v == Put(w, c, k)
           IN /\ v \in Worlds /\ v.timer = w.timer /\ v.sends = w.sends
              /\ v.chats[c] = k
              /\ \A d \in Chats \ {c} : v.chats[d] = w.chats[d]
  BY DEF Put, Worlds

LEMMA PutKeeps ==
    ASSUME NEW w, AllKept(w), NEW c \in Chats, NEW k \in ChatRecords, Kept(k)
    PROVE  AllKept(Put(w, c, k))
  BY PutFields DEF AllKept

LEMMA NoState ==
    ASSUME NEW k \in ChatRecords, ~HasState(k) PROVE k.when = FALSE /\ k.will = 0
  <1>1. k = [k EXCEPT !.sent = {}, !.postponed = {}, !.will = 0, !.when = FALSE,
                      !.sentTill = 0, !.done = FALSE, !.again = FALSE]
    BY DEF HasState, Cleared
  <1> QED  BY <1>1 DEF ChatRecords

(* sendReadRequests(): each State is forgotten, left alone or has its read *)
(* sent, and then every delayed read has the timer.                        *)
LEMMA SendReadsFields ==
    ASSUME NEW w, AllKept(w), NEW due
    PROVE  LET v == SendReadRequests(w, due)
           IN /\ AllKept(v) /\ v.sends = w.sends /\ Timed(v)
              /\ \A c \in Chats :
                    /\ v.chats[c].entry = w.chats[c].entry
                    /\ \/ ~w.sends /\ v.chats[c] = Cleared(w.chats[c])
                       \/ /\ w.sends /\ v.chats[c] = w.chats[c]
                          /\ w.chats[c].will = 0 \/ w.chats[c].when
                       \/ /\ w.sends /\ w.chats[c].will # 0
                          /\ v.chats[c] = SendReadRequest(w.chats[c])
  <1> DEFINE v == SendReadRequests(w, due)
             sends(c) == w.chats[c].will # 0 /\ (w.chats[c].when => c \in due)
             after == [c \in Chats |-> IF sends(c) THEN SendReadRequest(w.chats[c])
                                      ELSE w.chats[c]]
  <1>1. /\ w \in Worlds /\ w.chats \in [Chats -> ChatRecords] /\ w.sends \in BOOLEAN
        /\ \A c \in Chats : w.chats[c] \in ChatRecords /\ Kept(w.chats[c])
    BY DEF AllKept, Worlds
  <1>2. CASE ~w.sends
    <2>1. v = [w EXCEPT !.chats = [c \in Chats |-> Cleared(w.chats[c])]]
      BY <1>2 DEF SendReadRequests
    <2>2. \A c \in Chats : /\ Cleared(w.chats[c]) \in ChatRecords
                           /\ Kept(Cleared(w.chats[c]))
                           /\ Cleared(w.chats[c]).when = FALSE
                           /\ Cleared(w.chats[c]).entry = w.chats[c].entry
      BY <1>1, ClearedKeeps
    <2>3. /\ v \in Worlds /\ v.sends = w.sends
          /\ \A c \in Chats : v.chats[c] = Cleared(w.chats[c])
      BY <2>1, <2>2 DEF AllKept, Worlds
    <2> QED  BY <1>2, <2>2, <2>3 DEF AllKept, Timed
  <1>3. CASE w.sends /\ \A c \in Chats : ~HasState(w.chats[c])
    <2>1. v = w
      BY <1>3 DEF SendReadRequests
    <2>2. \A c \in Chats : w.chats[c].when = FALSE /\ w.chats[c].will = 0
      BY <1>1, <1>3, NoState
    <2> QED  BY <1>3, <2>1, <2>2 DEF Timed
  <1>4. CASE w.sends /\ ~(\A c \in Chats : ~HasState(w.chats[c]))
    <2>1. v = [w EXCEPT !.chats = after, !.timer = \E c \in Chats : after[c].when]
      BY <1>4 DEF SendReadRequests
    <2>2. \A c \in Chats : /\ SendReadRequest(w.chats[c]) \in ChatRecords
                           /\ Kept(SendReadRequest(w.chats[c]))
                           /\ SendReadRequest(w.chats[c]).entry = w.chats[c].entry
      BY <1>1, ReadRequestKeeps
    <2>3. after \in [Chats -> ChatRecords]
      BY <1>1, <2>2
    <2>4. \A c \in Chats : /\ Kept(after[c]) /\ after[c].entry = w.chats[c].entry
                           /\ \/ /\ after[c] = w.chats[c]
                                 /\ w.chats[c].will = 0 \/ w.chats[c].when
                              \/ /\ w.chats[c].will # 0
                                 /\ after[c] = SendReadRequest(w.chats[c])
      BY <1>1, <2>2
    <2> HIDE DEF after, sends
    <2> DEFINE t == \E c \in Chats : after[c].when
    <2>5. t \in BOOLEAN /\ v = [w EXCEPT !.chats = after, !.timer = t]
      BY <2>1
    <2> HIDE DEF t
    <2>6. v \in Worlds /\ v.chats = after /\ v.timer = t /\ v.sends = w.sends
      BY <1>1, <2>3, <2>5 DEF Worlds
    <2> HIDE DEF v
    <2>7. Timed(v)
      BY <2>6 DEF Timed, t
    <2> QED  BY <1>4, <2>4, <2>6, <2>7 DEF AllKept, v
  <1> QED  BY <1>2, <1>3, <1>4

StillTypes == {"unknown", "none", "same", "fewer"}

(* readInboxTill(): the reads of other chats may be sent, and the messages *)
(* of this one are read.                                                   *)
LEMMA ReadInboxKeeps ==
    ASSUME NEW w, AllKept(w), Timed(w), NEW c \in Chats, NEW till \in MsgIds,
           NEW force \in BOOLEAN, NEW still, NEW due
    PROVE  LET v == ReadInboxTill(w, c, till, force, still, due)
           IN /\ AllKept(v) /\ Timed(v) /\ v.sends = w.sends
              /\ \A d \in Chats : v.chats[d].entry = w.chats[d].entry
  <1> DEFINE k == w.chats[c]
             skipped == Skipped(k, till, force)
             same == ~force /\ still = "same"
             now == force \/ still \in {"unknown", "none"}
             l == Larger(k.will, till)
             m == [k EXCEPT !.will = l, !.when = ~now]
             asked == Put(w, c, m)
             result == IF skipped \/ same THEN w
                       ELSE IF now THEN SendReadRequests(asked, due)
                       ELSE [asked EXCEPT !.timer = @ \/ ~k.when]
             marks == \/ ~skipped /\ k.will < till /\ still # "unknown"
                      \/ k.known /\ till = k.last
             v == ReadInboxTill(w, c, till, force, still, due)
  <1>1. v = IF marks THEN Put(result, c, SetInboxReadTill(result.chats[c], till))
            ELSE result
    BY DEF ReadInboxTill
  <1>2. /\ w \in Worlds /\ k \in ChatRecords /\ Kept(k)
        /\ \A d \in Chats : w.chats[d] \in ChatRecords
    BY DEF AllKept, Worlds
  <1>3. ASSUME ~skipped
        PROVE  /\ m \in ChatRecords /\ Kept(m) /\ m.entry = k.entry
               /\ m.when = ~now /\ m.will = l
    <2>1. l \in MsgIds /\ k.sentTill \in MsgIds /\ till <= l
      BY <1>2, LargerIsOne DEF ChatRecords
    <2>2. k.sentTill < till
      BY <1>2, <1>3, BoundsAssumption DEF Skipped, ChatRecords, MsgIds
    <2> DEFINE b == ~now
    <2>3. b \in BOOLEAN /\ m = [k EXCEPT !.will = l, !.when = b]
      OBVIOUS
    <2> HIDE DEF l, now, b
    <2>4. /\ m \in ChatRecords /\ m.entry = k.entry /\ m.when = b /\ m.will = l
          /\ m.sent = k.sent /\ m.postponed = k.postponed /\ m.again = k.again
          /\ m.sentTill = k.sentTill
      BY <1>2, <2>1, <2>3 DEF ChatRecords
    <2> HIDE DEF m
    <2>5. m.will > m.sentTill
      BY <2>1, <2>2, <2>4, BoundsAssumption DEF MsgIds
    <2>6. Kept(m)
      BY <1>2, <2>4, <2>5 DEF Kept
    <2> QED  BY <2>4, <2>6 DEF b
  <1> HIDE DEF m, l, skipped, same, marks
  <1>4. ASSUME ~skipped
        PROVE  /\ AllKept(asked) /\ asked.timer = w.timer /\ asked.sends = w.sends
               /\ asked.chats[c] = m /\ asked \in Worlds
               /\ \A d \in Chats \ {c} : asked.chats[d] = w.chats[d]
               /\ \A d \in Chats : asked.chats[d].entry = w.chats[d].entry
    <2>1. /\ asked \in Worlds /\ asked.timer = w.timer /\ asked.sends = w.sends
          /\ asked.chats[c] = m
          /\ \A d \in Chats \ {c} : asked.chats[d] = w.chats[d]
      BY <1>2, <1>3, <1>4, PutFields
    <2>2. AllKept(asked)
      BY <1>3, <1>4, PutKeeps
    <2> HIDE DEF asked
    <2> QED  BY <1>3, <1>4, <2>1, <2>2
  <1>5. /\ AllKept(result) /\ Timed(result) /\ result.sends = w.sends
        /\ \A d \in Chats : result.chats[d].entry = w.chats[d].entry
    <2>1. CASE skipped \/ same
      BY <2>1
    <2>2. CASE ~(skipped \/ same) /\ now
      <3>1. result = SendReadRequests(asked, due)
        BY <2>2
      <3> QED  BY <1>4, <2>2, <3>1, SendReadsFields
    <2>3. CASE ~(skipped \/ same) /\ ~now
      <3> HIDE DEF asked
      <3> DEFINE t == asked.timer \/ ~k.when
      <3>1. t \in BOOLEAN /\ result = [asked EXCEPT !.timer = t]
        BY <2>3
      <3> HIDE DEF t, result
      <3>2. /\ result \in Worlds /\ result.chats = asked.chats /\ result.timer = t
            /\ result.sends = asked.sends
        BY <1>4, <2>3, <3>1 DEF Worlds
      <3>3. Timed(result)
        <4>1. \A d \in Chats \ {c} : w.chats[d].when => w.timer
          BY DEF Timed
        <4>2. k.when => w.timer
          BY DEF Timed
        <4>3. t
          BY <1>4, <2>3, <4>2 DEF t
        <4> QED  BY <3>2, <4>3 DEF Timed
      <3> QED  BY <1>4, <2>3, <3>2, <3>3 DEF AllKept
    <2> QED  BY <2>1, <2>2, <2>3
  <1> HIDE DEF result
  <1>6. CASE marks
    <2> DEFINE n == SetInboxReadTill(result.chats[c], till)
    <2>1. /\ result \in Worlds /\ result.chats[c] \in ChatRecords
          /\ Kept(result.chats[c])
      BY <1>5 DEF AllKept, Worlds
    <2>2. /\ n \in ChatRecords /\ Kept(n) /\ n.entry = result.chats[c].entry
          /\ n.when = result.chats[c].when
      BY <2>1, SetInboxFields DEF SameRequests
    <2>3. v = Put(result, c, n)
      BY <1>1, <1>6
    <2> HIDE DEF n, v
    <2>4. /\ AllKept(v) /\ v.timer = result.timer /\ v.sends = result.sends
          /\ v.chats[c] = n
          /\ \A d \in Chats \ {c} : v.chats[d] = result.chats[d]
      BY <1>5, <2>1, <2>2, <2>3, PutFields, PutKeeps
    <2> QED  BY <1>5, <2>2, <2>4 DEF Timed, v
  <1>7. CASE ~marks
    BY <1>1, <1>5, <1>7
  <1> QED  BY <1>6, <1>7

(* The end of dialogEntryApplied(): a read that is done counts as local.   *)
Settled(j, till) ==
    [SetInboxReadTill(j, till) EXCEPT !.sentTill = IF till = @ THEN 0 ELSE @]

LEMMA SettledFields ==
    ASSUME NEW j \in ChatRecords, NEW till \in MsgIds
    PROVE  LET n == Settled(j, till)
           IN /\ SameRequests(n, j) /\ n.entry = j.entry
              /\ n.sentTill = (IF till = j.sentTill THEN 0 ELSE j.sentTill)
              /\ n.local = Larger(j.local, till)
              /\ n.will = j.will /\ n.when = j.when /\ n.done = j.done
              /\ n.told = j.told /\ n.refused = j.refused
              /\ Kept(j) => Kept(n)
  <1> DEFINE i == SetInboxReadTill(j, till)
             s == IF till = j.sentTill THEN 0 ELSE j.sentTill
             n == Settled(j, till)
  <1>1. /\ SameRequests(i, j) /\ i.entry = j.entry
        /\ i.local = Larger(j.local, till)
        /\ i.will = j.will /\ i.when = j.when /\ i.sentTill = j.sentTill
        /\ i.done = j.done /\ i.told = j.told /\ i.refused = j.refused
    BY SetInboxFields
  <1>2. s \in MsgIds
    BY BoundsAssumption DEF MsgIds, ChatRecords
  <1> HIDE DEF i
  <1>3. n = [i EXCEPT !.sentTill = s]
    BY <1>1 DEF Settled, i
  <1>4. s = 0 \/ s = j.sentTill
    OBVIOUS
  <1> HIDE DEF s
  <1>5. /\ SameRequests(n, j) /\ n.entry = j.entry /\ n.sentTill = s
        /\ n.local = Larger(j.local, till)
        /\ n.will = j.will /\ n.when = j.when /\ n.done = j.done
        /\ n.told = j.told /\ n.refused = j.refused
    BY <1>1, <1>2, <1>3 DEF ChatRecords, SameRequests
  <1> HIDE DEF n
  <1>6. n.will \in MsgIds
    BY <1>5 DEF SameRequests, ChatRecords
  <1>7. Kept(j) => Kept(n)
    BY <1>4, <1>5, <1>6, BoundsAssumption DEF Kept, SameRequests, MsgIds
  <1> QED  BY <1>5, <1>7 DEF n, s

(* dialogEntryApplied(): nobody waits for the entry any more, unless it is *)
(* to be asked again; in the end a read that is done counts as local.      *)
LEMMA AppliedFields ==
    ASSUME NEW w, AllKept(w), Timed(w), NEW c \in Chats, NEW last \in MsgIds,
           NEW still, NEW due, NEW stale
    PROVE  LET v == DialogEntryApplied(w, c, last, still, due, stale)
           IN /\ AllKept(v) /\ Timed(v) /\ v.sends = w.sends
              /\ \A d \in Chats \ {c} : v.chats[d].entry = w.chats[d].entry
              /\ \/ w.chats[c].again /\ v = w
                 \/ ~w.chats[c].again /\ v.chats[c].entry = "none"
  <1> DEFINE k == w.chats[c]
             i == [k EXCEPT !.entry = "none", !.reader = FALSE, !.known = TRUE]
             applied == Put(w, c, i)
             read == IF k.reader
                     THEN ReadInboxTill(applied, c, last, FALSE, still, due)
                     ELSE applied
             j == read.chats[c]
             till == IF j.done THEN j.sentTill
                     ELSE IF stale /\ k.done /\ HasState(k) /\ ~HasState(j)
                     THEN k.sentTill ELSE 0
             v == DialogEntryApplied(w, c, last, still, due, stale)
  <1>1. CASE k.again
    <2>1. v = w
      BY <1>1 DEF DialogEntryApplied
    <2> QED  BY <1>1, <2>1
  <1>2. CASE ~k.again
    <2>1. v = Put(read, c, Settled(j, till))
      BY <1>2 DEF DialogEntryApplied, Settled
    <2>2. k \in ChatRecords /\ Kept(k) /\ w \in Worlds
      BY DEF AllKept, Worlds
    <2>3. /\ i \in ChatRecords /\ i.entry = "none" /\ i.when = k.when
          /\ i.sent = k.sent /\ i.postponed = k.postponed /\ i.again = k.again
          /\ i.will = k.will /\ i.sentTill = k.sentTill
      BY <2>2 DEF ChatRecords
    <2> HIDE DEF i
    <2>4. Kept(i)
      BY <1>2, <2>2, <2>3 DEF Kept
    <2>5. /\ AllKept(applied) /\ Timed(applied) /\ applied.sends = w.sends
          /\ applied.chats[c] = i
          /\ \A d \in Chats \ {c} : applied.chats[d].entry = w.chats[d].entry
      <3>1. /\ applied \in Worlds /\ applied.timer = w.timer
            /\ applied.sends = w.sends /\ applied.chats[c] = i
            /\ \A d \in Chats \ {c} : applied.chats[d] = w.chats[d]
        BY <2>2, <2>3, PutFields
      <3>2. AllKept(applied)
        BY <2>3, <2>4, PutKeeps
      <3> HIDE DEF applied
      <3> QED  BY <2>3, <3>1, <3>2 DEF Timed
    <2> HIDE DEF applied
    <2>6. /\ AllKept(read) /\ Timed(read) /\ read.sends = w.sends
          /\ read.chats[c].entry = "none"
          /\ \A d \in Chats \ {c} : read.chats[d].entry = w.chats[d].entry
      <3>1. CASE k.reader
        <4> DEFINE force == FALSE
        <4>1. force \in BOOLEAN
          OBVIOUS
        <4>2. read = ReadInboxTill(applied, c, last, force, still, due)
          BY <3>1
        <4> HIDE DEF force
        <4> HIDE DEF read
        <4>3. /\ AllKept(read) /\ Timed(read) /\ read.sends = applied.sends
              /\ \A d \in Chats : read.chats[d].entry = applied.chats[d].entry
          BY <2>5, <4>1, <4>2, ReadInboxKeeps
        <4> QED  BY <2>3, <2>5, <4>3
      <3>2. CASE ~k.reader
        BY <2>3, <2>5, <3>2
      <3> QED  BY <3>1, <3>2
    <2> HIDE DEF read
    <2>7. /\ j \in ChatRecords /\ Kept(j) /\ read \in Worlds
      BY <2>6 DEF AllKept, Worlds
    <2>8. till \in MsgIds
      BY <2>2, <2>7, BoundsAssumption DEF ChatRecords, MsgIds
    <2> HIDE DEF till
    <2> DEFINE n == Settled(j, till)
    <2>9. n \in ChatRecords /\ Kept(n) /\ n.entry = j.entry /\ n.when = j.when
      BY <2>7, <2>8, SettledFields DEF SameRequests
    <2> HIDE DEF n
    <2>10. v = Put(read, c, n)
      BY <2>1 DEF n
    <2> HIDE DEF v
    <2>11. /\ v \in Worlds /\ v.timer = read.timer /\ v.sends = read.sends
           /\ v.chats[c] = n
           /\ \A d \in Chats \ {c} : v.chats[d] = read.chats[d]
      BY <2>7, <2>9, <2>10, PutFields
    <2>12. AllKept(v)
      BY <2>6, <2>9, <2>10, PutKeeps
    <2>13. Timed(v)
      BY <2>6, <2>9, <2>11 DEF Timed
    <2>14. /\ v.chats[c].entry = "none" /\ v.sends = w.sends
           /\ \A d \in Chats \ {c} : v.chats[d].entry = w.chats[d].entry
      BY <2>6, <2>9, <2>11
    <2> QED  BY <1>2, <2>12, <2>13, <2>14 DEF v
  <1> QED  BY <1>1, <1>2

-----------------------------------------------------------------------------
(* What the actions do to the record of a chat before they call these.     *)

SameState(n, k) ==
    /\ n \in ChatRecords /\ n.sent = k.sent /\ n.postponed = k.postponed
    /\ n.next = k.next /\ n.again = k.again /\ n.entry = k.entry

(* MTP has called the handlers of the request r.                           *)
Gone(k, r) == [k EXCEPT !.wire = @ \ {r}]

LEMMA GoneFields ==
    ASSUME NEW k \in ChatRecords, NEW r
    PROVE  LET n == Gone(k, r)
           IN /\ SameState(n, k) /\ SameReads(n, k) /\ n.asks = k.asks
              /\ n.wire = k.wire \ {r}
              /\ Kept(k) => Kept(n)
  <1> DEFINE n == Gone(k, r)
  <1>1. /\ SameState(n, k) /\ SameReads(n, k) /\ n.asks = k.asks
        /\ n.wire = k.wire \ {r}
    <2> DEFINE w == k.wire \ {r}
    <2>1. w \in SUBSET Requests /\ n = [k EXCEPT !.wire = w]
      BY DEF ChatRecords, Gone
    <2> HIDE DEF w
    <2>2. /\ SameState(n, k) /\ SameReads(n, k) /\ n.asks = k.asks /\ n.wire = w
      BY <2>1 DEF ChatRecords, SameState, SameReads
    <2> QED  BY <2>2 DEF w
  <1> HIDE DEF n
  <1>2. Kept(k) => Kept(n)
    BY <1>1 DEF Kept, SameState, SameReads
  <1> QED  BY <1>1, <1>2 DEF n

(* The caller takes back a request that was put off.                       *)
Withdrawn(k, r) == [k EXCEPT !.postponed = @ \ {r}]

LEMMA WithdrawnFields ==
    ASSUME NEW k \in ChatRecords, NEW r
    PROVE  LET n == Withdrawn(k, r)
           IN /\ n \in ChatRecords /\ SameReads(n, k) /\ n.asks = k.asks
              /\ n.wire = k.wire /\ n.sent = k.sent /\ n.next = k.next
              /\ n.again = k.again /\ n.entry = k.entry
              /\ n.postponed = k.postponed \ {r}
              /\ Kept(k) => Kept(n)
  <1> DEFINE n == Withdrawn(k, r)
  <1>1. /\ n \in ChatRecords /\ SameReads(n, k) /\ n.asks = k.asks
        /\ n.wire = k.wire /\ n.sent = k.sent /\ n.next = k.next
        /\ n.again = k.again /\ n.entry = k.entry
        /\ n.postponed = k.postponed \ {r}
    <2> DEFINE p == k.postponed \ {r}
    <2>1. p \in SUBSET Requests /\ n = [k EXCEPT !.postponed = p]
      BY DEF ChatRecords, Withdrawn
    <2> HIDE DEF p
    <2>2. /\ n \in ChatRecords /\ SameReads(n, k) /\ n.asks = k.asks
          /\ n.wire = k.wire /\ n.sent = k.sent /\ n.next = k.next
          /\ n.again = k.again /\ n.entry = k.entry /\ n.postponed = p
      BY <2>1 DEF ChatRecords, SameReads
    <2> QED  BY <2>2 DEF p
  <1> HIDE DEF n
  <1>2. Kept(k) => Kept(n)
    BY <1>1 DEF Kept, SameReads
  <1> QED  BY <1>1, <1>2 DEF n

(* The last message is another one, or no longer known.                    *)
LastIs(k, last, known) == [k EXCEPT !.last = last, !.known = known]

LEMMA LastIsFields ==
    ASSUME NEW k \in ChatRecords, NEW last \in MsgIds, NEW known \in BOOLEAN
    PROVE  LET n == LastIs(k, last, known)
           IN /\ SameState(n, k) /\ n.asks = k.asks /\ n.wire = k.wire
              /\ n.last = last /\ n.known = known
              /\ n.will = k.will /\ n.when = k.when /\ n.sentTill = k.sentTill
              /\ n.done = k.done /\ n.local = k.local /\ n.told = k.told
              /\ n.refused = k.refused /\ n.reader = k.reader
              /\ Kept(k) => Kept(n)
  <1> DEFINE n == LastIs(k, last, known)
  <1>1. /\ SameState(n, k) /\ n.asks = k.asks /\ n.wire = k.wire
        /\ n.last = last /\ n.known = known
        /\ n.will = k.will /\ n.when = k.when /\ n.sentTill = k.sentTill
        /\ n.done = k.done /\ n.local = k.local /\ n.told = k.told
        /\ n.refused = k.refused /\ n.reader = k.reader
    BY DEF ChatRecords, SameState, LastIs
  <1> HIDE DEF n
  <1>2. Kept(k) => Kept(n)
    BY <1>1 DEF Kept, SameState
  <1> QED  BY <1>1, <1>2 DEF n

(* The delay of the read to send is over.                                  *)
Hurried(k) == [k EXCEPT !.when = FALSE]

LEMMA HurriedFields ==
    ASSUME NEW k \in ChatRecords
    PROVE  LET n == Hurried(k)
           IN /\ SameState(n, k) /\ n.asks = k.asks /\ n.wire = k.wire
              /\ n.will = k.will /\ n.when = FALSE /\ n.sentTill = k.sentTill
              /\ n.done = k.done /\ n.local = k.local /\ n.told = k.told
              /\ n.refused = k.refused
              /\ Kept(k) => Kept(n)
  <1> DEFINE n == Hurried(k)
  <1>1. /\ SameState(n, k) /\ n.asks = k.asks /\ n.wire = k.wire
        /\ n.will = k.will /\ n.when = FALSE /\ n.sentTill = k.sentTill
        /\ n.done = k.done /\ n.local = k.local /\ n.told = k.told
        /\ n.refused = k.refused
    BY DEF ChatRecords, SameState, Hurried
  <1> HIDE DEF n
  <1>2. Kept(k) => Kept(n)
    BY <1>1 DEF Kept, SameState
  <1> QED  BY <1>1, <1>2 DEF n

(* The server knows that more is read, or would not take it.               *)
Told(k, told, no) == [k EXCEPT !.told = told, !.refused = @ \/ no]

LEMMA ToldFields ==
    ASSUME NEW k \in ChatRecords, NEW told \in MsgIds, NEW no \in BOOLEAN
    PROVE  LET n == Told(k, told, no)
           IN /\ SameState(n, k) /\ n.asks = k.asks /\ n.wire = k.wire
              /\ n.will = k.will /\ n.when = k.when /\ n.sentTill = k.sentTill
              /\ n.done = k.done /\ n.local = k.local /\ n.told = told
              /\ n.refused = (k.refused \/ no)
              /\ n.last = k.last /\ n.known = k.known /\ n.reader = k.reader
              /\ Kept(k) => Kept(n)
  <1> DEFINE n == Told(k, told, no)
             b == k.refused \/ no
  <1>1. b \in BOOLEAN /\ n = [k EXCEPT !.told = told, !.refused = b]
    BY DEF Told
  <1> HIDE DEF b
  <1>2. /\ SameState(n, k) /\ n.asks = k.asks /\ n.wire = k.wire
        /\ n.will = k.will /\ n.when = k.when /\ n.sentTill = k.sentTill
        /\ n.done = k.done /\ n.local = k.local /\ n.told = told
        /\ n.refused = b
        /\ n.last = k.last /\ n.known = k.known /\ n.reader = k.reader
    BY <1>1 DEF ChatRecords, SameState
  <1> HIDE DEF n
  <1>3. Kept(k) => Kept(n)
    BY <1>2 DEF Kept, SameState
  <1> QED  BY <1>2, <1>3 DEF n, b

(* finished(): what the answer to a read makes of the one sent last.       *)
ReadAnswered(k, till) ==
    LET mine == [k EXCEPT !.done = TRUE]
    IN IF k.sentTill # till THEN k
       ELSE IF k.local < till THEN RequestDialogEntry(mine, FALSE)
       ELSE [mine EXCEPT !.sentTill = 0]

LEMMA ReadAnsweredFields ==
    ASSUME NEW k \in ChatRecords, Kept(k), NEW till \in MsgIds
    PROVE  LET n == ReadAnswered(k, till)
           IN /\ SameRequests(n, k) /\ Kept(n)
              /\ n.will = k.will /\ n.when = k.when /\ n.local = k.local
              /\ n.told = k.told /\ n.refused = k.refused
              /\ n.entry = k.entry \/ n.entry = "pending"
              /\ \/ n.sentTill = k.sentTill /\ n.done = k.done
                 \/ n.sentTill = k.sentTill /\ k.sentTill = till
                 \/ n.sentTill = 0 /\ k.sentTill = till /\ till <= k.local
  <1> DEFINE n == ReadAnswered(k, till)
             mine == [k EXCEPT !.done = TRUE]
  <1>1. CASE k.sentTill # till
    <2>1. n = k
      BY <1>1 DEF ReadAnswered
    <2> QED  BY <2>1 DEF SameRequests
  <1>2. CASE k.sentTill = till
    <2>1. /\ SameRequests(mine, k) /\ mine.will = k.will /\ mine.when = k.when
          /\ mine.local = k.local /\ mine.told = k.told /\ mine.refused = k.refused
          /\ mine.entry = k.entry /\ mine.sentTill = k.sentTill
      BY DEF ChatRecords, SameRequests
    <2>2. Kept(mine)
      BY <2>1 DEF Kept, SameRequests
    <2>3. n = IF k.local < till THEN RequestDialogEntry(mine, FALSE)
              ELSE [mine EXCEPT !.sentTill = 0]
      BY <1>2 DEF ReadAnswered
    <2> HIDE DEF mine
    <2>4. CASE k.local < till
      <3> DEFINE reader == FALSE
      <3>1. reader \in BOOLEAN /\ n = RequestDialogEntry(mine, reader)
        BY <2>3, <2>4
      <3> HIDE DEF reader, n
      <3>2. /\ SameRequests(n, mine) /\ Kept(n)
            /\ n.entry = (IF mine.entry = "none" THEN "pending" ELSE mine.entry)
            /\ n.will = mine.will /\ n.when = mine.when
            /\ n.sentTill = mine.sentTill
            /\ n.local = mine.local /\ n.told = mine.told
            /\ n.refused = mine.refused
        BY <2>1, <2>2, <3>1, RequestEntryFields DEF SameRequests
      <3> QED  BY <1>2, <2>1, <3>2 DEF SameRequests, n
    <2>5. CASE ~(k.local < till)
      <3>1. 0 \in MsgIds
        BY BoundsAssumption DEF MsgIds
      <3>2. n = [mine EXCEPT !.sentTill = 0]
        BY <2>3, <2>5
      <3>3. /\ SameRequests(n, mine) /\ n.entry = mine.entry
            /\ n.will = mine.will /\ n.when = mine.when /\ n.sentTill = 0
            /\ n.local = mine.local /\ n.told = mine.told
            /\ n.refused = mine.refused
        BY <2>1, <3>1, <3>2 DEF ChatRecords, SameRequests
      <3> HIDE DEF n
      <3>4. n.will \in MsgIds /\ mine.sentTill \in MsgIds /\ k.local \in MsgIds
        BY <2>1, <3>3 DEF ChatRecords, SameRequests
      <3>5. n.will # 0 => n.will > n.sentTill
        BY <3>3, <3>4, BoundsAssumption DEF MsgIds
      <3>6. Kept(n)
        BY <2>2, <3>3, <3>5 DEF Kept, SameRequests
      <3>7. till <= k.local
        BY <2>5, <3>4, BoundsAssumption DEF MsgIds
      <3> QED  BY <1>2, <2>1, <3>3, <3>6, <3>7 DEF SameRequests, n
    <2> QED  BY <2>4, <2>5
  <1> QED  BY <1>1, <1>2

(* getPeerDialogs has been answered; the server may tell a read with it.   *)
EntryTold(k, a, till, no) ==
    [SetInboxReadTill(k, till) EXCEPT !.asks = @ \ {a}, !.refused = @ \/ no]

LEMMA EntryToldFields ==
    ASSUME NEW k \in ChatRecords, NEW a \in Asks, NEW till \in MsgIds, NEW no \in BOOLEAN
    PROVE  LET n == EntryTold(k, a, till, no)
           IN /\ SameState(n, k) /\ n.asks = k.asks \ {a} /\ n.wire = k.wire
              /\ n.will = k.will /\ n.when = k.when /\ n.sentTill = k.sentTill
              /\ n.done = k.done /\ n.local = Larger(k.local, till)
              /\ n.told = k.told /\ n.refused = (k.refused \/ no)
              /\ n.last = k.last /\ n.known = k.known /\ n.reader = k.reader
              /\ Kept(k) => Kept(n)
  <1> DEFINE n == EntryTold(k, a, till, no)
             i == SetInboxReadTill(k, till)
  <1>1. /\ SameRequests(i, k) /\ i.entry = k.entry
        /\ i.local = Larger(k.local, till)
        /\ i.will = k.will /\ i.when = k.when /\ i.sentTill = k.sentTill
        /\ i.done = k.done /\ i.told = k.told /\ i.refused = k.refused
        /\ i.last = k.last /\ i.known = k.known /\ i.reader = k.reader
        /\ Kept(k) => Kept(i)
    BY SetInboxFields
  <1> DEFINE b == i.refused \/ no
             q == i.asks \ {a}
  <1>2. n = [i EXCEPT !.asks = q, !.refused = b]
    BY DEF EntryTold
  <1> HIDE DEF i
  <1>3. q \in SUBSET Asks /\ b \in BOOLEAN
    BY <1>1 DEF SameRequests, ChatRecords
  <1> HIDE DEF b, q
  <1>4. /\ SameState(n, i) /\ n.asks = q /\ n.wire = i.wire
        /\ n.will = i.will /\ n.when = i.when /\ n.sentTill = i.sentTill
        /\ n.done = i.done /\ n.local = i.local
        /\ n.told = i.told /\ n.refused = b
        /\ n.last = i.last /\ n.known = i.known /\ n.reader = i.reader
    BY <1>1, <1>2, <1>3 DEF ChatRecords, SameState, SameRequests
  <1> HIDE DEF n
  <1>5. Kept(i) => Kept(n)
    BY <1>4 DEF Kept, SameState
  <1>6. n.asks = k.asks \ {a}
    BY <1>1, <1>4 DEF q, SameRequests
  <1>7. n.refused = (k.refused \/ no)
    BY <1>1, <1>4 DEF b
  <1> QED  BY <1>1, <1>4, <1>5, <1>6, <1>7 DEF n, SameState, SameRequests

-----------------------------------------------------------------------------
(* The invariant that holds with and without ghost mode.                   *)

PendingIsPosted == \A c \in Chats : chat[c].entry = "pending" => posted

ChatsOK ==
    /\ chat \in [Chats -> ChatRecords] /\ timer \in BOOLEAN /\ posted \in BOOLEAN
    /\ \A c \in Chats : Kept(chat[c])
    /\ DelayedReadHasTimer
    /\ PendingIsPosted

Bounded ==
    /\ sendReads \in BOOLEAN
    /\ ghosted \in 0..MaxGhost /\ calls \in 0..MaxCalls
    /\ refused \in 0..MaxRefused

KInv == ChatsOK /\ Bounded

LEMMA WorldIsKept ==
    ASSUME KInv
    PROVE  /\ AllKept(World) /\ Timed(World) /\ World.sends = sendReads
           /\ World.chats = chat /\ World.timer = timer
  <1>1. /\ World.sends = sendReads /\ World.chats = chat /\ World.timer = timer
        /\ World \in Worlds
    BY DEF KInv, ChatsOK, Bounded, World, Worlds
  <1> QED  BY <1>1 DEF KInv, ChatsOK, AllKept, Timed, DelayedReadHasTimer

LEMMA WithIsKept ==
    ASSUME KInv, NEW c \in Chats, NEW k \in ChatRecords, Kept(k),
           k.when => chat[c].when
    PROVE  LET w == With(c, k)
           IN /\ AllKept(w) /\ Timed(w) /\ w.sends = sendReads /\ w.timer = timer
              /\ w.chats[c] = k
              /\ \A d \in Chats \ {c} : w.chats[d] = chat[d]
  <1> DEFINE w == With(c, k)
  <1>1. /\ AllKept(World) /\ Timed(World) /\ World.sends = sendReads
        /\ World.chats = chat /\ World.timer = timer
    BY WorldIsKept
  <1>2. World \in Worlds
    BY <1>1 DEF AllKept
  <1>3. AllKept(w)
    BY <1>1, PutKeeps DEF With
  <1>4. /\ w.timer = timer /\ w.sends = sendReads /\ w.chats[c] = k
        /\ \A d \in Chats \ {c} : w.chats[d] = chat[d]
    BY <1>1, <1>2, PutFields DEF With
  <1> HIDE DEF w
  <1>5. Timed(w)
    BY <1>1, <1>4 DEF Timed
  <1> QED  BY <1>3, <1>4, <1>5 DEF w

(* A handler has run, which has at most the chat c wait for its entry.     *)
LEMMA HandlerKeeps ==
    ASSUME KInv, NEW w, AllKept(w), Timed(w), NEW c,
           \A d \in Chats \ {c} : w.chats[d].entry = chat[d].entry,
           chat' = w.chats, timer' = w.timer, Posts(w.chats)
    PROVE  ChatsOK'
  <1> DEFINE pending == {d \in Chats : w.chats[d].entry = "pending"}
             new == Cardinality(pending) = 1 /\ \E d \in pending : chat[d].entry # "pending"
  <1>1. /\ chat' \in [Chats -> ChatRecords] /\ timer' \in BOOLEAN
        /\ \A d \in Chats : Kept(chat'[d])
    BY DEF AllKept, Worlds
  <1>2. DelayedReadHasTimer'
    BY DEF Timed, DelayedReadHasTimer
  <1>3. posted' = (posted \/ new)
    BY DEF Posts
  <1>4. ASSUME NEW d \in Chats, w.chats[d].entry = "pending", ~posted PROVE new
    <2>1. \A x \in Chats : chat[x].entry # "pending"
      BY <1>4 DEF KInv, ChatsOK, PendingIsPosted
    <2>2. d = c
      BY <1>4, <2>1
    <2>3. pending = {c}
      BY <1>4, <2>1, <2>2
    <2>4. Cardinality(pending) = 1
      BY <2>3, FS_Singleton
    <2>5. d \in pending /\ chat[d].entry # "pending"
      BY <1>4, <2>1
    <2> QED  BY <2>4, <2>5
  <1>5. posted \in BOOLEAN
    BY DEF KInv, ChatsOK
  <1> HIDE DEF new
  <1>6. posted' \in BOOLEAN
    BY <1>3
  <1>7. \A d \in Chats : w.chats[d].entry = "pending" => posted'
    BY <1>3, <1>4, <1>5
  <1> QED  BY <1>1, <1>2, <1>6, <1>7 DEF ChatsOK, PendingIsPosted

LEMMA OneChatKeeps ==
    ASSUME KInv, NEW c \in Chats, NEW k \in ChatRecords, Kept(k),
           k.when => chat[c].when, Become(With(c, k))
    PROVE  ChatsOK'
  <1> DEFINE w == With(c, k)
  <1>1. /\ AllKept(w) /\ Timed(w) /\ \A d \in Chats \ {c} : w.chats[d] = chat[d]
    BY WithIsKept
  <1>2. chat' = w.chats /\ timer' = w.timer /\ Posts(w.chats)
    BY DEF Become
  <1> HIDE DEF w
  <1> QED  BY <1>1, <1>2, HandlerKeeps

LEMMA BoundsKept ==
    ASSUME KInv, [Next]_vars
    PROVE  Bounded'
  <1> USE BoundsAssumption
  <1>1. ASSUME NEW c \in Chats, Calls(c) PROVE Bounded'
    <2>1. /\ Call(c) \/ UNCHANGED <<ghosted, calls>>
          /\ UNCHANGED <<sendReads, refused>>
      BY <1>1 DEF Calls, LoadHistory, SendMessage, DeleteAllMessages, DeleteMessages,
                  CancelRequest, ReadElsewhere, LeaveChat, NewMessage, View,
                  ReadInbox, Become
    <2> QED  BY <2>1 DEF KInv, Bounded, Call
  <1>2. ASSUME NEW c \in Chats, Answers(c) PROVE Bounded'
    <2>1. /\ Call(c) \/ UNCHANGED <<ghosted, calls>>
          /\ UNCHANGED sendReads
          /\ \/ UNCHANGED refused
             \/ refused < MaxRefused /\ refused' = refused + 1
      <3>1. ASSUME NEW r \in chat[c].wire, NEW done \in BOOLEAN, NEW due,
                   AnswerRead(c, r, done, due)
            PROVE  /\ UNCHANGED <<sendReads, ghosted, calls>>
                   /\ \/ UNCHANGED refused
                      \/ refused < MaxRefused /\ refused' = refused + 1
        BY <3>1 DEF AnswerRead
      <3>2. ASSUME NEW a, NEW done \in BOOLEAN, NEW due, NEW still, NEW stale,
                   AnswerEntry(c, a, done, still, due, stale)
            PROVE  /\ UNCHANGED <<sendReads, ghosted, calls>>
                   /\ \/ UNCHANGED refused
                      \/ refused < MaxRefused /\ refused' = refused + 1
        BY <3>2 DEF AnswerEntry
      <3>3. ASSUME NEW r, NEW more \in BOOLEAN, AnswerDelete(c, r, more)
            PROVE  /\ Call(c) \/ UNCHANGED <<ghosted, calls>>
                   /\ UNCHANGED <<sendReads, refused>>
        BY <3>3 DEF AnswerDelete, Become
      <3> QED  BY <1>2, <3>1, <3>2, <3>3
               DEF Answers, AnswerHistory, AnswerSend, AnswerDeleteChannel,
                   AnswerReadHistory, DialogsSlice, Become
    <2> QED  BY <2>1 DEF KInv, Bounded, Call
  <1>3. ASSUME NEW due, ReadRequestsTimer(due) PROVE Bounded'
    BY <1>3 DEF KInv, Bounded, ReadRequestsTimer, Become
  <1>4. CASE SendDialogRequests
    BY <1>4 DEF KInv, Bounded, SendDialogRequests, budget
  <1>5. CASE GhostMode
    <2>1. Ghost /\ UNCHANGED refused /\ (sendReads' = ~sendReads \/ UNCHANGED sendReads)
      BY <1>5 DEF GhostMode, SetSendReadMessages, ReadHistory, LocalRead, Become
    <2>2. sendReads' \in BOOLEAN
      BY <2>1 DEF KInv, Bounded
    <2> QED  BY <2>1, <2>2 DEF KInv, Bounded, Ghost
  <1>6. CASE UNCHANGED vars
    BY <1>6 DEF KInv, Bounded, vars, budget
  <1> QED  BY <1>1, <1>2, <1>3, <1>4, <1>5, <1>6 DEF Next

LEMMA TypeNames ==
    /\ "History" \in Types /\ "ReadInbox" \in Types /\ "Delete" \in Types
    /\ "Send" \in Types /\ 0 \in MsgIds
  BY BoundsAssumption DEF Types, MsgIds

LEMMA RequestTypes ==
    ASSUME NEW k \in ChatRecords, NEW r \in k.wire \cup k.sent \cup k.postponed
    PROVE  r \in Requests /\ r.id \in Nat /\ r.till \in MsgIds /\ r.ends \in BOOLEAN
  BY DEF ChatRecords, Requests

LEMMA ChatTypes ==
    ASSUME KInv, NEW c \in Chats
    PROVE  chat[c] \in ChatRecords /\ Kept(chat[c])
  BY DEF KInv, ChatsOK

(* What the user and other code do.                                        *)
LEMMA CallsKeep ==
    ASSUME KInv, NEW c \in Chats, Calls(c)
    PROVE  ChatsOK'
  <1> DEFINE k == chat[c]
  <1>1. k \in ChatRecords /\ Kept(k)
    BY ChatTypes
  <1>2. ASSUME NEW type \in Types, NEW ends \in BOOLEAN
        PROVE  LET n == SendRequest(k, type, 0, ends)
               IN n \in ChatRecords /\ Kept(n) /\ n.when = k.when /\ n.known = k.known
    BY <1>1, TypeNames, SendRequestFields, SendKeeps DEF Sends, SameReads
  <1>3. CASE LoadHistory(c)
    <2> DEFINE yes == TRUE
               n == SendRequest(k, "History", 0, yes)
    <2>1. yes \in BOOLEAN /\ Become(With(c, n))
      BY <1>3 DEF LoadHistory
    <2>2. n \in ChatRecords /\ Kept(n) /\ n.when = k.when
      BY <1>2, <2>1, TypeNames
    <2> HIDE DEF n
    <2> QED  BY <2>1, <2>2, OneChatKeeps
  <1>4. CASE SendMessage(c)
    <2> DEFINE yes == TRUE
               n == SendRequest(k, "Send", 0, yes)
    <2>1. yes \in BOOLEAN /\ Become(With(c, n))
      BY <1>4 DEF SendMessage
    <2>2. n \in ChatRecords /\ Kept(n) /\ n.when = k.when
      BY <1>2, <2>1, TypeNames
    <2> HIDE DEF n
    <2> QED  BY <2>1, <2>2, OneChatKeeps
  <1>5. CASE DeleteAllMessages(c)
    <2> DEFINE ends == c \notin OwnChannels
               n == SendRequest(k, "Delete", 0, ends)
    <2>1. ends \in BOOLEAN /\ Become(With(c, n))
      BY <1>5 DEF DeleteAllMessages
    <2> HIDE DEF ends
    <2>2. n \in ChatRecords /\ Kept(n) /\ n.when = k.when
      BY <1>2, <2>1, TypeNames
    <2> HIDE DEF n
    <2> QED  BY <2>1, <2>2, OneChatKeeps
  <1>6. ASSUME NEW wasLast \in BOOLEAN, DeleteMessages(c, wasLast) PROVE ChatsOK'
    <2> DEFINE yes == TRUE
               no == FALSE
               s == SendRequest(k, "Delete", 0, yes)
               n == IF wasLast THEN RequestDialogEntry(LastIs(s, s.last, no), no) ELSE s
    <2>1. yes \in BOOLEAN /\ no \in BOOLEAN
      OBVIOUS
    <2>2. s \in ChatRecords /\ Kept(s) /\ s.when = k.when
      BY <1>2, <2>1, TypeNames
    <2>3. Become(With(c, n))
      <3>1. LastIs(s, s.last, no) = [s EXCEPT !.known = FALSE]
        <4> HIDE DEF s
        <4> QED  BY <2>2 DEF LastIs, ChatRecords
      <3> QED  BY <1>6, <3>1 DEF DeleteMessages
    <2> HIDE DEF s, no, yes
    <2>4. n \in ChatRecords /\ Kept(n) /\ n.when = k.when
      <3> DEFINE i == LastIs(s, s.last, no)
      <3>1. i \in ChatRecords /\ Kept(i) /\ i.when = s.when
        <4>1. s.last \in MsgIds
          BY <2>2 DEF ChatRecords
        <4> QED  BY <2>1, <2>2, <4>1, LastIsFields DEF SameState
      <3> HIDE DEF i
      <3>2. LET e == RequestDialogEntry(i, no)
            IN e \in ChatRecords /\ Kept(e) /\ e.when = i.when
        BY <2>1, <3>1, RequestEntryFields DEF SameRequests
      <3> QED  BY <2>2, <3>1, <3>2 DEF i
    <2> HIDE DEF n
    <2> QED  BY <2>3, <2>4, OneChatKeeps
  <1>7. ASSUME NEW r \in k.sent \cup k.postponed, CancelRequest(c, r) PROVE ChatsOK'
    <2> DEFINE i == Withdrawn(k, r)
               n == FinishSentRequest(i, r.id)
    <2>1. Become(With(c, n))
      BY <1>7 DEF CancelRequest, Withdrawn
    <2>2. r.id \in Nat
      BY <1>1, RequestTypes
    <2>3. i \in ChatRecords /\ Kept(i) /\ i.when = k.when
      BY <1>1, WithdrawnFields DEF SameReads
    <2> HIDE DEF i
    <2>4. n \in ChatRecords /\ Kept(n)
      BY <2>2, <2>3, FinishKeeps
    <2>5. n.when = i.when
      BY <2>2, <2>3, FinishFields DEF Kept, Finishes, SameReads
    <2> HIDE DEF n
    <2> QED  BY <2>1, <2>3, <2>4, <2>5, OneChatKeeps
  <1>8. ASSUME NEW till \in MsgIds, NEW known \in BOOLEAN, ReadElsewhere(c, till, known)
        PROVE  ChatsOK'
    <2> DEFINE no == FALSE
               t == Told(k, till, no)
               i == SetInboxReadTill(t, till)
               n == IF known \/ k.local >= till THEN i ELSE RequestDialogEntry(i, no)
    <2>1. no \in BOOLEAN
      OBVIOUS
    <2>2. Become(With(c, n))
      <3>1. t = [k EXCEPT !.told = till]
        BY <1>1 DEF Told, ChatRecords
      <3> QED  BY <1>8, <3>1 DEF ReadElsewhere
    <2> HIDE DEF no
    <2>3. t \in ChatRecords /\ Kept(t) /\ t.when = k.when
      BY <1>1, <2>1, ToldFields DEF SameState
    <2> HIDE DEF t
    <2>4. i \in ChatRecords /\ Kept(i) /\ i.when = t.when
      BY <2>3, SetInboxFields DEF SameRequests
    <2> HIDE DEF i
    <2>5. LET e == RequestDialogEntry(i, no)
          IN e \in ChatRecords /\ Kept(e) /\ e.when = i.when
      BY <2>1, <2>4, RequestEntryFields DEF SameRequests
    <2>6. n \in ChatRecords /\ Kept(n) /\ n.when = k.when
      BY <2>3, <2>4, <2>5
    <2> HIDE DEF n
    <2> QED  BY <2>2, <2>6, OneChatKeeps
  <1>9. ASSUME NEW due, LeaveChat(c, due) PROVE ChatsOK'
    <2> DEFINE h == Hurried(k)
               w == With(c, h)
               v == SendReadRequests(w, due)
    <2>1. /\ chat' = v.chats /\ timer' = v.timer /\ Posts(v.chats)
      BY <1>9 DEF LeaveChat, Hurried, Become
    <2>2. h \in ChatRecords /\ Kept(h) /\ h.when = FALSE /\ h.entry = k.entry
      BY <1>1, HurriedFields DEF SameState
    <2> HIDE DEF h
    <2>3. /\ AllKept(w) /\ w.chats[c] = h
          /\ \A d \in Chats \ {c} : w.chats[d] = chat[d]
      BY <2>2, WithIsKept
    <2> HIDE DEF w
    <2>4. /\ AllKept(v) /\ Timed(v)
          /\ \A d \in Chats : v.chats[d].entry = w.chats[d].entry
      BY <2>3, SendReadsFields
    <2> HIDE DEF v
    <2> QED  BY <2>1, <2>3, <2>4, HandlerKeeps
  <1>10. ASSUME NEW seen \in BOOLEAN, NEW still, NEW due, NewMessage(c, seen, still, due)
         PROVE  ChatsOK'
    <2> DEFINE yes == TRUE
               m == k.last + 1
               i == LastIs(k, m, yes)
               w == With(c, i)
               v == IF seen THEN ReadInboxTill(w, c, m, yes, still, due) ELSE w
    <2>1. yes \in BOOLEAN /\ m \in MsgIds
      BY <1>1, <1>10, BoundsAssumption DEF NewMessage, MsgIds, ChatRecords
    <2>2. chat' = v.chats /\ timer' = v.timer /\ Posts(v.chats)
      BY <1>10 DEF NewMessage, LastIs, Become
    <2> HIDE DEF yes, m
    <2>3. i \in ChatRecords /\ Kept(i) /\ i.when = k.when /\ i.entry = k.entry
      BY <1>1, <2>1, LastIsFields DEF SameState
    <2> HIDE DEF i
    <2>4. /\ AllKept(w) /\ Timed(w) /\ w.chats[c] = i
          /\ \A d \in Chats \ {c} : w.chats[d] = chat[d]
      BY <2>3, WithIsKept
    <2> HIDE DEF w
    <2>5. LET x == ReadInboxTill(w, c, m, yes, still, due)
          IN /\ AllKept(x) /\ Timed(x)
             /\ \A d \in Chats : x.chats[d].entry = w.chats[d].entry
      BY <2>1, <2>4, ReadInboxKeeps
    <2>6. /\ AllKept(v) /\ Timed(v)
          /\ \A d \in Chats : v.chats[d].entry = w.chats[d].entry
      BY <2>4, <2>5
    <2> HIDE DEF v
    <2> QED  BY <2>2, <2>4, <2>6, HandlerKeeps
  <1>11. ASSUME NEW till \in MsgIds, NEW still, NEW due,
                Become(ReadInboxTill(World, c, till, FALSE, still, due))
         PROVE  ChatsOK'
    <2> DEFINE no == FALSE
               v == ReadInboxTill(World, c, till, no, still, due)
    <2>1. no \in BOOLEAN /\ chat' = v.chats /\ timer' = v.timer /\ Posts(v.chats)
      BY <1>11 DEF Become
    <2> HIDE DEF no
    <2>2. AllKept(World) /\ Timed(World) /\ World.chats = chat
      BY WorldIsKept
    <2>3. /\ AllKept(v) /\ Timed(v)
          /\ \A d \in Chats : v.chats[d].entry = World.chats[d].entry
      BY <2>1, <2>2, ReadInboxKeeps
    <2> HIDE DEF v
    <2> QED  BY <2>1, <2>2, <2>3, HandlerKeeps
  <1>12. ASSUME NEW till \in MsgIds, NEW still, NEW due, View(c, till, still, due)
         PROVE  ChatsOK'
    BY <1>11, <1>12 DEF View
  <1>13. ASSUME NEW still, NEW due, ReadInbox(c, still, due) PROVE ChatsOK'
    <2>1. k.last \in MsgIds
      BY <1>1 DEF ChatRecords
    <2>2. CASE Become(ReadInboxTill(World, c, k.last, FALSE, still, due))
      BY <1>11, <2>1, <2>2
    <2>3. CASE Become(With(c, RequestDialogEntry(k, TRUE)))
      <3> DEFINE yes == TRUE
                 n == RequestDialogEntry(k, yes)
      <3>1. yes \in BOOLEAN /\ Become(With(c, n))
        BY <2>3
      <3> HIDE DEF yes
      <3>2. n \in ChatRecords /\ Kept(n) /\ n.when = k.when
        BY <1>1, <3>1, RequestEntryFields DEF SameRequests
      <3> HIDE DEF n
      <3> QED  BY <3>1, <3>2, OneChatKeeps
    <2> QED  BY <1>13, <2>2, <2>3 DEF ReadInbox
  <1> QED  BY <1>3, <1>4, <1>5, <1>6, <1>7, <1>8, <1>9, <1>10, <1>12, <1>13 DEF Calls

(* The answers.                                                            *)
LEMMA AnswersKeep ==
    ASSUME KInv, NEW c \in Chats, Answers(c)
    PROVE  ChatsOK'
  <1> DEFINE k == chat[c]
  <1>1. k \in ChatRecords /\ Kept(k)
    BY ChatTypes
  <1>2. ASSUME NEW r \in k.wire
        PROVE  LET g == Gone(k, r)
               IN /\ Answered(c, r) = g
                  /\ g \in ChatRecords /\ Kept(g) /\ g.when = k.when
                  /\ g.entry = k.entry /\ g.known = k.known
                  /\ r.id \in Nat /\ r.till \in MsgIds
    BY <1>1, GoneFields, RequestTypes DEF Answered, Gone, SameState, SameReads
  <1>3. ASSUME NEW n \in ChatRecords, Kept(n), NEW id \in Nat
        PROVE  LET f == FinishSentRequest(n, id)
               IN f \in ChatRecords /\ Kept(f) /\ f.when = n.when
    BY <1>3, FinishKeeps, FinishFields DEF Kept, Finishes, SameReads
  <1>4. ASSUME NEW r \in k.wire, Become(With(c, FinishSentRequest(Answered(c, r), r.id)))
        PROVE  ChatsOK'
    <2> DEFINE g == Answered(c, r)
               n == FinishSentRequest(g, r.id)
    <2>1. g \in ChatRecords /\ Kept(g) /\ g.when = k.when /\ r.id \in Nat
      BY <1>2
    <2>2. Become(With(c, n))
      BY <1>4
    <2> HIDE DEF g
    <2>3. n \in ChatRecords /\ Kept(n) /\ n.when = g.when
      BY <1>3, <2>1
    <2> HIDE DEF n
    <2> QED  BY <2>1, <2>2, <2>3, OneChatKeeps
  <1>5. ASSUME NEW r \in k.wire, AnswerHistory(c, r) \/ AnswerSend(c, r)
        PROVE  ChatsOK'
    BY <1>4, <1>5 DEF AnswerHistory, AnswerSend
  <1>6. ASSUME NEW r \in k.wire, NEW more \in BOOLEAN, AnswerDelete(c, r, more)
        PROVE  ChatsOK'
    <2> DEFINE yes == TRUE
               no == FALSE
               g == Answered(c, r)
               i == IF more THEN SendRequest(g, "Delete", 0, yes) ELSE g
               f == FinishSentRequest(i, r.id)
               n == IF ~more /\ ~f.known THEN RequestDialogEntry(f, no) ELSE f
    <2>1. Become(With(c, n)) /\ yes \in BOOLEAN /\ no \in BOOLEAN
      BY <1>6 DEF AnswerDelete
    <2> HIDE DEF yes, no
    <2>2. g \in ChatRecords /\ Kept(g) /\ g.when = k.when /\ r.id \in Nat
      BY <1>2
    <2> HIDE DEF g
    <2>3. LET s == SendRequest(g, "Delete", 0, yes)
          IN s \in ChatRecords /\ Kept(s) /\ s.when = g.when
      BY <2>1, <2>2, TypeNames, SendRequestFields, SendKeeps DEF Sends, SameReads
    <2>4. i \in ChatRecords /\ Kept(i) /\ i.when = k.when
      BY <2>2, <2>3
    <2> HIDE DEF i
    <2>5. f \in ChatRecords /\ Kept(f) /\ f.when = k.when
      BY <1>3, <2>2, <2>4
    <2> HIDE DEF f
    <2>6. LET e == RequestDialogEntry(f, no)
          IN e \in ChatRecords /\ Kept(e) /\ e.when = f.when
      BY <2>1, <2>5, RequestEntryFields DEF SameRequests
    <2>7. n \in ChatRecords /\ Kept(n) /\ n.when = k.when
      BY <2>5, <2>6
    <2> HIDE DEF n
    <2> QED  BY <2>1, <2>7, OneChatKeeps
  <1>7. ASSUME NEW r \in k.wire, AnswerDeleteChannel(c, r)
        PROVE  ChatsOK'
    <2> DEFINE g == Answered(c, r)
    <2>1. Become(With(c, g))
      BY <1>7 DEF AnswerDeleteChannel
    <2>2. g \in ChatRecords /\ Kept(g) /\ g.when = k.when
      BY <1>2
    <2> HIDE DEF g
    <2> QED  BY <2>1, <2>2, OneChatKeeps
  <1>8. ASSUME NEW r \in k.wire
        PROVE  /\ Larger(Answered(c, r).told, r.till) \in MsgIds
               /\ Answered(c, r).told \in MsgIds
    BY <1>2, LargerIsOne DEF ChatRecords
  <1>9. ASSUME NEW r \in k.wire, AnswerReadHistory(c, r)
        PROVE  ChatsOK'
    <2> DEFINE no == FALSE
               g == Answered(c, r)
               t == Larger(g.told, r.till)
               n == Told(g, t, no)
    <2>1. g \in ChatRecords /\ Kept(g) /\ g.when = k.when /\ t \in MsgIds
      BY <1>2, <1>8
    <2>2. no \in BOOLEAN /\ Become(With(c, n))
      <3>1. n = [g EXCEPT !.told = t]
        <4> HIDE DEF g, t
        <4> QED  BY <2>1 DEF Told, ChatRecords
      <3>2. Become(With(c, [g EXCEPT !.told = t]))
        BY <1>9 DEF AnswerReadHistory
      <3> QED  BY <3>1, <3>2
    <2> HIDE DEF g, t, no
    <2>3. n \in ChatRecords /\ Kept(n) /\ n.when = g.when
      BY <2>1, <2>2, ToldFields DEF SameState
    <2> HIDE DEF n
    <2> QED  BY <2>1, <2>2, <2>3, OneChatKeeps
  <1>10. ASSUME NEW r \in k.wire, NEW done \in BOOLEAN, NEW due,
                AnswerRead(c, r, done, due)
         PROVE  ChatsOK'
    <2> DEFINE g == Answered(c, r)
               t == IF done THEN Larger(g.told, r.till) ELSE g.told
               no == ~done
               i == Told(g, t, no)
               read == ReadAnswered(i, r.till)
               w == With(c, read)
               v == SendReadRequests(w, due)
               f == FinishSentRequest(v.chats[c], r.id)
               u == Put(v, c, f)
    <2>1. g \in ChatRecords /\ Kept(g) /\ g.when = k.when
          /\ r.till \in MsgIds /\ r.id \in Nat
      BY <1>2
    <2>2. t \in MsgIds /\ no \in BOOLEAN
      BY <1>8
    <2>3. /\ chat' = [v.chats EXCEPT ![c] = FinishSentRequest(@, r.id)]
          /\ timer' = v.timer /\ Posts(chat')
      BY <1>10 DEF AnswerRead, Told, ReadAnswered
    <2> HIDE DEF g, t, no
    <2>4. i \in ChatRecords /\ Kept(i) /\ i.when = g.when
      BY <2>1, <2>2, ToldFields DEF SameState
    <2> HIDE DEF i
    <2>5. read \in ChatRecords /\ Kept(read) /\ read.when = i.when
      BY <2>1, <2>4, ReadAnsweredFields DEF SameRequests
    <2> HIDE DEF read
    <2>6. /\ AllKept(w) /\ \A d \in Chats \ {c} : w.chats[d] = chat[d]
      BY <2>1, <2>4, <2>5, WithIsKept
    <2> HIDE DEF w
    <2>7. /\ AllKept(v) /\ Timed(v)
          /\ \A d \in Chats : v.chats[d].entry = w.chats[d].entry
      BY <2>6, SendReadsFields
    <2> HIDE DEF v
    <2>8. v \in Worlds /\ v.chats[c] \in ChatRecords /\ Kept(v.chats[c])
      BY <2>7 DEF AllKept, Worlds
    <2>9. f \in ChatRecords /\ Kept(f) /\ f.when = v.chats[c].when
      BY <1>3, <2>1, <2>8
    <2>10. chat' = u.chats /\ timer' = u.timer
      BY <2>3, <2>8 DEF Put, Worlds
    <2> HIDE DEF f
    <2>11. /\ AllKept(u) /\ u.timer = v.timer /\ u.chats[c] = f
           /\ \A d \in Chats \ {c} : u.chats[d] = v.chats[d]
      BY <2>7, <2>8, <2>9, PutFields, PutKeeps
    <2> HIDE DEF u
    <2>12. Timed(u)
      BY <2>7, <2>9, <2>11 DEF Timed
    <2>13. \A d \in Chats \ {c} : u.chats[d].entry = chat[d].entry
      BY <2>6, <2>7, <2>11
    <2> QED  BY <2>3, <2>10, <2>11, <2>12, <2>13, HandlerKeeps
  <1>11. ASSUME NEW n \in ChatRecords, Kept(n), n.when = k.when, NEW till \in MsgIds,
                NEW still, NEW due, NEW stale,
                LET v == DialogEntryApplied(With(c, n), c, till, still, due, stale)
                IN chat' = v.chats /\ timer' = v.timer /\ Posts(v.chats)
         PROVE  ChatsOK'
    <2> DEFINE w == With(c, n)
               v == DialogEntryApplied(w, c, till, still, due, stale)
    <2>1. /\ chat' = v.chats /\ timer' = v.timer /\ Posts(v.chats)
      BY <1>11
    <2>2. /\ AllKept(w) /\ Timed(w) /\ \A d \in Chats \ {c} : w.chats[d] = chat[d]
      BY <1>11, WithIsKept
    <2> HIDE DEF w
    <2>3. /\ AllKept(v) /\ Timed(v)
          /\ \A d \in Chats \ {c} : v.chats[d].entry = w.chats[d].entry
      BY <2>2, AppliedFields
    <2> HIDE DEF v
    <2> QED  BY <2>1, <2>2, <2>3, HandlerKeeps
  <1>12. k.told \in MsgIds /\ k.last \in MsgIds /\ 0 \in MsgIds
    BY <1>1, TypeNames DEF ChatRecords
  <1>13. ASSUME NEW a \in k.asks, NEW done \in BOOLEAN, NEW still, NEW due, NEW stale,
                AnswerEntry(c, a, done, still, due, stale)
         PROVE  ChatsOK'
    <2> DEFINE till == IF done THEN k.told ELSE 0
               no == ~done
               n == EntryTold(k, a, till, no)
               last == IF done THEN n.last ELSE 0
               v == DialogEntryApplied(With(c, n), c, last, still, due, stale)
    <2>1. till \in MsgIds /\ no \in BOOLEAN
      BY <1>12
    <2>2. chat' = v.chats /\ timer' = v.timer /\ Posts(v.chats)
      BY <1>13 DEF AnswerEntry, EntryTold
    <2> HIDE DEF till, no
    <2>3. a \in Asks
      BY <1>1 DEF ChatRecords
    <2>4. n \in ChatRecords /\ Kept(n) /\ n.when = k.when /\ n.last = k.last
      BY <1>1, <2>1, <2>3, EntryToldFields DEF SameState
    <2>5. last \in MsgIds
      BY <1>12, <2>4
    <2> HIDE DEF n, last
    <2> QED  BY <1>11, <2>2, <2>4, <2>5
  <1>14. ASSUME NEW still, NEW due, NEW stale, DialogsSlice(c, still, due, stale)
         PROVE  ChatsOK'
    <2> DEFINE n == SetInboxReadTill(k, k.told)
               v == DialogEntryApplied(With(c, n), c, k.last, still, due, stale)
    <2>1. chat' = v.chats /\ timer' = v.timer /\ Posts(v.chats)
      BY <1>14 DEF DialogsSlice, Become
    <2>2. n \in ChatRecords /\ Kept(n) /\ n.when = k.when
      BY <1>1, <1>12, SetInboxFields DEF SameRequests
    <2> HIDE DEF n
    <2> QED  BY <1>11, <1>12, <2>1, <2>2
  <1> QED  BY <1>5, <1>6, <1>7, <1>9, <1>10, <1>13, <1>14 DEF Answers

(* sendDialogRequests(): the entry is asked, or has to be asked again.     *)
NewAsk(k) == [id |-> k.next + 1, dirty |-> PostponeEntryRequest(k.wire),
              crossed |-> k.asks # {}]

EntrySent(n, k) ==
    /\ n \in ChatRecords /\ SameReads(n, k)
    /\ n.sent = k.sent /\ n.postponed = k.postponed /\ n.wire = k.wire
    /\ n.entry = "requested"
    /\ \/ /\ PostponeEntryRequest(k.sent)
          /\ n.again = TRUE /\ n.next = k.next /\ n.asks = k.asks
       \/ /\ ~PostponeEntryRequest(k.sent)
          /\ n.again = k.again /\ n.next = k.next + 1
          /\ n.asks = {[a EXCEPT !.crossed = TRUE] : a \in k.asks} \cup {NewAsk(k)}

LEMMA SendDialogRequestsFields ==
    ASSUME KInv, SendDialogRequests
    PROVE  /\ chat' \in [Chats -> ChatRecords]
           /\ \A c \in Chats :
                 \/ chat[c].entry # "pending" /\ chat'[c] = chat[c]
                 \/ chat[c].entry = "pending" /\ EntrySent(chat'[c], chat[c])
  <1> DEFINE asked(k) ==
                [k EXCEPT !.next = @ + 1,
                    !.asks = {[a EXCEPT !.crossed = TRUE] : a \in @} \cup
                        {[id |-> k.next + 1, dirty |-> PostponeEntryRequest(k.wire),
                          crossed |-> k.asks # {}]}]
             sent(k) == IF PostponeEntryRequest(k.sent)
                        THEN [k EXCEPT !.entry = "requested", !.again = TRUE]
                        ELSE [asked(k) EXCEPT !.entry = "requested"]
  <1>1. chat' = [c \in Chats |-> IF chat[c].entry = "pending"
                                 THEN sent(chat[c]) ELSE chat[c]]
    BY DEF SendDialogRequests
  <1>2. ASSUME NEW k \in ChatRecords PROVE EntrySent(sent(k), k)
    <2>1. CASE PostponeEntryRequest(k.sent)
      <3> DEFINE n == [k EXCEPT !.entry = "requested", !.again = TRUE]
      <3>1. /\ n \in ChatRecords /\ SameReads(n, k)
            /\ n.sent = k.sent /\ n.postponed = k.postponed /\ n.wire = k.wire
            /\ n.entry = "requested" /\ n.again = TRUE /\ n.next = k.next
            /\ n.asks = k.asks
        BY DEF ChatRecords, SameReads
      <3>2. sent(k) = n
        BY <2>1
      <3> HIDE DEF n, sent
      <3> QED  BY <2>1, <3>1, <3>2 DEF EntrySent
    <2>2. CASE ~PostponeEntryRequest(k.sent)
      <3> DEFINE q == {[a EXCEPT !.crossed = TRUE] : a \in k.asks} \cup {NewAsk(k)}
                 x == k.next + 1
                 n == [k EXCEPT !.next = x, !.asks = q, !.entry = "requested"]
      <3>1. x \in Nat
        BY DEF ChatRecords
      <3>2. NewAsk(k) \in Asks
        <4> DEFINE d == PostponeEntryRequest(k.wire)
                   e == k.asks # {}
        <4>1. d \in BOOLEAN /\ e \in BOOLEAN
          BY DEF PostponeEntryRequest
        <4>2. NewAsk(k) = [id |-> x, dirty |-> d, crossed |-> e]
          BY DEF NewAsk
        <4> HIDE DEF x, d, e
        <4> QED  BY <3>1, <4>1, <4>2 DEF Asks
      <3>3. \A a \in k.asks : [a EXCEPT !.crossed = TRUE] \in Asks
        BY DEF ChatRecords, Asks
      <3>4. q \in SUBSET Asks
        BY <3>2, <3>3
      <3>5. sent(k) = n
        <4>1. sent(k) = [asked(k) EXCEPT !.entry = "requested"]
          BY <2>2
        <4>2. asked(k) = [k EXCEPT !.next = x, !.asks = q]
          BY DEF NewAsk
        <4> HIDE DEF asked, q, x
        <4> QED  BY <4>1, <4>2 DEF ChatRecords
      <3> HIDE DEF q, x
      <3>6. /\ n \in ChatRecords /\ SameReads(n, k)
            /\ n.sent = k.sent /\ n.postponed = k.postponed /\ n.wire = k.wire
            /\ n.entry = "requested" /\ n.again = k.again /\ n.next = x
            /\ n.asks = q
        BY <3>1, <3>4 DEF ChatRecords, SameReads
      <3> HIDE DEF n, sent
      <3> QED  BY <2>2, <3>5, <3>6 DEF EntrySent, q, x
    <2> QED  BY <2>1, <2>2
  <1> HIDE DEF sent
  <1>3. \A c \in Chats : chat[c] \in ChatRecords /\ EntrySent(sent(chat[c]), chat[c])
    BY <1>2, ChatTypes
  <1> QED  BY <1>1, <1>3 DEF EntrySent

LEMMA SendDialogRequestsKeeps ==
    ASSUME KInv, SendDialogRequests
    PROVE  ChatsOK'
  <1>1. /\ chat' \in [Chats -> ChatRecords]
        /\ \A c \in Chats :
              \/ chat[c].entry # "pending" /\ chat'[c] = chat[c]
              \/ chat[c].entry = "pending" /\ EntrySent(chat'[c], chat[c])
    BY SendDialogRequestsFields
  <1>2. ~posted' /\ posted' \in BOOLEAN /\ UNCHANGED timer
    BY DEF SendDialogRequests
  <1>3. ASSUME NEW c \in Chats
        PROVE  /\ Kept(chat'[c]) /\ (chat'[c].when => timer')
               /\ chat'[c].entry # "pending"
    <2>1. chat[c] \in ChatRecords /\ Kept(chat[c]) /\ (chat[c].when => timer)
      BY DEF KInv, ChatsOK, DelayedReadHasTimer
    <2>2. CASE chat[c].entry # "pending" /\ chat'[c] = chat[c]
      BY <1>2, <2>1, <2>2
    <2>3. CASE chat[c].entry = "pending" /\ EntrySent(chat'[c], chat[c])
      <3> DEFINE n == chat'[c]
                 k == chat[c]
      <3>1. /\ n.sent = k.sent /\ n.postponed = k.postponed /\ n.will = k.will
            /\ n.sentTill = k.sentTill /\ n.when = k.when /\ n.entry = "requested"
            /\ n.again => PostponeEntryRequest(k.sent)
        BY <2>1, <2>3 DEF EntrySent, SameReads, Kept
      <3> HIDE DEF n
      <3>2. Kept(n)
        BY <2>1, <3>1 DEF Kept
      <3> QED  BY <1>2, <2>1, <3>1, <3>2 DEF n
    <2> QED  BY <1>1, <2>2, <2>3
  <1> QED  BY <1>1, <1>2, <1>3 DEF ChatsOK, DelayedReadHasTimer, PendingIsPosted, KInv

LEMMA TimerKeeps ==
    ASSUME KInv, NEW due, ReadRequestsTimer(due)
    PROVE  ChatsOK'
  <1> DEFINE w == [World EXCEPT !.timer = FALSE]
             v == SendReadRequests(w, due)
  <1>1. AllKept(World) /\ World.chats = chat
    BY WorldIsKept
  <1>2. AllKept(w) /\ w.chats = chat
    BY <1>1 DEF AllKept, Worlds
  <1>3. chat' = v.chats /\ timer' = v.timer /\ Posts(v.chats)
    BY DEF ReadRequestsTimer, Become
  <1> HIDE DEF w
  <1>4. /\ AllKept(v) /\ Timed(v)
        /\ \A d \in Chats : v.chats[d].entry = w.chats[d].entry
    BY <1>2, SendReadsFields
  <1> HIDE DEF v
  <1>5. \A d \in Chats \ {0} : v.chats[d].entry = chat[d].entry
    BY <1>2, <1>4
  <1> QED  BY <1>3, <1>4, <1>5, HandlerKeeps

LEMMA GhostModeKeeps ==
    ASSUME KInv, GhostMode
    PROVE  ChatsOK'
  <1>1. CASE SetSendReadMessages
    BY <1>1 DEF SetSendReadMessages, KInv, ChatsOK, DelayedReadHasTimer,
                PendingIsPosted
  <1>2. ASSUME NEW c \in Chats, ReadHistory(c) PROVE ChatsOK'
    <2> DEFINE k == chat[c]
               no == FALSE
               n == SendRequest(k, "ReadInbox", k.last, no)
    <2>1. k \in ChatRecords /\ Kept(k) /\ k.last \in MsgIds /\ no \in BOOLEAN
      BY ChatTypes DEF ChatRecords
    <2>2. Become(With(c, n))
      BY <1>2 DEF ReadHistory
    <2> HIDE DEF no
    <2>3. n \in ChatRecords /\ Kept(n) /\ n.when = k.when
      BY <2>1, TypeNames, SendRequestFields, SendKeeps DEF Sends, SameReads
    <2> HIDE DEF n
    <2> QED  BY <2>1, <2>2, <2>3, OneChatKeeps
  <1>3. ASSUME NEW c \in Chats, NEW still, LocalRead(c, still) PROVE ChatsOK'
    <2> DEFINE no == FALSE
               w == [World EXCEPT !.sends = FALSE]
               v == ReadInboxTill(w, c, chat[c].last, no, still, {})
    <2>1. AllKept(World) /\ Timed(World) /\ World.chats = chat
      BY WorldIsKept
    <2>2. AllKept(w) /\ Timed(w) /\ w.chats = chat
      BY <2>1 DEF AllKept, Timed, Worlds
    <2>3. chat' = v.chats /\ timer' = v.timer /\ Posts(v.chats)
      BY <1>3 DEF LocalRead, Become
    <2>4. chat[c].last \in MsgIds /\ no \in BOOLEAN
      BY ChatTypes DEF ChatRecords
    <2> HIDE DEF w, no
    <2>5. /\ AllKept(v) /\ Timed(v)
          /\ \A d \in Chats : v.chats[d].entry = w.chats[d].entry
      BY <2>2, <2>4, ReadInboxKeeps
    <2> HIDE DEF v
    <2> QED  BY <2>2, <2>3, <2>5, HandlerKeeps
  <1> QED  BY <1>1, <1>2, <1>3 DEF GhostMode

LEMMA NewChatKept ==
    /\ NewChat(1) \in ChatRecords /\ Kept(NewChat(1))
    /\ NewChat(1).when = FALSE /\ NewChat(1).entry = "none"
  <1>1. 0 \in MsgIds /\ 1 \in MsgIds /\ 0 \in Nat
    BY BoundsAssumption DEF MsgIds
  <1>2. NewChat(1) \in ChatRecords
    BY <1>1 DEF NewChat, ChatRecords
  <1> QED  BY <1>2 DEF NewChat, Kept

(* The inductive invariant.                                                *)
LEMMA KInvInductive == Spec => []KInv
  <1>1. Init => KInv
    <2> SUFFICES ASSUME Init PROVE KInv
      OBVIOUS
    <2>1. Bounded
      BY BoundsAssumption DEF Init, Bounded
    <2>2. /\ chat \in [Chats -> ChatRecords] /\ timer \in BOOLEAN /\ posted \in BOOLEAN
          /\ \A c \in Chats : chat[c] = NewChat(1)
      BY NewChatKept DEF Init
    <2> QED  BY <2>1, <2>2, NewChatKept
             DEF KInv, ChatsOK, DelayedReadHasTimer, PendingIsPosted
  <1>2. KInv /\ [Next]_vars => KInv'
    <2> SUFFICES ASSUME KInv, [Next]_vars PROVE KInv'
      OBVIOUS
    <2>1. Bounded'
      BY BoundsKept
    <2>2. CASE UNCHANGED vars
      BY <2>2 DEF vars, KInv, ChatsOK, Bounded, DelayedReadHasTimer,
                  PendingIsPosted, budget
    <2>3. ASSUME Next PROVE ChatsOK'
      BY <2>3, CallsKeep, AnswersKeep, TimerKeeps, SendDialogRequestsKeeps,
         GhostModeKeeps DEF Next
    <2> QED  BY <2>1, <2>2, <2>3 DEF KInv
  <1> QED  BY <1>1, <1>2, PTL DEF Spec

(* What is put off or delayed has what ends it, in ghost mode as well:     *)
(* pages of history wait behind a registered deletion, the entry is asked  *)
(* again after a registered request, a read to send is later than the one  *)
(* sent, and a delayed one has the timer.                                  *)
THEOREM AlwaysConsistent == Spec => []Consistent
  <1>1. KInv => Consistent
    <2> SUFFICES ASSUME KInv PROVE Consistent
      OBVIOUS
    <2>1. TypeOK /\ DelayedReadHasTimer
      BY DEF KInv, ChatsOK, Bounded, TypeOK
    <2>2. \A c \in Chats : Kept(chat[c])
      BY DEF KInv, ChatsOK
    <2>3. PostponedHasCause /\ AgainIsRequested /\ ReadsGoForward
      BY <2>2 DEF Kept, PostponedHasCause, AgainIsRequested, ReadsGoForward
    <2> QED  BY <2>1, <2>3 DEF Consistent
  <1> QED  BY <1>1, KInvInductive, PTL

-----------------------------------------------------------------------------
(* In ghost mode only readHistory() starts a read: what is new at MTP is   *)
(* no other one.                                                           *)

NoRead(n, k) == \A r \in n.wire \ k.wire : r.type = "ReadInbox" => ~r.ends

SameWires(v, w) == \A d \in Chats : v.chats[d].wire = w.chats[d].wire

LEMMA SendNoRead ==
    ASSUME NEW k \in ChatRecords, NEW type \in Types, NEW till \in MsgIds,
           NEW ends \in BOOLEAN, type # "ReadInbox" \/ ~ends
    PROVE  NoRead(SendRequest(k, type, till, ends), k)
  <1> DEFINE n == SendRequest(k, type, till, ends)
             r == New(k, type, till, ends)
  <1>1. Sends(n, k, type, r)
    BY SendRequestFields
  <1>2. r.type = type /\ r.ends = ends
    BY DEF New
  <1> HIDE DEF n, r
  <1>3. n.wire \subseteq k.wire \cup {r}
    BY <1>1 DEF Sends, PutOff, SentNow
  <1> QED  BY <1>2, <1>3 DEF NoRead, n

LEMMA FinishNoRead ==
    ASSUME NEW k \in ChatRecords, Kept(k), NEW id \in Nat
    PROVE  NoRead(FinishSentRequest(k, id), k)
  <1>1. PICK back \in SUBSET k.postponed : Finishes(FinishSentRequest(k, id), k, id, back)
    BY FinishFields DEF Kept
  <1>2. \A r \in back : r.type = "History"
    BY DEF Kept
  <1> QED  BY <1>1, <1>2 DEF Finishes, NoRead

LEMMA SendReadsSilent ==
    ASSUME NEW w \in Worlds, ~w.sends, NEW due
    PROVE  SameWires(SendReadRequests(w, due), w)
  <1>1. \A c \in Chats : Cleared(w.chats[c]).wire = w.chats[c].wire
    BY ClearedKeeps DEF Worlds
  <1>2. SendReadRequests(w, due) = [w EXCEPT !.chats = [c \in Chats |-> Cleared(@[c])]]
    BY DEF SendReadRequests
  <1>3. \A c \in Chats : SendReadRequests(w, due).chats[c] = Cleared(w.chats[c])
    BY <1>2 DEF Worlds
  <1> QED  BY <1>1, <1>3 DEF SameWires

LEMMA ReadInboxSilent ==
    ASSUME NEW w, AllKept(w), Timed(w), ~w.sends, NEW c \in Chats, NEW till \in MsgIds,
           NEW force \in BOOLEAN, NEW still, NEW due
    PROVE  SameWires(ReadInboxTill(w, c, till, force, still, due), w)
  <1> DEFINE k == w.chats[c]
             now == force \/ still \in {"unknown", "none"}
             m == [k EXCEPT !.will = Larger(@, till), !.when = ~now]
             asked == Put(w, c, m)
             result == IF Skipped(k, till, force) \/ (~force /\ still = "same") THEN w
                       ELSE IF now THEN SendReadRequests(asked, due)
                       ELSE [asked EXCEPT !.timer = @ \/ ~k.when]
             v == ReadInboxTill(w, c, till, force, still, due)
  <1>1. v = result \/ v = Put(result, c, SetInboxReadTill(result.chats[c], till))
    BY DEF ReadInboxTill
  <1>2. w \in Worlds /\ k \in ChatRecords
    BY DEF AllKept, Worlds
  <1>3. m \in ChatRecords /\ m.wire = k.wire
    <2> DEFINE l == Larger(k.will, till)
               b == ~now
    <2>1. l \in MsgIds /\ b \in BOOLEAN /\ m = [k EXCEPT !.will = l, !.when = b]
      BY <1>2, LargerIsOne DEF ChatRecords
    <2> HIDE DEF l, b
    <2> QED  BY <1>2, <2>1 DEF ChatRecords
  <1> HIDE DEF m
  <1>4. asked \in Worlds /\ SameWires(asked, w) /\ ~asked.sends
    BY <1>2, <1>3, PutFields DEF SameWires
  <1> HIDE DEF asked
  <1>5. result \in Worlds /\ SameWires(result, w)
    <2>1. CASE result = w
      BY <1>2, <2>1 DEF SameWires
    <2>2. CASE result = SendReadRequests(asked, due)
      <3>1. SameWires(result, asked)
        BY <1>4, <2>2, SendReadsSilent
      <3>2. \A d \in Chats : Cleared(asked.chats[d]) \in ChatRecords
        BY <1>4, ClearedKeeps DEF Worlds
      <3>3. result = [asked EXCEPT !.chats = [d \in Chats |-> Cleared(@[d])]]
        BY <1>4, <2>2 DEF SendReadRequests
      <3>4. result \in Worlds
        BY <1>4, <3>2, <3>3 DEF Worlds
      <3> QED  BY <1>4, <3>1, <3>4 DEF SameWires
    <2>3. CASE result = [asked EXCEPT !.timer = @ \/ ~k.when]
      <3> DEFINE t == asked.timer \/ ~k.when
      <3>1. t \in BOOLEAN /\ result = [asked EXCEPT !.timer = t]
        BY <2>3
      <3> HIDE DEF t, result
      <3>2. result \in Worlds /\ result.chats = asked.chats
        BY <1>4, <3>1 DEF Worlds
      <3> QED  BY <1>4, <3>2 DEF SameWires
    <2> QED  BY <2>1, <2>2, <2>3
  <1> HIDE DEF result
  <1>6. CASE v = Put(result, c, SetInboxReadTill(result.chats[c], till))
    <2> DEFINE n == SetInboxReadTill(result.chats[c], till)
    <2>1. n \in ChatRecords /\ n.wire = result.chats[c].wire
      BY <1>5, SetInboxFields DEF SameRequests, Worlds
    <2>2. v = Put(result, c, n)
      BY <1>6
    <2> HIDE DEF n, v
    <2>3. v.chats[c] = n /\ \A d \in Chats \ {c} : v.chats[d] = result.chats[d]
      BY <1>5, <2>1, <2>2, PutFields
    <2> QED  BY <1>5, <2>1, <2>3 DEF SameWires, v
  <1> QED  BY <1>1, <1>5, <1>6

LEMMA AppliedSilent ==
    ASSUME NEW w, AllKept(w), Timed(w), ~w.sends, NEW c \in Chats, NEW last \in MsgIds,
           NEW still, NEW due, NEW stale
    PROVE  SameWires(DialogEntryApplied(w, c, last, still, due, stale), w)
  <1> DEFINE k == w.chats[c]
             i == [k EXCEPT !.entry = "none", !.reader = FALSE, !.known = TRUE]
             applied == Put(w, c, i)
             no == FALSE
             read == IF k.reader
                     THEN ReadInboxTill(applied, c, last, no, still, due)
                     ELSE applied
             j == read.chats[c]
             till == IF j.done THEN j.sentTill
                     ELSE IF stale /\ k.done /\ HasState(k) /\ ~HasState(j)
                     THEN k.sentTill ELSE 0
             v == DialogEntryApplied(w, c, last, still, due, stale)
  <1>1. CASE k.again
    BY <1>1 DEF DialogEntryApplied, SameWires
  <1>2. CASE ~k.again
    <2>1. v = Put(read, c, Settled(j, till)) /\ no \in BOOLEAN
      BY <1>2 DEF DialogEntryApplied, Settled
    <2> HIDE DEF no
    <2>2. k \in ChatRecords /\ Kept(k) /\ w \in Worlds
      BY DEF AllKept, Worlds
    <2>3. /\ i \in ChatRecords /\ i.wire = k.wire /\ i.when = k.when
          /\ i.sent = k.sent /\ i.postponed = k.postponed /\ i.again = k.again
          /\ i.will = k.will /\ i.sentTill = k.sentTill
      BY <2>2 DEF ChatRecords
    <2> HIDE DEF i
    <2>4. Kept(i)
      BY <1>2, <2>2, <2>3 DEF Kept
    <2>5. /\ AllKept(applied) /\ Timed(applied) /\ ~applied.sends
          /\ SameWires(applied, w)
      <3>1. /\ applied \in Worlds /\ applied.timer = w.timer
            /\ applied.sends = w.sends /\ applied.chats[c] = i
            /\ \A d \in Chats \ {c} : applied.chats[d] = w.chats[d]
        BY <2>2, <2>3, PutFields
      <3>2. AllKept(applied)
        BY <2>3, <2>4, PutKeeps
      <3> HIDE DEF applied
      <3> QED  BY <2>3, <3>1, <3>2 DEF Timed, SameWires
    <2> HIDE DEF applied
    <2>6. AllKept(read) /\ SameWires(read, w)
      <3> DEFINE x == ReadInboxTill(applied, c, last, no, still, due)
      <3>1. SameWires(x, applied)
        BY <2>1, <2>5, ReadInboxSilent
      <3>2. AllKept(x)
        BY <2>1, <2>5, ReadInboxKeeps
      <3> HIDE DEF x
      <3>3. SameWires(x, w)
        BY <2>5, <3>1 DEF SameWires
      <3> QED  BY <2>5, <3>2, <3>3 DEF x
    <2> HIDE DEF read
    <2>7. j \in ChatRecords /\ read \in Worlds
      BY <2>6 DEF AllKept, Worlds
    <2>8. till \in MsgIds
      BY <2>2, <2>7, BoundsAssumption DEF ChatRecords, MsgIds
    <2> HIDE DEF till
    <2> DEFINE n == Settled(j, till)
    <2>9. n \in ChatRecords /\ n.wire = j.wire
      BY <2>7, <2>8, SettledFields DEF SameRequests
    <2> HIDE DEF n
    <2>10. v = Put(read, c, n)
      BY <2>1 DEF n
    <2> HIDE DEF v
    <2>11. /\ v.chats[c] = n
           /\ \A d \in Chats \ {c} : v.chats[d] = read.chats[d]
      BY <2>7, <2>9, <2>10, PutFields
    <2>12. SameWires(v, w)
      BY <2>6, <2>9, <2>11 DEF SameWires
    <2> QED  BY <2>12 DEF v
  <1> QED  BY <1>1, <1>2

LEMMA NoReadTransitive ==
    ASSUME NEW n, NEW m, NEW k, NoRead(n, m), NoRead(m, k)
    PROVE  NoRead(n, k)
  BY DEF NoRead

SilentStep == \A d \in Chats : NoRead(chat'[d], chat[d])

LEMMA OneChatSilent ==
    ASSUME KInv, NEW c \in Chats, NEW k \in ChatRecords, NoRead(k, chat[c]),
           Become(With(c, k))
    PROVE  SilentStep
  <1>1. World \in Worlds /\ World.chats = chat
    BY WorldIsKept DEF AllKept
  <1>2. /\ With(c, k).chats[c] = k
        /\ \A d \in Chats \ {c} : With(c, k).chats[d] = chat[d]
    BY <1>1, PutFields DEF With
  <1> QED  BY <1>2 DEF Become, NoRead, SilentStep

LEMMA HandlerSilent ==
    ASSUME NEW w, NEW v, SameWires(v, w), NEW c \in Chats,
           NoRead(w.chats[c], chat[c]),
           \A d \in Chats \ {c} : w.chats[d] = chat[d],
           chat' = v.chats
    PROVE  SilentStep
  BY DEF SameWires, NoRead, SilentStep

LEMMA CallsSilent ==
    ASSUME KInv, ~sendReads, NEW c \in Chats, Calls(c)
    PROVE  SilentStep
  <1> DEFINE k == chat[c]
  <1>1. k \in ChatRecords /\ Kept(k)
    BY ChatTypes
  <1>2. ASSUME NEW type \in Types, type # "ReadInbox", NEW ends \in BOOLEAN
        PROVE  LET n == SendRequest(k, type, 0, ends)
               IN n \in ChatRecords /\ Kept(n) /\ NoRead(n, k)
    BY <1>1, <1>2, TypeNames, SendRequestFields, SendKeeps, SendNoRead DEF Sends
  <1>3. ASSUME NEW type \in Types, type # "ReadInbox", NEW ends \in BOOLEAN,
               Become(With(c, SendRequest(k, type, 0, ends)))
        PROVE  SilentStep
    <2> DEFINE n == SendRequest(k, type, 0, ends)
    <2>1. n \in ChatRecords /\ NoRead(n, k) /\ Become(With(c, n))
      BY <1>2, <1>3
    <2> HIDE DEF n
    <2> QED  BY <2>1, OneChatSilent
  <1> DEFINE yes == TRUE
             no == FALSE
  <1>4. yes \in BOOLEAN /\ no \in BOOLEAN /\ (c \notin OwnChannels) \in BOOLEAN
    OBVIOUS
  <1>5. CASE LoadHistory(c)
    <2>1. Become(With(c, SendRequest(k, "History", 0, yes)))
      BY <1>5 DEF LoadHistory
    <2> HIDE DEF yes
    <2> QED  BY <1>3, <1>4, <2>1, TypeNames
  <1>6. CASE SendMessage(c)
    <2>1. Become(With(c, SendRequest(k, "Send", 0, yes)))
      BY <1>6 DEF SendMessage
    <2> HIDE DEF yes
    <2> QED  BY <1>3, <1>4, <2>1, TypeNames
  <1>7. CASE DeleteAllMessages(c)
    <2> DEFINE ends == c \notin OwnChannels
    <2>1. Become(With(c, SendRequest(k, "Delete", 0, ends))) /\ ends \in BOOLEAN
      BY <1>7 DEF DeleteAllMessages
    <2> HIDE DEF ends
    <2> QED  BY <1>3, <2>1, TypeNames
  <1>8. ASSUME NEW wasLast \in BOOLEAN, DeleteMessages(c, wasLast) PROVE SilentStep
    <2> DEFINE s == SendRequest(k, "Delete", 0, yes)
               n == IF wasLast THEN RequestDialogEntry(LastIs(s, s.last, no), no) ELSE s
    <2>2. s \in ChatRecords /\ Kept(s) /\ NoRead(s, k)
      <3> HIDE DEF yes
      <3> QED  BY <1>2, <1>4, TypeNames
    <2>3. Become(With(c, n))
      <3>1. LastIs(s, s.last, no) = [s EXCEPT !.known = FALSE]
        <4> HIDE DEF s
        <4> QED  BY <2>2 DEF LastIs, ChatRecords
      <3> QED  BY <1>8, <3>1 DEF DeleteMessages
    <2> HIDE DEF s, no
    <2>4. n \in ChatRecords /\ n.wire = s.wire
      <3> DEFINE i == LastIs(s, s.last, no)
      <3>1. i \in ChatRecords /\ Kept(i) /\ i.wire = s.wire
        <4>1. s.last \in MsgIds
          BY <2>2 DEF ChatRecords
        <4> QED  BY <1>4, <2>2, <4>1, LastIsFields DEF SameState
      <3> HIDE DEF i
      <3>2. LET e == RequestDialogEntry(i, no)
            IN e \in ChatRecords /\ e.wire = i.wire
        BY <1>4, <3>1, RequestEntryFields DEF SameRequests
      <3> QED  BY <2>2, <3>1, <3>2 DEF i
    <2> HIDE DEF n
    <2>5. NoRead(n, k)
      BY <2>2, <2>4 DEF NoRead
    <2> QED  BY <2>3, <2>4, <2>5, OneChatSilent
  <1>9. ASSUME NEW r \in k.sent \cup k.postponed, CancelRequest(c, r) PROVE SilentStep
    <2> DEFINE i == Withdrawn(k, r)
               n == FinishSentRequest(i, r.id)
    <2>1. Become(With(c, n))
      BY <1>9 DEF CancelRequest, Withdrawn
    <2>2. r.id \in Nat
      BY <1>1, RequestTypes
    <2>3. i \in ChatRecords /\ Kept(i) /\ i.wire = k.wire
      BY <1>1, WithdrawnFields
    <2> HIDE DEF i
    <2>4. n \in ChatRecords /\ NoRead(n, i)
      BY <2>2, <2>3, FinishKeeps, FinishNoRead
    <2> HIDE DEF n
    <2>5. NoRead(n, k)
      BY <2>3, <2>4 DEF NoRead
    <2> QED  BY <2>1, <2>4, <2>5, OneChatSilent
  <1>10. ASSUME NEW till \in MsgIds, NEW known \in BOOLEAN, ReadElsewhere(c, till, known)
         PROVE  SilentStep
    <2> DEFINE t == Told(k, till, no)
               i == SetInboxReadTill(t, till)
               n == IF known \/ k.local >= till THEN i ELSE RequestDialogEntry(i, no)
    <2>2. Become(With(c, n))
      <3>1. t = [k EXCEPT !.told = till]
        BY <1>1 DEF Told, ChatRecords
      <3> QED  BY <1>10, <3>1 DEF ReadElsewhere
    <2> HIDE DEF no
    <2>3. t \in ChatRecords /\ Kept(t) /\ t.wire = k.wire
      BY <1>1, <1>4, ToldFields DEF SameState
    <2> HIDE DEF t
    <2>4. i \in ChatRecords /\ Kept(i) /\ i.wire = t.wire
      BY <2>3, SetInboxFields DEF SameRequests
    <2> HIDE DEF i
    <2>5. LET e == RequestDialogEntry(i, no)
          IN e \in ChatRecords /\ e.wire = i.wire
      BY <1>4, <2>4, RequestEntryFields DEF SameRequests
    <2>6. n \in ChatRecords /\ n.wire = k.wire
      BY <2>3, <2>4, <2>5
    <2> HIDE DEF n
    <2>7. NoRead(n, k)
      BY <2>6 DEF NoRead
    <2> QED  BY <2>2, <2>6, <2>7, OneChatSilent
  <1>11. ASSUME NEW due, LeaveChat(c, due) PROVE SilentStep
    <2> DEFINE h == Hurried(k)
               w == With(c, h)
               v == SendReadRequests(w, due)
    <2>1. chat' = v.chats
      BY <1>11 DEF LeaveChat, Hurried, Become
    <2>2. h \in ChatRecords /\ Kept(h) /\ h.when = FALSE /\ h.wire = k.wire
      BY <1>1, HurriedFields DEF SameState
    <2> HIDE DEF h
    <2>3. /\ AllKept(w) /\ w.chats[c] = h /\ ~w.sends
          /\ \A d \in Chats \ {c} : w.chats[d] = chat[d]
      BY <2>2, WithIsKept
    <2> HIDE DEF w
    <2>4. SameWires(v, w)
      BY <2>3, SendReadsSilent DEF AllKept
    <2> HIDE DEF v
    <2>5. NoRead(w.chats[c], chat[c])
      BY <2>2, <2>3 DEF NoRead
    <2> QED  BY <2>1, <2>3, <2>4, <2>5, HandlerSilent
  <1>12. ASSUME NEW seen \in BOOLEAN, NEW still, NEW due, NewMessage(c, seen, still, due)
         PROVE  SilentStep
    <2> DEFINE m == k.last + 1
               i == LastIs(k, m, yes)
               w == With(c, i)
               v == IF seen THEN ReadInboxTill(w, c, m, yes, still, due) ELSE w
    <2>1. m \in MsgIds
      BY <1>1, <1>12, BoundsAssumption DEF NewMessage, MsgIds, ChatRecords
    <2>2. chat' = v.chats
      BY <1>12 DEF NewMessage, LastIs, Become
    <2> HIDE DEF yes, m
    <2>3. i \in ChatRecords /\ Kept(i) /\ i.when = k.when /\ i.wire = k.wire
      BY <1>1, <1>4, <2>1, LastIsFields DEF SameState
    <2> HIDE DEF i
    <2>4. /\ AllKept(w) /\ Timed(w) /\ w.chats[c] = i /\ ~w.sends
          /\ \A d \in Chats \ {c} : w.chats[d] = chat[d]
      BY <2>3, WithIsKept
    <2> HIDE DEF w
    <2>5. SameWires(ReadInboxTill(w, c, m, yes, still, due), w)
      BY <1>4, <2>1, <2>4, ReadInboxSilent
    <2>6. SameWires(v, w)
      BY <2>5 DEF SameWires
    <2> HIDE DEF v
    <2>7. NoRead(w.chats[c], chat[c])
      BY <2>3, <2>4 DEF NoRead
    <2> QED  BY <2>2, <2>4, <2>6, <2>7, HandlerSilent
  <1>13. ASSUME NEW till \in MsgIds, NEW still, NEW due,
                Become(ReadInboxTill(World, c, till, no, still, due))
         PROVE  SilentStep
    <2> DEFINE v == ReadInboxTill(World, c, till, no, still, due)
    <2>1. chat' = v.chats
      BY <1>13 DEF Become
    <2> HIDE DEF no
    <2>2. AllKept(World) /\ Timed(World) /\ World.chats = chat /\ ~World.sends
      BY WorldIsKept
    <2>3. SameWires(v, World)
      BY <1>4, <2>2, ReadInboxSilent
    <2> HIDE DEF v
    <2> QED  BY <2>1, <2>2, <2>3 DEF SameWires, NoRead, SilentStep
  <1>14. ASSUME NEW till \in MsgIds, NEW still, NEW due, View(c, till, still, due)
         PROVE  SilentStep
    BY <1>13, <1>14 DEF View
  <1>15. ASSUME NEW still, NEW due, ReadInbox(c, still, due) PROVE SilentStep
    <2>1. k.last \in MsgIds
      BY <1>1 DEF ChatRecords
    <2>2. CASE Become(ReadInboxTill(World, c, k.last, no, still, due))
      BY <1>13, <2>1, <2>2
    <2>3. CASE Become(With(c, RequestDialogEntry(k, yes)))
      <3> DEFINE n == RequestDialogEntry(k, yes)
      <3>1. Become(With(c, n))
        BY <2>3
      <3> HIDE DEF yes
      <3>2. n \in ChatRecords /\ n.wire = k.wire
        BY <1>1, <1>4, RequestEntryFields DEF SameRequests
      <3> HIDE DEF n
      <3>3. NoRead(n, k)
        BY <3>2 DEF NoRead
      <3> QED  BY <3>1, <3>2, <3>3, OneChatSilent
    <2> QED  BY <1>15, <2>2, <2>3 DEF ReadInbox
  <1> QED  BY <1>5, <1>6, <1>7, <1>8, <1>9, <1>10, <1>11, <1>12, <1>14, <1>15 DEF Calls

LEMMA AnswersSilent ==
    ASSUME KInv, ~sendReads, NEW c \in Chats, Answers(c)
    PROVE  SilentStep
  <1> DEFINE k == chat[c]
             yes == TRUE
             no == FALSE
  <1>1. k \in ChatRecords /\ Kept(k)
    BY ChatTypes
  <1>2. ASSUME NEW r \in k.wire
        PROVE  LET g == Gone(k, r)
               IN /\ Answered(c, r) = g
                  /\ g \in ChatRecords /\ Kept(g) /\ NoRead(g, k)
                  /\ g.when = k.when
                  /\ r.id \in Nat /\ r.till \in MsgIds
    BY <1>1, GoneFields, RequestTypes DEF Answered, Gone, SameState, SameReads, NoRead
  <1>3. yes \in BOOLEAN /\ no \in BOOLEAN
    OBVIOUS
  <1>4. ASSUME NEW r \in k.wire, Become(With(c, FinishSentRequest(Answered(c, r), r.id)))
        PROVE  SilentStep
    <2> DEFINE g == Answered(c, r)
               n == FinishSentRequest(g, r.id)
    <2>1. g \in ChatRecords /\ Kept(g) /\ NoRead(g, k) /\ r.id \in Nat
      BY <1>2
    <2>2. Become(With(c, n))
      BY <1>4
    <2> HIDE DEF g
    <2>3. n \in ChatRecords /\ NoRead(n, g)
      BY <2>1, FinishKeeps, FinishNoRead
    <2> HIDE DEF n
    <2>4. NoRead(n, k)
      BY <2>1, <2>3, NoReadTransitive
    <2> QED  BY <2>2, <2>3, <2>4, OneChatSilent
  <1>5. ASSUME NEW r \in k.wire, AnswerHistory(c, r) \/ AnswerSend(c, r)
        PROVE  SilentStep
    BY <1>4, <1>5 DEF AnswerHistory, AnswerSend
  <1>6. ASSUME NEW r \in k.wire, NEW more \in BOOLEAN, AnswerDelete(c, r, more)
        PROVE  SilentStep
    <2> DEFINE g == Answered(c, r)
               i == IF more THEN SendRequest(g, "Delete", 0, yes) ELSE g
               f == FinishSentRequest(i, r.id)
               n == IF ~more /\ ~f.known THEN RequestDialogEntry(f, no) ELSE f
    <2>1. Become(With(c, n))
      BY <1>6 DEF AnswerDelete
    <2> HIDE DEF yes, no
    <2>2. g \in ChatRecords /\ Kept(g) /\ NoRead(g, k) /\ r.id \in Nat
      BY <1>2
    <2> HIDE DEF g
    <2>3. LET s == SendRequest(g, "Delete", 0, yes)
          IN s \in ChatRecords /\ Kept(s) /\ NoRead(s, g)
      BY <1>3, <2>2, TypeNames, SendRequestFields, SendKeeps, SendNoRead DEF Sends
    <2>4. i \in ChatRecords /\ Kept(i) /\ NoRead(i, k)
      BY <2>2, <2>3, NoReadTransitive
    <2> HIDE DEF i
    <2>5. f \in ChatRecords /\ Kept(f) /\ NoRead(f, i)
      BY <2>2, <2>4, FinishKeeps, FinishNoRead
    <2> HIDE DEF f
    <2>6. LET e == RequestDialogEntry(f, no)
          IN e \in ChatRecords /\ e.wire = f.wire
      BY <1>3, <2>5, RequestEntryFields DEF SameRequests
    <2>7. n \in ChatRecords /\ n.wire = f.wire
      BY <2>5, <2>6
    <2> HIDE DEF n
    <2>8. NoRead(n, k)
      BY <2>4, <2>5, <2>7 DEF NoRead
    <2> QED  BY <2>1, <2>7, <2>8, OneChatSilent
  <1>7. ASSUME NEW r \in k.wire, AnswerDeleteChannel(c, r)
        PROVE  SilentStep
    <2> DEFINE g == Answered(c, r)
    <2>1. Become(With(c, g))
      BY <1>7 DEF AnswerDeleteChannel
    <2>2. g \in ChatRecords /\ NoRead(g, k)
      BY <1>2
    <2> HIDE DEF g
    <2> QED  BY <2>1, <2>2, OneChatSilent
  <1>8. ASSUME NEW r \in k.wire
        PROVE  /\ Larger(Answered(c, r).told, r.till) \in MsgIds
               /\ Answered(c, r).told \in MsgIds
    BY <1>2, LargerIsOne DEF ChatRecords
  <1>9. ASSUME NEW r \in k.wire, AnswerReadHistory(c, r)
        PROVE  SilentStep
    <2> DEFINE g == Answered(c, r)
               t == Larger(g.told, r.till)
               n == Told(g, t, no)
    <2>1. g \in ChatRecords /\ NoRead(g, k) /\ t \in MsgIds
      BY <1>2, <1>8
    <2>2. Become(With(c, n))
      <3>1. n = [g EXCEPT !.told = t]
        <4> HIDE DEF g, t
        <4> QED  BY <2>1 DEF Told, ChatRecords
      <3>2. Become(With(c, [g EXCEPT !.told = t]))
        BY <1>9 DEF AnswerReadHistory
      <3> QED  BY <3>1, <3>2
    <2> HIDE DEF g, t, no
    <2>3. n \in ChatRecords /\ n.wire = g.wire
      BY <1>3, <2>1, ToldFields DEF SameState
    <2> HIDE DEF n
    <2>4. NoRead(n, k)
      BY <2>1, <2>3 DEF NoRead
    <2> QED  BY <2>2, <2>3, <2>4, OneChatSilent
  <1>10. ASSUME NEW r \in k.wire, NEW done \in BOOLEAN, NEW due,
                AnswerRead(c, r, done, due)
         PROVE  SilentStep
    <2> DEFINE g == Answered(c, r)
               t == IF done THEN Larger(g.told, r.till) ELSE g.told
               refuses == ~done
               i == Told(g, t, refuses)
               read == ReadAnswered(i, r.till)
               w == With(c, read)
               v == SendReadRequests(w, due)
               f == FinishSentRequest(v.chats[c], r.id)
    <2>1. g \in ChatRecords /\ Kept(g) /\ NoRead(g, k) /\ g.when = k.when
          /\ r.till \in MsgIds /\ r.id \in Nat
      BY <1>2
    <2>2. t \in MsgIds /\ refuses \in BOOLEAN
      BY <1>8
    <2>3. chat' = [v.chats EXCEPT ![c] = FinishSentRequest(@, r.id)]
      BY <1>10 DEF AnswerRead, Told, ReadAnswered
    <2> HIDE DEF g, t, refuses
    <2>4. i \in ChatRecords /\ Kept(i) /\ i.wire = g.wire /\ i.when = g.when
      BY <2>1, <2>2, ToldFields DEF SameState
    <2> HIDE DEF i
    <2>5. read \in ChatRecords /\ Kept(read) /\ read.wire = i.wire
          /\ read.when = i.when
      BY <2>1, <2>4, ReadAnsweredFields DEF SameRequests
    <2> HIDE DEF read
    <2>6. /\ AllKept(w) /\ w.chats[c] = read /\ ~w.sends
          /\ \A d \in Chats \ {c} : w.chats[d] = chat[d]
      BY <2>1, <2>4, <2>5, WithIsKept
    <2> HIDE DEF w
    <2>7. AllKept(v) /\ SameWires(v, w)
      BY <2>6, SendReadsFields, SendReadsSilent DEF AllKept
    <2> HIDE DEF v
    <2>8. v \in Worlds /\ v.chats[c] \in ChatRecords /\ Kept(v.chats[c])
      BY <2>7 DEF AllKept, Worlds
    <2>9. NoRead(f, v.chats[c])
      BY <2>1, <2>8, FinishNoRead
    <2>10. chat'[c] = f /\ \A d \in Chats \ {c} : chat'[d] = v.chats[d]
      BY <2>3, <2>8 DEF Worlds
    <2> HIDE DEF f
    <2>11. NoRead(f, k)
      BY <2>1, <2>4, <2>5, <2>6, <2>7, <2>9 DEF NoRead, SameWires
    <2> QED  BY <2>6, <2>7, <2>10, <2>11 DEF SilentStep, NoRead, SameWires
  <1>11. ASSUME NEW n \in ChatRecords, Kept(n), n.when = k.when, n.wire = k.wire,
                NEW till \in MsgIds, NEW still, NEW due, NEW stale,
                chat' = DialogEntryApplied(With(c, n), c, till, still, due, stale).chats
         PROVE  SilentStep
    <2> DEFINE w == With(c, n)
               v == DialogEntryApplied(w, c, till, still, due, stale)
    <2>1. chat' = v.chats
      BY <1>11
    <2>2. /\ AllKept(w) /\ Timed(w) /\ ~w.sends /\ w.chats[c] = n
          /\ \A d \in Chats \ {c} : w.chats[d] = chat[d]
      BY <1>11, WithIsKept
    <2> HIDE DEF w
    <2>3. SameWires(v, w)
      BY <2>2, AppliedSilent
    <2> HIDE DEF v
    <2>4. NoRead(w.chats[c], chat[c])
      BY <1>11, <2>2 DEF NoRead
    <2> QED  BY <2>1, <2>2, <2>3, <2>4, HandlerSilent
  <1>12. k.told \in MsgIds /\ k.last \in MsgIds /\ 0 \in MsgIds
    BY <1>1, TypeNames DEF ChatRecords
  <1>13. ASSUME NEW a \in k.asks, NEW done \in BOOLEAN, NEW still, NEW due, NEW stale,
                AnswerEntry(c, a, done, still, due, stale)
         PROVE  SilentStep
    <2> DEFINE till == IF done THEN k.told ELSE 0
               refuses == ~done
               n == EntryTold(k, a, till, refuses)
               last == IF done THEN n.last ELSE 0
               v == DialogEntryApplied(With(c, n), c, last, still, due, stale)
    <2>1. till \in MsgIds /\ refuses \in BOOLEAN /\ a \in Asks
      BY <1>1, <1>12 DEF ChatRecords
    <2>2. chat' = v.chats
      BY <1>13 DEF AnswerEntry, EntryTold
    <2> HIDE DEF till, refuses
    <2>3. /\ n \in ChatRecords /\ Kept(n) /\ n.when = k.when /\ n.last = k.last
          /\ n.wire = k.wire
      BY <1>1, <2>1, EntryToldFields DEF SameState
    <2>4. last \in MsgIds
      BY <1>12, <2>3
    <2> HIDE DEF n, last
    <2> QED  BY <1>11, <2>2, <2>3, <2>4
  <1>14. ASSUME NEW still, NEW due, NEW stale, DialogsSlice(c, still, due, stale)
         PROVE  SilentStep
    <2> DEFINE n == SetInboxReadTill(k, k.told)
               v == DialogEntryApplied(With(c, n), c, k.last, still, due, stale)
    <2>1. chat' = v.chats
      BY <1>14 DEF DialogsSlice, Become
    <2>2. n \in ChatRecords /\ Kept(n) /\ n.when = k.when /\ n.wire = k.wire
      BY <1>1, <1>12, SetInboxFields DEF SameRequests
    <2> HIDE DEF n
    <2> QED  BY <1>11, <1>12, <2>1, <2>2
  <1> QED  BY <1>5, <1>6, <1>7, <1>9, <1>10, <1>13, <1>14 DEF Answers

(* In ghost mode nothing the program does by itself tells the server of a  *)
(* read: of the requests a step hands to MTP, those that are reads are     *)
(* readHistory()'s.                                                        *)
THEOREM GhostIsSilent == Spec => GhostStartsNoRead
  <1>1. ASSUME KInv, ~sendReads, Next PROVE SilentStep
    <2>1. ASSUME NEW c \in Chats, Calls(c) \/ Answers(c) PROVE SilentStep
      BY <1>1, <2>1, CallsSilent, AnswersSilent
    <2>2. ASSUME NEW due, ReadRequestsTimer(due) PROVE SilentStep
      <3> DEFINE w == [World EXCEPT !.timer = FALSE]
                 v == SendReadRequests(w, due)
      <3>1. World \in Worlds /\ World.chats = chat /\ ~World.sends
        BY <1>1, WorldIsKept DEF AllKept
      <3>2. w \in Worlds /\ w.chats = chat /\ ~w.sends
        BY <3>1 DEF Worlds
      <3>3. chat' = v.chats
        BY <2>2 DEF ReadRequestsTimer, Become
      <3> HIDE DEF w
      <3>4. SameWires(v, w)
        BY <3>2, SendReadsSilent
      <3> HIDE DEF v
      <3> QED  BY <3>2, <3>3, <3>4 DEF SameWires, NoRead, SilentStep
    <2>3. CASE SendDialogRequests
      <3>1. \A c \in Chats : chat'[c].wire = chat[c].wire
        BY <1>1, <2>3, SendDialogRequestsFields DEF EntrySent
      <3> QED  BY <3>1 DEF NoRead, SilentStep
    <2>4. CASE SetSendReadMessages
      BY <2>4 DEF SetSendReadMessages, NoRead, SilentStep
    <2>5. ASSUME NEW c \in Chats, ReadHistory(c) PROVE SilentStep
      <3> DEFINE k == chat[c]
                 no == FALSE
                 n == SendRequest(k, "ReadInbox", k.last, no)
      <3>1. k \in ChatRecords /\ Kept(k) /\ k.last \in MsgIds /\ no \in BOOLEAN /\ ~no
        BY <1>1, ChatTypes DEF ChatRecords
      <3>2. Become(With(c, n))
        BY <2>5 DEF ReadHistory
      <3> HIDE DEF no
      <3>3. n \in ChatRecords /\ NoRead(n, k)
        BY <3>1, TypeNames, SendRequestFields, SendNoRead DEF Sends
      <3> HIDE DEF n
      <3> QED  BY <1>1, <3>2, <3>3, OneChatSilent
    <2>6. ASSUME NEW c \in Chats, NEW still, LocalRead(c, still) PROVE SilentStep
      <3> DEFINE no == FALSE
                 w == [World EXCEPT !.sends = FALSE]
                 v == ReadInboxTill(w, c, chat[c].last, no, still, {})
      <3>1. AllKept(World) /\ Timed(World) /\ World.chats = chat
        BY <1>1, WorldIsKept
      <3>2. AllKept(w) /\ Timed(w) /\ w.chats = chat /\ ~w.sends
        BY <3>1 DEF AllKept, Timed, Worlds
      <3>3. chat' = v.chats
        BY <2>6 DEF LocalRead, Become
      <3>4. chat[c].last \in MsgIds /\ no \in BOOLEAN
        BY <1>1, ChatTypes DEF ChatRecords
      <3> HIDE DEF w, no
      <3>5. SameWires(v, w)
        BY <3>2, <3>4, ReadInboxSilent
      <3> HIDE DEF v
      <3> QED  BY <3>2, <3>3, <3>5 DEF SameWires, NoRead, SilentStep
    <2> QED  BY <1>1, <2>1, <2>2, <2>3, <2>4, <2>5, <2>6 DEF Next, GhostMode
  <1>2. KInv /\ [Next]_vars =>
            [~sendReads => \A c \in Chats : \A r \in chat'[c].wire \ chat[c].wire :
                r.type = "ReadInbox" => ~r.ends]_vars
    BY <1>1 DEF SilentStep, NoRead
  <1> QED  BY <1>2, KInvInductive, PTL DEF Spec, GhostStartsNoRead

-----------------------------------------------------------------------------
(* Without ghost mode: the operators keep the rest of the invariant.       *)

(* A request that is registered: nothing goes to MTP by another way, and   *)
(* an entry that is out is asked again.                                    *)
LEMMA SendRegisters ==
    ASSUME NEW k \in ChatRecords, Kept(k), Registered(k), EntryAwaited(k),
           NEW type \in Types, NEW till \in MsgIds, NEW ends \in BOOLEAN
    PROVE  LET n == SendRequest(k, type, till, ends)
               r == New(k, type, till, ends)
           IN /\ Registered(n) /\ EntryAwaited(n)
              /\ type = "ReadInbox" => ReadsOut(n) = ReadsOut(k) \cup {r}
              /\ type # "ReadInbox" => ReadsOut(n) = ReadsOut(k)
  <1> DEFINE n == SendRequest(k, type, till, ends)
             r == New(k, type, till, ends)
  <1>1. Sends(n, k, type, r)
    BY SendRequestFields
  <1>2. r.type = type /\ r.id = k.next + 1 /\ k.next \in Nat
    BY DEF New, ChatRecords
  <1> HIDE DEF n, r
  <1>3. \A x \in k.sent \cup k.postponed : x.id \in Nat /\ x.id <= k.next /\ x.id # r.id
    <2>1. \A x \in k.sent \cup k.postponed : x.id \in Nat /\ x.id <= k.next
      BY RequestTypes DEF Registered
    <2> QED  BY <1>2, <2>1
  <1>4. \A x, y \in k.sent \cup k.postponed \cup {r} : x.id = y.id => x = y
    BY <1>3 DEF Registered
  <1>5. \A x \in k.sent \cup k.postponed \cup {r} : x.id <= k.next + 1
    <2>1. \A x \in k.sent \cup k.postponed : x.id <= k.next + 1
      BY <1>2, <1>3
    <2> QED  BY <1>2, <2>1
  <1>6. ASSUME PutOff(n, k, type, r)
        PROVE  Registered(n) /\ EntryAwaited(n)
               /\ ReadsOut(n) = ReadsOut(k) \cup (IF type = "ReadInbox" THEN {r} ELSE {})
    <2>1. n.sent \cup n.postponed = k.sent \cup k.postponed \cup {r}
      BY <1>6 DEF PutOff
    <2>2. Registered(n)
      BY <1>1, <1>4, <1>5, <1>6, <2>1 DEF PutOff, Registered, Sends
    <2>3. EntryAwaited(n)
      BY <1>1, <1>6 DEF PutOff, EntryAwaited, Sends
    <2>4. ReadsOut(n) = ReadsOut(k) /\ type = "History"
      BY <1>6 DEF PutOff, ReadsOut
    <2> QED  BY <2>2, <2>3, <2>4
  <1>7. ASSUME NEW back \in SUBSET (k.sent \cup {r}), SentNow(n, k, type, r, back)
        PROVE  Registered(n) /\ EntryAwaited(n)
               /\ ReadsOut(n) = ReadsOut(k) \cup (IF type = "ReadInbox" THEN {r} ELSE {})
    <2>1. \A x \in back : x.type = "History"
      BY <1>7 DEF SentNow
    <2>2. Registered(n)
      <3>1. n.wire \subseteq n.sent
        BY <1>7 DEF SentNow, Registered
      <3>2. ~(IsOut(n.sent, "History") /\ IsOut(n.sent, "Delete"))
        BY <1>7 DEF SentNow, IsOut
      <3>3. n.sent \cup n.postponed \subseteq k.sent \cup k.postponed \cup {r}
        BY <1>7 DEF SentNow
      <3> QED  BY <1>1, <1>4, <1>5, <3>1, <3>2, <3>3 DEF Registered, Sends
    <2>3. EntryAwaited(n)
      <3>1. CASE type = "History"
        BY <1>1, <1>7, <3>1 DEF SentNow, EntryAwaited, Sends
      <3>2. CASE type # "History"
        <4>1. PostponeEntryRequest(k.sent \cup {r})
          BY <1>2, <3>2 DEF PostponeEntryRequest
        <4>2. n.entry = "requested" => n.again
          BY <1>1, <1>7, <4>1 DEF SentNow, Sends
        <4> QED  BY <4>2 DEF EntryAwaited
      <3> QED  BY <3>1, <3>2
    <2>4. ReadsOut(n) = ReadsOut(k) \cup (IF type = "ReadInbox" THEN {r} ELSE {})
      BY <1>2, <1>7, <2>1 DEF SentNow, ReadsOut
    <2> QED  BY <2>2, <2>3, <2>4
  <1>8. /\ Registered(n) /\ EntryAwaited(n)
        /\ ReadsOut(n) = ReadsOut(k) \cup (IF type = "ReadInbox" THEN {r} ELSE {})
    BY <1>1, <1>6, <1>7 DEF Sends
  <1>9. /\ type = "ReadInbox" => ReadsOut(n) = ReadsOut(k) \cup {r}
        /\ type # "ReadInbox" => ReadsOut(n) = ReadsOut(k)
    BY <1>8
  <1> QED  BY <1>8, <1>9 DEF n, r

(* What is said of reads depends on a few fields only.                     *)
SameReading(n, k) ==
    /\ n.will = k.will /\ n.sentTill = k.sentTill /\ n.done = k.done
    /\ n.local = k.local /\ n.told = k.told /\ n.refused = k.refused

LEMMA SameReadsSay ==
    ASSUME NEW n, NEW k, SameReading(n, k), ReadsOut(n) = ReadsOut(k)
    PROVE  /\ ReadsInOrder(k) => ReadsInOrder(n)
           /\ ReadsTold(k) => ReadsTold(n)
  <1>1. ReadsInOrder(k) => ReadsInOrder(n)
    BY DEF SameReading, ReadsInOrder
  <1>2. \A m : Covered(n, m) <=> Covered(k, m)
    BY DEF SameReading, Covered
  <1>3. ReadsTold(k) => ReadsTold(n)
    BY <1>2 DEF SameReading, ReadsTold
  <1> QED  BY <1>1, <1>3

LEMMA SendFirm ==
    ASSUME NEW k \in ChatRecords, Kept(k), Firm(k), NEW type \in Types,
           type # "ReadInbox", NEW till \in MsgIds, NEW ends \in BOOLEAN
    PROVE  Firm(SendRequest(k, type, till, ends))
  <1> DEFINE n == SendRequest(k, type, till, ends)
  <1>1. Registered(n) /\ EntryAwaited(n) /\ ReadsOut(n) = ReadsOut(k)
    <2>1. Registered(k) /\ EntryAwaited(k)
      BY DEF Firm
    <2> QED  BY <2>1, SendRegisters
  <1>2. SameReading(n, k)
    BY SendRequestFields DEF Sends, SameReads, SameReading
  <1> HIDE DEF n
  <1>3. ReadsInOrder(n) /\ ReadsTold(n)
    BY <1>1, <1>2, SameReadsSay DEF Firm
  <1> QED  BY <1>1, <1>3 DEF Firm, n

(* The read to send becomes the one sent last.                             *)
LEMMA ReadRequestFirm ==
    ASSUME NEW k \in ChatRecords, Kept(k), Firm(k), k.will # 0
    PROVE  LET n == SendReadRequest(k)
           IN /\ Firm(n) /\ n.local = k.local
              /\ n.told = k.told /\ n.refused = k.refused
              /\ \A m : Covered(k, m) => Covered(n, m)
  <1> DEFINE t == Taken(k)
             yes == TRUE
             r == New(t, "ReadInbox", k.will, yes)
             n == SendRequest(t, "ReadInbox", k.will, yes)
  <1>1. /\ SameRequests(t, k) /\ t.entry = k.entry
        /\ t.will = 0 /\ t.sentTill = k.will /\ t.done = FALSE
        /\ t.local = k.local /\ t.told = k.told /\ t.refused = k.refused
        /\ Kept(t)
    BY TakenFields
  <1>2. yes \in BOOLEAN /\ SendReadRequest(k) = n
    BY DEF SendReadRequest, Taken
  <1> HIDE DEF t, yes
  <1>3. t \in ChatRecords /\ Registered(t) /\ EntryAwaited(t)
    BY <1>1 DEF SameRequests, Registered, EntryAwaited, Firm
  <1>4. k.will \in MsgIds /\ k.sentTill \in MsgIds /\ k.local \in MsgIds
        /\ k.told \in MsgIds
    BY DEF ChatRecords
  <1>5. Registered(n) /\ EntryAwaited(n) /\ ReadsOut(n) = ReadsOut(k) \cup {r}
    <2>1. Registered(n) /\ EntryAwaited(n) /\ ReadsOut(n) = ReadsOut(t) \cup {r}
      BY <1>1, <1>2, <1>3, <1>4, TypeNames, SendRegisters
    <2>2. ReadsOut(t) = ReadsOut(k)
      BY <1>1 DEF SameRequests, ReadsOut
    <2> QED  BY <2>1, <2>2
  <1>6. /\ n.will = 0 /\ n.sentTill = k.will /\ n.done = FALSE
        /\ n.local = k.local /\ n.told = k.told /\ n.refused = k.refused
    <2>1. Sends(n, t, "ReadInbox", r)
      BY <1>2, <1>3, <1>4, TypeNames, SendRequestFields
    <2> HIDE DEF n, r
    <2> QED  BY <1>1, <2>1 DEF Sends, SameReads
  <1>7. r.till = k.will
    BY DEF New
  <1> HIDE DEF n, r
  <1>8. \A x \in ReadsOut(k) : x.till \in MsgIds /\ x.till < k.will
    <2>1. \A x \in ReadsOut(k) : x.till \in MsgIds
      BY RequestTypes DEF ReadsOut
    <2> QED  BY <2>1 DEF Firm, ReadsInOrder
  <1>9. \A x \in ReadsOut(n) : x.till \in MsgIds /\ x.till <= n.sentTill
    BY <1>4, <1>5, <1>6, <1>7, <1>8, BoundsAssumption DEF MsgIds
  <1>10. ReadsInOrder(n)
    <2>1. n.sentTill <= Larger(n.sentTill, n.local)
          /\ Larger(n.sentTill, n.local) \in MsgIds
      BY <1>4, <1>6, LargerIsOne
    <2>2. \A x \in ReadsOut(n) : x.till <= Larger(n.sentTill, n.local)
      BY <1>4, <1>6, <1>9, <2>1, BoundsAssumption DEF MsgIds
    <2> QED  BY <1>6, <1>9, <2>2 DEF ReadsInOrder
  <1>11. \A m : Covered(k, m) => Covered(n, m)
    BY <1>5, <1>6, <1>7 DEF Covered
  <1>12. Covered(n, n.sentTill)
    BY <1>4, <1>5, <1>6, <1>7, BoundsAssumption DEF Covered, MsgIds
  <1>13. ReadsTold(n)
    BY <1>6, <1>11, <1>12 DEF ReadsTold, Firm
  <1>14. Firm(n)
    BY <1>5, <1>10, <1>13 DEF Firm
  <1> QED  BY <1>2, <1>6, <1>11, <1>14

(* The end of a request that is not a read at MTP.                         *)
LEMMA FinishFirm ==
    ASSUME NEW k \in ChatRecords, Kept(k), Firm(k), NEW id \in Nat,
           \A r \in ReadsOut(k) : r.id # id
    PROVE  Firm(FinishSentRequest(k, id))
  <1> DEFINE n == FinishSentRequest(k, id)
  <1>1. PICK back \in SUBSET k.postponed : Finishes(n, k, id, back)
    BY FinishFields DEF Kept
  <1> HIDE DEF n
  <1>2. \A r \in back : r.type = "History"
    BY DEF Kept
  <1>3. Registered(n)
    <2>1. n.wire \subseteq n.sent
      BY <1>1 DEF Finishes, Left, Firm, Registered
    <2>2. ~(IsOut(n.sent, "History") /\ IsOut(n.sent, "Delete"))
      <3>1. CASE IsOut(Left(k, id), "Delete")
        BY <1>1, <3>1 DEF Finishes, Left, IsOut, Firm, Registered
      <3>2. CASE ~IsOut(Left(k, id), "Delete")
        BY <1>1, <1>2, <3>2 DEF Finishes, IsOut
      <3> QED  BY <3>1, <3>2
    <2>3. n.sent \cup n.postponed \subseteq k.sent \cup k.postponed
      BY <1>1 DEF Finishes, Left
    <2>4. n.next = k.next
      BY <1>1 DEF Finishes
    <2> QED  BY <2>1, <2>2, <2>3, <2>4 DEF Registered, Firm
  <1>4. EntryAwaited(n)
    BY <1>1 DEF Finishes, EntryAwaited, Firm
  <1>5. ReadsOut(n) = ReadsOut(k)
    <2>1. ReadsOut(n) \subseteq ReadsOut(k)
      BY <1>1, <1>2 DEF Finishes, ReadsOut
    <2>2. ReadsOut(k) \subseteq ReadsOut(n)
      BY <1>1 DEF Finishes, ReadsOut, Left
    <2> QED  BY <2>1, <2>2
  <1>6. SameReading(n, k)
    BY <1>1 DEF Finishes, SameReads, SameReading
  <1>7. ReadsInOrder(n) /\ ReadsTold(n)
    BY <1>5, <1>6, SameReadsSay DEF Firm
  <1> QED  BY <1>3, <1>4, <1>7 DEF Firm, n

(* A number that MTP has done with stays so.                               *)
IdGone(k, id) == id <= k.next /\ \A x \in k.wire : x.id # id

LEMMA SendGone ==
    ASSUME NEW k \in ChatRecords, NEW id \in Nat, IdGone(k, id), NEW type \in Types,
           NEW till \in MsgIds, NEW ends \in BOOLEAN
    PROVE  IdGone(SendRequest(k, type, till, ends), id)
  <1> DEFINE n == SendRequest(k, type, till, ends)
             r == New(k, type, till, ends)
  <1>1. Sends(n, k, type, r)
    BY SendRequestFields
  <1>2. r.id = k.next + 1 /\ k.next \in Nat
    BY DEF New, ChatRecords
  <1> HIDE DEF n, r
  <1>3. n.wire \subseteq k.wire \cup {r}
    BY <1>1 DEF Sends, PutOff, SentNow
  <1>4. id <= k.next + 1 /\ r.id # id
    BY <1>2 DEF IdGone
  <1>5. n.next = k.next + 1
    BY <1>1 DEF Sends
  <1> QED  BY <1>3, <1>4, <1>5 DEF IdGone, n

LEMMA ReadRequestGone ==
    ASSUME NEW k \in ChatRecords, NEW id \in Nat, IdGone(k, id)
    PROVE  IdGone(SendReadRequest(k), id)
  <1> DEFINE t == Taken(k)
             yes == TRUE
  <1>1. yes \in BOOLEAN /\ SendReadRequest(k) = SendRequest(t, "ReadInbox", k.will, yes)
    BY DEF SendReadRequest, Taken
  <1>2. t \in ChatRecords /\ t.wire = k.wire /\ t.next = k.next
    BY TakenFields DEF SameRequests
  <1> HIDE DEF t, yes
  <1>3. IdGone(t, id)
    BY <1>2 DEF IdGone
  <1>4. k.will \in MsgIds
    BY DEF ChatRecords
  <1> QED  BY <1>1, <1>2, <1>3, <1>4, TypeNames, SendGone

LEMMA GoneRegisters ==
    ASSUME NEW k \in ChatRecords, Registered(k), NEW r \in k.wire
    PROVE  LET n == Gone(k, r)
           IN Registered(n) /\ IdGone(n, r.id) /\ ReadsOut(n) = ReadsOut(k) \ {r}
  <1> DEFINE n == Gone(k, r)
  <1>1. SameState(n, k) /\ n.wire = k.wire \ {r}
    BY GoneFields
  <1> HIDE DEF n
  <1>2. Registered(n)
    BY <1>1 DEF SameState, Registered
  <1>3. IdGone(n, r.id)
    BY <1>1 DEF SameState, Registered, IdGone
  <1>4. ReadsOut(n) = ReadsOut(k) \ {r}
    BY <1>1 DEF ReadsOut
  <1> QED  BY <1>2, <1>3, <1>4 DEF n

LEMMA GoneFirm ==
    ASSUME NEW k \in ChatRecords, Firm(k), NEW r \in k.wire, r.type # "ReadInbox"
    PROVE  Firm(Gone(k, r))
  <1> DEFINE n == Gone(k, r)
  <1>1. SameState(n, k) /\ SameReads(n, k) /\ n.asks = k.asks
    BY GoneFields
  <1>2. Registered(n) /\ ReadsOut(n) = ReadsOut(k) \ {r}
    BY GoneRegisters DEF Firm
  <1> HIDE DEF n
  <1>3. ReadsOut(n) = ReadsOut(k) /\ SameReading(n, k)
    BY <1>1, <1>2 DEF ReadsOut, SameReads, SameReading
  <1>4. ReadsInOrder(n) /\ ReadsTold(n)
    BY <1>3, SameReadsSay DEF Firm
  <1>5. EntryAwaited(n)
    BY <1>1 DEF SameState, EntryAwaited, Firm
  <1> QED  BY <1>2, <1>4, <1>5 DEF Firm, n

(* A read that is answered: the server has taken it, or would not.         *)
LEMMA ReadToldFirm ==
    ASSUME NEW k \in ChatRecords, Firm(k), NEW r \in k.wire,
           NEW told \in MsgIds, NEW no \in BOOLEAN, k.told <= told,
           r.till <= told \/ no
    PROVE  LET n == Told(Gone(k, r), told, no)
           IN Firm(n) /\ IdGone(n, r.id)
  <1> DEFINE g == Gone(k, r)
             n == Told(g, told, no)
  <1>1. SameState(g, k) /\ SameReads(g, k) /\ g.asks = k.asks
    BY GoneFields
  <1>2. Registered(g) /\ IdGone(g, r.id) /\ ReadsOut(g) = ReadsOut(k) \ {r}
    BY GoneRegisters DEF Firm
  <1> HIDE DEF g
  <1>3. g \in ChatRecords
    BY <1>1 DEF SameState
  <1>4. /\ SameState(n, g) /\ n.asks = g.asks /\ n.wire = g.wire
        /\ n.will = g.will /\ n.sentTill = g.sentTill
        /\ n.done = g.done /\ n.local = g.local /\ n.told = told
        /\ n.refused = (g.refused \/ no)
    BY <1>3, ToldFields
  <1> HIDE DEF n
  <1>5. Registered(n) /\ IdGone(n, r.id) /\ ReadsOut(n) = ReadsOut(k) \ {r}
    BY <1>2, <1>4 DEF SameState, Registered, IdGone, ReadsOut
  <1>6. EntryAwaited(n)
    BY <1>1, <1>4 DEF SameState, EntryAwaited, Firm
  <1>7. /\ n.will = k.will /\ n.sentTill = k.sentTill /\ n.done = k.done
        /\ n.local = k.local
    BY <1>1, <1>4 DEF SameReads
  <1>8. ReadsInOrder(n)
    BY <1>5, <1>7 DEF ReadsInOrder, Firm
  <1>9. ASSUME ~n.refused PROVE ReadsTold(n)
    <2>1. ~k.refused /\ r.till <= told
      BY <1>1, <1>4, <1>9 DEF SameReads
    <2>2. k.told \in MsgIds /\ r.till \in MsgIds /\ k.sentTill \in MsgIds
      BY RequestTypes DEF ChatRecords
    <2>3. ASSUME NEW m \in MsgIds, Covered(k, m) PROVE Covered(n, m)
      <3>1. m <= k.told => m <= told
        BY <2>2, BoundsAssumption DEF MsgIds
      <3>2. m <= r.till => m <= told
        BY <2>1, <2>2, BoundsAssumption DEF MsgIds
      <3> QED  BY <1>4, <1>5, <1>7, <2>3, <3>1, <3>2 DEF Covered
    <2>4. Unread(0, k.local) \subseteq MsgIds
      BY BoundsAssumption DEF Unread, MsgIds, ChatRecords
    <2>5. k.done => k.sentTill <= told
      BY <2>1, <2>2, BoundsAssumption DEF MsgIds, Firm, ReadsTold
    <2> QED  BY <1>4, <1>7, <2>1, <2>2, <2>3, <2>4, <2>5 DEF ReadsTold, Firm
  <1>10. ReadsTold(n)
    BY <1>9 DEF ReadsTold
  <1>11. Firm(n)
    BY <1>5, <1>6, <1>8, <1>10 DEF Firm
  <1> QED  BY <1>5, <1>11 DEF n, g

LEMMA ReadAnsweredFirm ==
    ASSUME NEW k \in ChatRecords, Kept(k), Firm(k), NEW till \in MsgIds,
           till <= k.told \/ k.refused
    PROVE  Firm(ReadAnswered(k, till))
  <1> DEFINE n == ReadAnswered(k, till)
  <1>1. /\ SameRequests(n, k)
        /\ n.will = k.will /\ n.local = k.local
        /\ n.told = k.told /\ n.refused = k.refused
        /\ n.entry = k.entry \/ n.entry = "pending"
        /\ \/ n.sentTill = k.sentTill /\ n.done = k.done
           \/ n.sentTill = k.sentTill /\ k.sentTill = till
           \/ n.sentTill = 0 /\ k.sentTill = till /\ till <= k.local
    BY ReadAnsweredFields
  <1> HIDE DEF n
  <1>2. Registered(n) /\ EntryAwaited(n) /\ ReadsOut(n) = ReadsOut(k)
    BY <1>1 DEF SameRequests, Registered, EntryAwaited, Firm, ReadsOut
  <1>3. /\ k.sentTill \in MsgIds /\ k.local \in MsgIds /\ k.told \in MsgIds
        /\ \A r \in ReadsOut(k) : r.till \in MsgIds
    BY RequestTypes DEF ChatRecords, ReadsOut
  <1>4. ReadsInOrder(n)
    <2>1. ASSUME n.sentTill = 0, till <= k.local, k.sentTill = till,
                 NEW r \in ReadsOut(k)
          PROVE  r.till <= Larger(n.sentTill, k.local)
      <3>1. Larger(k.sentTill, k.local) = k.local /\ Larger(0, k.local) = k.local
        BY <1>3, <2>1, BoundsAssumption DEF Larger, MsgIds
      <3> QED  BY <2>1, <3>1 DEF Firm, ReadsInOrder
    <2>2. \A r \in ReadsOut(n) : r.till <= Larger(n.sentTill, n.local)
      BY <1>1, <1>2, <2>1 DEF Firm, ReadsInOrder
    <2>3. \A r \in ReadsOut(n) :
             /\ n.sentTill # 0 => r.till <= n.sentTill
             /\ n.will # 0 => r.till < n.will
      BY <1>1, <1>2 DEF Firm, ReadsInOrder
    <2> QED  BY <2>2, <2>3 DEF ReadsInOrder
  <1>5. \A m : Covered(k, m) <=> Covered(n, m)
    BY <1>1, <1>2 DEF Covered
  <1>6. ReadsTold(n)
    <2>1. Covered(n, 0)
      BY <1>1, <1>3, BoundsAssumption DEF Covered, MsgIds
    <2>2. ASSUME ~k.refused
          PROVE  Covered(n, n.sentTill) /\ (n.done => n.sentTill <= k.told)
      <3>1. Covered(k, k.sentTill) /\ (k.done => k.sentTill <= k.told) /\ till <= k.told
            /\ 0 <= k.told
        BY <1>3, <2>2, BoundsAssumption DEF Firm, ReadsTold, MsgIds
      <3> QED  BY <1>1, <1>5, <2>1, <3>1
    <2> QED  BY <1>1, <1>5, <2>2 DEF ReadsTold, Firm
  <1> QED  BY <1>2, <1>4, <1>6 DEF Firm, n

(* Changes that leave requests and reads alone.                            *)
LEMMA SameIsFirm ==
    ASSUME NEW k \in ChatRecords, Firm(k), NEW n \in ChatRecords,
           SameRequests(n, k), SameReading(n, k),
           n.entry = k.entry \/ n.entry = "pending"
    PROVE  Firm(n)
  <1>1. Registered(n) /\ EntryAwaited(n) /\ ReadsOut(n) = ReadsOut(k)
    BY DEF SameRequests, Registered, EntryAwaited, Firm, ReadsOut
  <1>2. ReadsInOrder(n) /\ ReadsTold(n)
    BY <1>1, SameReadsSay DEF Firm
  <1> QED  BY <1>1, <1>2 DEF Firm

LEMMA RequestEntryFirm ==
    ASSUME NEW k \in ChatRecords, Kept(k), Firm(k), NEW reader \in BOOLEAN
    PROVE  Firm(RequestDialogEntry(k, reader))
  <1> DEFINE n == RequestDialogEntry(k, reader)
  <1>1. /\ SameRequests(n, k)
        /\ n.entry = (IF k.entry = "none" THEN "pending" ELSE k.entry)
        /\ n.will = k.will /\ n.sentTill = k.sentTill
        /\ n.done = k.done /\ n.local = k.local /\ n.told = k.told
        /\ n.refused = k.refused
    BY RequestEntryFields
  <1> HIDE DEF n
  <1>2. /\ n \in ChatRecords /\ SameReading(n, k)
        /\ n.entry = k.entry \/ n.entry = "pending"
    BY <1>1 DEF SameRequests, SameReading
  <1>3. Firm(n)
    BY <1>1, <1>2, SameIsFirm
  <1> QED  BY <1>3 DEF n

(* What is covered stays so up to any earlier message.                     *)
LEMMA CoveredBelow ==
    ASSUME NEW k \in ChatRecords, NEW m \in MsgIds, NEW n \in MsgIds, m <= n,
           Covered(k, n)
    PROVE  Covered(k, m)
  <1>1. k.told \in MsgIds /\ k.will \in MsgIds
        /\ \A r \in ReadsOut(k) : r.till \in MsgIds
    BY RequestTypes DEF ChatRecords, ReadsOut
  <1>2. n <= k.told => m <= k.told
    BY <1>1, BoundsAssumption DEF MsgIds
  <1>3. n <= k.will => m <= k.will
    BY <1>1, BoundsAssumption DEF MsgIds
  <1>4. ASSUME NEW r \in ReadsOut(k), n <= r.till PROVE m <= r.till
    BY <1>1, <1>4, BoundsAssumption DEF MsgIds
  <1> QED  BY <1>2, <1>3, <1>4 DEF Covered

LEMMA UnreadIds ==
    ASSUME NEW m \in MsgIds, NEW n \in MsgIds, NEW x \in Unread(m, n)
    PROVE  x \in MsgIds /\ m < x /\ x <= n /\ x \notin Outgoing
  BY BoundsAssumption DEF Unread, MsgIds

LEMMA UnreadTill ==
    ASSUME NEW l \in MsgIds, NEW m \in MsgIds, NEW x \in Unread(0, Larger(l, m))
    PROVE  x \in Unread(0, l) \/ x \in Unread(0, m)
  BY BoundsAssumption DEF Unread, Larger, MsgIds

(* Reading locally what is covered.                                        *)
MayRead(k, till) == k.refused \/ \A m \in Unread(0, till) : Covered(k, m)

LEMMA SetInboxFirm ==
    ASSUME NEW k \in ChatRecords, Firm(k), NEW till \in MsgIds, MayRead(k, till)
    PROVE  Firm(SetInboxReadTill(k, till))
  <1> DEFINE n == SetInboxReadTill(k, till)
  <1>1. /\ SameRequests(n, k) /\ n.entry = k.entry
        /\ n.local = Larger(k.local, till)
        /\ n.will = k.will /\ n.sentTill = k.sentTill
        /\ n.done = k.done /\ n.told = k.told /\ n.refused = k.refused
    BY SetInboxFields
  <1> HIDE DEF n
  <1>2. Registered(n) /\ EntryAwaited(n) /\ ReadsOut(n) = ReadsOut(k)
    BY <1>1 DEF SameRequests, Registered, EntryAwaited, Firm, ReadsOut
  <1>3. /\ k.sentTill \in MsgIds /\ k.local \in MsgIds /\ n.local \in MsgIds
        /\ k.local <= n.local /\ \A r \in ReadsOut(k) : r.till \in MsgIds
    <2>1. k.sentTill \in MsgIds /\ k.local \in MsgIds
          /\ \A r \in ReadsOut(k) : r.till \in MsgIds
      BY RequestTypes DEF ChatRecords, ReadsOut
    <2> QED  BY <1>1, <2>1, LargerIsOne
  <1>4. ReadsInOrder(n)
    <2>1. Larger(k.sentTill, k.local) <= Larger(k.sentTill, n.local)
          /\ Larger(k.sentTill, k.local) \in MsgIds
          /\ Larger(k.sentTill, n.local) \in MsgIds
      BY <1>3, BoundsAssumption DEF Larger, MsgIds
    <2>2. \A r \in ReadsOut(n) : r.till <= Larger(n.sentTill, n.local)
      <3>1. \A r \in ReadsOut(k) : r.till <= Larger(k.sentTill, k.local)
        BY DEF Firm, ReadsInOrder
      <3> QED  BY <1>1, <1>2, <1>3, <2>1, <3>1, BoundsAssumption DEF MsgIds
    <2>3. \A r \in ReadsOut(n) :
             /\ n.sentTill # 0 => r.till <= n.sentTill
             /\ n.will # 0 => r.till < n.will
      BY <1>1, <1>2 DEF Firm, ReadsInOrder
    <2> QED  BY <2>2, <2>3 DEF ReadsInOrder
  <1>5. \A m : Covered(k, m) <=> Covered(n, m)
    BY <1>1, <1>2 DEF Covered
  <1>6. ReadsTold(n)
    <2>1. ASSUME ~k.refused, NEW m \in Unread(0, n.local) PROVE Covered(k, m)
      <3>1. m \in Unread(0, k.local) \/ m \in Unread(0, till)
        BY <1>1, <1>3, UnreadTill
      <3> QED  BY <2>1, <3>1 DEF MayRead, Firm, ReadsTold
    <2> QED  BY <1>1, <1>5, <2>1 DEF ReadsTold, Firm
  <1>7. Firm(n)
    BY <1>2, <1>4, <1>6 DEF Firm
  <1> QED  BY <1>7 DEF n

(* What counts as read until till is told until there.                     *)
LEMMA ToldMayBeRead ==
    ASSUME NEW k \in ChatRecords, NEW till \in MsgIds, till <= k.told \/ k.refused
    PROVE  MayRead(k, till)
  <1>1. 0 \in MsgIds /\ k.told \in MsgIds
    BY TypeNames DEF ChatRecords
  <1>2. ASSUME ~k.refused, NEW m \in Unread(0, till) PROVE Covered(k, m)
    <2>1. m \in MsgIds /\ m <= till
      BY <1>1, <1>2, UnreadIds
    <2>2. m <= k.told
      BY <1>1, <1>2, <2>1, BoundsAssumption DEF MsgIds
    <2> QED  BY <2>2 DEF Covered
  <1> QED  BY <1>2 DEF MayRead

LEMMA SettledFirm ==
    ASSUME NEW j \in ChatRecords, Firm(j), NEW till \in MsgIds,
           till <= j.told \/ j.refused
    PROVE  Firm(Settled(j, till))
  <1> DEFINE n == Settled(j, till)
             i == SetInboxReadTill(j, till)
  <1>1. /\ SameRequests(i, j) /\ i.entry = j.entry
        /\ i.local = Larger(j.local, till)
        /\ i.will = j.will /\ i.sentTill = j.sentTill
        /\ i.done = j.done /\ i.told = j.told /\ i.refused = j.refused
    BY SetInboxFields
  <1>2. Firm(i)
    BY SetInboxFirm, ToldMayBeRead
  <1>3. /\ SameRequests(n, j) /\ n.entry = j.entry
        /\ n.sentTill = (IF till = j.sentTill THEN 0 ELSE j.sentTill)
        /\ n.local = Larger(j.local, till)
        /\ n.will = j.will /\ n.done = j.done
        /\ n.told = j.told /\ n.refused = j.refused
    BY SettledFields
  <1> HIDE DEF i, n
  <1>4. /\ SameRequests(n, i) /\ n.entry = i.entry /\ n.local = i.local
        /\ n.will = i.will /\ n.done = i.done /\ n.told = i.told
        /\ n.refused = i.refused
    BY <1>1, <1>3 DEF SameRequests
  <1>5. CASE till # j.sentTill
    <2>1. SameReading(n, i) /\ n \in ChatRecords /\ i \in ChatRecords
      BY <1>1, <1>3, <1>4, <1>5 DEF SameReading, SameRequests
    <2>2. Firm(n)
      BY <1>2, <1>4, <2>1, SameIsFirm
    <2> QED  BY <2>2 DEF n
  <1>6. CASE till = j.sentTill
    <2>1. n.sentTill = 0 /\ i.sentTill = till
      BY <1>1, <1>3, <1>6
    <2>2. Registered(n) /\ EntryAwaited(n) /\ ReadsOut(n) = ReadsOut(i)
      BY <1>2, <1>4 DEF SameRequests, Registered, EntryAwaited, Firm, ReadsOut
    <2>3. n.told \in MsgIds /\ i.local \in MsgIds /\ till <= i.local
      <3>1. n.told \in MsgIds /\ j.local \in MsgIds
        BY <1>4 DEF SameRequests, ChatRecords
      <3> QED  BY <1>1, <3>1, LargerIsOne
    <2>4. ReadsInOrder(n)
      <3>1. Larger(n.sentTill, n.local) = Larger(i.sentTill, i.local)
        BY <1>4, <2>1, <2>3, BoundsAssumption DEF Larger, MsgIds
      <3> QED  BY <1>2, <1>4, <2>1, <2>2, <3>1 DEF ReadsInOrder, Firm
    <2>5. \A m : Covered(n, m) <=> Covered(i, m)
      BY <1>4, <2>2 DEF Covered
    <2>6. 0 <= n.told /\ Covered(n, 0)
      BY <2>3, BoundsAssumption DEF MsgIds, Covered
    <2>7. ReadsTold(n)
      BY <1>2, <1>4, <2>1, <2>5, <2>6 DEF ReadsTold, Firm
    <2>8. Firm(n)
      BY <2>2, <2>4, <2>7 DEF Firm
    <2> QED  BY <2>8 DEF n
  <1> QED  BY <1>5, <1>6

AllFirm(w) == AllKept(w) /\ w.sends /\ \A c \in Chats : Firm(w.chats[c])

LEMMA SendReadsFirm ==
    ASSUME NEW w, AllFirm(w), NEW due
    PROVE  LET v == SendReadRequests(w, due)
           IN /\ AllFirm(v)
              /\ \A c \in Chats :
                    /\ v.chats[c].told = w.chats[c].told
                    /\ v.chats[c].refused = w.chats[c].refused
                    /\ \A m : Covered(w.chats[c], m) => Covered(v.chats[c], m)
                    /\ \A id \in Nat : IdGone(w.chats[c], id) => IdGone(v.chats[c], id)
  <1> DEFINE v == SendReadRequests(w, due)
  <1>1. /\ AllKept(v) /\ v.sends = w.sends
        /\ \A c \in Chats :
              \/ ~w.sends /\ v.chats[c] = Cleared(w.chats[c])
              \/ w.sends /\ v.chats[c] = w.chats[c]
              \/ /\ w.sends /\ w.chats[c].will # 0
                 /\ v.chats[c] = SendReadRequest(w.chats[c])
    BY SendReadsFields DEF AllFirm
  <1>2. /\ w.sends
        /\ \A c \in Chats : /\ w.chats[c] \in ChatRecords /\ Kept(w.chats[c])
                            /\ Firm(w.chats[c])
    BY DEF AllFirm, AllKept, Worlds
  <1> HIDE DEF v
  <1>3. ASSUME NEW c \in Chats
        PROVE  /\ Firm(v.chats[c])
               /\ v.chats[c].told = w.chats[c].told
               /\ v.chats[c].refused = w.chats[c].refused
               /\ \A m : Covered(w.chats[c], m) => Covered(v.chats[c], m)
               /\ \A id \in Nat : IdGone(w.chats[c], id) => IdGone(v.chats[c], id)
    <2>1. CASE v.chats[c] = w.chats[c]
      BY <1>2, <2>1
    <2>2. CASE w.chats[c].will # 0 /\ v.chats[c] = SendReadRequest(w.chats[c])
      <3>1. \A id \in Nat : IdGone(w.chats[c], id) => IdGone(v.chats[c], id)
        BY <1>2, <2>2, ReadRequestGone
      <3>2. /\ Firm(v.chats[c])
            /\ v.chats[c].told = w.chats[c].told
            /\ v.chats[c].refused = w.chats[c].refused
            /\ \A m : Covered(w.chats[c], m) => Covered(v.chats[c], m)
        BY <1>2, <2>2, ReadRequestFirm
      <3> QED  BY <3>1, <3>2
    <2> QED  BY <1>1, <1>2, <2>1, <2>2
  <1> QED  BY <1>1, <1>2, <1>3 DEF AllFirm, v

(* A read that is not skipped is of more than any that is out.             *)
WillRead(k, till, b) == [k EXCEPT !.will = Larger(@, till), !.when = b]

LEMMA WillReadFirm ==
    ASSUME NEW k \in ChatRecords, Firm(k), NEW till \in MsgIds,
           NEW force \in BOOLEAN, NEW b \in BOOLEAN, ~Skipped(k, till, force)
    PROVE  LET m == WillRead(k, till, b)
           IN /\ m \in ChatRecords /\ Firm(m) /\ Covered(m, till)
              /\ m.told = k.told /\ m.refused = k.refused
              /\ \A x \in MsgIds : Covered(k, x) => Covered(m, x)
  <1> DEFINE l == Larger(k.will, till)
             m == WillRead(k, till, b)
  <1>1. /\ l \in MsgIds /\ k.sentTill \in MsgIds /\ k.will \in MsgIds
        /\ k.local \in MsgIds /\ till <= l /\ k.will <= l
        /\ \A r \in ReadsOut(k) : r.till \in MsgIds
    BY LargerIsOne, RequestTypes DEF ChatRecords, ReadsOut
  <1>2. m = [k EXCEPT !.will = l, !.when = b]
    BY DEF WillRead
  <1>3. /\ k.sentTill < till
        /\ k.local < till \/ k.will # 0
    BY <1>1, BoundsAssumption DEF Skipped, MsgIds
  <1>4. k.will # 0 \/ l = till
    BY <1>1, BoundsAssumption DEF Larger, MsgIds
  <1> HIDE DEF l
  <1>5. /\ SameRequests(m, k) /\ m.entry = k.entry /\ m.will = l
        /\ m.sentTill = k.sentTill /\ m.done = k.done /\ m.local = k.local
        /\ m.told = k.told /\ m.refused = k.refused
    BY <1>1, <1>2 DEF ChatRecords, SameRequests
  <1> HIDE DEF m
  <1>6. Registered(m) /\ EntryAwaited(m) /\ ReadsOut(m) = ReadsOut(k)
    BY <1>5 DEF SameRequests, Registered, EntryAwaited, Firm, ReadsOut
  <1>7. ASSUME NEW r \in ReadsOut(k) PROVE r.till < l
    <2>1. CASE k.will # 0
      <3>1. r.till < k.will
        BY <2>1 DEF Firm, ReadsInOrder
      <3> QED  BY <1>1, <3>1, BoundsAssumption DEF MsgIds
    <2>2. CASE k.will = 0
      <3>1. Larger(k.sentTill, k.local) < till
        BY <1>3, <2>2 DEF Larger
      <3>2. r.till <= Larger(k.sentTill, k.local)
        BY DEF Firm, ReadsInOrder
      <3>3. Larger(k.sentTill, k.local) \in MsgIds
        BY <1>1, LargerIsOne
      <3> QED  BY <1>1, <3>1, <3>2, <3>3, BoundsAssumption DEF MsgIds
    <2> QED  BY <2>1, <2>2
  <1>8. ReadsInOrder(m)
    BY <1>5, <1>6, <1>7 DEF ReadsInOrder, Firm
  <1>9. ASSUME NEW x \in MsgIds, Covered(k, x) PROVE Covered(m, x)
    <2>1. x <= k.will => x <= l
      BY <1>1, BoundsAssumption DEF MsgIds
    <2> QED  BY <1>5, <1>6, <1>9, <2>1 DEF Covered
  <1>10. Unread(0, k.local) \subseteq MsgIds
    BY <1>1, TypeNames, UnreadIds
  <1>11. ReadsTold(m)
    BY <1>1, <1>5, <1>9, <1>10 DEF ReadsTold, Firm
  <1>12. Covered(m, till)
    BY <1>1, <1>5 DEF Covered
  <1> QED  BY <1>5, <1>6, <1>8, <1>9, <1>11, <1>12 DEF Firm, SameRequests, m

(* What is read till a covered message is covered.                         *)
LEMMA CoveredMayBeRead ==
    ASSUME NEW k \in ChatRecords, NEW till \in MsgIds, Covered(k, till)
    PROVE  MayRead(k, till)
  <1>1. ASSUME NEW m \in Unread(0, till) PROVE Covered(k, m)
    <2>1. m \in MsgIds /\ m <= till
      BY <1>1, TypeNames, UnreadIds
    <2> QED  BY <2>1, CoveredBelow
  <1> QED  BY <1>1 DEF MayRead

(* A read that is skipped is of what is read, or of what is going to be.   *)
LEMMA SkippedMayBeRead ==
    ASSUME NEW k \in ChatRecords, Firm(k), NEW till \in MsgIds, NEW force \in BOOLEAN,
           Skipped(k, till, force)
    PROVE  MayRead(k, till)
  <1>1. k.local \in MsgIds /\ k.sentTill \in MsgIds /\ k.will \in MsgIds
    BY DEF ChatRecords
  <1>2. CASE till <= k.local
    <2>1. Unread(0, till) \subseteq Unread(0, k.local)
      BY <1>1, <1>2, BoundsAssumption DEF Unread, MsgIds
    <2> QED  BY <2>1 DEF MayRead, Firm, ReadsTold
  <1>3. CASE k.sentTill >= till
    <2>1. k.refused \/ Covered(k, till)
      BY <1>1, <1>3, CoveredBelow, BoundsAssumption DEF Firm, ReadsTold, MsgIds
    <2>2. CASE k.refused
      BY <2>2 DEF MayRead
    <2> QED  BY <2>1, <2>2, CoveredMayBeRead
  <1>4. CASE k.will >= till
    <2>1. Covered(k, till)
      BY <1>1, <1>4, BoundsAssumption DEF Covered, MsgIds
    <2> QED  BY <2>1, CoveredMayBeRead
  <1> QED  BY <1>2, <1>3, <1>4 DEF Skipped

LEMMA PutFirm ==
    ASSUME NEW w, AllFirm(w), NEW c \in Chats, NEW k \in ChatRecords, Kept(k), Firm(k)
    PROVE  AllFirm(Put(w, c, k))
  <1>1. AllKept(Put(w, c, k)) /\ w \in Worlds
    BY PutKeeps DEF AllFirm, AllKept
  <1>2. /\ Put(w, c, k).sends = w.sends /\ Put(w, c, k).chats[c] = k
        /\ \A d \in Chats \ {c} : Put(w, c, k).chats[d] = w.chats[d]
    BY <1>1, PutFields
  <1> QED  BY <1>1, <1>2 DEF AllFirm

LEMMA ReadInboxFirm ==
    ASSUME NEW w, AllFirm(w), Timed(w), NEW c \in Chats, NEW till \in MsgIds,
           NEW force \in BOOLEAN, NEW still \in StillTypes, NEW due,
           still = "same" => Unread(w.chats[c].local, till) = {}
    PROVE  LET v == ReadInboxTill(w, c, till, force, still, due)
           IN /\ AllFirm(v)
              /\ v.chats[c].told = w.chats[c].told
              /\ v.chats[c].refused = w.chats[c].refused
  <1> DEFINE k == w.chats[c]
             skipped == Skipped(k, till, force)
             same == ~force /\ still = "same"
             now == force \/ still \in {"unknown", "none"}
             later == ~now
             m == WillRead(k, till, later)
             asked == Put(w, c, m)
             result == IF skipped \/ same THEN w
                       ELSE IF now THEN SendReadRequests(asked, due)
                       ELSE [asked EXCEPT !.timer = @ \/ ~k.when]
             v == ReadInboxTill(w, c, till, force, still, due)
  <1>1. v = result \/ v = Put(result, c, SetInboxReadTill(result.chats[c], till))
    BY DEF ReadInboxTill, WillRead
  <1>2. /\ w \in Worlds /\ k \in ChatRecords /\ Kept(k) /\ Firm(k) /\ AllKept(w)
    BY DEF AllFirm, AllKept, Worlds
  <1>3. later \in BOOLEAN
    OBVIOUS
  <1>4. AllKept(v)
    <2> HIDE DEF v
    <2> QED  BY <1>2, ReadInboxKeeps DEF v
  <1> HIDE DEF later
  <1>5. ASSUME ~skipped
        PROVE  /\ m \in ChatRecords /\ Firm(m) /\ Covered(m, till)
               /\ m.told = k.told /\ m.refused = k.refused
    BY <1>2, <1>3, <1>5, WillReadFirm
  <1>6. ASSUME ~skipped PROVE Kept(m)
    <2> DEFINE l == Larger(k.will, till)
    <2>1. l \in MsgIds /\ till <= l /\ k.sentTill \in MsgIds
      BY <1>2, LargerIsOne DEF ChatRecords
    <2>2. k.sentTill < till
      BY <1>2, <1>6, BoundsAssumption DEF Skipped, MsgIds, ChatRecords
    <2>3. m = [k EXCEPT !.will = l, !.when = later]
      BY DEF WillRead
    <2> HIDE DEF l
    <2>4. /\ m.sent = k.sent /\ m.postponed = k.postponed /\ m.again = k.again
          /\ m.sentTill = k.sentTill /\ m.will = l /\ m.entry = k.entry
      BY <1>2, <2>3 DEF ChatRecords
    <2> HIDE DEF m
    <2>5. m.will > m.sentTill
      BY <2>1, <2>2, <2>4, BoundsAssumption DEF MsgIds
    <2> QED  BY <1>2, <2>4, <2>5 DEF Kept
  <1> HIDE DEF m, skipped
  <1>7. ASSUME ~skipped
        PROVE  AllFirm(asked) /\ asked.chats[c] = m /\ asked \in Worlds
    <2>1. asked.chats[c] = m /\ asked \in Worlds
      BY <1>2, <1>5, <1>7, PutFields
    <2>2. AllFirm(asked)
      BY <1>5, <1>6, <1>7, PutFirm
    <2> QED  BY <2>1, <2>2
  <1> HIDE DEF asked
  <1>8. /\ AllFirm(result) /\ MayRead(result.chats[c], till)
        /\ result.chats[c].told = k.told /\ result.chats[c].refused = k.refused
    <2>1. CASE skipped
      <3>1. MayRead(k, till)
        BY <1>2, <2>1, SkippedMayBeRead DEF skipped
      <3> QED  BY <2>1, <3>1
    <2>2. CASE ~skipped /\ same
      <3>1. k.local \in MsgIds
        BY <1>2 DEF ChatRecords
      <3>2. Unread(0, till) \subseteq Unread(0, k.local)
        BY <2>2, <3>1, BoundsAssumption DEF Unread, MsgIds
      <3>3. MayRead(k, till)
        BY <1>2, <3>2 DEF MayRead, Firm, ReadsTold
      <3> QED  BY <2>2, <3>3
    <2>3. CASE ~skipped /\ ~same /\ now
      <3>1. result = SendReadRequests(asked, due)
        BY <2>3
      <3> HIDE DEF result
      <3>2. /\ AllFirm(result) /\ Covered(result.chats[c], till)
            /\ result.chats[c].told = k.told /\ result.chats[c].refused = k.refused
        BY <1>5, <1>7, <2>3, <3>1, SendReadsFirm
      <3>3. result.chats[c] \in ChatRecords
        BY <3>2 DEF AllFirm, AllKept, Worlds
      <3> QED  BY <3>2, <3>3, CoveredMayBeRead
    <2>4. CASE ~skipped /\ ~same /\ ~now
      <3> DEFINE t == asked.timer \/ ~k.when
      <3>1. t \in BOOLEAN /\ result = [asked EXCEPT !.timer = t]
        BY <2>4
      <3> HIDE DEF t, result
      <3>2. /\ result \in Worlds /\ result.chats = asked.chats
            /\ result.sends = asked.sends
        BY <1>7, <2>4, <3>1 DEF Worlds
      <3>3. AllFirm(result)
        BY <1>7, <2>4, <3>2 DEF AllFirm, AllKept
      <3>4. MayRead(m, till)
        BY <1>5, <2>4, CoveredMayBeRead
      <3> QED  BY <1>5, <1>7, <2>4, <3>2, <3>3, <3>4
    <2> QED  BY <2>1, <2>2, <2>3, <2>4
  <1> HIDE DEF result
  <1>9. CASE v = Put(result, c, SetInboxReadTill(result.chats[c], till))
    <2> DEFINE j == result.chats[c]
               n == SetInboxReadTill(j, till)
    <2>1. j \in ChatRecords /\ Kept(j) /\ Firm(j) /\ result \in Worlds
      BY <1>8 DEF AllFirm, AllKept, Worlds
    <2>2. n \in ChatRecords /\ Kept(n) /\ n.told = j.told /\ n.refused = j.refused
      BY <2>1, SetInboxFields DEF SameRequests
    <2>3. Firm(n)
      BY <1>8, <2>1, SetInboxFirm
    <2>4. v = Put(result, c, n)
      BY <1>9
    <2> HIDE DEF n, v
    <2>5. v.chats[c] = n
      BY <2>1, <2>2, <2>4, PutFields
    <2>6. AllFirm(v)
      BY <1>8, <2>2, <2>3, <2>4, PutFirm
    <2> QED  BY <1>8, <2>2, <2>5, <2>6 DEF v
  <1> QED  BY <1>1, <1>8, <1>9

(* Whoever waited has the entry, so nothing is said of it any more.        *)
Entered(k) == [k EXCEPT !.entry = "none", !.reader = FALSE, !.known = TRUE]

LEMMA EnteredFirm ==
    ASSUME NEW k \in ChatRecords, Kept(k), ~k.again,
           Registered(k), ReadsInOrder(k), ReadsTold(k)
    PROVE  LET n == Entered(k)
           IN /\ n \in ChatRecords /\ Kept(n) /\ Firm(n) /\ n.entry = "none"
              /\ n.when = k.when /\ n.local = k.local
              /\ n.told = k.told /\ n.refused = k.refused
  <1> DEFINE n == Entered(k)
  <1>1. /\ n \in ChatRecords /\ SameRequests(n, k) /\ SameReading(n, k)
        /\ n.entry = "none" /\ n.when = k.when
    BY DEF Entered, ChatRecords, SameRequests, SameReading
  <1> HIDE DEF n
  <1>2. Registered(n) /\ EntryAwaited(n) /\ ReadsOut(n) = ReadsOut(k)
    BY <1>1 DEF SameRequests, Registered, EntryAwaited, ReadsOut, Kept
  <1>3. ReadsInOrder(n) /\ ReadsTold(n)
    BY <1>1, <1>2, SameReadsSay
  <1>4. Kept(n)
    BY <1>1 DEF Kept, SameRequests, SameReading
  <1> QED  BY <1>1, <1>2, <1>3, <1>4 DEF Firm, SameReading, n

(* dialogEntryApplied(): the entry is taken as it comes, whether or not it *)
(* was asked; the others' records are firm before and after.               *)
LEMMA AppliedFirm ==
    ASSUME NEW w, AllKept(w), Timed(w), w.sends, NEW c \in Chats,
           \A d \in Chats \ {c} : Firm(w.chats[d]),
           Registered(w.chats[c]), ReadsInOrder(w.chats[c]), ReadsTold(w.chats[c]),
           NEW last \in MsgIds, NEW still \in StillTypes, NEW due, NEW stale,
           still = "same" => Unread(w.chats[c].local, last) = {}
    PROVE  \A d \in Chats :
               Firm(DialogEntryApplied(w, c, last, still, due, stale).chats[d])
  <1> DEFINE k == w.chats[c]
             i == Entered(k)
             applied == Put(w, c, i)
             no == FALSE
             read == IF k.reader
                     THEN ReadInboxTill(applied, c, last, no, still, due)
                     ELSE applied
             j == read.chats[c]
             till == IF j.done THEN j.sentTill
                     ELSE IF stale /\ k.done /\ HasState(k) /\ ~HasState(j)
                     THEN k.sentTill ELSE 0
             v == DialogEntryApplied(w, c, last, still, due, stale)
  <1>1. k \in ChatRecords /\ Kept(k) /\ w \in Worlds
    BY DEF AllKept, Worlds
  <1>2. CASE k.again
    <2>1. v = w
      BY <1>2 DEF DialogEntryApplied
    <2>2. EntryAwaited(k)
      BY <1>2 DEF EntryAwaited
    <2> QED  BY <2>1, <2>2 DEF Firm
  <1>3. CASE ~k.again
    <2>1. v = Put(read, c, Settled(j, till)) /\ no \in BOOLEAN
      BY <1>3 DEF DialogEntryApplied, Settled, Entered
    <2> HIDE DEF no
    <2>2. /\ i \in ChatRecords /\ Kept(i) /\ Firm(i) /\ i.local = k.local
          /\ i.when = k.when /\ i.told = k.told /\ i.refused = k.refused
      BY <1>1, <1>3, EnteredFirm
    <2> HIDE DEF i
    <2>3. /\ applied \in Worlds /\ applied.timer = w.timer
          /\ applied.sends = w.sends /\ applied.chats[c] = i
          /\ \A d \in Chats \ {c} : applied.chats[d] = w.chats[d]
      <3>1. w \in Worlds /\ i \in ChatRecords
        BY <1>1, <2>2
      <3> QED  BY ONLY <3>1, c \in Chats, PutFields
    <2>4. AllKept(applied)
      BY <2>2, PutKeeps
    <2> HIDE DEF applied
    <2>5. AllFirm(applied) /\ Timed(applied)
      BY <2>2, <2>3, <2>4 DEF AllFirm, Timed
    <2>6. AllFirm(read) /\ j.told = k.told /\ j.refused = k.refused
      <3> DEFINE x == ReadInboxTill(applied, c, last, no, still, due)
      <3>1. still = "same" => Unread(applied.chats[c].local, last) = {}
        BY <2>2, <2>3
      <3>2. /\ AllFirm(x) /\ x.chats[c].told = applied.chats[c].told
            /\ x.chats[c].refused = applied.chats[c].refused
        BY <2>1, <2>5, <3>1, ReadInboxFirm
      <3> HIDE DEF x
      <3>3. CASE k.reader
        BY <2>2, <2>3, <3>2, <3>3 DEF x
      <3>4. CASE ~k.reader
        BY <2>2, <2>3, <2>5, <3>4
      <3> QED  BY <3>3, <3>4
    <2> HIDE DEF read
    <2>7. j \in ChatRecords /\ Kept(j) /\ Firm(j) /\ read \in Worlds
      BY <2>6 DEF AllFirm, AllKept, Worlds
    <2>8. till \in MsgIds /\ (till <= j.told \/ j.refused)
      <3>1. /\ j.sentTill \in MsgIds /\ k.sentTill \in MsgIds /\ 0 \in MsgIds
            /\ 0 <= j.told
        BY <1>1, <2>7, BoundsAssumption DEF ChatRecords, MsgIds
      <3>2. j.done => j.sentTill <= j.told \/ j.refused
        BY <2>7 DEF Firm, ReadsTold
      <3>3. k.done => k.sentTill <= j.told \/ j.refused
        BY <2>6 DEF ReadsTold
      <3> QED  BY <3>1, <3>2, <3>3
    <2> HIDE DEF till
    <2> DEFINE n == Settled(j, till)
    <2>9. n \in ChatRecords /\ Kept(n)
      BY <2>7, <2>8, SettledFields DEF SameRequests
    <2>10. Firm(n)
      BY <2>7, <2>8, SettledFirm
    <2> HIDE DEF n
    <2>11. v = Put(read, c, n)
      BY <2>1 DEF n
    <2> HIDE DEF v
    <2>12. AllFirm(v)
      BY <2>6, <2>9, <2>10, <2>11, PutFirm
    <2> QED  BY <2>12 DEF AllFirm, v
  <1> QED  BY <1>2, <1>3

-----------------------------------------------------------------------------
(* The invariant without ghost mode.                                       *)

FirmInv == KInv /\ sendReads /\ \A c \in Chats : Firm(chat[c])

FirmStep == \A d \in Chats : Firm(chat'[d])

LEMMA WorldIsFirm ==
    ASSUME FirmInv
    PROVE  /\ AllFirm(World) /\ Timed(World) /\ World.chats = chat
           /\ World.sends = sendReads
  <1>1. KInv
    BY DEF FirmInv
  <1>2. /\ AllKept(World) /\ Timed(World) /\ World.chats = chat
        /\ World.sends = sendReads
    BY <1>1, WorldIsKept
  <1> QED  BY <1>2 DEF FirmInv, AllFirm

LEMMA WithIsFirm ==
    ASSUME FirmInv, NEW c \in Chats, NEW k \in ChatRecords, Kept(k), Firm(k)
    PROVE  /\ AllFirm(With(c, k)) /\ With(c, k).chats[c] = k
           /\ \A d \in Chats \ {c} : With(c, k).chats[d] = chat[d]
  <1>1. AllFirm(World) /\ World.chats = chat
    BY WorldIsFirm
  <1>2. World \in Worlds
    BY <1>1 DEF AllFirm, AllKept
  <1>3. AllFirm(With(c, k))
    BY <1>1, PutFirm DEF With
  <1>4. With(c, k).chats[c] = k /\ \A d \in Chats \ {c} : With(c, k).chats[d] = chat[d]
    BY <1>1, <1>2, PutFields DEF With
  <1> QED  BY <1>3, <1>4

LEMMA OneChatFirm ==
    ASSUME FirmInv, NEW c \in Chats, NEW k \in ChatRecords, Kept(k), Firm(k),
           Become(With(c, k))
    PROVE  FirmStep
  <1>1. AllFirm(With(c, k))
    BY WithIsFirm
  <1> QED  BY <1>1 DEF Become, AllFirm, FirmStep

LEMMA FirmTypes ==
    ASSUME FirmInv, NEW c \in Chats
    PROVE  chat[c] \in ChatRecords /\ Kept(chat[c]) /\ Firm(chat[c])
  BY ChatTypes DEF FirmInv

LEMMA ToldFirm ==
    ASSUME NEW k \in ChatRecords, Firm(k), NEW told \in MsgIds, NEW no \in BOOLEAN,
           k.told <= told
    PROVE  Firm(Told(k, told, no))
  <1> DEFINE n == Told(k, told, no)
  <1>1. /\ SameState(n, k) /\ n.asks = k.asks /\ n.wire = k.wire
        /\ n.will = k.will /\ n.sentTill = k.sentTill
        /\ n.done = k.done /\ n.local = k.local /\ n.told = told
        /\ n.refused = (k.refused \/ no)
    BY ToldFields
  <1> HIDE DEF n
  <1>2. Registered(n) /\ EntryAwaited(n) /\ ReadsOut(n) = ReadsOut(k)
    BY <1>1 DEF SameState, Registered, EntryAwaited, Firm, ReadsOut
  <1>3. ReadsInOrder(n)
    BY <1>1, <1>2 DEF ReadsInOrder, Firm
  <1>4. k.told \in MsgIds /\ k.sentTill \in MsgIds /\ k.local \in MsgIds
    BY DEF ChatRecords
  <1>5. ASSUME NEW m \in MsgIds, Covered(k, m) PROVE Covered(n, m)
    <2>1. m <= k.told => m <= told
      BY <1>4, BoundsAssumption DEF MsgIds
    <2> QED  BY <1>1, <1>2, <1>5, <2>1 DEF Covered
  <1>6. Unread(0, k.local) \subseteq MsgIds
    BY <1>4, TypeNames, UnreadIds
  <1>7. ~k.refused /\ k.done => k.sentTill <= told
    BY <1>4, BoundsAssumption DEF MsgIds, Firm, ReadsTold
  <1>8. ReadsTold(n)
    BY <1>1, <1>4, <1>5, <1>6, <1>7 DEF ReadsTold, Firm
  <1> QED  BY <1>2, <1>3, <1>8 DEF Firm, n

LEMMA LastIsFirm ==
    ASSUME NEW k \in ChatRecords, Firm(k), NEW last \in MsgIds, NEW known \in BOOLEAN
    PROVE  Firm(LastIs(k, last, known))
  <1> DEFINE n == LastIs(k, last, known)
  <1>1. /\ SameState(n, k) /\ n.asks = k.asks /\ n.wire = k.wire
        /\ n.will = k.will /\ n.sentTill = k.sentTill
        /\ n.done = k.done /\ n.local = k.local /\ n.told = k.told
        /\ n.refused = k.refused
    BY LastIsFields
  <1> HIDE DEF n
  <1>2. n \in ChatRecords /\ SameRequests(n, k) /\ SameReading(n, k)
        /\ n.entry = k.entry
    BY <1>1 DEF SameState, SameRequests, SameReading
  <1>3. Firm(n)
    BY <1>2, SameIsFirm
  <1> QED  BY <1>3 DEF n

LEMMA HurriedFirm ==
    ASSUME NEW k \in ChatRecords, Firm(k)
    PROVE  Firm(Hurried(k))
  <1> DEFINE n == Hurried(k)
  <1>1. /\ SameState(n, k) /\ n.asks = k.asks /\ n.wire = k.wire
        /\ n.will = k.will /\ n.sentTill = k.sentTill
        /\ n.done = k.done /\ n.local = k.local /\ n.told = k.told
        /\ n.refused = k.refused
    BY HurriedFields
  <1> HIDE DEF n
  <1>2. n \in ChatRecords /\ SameRequests(n, k) /\ SameReading(n, k)
        /\ n.entry = k.entry
    BY <1>1 DEF SameState, SameRequests, SameReading
  <1>3. Firm(n)
    BY <1>2, SameIsFirm
  <1> QED  BY <1>3 DEF n

(* What is put off is not at MTP, so it can be taken back.                 *)
LEMMA CancelFirm ==
    ASSUME NEW k \in ChatRecords, Kept(k), Firm(k), NEW r \in k.sent \cup k.postponed,
           r.type = "History"
    PROVE  Firm(FinishSentRequest(Withdrawn(k, r), r.id))
  <1> DEFINE i == Withdrawn(k, r)
  <1>1. /\ i \in ChatRecords /\ SameReads(i, k) /\ i.asks = k.asks
        /\ i.wire = k.wire /\ i.sent = k.sent /\ i.next = k.next
        /\ i.again = k.again /\ i.entry = k.entry
        /\ i.postponed = k.postponed \ {r} /\ Kept(i)
    BY WithdrawnFields
  <1> HIDE DEF i
  <1>2. Registered(i) /\ EntryAwaited(i) /\ ReadsOut(i) = ReadsOut(k)
    BY <1>1 DEF Registered, EntryAwaited, Firm, ReadsOut
  <1>3. SameReading(i, k)
    BY <1>1 DEF SameReads, SameReading
  <1>4. ReadsInOrder(i) /\ ReadsTold(i)
    BY <1>2, <1>3, SameReadsSay DEF Firm
  <1>5. ASSUME NEW x \in ReadsOut(i) PROVE x.id # r.id
    <2>1. x \in k.sent /\ x.type = "ReadInbox"
      BY <1>2 DEF ReadsOut, Firm, Registered
    <2> QED  BY <2>1 DEF Firm, Registered
  <1>6. r.id \in Nat
    BY RequestTypes
  <1>7. Firm(i)
    BY <1>2, <1>4 DEF Firm
  <1> QED  BY <1>1, <1>5, <1>6, <1>7, FinishFirm DEF i

LEMMA StillIs ==
    ASSUME NEW k, NEW till, NEW still \in StillUnread(k, till)
    PROVE  /\ still \in StillTypes
           /\ still = "same" => Unread(k.local, till) = {}
  BY DEF StillUnread, StillTypes

LEMMA CallsFirm ==
    ASSUME FirmInv, NEW c \in Chats, Calls(c)
    PROVE  FirmStep
  <1> DEFINE k == chat[c]
             yes == TRUE
             no == FALSE
  <1>1. k \in ChatRecords /\ Kept(k) /\ Firm(k) /\ KInv
    BY FirmTypes DEF FirmInv
  <1>2. ASSUME NEW type \in Types, type # "ReadInbox", NEW ends \in BOOLEAN
        PROVE  LET n == SendRequest(k, type, 0, ends)
               IN n \in ChatRecords /\ Kept(n) /\ Firm(n)
    BY <1>1, <1>2, TypeNames, SendRequestFields, SendKeeps, SendFirm DEF Sends
  <1>3. ASSUME NEW type \in Types, type # "ReadInbox", NEW ends \in BOOLEAN,
               Become(With(c, SendRequest(k, type, 0, ends)))
        PROVE  FirmStep
    <2> DEFINE n == SendRequest(k, type, 0, ends)
    <2>1. n \in ChatRecords /\ Kept(n) /\ Firm(n) /\ Become(With(c, n))
      BY <1>2, <1>3
    <2> HIDE DEF n
    <2> QED  BY <2>1, OneChatFirm
  <1>4. yes \in BOOLEAN /\ no \in BOOLEAN
    OBVIOUS
  <1>5. CASE LoadHistory(c)
    <2>1. Become(With(c, SendRequest(k, "History", 0, yes)))
      BY <1>5 DEF LoadHistory
    <2> HIDE DEF yes
    <2> QED  BY <1>3, <1>4, <2>1, TypeNames
  <1>6. CASE SendMessage(c)
    <2>1. Become(With(c, SendRequest(k, "Send", 0, yes)))
      BY <1>6 DEF SendMessage
    <2> HIDE DEF yes
    <2> QED  BY <1>3, <1>4, <2>1, TypeNames
  <1>7. CASE DeleteAllMessages(c)
    <2> DEFINE ends == c \notin OwnChannels
    <2>1. Become(With(c, SendRequest(k, "Delete", 0, ends))) /\ ends \in BOOLEAN
      BY <1>7 DEF DeleteAllMessages
    <2> HIDE DEF ends
    <2> QED  BY <1>3, <2>1, TypeNames
  <1>8. ASSUME NEW wasLast \in BOOLEAN, DeleteMessages(c, wasLast) PROVE FirmStep
    <2> DEFINE s == SendRequest(k, "Delete", 0, yes)
               n == IF wasLast THEN RequestDialogEntry(LastIs(s, s.last, no), no) ELSE s
    <2>1. s \in ChatRecords /\ Kept(s) /\ Firm(s)
      <3> HIDE DEF yes
      <3> QED  BY <1>2, <1>4, TypeNames
    <2>2. Become(With(c, n))
      <3>1. LastIs(s, s.last, no) = [s EXCEPT !.known = FALSE]
        <4> HIDE DEF s
        <4> QED  BY <2>1 DEF LastIs, ChatRecords
      <3> QED  BY <1>8, <3>1 DEF DeleteMessages
    <2> HIDE DEF s, no
    <2>3. n \in ChatRecords /\ Kept(n) /\ Firm(n)
      <3> DEFINE i == LastIs(s, s.last, no)
      <3>1. i \in ChatRecords /\ Kept(i) /\ Firm(i)
        <4>1. s.last \in MsgIds
          BY <2>1 DEF ChatRecords
        <4> QED  BY <1>4, <2>1, <4>1, LastIsFields, LastIsFirm DEF SameState
      <3> HIDE DEF i
      <3>2. LET e == RequestDialogEntry(i, no)
            IN e \in ChatRecords /\ Kept(e) /\ Firm(e)
        BY <1>4, <3>1, RequestEntryFields, RequestEntryFirm DEF SameRequests
      <3> QED  BY <2>1, <3>1, <3>2 DEF i
    <2> HIDE DEF n
    <2> QED  BY <2>2, <2>3, OneChatFirm
  <1>9. ASSUME NEW r \in k.sent \cup k.postponed, CancelRequest(c, r) PROVE FirmStep
    <2> DEFINE i == Withdrawn(k, r)
               n == FinishSentRequest(i, r.id)
    <2>1. Become(With(c, n)) /\ r.type = "History"
      BY <1>9 DEF CancelRequest, Withdrawn
    <2>2. r.id \in Nat
      BY <1>1, RequestTypes
    <2>3. Firm(n)
      BY <1>1, <2>1, CancelFirm
    <2>4. i \in ChatRecords /\ Kept(i)
      BY <1>1, WithdrawnFields
    <2> HIDE DEF i
    <2>5. n \in ChatRecords /\ Kept(n)
      BY <2>2, <2>4, FinishKeeps
    <2> HIDE DEF n
    <2> QED  BY <2>1, <2>3, <2>5, OneChatFirm
  <1>10. ASSUME NEW till \in MsgIds, NEW known \in BOOLEAN, ReadElsewhere(c, till, known)
         PROVE  FirmStep
    <2> DEFINE t == Told(k, till, no)
               i == SetInboxReadTill(t, till)
               n == IF known \/ k.local >= till THEN i ELSE RequestDialogEntry(i, no)
    <2>1. Become(With(c, n))
      <3>1. t = [k EXCEPT !.told = till]
        BY <1>1 DEF Told, ChatRecords
      <3> QED  BY <1>10, <3>1 DEF ReadElsewhere
    <2>2. k.told <= till
      <3>1. till \in k.told + 1 .. k.last /\ k.told \in MsgIds /\ k.last \in MsgIds
        BY <1>1, <1>10 DEF ReadElsewhere, ChatRecords
      <3> QED  BY <3>1, BoundsAssumption DEF MsgIds
    <2> HIDE DEF no
    <2>3. t \in ChatRecords /\ Kept(t) /\ Firm(t) /\ t.told = till
      BY <1>1, <1>4, <2>2, ToldFields, ToldFirm DEF SameState
    <2> HIDE DEF t
    <2>4. till <= t.told \/ t.refused
      BY <2>3, BoundsAssumption DEF MsgIds
    <2>5. i \in ChatRecords /\ Kept(i) /\ Firm(i)
      BY <2>3, <2>4, SetInboxFields, SetInboxFirm, ToldMayBeRead DEF SameRequests
    <2> HIDE DEF i
    <2>6. LET e == RequestDialogEntry(i, no)
          IN e \in ChatRecords /\ Kept(e) /\ Firm(e)
      BY <1>4, <2>5, RequestEntryFields, RequestEntryFirm DEF SameRequests
    <2>7. n \in ChatRecords /\ Kept(n) /\ Firm(n)
      BY <2>5, <2>6
    <2> HIDE DEF n
    <2> QED  BY <2>1, <2>7, OneChatFirm
  <1>11. ASSUME NEW due, LeaveChat(c, due) PROVE FirmStep
    <2> DEFINE h == Hurried(k)
               w == With(c, h)
               v == SendReadRequests(w, due)
    <2>1. chat' = v.chats
      BY <1>11 DEF LeaveChat, Hurried, Become
    <2>2. h \in ChatRecords /\ Kept(h) /\ Firm(h)
      BY <1>1, HurriedFields, HurriedFirm DEF SameState
    <2> HIDE DEF h
    <2>3. AllFirm(w)
      BY <2>2, WithIsFirm
    <2> HIDE DEF w
    <2>4. AllFirm(v)
      BY <2>3, SendReadsFirm
    <2> HIDE DEF v
    <2> QED  BY <2>1, <2>4 DEF AllFirm, FirmStep
  <1>12. ASSUME NEW seen \in BOOLEAN, NEW still \in {"unknown", "none"}, NEW due,
                NewMessage(c, seen, still, due)
         PROVE  FirmStep
    <2> DEFINE m == k.last + 1
               i == LastIs(k, m, yes)
               w == With(c, i)
               x == ReadInboxTill(w, c, m, yes, still, due)
               v == IF seen THEN x ELSE w
    <2>1. m \in MsgIds /\ still \in StillTypes /\ still # "same"
      BY <1>1, <1>12, BoundsAssumption DEF NewMessage, MsgIds, ChatRecords, StillTypes
    <2>2. chat' = v.chats
      BY <1>12 DEF NewMessage, LastIs, Become
    <2> HIDE DEF yes, m
    <2>3. i \in ChatRecords /\ Kept(i) /\ Firm(i) /\ i.when = k.when
      BY <1>1, <1>4, <2>1, LastIsFields, LastIsFirm DEF SameState
    <2> HIDE DEF i
    <2>4. AllFirm(w) /\ Timed(w)
      BY <1>1, <2>3, WithIsFirm, WithIsKept
    <2> HIDE DEF w
    <2>5. AllFirm(x)
      BY <1>4, <2>1, <2>4, ReadInboxFirm
    <2> HIDE DEF x
    <2>6. AllFirm(v)
      BY <2>4, <2>5
    <2> HIDE DEF v
    <2> QED  BY <2>2, <2>6 DEF AllFirm, FirmStep
  <1>13. ASSUME NEW till \in MsgIds, NEW still \in StillUnread(k, till), NEW due,
                Become(ReadInboxTill(World, c, till, no, still, due))
         PROVE  FirmStep
    <2> DEFINE v == ReadInboxTill(World, c, till, no, still, due)
    <2>1. chat' = v.chats
      BY <1>13 DEF Become
    <2> HIDE DEF no
    <2>2. AllFirm(World) /\ Timed(World) /\ World.chats = chat
      BY WorldIsFirm
    <2>3. still \in StillTypes /\ (still = "same" => Unread(k.local, till) = {})
      BY StillIs
    <2>4. AllFirm(v)
      BY <1>4, <2>2, <2>3, ReadInboxFirm
    <2> HIDE DEF v
    <2> QED  BY <2>1, <2>4 DEF AllFirm, FirmStep
  <1>14. ASSUME NEW till \in MsgIds, NEW still \in StillUnread(k, till), NEW due,
                View(c, till, still, due)
         PROVE  FirmStep
    BY <1>13, <1>14 DEF View
  <1>15. ASSUME NEW still \in Stills(c), NEW due, ReadInbox(c, still, due) PROVE FirmStep
    <2>1. k.last \in MsgIds /\ still \in StillUnread(k, k.last)
      BY <1>1 DEF ChatRecords, Stills
    <2>2. CASE Become(ReadInboxTill(World, c, k.last, no, still, due))
      BY <1>13, <2>1, <2>2
    <2>3. CASE Become(With(c, RequestDialogEntry(k, yes)))
      <3> DEFINE n == RequestDialogEntry(k, yes)
      <3>1. Become(With(c, n))
        BY <2>3
      <3> HIDE DEF yes
      <3>2. n \in ChatRecords /\ Kept(n) /\ Firm(n)
        BY <1>1, <1>4, RequestEntryFields, RequestEntryFirm DEF SameRequests
      <3> HIDE DEF n
      <3> QED  BY <3>1, <3>2, OneChatFirm
    <2> QED  BY <1>15, <2>2, <2>3 DEF ReadInbox
  <1> QED  BY <1>5, <1>6, <1>7, <1>8, <1>9, <1>10, <1>11, <1>12, <1>14, <1>15 DEF Calls

LEMMA FinishGoneFirm ==
    ASSUME NEW k \in ChatRecords, Kept(k), Firm(k), NEW id \in Nat, IdGone(k, id)
    PROVE  Firm(FinishSentRequest(k, id))
  <1>1. \A x \in ReadsOut(k) : x.id # id
    BY DEF ReadsOut, IdGone
  <1> QED  BY <1>1, FinishFirm

LEMMA EntryToldFirm ==
    ASSUME NEW k \in ChatRecords, Firm(k), NEW a \in Asks, NEW till \in MsgIds,
           NEW no \in BOOLEAN, till <= k.told
    PROVE  LET n == EntryTold(k, a, till, no)
           IN Registered(n) /\ ReadsInOrder(n) /\ ReadsTold(n)
  <1> DEFINE i == SetInboxReadTill(k, till)
             n == EntryTold(k, a, till, no)
  <1>1. Firm(i)
    BY SetInboxFirm, ToldMayBeRead
  <1>2. /\ SameRequests(i, k) /\ i.local = Larger(k.local, till)
        /\ i.will = k.will /\ i.sentTill = k.sentTill
        /\ i.done = k.done /\ i.told = k.told /\ i.refused = k.refused
    BY SetInboxFields
  <1>3. /\ SameState(n, k) /\ n.wire = k.wire
        /\ n.will = k.will /\ n.sentTill = k.sentTill
        /\ n.done = k.done /\ n.local = Larger(k.local, till)
        /\ n.told = k.told /\ n.refused = (k.refused \/ no)
    BY EntryToldFields
  <1> HIDE DEF i, n
  <1>4. Registered(n) /\ ReadsOut(n) = ReadsOut(i)
    BY <1>2, <1>3 DEF SameRequests, SameState, Registered, Firm, ReadsOut
  <1>5. /\ n.will = i.will /\ n.sentTill = i.sentTill /\ n.done = i.done
        /\ n.local = i.local /\ n.told = i.told
        /\ ~n.refused => ~i.refused
    BY <1>2, <1>3
  <1>6. ReadsInOrder(n)
    BY <1>1, <1>4, <1>5 DEF ReadsInOrder, Firm
  <1>7. \A m : Covered(n, m) <=> Covered(i, m)
    BY <1>4, <1>5 DEF Covered
  <1>8. ReadsTold(n)
    BY <1>1, <1>5, <1>7 DEF ReadsTold, Firm
  <1> QED  BY <1>4, <1>6, <1>8 DEF n

LEMMA AnswersFirm ==
    ASSUME FirmInv, NEW c \in Chats, Answers(c)
    PROVE  FirmStep
  <1> DEFINE k == chat[c]
             yes == TRUE
             no == FALSE
  <1>1. k \in ChatRecords /\ Kept(k) /\ Firm(k) /\ KInv
    BY FirmTypes DEF FirmInv
  <1>2. ASSUME NEW r \in k.wire
        PROVE  LET g == Gone(k, r)
               IN /\ Answered(c, r) = g
                  /\ g \in ChatRecords /\ Kept(g) /\ IdGone(g, r.id)
                  /\ g.told = k.told /\ g.when = k.when
                  /\ r.id \in Nat /\ r.till \in MsgIds
    BY <1>1, GoneFields, GoneRegisters, RequestTypes
       DEF Answered, Gone, SameState, SameReads, Firm
  <1>3. yes \in BOOLEAN /\ no \in BOOLEAN
    OBVIOUS
  <1>4. ASSUME NEW r \in k.wire, r.type # "ReadInbox"
        PROVE  Firm(Answered(c, r))
    BY <1>1, <1>2, <1>4, GoneFirm
  <1>5. ASSUME NEW r \in k.wire, AnswerHistory(c, r) \/ AnswerSend(c, r)
        PROVE  FirmStep
    <2> DEFINE g == Answered(c, r)
               n == FinishSentRequest(g, r.id)
    <2>1. Become(With(c, n)) /\ r.type # "ReadInbox"
      BY <1>5 DEF AnswerHistory, AnswerSend
    <2>2. g \in ChatRecords /\ Kept(g) /\ Firm(g) /\ IdGone(g, r.id) /\ r.id \in Nat
      BY <1>2, <1>4, <2>1
    <2> HIDE DEF g
    <2>3. n \in ChatRecords /\ Kept(n) /\ Firm(n)
      BY <2>2, FinishKeeps, FinishGoneFirm
    <2> HIDE DEF n
    <2> QED  BY <2>1, <2>3, OneChatFirm
  <1>6. ASSUME NEW r \in k.wire, NEW more \in BOOLEAN, AnswerDelete(c, r, more)
        PROVE  FirmStep
    <2> DEFINE g == Answered(c, r)
               i == IF more THEN SendRequest(g, "Delete", 0, yes) ELSE g
               f == FinishSentRequest(i, r.id)
               n == IF ~more /\ ~f.known THEN RequestDialogEntry(f, no) ELSE f
    <2>1. Become(With(c, n)) /\ r.type # "ReadInbox"
      BY <1>6 DEF AnswerDelete
    <2> HIDE DEF yes, no
    <2>2. g \in ChatRecords /\ Kept(g) /\ Firm(g) /\ IdGone(g, r.id) /\ r.id \in Nat
      BY <1>2, <1>4, <2>1
    <2> HIDE DEF g
    <2>3. LET s == SendRequest(g, "Delete", 0, yes)
          IN s \in ChatRecords /\ Kept(s) /\ Firm(s) /\ IdGone(s, r.id)
      BY <1>3, <2>2, TypeNames, SendRequestFields, SendKeeps, SendFirm, SendGone DEF Sends
    <2>4. i \in ChatRecords /\ Kept(i) /\ Firm(i) /\ IdGone(i, r.id)
      BY <2>2, <2>3
    <2> HIDE DEF i
    <2>5. f \in ChatRecords /\ Kept(f) /\ Firm(f)
      BY <2>2, <2>4, FinishKeeps, FinishGoneFirm
    <2> HIDE DEF f
    <2>6. LET e == RequestDialogEntry(f, no)
          IN e \in ChatRecords /\ Kept(e) /\ Firm(e)
      BY <1>3, <2>5, RequestEntryFields, RequestEntryFirm DEF SameRequests
    <2>7. n \in ChatRecords /\ Kept(n) /\ Firm(n)
      BY <2>5, <2>6
    <2> HIDE DEF n
    <2> QED  BY <2>1, <2>7, OneChatFirm
  <1>7. ASSUME NEW r \in k.wire, AnswerDeleteChannel(c, r)
        PROVE  FirmStep
    <2> DEFINE g == Answered(c, r)
    <2>1. Become(With(c, g)) /\ r.type # "ReadInbox"
      BY <1>7 DEF AnswerDeleteChannel
    <2>2. g \in ChatRecords /\ Kept(g) /\ Firm(g)
      BY <1>2, <1>4, <2>1
    <2> HIDE DEF g
    <2> QED  BY <2>1, <2>2, OneChatFirm
  <1>8. ASSUME NEW r \in k.wire
        PROVE  /\ Larger(k.told, r.till) \in MsgIds /\ k.told \in MsgIds
               /\ r.till <= Larger(k.told, r.till) /\ k.told <= Larger(k.told, r.till)
               /\ k.told <= k.told
    <2>1. k.told \in MsgIds /\ r.till \in MsgIds
      BY <1>1, <1>2 DEF ChatRecords
    <2> QED  BY <2>1, LargerIsOne, BoundsAssumption DEF MsgIds
  <1>9. ASSUME NEW r \in k.wire, AnswerReadHistory(c, r)
        PROVE  FirmStep
    <2> DEFINE g == Gone(k, r)
               t == Larger(k.told, r.till)
               n == Told(g, t, no)
    <2>1. /\ g \in ChatRecords /\ Kept(g) /\ Answered(c, r) = g /\ g.told = k.told
          /\ t \in MsgIds /\ r.till <= t /\ k.told <= t
      BY <1>2, <1>8
    <2>2. Become(With(c, n))
      <3>1. n = [g EXCEPT !.told = t]
        <4> HIDE DEF g, t
        <4> QED  BY <2>1 DEF Told, ChatRecords
      <3>2. Become(With(c, [g EXCEPT !.told = t]))
        BY <1>9, <2>1 DEF AnswerReadHistory
      <3> QED  BY <3>1, <3>2
    <2> HIDE DEF t, no
    <2>3. Firm(n)
      BY <1>1, <1>3, <2>1, ReadToldFirm
    <2>4. n \in ChatRecords /\ Kept(n)
      BY <1>3, <2>1, ToldFields DEF SameState
    <2> HIDE DEF n
    <2> QED  BY <2>2, <2>3, <2>4, OneChatFirm
  <1>10. ASSUME NEW r \in k.wire, NEW done \in BOOLEAN, NEW due,
                AnswerRead(c, r, done, due)
         PROVE  FirmStep
    <2> DEFINE g == Gone(k, r)
               t == IF done THEN Larger(k.told, r.till) ELSE k.told
               refuses == ~done
               i == Told(g, t, refuses)
               read == ReadAnswered(i, r.till)
               w == With(c, read)
               v == SendReadRequests(w, due)
               f == FinishSentRequest(v.chats[c], r.id)
    <2>1. /\ g \in ChatRecords /\ Kept(g) /\ Answered(c, r) = g /\ g.told = k.told
          /\ r.till \in MsgIds /\ r.id \in Nat /\ g.when = k.when
      BY <1>2
    <2>2. /\ t \in MsgIds /\ refuses \in BOOLEAN /\ k.told <= t
          /\ r.till <= t \/ refuses
      BY <1>8
    <2>3. chat' = [v.chats EXCEPT ![c] = FinishSentRequest(@, r.id)]
      <3>1. i = [Answered(c, r) EXCEPT !.told = IF done THEN Larger(@, r.till) ELSE @,
                                       !.refused = @ \/ ~done]
        <4> HIDE DEF g
        <4> QED  BY <2>1 DEF Told
      <3> HIDE DEF i
      <3> QED  BY <1>10, <3>1 DEF AnswerRead, ReadAnswered
    <2> HIDE DEF t, refuses
    <2>4. Firm(i) /\ IdGone(i, r.id)
      BY <1>1, <2>2, ReadToldFirm
    <2>5. /\ i \in ChatRecords /\ Kept(i) /\ i.told = t /\ i.when = k.when
          /\ refuses => i.refused
      <3> HIDE DEF g
      <3>1. /\ SameState(i, g) /\ Kept(i) /\ i.told = t /\ i.when = g.when
            /\ i.refused = (g.refused \/ refuses)
        BY <2>1, <2>2, ToldFields
      <3> HIDE DEF i
      <3>2. i \in ChatRecords
        BY <3>1 DEF SameState
      <3>3. refuses => i.refused
        BY <3>1
      <3> QED  BY <2>1, <3>1, <3>2, <3>3
    <2>6. r.till <= i.told \/ i.refused
      <3> HIDE DEF i
      <3> QED  BY <2>2, <2>5
    <2> HIDE DEF i
    <2>7. read \in ChatRecords /\ Kept(read) /\ IdGone(read, r.id)
          /\ read.when = k.when
      BY <2>1, <2>4, <2>5, ReadAnsweredFields DEF SameRequests, IdGone
    <2>8. Firm(read)
      BY <2>1, <2>4, <2>5, <2>6, ReadAnsweredFirm
    <2> HIDE DEF read
    <2>9. AllFirm(w) /\ w.chats[c] = read
      BY <2>7, <2>8, WithIsFirm
    <2> HIDE DEF w
    <2>10. AllFirm(v) /\ IdGone(v.chats[c], r.id)
      BY <2>1, <2>7, <2>9, SendReadsFirm
    <2> HIDE DEF v
    <2>11. /\ v \in Worlds /\ v.chats[c] \in ChatRecords /\ Kept(v.chats[c])
           /\ \A d \in Chats : Firm(v.chats[d])
      BY <2>10 DEF AllFirm, AllKept, Worlds
    <2>12. Firm(f)
      BY <2>1, <2>10, <2>11, FinishGoneFirm
    <2>13. chat'[c] = f /\ \A d \in Chats \ {c} : chat'[d] = v.chats[d]
      BY <2>3, <2>11 DEF Worlds
    <2> HIDE DEF f
    <2> QED  BY <2>11, <2>12, <2>13 DEF FirmStep
  <1>11. ASSUME NEW n \in ChatRecords, Kept(n), n.when = k.when, Registered(n),
                ReadsInOrder(n), ReadsTold(n), k.local <= n.local,
                NEW till \in {0, k.last}, NEW still \in Stills(c), NEW due, NEW stale,
                chat' = DialogEntryApplied(With(c, n), c, till, still, due, stale).chats
         PROVE  FirmStep
    <2> DEFINE w == With(c, n)
               v == DialogEntryApplied(w, c, till, still, due, stale)
    <2>1. chat' = v.chats
      BY <1>11
    <2>2. /\ AllKept(w) /\ Timed(w) /\ w.sends /\ w.chats[c] = n
          /\ \A d \in Chats \ {c} : w.chats[d] = chat[d]
      BY <1>1, <1>11, WithIsKept DEF FirmInv
    <2>3. \A d \in Chats \ {c} : Firm(w.chats[d])
      BY <2>2 DEF FirmInv
    <2>4. till \in MsgIds /\ k.last \in MsgIds
      BY <1>1, TypeNames DEF ChatRecords
    <2>5. still \in StillTypes /\ (still = "same" => Unread(w.chats[c].local, till) = {})
      <3>1. still \in StillTypes /\ (still = "same" => Unread(k.local, k.last) = {})
        BY StillIs DEF Stills
      <3>2. k.local \in MsgIds /\ n.local \in MsgIds
        BY <1>1, <1>11 DEF ChatRecords
      <3>3. Unread(n.local, k.last) \subseteq Unread(k.local, k.last)
        BY <1>11, <2>4, <3>2, BoundsAssumption DEF Unread, MsgIds
      <3>4. Unread(n.local, 0) = {}
        BY <3>2, BoundsAssumption DEF Unread, MsgIds
      <3> QED  BY <1>11, <2>2, <3>1, <3>3, <3>4
    <2> HIDE DEF w
    <2>6. \A d \in Chats : Firm(v.chats[d])
      BY <1>11, <2>2, <2>3, <2>4, <2>5, AppliedFirm
    <2> HIDE DEF v
    <2> QED  BY <2>1, <2>6 DEF FirmStep
  <1>12. k.told \in MsgIds /\ k.last \in MsgIds /\ k.local \in MsgIds /\ 0 \in MsgIds
         /\ 0 <= k.told /\ k.told <= k.told
    BY <1>1, TypeNames, BoundsAssumption DEF ChatRecords, MsgIds
  <1>13. ASSUME NEW a \in k.asks, NEW done \in BOOLEAN, NEW still \in Stills(c), NEW due,
                NEW stale, AnswerEntry(c, a, done, still, due, stale)
         PROVE  FirmStep
    <2> DEFINE till == IF done THEN k.told ELSE 0
               refuses == ~done
               n == EntryTold(k, a, till, refuses)
               last == IF done THEN n.last ELSE 0
               v == DialogEntryApplied(With(c, n), c, last, still, due, stale)
    <2>1. /\ till \in MsgIds /\ refuses \in BOOLEAN /\ a \in Asks /\ till <= k.told
      BY <1>1, <1>12 DEF ChatRecords
    <2>2. chat' = v.chats
      BY <1>13 DEF AnswerEntry, EntryTold
    <2> HIDE DEF till, refuses
    <2>3. /\ n \in ChatRecords /\ Kept(n) /\ n.when = k.when /\ n.last = k.last
          /\ n.local = Larger(k.local, till)
      BY <1>1, <2>1, EntryToldFields DEF SameState
    <2>4. Registered(n) /\ ReadsInOrder(n) /\ ReadsTold(n)
      BY <1>1, <2>1, EntryToldFirm
    <2>5. k.local <= n.local
      BY <1>12, <2>1, <2>3, LargerIsOne
    <2>6. last \in {0, k.last}
      BY <2>3
    <2> HIDE DEF n, last
    <2> QED  BY <1>11, <2>2, <2>3, <2>4, <2>5, <2>6
  <1>14. ASSUME NEW still \in Stills(c), NEW due, NEW stale,
                DialogsSlice(c, still, due, stale)
         PROVE  FirmStep
    <2> DEFINE n == SetInboxReadTill(k, k.told)
               v == DialogEntryApplied(With(c, n), c, k.last, still, due, stale)
    <2>1. chat' = v.chats
      BY <1>14 DEF DialogsSlice, Become
    <2>2. /\ n \in ChatRecords /\ Kept(n) /\ n.when = k.when
          /\ n.local = Larger(k.local, k.told)
      BY <1>1, <1>12, SetInboxFields DEF SameRequests
    <2>3. Firm(n)
      BY <1>1, <1>12, SetInboxFirm, ToldMayBeRead
    <2>4. k.local <= n.local
      BY <1>12, <2>2, LargerIsOne
    <2>5. Registered(n) /\ ReadsInOrder(n) /\ ReadsTold(n)
      BY <2>3 DEF Firm
    <2> HIDE DEF n
    <2> QED  BY <1>11, <2>1, <2>2, <2>4, <2>5
  <1> QED  BY <1>5, <1>6, <1>7, <1>9, <1>10, <1>13, <1>14 DEF Answers

LEMMA SendDialogRequestsFirm ==
    ASSUME FirmInv, SendDialogRequests
    PROVE  FirmStep
  <1>1. \A c \in Chats :
           \/ chat[c].entry # "pending" /\ chat'[c] = chat[c]
           \/ chat[c].entry = "pending" /\ EntrySent(chat'[c], chat[c])
    BY SendDialogRequestsFields DEF FirmInv
  <1>2. ASSUME NEW c \in Chats, EntrySent(chat'[c], chat[c]) PROVE Firm(chat'[c])
    <2> DEFINE n == chat'[c]
               k == chat[c]
    <2>1. k \in ChatRecords /\ Firm(k)
      BY FirmTypes
    <2>2. EntrySent(n, k)
      BY <1>2
    <2> HIDE DEF n
    <2>3. n.sent = k.sent /\ n.postponed = k.postponed /\ n.wire = k.wire
          /\ n.next \in Nat /\ k.next <= n.next
      BY <2>1, <2>2 DEF EntrySent, ChatRecords
    <2>4. Registered(n)
      <3>1. \A r \in k.sent \cup k.postponed : r.id \in Nat /\ r.id <= k.next /\ k.next \in Nat
        BY <2>1, RequestTypes DEF Firm, Registered, ChatRecords
      <3>2. \A r \in k.sent \cup k.postponed : r.id <= n.next
        BY <2>3, <3>1
      <3> QED  BY <2>1, <2>3, <3>2 DEF Firm, Registered
    <2>5. ReadsOut(n) = ReadsOut(k) /\ SameReading(n, k)
      BY <2>2, <2>3 DEF EntrySent, SameReads, SameReading, ReadsOut
    <2>6. ReadsInOrder(n) /\ ReadsTold(n)
      BY <2>1, <2>5, SameReadsSay DEF Firm
    <2>7. EntryAwaited(n)
      <3>1. CASE PostponeEntryRequest(k.sent)
        BY <2>2, <3>1 DEF EntrySent, EntryAwaited
      <3>2. CASE ~PostponeEntryRequest(k.sent)
        <4>1. n.asks = {[a EXCEPT !.crossed = TRUE] : a \in k.asks} \cup {NewAsk(k)}
          BY <2>2, <3>2 DEF EntrySent
        <4>2. ~PostponeEntryRequest(k.wire)
          BY <2>1, <3>2 DEF PostponeEntryRequest, Firm, Registered
        <4>3. ~NewAsk(k).dirty
          BY <4>2 DEF NewAsk
        <4>4. \A a \in k.asks : [a EXCEPT !.crossed = TRUE].crossed
          BY <2>1 DEF ChatRecords, Asks
        <4> QED  BY <4>1, <4>3, <4>4 DEF EntryAwaited
      <3> QED  BY <3>1, <3>2
    <2> QED  BY <2>4, <2>6, <2>7 DEF Firm, n
  <1> QED  BY <1>1, <1>2, FirmTypes DEF FirmStep

LEMMA TimerFirm ==
    ASSUME FirmInv, NEW due, ReadRequestsTimer(due)
    PROVE  FirmStep
  <1> DEFINE w == [World EXCEPT !.timer = FALSE]
             v == SendReadRequests(w, due)
  <1>1. AllFirm(World)
    BY WorldIsFirm
  <1>2. AllFirm(w)
    BY <1>1 DEF AllFirm, AllKept, Worlds
  <1>3. chat' = v.chats
    BY DEF ReadRequestsTimer, Become
  <1> HIDE DEF w
  <1>4. AllFirm(v)
    BY <1>2, SendReadsFirm
  <1> HIDE DEF v
  <1> QED  BY <1>3, <1>4 DEF AllFirm, FirmStep

LEMMA NoGhostMode ==
    ASSUME MaxGhost = 0, FirmInv
    PROVE  ~GhostMode
  BY DEF FirmInv, KInv, Bounded, GhostMode, SetSendReadMessages, ReadHistory,
         LocalRead, Ghost

LEMMA NewChatFirm == Firm(NewChat(1))
  <1>1. 0 \in MsgIds /\ Covered(NewChat(1), 0)
    BY TypeNames DEF Covered, NewChat
  <1>2. Unread(0, NewChat(1).local) = {}
    BY DEF Unread, NewChat
  <1> QED  BY <1>1, <1>2 DEF Firm, Registered, EntryAwaited, ReadsInOrder, ReadsTold,
                             ReadsOut, NewChat, IsOut

(* The inductive invariant without ghost mode.                             *)
LEMMA FirmInvInductive ==
    ASSUME MaxGhost = 0
    PROVE  Spec => []FirmInv
  <1>1. Init /\ KInv => FirmInv
    BY NewChatFirm DEF Init, FirmInv
  <1>2. FirmInv /\ KInv' /\ [Next]_vars => FirmInv'
    <2> SUFFICES ASSUME FirmInv, KInv', [Next]_vars PROVE FirmInv'
      OBVIOUS
    <2>1. CASE UNCHANGED vars
      BY <2>1 DEF vars, FirmInv
    <2>2. ASSUME Next PROVE FirmStep /\ UNCHANGED sendReads
      <3>1. FirmStep
        BY <2>2, CallsFirm, AnswersFirm, TimerFirm, SendDialogRequestsFirm, NoGhostMode
           DEF Next
      <3>2. ASSUME NEW c \in Chats, Calls(c) PROVE UNCHANGED sendReads
        BY <3>2 DEF Calls, LoadHistory, SendMessage, DeleteAllMessages, DeleteMessages,
                    CancelRequest, ReadElsewhere, LeaveChat, NewMessage, View,
                    ReadInbox, Become
      <3>3. ASSUME NEW c \in Chats, Answers(c) PROVE UNCHANGED sendReads
        <4>1. ASSUME NEW r \in chat[c].wire, AnswerHistory(c, r) PROVE UNCHANGED sendReads
          BY <4>1 DEF AnswerHistory, Become
        <4>2. ASSUME NEW r \in chat[c].wire, AnswerSend(c, r) PROVE UNCHANGED sendReads
          BY <4>2 DEF AnswerSend, Become
        <4>3. ASSUME NEW r \in chat[c].wire, AnswerDeleteChannel(c, r)
              PROVE  UNCHANGED sendReads
          BY <4>3 DEF AnswerDeleteChannel, Become
        <4>4. ASSUME NEW r \in chat[c].wire, AnswerReadHistory(c, r)
              PROVE  UNCHANGED sendReads
          BY <4>4 DEF AnswerReadHistory, Become
        <4>5. ASSUME NEW r \in chat[c].wire, NEW more \in BOOLEAN, AnswerDelete(c, r, more)
              PROVE  UNCHANGED sendReads
          BY <4>5 DEF AnswerDelete, Become
        <4>6. ASSUME NEW r \in chat[c].wire, NEW done \in BOOLEAN,
                     NEW due \in SUBSET Delayed, AnswerRead(c, r, done, due)
              PROVE  UNCHANGED sendReads
          BY <4>6 DEF AnswerRead
        <4>7. ASSUME NEW stale \in {FALSE, ~sendReads}, NEW still \in Stills(c),
                     NEW due \in SUBSET Delayed, DialogsSlice(c, still, due, stale)
              PROVE  UNCHANGED sendReads
          BY <4>7 DEF DialogsSlice, Become
        <4>8. ASSUME NEW stale \in {FALSE, ~sendReads}, NEW still \in Stills(c),
                     NEW due \in SUBSET Delayed, NEW a \in chat[c].asks,
                     NEW done \in BOOLEAN, AnswerEntry(c, a, done, still, due, stale)
              PROVE  UNCHANGED sendReads
          BY <4>8 DEF AnswerEntry
        <4> QED  BY <3>3, <4>1, <4>2, <4>3, <4>4, <4>5, <4>6, <4>7, <4>8 DEF Answers
      <3> QED  BY <2>2, <3>1, <3>2, <3>3, NoGhostMode
               DEF Next, ReadRequestsTimer, SendDialogRequests, Become
    <2> QED  BY <2>1, <2>2 DEF FirmInv, FirmStep
  <1> QED  BY <1>1, <1>2, KInvInductive, PTL DEF Spec

(* Without ghost mode no page of history is asked for beside a deletion,   *)
(* whoever waits for the entry waits for something that comes, and an      *)
(* incoming message that is shown as read is or will be known as read at   *)
(* the server.                                                             *)
THEOREM Remembered ==
    ASSUME MaxGhost = 0
    PROVE  Spec => []NothingForgotten
  <1>1. FirmInv => NothingForgotten
    <2> SUFFICES ASSUME FirmInv PROVE NothingForgotten
      OBVIOUS
    <2>1. ASSUME NEW c \in Chats PROVE chat[c] \in ChatRecords /\ Firm(chat[c])
      BY FirmTypes
    <2>2. NoHistoryDuringDelete
      BY <2>1 DEF Firm, Registered, IsOut, NoHistoryDuringDelete
    <2>3. EntryIsOnItsWay
      <3>1. PendingIsPosted
        BY DEF FirmInv, KInv, ChatsOK
      <3> QED  BY <2>1, <3>1 DEF Firm, EntryAwaited, EntryIsOnItsWay, PendingIsPosted
    <2>4. ShownReadIsTold
      <3>1. ASSUME NEW c \in Chats, ~chat[c].refused,
                   NEW m \in Unread(chat[c].told, chat[c].local)
            PROVE  \/ chat[c].will >= m
                   \/ \E r \in chat[c].wire : r.type = "ReadInbox" /\ r.till >= m
        <4> DEFINE k == chat[c]
        <4>1. k.told \in MsgIds /\ k.local \in MsgIds /\ k.will \in MsgIds
              /\ \A r \in k.wire : r.till \in MsgIds
          BY <2>1, RequestTypes DEF ChatRecords
        <4>2. m \in MsgIds /\ k.told < m /\ m \in Unread(0, k.local)
          BY <4>1, <3>1, BoundsAssumption DEF Unread, MsgIds
        <4>3. Covered(k, m)
          BY <2>1, <3>1, <4>2 DEF Firm, ReadsTold
        <4>4. ~(m <= k.told)
          BY <4>1, <4>2, BoundsAssumption DEF MsgIds
        <4>5. m <= k.will => k.will >= m
          BY <4>1, <4>2, BoundsAssumption DEF MsgIds
        <4>6. \A r \in k.wire : m <= r.till => r.till >= m
          BY <4>1, <4>2, BoundsAssumption DEF MsgIds
        <4> QED  BY <4>3, <4>4, <4>5, <4>6 DEF Covered, ReadsOut
      <3> QED  BY <3>1 DEF ShownReadIsTold
    <2> QED  BY <2>2, <2>3, <2>4 DEF NothingForgotten
  <1> QED  BY <1>1, FirmInvInductive, PTL

(* Without ghost mode an answer with an entry that was computed while the  *)
(* chat changed is recognised: the entry is going to be asked again.       *)
THEOREM OverlapIsSeen ==
    ASSUME MaxGhost = 0
    PROVE  Spec => []OverlappedIsAskedAgain
  <1>1. FirmInv => OverlappedIsAskedAgain
    BY DEF FirmInv, Firm, EntryAwaited, OverlappedIsAskedAgain
  <1> QED  BY <1>1, FirmInvInductive, PTL

(* Without ghost mode the answer to a read finds that read, a later one or *)
(* none as the last sent, as finished() asserts.                           *)
THEOREM ReadsAnsweredInOrder ==
    ASSUME MaxGhost = 0
    PROVE  Spec => []ReadAnswerInOrder
  <1>1. FirmInv => ReadAnswerInOrder
    <2> SUFFICES ASSUME FirmInv, NEW c \in Chats, NEW r \in chat[c].wire,
                        r.type = "ReadInbox"
                 PROVE  chat[c].sentTill = 0 \/ chat[c].sentTill >= r.till
      BY DEF ReadAnswerInOrder
    <2>1. chat[c] \in ChatRecords /\ Firm(chat[c])
      BY FirmTypes
    <2>2. chat[c].sentTill \in MsgIds /\ r.till \in MsgIds
      BY <2>1, RequestTypes DEF ChatRecords
    <2>3. chat[c].sentTill # 0 => r.till <= chat[c].sentTill
      BY <2>1 DEF Firm, ReadsInOrder, ReadsOut
    <2> QED  BY <2>2, <2>3, BoundsAssumption DEF MsgIds
  <1> QED  BY <1>1, FirmInvInductive, PTL

-----------------------------------------------------------------------------
(* Without ghost mode a chat's requests implement HistoryOrder.  Most steps *)
(* leave alone what it sees of a chat: the history put off, the history and *)
(* the deletions that are registered.                                      *)

Pages(k) == OfType(k.sent, "History")
Deletions(k) == OfType(k.sent, "Delete")

Alike(n, k) ==
    n.postponed = k.postponed /\ Pages(n) = Pages(k) /\ Deletions(n) = Deletions(k)

Apart(k) == Pages(k) = {} \/ Deletions(k) = {}

LEMMA FirmIsApart ==
    ASSUME NEW k, Registered(k) PROVE Apart(k)
  BY DEF Registered, IsOut, Apart, Pages, Deletions, OfType

LEMMA SameSentIsAlike ==
    ASSUME NEW n, NEW k, n.sent = k.sent, n.postponed = k.postponed
    PROVE  Alike(n, k)
  BY DEF Alike, Pages, Deletions

LEMMA AlikeTransitive ==
    ASSUME NEW n, NEW m, NEW k, Alike(n, m), Alike(m, k)
    PROVE  Alike(n, k)
  BY DEF Alike

LEMMA AlikeIsApart ==
    ASSUME NEW n, NEW k, Alike(n, k), Apart(k) PROVE Apart(n)
  BY DEF Alike, Apart

(* A message or a read takes nothing back.                                 *)
LEMMA SendAlike ==
    ASSUME NEW k \in ChatRecords, Apart(k), NEW type \in {"Send", "ReadInbox"},
           NEW till \in MsgIds, NEW ends \in BOOLEAN
    PROVE  LET n == SendRequest(k, type, till, ends)
           IN n \in ChatRecords /\ Alike(n, k)
  <1> DEFINE n == SendRequest(k, type, till, ends)
             r == New(k, type, till, ends)
  <1>1. type \in Types /\ type # "History" /\ type # "Delete"
    BY DEF Types
  <1>2. Sends(n, k, type, r)
    BY <1>1, SendRequestFields
  <1>3. r.type = type
    BY DEF New
  <1> HIDE DEF n, r
  <1>4. PICK back \in SUBSET (k.sent \cup {r}) : SentNow(n, k, type, r, back)
    BY <1>1, <1>2 DEF Sends, PutOff
  <1>5. back = {}
    BY <1>1, <1>3, <1>4 DEF SentNow, IsOut, Apart, Pages, Deletions, OfType
  <1>6. n.postponed = k.postponed /\ n.sent = k.sent \cup {r}
    BY <1>4, <1>5 DEF SentNow
  <1>7. OfType(n.sent, "History") = OfType(k.sent, "History")
    BY <1>1, <1>3, <1>6 DEF OfType
  <1>8. OfType(n.sent, "Delete") = OfType(k.sent, "Delete")
    BY <1>1, <1>3, <1>6 DEF OfType
  <1> QED  BY <1>2, <1>6, <1>7, <1>8 DEF Sends, Alike, Pages, Deletions, n

LEMMA ReadRequestAlike ==
    ASSUME NEW k \in ChatRecords, Kept(k), Apart(k)
    PROVE  Alike(SendReadRequest(k), k)
  <1> DEFINE t == Taken(k)
             yes == TRUE
  <1>1. SendReadRequest(k) = SendRequest(t, "ReadInbox", k.will, yes)
    BY DEF SendReadRequest, Taken
  <1>2. t \in ChatRecords /\ t.sent = k.sent /\ t.postponed = k.postponed
        /\ k.will \in MsgIds /\ yes \in BOOLEAN
    BY TakenFields DEF SameRequests, ChatRecords
  <1> HIDE DEF t, yes
  <1>3. Alike(t, k) /\ Apart(t)
    BY <1>2, SameSentIsAlike, AlikeIsApart
  <1>4. Alike(SendRequest(t, "ReadInbox", k.will, yes), t)
    BY <1>2, <1>3, SendAlike
  <1> QED  BY <1>1, <1>3, <1>4, AlikeTransitive

(* The end of a message or a read sends nothing that was put off.          *)
LEMMA FinishAlike ==
    ASSUME NEW k \in ChatRecords, Kept(k), NEW id \in Nat,
           \A x \in k.sent : x.id = id => x.type # "History" /\ x.type # "Delete"
    PROVE  Alike(FinishSentRequest(k, id), k)
  <1> DEFINE n == FinishSentRequest(k, id)
  <1>1. PICK back \in SUBSET k.postponed : Finishes(n, k, id, back)
    BY FinishFields DEF Kept
  <1> HIDE DEF n
  <1>2. OfType(Left(k, id), "Delete") = OfType(k.sent, "Delete")
    BY DEF Left, OfType
  <1>3. OfType(Left(k, id), "History") = OfType(k.sent, "History")
    BY DEF Left, OfType
  <1>4. back = {}
    <2>1. CASE IsOut(Left(k, id), "Delete")
      BY <1>1, <2>1 DEF Finishes
    <2>2. CASE ~IsOut(Left(k, id), "Delete")
      <3>1. ~IsOut(k.sent, "Delete")
        BY <1>2, <2>2 DEF IsOut, OfType
      <3> QED  BY <3>1 DEF Kept
    <2> QED  BY <2>1, <2>2
  <1>5. n.sent = Left(k, id) /\ n.postponed = k.postponed
    BY <1>1, <1>4 DEF Finishes
  <1> QED  BY <1>2, <1>3, <1>5 DEF Alike, Pages, Deletions, n

-----------------------------------------------------------------------------
(* So do the handlers of reads and entries, for all chats.                 *)

AllAlike(v, w) == \A d \in Chats : Alike(v.chats[d], w.chats[d])

LEMMA SendReadsAlike ==
    ASSUME NEW w, AllKept(w), w.sends, \A d \in Chats : Apart(w.chats[d]), NEW due
    PROVE  AllAlike(SendReadRequests(w, due), w)
  <1> DEFINE v == SendReadRequests(w, due)
  <1>1. \A c \in Chats :
           \/ v.chats[c] = w.chats[c]
           \/ v.chats[c] = SendReadRequest(w.chats[c])
    BY SendReadsFields
  <1>2. \A c \in Chats : w.chats[c] \in ChatRecords /\ Kept(w.chats[c])
    BY DEF AllKept, Worlds
  <1> HIDE DEF v
  <1>3. ASSUME NEW c \in Chats PROVE Alike(v.chats[c], w.chats[c])
    <2>1. CASE v.chats[c] = w.chats[c]
      BY <2>1 DEF Alike
    <2>2. CASE v.chats[c] = SendReadRequest(w.chats[c])
      BY <1>2, <2>2, ReadRequestAlike
    <2> QED  BY <1>1, <2>1, <2>2
  <1> QED  BY <1>3 DEF AllAlike, v

LEMMA ReadInboxAlike ==
    ASSUME NEW w, AllKept(w), w.sends, \A d \in Chats : Apart(w.chats[d]),
           NEW c \in Chats, NEW till \in MsgIds,
           NEW force \in BOOLEAN, NEW still, NEW due
    PROVE  AllAlike(ReadInboxTill(w, c, till, force, still, due), w)
  <1> DEFINE k == w.chats[c]
             skipped == Skipped(k, till, force)
             same == ~force /\ still = "same"
             now == force \/ still \in {"unknown", "none"}
             later == ~now
             m == WillRead(k, till, later)
             asked == Put(w, c, m)
             result == IF skipped \/ same THEN w
                       ELSE IF now THEN SendReadRequests(asked, due)
                       ELSE [asked EXCEPT !.timer = @ \/ ~k.when]
             v == ReadInboxTill(w, c, till, force, still, due)
  <1>1. v = result \/ v = Put(result, c, SetInboxReadTill(result.chats[c], till))
    BY DEF ReadInboxTill, WillRead
  <1>2. w \in Worlds /\ k \in ChatRecords /\ Kept(k)
    BY DEF AllKept, Worlds
  <1>3. later \in BOOLEAN
    OBVIOUS
  <1> HIDE DEF later
  <1>4. m \in ChatRecords /\ m.sent = k.sent /\ m.postponed = k.postponed
        /\ m.sentTill = k.sentTill /\ m.will = Larger(k.will, till)
        /\ m.again = k.again /\ m.entry = k.entry
    <2> DEFINE l == Larger(k.will, till)
    <2>1. l \in MsgIds /\ m = [k EXCEPT !.will = l, !.when = later]
      BY <1>2, LargerIsOne DEF ChatRecords, WillRead
    <2> HIDE DEF l
    <2>2. m \in ChatRecords /\ m.sent = k.sent /\ m.postponed = k.postponed
          /\ m.sentTill = k.sentTill /\ m.will = l
          /\ m.again = k.again /\ m.entry = k.entry
      BY <1>2, <1>3, <2>1 DEF ChatRecords
    <2> QED  BY <2>2 DEF l
  <1> HIDE DEF m
  <1>5. ASSUME ~skipped PROVE Kept(m)
    <2> DEFINE l == Larger(k.will, till)
    <2>1. l \in MsgIds /\ till <= l /\ k.sentTill \in MsgIds
      BY <1>2, LargerIsOne DEF ChatRecords
    <2>2. k.sentTill < till
      BY <1>2, <1>5, BoundsAssumption DEF Skipped, MsgIds, ChatRecords
    <2>3. m.will > m.sentTill
      <3> HIDE DEF l
      <3> QED  BY <1>4, <2>1, <2>2, BoundsAssumption DEF MsgIds, l
    <2> QED  BY <1>2, <1>4, <2>3 DEF Kept
  <1> HIDE DEF skipped
  <1>6. /\ asked \in Worlds /\ asked.sends /\ AllAlike(asked, w)
        /\ ~skipped => AllKept(asked)
    <2>1. /\ asked \in Worlds /\ asked.sends /\ asked.chats[c] = m
          /\ \A d \in Chats \ {c} : asked.chats[d] = w.chats[d]
      BY <1>2, <1>4, PutFields
    <2>2. ~skipped => AllKept(asked)
      BY <1>4, <1>5, PutKeeps
    <2>3. Alike(m, k)
      BY <1>4, SameSentIsAlike
    <2> HIDE DEF asked
    <2> QED  BY <2>1, <2>2, <2>3 DEF AllAlike, Alike
  <1> HIDE DEF asked
  <1>7. \A d \in Chats : Apart(asked.chats[d])
    BY <1>6, AlikeIsApart DEF AllAlike
  <1>8. result \in Worlds /\ AllAlike(result, w)
    <2>1. CASE skipped \/ same
      BY <1>2, <2>1 DEF AllAlike, Alike
    <2>2. CASE ~(skipped \/ same) /\ now
      <3>1. result = SendReadRequests(asked, due) /\ AllKept(asked)
        BY <1>6, <2>2
      <3> HIDE DEF result
      <3>2. result \in Worlds
        BY <3>1, SendReadsFields DEF AllKept
      <3>3. AllAlike(result, asked)
        BY <1>6, <1>7, <3>1, SendReadsAlike
      <3> QED  BY <1>6, <3>2, <3>3 DEF AllAlike, Alike
    <2>3. CASE ~(skipped \/ same) /\ ~now
      <3> DEFINE t == asked.timer \/ ~k.when
      <3>1. t \in BOOLEAN /\ result = [asked EXCEPT !.timer = t]
        BY <2>3
      <3> HIDE DEF t, result
      <3>2. result \in Worlds /\ result.chats = asked.chats
        BY <1>6, <3>1 DEF Worlds
      <3> QED  BY <1>6, <3>2 DEF AllAlike
    <2> QED  BY <2>1, <2>2, <2>3
  <1> HIDE DEF result
  <1>9. CASE v = Put(result, c, SetInboxReadTill(result.chats[c], till))
    <2> DEFINE j == result.chats[c]
               n == SetInboxReadTill(j, till)
    <2>1. n \in ChatRecords /\ n.sent = j.sent /\ n.postponed = j.postponed
      BY <1>8, SetInboxFields DEF SameRequests, Worlds
    <2>2. v = Put(result, c, n)
      BY <1>9
    <2> HIDE DEF n, v
    <2>3. v.chats[c] = n /\ \A d \in Chats \ {c} : v.chats[d] = result.chats[d]
      BY <1>8, <2>1, <2>2, PutFields
    <2>4. Alike(n, j)
      BY <2>1, SameSentIsAlike
    <2>5. Alike(n, k)
      BY <1>8, <2>4 DEF AllAlike, Alike
    <2> QED  BY <1>8, <2>3, <2>5 DEF AllAlike, v
  <1> QED  BY <1>1, <1>8, <1>9

LEMMA AppliedAlike ==
    ASSUME NEW w, AllKept(w), Timed(w), w.sends, \A d \in Chats : Apart(w.chats[d]),
           NEW c \in Chats, NEW last \in MsgIds, NEW still, NEW due, NEW stale
    PROVE  AllAlike(DialogEntryApplied(w, c, last, still, due, stale), w)
  <1> DEFINE k == w.chats[c]
             i == Entered(k)
             applied == Put(w, c, i)
             no == FALSE
             read == IF k.reader
                     THEN ReadInboxTill(applied, c, last, no, still, due)
                     ELSE applied
             j == read.chats[c]
             till == IF j.done THEN j.sentTill
                     ELSE IF stale /\ k.done /\ HasState(k) /\ ~HasState(j)
                     THEN k.sentTill ELSE 0
             v == DialogEntryApplied(w, c, last, still, due, stale)
  <1>1. CASE k.again
    BY <1>1 DEF DialogEntryApplied, AllAlike, Alike
  <1>2. CASE ~k.again
    <2>1. v = Put(read, c, Settled(j, till)) /\ no \in BOOLEAN
      BY <1>2 DEF DialogEntryApplied, Settled, Entered
    <2> HIDE DEF no
    <2>2. k \in ChatRecords /\ Kept(k) /\ w \in Worlds
      BY DEF AllKept, Worlds
    <2>3. /\ i \in ChatRecords /\ i.when = k.when
          /\ i.sent = k.sent /\ i.postponed = k.postponed /\ i.again = k.again
          /\ i.will = k.will /\ i.sentTill = k.sentTill
      BY <2>2 DEF ChatRecords, Entered
    <2> HIDE DEF i
    <2>4. Kept(i) /\ Alike(i, k)
      <3>1. Kept(i)
        BY <1>2, <2>2, <2>3 DEF Kept
      <3> QED  BY <2>3, <3>1, SameSentIsAlike
    <2>5. /\ AllKept(applied) /\ applied.sends /\ AllAlike(applied, w)
          /\ Timed(applied)
      <3>1. /\ applied \in Worlds /\ applied.sends /\ applied.chats[c] = i
            /\ applied.timer = w.timer
            /\ \A d \in Chats \ {c} : applied.chats[d] = w.chats[d]
        BY <2>2, <2>3, PutFields
      <3>2. AllKept(applied)
        BY <2>3, <2>4, PutKeeps
      <3> HIDE DEF applied
      <3>3. AllAlike(applied, w)
        BY <2>4, <3>1 DEF AllAlike, Alike
      <3>4. Timed(applied)
        BY <2>3, <3>1 DEF Timed
      <3> QED  BY <3>1, <3>2, <3>3, <3>4
    <2> HIDE DEF applied
    <2>6. \A d \in Chats : Apart(applied.chats[d])
      BY <2>5, AlikeIsApart DEF AllAlike
    <2>7. AllKept(read) /\ AllAlike(read, w)
      <3> DEFINE x == ReadInboxTill(applied, c, last, no, still, due)
      <3>1. AllAlike(x, applied)
        BY <2>1, <2>5, <2>6, ReadInboxAlike
      <3>2. AllKept(x)
        BY <2>1, <2>5, ReadInboxKeeps
      <3> HIDE DEF x
      <3>3. AllAlike(x, w)
        BY <2>5, <3>1 DEF AllAlike, Alike
      <3> QED  BY <2>5, <3>2, <3>3 DEF x
    <2> HIDE DEF read
    <2>8. j \in ChatRecords /\ read \in Worlds
      BY <2>7 DEF AllKept, Worlds
    <2>9. till \in MsgIds
      BY <2>2, <2>8, BoundsAssumption DEF ChatRecords, MsgIds
    <2> HIDE DEF till
    <2> DEFINE n == Settled(j, till)
    <2>10. n \in ChatRecords /\ n.sent = j.sent /\ n.postponed = j.postponed
      BY <2>8, <2>9, SettledFields DEF SameRequests
    <2> HIDE DEF n
    <2>11. v = Put(read, c, n)
      BY <2>1 DEF n
    <2> HIDE DEF v
    <2>12. /\ v.chats[c] = n
           /\ \A d \in Chats \ {c} : v.chats[d] = read.chats[d]
      BY <2>8, <2>10, <2>11, PutFields
    <2>13. Alike(n, j)
      BY <2>10, SameSentIsAlike
    <2>14. Alike(n, k)
      BY <2>7, <2>13 DEF AllAlike, Alike
    <2>15. AllAlike(v, w)
      BY <2>7, <2>12, <2>14 DEF AllAlike
    <2> QED  BY <2>15 DEF v
  <1> QED  BY <1>1, <1>2

-----------------------------------------------------------------------------
(* The moves of HistoryOrder, of the requests of a chat and not their       *)
(* numbers.                                                                *)

AsksPage(n, k, r) ==
    /\ Deletions(n) = Deletions(k)
    /\ \/ /\ Deletions(k) = {}
          /\ Pages(n) = Pages(k) \cup {r} /\ n.postponed = k.postponed
       \/ /\ Deletions(k) # {}
          /\ n.postponed = k.postponed \cup {r} /\ Pages(n) = Pages(k)

Edits(n, k, r) ==
    /\ Deletions(n) = Deletions(k) \cup {r}
    /\ n.postponed = k.postponed \cup Pages(k) /\ Pages(n) = {}

EndsEdit(n, k, r, more) ==
    /\ r \in Deletions(k) /\ more \subseteq Deletions(n)
    /\ Deletions(n) = (Deletions(k) \ {r}) \cup more
    /\ \/ /\ Deletions(n) = {}
          /\ Pages(n) = Pages(k) \cup k.postponed /\ n.postponed = {}
       \/ /\ Deletions(n) # {}
          /\ Pages(n) = Pages(k) /\ n.postponed = k.postponed

AnswersPage(n, k, r) ==
    /\ r \in Pages(k) /\ Pages(n) = Pages(k) \ {r}
    /\ n.postponed = k.postponed /\ Deletions(n) = Deletions(k)

TakesBack(n, k, r) ==
    /\ r \in Pages(k) \cup k.postponed
    /\ Pages(n) = Pages(k) \ {r} /\ n.postponed = k.postponed \ {r}
    /\ Deletions(n) = Deletions(k)

Moves(n, k) ==
    \/ Alike(n, k)
    \/ \E r : \/ AsksPage(n, k, r) \/ Edits(n, k, r)
              \/ AnswersPage(n, k, r) \/ TakesBack(n, k, r)
              \/ EndsEdit(n, k, r, {}) \/ \E s : EndsEdit(n, k, r, {s})

LEMMA MovesAlike ==
    ASSUME NEW n, NEW m, NEW k, Moves(m, k), Alike(n, m)
    PROVE  Moves(n, k)
  <1>1. Pages(n) = Pages(m) /\ Deletions(n) = Deletions(m) /\ n.postponed = m.postponed
    BY DEF Alike
  <1>2. CASE Alike(m, k)
    BY <1>1, <1>2 DEF Moves, Alike
  <1>3. CASE \E r : AsksPage(m, k, r)
    BY <1>1, <1>3 DEF Moves, AsksPage
  <1>4. CASE \E r : Edits(m, k, r)
    BY <1>1, <1>4 DEF Moves, Edits
  <1>5. CASE \E r : AnswersPage(m, k, r)
    BY <1>1, <1>5 DEF Moves, AnswersPage
  <1>6. CASE \E r : TakesBack(m, k, r)
    BY <1>1, <1>6 DEF Moves, TakesBack
  <1>7. CASE \E r : EndsEdit(m, k, r, {})
    BY <1>1, <1>7 DEF Moves, EndsEdit
  <1>8. CASE \E r, s : EndsEdit(m, k, r, {s})
    BY <1>1, <1>8 DEF Moves, EndsEdit
  <1> QED  BY <1>2, <1>3, <1>4, <1>5, <1>6, <1>7, <1>8 DEF Moves

LEMMA AskMoves ==
    ASSUME NEW k \in ChatRecords, Kept(k), NEW ends \in BOOLEAN
    PROVE  Moves(SendRequest(k, "History", 0, ends), k)
  <1> DEFINE n == SendRequest(k, "History", 0, ends)
             r == New(k, "History", 0, ends)
  <1>1. Sends(n, k, "History", r)
    BY TypeNames, SendRequestFields
  <1>2. r.type = "History"
    BY DEF New
  <1> HIDE DEF n, r
  <1>3. ASSUME PutOff(n, k, "History", r) PROVE AsksPage(n, k, r)
    BY <1>3 DEF PutOff, AsksPage, Pages, Deletions, OfType, IsOut
  <1>4. ASSUME NEW back \in SUBSET (k.sent \cup {r}), SentNow(n, k, "History", r, back)
        PROVE  AsksPage(n, k, r)
    <2>1. Deletions(k) = {} /\ ~IsOut(k.sent \cup {r}, "Delete")
      BY <1>2, <1>4 DEF SentNow, IsOut, Deletions, OfType
    <2>2. n.sent = k.sent \cup {r} /\ n.postponed = k.postponed
      BY <1>4, <2>1 DEF SentNow
    <2>3. Deletions(n) = Deletions(k)
      BY <1>2, <2>2 DEF Deletions, OfType
    <2>4. Pages(n) = Pages(k) \cup {r}
      BY <1>2, <2>2 DEF Pages, OfType
    <2> QED  BY <2>1, <2>2, <2>3, <2>4 DEF AsksPage
  <1> QED  BY <1>1, <1>3, <1>4 DEF Sends, Moves, n

LEMMA EditFields ==
    ASSUME NEW k \in ChatRecords, Kept(k), NEW ends \in BOOLEAN
    PROVE  LET n == SendRequest(k, "Delete", 0, ends)
               r == New(k, "Delete", 0, ends)
           IN n \in ChatRecords /\ Kept(n) /\ Edits(n, k, r) /\ n.known = k.known
  <1> DEFINE n == SendRequest(k, "Delete", 0, ends)
             r == New(k, "Delete", 0, ends)
  <1>1. Sends(n, k, "Delete", r) /\ Kept(n)
    BY TypeNames, SendRequestFields, SendKeeps
  <1>2. r.type = "Delete"
    BY DEF New
  <1> HIDE DEF n, r
  <1>3. PICK back \in SUBSET (k.sent \cup {r}) : SentNow(n, k, "Delete", r, back)
    BY <1>1 DEF Sends, PutOff
  <1>4. back = Pages(k)
    BY <1>2, <1>3 DEF SentNow, IsOut, Pages, OfType
  <1>5. n.postponed = k.postponed \cup Pages(k) /\ n.sent = (k.sent \cup {r}) \ Pages(k)
    BY <1>3, <1>4 DEF SentNow
  <1>6. Pages(n) = {}
    BY <1>2, <1>5 DEF Pages, OfType
  <1>7. Deletions(n) = Deletions(k) \cup {r}
    BY <1>2, <1>5 DEF Pages, Deletions, OfType
  <1> QED  BY <1>1, <1>5, <1>6, <1>7 DEF Edits, Sends, SameReads, n, r

(* What the end of the request numbered id makes of the three.             *)
LEMMA FinishMoves ==
    ASSUME NEW k \in ChatRecords, Kept(k), NEW id \in Nat
    PROVE  LET n == FinishSentRequest(k, id)
               D == {x \in Deletions(k) : x.id # id}
               P == {x \in Pages(k) : x.id # id}
           IN /\ Deletions(n) = D
              /\ \/ /\ D = {} /\ n.postponed = {}
                    /\ Pages(n) = P \cup k.postponed
                 \/ D # {} /\ n.postponed = k.postponed /\ Pages(n) = P
  <1> DEFINE n == FinishSentRequest(k, id)
             D == {x \in Deletions(k) : x.id # id}
             P == {x \in Pages(k) : x.id # id}
  <1>1. PICK back \in SUBSET k.postponed : Finishes(n, k, id, back)
    BY FinishFields DEF Kept
  <1> HIDE DEF n
  <1>2. \A x \in k.postponed : x.type = "History"
    BY DEF Kept
  <1>3. D = {} <=> ~IsOut(Left(k, id), "Delete")
    BY DEF Left, IsOut, Deletions, OfType
  <1>4. CASE D = {}
    <2>1. n.sent = Left(k, id) \cup k.postponed /\ n.postponed = {}
      BY <1>1, <1>3, <1>4 DEF Finishes
    <2>2. Deletions(n) = D
      BY <1>2, <2>1 DEF Deletions, OfType, Left
    <2>3. Pages(n) = P \cup k.postponed
      BY <1>2, <2>1 DEF Pages, OfType, Left
    <2> QED  BY <1>4, <2>1, <2>2, <2>3 DEF n
  <1>5. CASE D # {}
    <2>1. n.sent = Left(k, id) /\ n.postponed = k.postponed
      BY <1>1, <1>3, <1>5 DEF Finishes
    <2>2. Deletions(n) = D
      BY <2>1 DEF Deletions, OfType, Left
    <2>3. Pages(n) = P
      BY <2>1 DEF Pages, OfType, Left
    <2> QED  BY <1>5, <2>1, <2>2, <2>3 DEF n
  <1> QED  BY <1>4, <1>5

(* Numbers tell the requests of a chat apart.                              *)
LEMMA Numbers ==
    ASSUME NEW k, Registered(k), NEW r \in k.sent \cup k.postponed
    PROVE  /\ {x \in Deletions(k) : x.id # r.id} = Deletions(k) \ {r}
           /\ {x \in Pages(k) : x.id # r.id} = Pages(k) \ {r}
  BY DEF Registered, Deletions, Pages, OfType

LEMMA AnswerPageMoves ==
    ASSUME NEW k \in ChatRecords, Kept(k), Registered(k), NEW r \in Pages(k)
    PROVE  Moves(FinishSentRequest(k, r.id), k)
  <1> DEFINE n == FinishSentRequest(k, r.id)
  <1>1. r \in k.sent /\ r.type = "History"
    BY DEF Pages, OfType
  <1>2. r.id \in Nat
    BY <1>1, RequestTypes
  <1>3. Deletions(k) = {} /\ k.postponed = {}
    <2>1. Deletions(k) = {}
      BY FirmIsApart DEF Apart
    <2> QED  BY <2>1 DEF Kept, IsOut, Deletions, OfType
  <1>4. Deletions(n) = Deletions(k) /\ n.postponed = k.postponed
        /\ Pages(n) = Pages(k) \ {r}
    BY <1>1, <1>2, <1>3, FinishMoves, Numbers
  <1> QED  BY <1>4 DEF Moves, AnswersPage

LEMMA TakeBackMoves ==
    ASSUME NEW k \in ChatRecords, Kept(k), Registered(k), NEW r \in k.sent \cup k.postponed,
           r.type = "History"
    PROVE  Moves(FinishSentRequest(Withdrawn(k, r), r.id), k)
  <1> DEFINE i == Withdrawn(k, r)
             n == FinishSentRequest(i, r.id)
  <1>1. /\ i \in ChatRecords /\ i.sent = k.sent /\ i.postponed = k.postponed \ {r}
        /\ Kept(i)
    BY WithdrawnFields
  <1> HIDE DEF i
  <1>2. r.id \in Nat
    BY RequestTypes
  <1>3. Pages(i) = Pages(k) /\ Deletions(i) = Deletions(k)
    BY <1>1 DEF Pages, Deletions
  <1>4. {x \in Deletions(k) : x.id # r.id} = Deletions(k)
    BY Numbers DEF Deletions, OfType
  <1>5. {x \in Pages(k) : x.id # r.id} = Pages(k) \ {r}
    BY Numbers
  <1>6. Deletions(k) = {} => k.postponed = {}
    BY DEF Kept, IsOut, Deletions, OfType
  <1>7. /\ Deletions(n) = Deletions(k) /\ n.postponed = k.postponed \ {r}
        /\ Pages(n) = Pages(k) \ {r}
    <2> DEFINE D == {x \in Deletions(i) : x.id # r.id}
               P == {x \in Pages(i) : x.id # r.id}
    <2>1. D = Deletions(k) /\ P = Pages(k) \ {r}
      BY <1>3, <1>4, <1>5
    <2>2. /\ Deletions(n) = D
          /\ \/ D = {} /\ n.postponed = {} /\ Pages(n) = P \cup i.postponed
             \/ D # {} /\ n.postponed = i.postponed /\ Pages(n) = P
      BY <1>1, <1>2, FinishMoves
    <2> HIDE DEF D, P, n
    <2> QED  BY <1>1, <1>6, <2>1, <2>2
  <1>8. r \in Pages(k) \cup k.postponed
    BY DEF Pages, OfType
  <1> HIDE DEF n
  <1>9. TakesBack(n, k, r)
    BY <1>7, <1>8 DEF TakesBack
  <1> QED  BY <1>9 DEF Moves, n, i

LEMMA EndEditMoves ==
    ASSUME NEW k \in ChatRecords, Kept(k), Registered(k), NEW r \in Deletions(k)
    PROVE  Moves(FinishSentRequest(k, r.id), k)
  <1> DEFINE n == FinishSentRequest(k, r.id)
  <1>1. r \in k.sent /\ r.id \in Nat
    BY RequestTypes DEF Deletions, OfType
  <1>2. Pages(k) = {} /\ {x \in Pages(k) : x.id # r.id} = {}
    BY FirmIsApart DEF Apart
  <1>3. {x \in Deletions(k) : x.id # r.id} = Deletions(k) \ {r}
    BY <1>1, Numbers
  <1>4. EndsEdit(n, k, r, {})
    <2>1. /\ Deletions(n) = Deletions(k) \ {r}
          /\ \/ Deletions(n) = {} /\ n.postponed = {} /\ Pages(n) = {} \cup k.postponed
             \/ Deletions(n) # {} /\ n.postponed = k.postponed /\ Pages(n) = {}
      <3> DEFINE D == {x \in Deletions(k) : x.id # r.id}
                 P == {x \in Pages(k) : x.id # r.id}
      <3>1. /\ Deletions(n) = D
            /\ \/ D = {} /\ n.postponed = {} /\ Pages(n) = P \cup k.postponed
               \/ D # {} /\ n.postponed = k.postponed /\ Pages(n) = P
        BY <1>1, FinishMoves
      <3>2. D = Deletions(k) \ {r} /\ P = {}
        BY <1>2, <1>3
      <3> HIDE DEF D, P, n
      <3> QED  BY <3>1, <3>2
    <2> HIDE DEF n
    <2> QED  BY <1>2, <2>1 DEF EndsEdit
  <1> QED  BY <1>4 DEF Moves

LEMMA GoOnMoves ==
    ASSUME NEW k \in ChatRecords, Kept(k), Registered(k), NEW r \in Deletions(k),
           NEW ends \in BOOLEAN
    PROVE  Moves(FinishSentRequest(SendRequest(k, "Delete", 0, ends), r.id), k)
  <1> DEFINE i == SendRequest(k, "Delete", 0, ends)
             s == New(k, "Delete", 0, ends)
             n == FinishSentRequest(i, r.id)
  <1>1. i \in ChatRecords /\ Kept(i) /\ Edits(i, k, s)
    BY EditFields
  <1>2. s.id = k.next + 1
    BY DEF New
  <1> HIDE DEF i, s
  <1>3. r \in k.sent /\ r.id \in Nat /\ r.id <= k.next /\ k.next \in Nat
    BY RequestTypes DEF Deletions, OfType, Registered, ChatRecords
  <1>4. Pages(k) = {}
    BY FirmIsApart DEF Apart
  <1>5. Pages(i) = Pages(k) /\ i.postponed = k.postponed
        /\ Deletions(i) = Deletions(k) \cup {s}
    BY <1>1, <1>4 DEF Edits
  <1>6. {x \in Deletions(i) : x.id # r.id} = (Deletions(k) \ {r}) \cup {s}
    <2>1. {x \in Deletions(k) : x.id # r.id} = Deletions(k) \ {r}
      BY <1>3, Numbers
    <2>2. s.id # r.id
      BY <1>2, <1>3
    <2> QED  BY <1>5, <2>1, <2>2
  <1>7. {x \in Pages(i) : x.id # r.id} = {}
    BY <1>4, <1>5
  <1>8. Deletions(n) = (Deletions(k) \ {r}) \cup {s} /\ n.postponed = k.postponed
        /\ Pages(n) = Pages(k)
    BY <1>1, <1>3, <1>4, <1>5, <1>6, <1>7, FinishMoves
  <1> HIDE DEF n
  <1>9. EndsEdit(n, k, r, {s})
    BY <1>8 DEF EndsEdit
  <1> QED  BY <1>9 DEF Moves, n, i

-----------------------------------------------------------------------------
(* Every step is a move in one chat, and the others are left alone.        *)

MoveOf(c) ==
    /\ Moves(chat'[c], chat[c])
    /\ \A d \in Chats \ {c} : Alike(chat'[d], chat[d])

LEMMA OneChatMoves ==
    ASSUME KInv, NEW c \in Chats, NEW k \in ChatRecords, Moves(k, chat[c]),
           Become(With(c, k))
    PROVE  MoveOf(c)
  <1>1. World \in Worlds /\ World.chats = chat
    BY WorldIsKept DEF AllKept
  <1>2. /\ With(c, k).chats[c] = k
        /\ \A d \in Chats \ {c} : With(c, k).chats[d] = chat[d]
    BY <1>1, PutFields DEF With
  <1> QED  BY <1>2 DEF Become, Alike, MoveOf

LEMMA HandlerMoves ==
    ASSUME NEW w, NEW v, AllAlike(v, w), NEW c \in Chats, Alike(w.chats[c], chat[c]),
           \A d \in Chats \ {c} : w.chats[d] = chat[d],
           chat' = v.chats
    PROVE  MoveOf(c)
  BY DEF AllAlike, Alike, Moves, MoveOf

LEMMA AlikeMoves ==
    ASSUME NEW n, NEW k, Alike(n, k) PROVE Moves(n, k)
  BY DEF Moves

LEMMA ChatsApart ==
    ASSUME FirmInv PROVE \A d \in Chats : Apart(chat[d])
  BY FirmIsApart DEF FirmInv, Firm

LEMMA CallsMove ==
    ASSUME FirmInv, NEW c \in Chats, Calls(c)
    PROVE  MoveOf(c)
  <1> DEFINE k == chat[c]
             yes == TRUE
             no == FALSE
  <1>1. /\ k \in ChatRecords /\ Kept(k) /\ Registered(k) /\ KInv /\ Apart(k)
        /\ \A d \in Chats : Apart(chat[d])
    BY FirmTypes, ChatsApart DEF FirmInv, Firm
  <1>2. yes \in BOOLEAN /\ no \in BOOLEAN
    OBVIOUS
  <1>3. CASE LoadHistory(c)
    <2> DEFINE n == SendRequest(k, "History", 0, yes)
    <2>1. Become(With(c, n))
      BY <1>3 DEF LoadHistory
    <2> HIDE DEF yes
    <2>2. n \in ChatRecords /\ Moves(n, k)
      BY <1>1, <1>2, TypeNames, SendRequestFields, AskMoves DEF Sends
    <2> HIDE DEF n
    <2> QED  BY <1>1, <2>1, <2>2, OneChatMoves
  <1>4. CASE SendMessage(c)
    <2> DEFINE n == SendRequest(k, "Send", 0, yes)
    <2>1. Become(With(c, n))
      BY <1>4 DEF SendMessage
    <2> HIDE DEF yes
    <2>2. n \in ChatRecords /\ Alike(n, k)
      BY <1>1, <1>2, TypeNames, SendAlike
    <2> HIDE DEF n
    <2> QED  BY <1>1, <2>1, <2>2, AlikeMoves, OneChatMoves
  <1>5. ASSUME NEW ends \in BOOLEAN
        PROVE  LET s == SendRequest(k, "Delete", 0, ends)
               IN s \in ChatRecords /\ Kept(s) /\ Moves(s, k)
    <2> DEFINE s == SendRequest(k, "Delete", 0, ends)
               r == New(k, "Delete", 0, ends)
    <2>1. s \in ChatRecords /\ Kept(s) /\ Edits(s, k, r)
      BY <1>1, EditFields
    <2> HIDE DEF s, r
    <2> QED  BY <2>1 DEF Moves, s
  <1>6. CASE DeleteAllMessages(c)
    <2> DEFINE ends == c \notin OwnChannels
               n == SendRequest(k, "Delete", 0, ends)
    <2>1. Become(With(c, n)) /\ ends \in BOOLEAN
      BY <1>6 DEF DeleteAllMessages
    <2> HIDE DEF ends
    <2>2. n \in ChatRecords /\ Moves(n, k)
      BY <1>5, <2>1
    <2> HIDE DEF n
    <2> QED  BY <1>1, <2>1, <2>2, OneChatMoves
  <1>7. ASSUME NEW wasLast \in BOOLEAN, DeleteMessages(c, wasLast) PROVE MoveOf(c)
    <2> DEFINE s == SendRequest(k, "Delete", 0, yes)
               n == IF wasLast THEN RequestDialogEntry(LastIs(s, s.last, no), no) ELSE s
    <2>1. s \in ChatRecords /\ Kept(s) /\ Moves(s, k)
      <3> HIDE DEF yes
      <3> QED  BY <1>2, <1>5
    <2>2. Become(With(c, n))
      <3>1. LastIs(s, s.last, no) = [s EXCEPT !.known = FALSE]
        <4> HIDE DEF s
        <4> QED  BY <2>1 DEF LastIs, ChatRecords
      <3> QED  BY <1>7, <3>1 DEF DeleteMessages
    <2> HIDE DEF s, no
    <2>3. n \in ChatRecords /\ Alike(n, s)
      <3> DEFINE i == LastIs(s, s.last, no)
      <3>1. i \in ChatRecords /\ i.sent = s.sent /\ i.postponed = s.postponed /\ Kept(i)
        <4>1. s.last \in MsgIds
          BY <2>1 DEF ChatRecords
        <4> QED  BY <1>2, <2>1, <4>1, LastIsFields DEF SameState
      <3> HIDE DEF i
      <3>2. LET e == RequestDialogEntry(i, no)
            IN e \in ChatRecords /\ e.sent = i.sent /\ e.postponed = i.postponed
        BY <1>2, <3>1, RequestEntryFields DEF SameRequests
      <3>3. /\ n \in ChatRecords /\ n.sent = s.sent /\ n.postponed = s.postponed
        BY <2>1, <3>1, <3>2 DEF i
      <3> QED  BY <3>3, SameSentIsAlike
    <2> HIDE DEF n
    <2>4. Moves(n, k)
      BY <2>1, <2>3, MovesAlike
    <2> QED  BY <1>1, <2>2, <2>3, <2>4, OneChatMoves
  <1>8. ASSUME NEW r \in k.sent \cup k.postponed, CancelRequest(c, r) PROVE MoveOf(c)
    <2> DEFINE i == Withdrawn(k, r)
               n == FinishSentRequest(i, r.id)
    <2>1. Become(With(c, n)) /\ r.type = "History"
      BY <1>8 DEF CancelRequest, Withdrawn
    <2>2. r.id \in Nat
      BY <1>1, RequestTypes
    <2>3. Moves(n, k)
      BY <1>1, <2>1, TakeBackMoves
    <2>4. i \in ChatRecords /\ Kept(i)
      BY <1>1, WithdrawnFields
    <2> HIDE DEF i
    <2>5. n \in ChatRecords
      BY <2>2, <2>4, FinishKeeps
    <2> HIDE DEF n
    <2> QED  BY <1>1, <2>1, <2>3, <2>5, OneChatMoves
  <1>9. ASSUME NEW till \in MsgIds, NEW known \in BOOLEAN, ReadElsewhere(c, till, known)
        PROVE  MoveOf(c)
    <2> DEFINE t == Told(k, till, no)
               i == SetInboxReadTill(t, till)
               n == IF known \/ k.local >= till THEN i ELSE RequestDialogEntry(i, no)
    <2>1. Become(With(c, n))
      <3>1. t = [k EXCEPT !.told = till]
        BY <1>1 DEF Told, ChatRecords
      <3> QED  BY <1>9, <3>1 DEF ReadElsewhere
    <2> HIDE DEF no
    <2>2. t \in ChatRecords /\ Kept(t) /\ t.sent = k.sent /\ t.postponed = k.postponed
      BY <1>1, <1>2, ToldFields DEF SameState
    <2> HIDE DEF t
    <2>3. i \in ChatRecords /\ Kept(i) /\ i.sent = t.sent /\ i.postponed = t.postponed
      BY <2>2, SetInboxFields DEF SameRequests
    <2> HIDE DEF i
    <2>4. LET e == RequestDialogEntry(i, no)
          IN e \in ChatRecords /\ e.sent = i.sent /\ e.postponed = i.postponed
      BY <1>2, <2>3, RequestEntryFields DEF SameRequests
    <2>5. n \in ChatRecords /\ n.sent = k.sent /\ n.postponed = k.postponed
      BY <2>2, <2>3, <2>4
    <2> HIDE DEF n
    <2>6. Moves(n, k)
      BY <2>5, SameSentIsAlike, AlikeMoves
    <2> QED  BY <1>1, <2>1, <2>5, <2>6, OneChatMoves
  <1>10. ASSUME NEW due, LeaveChat(c, due) PROVE MoveOf(c)
    <2> DEFINE h == Hurried(k)
               w == With(c, h)
               v == SendReadRequests(w, due)
    <2>1. chat' = v.chats
      BY <1>10 DEF LeaveChat, Hurried, Become
    <2>2. h \in ChatRecords /\ Kept(h) /\ h.when = FALSE /\ Alike(h, k)
      <3>1. h \in ChatRecords /\ Kept(h) /\ h.when = FALSE
            /\ h.sent = k.sent /\ h.postponed = k.postponed
        BY <1>1, HurriedFields DEF SameState
      <3> HIDE DEF h
      <3> QED  BY <3>1, SameSentIsAlike
    <2> HIDE DEF h
    <2>3. /\ AllKept(w) /\ w.chats[c] = h /\ w.sends
          /\ \A d \in Chats \ {c} : w.chats[d] = chat[d]
      BY <1>1, <2>2, WithIsKept DEF FirmInv
    <2> HIDE DEF w
    <2>4. \A d \in Chats : Apart(w.chats[d])
      BY <1>1, <2>2, <2>3, AlikeIsApart
    <2>5. AllAlike(v, w)
      BY <2>3, <2>4, SendReadsAlike
    <2> HIDE DEF v
    <2> QED  BY <2>1, <2>2, <2>3, <2>5, HandlerMoves
  <1>11. ASSUME NEW seen \in BOOLEAN, NEW still, NEW due, NewMessage(c, seen, still, due)
         PROVE  MoveOf(c)
    <2> DEFINE m == k.last + 1
               i == LastIs(k, m, yes)
               w == With(c, i)
               v == IF seen THEN ReadInboxTill(w, c, m, yes, still, due) ELSE w
    <2>1. m \in MsgIds
      BY <1>1, <1>11, BoundsAssumption DEF NewMessage, MsgIds, ChatRecords
    <2>2. chat' = v.chats
      BY <1>11 DEF NewMessage, LastIs, Become
    <2> HIDE DEF yes, m
    <2>3. i \in ChatRecords /\ Kept(i) /\ i.when = k.when /\ Alike(i, k)
      BY <1>1, <1>2, <2>1, LastIsFields, SameSentIsAlike DEF SameState
    <2> HIDE DEF i
    <2>4. /\ AllKept(w) /\ Timed(w) /\ w.chats[c] = i /\ w.sends
          /\ \A d \in Chats \ {c} : w.chats[d] = chat[d]
      BY <1>1, <2>3, WithIsKept DEF FirmInv
    <2> HIDE DEF w
    <2>5. \A d \in Chats : Apart(w.chats[d])
      BY <1>1, <2>3, <2>4, AlikeIsApart
    <2>6. AllAlike(ReadInboxTill(w, c, m, yes, still, due), w)
      BY <1>2, <2>1, <2>4, <2>5, ReadInboxAlike
    <2>7. AllAlike(v, w)
      BY <2>6 DEF AllAlike, Alike
    <2> HIDE DEF v
    <2> QED  BY <2>2, <2>3, <2>4, <2>7, HandlerMoves
  <1>12. ASSUME NEW till \in MsgIds, NEW still, NEW due,
                Become(ReadInboxTill(World, c, till, no, still, due))
         PROVE  MoveOf(c)
    <2> DEFINE v == ReadInboxTill(World, c, till, no, still, due)
    <2>1. chat' = v.chats
      BY <1>12 DEF Become
    <2> HIDE DEF no
    <2>2. AllKept(World) /\ Timed(World) /\ World.chats = chat /\ World.sends
      BY <1>1, WorldIsKept DEF FirmInv
    <2>3. AllAlike(v, World)
      BY <1>1, <1>2, <2>2, ReadInboxAlike
    <2> HIDE DEF v
    <2>4. Alike(World.chats[c], chat[c])
      BY <2>2 DEF Alike
    <2> QED  BY <2>1, <2>2, <2>3, <2>4, HandlerMoves
  <1>13. ASSUME NEW till \in MsgIds, NEW still, NEW due, View(c, till, still, due)
         PROVE  MoveOf(c)
    BY <1>12, <1>13 DEF View
  <1>14. ASSUME NEW still, NEW due, ReadInbox(c, still, due) PROVE MoveOf(c)
    <2>1. k.last \in MsgIds
      BY <1>1 DEF ChatRecords
    <2>2. CASE Become(ReadInboxTill(World, c, k.last, no, still, due))
      BY <1>12, <2>1, <2>2
    <2>3. CASE Become(With(c, RequestDialogEntry(k, yes)))
      <3> DEFINE n == RequestDialogEntry(k, yes)
      <3>1. Become(With(c, n))
        BY <2>3
      <3> HIDE DEF yes
      <3>2. n \in ChatRecords /\ Alike(n, k)
        BY <1>1, <1>2, RequestEntryFields, SameSentIsAlike DEF SameRequests
      <3> HIDE DEF n
      <3> QED  BY <1>1, <3>1, <3>2, AlikeMoves, OneChatMoves
    <2> QED  BY <1>14, <2>2, <2>3 DEF ReadInbox
  <1> QED  BY <1>3, <1>4, <1>6, <1>7, <1>8, <1>9, <1>10, <1>11, <1>13, <1>14 DEF Calls

LEMMA AnswersMove ==
    ASSUME FirmInv, NEW c \in Chats, Answers(c)
    PROVE  MoveOf(c)
  <1> DEFINE k == chat[c]
             yes == TRUE
             no == FALSE
  <1>1. /\ k \in ChatRecords /\ Kept(k) /\ Registered(k) /\ KInv /\ Apart(k)
        /\ \A d \in Chats : Apart(chat[d])
    BY FirmTypes, ChatsApart DEF FirmInv, Firm
  <1>2. ASSUME NEW r \in k.wire
        PROVE  LET g == Answered(c, r)
               IN /\ g \in ChatRecords /\ Kept(g) /\ Registered(g)
                  /\ g.sent = k.sent /\ g.postponed = k.postponed /\ g.when = k.when
                  /\ r.id \in Nat /\ r.till \in MsgIds /\ r \in k.sent
    <2> DEFINE g == Gone(k, r)
    <2>1. /\ g \in ChatRecords /\ Kept(g) /\ Registered(g)
          /\ g.sent = k.sent /\ g.postponed = k.postponed /\ g.when = k.when
      BY <1>1, GoneFields, GoneRegisters DEF SameState, SameReads
    <2>2. g = Answered(c, r)
      BY DEF Answered, Gone
    <2>3. r.id \in Nat /\ r.till \in MsgIds /\ r \in k.sent
      BY <1>1, RequestTypes DEF Registered
    <2> HIDE DEF g
    <2> QED  BY <2>1, <2>2, <2>3
  <1>3. yes \in BOOLEAN /\ no \in BOOLEAN
    OBVIOUS
  <1>4. ASSUME NEW m, NEW n \in ChatRecords, NEW g, Moves(m, g), Alike(n, m),
               g.sent = k.sent, g.postponed = k.postponed, Become(With(c, n))
        PROVE  MoveOf(c)
    <2>1. Moves(n, g)
      BY <1>4, MovesAlike
    <2>2. Moves(n, k)
      BY <1>4, <2>1 DEF Moves, Alike, AsksPage, Edits, AnswersPage, TakesBack, EndsEdit,
                        Pages, Deletions
    <2> QED  BY <1>1, <1>4, <2>2, OneChatMoves
  <1>5. ASSUME NEW r \in k.wire, AnswerHistory(c, r) PROVE MoveOf(c)
    <2> DEFINE g == Answered(c, r)
               n == FinishSentRequest(g, r.id)
    <2>1. Become(With(c, n)) /\ r.type = "History"
      BY <1>5 DEF AnswerHistory
    <2>2. /\ g \in ChatRecords /\ Kept(g) /\ Registered(g) /\ r.id \in Nat
          /\ g.sent = k.sent /\ g.postponed = k.postponed /\ r \in k.sent
      BY <1>2
    <2> HIDE DEF g
    <2>3. r \in Pages(g)
      BY <2>1, <2>2 DEF Pages, OfType
    <2>4. Moves(n, g) /\ n \in ChatRecords
      BY <2>2, <2>3, AnswerPageMoves, FinishKeeps
    <2> HIDE DEF n
    <2>5. Alike(n, n)
      BY DEF Alike
    <2> QED  BY <1>4, <2>1, <2>2, <2>4, <2>5
  <1>6. ASSUME NEW r \in k.wire, AnswerSend(c, r) PROVE MoveOf(c)
    <2> DEFINE g == Answered(c, r)
               n == FinishSentRequest(g, r.id)
    <2>1. Become(With(c, n)) /\ r.type = "Send"
      BY <1>6 DEF AnswerSend
    <2>2. /\ g \in ChatRecords /\ Kept(g) /\ Registered(g) /\ r.id \in Nat
          /\ g.sent = k.sent /\ g.postponed = k.postponed /\ r \in k.sent
      BY <1>2
    <2> HIDE DEF g
    <2>3. \A x \in g.sent : x.id = r.id => x.type # "History" /\ x.type # "Delete"
      BY <2>1, <2>2 DEF Registered
    <2>4. Alike(n, g) /\ n \in ChatRecords
      BY <2>2, <2>3, FinishAlike, FinishKeeps
    <2> HIDE DEF n
    <2>5. Moves(n, g) /\ Alike(n, n)
      BY <2>4, AlikeMoves DEF Alike
    <2> QED  BY <1>4, <2>1, <2>2, <2>4, <2>5
  <1>7. ASSUME NEW r \in k.wire, NEW more \in BOOLEAN, AnswerDelete(c, r, more)
        PROVE  MoveOf(c)
    <2> DEFINE g == Answered(c, r)
               i == IF more THEN SendRequest(g, "Delete", 0, yes) ELSE g
               f == FinishSentRequest(i, r.id)
               n == IF ~more /\ ~f.known THEN RequestDialogEntry(f, no) ELSE f
    <2>1. Become(With(c, n)) /\ r.type = "Delete"
      BY <1>7 DEF AnswerDelete
    <2> HIDE DEF yes, no
    <2>2. /\ g \in ChatRecords /\ Kept(g) /\ Registered(g) /\ r.id \in Nat
          /\ g.sent = k.sent /\ g.postponed = k.postponed /\ r \in k.sent
      BY <1>2
    <2> HIDE DEF g
    <2>3. r \in Deletions(g)
      BY <2>1, <2>2 DEF Deletions, OfType
    <2>4. i \in ChatRecords /\ Kept(i)
      BY <1>3, <2>2, EditFields
    <2>5. Moves(f, g)
      <3>1. Moves(FinishSentRequest(SendRequest(g, "Delete", 0, yes), r.id), g)
        BY <1>3, <2>2, <2>3, GoOnMoves
      <3>2. Moves(FinishSentRequest(g, r.id), g)
        BY <2>2, <2>3, EndEditMoves
      <3> QED  BY <3>1, <3>2
    <2> HIDE DEF i
    <2>6. f \in ChatRecords /\ Kept(f)
      BY <2>2, <2>4, FinishKeeps
    <2> HIDE DEF f
    <2>7. LET e == RequestDialogEntry(f, no)
          IN e \in ChatRecords /\ e.sent = f.sent /\ e.postponed = f.postponed
      BY <1>3, <2>6, RequestEntryFields DEF SameRequests
    <2>8. n \in ChatRecords /\ n.sent = f.sent /\ n.postponed = f.postponed
      BY <2>6, <2>7
    <2> HIDE DEF n
    <2>9. Alike(n, f)
      BY <2>8, SameSentIsAlike
    <2> QED  BY <1>4, <2>1, <2>2, <2>5, <2>8, <2>9
  <1>8. ASSUME NEW n \in ChatRecords, n.sent = k.sent, n.postponed = k.postponed,
               Become(With(c, n))
        PROVE  MoveOf(c)
    BY <1>1, <1>8, SameSentIsAlike, AlikeMoves, OneChatMoves
  <1>9. ASSUME NEW r \in k.wire, AnswerDeleteChannel(c, r) PROVE MoveOf(c)
    <2> DEFINE g == Answered(c, r)
    <2>1. Become(With(c, g))
      BY <1>9 DEF AnswerDeleteChannel
    <2>2. g \in ChatRecords /\ g.sent = k.sent /\ g.postponed = k.postponed
      BY <1>2
    <2> HIDE DEF g
    <2> QED  BY <1>8, <2>1, <2>2
  <1>10. ASSUME NEW r \in k.wire, AnswerReadHistory(c, r) PROVE MoveOf(c)
    <2> DEFINE g == Answered(c, r)
               t == Larger(g.told, r.till)
               n == Told(g, t, no)
    <2>1. /\ g \in ChatRecords /\ Kept(g) /\ g.sent = k.sent
          /\ g.postponed = k.postponed /\ r.till \in MsgIds
      BY <1>2
    <2>2. Become(With(c, [g EXCEPT !.told = t]))
      BY <1>10 DEF AnswerReadHistory
    <2> HIDE DEF g
    <2>3. t \in MsgIds
      BY <2>1, LargerIsOne DEF ChatRecords
    <2>4. n = [g EXCEPT !.told = t]
      <3> HIDE DEF t
      <3> QED  BY <2>1, <2>3 DEF Told, ChatRecords
    <2> HIDE DEF t, no
    <2>5. n \in ChatRecords /\ n.sent = g.sent /\ n.postponed = g.postponed
      BY <1>3, <2>1, <2>3, ToldFields DEF SameState
    <2>6. Become(With(c, n))
      BY <2>2, <2>4
    <2> HIDE DEF n
    <2> QED  BY <1>8, <2>1, <2>5, <2>6
  <1>11. ASSUME NEW r \in k.wire, NEW done \in BOOLEAN, NEW due,
                AnswerRead(c, r, done, due)
         PROVE  MoveOf(c)
    <2> DEFINE g == Answered(c, r)
               t == IF done THEN Larger(g.told, r.till) ELSE g.told
               refuses == ~done
               i == Told(g, t, refuses)
               read == ReadAnswered(i, r.till)
               w == With(c, read)
               v == SendReadRequests(w, due)
               f == FinishSentRequest(v.chats[c], r.id)
    <2>1. /\ g \in ChatRecords /\ Kept(g) /\ g.when = k.when /\ r \in k.sent
          /\ g.sent = k.sent /\ g.postponed = k.postponed
          /\ r.till \in MsgIds /\ r.id \in Nat
      BY <1>2
    <2>2. refuses \in BOOLEAN /\ r.type = "ReadInbox"
      BY <1>11 DEF AnswerRead
    <2>3. chat' = [v.chats EXCEPT ![c] = FinishSentRequest(@, r.id)]
      BY <1>11 DEF AnswerRead, Told, ReadAnswered
    <2> HIDE DEF g, refuses
    <2>4. t \in MsgIds
      BY <2>1, LargerIsOne DEF ChatRecords
    <2> HIDE DEF t
    <2>5. i \in ChatRecords /\ Kept(i) /\ i.when = g.when
          /\ i.sent = g.sent /\ i.postponed = g.postponed
      BY <2>1, <2>2, <2>4, ToldFields DEF SameState
    <2> HIDE DEF i
    <2>6. read \in ChatRecords /\ Kept(read) /\ read.when = i.when
          /\ read.sent = i.sent /\ read.postponed = i.postponed
      BY <2>1, <2>5, ReadAnsweredFields DEF SameRequests
    <2> HIDE DEF read
    <2>7. Alike(read, k)
      BY <2>1, <2>5, <2>6, SameSentIsAlike
    <2>8. /\ AllKept(w) /\ w.chats[c] = read /\ w.sends
          /\ \A d \in Chats \ {c} : w.chats[d] = chat[d]
      BY <1>1, <2>1, <2>5, <2>6, WithIsKept DEF FirmInv
    <2> HIDE DEF w
    <2>9. \A d \in Chats : Apart(w.chats[d])
      BY <1>1, <2>7, <2>8, AlikeIsApart
    <2>10. AllKept(v) /\ AllAlike(v, w)
      BY <2>8, <2>9, SendReadsFields, SendReadsAlike
    <2> HIDE DEF v
    <2>11. v \in Worlds /\ v.chats[c] \in ChatRecords /\ Kept(v.chats[c])
      BY <2>10 DEF AllKept, Worlds
    <2>12. Alike(v.chats[c], k)
      BY <2>7, <2>8, <2>10 DEF AllAlike, Alike
    <2>13. \A x \in v.chats[c].sent :
              x.id = r.id => x.type # "History" /\ x.type # "Delete"
      BY <1>1, <2>1, <2>2, <2>12 DEF Registered, Alike, Pages, Deletions, OfType
    <2>14. Alike(f, v.chats[c])
      BY <2>1, <2>11, <2>13, FinishAlike
    <2>15. chat'[c] = f /\ \A d \in Chats \ {c} : chat'[d] = v.chats[d]
      BY <2>3, <2>11 DEF Worlds
    <2> HIDE DEF f
    <2>16. Moves(f, k)
      BY <2>12, <2>14, AlikeTransitive, AlikeMoves
    <2>17. \A d \in Chats \ {c} : Alike(v.chats[d], chat[d])
      BY <2>8, <2>10 DEF AllAlike
    <2> QED  BY <2>15, <2>16, <2>17 DEF MoveOf
  <1>12. ASSUME NEW n \in ChatRecords, Kept(n), n.when = k.when,
                n.sent = k.sent, n.postponed = k.postponed,
                NEW till \in MsgIds, NEW still, NEW due, NEW stale,
                chat' = DialogEntryApplied(With(c, n), c, till, still, due, stale).chats
         PROVE  MoveOf(c)
    <2> DEFINE w == With(c, n)
               v == DialogEntryApplied(w, c, till, still, due, stale)
    <2>1. chat' = v.chats
      BY <1>12
    <2>2. /\ AllKept(w) /\ Timed(w) /\ w.sends /\ w.chats[c] = n
          /\ \A d \in Chats \ {c} : w.chats[d] = chat[d]
      BY <1>1, <1>12, WithIsKept DEF FirmInv
    <2> HIDE DEF w
    <2>3. Alike(w.chats[c], chat[c])
      BY <1>12, <2>2, SameSentIsAlike
    <2>4. \A d \in Chats : Apart(w.chats[d])
      BY <1>1, <2>2, <2>3, AlikeIsApart
    <2>5. AllAlike(v, w)
      BY <2>2, <2>4, AppliedAlike
    <2> HIDE DEF v
    <2> QED  BY <2>1, <2>2, <2>3, <2>5, HandlerMoves
  <1>13. k.told \in MsgIds /\ k.last \in MsgIds /\ 0 \in MsgIds
    BY <1>1, TypeNames DEF ChatRecords
  <1>14. ASSUME NEW a \in k.asks, NEW done \in BOOLEAN, NEW still, NEW due, NEW stale,
                AnswerEntry(c, a, done, still, due, stale)
         PROVE  MoveOf(c)
    <2> DEFINE till == IF done THEN k.told ELSE 0
               refuses == ~done
               n == EntryTold(k, a, till, refuses)
               last == IF done THEN n.last ELSE 0
               v == DialogEntryApplied(With(c, n), c, last, still, due, stale)
    <2>1. till \in MsgIds /\ refuses \in BOOLEAN /\ a \in Asks
      BY <1>1, <1>13 DEF ChatRecords
    <2>2. chat' = v.chats
      BY <1>14 DEF AnswerEntry, EntryTold
    <2> HIDE DEF till, refuses
    <2>3. /\ n \in ChatRecords /\ Kept(n) /\ n.when = k.when /\ n.last = k.last
          /\ n.sent = k.sent /\ n.postponed = k.postponed
      BY <1>1, <2>1, EntryToldFields DEF SameState
    <2>4. last \in MsgIds
      BY <1>13, <2>3
    <2> HIDE DEF n, last
    <2> QED  BY <1>12, <2>2, <2>3, <2>4
  <1>15. ASSUME NEW still, NEW due, NEW stale, DialogsSlice(c, still, due, stale)
         PROVE  MoveOf(c)
    <2> DEFINE n == SetInboxReadTill(k, k.told)
               v == DialogEntryApplied(With(c, n), c, k.last, still, due, stale)
    <2>1. chat' = v.chats
      BY <1>15 DEF DialogsSlice, Become
    <2>2. n \in ChatRecords /\ Kept(n) /\ n.when = k.when
          /\ n.sent = k.sent /\ n.postponed = k.postponed
      BY <1>1, <1>13, SetInboxFields DEF SameRequests
    <2> HIDE DEF n
    <2> QED  BY <1>12, <1>13, <2>1, <2>2
  <1> QED  BY <1>5, <1>6, <1>7, <1>9, <1>10, <1>11, <1>14, <1>15 DEF Answers

-----------------------------------------------------------------------------
(* What HistoryOrder sees: the numbers of the requests.                    *)

LEMMA OneChanged ==
    ASSUME NEW c \in Chats, NEW f, NEW g, NEW x,
           f = [d \in Chats |-> f[d]], g = [d \in Chats |-> g[d]],
           \A d \in Chats \ {c} : g[d] = f[d], g[c] = x
    PROVE  g = [f EXCEPT ![c] = x]
  OBVIOUS

LEMMA IdsOfMore ==
    ASSUME NEW A, NEW B
    PROVE  IdsOf(A \cup B) = IdsOf(A) \cup IdsOf(B)
  BY DEF IdsOf

LEMMA IdsOfOne ==
    ASSUME NEW r
    PROVE  IdsOf({r}) = {r.id}
  BY DEF IdsOf

LEMMA IdsOfAdded ==
    ASSUME NEW A, NEW r
    PROVE  IdsOf(A \cup {r}) = IdsOf(A) \cup {r.id}
  BY DEF IdsOf

LEMMA IdsOfNone ==
    ASSUME NEW A
    PROVE  IdsOf(A) = {} <=> A = {}
  BY DEF IdsOf

LEMMA IdsOfLess ==
    ASSUME NEW k, Registered(k), NEW r \in k.sent \cup k.postponed,
           NEW A \in SUBSET (k.sent \cup k.postponed)
    PROVE  IdsOf(A \ {r}) = IdsOf(A) \ {r.id}
  BY DEF IdsOf, Registered

Waiting(s) == [c \in Chats |-> IdsOf(s[c].postponed)]
Running(s) == [c \in Chats |-> IdsOf(Pages(s[c]))]
Edited(s) == [c \in Chats |-> IdsOf(Deletions(s[c]))]

LEMMA MoveIsNext ==
    ASSUME FirmInv, NEW c \in Chats, MoveOf(c)
    PROVE  [Order!Next]_(Order!vars)
  <1> DEFINE k == chat[c]
             n == chat'[c]
             w == Waiting(chat)
             u == Running(chat)
             e == Edited(chat)
             wn == Waiting(chat')
             un == Running(chat')
             en == Edited(chat')
  <1>1. /\ w[c] = IdsOf(k.postponed) /\ wn[c] = IdsOf(n.postponed)
        /\ u[c] = IdsOf(Pages(k)) /\ un[c] = IdsOf(Pages(n))
        /\ e[c] = IdsOf(Deletions(k)) /\ en[c] = IdsOf(Deletions(n))
    BY DEF Waiting, Running, Edited
  <1>2. \A d \in Chats \ {c} : wn[d] = w[d] /\ un[d] = u[d] /\ en[d] = e[d]
    BY DEF Waiting, Running, Edited, MoveOf, Alike
  <1>3. /\ w = [d \in Chats |-> w[d]] /\ wn = [d \in Chats |-> wn[d]]
        /\ u = [d \in Chats |-> u[d]] /\ un = [d \in Chats |-> un[d]]
        /\ e = [d \in Chats |-> e[d]] /\ en = [d \in Chats |-> en[d]]
    BY DEF Waiting, Running, Edited
  <1>4. Order!vars = <<w, u, e>> /\ (Order!vars)' = <<wn, un, en>>
    BY DEF Order!vars, Waiting, Running, Edited, Pages, Deletions
  <1>5. Registered(k) /\ Moves(n, k)
    BY FirmTypes DEF Firm, MoveOf
  <1>6. ASSUME NEW i PROVE
           Order!Ask(c, i) <=>
              /\ IF e[c] = {} THEN un = [u EXCEPT ![c] = @ \cup {i}] /\ wn = w
                 ELSE wn = [w EXCEPT ![c] = @ \cup {i}] /\ un = u
              /\ en = e
    BY DEF Order!Ask, Waiting, Running, Edited, Pages, Deletions
  <1>7. ASSUME NEW i PROVE
           Order!Edit(c, i) <=>
              /\ en = [e EXCEPT ![c] = @ \cup {i}]
              /\ wn = [w EXCEPT ![c] = @ \cup u[c]]
              /\ un = [u EXCEPT ![c] = {}]
    BY DEF Order!Edit, Waiting, Running, Edited, Pages, Deletions
  <1>8. ASSUME NEW i, NEW more PROVE
           Order!EndEdit(c, i, more) <=>
              /\ i \in e[c]
              /\ en = [e EXCEPT ![c] = (@ \ {i}) \cup more]
              /\ IF en[c] = {}
                 THEN /\ un = [u EXCEPT ![c] = @ \cup w[c]]
                      /\ wn = [w EXCEPT ![c] = {}]
                 ELSE wn = w /\ un = u
    BY DEF Order!EndEdit, Waiting, Running, Edited, Pages, Deletions
  <1>9. ASSUME NEW i PROVE
           /\ Order!Answer(c, i) <=>
                 /\ i \in u[c] /\ un = [u EXCEPT ![c] = @ \ {i}]
                 /\ wn = w /\ en = e
           /\ Order!Withdraw(c, i) <=>
                 /\ wn = [w EXCEPT ![c] = @ \ {i}]
                 /\ un = [u EXCEPT ![c] = @ \ {i}]
                 /\ en = e
    BY DEF Order!Answer, Order!Withdraw, Waiting, Running, Edited, Pages, Deletions
  <1>10. Order!Next <=> \E d \in Chats :
            \/ \E i \in wn[d] \cup un[d] : Order!Ask(d, i)
            \/ \E i \in en[d] : Order!Edit(d, i)
            \/ \E i \in w[d] \cup u[d] : Order!Answer(d, i) \/ Order!Withdraw(d, i)
            \/ \E i \in e[d] : \/ Order!EndEdit(d, i, {})
                               \/ \E j \in en[d] : Order!EndEdit(d, i, {j})
    BY DEF Order!Next, Waiting, Running, Edited, Pages, Deletions
  <1> HIDE DEF w, u, e, wn, un, en
  <1>11. CASE Alike(n, k)
    BY <1>1, <1>2, <1>3, <1>4, <1>11 DEF Alike
  <1>12. /\ e[c] = {} <=> Deletions(k) = {}
         /\ en[c] = {} <=> Deletions(n) = {}
    BY <1>1, IdsOfNone
  <1>13. /\ Pages(k) \in SUBSET (k.sent \cup k.postponed)
         /\ Deletions(k) \in SUBSET (k.sent \cup k.postponed)
         /\ k.postponed \in SUBSET (k.sent \cup k.postponed)
    BY DEF Pages, Deletions, OfType
  <1>14. ASSUME NEW r, AsksPage(n, k, r) PROVE Order!Next
    <2>1. en[c] = e[c] /\ en = e
      BY <1>1, <1>2, <1>3, <1>14 DEF AsksPage
    <2>2. CASE Deletions(k) = {}
      <3>1. un[c] = u[c] \cup {r.id} /\ wn[c] = w[c]
        <4>1. Pages(n) = Pages(k) \cup {r} /\ n.postponed = k.postponed
          BY <1>14, <2>2 DEF AsksPage
        <4>2. IdsOf(Pages(k) \cup {r}) = IdsOf(Pages(k)) \cup {r.id}
          BY IdsOfAdded
        <4> QED  BY <1>1, <4>1, <4>2
      <3>2. un = [u EXCEPT ![c] = u[c] \cup {r.id}]
        BY <1>2, <1>3, <3>1, OneChanged
      <3>3. wn = w
        BY <1>2, <1>3, <3>1
      <3> QED  BY <1>6, <1>10, <1>12, <2>1, <2>2, <3>1, <3>2, <3>3
    <2>3. CASE Deletions(k) # {}
      <3>1. wn[c] = w[c] \cup {r.id} /\ un[c] = u[c]
        <4>1. n.postponed = k.postponed \cup {r} /\ Pages(n) = Pages(k)
          BY <1>14, <2>3 DEF AsksPage
        <4>2. IdsOf(k.postponed \cup {r}) = IdsOf(k.postponed) \cup {r.id}
          BY IdsOfAdded
        <4> QED  BY <1>1, <4>1, <4>2
      <3>2. wn = [w EXCEPT ![c] = w[c] \cup {r.id}]
        BY <1>2, <1>3, <3>1, OneChanged
      <3>3. un = u
        BY <1>2, <1>3, <3>1
      <3> QED  BY <1>6, <1>10, <1>12, <2>1, <2>3, <3>1, <3>2, <3>3
    <2> QED  BY <2>2, <2>3
  <1>15. ASSUME NEW r, Edits(n, k, r) PROVE Order!Next
    <2>1. en[c] = e[c] \cup {r.id} /\ wn[c] = w[c] \cup u[c] /\ un[c] = {}
      <3>1. /\ Deletions(n) = Deletions(k) \cup {r}
            /\ n.postponed = k.postponed \cup Pages(k) /\ Pages(n) = {}
        BY <1>15 DEF Edits
      <3>2. IdsOf(Deletions(k) \cup {r}) = IdsOf(Deletions(k)) \cup {r.id}
        BY IdsOfAdded
      <3>3. IdsOf(k.postponed \cup Pages(k)) = IdsOf(k.postponed) \cup IdsOf(Pages(k))
        BY IdsOfMore
      <3>4. IdsOf({}) = {}
        BY IdsOfNone
      <3> QED  BY <1>1, <3>1, <3>2, <3>3, <3>4
    <2>2. /\ en = [e EXCEPT ![c] = e[c] \cup {r.id}]
          /\ wn = [w EXCEPT ![c] = w[c] \cup u[c]]
          /\ un = [u EXCEPT ![c] = {}]
      BY <1>2, <1>3, <2>1, OneChanged
    <2> QED  BY <1>7, <1>10, <2>1, <2>2
  <1>16. ASSUME NEW r, AnswersPage(n, k, r) PROVE Order!Next
    <2>1. r \in k.sent \cup k.postponed
      BY <1>13, <1>16 DEF AnswersPage
    <2>2. un[c] = u[c] \ {r.id} /\ wn[c] = w[c] /\ en[c] = e[c]
      BY <1>1, <1>5, <1>13, <1>16, <2>1, IdsOfLess DEF AnswersPage
    <2>3. r.id \in u[c]
      BY <1>1, <1>16 DEF AnswersPage, IdsOf
    <2>4. un = [u EXCEPT ![c] = u[c] \ {r.id}] /\ wn = w /\ en = e
      <3>1. un = [u EXCEPT ![c] = u[c] \ {r.id}]
        BY <1>2, <1>3, <2>2, OneChanged
      <3>2. wn = w /\ en = e
        BY <1>2, <1>3, <2>2
      <3> QED  BY <3>1, <3>2
    <2> QED  BY <1>9, <1>10, <2>3, <2>4
  <1>17. ASSUME NEW r, TakesBack(n, k, r) PROVE Order!Next
    <2>1. r \in k.sent \cup k.postponed
      BY <1>13, <1>17 DEF TakesBack
    <2>2. un[c] = u[c] \ {r.id} /\ wn[c] = w[c] \ {r.id} /\ en[c] = e[c]
      BY <1>1, <1>5, <1>13, <1>17, <2>1, IdsOfLess DEF TakesBack
    <2>3. r.id \in w[c] \cup u[c]
      BY <1>1, <1>17 DEF TakesBack, IdsOf
    <2>4. /\ un = [u EXCEPT ![c] = u[c] \ {r.id}]
          /\ wn = [w EXCEPT ![c] = w[c] \ {r.id}]
          /\ en = e
      BY <1>2, <1>3, <2>2, OneChanged
    <2> QED  BY <1>9, <1>10, <2>3, <2>4
  <1>18. ASSUME NEW r, NEW more, EndsEdit(n, k, r, more)
         PROVE  r.id \in e[c] /\ Order!EndEdit(c, r.id, IdsOf(more))
    <2>1. r \in k.sent \cup k.postponed
      BY <1>13, <1>18 DEF EndsEdit
    <2>2. en[c] = (e[c] \ {r.id}) \cup IdsOf(more)
      <3> DEFINE D == Deletions(k)
      <3>1. Deletions(n) = (D \ {r}) \cup more
        BY <1>18 DEF EndsEdit
      <3>2. IdsOf(D \ {r}) = IdsOf(D) \ {r.id}
        BY <1>5, <1>13, <2>1, IdsOfLess
      <3> HIDE DEF D
      <3>3. IdsOf((D \ {r}) \cup more) = IdsOf(D \ {r}) \cup IdsOf(more)
        BY IdsOfMore
      <3> QED  BY <1>1, <3>1, <3>2, <3>3 DEF D
    <2>3. r.id \in e[c]
      BY <1>1, <1>18 DEF EndsEdit, IdsOf
    <2>4. en = [e EXCEPT ![c] = (e[c] \ {r.id}) \cup IdsOf(more)]
      BY <1>2, <1>3, <2>2, OneChanged
    <2>5. CASE Deletions(n) = {}
      <3>1. un[c] = u[c] \cup w[c] /\ wn[c] = {}
        <4>1. Pages(n) = Pages(k) \cup k.postponed /\ n.postponed = {}
          BY <1>18, <2>5 DEF EndsEdit
        <4>2. IdsOf(Pages(k) \cup k.postponed) = IdsOf(Pages(k)) \cup IdsOf(k.postponed)
          BY IdsOfMore
        <4>3. IdsOf({}) = {}
          BY IdsOfNone
        <4> QED  BY <1>1, <4>1, <4>2, <4>3
      <3>2. un = [u EXCEPT ![c] = u[c] \cup w[c]] /\ wn = [w EXCEPT ![c] = {}]
        BY <1>2, <1>3, <3>1, OneChanged
      <3> QED  BY <1>8, <1>12, <2>3, <2>4, <2>5, <3>2
    <2>6. CASE Deletions(n) # {}
      <3>1. un[c] = u[c] /\ wn[c] = w[c]
        BY <1>1, <1>18, <2>6 DEF EndsEdit
      <3>2. un = u /\ wn = w
        BY <1>2, <1>3, <3>1
      <3> QED  BY <1>8, <1>12, <2>3, <2>4, <2>6, <3>2
    <2> QED  BY <2>5, <2>6
  <1>19. ASSUME NEW r, EndsEdit(n, k, r, {}) PROVE Order!Next
    <2>1. IdsOf({}) = {}
      BY IdsOfNone
    <2> QED  BY <1>10, <1>18, <1>19, <2>1
  <1>20. ASSUME NEW r, NEW s, EndsEdit(n, k, r, {s}) PROVE Order!Next
    <2>1. IdsOf({s}) = {s.id}
      BY IdsOfOne
    <2>2. s.id \in en[c]
      BY <1>1, <1>20 DEF EndsEdit, IdsOf
    <2>3. r.id \in e[c] /\ Order!EndEdit(c, r.id, {s.id})
      BY <1>18, <1>20, <2>1
    <2> QED  BY <1>10, <2>2, <2>3
  <1> QED  BY <1>5, <1>11, <1>14, <1>15, <1>16, <1>17, <1>19, <1>20 DEF Moves

(* Nothing but the timer and the requests for entries happens outside one  *)
(* chat, and they leave all of them alone.                                 *)
LEMMA StepIsNext ==
    ASSUME MaxGhost = 0, FirmInv, [Next]_vars
    PROVE  [Order!Next]_(Order!vars)
  <1>1. CASE UNCHANGED vars
    BY <1>1 DEF vars, Order!vars, Pages, Deletions
  <1>2. ASSUME NEW c \in Chats, Calls(c) \/ Answers(c)
        PROVE  [Order!Next]_(Order!vars)
    BY <1>2, CallsMove, AnswersMove, MoveIsNext
  <1>3. ASSUME \A d \in Chats : Alike(chat'[d], chat[d]), NEW c \in Chats
        PROVE  [Order!Next]_(Order!vars)
    <2>1. MoveOf(c)
      BY <1>3, AlikeMoves DEF MoveOf
    <2> QED  BY <2>1, MoveIsNext
  <1>4. ASSUME \A d \in Chats : Alike(chat'[d], chat[d]), Chats = {}
        PROVE  [Order!Next]_(Order!vars)
    BY <1>4 DEF Order!vars
  <1>5. ASSUME NEW due, ReadRequestsTimer(due)
        PROVE  \A d \in Chats : Alike(chat'[d], chat[d])
    <2> DEFINE w == [World EXCEPT !.timer = FALSE]
               v == SendReadRequests(w, due)
    <2>1. AllKept(World) /\ World.chats = chat /\ World.sends
      BY WorldIsKept DEF FirmInv
    <2>2. AllKept(w) /\ w.chats = chat /\ w.sends
      BY <2>1 DEF AllKept, Worlds
    <2>3. chat' = v.chats
      BY <1>5 DEF ReadRequestsTimer, Become
    <2> HIDE DEF w
    <2>4. AllAlike(v, w)
      BY <2>2, ChatsApart, SendReadsAlike
    <2> HIDE DEF v
    <2> QED  BY <2>2, <2>3, <2>4 DEF AllAlike
  <1>6. ASSUME SendDialogRequests
        PROVE  \A d \in Chats : Alike(chat'[d], chat[d])
    <2>1. \A d \in Chats : chat'[d].sent = chat[d].sent
                           /\ chat'[d].postponed = chat[d].postponed
      BY <1>6, SendDialogRequestsFields DEF FirmInv, EntrySent
    <2> QED  BY <2>1, SameSentIsAlike
  <1>7. CASE Next
    <2>1. CASE \E c \in Chats : Calls(c) \/ Answers(c)
      BY <1>2, <2>1
    <2>2. CASE (\E due \in SUBSET Delayed : ReadRequestsTimer(due)) \/ SendDialogRequests
      <3>1. \A d \in Chats : Alike(chat'[d], chat[d])
        BY <1>5, <1>6, <2>2
      <3> QED  BY <1>3, <1>4, <3>1
    <2> QED  BY <1>7, <2>1, <2>2, NoGhostMode DEF Next
  <1> QED  BY <1>1, <1>7

(* Without ghost mode the requests of each chat keep the order that        *)
(* HistoryOrder states: pages of history are put off behind the deletions, *)
(* which take back those that are out, and asked again when the last ends. *)
THEOREM Refinement ==
    ASSUME MaxGhost = 0
    PROVE  Spec => KeepsOrder
  <1>1. Init => Order!Init
    BY DEF Init, Order!Init, NewChat, IdsOf, OfType
  <1>2. FirmInv /\ [Next]_vars => [Order!Next]_(Order!vars)
    BY StepIsNext
  <1> QED  BY <1>1, <1>2, FirmInvInductive, PTL DEF Spec, KeepsOrder, Order!Spec
=============================================================================
