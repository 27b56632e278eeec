----------------------------- MODULE MtpSession -----------------------------
(***************************************************************************)
(* The sending half of MTP::details::SessionPrivate                        *)
(* (mtproto/session_private.cpp), the maps it shares with Session          *)
(* (mtproto/session.cpp), and the part of MTP::Instance                    *)
(* (mtproto/mtp_instance.cpp) that owns the callbacks: how a request       *)
(* reaches the server and its answer the callback, when connections break, *)
(* either side starts a new session, messages are acknowledged, asked      *)
(* about and sent again, errors ask for a retry and callers cancel.        *)
(*                                                                         *)
(* The main thread's steps and the session thread's interleave.  A message *)
(* is a msg_id and the request it carries; the answer to one is delivered  *)
(* once (ReceivedIds) as long as its session lasts.  Containers are not    *)
(* kept: what _sentContainers causes, a group of messages acknowledged or  *)
(* sent again, happens here to any of them.                                *)
(***************************************************************************)
EXTENDS IdsBuffer, FiniteSets, Sequences

CONSTANTS
    NumRequests,   \* bound: requests sent, in the order of their requestId
    MaxId,         \* bound: msg_ids given out
    MaxBreaks,     \* bound: broken connections
    MaxResets,     \* bound: sessions the client has reset
    MaxLost,       \* bound: sessions the server has lost
    MaxResends,    \* bound: messages the server or a timer has sent again
    MaxFaults,     \* bound: all of the four together
    MaxRetries,    \* bound: answers that ask for a retry
    RetryNow       \* some of those are retried at once (MIGRATE, MSG_WAIT);
                   \* bound: not in a behaviour with a lost session

ASSUME SizeAssumption == NumRequests \in Nat
ASSUME BoundsAssumption ==
    /\ MaxId \in Nat /\ MaxBreaks \in Nat /\ MaxResets \in Nat /\ MaxLost \in Nat
    /\ MaxResends \in Nat /\ MaxFaults \in Nat /\ MaxRetries \in Nat /\ RetryNow \in BOOLEAN

Requests == 1..NumRequests
Ids == 1..MaxId
Messages == [id : Ids, req : Requests]
Kinds == {"done", "delay", "now"}

VARIABLES
    started,   \* requests the caller has sent
    parsers,   \* the keys of _parserMap: their callback is waiting
    handling,  \* requests whose error is being handled, out of _parserMap
    delayed,   \* _delayedRequests
    replies,   \* _haveReceivedMessages, in the order of arrival
    finished,  \* requests whose callback was called
    toSend, haveSent,     \* the maps of SessionData; messages for the latter
    resendingIds, ackedIds,
    msgId,     \* msg_id in the request's buffer, 0 if it has none
    forced,    \* forceSendInContainer
    checkTimer,  \* _checkSentRequestsTimer is active
    connected, marked,    \* a ConnectedState; _sessionMarkedAsStarted
    lastId,    \* the newest msg_id
    up,        \* messages on their way to the server, in order
    got, down, \* those its session has received, and answers on their way
    answered,  \* ... and has answered, with the kind of answer
    fresh,     \* ... or whether it has received none
    created,   \* first_msg_id of new_session_created on its way, or 0
    breaks, resets, lost, resends, retries

main == <<started, parsers, handling, delayed, finished>>
maps == <<toSend, haveSent, resendingIds, ackedIds, msgId, forced>>
session == <<checkTimer, connected, marked, lastId>>
server == <<got, down, answered, fresh, created>>
budget == <<breaks, resets, lost, resends, retries>>
vars == <<main, replies, maps, session, up, server, budget>>

Faulty == breaks + resets + lost + resends < MaxFaults

Init ==
    /\ started = {} /\ parsers = {} /\ handling = {} /\ delayed = {}
    /\ replies = <<>> /\ finished = {}
    /\ toSend = {} /\ haveSent = {} /\ resendingIds = {} /\ ackedIds = {}
    /\ msgId = [r \in Requests |-> 0] /\ forced = {}
    /\ checkTimer = FALSE /\ connected = FALSE
    /\ marked = FALSE /\ lastId = 0
    /\ up = <<>> /\ got = {} /\ down = {} /\ answered = {}
    /\ fresh = TRUE /\ created = 0
    /\ breaks = 0 /\ resets = 0 /\ lost = 0 /\ resends = 0 /\ retries = 0

-----------------------------------------------------------------------------
(* MTP::Instance and Session: the main thread.                             *)

(* Session::sendPrepared.                                                  *)
SendPrepared(r) ==
    /\ toSend' = toSend \cup {r}
    /\ msgId' = [msgId EXCEPT ![r] = 0]
    /\ UNCHANGED <<haveSent, resendingIds, ackedIds, forced>>

SendRequest(r) ==
    /\ handling = {}
    /\ started = 1..(r - 1) /\ started' = started \cup {r}
    /\ parsers' = parsers \cup {r}
    /\ SendPrepared(r)
    /\ UNCHANGED <<handling, delayed, finished, replies, session, up, server,
                   budget>>

(* cancel() finds the request in the maps, or the session's thread has it  *)
(* in hand: taken from one map and not yet put into the other.             *)
Cancel(r) ==
    /\ handling = {} /\ r \in parsers /\ parsers' = parsers \ {r}
    /\ \/ /\ toSend' = toSend \ {r}
          /\ haveSent' = {m \in haveSent : m # [id |-> msgId[r], req |-> r]}
       \/ UNCHANGED <<toSend, haveSent>>
    /\ UNCHANGED <<started, handling, delayed, finished, replies, resendingIds,
                   ackedIds, msgId, forced, session, up, server, budget>>

(* processCallback, for what has no callback any more.                     *)
DropReply(a) ==
    /\ a.req \notin parsers /\ replies' = Tail(replies)
    /\ UNCHANGED <<main, maps, session, up, server, budget>>

(* Mutant of CallBack: the callback stays in _parserMap.                    *)
CallBackKeeping(a) ==
    /\ a.req \in parsers /\ a.kind = "done"
    /\ replies' = Tail(replies) /\ finished' = finished \cup {a.req}
    /\ UNCHANGED <<started, parsers, handling, delayed, maps, session, up,
                   server, budget>>

(* A result, or an error the caller handles.                               *)
CallBack(a) ==
    /\ a.req \in parsers /\ a.kind = "done"
    /\ replies' = Tail(replies)
    /\ parsers' = parsers \ {a.req} /\ finished' = finished \cup {a.req}
    /\ UNCHANGED <<started, handling, delayed, maps, session, up, server,
                   budget>>

(* onErrorDefault, for FLOOD_WAIT and errors of the server.                *)
DelayRequest(a) ==
    /\ a.req \in parsers /\ a.kind = "delay"
    /\ replies' = Tail(replies) /\ delayed' = delayed \cup {a.req}
    /\ UNCHANGED <<started, parsers, handling, finished, maps, session, up,
                   server, budget>>

(* onErrorDefault, for what is sent again at once: that happens before the *)
(* callback is back in _parserMap.                                         *)
SendAgain(a) ==
    /\ a.req \in parsers /\ a.kind = "now"
    /\ replies' = Tail(replies)
    /\ parsers' = parsers \ {a.req} /\ handling' = handling \cup {a.req}
    /\ SendPrepared(a.req)
    /\ UNCHANGED <<started, delayed, finished, session, up, server, budget>>

HandlerReturns ==
    /\ handling # {}
    /\ parsers' = parsers \cup handling /\ handling' = {}
    /\ UNCHANGED <<started, delayed, finished, replies, maps, session, up,
                   server, budget>>

ProcessCallback ==
    /\ handling = {} /\ replies # <<>>
    /\ LET a == Head(replies)
       IN  DropReply(a) \/ CallBack(a) \/ DelayRequest(a) \/ SendAgain(a)

(* checkDelayedRequests; a cancelled request is not found any more.        *)
SendDelayed(r) ==
    /\ handling = {}
    /\ delayed' = delayed \ {r}
    /\ IF r \in parsers THEN SendPrepared(r) ELSE UNCHANGED maps
    /\ UNCHANGED <<started, parsers, handling, finished, replies, session, up,
                   server, budget>>

-----------------------------------------------------------------------------
(* SessionPrivate: its own thread.                                         *)

(* Mutant of PrepareToSend: a request sent again always gets a new msg_id. *)
PrepareAnew(sending, force) == sending

(* prepareToSend: who gets a new msg_id.  The old one is in no other map.  *)
PrepareToSend(sending, force) ==
    {r \in sending : msgId[r] = 0 \/ force}

(* A set of messages in the order of their requests.                       *)
InOrder(messages) ==
    {s \in [1..Cardinality(messages) -> messages] :
        \A i, j \in DOMAIN s : i < j => s[i].req < s[j].req}

(* tryToSend with these requests from the front of toSend, alone or in a   *)
(* container, maybe with service messages.                                 *)
TryToSend(sending) ==
    /\ connected /\ sending # {}
    /\ LET new == PrepareToSend(sending, ~marked)
           id(r) == IF r \in new
                    THEN lastId + Cardinality({q \in new : q <= r})
                    ELSE msgId[r]
           messages == {[id |-> id(r), req |-> r] : r \in sending}
       IN  /\ lastId + Cardinality(new) <= MaxId
           /\ lastId' = lastId + Cardinality(new)
           /\ msgId' = [r \in Requests |->
                           IF r \in sending THEN id(r) ELSE msgId[r]]
           /\ toSend' = toSend \ sending
           /\ haveSent' = haveSent \cup messages
           /\ \E batch \in InOrder(messages) : up' = up \o batch
    /\ marked' = TRUE
    /\ resendingIds' = {m \in resendingIds :
                           ~\E r \in sending : m.id = msgId[r]}
    /\ \/ Cardinality(sending) = 1 /\ sending \cap forced = {}
          /\ UNCHANGED checkTimer
       \/ checkTimer' = TRUE
    /\ UNCHANGED <<main, replies, ackedIds, forced, connected, server,
                   budget>>

(* Mutant of Resend: the messages stay in haveSent, too.                   *)
ResendKeeping(messages) ==
    /\ toSend' = toSend \cup {m.req : m \in messages}
    /\ resendingIds' = resendingIds \cup messages
    /\ UNCHANGED <<haveSent, forced, msgId, ackedIds>>

(* Messages that are to be sent again, as they are.                        *)
Resend(messages) ==
    /\ haveSent' = haveSent \ messages
    /\ toSend' = toSend \cup {m.req : m \in messages}
    /\ resendingIds' = resendingIds \cup messages
    /\ forced' = forced \cup {m.req : m \in messages}
    /\ UNCHANGED <<msgId, ackedIds>>

(* The newest IdsBufferSize stay.                                          *)
Trim(acked) ==
    {m \in acked :
        Cardinality({n \in acked : n.id > m.id}) < IdsBufferSize}

(* Mutant of IsAcked: an acknowledgement does for an answer.               *)
AnyIsAcked(m, byResponse) == TRUE

(* An acknowledgement is ignored while somebody waits for the answer.      *)
IsAcked(m, byResponse) == byResponse \/ m.req \notin parsers

(* Mutant of TakeBack: what is prepared is sent all the same.              *)
LeavePrepared(messages) == toSend

TakeBack(messages) == toSend \ {m.req : m \in messages}

(* requestsAcked for one id.                                               *)
RequestsAcked(id, byResponse) ==
    LET acked(map) == {m \in map : m.id = id /\ IsAcked(m, byResponse)}
        prepared == {m \in acked(resendingIds) : m.req \in toSend}
    IN  /\ IF \E m \in haveSent : m.id = id
           THEN /\ haveSent' = haveSent \ acked(haveSent)
                /\ ackedIds' = Trim(ackedIds \cup acked(haveSent))
                /\ UNCHANGED <<resendingIds, toSend>>
           ELSE /\ resendingIds' = resendingIds \ acked(resendingIds)
                /\ toSend' = TakeBack(prepared)
                /\ ackedIds' = Trim(ackedIds \cup prepared)
                /\ UNCHANGED haveSent
        /\ UNCHANGED <<msgId, forced>>

(* rpc_result.  wasSent() finds whose it is in the maps, if they still     *)
(* know the msg_id.                                                        *)
ReceiveAnswer(a) ==
    /\ connected /\ down' = down \ {a}
    /\ RequestsAcked(a.id, TRUE)
    /\ LET known == {m \in resendingIds' \cup ackedIds' \cup haveSent' : m.id = a.id}
       IN  IF known = {} THEN UNCHANGED replies
           ELSE replies' = Append(replies, [a EXCEPT !.req = (CHOOSE m \in known : TRUE).req])
    /\ UNCHANGED <<main, session, up, got, answered, fresh, created, budget>>

(* msgs_ack, and handleMsgsStates for a message that was received.         *)
ReceiveAck(m) ==
    /\ connected /\ m \in got
    /\ RequestsAcked(m.id, FALSE) /\ maps' # maps
    /\ UNCHANGED <<main, replies, session, up, server, budget>>

(* bad_msg_notification, bad_server_salt, an old container.                *)
ReceiveBadMessage(m) ==
    /\ connected /\ resends < MaxResends /\ Faulty /\ resends' = resends + 1
    /\ Resend({m})
    /\ UNCHANGED <<main, replies, session, up, server, breaks, resets, lost, retries>>

(* checkSentRequests when everything sent is overdue: the timer stops.     *)
CheckSentRequests ==
    /\ checkTimer /\ checkTimer' = FALSE
    /\ UNCHANGED <<main, replies, maps, connected, marked, lastId, up, server,
                   budget>>

(* handleMsgsStates for a message that was not received.                   *)
ReceiveLostState(m) ==
    /\ connected /\ m \notin got
    /\ resends < MaxResends /\ Faulty /\ resends' = resends + 1
    /\ Resend({m})
    /\ UNCHANGED <<main, replies, session, up, server, breaks, resets, lost, retries>>

(* Mutant of ReceiveNewSession: nothing is sent again.                     *)
ReceiveNewSessionOnly ==
    /\ connected /\ created # 0 /\ created' = 0
    /\ UNCHANGED <<main, replies, maps, session, up, got, down, answered, fresh,
                   budget>>

(* new_session_created: what was sent before it never arrived.             *)
ReceiveNewSession ==
    /\ connected /\ created # 0 /\ created' = 0
    /\ Resend({m \in haveSent : m.id < created})
    /\ UNCHANGED <<main, replies, session, up, got, down, answered, fresh,
                   budget>>

(* Mutant of Connect: nothing is sent again.                               *)
ConnectOnly ==
    /\ ~connected /\ connected' = TRUE
    /\ UNCHANGED <<main, replies, maps, checkTimer, marked, lastId, up, server,
                   budget>>

(* authKeyChecked: everything is sent again in the new connection.         *)
Connect ==
    /\ ~connected /\ connected' = TRUE
    /\ Resend(haveSent)
    /\ UNCHANGED <<main, replies, checkTimer, marked, lastId, up, server,
                   budget>>

Disconnect ==
    /\ connected /\ breaks < MaxBreaks /\ Faulty /\ breaks' = breaks + 1
    /\ connected' = FALSE /\ up' = <<>>
    /\ UNCHANGED <<main, replies, maps, checkTimer, marked, lastId, server,
                   resets, lost, resends, retries>>

(* restart() with _needSessionReset.                                       *)
ResetSession ==
    /\ connected /\ resets < MaxResets /\ Faulty /\ resets' = resets + 1
    /\ connected' = FALSE /\ marked' = FALSE /\ up' = <<>>
    /\ got' = {} /\ down' = {} /\ answered' = {} /\ fresh' = TRUE /\ created' = 0
    /\ UNCHANGED <<main, replies, maps, checkTimer, lastId, breaks, lost, resends,
                   retries>>

-----------------------------------------------------------------------------
(* The server.                                                             *)

Deliver ==
    /\ up # <<>> /\ up' = Tail(up) /\ got' = got \cup {Head(up)}
    /\ fresh' = FALSE /\ created' = IF fresh THEN Head(up).id ELSE created
    /\ UNCHANGED <<main, replies, maps, session, down, answered, budget>>

(* A ping reaches a server that knows nothing of the session, after all    *)
(* that was sent before it; its msg_id is above every other.               *)
Ping ==
    /\ connected /\ fresh /\ up = <<>>
    /\ fresh' = FALSE /\ created' = lastId + 1
    /\ UNCHANGED <<main, replies, maps, session, up, got, down, answered, budget>>

Answer(m, kind) ==
    /\ m \in got /\ ~\E a \in answered : a.id = m.id
    /\ LET a == [id |-> m.id, req |-> m.req, kind |-> kind]
       IN  down' = down \cup {a} /\ answered' = answered \cup {a}
    /\ UNCHANGED <<main, replies, maps, session, up, got, fresh, created>>

ServerAnswers(m) ==
    Answer(m, "done") /\ UNCHANGED budget

ServerAsksToRetry(m) ==
    /\ retries < MaxRetries /\ retries' = retries + 1
    /\ \E kind \in IF RetryNow /\ lost = 0 THEN {"delay", "now"} ELSE {"delay"} :
         Answer(m, kind)
    /\ UNCHANGED <<breaks, resets, lost, resends>>

LoseSession ==
    /\ lost < MaxLost /\ Faulty /\ lost' = lost + 1
    /\ \A a \in answered : a.kind # "now"
    /\ got' = {} /\ down' = {} /\ answered' = {} /\ fresh' = TRUE /\ created' = 0
    /\ UNCHANGED <<main, replies, maps, session, up, breaks, resets, resends,
                   retries>>

-----------------------------------------------------------------------------
Main ==
    \/ \E r \in Requests : SendRequest(r) \/ Cancel(r)
    \/ ProcessCallback \/ HandlerReturns
    \/ \E r \in delayed : SendDelayed(r)

Fronts == {{r \in toSend : r <= last} : last \in toSend}

Thread ==
    \/ \E sending \in Fronts : TryToSend(sending)
    \/ \E a \in down : ReceiveAnswer(a)
    \/ \E m \in haveSent \cup resendingIds : ReceiveAck(m)
    \/ \E m \in haveSent : ReceiveBadMessage(m)
    \/ CheckSentRequests
    \/ \E m \in haveSent : ReceiveLostState(m)
    \/ ReceiveNewSession \/ Connect \/ Disconnect \/ ResetSession

Server ==
    \/ Deliver
    \/ \E m \in got : ServerAnswers(m) \/ ServerAsksToRetry(m)
    \/ Ping \/ LoseSession

Next == Main \/ Thread \/ Server

Spec == Init /\ [][Next]_vars

(* Both threads run their event loops, connections are made again, the     *)
(* session pings, and the server answers what it has received.             *)
Fairness ==
    /\ WF_vars(ProcessCallback) /\ WF_vars(HandlerReturns)
    /\ WF_vars(\E r \in delayed : SendDelayed(r))
    /\ WF_vars(TryToSend(toSend)) /\ WF_vars(\E a \in down : ReceiveAnswer(a))
    /\ WF_vars(ReceiveNewSession) /\ WF_vars(Connect) /\ WF_vars(Ping)
    /\ WF_vars(Deliver) /\ WF_vars(\E m \in got : ServerAnswers(m))

FairSpec == Spec /\ Fairness

-----------------------------------------------------------------------------
Typed ==
    /\ started \in SUBSET Requests /\ parsers \in SUBSET started
    /\ handling \in SUBSET started /\ delayed \in SUBSET started
    /\ finished \in SUBSET started
    /\ replies \in Seq([id : Ids, req : started, kind : Kinds])
    /\ toSend \in SUBSET started /\ haveSent \in SUBSET Messages
    /\ resendingIds \in SUBSET Messages /\ ackedIds \in SUBSET Messages
    /\ msgId \in [Requests -> 0..MaxId] /\ forced \in SUBSET Requests
    /\ checkTimer \in BOOLEAN
    /\ connected \in BOOLEAN /\ marked \in BOOLEAN /\ lastId \in 0..MaxId
    /\ up \in Seq(Messages) /\ got \in SUBSET Messages
    /\ down \in SUBSET answered
    /\ answered \in SUBSET [id : Ids, req : Requests, kind : Kinds]
    /\ fresh \in BOOLEAN /\ created \in 0..(MaxId + 1)

Counted ==
    /\ breaks \in 0..MaxBreaks /\ resets \in 0..MaxResets /\ lost \in 0..MaxLost
    /\ resends \in 0..MaxResends /\ retries \in 0..MaxRetries

InOneMap == \A m \in haveSent : m.req \notin toSend /\ m.id = msgId[m.req]

(* Every variable has the type the code gives it, and a request is in one  *)
(* of the maps it travels through at a time.                               *)
TypeOK == Typed /\ Counted /\ InOneMap

Queued == {replies[i] : i \in DOMAIN replies}

(* A request somebody waits for is never forgotten: it is about to be sent *)
(* or was and is remembered, its answer is being processed, or a retry is  *)
(* due.                                                                    *)
Remembered(r) ==
    \/ r \in toSend \cup delayed
    \/ \E m \in haveSent \cup Queued : m.req = r

NoRequestForgotten == \A r \in parsers : Remembered(r)

(* A request that was answered is not sent once more, however far the      *)
(* preparations for that had come when the answer arrived.                 *)
AnsweredIsNotSent ==
    \A r \in finished \cup {a.req : a \in {b \in Queued : b.kind = "done"}} :
        r \notin toSend /\ \A m \in haveSent : m.req # r

(* A session of the server executes a request once, under whatever msg_ids *)
(* it was sent, unless it asked for a retry.                               *)
ExecutedOnce ==
    \A a, b \in answered : a.req = b.req /\ a.id < b.id => a.kind # "done"

(* A request that waits for its answer in a connection is checked on.      *)
SentIsChecked == connected /\ haveSent # {} => checkTimer

(* The inductive invariant.  Always: what the maps, the buffers, the way to *)
(* the server and the server know of a msg_id is whose it is, and it was    *)
(* given out.                                                              *)
Elements(s) == {s[i] : i \in DOMAIN s}
InSession == Elements(up) \cup got
Buffered == {m \in Messages : m.id = msgId[m.req]}
Everywhere == haveSent \cup resendingIds \cup ackedIds \cup Buffered \cup InSession

IdsAreUnique ==
    /\ \A m \in Everywhere : m.id <= lastId /\ m.req \in started
    /\ \A m, n \in Everywhere : m.id = n.id => m.req = n.req
    /\ \A a \in answered : [id |-> a.id, req |-> a.req] \in got

(* The rest as long as the server has not both lost a session and asked for *)
(* a retry.  Retried: the server has answered the message so.               *)
Retried(m) == \E a \in answered : a.id = m.id /\ a.kind # "done"
NeverBoth == lost = 0 \/ retries = 0

(* A message of the session carries the msg_id in the buffer of its request *)
(* or was answered by what asks for a retry, and none before it is marked.  *)
SessionIds ==
    /\ ~marked => up = <<>> /\ got = {}
    /\ \A m \in InSession :
        /\ m.id = msgId[m.req] \/ Retried(m)
        /\ msgId[m.req] = 0 \/ m.id <= msgId[m.req]
    /\ \A a, b \in answered : a.id = b.id => a = b
    /\ \A a \in down : a.id = msgId[a.req]
    /\ retries = 0 => /\ delayed = {} /\ \A a \in answered \cup Queued : a.kind = "done"

(* A request that is about to be sent again keeps the message for that.    *)
ResendingIsKnown ==
    \A r \in toSend : msgId[r] # 0 => [id |-> msgId[r], req |-> r] \in resendingIds

(* Who was answered is in none of the maps and, unless a session was lost,  *)
(* in one place.                                                           *)
Answered == finished \cup delayed \cup {a.req : a \in Queued}
Travelling == toSend \cup {m.req : m \in haveSent}
Settled == Answered \cap Travelling = {}
AnsweredOnce ==
    lost = 0 =>
        /\ finished \cap delayed = {}
        /\ \A a \in Queued : a.req \notin finished \cup delayed
        /\ \A i, j \in DOMAIN replies : replies[i].req = replies[j].req => i = j
        /\ \A a \in down : a.req \notin Answered
        /\ \A m \in InSession :
            /\ m.req \in Answered => \E a \in answered : a.id = m.id
            /\ m.req \in delayed => Retried(m)
            /\ \A a \in Queued : a.req = m.req /\ a.kind # "done" => Retried(m)

Once == SessionIds /\ ResendingIsKnown /\ Settled /\ AnsweredOnce
OnceInv == Typed /\ Counted /\ IdsAreUnique /\ (NeverBoth => InOneMap /\ Once)

(* No error is retried at once: no handler runs with its callback out of   *)
(* _parserMap.  (RetryNow = FALSE.)                                        *)
NoHandler ==
    handling = {} /\ \A a \in answered \cup Queued : a.kind # "now"

(* No answer comes after as many newer requests were answered as _ackedIds *)
(* keeps: what requestsAcked() trims is not what was asked for just now.   *)
AnswersAreRecent ==
    \A a \in down :
        Cardinality({m \in ackedIds : m.id > a.id}) < IdsBufferSize

(* What a caller is promised (RequestOnce): a callback that is being kept   *)
(* out of _parserMap while its error is handled still waits, and an answer  *)
(* is on its way from when the server gives it until processCallback().     *)
Offered == {a.req : a \in {b \in down \cup Queued : b.kind = "done"}}
Promise == INSTANCE RequestOnce WITH
    called <- started, waiting <- parsers \cup handling, offered <- Offered

(* A callback runs at most once, never after cancel(), and only for an      *)
(* answer to its own request, whatever breaks, is reset, lost or sent again *)
(* (wasSent(), requestsAcked(), processCallback()).                        *)
CalledBackOnce == Promise!Spec

(* Every request is answered in the end, unless it is cancelled.           *)
AllAnswered ==
    \A r \in Requests : (r \in parsers) ~> (r \notin parsers \cup handling)
=============================================================================
