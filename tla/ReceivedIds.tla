----------------------------- MODULE ReceivedIds -----------------------------
(***************************************************************************)
(* The receiving half of MTP::details::SessionPrivate                      *)
(* (mtproto/session_private.cpp): which messages of the server are given   *)
(* to the handlers and which are acknowledged, when the server sends again *)
(* what it has no acknowledgement of, connections break with both on the   *)
(* way, and only the newest IdsBufferSize ids are remembered               *)
(* (mtproto/details/mtproto_received_ids_manager.cpp).                     *)
(*                                                                         *)
(* One thread runs all of the client's steps: a packet is handled message  *)
(* by message with nothing but the server acting in between.  handled and  *)
(* cut are history: the messages of this session handled so far, in their  *)
(* order, and those acknowledged where their container turned out shorter. *)
(***************************************************************************)
EXTENDS IdsBuffer, Sequences, FiniteSets

CONSTANTS
    MaxServerId,   \* bound: ids the server gives out
    MaxContained,  \* bound: messages in one container
    MaxWire,       \* bound: packets on the way
    MaxTroubles    \* bound: broken connections, packets that come twice,
                   \* containers that cannot be read and handlers that fail

ASSUME ReceivedBoundsAssumption ==
    /\ MaxServerId \in Nat /\ MaxContained \in Nat /\ MaxWire \in Nat
    /\ MaxTroubles \in Nat

VARIABLES
    ids,       \* the keys of _receivedMessageIds
    rest,      \* messages of the packet at hand still to be handled
    boxed,     \* they came in a container
    acks,      \* _ackRequestData
    handled,   \* messages given to handleOneReceived
    cut,       \* messages acknowledged that run past their container
    nextId,    \* the last id the server gave out
    unacked,   \* messages the server has no acknowledgement of
    wire,      \* packets on the way to the client, in any order (HTTP)
    ackWire,   \* acknowledgements on the way to the server
    sessions,  \* times the session was reset
    troubles

client == <<ids, rest, boxed, acks, handled, cut, sessions>>
sender == <<nextId, unacked>>
network == <<wire, ackWire>>
receivedVars == <<client, sender, network, troubles>>

(* A packet is a message by itself, or a container with an id of its own.  *)
Lone(m) == [outer |-> m, inner |-> {}]
Packets == [outer : Nat, inner : SUBSET Nat]

ReceivedInit ==
    /\ ids = {} /\ rest = {} /\ boxed = FALSE /\ acks = {} /\ sessions = 0
    /\ handled = <<>> /\ cut = {}
    /\ nextId = 0 /\ unacked = {}
    /\ wire = {} /\ ackWire = {} /\ troubles = 0

-----------------------------------------------------------------------------
(* The server: a new message, and any that is not acknowledged, again.     *)

Generate ==
    /\ nextId < MaxServerId
    /\ nextId' = nextId + 1 /\ unacked' = unacked \cup {nextId'}
    /\ UNCHANGED <<client, network, troubles>>

SendLone(m) ==
    /\ Lone(m) \notin wire /\ Cardinality(wire) < MaxWire
    /\ wire' = wire \cup {Lone(m)}
    /\ UNCHANGED <<client, sender, ackWire, troubles>>

SendContainer(messages) ==
    /\ Cardinality(wire) < MaxWire /\ nextId < MaxServerId
    /\ nextId' = nextId + 1
    /\ wire' = wire \cup {[outer |-> nextId', inner |-> messages]}
    /\ UNCHANGED <<client, unacked, ackWire, troubles>>

GetAcks ==
    /\ ackWire # {}
    /\ unacked' = unacked \ ackWire /\ ackWire' = {}
    /\ UNCHANGED <<client, nextId, wire, troubles>>

-----------------------------------------------------------------------------
(* SessionPrivate.                                                         *)

Duplicate(m) == m \in ids

(* Mutant of TooOld: an old id is taken for a new one.                     *)
NeverTooOld(m) == FALSE

TooOld(m) ==
    /\ m \notin ids /\ Cardinality(ids) >= IdsBufferSize
    /\ \A i \in ids : m < i

(* ReceivedIdsManager::shrink: the oldest go until IdsBufferSize are left. *)
Shrink(registered) ==
    \E kept \in SUBSET registered :
        /\ Cardinality(kept) = IF Cardinality(registered) < IdsBufferSize
                               THEN Cardinality(registered)
                               ELSE IdsBufferSize
        /\ \A i \in registered \ kept, j \in kept : i < j
        /\ ids' = kept

(* changeSessionId(): both sides begin anew.                               *)
ChangeSessionId ==
    /\ sessions' = sessions + 1
    /\ ids' = {} /\ rest' = {} /\ boxed' = FALSE /\ acks' = {}
    /\ handled' = <<>> /\ cut' = {}
    /\ wire' = {} /\ ackWire' = {}
    /\ unacked' = {} /\ UNCHANGED nextId

(* restart(): what is on its way is lost, the session goes on.             *)
LoseConnection ==
    /\ wire' = {} /\ ackWire' = {}
    /\ UNCHANGED <<sessions, sender>>

KeepConnection == UNCHANGED <<sessions, sender, network>>

(* Mutant of Acknowledge: what is not handled is not acknowledged.         *)
AcknowledgeNew(m) == acks' = IF Duplicate(m) THEN acks ELSE acks \cup {m}

Acknowledge(m) == acks' = acks \cup {m}

(* The packet at hand is left with these messages; at its end the ids are  *)
(* shrunk.                                                                 *)
Leave(registered, messages) ==
    /\ rest' = messages /\ boxed' = (boxed /\ messages # {})
    /\ IF messages = {} THEN Shrink(registered) ELSE ids' = registered

(* The packet is taken off the way, or will come again.                    *)
Take(p) ==
    \/ wire' = wire \ {p} /\ UNCHANGED troubles
    \/ troubles < MaxTroubles /\ troubles' = troubles + 1 /\ UNCHANGED wire

(* A packet is a lone message, or a container registered before what it    *)
(* contains.                                                               *)
ReceiveLone(p) ==
    /\ rest = {} /\ p.inner = {}
    /\ Take(p) /\ rest' = {p.outer}
    /\ UNCHANGED <<ids, boxed, acks, handled, cut, sessions, sender, ackWire>>

ReceiveContainer(p) ==
    /\ rest = {} /\ p.inner # {} /\ ~TooOld(p.outer)
    /\ Take(p)
    /\ \/ /\ ~Duplicate(p.outer)
          /\ ids' = ids \cup {p.outer} /\ rest' = p.inner /\ boxed' = TRUE
       \/ Duplicate(p.outer) /\ UNCHANGED <<ids, rest, boxed>>
    /\ UNCHANGED <<acks, handled, cut, sessions, sender, ackWire>>

ReceiveTooOldContainer(p) ==
    /\ rest = {} /\ p.inner # {} /\ TooOld(p.outer)
    /\ ChangeSessionId /\ UNCHANGED troubles

SkipDuplicate(m) ==
    /\ Duplicate(m)
    /\ Acknowledge(m) /\ Leave(ids, rest \ {m})
    /\ UNCHANGED <<handled, cut>> /\ KeepConnection
    /\ UNCHANGED troubles

HandleMessage(m) ==
    /\ ~Duplicate(m) /\ ~TooOld(m)
    /\ Acknowledge(m) /\ Leave(ids \cup {m}, rest \ {m})
    /\ handled' = Append(handled, m) /\ KeepConnection
    /\ UNCHANGED <<cut, troubles>>

(* Mutant of HandleAndLeave: the rest of the packet is acknowledged too.   *)
HandleAndAcknowledge(m) ==
    /\ ~Duplicate(m) /\ ~TooOld(m) /\ troubles < MaxTroubles
    /\ acks' = acks \cup rest /\ Leave(ids \cup {m}, {})
    /\ handled' = Append(handled, m) /\ UNCHANGED cut
    /\ KeepConnection \/ LoseConnection
    /\ troubles' = troubles + 1

(* The handler has the rest of the packet left alone: HandleResult is      *)
(* Ignored, or ParseError or RestartConnection, which end the connection.  *)
HandleAndLeave(m) ==
    /\ ~Duplicate(m) /\ ~TooOld(m) /\ troubles < MaxTroubles
    /\ Acknowledge(m) /\ Leave(ids \cup {m}, {})
    /\ handled' = Append(handled, m) /\ UNCHANGED cut
    /\ KeepConnection \/ LoseConnection
    /\ troubles' = troubles + 1

(* A contained message that cannot be read ends the connection before its  *)
(* turn, with its id, its number or its length wrong.                      *)
LeaveUnread(m) ==
    /\ boxed /\ troubles < MaxTroubles
    /\ Leave(ids, {}) /\ LoseConnection
    /\ troubles' = troubles + 1
    /\ UNCHANGED <<acks, handled, cut>>

(* Its length is looked at once more when it is acknowledged already: it   *)
(* runs past the container.  restart() keeps the acknowledgement.          *)
LeaveCutShort(m) ==
    /\ boxed /\ troubles < MaxTroubles
    /\ Acknowledge(m) /\ cut' = cut \cup {m}
    /\ Leave(ids, {}) /\ LoseConnection
    /\ troubles' = troubles + 1
    /\ UNCHANGED handled

(* The message is too old, or its handler asks for a new session.          *)
HandleAndReset(m) ==
    /\ ~Duplicate(m)
    /\ \/ TooOld(m) /\ UNCHANGED troubles
       \/ ~TooOld(m) /\ troubles < MaxTroubles /\ troubles' = troubles + 1
    /\ ChangeSessionId

(* tryToSend takes the acknowledgements; nothing keeps them once sent.     *)
SendAcks ==
    /\ rest = {} /\ acks # {}
    /\ ackWire' = ackWire \cup acks /\ acks' = {}
    /\ UNCHANGED <<ids, rest, boxed, handled, cut, sessions, sender, wire, troubles>>

ConnectionBreaks ==
    /\ rest = {} /\ troubles < MaxTroubles
    /\ troubles' = troubles + 1
    /\ LoseConnection
    /\ UNCHANGED <<ids, rest, boxed, acks, handled, cut>>

-----------------------------------------------------------------------------
MessageAtHand == \E m \in rest :
    \/ SkipDuplicate(m) \/ HandleMessage(m) \/ HandleAndLeave(m)
    \/ LeaveUnread(m) \/ LeaveCutShort(m) \/ HandleAndReset(m)

Packet == \E p \in wire :
    ReceiveLone(p) \/ ReceiveContainer(p) \/ ReceiveTooOldContainer(p)

Send ==
    \/ \E m \in unacked : SendLone(m)
    \/ \E s \in SUBSET unacked :
         Cardinality(s) \in 1..MaxContained /\ SendContainer(s)

ReceivedNext ==
    \/ Generate \/ Send \/ GetAcks
    \/ Packet \/ MessageAtHand \/ SendAcks \/ ConnectionBreaks

ReceivedSpec == ReceivedInit /\ [][ReceivedNext]_receivedVars

(* The event loop of the session's thread handles what arrives and comes to *)
(* what is due between packets; the server repeats what is unacknowledged. *)
ReceivedFairness ==
    /\ WF_receivedVars(Packet) /\ WF_receivedVars(MessageAtHand)
    /\ SF_receivedVars(SendAcks) /\ WF_receivedVars(GetAcks)
    /\ \A m \in 1..MaxServerId : SF_receivedVars(m \in unacked /\ SendLone(m))
    /\ \A m \in 1..MaxServerId : SF_receivedVars(Lone(m) \in wire /\ ReceiveLone(Lone(m)))

ReceivedFairSpec == ReceivedSpec /\ ReceivedFairness

-----------------------------------------------------------------------------
(* Every variable has the type the code gives it; between packets no more  *)
(* than IdsBufferSize ids are kept.                                        *)
ReceivedTypeOK ==
    /\ ids \in SUBSET Nat /\ rest \in SUBSET Nat /\ acks \in SUBSET Nat
    /\ boxed \in BOOLEAN /\ handled \in Seq(Nat) /\ cut \in SUBSET Nat
    /\ sessions \in Nat
    /\ nextId \in Nat /\ unacked \in SUBSET Nat
    /\ wire \in SUBSET Packets /\ ackWire \in SUBSET Nat
    /\ troubles \in 0..MaxTroubles
    /\ IsFiniteSet(ids) /\ (rest = {} => Cardinality(ids) <= IdsBufferSize)

(* No message of a session is handled twice, though the ids of most of     *)
(* those handled are forgotten and the server repeats any it likes.        *)
HandledOnce ==
    \A i, j \in DOMAIN handled : handled[i] = handled[j] => i = j

(* Only what was handled is acknowledged, so that the messages of a        *)
(* container that was given up before their turn are for the server to     *)
(* repeat: all but the one message at which a container broke off, which   *)
(* handleOneReceived acknowledges before it looks whether it is all there. *)
AckedIsHandled ==
    acks \cup ackWire \subseteq {handled[i] : i \in DOMAIN handled} \cup cut

(* A message is repeated until it is handled and acknowledged, and it is,  *)
(* though acknowledgements get lost, unless the session is reset.          *)
Acknowledged ==
    \A m \in 1..MaxServerId : (m \in unacked) ~> (m \notin unacked)
=============================================================================
