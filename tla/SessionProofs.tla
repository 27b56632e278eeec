---------------------------- MODULE SessionProofs ----------------------------
(***************************************************************************)
(* What is proved of the two halves of SessionPrivate: ReceivedIds for     *)
(* every size of the buffer and every bound, and MtpSession.               *)
(***************************************************************************)
EXTENDS ReceivedIds, MtpSession, FiniteSetTheorems, SequenceTheorems, TLAPS

-----------------------------------------------------------------------------
(* The receiving half.  That no message is handled twice rests on Covers:  *)
(* a message that was handled is still remembered, or as many newer ids as *)
(* the buffer holds are, and then the message is recognised as too old.    *)

Handled == {handled[i] : i \in DOMAIN handled}

(* The ids in S are enough to tell every message of H from a new one.      *)
Covers(H, S) ==
    \A h \in H : \/ h \in S
                 \/ Cardinality(S) >= IdsBufferSize /\ \A i \in S : h < i

Content(p) == IF p.inner = {} THEN {p.outer} ELSE p.inner

(* Messages that the client may come to handle.                            *)
Due == unacked \cup rest \cup UNION {Content(p) : p \in wire}

(* The server never gives out an id twice.                                 *)
Numbered ==
    /\ \A x \in ids \cup Due : x <= nextId
    /\ \A p \in wire : p.outer <= nextId

(* The id of a container is not the id of a message.                       *)
Apart ==
    /\ ids \cap Due \subseteq Handled
    /\ \A p \in wire : p.inner # {} => p.outer \notin Due

ReceivedInv ==
    /\ ReceivedTypeOK /\ HandledOnce /\ AckedIsHandled
    /\ Covers(Handled, ids) /\ Numbered /\ Apart

-----------------------------------------------------------------------------
(* An id that is neither a duplicate nor too old was not handled, and can  *)
(* be registered.                                                          *)
LEMMA Register ==
    ASSUME NEW H \in SUBSET Nat, NEW m \in Nat, ReceivedTypeOK, Covers(H, ids),
           ~Duplicate(m), ~TooOld(m)
    PROVE  m \notin H /\ Covers(H \cup {m}, ids \cup {m})
  <1>1. IsFiniteSet(ids) /\ ids \in SUBSET Nat /\ m \notin ids
    BY DEF ReceivedTypeOK, Duplicate
  <1>2. /\ Cardinality(ids) \in Nat
        /\ Cardinality(ids \cup {m}) = Cardinality(ids) + 1
    BY <1>1, FS_CardinalityType, FS_AddElement
  <1>3. Cardinality(ids) < IdsBufferSize \/ \E i \in ids : i <= m
    BY <1>1, <1>2, BufferAssumption DEF TooOld
  <1>4. m \notin H
    BY <1>1, <1>2, <1>3, BufferAssumption DEF Covers
  <1>5. ASSUME NEW h \in H, h \notin ids
        PROVE  /\ Cardinality(ids \cup {m}) >= IdsBufferSize
               /\ \A i \in ids \cup {m} : h < i
    <2>1. Cardinality(ids) >= IdsBufferSize /\ \A i \in ids : h < i
      BY <1>5 DEF Covers
    <2>2. PICK i \in ids : i <= m
      BY <1>2, <1>3, <2>1, BufferAssumption
    <2>3. h < m
      BY <1>1, <2>1, <2>2
    <2> QED  BY <1>2, <2>1, <2>3, BufferAssumption
  <1> QED  BY <1>4, <1>5 DEF Covers

(* Forgetting the oldest ids loses nothing that is needed.                 *)
LEMMA Forget ==
    ASSUME NEW H \in SUBSET Nat, NEW registered \in SUBSET Nat,
           IsFiniteSet(registered), Covers(H, registered), Shrink(registered)
    PROVE  /\ Covers(H, ids') /\ ids' \in SUBSET registered
           /\ IsFiniteSet(ids') /\ Cardinality(ids') <= IdsBufferSize
  <1>1. PICK kept \in SUBSET registered :
          /\ Cardinality(kept) = IF Cardinality(registered) < IdsBufferSize
                                 THEN Cardinality(registered)
                                 ELSE IdsBufferSize
          /\ \A i \in registered \ kept, j \in kept : i < j
          /\ ids' = kept
    BY DEF Shrink
  <1>2. /\ IsFiniteSet(kept) /\ Cardinality(kept) \in Nat
        /\ Cardinality(registered) \in Nat
        /\ Cardinality(registered) = Cardinality(kept) => registered = kept
    BY <1>1, FS_Subset, FS_CardinalityType
  <1>3. Cardinality(kept) <= IdsBufferSize
    BY <1>1, <1>2, BufferAssumption
  <1>4. ASSUME NEW h \in H, h \notin kept
        PROVE  Cardinality(kept) >= IdsBufferSize /\ \A i \in kept : h < i
    <2>1. CASE h \in registered
      BY <1>1, <1>2, <1>4, <2>1, BufferAssumption
    <2>2. CASE h \notin registered
      <3>1. /\ Cardinality(registered) >= IdsBufferSize
            /\ \A i \in registered : h < i
        BY <2>2 DEF Covers
      <3> QED  BY <1>1, <1>2, <3>1, BufferAssumption
    <2> QED  BY <2>1, <2>2
  <1>5. Covers(H, kept)
    BY <1>4 DEF Covers
  <1> QED  BY <1>1, <1>2, <1>3, <1>5

(* What the end of a message does to the ids.                              *)
LEMMA LeaveKeeps ==
    ASSUME NEW H \in SUBSET Nat, NEW registered \in SUBSET Nat,
           NEW messages \in SUBSET Nat,
           IsFiniteSet(registered), Covers(H, registered),
           Leave(registered, messages)
    PROVE  /\ Covers(H, ids') /\ ids' \in SUBSET registered
           /\ IsFiniteSet(ids') /\ rest' = messages /\ boxed' \in BOOLEAN
           /\ rest' = {} => Cardinality(ids') <= IdsBufferSize
  <1>1. CASE messages = {}
    BY <1>1, Forget DEF Leave
  <1>2. CASE messages # {}
    BY <1>2 DEF Leave
  <1> QED  BY <1>1, <1>2

(* One more message handled.                                               *)
LEMMA HandleOne ==
    ASSUME NEW m \in Nat, ReceivedTypeOK, HandledOnce, m \notin Handled,
           handled' = Append(handled, m)
    PROVE  /\ handled' \in Seq(Nat) /\ HandledOnce'
           /\ Handled' = Handled \cup {m}
  <1>1. handled \in Seq(Nat)
    BY DEF ReceivedTypeOK
  <1>2. /\ DOMAIN handled = 1..Len(handled) /\ Len(handled) \in Nat
        /\ DOMAIN handled' = 1..(Len(handled) + 1)
        /\ handled' \in Seq(Nat)
        /\ handled'[Len(handled) + 1] = m
        /\ \A i \in 1..Len(handled) : handled'[i] = handled[i]
    BY <1>1
  <1>3. \A i \in DOMAIN handled : handled[i] # m
    BY DEF Handled
  <1>4. \A i \in DOMAIN handled' : i \in DOMAIN handled \/ i = Len(handled) + 1
    BY <1>2
  <1>5. HandledOnce'
    BY <1>2, <1>3, <1>4 DEF HandledOnce
  <1>6. Handled' = Handled \cup {m}
    BY <1>2, <1>4 DEF Handled
  <1> QED  BY <1>2, <1>5, <1>6

(* Everything begins anew.                                                 *)
LEMMA ResetKeeps ==
    ASSUME ReceivedInv, ChangeSessionId, troubles' \in 0..MaxTroubles PROVE ReceivedInv'
  <1>1. IsFiniteSet({}) /\ Cardinality({}) = 0
    BY FS_EmptySet
  <1>2. ReceivedTypeOK'
    <2>1. boxed' \in BOOLEAN /\ cut' = {} /\ handled' = <<>>
      BY DEF ChangeSessionId
    <2> QED
      BY <1>1, <2>1, BufferAssumption DEF ReceivedInv, ReceivedTypeOK, ChangeSessionId
  <1>3. Handled' = {} /\ Due' = {} /\ ids' = {} /\ wire' = {}
        /\ acks' = {} /\ ackWire' = {}
    BY DEF ChangeSessionId, Handled, Due
  <1>4. HandledOnce' /\ AckedIsHandled' /\ Covers(Handled, ids)'
    BY <1>3 DEF ChangeSessionId, HandledOnce, AckedIsHandled, Covers, Handled
  <1>5. Numbered' /\ Apart'
    BY <1>3 DEF Numbered, Apart
  <1> QED  BY <1>2, <1>4, <1>5 DEF ReceivedInv

(* The end of a message that leaves some of the rest and keeps or loses    *)
(* what is on its way.                                                     *)
LEMMA MessageKeeps ==
    ASSUME ReceivedInv, NEW m \in rest,
           \/ Duplicate(m) /\ UNCHANGED handled
           \/ ~Duplicate(m) /\ ~TooOld(m) /\ handled' = Append(handled, m),
           Acknowledge(m), UNCHANGED cut, NEW left \in SUBSET rest, Leave(ids \cup {m}, left),
           KeepConnection \/ LoseConnection, troubles' \in 0..MaxTroubles
    PROVE  ReceivedInv'
  <1>1. /\ ReceivedTypeOK /\ HandledOnce /\ AckedIsHandled
        /\ Covers(Handled, ids) /\ Numbered /\ Apart
    BY DEF ReceivedInv
  <1>2. m \in Nat /\ left \in SUBSET Nat /\ handled \in Seq(Nat)
    BY <1>1 DEF ReceivedTypeOK
  <1>3. Handled \in SUBSET Nat
    BY <1>2 DEF Handled
  <1>4. /\ HandledOnce' /\ Handled' = Handled \cup {m} /\ handled' \in Seq(Nat)
        /\ Covers(Handled \cup {m}, ids \cup {m})
    <2>1. CASE Duplicate(m) /\ UNCHANGED handled
      <3>1. m \in Due /\ m \in ids
        BY <2>1 DEF Due, Duplicate
      <3>2. m \in Handled
        BY <3>1, <1>1 DEF Apart
      <3>3. Handled' = Handled /\ Handled \cup {m} = Handled /\ ids \cup {m} = ids
        BY <2>1, <3>1, <3>2 DEF Handled
      <3>4. HandledOnce' /\ handled' \in Seq(Nat)
        BY <2>1, <1>1, <1>2 DEF HandledOnce
      <3> QED  BY <1>1, <3>3, <3>4
    <2>2. CASE ~Duplicate(m) /\ ~TooOld(m) /\ handled' = Append(handled, m)
      <3>1. m \notin Handled /\ Covers(Handled \cup {m}, ids \cup {m})
        BY <2>2, <1>1, <1>2, <1>3, Register
      <3> QED  BY <2>2, <3>1, <1>1, <1>2, HandleOne
    <2> QED  BY <2>1, <2>2
  <1>5. /\ Covers(Handled \cup {m}, ids') /\ ids' \in SUBSET (ids \cup {m})
        /\ IsFiniteSet(ids') /\ rest' = left /\ boxed' \in BOOLEAN
        /\ rest' = {} => Cardinality(ids') <= IdsBufferSize
    <2>1. /\ ids \cup {m} \in SUBSET Nat /\ IsFiniteSet(ids \cup {m})
          /\ Handled \cup {m} \in SUBSET Nat
      BY <1>1, <1>2, <1>3, FS_AddElement DEF ReceivedTypeOK
    <2> QED  BY <2>1, <1>2, <1>4, LeaveKeeps
  <1>6. /\ wire' \in SUBSET wire /\ ackWire' \in SUBSET ackWire
        /\ UNCHANGED <<unacked, nextId, sessions>>
    BY DEF KeepConnection, LoseConnection, sender, network
  <1>7. acks' = acks \cup {m} /\ m \in Due /\ rest' \subseteq rest
    BY <1>5 DEF Acknowledge, Due
  <1>8. Due' \subseteq Due
    <2>1. UNION {Content(p) : p \in wire'} \subseteq UNION {Content(p) : p \in wire}
      BY <1>6
    <2> QED  BY <2>1, <1>6, <1>7 DEF Due
  <1>9. ReceivedTypeOK'
    BY <1>1, <1>2, <1>4, <1>5, <1>6, <1>7 DEF ReceivedTypeOK
  <1>10. AckedIsHandled'
    <2>1. acks \cup ackWire \subseteq Handled \cup cut
      BY <1>1 DEF AckedIsHandled, Handled
    <2>2. (acks \cup ackWire)' \subseteq Handled' \cup cut'
      BY <2>1, <1>4, <1>6, <1>7
    <2> QED  BY <2>2 DEF AckedIsHandled, Handled
  <1>11. Numbered'
    BY <1>1, <1>5, <1>6, <1>7, <1>8 DEF Numbered
  <1>12. Apart'
    BY <1>1, <1>4, <1>5, <1>6, <1>8 DEF Apart
  <1>13. Covers(Handled, ids)'
    BY <1>4, <1>5 DEF Covers
  <1> QED  BY <1>4, <1>9, <1>10, <1>11, <1>12, <1>13 DEF ReceivedInv

(* A packet given up before the message at hand is registered, which is    *)
(* acknowledged by then or not.                                            *)
LEMMA GiveUpKeeps ==
    ASSUME ReceivedInv, NEW m \in rest,
           \/ UNCHANGED <<acks, cut>>
           \/ acks' = acks \cup {m} /\ cut' = cut \cup {m},
           Leave(ids, {}), LoseConnection, UNCHANGED handled,
           troubles' \in 0..MaxTroubles
    PROVE  ReceivedInv'
  <1>1. /\ ReceivedTypeOK /\ HandledOnce /\ AckedIsHandled
        /\ Covers(Handled, ids) /\ Numbered /\ Apart
    BY DEF ReceivedInv
  <1>2. m \in Nat /\ Handled \in SUBSET Nat
    BY <1>1 DEF ReceivedTypeOK, Handled
  <1>3. /\ Covers(Handled, ids') /\ ids' \in SUBSET ids
        /\ IsFiniteSet(ids') /\ rest' = {} /\ boxed' \in BOOLEAN
        /\ rest' = {} => Cardinality(ids') <= IdsBufferSize
    <2>1. ids \in SUBSET Nat /\ IsFiniteSet(ids) /\ {} \in SUBSET Nat
      BY <1>1 DEF ReceivedTypeOK
    <2> QED  BY <2>1, <1>1, <1>2, LeaveKeeps
  <1>4. /\ wire' = {} /\ ackWire' = {}
        /\ UNCHANGED <<unacked, nextId, sessions>>
    BY DEF LoseConnection, sender
  <1>5. Handled' = Handled /\ HandledOnce'
    BY <1>1 DEF Handled, HandledOnce
  <1>6. Due' \subseteq Due
    BY <1>3, <1>4 DEF Due
  <1>7. ReceivedTypeOK'
    BY <1>1, <1>2, <1>3, <1>4 DEF ReceivedTypeOK
  <1>8. AckedIsHandled'
    <2>1. acks \cup ackWire \subseteq Handled \cup cut
      BY <1>1 DEF AckedIsHandled, Handled
    <2>2. (acks \cup ackWire)' \subseteq Handled' \cup cut'
      BY <2>1, <1>4, <1>5
    <2> QED  BY <2>2 DEF AckedIsHandled, Handled
  <1>9. Numbered' /\ Apart'
    BY <1>1, <1>3, <1>4, <1>5, <1>6 DEF Numbered, Apart
  <1>10. Covers(Handled, ids)'
    BY <1>3, <1>5 DEF Covers
  <1> QED  BY <1>5, <1>7, <1>8, <1>9, <1>10 DEF ReceivedInv

(* Which packets are on the way decides what is due.                       *)
LEMMA DuePackets ==
    /\ \A p \in wire : Content(p) \subseteq Due
    /\ \A x \in Due : \/ x \in unacked \/ x \in rest
                      \/ \E p \in wire : x \in Content(p)
  BY DEF Due

(* A step that registers and handles nothing and numbers what is new.      *)
LEMMA NetworkKeeps ==
    ASSUME ReceivedInv, ReceivedTypeOK', UNCHANGED <<ids, handled, cut>>,
           (acks \cup ackWire)' \subseteq acks \cup ackWire,
           nextId' \in {nextId, nextId + 1},
           \A x \in Due' : x \in Due \/ (x > nextId /\ x = nextId'),
           \A p \in wire' : p \in wire \/ p.outer <= nextId',
           \A p \in wire' : p.inner # {} => p.outer \notin Due'
    PROVE  ReceivedInv'
  <1>1. /\ ReceivedTypeOK /\ HandledOnce /\ AckedIsHandled
        /\ Covers(Handled, ids) /\ Numbered /\ Apart
    BY DEF ReceivedInv
  <1>2. HandledOnce' /\ AckedIsHandled' /\ Handled' = Handled
    BY <1>1 DEF HandledOnce, AckedIsHandled, Handled
  <1>3. Covers(Handled, ids)'
    BY <1>1, <1>2 DEF Covers
  <1>4. nextId \in Nat /\ nextId' \in Nat /\ nextId <= nextId'
    BY <1>1 DEF ReceivedTypeOK
  <1>5. Due \subseteq Nat /\ ids \subseteq Nat /\ \A p \in wire : p.outer \in Nat
    <2>1. \A p \in wire : p.outer \in Nat /\ p.inner \in SUBSET Nat
      BY <1>1 DEF ReceivedTypeOK, Packets
    <2>2. \A p \in wire : Content(p) \subseteq Nat
      BY <2>1 DEF Content
    <2>3. \A x \in Due : x \in Nat
      BY <1>1, <2>2, DuePackets DEF ReceivedTypeOK
    <2> QED  BY <1>1, <2>1, <2>3 DEF ReceivedTypeOK
  <1>6. Numbered'
    <2>1. ASSUME NEW x \in ids' \cup Due' PROVE x <= nextId'
      BY <1>1, <1>4, <1>5 DEF Numbered
    <2>2. ASSUME NEW p \in wire' PROVE p.outer <= nextId'
      BY <1>1, <1>4, <1>5 DEF Numbered
    <2> QED  BY <2>1, <2>2 DEF Numbered
  <1>7. Apart'
    <2>1. ASSUME NEW x \in ids' \cap Due' PROVE x \in Handled'
      BY <1>1, <1>2, <1>4, <1>5 DEF Numbered, Apart
    <2> QED  BY <2>1 DEF Apart
  <1> QED  BY <1>2, <1>3, <1>6, <1>7 DEF ReceivedInv

(* A container is registered, or skipped when it was already.              *)
LEMMA ContainerKeeps ==
    ASSUME ReceivedInv, NEW p \in wire, ReceiveContainer(p) PROVE ReceivedInv'
  <1>1. /\ ReceivedTypeOK /\ HandledOnce /\ AckedIsHandled
        /\ Covers(Handled, ids) /\ Numbered /\ Apart
    BY DEF ReceivedInv
  <1>2. /\ p.outer \in Nat /\ p.inner \in SUBSET Nat /\ p.inner # {}
        /\ p.inner = Content(p) /\ p.outer <= nextId /\ p.outer \notin Due
    BY <1>1 DEF ReceivedTypeOK, Packets, ReceiveContainer, Content, Numbered, Apart
  <1>3. /\ wire' \in SUBSET wire /\ troubles' \in 0..MaxTroubles
        /\ rest' \in {rest, p.inner} /\ ids' \in {ids, ids \cup {p.outer}}
        /\ UNCHANGED <<acks, handled, cut, sessions, unacked, nextId, ackWire>>
        /\ boxed' \in BOOLEAN
    <2>1. boxed' \in BOOLEAN
      BY <1>1, Zenon DEF ReceiveContainer, ReceivedTypeOK
    <2> QED
      BY <1>1, <2>1, ReceivedBoundsAssumption
      DEF ReceiveContainer, Take, sender, ReceivedTypeOK
  <1>4. Due' \subseteq Due
    <2>1. rest' \subseteq Due
      BY <1>2, <1>3, DuePackets DEF Due
    <2>2. UNION {Content(q) : q \in wire'} \subseteq UNION {Content(q) : q \in wire}
      BY <1>3
    <2> QED  BY <2>1, <2>2, <1>3 DEF Due
  <1>5. /\ Handled' = Handled /\ HandledOnce' /\ AckedIsHandled'
        /\ Handled \in SUBSET Nat
    BY <1>1, <1>3 DEF Handled, HandledOnce, AckedIsHandled, ReceivedTypeOK
  <1>6. /\ ids' \in SUBSET Nat /\ IsFiniteSet(ids')
        /\ rest' = {} => Cardinality(ids') <= IdsBufferSize
    <2>1. CASE ids' = ids /\ rest' = rest
      BY <2>1, <1>1 DEF ReceivedTypeOK
    <2>2. CASE ids' = ids \cup {p.outer} /\ rest' = p.inner
      BY <2>2, <1>1, <1>2, FS_AddElement DEF ReceivedTypeOK
    <2> QED  BY <2>1, <2>2 DEF ReceiveContainer
  <1>7. ReceivedTypeOK'
    BY <1>1, <1>2, <1>3, <1>6 DEF ReceivedTypeOK
  <1>8. Covers(Handled, ids)'
    <2>1. CASE ids' = ids
      BY <2>1, <1>1, <1>5 DEF Covers
    <2>2. CASE ids' = ids \cup {p.outer} /\ ~Duplicate(p.outer) /\ ~TooOld(p.outer)
      <3>1. Covers(Handled \cup {p.outer}, ids \cup {p.outer})
        BY <2>2, <1>1, <1>2, <1>5, Register
      <3> QED  BY <2>2, <3>1, <1>5 DEF Covers
    <2> QED  BY <2>1, <2>2 DEF ReceiveContainer
  <1>9. Numbered'
    BY <1>1, <1>2, <1>3, <1>4 DEF Numbered
  <1>10. Apart'
    BY <1>1, <1>2, <1>3, <1>4, <1>5 DEF Apart
  <1> QED  BY <1>5, <1>7, <1>8, <1>9, <1>10 DEF ReceivedInv

(* The invariant holds in the beginning and every step keeps it.           *)
THEOREM ReceivedInductive == ReceivedSpec => []ReceivedInv
  <1>1. ReceivedInit => ReceivedInv
    <2> SUFFICES ASSUME ReceivedInit PROVE ReceivedInv
      OBVIOUS
    <2>1. IsFiniteSet({}) /\ Cardinality({}) = 0
      BY FS_EmptySet
    <2>2. ReceivedTypeOK
      <3>1. boxed \in BOOLEAN /\ cut = {} /\ handled = <<>>
        BY DEF ReceivedInit
      <3> QED
        BY <2>1, <3>1, BufferAssumption, ReceivedBoundsAssumption
        DEF ReceivedInit, ReceivedTypeOK
    <2>3. Handled = {} /\ Due = {}
      BY DEF ReceivedInit, Handled, Due
    <2> QED
      BY <2>2, <2>3 DEF ReceivedInit, ReceivedInv, HandledOnce, AckedIsHandled, Covers,
                        Numbered, Apart
  <1>2. ReceivedInv /\ [ReceivedNext]_receivedVars => ReceivedInv'
    <2> SUFFICES ASSUME ReceivedInv, [ReceivedNext]_receivedVars PROVE ReceivedInv'
      OBVIOUS
    <2>1. /\ ReceivedTypeOK /\ Numbered /\ Apart
          /\ \A x \in Due : x <= nextId
          /\ \A p \in wire : p.inner # {} => p.outer \notin Due
      BY DEF ReceivedInv, Numbered, Apart
    <2>2. /\ nextId \in Nat /\ nextId + 1 > nextId /\ nextId + 1 \in Nat
          /\ ~(nextId + 1 <= nextId) /\ nextId \in {nextId, nextId + 1}
      BY <2>1 DEF ReceivedTypeOK
    <2>3. CASE Generate
      <3>1. /\ unacked' = unacked \cup {nextId + 1} /\ nextId' = nextId + 1
            /\ UNCHANGED <<ids, rest, boxed, acks, handled, cut, sessions, wire, ackWire,
                           troubles>>
        BY <2>3 DEF Generate, client, network
      <3>2. Due' = Due \cup {nextId + 1}
        BY <3>1 DEF Due
      <3>3. \A p \in wire : p.outer # nextId + 1
        BY <2>1, <2>2 DEF Numbered
      <3>4. ReceivedTypeOK'
        BY <2>1, <2>2, <3>1 DEF ReceivedTypeOK
      <3> QED  BY <2>1, <2>2, <3>1, <3>2, <3>3, <3>4, NetworkKeeps
    <2>4. ASSUME NEW m \in unacked, SendLone(m) PROVE ReceivedInv'
      <3>1. /\ wire' = wire \cup {Lone(m)}
            /\ UNCHANGED <<ids, rest, boxed, acks, handled, cut, sessions, unacked, nextId,
                           ackWire, troubles>>
        BY <2>4 DEF SendLone, client, sender
      <3>2. /\ Lone(m).outer = m /\ Lone(m).inner = {}
            /\ Content(Lone(m)) = {m} /\ m \in Due /\ m \in Nat
            /\ Lone(m) \in Packets
        BY <2>1 DEF Lone, Content, Due, ReceivedTypeOK, Packets
      <3>3. Due' = Due
        BY <3>1, <3>2, DuePackets DEF Due
      <3>4. ReceivedTypeOK'
        BY <2>1, <3>1, <3>2 DEF ReceivedTypeOK
      <3> QED  BY <2>1, <2>2, <3>1, <3>2, <3>3, <3>4, NetworkKeeps
    <2>5. ASSUME NEW s \in SUBSET unacked, Cardinality(s) \in 1..MaxContained,
                 SendContainer(s)
          PROVE  ReceivedInv'
      <3> DEFINE c == [outer |-> nextId + 1, inner |-> s]
      <3>1. /\ wire' = wire \cup {c} /\ nextId' = nextId + 1
            /\ UNCHANGED <<ids, rest, boxed, acks, handled, cut, sessions, unacked,
                           ackWire, troubles>>
        BY <2>5 DEF SendContainer, client
      <3>2. s # {}
        BY <2>5, FS_EmptySet
      <3>3. /\ c.outer = nextId + 1 /\ c.inner = s /\ Content(c) = s
            /\ s \subseteq Due /\ c \in Packets
        BY <2>1, <2>2, <3>2 DEF Content, Due, ReceivedTypeOK, Packets
      <3>4. Due' = Due
        BY <3>1, <3>3, DuePackets DEF Due
      <3>5. c.outer \notin Due
        BY <2>1, <2>2, <3>3
      <3>6. ReceivedTypeOK'
        BY <2>1, <2>2, <3>1, <3>3 DEF ReceivedTypeOK
      <3> HIDE DEF c
      <3> QED
        BY <2>1, <2>2, <3>1, <3>3, <3>4, <3>5, <3>6, NetworkKeeps
    <2>6. CASE GetAcks \/ SendAcks \/ ConnectionBreaks
      <3>1. /\ UNCHANGED <<ids, rest, boxed, handled, cut, sessions, nextId>>
            /\ unacked' \subseteq unacked /\ wire' \in SUBSET wire
            /\ acks' \in SUBSET Nat /\ ackWire' \in SUBSET Nat
            /\ (acks \cup ackWire)' \subseteq acks \cup ackWire
            /\ troubles' \in 0..MaxTroubles
        <4>1. CASE GetAcks
          BY <4>1, <2>1 DEF GetAcks, client, ReceivedTypeOK
        <4>2. CASE SendAcks
          BY <4>2, <2>1 DEF SendAcks, sender, ReceivedTypeOK
        <4>3. CASE ConnectionBreaks
          BY <4>3, <2>1, ReceivedBoundsAssumption
             DEF ConnectionBreaks, LoseConnection, sender, ReceivedTypeOK
        <4> QED  BY <2>6, <4>1, <4>2, <4>3
      <3>2. Due' \subseteq Due
        <4>1. UNION {Content(p) : p \in wire'} \subseteq UNION {Content(p) : p \in wire}
          BY <3>1
        <4> QED  BY <3>1, <4>1 DEF Due
      <3>3. ReceivedTypeOK'
        BY <2>1, <3>1 DEF ReceivedTypeOK
      <3> QED  BY <2>1, <2>2, <3>1, <3>2, <3>3, NetworkKeeps
    <2>7. ASSUME NEW p \in wire, ReceiveLone(p) PROVE ReceivedInv'
      <3>1. /\ Content(p) = {p.outer} /\ p.outer \in Nat /\ rest' = {p.outer}
            /\ wire' \in SUBSET wire /\ troubles' \in 0..MaxTroubles
            /\ UNCHANGED <<ids, boxed, acks, handled, cut, sessions, unacked, nextId,
                           ackWire>>
        BY <2>1, <2>7, ReceivedBoundsAssumption
           DEF ReceiveLone, Take, Content, sender, ReceivedTypeOK, Packets
      <3>2. Due' \subseteq Due
        <4>1. UNION {Content(q) : q \in wire'} \subseteq UNION {Content(q) : q \in wire}
          BY <3>1
        <4>2. rest' \subseteq Due
          BY <3>1, DuePackets
        <4> QED  BY <3>1, <4>1, <4>2 DEF Due
      <3>3. ReceivedTypeOK'
        BY <2>1, <3>1 DEF ReceivedTypeOK
      <3> QED  BY <2>1, <2>2, <3>1, <3>2, <3>3, NetworkKeeps
    <2>8. ASSUME NEW p \in wire, ReceiveTooOldContainer(p) PROVE ReceivedInv'
      BY <2>1, <2>8, ResetKeeps DEF ReceiveTooOldContainer, ReceivedTypeOK
    <2>9. ASSUME NEW m \in rest PROVE SkipDuplicate(m) => ReceivedInv'
      <3> SUFFICES ASSUME SkipDuplicate(m) PROVE ReceivedInv'
        OBVIOUS
      <3>1. ids \cup {m} = ids /\ troubles' \in 0..MaxTroubles
        BY <2>1 DEF SkipDuplicate, Duplicate, ReceivedTypeOK
      <3>2. Leave(ids \cup {m}, rest \ {m})
        BY <3>1 DEF SkipDuplicate
      <3> QED  BY <3>1, <3>2, MessageKeeps DEF SkipDuplicate
    <2>10. ASSUME NEW m \in rest PROVE HandleMessage(m) => ReceivedInv'
      <3> SUFFICES ASSUME HandleMessage(m) PROVE ReceivedInv'
        OBVIOUS
      <3>1. troubles' \in 0..MaxTroubles
        BY <2>1 DEF HandleMessage, ReceivedTypeOK
      <3> QED  BY <3>1, MessageKeeps DEF HandleMessage
    <2>11. ASSUME NEW m \in rest PROVE HandleAndLeave(m) => ReceivedInv'
      <3> SUFFICES ASSUME HandleAndLeave(m) PROVE ReceivedInv'
        OBVIOUS
      <3>1. troubles' \in 0..MaxTroubles /\ {} \in SUBSET rest
        BY <2>1, ReceivedBoundsAssumption DEF HandleAndLeave, ReceivedTypeOK
      <3> QED  BY <3>1, MessageKeeps DEF HandleAndLeave
    <2>14. ASSUME NEW m \in rest PROVE LeaveUnread(m) \/ LeaveCutShort(m) => ReceivedInv'
      <3> SUFFICES ASSUME LeaveUnread(m) \/ LeaveCutShort(m) PROVE ReceivedInv'
        OBVIOUS
      <3>1. /\ \/ UNCHANGED <<acks, cut>>
               \/ acks' = acks \cup {m} /\ cut' = cut \cup {m}
            /\ Leave(ids, {}) /\ LoseConnection /\ UNCHANGED handled
            /\ troubles < MaxTroubles /\ troubles' = troubles + 1
        BY DEF LeaveUnread, LeaveCutShort, Acknowledge
      <3>2. troubles' \in 0..MaxTroubles
        BY <2>1, <3>1, ReceivedBoundsAssumption DEF ReceivedTypeOK
      <3> QED  BY <3>1, <3>2, GiveUpKeeps
    <2>12. ASSUME NEW m \in rest PROVE HandleAndReset(m) => ReceivedInv'
      <3> SUFFICES ASSUME HandleAndReset(m) PROVE ReceivedInv'
        OBVIOUS
      <3>1. troubles' \in 0..MaxTroubles
        BY <2>1, ReceivedBoundsAssumption DEF HandleAndReset, ReceivedTypeOK
      <3> QED  BY <3>1, ResetKeeps DEF HandleAndReset
    <2>13. CASE UNCHANGED receivedVars
      <3>1. UNCHANGED <<ids, rest, boxed, acks, handled, cut, sessions, nextId, unacked,
                        wire, ackWire, troubles>>
        BY <2>13 DEF receivedVars, client, sender, network
      <3>2. Due' = Due /\ ReceivedTypeOK'
        BY <2>1, <3>1 DEF Due, ReceivedTypeOK
      <3> QED  BY <2>1, <2>2, <3>1, <3>2, NetworkKeeps
    <2> QED
      BY <2>3, <2>4, <2>5, <2>6, <2>7, <2>8, <2>9, <2>10, <2>11, <2>12, <2>13, <2>14,
         ContainerKeeps DEF ReceivedNext, Send, Packet, MessageAtHand
  <1> QED  BY <1>1, <1>2, PTL DEF ReceivedSpec

(* The ids kept have the type of _receivedMessageIds and never more than   *)
(* kIdsBufferSize stay when a packet is done.                              *)
THEOREM ReceivedTypesCorrect == ReceivedSpec => []ReceivedTypeOK
  <1>1. ReceivedInv => ReceivedTypeOK
    BY DEF ReceivedInv
  <1> QED  BY <1>1, ReceivedInductive, PTL

(* registerMsgId never lets a message of the session through twice, though *)
(* it forgets all but the newest kIdsBufferSize ids.                       *)
THEOREM NothingHandledTwice == ReceivedSpec => []HandledOnce
  <1>1. ReceivedInv => HandledOnce
    BY DEF ReceivedInv
  <1> QED  BY <1>1, ReceivedInductive, PTL

(* An acknowledgement, waiting or on its way, is of a message that was     *)
(* handled, and the server may forget it, or of the one at which a         *)
(* container broke off.                                                    *)
THEOREM AcknowledgedWasHandled == ReceivedSpec => []AckedIsHandled
  <1>1. ReceivedInv => AckedIsHandled
    BY DEF ReceivedInv
  <1> QED  BY <1>1, ReceivedInductive, PTL

-----------------------------------------------------------------------------
(* The sending half.  Sequences and the sets of their elements.            *)

LEMMA ElementsAppend ==
    ASSUME NEW T, NEW s \in Seq(T), NEW e \in T
    PROVE  /\ Append(s, e) \in Seq(T)
           /\ Elements(Append(s, e)) = Elements(s) \cup {e}
<1>1. /\ Append(s, e) \in Seq(T) /\ Len(s) \in Nat /\ DOMAIN s = 1..Len(s)
      /\ DOMAIN Append(s, e) = 1..(Len(s) + 1)
      /\ \A i \in 1..Len(s) : Append(s, e)[i] = s[i]
      /\ Append(s, e)[Len(s) + 1] = e
  OBVIOUS
<1>2. DOMAIN Append(s, e) = DOMAIN s \cup {Len(s) + 1}
  BY <1>1
<1> QED
  BY <1>1, <1>2 DEF Elements

LEMMA ElementsTail ==
    ASSUME NEW T, NEW s \in Seq(T), s # <<>>
    PROVE  /\ Tail(s) \in Seq(T) /\ Head(s) \in Elements(s)
           /\ Elements(s) \subseteq T
           /\ Elements(s) = Elements(Tail(s)) \cup {Head(s)}
<1>1. /\ Tail(s) \in Seq(T) /\ Head(s) = s[1]
      /\ Len(s) \in Nat \ {0} /\ DOMAIN s = 1..Len(s)
      /\ DOMAIN Tail(s) = 1..(Len(s) - 1)
      /\ \A i \in 1..(Len(s) - 1) : Tail(s)[i] = s[i + 1]
      /\ \A i \in 1..Len(s) : s[i] \in T
  OBVIOUS
<1>2. Head(s) \in Elements(s) /\ Elements(s) \subseteq T
  BY <1>1 DEF Elements
<1>3. Elements(Tail(s)) \subseteq Elements(s)
  <2>1. \A i \in 1..(Len(s) - 1) : i + 1 \in 1..Len(s)
    BY <1>1
  <2> QED
    BY <1>1, <2>1 DEF Elements
<1>4. ASSUME NEW e \in Elements(s) PROVE e = Head(s) \/ e \in Elements(Tail(s))
  <2>1. PICK i \in 1..Len(s) : e = s[i]
    BY <1>1 DEF Elements
  <2>2. CASE i = 1
    BY <1>1, <2>1, <2>2
  <2>3. CASE i # 1
    <3>1. i - 1 \in 1..(Len(s) - 1) /\ (i - 1) + 1 = i
      BY <1>1, <2>3
    <3>2. Tail(s)[i - 1] = e
      BY <1>1, <2>1, <3>1
    <3> QED
      BY <1>1, <3>1, <3>2 DEF Elements
  <2> QED
    BY <2>2, <2>3
<1> QED
  BY <1>1, <1>2, <1>3, <1>4

LEMMA ElementsConcat ==
    ASSUME NEW T, NEW s \in Seq(T), NEW t \in Seq(T)
    PROVE  s \o t \in Seq(T) /\ Elements(s \o t) = Elements(s) \cup Elements(t)
<1>1. /\ s \o t \in Seq(T) /\ Len(s) \in Nat /\ Len(t) \in Nat
      /\ DOMAIN s = 1..Len(s) /\ DOMAIN t = 1..Len(t)
      /\ DOMAIN (s \o t) = 1..(Len(s) + Len(t))
      /\ \A i \in 1..Len(s) : (s \o t)[i] = s[i]
      /\ \A i \in 1..Len(t) : (s \o t)[Len(s) + i] = t[i]
  OBVIOUS
<1>2. Elements(s \o t) \subseteq Elements(s) \cup Elements(t)
  <2>1. SUFFICES ASSUME NEW i \in 1..(Len(s) + Len(t))
                 PROVE  (s \o t)[i] \in Elements(s) \cup Elements(t)
    BY <1>1 DEF Elements
  <2>2. CASE i <= Len(s)
    BY <1>1, <2>2 DEF Elements
  <2>3. CASE i > Len(s)
    <3>1. i - Len(s) \in 1..Len(t) /\ Len(s) + (i - Len(s)) = i
      BY <1>1, <2>3
    <3> QED
      BY <1>1, <3>1 DEF Elements
  <2> QED
    BY <1>1, <2>2, <2>3
<1>3. Elements(s) \subseteq Elements(s \o t)
  <2>1. \A i \in 1..Len(s) : i \in 1..(Len(s) + Len(t))
    BY <1>1
  <2> QED
    BY <1>1, <2>1 DEF Elements
<1>4. Elements(t) \subseteq Elements(s \o t)
  <2>1. \A i \in 1..Len(t) : Len(s) + i \in 1..(Len(s) + Len(t))
    BY <1>1
  <2> QED
    BY <1>1, <2>1 DEF Elements
<1> QED
  BY <1>1, <1>2, <1>3, <1>4

-----------------------------------------------------------------------------
(* Requests are finitely many, and the ones that get a new msg_id get them *)
(* in their order.                                                         *)

LEMMA SomeRequests ==
    ASSUME NEW S \in SUBSET Requests
    PROVE  IsFiniteSet(S) /\ Cardinality(S) \in Nat
<1>1. IsFiniteSet(Requests)
  BY SizeAssumption, FS_Interval DEF Requests
<1> QED
  BY <1>1, FS_Subset, FS_CardinalityType

Rank(S, r) == Cardinality({q \in S : q <= r})

LEMMA RanksIncrease ==
    ASSUME NEW S \in SUBSET Requests
    PROVE  /\ \A r \in S : Rank(S, r) \in 1..Cardinality(S)
           /\ \A r, q \in S : r < q => Rank(S, r) < Rank(S, q)
<1> DEFINE below(r) == {q \in S : q <= r}
<1>0. S \subseteq Nat
  BY SizeAssumption DEF Requests
<1>b. \A r : /\ below(r) \in SUBSET S /\ below(r) \in SUBSET Requests
             /\ \A q \in S : q \in below(r) <=> q <= r
  OBVIOUS
<1>r. \A r : Rank(S, r) = Cardinality(below(r))
  BY DEF Rank
<1>1. IsFiniteSet(S) /\ Cardinality(S) \in Nat
  BY SomeRequests
<1>2. ASSUME NEW r \in S PROVE Rank(S, r) \in 1..Cardinality(S)
  <2>1. below(r) \in SUBSET Requests /\ below(r) \in SUBSET S /\ r \in below(r)
    <3>1. r <= r
      BY <1>0
    <3> HIDE DEF below
    <3> QED
      BY <1>b, <3>1
  <2>2. IsFiniteSet(below(r)) /\ Cardinality(below(r)) \in Nat
    BY <2>1, SomeRequests
  <2>3. Cardinality(below(r)) <= Cardinality(S)
    BY <1>1, <2>1, FS_Subset
  <2>4. Cardinality(below(r)) # 0
    BY <2>1, <2>2, FS_EmptySet
  <2> QED
    <3> HIDE DEF below
    <3> QED
      BY <1>1, <1>r, <2>2, <2>3, <2>4
<1>3. ASSUME NEW r \in S, NEW q \in S, r < q PROVE Rank(S, r) < Rank(S, q)
  <2>1. /\ below(r) \in SUBSET Requests /\ below(q) \in SUBSET Requests
        /\ below(r) \in SUBSET below(q) /\ q \in below(q) /\ q \notin below(r)
    <3>1. q <= q /\ ~(q <= r) /\ \A p \in S : p <= r => p <= q
      BY <1>0, <1>3
    <3> HIDE DEF below
    <3> QED
      BY <1>b, <3>1
  <2>2. /\ IsFiniteSet(below(q)) /\ Cardinality(below(q)) \in Nat
        /\ Cardinality(below(r)) \in Nat
    BY <2>1, SomeRequests
  <2>3. /\ Cardinality(below(r)) <= Cardinality(below(q))
        /\ Cardinality(below(q)) = Cardinality(below(r)) => below(q) = below(r)
    BY <2>1, <2>2, FS_Subset
  <2> HIDE DEF below
  <2>4. Cardinality(below(r)) < Cardinality(below(q))
    BY <2>1, <2>2, <2>3
  <2> QED
    BY <1>r, <2>4
<1> QED
  BY <1>2, <1>3


-----------------------------------------------------------------------------
(* What an acknowledgement, a resend and a sent message do to the maps.    *)

Replies(S) == [id : Ids, req : S, kind : Kinds]
MessageOf(a) == [id |-> a.id, req |-> a.req]

LEMMA AckedMaps ==
    ASSUME Typed, NEW id \in Ids, NEW byResponse \in BOOLEAN,
           RequestsAcked(id, byResponse)
    PROVE  /\ haveSent' \subseteq haveSent /\ resendingIds' \subseteq resendingIds
           /\ toSend' \subseteq toSend
           /\ ackedIds' \subseteq ackedIds \cup haveSent \cup resendingIds
           /\ msgId' = msgId /\ forced' = forced
           /\ \A m \in haveSent \ haveSent' : m.id = id /\ IsAcked(m, byResponse)
           /\ \A m \in resendingIds \ resendingIds' :
                m.id = id /\ IsAcked(m, byResponse) /\ m.req \notin toSend'
           /\ \A r \in toSend \ toSend' :
                \E m \in resendingIds : m.id = id /\ m.req = r /\ IsAcked(m, byResponse)
           /\ byResponse => \A m \in haveSent' : m.id # id
           /\ byResponse /\ (\A m \in haveSent : m.id # id) =>
                \A m \in resendingIds : m.id = id => m.req \notin toSend'
<1> DEFINE acked(map) == {m \in map : m.id = id /\ IsAcked(m, byResponse)}
           prepared == {m \in acked(resendingIds) : m.req \in toSend}
<1>1. \A S : Trim(S) \subseteq S
  BY DEF Trim
<1>2. byResponse => \A m : IsAcked(m, byResponse)
  BY DEF IsAcked
<1>3. CASE \E m \in haveSent : m.id = id
  <2>1. /\ haveSent' = haveSent \ acked(haveSent)
        /\ ackedIds' = Trim(ackedIds \cup acked(haveSent))
        /\ resendingIds' = resendingIds /\ toSend' = toSend
        /\ msgId' = msgId /\ forced' = forced
    BY <1>3 DEF RequestsAcked
  <2>2. ackedIds' \subseteq ackedIds \cup acked(haveSent)
    BY <1>1, <2>1
  <2> QED
    BY <1>2, <1>3, <2>1, <2>2
<1>4. CASE ~\E m \in haveSent : m.id = id
  <2>1. /\ resendingIds' = resendingIds \ acked(resendingIds)
        /\ toSend' = toSend \ {m.req : m \in prepared}
        /\ ackedIds' = Trim(ackedIds \cup prepared)
        /\ haveSent' = haveSent /\ msgId' = msgId /\ forced' = forced
    BY <1>4 DEF RequestsAcked, TakeBack
  <2>2. ackedIds' \subseteq ackedIds \cup prepared
    BY <1>1, <2>1
  <2>3. /\ resendingIds' \subseteq resendingIds /\ toSend' \subseteq toSend
        /\ ackedIds' \subseteq ackedIds \cup haveSent \cup resendingIds
        /\ haveSent \ haveSent' = {}
    BY <2>1, <2>2
  <2>4. ASSUME NEW m \in resendingIds \ resendingIds'
        PROVE  m.id = id /\ IsAcked(m, byResponse) /\ m.req \notin toSend'
    <3>1. m \in acked(resendingIds)
      BY <2>1
    <3>2. m.req \in toSend => m \in prepared
      BY <3>1
    <3> QED
      BY <2>1, <3>1, <3>2
  <2>5. ASSUME NEW r \in toSend \ toSend'
        PROVE  \E m \in resendingIds : m.id = id /\ m.req = r /\ IsAcked(m, byResponse)
    BY <2>1
  <2>6. ASSUME byResponse, NEW m \in resendingIds, m.id = id
        PROVE  m.req \notin toSend'
    <3>1. m \in acked(resendingIds)
      BY <1>2, <2>6
    <3>2. m.req \in toSend => m \in prepared
      BY <3>1
    <3> QED
      BY <2>1, <3>2
  <2> QED
    BY <1>4, <2>1, <2>3, <2>4, <2>5, <2>6
<1> QED
  BY <1>3, <1>4

(* The messages that are sent together carry the msg_ids their requests    *)
(* have now: the old ones, or new ones above all that were given out.      *)
LEMMA SentMaps ==
    ASSUME Typed, IdsAreUnique, NEW sending \in SUBSET toSend, TryToSend(sending)
    PROVE  LET messages == {[id |-> msgId'[r], req |-> r] : r \in sending}
           IN  /\ msgId' \in [Requests -> 0..MaxId] /\ messages \in SUBSET Messages
               /\ \A r \in Requests \ sending : msgId'[r] = msgId[r]
               /\ \A r \in sending : msgId'[r] # msgId[r] => msgId'[r] > lastId
               /\ \A r \in sending : marked /\ msgId[r] # 0 => msgId'[r] = msgId[r]
               /\ \A r \in sending : msgId'[r] # 0
               /\ \A r, q \in sending : msgId'[r] > lastId /\ msgId'[r] = msgId'[q] => r = q
               /\ \A r \in sending : msgId'[r] > lastId => msgId'[r] <= lastId'
               /\ lastId' \in 0..MaxId /\ lastId <= lastId'
               /\ toSend' = toSend \ sending
               /\ haveSent' = haveSent \cup messages
               /\ up' \in Seq(Messages) /\ Elements(up') \subseteq Elements(up) \cup messages
               /\ resendingIds' = {m \in resendingIds : ~\E r \in sending : m.id = msgId[r]}
               /\ marked' = TRUE /\ checkTimer' \in BOOLEAN
<1> DEFINE new == PrepareToSend(sending, ~marked)
           id(r) == IF r \in new THEN lastId + Rank(new, r) ELSE msgId[r]
           sent == {[id |-> id(r), req |-> r] : r \in sending}
           n == lastId + Cardinality(new)
<1>1. /\ sending \in SUBSET Requests /\ new \in SUBSET sending /\ new \in SUBSET Requests
      /\ lastId \in 0..MaxId /\ MaxId \in Nat /\ marked \in BOOLEAN
      /\ msgId \in [Requests -> 0..MaxId]
      /\ \A r \in sending : r \notin new <=> msgId[r] # 0 /\ marked
  BY BoundsAssumption DEF Typed, PrepareToSend
<1>2. /\ n <= MaxId /\ lastId' = n
      /\ msgId' = [r \in Requests |-> IF r \in sending THEN id(r) ELSE msgId[r]]
      /\ toSend' = toSend \ sending
      /\ haveSent' = haveSent \cup sent
      /\ \E batch \in InOrder(sent) : up' = up \o batch
      /\ resendingIds' = {m \in resendingIds : ~\E r \in sending : m.id = msgId[r]}
      /\ marked' = TRUE /\ (checkTimer' = checkTimer \/ checkTimer' = TRUE)
  BY DEF TryToSend, Rank
<1>3. /\ Cardinality(new) \in Nat
      /\ \A r \in new : Rank(new, r) \in 1..Cardinality(new)
      /\ \A r, q \in new : r < q => Rank(new, r) < Rank(new, q)
  BY <1>1, SomeRequests, RanksIncrease
<1> HIDE DEF new
<1>4. \A r \in sending : id(r) \in 1..MaxId
  BY <1>1, <1>2, <1>3
<1>5. \A r \in sending : msgId'[r] = id(r)
  BY <1>1, <1>2
<1>6. /\ msgId' \in [Requests -> 0..MaxId]
      /\ \A r \in Requests \ sending : msgId'[r] = msgId[r]
  BY <1>1, <1>2, <1>4
<1>7. /\ \A r \in sending : r \in new => id(r) > lastId /\ id(r) <= n
      /\ \A r \in sending : r \notin new => id(r) = msgId[r]
  BY <1>1, <1>3
<1>8. \A r, q \in new : id(r) = id(q) => r = q
  <2>1. \A r, q \in new : r \in Nat /\ q \in Nat
    BY <1>1, SizeAssumption DEF Requests
  <2>2. ASSUME NEW r \in new, NEW q \in new, r < q PROVE id(r) # id(q)
    BY <1>1, <1>3, <2>2
  <2> HIDE DEF id
  <2> QED
    BY <2>1, <2>2
<1>9. \A r \in Requests : msgId[r] <= lastId
  <2>1. SUFFICES ASSUME NEW r \in Requests, msgId[r] # 0 PROVE msgId[r] <= lastId
    BY <1>1
  <2>2. [id |-> msgId[r], req |-> r] \in Buffered
    BY <1>1, <2>1 DEF Buffered, Messages, Ids
  <2> QED
    BY <2>2 DEF IdsAreUnique, Everywhere
<1>10. \A r \in sending : id(r) > lastId => r \in new
  BY <1>1, <1>7, <1>9
<1>11. sent \in SUBSET Messages /\ sent = {[id |-> msgId'[r], req |-> r] : r \in sending}
  <2>1. \A r \in sending : id(r) \in Ids /\ r \in Requests /\ msgId'[r] = id(r)
    BY <1>1, <1>4, <1>5 DEF Ids
  <2> HIDE DEF id
  <2> QED
    BY <2>1 DEF Messages
<1>12. up' \in Seq(Messages) /\ Elements(up') \subseteq Elements(up) \cup sent
  <2>1. PICK batch \in InOrder(sent) : up' = up \o batch
    BY <1>2
  <2>2. IsFiniteSet(sent)
    <3> DEFINE f == [m \in sent |-> m.req]
    <3>1. \A m \in sent : m.req \in sending /\ m = [id |-> id(m.req), req |-> m.req]
      <4> HIDE DEF id
      <4> QED
        OBVIOUS
    <3>2. f \in [sent -> sending]
      BY <3>1
    <3>3. \A m, k \in sent : f[m] = f[k] => m = k
      BY <3>1
    <3>4. f \in Injection(sent, sending)
      BY <3>2, <3>3 DEF Injection, IsInjective
    <3>5. IsFiniteSet(sending)
      BY <1>1, SomeRequests
    <3> QED
      BY <3>4, <3>5, FS_Injection
  <2>3. Cardinality(sent) \in Nat
    BY <2>2, FS_CardinalityType
  <2>4. batch \in Seq(sent) /\ Elements(batch) \subseteq sent
    <3>1. batch \in [1..Cardinality(sent) -> sent]
      BY <2>1 DEF InOrder
    <3> HIDE DEF sent
    <3> QED
      BY <2>3, <3>1 DEF Elements
  <2>5. batch \in Seq(Messages) /\ up \in Seq(Messages)
    <3> HIDE DEF sent
    <3> QED
      BY <1>11, <2>4 DEF Typed
  <2> QED
    BY <2>1, <2>4, <2>5, ElementsConcat
<1>13. /\ \A r \in sending : msgId'[r] # msgId[r] => msgId'[r] > lastId
       /\ \A r \in sending : marked /\ msgId[r] # 0 => msgId'[r] = msgId[r]
       /\ \A r \in sending : msgId'[r] # 0
       /\ \A r \in sending : msgId'[r] > lastId => msgId'[r] <= lastId'
  <2> HIDE DEF id
  <2>1. \A r \in sending : id(r) # 0
    BY <1>4
  <2>2. \A r \in sending : id(r) > lastId => id(r) <= lastId'
    BY <1>2, <1>7, <1>10
  <2> QED
    BY <1>1, <1>5, <1>7, <2>1, <2>2
<1>14. \A r, q \in sending : msgId'[r] > lastId /\ msgId'[r] = msgId'[q] => r = q
  <2> HIDE DEF id
  <2> QED
    BY <1>5, <1>8, <1>10
<1>15. lastId' \in 0..MaxId /\ lastId <= lastId' /\ checkTimer' \in BOOLEAN
  <2>1. checkTimer' \in BOOLEAN
    BY <1>2 DEF Typed
  <2>2. lastId' = lastId + Cardinality(new) /\ lastId' <= MaxId
    BY <1>2
  <2> QED
    BY <1>1, <1>3, <2>1, <2>2
<1> DEFINE messages == {[id |-> msgId'[r], req |-> r] : r \in sending}
<1>16. messages \in SUBSET Messages /\ haveSent' = haveSent \cup messages
  BY <1>2, <1>11
<1>17. up' \in Seq(Messages) /\ Elements(up') \subseteq Elements(up) \cup messages
  BY <1>11, <1>12
<1>18. /\ toSend' = toSend \ sending /\ marked' = TRUE
       /\ resendingIds' = {m \in resendingIds : ~\E r \in sending : m.id = msgId[r]}
  BY <1>2
<1> HIDE DEF sent, id
<1> QED
  BY <1>6, <1>13, <1>14, <1>15, <1>16, <1>17, <1>18


-----------------------------------------------------------------------------
(* A msg_id is one request's, for ever.                                    *)

LEMMA EverywhereMessages ==
    ASSUME Typed PROVE Everywhere \subseteq Messages
<1>1. Elements(up) \subseteq Messages
  BY DEF Typed, Elements
<1> QED
  BY <1>1 DEF Typed, Everywhere, InSession, Buffered

LEMMA NarrowIds ==
    ASSUME Typed, IdsAreUnique, started \subseteq started', lastId' = lastId,
           haveSent' \cup resendingIds' \cup ackedIds'
               \subseteq haveSent \cup resendingIds \cup ackedIds,
           \A r \in Requests : msgId'[r] = msgId[r] \/ msgId'[r] = 0,
           Elements(up') \cup got' \subseteq InSession,
           \A a \in answered' : MessageOf(a) \in got'
    PROVE  IdsAreUnique'
<1>1. Buffered' \subseteq Buffered
  <2>1. \A m \in Messages : m.id # 0 /\ m.req \in Requests
    BY BoundsAssumption DEF Messages, Ids
  <2> QED
    BY <2>1 DEF Buffered
<1>2. Everywhere' \subseteq Everywhere
  BY <1>1 DEF Everywhere, InSession
<1> QED
  BY <1>2 DEF IdsAreUnique, MessageOf

LEMMA RepliesOfMore ==
    ASSUME NEW S, NEW T, S \subseteq T, NEW s \in Seq(Replies(S))
    PROVE  s \in Seq(Replies(T))
<1>1. Replies(S) \subseteq Replies(T)
  BY DEF Replies
<1>2. /\ Len(s) \in Nat /\ s \in [1..Len(s) -> Replies(S)]
  OBVIOUS
<1> HIDE DEF Replies
<1>3. s \in [1..Len(s) -> Replies(T)]
  BY <1>1, <1>2
<1> QED
  BY <1>2, <1>3

(* What a resend of some sent messages does.                               *)
LEMMA ResendMaps ==
    ASSUME Typed, IdsAreUnique, NEW messages \in SUBSET haveSent, Resend(messages)
    PROVE  /\ toSend' \in SUBSET started /\ haveSent' \in SUBSET Messages
           /\ resendingIds' \in SUBSET Messages /\ forced' \in SUBSET Requests
           /\ haveSent' \cup resendingIds' \cup ackedIds'
                  \subseteq haveSent \cup resendingIds \cup ackedIds
           /\ ackedIds' = ackedIds /\ msgId' = msgId
<1>1. \A m \in messages : m.req \in started /\ m.req \in Requests /\ m \in Messages
  BY DEF IdsAreUnique, Everywhere, Typed, Messages
<1> QED
  BY <1>1 DEF Resend, Typed

LEMMA TypesAtFirst == Init => Typed /\ IdsAreUnique
<1> SUFFICES ASSUME Init PROVE Typed /\ IdsAreUnique
  OBVIOUS
<1>1. Typed
  <2>1. 0 \in 0..MaxId /\ 0 \in 0..(MaxId + 1)
    BY BoundsAssumption
  <2>2. msgId \in [Requests -> 0..MaxId] /\ lastId \in 0..MaxId /\ created \in 0..(MaxId + 1)
    BY <2>1 DEF Init
  <2>3. \A T : <<>> \in Seq(T)
    OBVIOUS
  <2>4. replies \in Seq([id : Ids, req : started, kind : Kinds]) /\ up \in Seq(Messages)
    BY <2>3 DEF Init
  <2> QED
    BY <2>2, <2>4 DEF Init, Typed
<1>2. Everywhere = {}
  <2>1. \A m \in Messages : m.id # 0 /\ m.req \in Requests
    BY BoundsAssumption DEF Messages, Ids
  <2>2. \A r \in Requests : msgId[r] = 0
    BY DEF Init
  <2>3. Buffered = {}
    BY <2>1, <2>2 DEF Buffered
  <2>4. Elements(up) = {}
    BY DEF Init, Elements
  <2> QED
    BY <2>3, <2>4 DEF Init, Everywhere, InSession
<1> QED
  BY <1>1, <1>2 DEF Init, IdsAreUnique


LEMMA TypesInMain ==
    ASSUME Typed, IdsAreUnique, Main PROVE Typed' /\ IdsAreUnique'
<1>0. /\ Requests \subseteq Nat /\ 0 \in 0..MaxId
      /\ replies \in Seq(Replies(started))
      /\ \A a \in answered : MessageOf(a) \in got
  BY BoundsAssumption, SizeAssumption
     DEF Requests, Typed, Replies, IdsAreUnique, MessageOf
<1>1. ASSUME NEW r \in Requests, SendRequest(r) PROVE Typed' /\ IdsAreUnique'
  <2>1. replies' \in Seq(Replies(started'))
    <3>1. started \subseteq started' /\ replies' = replies
      BY <1>1 DEF SendRequest
    <3> QED
      BY <1>0, <3>1, RepliesOfMore
  <2>2. Typed'
    BY <1>0, <1>1, <2>1
       DEF SendRequest, SendPrepared, Typed, Replies, session, server, budget
  <2>3. IdsAreUnique'
    <3>1. \A q \in Requests : msgId'[q] = msgId[q] \/ msgId'[q] = 0
      BY <1>1 DEF SendRequest, SendPrepared, Typed
    <3> QED
      BY <1>0, <1>1, <3>1, NarrowIds
         DEF SendRequest, SendPrepared, session, server, InSession, Elements
  <2> QED
    BY <2>2, <2>3
<1>2. ASSUME NEW r \in Requests, Cancel(r) PROVE Typed' /\ IdsAreUnique'
  <2>1. Typed'
    BY <1>2 DEF Cancel, Typed, session, server, budget
  <2>2. IdsAreUnique'
    BY <1>0, <1>2, NarrowIds DEF Cancel, session, server, InSession, Elements
  <2> QED
    BY <2>1, <2>2
<1>3. ASSUME handling = {}, replies # <<>>,
             NEW a, a = Head(replies),
             DropReply(a) \/ CallBack(a) \/ DelayRequest(a) \/ SendAgain(a)
      PROVE  Typed' /\ IdsAreUnique'
  <2>1. Tail(replies) \in Seq(Replies(started)) /\ a \in Replies(started)
    BY <1>0, <1>3, ElementsTail
  <2>2. a.req \in started
    BY <2>1 DEF Replies
  <2>3. CASE DropReply(a)
    <3>1. Typed'
      BY <2>1, <2>3 DEF DropReply, Typed, Replies, main, maps, session, server, budget
    <3>2. IdsAreUnique'
      BY <1>0, <2>3, NarrowIds DEF DropReply, main, maps, session, server, InSession, Elements
    <3> QED
      BY <3>1, <3>2
  <2>4. CASE CallBack(a)
    <3>1. Typed'
      BY <2>1, <2>2, <2>4 DEF CallBack, Typed, Replies, maps, session, server, budget
    <3>2. IdsAreUnique'
      BY <1>0, <2>4, NarrowIds DEF CallBack, maps, session, server, InSession, Elements
    <3> QED
      BY <3>1, <3>2
  <2>5. CASE DelayRequest(a)
    <3>1. Typed'
      BY <2>1, <2>2, <2>5 DEF DelayRequest, Typed, Replies, maps, session, server, budget
    <3>2. IdsAreUnique'
      BY <1>0, <2>5, NarrowIds DEF DelayRequest, maps, session, server, InSession, Elements
    <3> QED
      BY <3>1, <3>2
  <2>6. CASE SendAgain(a)
    <3>1. Typed'
      BY <1>0, <2>1, <2>2, <2>6
         DEF SendAgain, SendPrepared, Typed, Replies, session, server, budget
    <3>2. IdsAreUnique'
      <4>1. \A q \in Requests : msgId'[q] = msgId[q] \/ msgId'[q] = 0
        BY <2>6 DEF SendAgain, SendPrepared, Typed
      <4> QED
        BY <1>0, <2>6, <4>1, NarrowIds
           DEF SendAgain, SendPrepared, session, server, InSession, Elements
    <3> QED
      BY <3>1, <3>2
  <2> QED
    BY <1>3, <2>3, <2>4, <2>5, <2>6
<1>4. ASSUME HandlerReturns PROVE Typed' /\ IdsAreUnique'
  <2>1. Typed'
    BY <1>4 DEF HandlerReturns, Typed, maps, session, server, budget
  <2>2. IdsAreUnique'
    BY <1>0, <1>4, NarrowIds DEF HandlerReturns, maps, session, server, InSession, Elements
  <2> QED
    BY <2>1, <2>2
<1>5. ASSUME NEW r \in delayed, SendDelayed(r) PROVE Typed' /\ IdsAreUnique'
  <2>1. r \in started /\ r \in Requests
    BY <1>5 DEF Typed
  <2>2. CASE r \in parsers
    <3>1. SendPrepared(r)
      BY <1>5, <2>2 DEF SendDelayed
    <3>2. Typed'
      BY <1>0, <1>5, <2>1, <3>1
         DEF SendDelayed, SendPrepared, Typed, session, server, budget
    <3>3. \A q \in Requests : msgId'[q] = msgId[q] \/ msgId'[q] = 0
      BY <3>1 DEF SendPrepared, Typed
    <3>4. IdsAreUnique'
      BY <1>0, <1>5, <3>1, <3>3, NarrowIds
         DEF SendDelayed, SendPrepared, session, server, InSession, Elements
    <3> QED
      BY <3>2, <3>4
  <2>3. CASE r \notin parsers
    <3>1. UNCHANGED maps
      BY <1>5, <2>3 DEF SendDelayed
    <3>2. Typed'
      BY <1>5, <3>1 DEF SendDelayed, Typed, maps, session, server, budget
    <3>3. IdsAreUnique'
      BY <1>0, <1>5, <3>1, NarrowIds
         DEF SendDelayed, maps, session, server, InSession, Elements
    <3> QED
      BY <3>2, <3>3
  <2> QED
    BY <2>2, <2>3
<1> QED
  BY <1>1, <1>2, <1>3, <1>4, <1>5 DEF Main, ProcessCallback


(* What is sent carries msg_ids of its own requests or new ones.           *)
LEMMA TypesWhenSent ==
    ASSUME Typed, IdsAreUnique, NEW sending \in SUBSET toSend, TryToSend(sending)
    PROVE  Typed' /\ IdsAreUnique'
<1> DEFINE messages == {[id |-> msgId'[r], req |-> r] : r \in sending}
<1>0. /\ msgId' \in [Requests -> 0..MaxId] /\ messages \in SUBSET Messages
      /\ \A r \in Requests \ sending : msgId'[r] = msgId[r]
      /\ \A r \in sending : msgId'[r] # msgId[r] => msgId'[r] > lastId
      /\ \A r, q \in sending : msgId'[r] > lastId /\ msgId'[r] = msgId'[q] => r = q
      /\ \A r \in sending : msgId'[r] > lastId => msgId'[r] <= lastId'
      /\ lastId' \in 0..MaxId /\ lastId <= lastId'
      /\ toSend' = toSend \ sending
      /\ haveSent' = haveSent \cup messages
      /\ up' \in Seq(Messages) /\ Elements(up') \subseteq Elements(up) \cup messages
      /\ resendingIds' = {m \in resendingIds : ~\E r \in sending : m.id = msgId[r]}
      /\ marked' = TRUE /\ checkTimer' \in BOOLEAN
  BY SentMaps
<1>1. /\ UNCHANGED <<main, replies, ackedIds, forced, connected, server, budget>>
      /\ sending \in SUBSET started /\ sending \in SUBSET Requests
  BY DEF TryToSend, Typed
<1>2. Typed'
  <2> HIDE DEF messages
  <2>1. haveSent' \in SUBSET Messages /\ resendingIds' \in SUBSET Messages
    BY <1>0 DEF Typed
  <2> QED
    BY <1>0, <1>1, <2>1 DEF Typed, main, server
<1>3. /\ \A r \in Requests : [id |-> msgId'[r], req |-> r].id = msgId'[r]
      /\ \A m \in messages : m.req \in sending /\ m.id = msgId'[m.req]
      /\ Everywhere \subseteq Messages
  BY EverywhereMessages
<1>4. Everywhere' \subseteq Everywhere \cup {m \in Messages : m.id = msgId'[m.req]}
  <2> HIDE DEF messages
  <2>1. messages \subseteq {m \in Messages : m.id = msgId'[m.req]}
    BY <1>0, <1>3
  <2> QED
    BY <1>0, <1>1, <2>1 DEF Everywhere, InSession, Buffered, server
<1>5. \A m \in Messages : m.id = msgId'[m.req] /\ m \notin Everywhere =>
          m.req \in sending /\ m.id > lastId
  <2>1. SUFFICES ASSUME NEW m \in Messages, m.id = msgId'[m.req], m \notin Everywhere
                 PROVE  m.req \in sending /\ m.id > lastId
    OBVIOUS
  <2>2. m.id # msgId[m.req] /\ m.req \in Requests
    BY <2>1 DEF Everywhere, Buffered, Messages
  <2> QED
    BY <1>0, <2>1, <2>2
<1>6. \A m \in Everywhere' :
          m \in Everywhere \/ (m.req \in sending /\ m.id > lastId /\ m.id = msgId'[m.req])
  BY <1>4, <1>5
<1>7. \A m \in Everywhere : m.id \in Nat /\ m.id <= lastId
  BY <1>3 DEF Messages, Ids, IdsAreUnique
<1>8. ASSUME NEW m \in Everywhere' PROVE m.id <= lastId' /\ m.req \in started'
  <2>1. CASE m \in Everywhere
    BY <1>0, <1>1, <1>7, <2>1 DEF IdsAreUnique, Typed, main
  <2>2. CASE m \notin Everywhere
    BY <1>0, <1>1, <1>6, <2>2 DEF main
  <2> QED
    BY <2>1, <2>2
<1>9. ASSUME NEW m \in Everywhere', NEW n \in Everywhere', m.id = n.id
      PROVE  m.req = n.req
  <2>1. CASE m \in Everywhere /\ n \in Everywhere
    BY <1>9, <2>1 DEF IdsAreUnique
  <2>2. CASE m \notin Everywhere /\ n \notin Everywhere
    BY <1>0, <1>6, <1>9, <2>2
  <2>3. CASE m \in Everywhere /\ n \notin Everywhere
    <3>1. m.id <= lastId /\ n.id > lastId /\ m.id \in Nat
      BY <1>6, <1>7, <2>3
    <3> QED
      BY <1>9, <3>1 DEF Typed
  <2>4. CASE m \notin Everywhere /\ n \in Everywhere
    <3>1. n.id <= lastId /\ m.id > lastId /\ n.id \in Nat
      BY <1>6, <1>7, <2>4
    <3> QED
      BY <1>9, <3>1 DEF Typed
  <2> QED
    BY <2>1, <2>2, <2>3, <2>4
<1>10. \A a \in answered' : [id |-> a.id, req |-> a.req] \in got'
  BY <1>1 DEF IdsAreUnique, server
<1> QED
  BY <1>2, <1>8, <1>9, <1>10 DEF IdsAreUnique

(* An answer is taken to be that of its own request.                       *)
LEMMA AnswerIsKnown ==
    ASSUME Typed, IdsAreUnique, NEW a \in down, ReceiveAnswer(a)
    PROVE  /\ a \in Replies(started)
           /\ replies' = replies \/ replies' = Append(replies, a)
           /\ (\E m \in resendingIds' \cup ackedIds' \cup haveSent' : m.id = a.id) =>
                replies' = Append(replies, a)
<1> DEFINE known == {m \in resendingIds' \cup ackedIds' \cup haveSent' : m.id = a.id}
           m == CHOOSE n \in known : TRUE
<1>1. a \in answered /\ a \in [id : Ids, req : Requests, kind : Kinds]
  BY DEF Typed
<1>2. MessageOf(a) \in Everywhere
  BY <1>1 DEF IdsAreUnique, Everywhere, InSession, MessageOf
<1>3. /\ haveSent' \subseteq haveSent /\ resendingIds' \subseteq resendingIds
      /\ ackedIds' \subseteq ackedIds \cup haveSent \cup resendingIds
  <2>1. a.id \in Ids /\ TRUE \in BOOLEAN /\ RequestsAcked(a.id, TRUE)
    BY <1>1 DEF ReceiveAnswer
  <2> DEFINE yes == TRUE
  <2>2. yes \in BOOLEAN /\ RequestsAcked(a.id, yes)
    BY <2>1
  <2> HIDE DEF yes
  <2> QED
    BY <2>1, <2>2, AckedMaps
<1>4. \A n \in known : n.req = a.req
  <2>1. \A n \in known : n \in Everywhere /\ n.id = a.id
    BY <1>3 DEF Everywhere
  <2>2. MessageOf(a).id = a.id /\ MessageOf(a).req = a.req
    BY DEF MessageOf
  <2> QED
    BY <1>2, <2>1, <2>2 DEF IdsAreUnique
<1>5. a.req \in started
  BY <1>2 DEF IdsAreUnique, MessageOf
<1>6. IF known = {} THEN UNCHANGED replies
      ELSE replies' = Append(replies, [a EXCEPT !.req = m.req])
  BY DEF ReceiveAnswer
<1>7. known # {} => [a EXCEPT !.req = m.req] = a
  <2>1. SUFFICES ASSUME known # {} PROVE [a EXCEPT !.req = m.req] = a
    OBVIOUS
  <2>2. m \in known
    BY <2>1
  <2>3. m.req = a.req
    BY <1>4, <2>2
  <2> HIDE DEF m
  <2> QED
    BY <1>1, <2>3
<1>8. (\E n \in resendingIds' \cup ackedIds' \cup haveSent' : n.id = a.id) => known # {}
  OBVIOUS
<1>9. a \in Replies(started)
  BY <1>1, <1>5 DEF Replies
<1> HIDE DEF known, m
<1> QED
  BY <1>6, <1>7, <1>8, <1>9


LEMMA TypesWhenAcked ==
    ASSUME Typed, IdsAreUnique, NEW id \in Ids, NEW byResponse \in BOOLEAN,
           RequestsAcked(id, byResponse), UNCHANGED <<main, session, up>>,
           got' = got, answered' = answered, down' \in SUBSET answered,
           fresh' = fresh, created' = created,
           replies' \in Seq(Replies(started))
    PROVE  Typed' /\ IdsAreUnique'
<1>1. /\ haveSent' \subseteq haveSent /\ resendingIds' \subseteq resendingIds
      /\ toSend' \subseteq toSend
      /\ ackedIds' \subseteq ackedIds \cup haveSent \cup resendingIds
      /\ msgId' = msgId /\ forced' = forced
  BY AckedMaps
<1>2. Typed'
  BY <1>1 DEF Typed, Replies, main, session
<1>3. IdsAreUnique'
  <2>1. \A a \in answered' : MessageOf(a) \in got'
    BY DEF IdsAreUnique, MessageOf
  <2> QED
    BY <1>1, <2>1, NarrowIds DEF main, session, InSession, Elements
<1> QED
  BY <1>2, <1>3

LEMMA TypesInThread ==
    ASSUME Typed, IdsAreUnique, Thread PROVE Typed' /\ IdsAreUnique'
<1>0. \A a \in answered : MessageOf(a) \in got
  BY DEF IdsAreUnique, MessageOf
<1>1. ASSUME NEW sending \in Fronts, TryToSend(sending) PROVE Typed' /\ IdsAreUnique'
  <2>1. sending \in SUBSET toSend
    BY <1>1 DEF Fronts
  <2> QED
    BY <1>1, <2>1, TypesWhenSent
<1>2. ASSUME NEW a \in down, ReceiveAnswer(a) PROVE Typed' /\ IdsAreUnique'
  <2> DEFINE yes == TRUE
  <2>1. /\ a.id \in Ids /\ yes \in BOOLEAN /\ RequestsAcked(a.id, yes)
        /\ UNCHANGED <<main, session, up>> /\ got' = got /\ answered' = answered
        /\ down' \in SUBSET answered /\ fresh' = fresh /\ created' = created
    BY <1>2 DEF ReceiveAnswer, Typed
  <2>2. replies' \in Seq(Replies(started))
    <3>1. a \in Replies(started) /\ (replies' = replies \/ replies' = Append(replies, a))
      BY <1>2, AnswerIsKnown
    <3>2. replies \in Seq(Replies(started))
      BY DEF Typed, Replies
    <3> QED
      BY <3>1, <3>2, ElementsAppend
  <2> HIDE DEF yes
  <2> QED
    BY <2>1, <2>2, TypesWhenAcked
<1>3. ASSUME NEW m \in haveSent \cup resendingIds, ReceiveAck(m)
      PROVE  Typed' /\ IdsAreUnique'
  <2> DEFINE no == FALSE
  <2>1. /\ m.id \in Ids /\ no \in BOOLEAN /\ RequestsAcked(m.id, no)
        /\ UNCHANGED <<main, session, up>> /\ got' = got /\ answered' = answered
        /\ down' \in SUBSET answered /\ fresh' = fresh /\ created' = created
    BY <1>3 DEF ReceiveAck, Typed, Messages, server
  <2>2. replies' \in Seq(Replies(started))
    BY <1>3 DEF ReceiveAck, Typed, Replies
  <2> HIDE DEF no
  <2> QED
    BY <2>1, <2>2, TypesWhenAcked
<1>4. ASSUME NEW messages \in SUBSET haveSent, Resend(messages),
             UNCHANGED <<main, replies, checkTimer, marked, lastId, up>>,
             connected' \in BOOLEAN, got' = got, down' = down, answered' = answered,
             fresh' = fresh, created' \in 0..(MaxId + 1)
      PROVE  Typed' /\ IdsAreUnique'
  <2>1. /\ toSend' \in SUBSET started /\ haveSent' \in SUBSET Messages
        /\ resendingIds' \in SUBSET Messages /\ forced' \in SUBSET Requests
        /\ haveSent' \cup resendingIds' \cup ackedIds'
               \subseteq haveSent \cup resendingIds \cup ackedIds
        /\ ackedIds' = ackedIds /\ msgId' = msgId
    BY <1>4, ResendMaps
  <2>2. Typed'
    BY <1>4, <2>1 DEF Typed, main
  <2>3. IdsAreUnique'
    BY <1>0, <1>4, <2>1, NarrowIds DEF main, InSession, Elements
  <2> QED
    BY <2>2, <2>3
<1>5. ASSUME NEW m \in haveSent, ReceiveBadMessage(m) \/ ReceiveLostState(m)
      PROVE  Typed' /\ IdsAreUnique'
  <2>1. {m} \in SUBSET haveSent /\ Resend({m})
    BY <1>5 DEF ReceiveBadMessage, ReceiveLostState
  <2>2. UNCHANGED <<main, replies, session, up, server>>
    BY <1>5 DEF ReceiveBadMessage, ReceiveLostState
  <2> QED
    BY <1>4, <2>1, <2>2 DEF session, server, Typed
<1>6. ASSUME CheckSentRequests PROVE Typed' /\ IdsAreUnique'
  <2>1. Typed'
    BY <1>6 DEF CheckSentRequests, Typed, main, maps, server
  <2>2. IdsAreUnique'
    BY <1>0, <1>6, NarrowIds DEF CheckSentRequests, main, maps, server, InSession, Elements
  <2> QED
    BY <2>1, <2>2
<1>7. ASSUME ReceiveNewSession PROVE Typed' /\ IdsAreUnique'
  <2>1. /\ {m \in haveSent : m.id < created} \in SUBSET haveSent
        /\ Resend({m \in haveSent : m.id < created})
        /\ created' \in 0..(MaxId + 1)
    BY <1>7, BoundsAssumption DEF ReceiveNewSession
  <2> QED
    BY <1>4, <1>7, <2>1 DEF ReceiveNewSession, session, Typed
<1>8. ASSUME Connect PROVE Typed' /\ IdsAreUnique'
  BY <1>4, <1>8 DEF Connect, server, Typed
<1>9. ASSUME Disconnect PROVE Typed' /\ IdsAreUnique'
  <2>1. Typed'
    <3>1. up' \in Seq(Messages)
      BY <1>9 DEF Disconnect
    <3> QED
      BY <1>9, <3>1 DEF Disconnect, Typed, main, maps, server
  <2>2. Elements(up') = {}
    BY <1>9 DEF Disconnect, Elements
  <2>3. IdsAreUnique'
    BY <1>0, <1>9, <2>2, NarrowIds DEF Disconnect, main, maps, server, InSession
  <2> QED
    BY <2>1, <2>3
<1>10. ASSUME ResetSession PROVE Typed' /\ IdsAreUnique'
  <2>1. Typed'
    <3>1. up' \in Seq(Messages) /\ created' \in 0..(MaxId + 1)
      BY <1>10, BoundsAssumption DEF ResetSession
    <3> QED
      BY <1>10, <3>1 DEF ResetSession, Typed, main, maps
  <2>2. Elements(up') = {}
    BY <1>10 DEF ResetSession, Elements
  <2>3. IdsAreUnique'
    BY <1>10, <2>2, NarrowIds DEF ResetSession, main, maps, InSession
  <2> QED
    BY <2>1, <2>3
<1> QED
  BY <1>1, <1>2, <1>3, <1>5, <1>6, <1>7, <1>8, <1>9, <1>10 DEF Thread

LEMMA TypesAtServer ==
    ASSUME Typed, IdsAreUnique, Server PROVE Typed' /\ IdsAreUnique'
<1>0. \A a \in answered : MessageOf(a) \in got
  BY DEF IdsAreUnique, MessageOf
<1>1. ASSUME Deliver PROVE Typed' /\ IdsAreUnique'
  <2>1. /\ Tail(up) \in Seq(Messages) /\ Head(up) \in Messages
        /\ Elements(Tail(up)) \subseteq Elements(up) /\ Head(up) \in Elements(up)
    BY <1>1, ElementsTail DEF Deliver, Typed
  <2>2. created' \in 0..(MaxId + 1)
    BY <1>1, <2>1, BoundsAssumption DEF Deliver, Typed, Messages, Ids
  <2>3. Typed'
    BY <1>1, <2>1, <2>2 DEF Deliver, Typed, main, maps, session
  <2>4. Elements(up') \cup got' \subseteq InSession
    BY <1>1, <2>1 DEF Deliver, InSession
  <2>5. IdsAreUnique'
    BY <1>0, <1>1, <2>4, NarrowIds DEF Deliver, main, maps, session
  <2> QED
    BY <2>3, <2>5
<1>2. ASSUME NEW m \in got, NEW kind \in Kinds, Answer(m, kind)
      PROVE  Typed' /\ IdsAreUnique'
  <2> DEFINE a == [id |-> m.id, req |-> m.req, kind |-> kind]
  <2>1. /\ down' = down \cup {a} /\ answered' = answered \cup {a}
        /\ UNCHANGED <<main, replies, maps, session, up, got, fresh, created>>
    BY <1>2 DEF Answer
  <2>2. m \in Messages /\ a \in [id : Ids, req : Requests, kind : Kinds]
    BY DEF Typed, Messages
  <2>3. MessageOf(a) = m
    BY <2>2 DEF MessageOf, Messages
  <2> HIDE DEF a
  <2>4. Typed'
    BY <2>1, <2>2 DEF Typed, main, maps, session
  <2>5. IdsAreUnique'
    BY <1>0, <2>1, <2>3, NarrowIds DEF main, maps, session, InSession, Elements
  <2> QED
    BY <2>4, <2>5
<1>3. ASSUME NEW m \in got, ServerAnswers(m) \/ ServerAsksToRetry(m)
      PROVE  Typed' /\ IdsAreUnique'
  <2>1. \E kind \in Kinds : Answer(m, kind)
    BY <1>3 DEF ServerAnswers, ServerAsksToRetry, Kinds
  <2> QED
    BY <1>2, <2>1
<1>4. ASSUME Ping PROVE Typed' /\ IdsAreUnique'
  <2>1. Typed'
    <3>1. created' \in 0..(MaxId + 1)
      BY <1>4, BoundsAssumption DEF Ping, Typed
    <3> QED
      BY <1>4, <3>1 DEF Ping, Typed, main, maps, session
  <2>2. IdsAreUnique'
    BY <1>0, <1>4, NarrowIds DEF Ping, main, maps, session, InSession, Elements
  <2> QED
    BY <2>1, <2>2
<1>5. ASSUME LoseSession PROVE Typed' /\ IdsAreUnique'
  <2>1. Typed'
    BY <1>5, BoundsAssumption DEF LoseSession, Typed, main, maps, session
  <2>2. IdsAreUnique'
    BY <1>5, NarrowIds DEF LoseSession, main, maps, session, InSession, Elements
  <2> QED
    BY <2>1, <2>2
<1> QED
  BY <1>1, <1>3, <1>4, <1>5 DEF Server

LEMMA TypesInStep ==
    ASSUME Typed, IdsAreUnique, [Next]_vars PROVE Typed' /\ IdsAreUnique'
<1>1. CASE Next
  BY <1>1, TypesInMain, TypesInThread, TypesAtServer DEF Next
<1>2. CASE UNCHANGED vars
  <2>1. Typed'
    BY <1>2 DEF vars, main, maps, session, server, Typed
  <2>2. \A a \in answered : MessageOf(a) \in got
    BY DEF IdsAreUnique, MessageOf
  <2>3. IdsAreUnique'
    BY <1>2, <2>2, NarrowIds DEF vars, main, maps, session, server, InSession, Elements
  <2> QED
    BY <2>1, <2>3
<1> QED
  BY <1>1, <1>2


-----------------------------------------------------------------------------
(* Counts only grow, so what did not happen never did.                     *)

LEMMA CountsInStep ==
    ASSUME Counted, [Next]_vars
    PROVE  /\ Counted' /\ (NeverBoth' => NeverBoth)
           /\ lost' = lost \/ lost' = lost + 1
           /\ retries' = retries \/ retries' = retries + 1
<1>1. CASE UNCHANGED budget
  BY <1>1 DEF budget, Counted, NeverBoth
<1>2. CASE /\ breaks' = breaks + 1 /\ breaks < MaxBreaks
           /\ UNCHANGED <<resets, lost, resends, retries>>
  BY <1>2, BoundsAssumption DEF Counted, NeverBoth
<1>3. CASE /\ resets' = resets + 1 /\ resets < MaxResets
           /\ UNCHANGED <<breaks, lost, resends, retries>>
  BY <1>3, BoundsAssumption DEF Counted, NeverBoth
<1>4. CASE /\ lost' = lost + 1 /\ lost < MaxLost
           /\ UNCHANGED <<breaks, resets, resends, retries>>
  BY <1>4, BoundsAssumption DEF Counted, NeverBoth
<1>5. CASE /\ resends' = resends + 1 /\ resends < MaxResends
           /\ UNCHANGED <<breaks, resets, lost, retries>>
  BY <1>5, BoundsAssumption DEF Counted, NeverBoth
<1>6. CASE /\ retries' = retries + 1 /\ retries < MaxRetries
           /\ UNCHANGED <<breaks, resets, lost, resends>>
  BY <1>6, BoundsAssumption DEF Counted, NeverBoth
<1>7. CASE Main
  <2>1. UNCHANGED budget
    BY <1>7 DEF Main, SendRequest, Cancel, ProcessCallback, DropReply, CallBack,
                DelayRequest, SendAgain, HandlerReturns, SendDelayed
  <2> QED
    BY <1>1, <2>1
<1>8. CASE Thread
  BY <1>1, <1>2, <1>3, <1>5, <1>8
     DEF Thread, TryToSend, ReceiveAnswer, ReceiveAck, ReceiveBadMessage,
         CheckSentRequests, ReceiveLostState, ReceiveNewSession, Connect,
         Disconnect, ResetSession
<1>9. CASE Server
  BY <1>1, <1>4, <1>6, <1>9
     DEF Server, Deliver, ServerAnswers, ServerAsksToRetry, Ping, LoseSession
<1> QED
  BY <1>1, <1>7, <1>8, <1>9 DEF Next, vars

-----------------------------------------------------------------------------
(* What keeps the parts of Once.                                           *)

LEMMA SessionKept ==
    ASSUME Typed, SessionIds, marked' = marked, answered' = answered,
           InSession' \subseteq InSession,
           ~marked => up' = <<>> /\ got' = {},
           \A m \in InSession' : \/ msgId'[m.req] = msgId[m.req]
                                 \/ msgId'[m.req] = 0 /\ Retried(m),
           down' \subseteq down,
           \A a \in down' : msgId'[a.req] = msgId[a.req],
           retries' = retries, retries = 0 => delayed' = {},
           Queued' \subseteq Queued \cup answered
    PROVE  SessionIds'
<1>1. \A m : Retried(m)' <=> Retried(m)
  BY DEF Retried
<1>2. ASSUME NEW m \in InSession'
      PROVE  /\ m.id = msgId'[m.req] \/ Retried(m)'
             /\ msgId'[m.req] = 0 \/ m.id <= msgId'[m.req]
  BY <1>1, <1>2 DEF SessionIds
<1>3. ~marked' => up' = <<>> /\ got' = {}
  OBVIOUS
<1>4. \A a, b \in answered' : a.id = b.id => a = b
  BY DEF SessionIds
<1>5. \A a \in down' : a.id = msgId'[a.req]
  BY DEF SessionIds
<1>6. retries' = 0 =>
          /\ delayed' = {} /\ \A a \in answered' \cup Queued' : a.kind = "done"
  BY DEF SessionIds
<1> QED
  BY <1>2, <1>3, <1>4, <1>5, <1>6 DEF SessionIds

(* The maps, when a request comes to be sent for the first time or again.  *)
LEMMA MapsWhenPrepared ==
    ASSUME Typed, InOneMap, ResendingIsKnown,
           NEW r \in Requests, SendPrepared(r), \A m \in haveSent : m.req # r
    PROVE  /\ InOneMap' /\ ResendingIsKnown' /\ Travelling' = Travelling \cup {r}
           /\ msgId'[r] = 0 /\ \A q \in Requests \ {r} : msgId'[q] = msgId[q]
<1>1. /\ toSend' = toSend \cup {r} /\ msgId' = [msgId EXCEPT ![r] = 0]
      /\ haveSent' = haveSent /\ resendingIds' = resendingIds
      /\ msgId \in [Requests -> 0..MaxId]
      /\ toSend \subseteq Requests /\ haveSent \subseteq Messages
  BY DEF SendPrepared, Typed
<1>2. msgId'[r] = 0 /\ \A q \in Requests \ {r} : msgId'[q] = msgId[q]
  BY <1>1
<1>3. InOneMap'
  BY <1>1, <1>2 DEF InOneMap, Messages
<1>4. ResendingIsKnown'
  BY <1>1, <1>2 DEF ResendingIsKnown
<1>5. Travelling' = Travelling \cup {r}
  BY <1>1 DEF Travelling
<1> QED
  BY <1>2, <1>3, <1>4, <1>5

LEMMA MapsWhenAcked ==
    ASSUME Typed, InOneMap, ResendingIsKnown,
           NEW id \in Ids, NEW byResponse \in BOOLEAN, RequestsAcked(id, byResponse)
    PROVE  InOneMap' /\ ResendingIsKnown' /\ Travelling' \subseteq Travelling
<1>1. /\ haveSent' \subseteq haveSent /\ resendingIds' \subseteq resendingIds
      /\ toSend' \subseteq toSend /\ msgId' = msgId
      /\ \A m \in resendingIds \ resendingIds' : m.req \notin toSend'
  BY AckedMaps
<1>2. InOneMap' /\ Travelling' \subseteq Travelling
  BY <1>1 DEF InOneMap, Travelling
<1>3. ResendingIsKnown'
  <2>1. SUFFICES ASSUME NEW r \in toSend', msgId[r] # 0
                 PROVE  [id |-> msgId[r], req |-> r] \in resendingIds'
    BY <1>1 DEF ResendingIsKnown
  <2>2. [id |-> msgId[r], req |-> r] \in resendingIds
    BY <1>1, <2>1 DEF ResendingIsKnown
  <2> QED
    BY <1>1, <2>1, <2>2
<1> QED
  BY <1>2, <1>3

LEMMA MapsWhenResent ==
    ASSUME Typed, InOneMap, ResendingIsKnown,
           NEW messages \in SUBSET haveSent, Resend(messages)
    PROVE  InOneMap' /\ ResendingIsKnown' /\ Travelling' \subseteq Travelling
<1>1. /\ haveSent' = haveSent \ messages
      /\ toSend' = toSend \cup {m.req : m \in messages}
      /\ resendingIds' = resendingIds \cup messages /\ msgId' = msgId
      /\ haveSent \subseteq Messages
  BY DEF Resend, Typed
<1>2. \A m \in Messages : m = [id |-> m.id, req |-> m.req]
  BY DEF Messages
<1>3. \A m, n \in haveSent : m.req = n.req => m = n
  BY <1>1, <1>2 DEF InOneMap
<1>4. InOneMap'
  BY <1>1, <1>3 DEF InOneMap
<1>5. ResendingIsKnown'
  <2>1. SUFFICES ASSUME NEW r \in toSend', msgId[r] # 0
                 PROVE  [id |-> msgId[r], req |-> r] \in resendingIds'
    BY <1>1 DEF ResendingIsKnown
  <2>2. CASE r \in toSend
    BY <1>1, <2>1, <2>2 DEF ResendingIsKnown
  <2>3. ASSUME NEW m \in messages, m.req = r
        PROVE  [id |-> msgId[r], req |-> r] \in resendingIds'
    BY <1>1, <1>2, <2>3 DEF InOneMap
  <2> QED
    BY <1>1, <2>2, <2>3
<1>6. Travelling' \subseteq Travelling
  BY <1>1 DEF Travelling
<1> QED
  BY <1>4, <1>5, <1>6

(* The first answer leaves the queue.                                      *)
LEMMA QueueHead ==
    ASSUME Typed, replies # <<>>, replies' = Tail(replies)
    PROVE  /\ Head(replies) \in Queued /\ Queued = Queued' \cup {Head(replies)}
           /\ (\A i, j \in DOMAIN replies : replies[i].req = replies[j].req => i = j) =>
                /\ \A i, j \in DOMAIN replies' : replies'[i].req = replies'[j].req => i = j
                /\ \A b \in Queued' : b.req # Head(replies).req
<1>1. replies \in Seq(Replies(started))
  BY DEF Typed, Replies
<1>2. /\ Head(replies) \in Elements(replies)
      /\ Elements(replies) = Elements(replies') \cup {Head(replies)}
  BY <1>1, ElementsTail
<1>3. Elements(replies) = Queued /\ Elements(replies') = Queued'
  BY DEF Elements, Queued
<1>4. /\ Len(replies) \in Nat \ {0} /\ DOMAIN replies = 1..Len(replies)
      /\ DOMAIN replies' = 1..(Len(replies) - 1) /\ Head(replies) = replies[1]
      /\ \A i \in 1..(Len(replies) - 1) : replies'[i] = replies[i + 1]
  BY <1>1
<1>5. ASSUME \A i, j \in DOMAIN replies : replies[i].req = replies[j].req => i = j
      PROVE  /\ \A i, j \in DOMAIN replies' : replies'[i].req = replies'[j].req => i = j
             /\ \A b \in Queued' : b.req # Head(replies).req
  <2>1. \A i \in DOMAIN replies' : i + 1 \in DOMAIN replies /\ i + 1 # 1
    BY <1>4
  <2>2. ASSUME NEW i \in DOMAIN replies', NEW j \in DOMAIN replies',
               replies'[i].req = replies'[j].req
        PROVE  i = j
    <3>1. i + 1 = j + 1
      BY <1>4, <1>5, <2>1, <2>2
    <3> QED
      BY <1>4, <3>1
  <2>3. ASSUME NEW i \in DOMAIN replies' PROVE replies'[i].req # Head(replies).req
    BY <1>4, <1>5, <2>1
  <2> QED
    BY <2>2, <2>3 DEF Queued
<1> QED
  BY <1>2, <1>3, <1>5

LEMMA PlacesKept ==
    ASSUME AnsweredOnce, lost' = lost, UNCHANGED <<finished, delayed, replies>>,
           answered \subseteq answered', InSession' \subseteq InSession,
           down' \subseteq down
    PROVE  AnsweredOnce'
<1>1. Answered' = Answered /\ Queued' = Queued
  BY DEF Answered, Queued
<1>2. \A m : Retried(m) => Retried(m)'
  BY DEF Retried
<1> QED
  BY <1>1, <1>2 DEF AnsweredOnce


LEMMA MapsUntouched ==
    ASSUME InOneMap, ResendingIsKnown, UNCHANGED maps
    PROVE  InOneMap' /\ ResendingIsKnown' /\ Travelling' = Travelling
BY DEF maps, InOneMap, ResendingIsKnown, Travelling

LEMMA AnsweredRequests ==
    ASSUME Typed PROVE Answered \subseteq started
<1>1. replies \in Seq(Replies(started))
  BY DEF Typed, Replies
<1>2. \A a \in Queued : a \in Replies(started)
  BY <1>1 DEF Queued
<1> QED
  BY <1>2 DEF Answered, Typed, Replies

(* A request that is sent again after an answer that asked for it.         *)
LEMMA OnceWhenSentAgain ==
    ASSUME Typed, InOneMap, Once, lost = 0, lost' = 0, retries' = retries,
           NEW r \in Requests, r \in Answered, SendPrepared(r),
           \A m \in InSession : m.req = r => Retried(m),
           UNCHANGED <<marked, finished, up, got, down, answered>>,
           delayed' \subseteq delayed, Queued' \subseteq Queued, r \notin Answered',
           \A i, j \in DOMAIN replies' : replies'[i].req = replies'[j].req => i = j
    PROVE  InOneMap' /\ Once'
<1>1. /\ SessionIds /\ ResendingIsKnown /\ Settled /\ AnsweredOnce
  BY DEF Once
<1>2. Answered' \subseteq Answered
  BY DEF Answered
<1>3. \A m \in haveSent : m.req # r
  BY <1>1 DEF Settled, Travelling
<1>4. /\ InOneMap' /\ ResendingIsKnown' /\ Travelling' = Travelling \cup {r}
      /\ msgId'[r] = 0 /\ \A q \in Requests \ {r} : msgId'[q] = msgId[q]
  BY <1>1, <1>3, MapsWhenPrepared
<1>5. Settled'
  BY <1>1, <1>2, <1>4 DEF Settled
<1>6. InSession' = InSession
  BY DEF InSession, Elements
<1>7. \A m \in InSession : m.req \in Requests
  BY EverywhereMessages DEF Everywhere, Messages
<1>8. SessionIds'
  <2>1. \A a \in down : a.req # r /\ a.req \in Requests
    BY <1>1 DEF AnsweredOnce, Typed
  <2>2. retries = 0 => delayed' = {}
    BY <1>1 DEF SessionIds
  <2>3. ~marked => up' = <<>> /\ got' = {}
    BY <1>1 DEF SessionIds
  <2>4. \A m \in InSession' : \/ msgId'[m.req] = msgId[m.req]
                              \/ msgId'[m.req] = 0 /\ Retried(m)
    BY <1>4, <1>6, <1>7
  <2>5. \A a \in down' : msgId'[a.req] = msgId[a.req]
    BY <1>4, <2>1
  <2> QED
    BY <1>1, <1>6, <2>2, <2>3, <2>4, <2>5, SessionKept
<1>9. AnsweredOnce'
  <2>1. \A m : Retried(m) <=> Retried(m)'
    BY DEF Retried
  <2> QED
    BY <1>1, <1>2, <1>6, <2>1 DEF AnsweredOnce
<1> QED
  BY <1>4, <1>5, <1>8, <1>9 DEF Once

LEMMA OnceInMain ==
    ASSUME Typed, IdsAreUnique, Counted, NeverBoth, InOneMap, Once, Main
    PROVE  InOneMap' /\ Once'
<1>0. /\ SessionIds /\ ResendingIsKnown /\ Settled /\ AnsweredOnce
      /\ ~marked => up = <<>> /\ got = {}
      /\ retries = 0 => delayed = {} /\ \A a \in Queued : a.kind = "done"
      /\ \A m \in InSession : m.req \in started
      /\ \A m \in haveSent : m.req \in started
      /\ \A a \in down : a.req \in started
      /\ started \subseteq Requests /\ parsers \subseteq started
      /\ Answered \subseteq started
  <2>1. \A a \in answered : MessageOf(a) \in Everywhere /\ MessageOf(a).req = a.req
    BY DEF IdsAreUnique, Everywhere, InSession, MessageOf
  <2>2. down \subseteq answered /\ parsers \subseteq started /\ started \subseteq Requests
    BY DEF Typed
  <2>3. \A m \in Everywhere : m.req \in started
    BY DEF IdsAreUnique
  <2>4. haveSent \subseteq Everywhere /\ InSession \subseteq Everywhere
    BY DEF Everywhere
  <2>5. Answered \subseteq started
    BY AnsweredRequests
  <2> QED
    BY <2>1, <2>2, <2>3, <2>4, <2>5 DEF Once, SessionIds
<1>1. ASSUME NEW r \in Requests, SendRequest(r) PROVE InOneMap' /\ Once'
  <2>1. r \notin started
    BY <1>1, SizeAssumption DEF SendRequest, Requests
  <2>2. /\ UNCHANGED <<handling, delayed, finished, replies, session, up, server, budget>>
        /\ SendPrepared(r)
    BY <1>1 DEF SendRequest
  <2>3. /\ InOneMap' /\ ResendingIsKnown' /\ Travelling' = Travelling \cup {r}
        /\ msgId'[r] = 0 /\ \A q \in Requests \ {r} : msgId'[q] = msgId[q]
    BY <1>0, <2>1, <2>2, MapsWhenPrepared
  <2>4. /\ InSession' = InSession /\ Queued' = Queued /\ Answered' = Answered
    BY <2>2 DEF InSession, Elements, server, Queued, Answered
  <2>5. SessionIds'
    <3>1. \A m \in InSession' : msgId'[m.req] = msgId[m.req]
      BY <1>0, <2>1, <2>3, <2>4
    <3>2. \A a \in down' : msgId'[a.req] = msgId[a.req]
      BY <1>0, <2>1, <2>2, <2>3 DEF server
    <3> QED
      BY <1>0, <2>2, <2>4, <3>1, <3>2, SessionKept DEF session, server, budget
  <2>6. Settled'
    BY <1>0, <2>1, <2>3, <2>4 DEF Settled
  <2>7. AnsweredOnce'
    BY <1>0, <2>2, <2>4, PlacesKept DEF server, budget
  <2> QED
    BY <2>3, <2>5, <2>6, <2>7 DEF Once
<1>2. ASSUME NEW r \in Requests, Cancel(r) PROVE InOneMap' /\ Once'
  <2>1. /\ UNCHANGED <<started, handling, delayed, finished, replies, resendingIds,
                       ackedIds, msgId, forced, session, up, server, budget>>
        /\ toSend' \subseteq toSend /\ haveSent' \subseteq haveSent
    BY <1>2 DEF Cancel
  <2>2. InOneMap' /\ ResendingIsKnown' /\ Travelling' \subseteq Travelling
    BY <1>0, <2>1 DEF InOneMap, ResendingIsKnown, Travelling
  <2>3. /\ InSession' = InSession /\ Queued' = Queued /\ Answered' = Answered
    BY <2>1 DEF InSession, Elements, server, Queued, Answered
  <2>4. SessionIds'
    BY <1>0, <2>1, <2>3, SessionKept DEF session, server, budget
  <2>5. Settled'
    BY <1>0, <2>2, <2>3 DEF Settled
  <2>6. AnsweredOnce'
    BY <1>0, <2>1, <2>3, PlacesKept DEF server, budget
  <2> QED
    BY <2>2, <2>4, <2>5, <2>6 DEF Once
<1>3. ASSUME handling = {}, replies # <<>>,
             NEW a, a = Head(replies),
             DropReply(a) \/ CallBack(a) \/ DelayRequest(a) \/ SendAgain(a)
      PROVE  InOneMap' /\ Once'
  <2>0. /\ replies' = Tail(replies)
        /\ UNCHANGED <<started, session, up, server, budget>>
    BY <1>3 DEF DropReply, CallBack, DelayRequest, SendAgain, main
  <2>1. /\ a \in Queued /\ Queued = Queued' \cup {a} /\ Queued' \subseteq Queued
        /\ lost = 0 =>
             /\ \A i, j \in DOMAIN replies' : replies'[i].req = replies'[j].req => i = j
             /\ \A b \in Queued' : b.req # a.req
    BY <1>0, <1>3, <2>0, QueueHead DEF AnsweredOnce
  <2>2. a.req \in Answered /\ a.req \in Requests
    BY <1>0, <2>1 DEF Answered
  <2>3. /\ InSession' = InSession /\ \A m : Retried(m)' <=> Retried(m)
    BY <2>0 DEF InSession, Elements, server, Retried
  <2>4. CASE DropReply(a)
    <3>1. UNCHANGED <<main, maps>>
      BY <2>4 DEF DropReply
    <3>2. InOneMap' /\ ResendingIsKnown' /\ Travelling' = Travelling
      BY <1>0, <3>1, MapsUntouched
    <3>3. Answered' \subseteq Answered
      BY <2>1, <3>1 DEF Answered, main
    <3>4. SessionIds'
      BY <1>0, <2>0, <2>1, <2>3, <3>1, SessionKept DEF session, server, budget, main, maps
    <3>5. Settled'
      BY <1>0, <3>2, <3>3 DEF Settled
    <3>6. AnsweredOnce'
      BY <1>0, <2>0, <2>1, <2>3, <3>1, <3>3 DEF AnsweredOnce, main, server, budget
    <3> QED
      BY <3>2, <3>4, <3>5, <3>6 DEF Once
  <2>5. CASE CallBack(a)
    <3>1. UNCHANGED <<delayed, maps>> /\ finished' = finished \cup {a.req}
      BY <2>5 DEF CallBack
    <3>2. InOneMap' /\ ResendingIsKnown' /\ Travelling' = Travelling
      BY <1>0, <3>1, MapsUntouched
    <3>3. Answered' \subseteq Answered
      BY <2>1, <2>2, <3>1 DEF Answered
    <3>4. SessionIds'
      BY <1>0, <2>0, <2>1, <2>3, <3>1, SessionKept DEF session, server, budget, maps
    <3>5. Settled'
      BY <1>0, <3>2, <3>3 DEF Settled
    <3>6. AnsweredOnce'
      BY <1>0, <2>0, <2>1, <2>2, <2>3, <3>1, <3>3 DEF AnsweredOnce, server, budget
    <3> QED
      BY <3>2, <3>4, <3>5, <3>6 DEF Once
  <2>6. CASE DelayRequest(a)
    <3>1. UNCHANGED <<finished, maps>> /\ delayed' = delayed \cup {a.req}
          /\ a.kind = "delay"
      BY <2>6 DEF DelayRequest
    <3>2. InOneMap' /\ ResendingIsKnown' /\ Travelling' = Travelling
      BY <1>0, <3>1, MapsUntouched
    <3>3. Answered' \subseteq Answered
      BY <2>1, <2>2, <3>1 DEF Answered
    <3>4. SessionIds'
      <4>1. retries # 0
        BY <1>0, <2>1, <3>1
      <4> QED
        BY <1>0, <2>0, <2>1, <2>3, <3>1, <4>1, SessionKept DEF session, server, budget, maps
    <3>5. Settled'
      BY <1>0, <3>2, <3>3 DEF Settled
    <3>6. AnsweredOnce'
      <4>1. lost = 0 => \A m \in InSession : m.req = a.req => Retried(m)
        BY <1>0, <2>1, <3>1 DEF AnsweredOnce
      <4> QED
        BY <1>0, <2>0, <2>1, <2>2, <2>3, <3>1, <3>3, <4>1 DEF AnsweredOnce, server, budget
    <3> QED
      BY <3>2, <3>4, <3>5, <3>6 DEF Once
  <2>7. CASE SendAgain(a)
    <3>1. /\ UNCHANGED <<delayed, finished>> /\ SendPrepared(a.req) /\ a.kind = "now"
      BY <2>7 DEF SendAgain
    <3>2. lost = 0
      BY <1>0, <2>1, <3>1 DEF NeverBoth
    <3>3. \A m \in InSession : m.req = a.req => Retried(m)
      BY <1>0, <2>1, <3>1, <3>2 DEF AnsweredOnce
    <3>4. a.req \notin Answered'
      BY <1>0, <2>1, <3>1, <3>2 DEF AnsweredOnce, Answered
    <3> QED
      BY <2>0, <2>1, <2>2, <3>1, <3>2, <3>3, <3>4, OnceWhenSentAgain
         DEF session, server, budget
  <2> QED
    BY <1>3, <2>4, <2>5, <2>6, <2>7
<1>4. ASSUME HandlerReturns PROVE InOneMap' /\ Once'
  <2>1. UNCHANGED <<delayed, finished, replies, maps, session, up, server, budget>>
    BY <1>4 DEF HandlerReturns
  <2>2. InOneMap' /\ ResendingIsKnown' /\ Travelling' = Travelling
    BY <1>0, <2>1, MapsUntouched
  <2>3. InSession' = InSession /\ Queued' = Queued /\ Answered' = Answered
    BY <2>1 DEF InSession, Elements, server, Queued, Answered
  <2>4. SessionIds'
    BY <1>0, <2>1, <2>3, SessionKept DEF session, server, budget, maps
  <2>5. Settled'
    BY <1>0, <2>2, <2>3 DEF Settled
  <2>6. AnsweredOnce'
    BY <1>0, <2>1, <2>3, PlacesKept DEF server, budget
  <2> QED
    BY <2>2, <2>4, <2>5, <2>6 DEF Once
<1>5. ASSUME NEW r \in delayed, SendDelayed(r) PROVE InOneMap' /\ Once'
  <2>1. /\ delayed' = delayed \ {r}
        /\ UNCHANGED <<started, parsers, handling, finished, replies, session, up,
                       server, budget>>
    BY <1>5 DEF SendDelayed
  <2>2. InSession' = InSession /\ Queued' = Queued /\ Answered' \subseteq Answered
    BY <2>1 DEF InSession, Elements, server, Queued, Answered
  <2>3. lost = 0 /\ retries # 0 /\ r \in Answered /\ r \in Requests
    BY <1>0, <1>5 DEF NeverBoth, Answered
  <2>4. CASE r \in parsers
    <3>1. SendPrepared(r)
      BY <1>5, <2>4 DEF SendDelayed
    <3>2. r \notin Answered'
      BY <1>0, <1>5, <2>1, <2>2, <2>3 DEF AnsweredOnce, Answered
    <3>3. \A m \in InSession : m.req = r => Retried(m)
      BY <1>0, <1>5, <2>3 DEF AnsweredOnce
    <3>4. \A i, j \in DOMAIN replies' : replies'[i].req = replies'[j].req => i = j
      BY <1>0, <2>1, <2>3 DEF AnsweredOnce
    <3> QED
      BY <2>1, <2>2, <2>3, <3>1, <3>2, <3>3, <3>4, OnceWhenSentAgain
         DEF session, server, budget
  <2>5. CASE r \notin parsers
    <3>1. UNCHANGED maps
      BY <1>5, <2>5 DEF SendDelayed
    <3>2. InOneMap' /\ ResendingIsKnown' /\ Travelling' = Travelling
      BY <1>0, <3>1, MapsUntouched
    <3>3. SessionIds'
      BY <1>0, <2>1, <2>2, <2>3, <3>1, SessionKept DEF session, server, budget, maps
    <3>4. Settled'
      BY <1>0, <2>2, <3>2 DEF Settled
    <3>5. AnsweredOnce'
      <4>1. \A m : Retried(m)' <=> Retried(m)
        BY <2>1 DEF Retried, server
      <4> QED
        BY <1>0, <2>1, <2>2, <4>1 DEF AnsweredOnce, server, budget
    <3> QED
      BY <3>2, <3>3, <3>4, <3>5 DEF Once
  <2> QED
    BY <2>4, <2>5
<1> QED
  BY <1>1, <1>2, <1>3, <1>4, <1>5 DEF Main, ProcessCallback


(* What is sent has not been answered.                                     *)
LEMMA OnceWhenSent ==
    ASSUME Typed, IdsAreUnique, Counted, InOneMap, Once,
           NEW sending \in SUBSET toSend, TryToSend(sending)
    PROVE  InOneMap' /\ Once'
<1> DEFINE messages == {[id |-> msgId'[r], req |-> r] : r \in sending}
<1>0. /\ msgId' \in [Requests -> 0..MaxId] /\ messages \in SUBSET Messages
      /\ \A r \in Requests \ sending : msgId'[r] = msgId[r]
      /\ \A r \in sending : msgId'[r] # msgId[r] => msgId'[r] > lastId
      /\ \A r \in sending : marked /\ msgId[r] # 0 => msgId'[r] = msgId[r]
      /\ \A r \in sending : msgId'[r] # 0
      /\ toSend' = toSend \ sending
      /\ haveSent' = haveSent \cup messages
      /\ Elements(up') \subseteq Elements(up) \cup messages
      /\ resendingIds' = {m \in resendingIds : ~\E r \in sending : m.id = msgId[r]}
      /\ marked' = TRUE
  BY SentMaps
<1>1. /\ UNCHANGED <<main, replies, got, down, answered, lost, retries>>
      /\ sending \in SUBSET Requests /\ toSend \subseteq Requests
      /\ haveSent \subseteq Messages
      /\ lastId \in 0..MaxId /\ msgId \in [Requests -> 0..MaxId] /\ MaxId \in Nat
  BY BoundsAssumption DEF TryToSend, Typed, server, budget
<1>2. /\ \A m \in messages : m.req \in sending /\ m.id = msgId'[m.req]
      /\ Everywhere \subseteq Messages
      /\ \A m \in Messages : m.id \in Nat \ {0} /\ m.req \in Requests
  BY EverywhereMessages, BoundsAssumption DEF Messages, Ids
<1> HIDE DEF messages
<1>3. /\ SessionIds /\ ResendingIsKnown /\ Settled /\ AnsweredOnce
  BY DEF Once
<1>4. InSession' \subseteq InSession \cup messages /\ InSession \subseteq Everywhere
  BY <1>0, <1>1 DEF InSession, Everywhere
<1>5. Queued' = Queued /\ Answered' = Answered /\ \A m : Retried(m)' <=> Retried(m)
  BY <1>1 DEF Queued, Answered, Retried, main
<1>6. InOneMap'
  <2>1. ASSUME NEW m \in haveSent PROVE m.req \notin toSend' /\ m.id = msgId'[m.req]
    <3>1. m.req \notin toSend /\ m.id = msgId[m.req] /\ m.req \in Requests
      BY <1>1, <1>2 DEF InOneMap
    <3> QED
      BY <1>0, <3>1
  <2>2. ASSUME NEW m \in messages PROVE m.req \notin toSend' /\ m.id = msgId'[m.req]
    BY <1>0, <1>2
  <2> QED
    BY <1>0, <2>1, <2>2 DEF InOneMap
<1>7. ResendingIsKnown'
  <2>1. SUFFICES ASSUME NEW q \in toSend', msgId'[q] # 0
                 PROVE  [id |-> msgId'[q], req |-> q] \in resendingIds'
    BY DEF ResendingIsKnown
  <2>2. q \in toSend /\ q \in Requests /\ q \notin sending /\ msgId'[q] = msgId[q]
    BY <1>0, <1>1, <2>1
  <2>3. [id |-> msgId[q], req |-> q] \in resendingIds
    BY <1>3, <2>1, <2>2 DEF ResendingIsKnown
  <2>4. ASSUME NEW r \in sending, msgId[q] = msgId[r] PROVE FALSE
    <3>1. msgId[q] \in Ids /\ r \in Requests
      BY <1>1, <2>1, <2>2 DEF Ids
    <3> DEFINE m == [id |-> msgId[q], req |-> q]
               n == [id |-> msgId[r], req |-> r]
    <3>2. m \in Buffered /\ n \in Buffered
      BY <2>2, <2>4, <3>1 DEF Buffered, Messages
    <3>3. m \in Everywhere /\ n \in Everywhere
      BY <3>2 DEF Everywhere
    <3>4. m.id = n.id /\ m.req = q /\ n.req = r
      BY <2>4
    <3> HIDE DEF m, n
    <3>5. q = r
      BY <3>3, <3>4 DEF IdsAreUnique
    <3> QED
      BY <2>2, <3>5
  <2> QED
    BY <1>0, <2>2, <2>3, <2>4
<1>8. Settled'
  <2>1. Travelling' \subseteq Travelling
    BY <1>0, <1>2 DEF Travelling
  <2> QED
    BY <1>3, <1>5, <2>1 DEF Settled
<1>9. SessionIds'
  <2>1. ASSUME NEW m \in InSession
        PROVE  /\ m.id = msgId'[m.req] \/ Retried(m)
               /\ msgId'[m.req] = 0 \/ m.id <= msgId'[m.req]
    <3>0. /\ m \in Everywhere /\ m.req \in Requests /\ m.id \in Nat \ {0}
          /\ m.id <= lastId
      BY <1>2, <1>4 DEF IdsAreUnique
    <3>1. marked
      <4>1. ASSUME ~marked PROVE FALSE
        <5>1. up = <<>> /\ got = {}
          BY <1>3, <4>1 DEF SessionIds
        <5>2. InSession = {}
          BY <5>1 DEF InSession, Elements
        <5> QED
          BY <5>2
      <4> QED
        BY <4>1 DEF Typed
    <3>2. CASE msgId'[m.req] = msgId[m.req]
      BY <1>3, <3>2 DEF SessionIds
    <3>3. CASE msgId'[m.req] # msgId[m.req]
      <4>1. m.req \in sending /\ msgId'[m.req] > lastId /\ msgId[m.req] = 0
        BY <1>0, <3>0, <3>1, <3>3
      <4>2. Retried(m)
        BY <1>3, <3>0, <4>1 DEF SessionIds
      <4>3. msgId'[m.req] \in Nat
        BY <1>0, <3>0
      <4> QED
        BY <1>1, <3>0, <4>1, <4>2, <4>3
    <3> QED
      BY <3>2, <3>3
  <2>2. ASSUME NEW m \in messages
        PROVE  m.id = msgId'[m.req] /\ m.id <= msgId'[m.req]
    BY <1>0, <1>1, <1>2
  <2>3. ASSUME NEW a \in down PROVE a.id = msgId'[a.req]
    <3>1. /\ a.id = msgId[a.req] /\ a \in answered /\ a.id \in Nat \ {0}
          /\ a.req \in Requests
      BY <1>3, BoundsAssumption DEF SessionIds, Typed, Ids
    <3>2. got # {}
      BY <3>1 DEF IdsAreUnique
    <3>3. marked
      BY <1>3, <3>2 DEF SessionIds, Typed
    <3> QED
      BY <1>0, <3>1, <3>3
  <2>4. retries' = 0 =>
            /\ delayed' = {} /\ \A a \in answered' \cup Queued' : a.kind = "done"
    BY <1>1, <1>3, <1>5 DEF SessionIds, main
  <2>5. \A a, b \in answered' : a.id = b.id => a = b
    BY <1>1, <1>3 DEF SessionIds
  <2>6. \A m \in InSession' :
            /\ m.id = msgId'[m.req] \/ Retried(m)'
            /\ msgId'[m.req] = 0 \/ m.id <= msgId'[m.req]
    BY <1>4, <1>5, <2>1, <2>2
  <2>7. (~marked)' => (up = <<>> /\ got = {})' 
    BY <1>0
  <2>8. \A a \in down' : a.id = msgId'[a.req]
    BY <1>1, <2>3
  <2> QED
    BY <2>4, <2>5, <2>6, <2>7, <2>8 DEF SessionIds
<1>10. AnsweredOnce'
  <2>1. \A m \in messages : m.req \notin Answered
    BY <1>2, <1>3 DEF Settled, Travelling
  <2>2. \A m \in InSession' : m \in InSession \/ m.req \notin Answered
    BY <1>4, <2>1
  <2>3. delayed \subseteq Answered /\ \A a \in Queued : a.req \in Answered
    BY DEF Answered
  <2> QED
    BY <1>1, <1>3, <1>5, <2>2, <2>3 DEF AnsweredOnce, main
<1> QED
  BY <1>6, <1>7, <1>8, <1>9, <1>10 DEF Once

(* What is answered leaves the maps: it is found by the msg_id of the      *)
(* answer, whether it waits for the answer or to be sent again.            *)
LEMMA OnceWhenAnswered ==
    ASSUME Typed, IdsAreUnique, Counted, InOneMap, Once,
           NEW a \in down, ReceiveAnswer(a)
    PROVE  InOneMap' /\ Once'
<1>1. /\ SessionIds /\ ResendingIsKnown /\ Settled /\ AnsweredOnce
  BY DEF Once
<1>2. /\ a \in answered /\ a.id \in Ids /\ a.req \in Requests /\ a.id # 0
      /\ a.id = msgId[a.req] /\ down' = down \ {a}
      /\ UNCHANGED <<main, session, up, got, answered, budget>>
      /\ haveSent \subseteq Messages
  BY <1>1, BoundsAssumption DEF ReceiveAnswer, Typed, SessionIds, Ids
<1>3. /\ haveSent' \subseteq haveSent /\ toSend' \subseteq toSend /\ msgId' = msgId
      /\ \A m \in haveSent' : m.id # a.id
      /\ (\A m \in haveSent : m.id # a.id) =>
             \A m \in resendingIds : m.id = a.id => m.req \notin toSend'
      /\ InOneMap' /\ ResendingIsKnown' /\ Travelling' \subseteq Travelling
  <2> DEFINE yes == TRUE
  <2>1. yes \in BOOLEAN /\ RequestsAcked(a.id, yes) /\ yes
    BY DEF ReceiveAnswer
  <2> HIDE DEF yes
  <2> QED
    BY <1>1, <1>2, <2>1, AckedMaps, MapsWhenAcked
<1>4. MessageOf(a) \in got /\ MessageOf(a).id = a.id /\ MessageOf(a).req = a.req
  BY <1>2 DEF IdsAreUnique, MessageOf
<1>5. a.req \notin Travelling'
  <2>1. \A m \in haveSent' : m.req # a.req
    BY <1>2, <1>3 DEF InOneMap
  <2>2. a.req \notin toSend'
    <3>1. CASE \E m \in haveSent : m.id = a.id
      <4>1. PICK m \in haveSent : m.id = a.id
        BY <3>1
      <4>2. m.req = a.req
        BY <1>4, <4>1 DEF IdsAreUnique, Everywhere, InSession
      <4> QED
        BY <1>3, <4>1, <4>2 DEF InOneMap
    <3>2. CASE \A m \in haveSent : m.id # a.id
      <4>1. SUFFICES ASSUME a.req \in toSend PROVE a.req \notin toSend'
        BY <1>3
      <4>2. [id |-> a.id, req |-> a.req] \in resendingIds
        BY <1>1, <1>2, <4>1 DEF ResendingIsKnown
      <4> QED
        BY <1>3, <3>2, <4>2
    <3> QED
      BY <3>1, <3>2
  <2> QED
    BY <2>1, <2>2 DEF Travelling
<1>6. /\ a \in Replies(started) /\ replies \in Seq(Replies(started))
      /\ replies' = replies \/ replies' = Append(replies, a)
  BY AnswerIsKnown DEF Typed, Replies
<1>7. Queued' = Queued \/ Queued' = Queued \cup {a}
  <2>1. Queued = Elements(replies) /\ Queued' = Elements(replies')
    BY DEF Queued, Elements
  <2>2. Elements(Append(replies, a)) = Elements(replies) \cup {a}
    BY <1>6, ElementsAppend
  <2>3. CASE replies' = replies
    BY <2>3 DEF Queued
  <2>4. CASE replies' = Append(replies, a)
    BY <2>1, <2>2, <2>4
  <2> QED
    BY <1>6, <2>3, <2>4
<1>8. Answered' \subseteq Answered \cup {a.req}
  BY <1>2, <1>7 DEF Answered, main
<1>9. Settled'
  BY <1>1, <1>3, <1>5, <1>8 DEF Settled
<1>10. InSession' = InSession /\ \A m : Retried(m)' <=> Retried(m)
  BY <1>2 DEF InSession, Elements, Retried
<1>11. SessionIds'
  <2>1. Queued' \subseteq Queued \cup answered
    BY <1>2, <1>7
  <2> QED
    BY <1>1, <1>2, <1>3, <1>10, <2>1, SessionKept DEF SessionIds, session, main, budget
<1>12. AnsweredOnce'
  <2>1. SUFFICES ASSUME lost = 0 PROVE AnsweredOnce'
    BY <1>2 DEF AnsweredOnce, budget
  <2>2. a.req \notin Answered
    BY <1>1, <2>1 DEF AnsweredOnce
  <2>3. \A b \in down' : b.req # a.req
    BY <1>1, <1>2 DEF SessionIds, Typed
  <2>4. ASSUME NEW m \in InSession, m.req = a.req
        PROVE  /\ \E b \in answered : b.id = m.id
               /\ a.kind # "done" => Retried(m)
    <3>1. m.id = msgId[m.req] \/ Retried(m)
      BY <1>1 DEF SessionIds
    <3>2. CASE m.id = msgId[m.req]
      BY <1>2, <2>4, <3>2 DEF Retried
    <3>3. CASE Retried(m)
      BY <3>3 DEF Retried
    <3> QED
      BY <3>1, <3>2, <3>3
  <2>5. \A i, j \in DOMAIN replies' : replies'[i].req = replies'[j].req => i = j
    <3>1. CASE replies' = replies
      BY <1>1, <2>1, <3>1 DEF AnsweredOnce
    <3>2. CASE replies' = Append(replies, a)
      <4>1. /\ Len(replies) \in Nat /\ DOMAIN replies = 1..Len(replies)
            /\ DOMAIN replies' = 1..(Len(replies) + 1)
            /\ \A i \in 1..Len(replies) : replies'[i] = replies[i]
            /\ replies'[Len(replies) + 1] = a
        BY <1>6, <3>2
      <4>2. \A i \in 1..Len(replies) : replies[i].req # a.req
        BY <2>2, <4>1 DEF Answered, Queued
      <4>3. \A i \in DOMAIN replies' : i \in 1..Len(replies) \/ i = Len(replies) + 1
        BY <4>1
      <4> QED
        BY <1>1, <2>1, <4>1, <4>2, <4>3 DEF AnsweredOnce
    <3> QED
      BY <1>6, <3>1, <3>2
  <2>6. finished' = finished /\ delayed' = delayed /\ answered' = answered
    BY <1>2 DEF main
  <2>7. \A m \in InSession' :
            /\ m.req \in Answered' => \E b \in answered' : b.id = m.id
            /\ m.req \in delayed' => Retried(m)'
            /\ \A b \in Queued' : b.req = m.req /\ b.kind # "done" => Retried(m)'
    BY <1>1, <1>7, <1>8, <1>10, <2>1, <2>4, <2>6 DEF AnsweredOnce
  <2>8. /\ finished' \cap delayed' = {}
        /\ \A b \in Queued' : b.req \notin finished' \cup delayed'
        /\ \A b \in down' : b.req \notin Answered'
    BY <1>1, <1>2, <1>7, <1>8, <2>1, <2>2, <2>3, <2>6 DEF AnsweredOnce, Answered
  <2> QED
    BY <2>5, <2>7, <2>8 DEF AnsweredOnce
<1> QED
  BY <1>3, <1>9, <1>11, <1>12 DEF Once


LEMMA OnceInThread ==
    ASSUME Typed, IdsAreUnique, Counted, InOneMap, Once, Thread
    PROVE  InOneMap' /\ Once'
<1>0. /\ SessionIds /\ ResendingIsKnown /\ Settled /\ AnsweredOnce
      /\ ~marked => up = <<>> /\ got = {}
      /\ retries = 0 => delayed = {}
  BY DEF Once, SessionIds
<1>1. ASSUME NEW sending \in Fronts, TryToSend(sending) PROVE InOneMap' /\ Once'
  <2>1. sending \in SUBSET toSend
    BY <1>1 DEF Fronts
  <2> QED
    BY <1>1, <2>1, OnceWhenSent
<1>2. ASSUME NEW a \in down, ReceiveAnswer(a) PROVE InOneMap' /\ Once'
  BY <1>2, OnceWhenAnswered
<1>3. ASSUME InOneMap', ResendingIsKnown', Travelling' \subseteq Travelling,
             UNCHANGED <<main, replies, marked, server, lost, retries>>, msgId' = msgId,
             up' = up \/ up' = <<>>
      PROVE  InOneMap' /\ Once'
  <2>1. Queued' = Queued /\ Answered' = Answered /\ InSession' \subseteq InSession
    BY <1>3 DEF Queued, Answered, InSession, Elements, main, server
  <2>2. SessionIds'
    <3>1. /\ marked' = marked /\ answered' = answered /\ got' = got
          /\ down' = down /\ delayed' = delayed /\ retries' = retries
      BY <1>3 DEF main, server
    <3> QED
      BY <1>0, <1>3, <2>1, <3>1, SessionKept
  <2>3. Settled'
    BY <1>0, <1>3, <2>1 DEF Settled
  <2>4. AnsweredOnce'
    <3>1. /\ lost' = lost /\ answered' = answered /\ down' = down
          /\ UNCHANGED <<finished, delayed, replies>>
      BY <1>3 DEF main, server
    <3> QED
      BY <1>0, <2>1, <3>1, PlacesKept
  <2> QED
    BY <1>3, <2>2, <2>3, <2>4 DEF Once
<1>4. ASSUME NEW m \in haveSent \cup resendingIds, ReceiveAck(m)
      PROVE  InOneMap' /\ Once'
  <2> DEFINE no == FALSE
  <2>1. /\ m.id \in Ids /\ no \in BOOLEAN /\ RequestsAcked(m.id, no)
        /\ UNCHANGED <<main, replies, session, up, server, budget>>
    BY <1>4 DEF ReceiveAck, Typed, Messages
  <2> HIDE DEF no
  <2>2. InOneMap' /\ ResendingIsKnown' /\ Travelling' \subseteq Travelling
    BY <1>0, <2>1, MapsWhenAcked
  <2>3. msgId' = msgId
    BY <2>1, AckedMaps
  <2> QED
    BY <1>3, <2>1, <2>2, <2>3 DEF session, budget
<1>5. ASSUME NEW messages \in SUBSET haveSent, Resend(messages)
      PROVE  /\ InOneMap' /\ ResendingIsKnown' /\ Travelling' \subseteq Travelling
             /\ msgId' = msgId
  BY <1>0, <1>5, MapsWhenResent DEF Resend
<1>6. ASSUME NEW m \in haveSent, ReceiveBadMessage(m) \/ ReceiveLostState(m)
      PROVE  InOneMap' /\ Once'
  <2>1. /\ {m} \in SUBSET haveSent /\ Resend({m})
        /\ UNCHANGED <<main, replies, session, up, server, lost, retries>>
    BY <1>6 DEF ReceiveBadMessage, ReceiveLostState
  <2> QED
    BY <1>3, <1>5, <2>1 DEF session
<1>7. ASSUME CheckSentRequests PROVE InOneMap' /\ Once'
  <2>1. UNCHANGED <<main, replies, maps, marked, up, server, lost, retries>>
    BY <1>7 DEF CheckSentRequests, budget
  <2>2. InOneMap' /\ ResendingIsKnown' /\ Travelling' = Travelling
    BY <1>0, <2>1, MapsUntouched
  <2> QED
    BY <1>3, <2>1, <2>2 DEF maps
<1>8. ASSUME ReceiveNewSession PROVE InOneMap' /\ Once'
  <2>1. /\ {m \in haveSent : m.id < created} \in SUBSET haveSent
        /\ Resend({m \in haveSent : m.id < created})
        /\ UNCHANGED <<main, replies, session, up, got, down, answered, fresh, budget>>
    BY <1>8 DEF ReceiveNewSession
  <2>2. /\ InOneMap' /\ ResendingIsKnown' /\ Travelling' \subseteq Travelling
        /\ msgId' = msgId
    BY <1>5, <2>1
  <2>3. Queued' = Queued /\ Answered' = Answered /\ InSession' = InSession
    BY <2>1 DEF Queued, Answered, InSession, Elements, main
  <2>4. SessionIds'
    BY <1>0, <2>1, <2>2, <2>3, SessionKept DEF main, session, budget
  <2>5. Settled'
    BY <1>0, <2>2, <2>3 DEF Settled
  <2>6. AnsweredOnce'
    BY <1>0, <2>1, <2>3, PlacesKept DEF main, budget
  <2> QED
    BY <2>2, <2>4, <2>5, <2>6 DEF Once
<1>9. ASSUME Connect PROVE InOneMap' /\ Once'
  <2>1. /\ Resend(haveSent)
        /\ UNCHANGED <<main, replies, marked, up, server, lost, retries>>
    BY <1>9 DEF Connect, budget
  <2> QED
    BY <1>3, <1>5, <2>1
<1>10. ASSUME Disconnect PROVE InOneMap' /\ Once'
  <2>1. /\ UNCHANGED <<main, replies, maps, marked, server, lost, retries>>
        /\ up' = <<>>
    BY <1>10 DEF Disconnect
  <2>2. InOneMap' /\ ResendingIsKnown' /\ Travelling' = Travelling
    BY <1>0, <2>1, MapsUntouched
  <2> QED
    BY <1>3, <2>1, <2>2 DEF maps
<1>11. ASSUME ResetSession PROVE InOneMap' /\ Once'
  <2>1. /\ UNCHANGED <<main, replies, maps, lost, retries>> /\ marked' = FALSE
        /\ up' = <<>> /\ got' = {} /\ down' = {} /\ answered' = {}
    BY <1>11 DEF ResetSession
  <2>2. InOneMap' /\ ResendingIsKnown' /\ Travelling' = Travelling
    BY <1>0, <2>1, MapsUntouched
  <2>3. Queued' = Queued /\ Answered' = Answered /\ InSession' = {}
    BY <2>1 DEF Queued, Answered, InSession, Elements, main
  <2>4. SessionIds'
    BY <1>0, <2>1, <2>3 DEF SessionIds, main
  <2>5. Settled'
    BY <1>0, <2>2, <2>3 DEF Settled
  <2>6. AnsweredOnce'
    BY <1>0, <2>1, <2>3 DEF AnsweredOnce, main
  <2> QED
    BY <2>2, <2>4, <2>5, <2>6 DEF Once
<1> QED
  BY <1>1, <1>2, <1>4, <1>6, <1>7, <1>8, <1>9, <1>10, <1>11 DEF Thread

LEMMA OnceAtServer ==
    ASSUME Typed, IdsAreUnique, Counted, NeverBoth', InOneMap, Once, Server
    PROVE  InOneMap' /\ Once'
<1>0. /\ SessionIds /\ ResendingIsKnown /\ Settled /\ AnsweredOnce
      /\ ~marked => up = <<>> /\ got = {}
      /\ retries = 0 => delayed = {}
  BY DEF Once, SessionIds
<1>1. ASSUME UNCHANGED <<main, replies, maps>>
      PROVE  /\ InOneMap' /\ ResendingIsKnown' /\ Settled'
             /\ Queued' = Queued /\ Answered' = Answered
  <2>1. InOneMap' /\ ResendingIsKnown' /\ Travelling' = Travelling
    BY <1>0, <1>1, MapsUntouched
  <2>2. Queued' = Queued /\ Answered' = Answered
    BY <1>1 DEF Queued, Answered, main
  <2> QED
    BY <1>0, <2>1, <2>2 DEF Settled
<1>2. ASSUME Deliver \/ Ping PROVE InOneMap' /\ Once'
  <2>1. UNCHANGED <<main, replies, maps, session, down, answered, budget>>
    BY <1>2 DEF Deliver, Ping
  <2>2. /\ InOneMap' /\ ResendingIsKnown' /\ Settled'
        /\ Queued' = Queued /\ Answered' = Answered
    BY <1>1, <2>1
  <2>3. InSession' \subseteq InSession /\ (~marked => up' = <<>> /\ got' = {})
    <3>1. CASE Deliver
      <4>1. /\ Elements(Tail(up)) \subseteq Elements(up) /\ Head(up) \in Elements(up)
            /\ up # <<>> /\ up' = Tail(up) /\ got' = got \cup {Head(up)}
        BY <3>1, ElementsTail DEF Deliver, Typed
      <4> QED
        BY <1>0, <4>1 DEF InSession
    <3>2. CASE Ping
      BY <1>0, <3>2 DEF Ping, InSession, Elements
    <3> QED
      BY <1>2, <3>1, <3>2
  <2>4. SessionIds'
    BY <1>0, <2>1, <2>2, <2>3, SessionKept DEF main, maps, session, budget
  <2>5. AnsweredOnce'
    BY <1>0, <2>1, <2>3, PlacesKept DEF main, budget
  <2> QED
    BY <2>2, <2>4, <2>5 DEF Once
<1>3. ASSUME NEW m \in got, ServerAnswers(m) \/ ServerAsksToRetry(m)
      PROVE  InOneMap' /\ Once'
  <2>1. PICK kind \in Kinds :
            Answer(m, kind) /\ lost' = lost /\ (retries' = 0 => kind = "done" /\ retries = 0)
    BY <1>3 DEF ServerAnswers, ServerAsksToRetry, Kinds, budget, Counted
  <2> DEFINE a == [id |-> m.id, req |-> m.req, kind |-> kind]
  <2>2. /\ down' = down \cup {a} /\ answered' = answered \cup {a}
        /\ \A b \in answered : b.id # m.id
        /\ UNCHANGED <<main, replies, maps, session, up, got, fresh, created>>
    BY <2>1 DEF Answer
  <2>3. a.id = m.id /\ a.req = m.req /\ a.kind = kind
    OBVIOUS
  <2> HIDE DEF a
  <2>4. /\ InOneMap' /\ ResendingIsKnown' /\ Settled'
        /\ Queued' = Queued /\ Answered' = Answered
    BY <1>1, <2>2
  <2>5. InSession' = InSession /\ m \in InSession
    BY <2>2 DEF InSession, Elements
  <2>6. \A n : Retried(n) => Retried(n)'
    BY <2>2 DEF Retried
  <2>7. ~Retried(m) /\ m.id = msgId[m.req]
    BY <1>0, <2>2, <2>5 DEF SessionIds, Retried
  <2>8. SessionIds'
    <3>1. ~marked' => up' = <<>> /\ got' = {}
      BY <1>0, <2>2 DEF session
    <3>2. \A n \in InSession' :
              /\ n.id = msgId'[n.req] \/ Retried(n)'
              /\ msgId'[n.req] = 0 \/ n.id <= msgId'[n.req]
      BY <1>0, <2>2, <2>5, <2>6 DEF SessionIds, maps
    <3>3. \A b, c \in answered' : b.id = c.id => b = c
      BY <1>0, <2>2, <2>3 DEF SessionIds
    <3>4. \A b \in down' : b.id = msgId'[b.req]
      BY <1>0, <2>2, <2>3, <2>7 DEF SessionIds, maps
    <3>5. retries' = 0 =>
              /\ delayed' = {} /\ \A b \in answered' \cup Queued' : b.kind = "done"
      BY <1>0, <2>1, <2>2, <2>3, <2>4 DEF SessionIds, main
    <3> QED
      BY <3>1, <3>2, <3>3, <3>4, <3>5 DEF SessionIds
  <2>9. AnsweredOnce'
    <3>1. lost = 0 => m.req \notin Answered
      BY <1>0, <2>2, <2>5 DEF AnsweredOnce
    <3> QED
      BY <1>0, <2>1, <2>2, <2>3, <2>4, <2>5, <2>6, <3>1 DEF AnsweredOnce, main
  <2> QED
    BY <2>4, <2>8, <2>9 DEF Once
<1>4. ASSUME LoseSession PROVE InOneMap' /\ Once'
  <2>1. /\ UNCHANGED <<main, replies, maps, session, up, retries>>
        /\ lost' = lost + 1 /\ got' = {} /\ down' = {} /\ answered' = {}
    BY <1>4 DEF LoseSession
  <2>2. lost' # 0 /\ retries = 0
    BY <2>1 DEF Counted, NeverBoth
  <2>3. /\ InOneMap' /\ ResendingIsKnown' /\ Settled'
        /\ Queued' = Queued /\ Answered' = Answered
    BY <1>1, <2>1
  <2>4. \A n \in InSession : ~Retried(n)
    BY <1>0, <2>2 DEF SessionIds, Retried
  <2>5. InSession' \subseteq InSession
    BY <2>1 DEF InSession, Elements
  <2>6. SessionIds'
    <3>1. ~marked' => up' = <<>> /\ got' = {}
      BY <1>0, <2>1 DEF session
    <3>2. \A n \in InSession' :
              /\ n.id = msgId'[n.req]
              /\ msgId'[n.req] = 0 \/ n.id <= msgId'[n.req]
      BY <1>0, <2>1, <2>4, <2>5 DEF SessionIds, maps
    <3>3. \A b \in Queued' : b.kind = "done"
      BY <1>0, <2>2, <2>3 DEF SessionIds
    <3> QED
      BY <1>0, <2>1, <2>2, <3>1, <3>2, <3>3 DEF SessionIds, main
  <2>7. AnsweredOnce'
    BY <2>2 DEF AnsweredOnce
  <2> QED
    BY <2>3, <2>6, <2>7 DEF Once
<1> QED
  BY <1>2, <1>3, <1>4 DEF Server


-----------------------------------------------------------------------------
(* Answers and what they say of a request.                                 *)

LEMMA OnceInStep ==
    ASSUME OnceInv, [Next]_vars PROVE OnceInv'
<1>1. Typed' /\ IdsAreUnique' /\ Counted' /\ (NeverBoth' => NeverBoth)
  BY TypesInStep, CountsInStep DEF OnceInv
<1>2. SUFFICES ASSUME NeverBoth' PROVE InOneMap' /\ Once'
  BY <1>1 DEF OnceInv
<1>3. /\ Typed /\ IdsAreUnique /\ Counted /\ NeverBoth /\ InOneMap /\ Once
  BY <1>1, <1>2 DEF OnceInv
<1>4. CASE Main
  BY <1>3, <1>4, OnceInMain
<1>5. CASE Thread
  BY <1>3, <1>5, OnceInThread
<1>6. CASE Server
  BY <1>2, <1>3, <1>6, OnceAtServer
<1>7. CASE UNCHANGED vars
  <2>1. UNCHANGED <<main, replies, maps, session, up, server, budget>>
    BY <1>7 DEF vars
  <2>2. InOneMap' /\ ResendingIsKnown' /\ Travelling' = Travelling
    BY <1>3, <2>1, MapsUntouched DEF Once
  <2>3. Queued' = Queued /\ Answered' = Answered /\ InSession' = InSession
    BY <2>1 DEF Queued, Answered, InSession, Elements, main, server
  <2>4. SessionIds'
    <3>1. /\ ~marked => up' = <<>> /\ got' = {}
          /\ retries = 0 => delayed' = {}
      BY <1>3, <2>1 DEF Once, SessionIds, server, main
    <3> QED
      BY <1>3, <2>1, <2>3, <3>1, SessionKept DEF Once, main, session, server, budget, maps
  <2>5. Settled' /\ AnsweredOnce'
    BY <1>3, <2>1, <2>2, <2>3, PlacesKept DEF Once, Settled, main, server, budget
  <2> QED
    BY <2>2, <2>4, <2>5 DEF Once
<1> QED
  BY <1>4, <1>5, <1>6, <1>7 DEF Next

LEMMA OnceAtFirst == Init => OnceInv
<1> SUFFICES ASSUME Init PROVE OnceInv
  OBVIOUS
<1>1. Typed /\ IdsAreUnique
  BY TypesAtFirst
<1>2. Counted
  BY BoundsAssumption DEF Init, Counted
<1>3. Queued = {} /\ Answered = {} /\ InSession = {}
  BY DEF Init, Queued, Answered, InSession, Elements
<1>4. InOneMap /\ Once
  BY <1>3 DEF Init, InOneMap, Once, SessionIds, ResendingIsKnown, Settled, AnsweredOnce
<1> QED
  BY <1>1, <1>2, <1>4 DEF OnceInv

LEMMA OnceAlways == Spec => []OnceInv
<1>1. OnceInv /\ [Next]_vars => OnceInv'
  BY OnceInStep
<1> QED
  BY OnceAtFirst, <1>1, PTL DEF Spec

(* The maps of the two threads and what the server knows have their types, *)
(* and, as long as the server has not both lost a session and asked for a  *)
(* retry, a request is in one of toSend and haveSent at a time, under the  *)
(* msg_id that is in its buffer (Session, SessionPrivate::tryToSend,       *)
(* requestsAcked, resend).                                                 *)
THEOREM TypeCorrect == Spec => [](Typed /\ Counted /\ (NeverBoth => TypeOK))
<1>1. OnceInv => Typed /\ Counted /\ (NeverBoth => TypeOK)
  BY DEF OnceInv, TypeOK
<1> QED
  BY <1>1, OnceAlways, PTL

(* Under the same condition a session of the server executes a request     *)
(* once: prepareToSend() gives a message a new msg_id only where the old   *)
(* one cannot have been executed.                                          *)
THEOREM ExecutesOnce == Spec => [](NeverBoth => ExecutedOnce)
<1>1. ASSUME OnceInv, NeverBoth PROVE ExecutedOnce
  <2>0. /\ SessionIds /\ IdsAreUnique /\ answered \subseteq [id : Ids, req : Requests, kind : Kinds]
        /\ msgId \in [Requests -> 0..MaxId]
    BY <1>1 DEF OnceInv, Once, Typed
  <2>1. SUFFICES ASSUME NEW a \in answered, NEW b \in answered,
                        a.req = b.req, a.id < b.id, a.kind = "done"
                 PROVE  FALSE
    BY DEF ExecutedOnce
  <2>2. \A c \in answered :
            /\ MessageOf(c) \in InSession /\ MessageOf(c).id = c.id
            /\ MessageOf(c).req = c.req
    BY <2>0 DEF IdsAreUnique, InSession, MessageOf
  <2>3. ~Retried(MessageOf(a))
    <3>1. \A c \in answered : c.id = a.id => c = a
      BY <2>0 DEF SessionIds
    <3> QED
      BY <2>1, <2>2, <3>1 DEF Retried
  <2>4. a.id = msgId[a.req]
    BY <2>0, <2>2, <2>3 DEF SessionIds
  <2>5. msgId[b.req] = 0 \/ b.id <= msgId[b.req]
    BY <2>0, <2>2 DEF SessionIds
  <2>6. a.id \in Nat \ {0} /\ b.id \in Nat
    BY <2>0, BoundsAssumption DEF Ids
  <2> QED
    BY <2>1, <2>4, <2>5, <2>6
<1> QED
  BY <1>1, OnceAlways, PTL

(* Under the same condition a request that was answered is not sent once   *)
(* more, whatever was prepared when the answer came (requestsAcked takes   *)
(* it back from toSend by _resendingIds).                                  *)
THEOREM AnsweredStaysAnswered == Spec => [](NeverBoth => AnsweredIsNotSent)
<1>1. ASSUME OnceInv, NeverBoth PROVE AnsweredIsNotSent
  <2>1. Settled
    BY <1>1 DEF OnceInv, Once
  <2>2. finished \cup {a.req : a \in {b \in Queued : b.kind = "done"}} \subseteq Answered
    BY DEF Answered
  <2> QED
    BY <2>1, <2>2 DEF Settled, Travelling, AnsweredIsNotSent
<1> QED
  BY <1>1, OnceAlways, PTL


-----------------------------------------------------------------------------
(* Nothing is forgotten while no answer comes after too many newer ones.    *)

LEMMA RecentStay ==
    ASSUME Typed, NEW id \in Ids, NEW S \in SUBSET Messages, \A m \in S : m.id = id,
           Cardinality({m \in ackedIds : m.id > id}) < IdsBufferSize
    PROVE  S \subseteq Trim(ackedIds \cup S)
<1>1. SUFFICES ASSUME NEW m \in S
               PROVE  Cardinality({n \in ackedIds \cup S : n.id > m.id}) < IdsBufferSize
  BY DEF Trim
<1>2. m.id = id /\ id \in Int /\ \A n \in S : ~(n.id > id)
  BY BoundsAssumption DEF Ids
<1>3. {n \in ackedIds \cup S : n.id > m.id} = {n \in ackedIds : n.id > id}
  BY <1>2
<1> QED
  BY <1>3

LEMMA AckedAreKnown ==
    ASSUME Typed, NEW id \in Ids, NEW byResponse \in BOOLEAN,
           RequestsAcked(id, byResponse)
    PROVE  /\ \A m \in haveSent \ haveSent' : m.id = id /\ IsAcked(m, byResponse)
           /\ \A r \in toSend \ toSend' :
                  \E m \in resendingIds : m.req = r /\ IsAcked(m, byResponse)
           /\ Cardinality({m \in ackedIds : m.id > id}) < IdsBufferSize =>
                  /\ \A m \in haveSent \ haveSent' : m \in ackedIds'
                  /\ \A r \in toSend \ toSend' :
                         \E m \in ackedIds' : m.id = id /\ m.req = r
<1> DEFINE acked(map) == {m \in map : m.id = id /\ IsAcked(m, byResponse)}
           prepared == {m \in acked(resendingIds) : m.req \in toSend}
           Recent == Cardinality({m \in ackedIds : m.id > id}) < IdsBufferSize
<1>1. CASE \E m \in haveSent : m.id = id
  <2>1. /\ haveSent' = haveSent \ acked(haveSent)
        /\ ackedIds' = Trim(ackedIds \cup acked(haveSent)) /\ toSend' = toSend
    BY <1>1 DEF RequestsAcked
  <2>2. acked(haveSent) \in SUBSET Messages
    BY DEF Typed
  <2>3. Recent => acked(haveSent) \subseteq ackedIds'
    BY <2>1, <2>2, RecentStay
  <2> QED
    BY <2>1, <2>3
<1>2. CASE ~\E m \in haveSent : m.id = id
  <2>1. /\ toSend' = toSend \ {m.req : m \in prepared}
        /\ ackedIds' = Trim(ackedIds \cup prepared) /\ haveSent' = haveSent
    BY <1>2 DEF RequestsAcked, TakeBack
  <2>2. prepared \in SUBSET Messages
    BY DEF Typed
  <2>3. Recent => prepared \subseteq ackedIds'
    BY <2>1, <2>2, RecentStay
  <2>4. ASSUME NEW r \in toSend \ toSend'
        PROVE  \E m \in prepared : m.req = r
    BY <2>1, <2>4
  <2> QED
    BY <2>1, <2>3, <2>4
<1> QED
  BY <1>1, <1>2

LEMMA NoHandlerInStep ==
    ASSUME RetryNow = FALSE, Typed, IdsAreUnique, NoHandler, [Next]_vars
    PROVE  NoHandler'
<1>1. CASE Main
  <2>1. answered' = answered /\ handling' \subseteq handling
        /\ (replies' = replies \/ (replies # <<>> /\ replies' = Tail(replies)))
    <3>1. ASSUME ProcessCallback, SendAgain(Head(replies)) PROVE FALSE
      <4>1. replies # <<>> /\ Head(replies).kind = "now"
        BY <3>1 DEF ProcessCallback, SendAgain
      <4>2. Head(replies) \in Queued
        <5>1. Head(replies) \in Elements(replies)
          BY <4>1, ElementsTail DEF Typed
        <5> QED
          BY <5>1 DEF Elements, Queued
      <4> QED
        BY <4>1, <4>2 DEF NoHandler
    <3> QED
      BY <1>1, <3>1
         DEF Main, SendRequest, Cancel, ProcessCallback, DropReply, CallBack,
             DelayRequest, HandlerReturns, SendDelayed, server, main
  <2>2. Queued' \subseteq Queued
    <3>1. CASE replies' = replies
      BY <3>1 DEF Queued
    <3>2. CASE replies # <<>> /\ replies' = Tail(replies)
      BY <3>2, QueueHead
    <3> QED
      BY <2>1, <3>1, <3>2
  <2> QED
    BY <2>1, <2>2 DEF NoHandler
<1>2. CASE Thread
  <2>1. ASSUME NEW a \in down, ReceiveAnswer(a) PROVE NoHandler'
    <3>1. /\ a \in answered /\ handling' = handling /\ answered' = answered
      BY <2>1 DEF ReceiveAnswer, Typed, main
    <3>2. replies' = replies \/ replies' = Append(replies, a)
      BY <2>1, AnswerIsKnown
    <3>3. Queued' \subseteq Queued \cup {a}
      <4>1. /\ a \in Replies(started) /\ replies \in Seq(Replies(started))
        BY <2>1, AnswerIsKnown DEF Typed, Replies
      <4>2. Elements(Append(replies, a)) = Elements(replies) \cup {a}
        BY <4>1, ElementsAppend
      <4>3. Queued = Elements(replies) /\ Queued' = Elements(replies')
        BY DEF Queued, Elements
      <4>4. CASE replies' = replies
        BY <4>4 DEF Queued
      <4>5. CASE replies' = Append(replies, a)
        BY <4>2, <4>3, <4>5
      <4> QED
        BY <3>2, <4>4, <4>5
    <3> QED
      BY <3>1, <3>3 DEF NoHandler
  <2>2. ASSUME ~\E a \in down : ReceiveAnswer(a) PROVE NoHandler'
    <3>1. handling' = handling /\ replies' = replies /\ answered' \subseteq answered
      BY <1>2, <2>2
         DEF Thread, TryToSend, ReceiveAck, ReceiveBadMessage, CheckSentRequests,
             ReceiveLostState, ReceiveNewSession, Connect, Disconnect, ResetSession,
             main, server
    <3> QED
      BY <3>1 DEF NoHandler, Queued
  <2> QED
    BY <2>1, <2>2
<1>3. CASE Server
  <2>1. handling' = handling /\ replies' = replies
    BY <1>3 DEF Server, Deliver, ServerAnswers, ServerAsksToRetry, Answer, Ping,
                LoseSession, main
  <2>2. \A a \in answered' : a \in answered \/ a.kind # "now"
    <3>1. CASE Deliver \/ Ping \/ LoseSession
      BY <3>1 DEF Deliver, Ping, LoseSession
    <3>2. ASSUME NEW m \in got, NEW kind \in {"done", "delay"}, Answer(m, kind)
          PROVE  \A a \in answered' : a \in answered \/ a.kind # "now"
      BY <3>2 DEF Answer
    <3>3. ASSUME NEW m \in got, ServerAnswers(m) \/ ServerAsksToRetry(m)
          PROVE  \E kind \in {"done", "delay"} : Answer(m, kind)
      BY <3>3 DEF ServerAnswers, ServerAsksToRetry
    <3> QED
      BY <1>3, <3>1, <3>2, <3>3 DEF Server
  <2> QED
    BY <2>1, <2>2 DEF NoHandler, Queued
<1>4. CASE UNCHANGED vars
  BY <1>4 DEF vars, main, server, NoHandler, Queued
<1> QED
  BY <1>1, <1>2, <1>3, <1>4 DEF Next


LEMMA RememberedInMain ==
    ASSUME Typed, NoHandler, NoRequestForgotten, Main PROVE NoRequestForgotten'
<1>1. ASSUME NEW r \in Requests, SendRequest(r) PROVE NoRequestForgotten'
  BY <1>1 DEF SendRequest, SendPrepared, NoRequestForgotten, Remembered, Queued
<1>2. ASSUME NEW r \in Requests, Cancel(r) PROVE NoRequestForgotten'
  <2>1. /\ parsers' = parsers \ {r} /\ delayed' = delayed /\ Queued' = Queued
        /\ \A q \in toSend : q # r => q \in toSend'
        /\ \A m \in haveSent : m.req # r => m \in haveSent'
    BY <1>2 DEF Cancel, Queued
  <2> QED
    BY <2>1 DEF NoRequestForgotten, Remembered
<1>3. ASSUME handling = {}, replies # <<>>,
             NEW a, a = Head(replies),
             DropReply(a) \/ CallBack(a) \/ DelayRequest(a) \/ SendAgain(a)
      PROVE  NoRequestForgotten'
  <2>1. replies' = Tail(replies)
    BY <1>3 DEF DropReply, CallBack, DelayRequest, SendAgain
  <2>2. a \in Queued /\ Queued = Queued' \cup {a}
    BY <1>3, <2>1, QueueHead
  <2>3. a.kind # "now"
    BY <2>2 DEF NoHandler
  <2>4. CASE DropReply(a)
    BY <2>2, <2>4 DEF DropReply, main, maps, NoRequestForgotten, Remembered
  <2>5. CASE CallBack(a)
    BY <2>2, <2>5 DEF CallBack, maps, NoRequestForgotten, Remembered
  <2>6. CASE DelayRequest(a)
    BY <2>2, <2>6 DEF DelayRequest, maps, NoRequestForgotten, Remembered
  <2> QED
    BY <1>3, <2>3, <2>4, <2>5, <2>6 DEF SendAgain
<1>4. ASSUME HandlerReturns PROVE NoRequestForgotten'
  BY <1>4 DEF HandlerReturns, NoHandler
<1>5. ASSUME NEW r \in delayed, SendDelayed(r) PROVE NoRequestForgotten'
  <2>1. /\ parsers' = parsers /\ delayed' = delayed \ {r} /\ Queued' = Queued
        /\ haveSent' = haveSent /\ toSend \subseteq toSend'
        /\ r \in parsers => r \in toSend'
    BY <1>5 DEF SendDelayed, SendPrepared, Queued, maps
  <2> QED
    BY <2>1 DEF NoRequestForgotten, Remembered
<1> QED
  BY <1>1, <1>2, <1>3, <1>4, <1>5 DEF Main, ProcessCallback

LEMMA RememberedInThread ==
    ASSUME Typed, IdsAreUnique, AnswersAreRecent, NoRequestForgotten, Thread
    PROVE  NoRequestForgotten'
<1>1. ASSUME NEW sending \in Fronts, TryToSend(sending) PROVE NoRequestForgotten'
  <2>1. sending \in SUBSET toSend
    BY <1>1 DEF Fronts
  <2> DEFINE messages == {[id |-> msgId'[r], req |-> r] : r \in sending}
  <2>2. toSend' = toSend \ sending /\ haveSent' = haveSent \cup messages
    BY <1>1, <2>1, SentMaps
  <2>3. ASSUME NEW r \in sending PROVE \E m \in haveSent' : m.req = r
    <3> DEFINE sent == [id |-> msgId'[r], req |-> r]
    <3>1. sent \in messages /\ sent.req = r
      OBVIOUS
    <3> HIDE DEF sent, messages
    <3> QED
      BY <3>1, <2>2
  <2>4. parsers' = parsers /\ delayed' = delayed /\ Queued' = Queued
    BY <1>1 DEF TryToSend, main, Queued
  <2> HIDE DEF messages
  <2> QED
    BY <2>2, <2>3, <2>4 DEF NoRequestForgotten, Remembered
<1>2. ASSUME NEW a \in down, ReceiveAnswer(a) PROVE NoRequestForgotten'
  <2>0. /\ a.id \in Ids /\ a \in answered /\ UNCHANGED main
        /\ Cardinality({m \in ackedIds : m.id > a.id}) < IdsBufferSize
    BY <1>2 DEF ReceiveAnswer, Typed, AnswersAreRecent
  <2>1. /\ \A m \in haveSent \ haveSent' : m \in ackedIds' /\ m.id = a.id
        /\ \A r \in toSend \ toSend' : \E m \in ackedIds' : m.id = a.id /\ m.req = r
        /\ ackedIds' \subseteq ackedIds \cup haveSent \cup resendingIds
    <3> DEFINE yes == TRUE
    <3>1. yes \in BOOLEAN /\ RequestsAcked(a.id, yes)
      BY <1>2 DEF ReceiveAnswer
    <3> HIDE DEF yes
    <3> QED
      BY <2>0, <3>1, AckedAreKnown, AckedMaps
  <2>2. \A m \in ackedIds' : m.id = a.id => m.req = a.req
    <3>1. MessageOf(a) \in Everywhere /\ MessageOf(a).id = a.id /\ MessageOf(a).req = a.req
      BY <2>0 DEF IdsAreUnique, Everywhere, InSession, MessageOf
    <3>2. ackedIds' \subseteq Everywhere
      BY <2>1 DEF Everywhere
    <3> QED
      BY <3>1, <3>2 DEF IdsAreUnique
  <2>3. /\ a \in Replies(started) /\ replies \in Seq(Replies(started))
        /\ replies' = replies \/ replies' = Append(replies, a)
        /\ (\E m \in ackedIds' : m.id = a.id) => replies' = Append(replies, a)
    <3>1. /\ a \in Replies(started)
          /\ replies' = replies \/ replies' = Append(replies, a)
          /\ (\E m \in resendingIds' \cup ackedIds' \cup haveSent' : m.id = a.id) =>
               replies' = Append(replies, a)
      BY <1>2, AnswerIsKnown
    <3> QED
      BY <3>1 DEF Typed, Replies
  <2>4. Queued \subseteq Queued' /\ (replies' = Append(replies, a) => a \in Queued')
    <3>1. Elements(Append(replies, a)) = Elements(replies) \cup {a}
      BY <2>3, ElementsAppend
    <3>2. Queued = Elements(replies) /\ Queued' = Elements(replies')
      BY DEF Queued, Elements
    <3>3. CASE replies' = replies
      <4>1. replies # Append(replies, a)
        BY <2>3
      <4> QED
        BY <3>3, <4>1 DEF Queued
    <3>4. CASE replies' = Append(replies, a)
      BY <3>1, <3>2, <3>4
    <3> QED
      BY <2>3, <3>3, <3>4
  <2>5. ASSUME NEW r \in parsers PROVE Remembered(r)'
    <3>1. Remembered(r)
      BY DEF NoRequestForgotten
    <3>2. CASE r \in toSend
      BY <2>1, <2>2, <2>3, <2>4, <3>2 DEF Remembered
    <3>3. CASE r \in delayed
      BY <2>0, <3>3 DEF Remembered, main
    <3>4. ASSUME NEW m \in haveSent, m.req = r PROVE Remembered(r)'
      BY <2>1, <2>2, <2>3, <2>4, <3>4 DEF Remembered
    <3>5. ASSUME NEW b \in Queued, b.req = r PROVE Remembered(r)'
      BY <2>4, <3>5 DEF Remembered
    <3> QED
      BY <3>1, <3>2, <3>3, <3>4, <3>5 DEF Remembered
  <2> QED
    BY <2>0, <2>5 DEF NoRequestForgotten, main
<1>3. ASSUME NEW m \in haveSent \cup resendingIds, ReceiveAck(m)
      PROVE  NoRequestForgotten'
  <2>0. m.id \in Ids /\ UNCHANGED <<main, replies>>
    BY <1>3 DEF ReceiveAck, Typed, Messages
  <2>1. /\ \A k \in haveSent \ haveSent' : k.req \notin parsers
        /\ \A r \in toSend \ toSend' : r \notin parsers
    <3> DEFINE no == FALSE
    <3>1. no \in BOOLEAN /\ RequestsAcked(m.id, no) /\ ~no
      BY <1>3 DEF ReceiveAck
    <3> HIDE DEF no
    <3>2. /\ \A k \in haveSent \ haveSent' : IsAcked(k, no)
          /\ \A r \in toSend \ toSend' : \E k \in resendingIds : k.req = r /\ IsAcked(k, no)
      BY <2>0, <3>1, AckedAreKnown
    <3> QED
      BY <3>1, <3>2 DEF IsAcked
  <2>2. Queued' = Queued
    BY <2>0 DEF Queued
  <2> QED
    BY <2>0, <2>1, <2>2 DEF main, NoRequestForgotten, Remembered
<1>4. ASSUME NEW messages \in SUBSET haveSent, Resend(messages),
             UNCHANGED <<main, replies>>
      PROVE  NoRequestForgotten'
  <2>1. Queued' = Queued
    BY <1>4 DEF Queued
  <2> QED
    BY <1>4, <2>1 DEF Resend, main, NoRequestForgotten, Remembered
<1>5. ASSUME UNCHANGED <<main, replies, maps>> PROVE NoRequestForgotten'
  BY <1>5 DEF main, maps, NoRequestForgotten, Remembered, Queued
<1>6. ASSUME NEW m \in haveSent, ReceiveBadMessage(m) \/ ReceiveLostState(m)
      PROVE  NoRequestForgotten'
  <2>1. {m} \in SUBSET haveSent /\ Resend({m}) /\ UNCHANGED <<main, replies>>
    BY <1>6 DEF ReceiveBadMessage, ReceiveLostState
  <2> QED
    BY <1>4, <2>1
<1>7. ASSUME ReceiveNewSession \/ Connect PROVE NoRequestForgotten'
  <2>1. \E messages \in SUBSET haveSent : Resend(messages)
    BY <1>7 DEF ReceiveNewSession, Connect
  <2>2. UNCHANGED <<main, replies>>
    BY <1>7 DEF ReceiveNewSession, Connect
  <2> QED
    BY <1>4, <2>1, <2>2
<1>8. ASSUME CheckSentRequests \/ Disconnect \/ ResetSession PROVE NoRequestForgotten'
  BY <1>5, <1>8 DEF CheckSentRequests, Disconnect, ResetSession
<1> QED
  BY <1>1, <1>2, <1>3, <1>6, <1>7, <1>8 DEF Thread

LEMMA RememberedInStep ==
    ASSUME Typed, IdsAreUnique, NoHandler, [Next]_vars, AnswersAreRecent,
           NoRequestForgotten
    PROVE  NoRequestForgotten'
<1>1. CASE Main
  BY <1>1, RememberedInMain
<1>2. CASE Thread
  BY <1>2, RememberedInThread
<1>3. CASE Server \/ UNCHANGED vars
  <2>1. UNCHANGED <<main, replies, maps>>
    BY <1>3 DEF Server, Deliver, ServerAnswers, ServerAsksToRetry, Answer, Ping,
                LoseSession, vars
  <2> QED
    BY <2>1 DEF main, maps, NoRequestForgotten, Remembered, Queued
<1> QED
  BY <1>1, <1>2, <1>3 DEF Next

(* While no error is retried at once, and as long as no answer comes after *)
(* as many newer requests were answered as _ackedIds keeps, a request      *)
(* somebody waits for is on its way, its answer is, or a retry is due,     *)
(* whatever breaks, is lost, sent again or cancelled                       *)
(* (SessionPrivate::requestsAcked, wasSent, resend, Instance).             *)
THEOREM RequestsAreRemembered ==
    ASSUME RetryNow = FALSE
    PROVE  Spec /\ []AnswersAreRecent => []NoRequestForgotten
<1> DEFINE Safe == Typed /\ IdsAreUnique /\ NoHandler /\ NoRequestForgotten
<1>1. Init => Safe
  <2>1. Init => Typed /\ IdsAreUnique
    BY TypesAtFirst
  <2>2. Init => NoHandler /\ NoRequestForgotten
    BY DEF Init, NoHandler, NoRequestForgotten, Queued
  <2> QED
    BY <2>1, <2>2
<1>2. Safe /\ AnswersAreRecent /\ [Next]_vars => Safe'
  BY TypesInStep, NoHandlerInStep, RememberedInStep
<1>3. Safe => NoRequestForgotten
  OBVIOUS
<1> QED
  BY <1>1, <1>2, <1>3, PTL DEF Spec

-----------------------------------------------------------------------------
(* What a caller is promised.                                              *)

(* Answers are offered where one was or, by the server, where none was.    *)
LEMMA OfferedStays ==
    ASSUME down' \subseteq down, Queued' \subseteq Queued
    PROVE  Offered' \in SUBSET Offered
BY DEF Offered

LEMMA StepKeepsPromise ==
    ASSUME Typed, IdsAreUnique, [Next]_vars
    PROVE  [Promise!Next]_Promise!vars
<1> DEFINE quiet == UNCHANGED <<started, parsers, handling, finished>>
<1>1. ASSUME quiet, Offered' \in SUBSET Offered PROVE Promise!Lose
  BY <1>1 DEF Promise!Lose
<1>2. ASSUME quiet, down' \subseteq down, Queued' \subseteq Queued
      PROVE  Promise!Next
  BY <1>1, <1>2, OfferedStays DEF Promise!Next
<1>3. ASSUME replies' = replies PROVE Queued' = Queued
  BY <1>3 DEF Queued
<1>4. ASSUME NEW r \in Requests, SendRequest(r) PROVE Promise!Next
  <2>1. /\ started = 1..(r - 1) /\ started' = started \cup {r} /\ handling = {}
        /\ parsers' = parsers \cup {r} /\ UNCHANGED <<handling, finished, replies, down>>
    BY <1>4 DEF SendRequest, server
  <2>2. r \notin started
    BY <2>1 DEF Requests
  <2>3. Offered' = Offered
    BY <1>3, <2>1 DEF Offered
  <2> QED
    BY <2>1, <2>2, <2>3 DEF Promise!Next, Promise!Call
<1>5. ASSUME NEW r \in Requests, Cancel(r) PROVE Promise!Next
  <2>1. /\ handling = {} /\ r \in parsers /\ parsers' = parsers \ {r}
        /\ UNCHANGED <<started, handling, finished, replies, down>>
    BY <1>5 DEF Cancel, server
  <2>2. Offered' = Offered
    BY <1>3, <2>1 DEF Offered
  <2> QED
    BY <2>1, <2>2 DEF Promise!Next, Promise!Cancel
<1>6. ASSUME ProcessCallback PROVE Promise!Next \/ UNCHANGED Promise!vars
  <2> DEFINE a == Head(replies)
  <2>1. /\ handling = {} /\ replies # <<>>
        /\ DropReply(a) \/ CallBack(a) \/ DelayRequest(a) \/ SendAgain(a)
    BY <1>6 DEF ProcessCallback
  <2>2. replies' = Tail(replies) /\ UNCHANGED down
    BY <2>1 DEF DropReply, CallBack, DelayRequest, SendAgain, server
  <2>3. a \in Queued /\ Queued = Queued' \cup {a}
    BY <2>1, <2>2, QueueHead
  <2>4. Offered' \in SUBSET Offered
    BY <2>2, <2>3, OfferedStays
  <2> HIDE DEF a
  <2>5. CASE DropReply(a) \/ DelayRequest(a)
    BY <1>1, <2>4, <2>5 DEF DropReply, DelayRequest, main, Promise!Next
  <2>6. CASE CallBack(a)
    <3>1. /\ a.req \in parsers /\ a.kind = "done" /\ parsers' = parsers \ {a.req}
          /\ finished' = finished \cup {a.req} /\ UNCHANGED <<started, handling>>
      BY <2>6 DEF CallBack
    <3>2. a.req \in Offered
      BY <2>3, <3>1 DEF Offered
    <3>3. a.req \in Requests
      BY <3>1 DEF Typed
    <3>4. (parsers \cup handling)' = (parsers \cup handling) \ {a.req}
      BY <2>1, <3>1
    <3>5. Promise!Return(a.req)
      BY <2>4, <3>1, <3>2, <3>4 DEF Promise!Return
    <3> QED
      BY <3>3, <3>5 DEF Promise!Next
  <2>7. CASE SendAgain(a)
    <3>1. /\ a.req \in parsers /\ parsers' = parsers \ {a.req}
          /\ handling' = handling \cup {a.req} /\ UNCHANGED <<started, finished>>
      BY <2>7 DEF SendAgain
    <3>2. (parsers \cup handling)' = parsers \cup handling
      BY <3>1
    <3> QED
      BY <2>4, <3>1, <3>2 DEF Promise!Next, Promise!Lose
  <2> QED
    BY <2>1, <2>5, <2>6, <2>7
<1>7. ASSUME HandlerReturns PROVE Promise!Next
  <2>1. /\ parsers' = parsers \cup handling /\ handling' = {}
        /\ UNCHANGED <<started, finished, replies, down>>
    BY <1>7 DEF HandlerReturns, server
  <2>2. Offered' \in SUBSET Offered
    BY <1>3, <2>1, OfferedStays
  <2> QED
    BY <2>1, <2>2 DEF Promise!Next, Promise!Lose
<1>8. ASSUME NEW r \in delayed, SendDelayed(r) PROVE Promise!Next
  BY <1>2, <1>3, <1>8 DEF SendDelayed, server
<1>9. ASSUME NEW a \in down, ReceiveAnswer(a) PROVE Promise!Next
  <2>1. /\ a \in Replies(started) /\ down' = down \ {a} /\ quiet
        /\ replies' = replies \/ replies' = Append(replies, a)
    BY <1>9, AnswerIsKnown DEF ReceiveAnswer, main
  <2>2. Queued' \subseteq Queued \cup {a}
    <3>1. replies \in Seq(Replies(started))
      BY DEF Typed, Replies
    <3>2. Elements(Append(replies, a)) = Elements(replies) \cup {a}
      BY <2>1, <3>1, ElementsAppend
    <3> QED
      BY <1>3, <2>1, <3>2 DEF Queued, Elements
  <2>3. Offered' \in SUBSET Offered
    BY <2>1, <2>2 DEF Offered
  <2> QED
    BY <1>1, <2>1, <2>3 DEF Promise!Next
<1>10. ASSUME NEW m \in got, NEW kind, Answer(m, kind) PROVE Promise!Next
  <2> DEFINE a == [id |-> m.id, req |-> m.req, kind |-> kind]
  <2>1. /\ down' = down \cup {a} /\ a.req = m.req /\ quiet /\ Queued' = Queued
    BY <1>3, <1>10 DEF Answer, main
  <2>2. m.req \in started /\ m.req \in Requests
    <3>1. m \in Everywhere
      BY DEF Everywhere, InSession
    <3> QED
      BY <3>1 DEF IdsAreUnique, Typed
  <2> HIDE DEF a
  <2>3. Offered' = Offered \/ Offered' = Offered \cup {m.req}
    BY <2>1 DEF Offered
  <2>4. Promise!Offer(m.req) \/ Promise!Lose
    BY <2>1, <2>2, <2>3 DEF Promise!Offer, Promise!Lose
  <2> QED
    BY <2>2, <2>4 DEF Promise!Next
<1>11. CASE Main
  BY <1>4, <1>5, <1>6, <1>7, <1>8, <1>11 DEF Main
<1>12. CASE Thread
  <2>1. ASSUME ~\E a \in down : ReceiveAnswer(a)
        PROVE  quiet /\ down' \subseteq down /\ replies' = replies
    BY <1>12, <2>1 DEF Thread, TryToSend, ReceiveAck, ReceiveBadMessage,
          CheckSentRequests, ReceiveLostState, ReceiveNewSession, Connect,
          Disconnect, ResetSession, main, server
  <2> QED
    BY <1>2, <1>3, <1>9, <2>1
<1>13. CASE Server
  <2>1. CASE \E m \in got : ServerAnswers(m) \/ ServerAsksToRetry(m)
    BY <1>10, <2>1 DEF ServerAnswers, ServerAsksToRetry
  <2>2. CASE Deliver \/ Ping \/ LoseSession
    <3>1. quiet /\ down' \subseteq down /\ replies' = replies
      BY <2>2 DEF Deliver, Ping, LoseSession, main
    <3> QED
      BY <1>2, <1>3, <3>1
  <2> QED
    BY <1>13, <2>1, <2>2 DEF Server
<1>14. CASE UNCHANGED vars
  <2>1. quiet /\ down' = down /\ replies' = replies
    BY <1>14 DEF vars, main, server
  <2> QED
    BY <1>2, <1>3, <2>1
<1> QED
  BY <1>11, <1>12, <1>13, <1>14 DEF Next

(* A request's callback runs at most once, never after cancel(), and only  *)
(* for an answer the server gave to that very request, whatever connections *)
(* break, sessions are reset or lost, and messages are sent again           *)
(* (Instance::Private::processCallback, SessionPrivate::wasSent).          *)
THEOREM CallsBackOnce == Spec => CalledBackOnce
<1>1. Init => Promise!Init
  BY DEF Init, Promise!Init, Offered, Queued
<1>2. Init => Typed /\ IdsAreUnique
  BY TypesAtFirst
<1>3. Typed /\ IdsAreUnique /\ [Next]_vars => (Typed /\ IdsAreUnique)'
  BY TypesInStep
<1>4. Typed /\ IdsAreUnique /\ [Next]_vars => [Promise!Next]_Promise!vars
  BY StepKeepsPromise
<1> QED
  BY <1>1, <1>2, <1>3, <1>4, PTL DEF Spec, CalledBackOnce, Promise!Spec
=============================================================================
