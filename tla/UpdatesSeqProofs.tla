--------------------------- MODULE UpdatesSeqProofs ---------------------------
(***************************************************************************)
(* For every number of containers, results, failures and sessions: types   *)
(* are kept, waiting containers have their timer, no container is skipped, *)
(* and containers are fed in the order of their seq.                       *)
(***************************************************************************)
EXTENDS UpdatesSeq, TLAPS, FiniteSetTheorems, SequenceTheorems

-----------------------------------------------------------------------------
(* The buffer and what is fed from it.                                     *)

(* What setState() takes from the buffer is an interval behind the seq, of *)
(* as many containers as it takes.                                         *)
LEMMA FollowingIsInterval ==
    ASSUME bySeqUpdates \in SUBSET (1..MaxSeq), NEW q \in Nat
    PROVE  /\ Cardinality(Following(q)) \in Nat
           /\ Following(q) = (q + 1)..(q + Cardinality(Following(q)))
  <1> DEFINE F == Following(q)
  <1>1. IsFiniteSet(F) /\ Cardinality(F) \in Nat
    <2>1. MaxSeq \in Int /\ 1 \in Int
      BY SeqAssumption
    <2>2. IsFiniteSet(1..MaxSeq)
      BY <2>1, FS_Interval, Zenon
    <2>3. F \in SUBSET (1..MaxSeq)
      BY DEF Following
    <2> QED  BY <2>2, <2>3, FS_Subset, FS_CardinalityType
  <1>2. PICK n \in Nat : n = Cardinality(F)
    BY <1>1
  <1>3. PICK a \in Int : a = q + 1
    OBVIOUS
  <1>4. ASSUME NEW x \in F PROVE x \in a..(q + n)
    <2>1. /\ x \in Nat /\ q < x /\ a..x \subseteq bySeqUpdates
      BY <1>3 DEF Following
    <2>2. ASSUME NEW y \in a..x PROVE y \in F
      <3>1. a..y \subseteq a..x /\ q < y /\ y \in bySeqUpdates
        BY <1>3, <2>1, <2>2
      <3> QED  BY <1>3, <2>1, <3>1 DEF Following
    <2>3. a..x \in SUBSET F
      BY <2>2
    <2>4. Cardinality(a..x) = x - a + 1
      <3>1. x \in Int /\ ~(a > x)
        BY <1>3, <2>1
      <3>2. Cardinality(a..x) = IF a > x THEN 0 ELSE x - a + 1
        BY <3>1, FS_Interval, Zenon
      <3> QED  BY <3>1, <3>2
    <2>5. Cardinality(a..x) <= n
      BY <1>1, <1>2, <2>3, FS_Subset
    <2> QED  BY <1>2, <1>3, <2>1, <2>4, <2>5
  <1>5. F = a..(q + n)
    <2>1. PICK b \in Int : b = q + n
      BY <1>2
    <2>2. IsFiniteSet(a..b) /\ Cardinality(a..b) = n
      <3>1. IsFiniteSet(a..b) /\ Cardinality(a..b) = IF a > b THEN 0 ELSE b - a + 1
        BY FS_Interval, Zenon
      <3> QED  BY <1>2, <1>3, <2>1, <3>1
    <2>3. F \in SUBSET (a..b)
      BY <1>4, <2>1
    <2> QED  BY <1>2, <2>1, <2>2, <2>3, FS_Subset
  <1> QED  BY <1>1, <1>2, <1>3, <1>5

(* Feeding the containers from first to last appends exactly those, and    *)
(* keeps the order when all that was fed is older.                         *)
LEMMA FeedEffect ==
    ASSUME fed \in Seq(1..MaxSeq), NEW a \in Nat \ {0}, NEW b \in 0..MaxSeq,
           a <= b + 1, Feed(a, b)
    PROVE  /\ fed' \in Seq(1..MaxSeq)
           /\ Fed' = Fed \cup a..b
           /\ InOrder /\ (\A s \in Fed : s < a) => InOrder'
  <1>0. b \in Nat /\ b <= MaxSeq /\ MaxSeq \in Nat
    BY SeqAssumption
  <1>1. PICK n \in Nat : n = b - a + 1
    BY <1>0
  <1> DEFINE r == [i \in 1..n |-> a + i - 1]
  <1>2. r \in Seq(1..MaxSeq) /\ Len(r) = n
    <2>1. \A i \in 1..n : a + i - 1 \in 1..MaxSeq
      BY <1>0, <1>1
    <2>2. r \in [1..n -> 1..MaxSeq]
      BY <2>1
    <2>3. r \in Seq(1..MaxSeq)
      BY <2>1
    <2>4. DOMAIN r = 1..n /\ DOMAIN r = 1..Len(r) /\ Len(r) \in Nat
      BY <2>3, LenProperties
    <2> QED  BY <2>3, <2>4
  <1>3. fed' = fed \o r
    BY <1>1 DEF Feed
  <1>4. PICK m \in Nat : m = Len(fed)
    BY LenProperties
  <1>5. /\ fed' \in Seq(1..MaxSeq) /\ Len(fed') = m + n
        /\ \A i \in 1..m : fed'[i] = fed[i]
        /\ \A i \in (m + 1)..(m + n) : fed'[i] = a + (i - m) - 1
    <2> HIDE DEF r
    <2>1. /\ fed \o r \in Seq(1..MaxSeq) /\ Len(fed \o r) = m + n
          /\ \A i \in 1..(m + n) : (fed \o r)[i] =
                IF i <= m THEN fed[i] ELSE r[i - m]
      BY <1>2, <1>4, ConcatProperties
    <2>2. \A i \in (m + 1)..(m + n) : i - m \in 1..n /\ ~(i <= m) /\ i \in 1..(m + n)
      OBVIOUS
    <2>3. \A i \in 1..m : i <= m /\ i \in 1..(m + n)
      OBVIOUS
    <2>4. \A i \in 1..n : r[i] = a + i - 1
      BY DEF r
    <2> QED  BY <1>3, <2>1, <2>2, <2>3, <2>4
  <1>6. DOMAIN fed = 1..m /\ DOMAIN fed' = 1..(m + n)
    BY <1>4, <1>5, LenProperties
  <1>7. \A i \in 1..(m + n) : i \in 1..m \/ i \in (m + 1)..(m + n)
    OBVIOUS
  <1>8. Fed' = Fed \cup a..b
    <2>1. ASSUME NEW s \in Fed' PROVE s \in Fed \cup a..b
      <3>1. PICK i \in 1..(m + n) : s = fed'[i]
        BY <1>6, <2>1 DEF Fed
      <3>2. CASE i \in 1..m
        BY <1>5, <1>6, <3>1, <3>2 DEF Fed
      <3>3. CASE i \in (m + 1)..(m + n)
        BY <1>0, <1>1, <1>5, <3>1, <3>3
      <3> QED  BY <1>7, <3>2, <3>3
    <2>2. ASSUME NEW s \in Fed PROVE s \in Fed'
      <3>1. PICK i \in 1..m : s = fed[i]
        BY <1>6 DEF Fed
      <3> QED  BY <1>5, <1>6, <3>1 DEF Fed
    <2>3. ASSUME NEW s \in a..b PROVE s \in Fed'
      <3>1. PICK i \in Nat : i = m + (s - a) + 1
        BY <1>0, <2>3
      <3>2. i \in (m + 1)..(m + n) /\ i \in 1..(m + n) /\ a + (i - m) - 1 = s
        BY <1>0, <1>1, <2>3, <3>1
      <3> QED  BY <1>5, <1>6, <3>2 DEF Fed
    <2> QED  BY <2>1, <2>2, <2>3
  <1>9. ASSUME InOrder, \A s \in Fed : s < a PROVE InOrder'
    <2> SUFFICES ASSUME NEW i \in 1..(m + n), NEW j \in 1..(m + n), i < j
                 PROVE  fed'[i] < fed'[j]
      BY <1>6 DEF InOrder
    <2>1. CASE i \in 1..m /\ j \in 1..m
      BY <1>5, <1>6, <1>9, <2>1 DEF InOrder
    <2>2. CASE i \in 1..m /\ j \in (m + 1)..(m + n)
      <3>1. fed'[i] \in Fed /\ fed'[i] < a
        BY <1>5, <1>6, <1>9, <2>2 DEF Fed
      <3>2. fed'[j] = a + (j - m) - 1 /\ fed'[i] \in Int
        BY <1>5, <2>2, <1>6, <1>0, ElementOfSeq
      <3> QED  BY <2>2, <3>1, <3>2
    <2>3. CASE i \in (m + 1)..(m + n) /\ j \in (m + 1)..(m + n)
      BY <1>5, <2>3
    <2> QED  BY <1>7, <2>1, <2>2, <2>3
  <1> QED  BY <1>5, <1>8, <1>9

(* setState(q): where it leads, what it puts into the data, what it leaves *)
(* in the buffer, and that what is left has its timer.                     *)
LEMMA SetSeqEffect ==
    ASSUME TypeOK, NEW q \in 0..MaxSeq, NEW before \in SUBSET (1..MaxSeq),
           SetSeq(q, before)
    PROVE  /\ updatesSeq' \in q..MaxSeq
           /\ Following(q) = (q + 1)..updatesSeq'
           /\ (q + 1)..updatesSeq' \subseteq bySeqUpdates
           /\ have' = have \cup before \cup (q + 1)..updatesSeq'
           /\ bySeqUpdates' = {s \in bySeqUpdates : s > updatesSeq'}
           /\ bySeqTimer' = (IF bySeqUpdates' = {} THEN 0 ELSE Wait)
           /\ age' \in Nat
  <1>0. bySeqUpdates \in SUBSET (1..MaxSeq) /\ have \in SUBSET (1..MaxSeq)
    BY DEF TypeOK
  <1>1. q \in Nat /\ MaxSeq \in Nat /\ bySeqUpdates \in SUBSET (1..MaxSeq)
    BY <1>0, SeqAssumption
  <1>2. PICK n \in Nat : n = Cardinality(Following(q))
    BY <1>1, FollowingIsInterval
  <1>3. Following(q) = (q + 1)..(q + n)
    BY <1>1, <1>2, FollowingIsInterval
  <1>4. updatesSeq' = q + n
    BY <1>2 DEF SetSeq
  <1>5. (q + 1)..(q + n) \subseteq bySeqUpdates
    BY <1>3 DEF Following
  <1>6. q + n \in q..MaxSeq
    <2>1. CASE n = 0
      BY <1>1, <2>1
    <2>2. CASE n # 0
      <3>1. q + n \in (q + 1)..(q + n)
        BY <1>1, <2>2
      <3> QED  BY <1>1, <1>5, <3>1
    <2> QED  BY <2>1, <2>2
  <1>7. /\ have' = have \cup before \cup Following(q)
        /\ bySeqUpdates' = {s \in bySeqUpdates : s > q + n}
        /\ bySeqTimer' = (IF bySeqUpdates' = {} THEN 0 ELSE Wait)
        /\ age' \in Nat
    BY <1>2 DEF SetSeq, Keep, TypeOK
  <1> QED  BY <1>3, <1>4, <1>5, <1>6, <1>7

(* A container applied in its turn, and those of the buffer behind it.     *)
FedFrom(s) ==
    /\ s = updatesSeq + 1 /\ updatesSeq' \in s..MaxSeq
    /\ (s + 1)..updatesSeq' \subseteq bySeqUpdates
    /\ have' = have \cup s..updatesSeq' /\ Feed(s, updatesSeq')

RestWaits ==
    /\ bySeqUpdates' = {s \in bySeqUpdates : s > updatesSeq'}
    /\ bySeqTimer' = (IF bySeqUpdates' = {} THEN 0 ELSE Wait)
    /\ age' \in Nat

(* applyUpdates(): dropped, kept for later, or fed with what follows, and  *)
(* then the difference may have been asked for.                            *)
LEMMA ApplyEffect ==
    ASSUME TypeOK, NEW s \in 1..MaxSeq, ApplyUpdates(s)
    PROVE  \/ UNCHANGED <<data, buffer, exchange>>
           \/ /\ s > updatesSeq + 1 /\ UNCHANGED <<data, exchange>>
              /\ bySeqUpdates' = bySeqUpdates \cup {s} /\ bySeqTimer' = Wait
              /\ age' \in Nat
           \/ FedFrom(s) /\ RestWaits /\ UNCHANGED exchange
           \/ FedFrom(s) /\ RequestDifference
  <1>1. CASE DropKnown(s)
    BY <1>1 DEF DropKnown
  <1>2. CASE BufferEarly(s)
    BY <1>2 DEF BufferEarly, Keep, TypeOK
  <1>3. /\ bySeqUpdates \in SUBSET (1..MaxSeq) /\ updatesSeq \in Nat
        /\ s \in Nat /\ s <= MaxSeq /\ MaxSeq \in Nat
    <2>1. MaxSeq \in Nat
      BY SeqAssumption
    <2>2. bySeqUpdates \in SUBSET (1..MaxSeq) /\ updatesSeq \in 0..MaxSeq
      BY DEF TypeOK
    <2> QED  BY <2>1, <2>2
  <1>4. CASE FeedNext(s)
    <2>1. s \in 0..MaxSeq /\ {s} \in SUBSET (1..MaxSeq) /\ SetSeq(s, {s})
      BY <1>3, <1>4 DEF FeedNext
    <2>2. /\ updatesSeq' \in s..MaxSeq
          /\ (s + 1)..updatesSeq' \subseteq bySeqUpdates
          /\ have' = have \cup {s} \cup (s + 1)..updatesSeq'
          /\ RestWaits
      BY <2>1, SetSeqEffect DEF RestWaits
    <2>3. {s} \cup (s + 1)..updatesSeq' = s..updatesSeq'
      BY <1>3, <2>2
    <2> QED  BY <1>4, <2>2, <2>3 DEF FeedNext, FedFrom
  <1>5. CASE FeedNextAndAsk(s)
    <2>1. PICK last \in {s} \cup Following(s) :
             /\ updatesSeq' = last /\ s = updatesSeq + 1
             /\ Feed(s, last) /\ have' = have \cup s..last
             /\ RequestDifference
      BY <1>5 DEF FeedNextAndAsk
    <2>2. last \in s..MaxSeq /\ (s + 1)..last \subseteq bySeqUpdates
      <3>1. CASE last = s
        BY <1>3, <3>1
      <3>2. CASE last \in Following(s)
        BY <1>3, <3>2 DEF Following
      <3> QED  BY <3>1, <3>2
    <2> QED  BY <2>1, <2>2 DEF FedFrom
  <1> QED  BY <1>1, <1>2, <1>4, <1>5 DEF ApplyUpdates

(* stateDone(), differenceDone(): the seq stays, or is set and the buffer  *)
(* behind it is fed.                                                       *)
LEMMA DoneEffect ==
    ASSUME TypeOK, NEW a \in answers, DifferenceDone(a)
    PROVE  /\ a.seq \in 0..MaxSeq
           /\ answers' = {} /\ requesting' = FALSE
           /\ UNCHANGED <<asked, failTimer, server, budget>>
           /\ \/ /\ a.seq \in {0, updatesSeq} /\ have' = have \cup 1..a.seq
                 /\ UNCHANGED <<updatesSeq, fed, buffer>>
              \/ /\ updatesSeq' \in a.seq..MaxSeq
                 /\ (a.seq + 1)..updatesSeq' \subseteq bySeqUpdates
                 /\ have' = have \cup 1..updatesSeq'
                 /\ Feed(a.seq + 1, updatesSeq')
                 /\ RestWaits
  <1>1. a.seq \in 0..MaxSeq /\ MaxSeq \in Nat
    BY SeqAssumption DEF TypeOK, Answers
  <1>2. CASE SetSeq(a.seq, 1..a.seq) /\ Feed(a.seq + 1, updatesSeq')
    <2>1. 1..a.seq \in SUBSET (1..MaxSeq)
      BY <1>1
    <2>2. /\ updatesSeq' \in a.seq..MaxSeq
          /\ (a.seq + 1)..updatesSeq' \subseteq bySeqUpdates
          /\ have' = have \cup 1..a.seq \cup (a.seq + 1)..updatesSeq'
          /\ RestWaits
      BY <1>1, <1>2, <2>1, SetSeqEffect DEF RestWaits
    <2>3. 1..a.seq \cup (a.seq + 1)..updatesSeq' = 1..updatesSeq'
      BY <1>1, <2>2
    <2> QED  BY <1>1, <1>2, <2>2, <2>3 DEF DifferenceDone
  <1> QED  BY <1>1, <1>2 DEF DifferenceDone

(* The seq is set to q and what follows it in the buffer is fed.           *)
Through(q) ==
    /\ updatesSeq' \in q..MaxSeq
    /\ (q + 1)..updatesSeq' \subseteq bySeqUpdates
    /\ have' = have \cup 1..updatesSeq'
    /\ Feed(q + 1, updatesSeq')

(* differenceDone() of a slice: the same, and nothing stays in the buffer. *)
LEMMA SliceEffect ==
    ASSUME TypeOK, NEW a \in answers, DifferenceSlice(a)
    PROVE  /\ a.seq \in 0..MaxSeq
           /\ answers' = {} /\ asked' = "difference" /\ failTimer' = FALSE
           /\ UNCHANGED <<requesting, server, budget>>
           /\ bySeqUpdates' = {} /\ bySeqTimer' = 0 /\ age' = 0
           /\ \/ have' = have \cup 1..a.seq /\ UNCHANGED <<updatesSeq, fed>>
              \/ Through(a.seq)
  <1>1. /\ a.seq \in 0..MaxSeq /\ MaxSeq \in Nat
        /\ bySeqUpdates \in SUBSET (1..MaxSeq)
    BY SeqAssumption DEF TypeOK, Answers
  <1>2. PICK q \in Nat : q = a.seq
    BY <1>1
  <1>3. PICK n \in Nat : n = Cardinality(Following(q))
    BY <1>1, <1>2, FollowingIsInterval
  <1>4. (q + 1)..(q + n) \subseteq bySeqUpdates
    <2>1. Following(q) = (q + 1)..(q + n)
      BY <1>1, <1>2, <1>3, FollowingIsInterval
    <2> QED  BY <2>1 DEF Following
  <1>5. q + n \in q..MaxSeq
    <2>1. CASE n = 0
      BY <1>1, <1>2, <2>1
    <2>2. CASE n # 0
      <3>1. q + n \in (q + 1)..(q + n)
        BY <2>2
      <3> QED  BY <1>1, <1>4, <3>1
    <2> QED  BY <2>1, <2>2
  <1>6. CASE /\ updatesSeq' = q + n /\ have' = have \cup 1..(q + n)
             /\ Feed(q + 1, q + n)
    <2>1. Through(a.seq)
      BY <1>2, <1>4, <1>5, <1>6 DEF Through
    <2> QED  BY <1>1, <2>1 DEF DifferenceSlice, Keep
  <1> QED  BY <1>1, <1>2, <1>3, <1>6 DEF DifferenceSlice, Keep

-----------------------------------------------------------------------------
(* Types and the timer of the buffer.                                      *)

DataTypes ==
    /\ updatesSeq \in 0..MaxSeq
    /\ have \in SUBSET (1..MaxSeq) /\ fed \in Seq(1..MaxSeq)

BufferTypes ==
    /\ bySeqUpdates \in SUBSET (1..MaxSeq) /\ bySeqTimer \in 0..Wait
    /\ age \in Nat /\ (bySeqUpdates = {} => bySeqTimer = 0)

ExchangeTypes ==
    /\ requesting \in BOOLEAN /\ failTimer \in BOOLEAN
    /\ asked \in {"", "state", "difference"} /\ answers \in SUBSET Answers

ServerTypes ==
    /\ serverSeq \in 0..MaxSeq
    /\ pushes \in SUBSET (1..MaxSeq) /\ results \in SUBSET (1..MaxSeq)
    /\ newSession \in BOOLEAN

BudgetTypes ==
    /\ stale \in BOOLEAN
    /\ inResults \in 0..MaxResults /\ fails \in 0..MaxFails
    /\ sessions \in 0..MaxSessions

LEMMA TypeParts ==
    /\ TypeOK <=> /\ DataTypes /\ BufferTypes /\ ExchangeTypes
                  /\ ServerTypes /\ BudgetTypes
    /\ TypeOK' <=> /\ DataTypes' /\ BufferTypes' /\ ExchangeTypes'
                   /\ ServerTypes' /\ BudgetTypes'
  BY DEF TypeOK, DataTypes, BufferTypes, ExchangeTypes, ServerTypes, BudgetTypes

LEMMA Untouched ==
    /\ DataTypes /\ UNCHANGED data => DataTypes'
    /\ BufferTypes /\ UNCHANGED buffer => BufferTypes'
    /\ ExchangeTypes /\ UNCHANGED exchange => ExchangeTypes'
    /\ ServerTypes /\ UNCHANGED server => ServerTypes'
    /\ BudgetTypes /\ UNCHANGED budget => BudgetTypes'
  BY DEF DataTypes, BufferTypes, ExchangeTypes, ServerTypes, BudgetTypes,
     data, buffer, exchange, server, budget

(* getDifference() empties the buffer and stops its timer.                 *)
LEMMA RequestTypes ==
    ASSUME TypeOK, RequestDifference
    PROVE  BufferTypes' /\ ExchangeTypes'
  <1>1. BufferTypes'
    BY SeqAssumption DEF RequestDifference, Keep, BufferTypes
  <1>2. ExchangeTypes
    BY TypeParts
  <1>3. ExchangeTypes'
    BY <1>2, Zenon DEF RequestDifference, ExchangeTypes
  <1> QED  BY <1>1, <1>3

LEMMA RestTypes ==
    ASSUME TypeOK, RestWaits PROVE BufferTypes'
  <1>1. BufferTypes
    BY TypeParts
  <1>2. bySeqUpdates' \in SUBSET (1..MaxSeq)
    BY <1>1 DEF RestWaits, BufferTypes
  <1>3. /\ bySeqTimer' \in 0..Wait /\ age' \in Nat
        /\ bySeqUpdates' = {} => bySeqTimer' = 0
    BY SeqAssumption DEF RestWaits
  <1> QED  BY <1>2, <1>3 DEF BufferTypes

LEMMA ApplyTypes ==
    ASSUME TypeOK, NEW s \in 1..MaxSeq, ApplyUpdates(s)
    PROVE  DataTypes' /\ BufferTypes' /\ ExchangeTypes'
  <1>1. DataTypes /\ BufferTypes /\ ExchangeTypes
    BY TypeParts
  <1>2. ASSUME FedFrom(s) PROVE DataTypes'
    <2>1. /\ MaxSeq \in Nat /\ s \in Nat \ {0} /\ updatesSeq' \in 0..MaxSeq
          /\ s <= updatesSeq' + 1 /\ s..updatesSeq' \subseteq 1..MaxSeq
      BY <1>2, SeqAssumption DEF FedFrom
    <2>2. fed' \in Seq(1..MaxSeq)
      BY <1>1, <1>2, <2>1, FeedEffect DEF FedFrom, DataTypes
    <2> QED  BY <1>1, <1>2, <2>1, <2>2 DEF FedFrom, DataTypes
  <1>3. CASE UNCHANGED <<data, buffer, exchange>>
    BY <1>1, <1>3, Untouched
  <1>4. CASE /\ s > updatesSeq + 1 /\ UNCHANGED <<data, exchange>>
             /\ bySeqUpdates' = bySeqUpdates \cup {s} /\ bySeqTimer' = Wait
             /\ age' \in Nat
    <2>1. BufferTypes'
      BY <1>1, <1>4, SeqAssumption DEF BufferTypes
    <2> QED  BY <1>1, <1>4, <2>1, Untouched
  <1>5. CASE FedFrom(s) /\ RestWaits /\ UNCHANGED exchange
    BY <1>1, <1>2, <1>5, Untouched, RestTypes
  <1>6. CASE FedFrom(s) /\ RequestDifference
    BY <1>2, <1>6, RequestTypes
  <1> QED  BY <1>3, <1>4, <1>5, <1>6, ApplyEffect

LEMMA DoneTypes ==
    ASSUME TypeOK, NEW a \in answers, Done(a) PROVE TypeOK'
  <1>1. /\ DataTypes /\ BufferTypes /\ ExchangeTypes
        /\ ServerTypes /\ BudgetTypes /\ MaxSeq \in Nat
    BY TypeParts, SeqAssumption
  <1>2. CASE DifferenceFail(a)
    <2>1. ExchangeTypes'
      BY <1>1, <1>2 DEF DifferenceFail, ExchangeTypes
    <2> QED  BY <1>1, <1>2, <2>1, Untouched, TypeParts DEF DifferenceFail
  <1>3. CASE DifferenceDone(a)
    <2>1. /\ a.seq \in 0..MaxSeq /\ ExchangeTypes'
          /\ ServerTypes' /\ BudgetTypes'
      BY <1>1, <1>3, DoneEffect, Untouched DEF ExchangeTypes
    <2>2. CASE /\ have' = have \cup 1..a.seq
               /\ UNCHANGED <<updatesSeq, fed, buffer>>
      <3>1. 1..a.seq \in SUBSET (1..MaxSeq)
        BY <1>1, <2>1
      <3>2. have' \in SUBSET (1..MaxSeq)
        BY <1>1, <2>2, <3>1 DEF DataTypes
      <3>3. DataTypes'
        BY <1>1, <2>2, <3>2 DEF DataTypes
      <3> QED  BY <1>1, <2>1, <2>2, <3>3, Untouched, TypeParts
    <2>3. CASE /\ updatesSeq' \in a.seq..MaxSeq
               /\ have' = have \cup 1..updatesSeq'
               /\ Feed(a.seq + 1, updatesSeq')
               /\ RestWaits
      <3>1. /\ a.seq + 1 \in Nat \ {0} /\ updatesSeq' \in 0..MaxSeq
            /\ a.seq + 1 <= updatesSeq' + 1
            /\ 1..updatesSeq' \subseteq 1..MaxSeq
        BY <1>1, <2>1, <2>3
      <3>2. fed' \in Seq(1..MaxSeq)
        BY <1>1, <2>3, <3>1, FeedEffect DEF DataTypes
      <3>3. DataTypes'
        BY <1>1, <2>3, <3>1, <3>2 DEF DataTypes
      <3> QED  BY <2>1, <2>3, <3>3, RestTypes, TypeParts
    <2> QED  BY <1>3, <2>2, <2>3, DoneEffect
  <1>4. CASE DifferenceSlice(a)
    <2>1. /\ a.seq \in 0..MaxSeq /\ BufferTypes' /\ ServerTypes' /\ BudgetTypes'
      <3>1. /\ a.seq \in 0..MaxSeq /\ UNCHANGED <<server, budget>>
            /\ bySeqUpdates' = {} /\ bySeqTimer' = 0 /\ age' = 0
        BY <1>4, SliceEffect
      <3>2. BufferTypes'
        BY <3>1, SeqAssumption DEF BufferTypes
      <3> QED  BY <1>1, <3>1, <3>2, Untouched
    <2>2. ExchangeTypes'
      <3>1. /\ requesting' = requesting /\ answers' = {} /\ asked' = "difference"
            /\ failTimer' = FALSE
        BY <1>4, SliceEffect
      <3> QED  BY <1>1, <3>1, Zenon DEF ExchangeTypes
    <2>3. CASE have' = have \cup 1..a.seq /\ UNCHANGED <<updatesSeq, fed>>
      <3>1. 1..a.seq \in SUBSET (1..MaxSeq)
        BY <1>1, <2>1
      <3>2. DataTypes'
        BY <1>1, <2>3, <3>1 DEF DataTypes
      <3> QED  BY <2>1, <2>2, <3>2, TypeParts
    <2>4. CASE Through(a.seq)
      <3>1. /\ a.seq + 1 \in Nat \ {0} /\ updatesSeq' \in 0..MaxSeq
            /\ a.seq + 1 <= updatesSeq' + 1
            /\ 1..updatesSeq' \subseteq 1..MaxSeq
        BY <1>1, <2>1, <2>4 DEF Through
      <3>2. fed' \in Seq(1..MaxSeq)
        BY <1>1, <2>4, <3>1, FeedEffect DEF DataTypes, Through
      <3>3. DataTypes'
        BY <1>1, <2>4, <3>1, <3>2 DEF DataTypes, Through
      <3> QED  BY <2>1, <2>2, <3>3, TypeParts
    <2> QED  BY <1>4, <2>3, <2>4, SliceEffect
  <1> QED  BY <1>2, <1>3, <1>4 DEF Done

LEMMA ServerStepTypes ==
    ASSUME TypeOK, Server PROVE TypeOK'
  <1>1. /\ DataTypes /\ BufferTypes /\ ExchangeTypes
        /\ ServerTypes /\ BudgetTypes
        /\ MaxSeq \in Nat /\ MaxResults \in Nat /\ MaxFails \in Nat
        /\ MaxSessions \in Nat
    BY TypeParts, SeqAssumption
  <1>2. CASE GeneratePush
    <2>1. ServerTypes'
      BY <1>1, <1>2 DEF GeneratePush, ServerTypes
    <2> QED  BY <1>1, <1>2, <2>1, Untouched, TypeParts DEF GeneratePush
  <1>3. CASE GenerateResult
    <2>1. ServerTypes' /\ BudgetTypes'
      BY <1>1, <1>3 DEF GenerateResult, ServerTypes, BudgetTypes
    <2> QED  BY <1>1, <1>3, <2>1, Untouched, TypeParts DEF GenerateResult
  <1>4. ASSUME NEW ok \in BOOLEAN, Answer(ok)
        PROVE  DataTypes' /\ BufferTypes' /\ ExchangeTypes' /\ ServerTypes'
    <2>1. ExchangeTypes'
      <3>1. [to |-> asked, ok |-> ok, seq |-> serverSeq] \in Answers
        BY <1>1, <1>4 DEF Answer, ExchangeTypes, ServerTypes, Answers
      <3> QED  BY <1>1, <1>4, <3>1 DEF Answer, ExchangeTypes
    <2> QED  BY <1>1, <1>4, <2>1, Untouched DEF Answer
  <1>5. CASE ServerAnswers
    BY <1>1, <1>4, <1>5, Untouched, TypeParts DEF ServerAnswers
  <1>6. CASE ServerFails
    <2>1. BudgetTypes'
      BY <1>1, <1>6 DEF ServerFails, BudgetTypes
    <2> QED  BY <1>4, <1>6, <2>1, TypeParts DEF ServerFails
  <1>7. CASE LoseSession
    <2>1. ServerTypes' /\ BudgetTypes'
      <3>1. stale' \in BOOLEAN
        BY <1>7, Zenon DEF LoseSession
      <3> QED  BY <1>1, <1>7, <3>1 DEF LoseSession, ServerTypes, BudgetTypes
    <2>2. ExchangeTypes'
      BY <1>1, <1>7 DEF LoseSession, ExchangeTypes, Answers
    <2>3. DataTypes'
      BY <1>1, <1>7 DEF LoseSession, DataTypes
    <2> QED  BY <1>1, <1>7, <2>1, <2>2, <2>3, Untouched, TypeParts DEF LoseSession
  <1> QED  BY <1>2, <1>3, <1>5, <1>6, <1>7 DEF Server

LEMMA TypeStep ==
    ASSUME TypeOK, [Next]_vars PROVE TypeOK'
  <1>1. /\ DataTypes /\ BufferTypes /\ ExchangeTypes
        /\ ServerTypes /\ BudgetTypes /\ MaxSeq \in Nat
        /\ Wait \in Nat \ {0}
    BY TypeParts, SeqAssumption
  <1>2. ASSUME NEW s, \/ s \in pushes /\ ReceivePush(s)
                      \/ s \in results /\ ReceiveResult(s)
        PROVE  TypeOK'
    <2>1. s \in 1..MaxSeq
      BY <1>1, <1>2 DEF ServerTypes
    <2>2. ServerTypes' /\ BudgetTypes'
      BY <1>1, <1>2, Untouched DEF ReceivePush, ReceiveResult, ServerTypes
    <2>3. ApplyUpdates(s) \/ UNCHANGED <<data, buffer, exchange>>
      BY <1>2 DEF ReceivePush, ReceiveResult
    <2> QED  BY <1>1, <2>1, <2>2, <2>3, ApplyTypes, Untouched, TypeParts
  <1>3. CASE MtpNewSessionCreated
    <2>1. DataTypes' /\ ServerTypes' /\ BudgetTypes'
      <3>1. DataTypes'
        BY <1>1, <1>3 DEF MtpNewSessionCreated, DataTypes
      <3>2. ServerTypes'
        BY <1>1, <1>3, Zenon DEF MtpNewSessionCreated, ServerTypes
      <3> QED  BY <1>1, <1>3, <3>1, <3>2, Untouched DEF MtpNewSessionCreated
    <2>2. BufferTypes' /\ ExchangeTypes'
      BY <1>1, <1>3, RequestTypes, Untouched DEF MtpNewSessionCreated, GetDifference
    <2> QED  BY <2>1, <2>2, TypeParts
  <1>4. CASE GetDifferenceAfterFail
    <2>1. BufferTypes' /\ ExchangeTypes'
      <3>1. BufferTypes'
        BY <1>1, <1>4 DEF GetDifferenceAfterFail, Keep, BufferTypes
      <3>2. ExchangeTypes'
        BY <1>1, <1>4, Zenon DEF GetDifferenceAfterFail, ExchangeTypes
      <3> QED  BY <3>1, <3>2
    <2> QED  BY <1>1, <1>4, <2>1, Untouched, TypeParts DEF GetDifferenceAfterFail
  <1>5. CASE Tick
    <2>1. BufferTypes'
      BY <1>1, <1>5 DEF Tick, BufferTypes
    <2> QED  BY <1>1, <1>5, <2>1, Untouched, TypeParts DEF Tick
  <1>6. CASE BySeqTimerFires
    <2>1. BufferTypes' /\ ExchangeTypes'
      <3>1. CASE RequestDifference
        BY <3>1, RequestTypes
      <3>2. CASE bySeqTimer' = 0 /\ UNCHANGED <<bySeqUpdates, age, exchange>>
        BY <1>1, <3>2, Untouched DEF BufferTypes
      <3> QED  BY <1>6, <3>1, <3>2 DEF BySeqTimerFires
    <2> QED  BY <1>1, <1>6, <2>1, Untouched, TypeParts DEF BySeqTimerFires
  <1>7. CASE UNCHANGED vars
    BY <1>1, <1>7, Untouched, TypeParts DEF vars
  <1> QED
    BY <1>2, <1>3, <1>4, <1>5, <1>6, <1>7, ServerStepTypes, DoneTypes DEF Next

-----------------------------------------------------------------------------
(* Waiting containers have their timer.                                    *)

(* While no container came inside a result, the buffer is empty during a   *)
(* difference, and its timer runs when it is not empty.                    *)
LEMMA BufferStep ==
    ASSUME TypeOK, BufferWaits, [Next]_vars PROVE BufferWaits'
  <1> SUFFICES ASSUME inResults' = 0
               PROVE  /\ results' = {}
                      /\ requesting' => bySeqUpdates' = {}
                      /\ bySeqUpdates' # {} => bySeqTimer' > 0
    BY DEF BufferWaits
  <1>1. inResults \in Nat /\ Wait \in Nat \ {0} /\ bySeqTimer \in Nat
    <2>1. MaxResults \in Nat /\ Wait \in Nat \ {0}
      BY SeqAssumption
    <2>2. inResults \in 0..MaxResults /\ bySeqTimer \in 0..Wait
      BY DEF TypeOK
    <2> QED  BY <2>1, <2>2
  <1>2. ~GenerateResult
    BY <1>1 DEF GenerateResult
  <1>3. inResults = 0
    BY <1>2 DEF Next, vars, budget, Server, GeneratePush, ServerAnswers, ServerFails,
         LoseSession, ReceivePush, ReceiveResult, MtpNewSessionCreated, Done,
         DifferenceDone, DifferenceSlice, DifferenceFail, GetDifferenceAfterFail, Tick,
         BySeqTimerFires
  <1>4. /\ results = {}
        /\ requesting => bySeqUpdates = {}
        /\ bySeqUpdates # {} => bySeqTimer > 0
    BY <1>3 DEF BufferWaits
  <1>5. CASE Server
    <2>1. /\ UNCHANGED <<bySeqUpdates, bySeqTimer, requesting>>
          /\ results' \in {results, {}}
      BY <1>2, <1>5 DEF Server, GeneratePush, ServerAnswers, ServerFails, Answer,
         LoseSession, buffer, exchange, server
    <2> QED  BY <1>4, <2>1
  <1>6. ASSUME RequestDifference
        PROVE  bySeqUpdates' = {}
    BY <1>6 DEF RequestDifference, Keep
  <1>7. ASSUME NEW s \in pushes, ReceivePush(s)
        PROVE  /\ requesting' => bySeqUpdates' = {}
               /\ bySeqUpdates' # {} => bySeqTimer' > 0
    <2>1. CASE requesting /\ UNCHANGED <<data, buffer, exchange>>
      BY <1>4, <2>1 DEF buffer, exchange
    <2>2. CASE ~requesting /\ ApplyUpdates(s)
      <3>1. s \in 1..MaxSeq
        BY <1>7 DEF TypeOK
      <3>2. CASE UNCHANGED <<data, buffer, exchange>>
        BY <1>4, <2>2, <3>2 DEF buffer, exchange
      <3>3. CASE UNCHANGED <<data, exchange>> /\ bySeqTimer' = Wait
        BY <1>1, <2>2, <3>3 DEF exchange
      <3>4. CASE RestWaits /\ UNCHANGED exchange
        BY <1>1, <2>2, <3>4 DEF RestWaits, exchange
      <3> QED  BY <1>6, <2>2, <3>1, <3>2, <3>3, <3>4, ApplyEffect
    <2> QED  BY <1>7, <2>1, <2>2 DEF ReceivePush
  <1>8. ASSUME NEW a \in answers, DifferenceDone(a)
        PROVE  ~requesting' /\ (bySeqUpdates' # {} => bySeqTimer' > 0)
    <2>1. CASE UNCHANGED <<updatesSeq, fed, buffer>>
      BY <1>4, <1>8, <2>1 DEF DifferenceDone, buffer
    <2>2. CASE RestWaits
      BY <1>1, <1>8, <2>2 DEF DifferenceDone, RestWaits
    <2> QED  BY <1>8, <2>1, <2>2, DoneEffect
  <1>9. CASE \E s \in pushes : ReceivePush(s)
    BY <1>4, <1>7, <1>9 DEF ReceivePush
  <1>10. CASE MtpNewSessionCreated
    BY <1>4, <1>6, <1>10 DEF MtpNewSessionCreated, GetDifference, buffer, exchange
  <1>11. CASE \E a \in answers : Done(a)
    <2>1. PICK a \in answers : Done(a)
      BY <1>11
    <2>2. CASE DifferenceDone(a)
      BY <1>4, <1>8, <2>2 DEF DifferenceDone, server
    <2>3. CASE DifferenceFail(a)
      BY <1>4, <2>3 DEF DifferenceFail, buffer, server
    <2>4. CASE DifferenceSlice(a)
      BY <1>4, <2>4, SliceEffect DEF server
    <2> QED  BY <2>1, <2>2, <2>3, <2>4 DEF Done
  <1>12. CASE GetDifferenceAfterFail
    BY <1>4, <1>12 DEF GetDifferenceAfterFail, Keep, server
  <1>13. CASE Tick
    BY <1>1, <1>4, <1>13 DEF Tick, exchange, server
  <1>14. CASE BySeqTimerFires
    BY <1>4, <1>6, <1>14 DEF BySeqTimerFires, exchange, server
  <1>15. CASE UNCHANGED vars
    BY <1>4, <1>15 DEF vars, buffer, exchange, server
  <1> QED
    BY <1>4, <1>5, <1>9, <1>10, <1>11, <1>12, <1>13, <1>14, <1>15 DEF Next

LEMMA Initially ==
    ASSUME Init
    PROVE  TypeOK /\ BufferWaits /\ NoContainerSkipped /\ OrderInv
  <1>1. fed = <<>> /\ DOMAIN fed = {} /\ fed \in Seq(1..MaxSeq)
    BY DEF Init
  <1>2. Fed = {}
    BY <1>1 DEF Fed
  <1>3. TypeOK
    <2>1. DataTypes /\ BufferTypes /\ BudgetTypes /\ serverSeq \in 0..MaxSeq
      <3>1. stale \in BOOLEAN
        BY Zenon DEF Init
      <3> QED  BY <1>1, <3>1, SeqAssumption DEF Init, DataTypes, BufferTypes, BudgetTypes
    <2>2. ExchangeTypes
      BY Zenon DEF Init, ExchangeTypes
    <2>3. ServerTypes
      BY <2>1, Zenon DEF Init, ServerTypes
    <2> QED  BY <2>1, <2>2, <2>3, TypeParts
  <1>4. BufferWaits /\ NoContainerSkipped
    BY DEF Init, BufferWaits, NoContainerSkipped
  <1>5. OrderInv
    BY <1>1, <1>2 DEF Init, OrderInv, FedInOrder, InOrder, AnswersRequest, SessionLost,
       OnTheWay, OnePlace, Numbered, NothingBehind, PassedOrFed
  <1> QED  BY <1>3, <1>4, <1>5

(* Types, and the timer of the buffer: while no difference is on its way,  *)
(* every container that waits has a running timer.                         *)
THEOREM AlwaysConsistent == Spec => []Consistent
  <1>1. Init => TypeOK /\ BufferWaits
    BY Initially
  <1>2. TypeOK /\ BufferWaits /\ [Next]_vars => TypeOK' /\ BufferWaits'
    BY TypeStep, BufferStep
  <1>3. TypeOK /\ BufferWaits => Consistent
    BY DEF Consistent, BufferedHasTimer, BufferWaits
  <1> QED  BY <1>1, <1>2, <1>3, PTL DEF Spec

-----------------------------------------------------------------------------
(* No container is skipped.                                                *)

LEMMA SkipStep ==
    ASSUME TypeOK, NoContainerSkipped, [Next]_vars PROVE NoContainerSkipped'
  <1> SUFFICES ASSUME ~newSession', ~stale' PROVE 1..updatesSeq' \subseteq have'
    BY DEF NoContainerSkipped
  <1>0. ~stale
    BY DEF Next, vars, budget, Server, GeneratePush, GenerateResult, ServerAnswers,
       ServerFails, LoseSession, ReceivePush, ReceiveResult, MtpNewSessionCreated, Done,
       DifferenceDone, DifferenceSlice, DifferenceFail, GetDifferenceAfterFail, Tick,
       BySeqTimerFires
  <1>1. updatesSeq \in Nat /\ MaxSeq \in Nat
    <2>1. MaxSeq \in Nat
      BY SeqAssumption
    <2>2. updatesSeq \in 0..MaxSeq
      BY DEF TypeOK
    <2> QED  BY <2>1, <2>2
  <1>2. ASSUME ~newSession, UNCHANGED <<updatesSeq, have>>
        PROVE  1..updatesSeq' \subseteq have'
    BY <1>0, <1>2 DEF NoContainerSkipped
  <1>3. CASE Server
    <2>1. ~LoseSession
      BY DEF LoseSession
    <2> QED  BY <1>2, <1>3, <2>1 DEF Server, GeneratePush, GenerateResult,
               ServerAnswers, ServerFails, Answer, data, server
  <1>4. ASSUME NEW s, \/ s \in pushes /\ ReceivePush(s)
                      \/ s \in results /\ ReceiveResult(s)
        PROVE  1..updatesSeq' \subseteq have'
    <2>1. ~newSession /\ s \in 1..MaxSeq
      BY <1>4 DEF ReceivePush, ReceiveResult, TypeOK
    <2>2. ApplyUpdates(s) \/ UNCHANGED data
      BY <1>4 DEF ReceivePush, ReceiveResult
    <2>3. CASE UNCHANGED data
      BY <1>2, <2>1, <2>3 DEF data
    <2>4. CASE FedFrom(s)
      <3>1. \A x \in 1..updatesSeq' : x \in 1..updatesSeq \/ x \in s..updatesSeq'
        BY <1>1, <2>4 DEF FedFrom
      <3> QED  BY <1>0, <2>1, <2>4, <3>1 DEF FedFrom, NoContainerSkipped
    <2> QED  BY <2>1, <2>2, <2>3, <2>4, ApplyEffect
  <1>5. CASE MtpNewSessionCreated
    BY <1>5 DEF MtpNewSessionCreated
  <1>6. ASSUME NEW a \in answers, Done(a)
        PROVE  1..updatesSeq' \subseteq have'
    <2>1. ~newSession
      BY <1>6 DEF Done, DifferenceDone, DifferenceSlice, DifferenceFail, server
    <2>2. CASE DifferenceFail(a)
      BY <1>2, <2>1, <2>2 DEF DifferenceFail, data
    <2>3. CASE have' = have \cup 1..a.seq /\ UNCHANGED <<updatesSeq, fed>>
      BY <1>0, <2>1, <2>3 DEF NoContainerSkipped
    <2>4. CASE have' = have \cup 1..updatesSeq'
      BY <2>4
    <2> QED  BY <1>6, <2>2, <2>3, <2>4, DoneEffect, SliceEffect DEF Done, Through
  <1>7. CASE GetDifferenceAfterFail \/ Tick \/ BySeqTimerFires \/ UNCHANGED vars
    BY <1>2, <1>7 DEF GetDifferenceAfterFail, Tick, BySeqTimerFires, vars, data, server
  <1> QED  BY <1>3, <1>4, <1>5, <1>6, <1>7 DEF Next

(* _updatesSeq never passes a container of its session that is neither fed *)
(* nor covered by a difference, however results and differences overlap,   *)
(* in every session but one that began while containers of the last waited *)
(* behind a difference (mtpNewSessionCreated).                             *)
THEOREM NeverSkipped == Spec => []NoContainerSkipped
  <1>1. Init => TypeOK /\ NoContainerSkipped
    BY Initially
  <1>2. TypeOK /\ NoContainerSkipped /\ [Next]_vars
          => TypeOK' /\ NoContainerSkipped'
    BY TypeStep, SkipStep
  <1> QED  BY <1>1, <1>2, PTL DEF Spec

-----------------------------------------------------------------------------
(* The order of containers.                                                *)

LEMMA Ranges ==
    ASSUME TypeOK
    PROVE  /\ MaxSeq \in Nat /\ updatesSeq \in 0..MaxSeq /\ serverSeq \in 0..MaxSeq
           /\ pushes \in SUBSET (1..MaxSeq) /\ results \in SUBSET (1..MaxSeq)
           /\ bySeqUpdates \in SUBSET (1..MaxSeq) /\ fed \in Seq(1..MaxSeq)
           /\ \A a \in answers : a.seq \in Nat
  <1>1. MaxSeq \in Nat
    BY SeqAssumption
  <1>2. \A a \in answers : a.seq \in 0..MaxSeq
    BY DEF TypeOK, Answers
  <1>3. /\ updatesSeq \in 0..MaxSeq /\ serverSeq \in 0..MaxSeq
        /\ pushes \in SUBSET (1..MaxSeq) /\ results \in SUBSET (1..MaxSeq)
        /\ bySeqUpdates \in SUBSET (1..MaxSeq) /\ fed \in Seq(1..MaxSeq)
    BY DEF TypeOK
  <1> QED  BY <1>1, <1>2, <1>3

(* A request is out, its answer is on its way, or it has failed: never two *)
(* of them, and requesting() all the while.                                *)
LEMMA ExchangeStep ==
    ASSUME TypeOK, AnswersRequest, [Next]_vars PROVE AnswersRequest'
  <1>1. /\ asked # "" => requesting /\ answers = {}
        /\ answers # {} => requesting
        /\ failTimer => asked = "" /\ answers = {}
    BY DEF AnswersRequest
  <1>2. ASSUME UNCHANGED exchange PROVE AnswersRequest'
    BY <1>1, <1>2 DEF AnswersRequest, exchange
  <1>3. ASSUME RequestDifference PROVE AnswersRequest'
    BY <1>1, <1>3 DEF AnswersRequest, RequestDifference
  <1>4. CASE Server
    <2>1. ASSUME NEW ok \in BOOLEAN, Answer(ok) PROVE AnswersRequest'
      BY <1>1, <2>1 DEF Answer, AnswersRequest, server
    <2>2. CASE LoseSession
      <3>1. \A a \in answers : a.to # ""
        BY DEF TypeOK, Answers
      <3> QED  BY <1>1, <2>2, <3>1 DEF LoseSession, AnswersRequest
    <2> QED  BY <1>2, <1>4, <2>1, <2>2
             DEF Server, GeneratePush, GenerateResult, ServerAnswers, ServerFails
  <1>5. ASSUME NEW s, ReceivePush(s) \/ ReceiveResult(s), s \in pushes \cup results
        PROVE  AnswersRequest'
    <2>1. s \in 1..MaxSeq
      BY <1>5 DEF TypeOK
    <2>2. ApplyUpdates(s) \/ UNCHANGED exchange
      BY <1>5 DEF ReceivePush, ReceiveResult
    <2> QED  BY <1>2, <1>3, <2>1, <2>2, ApplyEffect
  <1>6. CASE MtpNewSessionCreated
    BY <1>2, <1>3, <1>6 DEF MtpNewSessionCreated, GetDifference
  <1>7. ASSUME NEW a \in answers, Done(a) PROVE AnswersRequest'
    BY <1>1, <1>7 DEF Done, DifferenceDone, DifferenceSlice, DifferenceFail, AnswersRequest
  <1>8. CASE GetDifferenceAfterFail
    BY <1>1, <1>8 DEF GetDifferenceAfterFail, AnswersRequest
  <1>9. CASE Tick \/ BySeqTimerFires \/ UNCHANGED vars
    BY <1>2, <1>3, <1>9 DEF Tick, BySeqTimerFires, vars
  <1> QED  BY <1>4, <1>5, <1>6, <1>7, <1>8, <1>9 DEF Next

(* Whatever is on its way has been numbered by the server.                 *)
LEMMA OnTheWayStep ==
    ASSUME TypeOK, OnTheWay, [Next]_vars PROVE OnTheWay'
  <1>1. serverSeq \in Nat /\ \A a \in answers : a.seq \in Nat
    <2>1. MaxSeq \in Nat
      BY SeqAssumption
    <2>2. serverSeq \in 0..MaxSeq /\ \A a \in answers : a.seq \in 0..MaxSeq
      BY DEF TypeOK, Answers
    <2> QED  BY <2>1, <2>2
  <1>2. ASSUME pushes' \subseteq pushes, results' \subseteq results,
               answers' \subseteq answers, UNCHANGED serverSeq
        PROVE  OnTheWay'
    BY <1>2 DEF OnTheWay
  <1>3. CASE GeneratePush \/ GenerateResult
    <2>1. /\ serverSeq' = serverSeq + 1 /\ UNCHANGED answers
          /\ \/ pushes' = pushes \cup {serverSeq'} /\ results' = results
             \/ results' = results \cup {serverSeq'} /\ pushes' = pushes
      BY <1>3 DEF GeneratePush, GenerateResult, exchange
    <2>2. serverSeq' \notin pushes \cup results
      BY <1>1, <2>1 DEF OnTheWay
    <2>3. pushes' \cap results' = {}
      BY <2>1, <2>2 DEF OnTheWay
    <2>4. pushes' \cup results' \subseteq 1..serverSeq'
      BY <1>1, <2>1 DEF OnTheWay
    <2>5. \A a \in answers' : a.seq <= serverSeq'
      BY <1>1, <2>1 DEF OnTheWay
    <2> QED  BY <2>3, <2>4, <2>5 DEF OnTheWay
  <1>5. ASSUME NEW ok \in BOOLEAN, Answer(ok) PROVE OnTheWay'
    <2>1. UNCHANGED <<pushes, results, serverSeq>>
      BY <1>5 DEF Answer, server
    <2>2. \A a \in answers' : a.seq = serverSeq
      <3>1. answers' = {[to |-> asked, ok |-> ok, seq |-> serverSeq]}
        BY <1>5 DEF Answer
      <3> QED  BY <3>1
    <2> QED  BY <1>1, <2>1, <2>2 DEF OnTheWay
  <1>6. CASE LoseSession
    <2>1. pushes' = {} /\ results' = {} /\ answers' = {}
      BY <1>6 DEF LoseSession
    <2> QED  BY <2>1 DEF OnTheWay
  <1>7. CASE Server
    BY <1>3, <1>5, <1>6, <1>7 DEF Server, ServerAnswers, ServerFails
  <1>8. ASSUME NEW s, ReceivePush(s) \/ ReceiveResult(s), s \in pushes \cup results
        PROVE  OnTheWay'
    <2>1. s \in 1..MaxSeq
      BY <1>8 DEF TypeOK
    <2>2. ApplyUpdates(s) \/ UNCHANGED exchange
      BY <1>8 DEF ReceivePush, ReceiveResult
    <2>3. answers' = answers
      BY <2>1, <2>2, ApplyEffect DEF exchange, RequestDifference
    <2>4. /\ pushes' \subseteq pushes /\ results' \subseteq results
          /\ UNCHANGED serverSeq
      BY <1>8 DEF ReceivePush, ReceiveResult
    <2> QED  BY <1>2, <2>3, <2>4
  <1>9. CASE MtpNewSessionCreated
    BY <1>2, <1>9 DEF MtpNewSessionCreated, GetDifference, RequestDifference, exchange
  <1>10. ASSUME NEW a \in answers, Done(a) PROVE OnTheWay'
    BY <1>2, <1>10 DEF Done, DifferenceDone, DifferenceSlice, DifferenceFail, server
  <1>11. CASE GetDifferenceAfterFail \/ Tick \/ BySeqTimerFires \/ UNCHANGED vars
    BY <1>2, <1>11 DEF GetDifferenceAfterFail, Tick, BySeqTimerFires,
       RequestDifference, vars, exchange, server
  <1> QED  BY <1>7, <1>8, <1>9, <1>10, <1>11 DEF Next

(* Feeding none changes nothing.                                           *)
LEMMA FeedNone ==
    ASSUME fed \in Seq(1..MaxSeq), NEW b \in Nat, Feed(b + 1, b)
    PROVE  fed' = fed
  <1> DEFINE r == [i \in 1..(b - (b + 1) + 1) |-> b + 1 + i - 1]
  <1>1. 1..(b - (b + 1) + 1) = {}
    OBVIOUS
  <1>2. r = << >>
    BY <1>1
  <1>3. fed' = fed \o r
    BY DEF Feed
  <1> QED  BY <1>2, <1>3, ConcatEmptySeq

(* What the containers' places amount to.                                  *)
Placed == OnePlace /\ Numbered /\ NothingBehind

(* A step that feeds nothing and only takes containers away.               *)
LEMMA Fewer ==
    ASSUME Placed, UNCHANGED <<updatesSeq, fed, serverSeq>>,
           pushes' \subseteq pushes, results' \subseteq results,
           bySeqUpdates' \subseteq bySeqUpdates, answers' \subseteq answers
    PROVE  Placed'
  <1>1. Fed' = Fed
    BY DEF Fed
  <1> QED  BY <1>1 DEF Placed, OnePlace, Numbered, NothingBehind, PassedOrFed

(* What is fed goes on with what is in its place: nothing fed lies behind. *)
LEMMA FedOn ==
    ASSUME TypeOK, InOrder, NEW p \in Nat, \A s \in Fed : s <= p,
           NEW t \in p..MaxSeq, updatesSeq' = t, Feed(p + 1, t)
    PROVE  /\ InOrder' /\ Fed' = Fed \cup (p + 1)..t
           /\ PassedOrFed(updatesSeq)'
           /\ \A q \in Nat : PassedOrFed(q) /\ (p <= q \/ q + 1 \in Fed)
                 => PassedOrFed(q)' /\ (t <= q \/ q + 1 \in Fed')
  <1>1. MaxSeq \in Nat /\ t \in Nat /\ t <= MaxSeq /\ p <= t
    BY SeqAssumption
  <1>2. \A s \in Fed : s \in Nat /\ s < p + 1
    <2>1. fed \in Seq(1..MaxSeq)
      BY DEF TypeOK
    <2>2. \A i \in DOMAIN fed : fed[i] \in 1..MaxSeq
      BY <2>1, ElementOfSeq, LenProperties
    <2>3. \A s \in Fed : s \in 1..MaxSeq
      BY <2>2 DEF Fed
    <2> QED  BY <1>1, <2>3
  <1>3. InOrder' /\ Fed' = Fed \cup (p + 1)..t
    <2>1. p + 1 \in Nat \ {0} /\ t \in 0..MaxSeq /\ p + 1 <= t + 1
      BY <1>1
    <2>2. fed \in Seq(1..MaxSeq)
      BY DEF TypeOK
    <2> QED  BY <1>2, <2>1, <2>2, FeedEffect
  <1>4. \A s \in Fed' : s <= t
    BY <1>1, <1>2, <1>3
  <1>5. ASSUME NEW q \in Nat, PassedOrFed(q), p <= q \/ q + 1 \in Fed
        PROVE  PassedOrFed(q)' /\ (t <= q \/ q + 1 \in Fed')
    <2>1. CASE t <= q
      <3>1. \A s \in Fed' : s <= q
        BY <1>1, <1>2, <1>3, <2>1
      <3> QED  BY <2>1, <3>1 DEF PassedOrFed
    <2>2. CASE q + 1 \in Fed
      BY <1>3, <2>2 DEF PassedOrFed
    <2>3. CASE p <= q /\ q < t
      <3>1. q + 1 \in (p + 1)..t
        BY <1>1, <2>3
      <3> QED  BY <1>3, <3>1 DEF PassedOrFed
    <2> QED  BY <1>1, <1>5, <2>1, <2>2, <2>3
  <1>6. PassedOrFed(updatesSeq)'
    BY <1>4 DEF PassedOrFed
  <1> QED  BY <1>3, <1>5, <1>6

(* Nothing is fed between the loss of a session and the client's knowing,  *)
(* and nothing waits behind a difference that is out.                      *)
LEMMA LostStep ==
    ASSUME TypeOK, AnswersRequest, SessionLost, [Next]_vars
    PROVE  SessionLost'
  <1> SUFFICES ASSUME newSession', ~stale'
               PROVE  fed' = <<>> /\ (requesting' => bySeqUpdates' = {})
    BY DEF SessionLost
  <1>1. CASE LoseSession
    <2>1. /\ stale' = (requesting /\ bySeqUpdates # {}) /\ fed' = <<>>
          /\ bySeqUpdates' = bySeqUpdates /\ requesting' = requesting
      BY <1>1 DEF LoseSession, buffer
    <2> QED  BY <2>1, Zenon
  <1>2. CASE ~LoseSession
    <2>0. /\ stale' = stale
          /\ newSession' = newSession \/ MtpNewSessionCreated
      BY <1>2 DEF Next, vars, server, budget, Server, GeneratePush, GenerateResult,
         ServerAnswers, ServerFails, Answer, ReceivePush, ReceiveResult,
         MtpNewSessionCreated, Done, DifferenceDone, DifferenceSlice, DifferenceFail,
         GetDifferenceAfterFail, Tick, BySeqTimerFires
    <2>1. newSession /\ ~stale
      <3>1. ~MtpNewSessionCreated
        BY DEF MtpNewSessionCreated
      <3> QED  BY <2>0, <3>1
    <2>2. fed = <<>> /\ (requesting => bySeqUpdates = {})
      BY <2>1 DEF SessionLost
    <2>3. CASE Server
      <3>1. UNCHANGED <<fed, requesting, bySeqUpdates>>
        BY <1>2, <2>3 DEF Server, GeneratePush, GenerateResult, ServerAnswers,
           ServerFails, Answer, data, buffer, exchange
      <3> QED  BY <2>2, <3>1
    <2>4. ASSUME NEW s, ReceivePush(s) \/ ReceiveResult(s) PROVE FALSE
      BY <2>1, <2>4 DEF ReceivePush, ReceiveResult
    <2>5. ~MtpNewSessionCreated
      BY DEF MtpNewSessionCreated
    <2>6. ASSUME NEW a \in answers, Done(a)
          PROVE  fed' = fed /\ bySeqUpdates' = {}
      <3>1. bySeqUpdates = {} /\ a.seq \in Nat /\ MaxSeq \in Nat
            /\ fed \in Seq(1..MaxSeq)
        BY <2>2, Ranges DEF AnswersRequest
      <3>2. CASE DifferenceFail(a)
        BY <3>1, <3>2 DEF DifferenceFail, data, buffer
      <3>3. ASSUME updatesSeq' \in a.seq..MaxSeq,
                   (a.seq + 1)..updatesSeq' \subseteq bySeqUpdates,
                   Feed(a.seq + 1, updatesSeq')
            PROVE  fed' = fed
        <4>1. PICK q \in Nat : q = a.seq
          BY <3>1
        <4>2. updatesSeq' = q
          <5>1. ~(updatesSeq' \in (q + 1)..updatesSeq')
            BY <3>1, <3>3, <4>1
          <5> QED  BY <3>1, <3>3, <4>1, <5>1
        <4>3. Feed(q + 1, q)
          BY <3>3, <4>1, <4>2
        <4> QED  BY <3>1, <4>3, FeedNone
      <3>4. CASE DifferenceDone(a)
        <4>1. CASE UNCHANGED <<updatesSeq, fed, buffer>>
          BY <3>1, <4>1 DEF buffer
        <4>2. CASE RestWaits /\ fed' = fed
          BY <3>1, <4>2 DEF RestWaits
        <4> QED  BY <3>3, <3>4, <4>1, <4>2, DoneEffect
      <3>5. CASE DifferenceSlice(a)
        BY <3>3, <3>5, SliceEffect DEF Through
      <3> QED  BY <2>6, <3>2, <3>4, <3>5 DEF Done
    <2>7. CASE GetDifferenceAfterFail \/ Tick \/ BySeqTimerFires \/ UNCHANGED vars
      BY <2>2, <2>7 DEF GetDifferenceAfterFail, Tick, BySeqTimerFires,
         RequestDifference, Keep, vars, data, buffer, exchange
    <2> QED  BY <1>2, <2>2, <2>3, <2>4, <2>5, <2>6, <2>7 DEF Next
  <1> QED  BY <1>1, <1>2

(* A container that came is dropped, kept or fed in its place.             *)
LEMMA ReceivePlaced ==
    ASSUME TypeOK, InOrder, OnTheWay, Placed,
           NEW s, \/ s \in pushes /\ ReceivePush(s)
                  \/ s \in results /\ ReceiveResult(s)
    PROVE  InOrder' /\ Placed'
  <1>1. /\ s \in 1..MaxSeq /\ s \in 1..serverSeq /\ MaxSeq \in Nat
        /\ updatesSeq \in 0..MaxSeq /\ serverSeq \in 0..MaxSeq
        /\ \A a \in answers : a.seq \in Nat
        /\ bySeqUpdates \in SUBSET (1..MaxSeq)
    <2>1. /\ s \in 1..serverSeq /\ s \in pushes \cup results
      BY DEF OnTheWay
    <2> QED  BY <2>1, Ranges
  <1>2. /\ pushes' \subseteq pushes /\ results' \subseteq results
        /\ s \notin pushes' \cup results' /\ UNCHANGED serverSeq
        /\ s \notin bySeqUpdates \cup Fed
    BY DEF ReceivePush, ReceiveResult, OnTheWay, Placed, OnePlace
  <1>3. CASE UNCHANGED <<data, buffer, exchange>>
    <2>1. UNCHANGED <<updatesSeq, fed, bySeqUpdates, answers>>
      BY <1>3 DEF data, buffer, exchange
    <2> QED  BY <1>2, <2>1, Fewer DEF InOrder
  <1>4. CASE /\ UNCHANGED <<data, exchange>>
             /\ bySeqUpdates' = bySeqUpdates \cup {s}
    <2>1. UNCHANGED <<updatesSeq, fed, answers>> /\ Fed' = Fed
      BY <1>4 DEF data, exchange, Fed
    <2>2. OnePlace'
      BY <1>2, <1>4, <2>1 DEF Placed, OnePlace
    <2>3. Numbered'
      BY <1>1, <1>2, <1>4, <2>1 DEF Placed, Numbered
    <2>4. NothingBehind'
      BY <2>1 DEF Placed, NothingBehind, PassedOrFed
    <2> QED  BY <2>1, <2>2, <2>3, <2>4 DEF Placed, InOrder
  <1>5. ASSUME FedFrom(s), bySeqUpdates' \subseteq bySeqUpdates,
               \A x \in bySeqUpdates' : x > updatesSeq', UNCHANGED answers
        PROVE  InOrder' /\ Placed'
    <2>1. PICK p \in Nat : p = updatesSeq
      BY <1>1
    <2>2. PICK t \in p..MaxSeq : t = updatesSeq'
      BY <1>1, <1>5, <2>1 DEF FedFrom
    <2>3. s = p + 1 /\ t \in s..MaxSeq /\ (s + 1)..t \subseteq bySeqUpdates
      BY <1>5, <2>1, <2>2 DEF FedFrom
    <2>4. \A x \in Fed : x <= p
      BY <1>2, <2>1, <2>3 DEF Placed, NothingBehind, PassedOrFed
    <2>5. /\ InOrder' /\ Fed' = Fed \cup (p + 1)..t
          /\ PassedOrFed(updatesSeq)'
          /\ \A q \in Nat : PassedOrFed(q) /\ (p <= q \/ q + 1 \in Fed)
                => PassedOrFed(q)' /\ (t <= q \/ q + 1 \in Fed')
      BY <1>5, <2>1, <2>2, <2>3, <2>4, FedOn DEF FedFrom
    <2>6. \A x \in (p + 1)..t : x = s \/ x \in bySeqUpdates
      BY <1>1, <2>1, <2>2, <2>3
    <2>7. OnePlace'
      <3>1. \A x \in (p + 1)..t : x \notin bySeqUpdates'
        BY <1>1, <1>5, <2>1, <2>2
      <3>2. \A x \in (p + 1)..t : x \notin pushes' \cup results'
        BY <1>2, <2>6 DEF Placed, OnePlace
      <3> QED  BY <1>2, <1>5, <2>5, <3>1, <3>2 DEF Placed, OnePlace
    <2>8. Numbered'
      <3>1. \A x \in (p + 1)..t : x \in 1..serverSeq
        BY <1>1, <2>6 DEF Placed, Numbered
      <3>2. t \in (p + 1)..t
        BY <2>3
      <3>3. /\ bySeqUpdates' \subseteq 1..serverSeq' /\ Fed' \subseteq 1..serverSeq'
            /\ t \in 1..serverSeq'
        BY <1>2, <1>5, <2>5, <3>1, <3>2 DEF Placed, Numbered
      <3> QED  BY <1>1, <1>2, <2>2, <3>3 DEF Numbered
    <2>9. NothingBehind'
      <3>1. \A a \in answers : /\ PassedOrFed(a.seq)
                               /\ p <= a.seq \/ a.seq + 1 \in Fed
        BY <2>1 DEF Placed, NothingBehind
      <3>2. \A a \in answers : /\ PassedOrFed(a.seq)'
                               /\ t <= a.seq \/ a.seq + 1 \in Fed'
        BY <1>1, <2>5, <3>1
      <3> QED  BY <1>5, <2>2, <2>5, <3>2 DEF NothingBehind
    <2> QED  BY <2>5, <2>7, <2>8, <2>9 DEF Placed
  <1>6. CASE FedFrom(s) /\ RestWaits /\ UNCHANGED exchange
    <2>1. /\ bySeqUpdates' \subseteq bySeqUpdates
          /\ \A x \in bySeqUpdates' : x > updatesSeq'
          /\ UNCHANGED answers
      BY <1>6 DEF RestWaits, exchange
    <2> QED  BY <1>5, <1>6, <2>1
  <1>7. CASE FedFrom(s) /\ RequestDifference
    <2>1. bySeqUpdates' = {} /\ UNCHANGED answers
      BY <1>7 DEF RequestDifference, Keep
    <2> QED  BY <1>5, <1>7, <2>1
  <1>8. ApplyUpdates(s) \/ UNCHANGED <<data, buffer, exchange>>
    BY DEF ReceivePush, ReceiveResult
  <1> QED  BY <1>1, <1>3, <1>4, <1>6, <1>7, <1>8, ApplyEffect

(* An answer sets the seq back only to where what comes next has been fed. *)
LEMMA DonePlaced ==
    ASSUME TypeOK, InOrder, OnTheWay, Placed,
           NEW a \in answers, Done(a)
    PROVE  InOrder' /\ Placed'
  <1>1. /\ answers' = {} /\ UNCHANGED <<serverSeq, pushes, results>>
    BY DEF Done, DifferenceDone, DifferenceSlice, DifferenceFail, server
  <1>2. CASE UNCHANGED <<updatesSeq, fed, buffer>> \/ DifferenceFail(a)
    <2>1. UNCHANGED <<updatesSeq, fed, bySeqUpdates>>
      BY <1>2 DEF DifferenceFail, data, buffer
    <2> QED  BY <1>1, <2>1, Fewer DEF InOrder
  <1>3. ASSUME updatesSeq' \in a.seq..MaxSeq,
               (a.seq + 1)..updatesSeq' \subseteq bySeqUpdates,
               Feed(a.seq + 1, updatesSeq'), bySeqUpdates' \subseteq bySeqUpdates,
               \A x \in bySeqUpdates' : x > updatesSeq'
        PROVE  InOrder' /\ Placed'
    <2>1. PICK p \in Nat : p = a.seq
      BY Ranges
    <2>2. PICK t \in p..MaxSeq : t = updatesSeq'
      BY <1>3, <2>1
    <2>3. /\ MaxSeq \in Nat /\ serverSeq \in 0..MaxSeq /\ p <= serverSeq
          /\ bySeqUpdates \in SUBSET (1..MaxSeq) /\ fed \in Seq(1..MaxSeq)
      BY <2>1, Ranges DEF OnTheWay
    <2>4. /\ (p + 1)..t \subseteq bySeqUpdates
          /\ bySeqUpdates' \subseteq bySeqUpdates
          /\ \A x \in bySeqUpdates' : x > t
      BY <1>3, <2>1, <2>2
    <2>5. PassedOrFed(p)
      BY <2>1 DEF Placed, NothingBehind
    <2>6. InOrder' /\ Fed' = Fed \cup (p + 1)..t /\ PassedOrFed(updatesSeq)'
      <3>1. CASE \A x \in Fed : x <= p
        BY <1>3, <2>1, <2>2, <3>1, FedOn
      <3>2. CASE p + 1 \in Fed
        <4>1. p + 1 \notin bySeqUpdates
          BY <3>2 DEF Placed, OnePlace
        <4>2. t = p
          <5>1. CASE t > p
            <6>1. p + 1 \in (p + 1)..t
              BY <2>3, <5>1
            <6> QED  BY <2>4, <4>1, <6>1
          <5> QED  BY <2>3, <5>1
        <4>3. fed' = fed
          BY <1>3, <2>1, <2>2, <2>3, <4>2, FeedNone
        <4>4. Fed' = Fed /\ (p + 1)..t = {}
          BY <4>2, <4>3 DEF Fed
        <4> QED  BY <2>2, <3>2, <4>2, <4>3, <4>4 DEF InOrder, PassedOrFed
      <3> QED  BY <2>5, <3>1, <3>2 DEF PassedOrFed
    <2>7. OnePlace'
      <3>1. \A x \in (p + 1)..t : x \notin bySeqUpdates'
        BY <2>3, <2>4
      <3> QED  BY <1>1, <2>4, <2>6, <3>1 DEF Placed, OnePlace
    <2>8. Numbered'
      <3>1. t = p \/ t \in (p + 1)..t
        BY <2>3
      <3>2. t <= serverSeq
        BY <2>3, <2>4, <3>1 DEF Placed, Numbered
      <3> QED  BY <1>1, <2>2, <2>4, <2>6, <3>2 DEF Placed, Numbered
    <2>9. NothingBehind'
      BY <1>1, <2>6 DEF NothingBehind
    <2> QED  BY <2>6, <2>7, <2>8, <2>9 DEF Placed
  <1>4. CASE DifferenceSlice(a)
    <2>1. bySeqUpdates' = {} /\ a.seq \in 0..MaxSeq
      BY <1>4, SliceEffect
    <2>2. CASE UNCHANGED <<updatesSeq, fed>>
      BY <1>1, <2>1, <2>2, Fewer DEF InOrder
    <2>3. CASE Through(a.seq)
      BY <1>3, <2>1, <2>3 DEF Through
    <2> QED  BY <1>4, <2>2, <2>3, SliceEffect
  <1> QED  BY <1>2, <1>3, <1>4, DoneEffect DEF Done, RestWaits

(* The server's own steps, and what places a new session starts with.      *)
LEMMA ServerPlaced ==
    ASSUME TypeOK, InOrder, OnTheWay, ~newSession, Placed,
           GeneratePush \/ GenerateResult \/ ServerAnswers \/ ServerFails
    PROVE  Placed'
  <1>1. UNCHANGED <<updatesSeq, fed, bySeqUpdates>> /\ Fed' = Fed
    BY DEF GeneratePush, GenerateResult, ServerAnswers, ServerFails, Answer,
       data, buffer, Fed
  <1>2. /\ serverSeq \in Nat /\ updatesSeq \in Nat
        /\ pushes \cup results \subseteq 1..serverSeq
        /\ bySeqUpdates \cup Fed \subseteq 1..serverSeq
        /\ updatesSeq <= serverSeq
    BY Ranges DEF Placed, Numbered, OnTheWay
  <1>3. CASE GeneratePush \/ GenerateResult
    <2>1. /\ serverSeq' = serverSeq + 1 /\ UNCHANGED answers
          /\ \/ pushes' = pushes \cup {serverSeq'} /\ results' = results
             \/ results' = results \cup {serverSeq'} /\ pushes' = pushes
      BY <1>3 DEF GeneratePush, GenerateResult, exchange
    <2>2. serverSeq' \notin pushes \cup results \cup bySeqUpdates \cup Fed
      BY <1>2, <2>1
    <2>3. OnePlace'
      BY <1>1, <2>1, <2>2 DEF Placed, OnePlace
    <2>4. Numbered'
      BY <1>1, <1>2, <2>1 DEF Numbered
    <2>5. NothingBehind'
      BY <1>1, <2>1 DEF Placed, NothingBehind, PassedOrFed
    <2> QED  BY <2>3, <2>4, <2>5 DEF Placed
  <1>4. ASSUME NEW ok \in BOOLEAN, Answer(ok) PROVE Placed'
    <2>1. /\ UNCHANGED <<serverSeq, pushes, results>>
          /\ answers' = {[to |-> asked, ok |-> ok, seq |-> serverSeq]}
      BY <1>4 DEF Answer, server
    <2>2. \A a \in answers' : a.seq = serverSeq
      BY <2>1
    <2>3. OnePlace' /\ Numbered'
      BY <1>1, <2>1 DEF Placed, OnePlace, Numbered
    <2>4. \A x \in Fed : x <= serverSeq
      BY <1>2
    <2>5. NothingBehind'
      BY <1>1, <1>2, <2>2, <2>4 DEF Placed, NothingBehind, PassedOrFed
    <2> QED  BY <2>3, <2>5 DEF Placed
  <1> QED  BY <1>3, <1>4 DEF ServerAnswers, ServerFails

LEMMA OrderStep ==
    ASSUME TypeOK, OrderInv, [Next]_vars
    PROVE  OrderInv'
  <1>1. /\ AnswersRequest /\ SessionLost /\ OnTheWay
        /\ ~stale => InOrder
        /\ ~newSession /\ ~stale => Placed
    BY DEF OrderInv, FedInOrder, Placed
  <1>2. AnswersRequest' /\ SessionLost' /\ OnTheWay'
    BY <1>1, ExchangeStep, LostStep, OnTheWayStep
  <1>3. ASSUME ~stale' PROVE InOrder' /\ (~newSession' => Placed')
    <2>1. CASE newSession'
      <3>1. fed' = <<>>
        BY <1>2, <1>3, <2>1 DEF SessionLost
      <3> QED  BY <2>1, <3>1 DEF InOrder
    <2>2. CASE ~newSession'
      <3>0. ~stale /\ InOrder /\ ~LoseSession
        <4>1. ~LoseSession
          BY <2>2 DEF LoseSession
        <4>2. ~stale
          BY <1>3, <4>1 DEF Next, vars, budget, Server, GeneratePush, GenerateResult,
             ServerAnswers, ServerFails, ReceivePush, ReceiveResult,
             MtpNewSessionCreated, Done, DifferenceDone, DifferenceSlice,
             DifferenceFail, GetDifferenceAfterFail, Tick, BySeqTimerFires
        <4> QED  BY <1>1, <4>1, <4>2
      <3>1. CASE MtpNewSessionCreated
        <4>1. fed = <<>> /\ (requesting => bySeqUpdates = {})
          BY <1>1, <3>0, <3>1 DEF MtpNewSessionCreated, SessionLost
        <4>2. bySeqUpdates' = {}
          BY <3>1, <4>1 DEF MtpNewSessionCreated, GetDifference,
             RequestDifference, Keep, buffer
        <4>3. /\ fed' = <<>> /\ updatesSeq' = 0
              /\ UNCHANGED <<serverSeq, pushes, results, answers>>
          BY <3>1, <4>1, <4>2 DEF MtpNewSessionCreated, GetDifference,
             RequestDifference, exchange
        <4>4. Fed' = {} /\ InOrder'
          BY <4>3 DEF Fed, InOrder
        <4>5. serverSeq \in Nat /\ \A a \in answers : a.seq \in Nat
          BY Ranges
        <4>6. OnePlace' /\ Numbered'
          BY <4>2, <4>3, <4>4, <4>5 DEF OnePlace, Numbered
        <4>7. NothingBehind'
          BY <4>3, <4>4, <4>5 DEF NothingBehind, PassedOrFed
        <4> QED  BY <4>4, <4>6, <4>7 DEF Placed
      <3>2. CASE ~MtpNewSessionCreated
        <4>1. ~newSession /\ ~LoseSession
          <5>1. ~LoseSession
            BY <3>0
          <5> SUFFICES ~newSession
            BY <5>1
          <5>2. CASE Server
            BY <2>2, <5>1, <5>2 DEF Server, GeneratePush, GenerateResult,
               ServerAnswers, ServerFails, Answer, server
          <5>3. ASSUME NEW s, ReceivePush(s) \/ ReceiveResult(s) PROVE ~newSession
            BY <5>3 DEF ReceivePush, ReceiveResult
          <5>4. ASSUME NEW a, Done(a) PROVE ~newSession
            BY <2>2, <5>4 DEF Done, DifferenceDone, DifferenceSlice, DifferenceFail, server
          <5>5. CASE GetDifferenceAfterFail \/ Tick \/ BySeqTimerFires \/ UNCHANGED vars
            BY <2>2, <5>5 DEF GetDifferenceAfterFail, Tick, BySeqTimerFires, vars, server
          <5> QED  BY <3>2, <5>1, <5>2, <5>3, <5>4, <5>5 DEF Next
        <4>2. Placed
          BY <1>1, <3>0, <4>1
        <4>3. CASE GeneratePush \/ GenerateResult \/ ServerAnswers \/ ServerFails
          <5>1. UNCHANGED fed
            BY <4>3 DEF GeneratePush, GenerateResult, ServerAnswers, ServerFails,
               Answer, data
          <5> QED  BY <1>1, <3>0, <4>1, <4>2, <4>3, <5>1, ServerPlaced DEF InOrder
        <4>4. ASSUME NEW s, \/ s \in pushes /\ ReceivePush(s)
                            \/ s \in results /\ ReceiveResult(s)
              PROVE  InOrder' /\ Placed'
          BY <1>1, <3>0, <4>2, <4>4, ReceivePlaced
        <4>5. ASSUME NEW a \in answers, Done(a) PROVE InOrder' /\ Placed'
          BY <1>1, <3>0, <4>2, <4>5, DonePlaced
        <4>6. CASE GetDifferenceAfterFail \/ Tick \/ BySeqTimerFires \/ UNCHANGED vars
          <5>1. /\ UNCHANGED <<updatesSeq, fed, serverSeq, pushes, results, answers>>
                /\ bySeqUpdates' \in {bySeqUpdates, {}}
            BY <4>6 DEF GetDifferenceAfterFail, Tick, BySeqTimerFires,
               RequestDifference, Keep, vars, data, buffer, exchange, server
          <5> QED  BY <1>1, <3>0, <4>2, <5>1, Fewer DEF InOrder
        <4> QED  BY <3>2, <4>1, <4>3, <4>4, <4>5, <4>6 DEF Next, Server
      <3> QED  BY <3>1, <3>2
    <2> QED  BY <2>1, <2>2
  <1> QED  BY <1>2, <1>3 DEF OrderInv, FedInOrder, Placed

(* The containers of a session are fed in the order of their seq, each at  *)
(* most once: whatever order they came in, whether pushed or inside a      *)
(* result, and though an answer may set _updatesSeq back behind what was   *)
(* fed while it was on its way.  Left out are the sessions that began      *)
(* while containers from results waited behind a difference, which         *)
(* mtpNewSessionCreated() leaves in the buffer.                            *)
THEOREM Order == Spec => []FedInOrder
  <1>1. Init => TypeOK /\ OrderInv
    BY Initially
  <1>2. TypeOK /\ OrderInv /\ [Next]_vars => TypeOK' /\ OrderInv'
    BY TypeStep, OrderStep
  <1>3. OrderInv => FedInOrder
    BY DEF OrderInv
  <1> QED  BY <1>1, <1>2, <1>3, PTL DEF Spec
=============================================================================
