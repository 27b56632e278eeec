--------------------------- MODULE PtsWaiterProofs ---------------------------
(***************************************************************************)
(* Facts about the waiter's methods that do not depend on who calls them:  *)
(* each keeps WaiterInv, applies what it is given or keeps it, and never   *)
(* moves _good back.                                                       *)
(***************************************************************************)
EXTENDS PtsWaiter, TLAPS, FiniteSetTheorems, SequenceTheorems

(* Each generated update has natural pts and count.                        *)
LEMMA EventType ==
    ASSUME log \in Seq(Updates), NEW e \in Events
    PROVE  /\ e \in 1..Len(log) /\ Len(log) \in Nat
           /\ Pts(e) \in Nat /\ Count(e) \in Nat
  <1>1. Len(log) \in Nat /\ DOMAIN log = 1..Len(log)
    BY LenProperties
  <1>2. e \in 1..Len(log)
    BY <1>1 DEF Events
  <1>3. log[e] \in Updates
    BY <1>2, ElementOfSeq
  <1> QED  BY <1>1, <1>2, <1>3 DEF Pts, Count, Updates

(* The server's pts is a natural number, and no update is beyond it.       *)
LEMMA ServerPtsBounds ==
    ASSUME log \in Seq(Updates), LogOrdered
    PROVE  /\ ServerPts \in Nat
           /\ \A e \in Events : Pts(e) <= ServerPts
  <1>1. CASE log = <<>>
    <2>1. Events = {} /\ ServerPts = FirstPts
      BY <1>1 DEF Events, ServerPts
    <2> QED  BY <2>1, LogAssumption
  <1>2. CASE log # <<>>
    <2>1. Len(log) \in Events /\ ServerPts = Pts(Len(log))
      BY <1>2 DEF Events, ServerPts
    <2>2. ASSUME NEW e \in Events PROVE Pts(e) <= Pts(Len(log))
      <3>1. e = Len(log) \/ e < Len(log)
        BY EventType
      <3>2. Pts(e) \in Nat /\ Pts(Len(log)) \in Nat /\ Count(Len(log)) \in Nat
        BY <2>1, EventType
      <3> QED  BY <2>1, <3>1, <3>2 DEF LogOrdered
    <2> QED  BY <2>1, <2>2, EventType
  <1> QED  BY <1>1, <1>2

(* Two updates never account for the same pts value.                       *)
LEMMA PointsDisjoint ==
    ASSUME log \in Seq(Updates), LogOrdered,
           NEW e \in Events, NEW f \in Events, e # f
    PROVE  Points(e) \cap Points(f) = {}
  <1>1. e < f \/ f < e
    BY EventType
  <1> QED  BY <1>1, EventType DEF LogOrdered, Points

(* The number of pts values from a to b, when they are in order.           *)
LEMMA IntervalSize ==
    ASSUME NEW a \in Int, NEW b \in Int, a <= b + 1
    PROVE  IsFiniteSet(a..b) /\ Cardinality(a..b) = b - a + 1
  <1>1. IsFiniteSet(a..b) /\ Cardinality(a..b) = IF a > b THEN 0 ELSE b - a + 1
    BY FS_Interval, Zenon
  <1>2. a > b => b - a + 1 = 0
    OBVIOUS
  <1> QED  BY <1>1, <1>2

(* As many pts values as there are between b and l, all of them between b  *)
(* and l, are all the values between b and l.                              *)
LEMMA FullInterval ==
    ASSUME NEW b \in Nat, NEW l \in Nat, b <= l,
           NEW C \in SUBSET ((b + 1)..l), Cardinality(C) = l - b
    PROVE  C = (b + 1)..l
  <1>1. PICK a \in Int : a = b + 1
    OBVIOUS
  <1>2. IsFiniteSet(a..l) /\ Cardinality(a..l) = l - a + 1
    BY <1>1, IntervalSize
  <1>3. Cardinality(a..l) = Cardinality(C) /\ C \in SUBSET (a..l)
    BY <1>1, <1>2
  <1> QED  BY <1>1, <1>2, <1>3, FS_Subset

(* check(): counting a new update keeps the count exact, and when _good    *)
(* follows _last everything up to it has been counted.                     *)
LEMMA CountInExact ==
    ASSUME WaiterTypeOK, WaiterInv, NEW e \in Events,
           Points(e) \cap counted = {},
           Pts(e) > good \/ Count(e) = 0,
           CountIn(Pts(e), Count(e), Points(e)), log' = log
    PROVE  /\ last' \in Nat /\ count' \in Nat /\ good' \in Nat
           /\ base' = base /\ counted' \in SUBSET Nat
           /\ CountExact' /\ good <= good'
           /\ counted' = counted \cup Points(e)
           /\ OnBoundary(good)' /\ OnBoundary(last)' /\ OnBoundary(base)'
           /\ good' = good \/ (good' = last' /\ last' = count')
           /\ last' = count' => /\ good' = last'
                                /\ counted' = (base + 1)..good'
  <1>1. /\ Pts(e) \in Nat /\ Count(e) \in Nat
        /\ good \in Nat /\ last \in Nat /\ count \in Nat /\ base \in Nat
    BY EventType DEF WaiterTypeOK
  <1>2. /\ base <= good /\ good <= last
        /\ counted \subseteq (base + 1)..last
        /\ count = base + Cardinality(counted)
        /\ OnBoundary(good) /\ OnBoundary(last) /\ OnBoundary(base)
        /\ LogOrdered
    BY DEF WaiterInv, CountExact
  <1>3. /\ last' = MaxOf(last, Pts(e)) /\ count' = count + Count(e)
        /\ good' = IF last' = count' THEN last' ELSE good
        /\ counted' = counted \cup Points(e) /\ base' = base
    BY DEF CountIn
  <1>4. /\ last' \in Nat /\ last <= last' /\ Pts(e) <= last'
        /\ last' = last \/ last' = Pts(e)
    BY <1>1, <1>3 DEF MaxOf
  <1>5. /\ Points(e) \subseteq (base + 1)..last'
        /\ IsFiniteSet(Points(e)) /\ Cardinality(Points(e)) = Count(e)
    <2>1. Count(e) = 0 => Points(e) = {}
      BY <1>1 DEF Points
    <2>2. Count(e) > 0 => base <= Pts(e) - Count(e)
      BY <1>1, <1>2 DEF OnBoundary
    <2>3. Pts(e) - Count(e) + 1 \in Int
      BY <1>1
    <2>4. Points(e) \subseteq (base + 1)..last'
      BY <2>1, <2>2, <1>1, <1>4 DEF Points
    <2>5. IsFiniteSet(Points(e)) /\ Cardinality(Points(e)) = Count(e)
      <3>1. Pts(e) - Count(e) + 1 <= Pts(e) + 1 /\ Pts(e) \in Int
        BY <1>1
      <3>2. IsFiniteSet((Pts(e) - Count(e) + 1)..Pts(e))
        BY <2>3, <3>1, IntervalSize
      <3>3. Cardinality((Pts(e) - Count(e) + 1)..Pts(e))
            = Pts(e) - (Pts(e) - Count(e) + 1) + 1
        BY <2>3, <3>1, IntervalSize
      <3> QED  BY <3>2, <3>3, <1>1 DEF Points
    <2> QED  BY <2>4, <2>5
  <1>6. /\ counted' \subseteq (base + 1)..last'
        /\ count' = base + Cardinality(counted')
    <2>1. (base + 1)..last \subseteq (base + 1)..last'
      BY <1>1, <1>4
    <2>2. IsFiniteSet(counted)
      <3>1. base + 1 \in Int /\ last \in Int /\ base + 1 <= last + 1
        BY <1>1, <1>2
      <3>2. IsFiniteSet((base + 1)..last)
        BY <3>1, IntervalSize
      <3> QED  BY <3>2, <1>2, FS_Subset
    <2>3. /\ Cardinality(counted') = Cardinality(counted) + Cardinality(Points(e))
      <3>1. Cardinality(counted \cap Points(e)) = 0
        BY FS_EmptySet
      <3>2. /\ Cardinality(counted \cup Points(e))
               = Cardinality(counted) + Cardinality(Points(e))
                 - Cardinality(counted \cap Points(e))
        BY <2>2, <1>5, FS_Union
      <3> QED  BY <3>1, <3>2, <1>3, <2>2, <1>5, FS_CardinalityType
    <2>4. Cardinality(counted) \in Nat
      BY <2>2, FS_CardinalityType
    <2>5. counted' \subseteq (base + 1)..last'
      BY <2>1, <1>2, <1>3, <1>5
    <2>6. count' = base + Cardinality(counted')
      <3>1. /\ count' = count + Count(e) /\ count = base + Cardinality(counted)
            /\ Cardinality(counted') = Cardinality(counted) + Count(e)
        BY <2>3, <1>2, <1>3, <1>5
      <3> QED  BY <3>1, <2>4, <1>1
    <2> QED  BY <2>5, <2>6
  <1>7. /\ count' \in Nat /\ good' \in Nat /\ good <= good' /\ good' <= last'
        /\ base <= good' /\ counted' \in SUBSET Nat
    BY <1>1, <1>2, <1>3, <1>4, <1>6
  <1>8. OnBoundary(Pts(e))
    <2>1. Pts(e) <= ServerPts
      BY <1>2, ServerPtsBounds DEF WaiterTypeOK
    <2>2. ASSUME NEW f \in Events
          PROVE  Pts(f) <= Pts(e) \/ Pts(e) <= Pts(f) - Count(f)
      <3>1. f < e \/ f = e \/ e < f
        BY EventType DEF WaiterTypeOK
      <3>2. Pts(f) \in Nat /\ Count(f) \in Nat
        BY EventType DEF WaiterTypeOK
      <3> QED  BY <3>1, <3>2, <1>1, <1>2 DEF LogOrdered
    <2> QED  BY <2>1, <2>2 DEF OnBoundary
  <1>9. OnBoundary(last') /\ OnBoundary(good') /\ OnBoundary(base')
    BY <1>2, <1>3, <1>4, <1>8
  <1>10. OnBoundary(good)' /\ OnBoundary(last)' /\ OnBoundary(base)'
    BY <1>9 DEF OnBoundary, ServerPts, Events, Pts, Count
  <1>11. last' = count' => counted' = (base + 1)..last'
    <2>1. SUFFICES ASSUME last' = count' PROVE counted' = (base + 1)..last'
      OBVIOUS
    <2>2. Cardinality(counted') = last' - base
      <3>1. IsFiniteSet(counted')
        <4>1. base + 1 \in Int /\ last' \in Int
          BY <1>1, <1>4
        <4>2. IsFiniteSet((base + 1)..last')
          BY <4>1, FS_Interval, Zenon
        <4> QED  BY <4>2, <1>6, FS_Subset
      <3>2. Cardinality(counted') \in Nat
        BY <3>1, FS_CardinalityType
      <3> QED  BY <3>2, <2>1, <1>1, <1>6
    <2>3. base <= last'
      BY <1>1, <1>2, <1>4
    <2> QED  BY <2>2, <2>3, <1>1, <1>4, <1>6, FullInterval
  <1> QED  BY <1>3, <1>4, <1>6, <1>7, <1>10, <1>11 DEF CountExact

(* After counting e, a counted update is e itself or was applied or kept;  *)
(* and when _good follows _last, so is every update up to it.              *)
LEMMA CountInKeeps ==
    ASSUME WaiterTypeOK, WaiterInv, ~requesting, NEW e \in Events,
           Points(e) \cap counted = {},
           Pts(e) > good \/ Count(e) = 0,
           CountIn(Pts(e), Count(e), Points(e)), log' = log
    PROVE  /\ \A f \in Events :
                  Pts(f) \in counted' /\ Count(f) > 0
                      => f \in applied \cup queue \cup {e}
           /\ last' = count' =>
                 \A f \in Events : Pts(f) <= good' /\ Count(f) > 0
                                      => f \in applied \cup queue \cup {e}
  <1>1. \A f \in Events : Pts(f) \in counted' /\ Count(f) > 0
                              => f \in applied \cup queue \cup {e}
    <2> SUFFICES ASSUME NEW f \in Events, Pts(f) \in counted', Count(f) > 0,
                        f # e
                 PROVE  f \in applied \cup queue
      OBVIOUS
    <2>1. Pts(f) \in Points(f)
      BY EventType DEF WaiterTypeOK, Points
    <2>2. Points(f) \cap Points(e) = {}
      BY PointsDisjoint DEF WaiterTypeOK, WaiterInv
    <2>3. Pts(f) \in counted
      BY <2>1, <2>2 DEF CountIn
    <2> QED  BY <2>3 DEF WaiterInv, CountedIsKept
  <1>2. ASSUME last' = count', NEW f \in Events, Pts(f) <= good', Count(f) > 0
        PROVE  f \in applied \cup queue \cup {e}
    <2>1. counted' = (base + 1)..good' /\ good' \in Nat /\ base \in Nat
      BY <1>2, CountInExact DEF WaiterTypeOK
    <2>2. Pts(f) \in Nat /\ good \in Nat
      BY EventType DEF WaiterTypeOK
    <2>3. CASE Pts(f) <= base
      <3>1. Pts(f) <= good
        BY <2>1, <2>2, <2>3 DEF WaiterInv, CountExact
      <3> QED  BY <1>2, <3>1 DEF WaiterInv, NoSilentLoss
    <2>4. CASE ~(Pts(f) <= base)
      <3>1. Pts(f) \in counted'
        BY <1>2, <2>1, <2>2, <2>4
      <3> QED  BY <1>1, <1>2, <3>1
    <2> QED  BY <2>3, <2>4
  <1> QED  BY <1>1, <1>2

(* applySkippedUpdates() and the delivery of one update apply the given    *)
(* updates, never forget one, and empty the queue or leave it waiting.     *)
LEMMA ApplySkippedEffect ==
    ASSUME WaiterTypeOK, NEW es \in SUBSET Events,
           NEW w \in BOOLEAN, NEW t \in BOOLEAN, queue # {} => w,
           ApplySkipped(es, w, t)
    PROVE  /\ applied' = applied \cup es \cup queue /\ queue' = {}
           /\ waitingForSkipped' \in BOOLEAN /\ timer' \in BOOLEAN
  BY DEF ApplySkipped, WaiterTypeOK

LEMMA DeliverEffect ==
    ASSUME WaiterTypeOK, NEW e \in Events,
           NEW w \in BOOLEAN, NEW t \in BOOLEAN, queue # {} => w,
           Deliver(e, w, t)
    PROVE  /\ applied' = applied \cup {e} \cup queue /\ queue' = {}
           /\ waitingForSkipped' \in BOOLEAN /\ timer' \in BOOLEAN
  <1>1. CASE queue = {}
    BY <1>1 DEF Deliver, WaiterTypeOK
  <1>2. CASE queue # {}
    BY <1>2, ApplySkippedEffect DEF Deliver
  <1> QED  BY <1>1, <1>2

(* A step that leaves the counters and the log alone and only adds to the  *)
(* data, without forgetting a kept update, keeps the invariant.            *)
LEMMA NumbersUnchanged ==
    ASSUME WaiterTypeOK, WaiterInv, UNCHANGED numbers, log' = log,
           applied \subseteq applied',
           requesting' \/ (~requesting /\ applied \cup queue \subseteq
                                             applied' \cup queue'),
           queue' # {} => waitingForSkipped'
    PROVE  WaiterInv'
  <1>1. /\ LogOrdered' /\ CountExact'
        /\ OnBoundary(good)' /\ OnBoundary(last)' /\ OnBoundary(base)'
    BY DEF WaiterInv, numbers, LogOrdered, CountExact, OnBoundary, ServerPts,
           Events, Pts, Count
  <1>2. CountedIsKept'
    BY DEF WaiterInv, numbers, CountedIsKept, Events, Pts, Count
  <1>3. NoSilentLoss'
    BY DEF WaiterInv, numbers, NoSilentLoss, Events, Pts, Count
  <1> QED  BY <1>1, <1>2, <1>3 DEF WaiterInv

(* A step that counts e and then applies or keeps it.                      *)
LEMMA CountedStep ==
    ASSUME WaiterTypeOK, WaiterInv, ~requesting, ~requesting',
           NEW e \in Events, Points(e) \cap counted = {},
           Pts(e) > good \/ Count(e) = 0,
           CountIn(Pts(e), Count(e), Points(e)), log' = log,
           applied \subseteq applied',
           applied \cup queue \cup {e} \subseteq applied' \cup queue',
           last' = count' => queue' = {},
           queue' # {} => waitingForSkipped'
    PROVE  WaiterInv'
  <1>1. /\ CountExact'
        /\ OnBoundary(good)' /\ OnBoundary(last)' /\ OnBoundary(base)'
        /\ good' = good \/ last' = count'
    BY CountInExact
  <1>2. LogOrdered'
    BY DEF WaiterInv, LogOrdered, Events, Pts, Count
  <1>3. CountedIsKept'
    BY CountInKeeps DEF CountedIsKept, Events, Pts, Count
  <1>4. NoSilentLoss'
    <2>1. CASE last' = count'
      BY <2>1, CountInKeeps DEF NoSilentLoss, Events, Pts, Count
    <2>2. CASE good' = good
      BY <2>2 DEF WaiterInv, NoSilentLoss, Events, Pts, Count
    <2> QED  BY <1>1, <2>1, <2>2
  <1> QED  BY <1>1, <1>2, <1>3, <1>4 DEF WaiterInv

(* init(pts) at a pts between two updates, when everything up to it is in  *)
(* the data.                                                               *)
LEMMA ResetStep ==
    ASSUME WaiterTypeOK, WaiterInv, NEW p \in Nat, OnBoundary(p),
           ResetTo(p), queue' = {}, log' = log,
           \A f \in Events : Pts(f) <= p /\ Count(f) > 0 => f \in applied'
    PROVE  WaiterInv'
  <1>1. /\ good' = p /\ last' = p /\ count' = p /\ base' = p
        /\ counted' = {} /\ Cardinality({}) = 0
    BY FS_EmptySet DEF ResetTo
  <1>2. OnBoundary(good)' /\ OnBoundary(last)' /\ OnBoundary(base)'
    BY <1>1 DEF OnBoundary, ServerPts, Events, Pts, Count
  <1>3. LogOrdered' /\ CountExact' /\ CountedIsKept'
    BY <1>1 DEF WaiterInv, LogOrdered, CountExact, CountedIsKept, Events, Pts,
                Count
  <1>4. NoSilentLoss'
    BY <1>1 DEF NoSilentLoss, Events, Pts, Count
  <1> QED  BY <1>2, <1>3, <1>4 DEF WaiterInv

(* An update's own pts lies between two updates.                           *)
LEMMA PtsOnBoundary ==
    ASSUME log \in Seq(Updates), LogOrdered, NEW e \in Events
    PROVE  OnBoundary(Pts(e))
  <1>1. Pts(e) <= ServerPts
    BY ServerPtsBounds
  <1>2. ASSUME NEW f \in Events
        PROVE  Pts(f) <= Pts(e) \/ Pts(e) <= Pts(f) - Count(f)
    <2>1. f < e \/ f = e \/ e < f
      BY EventType
    <2>2. /\ Pts(f) \in Nat /\ Count(f) \in Nat
          /\ Pts(e) \in Nat /\ Count(e) \in Nat
      BY EventType
    <2> QED  BY <2>1, <2>2 DEF LogOrdered
  <1> QED  BY <1>1, <1>2 DEF OnBoundary

(* What every call of updateAndApply keeps.                                *)
Keeps(points) ==
    /\ WaiterTypeOK' /\ WaiterInv'
    /\ good <= good' /\ applied \subseteq applied'
    /\ counted' \subseteq counted \cup points

(* updateAndApply(pts, count, update) of an update not counted before.     *)
LEMMA UpdateAndApplyKeeps ==
    ASSUME WaiterTypeOK, WaiterInv, NEW e \in Events,
           Points(e) \cap counted = {}, UpdateAndApply(e), log' = log
    PROVE  Keeps(Points(e))
  <1> USE DEF WaiterTypeOK
  <1>1. /\ Pts(e) \in Nat /\ Count(e) \in Nat /\ good <= good
        /\ requesting' = requesting /\ waitingForShortPoll' = waitingForShortPoll
        /\ Events' = Events /\ (queue # {} => waitingForSkipped)
    BY EventType DEF UpdateAndApply, Events, WaiterInv
  <1>2. CASE DeliverUncounted(e)
    <2>1. /\ applied' = applied \cup {e} \cup queue /\ queue' = {}
          /\ waitingForSkipped' \in BOOLEAN /\ timer' \in BOOLEAN
          /\ UNCHANGED numbers
      BY <1>1, <1>2, DeliverEffect DEF DeliverUncounted
    <2>2. WaiterInv'
      BY <1>1, <1>2, <2>1, NumbersUnchanged DEF DeliverUncounted
    <2> QED  BY <1>1, <2>1, <2>2 DEF Keeps, numbers
  <1>3. CASE DropOld(e)
    <2>1. UNCHANGED numbers /\ UNCHANGED waiting /\ applied' = applied
      BY <1>3 DEF DropOld
    <2>2. WaiterInv'
      BY <1>1, <2>1, NumbersUnchanged DEF waiting
    <2> QED  BY <1>1, <2>1, <2>2 DEF Keeps, numbers, waiting
  <1>4. CASE StartFrom(e)
    <2>1. /\ ResetTo(Pts(e)) /\ queue' = {}
          /\ applied' = applied \cup UpTo(Pts(e)) /\ good = 0
          /\ UNCHANGED <<waitingForSkipped, timer>>
      BY <1>4 DEF StartFrom, inited
    <2>2. OnBoundary(Pts(e))
      BY PtsOnBoundary DEF WaiterInv
    <2>3. \A f \in Events : Pts(f) <= Pts(e) => f \in applied'
      BY <2>1 DEF UpTo
    <2>4. WaiterInv'
      BY <1>1, <2>1, <2>2, <2>3, ResetStep
    <2> QED  BY <1>1, <2>1, <2>4 DEF Keeps, ResetTo, UpTo
  <1>5. CASE CountAndDeliver(e)
    <2>1. /\ ~requesting /\ last' = count'
          /\ Pts(e) > good \/ Count(e) = 0
          /\ CountIn(Pts(e), Count(e), Points(e))
      BY <1>1, <1>5 DEF CountAndDeliver
    <2>2. /\ applied' = applied \cup {e} \cup queue /\ queue' = {}
          /\ waitingForSkipped' \in BOOLEAN /\ timer' \in BOOLEAN
      BY <1>1, <1>5, DeliverEffect DEF CountAndDeliver
    <2>3. WaiterInv'
      BY <1>1, <2>1, <2>2, CountedStep
    <2> QED  BY <1>1, <2>1, <2>2, <2>3, CountInExact DEF Keeps
  <1>6. CASE DeliverOverGap(e)
    <2>1. /\ ~requesting /\ Count(e) = 0
          /\ CountIn(Pts(e), Count(e), Points(e))
      BY <1>6 DEF DeliverOverGap
    <2>2. /\ applied' = applied \cup {e} \cup queue /\ queue' = {}
          /\ waitingForSkipped' \in BOOLEAN /\ timer' \in BOOLEAN
      BY <1>1, <1>6, DeliverEffect DEF DeliverOverGap
    <2>3. WaiterInv'
      BY <1>1, <2>1, <2>2, CountedStep
    <2> QED  BY <1>1, <2>1, <2>2, <2>3, CountInExact DEF Keeps
  <1>7. CASE KeepForLater(e)
    <2>1. /\ ~requesting /\ Pts(e) > good /\ last' # count'
          /\ CountIn(Pts(e), Count(e), Points(e))
          /\ queue' = queue \cup {e} /\ applied' = applied
          /\ waitingForSkipped' = TRUE /\ timer' = TRUE
      BY <1>7 DEF KeepForLater
    <2>2. WaiterInv'
      BY <1>1, <2>1, CountedStep
    <2> QED  BY <1>1, <2>1, <2>2, CountInExact DEF Keeps
  <1> QED  BY <1>2, <1>3, <1>4, <1>5, <1>6, <1>7 DEF UpdateAndApply

(* updateAndApply(pts, count) of an update already put into the data.      *)
LEMMA UpdateAndApplyDoneKeeps ==
    ASSUME WaiterTypeOK, WaiterInv, NEW e \in Events,
           Points(e) \cap counted = {},
           UpdateAndApplyDone(Pts(e), Count(e), Points(e), {e}), log' = log
    PROVE  Keeps(Points(e))
  <1> USE DEF WaiterTypeOK
  <1>1. /\ Pts(e) \in Nat /\ Count(e) \in Nat /\ good <= good
        /\ requesting' = requesting /\ waitingForShortPoll' = waitingForShortPoll
        /\ Events' = Events /\ (queue # {} => waitingForSkipped)
    BY EventType DEF UpdateAndApplyDone, Events, WaiterInv
  <1>2. CASE /\ requesting
             /\ ApplySkipped({e}, waitingForSkipped, timer)
             /\ UNCHANGED numbers
    <2>1. /\ applied' = applied \cup {e} \cup queue /\ queue' = {}
          /\ waitingForSkipped' \in BOOLEAN /\ timer' \in BOOLEAN
      BY <1>1, <1>2, ApplySkippedEffect
    <2>2. WaiterInv'
      BY <1>1, <1>2, <2>1, NumbersUnchanged
    <2> QED  BY <1>1, <1>2, <2>1, <2>2 DEF Keeps, numbers
  <1>3. CASE /\ ~requesting
             /\ applied' = applied \cup {e}
             /\ UNCHANGED <<numbers, waiting>>
    <2>1. WaiterInv'
      BY <1>1, <1>3, NumbersUnchanged DEF waiting
    <2> QED  BY <1>1, <1>3, <2>1 DEF Keeps, numbers, waiting
  <1>4. CASE /\ ~requesting /\ ~inited
             /\ ResetTo(Pts(e))
             /\ applied' = applied \cup {e} \cup UpTo(Pts(e))
             /\ queue' = {} /\ waitingForSkipped' = FALSE
             /\ timer' \in BOOLEAN
    <2>1. OnBoundary(Pts(e))
      BY PtsOnBoundary DEF WaiterInv
    <2>2. \A f \in Events : Pts(f) <= Pts(e) => f \in applied'
      BY <1>4 DEF UpTo
    <2>3. WaiterInv'
      BY <1>1, <1>4, <2>1, <2>2, ResetStep
    <2>4. /\ good' = Pts(e) /\ last' = Pts(e) /\ count' = Pts(e)
          /\ base' = Pts(e) /\ counted' = {} /\ good = 0
      BY <1>4 DEF ResetTo, inited
    <2>5. applied' \in SUBSET Events /\ applied \subseteq applied'
      BY <1>4 DEF UpTo
    <2>6. WaiterTypeOK'
      BY <1>1, <1>4, <2>4, <2>5
    <2> QED  BY <1>1, <2>3, <2>4, <2>5, <2>6 DEF Keeps
  <1>5. CASE /\ ~requesting /\ (Pts(e) > good \/ Count(e) = 0)
             /\ CountIn(Pts(e), Count(e), Points(e))
             /\ \/ ApplySkipped({e}, waitingForSkipped, timer)
                \/ ApplySkipped({e}, TRUE, TRUE)
                \/ /\ last' # count' /\ applied' = applied \cup {e}
                   /\ queue' = queue
                   /\ waitingForSkipped' = TRUE /\ timer' = TRUE
    <2>1. /\ applied \cup {e} \subseteq applied'
          /\ applied' \in SUBSET Events /\ queue' \in SUBSET Events
          /\ applied \cup queue \cup {e} \subseteq applied' \cup queue'
          /\ last' = count' => queue' = {}
          /\ queue' # {} => waitingForSkipped'
          /\ waitingForSkipped' \in BOOLEAN /\ timer' \in BOOLEAN
      <3>1. CASE ApplySkipped({e}, waitingForSkipped, timer)
        <4>1. /\ applied' = applied \cup {e} \cup queue /\ queue' = {}
              /\ waitingForSkipped' \in BOOLEAN /\ timer' \in BOOLEAN
          BY <1>1, <3>1, ApplySkippedEffect
        <4> QED  BY <4>1
      <3>2. CASE ApplySkipped({e}, TRUE, TRUE)
        <4>1. /\ applied' = applied \cup {e} \cup queue /\ queue' = {}
              /\ waitingForSkipped' \in BOOLEAN /\ timer' \in BOOLEAN
          BY <1>1, <3>2, ApplySkippedEffect
        <4> QED  BY <4>1
      <3>3. CASE /\ last' # count' /\ applied' = applied \cup {e}
                 /\ queue' = queue
                 /\ waitingForSkipped' = TRUE /\ timer' = TRUE
        BY <3>3
      <3> QED  BY <1>5, <3>1, <3>2, <3>3
    <2>2. WaiterInv'
      BY <1>1, <1>5, <2>1, CountedStep
    <2>3. /\ last' \in Nat /\ count' \in Nat /\ good' \in Nat
          /\ base' \in Nat /\ counted' \in SUBSET Nat /\ good <= good'
          /\ counted' = counted \cup Points(e)
      BY <1>5, CountInExact
    <2>4. WaiterTypeOK'
      BY <1>1, <2>1, <2>3
    <2> QED  BY <2>1, <2>2, <2>3, <2>4 DEF Keeps
  <1>6. ASSUME ~requesting, inited, ~(Pts(e) <= good /\ Count(e) > 0),
               CountIn(Pts(e), Count(e), Points(e)),
               IF last' = count'
               THEN ApplySkipped({e}, waitingForSkipped, timer)
               ELSE IF Count(e) = 0
               THEN ApplySkipped({e}, TRUE, TRUE)
               ELSE /\ applied' = applied \cup {e}
                    /\ queue' = queue
                    /\ waitingForSkipped' = TRUE /\ timer' = TRUE
        PROVE  Keeps(Points(e))
    <2>1. Pts(e) > good \/ Count(e) = 0
      BY <1>1, <1>6
    <2> QED  BY <1>5, <1>6, <2>1
  <1>7. ASSUME ~requesting, ~inited, ResetTo(Pts(e)),
               applied' = applied \cup {e} \cup UpTo(Pts(e)),
               queue' = {}, waitingForSkipped' = FALSE,
               timer' = (timer /\ (waitingForSkipped => waitingForShortPoll))
        PROVE  Keeps(Points(e))
    <2>1. timer' \in BOOLEAN
      BY <1>7
    <2> QED  BY <1>4, <1>7, <2>1
  <1> QED
    BY <1>2, <1>3, <1>6, <1>7 DEF UpdateAndApplyDone

(* The pts before the first update is a boundary as well.                  *)
LEMMA FirstPtsOnBoundary ==
    ASSUME log \in Seq(Updates), LogOrdered PROVE OnBoundary(FirstPts)
  <1>1. FirstPts <= ServerPts
    <2>1. CASE log = <<>>
      BY <2>1, LogAssumption DEF ServerPts
    <2>2. CASE log # <<>>
      <3>1. Len(log) \in Events /\ ServerPts = Pts(Len(log))
        BY <2>2, LenProperties DEF Events, ServerPts
      <3> QED  BY <3>1, EventType, LogAssumption DEF LogOrdered
    <2> QED  BY <2>1, <2>2
  <1>2. \A e \in Events : FirstPts <= Pts(e) - Count(e)
    BY DEF LogOrdered
  <1> QED  BY <1>1, <1>2 DEF OnBoundary

(* No more pts values are counted than lie between the init() and _last.   *)
LEMMA CountAtMostLast ==
    ASSUME WaiterTypeOK, WaiterInv
    PROVE  count <= last /\ (count = last => counted = (base + 1)..last)
  <1>1. /\ base \in Nat /\ last \in Nat /\ base <= last
        /\ counted \subseteq (base + 1)..last
        /\ count = base + Cardinality(counted)
    BY DEF WaiterTypeOK, WaiterInv, CountExact
  <1>2. PICK a \in Int : a = base + 1
    BY <1>1
  <1>3. IsFiniteSet(a..last) /\ Cardinality(a..last) = last - a + 1
    BY <1>1, <1>2, IntervalSize
  <1>4. /\ Cardinality(counted) <= Cardinality(a..last)
        /\ Cardinality(counted) \in Nat
    BY <1>1, <1>2, <1>3, FS_Subset, FS_CardinalityType
  <1>5. count <= last
    BY <1>1, <1>2, <1>3, <1>4
  <1>6. ASSUME count = last PROVE counted = (base + 1)..last
    <2>1. Cardinality(counted) = last - base
      BY <1>1, <1>4, <1>6
    <2> QED  BY <1>1, <2>1, FullInterval
  <1> QED  BY <1>5, <1>6

(* updateAndApply(pts, 0): a pts read with a dialog moves _last to it, and *)
(* _good only if nothing was missing; the queue is applied either way.     *)
LEMMA UpdateAndApplyReadKeeps ==
    ASSUME WaiterTypeOK, WaiterInv, NEW p \in Nat, OnBoundary(p),
           UpdateAndApplyDone(p, 0, {}, {}), log' = log
    PROVE  Keeps({})
  <1> USE DEF WaiterTypeOK
  <1>1. /\ requesting' = requesting /\ waitingForShortPoll' = waitingForShortPoll
        /\ Events' = Events /\ (queue # {} => waitingForSkipped)
        /\ good \in Nat /\ last \in Nat /\ count \in Nat /\ base \in Nat
    BY DEF UpdateAndApplyDone, Events, WaiterInv
  <1>2. CASE /\ requesting
             /\ ApplySkipped({}, waitingForSkipped, timer)
             /\ UNCHANGED numbers
    <2>1. /\ applied' = applied \cup {} \cup queue /\ queue' = {}
          /\ waitingForSkipped' \in BOOLEAN /\ timer' \in BOOLEAN
      BY <1>1, <1>2, ApplySkippedEffect
    <2>2. WaiterInv'
      BY <1>1, <1>2, <2>1, NumbersUnchanged
    <2> QED  BY <1>1, <1>2, <2>1, <2>2 DEF Keeps, numbers
  <1>3. ASSUME ~requesting, ~inited, ResetTo(p),
               applied' = applied \cup {} \cup UpTo(p),
               queue' = {}, waitingForSkipped' = FALSE,
               timer' = (timer /\ (waitingForSkipped => waitingForShortPoll))
        PROVE  Keeps({})
    <2>1. \A f \in Events : Pts(f) <= p => f \in applied'
      BY <1>3 DEF UpTo
    <2>2. WaiterInv'
      BY <1>1, <1>3, <2>1, ResetStep
    <2>3. /\ good' = p /\ last' = p /\ count' = p
          /\ base' = p /\ counted' = {} /\ good = 0
      BY <1>1, <1>3 DEF ResetTo, inited
    <2>4. applied' \in SUBSET Events /\ applied \subseteq applied'
      BY <1>3 DEF UpTo
    <2>5. timer' \in BOOLEAN
      BY <1>3
    <2>6. WaiterTypeOK'
      BY <1>1, <1>3, <2>3, <2>4, <2>5
    <2> QED  BY <1>1, <2>2, <2>3, <2>4, <2>6 DEF Keeps
  <1>4. ASSUME ~requesting, CountIn(p, 0, {}),
               \/ ApplySkipped({}, waitingForSkipped, timer)
               \/ ApplySkipped({}, TRUE, TRUE)
        PROVE  Keeps({})
    <2>1. /\ applied' = applied \cup queue /\ queue' = {}
          /\ waitingForSkipped' \in BOOLEAN /\ timer' \in BOOLEAN
      <3>1. CASE ApplySkipped({}, waitingForSkipped, timer)
        <4>1. /\ applied' = applied \cup {} \cup queue /\ queue' = {}
              /\ waitingForSkipped' \in BOOLEAN /\ timer' \in BOOLEAN
          BY <1>1, <3>1, ApplySkippedEffect
        <4> QED  BY <4>1
      <3>2. CASE ApplySkipped({}, TRUE, TRUE)
        <4>1. /\ applied' = applied \cup {} \cup queue /\ queue' = {}
              /\ waitingForSkipped' \in BOOLEAN /\ timer' \in BOOLEAN
          BY <1>1, <3>2, ApplySkippedEffect
        <4> QED  BY <4>1
      <3> QED  BY <1>4, <3>1, <3>2
    <2>2. /\ last' = MaxOf(last, p) /\ count' = count /\ base' = base
          /\ good' = (IF last' = count' THEN last' ELSE good)
          /\ counted' = counted
      BY <1>1, <1>4 DEF CountIn
    <2>3. /\ last' \in Nat /\ last <= last' /\ (last' = last \/ last' = p)
      BY <1>1, <2>2 DEF MaxOf
    <2>4. /\ base <= good /\ good <= last
          /\ counted \subseteq (base + 1)..last
          /\ count = base + Cardinality(counted)
      BY DEF WaiterInv, CountExact
    <2>5. ASSUME good' # good
          PROVE  /\ last' = last /\ good' = last
                 /\ counted = (base + 1)..last
      BY <1>1, <2>2, <2>3, <2>5, CountAtMostLast
    <2>6. good' \in Nat /\ good <= good' /\ good' <= last'
      BY <1>1, <2>2, <2>3, <2>4
    <2>7. CountExact'
      BY <1>1, <2>2, <2>3, <2>4, <2>6 DEF CountExact
    <2>8. OnBoundary(good)' /\ OnBoundary(last)' /\ OnBoundary(base)'
      <3>1. OnBoundary(good') /\ OnBoundary(last') /\ OnBoundary(base')
        BY <2>2, <2>3, <2>5 DEF WaiterInv
      <3> QED  BY <3>1 DEF OnBoundary, ServerPts, Events, Pts, Count
    <2>9. CountedIsKept'
      BY <1>4, <2>1, <2>2 DEF WaiterInv, CountedIsKept, Events, Pts, Count
    <2>10. NoSilentLoss'
      <3> SUFFICES ASSUME NEW f \in Events, Pts(f) <= good', Count(f) > 0
                   PROVE  f \in applied'
        BY DEF NoSilentLoss, Events, Pts, Count
      <3>1. Pts(f) \in Nat
        BY EventType
      <3>2. CASE Pts(f) <= good
        BY <2>1, <3>2 DEF WaiterInv, NoSilentLoss
      <3>3. CASE ~(Pts(f) <= good)
        <4>1. good' # good
          BY <3>3
        <4>2. Pts(f) \in counted
          BY <1>1, <2>4, <2>5, <3>1, <3>3, <4>1
        <4> QED  BY <1>4, <2>1, <4>2 DEF WaiterInv, CountedIsKept
      <3> QED  BY <3>2, <3>3
    <2>11. LogOrdered'
      BY DEF WaiterInv, LogOrdered, Events, Pts, Count
    <2>12. WaiterInv'
      BY <2>1, <2>7, <2>8, <2>9, <2>10, <2>11 DEF WaiterInv
    <2>13. WaiterTypeOK'
      BY <1>1, <2>1, <2>2, <2>3, <2>6
    <2> QED  BY <2>1, <2>2, <2>6, <2>12, <2>13 DEF Keeps
  <1>5. ~(p <= good /\ 0 > 0)
    OBVIOUS
  <1>6. \/ /\ requesting
           /\ ApplySkipped({}, waitingForSkipped, timer)
           /\ UNCHANGED numbers
        \/ /\ ~requesting /\ ~inited /\ ResetTo(p)
           /\ applied' = applied \cup {} \cup UpTo(p)
           /\ queue' = {} /\ waitingForSkipped' = FALSE
           /\ timer' = (timer /\ (waitingForSkipped => waitingForShortPoll))
        \/ /\ ~requesting /\ CountIn(p, 0, {})
           /\ \/ ApplySkipped({}, waitingForSkipped, timer)
              \/ ApplySkipped({}, TRUE, TRUE)
    BY <1>5, Zenon DEF UpdateAndApplyDone
  <1> QED
    BY <1>2, <1>3, <1>4, <1>6

(* An update that counts leaves no gap without its timer.                  *)
LEMMA GapArmed ==
    ASSUME WaiterTypeOK, GapWaits, ~requesting,
           NEW e \in Events, Count(e) > 0,
           \/ UpdateAndApply(e)
           \/ UpdateAndApplyDone(Pts(e), Count(e), Points(e), {e})
    PROVE  GapWaits'
  <1>1. Count(e) \in Nat /\ Count(e) # 0
    BY EventType DEF WaiterTypeOK
  <1>2. CASE UpdateAndApply(e)
    <2>1. requesting' = requesting /\ ~DeliverUncounted(e) /\ ~DeliverOverGap(e)
      BY <1>1, <1>2 DEF UpdateAndApply, DeliverUncounted, DeliverOverGap
    <2>2. CASE DropOld(e)
      BY <2>1, <2>2 DEF DropOld, numbers, waiting, GapWaits
    <2>3. CASE StartFrom(e)
      BY <2>1, <2>3 DEF StartFrom, ResetTo, GapWaits
    <2>4. CASE CountAndDeliver(e)
      BY <2>1, <2>4 DEF CountAndDeliver, CountIn, GapWaits
    <2>5. CASE KeepForLater(e)
      BY <2>1, <2>5 DEF KeepForLater, GapWaits
    <2> QED  BY <1>2, <2>1, <2>2, <2>3, <2>4, <2>5 DEF UpdateAndApply
  <1>3. CASE UpdateAndApplyDone(Pts(e), Count(e), Points(e), {e})
    BY <1>1, <1>3 DEF UpdateAndApplyDone, numbers, waiting, ResetTo, CountIn,
                      GapWaits
  <1> QED  BY <1>2, <1>3

(* The server generating one more update.                                  *)
LEMMA GenerateKeeps ==
    ASSUME WaiterTypeOK, WaiterInv, NEW c \in Counts, Generate(c),
           UNCHANGED waiterVars
    PROVE  /\ WaiterTypeOK' /\ WaiterInv'
           /\ Len(log') = Len(log) + 1 /\ Len(log') \in Events'
           /\ Events \subseteq Events' /\ Len(log') \notin Events
           /\ \A e \in Events : Pts(e)' = Pts(e) /\ Count(e)' = Count(e)
           /\ Points(Len(log))' \cap counted' = {}
           /\ ServerPts <= ServerPts'
           /\ \A p \in Nat : OnBoundary(p) => OnBoundary(p)'
  <1> DEFINE u == [pts |-> ServerPts + c, count |-> c]
  <1>a. Len(log) \in Nat
    BY LenProperties DEF WaiterTypeOK
  <1>b. PICK n \in Nat : n = Len(log) + 1
    BY <1>a
  <1>1. /\ ServerPts \in Nat /\ \A e \in Events : Pts(e) <= ServerPts
    BY ServerPtsBounds DEF WaiterTypeOK, WaiterInv
  <1>2. c \in Nat /\ u \in Updates /\ log \in Seq(Updates) /\ Len(log) \in Nat
    BY <1>1, LogAssumption, LenProperties DEF WaiterTypeOK, Updates
  <1>3. /\ log' \in Seq(Updates) /\ Len(log') = n /\ log'[n] = u
        /\ \A e \in 1..Len(log) : log'[e] = log[e]
        /\ log' # <<>>
    BY <1>2, <1>b, AppendProperties DEF Generate
  <1>4. /\ Events = 1..Len(log) /\ Events' = 1..n
        /\ n \in Events' /\ n \notin Events /\ Events \subseteq Events'
        /\ Events' = Events \cup {n}
    BY <1>2, <1>3, <1>b, LenProperties DEF Events
  <1>5. \A e \in Events : Pts(e)' = Pts(e) /\ Count(e)' = Count(e)
    BY <1>3, <1>4 DEF Pts, Count
  <1>6. Pts(n)' = ServerPts + c /\ Count(n)' = c /\ ServerPts' = ServerPts + c
    BY <1>3 DEF Pts, Count, ServerPts
  <1>7. \A e \in Events : Pts(e) \in Nat /\ Count(e) \in Nat
    BY EventType DEF WaiterTypeOK
  <1>8. ASSUME NEW p \in Nat, OnBoundary(p) PROVE OnBoundary(p)'
    <2>1. p <= ServerPts
      BY <1>8 DEF OnBoundary
    <2>2. p <= ServerPts'
      BY <2>1, <1>1, <1>2, <1>6
    <2>3. p <= Pts(n)' - Count(n)'
      BY <2>1, <1>1, <1>2, <1>6
    <2> QED  BY <1>4, <1>5, <1>8, <2>2, <2>3 DEF OnBoundary
  <1>9. LogOrdered'
    <2>1. FirstPts <= ServerPts
      <3>1. CASE log = <<>>
        BY <3>1, LogAssumption DEF ServerPts
      <3>2. CASE log # <<>>
        <4>1. Len(log) \in Events /\ ServerPts = Pts(Len(log))
          BY <1>2, <1>4, <3>2 DEF ServerPts
        <4> QED  BY <4>1, <1>7, LogAssumption DEF WaiterInv, LogOrdered
      <3> QED  BY <3>1, <3>2
    <2>2. FirstPts <= Pts(n)' - Count(n)'
      BY <2>1, <1>1, <1>2, <1>6, LogAssumption
    <2>3. \A e \in Events : Pts(e)' <= Pts(n)' - Count(n)'
      BY <1>1, <1>2, <1>5, <1>6, <1>7
    <2>4. \A e \in Events' : e = n \/ (e \in Events /\ e < n)
      BY <1>2, <1>4, <1>b
    <2> QED  BY <1>4, <1>5, <2>2, <2>3, <2>4 DEF WaiterInv, LogOrdered
  <1>10. (Points(n)' \cap counted = {} /\ Pts(n)' \notin counted) \/ c = 0
    <2>1. \A p \in counted : p \in Nat /\ p <= ServerPts
      BY <1>1 DEF WaiterTypeOK, WaiterInv, CountExact, OnBoundary
    <2> QED  BY <2>1, <1>1, <1>2, <1>6 DEF Points
  <1>11. Points(n)' \cap counted = {}
    BY <1>1, <1>2, <1>6, <1>10 DEF Points
  <1>12. /\ counted' = counted /\ good' = good /\ last' = last
         /\ count' = count /\ base' = base /\ queue' = queue
         /\ applied' = applied /\ requesting' = requesting
         /\ waitingForSkipped' = waitingForSkipped /\ timer' = timer
         /\ waitingForShortPoll' = waitingForShortPoll
    BY DEF waiterVars, numbers, waiting
  <1>13. WaiterTypeOK'
    BY <1>3, <1>4, <1>12 DEF WaiterTypeOK
  <1>14. CountExact' /\ (queue' # {} => waitingForSkipped')
    BY <1>12 DEF WaiterInv, CountExact
  <1>15. CountedIsKept'
    <2>1. ~(Pts(n)' \in counted' /\ Count(n)' > 0)
      BY <1>6, <1>10, <1>12, <1>2
    <2> QED  BY <1>4, <1>5, <1>12, <2>1 DEF WaiterInv, CountedIsKept
  <1>16. NoSilentLoss'
    <2>1. ~(Pts(n)' <= good' /\ Count(n)' > 0)
      BY <1>1, <1>2, <1>6, <1>12 DEF WaiterTypeOK, WaiterInv, OnBoundary
    <2> QED  BY <1>4, <1>5, <1>12, <2>1 DEF WaiterInv, NoSilentLoss
  <1>17. OnBoundary(good)' /\ OnBoundary(last)' /\ OnBoundary(base)'
    <2>1. /\ good \in Nat /\ last \in Nat /\ base \in Nat
          /\ OnBoundary(good) /\ OnBoundary(last) /\ OnBoundary(base)
      BY DEF WaiterTypeOK, WaiterInv
    <2> QED  BY <1>8, <1>12, <2>1 DEF OnBoundary
  <1>18. WaiterInv'
    BY <1>9, <1>14, <1>15, <1>16, <1>17 DEF WaiterInv
  <1>19. ServerPts <= ServerPts'
    BY <1>1, <1>2, <1>6
  <1> QED
    BY <1>3, <1>4, <1>5, <1>8, <1>11, <1>12, <1>13, <1>18, <1>19, <1>b

(* The server only numbers updates of the counts it has.                   *)
LEMMA GenerateCounts ==
    ASSUME WaiterTypeOK, WaiterInv, EveryCounts, NEW c \in Counts, c # 0,
           Generate(c)
    PROVE  EveryCounts'
  <1>1. log \in Seq(Updates) /\ Len(log) \in Nat /\ c \in Nat
    BY LogAssumption, LenProperties DEF WaiterTypeOK
  <1>2. ServerPts \in Nat
    BY <1>1, ServerPtsBounds DEF WaiterInv
  <1>3. [pts |-> ServerPts + c, count |-> c] \in Updates
    BY <1>1, <1>2 DEF Updates
  <1>4. PICK n \in Nat : n = Len(log) + 1
    BY <1>1
  <1>5. /\ log' \in Seq(Updates) /\ Len(log') = n
        /\ log'[n].count = c /\ \A e \in 1..Len(log) : log'[e] = log[e]
    BY <1>1, <1>3, <1>4, AppendProperties DEF Generate
  <1>6. Events = 1..Len(log) /\ Events' = 1..n
    BY <1>1, <1>5, LenProperties DEF Events
  <1>7. \A e \in Events' : e = n \/ e \in Events
    BY <1>1, <1>4, <1>6
  <1> QED  BY <1>1, <1>5, <1>6, <1>7 DEF EveryCounts, Count
=============================================================================
