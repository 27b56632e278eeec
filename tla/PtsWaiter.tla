------------------------------ MODULE PtsWaiter ------------------------------
(***************************************************************************)
(* class PtsWaiter (data/data_pts_waiter.h, .cpp): decides for each update *)
(* of a box whether it is applied now, kept for later or dropped.  The     *)
(* operators below are the bodies of its methods; a module that owns a     *)
(* waiter (CommonUpdates, ChannelUpdates) calls them from its actions.     *)
(*                                                                         *)
(* timer is the owner's _getDifferenceTimeByPts (or the channel's entry of *)
(* _whenGetDiffByPts) being set; the time it holds is abstracted.          *)
(* applied, counted and base are history: the updates whose effect reached *)
(* the client's data, the pts values that went into _count since the last  *)
(* init(), and the pts of that init().                                     *)
(***************************************************************************)
EXTENDS UpdateLog

VARIABLES
    good, last, count,      \* _good, _last, _count
    queue,                  \* _queue with _updateQueue and _updatesQueue
    requesting,             \* _requesting
    waitingForSkipped,      \* _waitingForSkipped
    waitingForShortPoll,    \* _waitingForShortPoll
    timer,                  \* a getDifference is scheduled for this box
    applied, counted, base

numbers == <<good, last, count, counted, base>>
waiting == <<queue, waitingForSkipped, timer>>
waiterVars ==
    <<numbers, waiting, requesting, waitingForShortPoll, applied>>

MaxOf(a, b) == IF a > b THEN a ELSE b

inited == good > 0

WaiterInit ==
    /\ good = 0 /\ last = 0 /\ count = 0 /\ base = 0 /\ counted = {}
    /\ queue = {} /\ waitingForSkipped = FALSE /\ waitingForShortPoll = FALSE
    /\ timer = FALSE /\ applied = {}

(* PtsWaiter::init without the clearing of the queue. *)
ResetTo(p) ==
    /\ good' = p /\ last' = p /\ count' = p
    /\ base' = p /\ counted' = {}

(* Mutant of CountIn: _good follows _last without comparing it to _count.  *)
CountInUnchecked(p, c, points) ==
    /\ last' = MaxOf(last, p)
    /\ count' = count + c
    /\ good' = last'
    /\ counted' = counted \cup points
    /\ base' = base

(* The part of check() that moves the counters: _good follows _last only   *)
(* when everything up to _last was counted.                                *)
CountIn(p, c, points) ==
    /\ last' = MaxOf(last, p)
    /\ count' = count + c
    /\ good' = IF last' = count' THEN last' ELSE good
    /\ counted' = counted \cup points
    /\ base' = base

(* Mutant of ApplySkipped: the queue is cleared before it is applied.      *)
ApplySkippedCleared(es, isWaiting, armed) ==
    /\ applied' = applied \cup es
    /\ queue' = (IF isWaiting THEN {} ELSE queue)
    /\ waitingForSkipped' = FALSE
    /\ timer' = (armed /\ (isWaiting => waitingForShortPoll))

(* applySkippedUpdates() when _waitingForSkipped is `isWaiting` and the     *)
(* timer is `armed`: stop waiting, apply the queue.  setWaitingForSkipped  *)
(* (-1) drops the timer unless a short poll needs it.  es are applied too. *)
ApplySkipped(es, isWaiting, armed) ==
    IF isWaiting
    THEN /\ applied' = applied \cup es \cup queue
         /\ queue' = {} /\ waitingForSkipped' = FALSE
         /\ timer' = (armed /\ waitingForShortPoll)
    ELSE /\ applied' = applied \cup es
         /\ waitingForSkipped' = FALSE /\ timer' = armed
         /\ queue' = queue

(* The tail of updateAndApply(pts, count, update) once updated() is true:  *)
(* apply directly, or through the queue when there is one to flush.        *)
Deliver(e, isWaiting, armed) ==
    IF ~isWaiting \/ queue = {}
    THEN /\ applied' = applied \cup {e}
         /\ queue' = queue /\ waitingForSkipped' = isWaiting /\ timer' = armed
    ELSE ApplySkipped({e}, isWaiting, armed)

(* updateAndApply(pts, count, update): one disjunct per outcome of         *)
(* updated().                                                              *)
DeliverUncounted(e) ==
    /\ requesting
    /\ Deliver(e, waitingForSkipped, timer)
    /\ UNCHANGED numbers

DropOld(e) ==
    /\ ~requesting
    /\ Pts(e) <= good /\ Count(e) > 0
    /\ UNCHANGED <<numbers, waiting, applied>>

(* init(pts) of a box not seen before: what is older comes with the        *)
(* snapshot the client loads on demand.                                    *)
StartFrom(e) ==
    /\ ~requesting /\ ~inited /\ ~(Pts(e) <= good /\ Count(e) > 0)
    /\ ResetTo(Pts(e))
    /\ applied' = applied \cup UpTo(Pts(e))
    /\ queue' = {}
    /\ UNCHANGED <<waitingForSkipped, timer>>

CountAndDeliver(e) ==
    /\ ~requesting /\ inited /\ ~(Pts(e) <= good /\ Count(e) > 0)
    /\ CountIn(Pts(e), Count(e), Points(e))
    /\ last' = count'
    /\ Deliver(e, waitingForSkipped, timer)

DeliverOverGap(e) ==
    /\ ~requesting /\ inited /\ Count(e) = 0
    /\ CountIn(Pts(e), Count(e), Points(e))
    /\ last' # count'
    /\ Deliver(e, TRUE, TRUE)

(* Mutant of KeepForLater: the queue holds the pts as if it were a key.    *)
KeepForLaterByPts(e) ==
    /\ ~requesting /\ inited /\ Pts(e) > good /\ Count(e) > 0
    /\ CountIn(Pts(e), Count(e), Points(e))
    /\ last' # count'
    /\ queue' = queue \cup {Pts(e)}
    /\ waitingForSkipped' = TRUE /\ timer' = TRUE
    /\ applied' = applied

(* Mutant of KeepForLater: setWaitingForSkipped does not start the timer.  *)
KeepForLaterUntimed(e) ==
    /\ ~requesting /\ inited /\ Pts(e) > good /\ Count(e) > 0
    /\ CountIn(Pts(e), Count(e), Points(e))
    /\ last' # count'
    /\ queue' = queue \cup {e}
    /\ waitingForSkipped' = TRUE /\ timer' = timer
    /\ applied' = applied

KeepForLater(e) ==
    /\ ~requesting /\ inited /\ Pts(e) > good /\ Count(e) > 0
    /\ CountIn(Pts(e), Count(e), Points(e))
    /\ last' # count'
    /\ queue' = queue \cup {e}
    /\ waitingForSkipped' = TRUE /\ timer' = TRUE
    /\ applied' = applied

UpdateAndApply(e) ==
    /\ \/ DeliverUncounted(e) \/ DropOld(e) \/ StartFrom(e)
       \/ CountAndDeliver(e) \/ DeliverOverGap(e) \/ KeepForLater(e)
    /\ UNCHANGED <<requesting, waitingForShortPoll>>

(* updateAndApply(pts, count), the variant without an update to keep: the  *)
(* caller has already put the effect es into the data.                     *)
UpdateAndApplyDone(p, c, points, es) ==
    /\ \/ /\ requesting
          /\ ApplySkipped(es, waitingForSkipped, timer)
          /\ UNCHANGED numbers
       \/ /\ ~requesting /\ p <= good /\ c > 0
          /\ applied' = applied \cup es
          /\ UNCHANGED <<numbers, waiting>>
       \/ /\ ~requesting /\ ~inited /\ ~(p <= good /\ c > 0)
          /\ ResetTo(p)
          /\ applied' = applied \cup es \cup UpTo(p)
          /\ queue' = {} /\ waitingForSkipped' = FALSE
          /\ timer' = (timer /\ (waitingForSkipped => waitingForShortPoll))
       \/ /\ ~requesting /\ inited /\ ~(p <= good /\ c > 0)
          /\ CountIn(p, c, points)
          /\ IF last' = count'
             THEN ApplySkipped(es, waitingForSkipped, timer)
             ELSE IF c = 0
             THEN ApplySkipped(es, TRUE, TRUE)
             ELSE /\ applied' = applied \cup es
                  /\ queue' = queue
                  /\ waitingForSkipped' = TRUE /\ timer' = TRUE
    /\ UNCHANGED <<requesting, waitingForShortPoll>>

-----------------------------------------------------------------------------
WaiterTypeOK ==
    /\ log \in Seq(Updates)
    /\ good \in Nat /\ last \in Nat /\ count \in Nat /\ base \in Nat
    /\ counted \in SUBSET Nat
    /\ queue \in SUBSET Events /\ applied \in SUBSET Events
    /\ requesting \in BOOLEAN /\ timer \in BOOLEAN
    /\ waitingForSkipped \in BOOLEAN /\ waitingForShortPoll \in BOOLEAN

(* No update is silently lost: once _good has passed an update that counts, *)
(* its effect is in the data, whether it was pushed, kept in the skipped   *)
(* queue, came with a result or only with a difference.                    *)
NoSilentLoss ==
    \A e \in Events : Pts(e) <= good /\ Count(e) > 0 => e \in applied

(* A gap never waits for nothing: when _last is ahead of _good and no      *)
(* difference is on its way, the timer that asks for one is set            *)
(* (kWaitForSkippedTimeout, data_pts_waiter.h:23).                         *)
GapHasTimer == ~requesting /\ last # good => timer

(* Inductive where every count is positive: the flag keeps the timer, which *)
(* a short poll that ends would otherwise take.                            *)
GapWaits == ~requesting /\ last # good => waitingForSkipped /\ timer

EveryCounts == \A e \in Events : Count(e) > 0

(* The inductive strengthening.  Updates account for disjoint, increasing  *)
(* ranges of pts; _good, _last and the last init() fall between two of     *)
(* them; _count is the number of pts values counted since that init(), all *)
(* above it and up to _last; and what is counted is applied or in the      *)
(* queue, which applySkippedUpdates() can only skip when it is empty.      *)
LogOrdered ==
    /\ \A e \in Events : FirstPts <= Pts(e) - Count(e)
    /\ \A e, f \in Events : e < f => Pts(e) <= Pts(f) - Count(f)

OnBoundary(p) ==
    /\ p <= ServerPts
    /\ \A e \in Events : Pts(e) <= p \/ p <= Pts(e) - Count(e)

CountExact ==
    /\ base <= good /\ good <= last
    /\ counted \subseteq (base + 1)..last
    /\ count = base + Cardinality(counted)

CountedIsKept ==
    ~requesting =>
        \A e \in Events :
            Pts(e) \in counted /\ Count(e) > 0 => e \in applied \cup queue

WaiterInv ==
    /\ LogOrdered
    /\ OnBoundary(good) /\ OnBoundary(last) /\ OnBoundary(base)
    /\ CountExact
    /\ CountedIsKept
    /\ queue # {} => waitingForSkipped
    /\ NoSilentLoss
=============================================================================
