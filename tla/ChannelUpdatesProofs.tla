------------------------- MODULE ChannelUpdatesProofs -------------------------
(***************************************************************************)
(* For every log, bound and order of delivery, a channel keeps its types,  *)
(* loses no update silently, has one cause for each time in which updates  *)
(* are dropped, polls while it is shown, times every gap until a dialog    *)
(* comes, and implements the abstract feed.                                *)
(***************************************************************************)
EXTENDS ChannelUpdates, PtsWaiterProofs

(* A channel nobody has heard of yet.                                      *)
LEMMA InitEstablishes ==
    ASSUME Init PROVE IInv
  <1>1. /\ WaiterInit /\ requesting = FALSE /\ log = <<>>
        /\ pushes = {} /\ results = {} /\ asked = <<>> /\ answers = {}
        /\ failTimer = FALSE /\ hint = FALSE /\ active = 0
        /\ lost = 0 /\ fails = 0 /\ reads = 0 /\ spent = FALSE
    BY DEF Init
  <1>2. /\ good = 0 /\ last = 0 /\ count = 0 /\ base = 0 /\ counted = {}
        /\ queue = {} /\ waitingForSkipped = FALSE
        /\ waitingForShortPoll = FALSE /\ timer = FALSE /\ applied = {}
    BY <1>1 DEF WaiterInit
  <1>3. /\ log \in Seq(Updates) /\ Len(log) = 0
        /\ Events = {} /\ ServerPts = FirstPts /\ Cardinality({}) = 0
    BY <1>1, EmptySeq, FS_EmptySet DEF Events, ServerPts
  <1>4. WaiterTypeOK
    BY <1>1, <1>2, <1>3 DEF WaiterTypeOK
  <1>5. TypeOK
    <2>1. asked \in Seq(Nat)
      BY <1>1
    <2>2. /\ lost \in 0..MaxLost /\ fails \in 0..MaxFails
          /\ reads \in 0..MaxReads /\ active \in 0..MaxWindows
      BY <1>1, BoundsAssumption
    <2>3. Len(log) <= MaxEvents
      BY <1>3, LogAssumption
    <2> QED  BY <1>1, <1>4, <2>1, <2>2, <2>3 DEF TypeOK
  <1>6. WaiterInv
    BY <1>1, <1>2, <1>3, LogAssumption DEF WaiterInv, LogOrdered, OnBoundary,
       CountExact, CountedIsKept, NoSilentLoss
  <1>7. Stage /\ AnswersSound /\ OnTheWay
    BY <1>1, <1>2 DEF Stage, AnswersSound, OnTheWay
  <1> QED  BY <1>5, <1>6, <1>7 DEF IInv

LEMMA Stuttering ==
    ASSUME IInv, UNCHANGED vars PROVE IInv'
  BY DEF IInv, vars, waiterVars, numbers, waiting, network, request, budget,
     TypeOK, WaiterTypeOK, WaiterInv, LogOrdered, OnBoundary, CountExact,
     CountedIsKept, NoSilentLoss, Stage, AnswersSound, OnTheWay, ServerPts,
     Events, Pts, Count, Points, inited

(* The server generating an update, pushed, returned or lost.              *)
LEMMA GenerateStep ==
    ASSUME IInv, NEW c \in Counts,
           GeneratePush(c) \/ GenerateResult(c) \/ GenerateLost(c)
    PROVE  IInv'
  <1>1. /\ Generate(c) /\ UNCHANGED waiterVars
        /\ UNCHANGED <<asked, answers, failTimer, active, fails, reads, spent>>
        /\ WaiterTypeOK /\ WaiterInv
    BY DEF GeneratePush, GenerateResult, GenerateLost, IInv, TypeOK, budget,
           request
  <1>2. lost' \in 0..MaxLost /\ hint' \in BOOLEAN
    <2>1. lost \in 0..MaxLost /\ MaxLost \in Nat /\ hint \in BOOLEAN
      BY BoundsAssumption DEF IInv, TypeOK
    <2>2. CASE GeneratePush(c) \/ GenerateResult(c)
      BY <2>1, <2>2 DEF GeneratePush, GenerateResult, budget
    <2>3. CASE GenerateLost(c)
      <3>1. /\ lost < MaxLost /\ lost' = lost + 1
            /\ hint' = hint \/ hint' = TRUE
        BY <2>3 DEF GenerateLost
      <3>2. hint' \in BOOLEAN
        BY <2>1, <3>1, Zenon
      <3> QED  BY <2>1, <3>1, <3>2
    <2> QED  BY <2>2, <2>3
  <1>3. /\ WaiterTypeOK' /\ WaiterInv'
        /\ Len(log') = Len(log) + 1 /\ Len(log') \in Events'
        /\ Events \subseteq Events' /\ Len(log') \notin Events
        /\ \A e \in Events : Pts(e)' = Pts(e) /\ Count(e)' = Count(e)
        /\ Points(Len(log))' \cap counted' = {}
        /\ \A p \in Nat : OnBoundary(p) => OnBoundary(p)'
    BY <1>1, GenerateKeeps
  <1>4. PICK n : n = Len(log')
    OBVIOUS
  <1>5. /\ n \in Events' /\ n \notin Events
        /\ Points(n)' \cap counted' = {}
    BY <1>3, <1>4 DEF Points, Pts, Count
  <1>6. /\ counted' = counted /\ good' = good /\ requesting' = requesting
    BY <1>1 DEF waiterVars, numbers
  <1>7. /\ pushes' \subseteq pushes \cup {n}
        /\ results' \subseteq results \cup {n}
        /\ pushes' \cap results' = {}
    BY <1>4, <1>5 DEF GeneratePush, GenerateResult, GenerateLost, IInv, TypeOK,
                      OnTheWay
  <1>8. TypeOK'
    <2>1. Len(log') <= MaxEvents
      BY <1>1, <1>3, LogAssumption, LenProperties
         DEF Generate, WaiterTypeOK
    <2>2. pushes' \in SUBSET Events' /\ results' \in SUBSET Events'
      BY <1>3, <1>5, <1>7 DEF IInv, TypeOK
    <2> QED  BY <1>1, <1>2, <1>3, <2>1, <2>2 DEF IInv, TypeOK
  <1>9. Stage'
    BY <1>1, <1>6 DEF IInv, Stage, inited
  <1>10. AnswersSound'
    <2>1. \A a \in answers : a.pts \in Nat
      BY DEF IInv, TypeOK, Answers
    <2> QED  BY <1>1, <1>3, <2>1 DEF IInv, AnswersSound, OnBoundary
  <1>11. OnTheWay'
    <2>1. \A e \in Events : Points(e)' = Points(e)
      BY <1>3 DEF Points
    <2>2. pushes \cup results \subseteq Events
      BY DEF IInv, TypeOK
    <2> QED  BY <1>5, <1>6, <1>7, <2>1, <2>2 DEF IInv, OnTheWay
  <1> QED  BY <1>3, <1>8, <1>9, <1>10, <1>11 DEF IInv

(* The waiter's part of the invariant, and what is on the way, where a     *)
(* step leaves the log and the numbers alone and drops updates only while  *)
(* requesting.                                                             *)
LEMMA NumbersKept ==
    ASSUME IInv, UNCHANGED <<numbers, log>>, applied' = applied,
           queue' = queue \/ (queue' = {} /\ requesting'),
           waitingForSkipped' = waitingForSkipped,
           timer' \in BOOLEAN, waitingForShortPoll' \in BOOLEAN,
           requesting' = requesting \/ (requesting' = TRUE),
           pushes' \subseteq pushes, results' \subseteq results
    PROVE  /\ WaiterTypeOK' /\ WaiterInv' /\ OnTheWay'
           /\ pushes' \in SUBSET Events' /\ results' \in SUBSET Events'
           /\ \A p : OnBoundary(p) => OnBoundary(p)'
           /\ good' = good /\ Len(log') <= MaxEvents
  <1>1. /\ good' = good /\ last' = last /\ count' = count
        /\ counted' = counted /\ base' = base /\ Events' = Events
    BY DEF numbers, Events
  <1>2. WaiterTypeOK'
    BY <1>1 DEF IInv, TypeOK, WaiterTypeOK
  <1>3. WaiterInv'
    <2>1. queue' # {} => waitingForSkipped'
      BY DEF IInv, WaiterInv
    <2>2. requesting' \/ (~requesting /\ applied \cup queue \subseteq
                                             applied' \cup queue')
      <3>1. requesting \in BOOLEAN /\ requesting' \in BOOLEAN
        BY <1>2 DEF IInv, TypeOK, WaiterTypeOK
      <3>2. CASE requesting'
        BY <3>2
      <3>3. CASE ~requesting'
        <4>1. ~requesting
          BY <3>3, Zenon
        <4>2. queue' = queue
          BY <3>3
        <4> QED  BY <4>1, <4>2
      <3> QED  BY <3>2, <3>3
    <2> QED  BY <2>1, <2>2, NumbersUnchanged DEF IInv, TypeOK
  <1>4. OnTheWay'
    BY <1>1 DEF IInv, OnTheWay, Points, Pts, Count
  <1>5. /\ pushes' \in SUBSET Events' /\ results' \in SUBSET Events'
        /\ Len(log') <= MaxEvents
    BY <1>1 DEF IInv, TypeOK
  <1> QED
    BY <1>1, <1>2, <1>3, <1>4, <1>5 DEF OnBoundary, ServerPts, Events, Pts, Count

LEMMA PollSpentType ==
    ASSUME PollSpent PROVE spent' \in BOOLEAN
  <1>1. spent' = (spent \/ (inActiveChats /\ ~inited))
    BY DEF PollSpent
  <1> QED  BY <1>1, Zenon

(* getChannelDifference() from any caller but the retry: nothing when one  *)
(* is out or there is no pts yet, otherwise one request from _good.        *)
LEMMA GetDifferenceStep ==
    ASSUME IInv, GetChannelDifference,
           UNCHANGED <<log, pushes, results, active, lost, fails, reads>>,
           hint' \in BOOLEAN
    PROVE  IInv' /\ good' = good /\ applied' = applied
  <1>1. /\ UNCHANGED numbers /\ applied' = applied /\ answers' = answers
        /\ waitingForSkipped' = waitingForSkipped /\ timer' = FALSE
        /\ waitingForShortPoll' = waitingForShortPoll
    BY DEF GetChannelDifference
  <1>5. spent' \in BOOLEAN
    BY PollSpentType DEF GetChannelDifference
  <1>2. /\ good \in Nat /\ asked \in Seq(Nat) /\ failTimer \in BOOLEAN
        /\ requesting \in BOOLEAN /\ waitingForShortPoll \in BOOLEAN
    BY DEF IInv, TypeOK, WaiterTypeOK
  <1>3. CASE ~inited \/ requesting
    <2>1. UNCHANGED <<requesting, queue, asked, failTimer>>
      BY <1>3 DEF GetChannelDifference
    <2>2. /\ WaiterTypeOK' /\ WaiterInv' /\ OnTheWay'
          /\ pushes' \in SUBSET Events' /\ results' \in SUBSET Events'
          /\ \A p : OnBoundary(p) => OnBoundary(p)'
          /\ good' = good /\ Len(log') <= MaxEvents
      BY <1>1, <1>2, <2>1, NumbersKept
    <2>3. TypeOK'
      BY <1>1, <1>5, <2>1, <2>2 DEF IInv, TypeOK
    <2>4. Stage' /\ AnswersSound'
      BY <1>1, <2>1, <2>2 DEF IInv, Stage, AnswersSound, inited
    <2> QED  BY <1>1, <2>2, <2>3, <2>4 DEF IInv
  <1>4. CASE inited /\ ~requesting
    <2>1. asked = <<>> /\ answers = {} /\ inited
      BY <1>4 DEF IInv, Stage
    <2>2. /\ requesting' = TRUE /\ queue' = {} /\ asked' = Append(asked, good)
          /\ failTimer' = FALSE
      BY <1>4 DEF GetChannelDifference, Ask
    <2>3. asked' = <<good>> /\ asked' \in Seq(Nat)
      BY <1>2, <2>1, <2>2
    <2>4. /\ WaiterTypeOK' /\ WaiterInv' /\ OnTheWay'
          /\ pushes' \in SUBSET Events' /\ results' \in SUBSET Events'
          /\ good' = good /\ Len(log') <= MaxEvents
      BY <1>1, <1>2, <2>2, NumbersKept
    <2>5. TypeOK'
      BY <1>1, <1>5, <2>2, <2>3, <2>4 DEF IInv, TypeOK
    <2>6. Stage' /\ AnswersSound'
      BY <1>1, <2>1, <2>2, <2>3, <2>4 DEF Stage, AnswersSound, inited
    <2> QED  BY <1>1, <2>4, <2>5, <2>6 DEF IInv
  <1> QED  BY <1>3, <1>4

(* While requesting, what is handed to the waiter moves no number.         *)
LEMMA RequestingFreezesNumbers ==
    ASSUME requesting, NEW p, NEW c, NEW points, NEW es,
           UpdateAndApplyDone(p, c, points, es)
    PROVE  UNCHANGED numbers
  BY DEF UpdateAndApplyDone

(* What the waiter's calls have in common, seen from the channel.          *)
LEMMA WaiterCall ==
    ASSUME IInv, NEW points, Keeps(points), log' = log,
           requesting' = requesting, requesting => good' = good,
           \A e \in pushes' \cup results' : Points(e) \cap points = {},
           pushes' \subseteq pushes, results' \subseteq results,
           UNCHANGED <<hint, request, active, lost, fails, spent>>,
           reads' \in 0..MaxReads
    PROVE  IInv' /\ good <= good' /\ applied \subseteq applied'
  <1>1. /\ WaiterTypeOK' /\ WaiterInv'
        /\ good <= good' /\ applied \subseteq applied'
        /\ counted' \subseteq counted \cup points
    BY DEF Keeps
  <1>2. /\ Events' = Events /\ good \in Nat /\ good' \in Nat
        /\ asked' = asked /\ answers' = answers /\ failTimer' = failTimer
    BY <1>1 DEF Events, request, IInv, TypeOK, WaiterTypeOK
  <1>3. TypeOK'
    BY <1>1, <1>2 DEF IInv, TypeOK
  <1>4. Stage'
    BY <1>2 DEF IInv, Stage, inited
  <1>5. AnswersSound'
    BY <1>2 DEF IInv, AnswersSound, OnBoundary, ServerPts, Events, Pts, Count
  <1>6. OnTheWay'
    <2>1. \A f \in pushes' \cup results' : Points(f)' \cap counted' = {}
      BY <1>1 DEF IInv, OnTheWay, Points, Pts, Count
    <2> QED  BY <2>1 DEF IInv, OnTheWay
  <1> QED  BY <1>1, <1>3, <1>4, <1>5, <1>6 DEF IInv

(* A channel update, pushed or returned: dropped while requesting, handed  *)
(* to the waiter otherwise; affected counters are always handed to it.     *)
LEMMA HandleStep ==
    ASSUME IInv, NEW e,
           \/ e \in pushes /\ ReceivePush(e)
           \/ e \in results /\ (ReceiveResult(e) \/ ReceiveAffected(e))
    PROVE  IInv' /\ good <= good' /\ applied \subseteq applied'
  <1>1. /\ log' = log /\ e \in Events /\ e \in pushes \cup results
        /\ pushes' = pushes \ {e} /\ results' = results \ {e}
        /\ UNCHANGED <<hint, request, active, lost, fails, reads, spent>>
    <2>1. pushes \cup results \subseteq Events /\ pushes \cap results = {}
      BY DEF IInv, TypeOK, OnTheWay
    <2>2. CASE e \in pushes /\ ReceivePush(e)
      BY <2>1, <2>2 DEF ReceivePush, budget
    <2>3. CASE e \in results /\ (ReceiveResult(e) \/ ReceiveAffected(e))
      BY <2>1, <2>3 DEF ReceiveResult, ReceiveAffected, budget
    <2> QED  BY <2>2, <2>3
  <1>2. /\ WaiterTypeOK /\ WaiterInv /\ Points(e) \cap counted = {}
        /\ log \in Seq(Updates) /\ reads' \in 0..MaxReads
    BY <1>1 DEF IInv, TypeOK, WaiterTypeOK, OnTheWay
  <1>3. \A f \in pushes' \cup results' : Points(f) \cap Points(e) = {}
    BY <1>1, <1>2, PointsDisjoint DEF IInv, TypeOK, WaiterInv
  <1>4. CASE requesting /\ UNCHANGED waiterVars
    <2>1. Keeps(Points(e))
      <3>1. WaiterTypeOK' /\ WaiterInv'
        BY <1>1, <1>2, <1>4
           DEF waiterVars, numbers, waiting, WaiterTypeOK, WaiterInv,
               LogOrdered, OnBoundary, CountExact, CountedIsKept,
               NoSilentLoss, ServerPts, Events, Pts, Count
      <3> QED  BY <1>2, <1>4, <3>1 DEF Keeps, waiterVars, numbers, WaiterTypeOK
    <2> QED
      BY <1>1, <1>2, <1>3, <1>4, <2>1, WaiterCall DEF waiterVars, numbers
  <1>5. CASE ~requesting /\ UpdateAndApply(e)
    <2>1. Keeps(Points(e)) /\ requesting' = requesting
      BY <1>1, <1>2, <1>5, UpdateAndApplyKeeps DEF UpdateAndApply
    <2> QED  BY <1>1, <1>2, <1>3, <1>5, <2>1, WaiterCall
  <1>6. CASE UpdateAndApplyDone(Pts(e), Count(e), Points(e), {e})
    <2>1. /\ Keeps(Points(e)) /\ requesting' = requesting
          /\ requesting => good' = good
      BY <1>1, <1>2, <1>6, UpdateAndApplyDoneKeeps, RequestingFreezesNumbers
         DEF UpdateAndApplyDone, numbers
    <2> QED  BY <1>1, <1>2, <1>3, <2>1, WaiterCall
  <1> QED
    BY <1>4, <1>5, <1>6 DEF ReceivePush, ReceiveResult, ReceiveAffected

(* A dialog's pts.                                                         *)
LEMMA PtsReceivedStep ==
    ASSUME IInv, NEW p \in {FirstPts} \cup {Pts(e) : e \in Events},
           PtsReceived(p)
    PROVE  IInv' /\ good <= good' /\ applied \subseteq applied' /\ log' = log
  <1>1. /\ UpdateAndApplyDone(p, 0, {}, {}) /\ log' = log
        /\ pushes' = pushes /\ results' = results
        /\ UNCHANGED <<hint, request, active, lost, fails, spent>>
        /\ reads < MaxReads /\ reads' = reads + 1
    BY DEF PtsReceived, network
  <1>2. /\ WaiterTypeOK /\ WaiterInv /\ log \in Seq(Updates) /\ LogOrdered
    BY DEF IInv, TypeOK, WaiterTypeOK, WaiterInv
  <1>3. reads' \in 0..MaxReads
    BY <1>1, BoundsAssumption DEF IInv, TypeOK
  <1>4. p \in Nat /\ OnBoundary(p)
    BY <1>2, EventType, PtsOnBoundary, FirstPtsOnBoundary, LogAssumption
  <1>5. /\ Keeps({}) /\ requesting' = requesting
        /\ requesting => good' = good
    BY <1>1, <1>2, <1>4, UpdateAndApplyReadKeeps, RequestingFreezesNumbers
       DEF UpdateAndApplyDone, numbers
  <1> QED  BY <1>1, <1>3, <1>5, WaiterCall

(* updateChannelTooLong and the timer both call getChannelDifference().    *)
LEMMA GetDifferenceCallers ==
    ASSUME IInv, UpdateChannelTooLong \/ GetDifferenceByPts
    PROVE  IInv' /\ good' = good /\ applied' = applied /\ log' = log
  <1>1. CASE GetChannelDifference
    BY <1>1, GetDifferenceStep
       DEF UpdateChannelTooLong, GetDifferenceByPts, network, IInv, TypeOK
  <1>2. CASE UpdateChannelTooLong /\ UNCHANGED <<waiterVars, request, spent>>
    <2>1. /\ UNCHANGED <<log, pushes, results, active, budget>>
          /\ hint' = FALSE
      BY <1>2 DEF UpdateChannelTooLong, budget
    <2>2. IInv'
      BY <1>2, <2>1
         DEF IInv, waiterVars, numbers, waiting, request, budget, TypeOK,
             WaiterTypeOK, WaiterInv, LogOrdered, OnBoundary, CountExact,
             CountedIsKept, NoSilentLoss, Stage, AnswersSound, OnTheWay,
             ServerPts, Events, Pts, Count, Points, inited
    <2> QED  BY <1>2, <2>1, <2>2 DEF waiterVars, numbers
  <1> QED  BY <1>1, <1>2 DEF UpdateChannelTooLong, GetDifferenceByPts

(* Showing, hiding and closing the chat start and stop the short poll.     *)
LEMMA UserStep ==
    ASSUME IInv, User
    PROVE  IInv' /\ good' = good /\ applied' = applied /\ log' = log
  <1>1. /\ UNCHANGED numbers
        /\ UNCHANGED <<queue, waitingForSkipped, requesting, applied>>
        /\ UNCHANGED network /\ UNCHANGED request
        /\ UNCHANGED <<lost, fails, reads>>
    BY DEF User, ShowChat, HideChat, CloseWindow, StopShortPoll, waiterVars,
           waiting, budget
  <1>2. timer' \in BOOLEAN /\ waitingForShortPoll' \in BOOLEAN
    <2>1. /\ timer \in BOOLEAN /\ waitingForShortPoll \in BOOLEAN
      BY DEF IInv, TypeOK, WaiterTypeOK
    <2> QED  BY <2>1 DEF User, ShowChat, HideChat, CloseWindow, StartShortPoll,
                         StopShortPoll, waiterVars, waiting
  <1>3. active' \in 0..MaxWindows /\ spent' \in BOOLEAN
    <2>1. /\ active \in 0..MaxWindows /\ MaxWindows \in Nat
          /\ spent \in BOOLEAN
      BY BoundsAssumption DEF IInv, TypeOK
    <2>2. /\ spent' = spent \/ spent' = FALSE
          /\ \/ active' = active + 1 /\ active < MaxWindows
             \/ active' = active - 1 /\ active > 0
      BY DEF User, ShowChat, HideChat, CloseWindow, inActiveChats, budget
    <2>3. active' \in 0..MaxWindows
      BY <2>1, <2>2
    <2>4. spent' \in BOOLEAN
      BY <2>1, <2>2, Zenon
    <2> QED  BY <2>3, <2>4
  <1>4. /\ WaiterTypeOK' /\ WaiterInv' /\ OnTheWay'
        /\ pushes' \in SUBSET Events' /\ results' \in SUBSET Events'
        /\ \A p : OnBoundary(p) => OnBoundary(p)'
        /\ good' = good /\ Len(log') <= MaxEvents
    BY <1>1, <1>2, NumbersKept DEF network
  <1>5. TypeOK'
    BY <1>1, <1>3, <1>4 DEF IInv, TypeOK, network, request
  <1>6. Stage' /\ AnswersSound'
    BY <1>1, <1>4 DEF IInv, Stage, AnswersSound, inited, request
  <1> QED  BY <1>1, <1>4, <1>5, <1>6 DEF IInv, network

(* The server answering or failing the request that is out.                *)
LEMMA AnswerStep ==
    ASSUME IInv, ServerAnswers \/ ServerFails
    PROVE  IInv' /\ good' = good /\ applied' = applied /\ log' = log
  <1>1. /\ log \in Seq(Updates) /\ LogOrdered /\ good \in Nat
        /\ OnBoundary(good)
    BY DEF IInv, TypeOK, WaiterTypeOK, WaiterInv
  <1>2. /\ asked = <<good>> /\ requesting /\ inited /\ answers = {}
        /\ ~failTimer /\ Head(asked) = good
    <2>1. asked # <<>>
      BY DEF ServerAnswers, ServerFails
    <2> QED  BY <2>1 DEF IInv, Stage
  <1>3. ServerPts \in Nat /\ OnBoundary(ServerPts)
    BY <1>1, ServerPtsBounds DEF OnBoundary
  <1>4. \E kind \in {"empty", "tooLong", "slice", "final", "fail"} :
           \E pts \in Nat :
              /\ OnBoundary(pts) /\ good <= pts
              /\ kind = "empty" => good = pts
              /\ Answer(kind, pts)
    <2>1. CASE Head(asked) = ServerPts /\ Answer("empty", ServerPts)
      BY <1>1, <1>2, <1>3, <2>1
    <2>2. CASE /\ Head(asked) < ServerPts
               /\ Answer("tooLong", ServerPts) \/ Answer("final", ServerPts)
      BY <1>1, <1>2, <1>3, <2>2
    <2>3. ASSUME NEW e \in Events, Head(asked) < Pts(e),
                 Answer("slice", Pts(e))
          PROVE  \E kind \in {"empty", "tooLong", "slice", "final", "fail"} :
                   \E pts \in Nat :
                      /\ OnBoundary(pts) /\ good <= pts
                      /\ kind = "empty" => good = pts
                      /\ Answer(kind, pts)
      <3>1. Pts(e) \in Nat /\ OnBoundary(Pts(e)) /\ good <= Pts(e)
        BY <1>1, <1>2, <2>3, EventType, PtsOnBoundary
      <3> QED  BY <2>3, <3>1
    <2>4. CASE Answer("fail", Head(asked))
      BY <1>1, <1>2, <2>4
    <2> QED  BY <2>1, <2>2, <2>3, <2>4 DEF ServerAnswers, ServerFails
  <1>5. PICK kind \in {"empty", "tooLong", "slice", "final", "fail"},
             pts \in Nat :
              /\ OnBoundary(pts) /\ good <= pts
              /\ kind = "empty" => good = pts
              /\ Answer(kind, pts)
    BY <1>4
  <1>6. PICK a \in Answers :
           /\ a.kind = kind /\ a.from = good /\ a.pts = pts
           /\ asked' = <<>> /\ answers' = {a}
    <2> DEFINE b == [kind |-> kind, from |-> good, pts |-> pts]
    <2>1. b \in Answers
      BY <1>1 DEF Answers
    <2>2. asked' = <<>> /\ answers' = {b}
      BY <1>2, <1>5 DEF Answer
    <2> QED  BY <2>1, <2>2
  <1>7. UNCHANGED <<waiterVars, log, pushes, results, hint, failTimer, active>>
    BY <1>5 DEF Answer, network
  <1>8. UNCHANGED <<lost, reads, spent>> /\ fails' \in 0..MaxFails
    <2>1. fails \in 0..MaxFails /\ MaxFails \in Nat
      BY BoundsAssumption DEF IInv, TypeOK
    <2> QED  BY <2>1 DEF ServerAnswers, ServerFails, budget
  <1>9. /\ WaiterTypeOK' /\ WaiterInv' /\ OnTheWay'
        /\ OnBoundary(pts)' /\ good' = good /\ requesting' = requesting
        /\ pushes' \in SUBSET Events' /\ results' \in SUBSET Events'
        /\ Len(log') <= MaxEvents
    <2>1. /\ UNCHANGED <<numbers, log>> /\ applied' = applied
          /\ queue' = queue /\ waitingForSkipped' = waitingForSkipped
          /\ timer' \in BOOLEAN /\ waitingForShortPoll' \in BOOLEAN
          /\ requesting' = requesting /\ pushes' = pushes /\ results' = results
      BY <1>7 DEF waiterVars, waiting, IInv, TypeOK, WaiterTypeOK
    <2> QED  BY <1>5, <2>1, NumbersKept
  <1>10. TypeOK'
    BY <1>6, <1>7, <1>8, <1>9 DEF IInv, TypeOK
  <1>11. Stage'
    BY <1>2, <1>6, <1>7, <1>9 DEF Stage, inited
  <1>12. AnswersSound'
    BY <1>5, <1>6, <1>9 DEF AnswersSound
  <1> QED  BY <1>7, <1>9, <1>10, <1>11, <1>12 DEF IInv, waiterVars

(* The retry timer: setRequesting(false) and a new request in one handler. *)
LEMMA AfterFailStep ==
    ASSUME IInv, GetDifferenceAfterFail
    PROVE  IInv' /\ good' = good /\ applied' = applied /\ log' = log
  <1>1. /\ asked = <<>> /\ answers = {} /\ requesting /\ inited /\ good \in Nat
    BY DEF GetDifferenceAfterFail, IInv, Stage, TypeOK, WaiterTypeOK
  <1>2. /\ asked' = <<good>> /\ answers' = {} /\ failTimer' = FALSE
        /\ requesting' = TRUE /\ timer' = FALSE
        /\ queue' = {} /\ applied' = applied
        /\ UNCHANGED <<numbers, waitingForSkipped, waitingForShortPoll>>
        /\ UNCHANGED network /\ UNCHANGED <<active, lost, fails, reads>>
    BY <1>1 DEF GetDifferenceAfterFail, Ask
  <1>3. asked' \in Seq(Nat)
    BY <1>1, <1>2
  <1>4. /\ WaiterTypeOK' /\ WaiterInv' /\ OnTheWay'
        /\ pushes' \in SUBSET Events' /\ results' \in SUBSET Events'
        /\ good' = good /\ Len(log') <= MaxEvents
    <2>1. waitingForShortPoll' \in BOOLEAN
      BY <1>2 DEF IInv, TypeOK, WaiterTypeOK
    <2> QED  BY <1>2, <2>1, NumbersKept DEF network
  <1>5. TypeOK'
    <2>1. spent' \in BOOLEAN
      BY PollSpentType DEF GetDifferenceAfterFail
    <2> QED  BY <1>2, <1>3, <1>4, <2>1 DEF IInv, TypeOK, network
  <1>6. Stage' /\ AnswersSound'
    BY <1>1, <1>2, <1>4 DEF Stage, AnswersSound, inited
  <1> QED  BY <1>2, <1>4, <1>5, <1>6 DEF IInv, network

(* The answers to getChannelDifference, and its failure.                   *)
LEMMA DoneStep ==
    ASSUME IInv, NEW a \in answers, Done(a)
    PROVE  IInv' /\ good <= good' /\ applied \subseteq applied' /\ log' = log
  <1>1. /\ requesting /\ asked = <<>> /\ ~failTimer /\ answers = {a}
        /\ inited /\ good > 0
        /\ a.from = good /\ a \in Answers
        /\ a.kind \in {"empty", "tooLong", "slice", "final", "fail"}
        /\ a.pts \in Nat /\ good \in Nat
        /\ OnBoundary(a.pts) /\ good <= a.pts
        /\ a.kind = "empty" => good = a.pts
    BY DEF IInv, Stage, AnswersSound, TypeOK, WaiterTypeOK, Answers, inited
  <1>2. CASE ChannelDifferenceFail(a)
    <2>1. /\ UNCHANGED waiterVars /\ UNCHANGED network
          /\ UNCHANGED <<asked, active, budget>>
          /\ answers' = {} /\ failTimer' = TRUE
      BY <1>1, <1>2 DEF ChannelDifferenceFail
    <2>2. /\ UNCHANGED <<numbers, log>> /\ applied' = applied
          /\ queue' = queue /\ waitingForSkipped' = waitingForSkipped
          /\ timer' \in BOOLEAN /\ waitingForShortPoll' \in BOOLEAN
          /\ requesting' = requesting /\ pushes' = pushes /\ results' = results
      BY <2>1 DEF waiterVars, waiting, network, IInv, TypeOK, WaiterTypeOK
    <2>3. /\ WaiterTypeOK' /\ WaiterInv' /\ OnTheWay'
          /\ pushes' \in SUBSET Events' /\ results' \in SUBSET Events'
          /\ good' = good /\ Len(log') <= MaxEvents
      BY <2>2, NumbersKept
    <2>4. TypeOK'
      BY <2>1, <2>3 DEF IInv, TypeOK, budget, network
    <2>5. Stage' /\ AnswersSound'
      BY <1>1, <2>1, <2>2, <2>3 DEF Stage, AnswersSound, inited
    <2> QED  BY <1>1, <2>2, <2>3, <2>4, <2>5 DEF IInv
  <1>3. CASE ChannelDifferenceDone(a) \/ ChannelDifferenceSliceDone(a)
    <2>1. /\ ResetTo(a.pts) /\ queue' = {} /\ answers' = {}
          /\ requesting' \in BOOLEAN /\ failTimer' = FALSE
          /\ UNCHANGED network /\ UNCHANGED <<active, lost, fails, reads>>
          /\ asked' = IF requesting' THEN <<a.pts>> ELSE <<>>
      <3>1. /\ failTimer = FALSE /\ answers \ {a} = {}
            /\ Append(<<>>, a.pts) = <<a.pts>>
        BY <1>1 DEF IInv, TypeOK
      <3>2. CASE ChannelDifferenceDone(a)
        BY <1>1, <3>1, <3>2 DEF ChannelDifferenceDone
      <3>3. CASE ChannelDifferenceSliceDone(a)
        BY <1>1, <3>1, <3>3 DEF ChannelDifferenceSliceDone, Ask, budget
      <3> QED  BY <1>3, <3>2, <3>3
    <2>2. /\ timer' \in BOOLEAN /\ waitingForSkipped' \in BOOLEAN
          /\ waitingForShortPoll' \in BOOLEAN /\ spent' \in BOOLEAN
      <3>1. /\ timer \in BOOLEAN /\ waitingForSkipped \in BOOLEAN
            /\ waitingForShortPoll \in BOOLEAN /\ spent \in BOOLEAN
            /\ inActiveChats \in BOOLEAN
            /\ budget' = budget => spent' = spent
        BY DEF IInv, TypeOK, WaiterTypeOK, inActiveChats, budget
      <3> QED  BY <1>3, <3>1, Zenon DEF ChannelDifferenceDone,
                                        ChannelDifferenceSliceDone
    <2>3. /\ applied \cup Between(good, a.pts) \subseteq applied'
          /\ applied' \in SUBSET Events
      <3>1. /\ Between(good, a.pts) \subseteq UpTo(a.pts)
            /\ UpTo(a.pts) \subseteq Events /\ applied \subseteq Events
        BY DEF Between, UpTo, IInv, TypeOK, WaiterTypeOK
      <3> QED  BY <1>1, <1>3, <3>1 DEF ChannelDifferenceDone,
                                       ChannelDifferenceSliceDone
    <2>4. /\ good' = a.pts /\ last' = a.pts /\ count' = a.pts
          /\ base' = a.pts /\ counted' = {} /\ Events' = Events /\ log' = log
      BY <2>1 DEF ResetTo, Events, network
    <2>5. \A f \in Events : Pts(f) <= a.pts /\ Count(f) > 0 => f \in applied'
      <3> SUFFICES ASSUME NEW f \in Events, Pts(f) <= a.pts, Count(f) > 0
                   PROVE  f \in applied'
        OBVIOUS
      <3>1. Pts(f) \in Nat
        BY EventType DEF IInv, TypeOK, WaiterTypeOK
      <3>2. CASE Pts(f) <= good
        BY <2>3, <3>2 DEF IInv, WaiterInv, NoSilentLoss
      <3>3. CASE good < Pts(f)
        BY <2>3, <3>3 DEF Between
      <3> QED  BY <1>1, <3>1, <3>2, <3>3
    <2>6. WaiterInv'
      BY <1>1, <2>1, <2>4, <2>5, ResetStep DEF IInv, TypeOK
    <2>7. WaiterTypeOK'
      BY <1>1, <2>1, <2>2, <2>3, <2>4 DEF IInv, TypeOK, WaiterTypeOK
    <2>8. TypeOK'
      <3>1. asked' \in Seq(Nat)
        BY <1>1, <2>1
      <3> QED  BY <2>1, <2>2, <2>4, <2>7, <3>1 DEF IInv, TypeOK, network
    <2>9. Stage' /\ AnswersSound'
      BY <1>1, <2>1, <2>4 DEF Stage, AnswersSound, inited
    <2>10. OnTheWay'
      BY <2>1, <2>4 DEF IInv, OnTheWay, network
    <2> QED  BY <1>1, <2>3, <2>4, <2>6, <2>8, <2>9, <2>10 DEF IInv
  <1> QED  BY <1>2, <1>3 DEF Done

(* Every step keeps the invariant, and seen from the data only adds to it. *)
LEMMA NextStep ==
    ASSUME IInv, Next
    PROVE  /\ IInv'
           /\ \/ /\ good <= good' /\ applied \subseteq applied' /\ log' = log
              \/ /\ \E c \in Counts : Generate(c)
                 /\ UNCHANGED <<good, applied>>
  <1>0. good \in Nat /\ good <= good
    BY DEF IInv, TypeOK, WaiterTypeOK
  <1>1. ASSUME NEW c \in Counts,
               GeneratePush(c) \/ GenerateResult(c) \/ GenerateLost(c)
        PROVE  /\ IInv' /\ Generate(c) /\ UNCHANGED <<good, applied>>
    BY <1>1, GenerateStep DEF GeneratePush, GenerateResult, GenerateLost,
                              waiterVars, numbers
  <1>2. ASSUME \/ \E e \in pushes : ReceivePush(e)
               \/ \E e \in results : ReceiveResult(e) \/ ReceiveAffected(e)
        PROVE  /\ IInv' /\ good <= good' /\ applied \subseteq applied'
               /\ log' = log
    <2>1. log' = log
      BY <1>2 DEF ReceivePush, ReceiveResult, ReceiveAffected
    <2> QED  BY <1>2, <2>1, HandleStep
  <1>3. ASSUME \/ ServerAnswers \/ ServerFails \/ User
               \/ UpdateChannelTooLong \/ GetDifferenceByPts
               \/ GetDifferenceAfterFail
        PROVE  IInv' /\ UNCHANGED <<good, applied, log>>
    BY <1>3, AnswerStep, UserStep, GetDifferenceCallers, AfterFailStep
  <1> QED
    BY <1>0, <1>1, <1>2, <1>3, DoneStep, PtsReceivedStep
       DEF Next, Server, Receive, Read

(* The inductive invariant holds in every behaviour.                       *)
THEOREM Inductive == Spec => []IInv
  <1>1. Init => IInv
    BY InitEstablishes
  <1>2. IInv /\ [Next]_vars => IInv'
    BY NextStep, Stuttering
  <1> QED  BY <1>1, <1>2, PTL DEF Spec

(* Whatever the order of delivery, the types are kept, no counted update   *)
(* is passed by _good and missing, and updates are dropped exactly while   *)
(* one request, one answer or the retry timer is due.                      *)
THEOREM AlwaysConsistent == Spec => []Consistent
  <1>1. IInv => Consistent
    <2> SUFFICES ASSUME IInv PROVE RequestingHasOneCause
      BY DEF IInv, WaiterInv, Consistent
    <2>1. /\ Len(<<>>) = 0 /\ Len(<<good>>) = 1 /\ Cardinality({}) = 0
          /\ \A a : Cardinality({a}) = 1
      BY FS_EmptySet, FS_Singleton
    <2>2. CASE ~requesting /\ asked = <<>> /\ answers = {} /\ ~failTimer
      BY <2>1, <2>2 DEF RequestingHasOneCause
    <2>3. CASE requesting /\ asked = <<good>> /\ answers = {} /\ ~failTimer
      BY <2>1, <2>3 DEF RequestingHasOneCause
    <2>4. CASE /\ requesting /\ asked = <<>> /\ ~failTimer
               /\ \E a \in answers : answers = {a} /\ a.from = good
      <3>1. Cardinality(answers) = 1 /\ Len(asked) = 0
        BY <2>1, <2>4
      <3> QED  BY <3>1, <2>4 DEF RequestingHasOneCause
    <2>5. CASE requesting /\ asked = <<>> /\ answers = {} /\ failTimer
      BY <2>1, <2>5 DEF RequestingHasOneCause
    <2> QED  BY <2>2, <2>3, <2>4, <2>5 DEF IInv, Stage
  <1> QED  BY <1>1, Inductive, PTL

(* The channel implements the abstract feed: its pts never moves back and  *)
(* never passes an update that is missing from the data.                   *)
THEOREM Refinement == Spec => ImplementsFeed
  <1>1. Init => Feed!Init
    BY DEF Init, WaiterInit, Feed!Init
  <1>2. IInv /\ IInv' /\ [Next]_vars
          => [Feed!ServerGenerates \/ Feed!ClientAdvances]_<<log, good, applied>>
    <2> SUFFICES ASSUME IInv, IInv', [Next]_vars
                 PROVE  [Feed!ServerGenerates \/ Feed!ClientAdvances]_<<log, good, applied>>
      OBVIOUS
    <2>1. CASE UNCHANGED vars
      BY <2>1 DEF vars, waiterVars, numbers, network
    <2>2. CASE Next
      <3>1. CASE \E c \in Counts : Generate(c) /\ UNCHANGED <<good, applied>>
        BY <3>1 DEF Feed!ServerGenerates, Feed!Generate, Feed!ServerPts,
                    Feed!Pts, Generate, ServerPts, Pts
      <3>2. CASE good <= good' /\ applied \subseteq applied' /\ log' = log
        <4>1. /\ good \in Nat /\ good' \in Nat /\ good' <= ServerPts
              /\ ServerPts \in Nat
          <5>1. /\ good \in Nat /\ good' \in Nat /\ (good <= ServerPts)'
                /\ log \in Seq(Updates) /\ LogOrdered
            BY DEF IInv, TypeOK, WaiterTypeOK, WaiterInv, OnBoundary
          <5> QED  BY <3>2, <5>1, ServerPtsBounds DEF ServerPts, Pts
        <4>2. good' \in good..ServerPts
          BY <3>2, <4>1
        <4>3. applied' \subseteq Events /\ NoSilentLoss'
          BY <3>2 DEF IInv, TypeOK, WaiterTypeOK, WaiterInv, Events
        <4> QED
          BY <3>2, <4>2, <4>3
             DEF Feed!ClientAdvances, Feed!PrefixApplied, Feed!Events,
                 Feed!ServerPts, Feed!Pts, Feed!Count, NoSilentLoss, Events,
                 ServerPts, Pts, Count
      <3> QED  BY <2>2, <3>1, <3>2, NextStep
    <2> QED  BY <2>1, <2>2
  <1> QED  BY <1>1, <1>2, Inductive, PTL DEF Spec, ImplementsFeed, Feed!Spec
-----------------------------------------------------------------------------
(* The timer that gaps and short polls share.                              *)

(* What is handed to the waiter stops waiting for a gap, never for a poll. *)
LEMMA PollSurvives ==
    ASSUME WaiterTypeOK, timer, waitingForShortPoll,
           \/ \E e \in Events : UpdateAndApply(e)
           \/ \E p, c, points, es : UpdateAndApplyDone(p, c, points, es)
    PROVE  timer' /\ waitingForShortPoll'
  <1>1. timer = TRUE /\ waitingForShortPoll = TRUE
    BY DEF WaiterTypeOK
  <1>2. CASE \E e \in Events : UpdateAndApply(e)
    BY <1>1, <1>2 DEF UpdateAndApply, DeliverUncounted, DropOld, StartFrom,
       CountAndDeliver, DeliverOverGap, KeepForLater, Deliver, ApplySkipped,
       waiting
  <1>3. CASE \E p, c, points, es : UpdateAndApplyDone(p, c, points, es)
    BY <1>1, <1>3 DEF UpdateAndApplyDone, ApplySkipped, waiting
  <1> QED  BY <1>2, <1>3

LEMMA PollStep ==
    ASSUME IInv, PollWaits, Next PROVE PollWaits'
  <1>1. WaiterTypeOK /\ spent \in BOOLEAN
    BY DEF IInv, TypeOK
  <1>2. ASSUME UNCHANGED <<requesting, timer, waitingForShortPoll, spent>>,
               inActiveChats' => inActiveChats
        PROVE  PollWaits'
    BY <1>2 DEF PollWaits
  <1>3. ASSUME UNCHANGED waiterVars, UNCHANGED <<active, spent>>
        PROVE  PollWaits'
    BY <1>2, <1>3 DEF waiterVars, waiting, inActiveChats
  <1>4. ASSUME requesting' = TRUE PROVE PollWaits'
    BY <1>4 DEF PollWaits
  <1>5. ASSUME NEW c \in Counts,
               GeneratePush(c) \/ GenerateResult(c) \/ GenerateLost(c)
        PROVE  PollWaits'
    BY <1>3, <1>5 DEF GeneratePush, GenerateResult, GenerateLost, budget
  <1>6. ASSUME ServerAnswers \/ ServerFails PROVE PollWaits'
    BY <1>3, <1>6 DEF ServerAnswers, ServerFails, Answer, budget
  <1>7. ASSUME UNCHANGED <<active, spent, requesting>>,
               \/ \E e \in Events : UpdateAndApply(e)
               \/ \E p, c, points, es : UpdateAndApplyDone(p, c, points, es)
        PROVE  PollWaits'
    <2>1. inActiveChats' = inActiveChats
      BY <1>7 DEF inActiveChats
    <2>2. CASE inActiveChats /\ ~requesting /\ ~spent
      BY <1>1, <1>7, <2>1, <2>2, PollSurvives DEF PollWaits
    <2>3. CASE ~(inActiveChats /\ ~requesting /\ ~spent)
      BY <1>7, <2>1, <2>3 DEF PollWaits
    <2> QED  BY <2>2, <2>3
  <1>8. ASSUME \/ \E e \in pushes : ReceivePush(e)
               \/ \E e \in results : ReceiveResult(e) \/ ReceiveAffected(e)
        PROVE  PollWaits'
    <2>1. /\ UNCHANGED <<active, spent>>
          /\ pushes \cup results \subseteq Events
      BY <1>8 DEF ReceivePush, ReceiveResult, ReceiveAffected, budget, IInv,
                  TypeOK
    <2>2. \/ UNCHANGED waiterVars
          \/ \E e \in Events : UpdateAndApply(e)
          \/ \E e \in Events :
                UpdateAndApplyDone(Pts(e), Count(e), Points(e), {e})
      BY <1>8, <2>1 DEF ReceivePush, ReceiveResult, ReceiveAffected
    <2>3. UNCHANGED waiterVars \/ requesting' = requesting
      BY <2>2 DEF UpdateAndApply, UpdateAndApplyDone
    <2> QED  BY <1>3, <1>7, <2>1, <2>2, <2>3
  <1>9. ASSUME Read PROVE PollWaits'
    <2>1. /\ UNCHANGED <<active, spent, requesting>>
          /\ \E p : UpdateAndApplyDone(p, 0, {}, {})
      BY <1>9 DEF Read, PtsReceived, UpdateAndApplyDone
    <2> QED  BY <1>7, <2>1
  <1>10. ASSUME GetChannelDifference, active' = active PROVE PollWaits'
    <2>1. CASE inited
      <3>1. requesting'
        BY <1>10, <2>1 DEF GetChannelDifference, Ask
      <3> QED  BY <1>10, <3>1 DEF PollWaits
    <2>2. CASE ~inited
      <3>1. spent' = (spent \/ inActiveChats)
        BY <1>10, <2>2, Zenon DEF GetChannelDifference, PollSpent
      <3>2. inActiveChats' = inActiveChats
        BY <1>10 DEF inActiveChats
      <3> QED  BY <3>1, <3>2, Zenon DEF PollWaits
    <2> QED  BY <2>1, <2>2
  <1>11. ASSUME UpdateChannelTooLong \/ GetDifferenceByPts PROVE PollWaits'
    BY <1>3, <1>10, <1>11 DEF UpdateChannelTooLong, GetDifferenceByPts
  <1>12. ASSUME GetDifferenceAfterFail PROVE PollWaits'
    BY <1>4, <1>12 DEF GetDifferenceAfterFail, Ask, IInv, Stage
  <1>13. ASSUME User PROVE PollWaits'
    <2>1. CASE ShowChat
      BY <2>1 DEF ShowChat, StartShortPoll, PollWaits
    <2>2. CASE HideChat
      <3>1. CASE active' > 0
        BY <1>2, <2>2, <3>1 DEF HideChat, budget
      <3>2. CASE ~(active' > 0)
        BY <3>2 DEF PollWaits, inActiveChats
      <3> QED  BY <3>1, <3>2
    <2>3. CASE CloseWindow
      BY <1>2, <2>3 DEF CloseWindow, waiterVars, waiting, budget
    <2> QED  BY <1>13, <2>1, <2>2, <2>3 DEF User
  <1>14. ASSUME NEW a \in answers, Done(a) PROVE PollWaits'
    <2>1. CASE ChannelDifferenceDone(a)
      <3>1. /\ active' = active /\ waitingForShortPoll' = inActiveChats
            /\ timer' = (inActiveChats \/ (timer /\ waitingForSkipped'))
        BY <2>1 DEF ChannelDifferenceDone
      <3>2. inActiveChats' = inActiveChats
        BY <3>1 DEF inActiveChats
      <3>3. inActiveChats' => timer' /\ waitingForShortPoll'
        BY <3>1, <3>2, Zenon
      <3> QED  BY <3>3, Zenon DEF PollWaits
    <2>2. CASE ChannelDifferenceSliceDone(a)
      BY <1>4, <2>2 DEF ChannelDifferenceSliceDone, Ask
    <2>3. CASE ChannelDifferenceFail(a)
      BY <1>3, <2>3 DEF ChannelDifferenceFail, budget
    <2> QED  BY <1>14, <2>1, <2>2, <2>3 DEF Done
  <1> QED
    BY <1>5, <1>6, <1>8, <1>9, <1>11, <1>12, <1>13, <1>14
       DEF Next, Server, Receive

(* A channel that any window shows is polled for as long as one does,      *)
(* whatever gaps, failures and dialogs come and windows hide and close:    *)
(* unless a difference is on its way, the timer that asks for the next one *)
(* is set.  A poll that comes before the pts is known asks nothing, and    *)
(* ends this until a window or a difference starts another.                *)
THEOREM ShownChannelIsPolled == Spec => []ShownIsPolled
  <1>1. Init => PollWaits
    BY DEF Init, PollWaits, inActiveChats
  <1>2. IInv /\ PollWaits /\ [Next]_vars => PollWaits'
    <2>1. ASSUME PollWaits, UNCHANGED vars PROVE PollWaits'
      BY <2>1 DEF vars, waiterVars, waiting, budget, PollWaits, inActiveChats
    <2> QED  BY <2>1, PollStep
  <1>3. PollWaits => ShownIsPolled
    BY DEF PollWaits, ShownIsPolled
  <1> QED  BY <1>1, <1>2, <1>3, Inductive, PTL DEF Spec

(* Where every update counts, each gap keeps its flag and its timer until  *)
(* the first dialog, through polls that start and stop on the same timer.  *)
LEMMA ChannelGapStep ==
    ASSUME IInv, ChannelGapWaits, EveryCounts, 0 \notin Counts, Next
    PROVE  ChannelGapWaits' /\ EveryCounts'
  <1>1. /\ WaiterTypeOK /\ WaiterInv /\ reads \in Nat
        /\ pushes \cup results \subseteq Events
        /\ good \in Nat /\ good' \in Nat /\ last \in Nat /\ good <= good'
    <2>1. IInv' /\ (good <= good' \/ good' = good)
      BY NextStep
    <2>2. /\ WaiterTypeOK /\ WaiterInv /\ reads \in 0..MaxReads
          /\ pushes \cup results \subseteq Events
          /\ good \in Nat /\ last \in Nat
      BY DEF IInv, TypeOK, WaiterTypeOK
    <2>3. good' \in Nat
      BY <2>1 DEF IInv, TypeOK, WaiterTypeOK
    <2> QED  BY <2>1, <2>2, <2>3
  <1>2. ASSUME UNCHANGED waiterVars, reads' = reads PROVE ChannelGapWaits'
    BY <1>2 DEF waiterVars, numbers, waiting, GapWaits, ChannelGapWaits, inited
  <1>3. ASSUME log' = log PROVE EveryCounts'
    BY <1>3 DEF EveryCounts, Events, Count
  <1>4. ASSUME requesting' = TRUE, UNCHANGED numbers \/ last' = good'
        PROVE  ChannelGapWaits'
    BY <1>1, <1>4 DEF ChannelGapWaits, GapWaits, numbers, inited
  <1>5. ASSUME last' = good' PROVE ChannelGapWaits'
    BY <1>1, <1>5 DEF ChannelGapWaits, GapWaits, inited
  <1>6. ASSUME NEW c \in Counts,
               GeneratePush(c) \/ GenerateResult(c) \/ GenerateLost(c)
        PROVE  ChannelGapWaits' /\ EveryCounts'
    <2>1. Generate(c) /\ UNCHANGED waiterVars /\ reads' = reads
      BY <1>6 DEF GeneratePush, GenerateResult, GenerateLost, budget
    <2> QED  BY <1>1, <1>2, <2>1, GenerateCounts
  <1>7. ASSUME ServerAnswers \/ ServerFails
        PROVE  ChannelGapWaits' /\ EveryCounts'
    BY <1>2, <1>3, <1>7 DEF ServerAnswers, ServerFails, Answer, network, budget
  <1>8. ASSUME NEW e \in Events, reads' = reads,
               \/ UpdateAndApply(e)
               \/ UpdateAndApplyDone(Pts(e), Count(e), Points(e), {e})
        PROVE  ChannelGapWaits'
    <2>1. /\ requesting' = requesting
          /\ inited' \/ UNCHANGED numbers \/ last' = good'
      <3>1. requesting' = requesting
        BY <1>8 DEF UpdateAndApply, UpdateAndApplyDone
      <3>2. inited \/ UNCHANGED numbers \/ last' = good'
        BY <1>8 DEF UpdateAndApply, DeliverUncounted, DropOld, StartFrom,
           CountAndDeliver, DeliverOverGap, KeepForLater, UpdateAndApplyDone,
           ResetTo
      <3> QED  BY <1>1, <3>1, <3>2 DEF inited
    <2>2. CASE requesting \/ reads # 0
      BY <1>1, <1>8, <2>1, <2>2 DEF ChannelGapWaits, GapWaits, numbers, inited
    <2>3. CASE ~requesting /\ reads = 0
      <3>1. GapWaits'
        BY <1>1, <1>8, <2>3, GapArmed DEF EveryCounts, ChannelGapWaits
      <3> QED  BY <1>1, <2>1, <3>1 DEF ChannelGapWaits, numbers, inited
    <2> QED  BY <2>2, <2>3
  <1>9. ASSUME \/ \E e \in pushes : ReceivePush(e)
               \/ \E e \in results : ReceiveResult(e) \/ ReceiveAffected(e)
        PROVE  ChannelGapWaits' /\ EveryCounts'
    <2>1. log' = log /\ reads' = reads
      BY <1>9 DEF ReceivePush, ReceiveResult, ReceiveAffected, budget
    <2>2. \/ UNCHANGED waiterVars
          \/ \E e \in Events :
                 \/ UpdateAndApply(e)
                 \/ UpdateAndApplyDone(Pts(e), Count(e), Points(e), {e})
      BY <1>1, <1>9 DEF ReceivePush, ReceiveResult, ReceiveAffected
    <2> QED  BY <1>2, <1>3, <1>8, <2>1, <2>2
  <1>10. ASSUME Read PROVE ChannelGapWaits' /\ EveryCounts'
    <2>1. PICK p : UpdateAndApplyDone(p, 0, {}, {})
      BY <1>10 DEF Read, PtsReceived
    <2>2. log' = log /\ reads' = reads + 1
      BY <1>10 DEF Read, PtsReceived, network
    <2>3. inited \/ UNCHANGED numbers \/ last' = good'
      BY <2>1 DEF UpdateAndApplyDone, ResetTo
    <2> QED  BY <1>1, <1>3, <2>2, <2>3 DEF ChannelGapWaits, numbers, inited
  <1>11. ASSUME GetChannelDifference, reads' = reads PROVE ChannelGapWaits'
    <2>1. CASE inited
      <3>1. requesting' = TRUE /\ UNCHANGED numbers
        BY <1>1, <1>11, <2>1 DEF GetChannelDifference, Ask, WaiterTypeOK
      <3> QED  BY <1>4, <3>1
    <2>2. CASE ~inited
      <3>1. last' = good'
        BY <1>1, <1>11, <2>2
           DEF GetChannelDifference, numbers, ChannelGapWaits, inited
      <3> QED  BY <1>5, <3>1
    <2> QED  BY <2>1, <2>2
  <1>12. ASSUME UpdateChannelTooLong \/ GetDifferenceByPts
         PROVE  ChannelGapWaits' /\ EveryCounts'
    <2>1. log' = log /\ reads' = reads
      BY <1>12 DEF UpdateChannelTooLong, GetDifferenceByPts, network, budget
    <2> QED  BY <1>2, <1>3, <1>11, <1>12, <2>1
                DEF UpdateChannelTooLong, GetDifferenceByPts
  <1>13. ASSUME GetDifferenceAfterFail
         PROVE  ChannelGapWaits' /\ EveryCounts'
    BY <1>3, <1>4, <1>13 DEF GetDifferenceAfterFail, Ask, IInv, Stage, network
  <1>14. ASSUME User PROVE ChannelGapWaits' /\ EveryCounts'
    <2>1. /\ log' = log /\ reads' = reads /\ UNCHANGED numbers
          /\ requesting' = requesting
          /\ waitingForSkipped' = waitingForSkipped
          /\ timer /\ waitingForSkipped => timer'
      <3>1. timer \in BOOLEAN /\ waitingForSkipped \in BOOLEAN
        BY <1>1 DEF WaiterTypeOK
      <3> QED
        BY <1>14, <3>1, Zenon DEF User, ShowChat, HideChat, CloseWindow,
           StartShortPoll, StopShortPoll, waiterVars, waiting, network, budget
    <2> QED  BY <1>3, <2>1 DEF ChannelGapWaits, GapWaits, numbers, inited
  <1>15. ASSUME NEW a \in answers, Done(a)
         PROVE  ChannelGapWaits' /\ EveryCounts'
    <2>1. log' = log
      BY <1>15 DEF Done, ChannelDifferenceDone, ChannelDifferenceSliceDone,
                   ChannelDifferenceFail, network
    <2>2. \/ UNCHANGED waiterVars /\ reads' = reads
          \/ last' = good'
      BY <1>15 DEF Done, ChannelDifferenceDone, ChannelDifferenceSliceDone,
                   ChannelDifferenceFail, ResetTo, budget
    <2> QED  BY <1>2, <1>3, <1>5, <2>1, <2>2
  <1> QED
    BY <1>6, <1>7, <1>9, <1>10, <1>12, <1>13, <1>14, <1>15
       DEF Next, Server, Receive

(* Where every update counts, and until a dialog brings a pts that counts  *)
(* as none, a gap of the channel never waits for nothing.                  *)
THEOREM EveryChannelGapIsTimed ==
    ASSUME 0 \notin Counts PROVE Spec => []ChannelGapHasTimer
  <1>1. Init => ChannelGapWaits /\ EveryCounts
    BY DEF Init, WaiterInit, ChannelGapWaits, GapWaits, EveryCounts, Events
  <1>2. IInv /\ ChannelGapWaits /\ EveryCounts /\ [Next]_vars
            => (ChannelGapWaits /\ EveryCounts)'
    <2>1. ASSUME ChannelGapWaits, EveryCounts, UNCHANGED vars
          PROVE  (ChannelGapWaits /\ EveryCounts)'
      BY <2>1 DEF vars, waiterVars, numbers, waiting, network, budget, GapWaits,
                  ChannelGapWaits, EveryCounts, Events, Count, inited
    <2> QED  BY <2>1, ChannelGapStep
  <1>3. ChannelGapWaits => ChannelGapHasTimer
    BY DEF ChannelGapWaits, GapWaits, ChannelGapHasTimer, GapHasTimer
  <1> QED  BY <1>1, <1>2, <1>3, Inductive, PTL DEF Spec
=============================================================================
