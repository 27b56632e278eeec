------------------------- MODULE CommonUpdatesProofs -------------------------
(***************************************************************************)
(* For every log, bound and order of delivery: the types are kept, no      *)
(* update is silently lost, requesting always has one cause that will end  *)
(* it, and the box implements the abstract feed.                           *)
(***************************************************************************)
EXTENDS CommonUpdates, PtsWaiterProofs

(* The state the client starts in.                                         *)
LEMMA InitEstablishes ==
    ASSUME Init PROVE IInv
  <1>1. /\ WaiterInit /\ requesting = TRUE /\ log = <<>>
        /\ pushes = {} /\ results = {} /\ asked = <<0>> /\ answers = {}
        /\ failTimer = FALSE /\ newSession = FALSE
        /\ lost = 0 /\ fails = 0 /\ sessions = 0 /\ strays = 0
    BY DEF Init
  <1>2. /\ good = 0 /\ last = 0 /\ count = 0 /\ base = 0 /\ counted = {}
        /\ queue = {} /\ waitingForSkipped = FALSE
        /\ waitingForShortPoll = FALSE /\ timer = FALSE /\ applied = {}
    BY <1>1 DEF WaiterInit
  <1>3. /\ log \in Seq(Updates) /\ Len(log) = 0
        /\ Events = {} /\ ServerPts = FirstPts /\ Cardinality({}) = 0
    BY <1>1, EmptySeq, FS_EmptySet DEF Events, ServerPts
  <1>4. WaiterTypeOK
    BY <1>1, <1>2, <1>3 DEF WaiterTypeOK
  <1>5. TypeOK
    <2>1. asked \in Seq(Nat)
      BY <1>1
    <2>2. /\ lost \in 0..MaxLost /\ fails \in 0..MaxFails
          /\ sessions \in 0..MaxSessions /\ strays \in 0..MaxStrays
      BY <1>1, BoundsAssumption
    <2>3. Len(log) <= MaxEvents
      BY <1>3, LogAssumption
    <2> QED  BY <1>1, <1>4, <2>1, <2>2, <2>3 DEF TypeOK
  <1>6. WaiterInv
    BY <1>1, <1>2, <1>3, LogAssumption DEF WaiterInv, LogOrdered, OnBoundary,
       CountExact, CountedIsKept, NoSilentLoss
  <1>7. Stage /\ AnswersSound /\ OnTheWay
    BY <1>1, <1>2 DEF Stage, AnswersSound, OnTheWay
  <1> QED  BY <1>5, <1>6, <1>7 DEF IInv

(* The invariant does not depend on the variables a step leaves alone.     *)
LEMMA Stuttering ==
    ASSUME IInv, UNCHANGED vars PROVE IInv'
  BY DEF IInv, vars, waiterVars, numbers, waiting, network, request, budget,
     TypeOK, WaiterTypeOK, WaiterInv, LogOrdered, OnBoundary, CountExact,
     CountedIsKept, NoSilentLoss, Stage, AnswersSound, OnTheWay, ServerPts,
     Events, Pts, Count, Points

(* The server generating an update, pushed, returned or lost.              *)
LEMMA GenerateStep ==
    ASSUME IInv, NEW c \in Counts,
           GeneratePush(c) \/ GenerateResult(c) \/ GenerateLost(c)
    PROVE  IInv'
  <1>1. /\ Generate(c) /\ UNCHANGED waiterVars
        /\ UNCHANGED <<asked, answers, failTimer, newSession>>
        /\ UNCHANGED <<fails, sessions, strays>>
        /\ WaiterTypeOK /\ WaiterInv
    BY DEF GeneratePush, GenerateResult, GenerateLost, IInv, TypeOK, budget,
           request
  <1>2. lost' \in 0..MaxLost
    BY BoundsAssumption
       DEF GeneratePush, GenerateResult, GenerateLost, IInv, TypeOK, budget
  <1>3. /\ WaiterTypeOK' /\ WaiterInv'
        /\ Len(log') = Len(log) + 1 /\ Len(log') \in Events'
        /\ Events \subseteq Events' /\ Len(log') \notin Events
        /\ \A e \in Events : Pts(e)' = Pts(e) /\ Count(e)' = Count(e)
        /\ Points(Len(log))' \cap counted' = {}
        /\ \A p \in Nat : OnBoundary(p) => OnBoundary(p)'
    BY <1>1, GenerateKeeps
  <1>4. PICK n : n = Len(log')
    OBVIOUS
  <1>5. /\ n \in Events' /\ n \notin Events
        /\ Points(n)' \cap counted' = {}
    BY <1>3, <1>4 DEF Points, Pts, Count
  <1>6. /\ counted' = counted /\ good' = good /\ requesting' = requesting
    BY <1>1 DEF waiterVars, numbers
  <1>7. /\ pushes' \subseteq pushes \cup {n}
        /\ results' \subseteq results \cup {n}
        /\ pushes' \cap results' = {}
    BY <1>4, <1>5 DEF GeneratePush, GenerateResult, GenerateLost, IInv, TypeOK,
                      OnTheWay
  <1>8. TypeOK'
    <2>1. Len(log') <= MaxEvents
      BY <1>1, <1>3, LogAssumption, LenProperties
         DEF Generate, WaiterTypeOK
    <2>2. pushes' \in SUBSET Events' /\ results' \in SUBSET Events'
      BY <1>3, <1>5, <1>7 DEF IInv, TypeOK
    <2> QED  BY <1>1, <1>2, <1>3, <2>1, <2>2 DEF IInv, TypeOK
  <1>9. Stage'
    BY <1>1, <1>6 DEF IInv, Stage
  <1>10. AnswersSound'
    <2>1. \A a \in answers : a.pts \in Nat
      BY DEF IInv, TypeOK, Answers
    <2> QED  BY <1>1, <1>3, <2>1 DEF IInv, AnswersSound, OnBoundary
  <1>11. OnTheWay'
    <2>1. \A e \in Events : Points(e)' = Points(e)
      BY <1>3 DEF Points
    <2>2. pushes \cup results \subseteq Events
      BY DEF IInv, TypeOK
    <2> QED  BY <1>5, <1>6, <1>7, <2>1, <2>2 DEF IInv, OnTheWay
  <1> QED  BY <1>3, <1>8, <1>9, <1>10, <1>11 DEF IInv

(* getDifference() from any caller: nothing when one is out, otherwise one *)
(* request from _good.                                                     *)
LEMMA GetDifferenceStep ==
    ASSUME IInv, GetDifference, log' = log,
           pushes' \subseteq pushes, results' = results
    PROVE  /\ WaiterTypeOK' /\ WaiterInv' /\ Stage' /\ AnswersSound'
           /\ OnTheWay'
           /\ asked' \in Seq(Nat) /\ answers' = answers
           /\ failTimer' \in BOOLEAN
           /\ pushes' \in SUBSET Events' /\ results' \in SUBSET Events'
           /\ good' = good /\ applied' = applied
  <1>1. /\ UNCHANGED numbers /\ applied' = applied /\ answers' = answers
        /\ waitingForSkipped' = waitingForSkipped /\ timer' = FALSE
        /\ waitingForShortPoll' = waitingForShortPoll
        /\ Events' = Events
    BY DEF GetDifference, Events
  <1>2. /\ good' = good /\ last' = last /\ count' = count
        /\ counted' = counted /\ base' = base
    BY <1>1 DEF numbers
  <1>3. /\ requesting' /\ queue' \subseteq queue
        /\ asked' \in Seq(Nat) /\ failTimer' \in BOOLEAN
    <2>1. good \in Nat /\ asked \in Seq(Nat) /\ failTimer \in BOOLEAN
          /\ requesting \in BOOLEAN
      BY DEF IInv, TypeOK, WaiterTypeOK
    <2>2. Append(asked, good) \in Seq(Nat)
      BY <2>1, AppendProperties
    <2> QED  BY <2>1, <2>2 DEF GetDifference
  <1>4. WaiterTypeOK'
    <2>1. /\ queue' \in SUBSET Events' /\ requesting' \in BOOLEAN
      BY <1>1, <1>3, Zenon DEF IInv, TypeOK, WaiterTypeOK, GetDifference
    <2> QED  BY <1>1, <1>2, <2>1 DEF IInv, TypeOK, WaiterTypeOK
  <1>5. WaiterInv'
    <2>1. queue' # {} => waitingForSkipped'
      BY <1>1, <1>3 DEF IInv, WaiterInv
    <2> QED  BY <1>1, <1>3, <2>1, NumbersUnchanged DEF IInv, TypeOK
  <1>6. Stage'
    <2>1. CASE requesting
      BY <1>1, <1>2, <2>1 DEF GetDifference, IInv, Stage
    <2>2. CASE ~requesting
      <3>1. asked = <<>> /\ answers = {}
        BY <2>2 DEF IInv, Stage
      <3>2. /\ asked' = <<good>> /\ ~failTimer'
        BY <2>2, <3>1 DEF GetDifference
      <3> QED  BY <1>1, <1>2, <1>3, <3>1, <3>2 DEF Stage
    <2> QED  BY <2>1, <2>2
  <1>7. AnswersSound'
    BY <1>1 DEF IInv, AnswersSound, OnBoundary, ServerPts, Events, Pts, Count
  <1>8. OnTheWay'
    BY <1>2 DEF IInv, OnTheWay, Points, Pts, Count
  <1>9. pushes' \in SUBSET Events' /\ results' \in SUBSET Events'
    BY <1>1 DEF IInv, TypeOK
  <1> QED  BY <1>1, <1>2, <1>3, <1>4, <1>5, <1>6, <1>7, <1>8, <1>9

(* While requesting, an update is applied without being counted.           *)
LEMMA RequestingFreezesGood ==
    ASSUME WaiterTypeOK, requesting, NEW e \in Events,
           \/ UpdateAndApply(e)
           \/ UpdateAndApplyDone(Pts(e), Count(e), Points(e), {e})
    PROVE  good' = good
  BY DEF UpdateAndApply, DeliverUncounted, DropOld, StartFrom, CountAndDeliver,
         DeliverOverGap, KeepForLater, UpdateAndApplyDone, numbers

(* An update handed to the waiter, pushed or returned.                     *)
LEMMA HandleStep ==
    ASSUME IInv, NEW e \in Events, e \in pushes \cup results,
           \/ UpdateAndApply(e)
           \/ UpdateAndApplyDone(Pts(e), Count(e), Points(e), {e}),
           pushes' = pushes \ {e}, results' = results \ {e},
           UNCHANGED <<log, request, newSession, budget>>
    PROVE  IInv' /\ good <= good' /\ applied \subseteq applied'
  <1>1. /\ WaiterTypeOK /\ WaiterInv /\ Points(e) \cap counted = {}
        /\ log' = log /\ log \in Seq(Updates)
    BY DEF IInv, TypeOK, WaiterTypeOK, OnTheWay
  <1>2. /\ WaiterTypeOK' /\ WaiterInv'
        /\ good <= good' /\ applied \subseteq applied'
        /\ counted' \subseteq counted \cup Points(e)
    BY <1>1, UpdateAndApplyKeeps, UpdateAndApplyDoneKeeps DEF Keeps
  <1>3. /\ Events' = Events /\ requesting' = requesting
        /\ asked' = asked /\ answers' = answers /\ failTimer' = failTimer
    BY <1>1 DEF Events, request, UpdateAndApply, UpdateAndApplyDone
  <1>4. TypeOK'
    BY <1>1, <1>2, <1>3 DEF IInv, TypeOK, budget
  <1>5. Stage'
    BY <1>1, <1>3, RequestingFreezesGood DEF IInv, Stage
  <1>6. AnswersSound'
    BY <1>1, <1>3 DEF IInv, AnswersSound, OnBoundary, ServerPts, Events, Pts,
                      Count
  <1>7. OnTheWay'
    <2>1. \A f \in (pushes \cup results) \ {e} : Points(f) \cap Points(e) = {}
      BY <1>1, PointsDisjoint DEF IInv, TypeOK, WaiterInv
    <2>2. \A f \in pushes' \cup results' :
              f # e /\ f \in pushes \cup results /\ Points(f)' = Points(f)
      BY <1>1 DEF Points, Pts, Count
    <2>3. \A f \in pushes' \cup results' : Points(f)' \cap counted' = {}
      BY <1>2, <2>1, <2>2 DEF IInv, OnTheWay
    <2> QED  BY <2>3 DEF IInv, OnTheWay
  <1> QED  BY <1>2, <1>4, <1>5, <1>6, <1>7 DEF IInv

(* A step that leaves the waiter and the log alone.                        *)
LEMMA WaiterUntouched ==
    ASSUME IInv, UNCHANGED <<waiterVars, log>>,
           pushes' \subseteq pushes, results' = results
    PROVE  /\ WaiterTypeOK' /\ WaiterInv' /\ OnTheWay'
           /\ pushes' \in SUBSET Events' /\ results' \in SUBSET Events'
           /\ \A p : OnBoundary(p) => OnBoundary(p)'
           /\ good' = good /\ requesting' = requesting
  <1>1. WaiterTypeOK' /\ WaiterInv'
    BY DEF IInv, TypeOK, waiterVars, numbers, waiting, WaiterTypeOK, WaiterInv,
           LogOrdered, OnBoundary, CountExact, CountedIsKept, NoSilentLoss,
           ServerPts, Events, Pts, Count
  <1>2. OnTheWay' /\ pushes' \in SUBSET Events' /\ results' \in SUBSET Events'
    BY DEF IInv, TypeOK, OnTheWay, waiterVars, numbers, Points, Pts, Count,
           Events
  <1> QED
    BY <1>1, <1>2 DEF OnBoundary, ServerPts, Events, Pts, Count, waiterVars,
                      numbers

(* The server answering or failing the request that is out.                *)
LEMMA AnswerStep ==
    ASSUME IInv,
           \/ ServerAnswersState \/ ServerAnswersEmpty
           \/ ServerAnswersDifference \/ ServerAnswersSlice \/ ServerFails
    PROVE  IInv'
  <1>1. /\ log \in Seq(Updates) /\ LogOrdered /\ good \in Nat
        /\ OnBoundary(good)
    BY DEF IInv, TypeOK, WaiterTypeOK, WaiterInv
  <1>2. /\ asked = <<good>> /\ requesting /\ answers = {} /\ ~failTimer
        /\ Head(asked) = good
    <2>1. asked # <<>>
      BY DEF ServerAnswersState, ServerAnswersEmpty, ServerAnswersDifference,
             ServerAnswersSlice, ServerFails
    <2> QED  BY <2>1 DEF IInv, Stage
  <1>3. ServerPts \in Nat /\ OnBoundary(ServerPts)
    BY <1>1, ServerPtsBounds DEF OnBoundary
  <1>4. \E kind \in {"state", "empty", "slice", "difference", "fail"} :
           \E pts \in Nat :
              /\ OnBoundary(pts) /\ good <= pts
              /\ kind = "empty" => good = pts
              /\ Answer([kind |-> kind, pts |-> pts])
    <2>1. CASE ServerAnswersState
      BY <1>1, <1>2, <1>3, <2>1 DEF ServerAnswersState
    <2>2. CASE ServerAnswersEmpty
      BY <1>1, <1>2, <1>3, <2>2 DEF ServerAnswersEmpty
    <2>3. CASE ServerAnswersDifference
      BY <1>1, <1>2, <1>3, <2>3 DEF ServerAnswersDifference
    <2>4. CASE ServerAnswersSlice
      <3>1. PICK e \in Events : /\ good < Pts(e)
                                /\ Answer([kind |-> "slice", pts |-> Pts(e)])
        BY <1>2, <2>4 DEF ServerAnswersSlice
      <3>2. Pts(e) \in Nat /\ OnBoundary(Pts(e))
        BY <1>1, EventType, PtsOnBoundary
      <3> QED  BY <1>1, <3>1, <3>2
    <2>5. CASE ServerFails
      BY <1>1, <1>2, <2>5 DEF ServerFails
    <2> QED  BY <2>1, <2>2, <2>3, <2>4, <2>5
  <1>5. PICK kind \in {"state", "empty", "slice", "difference", "fail"},
             pts \in Nat :
              /\ OnBoundary(pts) /\ good <= pts
              /\ kind = "empty" => good = pts
              /\ Answer([kind |-> kind, pts |-> pts])
    BY <1>4
  <1>6. PICK a \in Answers :
           /\ a.kind = kind /\ a.from = good /\ a.pts = pts
           /\ asked' = <<>> /\ answers' = {a}
    <2> DEFINE b == [kind |-> kind, from |-> good, pts |-> pts,
                     at |-> Len(log)]
    <2>1. b \in Answers
      BY <1>1, LenProperties DEF Answers
    <2>2. asked' = <<>> /\ answers' = {b}
      BY <1>2, <1>5 DEF Answer
    <2> QED  BY <2>1, <2>2
  <1>7. /\ UNCHANGED <<waiterVars, log, pushes, results, failTimer, newSession>>
    BY <1>5 DEF Answer, network
  <1>8. UNCHANGED <<lost, sessions, strays>> /\ fails' \in 0..MaxFails
    BY BoundsAssumption
       DEF ServerAnswersState, ServerAnswersEmpty, ServerAnswersDifference,
           ServerAnswersSlice, ServerFails, budget, IInv, TypeOK
  <1>9. /\ WaiterTypeOK' /\ WaiterInv' /\ OnTheWay'
        /\ OnBoundary(pts)' /\ good' = good /\ requesting' = requesting
        /\ pushes' \in SUBSET Events' /\ results' \in SUBSET Events'
    BY <1>5, <1>7, WaiterUntouched
  <1>10. TypeOK'
    BY <1>6, <1>7, <1>8, <1>9 DEF IInv, TypeOK
  <1>11. Stage'
    BY <1>2, <1>6, <1>7, <1>9 DEF Stage
  <1>12. AnswersSound'
    BY <1>5, <1>6, <1>9 DEF AnswersSound
  <1> QED  BY <1>9, <1>10, <1>11, <1>12 DEF IInv

(* A new session on the server: pushes are gone, an answer not heard is    *)
(* asked for again.                                                        *)
LEMMA LoseSessionStep ==
    ASSUME IInv, LoseSession PROVE IInv'
  <1>1. /\ UNCHANGED <<waiterVars, log, results, failTimer, lost, fails, strays>>
        /\ pushes' = {} /\ newSession' = TRUE /\ sessions' \in 0..MaxSessions
    BY BoundsAssumption DEF LoseSession, IInv, TypeOK
  <1>2. /\ WaiterTypeOK' /\ WaiterInv' /\ OnTheWay'
        /\ \A p : OnBoundary(p) => OnBoundary(p)'
        /\ good' = good /\ requesting' = requesting
        /\ pushes' \in SUBSET Events' /\ results' \in SUBSET Events'
    BY <1>1, WaiterUntouched
  <1>3. /\ asked' \in Seq(Nat) /\ answers' \subseteq answers
        /\ Stage'
    <2>1. CASE UNCHANGED <<asked, answers>>
      BY <1>1, <1>2, <2>1 DEF IInv, Stage, TypeOK
    <2>2. CASE \E a \in answers :
                  /\ answers' = answers \ {a}
                  /\ asked' = Append(asked, a.from)
      <3>1. PICK a \in answers : /\ answers' = answers \ {a}
                                 /\ asked' = Append(asked, a.from)
        BY <2>2
      <3>2. /\ requesting /\ asked = <<>> /\ ~failTimer
            /\ answers = {a} /\ a.from = good
        BY <3>1 DEF IInv, Stage
      <3>3. asked' = <<good>> /\ answers' = {} /\ good \in Nat
        BY <3>1, <3>2 DEF IInv, TypeOK, WaiterTypeOK
      <3>4. asked' \in Seq(Nat)
        BY <3>3
      <3> QED  BY <1>1, <1>2, <3>2, <3>3, <3>4 DEF Stage
    <2> QED  BY <2>1, <2>2 DEF LoseSession
  <1>4. TypeOK'
    BY <1>1, <1>2, <1>3 DEF IInv, TypeOK
  <1>5. AnswersSound'
    BY <1>2, <1>3 DEF IInv, AnswersSound
  <1> QED  BY <1>2, <1>3, <1>4, <1>5 DEF IInv

(* Every step that calls getDifference().                                  *)
LEMMA GetDifferenceCallers ==
    ASSUME IInv,
           \/ \E e \in pushes : ReceivePushFromUnknownPeer(e)
           \/ GetDifferenceByPts \/ GetDifferenceStray
           \/ MtpNewSessionCreated
    PROVE  IInv' /\ good' = good /\ applied' = applied
  <1>1. /\ GetDifference /\ log' = log
        /\ pushes' \subseteq pushes /\ results' = results
    BY DEF ReceivePushFromUnknownPeer, GetDifferenceByPts, GetDifferenceStray,
           MtpNewSessionCreated, network
  <1>2. /\ newSession' \in BOOLEAN
        /\ lost' = lost /\ fails' = fails /\ sessions' = sessions
        /\ strays' \in 0..MaxStrays
    <2>1. newSession \in BOOLEAN /\ strays \in 0..MaxStrays
      BY DEF IInv, TypeOK
    <2>2. CASE \/ \E e \in pushes : ReceivePushFromUnknownPeer(e)
               \/ GetDifferenceByPts \/ MtpNewSessionCreated
      BY <2>1, <2>2 DEF ReceivePushFromUnknownPeer, GetDifferenceByPts,
                        MtpNewSessionCreated, budget
    <2>3. CASE GetDifferenceStray
      BY <2>1, <2>3, BoundsAssumption DEF GetDifferenceStray
    <2> QED  BY <2>2, <2>3
  <1>3. /\ WaiterTypeOK' /\ WaiterInv' /\ Stage' /\ AnswersSound'
        /\ OnTheWay'
        /\ asked' \in Seq(Nat) /\ answers' = answers
        /\ failTimer' \in BOOLEAN
        /\ pushes' \in SUBSET Events' /\ results' \in SUBSET Events'
        /\ good' = good /\ applied' = applied
    BY <1>1, GetDifferenceStep
  <1>4. TypeOK'
    BY <1>1, <1>2, <1>3 DEF IInv, TypeOK
  <1> QED  BY <1>3, <1>4 DEF IInv

(* The retry timer: setRequesting(false) and a new request in one handler. *)
LEMMA AfterFailStep ==
    ASSUME IInv, GetDifferenceAfterFail
    PROVE  IInv' /\ good' = good /\ applied' = applied
  <1>1. /\ asked = <<>> /\ answers = {} /\ requesting /\ good \in Nat
    BY DEF GetDifferenceAfterFail, IInv, Stage, TypeOK, WaiterTypeOK
  <1>2. /\ asked' = <<good>> /\ answers' = {} /\ ~failTimer'
        /\ requesting' = TRUE /\ failTimer' = FALSE /\ timer' = FALSE
        /\ queue' = {} /\ applied' = applied
        /\ UNCHANGED <<numbers, waitingForSkipped, waitingForShortPoll>>
        /\ UNCHANGED <<log, pushes, results, newSession, budget>>
    BY <1>1 DEF GetDifferenceAfterFail, network
  <1>3. /\ good' = good /\ last' = last /\ count' = count /\ base' = base
        /\ counted' = counted /\ Events' = Events
    BY <1>2 DEF numbers, Events
  <1>4. WaiterInv'
    BY <1>2, NumbersUnchanged DEF IInv, TypeOK
  <1>5. TypeOK'
    <2>1. asked' \in Seq(Nat)
      BY <1>1, <1>2
    <2>2. WaiterTypeOK'
      BY <1>2, <1>3 DEF IInv, TypeOK, WaiterTypeOK
    <2> QED  BY <1>2, <1>3, <2>1, <2>2 DEF IInv, TypeOK, budget
  <1>6. Stage' /\ AnswersSound' /\ OnTheWay'
    BY <1>2, <1>3 DEF IInv, Stage, AnswersSound, OnTheWay, Points, Pts, Count
  <1> QED  BY <1>2, <1>3, <1>4, <1>5, <1>6 DEF IInv

(* The answers to getState and getDifference, and its failure.             *)
LEMMA DoneStep ==
    ASSUME IInv, NEW a \in answers, Done(a)
    PROVE  IInv' /\ good <= good' /\ applied \subseteq applied'
  <1>1. /\ requesting /\ asked = <<>> /\ ~failTimer /\ answers = {a}
        /\ a.from = good /\ a \in Answers
        /\ a.kind \in {"state", "empty", "slice", "difference", "fail"}
        /\ a.pts \in Nat /\ good \in Nat
        /\ OnBoundary(a.pts) /\ good <= a.pts
        /\ a.kind = "empty" => good = a.pts
    BY DEF IInv, Stage, AnswersSound, TypeOK, WaiterTypeOK, Answers
  <1>2. CASE DifferenceFail(a)
    <2>1. /\ UNCHANGED <<waiterVars, log, pushes, results, asked, newSession,
                        budget>>
          /\ answers' = {} /\ failTimer' = TRUE
      BY <1>1, <1>2 DEF DifferenceFail, network
    <2>2. /\ WaiterTypeOK' /\ WaiterInv' /\ OnTheWay'
          /\ good' = good /\ requesting' = requesting
          /\ pushes' \in SUBSET Events' /\ results' \in SUBSET Events'
      BY <2>1, WaiterUntouched
    <2>3. TypeOK'
      BY <2>1, <2>2 DEF IInv, TypeOK, budget
    <2>4. Stage' /\ AnswersSound'
      BY <1>1, <2>1, <2>2 DEF Stage, AnswersSound
    <2>5. good <= good' /\ applied \subseteq applied'
      BY <1>1, <2>1, <2>2 DEF waiterVars
    <2> QED  BY <2>2, <2>3, <2>4, <2>5 DEF IInv
  <1>3. CASE StateDone(a) \/ DifferenceDone(a) \/ DifferenceSliceDone(a)
    <2>1. /\ ResetTo(a.pts) /\ queue' = {} /\ answers' = {}
          /\ requesting' \in BOOLEAN /\ timer' \in BOOLEAN
          /\ failTimer' = FALSE
          /\ UNCHANGED <<waitingForSkipped, waitingForShortPoll>>
          /\ UNCHANGED <<log, pushes, results, newSession, budget>>
          /\ asked' = IF requesting' THEN <<a.pts>> ELSE <<>>
      <3>1. /\ timer \in BOOLEAN /\ failTimer = FALSE /\ answers \ {a} = {}
            /\ Append(<<>>, a.pts) = <<a.pts>>
        BY <1>1 DEF IInv, TypeOK, WaiterTypeOK
      <3>2. CASE StateDone(a)
        BY <1>1, <3>1, <3>2 DEF StateDone, network
      <3>3. CASE DifferenceDone(a)
        BY <1>1, <3>1, <3>3 DEF DifferenceDone, network
      <3>4. CASE DifferenceSliceDone(a)
        BY <1>1, <3>1, <3>4 DEF DifferenceSliceDone, network
      <3> QED  BY <1>3, <3>2, <3>3, <3>4
    <2>2. /\ applied \cup Between(good, a.pts) \subseteq applied'
          /\ applied' \in SUBSET Events
      BY <1>1, <1>3 DEF StateDone, DifferenceDone, DifferenceSliceDone,
                        Between, UpTo, IInv, TypeOK, WaiterTypeOK
    <2>3. /\ good' = a.pts /\ last' = a.pts /\ count' = a.pts
          /\ base' = a.pts /\ counted' = {} /\ Events' = Events
      BY <2>1 DEF ResetTo, Events
    <2>4. \A f \in Events : Pts(f) <= a.pts /\ Count(f) > 0 => f \in applied'
      <3> SUFFICES ASSUME NEW f \in Events, Pts(f) <= a.pts, Count(f) > 0
                   PROVE  f \in applied'
        OBVIOUS
      <3>1. Pts(f) \in Nat
        BY EventType DEF IInv, TypeOK, WaiterTypeOK
      <3>2. CASE Pts(f) <= good
        BY <2>2, <3>2 DEF IInv, WaiterInv, NoSilentLoss
      <3>3. CASE good < Pts(f)
        BY <2>2, <3>3 DEF Between
      <3> QED  BY <1>1, <3>1, <3>2, <3>3
    <2>5. WaiterInv'
      BY <1>1, <2>1, <2>4, ResetStep DEF IInv, TypeOK
    <2>6. WaiterTypeOK'
      BY <1>1, <2>1, <2>2, <2>3 DEF IInv, TypeOK, WaiterTypeOK
    <2>7. TypeOK'
      <3>1. asked' \in Seq(Nat)
        BY <1>1, <2>1
      <3> QED  BY <2>1, <2>3, <2>6, <3>1 DEF IInv, TypeOK, budget
    <2>8. Stage' /\ AnswersSound'
      BY <2>1, <2>3 DEF Stage, AnswersSound
    <2>9. OnTheWay'
      BY <2>1, <2>3 DEF IInv, OnTheWay
    <2> QED  BY <1>1, <2>2, <2>3, <2>5, <2>7, <2>8, <2>9 DEF IInv
  <1> QED  BY <1>2, <1>3 DEF Done

(* Every step keeps the invariant, and seen from the data only adds to it. *)
LEMMA NextStep ==
    ASSUME IInv, Next
    PROVE  /\ IInv'
           /\ \/ /\ good <= good' /\ applied \subseteq applied' /\ log' = log
              \/ /\ \E c \in Counts : Generate(c)
                 /\ UNCHANGED <<good, applied>>
  <1>0. good \in Nat /\ good <= good
    BY DEF IInv, TypeOK, WaiterTypeOK
  <1>1. ASSUME NEW c \in Counts,
               GeneratePush(c) \/ GenerateResult(c) \/ GenerateLost(c)
        PROVE  /\ IInv' /\ Generate(c) /\ UNCHANGED <<good, applied>>
    BY <1>1, GenerateStep DEF GeneratePush, GenerateResult, GenerateLost,
                              waiterVars, numbers
  <1>2. ASSUME \/ ServerAnswersState \/ ServerAnswersEmpty
               \/ ServerAnswersDifference \/ ServerAnswersSlice
               \/ ServerFails
        PROVE  IInv' /\ UNCHANGED <<good, applied, log>>
    <2>1. UNCHANGED waiterVars /\ UNCHANGED network
      BY <1>2 DEF ServerAnswersState, ServerAnswersEmpty,
                  ServerAnswersDifference, ServerAnswersSlice, ServerFails,
                  Answer
    <2> QED  BY <1>2, <2>1, AnswerStep DEF waiterVars, numbers, network
  <1>3. ASSUME LoseSession PROVE IInv' /\ UNCHANGED <<good, applied, log>>
    BY <1>3, LoseSessionStep DEF LoseSession, waiterVars, numbers
  <1>4. ASSUME NEW e \in pushes, ReceivePush(e)
        PROVE  /\ IInv' /\ good <= good' /\ applied \subseteq applied'
               /\ log' = log
    <2>1. e \in Events /\ results' = results \ {e}
      BY <1>4 DEF ReceivePush, IInv, TypeOK, OnTheWay
    <2>2. CASE requesting
      <3>1. /\ UNCHANGED <<waiterVars, log, results, request, newSession, budget>>
            /\ pushes' \subseteq pushes
        BY <1>4, <2>2 DEF ReceivePush
      <3>2. /\ WaiterTypeOK' /\ WaiterInv' /\ OnTheWay'
            /\ \A p : OnBoundary(p) => OnBoundary(p)'
            /\ good' = good /\ requesting' = requesting
            /\ pushes' \in SUBSET Events' /\ results' \in SUBSET Events'
        BY <3>1, WaiterUntouched
      <3>3. TypeOK'
        BY <3>1, <3>2 DEF IInv, TypeOK, request, budget
      <3>4. Stage' /\ AnswersSound'
        BY <3>1, <3>2 DEF IInv, Stage, AnswersSound, request
      <3> QED  BY <1>0, <3>1, <3>2, <3>3, <3>4 DEF IInv, waiterVars
    <2>3. CASE ~requesting
      BY <1>4, <2>1, <2>3, HandleStep DEF ReceivePush
    <2> QED  BY <2>2, <2>3
  <1>5. ASSUME NEW e \in results, ReceiveResult(e) \/ ReceiveAffected(e)
        PROVE  /\ IInv' /\ good <= good' /\ applied \subseteq applied'
               /\ log' = log
    <2>1. e \in Events /\ pushes' = pushes \ {e}
      BY <1>5 DEF ReceiveResult, ReceiveAffected, IInv, TypeOK, OnTheWay
    <2> QED  BY <1>5, <2>1, HandleStep DEF ReceiveResult, ReceiveAffected
  <1>6. ASSUME \/ \E e \in pushes : ReceivePushFromUnknownPeer(e)
               \/ GetDifferenceByPts \/ GetDifferenceStray
               \/ MtpNewSessionCreated
        PROVE  IInv' /\ UNCHANGED <<good, applied, log>>
    <2>1. log' = log
      BY <1>6 DEF ReceivePushFromUnknownPeer, GetDifferenceByPts,
                  GetDifferenceStray, MtpNewSessionCreated, network
    <2> QED  BY <1>6, <2>1, GetDifferenceCallers
  <1>7. ASSUME GetDifferenceAfterFail
        PROVE  IInv' /\ UNCHANGED <<good, applied, log>>
    BY <1>7, AfterFailStep DEF GetDifferenceAfterFail, network
  <1>8. ASSUME NEW a \in answers, Done(a)
        PROVE  /\ IInv' /\ good <= good' /\ applied \subseteq applied'
               /\ log' = log
    <2>1. log' = log
      BY <1>8 DEF Done, StateDone, DifferenceDone, DifferenceSliceDone,
                  DifferenceFail, network
    <2> QED  BY <1>8, <2>1, DoneStep
  <1> QED
    BY <1>0, <1>1, <1>2, <1>3, <1>4, <1>5, <1>6, <1>7, <1>8
       DEF Next, Server, Receive, Timers

(* The inductive invariant holds in every behaviour.                       *)
THEOREM Inductive == Spec => []IInv
  <1>1. Init => IInv
    BY InitEstablishes
  <1>2. IInv /\ [Next]_vars => IInv'
    BY NextStep, Stuttering
  <1> QED  BY <1>1, <1>2, PTL DEF Spec

(* Every variable keeps its type, whatever the log, bounds and order.      *)
THEOREM TypeCorrect == Spec => []TypeOK
  <1>1. IInv => TypeOK
    BY DEF IInv
  <1> QED  BY <1>1, Inductive, PTL

(* _good never passes an update that counts before its effect is in the    *)
(* data: gaps, reordering, loss, retries and slices never lose an update   *)
(* silently (PtsWaiter and the difference handlers of Api::Updates).       *)
THEOREM NothingSilentlyLost == Spec => []NoSilentLoss
  <1>1. IInv => NoSilentLoss
    BY DEF IInv, WaiterInv
  <1> QED  BY <1>1, Inductive, PTL

(* requesting, which drops pushed updates, holds exactly while one request, *)
(* one answer or the retry timer is due: it can neither be left behind nor *)
(* be served twice.                                                        *)
THEOREM OneRequestAtATime == Spec => []RequestingHasOneCause
  <1>1. IInv => RequestingHasOneCause
    <2> SUFFICES ASSUME IInv PROVE RequestingHasOneCause
      OBVIOUS
    <2>1. /\ Len(<<>>) = 0 /\ Len(<<good>>) = 1 /\ Cardinality({}) = 0
          /\ \A a : Cardinality({a}) = 1
      BY FS_EmptySet, FS_Singleton
    <2>2. CASE ~requesting /\ asked = <<>> /\ answers = {} /\ ~failTimer
      BY <2>1, <2>2 DEF RequestingHasOneCause
    <2>3. CASE requesting /\ asked = <<good>> /\ answers = {} /\ ~failTimer
      BY <2>1, <2>3 DEF RequestingHasOneCause
    <2>4. CASE /\ requesting /\ asked = <<>> /\ ~failTimer
               /\ \E a \in answers : answers = {a} /\ a.from = good
      <3>1. Cardinality(answers) = 1 /\ Len(asked) = 0
        BY <2>1, <2>4
      <3> QED  BY <3>1, <2>4 DEF RequestingHasOneCause
    <2>5. CASE requesting /\ asked = <<>> /\ answers = {} /\ failTimer
      BY <2>1, <2>5 DEF RequestingHasOneCause
    <2> QED  BY <2>2, <2>3, <2>4, <2>5 DEF IInv, Stage
  <1> QED  BY <1>1, Inductive, PTL

(* When every update counts, a step that finds each gap with its flag and  *)
(* timer leaves each gap with them.                                        *)
LEMMA GapStep ==
    ASSUME IInv, GapWaits, EveryCounts, 0 \notin Counts, Next
    PROVE  GapWaits' /\ EveryCounts'
  <1>1. /\ WaiterTypeOK /\ WaiterInv
        /\ pushes \cup results \subseteq Events
    BY DEF IInv, TypeOK
  <1>2. ASSUME UNCHANGED waiterVars PROVE GapWaits'
    BY <1>2 DEF waiterVars, numbers, waiting, GapWaits
  <1>3. ASSUME log' = log PROVE EveryCounts'
    BY <1>3 DEF EveryCounts, Events, Count
  <1>4. ASSUME requesting' = TRUE \/ last' = good' PROVE GapWaits'
    BY <1>4 DEF GapWaits
  <1>5. ASSUME NEW c \in Counts,
               GeneratePush(c) \/ GenerateResult(c) \/ GenerateLost(c)
        PROVE  GapWaits' /\ EveryCounts'
    <2>1. Generate(c) /\ UNCHANGED waiterVars
      BY <1>5 DEF GeneratePush, GenerateResult, GenerateLost
    <2> QED  BY <1>1, <1>2, <2>1, GenerateCounts
  <1>6. ASSUME \/ ServerAnswersState \/ ServerAnswersEmpty
               \/ ServerAnswersDifference \/ ServerAnswersSlice
               \/ ServerFails \/ LoseSession
        PROVE  GapWaits' /\ EveryCounts'
    <2>1. UNCHANGED waiterVars /\ log' = log
      BY <1>6 DEF ServerAnswersState, ServerAnswersEmpty,
                  ServerAnswersDifference, ServerAnswersSlice, ServerFails,
                  Answer, LoseSession, network
    <2> QED  BY <1>2, <1>3, <2>1
  <1>7. ASSUME NEW e \in Events,
               \/ UpdateAndApply(e)
               \/ UpdateAndApplyDone(Pts(e), Count(e), Points(e), {e})
        PROVE  GapWaits'
    <2>1. requesting' = requesting
      BY <1>7 DEF UpdateAndApply, UpdateAndApplyDone
    <2>2. CASE requesting
      BY <2>1, <2>2 DEF GapWaits
    <2>3. CASE ~requesting
      BY <1>1, <1>7, <2>3, GapArmed DEF EveryCounts
    <2> QED  BY <2>2, <2>3
  <1>8. ASSUME \/ \E e \in pushes : ReceivePush(e)
               \/ \E e \in results : ReceiveResult(e) \/ ReceiveAffected(e)
        PROVE  GapWaits' /\ EveryCounts'
    <2>1. log' = log
      BY <1>8 DEF ReceivePush, ReceiveResult, ReceiveAffected
    <2>2. \/ UNCHANGED waiterVars
          \/ \E e \in Events :
                 \/ UpdateAndApply(e)
                 \/ UpdateAndApplyDone(Pts(e), Count(e), Points(e), {e})
      BY <1>1, <1>8 DEF ReceivePush, ReceiveResult, ReceiveAffected
    <2> QED  BY <1>2, <1>3, <1>7, <2>1, <2>2
  <1>9. ASSUME \/ \E e \in pushes : ReceivePushFromUnknownPeer(e)
               \/ GetDifferenceByPts \/ GetDifferenceStray
               \/ MtpNewSessionCreated \/ GetDifferenceAfterFail
        PROVE  GapWaits' /\ EveryCounts'
    <2>1. log' = log
      BY <1>9 DEF ReceivePushFromUnknownPeer, GetDifferenceByPts,
                  GetDifferenceStray, MtpNewSessionCreated,
                  GetDifferenceAfterFail, network
    <2>2. requesting'
      BY <1>9 DEF ReceivePushFromUnknownPeer, GetDifferenceByPts,
                  GetDifferenceStray, MtpNewSessionCreated, GetDifference,
                  GetDifferenceAfterFail
    <2> QED  BY <1>3, <2>1, <2>2 DEF GapWaits
  <1>10. ASSUME NEW a \in answers, Done(a)
         PROVE  GapWaits' /\ EveryCounts'
    <2>1. log' = log /\ (UNCHANGED waiterVars \/ last' = good')
      BY <1>10 DEF Done, StateDone, DifferenceDone, DifferenceSliceDone,
                   DifferenceFail, ResetTo, network
    <2> QED  BY <1>2, <1>3, <1>4, <2>1
  <1> QED
    BY <1>5, <1>6, <1>8, <1>9, <1>10 DEF Next, Server, Receive, Timers

(* Where every update counts, a gap never waits for nothing: when _last is *)
(* ahead of _good and no difference is out, the timer that asks for one is *)
(* set.  With counts of 0 it is not so (run common_zero_count).            *)
THEOREM EveryGapIsTimed ==
    ASSUME 0 \notin Counts PROVE Spec => []GapHasTimer
  <1>1. Init => GapWaits /\ EveryCounts
    BY DEF Init, WaiterInit, GapWaits, EveryCounts, Events
  <1>2. IInv /\ GapWaits /\ EveryCounts /\ [Next]_vars
            => (GapWaits /\ EveryCounts)'
    <2>1. ASSUME GapWaits, EveryCounts, UNCHANGED vars
          PROVE  (GapWaits /\ EveryCounts)'
      BY <2>1 DEF vars, waiterVars, numbers, waiting, network, GapWaits,
                  EveryCounts, Events, Count
    <2> QED  BY <2>1, GapStep
  <1>3. GapWaits => GapHasTimer
    BY DEF GapWaits, GapHasTimer
  <1> QED  BY <1>1, <1>2, <1>3, Inductive, PTL DEF Spec

(* The box implements the abstract feed: the initial states are the feed's *)
(* and every step is one of its steps or changes nothing it shows.         *)
THEOREM Refinement == Spec => ImplementsFeed
  <1>1. Init => Feed!Init
    BY DEF Init, WaiterInit, Feed!Init
  <1>2. IInv /\ IInv' /\ [Next]_vars
          => [Feed!ServerGenerates \/ Feed!ClientAdvances]_<<log, good, applied>>
    <2> SUFFICES ASSUME IInv, IInv', [Next]_vars
                 PROVE  [Feed!ServerGenerates \/ Feed!ClientAdvances]_<<log, good, applied>>
      OBVIOUS
    <2>1. CASE UNCHANGED vars
      BY <2>1 DEF vars, waiterVars, numbers, network
    <2>2. CASE Next
      <3>1. CASE \E c \in Counts : Generate(c) /\ UNCHANGED <<good, applied>>
        BY <3>1 DEF Feed!ServerGenerates, Feed!Generate, Feed!ServerPts,
                    Feed!Pts, Generate, ServerPts, Pts
      <3>2. CASE good <= good' /\ applied \subseteq applied' /\ log' = log
        <4>1. /\ good \in Nat /\ good' \in Nat /\ good' <= ServerPts
              /\ ServerPts \in Nat
          <5>1. /\ good \in Nat /\ good' \in Nat /\ (good <= ServerPts)'
                /\ log \in Seq(Updates) /\ LogOrdered
            BY DEF IInv, TypeOK, WaiterTypeOK, WaiterInv, OnBoundary
          <5> QED  BY <3>2, <5>1, ServerPtsBounds DEF ServerPts, Pts
        <4>2. good' \in good..ServerPts
          BY <3>2, <4>1
        <4>3. applied' \subseteq Events /\ NoSilentLoss'
          BY <3>2 DEF IInv, TypeOK, WaiterTypeOK, WaiterInv, Events
        <4> QED
          BY <3>2, <4>2, <4>3
             DEF Feed!ClientAdvances, Feed!PrefixApplied, Feed!Events,
                 Feed!ServerPts, Feed!Pts, Feed!Count, NoSilentLoss, Events,
                 ServerPts, Pts, Count
      <3> QED  BY <2>2, <3>1, <3>2, NextStep
    <2> QED  BY <2>1, <2>2
  <1> QED  BY <1>1, <1>2, Inductive, PTL DEF Spec, ImplementsFeed, Feed!Spec
=============================================================================
