---------------------------- MODULE ChannelUpdates ----------------------------
(***************************************************************************)
(* Api::Updates (api/api_updates.cpp) for one loaded channel: its own      *)
(* PtsWaiter (data/data_channel.h), updates.getChannelDifference with its  *)
(* gap, retry and short-poll timers, and the windows that show the chat.   *)
(***************************************************************************)
EXTENDS PtsWaiter

CONSTANTS
    MaxLost,    \* bound: updates that never reach the channel's waiter
    MaxFails,   \* bound: getChannelDifference requests that fail
    MaxReads,   \* bound: answers that carry the channel's pts (ptsReceived)
    MaxWindows  \* bound: windows that show the chat at a time

ASSUME BoundsAssumption ==
    /\ MaxLost \in Nat /\ MaxFails \in Nat
    /\ MaxReads \in Nat /\ MaxWindows \in Nat

VARIABLES
    pushes,     \* channel updates on their way, not yet handled
    results,    \* those inside results of own requests
    hint,       \* updateChannelTooLong is on its way
    asked,      \* pts of the unanswered getChannelDifference requests
    answers,    \* answers on their way to the client
    failTimer,  \* the channel is in _whenGetDiffAfterFail
    active,     \* how many windows of _activeChats show the channel
    lost, fails, reads,
    spent       \* history: the last poll of the shown chat asked nothing,
                \* for want of a pts

network == <<log, pushes, results, hint>>
request == <<asked, answers, failTimer>>
budget == <<lost, fails, reads, spent>>
vars == <<waiterVars, network, request, active, budget>>

Answers ==
    [kind : {"empty", "tooLong", "slice", "final", "fail"},
     from : Nat, pts : Nat]

Init ==
    /\ WaiterInit /\ requesting = FALSE
    /\ log = <<>> /\ pushes = {} /\ results = {} /\ hint = FALSE
    /\ asked = <<>> /\ answers = {} /\ failTimer = FALSE
    /\ active = 0
    /\ lost = 0 /\ fails = 0 /\ reads = 0 /\ spent = FALSE

-----------------------------------------------------------------------------
(* The server.                                                             *)

GeneratePush(c) ==
    /\ Generate(c)
    /\ pushes' = pushes \cup {Len(log')}
    /\ UNCHANGED <<waiterVars, results, hint, request, active, budget>>

GenerateResult(c) ==
    /\ Generate(c)
    /\ results' = results \cup {Len(log')}
    /\ UNCHANGED <<waiterVars, pushes, hint, request, active, budget>>

(* Not pushed, or pushed while the common difference drops everything; the *)
(* server may tell with updateChannelTooLong.                              *)
GenerateLost(c) ==
    /\ lost < MaxLost
    /\ lost' = lost + 1
    /\ Generate(c)
    /\ hint' \in {hint, TRUE}
    /\ UNCHANGED <<waiterVars, pushes, results, request, active,
                   fails, reads, spent>>

Answer(kind, pts) ==
    /\ asked # <<>>
    /\ asked' = Tail(asked)
    /\ answers' = answers \cup
                    {[kind |-> kind, from |-> Head(asked), pts |-> pts]}
    /\ UNCHANGED <<waiterVars, network, failTimer, active>>

ServerAnswers ==
    /\ asked # <<>>
    /\ \/ Head(asked) = ServerPts /\ Answer("empty", ServerPts)
       \/ /\ Head(asked) < ServerPts
          /\ Answer("tooLong", ServerPts) \/ Answer("final", ServerPts)
       \/ \E e \in Events : /\ Head(asked) < Pts(e) /\ Pts(e) < ServerPts
                            /\ Answer("slice", Pts(e))
    /\ UNCHANGED budget

ServerFails ==
    /\ fails < MaxFails
    /\ asked # <<>>
    /\ Answer("fail", Head(asked))
    /\ fails' = fails + 1
    /\ UNCHANGED <<lost, reads, spent>>

-----------------------------------------------------------------------------
(* Api::Updates.                                                           *)

(* The end of getChannelDifference(channel, from), once it is decided that *)
(* a request from pts goes out.                                            *)
Ask(pts) ==
    /\ requesting' = TRUE /\ queue' = {}
    /\ asked' = Append(asked, pts)
    /\ failTimer' = FALSE

inActiveChats == active > 0

(* A poll that comes before the pts is known erases the timer entry, asks  *)
(* nothing and leaves waitingForShortPoll set.                             *)
PollSpent == spent' = (spent \/ (inActiveChats /\ ~inited))

(* PtsWaiter::setWaitingForShortPoll with a timeout, or with -1.           *)
StartShortPoll == waitingForShortPoll' = TRUE /\ timer' = TRUE

(* Mutant of StopShortPoll: the timer goes though a gap still needs it.    *)
StopShortPollAndGap == waitingForShortPoll' = FALSE /\ timer' = FALSE

StopShortPoll ==
    /\ waitingForShortPoll' = FALSE
    /\ timer' = (timer /\ waitingForSkipped)

(* Mutant of GetChannelDifference: asks from the newest pts seen.          *)
GetChannelDifferenceFromLast ==
    /\ timer' = FALSE
    /\ IF ~inited \/ requesting
       THEN UNCHANGED <<requesting, queue, asked, failTimer>>
       ELSE Ask(last)
    /\ PollSpent
    /\ UNCHANGED <<numbers, waitingForSkipped, waitingForShortPoll, applied,
                   answers>>

(* getChannelDifference(channel, from), from anything but AfterFail; the   *)
(* caller's timer entry is erased by it or right after it.                 *)
GetChannelDifference ==
    /\ timer' = FALSE
    /\ IF ~inited \/ requesting
       THEN UNCHANGED <<requesting, queue, asked, failTimer>>
       ELSE Ask(good)
    /\ PollSpent
    /\ UNCHANGED <<numbers, waitingForSkipped, waitingForShortPoll, applied,
                   answers>>

ReceivePush(e) ==
    /\ pushes' = pushes \ {e}
    /\ IF requesting
       THEN UNCHANGED waiterVars
       ELSE UpdateAndApply(e)
    /\ UNCHANGED <<log, results, hint, request, active, budget>>

ReceiveResult(e) ==
    /\ results' = results \ {e}
    /\ IF requesting
       THEN UNCHANGED waiterVars
       ELSE UpdateAndApply(e)
    /\ UNCHANGED <<log, pushes, hint, request, active, budget>>

ReceiveAffected(e) ==
    /\ results' = results \ {e}
    /\ UpdateAndApplyDone(Pts(e), Count(e), Points(e), {e})
    /\ UNCHANGED <<log, pushes, hint, request, active, budget>>

(* ChannelData::ptsReceived: a dialog or a list of messages came with the  *)
(* pts the channel had when the server answered.                           *)
PtsReceived(p) ==
    /\ reads < MaxReads
    /\ reads' = reads + 1
    /\ UpdateAndApplyDone(p, 0, {}, {})
    /\ UNCHANGED <<network, request, active, lost, fails, spent>>

UpdateChannelTooLong ==
    /\ hint /\ hint' = FALSE
    /\ \E p \in {ServerPts} \cup {Pts(e) : e \in Events} :
         IF good < p
         THEN GetChannelDifference
         ELSE UNCHANGED <<waiterVars, request, spent>>
    /\ UNCHANGED <<log, pushes, results, active, lost, fails, reads>>

GetDifferenceByPts ==
    /\ timer
    /\ GetChannelDifference
    /\ UNCHANGED <<network, active, lost, fails, reads>>

(* Mutant of GetDifferenceAfterFail: the retry entry is not erased.        *)
GetDifferenceAfterFailAgain ==
    /\ failTimer /\ inited
    /\ timer' = FALSE /\ failTimer' = TRUE
    /\ requesting' = TRUE /\ queue' = {} /\ asked' = Append(asked, good)
    /\ UNCHANGED <<numbers, waitingForSkipped, waitingForShortPoll, applied,
                   network, answers, active, budget>>

GetDifferenceAfterFail ==
    /\ failTimer
    /\ timer' = FALSE
    /\ IF inited
       THEN Ask(good)
       ELSE requesting' = FALSE /\ failTimer' = FALSE /\ UNCHANGED <<queue, asked>>
    /\ PollSpent
    /\ UNCHANGED <<numbers, waitingForSkipped, waitingForShortPoll, applied,
                   network, answers, active, lost, fails, reads>>

ShowChat ==
    /\ active < MaxWindows /\ active' = active + 1
    /\ StartShortPoll /\ spent' = FALSE
    /\ UNCHANGED <<numbers, queue, waitingForSkipped, requesting, applied,
                   network, request, lost, fails, reads>>

(* A window turns to another chat: the poll stops when no other shows it.  *)
HideChat ==
    /\ inActiveChats /\ active' = active - 1
    /\ IF active' > 0
       THEN UNCHANGED <<waitingForShortPoll, timer>>
       ELSE StopShortPoll
    /\ UNCHANGED <<numbers, queue, waitingForSkipped, requesting, applied,
                   network, request, budget>>

(* The window goes away: its entry is erased, the poll ends by itself.     *)
CloseWindow ==
    /\ inActiveChats /\ active' = active - 1
    /\ UNCHANGED <<waiterVars, network, request, budget>>

(* Mutant of ChannelDifferenceDone: the poll is not restarted.             *)
ChannelDifferenceDoneNoPoll(a) ==
    /\ a \in answers /\ a.kind \in {"empty", "tooLong", "final"}
    /\ answers' = answers \ {a}
    /\ ResetTo(a.pts)
    /\ queue' = {} /\ requesting' = FALSE
    /\ applied' = applied \cup (IF a.kind = "tooLong" THEN UpTo(a.pts)
                                ELSE Between(a.from, a.pts))
    /\ UNCHANGED <<waitingForSkipped, waitingForShortPoll, timer, network,
                   asked, failTimer, active, budget>>

(* channelDifferenceDone, final: init, stop requesting, poll while shown.  *)
(* Applying the dialog of a tooLong calls ptsReceived while requesting.    *)
ChannelDifferenceDone(a) ==
    /\ a \in answers /\ a.kind \in {"empty", "tooLong", "final"}
    /\ answers' = answers \ {a}
    /\ ResetTo(a.pts)
    /\ queue' = {} /\ requesting' = FALSE
    /\ applied' = applied \cup (IF a.kind = "tooLong" THEN UpTo(a.pts)
                                ELSE Between(a.from, a.pts))
    /\ waitingForSkipped' = (waitingForSkipped /\ a.kind # "tooLong")
    /\ waitingForShortPoll' = inActiveChats
    /\ timer' = (inActiveChats \/ (timer /\ waitingForSkipped'))
    /\ spent' = (spent /\ ~inActiveChats)
    /\ UNCHANGED <<network, asked, failTimer, active, lost, fails, reads>>

ChannelDifferenceSliceDone(a) ==
    /\ a \in answers /\ a.kind = "slice"
    /\ answers' = answers \ {a}
    /\ ResetTo(a.pts)
    /\ Ask(a.pts)
    /\ timer' = FALSE
    /\ applied' = applied \cup Between(a.from, a.pts)
    /\ UNCHANGED <<waitingForSkipped, waitingForShortPoll, network, active,
                   budget>>

(* Mutant of ChannelDifferenceFail: no retry is scheduled.                 *)
ChannelDifferenceFailGivesUp(a) ==
    /\ a \in answers /\ a.kind = "fail"
    /\ answers' = answers \ {a}
    /\ UNCHANGED <<waiterVars, network, asked, failTimer, active, budget>>

ChannelDifferenceFail(a) ==
    /\ a \in answers /\ a.kind = "fail"
    /\ answers' = answers \ {a}
    /\ failTimer' = TRUE
    /\ UNCHANGED <<waiterVars, network, asked, active, budget>>

-----------------------------------------------------------------------------
Server ==
    \/ \E c \in Counts :
         GeneratePush(c) \/ GenerateResult(c) \/ GenerateLost(c)
    \/ ServerAnswers \/ ServerFails

Receive ==
    \/ \E e \in pushes : ReceivePush(e)
    \/ \E e \in results : ReceiveResult(e) \/ ReceiveAffected(e)
    \/ UpdateChannelTooLong

Read == \E p \in {FirstPts} \cup {Pts(e) : e \in Events} : PtsReceived(p)

User == ShowChat \/ HideChat \/ CloseWindow

Done(a) ==
    ChannelDifferenceDone(a) \/ ChannelDifferenceSliceDone(a)
        \/ ChannelDifferenceFail(a)

Next ==
    \/ Server \/ Receive \/ Read \/ User
    \/ GetDifferenceByPts \/ GetDifferenceAfterFail
    \/ \E a \in answers : Done(a)

Spec == Init /\ [][Next]_vars

(* Timers fire, answers are computed and handled.  Nothing obliges the     *)
(* server to generate, the user to act or messages to arrive.              *)
Fairness ==
    /\ WF_vars(ServerAnswers)
    /\ WF_vars(\E a \in answers : Done(a))
    /\ WF_vars(GetDifferenceByPts) /\ WF_vars(GetDifferenceAfterFail)

FairSpec == Spec /\ Fairness

-----------------------------------------------------------------------------
(* Every variable has the type the code gives it.                          *)
TypeOK ==
    /\ WaiterTypeOK /\ Len(log) <= MaxEvents
    /\ pushes \in SUBSET Events /\ results \in SUBSET Events
    /\ hint \in BOOLEAN /\ spent \in BOOLEAN /\ active \in 0..MaxWindows
    /\ asked \in Seq(Nat) /\ answers \in SUBSET Answers
    /\ failTimer \in BOOLEAN
    /\ lost \in 0..MaxLost /\ fails \in 0..MaxFails
    /\ reads \in 0..MaxReads

(* While requesting drops the channel's updates, exactly one thing is due  *)
(* that ends it: a request out, its answer, or the retry timer.            *)
RequestingHasOneCause ==
    LET due == Len(asked) + Cardinality(answers)
               + (IF failTimer THEN 1 ELSE 0)
    IN  due = IF requesting THEN 1 ELSE 0

(* What holds of the channel's own state whatever the order of delivery:   *)
(* its types, no counted update passed and missing (NoSilentLoss), and one *)
(* cause for every time in which updates are dropped.                      *)
Consistent == TypeOK /\ NoSilentLoss /\ RequestingHasOneCause

(* A channel that any window shows is polled: unless a difference is on    *)
(* its way, the timer that asks for the next one is set, though windows    *)
(* hide and close and gaps end on the same timer.  Not after a poll that   *)
(* came before the pts was known: it asks nothing (api_updates.cpp:642),   *)
(* and nothing but a window or a difference starts the next one.           *)
ShownIsPolled == inActiveChats /\ ~requesting /\ ~spent => timer

(* A gap of the channel never waits for nothing (GapHasTimer): short polls  *)
(* start and stop on the same timer entry and must leave it set.  Not once *)
(* a dialog has brought a pts: ptsReceived counts nothing, and that cancels *)
(* the wait (data_channel.h:457).                                          *)
ChannelGapHasTimer == reads = 0 => GapHasTimer

(* A pts seen as skipped is eventually fetched, through failures, slices    *)
(* and polls, with the same exception.                                     *)
GapRepaired == []<>(last = good \/ reads > 0)

(* The channel's pts never passes an update missing from its data, and     *)
(* never moves back: the channel implements the abstract feed.             *)
Feed == INSTANCE ReliableFeed
ImplementsFeed == Feed!Spec

(* The inductive invariant of the channel: besides the waiter's own, the   *)
(* exchange is in exactly one of its four stages, is only entered with a   *)
(* pts, asks from _good, and answers with a state between two updates;     *)
(* what is on the way has not been counted.                                *)
Stage ==
    \/ ~requesting /\ asked = <<>> /\ answers = {} /\ ~failTimer
    \/ /\ requesting /\ inited
       /\ \/ asked = <<good>> /\ answers = {} /\ ~failTimer
          \/ /\ asked = <<>> /\ ~failTimer
             /\ \E a \in answers : answers = {a} /\ a.from = good
          \/ asked = <<>> /\ answers = {} /\ failTimer

AnswersSound ==
    \A a \in answers :
        /\ OnBoundary(a.pts) /\ a.from <= a.pts
        /\ a.kind = "empty" => a.from = a.pts

OnTheWay ==
    /\ pushes \cap results = {}
    /\ \A e \in pushes \cup results : Points(e) \cap counted = {}

IInv == TypeOK /\ WaiterInv /\ Stage /\ AnswersSound /\ OnTheWay

(* What makes the shared timer serve both: the poll of a shown channel has *)
(* its flag set with the timer, and a gap has its own.                     *)
PollWaits ==
    inActiveChats /\ ~requesting /\ ~spent => timer /\ waitingForShortPoll

ChannelGapWaits == (inited \/ last = 0) /\ (reads = 0 => GapWaits)
=============================================================================
