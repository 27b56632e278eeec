---------------------------- MODULE CommonUpdates ----------------------------
(***************************************************************************)
(* Api::Updates (api/api_updates.cpp) for the common box: pushed updates,  *)
(* updates that come as results of this client's own requests, and the     *)
(* updates.getDifference exchange that repairs gaps, with its retries.     *)
(*                                                                         *)
(* The updates on the way to the client are sets: nothing but PushesWait   *)
(* constrains the order they are handled in.                               *)
(***************************************************************************)
EXTENDS PtsWaiter

CONSTANTS
    MaxLost,     \* bound: updates the server never pushes
    MaxFails,    \* bound: getDifference requests answered with an error
    MaxSessions, \* bound: MTProto sessions the server replaces
    MaxStrays,   \* bound: getDifference calls with no gap behind them
    PushesWait   \* an update generated after an answer arrives after it

ASSUME BoundsAssumption ==
    /\ MaxLost \in Nat /\ MaxFails \in Nat
    /\ MaxSessions \in Nat /\ MaxStrays \in Nat
    /\ PushesWait \in BOOLEAN

VARIABLES
    pushes,     \* updates pushed and not yet handled
    results,    \* updates inside results of own requests, not yet handled
    asked,      \* pts of the unanswered difference requests; 0 is getState
    answers,    \* answers on their way to the client
    failTimer,  \* _getDifferenceTimeAfterFail is set
    newSession, \* new_session_created is on its way to the client
    lost, fails, sessions, strays   \* how much of each bound is used

network == <<log, pushes, results>>
request == <<asked, answers, failTimer>>
budget == <<lost, fails, sessions, strays>>
vars == <<waiterVars, network, request, newSession, budget>>

(* Answers: at is how much of the log existed when it was computed.        *)
Answers ==
    [kind : {"state", "empty", "slice", "difference", "fail"},
     from : Nat, pts : Nat, at : Nat]

Init ==
    /\ WaiterInit /\ requesting = TRUE
    /\ log = <<>> /\ pushes = {} /\ results = {}
    /\ asked = <<0>> /\ answers = {} /\ failTimer = FALSE
    /\ newSession = FALSE
    /\ lost = 0 /\ fails = 0 /\ sessions = 0 /\ strays = 0

-----------------------------------------------------------------------------
(* The server and the connection.                                          *)

GeneratePush(c) ==
    /\ Generate(c)
    /\ pushes' = pushes \cup {Len(log')}
    /\ UNCHANGED <<waiterVars, results, request, newSession, budget>>

GenerateResult(c) ==
    /\ Generate(c)
    /\ results' = results \cup {Len(log')}
    /\ UNCHANGED <<waiterVars, pushes, request, newSession, budget>>

GenerateLost(c) ==
    /\ lost < MaxLost
    /\ Generate(c)
    /\ lost' = lost + 1
    /\ UNCHANGED <<waiterVars, pushes, results, request, newSession,
                   fails, sessions, strays>>

Answer(a) ==
    /\ asked # <<>>
    /\ asked' = Tail(asked)
    /\ answers' = answers \cup
           {[kind |-> a.kind, from |-> Head(asked), pts |-> a.pts,
             at |-> Len(log)]}
    /\ UNCHANGED <<waiterVars, network, failTimer, newSession>>

ServerAnswersState ==
    /\ asked # <<>> /\ Head(asked) = 0
    /\ Answer([kind |-> "state", pts |-> ServerPts])
    /\ UNCHANGED budget

ServerAnswersEmpty ==
    /\ asked # <<>> /\ Head(asked) = ServerPts
    /\ Answer([kind |-> "empty", pts |-> ServerPts])
    /\ UNCHANGED budget

ServerAnswersDifference ==
    /\ asked # <<>> /\ Head(asked) # 0 /\ Head(asked) < ServerPts
    /\ Answer([kind |-> "difference", pts |-> ServerPts])
    /\ UNCHANGED budget

ServerAnswersSlice ==
    /\ asked # <<>> /\ Head(asked) # 0
    /\ \E e \in Events :
         /\ Head(asked) < Pts(e) /\ Pts(e) < ServerPts
         /\ Answer([kind |-> "slice", pts |-> Pts(e)])
    /\ UNCHANGED budget

ServerFails ==
    /\ fails < MaxFails
    /\ asked # <<>> /\ Head(asked) # 0
    /\ Answer([kind |-> "fail", pts |-> Head(asked)])
    /\ fails' = fails + 1
    /\ UNCHANGED <<lost, sessions, strays>>

(* The server starts a new session: what it pushed into the old one is     *)
(* gone, and requests not answered yet are sent again in the new one.      *)
LoseSession ==
    /\ sessions < MaxSessions
    /\ sessions' = sessions + 1
    /\ pushes' = {}
    /\ newSession' = TRUE
    /\ \/ /\ PushesWait => answers = {}
          /\ UNCHANGED <<asked, answers>>
       \/ \E a \in answers :
            /\ answers' = answers \ {a}
            /\ asked' = Append(asked, a.from)
    /\ UNCHANGED <<waiterVars, log, results, failTimer, lost, fails, strays>>

-----------------------------------------------------------------------------
(* Api::Updates.                                                           *)

(* Mutant of GetDifference: a request out does not stop another one.       *)
GetDifferenceAlways ==
    /\ timer' = FALSE /\ failTimer' = FALSE
    /\ requesting' = TRUE /\ queue' = {}
    /\ asked' = Append(asked, good)
    /\ UNCHANGED <<numbers, waitingForSkipped, waitingForShortPoll, applied,
                   answers>>

(* Mutant of GetDifference: asks from the newest pts seen.                 *)
GetDifferenceFromLast ==
    /\ timer' = FALSE
    /\ IF requesting
       THEN UNCHANGED <<requesting, queue, asked, failTimer>>
       ELSE /\ failTimer' = FALSE
            /\ requesting' = TRUE /\ queue' = {}
            /\ asked' = Append(asked, last)
    /\ UNCHANGED <<numbers, waitingForSkipped, waitingForShortPoll, applied,
                   answers>>

GetDifference ==
    /\ timer' = FALSE
    /\ IF requesting
       THEN UNCHANGED <<requesting, queue, asked, failTimer>>
       ELSE /\ failTimer' = FALSE
            /\ requesting' = TRUE /\ queue' = {}
            /\ asked' = Append(asked, good)
    /\ UNCHANGED <<numbers, waitingForSkipped, waitingForShortPoll, applied,
                   answers>>

Arrives(e) == PushesWait => \A a \in answers : e <= a.at

ReceivePush(e) ==
    /\ Arrives(e)
    /\ pushes' = pushes \ {e}
    /\ IF requesting
       THEN UNCHANGED waiterVars
       ELSE UpdateAndApply(e)
    /\ UNCHANGED <<log, results, request, newSession, budget>>

(* A pushed message whose sender is not loaded: the update is given up and *)
(* the difference, which carries the peers, is requested.                  *)
ReceivePushFromUnknownPeer(e) ==
    /\ Arrives(e)
    /\ ~requesting
    /\ pushes' = pushes \ {e}
    /\ GetDifference
    /\ UNCHANGED <<log, results, newSession, budget>>

ReceiveResult(e) ==
    /\ results' = results \ {e}
    /\ UpdateAndApply(e)
    /\ UNCHANGED <<log, pushes, request, newSession, budget>>

(* messages.affectedMessages, affectedHistory: the request's own effect is *)
(* in the data already, only the counters come.                            *)
ReceiveAffected(e) ==
    /\ results' = results \ {e}
    /\ UpdateAndApplyDone(Pts(e), Count(e), Points(e), {e})
    /\ UNCHANGED <<log, pushes, request, newSession, budget>>

GetDifferenceByPts ==
    /\ timer
    /\ GetDifference
    /\ UNCHANGED <<network, newSession, budget>>

(* Callers with no gap in this box: the seq timer, a message of an unknown *)
(* channel, updatesTooLong, the reset of the main session.                 *)
GetDifferenceStray ==
    /\ strays < MaxStrays
    /\ strays' = strays + 1
    /\ GetDifference
    /\ UNCHANGED <<network, newSession, lost, fails, sessions>>

(* Mutant of MtpNewSessionCreated: the new session is taken for the old.   *)
MtpNewSessionIgnored ==
    /\ newSession
    /\ newSession' = FALSE
    /\ UNCHANGED <<waiterVars, network, request, budget>>

MtpNewSessionCreated ==
    /\ newSession
    /\ newSession' = FALSE
    /\ GetDifference
    /\ UNCHANGED <<network, budget>>

StateDone(a) ==
    /\ a \in answers /\ a.kind = "state"
    /\ answers' = answers \ {a}
    /\ ResetTo(a.pts)
    /\ queue' = {} /\ requesting' = FALSE
    /\ applied' = applied \cup UpTo(a.pts)
    /\ UNCHANGED <<waitingForSkipped, waitingForShortPoll, timer, network,
                   asked, failTimer, newSession, budget>>

DifferenceDone(a) ==
    /\ a \in answers /\ a.kind \in {"empty", "difference"}
    /\ answers' = answers \ {a}
    /\ ResetTo(IF a.kind = "empty" THEN good ELSE a.pts)
    /\ queue' = {} /\ requesting' = FALSE
    /\ applied' = applied \cup Between(a.from, a.pts)
    /\ UNCHANGED <<waitingForSkipped, waitingForShortPoll, timer, network,
                   asked, failTimer, newSession, budget>>

(* A slice is applied and the rest is requested in the same handler.       *)
DifferenceSliceDone(a) ==
    /\ a \in answers /\ a.kind = "slice"
    /\ answers' = answers \ {a}
    /\ ResetTo(a.pts)
    /\ queue' = {} /\ requesting' = TRUE
    /\ applied' = applied \cup Between(a.from, a.pts)
    /\ asked' = Append(asked, a.pts)
    /\ timer' = FALSE /\ failTimer' = FALSE
    /\ UNCHANGED <<waitingForSkipped, waitingForShortPoll, network,
                   newSession, budget>>

(* Mutant of DifferenceFail: no retry is scheduled.                        *)
DifferenceFailGivesUp(a) ==
    /\ a \in answers /\ a.kind = "fail"
    /\ answers' = answers \ {a}
    /\ UNCHANGED <<waiterVars, network, asked, failTimer, newSession, budget>>

DifferenceFail(a) ==
    /\ a \in answers /\ a.kind = "fail"
    /\ answers' = answers \ {a}
    /\ failTimer' = TRUE
    /\ UNCHANGED <<waiterVars, network, asked, newSession, budget>>

GetDifferenceAfterFail ==
    /\ failTimer
    /\ failTimer' = FALSE /\ timer' = FALSE
    /\ requesting' = TRUE /\ queue' = {}
    /\ asked' = Append(asked, good)
    /\ UNCHANGED <<numbers, waitingForSkipped, waitingForShortPoll, applied,
                   network, answers, newSession, budget>>

-----------------------------------------------------------------------------
Server ==
    \/ \E c \in Counts :
         GeneratePush(c) \/ GenerateResult(c) \/ GenerateLost(c)
    \/ ServerAnswersState \/ ServerAnswersEmpty \/ ServerAnswersDifference
    \/ ServerAnswersSlice \/ ServerFails \/ LoseSession

Receive ==
    \/ \E e \in pushes : ReceivePush(e) \/ ReceivePushFromUnknownPeer(e)
    \/ \E e \in results : ReceiveResult(e) \/ ReceiveAffected(e)
    \/ MtpNewSessionCreated

Timers ==
    GetDifferenceByPts \/ GetDifferenceAfterFail \/ GetDifferenceStray

Done(a) ==
    StateDone(a) \/ DifferenceDone(a) \/ DifferenceSliceDone(a)
        \/ DifferenceFail(a)

Next == Server \/ Receive \/ Timers \/ \E a \in answers : Done(a)

Spec == Init /\ [][Next]_vars

(* Timers fire, answers are computed and handled, messages on the way are  *)
(* delivered; the server need not generate anything, nor fail.             *)
ServerAnswers ==
    ServerAnswersState \/ ServerAnswersEmpty \/ ServerAnswersDifference
        \/ ServerAnswersSlice

Fairness ==
    /\ WF_vars(ServerAnswers)
    /\ WF_vars(\E a \in answers : Done(a))
    /\ WF_vars(Receive)
    /\ WF_vars(GetDifferenceByPts) /\ WF_vars(GetDifferenceAfterFail)

FairSpec == Spec /\ Fairness

-----------------------------------------------------------------------------
(* Every variable has the type the code gives it.                          *)
TypeOK ==
    /\ WaiterTypeOK /\ Len(log) <= MaxEvents
    /\ pushes \in SUBSET Events /\ results \in SUBSET Events
    /\ asked \in Seq(Nat) /\ answers \in SUBSET Answers
    /\ failTimer \in BOOLEAN /\ newSession \in BOOLEAN
    /\ lost \in 0..MaxLost /\ fails \in 0..MaxFails
    /\ sessions \in 0..MaxSessions /\ strays \in 0..MaxStrays

(* While _requesting drops every pushed update, exactly one thing is due   *)
(* that ends it: a request out, its answer, or the retry timer.            *)
RequestingHasOneCause ==
    LET due == Len(asked) + Cardinality(answers)
               + (IF failTimer THEN 1 ELSE 0)
    IN  due = IF requesting THEN 1 ELSE 0

(* The box implements the abstract feed: _good never moves back and only  *)
(* passes updates already in the data, whatever path brought them.         *)
Feed == INSTANCE ReliableFeed
ImplementsFeed == Feed!Spec

(* The inductive invariant of the box: besides the waiter's own, the       *)
(* difference exchange is in exactly one of its four stages, asks from     *)
(* _good, and answers with a state between two updates; what is on the way *)
(* has not been counted.                                                   *)
Stage ==
    \/ ~requesting /\ asked = <<>> /\ answers = {} /\ ~failTimer
    \/ requesting /\ asked = <<good>> /\ answers = {} /\ ~failTimer
    \/ /\ requesting /\ asked = <<>> /\ ~failTimer
       /\ \E a \in answers : answers = {a} /\ a.from = good
    \/ requesting /\ asked = <<>> /\ answers = {} /\ failTimer

AnswersSound ==
    \A a \in answers :
        /\ OnBoundary(a.pts) /\ a.from <= a.pts
        /\ a.kind = "empty" => a.from = a.pts

OnTheWay ==
    /\ pushes \cap results = {}
    /\ \A e \in pushes \cup results : Points(e) \cap counted = {}

IInv == TypeOK /\ WaiterInv /\ Stage /\ AnswersSound /\ OnTheWay

(* A pts seen as skipped is eventually fetched.                            *)
GapRepaired ==
    \A p \in 1..(FirstPts + 2 * MaxEvents) : (last >= p) ~> (good >= p)

(* Every update that counts eventually reaches the data.                   *)
EveryUpdateArrives ==
    \A e \in 1..MaxEvents :
        (e \in Events /\ Count(e) > 0) ~> (e \in applied)
=============================================================================
