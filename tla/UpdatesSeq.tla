----------------------------- MODULE UpdatesSeq -----------------------------
(***************************************************************************)
(* Api::Updates (api/api_updates.cpp): the order of the containers         *)
(* `updates` and `updatesCombined`.  A container is named by its seq (a    *)
(* combined one, atomic on both sides, by its place); one that comes too   *)
(* early waits in _bySeqUpdates for the missing ones, or for the timer     *)
(* that asks for the difference instead.                                   *)
(*                                                                         *)
(* Time is discrete: a timer of kWaitForSkippedTimeout fires Wait ticks    *)
(* after callOnce.  have, fed and stale are history: the containers of     *)
(* this session whose effect is in the data, the order they were fed in,   *)
(* and whether containers of a session that is gone outlived it.           *)
(***************************************************************************)
EXTENDS Integers, Sequences, FiniteSets

CONSTANTS
    Wait,        \* ticks of kWaitForSkippedTimeout
    MaxSeq,      \* bound: containers numbered in one session
    MaxResults,  \* bound: containers that come inside a result
    MaxFails,    \* bound: differences answered with an error
    MaxSessions  \* bound: MTProto sessions the server replaces

ASSUME SeqAssumption ==
    /\ Wait \in Nat \ {0} /\ MaxSeq \in Nat
    /\ MaxResults \in Nat /\ MaxFails \in Nat /\ MaxSessions \in Nat

VARIABLES
    updatesSeq,    \* _updatesSeq
    bySeqUpdates,  \* the keys of _bySeqUpdates
    bySeqTimer,    \* ticks until _bySeqTimer fires, 0 when it is not active
    requesting,    \* _ptsWaiter.requesting()
    failTimer,     \* _getDifferenceTimeAfterFail is set
    asked,         \* the request not answered yet, "" if there is none
    answers,       \* its answer on the way, with the server's seq
    serverSeq,     \* the seq of the last container the server numbered
    pushes, results,  \* containers on the way to the client
    newSession,    \* new_session_created is on its way
    have, fed, age,   \* age: ticks the oldest waiting container has waited
    stale,            \* the buffer kept some when the session was lost
    inResults, fails, sessions

buffer == <<bySeqUpdates, bySeqTimer, age>>
exchange == <<requesting, failTimer, asked, answers>>
server == <<serverSeq, pushes, results, newSession>>
data == <<updatesSeq, have, fed>>
budget == <<stale, inResults, fails, sessions>>
vars == <<data, buffer, exchange, server, budget>>

Answers == [to : {"state", "difference"}, ok : BOOLEAN, seq : 0..MaxSeq]

Init ==
    /\ updatesSeq = 0 /\ have = {} /\ fed = <<>>
    /\ bySeqUpdates = {} /\ bySeqTimer = 0 /\ age = 0
    /\ requesting = TRUE /\ failTimer = FALSE
    /\ asked = "state" /\ answers = {}
    /\ serverSeq = 0 /\ pushes = {} /\ results = {} /\ newSession = FALSE
    /\ stale = FALSE /\ inResults = 0 /\ fails = 0 /\ sessions = 0

-----------------------------------------------------------------------------
(* The server and the connection.                                          *)

GeneratePush ==
    /\ serverSeq < MaxSeq
    /\ serverSeq' = serverSeq + 1
    /\ pushes' = pushes \cup {serverSeq'}
    /\ UNCHANGED <<data, buffer, exchange, results, newSession, budget>>

GenerateResult ==
    /\ serverSeq < MaxSeq /\ inResults < MaxResults
    /\ serverSeq' = serverSeq + 1 /\ inResults' = inResults + 1
    /\ results' = results \cup {serverSeq'}
    /\ UNCHANGED <<data, buffer, exchange, pushes, newSession, stale, fails, sessions>>

Answer(ok) ==
    /\ asked # "" /\ asked' = ""
    /\ answers' = {[to |-> asked, ok |-> ok, seq |-> serverSeq]}
    /\ UNCHANGED <<data, buffer, requesting, failTimer, server>>

ServerAnswers == Answer(TRUE) /\ UNCHANGED budget

ServerFails ==
    /\ asked = "difference" /\ fails < MaxFails
    /\ fails' = fails + 1
    /\ Answer(FALSE)
    /\ UNCHANGED <<stale, inResults, sessions>>

(* The numbering starts anew; what is on the way in the old session is     *)
(* gone, and a request without its answer is sent again.  What waits while *)
(* no difference is out goes with mtpNewSessionCreated(); the others stay. *)
LoseSession ==
    /\ sessions < MaxSessions /\ sessions' = sessions + 1
    /\ stale' = (requesting /\ bySeqUpdates # {})
    /\ serverSeq' = 0 /\ pushes' = {} /\ results' = {} /\ newSession' = TRUE
    /\ \/ answers = {} /\ UNCHANGED <<asked, answers>>
       \/ \E a \in answers : asked' = a.to /\ answers' = {}
    /\ have' = {} /\ fed' = <<>>
    /\ UNCHANGED <<updatesSeq, buffer, requesting, failTimer, inResults, fails>>

-----------------------------------------------------------------------------
(* Api::Updates.                                                           *)

(* _bySeqUpdates and the state its timer is left in.                       *)
Keep(waiting, ticks) ==
    /\ bySeqUpdates' = waiting /\ bySeqTimer' = ticks
    /\ age' = IF waiting = {} THEN 0 ELSE age

(* getDifference() with no difference requested; nothing but its timers    *)
(* happens when one is.                                                    *)
RequestDifference ==
    /\ ~requesting
    /\ requesting' = TRUE /\ asked' = "difference" /\ failTimer' = FALSE
    /\ Keep({}, 0)
    /\ UNCHANGED answers

GetDifference ==
    \/ RequestDifference
    \/ requesting /\ UNCHANGED <<exchange, buffer>>

(* The containers setState(seq) takes from the front of the buffer, one    *)
(* recursion of applyUpdates() after another, up to the first missing.     *)
Following(seq) ==
    {s \in bySeqUpdates : seq < s /\ seq + 1 .. s \subseteq bySeqUpdates}

(* Mutant of Feed: the buffer is taken from its back.                      *)
FeedBackwards(first, last) ==
    fed' = fed \o [i \in 1..(last - first + 1) |-> last - i + 1]

(* One container after another, from first to last; none when last is the  *)
(* one before first.                                                       *)
Feed(first, last) ==
    fed' = fed \o [i \in 1..(last - first + 1) |-> first + i - 1]

(* Mutant of SetSeq: the wait is not started again for what is left.       *)
SetSeqNoWait(seq, before) ==
    LET through == seq + Cardinality(Following(seq))
    IN  /\ updatesSeq' = through
        /\ have' = have \cup before \cup Following(seq)
        /\ Keep({s \in bySeqUpdates : s > through}, 0)

(* Mutant of SetSeq: the timer is left running.                            *)
SetSeqNoCancel(seq, before) ==
    LET through == seq + Cardinality(Following(seq))
    IN  /\ updatesSeq' = through
        /\ have' = have \cup before \cup Following(seq)
        /\ Keep({s \in bySeqUpdates : s > through}, bySeqTimer)

(* setState(seq) for a seq other than _updatesSeq, and the containers that *)
(* follow it; before is what has just been applied.                        *)
SetSeq(seq, before) ==
    LET through == seq + Cardinality(Following(seq))
        rest == {s \in bySeqUpdates : s > through}
    IN  /\ updatesSeq' = through
        /\ have' = have \cup before \cup Following(seq)
        /\ Keep(rest, IF rest = {} THEN 0 ELSE Wait)

DropKnown(s) ==
    /\ s <= updatesSeq
    /\ UNCHANGED <<data, buffer, exchange>>

BufferEarly(s) ==
    /\ s > updatesSeq + 1
    /\ Keep(bySeqUpdates \cup {s}, Wait)
    /\ UNCHANGED <<data, exchange>>

(* Mutant of FeedNext: any container newer than _updatesSeq is the next.   *)
FeedAnyNewer(s) ==
    /\ s > updatesSeq
    /\ SetSeq(s, {s}) /\ Feed(s, updatesSeq')
    /\ UNCHANGED exchange

FeedNext(s) ==
    /\ s = updatesSeq + 1
    /\ SetSeq(s, {s}) /\ Feed(s, updatesSeq')
    /\ UNCHANGED exchange

(* Feeding a container may ask for the difference (a message of an unknown *)
(* peer), which empties the buffer behind it.                              *)
FeedNextAndAsk(s) ==
    /\ s = updatesSeq + 1
    /\ \E last \in {s} \cup Following(s) :
         /\ updatesSeq' = last
         /\ Feed(s, last) /\ have' = have \cup s..last
    /\ RequestDifference

ApplyUpdates(s) ==
    DropKnown(s) \/ BufferEarly(s) \/ FeedNext(s) \/ FeedNextAndAsk(s)

(* mtpUpdateReceived; the server tells of a new session before it pushes   *)
(* into it.                                                                *)
ReceivePush(s) ==
    /\ ~newSession
    /\ pushes' = pushes \ {s}
    /\ \/ requesting /\ UNCHANGED <<data, buffer, exchange>>
       \/ ~requesting /\ ApplyUpdates(s)
    /\ UNCHANGED <<serverSeq, results, newSession, budget>>

(* ApiWrap::applyUpdates: a result is handled while requesting too.        *)
ReceiveResult(s) ==
    /\ ~newSession
    /\ results' = results \ {s}
    /\ ApplyUpdates(s)
    /\ UNCHANGED <<serverSeq, pushes, newSession, budget>>

MtpNewSessionCreated ==
    /\ newSession /\ newSession' = FALSE
    /\ updatesSeq' = 0
    /\ GetDifference
    /\ UNCHANGED <<have, fed, serverSeq, pushes, results, budget>>

(* stateDone, differenceDone of the last answer: setState(seq), which is   *)
(* without effect for seq 0 and for the seq it is at, then                 *)
(* setRequesting(false).                                                   *)
DifferenceDone(a) ==
    /\ a.ok
    /\ answers' = {} /\ requesting' = FALSE
    /\ \/ /\ a.seq \in {0, updatesSeq}
          /\ have' = have \cup 1..a.seq
          /\ UNCHANGED <<updatesSeq, fed, buffer>>
       \/ /\ a.seq \notin {0, updatesSeq}
          /\ SetSeq(a.seq, 1..a.seq) /\ Feed(a.seq + 1, updatesSeq')
    /\ UNCHANGED <<asked, failTimer, server, budget>>

(* differenceDone of a slice: the next is asked for, with an empty buffer. *)
DifferenceSlice(a) ==
    LET through == a.seq + Cardinality(Following(a.seq))
    IN  /\ a.ok /\ a.to = "difference"
        /\ answers' = {} /\ asked' = "difference" /\ failTimer' = FALSE
        /\ \/ /\ a.seq \in {0, updatesSeq}
              /\ have' = have \cup 1..a.seq
              /\ UNCHANGED <<updatesSeq, fed>>
           \/ /\ a.seq \notin {0, updatesSeq}
              /\ updatesSeq' = through /\ have' = have \cup 1..through
              /\ Feed(a.seq + 1, through)
        /\ Keep({}, 0)
        /\ UNCHANGED <<requesting, server, budget>>

(* Mutant of DifferenceFail: no retry is scheduled.                        *)
DifferenceFailGivesUp(a) ==
    /\ ~a.ok
    /\ answers' = {}
    /\ UNCHANGED <<data, buffer, requesting, failTimer, asked, server, budget>>

DifferenceFail(a) ==
    /\ ~a.ok
    /\ answers' = {} /\ failTimer' = TRUE
    /\ UNCHANGED <<data, buffer, requesting, asked, server, budget>>

GetDifferenceAfterFail ==
    /\ failTimer /\ failTimer' = FALSE
    /\ requesting' = TRUE /\ asked' = "difference"
    /\ Keep({}, 0)
    /\ UNCHANGED <<data, answers, server, budget>>

Tick ==
    /\ bySeqTimer > 1
    /\ bySeqTimer' = bySeqTimer - 1
    /\ age' = IF bySeqUpdates = {} THEN 0 ELSE age + 1
    /\ UNCHANGED <<data, bySeqUpdates, exchange, server, budget>>

BySeqTimerFires ==
    /\ bySeqTimer = 1
    /\ \/ RequestDifference
       \/ /\ requesting
          /\ bySeqTimer' = 0
          /\ UNCHANGED <<bySeqUpdates, age, exchange>>
    /\ UNCHANGED <<data, server, budget>>

-----------------------------------------------------------------------------
Server ==
    GeneratePush \/ GenerateResult \/ ServerAnswers \/ ServerFails
        \/ LoseSession

Done(a) == DifferenceDone(a) \/ DifferenceSlice(a) \/ DifferenceFail(a)

Next ==
    \/ Server
    \/ \E s \in pushes : ReceivePush(s)
    \/ \E s \in results : ReceiveResult(s)
    \/ MtpNewSessionCreated
    \/ \E a \in answers : Done(a)
    \/ GetDifferenceAfterFail \/ Tick \/ BySeqTimerFires

Spec == Init /\ [][Next]_vars

(* Timers run and fire, requests are answered, answers are handled.        *)
Fairness ==
    /\ WF_vars(ServerAnswers)
    /\ WF_vars(\E a \in answers : Done(a))
    /\ WF_vars(MtpNewSessionCreated)
    /\ WF_vars(GetDifferenceAfterFail)
    /\ WF_vars(Tick) /\ WF_vars(BySeqTimerFires)

FairSpec == Spec /\ Fairness

-----------------------------------------------------------------------------
(* Every variable has the type the code gives it; the timer runs only for  *)
(* a container that waits.                                                 *)
TypeOK ==
    /\ updatesSeq \in 0..MaxSeq /\ serverSeq \in 0..MaxSeq
    /\ have \in SUBSET (1..MaxSeq) /\ fed \in Seq(1..MaxSeq)
    /\ bySeqUpdates \in SUBSET (1..MaxSeq) /\ bySeqTimer \in 0..Wait
    /\ age \in Nat /\ (bySeqUpdates = {} => bySeqTimer = 0)
    /\ requesting \in BOOLEAN /\ failTimer \in BOOLEAN
    /\ asked \in {"", "state", "difference"} /\ answers \in SUBSET Answers
    /\ pushes \in SUBSET (1..MaxSeq) /\ results \in SUBSET (1..MaxSeq)
    /\ newSession \in BOOLEAN /\ stale \in BOOLEAN
    /\ inResults \in 0..MaxResults /\ fails \in 0..MaxFails
    /\ sessions \in 0..MaxSessions

(* _updatesSeq never passes a container of this session that is not in the *)
(* data: fed in its turn, out of the buffer, or covered by a difference.   *)
(* Left out is a session that began while containers from results waited   *)
(* behind a difference: mtpNewSessionCreated() sets the seq back to 0 and  *)
(* leaves them in the buffer, where the seqs of the new session find them. *)
(* Here both have one name, so that nothing is claimed of that.            *)
NoContainerSkipped == ~newSession /\ ~stale => 1..updatesSeq \subseteq have

(* The containers of a session are fed in the order of their seq, each at  *)
(* most once, whatever order they came in and whoever emptied the buffer,  *)
(* with the same exception.                                                *)
InOrder == \A i, j \in DOMAIN fed : i < j => fed[i] < fed[j]

FedInOrder == ~stale => InOrder

(* While no difference is on its way, waiting containers have their timer. *)
(* One that came inside a result, while a difference was out, may have lost*)
(* its own: the timer had fired in vain, and the difference ended on the   *)
(* seq it had begun with.                                                  *)
BufferedHasTimer ==
    inResults = 0 /\ bySeqUpdates # {} /\ ~requesting => bySeqTimer > 0

(* The buffer is what its timer says: types, and the timer while it waits.  *)
Consistent == TypeOK /\ BufferedHasTimer

(* The inductive invariant of the order.  A container is in one place: on  *)
(* its way, in the buffer or fed.  _updatesSeq may be set back by an answer *)
(* computed before results that came meanwhile were fed, but then the next *)
(* container is one of those, and never comes again; what an answer on its *)
(* way may set it to is no other case.  After the session is lost nothing  *)
(* is fed until the client knows.                                          *)
Fed == {fed[i] : i \in DOMAIN fed}

OnePlace ==
    /\ (pushes \cup results) \cap (bySeqUpdates \cup Fed) = {}
    /\ bySeqUpdates \cap Fed = {}

OnTheWay ==
    /\ pushes \cap results = {}
    /\ pushes \cup results \subseteq 1..serverSeq
    /\ \A a \in answers : a.seq <= serverSeq

Numbered ==
    /\ bySeqUpdates \cup Fed \subseteq 1..serverSeq
    /\ updatesSeq <= serverSeq

PassedOrFed(seq) == (\A s \in Fed : s <= seq) \/ seq + 1 \in Fed

NothingBehind ==
    /\ PassedOrFed(updatesSeq)
    /\ \A a \in answers :
         PassedOrFed(a.seq) /\ (updatesSeq <= a.seq \/ a.seq + 1 \in Fed)

(* The buffer is empty while a difference is out, unless results came.     *)
BufferWaits ==
    inResults = 0 =>
        /\ results = {}
        /\ requesting => bySeqUpdates = {}
        /\ bySeqUpdates # {} => bySeqTimer > 0

SessionLost ==
    newSession /\ ~stale => fed = <<>> /\ (requesting => bySeqUpdates = {})

AnswersRequest ==
    /\ asked # "" => requesting /\ answers = {}
    /\ answers # {} => requesting
    /\ failTimer => asked = "" /\ answers = {}

OrderInv ==
    /\ FedInOrder /\ AnswersRequest /\ SessionLost /\ OnTheWay
    /\ ~newSession /\ ~stale => OnePlace /\ Numbered /\ NothingBehind

(* A container that came too early reaches the data in the end, fed or     *)
(* with a difference, unless the session it belongs to ends, or the case   *)
(* of BufferedHasTimer with a container inside a result comes up.          *)
BufferedArrives ==
    \A s \in 1..MaxSeq :
        (s \in bySeqUpdates) ~> (s \in have \/ newSession \/ inResults > 0)

(* A container waits no longer than kWaitForSkippedTimeout.                *)
WaitBounded == age < Wait
=============================================================================
