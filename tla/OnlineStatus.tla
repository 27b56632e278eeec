---------------------------- MODULE OnlineStatus ----------------------------
(***************************************************************************)
(* The online status of one session: Api::Updates::updateOnline and        *)
(* checkIdleFinish (api/api_updates.cpp), the fork's ghost settings in     *)
(* them, and its AyuWorker (ayu/ayu_worker.cpp), which tells offline after *)
(* whatever may have made the server show the user.                        *)
(*                                                                         *)
(* Time is discrete.  A timer counts the ticks until it fires and is Off   *)
(* when it is not active; a moment in the past is the ticks since then, up *)
(* to the longest that the code tells apart.                               *)
(***************************************************************************)
EXTENDS Integers, Sequences, SequencesExt, FiniteSetsExt

CONSTANTS
    Period,    \* onlineUpdatePeriod
    IdleTime,  \* offlineIdleTimeout
    Recheck,   \* the 900 ms of _idleFinishTimer
    Worker,    \* the 3 s of workerTimer()
    MaxWire,   \* bound: requests on their way when another tick begins
    MaxCalls   \* bound: what the user does, input not counted

ASSUME TimesAssumption ==
    /\ Period \in Nat \ {0} /\ IdleTime \in Nat \ {0}
    /\ Recheck \in Nat \ {0} /\ Worker \in Nat \ {0}
    /\ MaxWire \in Nat /\ MaxCalls \in Nat

Off == -1
Packets == {"online", "offline", "bye", "hide", "act"}
    \* bye: the offline sent when quitting; hide: the worker's offline;
    \* act: a message, a read, a bot's start

VARIABLES
    active,       \* hasActiveWindow()
    idleFor,      \* since lastNonIdleTime()
    sendOnline, sendOffline,  \* sendOnlinePackets, sendOfflinePacketAfterOnline
    quit,         \* "no", "waiting" for quitPreventFinished, "gone", or
                  \* "saved": gone while the system saves its session
    isIdle,       \* _isIdle
    idleTimer,    \* _idleFinishTimer
    timer,        \* _onlineTimer
    wasOnline,    \* _lastWasOnline
    since,        \* since _lastSetOnline
    told,         \* history: the last status that updateOnline() told
    lastseen,     \* ticks that the user's own lastseen is online for
    marked,       \* the worker's state of the account
    workerTimer,  \* workerTimer()
    wire,         \* requests on their way
    acked, pushed,  \* answers to acts and updateUserStatus on their way
    shown,        \* the server shows the user online
    calls

user == <<active, sendOnline, sendOffline, quit>>
status == <<isIdle, idleTimer, timer, wasOnline, since, told>>
worker == <<marked, workerTimer>>
server == <<acked, pushed, shown>>
vars == <<user, idleFor, status, lastseen, worker, wire, server, calls>>

Init ==
    /\ active \in BOOLEAN /\ idleFor = 0
    /\ sendOnline \in BOOLEAN /\ sendOffline \in BOOLEAN /\ quit = "no"
    /\ isIdle = FALSE /\ idleTimer = Off /\ timer = Off
    /\ wasOnline = FALSE /\ since = Period /\ told = FALSE /\ lastseen = 0
    /\ marked = TRUE /\ workerTimer = Worker
    /\ wire = <<>> /\ acked = 0 /\ pushed = {} /\ shown = FALSE
    /\ calls = 0

-----------------------------------------------------------------------------
(* Api::Updates.                                                           *)

(* cancel() of the last status request: in time, or the server has it.     *)
Cancelled(w) ==
    LET own == {i \in DOMAIN w : w[i] \in {"online", "offline"}}
        newest == {i \in own : \A j \in own : j <= i}
    IN {w} \cup {RemoveAt(w, i) : i \in newest}

(* Mutant of Tells: only a change is told.                                 *)
TellsChange(online, other) == online # wasOnline

Tells(online, other) ==
    \/ online # wasOnline
    \/ online /\ (since >= Period \/ other)

(* Mutant of NextLook: the end of the period does not count.               *)
NextLookLate(online, idle, tells) ==
    Min({Period} \cup (IF online THEN {IdleTime - idle} ELSE {}))

NextLook(online, idle, tells) ==
    Min({Period}
        \cup (IF online THEN {IdleTime - idle} ELSE {})
        \cup (IF online /\ ~tells THEN {Period - since} ELSE {}))

(* updateOnline(): idle is since the time it was given, other says that    *)
(* another device went offline, back that checkIdleFinish() goes on to end *)
(* the idleness.  The status told is isOnline, the one kept isOnlineOrig.  *)
UpdateOnline(window, idle, other, back) ==
    LET orig == window /\ quit' = "no"
        idles == orig /\ sendOnline /\ idle >= IdleTime
        online == orig /\ sendOnline /\ ~idles
        tells == Tells(online, other)
        packet == IF online THEN "online"
                  ELSE IF quit' = "no" THEN "offline" ELSE "bye"
    IN /\ IF tells
          THEN /\ wasOnline' = orig /\ since' = 0 /\ told' = online
               /\ lastseen' = IF online THEN Period ELSE 0
               /\ \E w \in Cancelled(wire) : wire' = Append(w, packet)
          ELSE /\ lastseen' = IF other THEN 0 ELSE lastseen
               /\ UNCHANGED <<wasOnline, since, told, wire>>
       /\ timer' = NextLook(online, idle, tells)
       /\ isIdle' = (~back /\ (isIdle \/ idles))
       /\ idleTimer' = IF back THEN Off
                       ELSE IF idles /\ ~isIdle THEN Recheck ELSE idleTimer

Call == calls < MaxCalls /\ calls' = calls + 1 /\ Len(wire) + 1 < MaxWire

Stay == UNCHANGED <<status, lastseen, wire>>

(* Mutant of CheckIdleFinish: an idleness that lasts is not looked at again.*)
CheckIdleFinishOnce(idle) ==
    IF idle < IdleTime THEN UpdateOnline(active, idle, FALSE, TRUE)
    ELSE /\ idleTimer' = Off
         /\ UNCHANGED <<isIdle, timer, wasOnline, since, told, lastseen, wire>>

CheckIdleFinish(idle) ==
    IF idle < IdleTime THEN UpdateOnline(active, idle, FALSE, TRUE)
    ELSE /\ idleTimer' = Recheck
         /\ UNCHANGED <<isIdle, timer, wasOnline, since, told, lastseen, wire>>

(* Mutant of OnlineTimer: the time now is given for the last input.        *)
OnlineTimerNow ==
    /\ timer = 0
    /\ UNCHANGED <<user, idleFor, worker, server, calls>>
    /\ UpdateOnline(active, 0, FALSE, FALSE)

OnlineTimer ==
    /\ timer = 0
    /\ UNCHANGED <<user, idleFor, worker, server, calls>>
    /\ UpdateOnline(active, idleFor, FALSE, FALSE)

IdleFinishTimer ==
    /\ idleTimer = 0
    /\ UNCHANGED <<user, idleFor, worker, server, calls>>
    /\ CheckIdleFinish(idleFor)

(* stateDone(), the first time when the session starts, and the switch to  *)
(* this session, which gives the time now.                                 *)
StateDone ==
    /\ IF timer = Off THEN UNCHANGED calls ELSE Call
    /\ UNCHANGED <<user, idleFor, worker, server>>
    /\ \E idle \in {idleFor, 0} : UpdateOnline(active, idle, FALSE, FALSE)

(* A window says when it gets or loses the focus; the panel of a call and  *)
(* an instant view, which hasActiveWindow() counts too, do not.            *)
ActiveChanged(says) ==
    /\ Call
    /\ active' = ~active
    /\ UNCHANGED <<sendOnline, sendOffline, quit, idleFor, worker, server>>
    /\ IF says THEN UpdateOnline(active', idleFor, FALSE, FALSE) ELSE Stay

(* Input to the program is told to it (updateNonIdle); input elsewhere is  *)
(* seen when the last input time of the system is read.                    *)
Input(here) ==
    /\ idleFor' = 0 /\ Len(wire) + 1 < MaxWire
    /\ UNCHANGED <<user, worker, server, calls>>
    /\ IF here THEN CheckIdleFinish(0) ELSE Stay

(* Mutant of Quit: the session that is online does not wait.               *)
QuitAtOnce ==
    /\ Call
    /\ quit = "no" /\ quit' = "gone"
    /\ UNCHANGED <<active, sendOnline, sendOffline, idleFor, worker, server>>
    /\ Stay

(* isQuitPrevent(): true, and then the answer is waited for, if the session*)
(* was online.                                                             *)
Quit ==
    /\ Call
    /\ quit = "no"
    /\ quit' = IF wasOnline THEN "waiting" ELSE "gone"
    /\ UNCHANGED <<active, sendOnline, sendOffline, idleFor, worker, server>>
    /\ IF wasOnline THEN UpdateOnline(active, 0, FALSE, FALSE) ELSE Stay

(* QuitAttempt() asks nobody while the system saves its session, which is  *)
(* when it ends.                                                           *)
QuitSavingSession ==
    /\ Call
    /\ quit = "no" /\ quit' = "saved"
    /\ UNCHANGED <<active, sendOnline, sendOffline, idleFor, worker, server>>
    /\ Stay

QuitTimer ==
    /\ quit = "waiting" /\ quit' = "gone"
    /\ UNCHANGED <<active, sendOnline, sendOffline, idleFor, worker, server, calls>>
    /\ Stay

SetSendOnlinePackets ==
    /\ Call
    /\ sendOnline' = ~sendOnline
    /\ UNCHANGED <<active, sendOffline, quit, idleFor, worker, server>>
    /\ Stay

SetSendOfflinePacketAfterOnline ==
    /\ Call
    /\ sendOffline' = ~sendOffline
    /\ UNCHANGED <<active, sendOnline, quit, idleFor, worker, server>>
    /\ Stay

-----------------------------------------------------------------------------
(* AyuWorker.                                                              *)

(* markAsOnline() starts the timer again.                                  *)
MarkAsOnline == marked' = TRUE /\ workerTimer' = Worker

(* The ghost mode sets both, and marks the session of the active window,   *)
(* which may be another one.                                               *)
SetGhostModeEnabled(ghost) ==
    /\ Call
    /\ sendOnline' = ~ghost /\ sendOffline' = ghost
    /\ MarkAsOnline \/ UNCHANGED worker
    /\ UNCHANGED <<active, quit, idleFor, server>>
    /\ Stay

RunOnce ==
    LET hides == quit = "no" /\ sendOffline /\ (marked \/ lastseen > 0)
    IN /\ workerTimer = 0 /\ workerTimer' = Worker
       /\ marked' = (marked /\ ~hides)
       /\ wire' = IF hides THEN Append(wire, "hide") ELSE wire
       /\ UNCHANGED <<user, idleFor, status, lastseen, server, calls>>

(* A request that shows the user, and its answer.                          *)
Act ==
    /\ Call
    /\ wire' = Append(wire, "act")
    /\ UNCHANGED <<user, idleFor, status, lastseen, worker, server>>

(* Mutant of AnswerAct: the worker is not told.                            *)
AnswerActOnly ==
    /\ acked > 0 /\ acked' = acked - 1
    /\ UNCHANGED <<user, idleFor, status, lastseen, worker, wire, pushed, shown,
                   calls>>

AnswerAct ==
    /\ acked > 0 /\ acked' = acked - 1
    /\ MarkAsOnline
    /\ UNCHANGED <<user, idleFor, status, lastseen, wire, pushed, shown,
                   calls>>

-----------------------------------------------------------------------------
(* updateUserStatus of the user's own account.                             *)

OtherOnline ==
    /\ "online" \in pushed /\ pushed' = pushed \ {"online"}
    /\ lastseen' = Period
    /\ MarkAsOnline
    /\ UNCHANGED <<user, idleFor, status, wire, acked, shown, calls>>

OtherOffline ==
    /\ "offline" \in pushed /\ pushed' = pushed \ {"offline"}
    /\ UNCHANGED <<user, idleFor, worker, acked, shown, calls>>
    /\ UpdateOnline(active, idleFor, TRUE, FALSE)

-----------------------------------------------------------------------------
(* The server, the user's other devices and time.                          *)

Deliver ==
    /\ wire # <<>> /\ wire' = Tail(wire)
    /\ shown' = (Head(wire) \in {"online", "act"})
    /\ acked' = IF Head(wire) = "act" THEN acked + 1 ELSE acked
    /\ quit' = IF Head(wire) = "bye" /\ quit # "no" THEN "gone" ELSE quit
    /\ UNCHANGED <<active, sendOnline, sendOffline, idleFor, status, lastseen,
                   worker, pushed, calls>>

OtherDevice ==
    /\ Call
    /\ shown' = ~shown
    /\ pushed' = pushed \cup {IF shown' THEN "online" ELSE "offline"}
    /\ UNCHANGED <<user, idleFor, status, lastseen, worker, wire, acked>>

Less(t) == IF t > 0 THEN t - 1 ELSE t

Tick ==
    /\ 0 \notin {timer, idleTimer, workerTimer} /\ Len(wire) < MaxWire
    /\ timer' = Less(timer) /\ idleTimer' = Less(idleTimer)
    /\ workerTimer' = Less(workerTimer) /\ lastseen' = Less(lastseen)
    /\ since' = Min({since + 1, Period}) /\ idleFor' = Min({idleFor + 1, IdleTime})
    /\ UNCHANGED <<user, isIdle, wasOnline, told, marked, wire, server, calls>>

-----------------------------------------------------------------------------

Timers == OnlineTimer \/ IdleFinishTimer \/ RunOnce
User ==
    \/ \E b \in BOOLEAN : ActiveChanged(b) \/ Input(b) \/ SetGhostModeEnabled(b)
    \/ SetSendOnlinePackets \/ SetSendOfflinePacketAfterOnline
    \/ Act \/ Quit \/ QuitSavingSession

Runs == quit \in {"no", "waiting"}

Next ==
    /\ Runs
    /\ \/ User \/ StateDone \/ Timers \/ QuitTimer
       \/ AnswerAct \/ OtherOnline \/ OtherOffline
       \/ Deliver \/ OtherDevice \/ Tick

Spec == Init /\ [][Next]_vars

(* Time passes, timers fire, requests are answered and updates handled.    *)
Fairness ==
    /\ WF_vars(Runs /\ Tick) /\ WF_vars(Runs /\ OnlineTimer)
    /\ WF_vars(Runs /\ IdleFinishTimer) /\ WF_vars(Runs /\ RunOnce)
    /\ WF_vars(Runs /\ Deliver) /\ WF_vars(Runs /\ AnswerAct)
    /\ WF_vars(Runs /\ timer = Off /\ StateDone)
    /\ WF_vars(Runs /\ OtherOffline) /\ WF_vars(Runs /\ OtherOnline)

FairSpec == Spec /\ Fairness

-----------------------------------------------------------------------------
(* Every variable has the type the code gives it; no timer is set for      *)
(* longer than its period.                                                 *)
TypeOK ==
    /\ active \in BOOLEAN /\ sendOnline \in BOOLEAN /\ sendOffline \in BOOLEAN
    /\ quit \in {"no", "waiting", "gone", "saved"} /\ idleFor \in 0..IdleTime
    /\ isIdle \in BOOLEAN /\ idleTimer \in Off..Recheck
    /\ timer \in Off..Period
    /\ wasOnline \in BOOLEAN /\ since \in 0..Period /\ told \in BOOLEAN
    /\ lastseen \in 0..Period /\ marked \in BOOLEAN /\ workerTimer \in 0..Worker
    /\ wire \in Seq(Packets) /\ acked \in Nat
    /\ pushed \in SUBSET {"online", "offline"} /\ shown \in BOOLEAN
    /\ calls \in 0..MaxCalls

(* A session that told the server it is online looks at it again before    *)
(* onlineUpdatePeriod is over, whatever was called in between.             *)
RefreshedInTime == told => timer \in 0..(Period - since)

(* A session that quits has told offline last, though isQuitPrevent() asks *)
(* _lastWasOnline, which is not the status that was told: unless the       *)
(* system is saving its session, when the program goes with what it told.  *)
OfflineToldBeforeQuit == quit \in {"waiting", "gone"} => ~told

(* While a session is idle its timer looks for the end of that.            *)
IdleIsPolled == isIdle => idleTimer # Off

(* The user is in front of an active window and does not hide.             *)
Present == active /\ sendOnline /\ idleFor < IdleTime /\ quit = "no"

(* One who is present comes to be shown online, whatever the devices and   *)
(* the worker told.                                                        *)
PresentIsShown == Present ~> (shown \/ ~Present)

(* One who hides, and was shown because of what he did or told before,     *)
(* comes to be shown offline.                                              *)
Hides == ~sendOnline /\ sendOffline /\ quit = "no"
HiddenIsNotShown == (Hides /\ shown) ~> (~shown \/ ~Hides)

(* Both ways: what others see comes to follow what the user is and wants.  *)
ShownFollowsUser == PresentIsShown /\ HiddenIsNotShown

(* Idleness is noticed, which stops messages from being read, and ends.    *)
Away == active /\ sendOnline /\ idleFor = IdleTime /\ quit = "no"
AwayIsIdle == Away ~> (isIdle \/ ~Away)
IdleEnds == (isIdle /\ idleFor = 0) ~> (~isIdle \/ idleFor = IdleTime \/ ~Runs)

(* Both ways: idleness comes to be known, and comes to be over.            *)
Idleness == AwayIsIdle /\ IdleEnds

(* The end of idleness is told at once.  It fails: _lastWasOnline is true  *)
(* though offline was told, and the period has to end first.               *)
ReturnIsTold == [][isIdle /\ ~isIdle' /\ Present' => told']_vars
=============================================================================
