------------------------- MODULE OnlineStatusProofs -------------------------
(***************************************************************************)
(* What holds of the online status for every period, idle time and bound:  *)
(* the types, and that a status told is refreshed, withdrawn before the    *)
(* program quits, and that idleness is looked at until it ends.            *)
(***************************************************************************)
EXTENDS OnlineStatus, TLAPS

(* The least of a set of integers is any member that nothing is below.     *)
LEMMA LeastIs ==
    ASSUME NEW S \in SUBSET Int, NEW m \in S, \A y \in S : m <= y
    PROVE  Min(S) = m
  <1>1. Min(S) = CHOOSE x \in S : \A y \in S : x <= y
    BY DEF Min
  <1>2. Min(S) \in S /\ \A y \in S : Min(S) <= y
    BY <1>1
  <1>3. Min(S) \in Int /\ m \in Int
    BY <1>2
  <1>4. Min(S) <= m /\ m <= Min(S)
    BY <1>2
  <1> QED  BY <1>3, <1>4

LEMMA LeastOfTwo ==
    ASSUME NEW a \in Int, NEW b \in Int
    PROVE  Min({a, b}) = IF a <= b THEN a ELSE b
  <1>1. CASE a <= b  BY <1>1, LeastIs
  <1>2. CASE b < a   BY <1>2, LeastIs
  <1> QED  BY <1>1, <1>2

LEMMA LeastOfThree ==
    ASSUME NEW a \in Int, NEW b \in Int, NEW c \in Int
    PROVE  /\ Min({a, b, c}) \in {a, b, c}
           /\ Min({a, b, c}) <= a /\ Min({a, b, c}) <= b /\ Min({a, b, c}) <= c
  <1>1. CASE a <= b /\ a <= c  BY <1>1, LeastIs
  <1>2. CASE b <= a /\ b <= c  BY <1>2, LeastIs
  <1>3. CASE c <= a /\ c <= b  BY <1>3, LeastIs
  <1> QED  BY <1>1, <1>2, <1>3

(* When updateOnline() looks again: within the period, and within what is  *)
(* left of it for a session that is online and has not told so just now.   *)
LEMMA NextLookBounds ==
    ASSUME TypeOK, NEW online \in BOOLEAN, NEW tells \in BOOLEAN,
           NEW idle \in 0..IdleTime, online => idle < IdleTime
    PROVE  /\ NextLook(online, idle, tells) \in 0..Period
           /\ online /\ ~tells => NextLook(online, idle, tells) <= Period - since
  <1> USE TimesAssumption
  <1>0. Period \in Nat /\ idle \in Nat /\ since \in 0..Period /\ IdleTime \in Nat
    BY DEF TypeOK
  <1>1. CASE ~online
    <2>1. NextLook(online, idle, tells) = Min({Period, Period})
      BY <1>1 DEF NextLook
    <2> QED  BY <1>0, <1>1, <2>1, LeastOfTwo
  <1>2. CASE online /\ tells
    <2>1. NextLook(online, idle, tells) = Min({Period, IdleTime - idle})
      BY <1>2 DEF NextLook
    <2> DEFINE a == IdleTime - idle
               least == Min({Period, a})
    <2>2. a \in Int /\ 0 <= a
      BY <1>0, <1>2
    <2>3. least = IF Period <= a THEN Period ELSE a
      <3> HIDE DEF a
      <3> QED  BY <1>0, <2>2, LeastOfTwo
    <2>4. least \in 0..Period
      <3> HIDE DEF a, least
      <3> QED  BY <1>0, <2>2, <2>3
    <2> QED  BY <1>2, <2>1, <2>4
  <1>3. CASE online /\ ~tells
    <2>1. NextLook(online, idle, tells)
            = Min({Period, IdleTime - idle, Period - since})
      BY <1>3 DEF NextLook
    <2> DEFINE a == IdleTime - idle
               b == Period - since
               least == Min({Period, a, b})
    <2>2. a \in Int /\ b \in Int /\ 0 <= a /\ 0 <= b
      BY <1>0, <1>3
    <2>3. least \in {Period, a, b} /\ least <= Period /\ least <= b
      <3> HIDE DEF a, b
      <3> QED  BY <1>0, <2>2, LeastOfThree
    <2>4. least \in 0..Period /\ least <= b
      <3> HIDE DEF a, b, least
      <3> QED  BY <1>0, <2>2, <2>3
    <2> QED  BY <2>1, <2>4
  <1> QED  BY <1>1, <1>2, <1>3

(* cancel() leaves a sequence of requests.                                 *)
LEMMA CancelledType ==
    ASSUME NEW w \in Seq(Packets), NEW c \in Cancelled(w)
    PROVE  c \in Seq(Packets)
  <1>1. CASE c = w  BY <1>1
  <1>2. ASSUME NEW i \in DOMAIN w, c = RemoveAt(w, i)
        PROVE  c \in Seq(Packets)
    <2>1. i \in 1..Len(w) /\ Len(w) \in Nat
      OBVIOUS
    <2>2. SubSeq(w, 1, i - 1) \in Seq(Packets)
      BY <2>1
    <2>3. SubSeq(w, i + 1, Len(w)) \in Seq(Packets)
      BY <2>1
    <2> QED  BY <1>2, <2>2, <2>3 DEF RemoveAt
  <1> QED  BY <1>1, <1>2 DEF Cancelled

-----------------------------------------------------------------------------
(* The inductive invariant.  The parts that updateOnline() changes are kept*)
(* apart; what relates the status told to the one kept is that a session   *)
(* which told online also keeps it, though not the other way round.        *)

StatusType ==
    /\ isIdle \in BOOLEAN /\ idleTimer \in Off..Recheck /\ timer \in Off..Period
    /\ wasOnline \in BOOLEAN /\ since \in 0..Period /\ told \in BOOLEAN
    /\ lastseen \in 0..Period /\ wire \in Seq(Packets)

RestType ==
    /\ active \in BOOLEAN /\ sendOnline \in BOOLEAN /\ sendOffline \in BOOLEAN
    /\ quit \in {"no", "waiting", "gone", "saved"} /\ idleFor \in 0..IdleTime
    /\ marked \in BOOLEAN /\ workerTimer \in 0..Worker /\ acked \in Nat
    /\ pushed \in SUBSET {"online", "offline"} /\ shown \in BOOLEAN
    /\ calls \in 0..MaxCalls

ToldIsKept == told => wasOnline

StatusInv ==
    /\ StatusType
    /\ ToldIsKept /\ RefreshedInTime /\ OfflineToldBeforeQuit /\ IdleIsPolled

Inv == RestType /\ StatusInv

LEMMA TypeSplit == TypeOK <=> RestType /\ StatusType
  BY DEF TypeOK, RestType, StatusType

(* updateOnline() keeps the invariant, whatever idle time it is given and  *)
(* whether or not the session is about to quit.                            *)
LEMMA UpdateOnlineKeeps ==
    ASSUME Inv, NEW window \in BOOLEAN, NEW idle \in 0..IdleTime,
           NEW other \in BOOLEAN, NEW back \in BOOLEAN,
           UpdateOnline(window, idle, other, back)
    PROVE  StatusInv'
  <1> USE TimesAssumption
  <1> DEFINE orig == window /\ quit' = "no"
             idles == orig /\ sendOnline /\ idle >= IdleTime
             online == orig /\ sendOnline /\ ~idles
             tells == Tells(online, other)
             packet == IF online THEN "online"
                       ELSE IF quit' = "no" THEN "offline" ELSE "bye"
  <1>0. /\ TypeOK /\ Period \in Nat /\ since \in 0..Period
        /\ sendOnline \in BOOLEAN /\ wasOnline \in BOOLEAN
    BY TypeSplit DEF Inv, RestType, StatusInv, StatusType
  <1>1. /\ orig \in BOOLEAN /\ idles \in BOOLEAN /\ online \in BOOLEAN
        /\ tells \in BOOLEAN /\ packet \in Packets
        /\ online => orig /\ idle < IdleTime
    BY <1>0 DEF Tells, Packets
  <1>2. /\ tells => /\ wasOnline' = orig /\ since' = 0 /\ told' = online
                    /\ lastseen' = IF online THEN Period ELSE 0
                    /\ \E w \in Cancelled(wire) : wire' = Append(w, packet)
        /\ ~tells => /\ lastseen' = IF other THEN 0 ELSE lastseen
                     /\ UNCHANGED <<wasOnline, since, told, wire>>
        /\ timer' = NextLook(online, idle, tells)
        /\ isIdle' = (~back /\ (isIdle \/ idles))
        /\ idleTimer' = IF back THEN Off
                        ELSE IF idles /\ ~isIdle THEN Recheck ELSE idleTimer
    BY DEF UpdateOnline
  <1>3. /\ timer' \in 0..Period
        /\ online /\ ~tells => timer' <= Period - since
    BY <1>0, <1>1, <1>2, NextLookBounds
  <1>4. ~tells => online = wasOnline
    BY <1>0, <1>1 DEF Tells
  <1> HIDE DEF orig, idles, online, tells, packet
  <1>5. ToldIsKept'
    <2>1. CASE tells
      <3>1. told' = online /\ wasOnline' = orig /\ (online => orig)
        BY <1>1, <1>2, <2>1, Zenon
      <3> QED  BY <3>1, Zenon DEF ToldIsKept
    <2>2. CASE ~tells
      <3>1. told' = told /\ wasOnline' = wasOnline
        BY <1>2, <2>2
      <3> QED  BY <3>1, Zenon DEF ToldIsKept, Inv, StatusInv
    <2> QED  BY <2>1, <2>2
  <1>6. RefreshedInTime'
    <2>1. CASE tells
      <3>1. since' = 0 /\ timer' \in 0..Period
        BY <1>2, <1>3, <2>1
      <3> QED  BY <1>0, <3>1 DEF RefreshedInTime
    <2>2. CASE ~tells
      <3>1. told' = told /\ since' = since
        BY <1>2, <2>2
      <3>2. told => online
        BY <1>4, <2>2, Zenon DEF ToldIsKept, Inv, StatusInv
      <3>3. told => timer' \in 0..(Period - since)
        BY <1>0, <1>3, <2>2, <3>2
      <3> QED  BY <3>1, <3>3 DEF RefreshedInTime
    <2> QED  BY <2>1, <2>2
  <1>7. OfflineToldBeforeQuit'
    <2>1. quit' # "no" => ~online
      BY DEF online, orig
    <2> QED  BY <1>2, <1>4, <2>1 DEF OfflineToldBeforeQuit, ToldIsKept, Inv, StatusInv
  <1>8. IdleIsPolled'
    <2>1. CASE back
      <3>1. ~isIdle'
        BY <1>2, <2>1, Zenon
      <3> QED  BY <3>1, Zenon DEF IdleIsPolled
    <2>2. CASE ~back /\ idles /\ ~isIdle
      <3>1. idleTimer' = Recheck
        BY <1>2, <2>2
      <3> QED  BY <3>1 DEF IdleIsPolled, Off
    <2>3. CASE ~back /\ ~(idles /\ ~isIdle)
      <3>1. idleTimer' = idleTimer
        BY <1>2, <2>3
      <3>2. isIdle' => isIdle
        BY <1>2, <2>3, Zenon
      <3> QED  BY <3>1, <3>2, Zenon DEF IdleIsPolled, Inv, StatusInv
    <2> QED  BY <2>1, <2>2, <2>3
  <1>9. StatusType'
    <2>1. wire' \in Seq(Packets)
      <3>0. wire \in Seq(Packets)
        BY DEF Inv, StatusInv, StatusType
      <3>1. CASE tells
        <4>1. PICK w \in Cancelled(wire) : wire' = Append(w, packet)
          BY <1>2, <3>1
        <4>2. w \in Seq(Packets)
          BY <3>0, CancelledType
        <4> QED  BY <1>1, <4>1, <4>2
      <3>2. CASE ~tells  BY <1>2, <3>0, <3>2
      <3> QED  BY <3>1, <3>2
    <2>2. idleTimer' \in Off..Recheck /\ isIdle' \in BOOLEAN
      BY <1>1, <1>2 DEF Inv, StatusInv, StatusType, Off
    <2>3. /\ wasOnline' \in BOOLEAN /\ since' \in 0..Period /\ told' \in BOOLEAN
          /\ lastseen' \in 0..Period
      BY <1>0, <1>1, <1>2 DEF Inv, StatusInv, StatusType
    <2>4. timer' \in Off..Period
      BY <1>0, <1>3 DEF Off
    <2> QED  BY <2>1, <2>2, <2>3, <2>4 DEF StatusType
  <1> QED  BY <1>5, <1>6, <1>7, <1>8, <1>9 DEF StatusInv

(* A step that leaves the status alone keeps what is said of it, when the  *)
(* session does not begin to quit with online told and asked.              *)
LEMMA StayKeeps ==
    ASSUME Inv, Stay, quit' \in {"waiting", "gone"} => quit \in {"waiting", "gone"} \/ ~told
    PROVE  StatusInv'
  <1>1. /\ UNCHANGED <<isIdle, idleTimer, timer, wasOnline, since, told>>
        /\ UNCHANGED <<lastseen, wire>>
    BY DEF Stay, status
  <1>2. StatusType'
    BY <1>1 DEF Inv, StatusInv, StatusType
  <1>3. ToldIsKept' /\ RefreshedInTime' /\ IdleIsPolled'
    BY <1>1 DEF Inv, StatusInv, ToldIsKept, RefreshedInTime, IdleIsPolled
  <1>4. OfflineToldBeforeQuit'
    BY <1>1 DEF Inv, StatusInv, OfflineToldBeforeQuit
  <1> QED  BY <1>2, <1>3, <1>4 DEF StatusInv

(* The idle timer keeps the invariant: it looks again or ends the idleness.*)
LEMMA CheckIdleFinishKeeps ==
    ASSUME Inv, NEW idle \in 0..IdleTime, CheckIdleFinish(idle), quit' = quit
    PROVE  StatusInv'
  <1>1. CASE idle < IdleTime
    <2>1. UpdateOnline(active, idle, FALSE, TRUE)
      BY <1>1 DEF CheckIdleFinish
    <2>2. active \in BOOLEAN
      BY DEF Inv, RestType
    <2> QED  BY <2>1, <2>2, UpdateOnlineKeeps
  <1>2. CASE ~(idle < IdleTime)
    <2>1. /\ idleTimer' = Recheck
          /\ UNCHANGED <<isIdle, timer, wasOnline, since, told, lastseen, wire>>
      BY <1>2 DEF CheckIdleFinish
    <2>2. StatusType'
      BY <2>1, TimesAssumption DEF Inv, StatusInv, StatusType, Off
    <2>3. IdleIsPolled'
      BY <2>1, TimesAssumption DEF IdleIsPolled, Off
    <2>4. ToldIsKept' /\ RefreshedInTime' /\ OfflineToldBeforeQuit'
      BY <2>1 DEF Inv, StatusInv, ToldIsKept, RefreshedInTime, OfflineToldBeforeQuit
    <2> QED  BY <2>2, <2>3, <2>4 DEF StatusInv
  <1> QED  BY <1>1, <1>2

LEMMA InitInv == Init => Inv
  <1> SUFFICES ASSUME Init PROVE Inv
    OBVIOUS
  <1> USE TimesAssumption DEF Init
  <1>1. RestType
    <2>1. idleFor \in 0..IdleTime /\ workerTimer \in 0..Worker /\ calls \in 0..MaxCalls
      OBVIOUS
    <2>2. /\ quit \in {"no", "waiting", "gone", "saved"} /\ acked \in Nat
          /\ pushed \in SUBSET {"online", "offline"}
      OBVIOUS
    <2>3. /\ active \in BOOLEAN /\ sendOnline \in BOOLEAN /\ sendOffline \in BOOLEAN
          /\ marked \in BOOLEAN /\ shown \in BOOLEAN
      BY Zenon
    <2> QED  BY <2>1, <2>2, <2>3 DEF RestType
  <1>2. StatusType
    <2>1. /\ idleTimer \in Off..Recheck /\ timer \in Off..Period
          /\ since \in 0..Period /\ lastseen \in 0..Period
      BY DEF Off
    <2>2. isIdle \in BOOLEAN /\ wasOnline \in BOOLEAN /\ told \in BOOLEAN
      BY Zenon
    <2>3. wire \in Seq(Packets)
      OBVIOUS
    <2> QED  BY <2>1, <2>2, <2>3 DEF StatusType
  <1>3. ToldIsKept /\ RefreshedInTime /\ OfflineToldBeforeQuit /\ IdleIsPolled
    BY DEF ToldIsKept, RefreshedInTime, OfflineToldBeforeQuit, IdleIsPolled
  <1> QED  BY <1>1, <1>2, <1>3 DEF Inv, StatusInv

(* Time passes only while no timer is due, so no period ends unnoticed.    *)
LEMMA TickKeeps == Inv /\ Tick => Inv'
  <1> SUFFICES ASSUME Inv, Tick PROVE Inv'
    OBVIOUS
  <1> USE TimesAssumption
  <1>1. /\ timer # 0 /\ idleTimer # 0 /\ workerTimer # 0
        /\ timer' = IF timer > 0 THEN timer - 1 ELSE timer
        /\ idleTimer' = IF idleTimer > 0 THEN idleTimer - 1 ELSE idleTimer
        /\ workerTimer' = IF workerTimer > 0 THEN workerTimer - 1 ELSE workerTimer
        /\ lastseen' = IF lastseen > 0 THEN lastseen - 1 ELSE lastseen
        /\ since' = Min({since + 1, Period}) /\ idleFor' = Min({idleFor + 1, IdleTime})
        /\ UNCHANGED <<user, isIdle, wasOnline, told, marked, wire, server, calls>>
    BY DEF Tick, Less
  <1>2. /\ Period \in Nat /\ IdleTime \in Nat /\ since \in 0..Period
        /\ idleFor \in 0..IdleTime /\ timer \in Off..Period
        /\ idleTimer \in Off..Recheck /\ lastseen \in 0..Period
        /\ workerTimer \in 0..Worker
    BY DEF Inv, RestType, StatusInv, StatusType
  <1>3. since' = IF since + 1 <= Period THEN since + 1 ELSE Period
    BY <1>1, <1>2, LeastOfTwo
  <1>4. idleFor' = IF idleFor + 1 <= IdleTime THEN idleFor + 1 ELSE IdleTime
    BY <1>1, <1>2, LeastOfTwo
  <1>5. RestType'
    <2>1. idleFor' \in 0..IdleTime /\ workerTimer' \in 0..Worker
      BY <1>1, <1>2, <1>4
    <2>2. UNCHANGED <<active, sendOnline, sendOffline, quit, marked, acked,
                      pushed, shown, calls>>
      BY <1>1 DEF user, server
    <2> QED  BY <2>1, <2>2 DEF Inv, RestType
  <1>6. StatusType'
    <2>1. /\ timer' \in Off..Period /\ idleTimer' \in Off..Recheck
          /\ since' \in 0..Period /\ lastseen' \in 0..Period
      BY <1>1, <1>2, <1>3 DEF Off
    <2>2. UNCHANGED <<isIdle, wasOnline, told, wire>>
      BY <1>1
    <2> QED  BY <2>1, <2>2 DEF Inv, StatusInv, StatusType
  <1>7. RefreshedInTime'
    <2>1. told' = told
      BY <1>1
    <2>2. told => timer \in 0..(Period - since)
      BY DEF Inv, StatusInv, RefreshedInTime
    <2>3. told => timer' \in 0..(Period - since')
      BY <1>1, <1>2, <1>3, <2>2
    <2> QED  BY <2>1, <2>3 DEF RefreshedInTime
  <1>8. ToldIsKept' /\ OfflineToldBeforeQuit'
    BY <1>1 DEF user, Inv, StatusInv, ToldIsKept, OfflineToldBeforeQuit
  <1>9. IdleIsPolled'
    BY <1>1, <1>2 DEF Inv, StatusInv, IdleIsPolled, Off
  <1> QED  BY <1>5, <1>6, <1>7, <1>8, <1>9 DEF Inv, StatusInv

(* A call of the user is counted within the bound.                         *)
LEMMA CallCounts == RestType /\ Call => calls' \in 0..MaxCalls
  BY TimesAssumption DEF RestType, Call

(* What the actions other than Tick do to the variables that updateOnline()*)
(* does not touch.                                                         *)
LEMMA RestKept ==
    ASSUME Inv, RestType, Next, ~Tick
    PROVE  RestType'
  <1> USE TimesAssumption
  <1> USE DEF RestType, user, status, worker, server
  <1>1. CASE \E b \in BOOLEAN : ActiveChanged(b)
    BY <1>1 DEF ActiveChanged, Call
  <1>2. CASE \E b \in BOOLEAN : Input(b)
    BY <1>2 DEF Input
  <1>3. CASE \E b \in BOOLEAN : SetGhostModeEnabled(b)
    <2>1. PICK b \in BOOLEAN : SetGhostModeEnabled(b)
      BY <1>3
    <2>2. sendOnline' \in BOOLEAN /\ sendOffline' \in BOOLEAN /\ marked' \in BOOLEAN
      BY <2>1, Zenon DEF SetGhostModeEnabled, MarkAsOnline
    <2>3. workerTimer' \in 0..Worker /\ calls' \in 0..MaxCalls
      BY <2>1 DEF SetGhostModeEnabled, MarkAsOnline, Call
    <2>4. UNCHANGED <<active, quit, idleFor, acked, pushed, shown>>
      BY <2>1 DEF SetGhostModeEnabled
    <2> QED  BY <2>2, <2>3, <2>4
  <1>4. CASE SetSendOnlinePackets \/ SetSendOfflinePacketAfterOnline
    <2>1. sendOnline' \in BOOLEAN /\ sendOffline' \in BOOLEAN
      BY <1>4, Zenon DEF SetSendOnlinePackets, SetSendOfflinePacketAfterOnline
    <2>2. calls' \in 0..MaxCalls
      BY <1>4 DEF SetSendOnlinePackets, SetSendOfflinePacketAfterOnline, Call
    <2>3. UNCHANGED <<active, quit, idleFor, marked, workerTimer, acked, pushed, shown>>
      BY <1>4 DEF SetSendOnlinePackets, SetSendOfflinePacketAfterOnline
    <2> QED  BY <2>1, <2>2, <2>3
  <1>5. CASE Act \/ OtherDevice
    <2>1. shown' \in BOOLEAN
      BY <1>5, Zenon DEF Act, OtherDevice
    <2>2. calls' \in 0..MaxCalls
      BY <1>5, CallCounts DEF Act, OtherDevice
    <2>3. pushed' \in SUBSET {"online", "offline"}
      BY <1>5 DEF Act, OtherDevice
    <2>4. UNCHANGED <<user, idleFor, worker, acked>>
      BY <1>5 DEF Act, OtherDevice
    <2> QED  BY <2>1, <2>2, <2>3, <2>4
  <1>6. CASE Quit \/ QuitTimer \/ QuitSavingSession
    <2>1. quit' \in {"no", "waiting", "gone", "saved"}
      BY <1>6 DEF Quit, QuitTimer, QuitSavingSession
    <2>2. calls' \in 0..MaxCalls
      <3>1. CASE Quit
        BY <3>1, CallCounts DEF Quit
      <3>2. CASE QuitTimer
        BY <3>2 DEF QuitTimer
      <3>3. CASE QuitSavingSession
        BY <3>3, CallCounts DEF QuitSavingSession
      <3> QED  BY <1>6, <3>1, <3>2, <3>3
    <2>3. UNCHANGED <<active, sendOnline, sendOffline, idleFor, worker, server>>
      BY <1>6 DEF Quit, QuitTimer, QuitSavingSession
    <2> QED  BY <2>1, <2>2, <2>3
  <1>7. CASE StateDone
    BY <1>7 DEF StateDone, Call
  <1>8. CASE OnlineTimer \/ IdleFinishTimer
    BY <1>8 DEF OnlineTimer, IdleFinishTimer
  <1>9. CASE RunOnce
    BY <1>9 DEF RunOnce
  <1>10. CASE AnswerAct
    BY <1>10 DEF AnswerAct, MarkAsOnline
  <1>11. CASE OtherOnline \/ OtherOffline
    <2>1. pushed' \in SUBSET {"online", "offline"}
      BY <1>11 DEF OtherOnline, OtherOffline
    <2>2. marked' \in BOOLEAN
      BY <1>11, Zenon DEF OtherOnline, OtherOffline, MarkAsOnline
    <2>3. workerTimer' \in 0..Worker
      <3>1. CASE OtherOnline
        BY <3>1 DEF OtherOnline, MarkAsOnline
      <3>2. CASE OtherOffline
        BY <3>2 DEF OtherOffline
      <3> QED  BY <1>11, <3>1, <3>2
    <2>4. UNCHANGED <<user, idleFor, acked, shown, calls>>
      BY <1>11 DEF OtherOnline, OtherOffline
    <2> QED  BY <2>1, <2>2, <2>3, <2>4
  <1>12. CASE Deliver
    BY <1>12 DEF Deliver
  <1> QED
    BY <1>1, <1>2, <1>3, <1>4, <1>5, <1>6, <1>7, <1>8, <1>9, <1>10, <1>11, <1>12
    DEF Next, User, Timers

(* Every step keeps what is said of the status.                            *)
LEMMA StatusKept ==
    ASSUME Inv, Next, ~Tick
    PROVE  StatusInv'
  <1> USE TimesAssumption
  <1>0. /\ idleFor \in 0..IdleTime /\ 0 \in 0..IdleTime /\ active \in BOOLEAN
        /\ IdleTime \in Nat /\ quit \in {"no", "waiting"}
    BY DEF Inv, RestType, Next, Runs
  <1>1. ASSUME NEW says \in BOOLEAN, ActiveChanged(says)
        PROVE  StatusInv'
    <2>1. active' \in BOOLEAN /\ quit' = quit
      BY <1>1 DEF ActiveChanged
    <2>2. CASE says
      <3>1. UpdateOnline(active', idleFor, FALSE, FALSE)
        BY <1>1, <2>2 DEF ActiveChanged
      <3> DEFINE window == active'
      <3>2. window \in BOOLEAN /\ UpdateOnline(window, idleFor, FALSE, FALSE)
        BY <2>1, <3>1
      <3> HIDE DEF window
      <3> QED  BY <1>0, <3>2, UpdateOnlineKeeps
    <2>3. CASE ~says
      BY <1>1, <2>1, <2>3, StayKeeps DEF ActiveChanged
    <2> QED  BY <2>2, <2>3
  <1>2. ASSUME NEW here \in BOOLEAN, Input(here)
        PROVE  StatusInv'
    <2>1. quit' = quit
      BY <1>2 DEF Input, user
    <2>2. CASE here
      BY <1>0, <1>2, <2>1, <2>2, CheckIdleFinishKeeps DEF Input
    <2>3. CASE ~here
      BY <1>2, <2>1, <2>3, StayKeeps DEF Input
    <2> QED  BY <2>2, <2>3
  <1>3. CASE \E b \in BOOLEAN : SetGhostModeEnabled(b)
    BY <1>3, StayKeeps DEF SetGhostModeEnabled
  <1>4. CASE SetSendOnlinePackets \/ SetSendOfflinePacketAfterOnline
    BY <1>4, StayKeeps DEF SetSendOnlinePackets, SetSendOfflinePacketAfterOnline
  <1>5. CASE Quit
    <2>1. CASE wasOnline
      BY <1>0, <1>5, <2>1, UpdateOnlineKeeps DEF Quit
    <2>2. CASE ~wasOnline
      <3>1. Stay
        BY <1>5, <2>2 DEF Quit
      <3>2. ~told
        BY <2>2, Zenon DEF Inv, StatusInv, ToldIsKept
      <3> QED  BY <3>1, <3>2, StayKeeps
    <2> QED  BY <2>1, <2>2
  <1>6. CASE QuitTimer \/ QuitSavingSession
    BY <1>6, StayKeeps DEF QuitTimer, QuitSavingSession
  <1>7. CASE StateDone
    BY <1>0, <1>7, UpdateOnlineKeeps DEF StateDone
  <1>8. CASE OnlineTimer
    BY <1>0, <1>8, UpdateOnlineKeeps DEF OnlineTimer
  <1>9. CASE IdleFinishTimer
    <2>1. quit' = quit /\ CheckIdleFinish(idleFor)
      BY <1>9 DEF IdleFinishTimer, user
    <2> QED  BY <1>0, <2>1, CheckIdleFinishKeeps
  <1>10. CASE OtherOffline
    BY <1>0, <1>10, UpdateOnlineKeeps DEF OtherOffline
  <1>11. CASE AnswerAct \/ OtherDevice
    <2>1. UNCHANGED <<status, lastseen, wire, quit>>
      BY <1>11 DEF AnswerAct, OtherDevice, user
    <2> QED  BY <2>1, StayKeeps DEF Stay
  <1>12. CASE RunOnce \/ Act \/ OtherOnline \/ Deliver
    <2>1. UNCHANGED status
      BY <1>12 DEF RunOnce, Act, OtherOnline, Deliver
    <2>2. UNCHANGED <<isIdle, idleTimer, timer, wasOnline, since, told>>
      BY <2>1 DEF status
    <2>3. quit' \in {"waiting", "gone"} => quit \in {"waiting", "gone"} \/ ~told
      BY <1>0, <1>12 DEF RunOnce, Act, OtherOnline, Deliver, user
    <2>4. StatusType'
      <3>1. wire' \in Seq(Packets) /\ lastseen' \in 0..Period
        <4>0. /\ wire \in Seq(Packets) /\ lastseen \in 0..Period
              /\ "hide" \in Packets /\ "act" \in Packets
          BY DEF Inv, StatusInv, StatusType, Packets
        <4>1. CASE RunOnce
          BY <4>0, <4>1 DEF RunOnce
        <4>2. CASE Act
          BY <4>0, <4>2 DEF Act
        <4>3. CASE OtherOnline
          BY <4>0, <4>3 DEF OtherOnline
        <4>4. CASE Deliver
          BY <4>0, <4>4 DEF Deliver
        <4> QED  BY <1>12, <4>1, <4>2, <4>3, <4>4
      <3> QED  BY <2>2, <3>1 DEF Inv, StatusInv, StatusType
    <2>5. ToldIsKept' /\ RefreshedInTime' /\ IdleIsPolled'
      BY <2>2 DEF Inv, StatusInv, ToldIsKept, RefreshedInTime, IdleIsPolled
    <2>6. OfflineToldBeforeQuit'
      BY <2>2, <2>3 DEF Inv, StatusInv, OfflineToldBeforeQuit
    <2> QED  BY <2>4, <2>5, <2>6 DEF StatusInv
  <1> QED
    BY <1>1, <1>2, <1>3, <1>4, <1>5, <1>6, <1>7, <1>8, <1>9, <1>10, <1>11, <1>12
    DEF Next, User, Timers

LEMMA NextInv == Inv /\ [Next]_vars => Inv'
  <1> SUFFICES ASSUME Inv, [Next]_vars PROVE Inv'
    OBVIOUS
  <1>1. CASE Tick
    BY <1>1, TickKeeps
  <1>2. CASE Next /\ ~Tick
    BY <1>2, RestKept, StatusKept DEF Inv
  <1>3. CASE UNCHANGED vars
    <2>1. UNCHANGED <<user, idleFor, status, lastseen, worker, wire, server, calls>>
      BY <1>3 DEF vars
    <2>2. Stay /\ quit' = quit
      BY <2>1 DEF Stay, user
    <2>3. RestType'
      BY <2>1 DEF Inv, RestType, user, worker, server
    <2> QED  BY <2>2, <2>3, StayKeeps DEF Inv
  <1> QED  BY <1>1, <1>2, <1>3

LEMMA Inductive == Spec => []Inv
  BY InitInv, NextInv, PTL DEF Spec

(* Every state is of its type: no timer is set below zero or beyond what   *)
(* the code gives it, whatever the last input and the last status.         *)
THEOREM TypeCorrect == Spec => []TypeOK
  <1>1. Inv => TypeOK
    BY TypeSplit DEF Inv, StatusInv
  <1> QED  BY <1>1, Inductive, PTL

(* A session that told the server it is online looks at it again before the*)
(* period is over (updateOnline(), api_updates.cpp:957-963).               *)
THEOREM ToldIsRefreshed == Spec => []RefreshedInTime
  <1>1. Inv => RefreshedInTime
    BY DEF Inv, StatusInv
  <1> QED  BY <1>1, Inductive, PTL

(* A session that quits is not left online, unless the system is saving    *)
(* its session and nobody is asked: isQuitPrevent() asks _lastWasOnline,   *)
(* which the fork sets to another status than it tells.                    *)
THEOREM QuitsOffline == Spec => []OfflineToldBeforeQuit
  <1>1. Inv => OfflineToldBeforeQuit
    BY DEF Inv, StatusInv
  <1> QED  BY <1>1, Inductive, PTL

(* While a session is idle _idleFinishTimer looks for the end of that.     *)
THEOREM IdleIsWatched == Spec => []IdleIsPolled
  <1>1. Inv => IdleIsPolled
    BY DEF Inv, StatusInv
  <1> QED  BY <1>1, Inductive, PTL
=============================================================================
