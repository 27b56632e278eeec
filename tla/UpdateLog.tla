------------------------------ MODULE UpdateLog ------------------------------
(***************************************************************************)
(* External: the server's numbered log of updates for one box (the user's  *)
(* common box, or one channel), as the client code uses it.  An update has *)
(* a pts, the box's counter after it, and a count, how far it moved the    *)
(* counter (0 for updates that change nothing worth counting).             *)
(***************************************************************************)
EXTENDS Integers, Sequences, FiniteSets

CONSTANTS
    FirstPts,   \* the box's pts before the first modelled update
    Counts,     \* the pts_count values an update can have
    MaxEvents   \* bound: how many updates the server ever generates

ASSUME LogAssumption ==
    /\ FirstPts \in Nat \ {0}
    /\ Counts \subseteq Nat
    /\ MaxEvents \in Nat

VARIABLE log   \* the updates generated so far, oldest first

Updates == [pts : Nat, count : Nat]

Events == DOMAIN log

Pts(e) == log[e].pts
Count(e) == log[e].count

(* The counter values an update accounts for. *)
Points(e) == (Pts(e) - Count(e) + 1) .. Pts(e)

ServerPts == IF log = <<>> THEN FirstPts ELSE Pts(Len(log))

(* What a snapshot of the box at pts p already includes. *)
UpTo(p) == {e \in Events : Pts(e) <= p}

(* What updates.getDifference(p) carries when it answers with state q. *)
Between(p, q) == {e \in Events : p < Pts(e) /\ Pts(e) <= q}

Generate(c) ==
    /\ Len(log) < MaxEvents
    /\ log' = Append(log, [pts |-> ServerPts + c, count |-> c])
=============================================================================
