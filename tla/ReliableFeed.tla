----------------------------- MODULE ReliableFeed -----------------------------
(***************************************************************************)
(* What the updates machinery promises the rest of the client: the data    *)
(* only gains updates, the pts it reports only grows, and everything up to *)
(* that pts is in the data.                                                *)
(***************************************************************************)
EXTENDS UpdateLog

VARIABLES
    good,      \* the pts the client is at
    applied    \* the updates whose effect is in the data

PrefixApplied ==
    \A e \in Events : Pts(e) <= good /\ Count(e) > 0 => e \in applied

Init == log = <<>> /\ good = 0 /\ applied = {}

ServerGenerates ==
    /\ \E c \in Counts : Generate(c)
    /\ UNCHANGED <<good, applied>>

ClientAdvances ==
    /\ applied \subseteq applied' /\ applied' \subseteq Events
    /\ good' \in good..ServerPts
    /\ PrefixApplied'
    /\ UNCHANGED log

Spec == Init /\ [][ServerGenerates \/ ClientAdvances]_<<log, good, applied>>
=============================================================================
