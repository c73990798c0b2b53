------------------------------ MODULE TimerQueue ------------------------------
(***************************************************************************)
(* What sys_timeout promises (lwip/src/core/timers.c): each timer that is  *)
(* set has a time that remains until it is due, counted in the time that   *)
(* the tcpip thread has spent waiting; the soonest goes off first, when    *)
(* its own time has passed and not before.  A timer is set at most once,   *)
(* and not at all when there is no memory for it.                          *)
(***************************************************************************)
EXTENDS Integers

CONSTANTS Timers, Period, AtStart

VARIABLE rem            \* what remains of each timer's time

Off == -1
On == {h \in Timers : rem[h] # Off}
Soonest(h) == h \in On /\ \A g \in On : rem[h] <= rem[g]

Init == \E set \in SUBSET AtStart : rem = [h \in Timers |-> IF h \in set THEN Period[h] ELSE Off]

Set(h) == h \notin On /\ rem' = [rem EXCEPT ![h] = Period[h]]

Less(g, d) == IF g \in On THEN rem[g] - d ELSE Off

(* Time passes, but no timer's time passes unnoticed.                      *)
Pass == \E g \in On : Soonest(g) /\ \E d \in 0..rem[g] : rem' = [h \in Timers |-> Less(h, d)]

GoOff(h) == Soonest(h) /\ rem' = [g \in Timers |-> IF g = h THEN Off ELSE Less(g, rem[h])]

Next == Pass \/ \E h \in Timers : Set(h) \/ GoOff(h)

Spec == Init /\ [][Next]_rem
=============================================================================
