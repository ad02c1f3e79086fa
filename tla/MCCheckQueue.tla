---------------------------- MODULE MCCheckQueue ----------------------------
(* Two workers and a master; four checks, of which one fails. *)
EXTENDS CheckQueue, TLC

CONSTANTS c1, c2, c3, c4, w1, w2

Checks == {c1, c2, c3, c4}
FailingChecks == {c1}
Workers == {w1, w2}
=============================================================================
