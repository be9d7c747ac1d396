---------------------------- MODULE MCTimerList -----------------------------
(* TimerList on a small instance.                                            *)
EXTENDS TimerList, TLC

CONSTANTS t1, t2, t3, t4

Perms == Permutations(Timers)
=============================================================================
