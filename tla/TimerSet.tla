------------------------------ MODULE TimerSet ------------------------------
(***************************************************************************)
(* What sort_timer_lst (timer/lst_timer.h) promises its only user, the     *)
(* event loop: a set of timers with deadlines; tick reads the clock once   *)
(* and fires every timer that is due by then, the earliest first, and no   *)
(* other.  WebServer.tla uses the timers at this level.                    *)
(***************************************************************************)
EXTENDS Integers

CONSTANTS Timers,   (* the util_timer objects                                *)
          Delays,   (* how far ahead of the clock a deadline may be set      *)
          MaxTime   (* bound: the last value of the clock                    *)

VARIABLES armed,    (* the timers in the list                                *)
          expire,   (* their deadlines                                       *)
          now,      (* time(NULL)                                            *)
          ticking,  (* tick is running                                       *)
          cur       (* the time it read                                      *)

vars == <<armed, expire, now, ticking, cur>>

Init ==
  /\ armed = {}
  /\ expire = [t \in Timers |-> 0]
  /\ now = 0
  /\ ticking = FALSE
  /\ cur = 0

AddTimer(t) ==
  /\ ~ticking /\ t \notin armed
  /\ armed' = armed \cup {t}
  /\ \E d \in Delays : expire' = [expire EXCEPT ![t] = now + d]
  /\ UNCHANGED <<now, ticking, cur>>

AdjustTimer(t) ==
  /\ ~ticking /\ t \in armed
  /\ \E d \in Delays : now + d >= expire[t]
                       /\ expire' = [expire EXCEPT ![t] = now + d]
  /\ UNCHANGED <<armed, now, ticking, cur>>

DelTimer(t) ==
  /\ ~ticking /\ t \in armed
  /\ armed' = armed \ {t}
  /\ UNCHANGED <<expire, now, ticking, cur>>

TickStart ==
  /\ ~ticking
  /\ ticking' = TRUE
  /\ cur' = now
  /\ UNCHANGED <<armed, expire, now>>

Fire(t) ==
  /\ ticking /\ t \in armed
  /\ expire[t] <= cur /\ \A u \in armed : expire[t] <= expire[u]
  /\ armed' = armed \ {t}
  /\ UNCHANGED <<expire, now, ticking, cur>>

TickEnd ==
  /\ ticking /\ \A t \in armed : expire[t] > cur
  /\ ticking' = FALSE
  /\ UNCHANGED <<armed, expire, now, cur>>

Clock ==
  /\ now < MaxTime
  /\ now' = now + 1
  /\ UNCHANGED <<armed, expire, ticking, cur>>

Next ==
  \/ \E t \in Timers : AddTimer(t) \/ AdjustTimer(t) \/ DelTimer(t) \/ Fire(t)
  \/ TickStart \/ TickEnd \/ Clock

Spec == Init /\ [][Next]_vars
=============================================================================
