----------------------------- MODULE TimerList ------------------------------
(***************************************************************************)
(* sort_timer_lst (timer/lst_timer.cpp): the doubly linked list of         *)
(* util_timer, ascending by expire, at the level of its pointers.  Only    *)
(* the main thread uses it.  Every call is one step, except for its loops: *)
(* one step is one round of the walk in add_timer(timer, lst_head) or of   *)
(* the loop in tick.                                                       *)
(*                                                                         *)
(* The list is modelled as the class it is, for any deadlines an add may   *)
(* bring.  adjust_timer is called to put a deadline off, never to advance  *)
(* it; that is an assumption on the clock, which is not to step back.      *)
(***************************************************************************)
EXTENDS Integers, FiniteSets

CONSTANTS Timers,   (* the util_timer objects                                *)
          Delays,   (* how far ahead a deadline is set: {3} for the server   *)
          MaxTime,  (* bound: the last value of the clock                    *)
          NULL

ASSUME TimerAssumption ==
  /\ NULL \notin Timers
  /\ Delays \subseteq Nat
  /\ MaxTime \in Nat

VARIABLES
  head, tail,
  expire, next, prev,   (* the fields of every util_timer                    *)
  live,                 (* the util_timers allocated and not yet deleted     *)
  now,                  (* time(NULL)                                        *)
  pc,                   (* "idle", or inside the "walk" or the "tick" loop   *)
  timer, last, tmp,     (* the walk: timer, prev and tmp in the code         *)
  cur                   (* the time tick read                                *)

links == <<head, tail, next, prev>>
walk == <<timer, last, tmp>>
vars == <<links, expire, live, now, pc, walk, cur>>

Ptr == Timers \cup {NULL}

TypeOK ==
  /\ head \in Ptr /\ tail \in Ptr
  /\ expire \in [Timers -> Nat]
  /\ next \in [Timers -> Ptr]
  /\ prev \in [Timers -> Ptr]
  /\ live \subseteq Timers
  /\ now \in Nat
  /\ pc \in {"idle", "walk", "tick"}
  /\ timer \in Ptr /\ last \in Ptr /\ tmp \in Ptr
  /\ cur \in Nat

Init ==
  /\ head = NULL /\ tail = NULL
  /\ expire = [t \in Timers |-> 0]
  /\ next = [t \in Timers |-> NULL]
  /\ prev = [t \in Timers |-> NULL]
  /\ live = {}
  /\ now = 0
  /\ pc = "idle"
  /\ timer = NULL /\ last = NULL /\ tmp = NULL
  /\ cur = 0

-----------------------------------------------------------------------------
(* new util_timer; expire = now + d; add_timer(timer).                       *)

(* add_timer(timer, lst_head), up to its loop.                               *)
StartWalk(t, start, nx) ==
  /\ pc' = "walk"
  /\ timer' = t
  /\ last' = start
  /\ tmp' = nx[start]

(* Faulty variant of Deadline: the wrong sign.                               *)
DeadlinePast(d) == now - d

(* time(NULL) + 3 * TIMESLOT, in WebServer::timer and adjust_timer.          *)
Deadline(d) == now + d

New(t, d) ==
  /\ pc = "idle" /\ t \notin live
  /\ live' = live \cup {t}
  /\ expire' = [expire EXCEPT ![t] = Deadline(d)]
  /\ UNCHANGED <<now, cur>>

AddFirst(t, d) ==
  /\ New(t, d)
  /\ head = NULL
  /\ head' = t /\ tail' = t
  /\ next' = [next EXCEPT ![t] = NULL]
  /\ prev' = [prev EXCEPT ![t] = NULL]
  /\ UNCHANGED <<pc, walk>>

AddBeforeHead(t, d) ==
  /\ New(t, d)
  /\ head # NULL /\ Deadline(d) < expire[head]
  /\ next' = [next EXCEPT ![t] = head]
  /\ prev' = [prev EXCEPT ![t] = NULL, ![head] = t]
  /\ head' = t
  /\ UNCHANGED <<tail, pc, walk>>

AddAfterHead(t, d) ==
  /\ New(t, d)
  /\ head # NULL /\ Deadline(d) >= expire[head]
  /\ next' = [next EXCEPT ![t] = NULL]
  /\ prev' = [prev EXCEPT ![t] = NULL]
  /\ StartWalk(t, head, next)
  /\ UNCHANGED <<head, tail>>

-----------------------------------------------------------------------------
(* expire = now + d; adjust_timer(timer).                                    *)

PutOff(t, d) ==
  /\ pc = "idle" /\ t \in live
  /\ Deadline(d) >= expire[t]
  /\ expire' = [expire EXCEPT ![t] = Deadline(d)]
  /\ UNCHANGED <<live, now, cur>>

InPlace(t, d) == next[t] # NULL => Deadline(d) < expire[next[t]]

AdjustInPlace(t, d) ==
  /\ PutOff(t, d) /\ InPlace(t, d)
  /\ UNCHANGED <<links, pc, walk>>

AdjustHead(t, d) ==
  /\ PutOff(t, d) /\ ~InPlace(t, d)
  /\ t = head
  /\ head' = next[t]
  /\ prev' = [prev EXCEPT ![next[t]] = NULL]
  /\ next' = [next EXCEPT ![t] = NULL]
  /\ StartWalk(t, next[t], next)
  /\ UNCHANGED tail

(* Taken out of the middle; its own links stay as they are until the walk    *)
(* puts it back.                                                             *)
AdjustInner(t, d) ==
  /\ PutOff(t, d) /\ ~InPlace(t, d)
  /\ t # head
  /\ next' = [next EXCEPT ![prev[t]] = next[t]]
  /\ prev' = [prev EXCEPT ![next[t]] = prev[t]]
  /\ StartWalk(t, next[t], next)
  /\ UNCHANGED <<head, tail>>

-----------------------------------------------------------------------------
(* The loop of add_timer(timer, lst_head).                                   *)

(* Faulty variant of Before: equal deadlines are not passed over.            *)
BeforeNever(t, u) == FALSE

Before(t, u) == expire[t] < expire[u]

(* Faulty variant of LinkBetween: the back pointer of the successor is       *)
(* forgotten.                                                                *)
LinkBetweenForwardOnly(p, t, n) ==
  /\ next' = [next EXCEPT ![p] = t, ![t] = n]
  /\ prev' = [prev EXCEPT ![t] = p]

LinkBetween(p, t, n) ==
  /\ next' = [next EXCEPT ![p] = t, ![t] = n]
  /\ prev' = [prev EXCEPT ![n] = t, ![t] = p]

WalkOn ==
  /\ pc = "walk" /\ tmp # NULL /\ ~Before(timer, tmp)
  /\ last' = tmp
  /\ tmp' = next[tmp]
  /\ UNCHANGED <<links, expire, live, now, pc, timer, cur>>

EndWalk ==
  /\ pc' = "idle"
  /\ timer' = NULL /\ last' = NULL /\ tmp' = NULL
  /\ UNCHANGED <<expire, live, now, cur>>

WalkInsert ==
  /\ pc = "walk" /\ tmp # NULL /\ Before(timer, tmp)
  /\ LinkBetween(last, timer, tmp)
  /\ UNCHANGED <<head, tail>>
  /\ EndWalk

(* Faulty variant of LinkLast: the forward pointer is forgotten.             *)
LinkLastBackOnly(p, t) ==
  /\ next' = [next EXCEPT ![t] = NULL]
  /\ prev' = [prev EXCEPT ![t] = p]
  /\ tail' = t

LinkLast(p, t) ==
  /\ next' = [next EXCEPT ![p] = t, ![t] = NULL]
  /\ prev' = [prev EXCEPT ![t] = p]
  /\ tail' = t

WalkAppend ==
  /\ pc = "walk" /\ tmp = NULL
  /\ LinkLast(last, timer)
  /\ UNCHANGED head
  /\ EndWalk

-----------------------------------------------------------------------------
(* del_timer(timer) and delete timer.                                        *)

Delete(t) ==
  /\ pc = "idle" /\ t \in live
  /\ live' = live \ {t}
  /\ UNCHANGED <<expire, now, pc, walk, cur>>

DelOnly(t) ==
  /\ Delete(t) /\ t = head /\ t = tail
  /\ head' = NULL /\ tail' = NULL
  /\ UNCHANGED <<next, prev>>

DelHead(t) ==
  /\ Delete(t) /\ t = head /\ t # tail
  /\ head' = next[t]
  /\ prev' = [prev EXCEPT ![next[t]] = NULL]
  /\ UNCHANGED <<tail, next>>

DelTail(t) ==
  /\ Delete(t) /\ t # head /\ t = tail
  /\ tail' = prev[t]
  /\ next' = [next EXCEPT ![prev[t]] = NULL]
  /\ UNCHANGED <<head, prev>>

DelInner(t) ==
  /\ Delete(t) /\ t # head /\ t # tail
  /\ next' = [next EXCEPT ![prev[t]] = next[t]]
  /\ prev' = [prev EXCEPT ![next[t]] = prev[t]]
  /\ UNCHANGED <<head, tail>>

-----------------------------------------------------------------------------
(* tick.                                                                     *)

TickStart ==
  /\ pc = "idle" /\ head # NULL
  /\ pc' = "tick"
  /\ cur' = now
  /\ UNCHANGED <<links, expire, live, now, walk>>

(* Faulty variant of Due: a timer is due one second late.                    *)
DueLate(t) == expire[t] < cur

Due(t) == expire[t] <= cur

(* tail stays as it is even when the list becomes empty.                     *)
PopHead ==
  /\ head' = next[head]
  /\ prev' = IF next[head] = NULL THEN prev
                                  ELSE [prev EXCEPT ![next[head]] = NULL]
  /\ UNCHANGED <<tail, next>>

TickFire ==
  /\ pc = "tick" /\ head # NULL /\ Due(head)
  /\ PopHead
  /\ live' = live \ {head}
  /\ UNCHANGED <<expire, now, pc, walk, cur>>

TickEnd ==
  /\ pc = "tick"
  /\ head # NULL => ~Due(head)
  /\ pc' = "idle"
  /\ UNCHANGED <<links, expire, live, now, walk, cur>>

Clock ==
  /\ now < MaxTime
  /\ now' = now + 1
  /\ UNCHANGED <<links, expire, live, pc, walk, cur>>

-----------------------------------------------------------------------------
Add(t, d) == AddFirst(t, d) \/ AddBeforeHead(t, d) \/ AddAfterHead(t, d)
Adjust(t, d) == AdjustInPlace(t, d) \/ AdjustHead(t, d) \/ AdjustInner(t, d)
Walk == WalkOn \/ WalkInsert \/ WalkAppend
Del(t) == DelOnly(t) \/ DelHead(t) \/ DelTail(t) \/ DelInner(t)
Tick == TickStart \/ TickFire \/ TickEnd

Next ==
  \/ \E t \in Timers, d \in Delays : Add(t, d) \/ Adjust(t, d)
  \/ \E t \in Timers : Del(t)
  \/ Walk \/ Tick \/ Clock

Spec == Init /\ [][Next]_vars

-----------------------------------------------------------------------------
(* Properties.                                                               *)

(* The timers linked into the list: the one being inserted is not yet.       *)
Linked == IF pc = "walk" THEN live \ {timer} ELSE live

(* The list is doubly linked: from head on, next and prev of linked timers   *)
(* are each other's inverse and lead to no timer that was deleted, and only  *)
(* the ends have a null link (add_timer, adjust_timer, del_timer, tick).     *)
WellLinked ==
  /\ head = NULL <=> Linked = {}
  /\ head # NULL => /\ head \in Linked /\ prev[head] = NULL
                    /\ tail \in Linked /\ next[tail] = NULL
  /\ \A t \in Linked :
       /\ next[t] = NULL => t = tail
       /\ prev[t] = NULL => t = head
       /\ next[t] # NULL => next[t] \in Linked /\ prev[next[t]] = t
       /\ prev[t] # NULL => prev[t] \in Linked /\ next[prev[t]] = t

(* Ascending by expire, as tick needs to stop at the first that is not due.  *)
Ascending ==
  \A t \in Linked : next[t] # NULL => expire[t] <= expire[next[t]]

(* The timers found by following next from head.                             *)
FromHead ==
  LET Nth[i \in 0..Cardinality(Timers)] ==
        IF i = 0 THEN head
        ELSE IF Nth[i - 1] = NULL THEN NULL ELSE next[Nth[i - 1]]
  IN  {Nth[i] : i \in 0..Cardinality(Timers)} \ {NULL}

(* No util_timer is leaked: each one that is not deleted is found from head, *)
(* or is the one being inserted.                                             *)
NothingLost == FromHead = Linked

(* The list implements the set of timers: tick fires every timer that is     *)
(* due, the earliest first, and no other.                                    *)
Abs == INSTANCE TimerSet WITH armed <- live, ticking <- (pc = "tick")

ImplementsTimerSet == Abs!Spec
=============================================================================
