--------------------------- MODULE TimerListProofs ---------------------------
(***************************************************************************)
(* Safety of sort_timer_lst for any number of timers and any delays.       *)
(*                                                                         *)
(* WellLinked speaks of neighbours only: it would also hold of a list with *)
(* a separate ring of timers, and tick would never find those.  A rank     *)
(* that grows along next excludes rings, so that the inductive invariant   *)
(* is WellLinked and Ascending together with the existence of a rank and   *)
(* what the loop of add_timer knows of its pointers.  If the timers are    *)
(* finitely many, the rank also gives that next leads from head to each of *)
(* them (NothingLost): of those that it does not lead to, one has the      *)
(* least rank, and its prev is such a timer too.                           *)
(***************************************************************************)
EXTENDS TimerList, WellFoundedInduction, FiniteSetTheorems, TLAPS

USE TimerAssumption DEF vars, links, walk, Ptr

(* next leads from lower to higher ranks.                                    *)
Ranked(r) == \A t \in Linked : next[t] # NULL => r[t] < r[next[t]]

(* No ring of timers.                                                        *)
Acyclic == \E r \in [Timers -> Nat] : Ranked(r)

(* In the walk, the timer to insert is in no list and may follow last.       *)
WalkOK ==
  pc = "walk" => /\ timer \in live /\ last \in live /\ last # timer
                 /\ tmp = next[last]
                 /\ expire[last] <= expire[timer]

ListInv == TypeOK /\ WellLinked /\ Ascending /\ WalkOK /\ Acyclic

-----------------------------------------------------------------------------
(* The strict order of the natural numbers, as a set of pairs.               *)
Less == {p \in Nat \X Nat : p[1] < p[2]}

(* A nonempty set of natural numbers has a least element.                    *)
LEMMA NatMin ==
  ASSUME NEW T, T \subseteq Nat, T # {}
  PROVE  \E m \in T : \A k \in T : m <= k
  <1>1. IsWellFoundedOn(Less, Nat)
    BY NatLessThanWellFounded DEF OpToRel, Less
  <1>2. PICK m \in T : \A k \in T : ~ (<<k, m>> \in Less)
    BY <1>1, WFMin
  <1>3. ASSUME NEW k \in T PROVE m <= k
    <2>1. ~ (<<k, m>> \in Less) /\ k \in Nat /\ m \in Nat
      BY <1>2
    <2>2. ~ (k < m)
      BY <2>1 DEF Less
    <2>3. QED
      BY <2>1, <2>2
  <1>4. QED
    BY <1>3

(* Walking back from any timer of a nonempty set of linked timers leaves the *)
(* set, or ends at the head.                                                 *)
LEMMA First ==
  ASSUME ListInv, NEW S \in SUBSET Linked, S # {}, head \notin S
  PROVE  \E u \in S : /\ prev[u] \in Linked \ S
                      /\ next[prev[u]] = u
  <1>1. PICK r \in [Timers -> Nat] : Ranked(r)
    BY DEF ListInv, Acyclic
  <1>2. S \subseteq Timers
    BY DEF ListInv, TypeOK, Linked
  <1>3. PICK m \in {r[u] : u \in S} : \A k \in {r[u] : u \in S} : m <= k
    <2>1. {r[u] : u \in S} \subseteq Nat /\ {r[u] : u \in S} # {}
      BY <1>2
    <2>2. QED
      BY <2>1, NatMin
  <1>4. PICK u \in S : r[u] = m
    BY <1>3
  <1>5. prev[u] \in Linked /\ next[prev[u]] = u
    BY DEF ListInv, WellLinked
  <1>6. prev[u] \notin S
    <2>1. u # NULL
      BY <1>2
    <2>2. r[prev[u]] < r[u]
      BY <1>1, <1>5, <2>1 DEF Ranked
    <2>3. r[prev[u]] \in Nat /\ r[u] \in Nat
      BY <1>2, <1>5 DEF ListInv, TypeOK, Linked
    <2>4. QED
      BY <1>3, <1>4, <2>2, <2>3
  <1>7. QED
    BY <1>5, <1>6

(* A head without successor is the whole list.                               *)
LEMMA OnlyHead ==
  ASSUME ListInv, head # NULL, next[head] = NULL
  PROVE  Linked = {head}
  <1>1. SUFFICES ASSUME Linked \ {head} # {} PROVE FALSE
    BY DEF ListInv, WellLinked
  <1>2. PICK u \in Linked \ {head} :
          /\ prev[u] \in Linked \ (Linked \ {head})
          /\ next[prev[u]] = u
    BY <1>1, First
  <1>3. u = NULL
    BY <1>2
  <1>4. QED
    BY <1>2, <1>3 DEF ListInv, TypeOK, Linked

(* tick may look at the head alone: no timer is due before it.               *)
LEMMA HeadEarliest ==
  ASSUME ListInv, NEW t \in Linked
  PROVE  expire[head] <= expire[t]
  <1> DEFINE S == {u \in Linked : expire[u] < expire[head]}
  <1>1. head \in Linked /\ Linked \subseteq Timers
    BY DEF ListInv, WellLinked, TypeOK, Linked
  <1>2. \A u \in Linked : expire[u] \in Nat
    BY <1>1 DEF ListInv, TypeOK
  <1>3. SUFFICES ASSUME S # {} PROVE FALSE
    BY <1>1, <1>2
  <1>4. head \notin S
    BY <1>1, <1>2
  <1>5. PICK u \in S : prev[u] \in Linked \ S /\ next[prev[u]] = u
    <2>1. S \in SUBSET Linked
      OBVIOUS
    <2> HIDE DEF S
    <2>2. QED
      BY <1>3, <1>4, <2>1, First
  <1>6. expire[prev[u]] <= expire[u]
    BY <1>1, <1>5 DEF ListInv, Ascending
  <1>7. QED
    BY <1>1, <1>2, <1>5, <1>6

-----------------------------------------------------------------------------
(* Every step keeps ListInv.                                                 *)
LEMMA ListStep == ListInv /\ [Next]_vars => ListInv'
  <1>0. SUFFICES ASSUME ListInv, [Next]_vars PROVE ListInv'
    OBVIOUS
  <1> USE DEF ListInv, TypeOK, WellLinked, Ascending, WalkOK, Linked
  <1>1. PICK r \in [Timers -> Nat] : Ranked(r)
    BY <1>0 DEF Acyclic
  <1>2. ASSUME NEW t \in Timers, NEW d \in Delays, AddFirst(t, d)
        PROVE  ListInv'
    <2>1. Ranked(r)'
      BY <1>0, <1>1, <1>2 DEF Ranked, AddFirst, New
    <2>2. QED
      BY <1>0, <1>2, <2>1 DEF Acyclic, AddFirst, New, Deadline
  <1>3. ASSUME NEW t \in Timers, NEW d \in Delays, AddBeforeHead(t, d)
        PROVE  ListInv'
    <2> DEFINE s == [u \in Timers |-> IF u = t THEN 0 ELSE r[u] + 1]
    <2>1. s \in [Timers -> Nat] /\ Ranked(s)'
      BY <1>0, <1>1, <1>3 DEF Ranked, AddBeforeHead, New
    <2> HIDE DEF s
    <2>2. Acyclic'
      BY <2>1 DEF Acyclic
    <2>3. (TypeOK /\ WalkOK)'
      BY <1>0, <1>3 DEF AddBeforeHead, New, Deadline
    <2>4. (WellLinked /\ Ascending)'
      BY <1>0, <1>3 DEF AddBeforeHead, New, Deadline
    <2>5. QED
      BY <2>2, <2>3, <2>4
  <1>4. ASSUME NEW t \in Timers, NEW d \in Delays, AddAfterHead(t, d)
        PROVE  ListInv'
    <2>1. Ranked(r)'
      BY <1>0, <1>1, <1>4 DEF Ranked, AddAfterHead, New, StartWalk
    <2>2. Acyclic'
      BY <2>1 DEF Acyclic
    <2>3. (TypeOK /\ WalkOK)'
      BY <1>0, <1>4 DEF AddAfterHead, New, Deadline, StartWalk
    <2>4. (WellLinked /\ Ascending)'
      BY <1>0, <1>4 DEF AddAfterHead, New, Deadline, StartWalk
    <2>5. QED
      BY <2>2, <2>3, <2>4
  <1>5. ASSUME NEW t \in Timers, NEW d \in Delays, AdjustInPlace(t, d)
        PROVE  ListInv'
    <2>1. Ranked(r)'
      BY <1>0, <1>1, <1>5 DEF Ranked, AdjustInPlace, PutOff
    <2>2. QED
      BY <1>0, <1>5, <2>1
      DEF Acyclic, AdjustInPlace, PutOff, InPlace, Deadline
  <1>6. ASSUME NEW t \in Timers, NEW d \in Delays, AdjustHead(t, d)
        PROVE  ListInv'
    <2>1. r[t] < r[next[t]] /\ next[t] \in Timers /\ next[t] # t
      BY <1>0, <1>1, <1>6 DEF Ranked, AdjustHead, PutOff, InPlace
    <2>2. Ranked(r)'
      BY <1>0, <1>1, <1>6, <2>1 DEF Ranked, AdjustHead, PutOff, StartWalk
    <2>3. Acyclic'
      BY <2>2 DEF Acyclic
    <2>4. (TypeOK /\ WalkOK)'
      BY <1>0, <1>6, <2>1
      DEF AdjustHead, PutOff, InPlace, Deadline, StartWalk
    <2>5. (WellLinked /\ Ascending)'
      BY <1>0, <1>6, <2>1
      DEF AdjustHead, PutOff, InPlace, Deadline, StartWalk
    <2>6. QED
      BY <2>3, <2>4, <2>5
  <1>7. ASSUME NEW t \in Timers, NEW d \in Delays, AdjustInner(t, d)
        PROVE  ListInv'
    <2>1. /\ next[t] \in Linked /\ prev[t] \in Linked
          /\ r[prev[t]] < r[t] /\ r[t] < r[next[t]]
      BY <1>0, <1>1, <1>7 DEF Ranked, AdjustInner, PutOff, InPlace
    <2>2. /\ next[t] # t /\ prev[t] # t /\ next[t] # prev[t]
          /\ next[t] \in Timers /\ prev[t] \in Timers
      BY <1>0, <1>1, <2>1
    <2>3. Ranked(r)'
      BY <1>0, <1>1, <1>7, <2>1, <2>2
      DEF Ranked, AdjustInner, PutOff, StartWalk
    <2>4. Acyclic'
      BY <2>3 DEF Acyclic
    <2>5. (TypeOK /\ WalkOK)'
      BY <1>0, <1>7, <2>1, <2>2
      DEF AdjustInner, PutOff, InPlace, Deadline, StartWalk
    <2>6. (WellLinked /\ Ascending)'
      BY <1>0, <1>7, <2>1, <2>2
      DEF AdjustInner, PutOff, InPlace, Deadline, StartWalk
    <2>7. QED
      BY <2>4, <2>5, <2>6
  <1>8. CASE WalkOn
    <2>1. Ranked(r)'
      BY <1>0, <1>1, <1>8 DEF Ranked, WalkOn
    <2>2. QED
      BY <1>0, <1>8, <2>1 DEF Acyclic, WalkOn, Before
  <1>9. CASE WalkInsert
    <2> DEFINE s == [u \in Timers |-> IF u = timer THEN 2 * r[last] + 1
                                                  ELSE 2 * r[u]]
    <2>1. /\ timer \in Timers /\ last \in Linked /\ tmp \in Linked
          /\ next[last] = tmp /\ prev[tmp] = last /\ pc = "walk"
          /\ last \in Timers /\ tmp \in Timers /\ Linked = live \ {timer}
      BY <1>0, <1>9 DEF WalkInsert
    <2>2. r[last] < r[tmp]
      BY <1>1, <2>1 DEF Ranked
    <2>3. /\ next' = [next EXCEPT ![last] = timer, ![timer] = tmp]
          /\ prev' = [prev EXCEPT ![tmp] = timer, ![timer] = last]
          /\ Linked' = live /\ UNCHANGED <<head, tail, expire, live>>
      BY <1>9 DEF WalkInsert, LinkBetween, EndWalk
    <2>4. s \in [Timers -> Nat]
      BY <1>1, <2>1
    <2>5. ASSUME NEW u \in Linked', next'[u] # NULL
          PROVE  s[u] < s[next'[u]]
      <3>1. CASE u = timer
        BY <1>0, <1>1, <2>1, <2>2, <2>3, <3>1
      <3>2. CASE u = last
        BY <1>0, <1>1, <2>1, <2>3, <3>2
      <3>3. CASE u # timer /\ u # last
        <4>1. /\ u \in Linked /\ next'[u] = next[u] /\ next[u] \in Linked
              /\ u \in Timers /\ next[u] \in Timers
          BY <1>0, <2>1, <2>3, <2>5, <3>3
        <4>2. r[u] < r[next[u]]
          BY <1>1, <2>5, <4>1 DEF Ranked
        <4>3. QED
          BY <1>1, <2>1, <3>3, <4>1, <4>2
      <3>4. QED
        BY <3>1, <3>2, <3>3
    <2>6. Acyclic'
      BY <2>4, <2>5 DEF Acyclic, Ranked
    <2> HIDE DEF s
    <2>7. (TypeOK /\ WalkOK)'
      BY <1>0, <1>9 DEF WalkInsert, LinkBetween, EndWalk
    <2>8. WellLinked'
      BY <1>0, <2>1, <2>3
    <2>9. Ascending'
      BY <1>0, <1>9, <2>1, <2>3 DEF WalkInsert, Before
    <2>10. QED
      BY <2>6, <2>7, <2>8, <2>9
  <1>10. CASE WalkAppend
    <2> DEFINE s == [u \in Timers |-> IF u = timer THEN r[last] + 1 ELSE r[u]]
    <2>1. /\ timer \in Timers /\ last \in Linked /\ last \in Timers
          /\ next[last] = NULL /\ pc = "walk" /\ Linked = live \ {timer}
      BY <1>0, <1>10 DEF WalkAppend
    <2>2. /\ next' = [next EXCEPT ![last] = timer, ![timer] = NULL]
          /\ prev' = [prev EXCEPT ![timer] = last]
          /\ tail' = timer /\ Linked' = live
          /\ UNCHANGED <<head, expire, live>>
      BY <1>10 DEF WalkAppend, LinkLast, EndWalk
    <2>3. s \in [Timers -> Nat]
      BY <1>1, <2>1
    <2>4. ASSUME NEW u \in Linked', next'[u] # NULL
          PROVE  s[u] < s[next'[u]]
      <3>1. u # timer
        BY <1>0, <2>1, <2>2, <2>4
      <3>2. CASE u = last
        BY <1>0, <1>1, <2>1, <2>2, <3>1, <3>2
      <3>3. CASE u # last
        <4>1. /\ u \in Linked /\ next'[u] = next[u] /\ next[u] \in Linked
              /\ u \in Timers /\ next[u] \in Timers
          BY <1>0, <2>1, <2>2, <2>4, <3>1, <3>3
        <4>2. r[u] < r[next[u]]
          BY <1>1, <2>4, <4>1 DEF Ranked
        <4>3. QED
          BY <1>1, <2>1, <3>1, <4>1, <4>2
      <3>4. QED
        BY <3>2, <3>3
    <2>5. Acyclic'
      BY <2>3, <2>4 DEF Acyclic, Ranked
    <2> HIDE DEF s
    <2>6. (TypeOK /\ WalkOK)'
      BY <1>0, <1>10 DEF WalkAppend, LinkLast, EndWalk
    <2>7. WellLinked'
      BY <1>0, <2>1, <2>2
    <2>8. Ascending'
      BY <1>0, <1>10, <2>1, <2>2 DEF WalkAppend
    <2>9. QED
      BY <2>5, <2>6, <2>7, <2>8
  <1>11. ASSUME NEW t \in Timers, DelOnly(t) PROVE ListInv'
    <2>1. Linked = {t}
      BY <1>0, <1>11, OnlyHead DEF DelOnly, Delete
    <2>2. Ranked(r)'
      BY <1>0, <1>11, <2>1 DEF Ranked, DelOnly, Delete
    <2>3. QED
      BY <1>0, <1>11, <2>1, <2>2 DEF Acyclic, DelOnly, Delete
  <1>12. ASSUME NEW t \in Timers, DelHead(t) PROVE ListInv'
    <2>1. r[t] < r[next[t]] /\ next[t] \in Timers /\ next[t] # t
      BY <1>0, <1>1, <1>12 DEF Ranked, DelHead, Delete
    <2>2. Ranked(r)'
      BY <1>0, <1>1, <1>12, <2>1 DEF Ranked, DelHead, Delete
    <2>3. QED
      BY <1>0, <1>12, <2>1, <2>2 DEF Acyclic, DelHead, Delete
  <1>13. ASSUME NEW t \in Timers, DelTail(t) PROVE ListInv'
    <2>1. /\ prev[t] \in Linked /\ next[prev[t]] = t /\ prev[t] # t
          /\ prev[t] \in Timers
      BY <1>0, <1>1, <1>13 DEF Ranked, DelTail, Delete
    <2>2. Ranked(r)'
      BY <1>0, <1>1, <1>13, <2>1 DEF Ranked, DelTail, Delete
    <2>3. QED
      BY <1>0, <1>13, <2>1, <2>2 DEF Acyclic, DelTail, Delete
  <1>14. ASSUME NEW t \in Timers, DelInner(t) PROVE ListInv'
    <2>1. /\ next[t] \in Linked /\ prev[t] \in Linked
          /\ r[prev[t]] < r[t] /\ r[t] < r[next[t]]
      BY <1>0, <1>1, <1>14 DEF Ranked, DelInner, Delete
    <2>2. /\ next[t] # t /\ prev[t] # t /\ next[t] # prev[t]
          /\ next[t] \in Timers /\ prev[t] \in Timers
      BY <1>0, <1>1, <2>1
    <2>3. Ranked(r)'
      BY <1>0, <1>1, <1>14, <2>1, <2>2 DEF Ranked, DelInner, Delete
    <2>4. Acyclic'
      BY <2>3 DEF Acyclic
    <2>5. (TypeOK /\ WalkOK)'
      BY <1>0, <1>14 DEF DelInner, Delete
    <2>6. (WellLinked /\ Ascending)'
      BY <1>0, <1>14, <2>1, <2>2 DEF DelInner, Delete
    <2>7. QED
      BY <2>4, <2>5, <2>6
  <1>15. CASE TickStart
    BY <1>0, <1>15 DEF Acyclic, Ranked, TickStart
  <1>16. CASE TickFire
    <2>1. head \in Timers /\ next[head] # head
      BY <1>0, <1>1, <1>16 DEF Ranked, TickFire
    <2>2. next[head] = NULL => Linked = {head}
      BY <1>0, <1>16, OnlyHead DEF TickFire
    <2>3. Ranked(r)'
      BY <1>0, <1>1, <1>16, <2>1 DEF Ranked, TickFire, PopHead
    <2>4. QED
      BY <1>0, <1>16, <2>1, <2>2, <2>3 DEF Acyclic, TickFire, PopHead
  <1>17. CASE TickEnd
    BY <1>0, <1>17 DEF Acyclic, Ranked, TickEnd
  <1>18. CASE Clock
    BY <1>0, <1>18 DEF Acyclic, Ranked, Clock
  <1>19. CASE UNCHANGED vars
    BY <1>0, <1>19 DEF Acyclic, Ranked
  <1>20. QED
    BY <1>0, <1>2, <1>3, <1>4, <1>5, <1>6, <1>7, <1>8, <1>9, <1>10, <1>11,
       <1>12, <1>13, <1>14, <1>15, <1>16, <1>17, <1>18, <1>19
    DEF Next, Add, Adjust, Walk, Del, Tick

(* The list is empty before the first timer.                                 *)
LEMMA ListInit == Init => ListInv
  <1>1. SUFFICES ASSUME Init PROVE ListInv
    OBVIOUS
  <1>2. [t \in Timers |-> 0] \in [Timers -> Nat]
    OBVIOUS
  <1>3. Acyclic
    BY <1>1, <1>2 DEF Init, Acyclic, Ranked, Linked
  <1>4. QED
    BY <1>1, <1>3
    DEF Init, ListInv, TypeOK, WellLinked, Ascending, WalkOK, Linked

(* The invariant the theorems below are parts of.                            *)
LEMMA ListInvariant == Spec => []ListInv
  <1>1. QED
    BY ListInit, ListStep, PTL DEF Spec

(* Every variable of the list keeps its type (timer/lst_timer.h).            *)
THEOREM ListTypeCorrect == Spec => []TypeOK
  <1>1. ListInv => TypeOK
    BY DEF ListInv
  <1>2. QED
    BY <1>1, ListInvariant, PTL

(* next and prev stay each other's inverse and lead only to timers that were *)
(* not deleted, through add_timer, adjust_timer, del_timer and tick.         *)
THEOREM ListWellLinked == Spec => []WellLinked
  <1>1. ListInv => WellLinked
    BY DEF ListInv
  <1>2. QED
    BY <1>1, ListInvariant, PTL

(* The list stays ascending by expire, which is what tick relies on.         *)
THEOREM ListAscending == Spec => []Ascending
  <1>1. ListInv => Ascending
    BY DEF ListInv
  <1>2. QED
    BY <1>1, ListInvariant, PTL

-----------------------------------------------------------------------------
(* Every step of the list is a step of the set of timers, or changes nothing *)
(* of it: each call takes effect in one step, and the walk only links.       *)
LEMMA ListRefines == ListInv /\ [Next]_vars => [Abs!Next]_Abs!vars
  <1>0. SUFFICES ASSUME ListInv, [Next]_vars PROVE [Abs!Next]_Abs!vars
    OBVIOUS
  <1>1. ASSUME NEW t \in Timers, NEW d \in Delays, Add(t, d)
        PROVE  Abs!AddTimer(t)
    BY <1>1
    DEF Add, AddFirst, AddBeforeHead, AddAfterHead, New, Deadline, StartWalk,
        Abs!AddTimer
  <1>2. ASSUME NEW t \in Timers, NEW d \in Delays, Adjust(t, d)
        PROVE  Abs!AdjustTimer(t)
    BY <1>2
    DEF Adjust, AdjustInPlace, AdjustHead, AdjustInner, PutOff, Deadline,
        StartWalk, Abs!AdjustTimer
  <1>3. CASE Walk
    BY <1>3 DEF Walk, WalkOn, WalkInsert, WalkAppend, EndWalk, Abs!vars
  <1>4. ASSUME NEW t \in Timers, Del(t) PROVE Abs!DelTimer(t)
    BY <1>4 DEF Del, DelOnly, DelHead, DelTail, DelInner, Delete, Abs!DelTimer
  <1>5. CASE TickStart
    BY <1>5 DEF TickStart, Abs!TickStart, Abs!Next
  <1>6. CASE TickFire
    <2>1. Linked = live /\ head \in live /\ head \in Timers
      BY <1>0, <1>6 DEF TickFire, ListInv, TypeOK, WellLinked, Linked
    <2>2. \A u \in live : expire[head] <= expire[u]
      BY <1>0, <2>1, HeadEarliest
    <2>3. Abs!Fire(head)
      BY <1>6, <2>1, <2>2 DEF TickFire, Due, Abs!Fire
    <2>4. QED
      BY <2>1, <2>3 DEF Abs!Next
  <1>7. CASE TickEnd
    <2>1. Linked = live /\ live \subseteq Timers /\ cur \in Nat
          /\ \A u \in Timers : expire[u] \in Nat
      BY <1>0, <1>7 DEF TickEnd, ListInv, TypeOK, Linked
    <2>2. \A u \in live : expire[u] > cur
      <3>1. CASE head = NULL
        BY <1>0, <2>1, <3>1 DEF ListInv, WellLinked
      <3>2. CASE head # NULL
        <4>1. ~ (expire[head] <= cur) /\ head \in Timers
          BY <1>0, <1>7, <3>2 DEF TickEnd, Due, ListInv, TypeOK
        <4>2. \A u \in live : expire[head] <= expire[u]
          BY <1>0, <2>1, HeadEarliest
        <4>3. QED
          BY <2>1, <4>1, <4>2
      <3>3. QED
        BY <3>1, <3>2
    <2>3. QED
      BY <1>7, <2>2 DEF TickEnd, Abs!TickEnd, Abs!Next
  <1>8. CASE Clock
    BY <1>8 DEF Clock, Abs!Clock, Abs!Next
  <1>9. CASE UNCHANGED vars
    BY <1>9 DEF Abs!vars
  <1>10. QED
    BY <1>0, <1>1, <1>2, <1>3, <1>4, <1>5, <1>6, <1>7, <1>8, <1>9
    DEF Next, Tick, Abs!Next

(* sort_timer_lst implements the set of timers of TimerSet: tick fires every *)
(* timer that is due when it reads the clock, the earliest first, no other.  *)
THEOREM ListImplementsSet == Spec => ImplementsTimerSet
  <1>1. Init => Abs!Init
    BY DEF Init, Abs!Init
  <1>2. ListInv /\ [Next]_vars => [Abs!Next]_Abs!vars
    BY ListRefines
  <1>3. QED
    BY <1>1, <1>2, ListInvariant, PTL DEF Spec, ImplementsTimerSet, Abs!Spec

-----------------------------------------------------------------------------
(* Following next from head.                                                 *)

(* Where the first n links lead, from head on.                               *)
Follows(f, n) ==
  f = [i \in 0..n |-> IF i = 0 THEN head
                      ELSE IF f[i - 1] = NULL THEN NULL ELSE next[f[i - 1]]]

(* There is such a function: one more link can always be followed.           *)
LEMMA LinksFollowed ==
  ASSUME NEW n \in Nat
  PROVE  \E f : Follows(f, n)
  <1> DEFINE T == {k \in Nat : ~ \E f : Follows(f, k)}
  <1>1. SUFFICES ASSUME T # {} PROVE FALSE
    OBVIOUS
  <1>2. T \subseteq Nat
    OBVIOUS
  <1>3. PICK m \in T : \A k \in T : m <= k
    BY <1>1, <1>2, NatMin
  <1>4. m # 0
    <2>1. 0..0 = {0}
      OBVIOUS
    <2>2. Follows([i \in 0..0 |-> head], 0)
      BY <2>1 DEF Follows
    <2>3. QED
      BY <2>2
  <1>5. m - 1 \in Nat /\ m \in Nat /\ ~(m <= m - 1)
    BY <1>4
  <1>6. PICK f : Follows(f, m - 1)
    <2>1. m - 1 \notin T
      BY <1>3, <1>5
    <2>2. QED
      BY <1>5, <2>1
  <1>7. PICK x : x = IF f[m - 1] = NULL THEN NULL ELSE next[f[m - 1]]
    OBVIOUS
  <1> DEFINE g == [i \in 0..m |-> IF i = m THEN x ELSE f[i]]
  <1>8. ASSUME NEW i \in 0..m
        PROVE  g[i] = IF i = 0 THEN head
                      ELSE IF g[i - 1] = NULL THEN NULL ELSE next[g[i - 1]]
    <2>1. CASE i = m
      <3>1. i # 0 /\ i - 1 \in 0..m /\ i - 1 # m /\ i - 1 = m - 1
        BY <1>4, <1>5, <2>1
      <3>2. g[i] = x /\ g[i - 1] = f[m - 1]
        BY <2>1, <3>1
      <3>3. QED
        BY <1>7, <3>1, <3>2
    <2>2. CASE i # m
      <3>1. i \in 0..(m - 1)
        BY <1>5, <2>2
      <3>2. f[i] = IF i = 0 THEN head
                   ELSE IF f[i - 1] = NULL THEN NULL ELSE next[f[i - 1]]
        BY <1>6, <3>1 DEF Follows
      <3>3. g[i] = f[i]
        BY <2>2
      <3>4. i # 0 => g[i - 1] = f[i - 1]
        <4>1. i # 0 => i - 1 \in 0..m /\ i - 1 # m
          BY <1>5, <3>1
        <4>2. QED
          BY <4>1
      <3>5. QED
        BY <3>2, <3>3, <3>4
    <2>3. QED
      BY <2>1, <2>2
  <1>9. Follows(g, m)
    <2> DEFINE h == [i \in 0..m |-> IF i = 0 THEN head
                       ELSE IF g[i - 1] = NULL THEN NULL ELSE next[g[i - 1]]]
    <2>1. DOMAIN g = 0..m /\ DOMAIN h = 0..m
      OBVIOUS
    <2>2. \A i \in 0..m : g[i] = h[i]
      BY <1>8
    <2>3. g = h
      BY <2>2
    <2>4. QED
      BY <2>3 DEF Follows
  <1>10. QED
    BY <1>9

(* They lead to linked timers, and then to the null pointer; with a rank, to *)
(* no timer twice.                                                           *)
LEMMA FollowsRank ==
  ASSUME ListInv, NEW r \in [Timers -> Nat], Ranked(r),
         NEW n \in Nat, NEW f, Follows(f, n)
  PROVE  \A i \in 0..n :
           /\ f[i] \in Linked \cup {NULL}
           /\ f[i] # NULL =>
                \A j \in 0..(i - 1) : f[j] # NULL /\ r[f[j]] < r[f[i]]
  <1> DEFINE P(i) == /\ f[i] \in Linked \cup {NULL}
                     /\ f[i] # NULL =>
                          \A j \in 0..(i - 1) :
                            f[j] # NULL /\ r[f[j]] < r[f[i]]
             T == {i \in 0..n : ~P(i)}
  <1>1. SUFFICES ASSUME T # {} PROVE FALSE
    OBVIOUS
  <1>2. T \subseteq Nat
    OBVIOUS
  <1>3. PICK m \in T : \A k \in T : m <= k
    BY <1>1, <1>2, NatMin
  <1>4. Linked \subseteq Timers /\ NULL \notin Linked
    BY DEF ListInv, TypeOK, Linked
  <1>5. \A i \in 0..n :
          f[i] = IF i = 0 THEN head
                 ELSE IF f[i - 1] = NULL THEN NULL ELSE next[f[i - 1]]
    BY DEF Follows
  <1>6. m # 0
    <2>1. SUFFICES ASSUME m = 0 PROVE P(0)
      OBVIOUS
    <2>2. f[0] = head /\ 0..(0 - 1) = {}
      BY <1>5
    <2>3. head \in Linked \cup {NULL}
      BY DEF ListInv, WellLinked
    <2>4. QED
      BY <2>2, <2>3
  <1>7. /\ m \in 0..n /\ m - 1 \in 0..n /\ m \in Nat /\ m - 1 \in Nat
        /\ ~(m <= m - 1)
    BY <1>6
  <1>8. P(m - 1)
    BY <1>3, <1>7
  <1>9. f[m] = IF f[m - 1] = NULL THEN NULL ELSE next[f[m - 1]]
    BY <1>5, <1>6, <1>7
  <1>10. P(m)
    <2>1. CASE f[m - 1] = NULL
      BY <1>9, <2>1
    <2>2. CASE f[m - 1] # NULL
      <3>1. f[m - 1] \in Linked /\ f[m] = next[f[m - 1]]
        BY <1>8, <1>9, <2>2
      <3>2. f[m] \in Linked \cup {NULL}
        BY <3>1 DEF ListInv, WellLinked
      <3>3. ASSUME f[m] # NULL, NEW j \in 0..(m - 1)
            PROVE  f[j] # NULL /\ r[f[j]] < r[f[m]]
        <4>1. r[f[m - 1]] < r[f[m]]
          BY <3>1, <3>3 DEF Ranked
        <4>2. CASE j = m - 1
          BY <2>2, <4>1, <4>2
        <4>3. CASE j # m - 1
          <5>1. j \in 0..(m - 1 - 1)
            BY <1>7, <4>3
          <5>2. f[j] # NULL /\ r[f[j]] < r[f[m - 1]]
            BY <1>8, <2>2, <5>1
          <5>3. f[j] \in Timers /\ f[m] \in Timers /\ f[m - 1] \in Timers
            <6>1. j \in 0..n /\ ~(m <= j)
              BY <1>7, <4>3
            <6>2. P(j)
              BY <1>3, <6>1
            <6>3. QED
              BY <1>4, <3>1, <3>2, <3>3, <5>2, <6>2
          <5>4. r[f[j]] \in Nat /\ r[f[m]] \in Nat /\ r[f[m - 1]] \in Nat
            BY <5>3
          <5>5. QED
            BY <4>1, <5>2, <5>4
        <4>4. QED
          BY <4>2, <4>3
      <3>4. QED
        BY <3>2, <3>3
    <2>3. QED
      BY <2>1, <2>2
  <1>11. QED
    BY <1>3, <1>10

(* No util_timer is leaked: add_timer, adjust_timer and del_timer keep every *)
(* one that is not deleted within reach of head.  There are as many links to *)
(* follow as timers, so that there must be finitely many.                    *)
THEOREM ListLosesNothing ==
  ASSUME IsFiniteSet(Timers)
  PROVE  Spec => []NothingLost
  <1>1. ASSUME ListInv PROVE NothingLost
    <2> DEFINE n == Cardinality(Timers)
               Nth == CHOOSE f : Follows(f, n)
    <2>1. n \in Nat
      BY FS_CardinalityType
    <2>2. FromHead = {Nth[i] : i \in 0..n} \ {NULL}
      BY DEF FromHead, Follows
    <2>3. Follows(Nth, n)
      BY <2>1, LinksFollowed
    <2> HIDE DEF Nth, n
    <2>4. PICK r \in [Timers -> Nat] : Ranked(r)
      BY <1>1 DEF ListInv, Acyclic
    <2>5. Linked \subseteq Timers /\ NULL \notin Linked
      BY <1>1 DEF ListInv, TypeOK, Linked
    <2>6. \A i \in 0..n :
            /\ Nth[i] \in Linked \cup {NULL}
            /\ Nth[i] # NULL =>
                 \A j \in 0..(i - 1) : Nth[j] # NULL /\ r[Nth[j]] < r[Nth[i]]
      BY <1>1, <2>1, <2>3, <2>4, FollowsRank
    <2>7. FromHead \subseteq Linked
      BY <2>2, <2>6
    <2>8. Nth[n] = NULL
      <3>1. SUFFICES ASSUME Nth[n] # NULL PROVE FALSE
        OBVIOUS
      <3>2. \A i \in 0..n : Nth[i] \in Timers
        <4>1. ASSUME NEW i \in 0..n PROVE Nth[i] # NULL
          BY <2>1, <2>6, <3>1
        <4>2. QED
          BY <2>5, <2>6, <4>1
      <3> DEFINE g == [i \in 0..n |-> Nth[i]]
      <3>3. g \in [0..n -> Timers]
        BY <3>2
      <3>4. IsFiniteSet(0..n) /\ Cardinality(Timers) < Cardinality(0..n)
        <4>1. 0 \in Int /\ n \in Int /\ ~(0 > n) /\ n < n - 0 + 1
          BY <2>1
        <4>2. IsFiniteSet(0..n) /\ Cardinality(0..n) = n - 0 + 1
          BY <4>1, FS_Interval
        <4>3. QED
          BY <4>1, <4>2 DEF n
      <3> HIDE DEF g
      <3>5. PICK i \in 0..n, j \in 0..n : i # j /\ g[i] = g[j]
        BY <3>3, <3>4, FS_PigeonHole
      <3>6. r[Nth[i]] \in Nat /\ r[Nth[j]] \in Nat
        BY <3>2
      <3>7. i \in 0..(j - 1) \/ j \in 0..(i - 1)
        BY <2>1, <3>5
      <3>8. Nth[i] # NULL /\ Nth[j] # NULL
        BY <3>2
      <3>9. Nth[i] = Nth[j]
        BY <3>5 DEF g
      <3>10. QED
        BY <2>6, <3>6, <3>7, <3>8, <3>9
    <2>9. Linked \subseteq FromHead
      <3> DEFINE S == Linked \ FromHead
      <3>1. SUFFICES ASSUME S # {} PROVE FALSE
        OBVIOUS
      <3>2. head \notin S
        <4>1. 0 \in 0..n /\ Nth[0] = head
          BY <2>1, <2>3 DEF Follows
        <4>2. QED
          BY <2>2, <2>5, <4>1
      <3>3. PICK u \in S : prev[u] \in Linked \ S /\ next[prev[u]] = u
        BY <1>1, <3>1, <3>2, First
      <3>4. prev[u] \in FromHead
        BY <3>3
      <3>5. PICK i \in 0..n : Nth[i] = prev[u]
        BY <2>2, <3>4
      <3>6. prev[u] # NULL
        BY <2>5, <3>3
      <3>7. i # n
        BY <2>8, <3>5, <3>6
      <3>8. i + 1 \in 0..n /\ i + 1 # 0 /\ i + 1 - 1 = i
        BY <2>1, <3>7
      <3>9. Nth[i + 1] = IF Nth[i] = NULL THEN NULL ELSE next[Nth[i]]
        <4>1. \A j \in 0..n :
                Nth[j] = IF j = 0 THEN head
                         ELSE IF Nth[j - 1] = NULL THEN NULL
                         ELSE next[Nth[j - 1]]
          BY <2>3 DEF Follows
        <4>2. QED
          BY <3>8, <4>1
      <3>10. Nth[i + 1] = u
        BY <3>3, <3>5, <3>6, <3>9
      <3>11. u # NULL
        BY <2>5
      <3>12. u \in FromHead
        BY <2>2, <3>8, <3>10, <3>11
      <3>13. QED
        BY <3>12
    <2>10. QED
      BY <2>7, <2>9 DEF NothingLost
  <1>2. QED
    BY <1>1, ListInvariant, PTL
=============================================================================
