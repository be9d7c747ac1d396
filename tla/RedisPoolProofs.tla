-------------------------- MODULE RedisPoolProofs --------------------------
(***************************************************************************)
(* What every step of the redis connection pool preserves, for any number  *)
(* of workers and of connections.  AccountsProofs uses these lemmas for    *)
(* the steps of the whole.                                                 *)
(***************************************************************************)
EXTENDS RedisPool, SequenceTheorems, FiniteSetTheorems, TLAPS

(* Only between pop and release does a worker hold a connection.             *)
HoldInv ==
  /\ redis \in [Workers -> Nat \cup {None}]
  /\ \A w \in Workers : redis[w] # None => rstep[w] = "hold"

(* No connection is lost once init has connected them all, and while nobody  *)
(* pops the empty deque.                                                     *)
ConnInv ==
  ~emptied =>
    /\ ahead = 0
    /\ m_MaxConn # None => m_MaxConn = Len(connDeque) + Cardinality(Holders)

RedisInv == RedisTypeOK /\ HoldInv /\ OneHolder /\ ConnInv

(* A step of worker w in the pool.                                           *)
RedisStep(w) == LoadEnd(w) \/ Getting(w) \/ WaitInterrupted(w) \/ Releasing(w)

-----------------------------------------------------------------------------
(* The sets of workers that are counted are finite.                          *)
LEMMA CountsFinite ==
  /\ IsFiniteSet(Holders) /\ Cardinality(Holders) \in Nat
  /\ \A s : IsFiniteSet(In(s)) /\ Cardinality(In(s)) \in Nat
  /\ Cardinality(Workers) \in Nat
  <1>1. Holders \subseteq Workers /\ \A s : In(s) \subseteq Workers
    BY DEF Holders, In
  <1>2. QED
    BY <1>1, RedisAssumption, FS_Subset, FS_CardinalityType

(* The cardinality of a disjoint union.                                      *)
LEMMA DisjointUnion ==
  ASSUME NEW S, NEW R, IsFiniteSet(S), IsFiniteSet(R), S \cap R = {}
  PROVE  /\ IsFiniteSet(S \cup R)
         /\ Cardinality(S \cup R) = Cardinality(S) + Cardinality(R)
  <1>1. Cardinality(S) \in Nat /\ Cardinality(R) \in Nat
    BY FS_CardinalityType
  <1>2. Cardinality(S \cap R) = 0
    BY FS_EmptySet
  <1>3. /\ IsFiniteSet(S \cup R)
        /\ Cardinality(S \cup R)
           = Cardinality(S) + Cardinality(R) - Cardinality(S \cap R)
    BY FS_Union
  <1>4. QED
    BY <1>1, <1>2, <1>3

(* A worker that goes on is counted at its new place, no more at the old one,*)
(* and nobody else moves.                                                    *)
LEMMA GoCounts ==
  ASSUME rstep \in [Workers -> Steps], NEW w \in Workers, NEW r, NEW s,
         rstep[w] = r, r # s, Go(w, s)
  PROVE  /\ Cardinality(In(s))' = Cardinality(In(s)) + 1
         /\ Cardinality(In(r))' = Cardinality(In(r)) - 1
         /\ \A q : q # r /\ q # s => In(q)' = In(q)
  <1>1. \A v \in Workers : rstep'[v] = IF v = w THEN s ELSE rstep[v]
    BY DEF Go
  <1>2. In(s)' = In(s) \cup {w} /\ w \notin In(s)
    BY <1>1 DEF In
  <1>3. In(r)' = In(r) \ {w} /\ w \in In(r)
    BY <1>1 DEF In
  <1>4. ASSUME NEW q, q # r, q # s PROVE In(q)' = In(q)
    BY <1>1, <1>4 DEF In
  <1>5. Cardinality(In(s))' = Cardinality(In(s)) + 1
    BY <1>2, CountsFinite, FS_AddElement
  <1>6. Cardinality(In(r))' = Cardinality(In(r)) - 1
    BY <1>3, CountsFinite, FS_RemoveElement
  <1>7. QED
    BY <1>4, <1>5, <1>6

(* Workers at different places are different workers.                        *)
LEMMA PlacesAddUp ==
  ASSUME HoldInv
  PROVE  Cardinality(In("wait")) + Cardinality(In("pop"))
         + Cardinality(In("post")) + Cardinality(Holders)
           <= Cardinality(Workers)
  <1> DEFINE A == In("wait") \cup In("pop")
             B == In("post") \cup Holders
  <1>1. /\ In("wait") \cap In("pop") = {}
        /\ In("post") \cap Holders = {}
        /\ A \cap B = {}
        /\ A \cup B \subseteq Workers
    BY DEF In, Holders, HoldInv
  <1>2. /\ IsFiniteSet(A)
        /\ Cardinality(A) = Cardinality(In("wait")) + Cardinality(In("pop"))
    BY <1>1, CountsFinite, DisjointUnion
  <1>3. /\ IsFiniteSet(B)
        /\ Cardinality(B) = Cardinality(In("post")) + Cardinality(Holders)
    BY <1>1, CountsFinite, DisjointUnion
  <1>4. Cardinality(A \cup B) = Cardinality(A) + Cardinality(B)
    BY <1>1, <1>2, <1>3, DisjointUnion
  <1>5. Cardinality(A \cup B) <= Cardinality(Workers)
    BY <1>1, RedisAssumption, FS_Subset
  <1>6. QED
    BY <1>2, <1>3, <1>4, <1>5, CountsFinite

-----------------------------------------------------------------------------
(* The first of distinct elements is not among the rest.                     *)
LEMMA HeadIsApart ==
  ASSUME NEW S, NEW q \in Seq(S), q # <<>>,
         \A i, j \in DOMAIN q : q[i] = q[j] => i = j
  PROVE  /\ Head(q) \in Range(q) /\ Head(q) \notin Range(Tail(q))
         /\ Range(Tail(q)) \subseteq Range(q)
         /\ Tail(q) \in Seq(S) /\ Len(Tail(q)) = Len(q) - 1
         /\ \A i, j \in DOMAIN Tail(q) : Tail(q)[i] = Tail(q)[j] => i = j
  <1>1. /\ Len(q) \in Nat \ {0} /\ DOMAIN q = 1..Len(q)
        /\ Head(q) = q[1]
    BY EmptySeq, LenProperties, HeadTailProperties
  <1>2. /\ Tail(q) \in Seq(S) /\ Len(Tail(q)) = Len(q) - 1
        /\ \A i \in 1..Len(Tail(q)) : Tail(q)[i] = q[i + 1]
    BY HeadTailProperties
  <1>3. DOMAIN Tail(q) = 1..(Len(q) - 1)
    BY <1>2, LenProperties
  <1>4. \A i \in DOMAIN Tail(q) : i + 1 \in DOMAIN q /\ i + 1 # 1
                                  /\ Tail(q)[i] = q[i + 1]
    BY <1>1, <1>2, <1>3
  <1>5. 1 \in DOMAIN q
    BY <1>1
  <1>6. Head(q) \in Range(q)
    BY <1>1, <1>5 DEF Range
  <1>7. Head(q) \notin Range(Tail(q))
    BY <1>1, <1>4, <1>5 DEF Range
  <1>8. Range(Tail(q)) \subseteq Range(q)
    BY <1>4 DEF Range
  <1>9. ASSUME NEW i \in DOMAIN Tail(q), NEW j \in DOMAIN Tail(q),
               Tail(q)[i] = Tail(q)[j]
        PROVE  i = j
    <2>1. i + 1 = j + 1
      BY <1>4, <1>9
    <2>2. QED
      BY <1>3, <2>1
  <1>10. QED
    BY <1>2, <1>6, <1>7, <1>8, <1>9

(* A new element at the end of distinct ones leaves them distinct.           *)
LEMMA AppendNew ==
  ASSUME NEW S, NEW q \in Seq(S), NEW x \in S, x \notin Range(q),
         \A i, j \in DOMAIN q : q[i] = q[j] => i = j
  PROVE  /\ Append(q, x) \in Seq(S) /\ Len(Append(q, x)) = Len(q) + 1
         /\ Range(Append(q, x)) = Range(q) \cup {x}
         /\ \A i, j \in DOMAIN Append(q, x) :
              Append(q, x)[i] = Append(q, x)[j] => i = j
  <1> DEFINE a == Append(q, x)
  <1>1. /\ Len(q) \in Nat /\ DOMAIN q = 1..Len(q)
        /\ a \in Seq(S) /\ Len(a) = Len(q) + 1
        /\ \A i \in 1..Len(q) : a[i] = q[i]
        /\ a[Len(q) + 1] = x
    BY AppendProperties, LenProperties
  <1>2. /\ DOMAIN a = 1..(Len(q) + 1)
        /\ DOMAIN a = DOMAIN q \cup {Len(q) + 1}
        /\ Len(q) + 1 \notin DOMAIN q
    BY <1>1, LenProperties
  <1> HIDE DEF a
  <1>3. Range(a) = Range(q) \cup {x}
    BY <1>1, <1>2 DEF Range
  <1>4. \A i, j \in DOMAIN a : a[i] = a[j] => i = j
    BY <1>1, <1>2 DEF Range
  <1>5. QED
    BY <1>1, <1>3, <1>4 DEF a

-----------------------------------------------------------------------------
(* A step that moves no connection.                                          *)
LEMMA StepKeeps ==
  ASSUME RedisInv, NEW w \in Workers, NEW s \in Steps, Go(w, s),
         redis[w] = None,
         UNCHANGED <<connDeque, m_FreeConn, m_CurConn, m_MaxConn, redis>>,
         UNCHANGED <<ahead, emptied>>,
         reserve' \in Nat, seen' \in [Workers -> Int], eintr' \in BOOLEAN
  PROVE  RedisInv'
  <1>1. rstep' \in [Workers -> Steps]
    BY DEF Go, RedisInv, RedisTypeOK
  <1>2. RedisTypeOK'
    BY <1>1 DEF RedisInv, RedisTypeOK
  <1>3. HoldInv'
    BY DEF RedisInv, HoldInv, Go, RedisTypeOK
  <1>4. OneHolder' /\ ConnInv'
    BY DEF RedisInv, OneHolder, ConnInv, Holders
  <1>5. QED
    BY <1>2, <1>3, <1>4 DEF RedisInv

(* Pop: a connection leaves the deque and has one holder.                    *)
LEMMA PopKeeps ==
  ASSUME RedisInv, NEW w \in Workers, Pop(w)
  PROVE  RedisInv'
  <1>1. PICK con \in Nat \cup {None} : redis' = [redis EXCEPT ![w] = con]
    <2>1. CASE TakeFront(w)
      <3>1. /\ connDeque \in Seq(Nat) /\ connDeque # <<>>
            /\ redis' = [redis EXCEPT ![w] = Head(connDeque)]
        BY <2>1 DEF TakeFront, RedisInv, RedisTypeOK
      <3>2. Head(connDeque) \in Nat
        BY <3>1, HeadTailProperties
      <3>3. QED
        BY <3>1, <3>2
    <2>2. CASE TakeNothing(w)
      <3>1. PICK con \in {None} \cup 0..(m_FreeConn + m_CurConn) :
              redis' = [redis EXCEPT ![w] = con]
        BY <2>2 DEF TakeNothing
      <3>2. con \in Nat \cup {None}
        BY DEF RedisInv, RedisTypeOK
      <3>3. QED
        BY <3>1, <3>2
    <2>3. QED
      BY <2>1, <2>2 DEF Pop
  <1>2. /\ rstep[w] = "pop" /\ rstep' = [rstep EXCEPT ![w] = "hold"]
        /\ m_FreeConn' = m_FreeConn - 1 /\ m_CurConn' = m_CurConn + 1
        /\ UNCHANGED <<reserve, m_MaxConn, eintr>>
    BY DEF Pop, Go
  <1>3. HoldInv'
    BY <1>1, <1>2 DEF RedisInv, HoldInv, RedisTypeOK
  <1>4. RedisTypeOK'
    <2>1. seen' \in [Workers -> Int]
      BY DEF Pop, RedisInv, RedisTypeOK
    <2>2. rstep' \in [Workers -> Steps]
      BY <1>2 DEF RedisInv, RedisTypeOK, Steps
    <2>3. redis' \in [Workers -> Nat \cup {None}]
      BY <1>3 DEF HoldInv
    <2>4. /\ connDeque' \in Seq(Nat) /\ emptied' \in BOOLEAN
          /\ ahead' \in Nat /\ (ahead' > 0 => connDeque' = <<>>)
      <3>1. CASE TakeFront(w)
        <4>1. /\ connDeque \in Seq(Nat) /\ connDeque # <<>>
              /\ connDeque' = Tail(connDeque)
              /\ UNCHANGED <<ahead, emptied>>
          BY <3>1 DEF TakeFront, RedisInv, RedisTypeOK
        <4>2. connDeque' \in Seq(Nat) /\ ahead \in Nat /\ ~(ahead > 0)
          BY <4>1, HeadTailProperties DEF RedisInv, RedisTypeOK
        <4>3. QED
          BY <4>1, <4>2 DEF RedisInv, RedisTypeOK
      <3>2. CASE TakeNothing(w)
        BY <3>2 DEF TakeNothing, RedisInv, RedisTypeOK
      <3>3. QED
        BY <3>1, <3>2 DEF Pop
    <2>5. QED
      BY <1>2, <2>1, <2>2, <2>3, <2>4 DEF RedisInv, RedisTypeOK
  <1>5. CASE emptied'
    BY <1>3, <1>4, <1>5 DEF RedisInv, OneHolder, ConnInv
  <1>6. CASE ~emptied'
    <2> DEFINE c == Head(connDeque)
    <2>1. TakeFront(w) /\ ~emptied
      BY <1>6 DEF Pop, TakeFront, TakeNothing
    <2>2. /\ connDeque \in Seq(Nat) /\ connDeque # <<>>
          /\ \A i, j \in DOMAIN connDeque :
               connDeque[i] = connDeque[j] => i = j
      BY <2>1 DEF RedisInv, RedisTypeOK, OneHolder, TakeFront
    <2>3. /\ c \in Range(connDeque) /\ c \in Nat
          /\ c \notin Range(Tail(connDeque))
          /\ Range(Tail(connDeque)) \subseteq Range(connDeque)
          /\ Len(Tail(connDeque)) = Len(connDeque) - 1
          /\ \A i, j \in DOMAIN Tail(connDeque) :
               Tail(connDeque)[i] = Tail(connDeque)[j] => i = j
      BY <2>2, HeadIsApart, HeadTailProperties
    <2> HIDE DEF c
    <2>4. /\ connDeque' = Tail(connDeque) /\ ahead' = ahead
          /\ redis' = [redis EXCEPT ![w] = c]
      BY <2>1 DEF TakeFront, c
    <2>5. redis[w] = None /\ c # None
      BY <1>2, <2>3, RedisAssumption DEF RedisInv, HoldInv
    <2>6. \A v \in Workers : redis'[v] = IF v = w THEN c ELSE redis[v]
      BY <2>4 DEF RedisInv, HoldInv
    <2>7. /\ Holders' = Holders \cup {w} /\ w \notin Holders
          /\ Holders \subseteq Workers
      BY <2>5, <2>6 DEF Holders
    <2>8. Cardinality(Holders)' = Cardinality(Holders) + 1
      BY <2>7, CountsFinite, FS_AddElement
    <2>9. OneHolder'
      <3>1. /\ \A v, u \in Holders : redis[v] = redis[u] => v = u
            /\ \A v \in Holders : redis[v] \notin Range(connDeque)
            /\ m_FreeConn = Len(connDeque)
            /\ m_CurConn = Cardinality(Holders)
        BY <2>1 DEF RedisInv, OneHolder
      <3>2. \A v \in Holders : redis[v] # c
        BY <2>3, <3>1
      <3>3. \A v, u \in Holders' : redis'[v] = redis'[u] => v = u
        BY <2>6, <2>7, <3>1, <3>2
      <3>4. \A v \in Holders' : redis'[v] \notin Range(connDeque')
        BY <2>3, <2>4, <2>6, <2>7, <3>1
      <3>5. \A i, j \in DOMAIN connDeque' :
              connDeque'[i] = connDeque'[j] => i = j
        BY <2>3, <2>4
      <3>6. /\ m_FreeConn' = Len(connDeque')
            /\ m_CurConn' = Cardinality(Holders)'
        BY <1>2, <2>3, <2>4, <2>8, <3>1
      <3>7. QED
        BY <3>3, <3>4, <3>5, <3>6 DEF OneHolder
    <2>10. ConnInv'
      <3>1. Len(connDeque) \in Nat /\ Cardinality(Holders) \in Nat
        BY <2>2, LenProperties, CountsFinite
      <3>2. /\ ahead = 0
            /\ m_MaxConn # None
                => m_MaxConn = Len(connDeque) + Cardinality(Holders)
        BY <2>1 DEF RedisInv, ConnInv
      <3>3. Len(connDeque)' = Len(connDeque) - 1
        BY <2>3, <2>4
      <3>4. ahead' = 0 /\ m_MaxConn' = m_MaxConn
        BY <1>2, <2>4, <3>2
      <3>5. Len(connDeque)' + Cardinality(Holders)'
            = Len(connDeque) + Cardinality(Holders)
        BY <2>8, <3>1, <3>3
      <3>6. QED
        BY <3>2, <3>4, <3>5 DEF ConnInv
    <2>11. QED
      BY <1>3, <1>4, <2>9, <2>10 DEF RedisInv
  <1>7. QED
    BY <1>5, <1>6

(* Release: the connection goes back, behind the others.                     *)
LEMMA ReleaseKeeps ==
  ASSUME RedisInv, NEW w \in Workers, Release(w)
  PROVE  RedisInv'
  <1> DEFINE c == redis[w]
             a == Append(connDeque, c)
  <1>1. /\ connDeque \in Seq(Nat) /\ w \in Holders /\ c \in Nat
    BY DEF RedisInv, RedisTypeOK, HoldInv, Release, Holders
  <1>2. /\ PutBack(c)
        /\ redis' = [redis EXCEPT ![w] = None]
        /\ rstep' = [rstep EXCEPT ![w] = "post"]
        /\ m_FreeConn' = m_FreeConn + 1 /\ m_CurConn' = m_CurConn - 1
        /\ UNCHANGED <<reserve, m_MaxConn, seen, eintr, emptied>>
    BY DEF Release, Go
  <1>3. HoldInv'
    BY <1>2 DEF RedisInv, HoldInv, RedisTypeOK, Steps
  <1>4. RedisTypeOK'
    <2>1. rstep' \in [Workers -> Steps]
      BY <1>2 DEF RedisInv, RedisTypeOK, Steps
    <2>2. redis' \in [Workers -> Nat \cup {None}]
      BY <1>3 DEF HoldInv
    <2>3. a \in Seq(Nat)
      BY <1>1, AppendProperties
    <2>4. /\ connDeque' \in Seq(Nat)
          /\ ahead' \in Nat /\ (ahead' > 0 => connDeque' = <<>>)
      <3>1. ahead \in Nat /\ (ahead > 0 => connDeque = <<>>)
        BY DEF RedisInv, RedisTypeOK
      <3>2. CASE ahead = 0
        <4>1. connDeque' = a /\ ahead' = ahead
          BY <1>2, <3>2 DEF PutBack
        <4>2. QED
          BY <2>3, <3>1, <3>2, <4>1
      <3>3. CASE ahead > 0
        <4>1. ahead' = ahead - 1 /\ connDeque' = connDeque
          BY <1>2, <3>3 DEF PutBack
        <4>2. QED
          BY <1>1, <3>1, <3>3, <4>1
      <3>4. QED
        BY <3>1, <3>2, <3>3
    <2>5. QED
      BY <1>2, <2>1, <2>2, <2>4 DEF RedisInv, RedisTypeOK
  <1>5. CASE emptied
    BY <1>2, <1>3, <1>4, <1>5 DEF RedisInv, OneHolder, ConnInv
  <1>6. CASE ~emptied
    <2>1. /\ \A i, j \in DOMAIN connDeque :
               connDeque[i] = connDeque[j] => i = j
          /\ \A v, u \in Holders : redis[v] = redis[u] => v = u
          /\ \A v \in Holders : redis[v] \notin Range(connDeque)
          /\ m_FreeConn = Len(connDeque)
          /\ m_CurConn = Cardinality(Holders)
          /\ ahead = 0
      BY <1>6 DEF RedisInv, OneHolder, ConnInv
    <2>2. c \notin Range(connDeque)
      BY <1>1, <2>1
    <2>3. /\ Len(a) = Len(connDeque) + 1
          /\ Range(a) = Range(connDeque) \cup {c}
          /\ \A i, j \in DOMAIN a : a[i] = a[j] => i = j
      BY <1>1, <2>1, <2>2, AppendNew
    <2>4. connDeque' = a /\ ahead' = ahead
      BY <1>2, <2>1 DEF PutBack
    <2> HIDE DEF a
    <2>5. \A v \in Workers : redis'[v] = IF v = w THEN None ELSE redis[v]
      BY <1>2 DEF RedisInv, HoldInv
    <2>6. Holders' = Holders \ {w} /\ Holders \subseteq Workers
      BY <2>5 DEF Holders
    <2>7. Cardinality(Holders)' = Cardinality(Holders) - 1
      BY <1>1, <2>6, CountsFinite, FS_RemoveElement
    <2>8. OneHolder'
      <3>1. \A v, u \in Holders' : redis'[v] = redis'[u] => v = u
        BY <2>1, <2>5, <2>6
      <3>2. \A v \in Holders' : redis'[v] \notin Range(connDeque')
        <4>1. \A v \in Holders : redis[v] = c => v = w
          BY <1>1, <2>1
        <4>2. QED
          BY <2>1, <2>3, <2>4, <2>5, <2>6, <4>1
      <3>3. /\ m_FreeConn' = Len(connDeque')
            /\ m_CurConn' = Cardinality(Holders)'
        BY <1>2, <2>1, <2>3, <2>4, <2>7
      <3>4. QED
        BY <2>3, <2>4, <3>1, <3>2, <3>3 DEF OneHolder
    <2>9. ConnInv'
      <3>1. Len(connDeque) \in Nat /\ Cardinality(Holders) \in Nat
        BY <1>1, LenProperties, CountsFinite
      <3>2. QED
        BY <1>2, <1>6, <2>3, <2>4, <2>7, <3>1 DEF RedisInv, ConnInv
    <2>10. QED
      BY <1>3, <1>4, <2>8, <2>9 DEF RedisInv
  <1>7. QED
    BY <1>5, <1>6

(* Every step of the pool keeps its invariant.                               *)
LEMMA RedisStepKeeps ==
  ASSUME RedisInv, NEW w \in Workers, RedisStep(w)
  PROVE  RedisInv'
  <1>1. ASSUME rstep[w] # "hold" PROVE redis[w] = None
    BY <1>1 DEF RedisInv, HoldInv
  <1>2. reserve \in Nat /\ seen \in [Workers -> Int] /\ eintr \in BOOLEAN
    BY DEF RedisInv, RedisTypeOK
  <1>3. CASE LoadEnd(w)
    <2>1. Len(connDeque) - ahead \in Int
      BY LenProperties DEF RedisInv, RedisTypeOK
    <2>2. seen' \in [Workers -> Int]
      BY <1>2, <1>3, <2>1 DEF LoadEnd
    <2>3. QED
      BY <1>1, <1>2, <1>3, <2>2, StepKeeps DEF LoadEnd, Steps
  <1>4. CASE TestSize(w)
    BY <1>1, <1>2, <1>4, StepKeeps DEF TestSize, Steps
  <1>5. CASE Wait(w)
    <2>1. reserve' \in Nat
      BY <1>2, <1>5 DEF Wait
    <2>2. QED
      BY <1>1, <1>2, <1>5, <2>1, StepKeeps DEF Wait, Steps
  <1>6. CASE Pop(w)
    BY <1>6, PopKeeps
  <1>7. CASE WaitInterrupted(w)
    BY <1>1, <1>2, <1>7, StepKeeps DEF WaitInterrupted, Steps
  <1>8. CASE Release(w)
    BY <1>8, ReleaseKeeps
  <1>9. CASE ReleaseNull(w)
    BY <1>2, <1>9, StepKeeps DEF ReleaseNull, Steps
  <1>10. CASE Post(w)
    <2>1. reserve' \in Nat
      BY <1>2, <1>10 DEF Post
    <2>2. QED
      BY <1>1, <1>2, <1>10, <2>1, StepKeeps DEF Post, Steps
  <1>11. QED
    BY <1>3, <1>4, <1>5, <1>6, <1>7, <1>8, <1>9, <1>10
       DEF RedisStep, Getting, Releasing

-----------------------------------------------------------------------------
(* No wait is interrupted where there is a connection for every thread.      *)
EnoughInv ==
  m_MaxConn # None /\ m_MaxConn >= Cardinality(Workers) => ~eintr

(* An interrupted wait leaves the deque with fewer connections than are      *)
(* accounted for, never with more.                                           *)
Accounted == reserve + Cardinality(In("pop")) + Cardinality(In("post"))

FewerInv == m_MaxConn # None /\ ~emptied => Len(connDeque) <= Accounted

PoolInv == RedisInv /\ SemaphoreCounts /\ FewerInv /\ EnoughInv

(* The initial states.                                                       *)
LEMMA RedisStart == RedisInit => PoolInv
  <1> SUFFICES ASSUME RedisInit PROVE PoolInv
    OBVIOUS
  <1>0. PICK size \in Sizes : \E n \in 0..size : Connected(n, size)
    BY RedisAssumption DEF RedisInit
  <1>1. PICK n \in 0..size : Connected(n, size)
    BY <1>0
  <1>2. size \in Nat \ {0} /\ n \in Nat /\ size \in Sizes
    BY <1>1, RedisAssumption
  <1>3. /\ connDeque \in Seq(Nat) /\ Len(connDeque) = n
        /\ DOMAIN connDeque = 1..n /\ \A i \in 1..n : connDeque[i] = i
    BY <1>1, <1>2, IsASeq DEF Connected
  <1>4. Holders = {} /\ \A s \in {"pop", "post"} : In(s) = {}
    BY DEF RedisInit, Holders, In
  <1>5. Cardinality(Holders) = 0 /\ Cardinality(In("pop")) = 0
        /\ Cardinality(In("post")) = 0
    BY <1>4, FS_EmptySet
  <1>6. \/ n = size /\ reserve = n /\ m_MaxConn = n
        \/ reserve = 0 /\ m_MaxConn = None
    BY <1>1 DEF Connected
  <1>7. /\ m_FreeConn = n /\ m_CurConn = 0 /\ eintr = FALSE
        /\ ahead = 0 /\ emptied = FALSE
    BY <1>1 DEF Connected, RedisInit
  <1>8. RedisTypeOK
    <2>1. /\ rstep \in [Workers -> Steps] /\ seen \in [Workers -> Int]
          /\ redis \in [Workers -> Nat \cup {None}]
      BY DEF RedisInit, Steps
    <2>2. reserve \in Nat /\ m_MaxConn \in Sizes \cup {None}
      BY <1>2, <1>6
    <2>3. m_FreeConn \in Int /\ m_CurConn \in Int
      BY <1>2, <1>7
    <2>4. eintr \in BOOLEAN /\ emptied \in BOOLEAN
      BY <1>7, Zenon
    <2>5. ahead \in Nat /\ ~(ahead > 0)
      BY <1>7
    <2>6. QED
      BY <1>3, <2>1, <2>2, <2>3, <2>4, <2>5 DEF RedisTypeOK
  <1>9. HoldInv
    BY DEF RedisInit, HoldInv
  <1>10. OneHolder
    BY <1>3, <1>4, <1>5, <1>7 DEF OneHolder
  <1>11. ConnInv /\ SemaphoreCounts /\ FewerInv /\ EnoughInv
    BY <1>2, <1>3, <1>5, <1>6, <1>7
       DEF ConnInv, SemaphoreCounts, FewerInv, Accounted, EnoughInv
  <1>12. QED
    BY <1>8, <1>9, <1>10, <1>11 DEF PoolInv, RedisInv

(* What a step does to the deque and to what accounts for it, while the      *)
(* deque is not popped empty.                                                *)
LEMMA CountStep ==
  ASSUME RedisInv, NEW w \in Workers, RedisStep(w), ~emptied'
  PROVE  /\ Accounted \in Nat /\ Len(connDeque) \in Nat /\ ~emptied
         /\ WaitInterrupted(w) => /\ Len(connDeque)' = Len(connDeque)
                                  /\ Accounted' = Accounted + 1
         /\ ~WaitInterrupted(w) => Len(connDeque)' - Accounted'
                                   = Len(connDeque) - Accounted
         /\ Accounted' \in Nat /\ Len(connDeque)' \in Nat
  <1>1. ~emptied
    BY DEF RedisStep, Getting, Releasing, LoadEnd, TestSize, Wait, Pop,
           TakeFront, TakeNothing, Release, ReleaseNull, Post, WaitInterrupted
  <1>2. /\ Cardinality(In("pop")) \in Nat /\ Cardinality(In("post")) \in Nat
        /\ reserve \in Nat /\ connDeque \in Seq(Nat)
        /\ Len(connDeque) \in Nat
        /\ rstep \in [Workers -> Steps]
        /\ redis \in [Workers -> Nat \cup {None}]
        /\ ahead = 0
    BY <1>1, CountsFinite, LenProperties
       DEF RedisInv, RedisTypeOK, HoldInv, ConnInv
  <1>3. Accounted \in Nat
    BY <1>2 DEF Accounted
  <1>4. Accounted' \in Nat /\ Len(connDeque)' \in Nat
    <2>1. RedisInv'
      BY RedisStepKeeps
    <2>2. reserve' \in Nat /\ connDeque' \in Seq(Nat)
      BY <2>1 DEF RedisInv, RedisTypeOK
    <2>3. \A s : Cardinality(In(s))' \in Nat
      <3>1. \A s : In(s)' \subseteq Workers
        BY DEF In
      <3>2. QED
        BY <3>1, RedisAssumption, FS_Subset, FS_CardinalityType
    <2>4. QED
      BY <2>2, <2>3, LenProperties DEF Accounted
  <1> DEFINE Same == Len(connDeque)' - Accounted' = Len(connDeque) - Accounted
  <1>5. CASE LoadEnd(w)
    <2>1. In("pop")' = In("pop") /\ In("post")' = In("post")
      BY <1>2, <1>5, GoCounts DEF LoadEnd
    <2>2. Same
      BY <1>2, <1>5, <2>1 DEF LoadEnd, Accounted
    <2>3. QED
      BY <1>1, <1>2, <1>3, <1>4, <1>5, <2>2 DEF LoadEnd, WaitInterrupted
  <1>6. CASE TestSize(w)
    <2>1. PICK s \in {"hold", "wait"} : Go(w, s)
      BY <1>6 DEF TestSize
    <2>2. In("pop")' = In("pop") /\ In("post")' = In("post")
      BY <1>2, <1>6, <2>1, GoCounts DEF TestSize
    <2>3. Same
      BY <1>2, <1>6, <2>2 DEF TestSize, Accounted
    <2>4. QED
      BY <1>1, <1>2, <1>3, <1>4, <1>6, <2>3 DEF TestSize, WaitInterrupted
  <1>7. CASE Wait(w)
    <2>1. Cardinality(In("pop"))' = Cardinality(In("pop")) + 1
      BY <1>2, <1>7, GoCounts DEF Wait
    <2>2. In("post")' = In("post")
      BY <1>2, <1>7, GoCounts DEF Wait
    <2>3. reserve > 0 /\ reserve' = reserve - 1 /\ connDeque' = connDeque
      BY <1>7 DEF Wait
    <2>4. Same
      BY <1>2, <2>1, <2>2, <2>3 DEF Accounted
    <2>5. QED
      BY <1>1, <1>2, <1>3, <1>4, <2>3, <2>4 DEF WaitInterrupted
  <1>8. CASE Pop(w)
    <2>1. TakeFront(w)
      BY <1>8 DEF Pop, TakeNothing
    <2>2. Len(connDeque)' = Len(connDeque) - 1
      BY <1>2, <2>1, HeadTailProperties DEF TakeFront
    <2>3. Cardinality(In("pop"))' = Cardinality(In("pop")) - 1
      BY <1>2, <1>8, GoCounts DEF Pop
    <2>4. In("post")' = In("post") /\ reserve' = reserve
      BY <1>2, <1>8, GoCounts DEF Pop
    <2>5. Same
      BY <1>2, <2>2, <2>3, <2>4 DEF Accounted
    <2>6. QED
      BY <1>1, <1>2, <1>3, <1>4, <1>8, <2>5 DEF Pop, WaitInterrupted
  <1>9. CASE Release(w)
    <2>1. Len(connDeque)' = Len(connDeque) + 1
      BY <1>2, <1>9, AppendProperties DEF Release, PutBack
    <2>2. Cardinality(In("post"))' = Cardinality(In("post")) + 1
      BY <1>2, <1>9, GoCounts DEF Release
    <2>3. In("pop")' = In("pop") /\ reserve' = reserve
      BY <1>2, <1>9, GoCounts DEF Release
    <2>4. Same
      <3>1. Accounted' = Accounted + 1
        BY <1>2, <2>2, <2>3 DEF Accounted
      <3>2. QED
        BY <1>2, <1>3, <2>1, <3>1
    <2>5. QED
      BY <1>1, <1>2, <1>3, <1>4, <1>9, <2>4 DEF Release, WaitInterrupted
  <1>10. CASE ReleaseNull(w)
    <2>1. In("pop")' = In("pop") /\ In("post")' = In("post")
      BY <1>2, <1>10, GoCounts DEF ReleaseNull
    <2>2. Same
      BY <1>2, <1>10, <2>1 DEF ReleaseNull, Accounted
    <2>3. QED
      BY <1>1, <1>2, <1>3, <1>4, <1>10, <2>2 DEF ReleaseNull, WaitInterrupted
  <1>11. CASE Post(w)
    <2>1. Cardinality(In("post"))' = Cardinality(In("post")) - 1
      BY <1>2, <1>11, GoCounts DEF Post
    <2>2. In("pop")' = In("pop")
      BY <1>2, <1>11, GoCounts DEF Post
    <2>3. Same
      BY <1>2, <1>11, <2>1, <2>2 DEF Post, Accounted
    <2>4. QED
      BY <1>1, <1>2, <1>3, <1>4, <1>11, <2>3 DEF Post, WaitInterrupted
  <1>12. CASE WaitInterrupted(w)
    <2>1. Cardinality(In("pop"))' = Cardinality(In("pop")) + 1
      BY <1>2, <1>12, GoCounts DEF WaitInterrupted
    <2>2. In("post")' = In("post")
      BY <1>2, <1>12, GoCounts DEF WaitInterrupted
    <2>3. reserve' = reserve /\ connDeque' = connDeque
      BY <1>12 DEF WaitInterrupted
    <2>4. Accounted' = Accounted + 1
      BY <1>2, <2>1, <2>2, <2>3 DEF Accounted
    <2>5. QED
      BY <1>1, <1>2, <1>3, <1>4, <1>12, <2>3, <2>4
  <1>13. QED
    BY <1>5, <1>6, <1>7, <1>8, <1>9, <1>10, <1>11, <1>12
       DEF RedisStep, Getting, Releasing

(* The semaphore stays in step with the deque: nobody pops it when it is     *)
(* empty, for a worker at pop is accounted for.                              *)
LEMMA SemaphoreKeeps ==
  ASSUME RedisInv, SemaphoreCounts, FewerInv, NEW w \in Workers, RedisStep(w)
  PROVE  SemaphoreCounts' /\ FewerInv'
  <1>1. m_MaxConn' = m_MaxConn /\ (eintr => eintr')
    BY DEF RedisStep, Getting, Releasing, LoadEnd, TestSize, Wait, Pop, Release,
           ReleaseNull, Post, WaitInterrupted
  <1>2. FewerInv'
    <2> SUFFICES ASSUME m_MaxConn' # None, ~emptied'
                 PROVE  Len(connDeque)' <= Accounted'
      BY DEF FewerInv
    <2>1. Len(connDeque) <= Accounted
      BY <1>1, CountStep DEF FewerInv
    <2>2. QED
      BY <2>1, CountStep
  <1>3. SemaphoreCounts'
    <2> SUFFICES ASSUME m_MaxConn' # None, ~eintr'
                 PROVE  ~emptied' /\ Len(connDeque)' = Accounted'
      BY DEF SemaphoreCounts, Accounted
    <2>1. /\ ~emptied /\ Len(connDeque) = Accounted
      BY <1>1 DEF SemaphoreCounts, Accounted
    <2>2. ~WaitInterrupted(w)
      BY DEF WaitInterrupted
    <2>3. ~emptied'
      <3>1. CASE Pop(w)
        <4>1. w \in In("pop")
          BY <3>1 DEF Pop, In
        <4>2. Cardinality(In("pop")) # 0
          BY <4>1, CountsFinite, FS_EmptySet
        <4>3. /\ reserve \in Nat /\ Cardinality(In("pop")) \in Nat
              /\ Cardinality(In("post")) \in Nat
          BY CountsFinite DEF RedisInv, RedisTypeOK
        <4>4. Len(connDeque) # 0
          BY <2>1, <4>2, <4>3 DEF Accounted
        <4>5. connDeque # <<>>
          BY <4>4, EmptySeq
        <4>6. QED
          BY <2>1, <3>1, <4>5 DEF Pop, TakeFront, TakeNothing
      <3>2. CASE ~Pop(w)
        BY <2>1, <3>2
           DEF RedisStep, Getting, Releasing, LoadEnd, TestSize, Wait, Release,
               ReleaseNull, Post, WaitInterrupted
      <3>3. QED
        BY <3>1, <3>2
    <2>4. QED
      BY <2>1, <2>2, <2>3, CountStep
  <1>4. QED
    BY <1>2, <1>3

(* Nobody blocks while nobody has been interrupted.                          *)
LEMMA NobodyBlocks ==
  ASSUME RedisInv, SemaphoreCounts, EnoughInv
  PROVE  EnoughNeverBlocks
  <1> SUFFICES ASSUME m_MaxConn # None, m_MaxConn >= Cardinality(Workers)
               PROVE  /\ ~eintr
                      /\ Cardinality(In("wait")) <= reserve
                      /\ Cardinality(In("pop")) <= Len(connDeque)
    BY DEF EnoughNeverBlocks
  <1>1. ~eintr
    BY DEF EnoughInv
  <1>2. m_MaxConn = reserve + Cardinality(In("pop"))
                    + Cardinality(In("post")) + Cardinality(Holders)
    BY <1>1 DEF SemaphoreCounts, RedisInv, ConnInv
  <1>3. Len(connDeque) = reserve + Cardinality(In("pop"))
                         + Cardinality(In("post"))
    BY <1>1 DEF SemaphoreCounts
  <1>4. Cardinality(In("wait")) + Cardinality(In("pop"))
        + Cardinality(In("post")) + Cardinality(Holders)
          <= Cardinality(Workers)
    BY PlacesAddUp DEF RedisInv
  <1>5. /\ reserve \in Nat /\ Cardinality(Holders) \in Nat
        /\ Cardinality(Workers) \in Nat
        /\ \A s \in {"wait", "pop", "post"} : Cardinality(In(s)) \in Nat
    BY CountsFinite DEF RedisInv, RedisTypeOK
  <1>6. QED
    BY <1>1, <1>2, <1>3, <1>4, <1>5

(* A step of a worker keeps all of it.                                       *)
LEMMA PoolStepKeeps ==
  ASSUME PoolInv, NEW w \in Workers, RedisStep(w)
  PROVE  PoolInv'
  <1>1. RedisInv' /\ SemaphoreCounts' /\ FewerInv'
    BY RedisStepKeeps, SemaphoreKeeps DEF PoolInv
  <1>2. CASE WaitInterrupted(w)
    <2>1. ~(m_MaxConn # None /\ m_MaxConn >= Cardinality(Workers))
      <3>1. w \in In("wait") /\ reserve = 0
        BY <1>2 DEF WaitInterrupted, In
      <3>2. Cardinality(In("wait")) # 0
        BY <3>1, CountsFinite, FS_EmptySet
      <3>3. EnoughNeverBlocks
        BY NobodyBlocks DEF PoolInv
      <3>4. QED
        BY <3>1, <3>2, <3>3, CountsFinite DEF EnoughNeverBlocks
    <2>2. QED
      BY <1>1, <1>2, <2>1 DEF WaitInterrupted, EnoughInv, PoolInv
  <1>3. CASE ~WaitInterrupted(w)
    <2>1. UNCHANGED <<eintr, m_MaxConn>>
      BY <1>3 DEF RedisStep, Getting, Releasing, LoadEnd, TestSize, Wait, Pop,
                  Release, ReleaseNull, Post
    <2>2. QED
      BY <1>1, <2>1 DEF EnoughInv, PoolInv
  <1>4. QED
    BY <1>2, <1>3
=============================================================================
