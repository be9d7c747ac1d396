----------------------------- MODULE RedisPool -----------------------------
(***************************************************************************)
(* connection_pool and connectionRAII (CGIredis/redis.cpp): a deque of     *)
(* redis connections under a mutex, and a semaphore that counts them.      *)
(*                                                                         *)
(* Grain.  A critical section of the mutex is one step; so is a call of    *)
(* the semaphore.  connDeque.size() in GetConnection is read without the   *)
(* mutex: the end of the deque is loaded first and its start later, and    *)
(* other workers run in between.  (The deque stays within one of its       *)
(* blocks here; across two, the four loads may be torn further.)           *)
(*                                                                         *)
(* front and pop_front look at nothing: on an empty deque they move its    *)
(* start past its end, and what they read there is undefined.  size() is   *)
(* no longer 0 then, and a push_back puts its element before the start,    *)
(* where it is lost.                                                       *)
(***************************************************************************)
EXTENDS Integers, Sequences, FiniteSets, Functions

CONSTANTS
  Workers,      (* the threads of the pool                                   *)
  Sizes,        (* the values of redis_num to start with                     *)
  ConnectFails, (* TRUE: redisConnect may fail at start                      *)
  None          (* a null pointer                                            *)

ASSUME RedisAssumption ==
  /\ IsFiniteSet(Workers)
  /\ Sizes \subseteq Nat \ {0}
  /\ ConnectFails \in BOOLEAN
  /\ None \notin Nat

VARIABLES
  connDeque,    (* the free connections; they are numbered from 1, and 0 is  *)
                (* a pointer to none                                         *)
  ahead,        (* how far the start of the deque is past its end            *)
  reserve,      (* the value of the semaphore                                *)
  m_FreeConn, m_CurConn,
  m_MaxConn,    (* None when init() returned early                           *)
  rstep,        (* where each worker is in GetConnection or Release          *)
  seen,         (* the size it computes from the end that it has loaded      *)
  redis,        (* conRAII: the connection its guard holds                   *)
  eintr,        (* history: some sem_wait was interrupted                    *)
  emptied       (* history: somebody popped the empty deque                  *)

redisVars == <<connDeque, ahead, reserve, m_FreeConn, m_CurConn, m_MaxConn,
               rstep, seen, redis, eintr, emptied>>

Steps == {"out", "size", "wait", "pop", "hold", "post"}

RedisTypeOK ==
  /\ connDeque \in Seq(Nat)
  /\ ahead \in Nat /\ (ahead > 0 => connDeque = <<>>)
  /\ reserve \in Nat
  /\ m_FreeConn \in Int /\ m_CurConn \in Int
  /\ m_MaxConn \in Sizes \cup {None}
  /\ rstep \in [Workers -> Steps]
  /\ seen \in [Workers -> Int]
  /\ redis \in [Workers -> Nat \cup {None}]
  /\ eintr \in BOOLEAN /\ emptied \in BOOLEAN

In(s) == {w \in Workers : rstep[w] = s}

(* Faulty variant of Connected: the semaphore starts one too low.            *)
ConnectedShort(n, size) ==
  /\ connDeque = [i \in 1..n |-> i]
  /\ m_FreeConn = n
  /\ IF n = size THEN reserve = n - 1 /\ m_MaxConn = n
                 ELSE reserve = 0 /\ m_MaxConn = None

(* A connect that fails returns at once: with the connections made so far    *)
(* in the deque, but the semaphore still 0.                                  *)
Connected(n, size) ==
  /\ connDeque = [i \in 1..n |-> i]
  /\ m_FreeConn = n
  /\ IF n = size THEN reserve = n /\ m_MaxConn = n
                 ELSE reserve = 0 /\ m_MaxConn = None

RedisInit ==
  /\ \E size \in Sizes :
       \E n \in (IF ConnectFails THEN 0..size ELSE {size}) : Connected(n, size)
  /\ m_CurConn = 0
  /\ rstep = [w \in Workers |-> "out"]
  /\ seen = [w \in Workers |-> 0]
  /\ redis = [w \in Workers |-> None]
  /\ ahead = 0 /\ eintr = FALSE /\ emptied = FALSE

Go(w, s) == rstep' = [rstep EXCEPT ![w] = s]

-----------------------------------------------------------------------------
(* GetConnection.                                                            *)

LoadEnd(w) ==
  /\ rstep[w] = "out"
  /\ seen' = [seen EXCEPT ![w] = Len(connDeque) - ahead]
  /\ Go(w, "size")
  /\ UNCHANGED <<connDeque, ahead, reserve, m_FreeConn, m_CurConn, m_MaxConn,
                 redis, eintr, emptied>>

(* The start is loaded: size() = 0 returns nullptr.                          *)
TestSize(w) ==
  /\ rstep[w] = "size"
  /\ Go(w, IF seen[w] = 0 THEN "hold" ELSE "wait")
  /\ UNCHANGED <<connDeque, ahead, reserve, m_FreeConn, m_CurConn, m_MaxConn,
                 seen, redis, eintr, emptied>>

Wait(w) ==
  /\ rstep[w] = "wait" /\ reserve > 0
  /\ reserve' = reserve - 1
  /\ Go(w, "pop")
  /\ UNCHANGED <<connDeque, ahead, m_FreeConn, m_CurConn, m_MaxConn, seen,
                 redis, eintr, emptied>>

(* Faulty variant of WaitInterrupted: it lowers the semaphore all the same.  *)
WaitInterruptedCounts(w) ==
  /\ rstep[w] = "wait" /\ reserve = 0
  /\ reserve' = reserve - 1
  /\ eintr' = TRUE
  /\ Go(w, "pop")
  /\ UNCHANGED <<connDeque, ahead, m_FreeConn, m_CurConn, m_MaxConn, seen,
                 redis, emptied>>

(* A signal: sem_wait returns -1, which GetConnection does not look at.      *)
WaitInterrupted(w) ==
  /\ rstep[w] = "wait" /\ reserve = 0
  /\ eintr' = TRUE
  /\ Go(w, "pop")
  /\ UNCHANGED <<connDeque, ahead, reserve, m_FreeConn, m_CurConn, m_MaxConn,
                 seen, redis, emptied>>

(* Faulty variant of TakeFront: the connection stays in the deque.           *)
TakeFrontKeeps(w) ==
  /\ connDeque # <<>>
  /\ redis' = [redis EXCEPT ![w] = Head(connDeque)]
  /\ UNCHANGED <<connDeque, ahead, emptied>>

TakeFront(w) ==
  /\ connDeque # <<>>
  /\ redis' = [redis EXCEPT ![w] = Head(connDeque)]
  /\ connDeque' = Tail(connDeque)
  /\ UNCHANGED <<ahead, emptied>>

(* On an empty deque: null, a pointer to anything, or one of the connections *)
(* that init made, of which m_FreeConn + m_CurConn keep the number.          *)
TakeNothing(w) ==
  /\ connDeque = <<>>
  /\ \E con \in {None} \cup 0..(m_FreeConn + m_CurConn) :
       redis' = [redis EXCEPT ![w] = con]
  /\ ahead' = ahead + 1 /\ emptied' = TRUE
  /\ UNCHANGED connDeque

(* Either way the start moves, which a size() under way has not loaded yet.  *)
Pop(w) ==
  /\ rstep[w] = "pop"
  /\ TakeFront(w) \/ TakeNothing(w)
  /\ seen' = [v \in Workers |-> IF rstep[v] = "size" /\ seen[v] >= 0
                                THEN seen[v] - 1 ELSE seen[v]]
  /\ m_FreeConn' = m_FreeConn - 1
  /\ m_CurConn' = m_CurConn + 1
  /\ Go(w, "hold")
  /\ UNCHANGED <<reserve, m_MaxConn, eintr>>

-----------------------------------------------------------------------------
(* ReleaseConnection, from the destructor of connectionRAII.                 *)

(* push_back: lost, where the start is past the end.                         *)
PutBack(con) ==
  \/ /\ ahead = 0 /\ connDeque' = Append(connDeque, con)
     /\ UNCHANGED ahead
  \/ /\ ahead > 0 /\ ahead' = ahead - 1
     /\ UNCHANGED connDeque

(* Faulty variant of Release: the semaphore is never posted.                 *)
ReleaseNoPost(w) ==
  /\ rstep[w] = "hold" /\ redis[w] # None
  /\ PutBack(redis[w])
  /\ m_FreeConn' = m_FreeConn + 1
  /\ m_CurConn' = m_CurConn - 1
  /\ redis' = [redis EXCEPT ![w] = None]
  /\ Go(w, "out")
  /\ UNCHANGED <<reserve, m_MaxConn, seen, eintr, emptied>>

Release(w) ==
  /\ rstep[w] = "hold" /\ redis[w] # None
  /\ PutBack(redis[w])
  /\ m_FreeConn' = m_FreeConn + 1
  /\ m_CurConn' = m_CurConn - 1
  /\ redis' = [redis EXCEPT ![w] = None]
  /\ Go(w, "post")
  /\ UNCHANGED <<reserve, m_MaxConn, seen, eintr, emptied>>

ReleaseNull(w) ==
  /\ rstep[w] = "hold" /\ redis[w] = None
  /\ Go(w, "out")
  /\ UNCHANGED <<connDeque, ahead, reserve, m_FreeConn, m_CurConn, m_MaxConn,
                 seen, redis, eintr, emptied>>

Post(w) ==
  /\ rstep[w] = "post"
  /\ reserve' = reserve + 1
  /\ Go(w, "out")
  /\ UNCHANGED <<connDeque, ahead, m_FreeConn, m_CurConn, m_MaxConn, seen,
                 redis, eintr, emptied>>

(* What a worker does by itself once it has asked, and once it releases.     *)
Getting(w)   == TestSize(w) \/ Wait(w) \/ Pop(w)
Releasing(w) == Release(w) \/ ReleaseNull(w) \/ Post(w)

-----------------------------------------------------------------------------
Holders == {w \in Workers : redis[w] # None}

(* A connection is free or has one holder, also after a wait that a signal   *)
(* ended: two workers never write to one redisContext, and the counts agree. *)
(* It is over when somebody pops the empty deque, which nothing in           *)
(* GetConnection prevents and only an interrupted wait leads to.             *)
OneHolder ==
  ~emptied =>
    /\ \A i, j \in DOMAIN connDeque : connDeque[i] = connDeque[j] => i = j
    /\ \A v, w \in Holders : redis[v] = redis[w] => v = w
    /\ \A w \in Holders : redis[w] \notin Range(connDeque)
    /\ m_FreeConn = Len(connDeque)
    /\ m_CurConn = Cardinality(Holders)

(* The semaphore and the deque, changed at different times, stay in step:    *)
(* whoever passed the wait finds a connection, and nobody pops the empty     *)
(* deque.  It needs that init ran to its end and that no wait was            *)
(* interrupted.                                                              *)
SemaphoreCounts ==
  m_MaxConn # None /\ ~eintr =>
    /\ ~emptied
    /\ Len(connDeque)
         = reserve + Cardinality(In("pop")) + Cardinality(In("post"))

(* With a connection for every thread nobody blocks in GetConnection, so     *)
(* that no signal can interrupt a wait and nobody pops an empty deque.       *)
EnoughNeverBlocks ==
  m_MaxConn # None /\ m_MaxConn >= Cardinality(Workers) =>
    /\ ~eintr
    /\ Cardinality(In("wait")) <= reserve
    /\ Cardinality(In("pop")) <= Len(connDeque)
=============================================================================
