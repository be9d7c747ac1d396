--------------------------- MODULE AccountsProofs ---------------------------
(***************************************************************************)
(* Registration and login on the workers, for any number of workers,       *)
(* connections, requests, names and alarms.                                *)
(***************************************************************************)
EXTENDS Accounts, RedisPoolProofs

-----------------------------------------------------------------------------
(* The redis connection pool.                                                *)

(* A step of the whole is a step of one worker in the pool, or none.         *)
LEMMA RedisMoves ==
  ASSUME [Next]_vars
  PROVE  UNCHANGED redisVars \/ \E w \in Workers : RedisStep(w)
  <1> USE DEF RedisStep
  <1>1. ASSUME NEW j \in Jobs, Submit(j) PROVE UNCHANGED redisVars
    BY <1>1 DEF Submit
  <1>2. ASSUME Posted PROVE UNCHANGED redisVars
    BY <1>2 DEF Posted
  <1>3. ASSUME NEW w \in Workers, Worker(w)
        PROVE  UNCHANGED redisVars \/ RedisStep(w)
    BY <1>3 DEF Worker, Fetch, Connect, GetConnection, ServePage, NullContext,
                RegisterGet, RegisterLock, RegisterSet, RegisterUnlock,
                LoginUnknown, LoginGet, GiveBack, Finish
  <1>4. ASSUME NEW w \in Workers, Alarm(w)
        PROVE  UNCHANGED redisVars \/ RedisStep(w)
    BY <1>4 DEF Alarm
  <1>5. ASSUME UNCHANGED vars PROVE UNCHANGED redisVars
    BY <1>5 DEF vars
  <1>6. QED
    BY <1>1, <1>2, <1>3, <1>4, <1>5 DEF Next

(* The pool's invariant holds in every reachable state.                      *)
LEMMA PoolInvariant == Spec => []PoolInv
  <1>1. Init => PoolInv
    BY RedisStart DEF Init
  <1>2. PoolInv /\ [Next]_vars => PoolInv'
    <2> SUFFICES ASSUME PoolInv, [Next]_vars PROVE PoolInv'
      OBVIOUS
    <2>1. CASE UNCHANGED redisVars
      BY <2>1 DEF redisVars, PoolInv, RedisInv, RedisTypeOK, HoldInv,
                  OneHolder, ConnInv, SemaphoreCounts, FewerInv, Accounted,
                  EnoughInv, Holders, In
    <2>2. QED
      BY <2>1, RedisMoves, PoolStepKeeps
  <1>3. QED
    BY <1>1, <1>2, PTL DEF Spec

(* GetConnection, ReleaseConnection: until somebody pops the empty deque no  *)
(* two workers hold the same redis connection, whatever the unlocked size()  *)
(* returns and whatever waits a signal ends; and the counters agree with the *)
(* deque and the holders.                                                    *)
THEOREM ConnectionHasOneHolder == Spec => []OneHolder
  <1>1. PoolInv => OneHolder
    BY DEF PoolInv, RedisInv
  <1>2. QED
    BY <1>1, PoolInvariant, PTL

(* The semaphore and the deque stay in step, if all connects succeeded and   *)
(* no wait was interrupted: who passes the semaphore finds a connection.     *)
THEOREM SemaphoreInStep == Spec => []SemaphoreCounts
  <1>1. PoolInv => SemaphoreCounts
    BY DEF PoolInv
  <1>2. QED
    BY <1>1, PoolInvariant, PTL

(* With as many connections as threads no wait blocks, and so none can be    *)
(* interrupted, however many signals come.                                   *)
THEOREM EnoughConnections == Spec => []EnoughNeverBlocks
  <1>1. PoolInv => EnoughNeverBlocks
    BY NobodyBlocks DEF PoolInv
  <1>2. QED
    BY <1>1, PoolInvariant, PTL

-----------------------------------------------------------------------------
(* The queue of the thread pool.                                             *)

(* A job is with a worker exactly while it runs; whatever is in the queue    *)
(* or with a worker has been submitted.                                      *)
SubmitInv ==
  /\ cmd \in [Jobs -> Commands \cup {None}]
  /\ \A i \in DOMAIN m_workqueue : cmd[m_workqueue[i]] # None
  /\ \A w \in Workers : request[w] # None => cmd[request[w]] # None
  /\ \A w \in Workers : wstep[w] = "run" <=> request[w] # None

(* NoLostWakeup, by cases.                                                   *)
Takers == {w \in Workers : wstep[w] = "take"}

WakeupInv ==
  /\ posting => Len(m_workqueue) <= m_queuestat + Cardinality(Takers) + 1
  /\ ~posting => Len(m_workqueue) <= m_queuestat + Cardinality(Takers)

QueueInv == T!PoolTypeOK /\ SubmitInv /\ JobOnce /\ WakeupInv

(* They can be counted.                                                     *)
LEMMA TakersFinite == IsFiniteSet(Takers) /\ Cardinality(Takers) \in Nat
  BY RedisAssumption, FS_Subset, FS_CardinalityType DEF Takers

(* JobOnce in the names of this module.                                      *)
LEMMA JobOnceHere ==
  JobOnce <=>
    /\ \A i, k \in DOMAIN m_workqueue : m_workqueue[i] = m_workqueue[k] => i = k
    /\ \A w \in Workers : request[w] # None =>
         /\ request[w] \notin Range(m_workqueue)
         /\ \A v \in Workers : request[v] = request[w] => v = w
  BY DEF JobOnce, T!JobOnce, Range, T!Range

(* What a step does to the queue.                                            *)
LEMMA QueueMoves ==
  ASSUME [Next]_vars
  PROVE  \/ UNCHANGED <<jobVars, cmd>>
         \/ \E j \in Jobs : Submit(j)
         \/ T!AppendPost /\ cmd' = cmd
         \/ \E w \in Workers :
              /\ \/ T!QueueWait(w) \/ T!QueueInterrupted(w)
                 \/ T!Take(w) \/ T!Done(w)
              /\ cmd' = cmd
  <1>1. ASSUME Posted PROVE T!AppendPost /\ cmd' = cmd
    BY <1>1 DEF Posted, accountVars
  <1>2. ASSUME NEW w \in Workers, Worker(w)
        PROVE  \/ UNCHANGED <<jobVars, cmd>>
               \/ /\ T!QueueWait(w) \/ T!Take(w) \/ T!Done(w)
                  /\ cmd' = cmd
    BY <1>2 DEF Worker, Fetch, Connect, GetConnection, ServePage, NullContext,
                RegisterGet, RegisterLock, RegisterSet, RegisterUnlock,
                LoginUnknown, LoginGet, GiveBack, Finish, accountVars
  <1>3. ASSUME NEW w \in Workers, Alarm(w)
        PROVE  \/ UNCHANGED <<jobVars, cmd>>
               \/ T!QueueInterrupted(w) /\ cmd' = cmd
    BY <1>3 DEF Alarm
  <1>4. ASSUME UNCHANGED vars PROVE UNCHANGED <<jobVars, cmd>>
    BY <1>4 DEF vars, accountVars
  <1>5. QED
    BY <1>1, <1>2, <1>3, <1>4 DEF Next

(* The queue is empty at first.                                             *)
LEMMA QueueStart == Init => QueueInv
  <1> SUFFICES ASSUME Init PROVE QueueInv
    OBVIOUS
  <1>1. m_workqueue \in Seq(Jobs) /\ Len(m_workqueue) = 0
        /\ DOMAIN m_workqueue = {}
    BY EmptySeq, LenProperties DEF Init, T!PoolInit
  <1>2. T!PoolTypeOK
    BY <1>1 DEF Init, T!PoolInit, T!PoolTypeOK
  <1>3. SubmitInv
    BY <1>1 DEF Init, T!PoolInit, SubmitInv
  <1>4. JobOnce
    BY <1>1 DEF Init, T!PoolInit, JobOnce, T!JobOnce
  <1>5. WakeupInv
    <2>1. Takers = {}
      BY DEF Init, T!PoolInit, Takers
    <2>2. Cardinality(Takers) = 0 /\ m_queuestat = 0
      BY <2>1, FS_EmptySet DEF Init, T!PoolInit
    <2>3. QED
      BY <1>1, <2>2 DEF WakeupInv
  <1>6. QED
    BY <1>2, <1>3, <1>4, <1>5 DEF QueueInv

(* append: a job that was never in the queue goes behind the others.         *)
LEMMA SubmitKeeps ==
  ASSUME QueueInv, NEW j \in Jobs, Submit(j)
  PROVE  QueueInv'
  <1> DEFINE q == Append(m_workqueue, j)
  <1>1. /\ m_workqueue' = q /\ ~posting /\ posting' = TRUE
        /\ UNCHANGED <<m_queuestat, wstep, request>>
        /\ cmd[j] = None
    BY DEF Submit, T!AppendPush
  <1>2. PICK c \in Commands : cmd' = [cmd EXCEPT ![j] = c]
    BY DEF Submit
  <1>3. c # None
    BY AccountsAssumption
  <1>4. /\ \A k \in Jobs : cmd'[k] = IF k = j THEN c ELSE cmd[k]
        /\ cmd' \in [Jobs -> Commands \cup {None}]
    BY <1>2 DEF QueueInv, SubmitInv
  <1>5. /\ m_workqueue \in Seq(Jobs) /\ Len(m_workqueue) \in Nat
        /\ \A i \in DOMAIN m_workqueue : m_workqueue[i] \in Jobs
        /\ request \in [Workers -> Jobs \cup {None}]
    BY LenProperties, ElementOfSeq DEF QueueInv, T!PoolTypeOK
  <1>6. j \notin Range(m_workqueue)
    BY <1>1 DEF Range, QueueInv, SubmitInv
  <1>7. \A w \in Workers : request[w] # j
    BY <1>1, RedisAssumption, AccountsAssumption DEF QueueInv, SubmitInv
  <1>8. /\ q \in Seq(Jobs) /\ Len(q) = Len(m_workqueue) + 1
        /\ Range(q) = Range(m_workqueue) \cup {j}
        /\ \A i, k \in DOMAIN q : q[i] = q[k] => i = k
    BY <1>5, <1>6, AppendNew DEF QueueInv, JobOnce, T!JobOnce
  <1> HIDE DEF q
  <1>9. T!PoolTypeOK'
    BY <1>1, <1>8 DEF QueueInv, T!PoolTypeOK
  <1>10. SubmitInv'
    <2>1. \A k \in Range(m_workqueue) : k \in Jobs /\ cmd[k] # None
      BY <1>5 DEF Range, QueueInv, SubmitInv
    <2>2. \A i \in DOMAIN q : q[i] \in Range(q)
      BY DEF Range
    <2>3. \A i \in DOMAIN q : cmd'[q[i]] # None
      BY <1>3, <1>4, <1>8, <2>1, <2>2
    <2>4. \A w \in Workers : request[w] # None => cmd'[request[w]] # None
      BY <1>3, <1>4, <1>5 DEF QueueInv, SubmitInv
    <2>5. QED
      BY <1>1, <1>4, <2>3, <2>4 DEF QueueInv, SubmitInv
  <1>11. JobOnce'
    <2>1. \A w \in Workers : request[w] # None =>
            /\ request[w] \notin Range(m_workqueue)
            /\ \A v \in Workers : request[v] = request[w] => v = w
      BY JobOnceHere DEF QueueInv
    <2>2. \A w \in Workers : request[w] # None =>
            /\ request[w] \notin Range(q)
            /\ \A v \in Workers : request[v] = request[w] => v = w
      BY <1>7, <1>8, <2>1
    <2>3. QED
      BY <1>1, <1>8, <2>2 DEF JobOnce, T!JobOnce, Range, T!Range
  <1>12. WakeupInv'
    <2>1. Takers' = Takers
      BY <1>1 DEF Takers
    <2>2. Len(m_workqueue) <= m_queuestat + Cardinality(Takers)
      BY <1>1 DEF QueueInv, WakeupInv
    <2>3. Len(q) <= m_queuestat + Cardinality(Takers) + 1
      BY <1>5, <1>8, <2>2, TakersFinite DEF QueueInv, T!PoolTypeOK
    <2>4. QED
      BY <1>1, <2>1, <2>3 DEF WakeupInv
  <1>13. QED
    BY <1>9, <1>10, <1>11, <1>12 DEF QueueInv

(* Who is on the way to the queue, when one worker moves.                    *)
LEMMA TakersMove ==
  ASSUME T!PoolTypeOK, NEW w \in Workers, NEW s,
         wstep' = [wstep EXCEPT ![w] = s]
  PROVE  /\ s = "take" /\ wstep[w] # "take" =>
              Cardinality(Takers)' = Cardinality(Takers) + 1
         /\ s # "take" /\ wstep[w] = "take" =>
              Cardinality(Takers)' = Cardinality(Takers) - 1
         /\ s # "take" /\ wstep[w] # "take" => Takers' = Takers
  <1>1. \A v \in Workers : wstep'[v] = IF v = w THEN s ELSE wstep[v]
    BY DEF T!PoolTypeOK
  <1>2. ASSUME s = "take", wstep[w] # "take"
        PROVE  Cardinality(Takers)' = Cardinality(Takers) + 1
    <2>1. Takers' = Takers \cup {w} /\ w \notin Takers
      BY <1>1, <1>2 DEF Takers
    <2>2. QED
      BY <2>1, TakersFinite, FS_AddElement
  <1>3. ASSUME s # "take", wstep[w] = "take"
        PROVE  Cardinality(Takers)' = Cardinality(Takers) - 1
    <2>1. Takers' = Takers \ {w} /\ w \in Takers
      BY <1>1, <1>3 DEF Takers
    <2>2. QED
      BY <2>1, TakersFinite, FS_RemoveElement
  <1>4. ASSUME s # "take", wstep[w] # "take" PROVE Takers' = Takers
    BY <1>1, <1>4 DEF Takers
  <1>5. QED
    BY <1>2, <1>3, <1>4

(* run: waiting for the semaphore takes nothing from the queue.              *)
LEMMA WaitKeeps ==
  ASSUME QueueInv, cmd' = cmd, NEW w \in Workers,
         T!QueueWait(w) \/ T!QueueInterrupted(w)
  PROVE  QueueInv'
  <1>1. /\ wstep[w] = "wait" /\ wstep' = [wstep EXCEPT ![w] = "take"]
        /\ UNCHANGED <<m_workqueue, posting, request>>
    BY DEF T!QueueWait, T!QueueInterrupted
  <1>2. m_queuestat \in Nat /\ m_queuestat' \in Nat
        /\ m_queuestat' >= m_queuestat - 1
    BY DEF T!QueueWait, T!QueueInterrupted, QueueInv, T!PoolTypeOK
  <1>3. T!PoolTypeOK'
    BY <1>1, <1>2 DEF QueueInv, T!PoolTypeOK
  <1>4. SubmitInv'
    BY <1>1 DEF QueueInv, SubmitInv, T!PoolTypeOK
  <1>5. JobOnce'
    BY <1>1 DEF QueueInv, JobOnce, T!JobOnce, T!Range
  <1>6. Cardinality(Takers)' = Cardinality(Takers) + 1
    BY <1>1, TakersMove DEF QueueInv
  <1>7. WakeupInv'
    <2>1. Len(m_workqueue) \in Nat
      BY LenProperties DEF QueueInv, T!PoolTypeOK
    <2>2. QED
      BY <1>1, <1>2, <1>6, <2>1, TakersFinite DEF QueueInv, WakeupInv
  <1>8. QED
    BY <1>3, <1>4, <1>5, <1>7 DEF QueueInv

(* run: the first job goes to the worker.                                    *)
LEMMA TakeKeeps ==
  ASSUME QueueInv, cmd' = cmd, NEW w \in Workers, T!Take(w)
  PROVE  QueueInv'
  <1>1. /\ m_workqueue \in Seq(Jobs) /\ Len(m_workqueue) \in Nat
        /\ m_queuestat \in Nat
        /\ \A i, k \in DOMAIN m_workqueue :
             m_workqueue[i] = m_workqueue[k] => i = k
    BY LenProperties, JobOnceHere DEF QueueInv, T!PoolTypeOK
  <1>2. wstep[w] = "take" /\ UNCHANGED <<m_queuestat, posting>>
    BY DEF T!Take
  <1>3. CASE m_workqueue = <<>>
    <2>1. /\ wstep' = [wstep EXCEPT ![w] = "wait"]
          /\ UNCHANGED <<request, m_workqueue>>
      BY <1>3 DEF T!Take
    <2>2. Cardinality(Takers)' \in Nat
      <3>1. Takers' \subseteq Workers
        BY DEF Takers
      <3>2. QED
        BY <3>1, RedisAssumption, FS_Subset, FS_CardinalityType
    <2>3. Len(m_workqueue) = 0
      BY <1>3, EmptySeq
    <2>4. WakeupInv'
      BY <1>1, <1>2, <2>1, <2>2, <2>3 DEF WakeupInv
    <2>5. T!PoolTypeOK'
      BY <1>2, <2>1 DEF QueueInv, T!PoolTypeOK
    <2>6. SubmitInv' /\ JobOnce'
      BY <1>2, <2>1 DEF QueueInv, SubmitInv, T!PoolTypeOK, JobOnce, T!JobOnce,
                        T!Range
    <2>7. QED
      BY <2>4, <2>5, <2>6 DEF QueueInv
  <1>4. CASE m_workqueue # <<>>
    <2> DEFINE j == Head(m_workqueue)
               q == Tail(m_workqueue)
    <2>1. /\ j \in Range(m_workqueue) /\ j \notin Range(q)
          /\ Range(q) \subseteq Range(m_workqueue)
          /\ q \in Seq(Jobs) /\ Len(q) = Len(m_workqueue) - 1
          /\ \A i, k \in DOMAIN q : q[i] = q[k] => i = k
      BY <1>1, <1>4, HeadIsApart
    <2>2. /\ wstep' = [wstep EXCEPT ![w] = "run"]
          /\ request' = [request EXCEPT ![w] = j]
          /\ m_workqueue' = q
      BY <1>4 DEF T!Take, T!TakeFirst
    <2>3. \A i \in Range(m_workqueue) : i \in Jobs /\ cmd[i] # None
      BY <1>1, ElementOfSeq, LenProperties DEF Range, QueueInv, SubmitInv
    <2> HIDE DEF j, q
    <2>4. j \in Jobs /\ cmd[j] # None /\ j # None
      BY <2>1, <2>3, RedisAssumption, AccountsAssumption
    <2>5. /\ \A v \in Workers : request'[v] = IF v = w THEN j ELSE request[v]
          /\ \A v \in Workers : wstep'[v] = IF v = w THEN "run" ELSE wstep[v]
      BY <2>2 DEF QueueInv, T!PoolTypeOK
    <2>6. T!PoolTypeOK'
      BY <1>2, <2>1, <2>2, <2>4 DEF QueueInv, T!PoolTypeOK
    <2>7. SubmitInv'
      <3>1. \A i \in DOMAIN q : q[i] \in Range(q)
        BY DEF Range
      <3>2. \A i \in DOMAIN q : cmd[q[i]] # None
        BY <2>1, <2>3, <3>1
      <3>3. QED
        BY <2>2, <2>4, <2>5, <3>2 DEF QueueInv, SubmitInv
    <2>8. JobOnce'
      <3>1. \A v \in Workers : request[v] # None =>
              /\ request[v] \notin Range(m_workqueue)
              /\ \A u \in Workers : request[u] = request[v] => u = v
        BY JobOnceHere DEF QueueInv
      <3>2. \A v \in Workers : request'[v] # None =>
              /\ request'[v] \notin Range(q)
              /\ \A u \in Workers : request'[u] = request'[v] => u = v
        BY <2>1, <2>4, <2>5, <3>1
      <3>3. QED
        BY <2>1, <2>2, <3>2 DEF JobOnce, T!JobOnce, Range, T!Range
    <2>9. WakeupInv'
      <3>1. Cardinality(Takers)' = Cardinality(Takers) - 1
        <4>1. T!PoolTypeOK /\ wstep[w] = "take" /\ "run" # "take"
          BY <1>2 DEF QueueInv
        <4>2. QED
          BY <2>2, <4>1, TakersMove
      <3>2. QED
        BY <1>1, <1>2, <2>1, <2>2, <3>1, TakersFinite DEF QueueInv, WakeupInv
    <2>10. QED
      BY <2>6, <2>7, <2>8, <2>9 DEF QueueInv
  <1>5. QED
    BY <1>3, <1>4

(* run: the round is over.                                                   *)
LEMMA DoneKeeps ==
  ASSUME QueueInv, cmd' = cmd, NEW w \in Workers, T!Done(w)
  PROVE  QueueInv'
  <1>1. /\ wstep[w] = "run"
        /\ wstep' = [wstep EXCEPT ![w] = "wait"]
        /\ request' = [request EXCEPT ![w] = None]
        /\ UNCHANGED <<m_workqueue, m_queuestat, posting>>
    BY DEF T!Done
  <1>2. /\ \A v \in Workers : request'[v] = IF v = w THEN None ELSE request[v]
        /\ \A v \in Workers : wstep'[v] = IF v = w THEN "wait" ELSE wstep[v]
    BY <1>1 DEF QueueInv, T!PoolTypeOK
  <1>3. T!PoolTypeOK'
    BY <1>1 DEF QueueInv, T!PoolTypeOK
  <1>4. SubmitInv'
    BY <1>1, <1>2 DEF QueueInv, SubmitInv
  <1>5. JobOnce'
    BY <1>1, <1>2 DEF QueueInv, JobOnce, T!JobOnce, T!Range
  <1>6. WakeupInv'
    <2>1. Takers' = Takers
      <3>1. T!PoolTypeOK /\ wstep[w] # "take" /\ "wait" # "take"
        BY <1>1 DEF QueueInv
      <3>2. QED
        BY <1>1, <3>1, TakersMove
    <2>2. QED
      BY <1>1, <2>1 DEF QueueInv, WakeupInv
  <1>7. QED
    BY <1>3, <1>4, <1>5, <1>6 DEF QueueInv

(* append: the post, which comes after the job is in the queue.              *)
LEMMA PostKeeps ==
  ASSUME QueueInv, cmd' = cmd, T!AppendPost
  PROVE  QueueInv'
  <1>1. /\ posting /\ ~posting' /\ m_queuestat' = m_queuestat + 1
        /\ posting' \in BOOLEAN
        /\ UNCHANGED <<m_workqueue, wstep, request>>
    BY DEF T!AppendPost
  <1>2. m_queuestat \in Nat /\ Len(m_workqueue) \in Nat
    BY LenProperties DEF QueueInv, T!PoolTypeOK
  <1>3. WakeupInv'
    <2>1. Takers' = Takers
      BY <1>1 DEF Takers
    <2>2. QED
      BY <1>1, <1>2, <2>1, TakersFinite DEF QueueInv, WakeupInv
  <1>4. T!PoolTypeOK'
    BY <1>1, <1>2 DEF QueueInv, T!PoolTypeOK
  <1>5. SubmitInv' /\ JobOnce'
    BY <1>1 DEF QueueInv, SubmitInv, JobOnce, T!JobOnce, T!Range
  <1>6. QED
    BY <1>3, <1>4, <1>5 DEF QueueInv

(* The invariant of the queue holds in every reachable state.                *)
LEMMA QueueInvariant == Spec => []QueueInv
  <1>1. QueueInv /\ [Next]_vars => QueueInv'
    <2> SUFFICES ASSUME QueueInv, [Next]_vars PROVE QueueInv'
      OBVIOUS
    <2>1. CASE UNCHANGED <<jobVars, cmd>>
      BY <2>1 DEF jobVars, QueueInv, T!PoolTypeOK, SubmitInv, JobOnce,
                  T!JobOnce, T!Range, WakeupInv, Takers
    <2>2. QED
      BY <2>1, QueueMoves, SubmitKeeps, WaitKeeps, TakeKeeps, DoneKeeps,
         PostKeeps
  <1>2. QED
    BY <1>1, QueueStart, PTL DEF Spec

(* append, run: every job is in the queue once or has one worker.            *)
THEOREM JobHasOneWorker == Spec => []JobOnce
  <1>1. QueueInv => JobOnce
    BY DEF QueueInv
  <1>2. QED
    BY <1>1, QueueInvariant, PTL

(* append, run: no job lies in the queue without a unit of the semaphore, a  *)
(* worker on its way or a post still to come, though waits are interrupted.  *)
THEOREM NoJobOverslept == Spec => []NoLostWakeup
  <1>1. QueueInv => NoLostWakeup
    <2> SUFFICES ASSUME QueueInv PROVE NoLostWakeup
      OBVIOUS
    <2>1. m_queuestat \in Nat /\ posting \in BOOLEAN
      BY DEF QueueInv, T!PoolTypeOK
    <2>2. Len(m_workqueue) <= m_queuestat + Cardinality(Takers)
                              + (IF posting THEN 1 ELSE 0)
      <3>1. CASE posting
        BY <3>1 DEF QueueInv, WakeupInv
      <3>2. CASE ~posting
        <4>1. Len(m_workqueue) <= m_queuestat + Cardinality(Takers)
          BY <3>2 DEF QueueInv, WakeupInv
        <4>2. QED
          BY <2>1, <3>2, <4>1, TakersFinite
      <3>3. QED
        BY <3>1, <3>2
    <2>3. QED
      <3>1. Cardinality(Takers) = T!Cardinality(Takers)
        BY Zenon DEF Cardinality, T!Cardinality
      <3>2. QED
        BY <2>2, <3>1 DEF NoLostWakeup, T!NoLostWakeup, Takers
  <1>2. QED
    BY <1>1, QueueInvariant, PTL

-----------------------------------------------------------------------------
(* The accounts.                                                             *)

AccountTypes ==
  /\ db \in [Names -> Passwords \cup {None}]
  /\ stored \in [Names -> SUBSET Passwords]
  /\ page \in [Jobs -> {"none", "log", "registerError", "welcome", "logError",
                        "file"}]
  /\ doing \in [Workers -> {"idle", "command", "lock", "set", "unlock",
                            "done"}]
  /\ m_lock \in Workers \cup {None}
  /\ down \in BOOLEAN
  /\ alarms \in Nat

(* A worker is in do_request only while it has a job; between SET and the    *)
(* answer the name is there; only what was submitted is answered.            *)
DoInv ==
  /\ \A w \in Workers : doing[w] # "idle" => wstep[w] = "run"
  /\ \A w \in Workers : doing[w] = "unlock" => db[Asked(w).name] # None
  /\ \A j \in Jobs : page[j] # "none" => cmd[j] # None
  /\ \A n \in Names : db[n] # None => db[n] \in stored[n]

(* The workers that have seen the name n free and not yet answered.          *)
Pending(n) ==
  {w \in Workers : doing[w] \in {"lock", "set", "unlock"} /\ Asked(w).name = n}

(* Each registration of a name has or had a worker of its own.               *)
RegisterInv ==
  \A n \in Names :
    Cardinality(Registered(n)) + Cardinality(Pending(n)) <= Cardinality(Workers)

(* AnswersTrue, as far as the replies are those that redis gave.             *)
TrueInv ==
  /\ \A j \in Jobs :
       page[j] \in {"registerError", "log", "welcome", "logError"}
       => db[cmd[j].name] # None
  /\ \A j \in Jobs :
       page[j] = "welcome" => cmd[j].password \in stored[cmd[j].name]

AccountInv == AccountTypes /\ DoInv /\ TrueInv /\ RegisterInv

(* The sets that are counted are finite.                                    *)
LEMMA RegisterFinite ==
  \A n : /\ IsFiniteSet(Registered(n)) /\ Cardinality(Registered(n)) \in Nat
         /\ IsFiniteSet(Pending(n)) /\ Cardinality(Pending(n)) \in Nat
  <1>1. \A n : Registered(n) \subseteq Jobs /\ Pending(n) \subseteq Workers
    BY DEF Registered, Pending
  <1>2. QED
    BY <1>1, RedisAssumption, AccountsAssumption, FS_Subset, FS_CardinalityType

(* What a worker in do_request is asked for.                                 *)
LEMMA AskedIs ==
  ASSUME QueueInv, DoInv, NEW w \in Workers, doing[w] # "idle"
  PROVE  /\ wstep[w] = "run" /\ request[w] \in Jobs
         /\ Asked(w) \in Commands
         /\ Asked(w).name \in Names /\ Asked(w).password \in Passwords
  <1>1. wstep[w] = "run" /\ request[w] # None
    BY DEF DoInv, QueueInv, SubmitInv
  <1>2. request[w] \in Jobs /\ cmd[request[w]] # None
    BY <1>1 DEF QueueInv, SubmitInv, T!PoolTypeOK
  <1>3. cmd[request[w]] \in Commands
    BY <1>2 DEF QueueInv, SubmitInv
  <1>4. QED
    BY <1>1, <1>2, <1>3 DEF Asked, Commands

(* Fewer registrations, and fewer workers under way, are within the bound.   *)
LEMMA FewerRegister ==
  ASSUME RegisterInv,
         \A n \in Names : Registered(n)' \subseteq Registered(n)
                          /\ Pending(n)' \subseteq Pending(n)
  PROVE  RegisterInv'
  <1>1. ASSUME NEW n \in Names
        PROVE  Cardinality(Registered(n))' + Cardinality(Pending(n))'
                 <= Cardinality(Workers)
    <2>1. /\ Cardinality(Registered(n))' <= Cardinality(Registered(n))
          /\ Cardinality(Pending(n))' <= Cardinality(Pending(n))
      BY RegisterFinite, FS_Subset
    <2>2. /\ Cardinality(Registered(n))' \in Nat
          /\ Cardinality(Pending(n))' \in Nat
      <3>1. Registered(n)' \subseteq Jobs /\ Pending(n)' \subseteq Workers
        BY DEF Registered, Pending
      <3>2. QED
        BY <3>1, RedisAssumption, AccountsAssumption, FS_Subset,
           FS_CardinalityType
    <2>3. QED
      BY <2>1, <2>2, RegisterFinite, CountsFinite DEF RegisterInv
  <1>2. QED
    BY <1>1 DEF RegisterInv

(* Nothing is stored or answered at first.                                  *)
LEMMA AccountStart == Init => AccountInv
  <1> SUFFICES ASSUME Init PROVE AccountInv
    OBVIOUS
  <1>1. AccountTypes
    BY AccountsAssumption DEF Init, AccountTypes
  <1>2. DoInv /\ TrueInv
    BY DEF Init, DoInv, TrueInv
  <1>3. RegisterInv
    <2>1. \A n : Registered(n) = {} /\ Pending(n) = {}
      BY DEF Init, Registered, Pending
    <2>2. QED
      BY <2>1, FS_EmptySet, CountsFinite DEF RegisterInv
  <1>4. QED
    BY <1>1, <1>2, <1>3 DEF AccountInv

(* Steps outside do_request: no worker in it loses its job.                  *)
LEMMA OutsideKeeps ==
  ASSUME QueueInv, AccountInv, AccountTypes',
         UNCHANGED <<db, stored, cmd, page, doing>>,
         \A w \in Workers : doing[w] # "idle" =>
           wstep'[w] = wstep[w] /\ request'[w] = request[w]
  PROVE  AccountInv'
  <1>1. DoInv'
    BY DEF AccountInv, DoInv, Asked
  <1>2. TrueInv'
    BY DEF AccountInv, TrueInv
  <1>3. RegisterInv'
    BY FewerRegister DEF AccountInv, Registered, Pending, Asked
  <1>4. QED
    BY <1>1, <1>2, <1>3 DEF AccountInv

(* A worker goes on in do_request without an answer.                         *)
LEMMA InsideKeeps ==
  ASSUME QueueInv, AccountInv, AccountTypes',
         UNCHANGED <<db, stored, cmd, page, jobVars>>,
         NEW w \in Workers, NEW s, wstep[w] = "run",
         doing' = [doing EXCEPT ![w] = s],
         s = "command" \/ (s = "set" /\ doing[w] = "lock")
  PROVE  AccountInv'
  <1>1. \A v \in Workers : doing'[v] = IF v = w THEN s ELSE doing[v]
    BY DEF AccountInv, AccountTypes
  <1>2. DoInv'
    BY <1>1 DEF AccountInv, DoInv, Asked, jobVars
  <1>3. TrueInv'
    BY DEF AccountInv, TrueInv
  <1>4. \A n \in Names : Registered(n)' = Registered(n)
                         /\ Pending(n)' \subseteq Pending(n)
    BY <1>1 DEF Registered, Pending, Asked, jobVars
  <1>5. QED
    BY <1>2, <1>3, <1>4, FewerRegister DEF AccountInv

(* do_request ends with an answer that is true of the accounts now: they     *)
(* only grow, so that it stays true.                                         *)
LEMMA AnswerKeeps ==
  ASSUME QueueInv, AccountInv, AccountTypes',
         UNCHANGED <<db, stored, cmd, jobVars>>,
         NEW w \in Workers, doing[w] # "idle",
         doing' = [doing EXCEPT ![w] = "done"],
         NEW p, page' = [page EXCEPT ![request[w]] = p],
         p \in {"registerError", "log", "welcome", "logError"} =>
           db[Asked(w).name] # None,
         p = "welcome" => Asked(w).password \in stored[Asked(w).name],
         p = "log" => doing[w] = "unlock"
  PROVE  AccountInv'
  <1> DEFINE r == request[w]
  <1>1. /\ r \in Jobs /\ wstep[w] = "run" /\ Asked(w) = cmd[r]
        /\ Asked(w).name \in Names /\ cmd[r] # None
    BY AskedIs DEF Asked, AccountInv, QueueInv, SubmitInv
  <1>2. /\ \A v \in Workers : doing'[v] = IF v = w THEN "done" ELSE doing[v]
        /\ \A j \in Jobs : page'[j] = IF j = r THEN p ELSE page[j]
    BY <1>1 DEF AccountInv, AccountTypes
  <1> HIDE DEF r
  <1>3. DoInv'
    BY <1>1, <1>2 DEF AccountInv, DoInv, Asked, jobVars
  <1>4. TrueInv'
    BY <1>1, <1>2 DEF AccountInv, TrueInv
  <1>5. ASSUME NEW n \in Names
        PROVE  /\ IsFiniteSet(Registered(n)') /\ IsFiniteSet(Pending(n)')
               /\ Cardinality(Registered(n))' + Cardinality(Pending(n))'
                    <= Cardinality(Registered(n)) + Cardinality(Pending(n))
    <2>1. CASE p = "log" /\ Asked(w).name = n
      <3>1. Registered(n)' \subseteq Registered(n) \cup {r}
        BY <1>1, <1>2 DEF Registered
      <3>2. Pending(n)' \subseteq Pending(n) \ {w} /\ w \in Pending(n)
        BY <1>2, <2>1 DEF Pending, Asked, jobVars
      <3>3. /\ IsFiniteSet(Registered(n) \cup {r})
            /\ Cardinality(Registered(n) \cup {r})
                 <= Cardinality(Registered(n)) + 1
        <4>1. IsFiniteSet(Registered(n)) /\ Cardinality(Registered(n)) \in Nat
          BY RegisterFinite
        <4>2. /\ IsFiniteSet(Registered(n) \cup {r})
              /\ Cardinality(Registered(n) \cup {r}) =
                   IF r \in Registered(n) THEN Cardinality(Registered(n))
                                          ELSE Cardinality(Registered(n)) + 1
          BY <4>1, FS_AddElement
        <4>3. QED
          BY <4>1, <4>2
      <3>4. /\ IsFiniteSet(Pending(n) \ {w})
            /\ Cardinality(Pending(n) \ {w}) = Cardinality(Pending(n)) - 1
        BY <3>2, RegisterFinite, FS_RemoveElement
      <3>5. /\ IsFiniteSet(Registered(n)')
            /\ Cardinality(Registered(n)') \in Nat
            /\ Cardinality(Registered(n)')
                 <= Cardinality(Registered(n) \cup {r})
        BY <3>1, <3>3, FS_Subset, FS_CardinalityType
      <3>6. /\ IsFiniteSet(Pending(n)')
            /\ Cardinality(Pending(n)') \in Nat
            /\ Cardinality(Pending(n)') <= Cardinality(Pending(n) \ {w})
        BY <3>2, <3>4, FS_Subset, FS_CardinalityType
      <3>7. /\ Cardinality(Registered(n) \cup {r}) \in Nat
            /\ Cardinality(Pending(n) \ {w}) \in Nat
        BY <3>3, <3>4, FS_CardinalityType
      <3>8. QED
        BY <3>3, <3>4, <3>5, <3>6, <3>7, RegisterFinite
    <2>2. CASE ~(p = "log" /\ Asked(w).name = n)
      <3>1. Registered(n)' \subseteq Registered(n)
        BY <1>1, <1>2, <2>2 DEF Registered
      <3>2. Pending(n)' \subseteq Pending(n)
        BY <1>2 DEF Pending, Asked, jobVars
      <3>3. /\ IsFiniteSet(Registered(n)') /\ IsFiniteSet(Pending(n)')
            /\ Cardinality(Registered(n)') <= Cardinality(Registered(n))
            /\ Cardinality(Pending(n)') <= Cardinality(Pending(n))
        BY <3>1, <3>2, RegisterFinite, FS_Subset
      <3>4. /\ Cardinality(Registered(n)') \in Nat
            /\ Cardinality(Pending(n)') \in Nat
        BY <3>3, FS_CardinalityType
      <3>5. QED
        BY <3>3, <3>4, RegisterFinite
    <2>3. QED
      BY <2>1, <2>2
  <1>6. RegisterInv'
    <2>1. ASSUME NEW n \in Names
          PROVE  Cardinality(Registered(n))' + Cardinality(Pending(n))'
                   <= Cardinality(Workers)
      <3>1. /\ Cardinality(Registered(n))' \in Nat
            /\ Cardinality(Pending(n))' \in Nat
        BY <1>5, FS_CardinalityType
      <3>2. QED
        BY <1>5, <3>1, RegisterFinite, CountsFinite DEF AccountInv, RegisterInv
    <2>2. QED
      BY <2>1 DEF RegisterInv
  <1>7. QED
    BY <1>3, <1>4, <1>6 DEF AccountInv

(* GET finds the name free: nobody has registered it, and there are at most  *)
(* as many workers under way as there are workers.                           *)
LEMMA FreeKeeps ==
  ASSUME QueueInv, AccountInv, AccountTypes',
         UNCHANGED <<db, stored, cmd, page, jobVars>>,
         NEW w \in Workers, doing[w] # "idle",
         doing' = [doing EXCEPT ![w] = "lock"],
         db[Asked(w).name] = None
  PROVE  AccountInv'
  <1>1. \A v \in Workers : doing'[v] = IF v = w THEN "lock" ELSE doing[v]
    BY DEF AccountInv, AccountTypes
  <1>2. wstep[w] = "run"
    BY AskedIs DEF AccountInv
  <1>3. DoInv'
    BY <1>1, <1>2 DEF AccountInv, DoInv, Asked, jobVars
  <1>4. TrueInv'
    BY DEF AccountInv, TrueInv
  <1>5. ASSUME NEW n \in Names
        PROVE  Cardinality(Registered(n))' + Cardinality(Pending(n))'
                 <= Cardinality(Workers)
    <2>0. Registered(n)' = Registered(n)
      BY DEF Registered
    <2>1. CASE Asked(w).name = n
      <3>1. Registered(n) = {}
        BY <2>1 DEF AccountInv, TrueInv, Registered
      <3>2. Pending(n)' \subseteq Workers
        BY DEF Pending
      <3>3. /\ Cardinality(Pending(n)') <= Cardinality(Workers)
            /\ Cardinality(Pending(n)') \in Nat
        BY <3>2, RedisAssumption, FS_Subset, FS_CardinalityType
      <3>4. QED
        BY <2>0, <3>1, <3>3, FS_EmptySet
    <2>2. CASE Asked(w).name # n
      <3>1. Pending(n)' = Pending(n)
        <4>1. \A v \in Workers : Asked(v)' = Asked(v)
          BY DEF Asked, jobVars
        <4>2. w \notin Pending(n) /\ w \notin Pending(n)'
          BY <2>2, <4>1 DEF Pending
        <4>3. \A v \in Workers \ {w} : v \in Pending(n)' <=> v \in Pending(n)
          BY <1>1, <4>1 DEF Pending
        <4>4. Pending(n) \subseteq Workers /\ Pending(n)' \subseteq Workers
          BY DEF Pending
        <4>5. QED
          BY <4>2, <4>3, <4>4
      <3>2. QED
        BY <2>0, <3>1 DEF AccountInv, RegisterInv
    <2>3. QED
      BY <2>1, <2>2
  <1>6. QED
    BY <1>3, <1>4, <1>5 DEF AccountInv, RegisterInv

(* SET: the name is there from now on, with one more password stored.        *)
LEMMA SetKeeps ==
  ASSUME QueueInv, AccountInv, AccountTypes', NEW w \in Workers, RegisterSet(w)
  PROVE  AccountInv'
  <1> DEFINE n == Asked(w).name
             c == Asked(w).password
  <1>1. /\ doing[w] = "set" /\ wstep[w] = "run"
        /\ n \in Names /\ c \in Passwords /\ c # None
    BY AskedIs, AccountsAssumption DEF AccountInv, RegisterSet, At
  <1>2. /\ db' = [db EXCEPT ![n] = c]
        /\ stored' = [stored EXCEPT ![n] = @ \cup {c}]
        /\ doing' = [doing EXCEPT ![w] = "unlock"]
        /\ UNCHANGED <<cmd, page, m_workqueue, wstep, request>>
    BY DEF RegisterSet, Then, jobVars
  <1>3. \A v \in Workers : Asked(v)' = Asked(v)
    BY <1>2 DEF Asked
  <1>4. /\ \A m \in Names : db'[m] = IF m = n THEN c ELSE db[m]
        /\ \A m \in Names : stored'[m] =
                              IF m = n THEN stored[m] \cup {c} ELSE stored[m]
        /\ \A v \in Workers : doing'[v] = IF v = w THEN "unlock" ELSE doing[v]
    BY <1>2 DEF AccountInv, AccountTypes
  <1>5. Asked(w)'.name = n
    BY <1>3
  <1> HIDE DEF n, c
  <1>6. \A v \in Workers : doing[v] # "idle" => Asked(v).name \in Names
    BY AskedIs DEF AccountInv
  <1>7. DoInv'
    <2>1. \A v \in Workers : doing'[v] # "idle" => wstep'[v] = "run"
      BY <1>1, <1>2, <1>4 DEF AccountInv, DoInv
    <2>2. \A v \in Workers : doing'[v] = "unlock" => db'[Asked(v)'.name] # None
      BY <1>1, <1>3, <1>4, <1>5, <1>6 DEF AccountInv, DoInv
    <2>3. \A j \in Jobs : page'[j] # "none" => cmd'[j] # None
      BY <1>2 DEF AccountInv, DoInv
    <2>4. \A m \in Names : db'[m] # None => db'[m] \in stored'[m]
      BY <1>4 DEF AccountInv, DoInv
    <2>5. QED
      BY <2>1, <2>2, <2>3, <2>4 DEF DoInv
  <1>8. TrueInv'
    <2>1. ASSUME NEW j \in Jobs, page[j] # "none" PROVE cmd[j].name \in Names
      BY <2>1 DEF AccountInv, DoInv, QueueInv, SubmitInv, Commands
    <2>2. QED
      BY <1>1, <1>2, <1>4, <2>1 DEF AccountInv, TrueInv
  <1>9. \A m \in Names : Registered(m)' = Registered(m)
                         /\ Pending(m)' \subseteq Pending(m)
    BY <1>1, <1>2, <1>3, <1>4 DEF Registered, Pending
  <1>10. QED
    BY <1>7, <1>8, <1>9, FewerRegister DEF AccountInv

(* A request comes: it is that of no worker, and has no answer.              *)
LEMMA RequestKeeps ==
  ASSUME QueueInv, AccountInv, AccountTypes', NEW k \in Jobs, Submit(k)
  PROVE  AccountInv'
  <1>1. PICK c \in Commands : cmd' = [cmd EXCEPT ![k] = c]
    BY DEF Submit
  <1>2. /\ UNCHANGED <<db, stored, page, doing, wstep, request>>
        /\ cmd[k] = None /\ c # None
    BY AccountsAssumption DEF Submit, T!AppendPush
  <1>3. \A j \in Jobs : cmd'[j] = IF j = k THEN c ELSE cmd[j]
    BY <1>1 DEF QueueInv, SubmitInv
  <1>4. page[k] = "none"
    BY <1>2 DEF AccountInv, DoInv
  <1>5. \A v \in Workers : doing[v] # "idle" => Asked(v)' = Asked(v)
    <2>1. \A v \in Workers : doing[v] # "idle" =>
            request[v] \in Jobs /\ request[v] # None
      BY AskedIs, RedisAssumption, AccountsAssumption DEF AccountInv
    <2>2. QED
      BY <1>2, <1>3, <2>1 DEF Asked, QueueInv, SubmitInv
  <1>6. DoInv'
    BY <1>2, <1>3, <1>5 DEF AccountInv, DoInv
  <1>7. TrueInv'
    BY <1>2, <1>3, <1>4 DEF AccountInv, TrueInv
  <1>8. \A n \in Names : Registered(n)' \subseteq Registered(n)
                         /\ Pending(n)' \subseteq Pending(n)
    BY <1>2, <1>3, <1>4, <1>5 DEF Registered, Pending
  <1>9. QED
    BY <1>6, <1>7, <1>8, FewerRegister DEF AccountInv

(* The round of run ends.                                                    *)
LEMMA FinishKeeps ==
  ASSUME QueueInv, AccountInv, AccountTypes', NEW w \in Workers, Finish(w)
  PROVE  AccountInv'
  <1>1. /\ UNCHANGED <<db, stored, cmd, page>>
        /\ doing' = [doing EXCEPT ![w] = "idle"]
        /\ request' = [request EXCEPT ![w] = None]
        /\ wstep' = [wstep EXCEPT ![w] = "wait"]
    BY DEF Finish, Then, T!Done
  <1>2. /\ \A v \in Workers : doing'[v] = IF v = w THEN "idle" ELSE doing[v]
        /\ \A v \in Workers : v # w => request'[v] = request[v]
                                       /\ wstep'[v] = wstep[v]
    BY <1>1 DEF AccountInv, AccountTypes, QueueInv, T!PoolTypeOK
  <1>3. \A v \in Workers : v # w => Asked(v)' = Asked(v)
    BY <1>1, <1>2 DEF Asked
  <1>4. DoInv'
    BY <1>1, <1>2, <1>3 DEF AccountInv, DoInv
  <1>5. TrueInv'
    BY <1>1 DEF AccountInv, TrueInv
  <1>6. \A n \in Names : Registered(n)' = Registered(n)
                         /\ Pending(n)' \subseteq Pending(n)
    BY <1>1, <1>2, <1>3 DEF Registered, Pending
  <1>7. QED
    BY <1>4, <1>5, <1>6, FewerRegister DEF AccountInv

-----------------------------------------------------------------------------
(* The types survive every step.                                             *)
LEMMA TypesKeep ==
  ASSUME QueueInv, AccountInv, [Next]_vars
  PROVE  AccountTypes'
  <1> USE DEF AccountTypes
  <1>0. AccountTypes
    BY DEF AccountInv
  <1>1. ASSUME NEW j \in Jobs, Submit(j) PROVE AccountTypes'
    BY <1>0, <1>1 DEF Submit
  <1>2. ASSUME Posted PROVE AccountTypes'
    BY <1>0, <1>2 DEF Posted, accountVars
  <1>3. ASSUME NEW w \in Workers, Worker(w) PROVE AccountTypes'
    <2>1. CASE \/ Fetch(w) \/ Connect(w) \/ GetConnection(w) \/ GiveBack(w)
               \/ Finish(w)
      BY <1>0, <2>1 DEF Fetch, Connect, GetConnection, GiveBack, Finish, Then,
                        accountVars
    <2>2. CASE ServePage(w)
      BY <1>0, <2>2 DEF ServePage, Answer, Then
    <2>3. CASE NullContext(w) \/ LoginUnknown(w)
      BY <1>0, <2>3 DEF NullContext, LoginUnknown
    <2>4. CASE RegisterGet(w)
      BY <1>0, <2>4 DEF RegisterGet, Answer, Then
    <2>5. CASE RegisterLock(w)
      BY <1>0, <2>5 DEF RegisterLock, Then
    <2>6. CASE RegisterSet(w)
      <3>1. Asked(w).name \in Names /\ Asked(w).password \in Passwords
        BY <2>6, AskedIs DEF RegisterSet, At, AccountInv
      <3>2. /\ db' \in [Names -> Passwords \cup {None}]
            /\ stored' \in [Names -> SUBSET Passwords]
        BY <1>0, <2>6, <3>1 DEF RegisterSet
      <3>3. QED
        BY <1>0, <2>6, <3>2 DEF RegisterSet, Then
    <2>7. CASE RegisterUnlock(w)
      BY <1>0, <2>7 DEF RegisterUnlock, Unlock, Answer, Then
    <2>8. CASE LoginGet(w)
      BY <1>0, <2>8 DEF LoginGet, Answer, Then
    <2>9. QED
      BY <1>3, <2>1, <2>2, <2>3, <2>4, <2>5, <2>6, <2>7, <2>8 DEF Worker
  <1>4. ASSUME NEW w \in Workers, Alarm(w) PROVE AccountTypes'
    BY <1>0, <1>4 DEF Alarm
  <1>5. ASSUME UNCHANGED vars PROVE AccountTypes'
    BY <1>0, <1>5 DEF vars, accountVars
  <1>6. QED
    BY <1>1, <1>2, <1>3, <1>4, <1>5 DEF Next

(* Every step keeps the invariant of the accounts.                          *)
LEMMA AccountStep ==
  ASSUME QueueInv, AccountInv, [Next]_vars
  PROVE  AccountInv'
  <1>0. AccountTypes'
    BY TypesKeep
  <1>1. ASSUME NEW j \in Jobs, Submit(j) PROVE AccountInv'
    BY <1>0, <1>1, RequestKeeps
  <1>2. ASSUME Posted PROVE AccountInv'
    BY <1>0, <1>2, OutsideKeeps DEF Posted, T!AppendPost, accountVars
  <1>3. ASSUME NEW w \in Workers, Worker(w) PROVE AccountInv'
    <2>1. CASE Fetch(w)
      <3>1. wstep[w] # "run" /\ doing[w] = "idle"
        BY <2>1 DEF Fetch, T!QueueWait, T!Take, AccountInv, AccountTypes, DoInv
      <3>2. \A v \in Workers : v # w =>
              wstep'[v] = wstep[v] /\ request'[v] = request[v]
        BY <2>1 DEF Fetch, T!QueueWait, T!Take, T!TakeFirst, QueueInv,
                    T!PoolTypeOK
      <3>3. QED
        BY <1>0, <2>1, <3>1, <3>2, OutsideKeeps DEF Fetch, accountVars
    <2>2. CASE GetConnection(w) \/ GiveBack(w)
      BY <1>0, <2>2, OutsideKeeps DEF GetConnection, GiveBack, accountVars,
                                      jobVars
    <2>3. CASE NullContext(w) \/ LoginUnknown(w)
      BY <1>0, <2>3, OutsideKeeps DEF NullContext, LoginUnknown, jobVars
    <2>4. CASE Connect(w)
      BY <1>0, <2>4, InsideKeeps DEF Connect, Then
    <2>5. CASE RegisterLock(w)
      <3>1. doing[w] = "lock" /\ wstep[w] = "run"
        BY <2>5 DEF RegisterLock, At, AccountInv, DoInv
      <3>2. QED
        BY <1>0, <2>5, <3>1, InsideKeeps DEF RegisterLock, Then
    <2>6. CASE ServePage(w)
      BY <1>0, <2>6, AnswerKeeps DEF ServePage, At, Answer, Then, Job
    <2>7. CASE RegisterGet(w)
      <3>1. CASE Taken(Asked(w).name)
        BY <1>0, <2>7, <3>1, AnswerKeeps
           DEF RegisterGet, Ready, At, Answer, Then, Job, Taken
      <3>2. CASE ~Taken(Asked(w).name)
        BY <1>0, <2>7, <3>2, FreeKeeps
           DEF RegisterGet, Ready, At, Then, Taken
      <3>3. QED
        BY <3>1, <3>2
    <2>8. CASE RegisterSet(w)
      BY <1>0, <2>8, SetKeeps
    <2>9. CASE RegisterUnlock(w)
      <3>1. doing[w] = "unlock" /\ db[Asked(w).name] # None
        BY <2>9 DEF RegisterUnlock, At, AccountInv, DoInv
      <3>2. QED
        BY <1>0, <2>9, <3>1, AnswerKeeps
           DEF RegisterUnlock, Answer, Then, Job
    <2>10. CASE LoginGet(w)
      <3> DEFINE n == Asked(w).name
                 p == IF db[n] = Asked(w).password THEN "welcome"
                                                   ELSE "logError"
      <3>1. /\ doing[w] = "command" /\ db[n] # None
            /\ page' = [page EXCEPT ![request[w]] = p]
            /\ doing' = [doing EXCEPT ![w] = "done"]
            /\ UNCHANGED <<db, stored, cmd, jobVars>>
        BY <2>10 DEF LoginGet, Ready, At, Answer, Then, Job
      <3>2. n \in Names
        BY <3>1, AskedIs DEF AccountInv
      <3>3. p = "welcome" => Asked(w).password \in stored[n]
        BY <3>1, <3>2 DEF AccountInv, DoInv
      <3>4. p # "log" /\ doing[w] # "idle"
        BY <3>1
      <3> HIDE DEF p
      <3>5. QED
        BY <1>0, <3>1, <3>3, <3>4, AnswerKeeps
    <2>11. CASE Finish(w)
      BY <1>0, <2>11, FinishKeeps
    <2>12. QED
      BY <1>3, <2>1, <2>2, <2>3, <2>4, <2>5, <2>6, <2>7, <2>8, <2>9, <2>10,
         <2>11 DEF Worker
  <1>4. ASSUME NEW w \in Workers, Alarm(w) PROVE AccountInv'
    <2>1. UNCHANGED <<db, stored, cmd, page, doing, request>>
      BY <1>4 DEF Alarm, T!QueueInterrupted, jobVars
    <2>2. \A v \in Workers : doing[v] # "idle" => wstep'[v] = wstep[v]
      BY <1>4 DEF Alarm, T!QueueInterrupted, jobVars, AccountInv, DoInv,
                  QueueInv, T!PoolTypeOK
    <2>3. QED
      BY <1>0, <2>1, <2>2, OutsideKeeps
  <1>5. ASSUME UNCHANGED vars PROVE AccountInv'
    BY <1>0, <1>5, OutsideKeeps DEF vars, accountVars, jobVars
  <1>6. QED
    BY <1>1, <1>2, <1>3, <1>4, <1>5 DEF Next

(* The invariant of the accounts holds in every reachable state.             *)
LEMMA AccountInvariant == Spec => []AccountInv
  <1>1. QueueInv /\ AccountInv /\ [Next]_vars => AccountInv'
    BY AccountStep
  <1>2. QED
    BY <1>1, AccountStart, QueueInvariant, PTL DEF Spec

(* Type correctness of the accounts with both pools (do_request, append,     *)
(* run, GetConnection, ReleaseConnection).                                   *)
THEOREM AccountsTypeCorrect == Spec => []TypeOK
  <1>1. PoolInv /\ QueueInv /\ AccountInv => TypeOK
    BY DEF PoolInv, RedisInv, QueueInv, SubmitInv, AccountInv, AccountTypes,
           TypeOK
  <1>2. QED
    BY <1>1, PoolInvariant, QueueInvariant, AccountInvariant, PTL

(* do_request: what a client is told is true of the accounts, whatever the   *)
(* other workers do between GET, SET and the answer.                         *)
THEOREM AnswersAreTrue == Spec => []AnswersTrue
  <1>1. AccountInv => AnswersTrue
    BY DEF AccountInv, TrueInv, AnswersTrue
  <1>2. QED
    BY <1>1, AccountInvariant, PTL

(* do_request: GET and SET are not one step, but no name is registered for   *)
(* more clients than there are threads.                                      *)
THEOREM RegistrationsBounded == Spec => []RegisteredAtMostThreads
  <1>1. AccountInv => RegisteredAtMostThreads
    BY RegisterFinite, CountsFinite
       DEF AccountInv, RegisterInv, RegisteredAtMostThreads
  <1>2. QED
    BY <1>1, AccountInvariant, PTL

-----------------------------------------------------------------------------
(* Nobody is stuck.                                                          *)

(* A worker is in GetConnection or ReleaseConnection only around do_request; *)
(* it locks, sets and unlocks with its connection in hand, and one at a time.*)
LockInv ==
  /\ \A w \in Workers : rstep[w] # "out" => doing[w] # "idle"
  /\ \A w \in Workers : doing[w] \in {"lock", "set", "unlock"}
                          => rstep[w] = "hold"
  /\ m_lock # None => m_lock \in Workers /\ doing[m_lock] \in {"set", "unlock"}
  /\ \A w \in Workers : doing[w] \in {"set", "unlock"} => m_lock = w

(* A request that has no answer yet is in the queue or with a worker, and a  *)
(* worker goes on to the next one only after the answer.                     *)
UnansweredInv ==
  /\ \A w \in Workers : doing[w] = "done" => page[request[w]] # "none"
  /\ \A j \in Jobs : cmd[j] # None /\ page[j] = "none" =>
       j \in Range(m_workqueue) \/ \E w \in Workers : request[w] = j

(* A step that leaves do_request and m_lock alone.                           *)
LEMMA LockFrame ==
  ASSUME LockInv, UNCHANGED <<doing, m_lock>>,
         \A w \in Workers : rstep'[w] # rstep[w] =>
           doing[w] \notin {"idle", "lock", "set", "unlock"}
  PROVE  LockInv'
  BY DEF LockInv

(* m_lock is taken when it is free, and given up by its holder.              *)
LEMMA LockStep ==
  ASSUME PoolInv, QueueInv, AccountInv, LockInv, [Next]_vars
  PROVE  LockInv'
  <1>1. /\ rstep \in [Workers -> Steps]
        /\ doing \in [Workers -> {"idle", "command", "lock", "set", "unlock",
                                  "done"}]
        /\ None \notin Workers
    BY AccountsAssumption
    DEF PoolInv, RedisInv, RedisTypeOK, AccountInv, AccountTypes
  <1>2. ASSUME NEW w \in Workers, Worker(w) PROVE LockInv'
    <2>1. CASE Fetch(w)
      BY <2>1, LockFrame DEF Fetch, accountVars, redisVars
    <2>2. CASE Connect(w)
      BY <1>1, <2>2 DEF Connect, LoadEnd, Go, Then, LockInv
    <2>3. CASE GetConnection(w)
      <3>1. /\ UNCHANGED <<doing, m_lock>>
            /\ rstep[w] \in {"size", "wait", "pop"}
            /\ \A v \in Workers : v # w => rstep'[v] = rstep[v]
        BY <1>1, <2>3
        DEF GetConnection, Getting, TestSize, Wait, Pop, Go, accountVars
      <3>2. QED
        BY <3>1, LockFrame DEF LockInv
    <2>4. CASE GiveBack(w)
      <3>1. /\ UNCHANGED <<doing, m_lock>> /\ doing[w] = "done"
            /\ \A v \in Workers : v # w => rstep'[v] = rstep[v]
        BY <1>1, <2>4
        DEF GiveBack, Releasing, Release, ReleaseNull, Post, Go, accountVars
      <3>2. QED
        BY <3>1, LockFrame DEF LockInv
    <2>5. CASE ServePage(w) \/ RegisterGet(w) \/ LoginGet(w)
      <3>1. /\ doing[w] = "command" /\ rstep[w] = "hold"
            /\ UNCHANGED <<m_lock, rstep>>
            /\ \/ doing' = [doing EXCEPT ![w] = "done"]
               \/ doing' = [doing EXCEPT ![w] = "lock"]
        BY <2>5 DEF ServePage, RegisterGet, LoginGet, Ready, At, Then, redisVars
      <3>2. QED
        BY <1>1, <3>1 DEF LockInv
    <2>6. CASE NullContext(w) \/ LoginUnknown(w)
      BY <2>6, LockFrame DEF NullContext, LoginUnknown, redisVars
    <2>7. CASE RegisterLock(w)
      BY <1>1, <2>7 DEF RegisterLock, At, Then, LockInv, redisVars
    <2>8. CASE RegisterSet(w)
      BY <1>1, <2>8 DEF RegisterSet, At, Then, LockInv, redisVars
    <2>9. CASE RegisterUnlock(w)
      BY <1>1, <2>9 DEF RegisterUnlock, Unlock, At, Then, LockInv, redisVars
    <2>10. CASE Finish(w)
      BY <1>1, <2>10 DEF Finish, Then, LockInv, redisVars
    <2>11. QED
      BY <1>2, <2>1, <2>2, <2>3, <2>4, <2>5, <2>6, <2>7, <2>8, <2>9, <2>10
      DEF Worker
  <1>3. ASSUME NEW w \in Workers, Alarm(w) PROVE LockInv'
    <2>1. CASE UNCHANGED redisVars
      BY <1>3, <2>1, LockFrame DEF Alarm, redisVars
    <2>2. CASE WaitInterrupted(w)
      <3>1. /\ UNCHANGED <<doing, m_lock>> /\ rstep[w] = "wait"
            /\ \A v \in Workers : v # w => rstep'[v] = rstep[v]
        BY <1>1, <1>3, <2>2 DEF Alarm, WaitInterrupted, Go
      <3>2. QED
        BY <3>1, LockFrame DEF LockInv
    <2>3. QED
      BY <1>3, <2>1, <2>2 DEF Alarm
  <1>4. CASE (\E j \in Jobs : Submit(j)) \/ Posted \/ UNCHANGED vars
    BY <1>4, LockFrame DEF Submit, Posted, vars, accountVars, redisVars
  <1>5. QED
    BY <1>2, <1>3, <1>4 DEF Next

(* What is in a queue is its first job or comes later.                       *)
LEMMA HeadAndTail ==
  ASSUME NEW S, NEW q \in Seq(S), q # <<>>
  PROVE  Range(q) \subseteq Range(Tail(q)) \cup {Head(q)}
  <1>1. /\ Len(q) \in Nat \ {0} /\ DOMAIN q = 1..Len(q) /\ Head(q) = q[1]
        /\ DOMAIN Tail(q) = 1..(Len(q) - 1)
        /\ \A i \in 1..(Len(q) - 1) : Tail(q)[i] = q[i + 1]
    BY EmptySeq, LenProperties, HeadTailProperties
  <1>2. ASSUME NEW i \in 1..Len(q), i # 1 PROVE q[i] \in Range(Tail(q))
    <2>1. i - 1 \in 1..(Len(q) - 1) /\ (i - 1) + 1 = i
      BY <1>1, <1>2
    <2>2. i - 1 \in DOMAIN Tail(q) /\ Tail(q)[i - 1] = q[i]
      BY <1>1, <2>1
    <2>3. QED
      BY <2>2 DEF Range
  <1>3. QED
    BY <1>1, <1>2 DEF Range

(* A request keeps its place until it is answered.                           *)
LEMMA UnansweredStep ==
  ASSUME QueueInv, AccountInv, UnansweredInv, [Next]_vars
  PROVE  UnansweredInv'
  <1>1. /\ m_workqueue \in Seq(Jobs) /\ None \notin Jobs
        /\ request \in [Workers -> Jobs \cup {None}]
        /\ cmd \in [Jobs -> Commands \cup {None}]
        /\ doing \in [Workers -> {"idle", "command", "lock", "set", "unlock",
                                  "done"}]
        /\ DOMAIN page = Jobs
    BY RedisAssumption, AccountsAssumption
    DEF QueueInv, SubmitInv, T!PoolTypeOK, AccountInv, AccountTypes
  <1>2. ASSUME UNCHANGED <<cmd, page, doing>>,
               Range(m_workqueue) \subseteq Range(m_workqueue)'
                 \cup {request'[w] : w \in Workers},
               \A w \in Workers : request[w] # None => request'[w] = request[w]
        PROVE  UnansweredInv'
    <2>1. \A w \in Workers : doing[w] # "idle" => request[w] # None
      BY DEF AccountInv, DoInv, QueueInv, SubmitInv
    <2>2. QED
      BY <1>1, <1>2, <2>1 DEF UnansweredInv
  <1>3. ASSUME NEW j \in Jobs, Submit(j) PROVE UnansweredInv'
    <2>1. /\ m_workqueue' = Append(m_workqueue, j)
          /\ UNCHANGED <<page, doing, request>>
          /\ \A k \in Jobs : k # j => cmd'[k] = cmd[k]
      BY <1>1, <1>3 DEF Submit, T!AppendPush
    <2>2. Range(m_workqueue)' = Range(m_workqueue) \cup {j}
      <3>1. j \notin Range(m_workqueue)
        BY <1>3 DEF Range, Submit, QueueInv, SubmitInv
      <3>2. \A i, k \in DOMAIN m_workqueue :
              m_workqueue[i] = m_workqueue[k] => i = k
        BY JobOnceHere DEF QueueInv
      <3>3. QED
        BY <1>1, <2>1, <3>1, <3>2, AppendNew
    <2>3. QED
      BY <2>1, <2>2 DEF UnansweredInv
  <1>4. ASSUME NEW w \in Workers, Worker(w) PROVE UnansweredInv'
    <2>1. CASE Fetch(w)
      <3>1. UNCHANGED <<cmd, page, doing>>
        BY <2>1 DEF Fetch, accountVars
      <3>2. CASE m_workqueue' = m_workqueue /\ request' = request
        BY <1>2, <3>1, <3>2
      <3>3. CASE m_workqueue # <<>> /\ T!Take(w)
        <4>1. /\ wstep[w] = "take"
              /\ request' = [request EXCEPT ![w] = Head(m_workqueue)]
              /\ m_workqueue' = Tail(m_workqueue)
          BY <3>3 DEF T!Take, T!TakeFirst
        <4>2. request[w] = None
          BY <4>1 DEF QueueInv, SubmitInv
        <4>3. Range(m_workqueue)
                \subseteq Range(Tail(m_workqueue)) \cup {Head(m_workqueue)}
          BY <1>1, <3>3, HeadAndTail
        <4>4. QED
          BY <1>1, <1>2, <3>1, <4>1, <4>2, <4>3
      <3>4. QED
        BY <2>1, <3>2, <3>3 DEF Fetch, T!QueueWait, T!Take
    <2>2. CASE GetConnection(w) \/ GiveBack(w) \/ NullContext(w)
               \/ LoginUnknown(w)
      BY <1>2, <2>2
      DEF GetConnection, GiveBack, NullContext, LoginUnknown, accountVars,
          jobVars
    <2>3. CASE Connect(w) \/ RegisterLock(w) \/ RegisterSet(w)
      <3>1. /\ UNCHANGED <<cmd, page, m_workqueue, request>>
            /\ \E s \in {"command", "set", "unlock"} :
                 doing' = [doing EXCEPT ![w] = s]
        BY <2>3 DEF Connect, RegisterLock, RegisterSet, Then, jobVars
      <3>2. QED
        BY <1>1, <3>1 DEF UnansweredInv
    <2>4. CASE \/ ServePage(w) \/ RegisterGet(w) \/ RegisterUnlock(w)
               \/ LoginGet(w)
      <3>1. CASE doing' = [doing EXCEPT ![w] = "lock"] /\ page' = page
        BY <1>1, <2>4, <3>1
        DEF ServePage, RegisterGet, RegisterUnlock, LoginGet, UnansweredInv,
            jobVars
      <3>2. CASE \E p \in {"file", "registerError", "log", "welcome",
                           "logError"} : page' = [page EXCEPT ![request[w]] = p]
        <4>1. /\ UNCHANGED <<cmd, m_workqueue, request>>
              /\ doing[w] # "idle"
              /\ doing' = [doing EXCEPT ![w] = "done"]
                 \/ doing' = [doing EXCEPT ![w] = "lock"]
          BY <2>4
          DEF ServePage, RegisterGet, RegisterUnlock, LoginGet, Ready, At,
              Then, jobVars
        <4>2. request[w] \in Jobs
          BY <4>1, AskedIs DEF AccountInv
        <4>3. page'[request[w]] # "none"
          BY <1>1, <3>2, <4>2
        <4>4. \A j \in Jobs : page[j] # "none" => page'[j] # "none"
          BY <1>1, <3>2
        <4>5. \A v \in Workers : doing[v] = "done" => request[v] \in Jobs
          BY AskedIs DEF AccountInv
        <4>6. QED
          BY <1>1, <4>1, <4>3, <4>4, <4>5 DEF UnansweredInv
      <3>3. QED
        BY <2>4, <3>1, <3>2
        DEF ServePage, RegisterGet, RegisterUnlock, LoginGet, Answer, Then, Job
    <2>5. CASE Finish(w)
      <3>1. /\ doing[w] = "done" /\ doing' = [doing EXCEPT ![w] = "idle"]
            /\ request' = [request EXCEPT ![w] = None]
            /\ UNCHANGED <<cmd, page, m_workqueue>>
        BY <2>5 DEF Finish, Then, T!Done
      <3>2. \A v \in Workers : v # w => request'[v] = request[v]
                                       /\ doing'[v] = doing[v]
        BY <1>1, <3>1
      <3>3. QED
        BY <1>1, <3>1, <3>2 DEF UnansweredInv
    <2>6. QED
      BY <1>4, <2>1, <2>2, <2>3, <2>4, <2>5 DEF Worker
  <1>5. ASSUME NEW w \in Workers, Alarm(w) PROVE UnansweredInv'
    BY <1>2, <1>5 DEF Alarm, T!QueueInterrupted, jobVars
  <1>6. CASE Posted \/ UNCHANGED vars
    BY <1>2, <1>6 DEF Posted, T!AppendPost, vars, accountVars, jobVars
  <1>7. QED
    BY <1>3, <1>4, <1>5, <1>6 DEF Next

(* Both hold in every reachable state.                                       *)
LEMMA StuckInvariant == Spec => [](LockInv /\ UnansweredInv)
  <1>1. Init => LockInv /\ UnansweredInv
    BY DEF Init, RedisInit, LockInv, UnansweredInv
  <1>2. /\ PoolInv /\ QueueInv /\ AccountInv /\ LockInv /\ UnansweredInv
        /\ [Next]_vars
        => LockInv' /\ UnansweredInv'
    BY LockStep, UnansweredStep
  <1>3. QED
    BY <1>1, <1>2, PoolInvariant, QueueInvariant, AccountInvariant, PTL
    DEF Spec

(* append, run, GetConnection, ReleaseConnection and do_request: when every  *)
(* thread waits, for a job, a connection or m_lock, every request has its    *)
(* answer, whatever waits a signal has ended; but for an init that failed    *)
(* and once the empty deque has been popped.                                 *)
THEOREM NobodyIsStuck == Spec => []NobodyStuck
  <1> SUFFICES ASSUME PoolInv, QueueInv, AccountInv, LockInv, UnansweredInv
               PROVE  NobodyStuck
    BY PoolInvariant, QueueInvariant, AccountInvariant, StuckInvariant, PTL
  <1> SUFFICES ASSUME \A w \in Workers : Blocked(w), ~posting,
                      m_MaxConn # None, ~emptied,
                      NEW j \in Jobs, cmd[j] # None, page[j] = "none"
               PROVE  FALSE
    BY DEF NobodyStuck
  <1>1. /\ \A w \in Workers : doing[w] # "idle" => wstep[w] = "run"
        /\ \A w \in Workers : rstep[w] # "out" => wstep[w] = "run"
    BY DEF AccountInv, DoInv, LockInv
  <1>2. \A w \in Workers : ~(At(w, "lock") /\ m_lock # None)
    <2>1. ASSUME m_lock # None PROVE FALSE
      <3>1. /\ m_lock \in Workers /\ doing[m_lock] \in {"set", "unlock"}
            /\ rstep[m_lock] = "hold" /\ wstep[m_lock] = "run"
        BY <1>1, <2>1 DEF LockInv
      <3>2. Blocked(m_lock)
        BY <3>1
      <3>3. QED
        BY <3>1, <3>2 DEF Blocked, At
    <2>2. QED
      BY <2>1
  <1>3. In("post") = {} /\ In("pop") = {}
    BY <1>1, <1>2 DEF In, Blocked, At
  <1>4. Len(connDeque) \in Nat /\ Len(connDeque) <= reserve
    <2>1. Cardinality(In("post")) = 0 /\ Cardinality(In("pop")) = 0
      BY <1>3, FS_EmptySet
    <2>2. reserve \in Nat
      BY DEF PoolInv, RedisInv, RedisTypeOK
    <2>3. Len(connDeque) <= Accounted
      BY DEF PoolInv, FewerInv
    <2>4. Len(connDeque) \in Nat
      BY LenProperties DEF PoolInv, RedisInv, RedisTypeOK
    <2>5. QED
      BY <2>1, <2>2, <2>3, <2>4 DEF Accounted
  <1>5. \A w \in Workers : rstep[w] # "wait"
    <2>1. ASSUME NEW w \in Workers, rstep[w] = "wait" PROVE FALSE
      <3>1. reserve = 0
        BY <1>1, <2>1 DEF Blocked, At
      <3>2. Len(connDeque) = 0
        BY <1>4, <3>1
      <3>3. m_MaxConn = Cardinality(Holders)
        BY <3>2, CountsFinite DEF PoolInv, RedisInv, ConnInv
      <3>4. m_MaxConn # 0
        BY RedisAssumption DEF PoolInv, RedisInv, RedisTypeOK
      <3>5. PICK v \in Workers : redis[v] # None
        BY <3>3, <3>4, FS_EmptySet DEF Holders
      <3>6. rstep[v] = "hold"
        BY <3>5 DEF PoolInv, RedisInv, HoldInv
      <3>7. QED
        BY <1>1, <1>2, <3>6 DEF Blocked
    <2>2. QED
      BY <2>1
  <1>6. \A w \in Workers : wstep[w] = "wait" /\ m_queuestat = 0
    BY <1>2, <1>3, <1>5 DEF Blocked, In
  <1>7. m_queuestat = 0 /\ Cardinality(Takers) = 0
    <2>1. Takers = {}
      BY <1>6 DEF Takers
    <2>2. QED
      BY <1>6, <2>1, FS_EmptySet, AccountsAssumption
  <1>8. DOMAIN m_workqueue = {}
    <2>1. Len(m_workqueue) = 0
      <3>1. Len(m_workqueue) \in Nat
        BY LenProperties DEF QueueInv, T!PoolTypeOK
      <3>2. Len(m_workqueue) <= 0
        BY <1>7 DEF QueueInv, WakeupInv
      <3>3. QED
        BY <3>1, <3>2
    <2>2. QED
      BY <2>1, LenProperties DEF QueueInv, T!PoolTypeOK
  <1>9. PICK w \in Workers : request[w] = j
    BY <1>8 DEF UnansweredInv, Range
  <1>10. wstep[w] = "run"
    BY <1>9, RedisAssumption, AccountsAssumption DEF QueueInv, SubmitInv
  <1>11. QED
    BY <1>6, <1>10
=============================================================================
