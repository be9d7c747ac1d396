----------------------------- MODULE ThreadPool -----------------------------
(***************************************************************************)
(* threadpool<http_conn> (threadpool.h): append by the main thread and the *)
(* loop of run by the workers, at the level of the mutex (a critical       *)
(* section is one step) and of the semaphore, which is posted after the    *)
(* mutex is released.                                                      *)
(***************************************************************************)
EXTENDS Integers, Sequences, FiniteSets, Functions

CONSTANTS
  Workers,        (* the threads                                             *)
  Jobs,           (* the requests that are appended, each once               *)
  MaxRequests,    (* m_max_requests                                          *)
  None            (* a null pointer                                          *)

VARIABLES
  m_workqueue,
  m_queuestat,    (* the value of the semaphore                              *)
  posting,        (* the main thread is between push_back and post           *)
  wstep,          (* where each worker is in run()                           *)
  request         (* the job it has                                          *)

poolVars == <<m_workqueue, m_queuestat, posting, wstep, request>>

PoolTypeOK ==
  /\ m_workqueue \in Seq(Jobs)
  /\ m_queuestat \in Nat
  /\ posting \in BOOLEAN
  /\ wstep \in [Workers -> {"wait", "take", "run"}]
  /\ request \in [Workers -> Jobs \cup {None}]

PoolInit ==
  /\ m_workqueue = <<>>
  /\ m_queuestat = 0
  /\ posting = FALSE
  /\ wstep = [w \in Workers |-> "wait"]
  /\ request = [w \in Workers |-> None]

(* append returns false on a full queue, and has then changed nothing.       *)
AppendPush(j) ==
  /\ ~posting /\ Len(m_workqueue) < MaxRequests
  /\ m_workqueue' = Append(m_workqueue, j)
  /\ posting' = TRUE
  /\ UNCHANGED <<m_queuestat, wstep, request>>

(* Faulty variant of AppendPost: the semaphore is not raised.                *)
AppendPostSkipped ==
  /\ posting
  /\ posting' = FALSE
  /\ UNCHANGED <<m_workqueue, m_queuestat, wstep, request>>

AppendPost ==
  /\ posting
  /\ m_queuestat' = m_queuestat + 1
  /\ posting' = FALSE
  /\ UNCHANGED <<m_workqueue, wstep, request>>

QueueWait(w) ==
  /\ wstep[w] = "wait" /\ m_queuestat > 0
  /\ m_queuestat' = m_queuestat - 1
  /\ wstep' = [wstep EXCEPT ![w] = "take"]
  /\ UNCHANGED <<m_workqueue, posting, request>>

(* A signal: sem_wait returns -1, which run() does not look at.              *)
QueueInterrupted(w) ==
  /\ wstep[w] = "wait" /\ m_queuestat = 0
  /\ wstep' = [wstep EXCEPT ![w] = "take"]
  /\ UNCHANGED <<m_workqueue, m_queuestat, posting, request>>

(* Faulty variant of TakeFirst: the job stays in the queue.                  *)
TakeFirstKeeps(w) ==
  /\ request' = [request EXCEPT ![w] = Head(m_workqueue)]
  /\ m_workqueue' = m_workqueue

TakeFirst(w) ==
  /\ request' = [request EXCEPT ![w] = Head(m_workqueue)]
  /\ m_workqueue' = Tail(m_workqueue)

Take(w) ==
  /\ wstep[w] = "take"
  /\ IF m_workqueue = <<>>
     THEN wstep' = [wstep EXCEPT ![w] = "wait"]
          /\ UNCHANGED <<request, m_workqueue>>
     ELSE wstep' = [wstep EXCEPT ![w] = "run"] /\ TakeFirst(w)
  /\ UNCHANGED <<m_queuestat, posting>>

(* The round of run() ends.                                                  *)
Done(w) ==
  /\ wstep[w] = "run"
  /\ wstep' = [wstep EXCEPT ![w] = "wait"]
  /\ request' = [request EXCEPT ![w] = None]
  /\ UNCHANGED <<m_workqueue, m_queuestat, posting>>

-----------------------------------------------------------------------------
(* No job is left in the queue with every thread asleep: for each one there  *)
(* is a unit of the semaphore, a thread on its way to the queue, or the post *)
(* that is still to come; threads that were interrupted take away nothing.   *)
NoLostWakeup ==
  Len(m_workqueue) <= m_queuestat
                      + Cardinality({w \in Workers : wstep[w] = "take"})
                      + (IF posting THEN 1 ELSE 0)

(* A job is queued once, or has one thread.                                  *)
JobOnce ==
  /\ \A i, k \in DOMAIN m_workqueue : m_workqueue[i] = m_workqueue[k] => i = k
  /\ \A w \in Workers : request[w] # None =>
       /\ request[w] \notin Range(m_workqueue)
       /\ \A v \in Workers : request[v] = request[w] => v = w
=============================================================================
