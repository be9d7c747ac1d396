----------------------------- MODULE BlockQueue -----------------------------
(***************************************************************************)
(* block_queue<T> (log/block_queue.h): a ring of m_max_size places under a *)
(* mutex, with a condition variable on which the consumer waits.  There is *)
(* one consumer, the thread that Log::init creates.  A critical section of *)
(* the mutex is one step; m_cond.wait ends it and, later, begins another.  *)
(***************************************************************************)
EXTENDS Integers, Sequences

CONSTANTS
  Items,          (* what is queued                                          *)
  QueueSizes      (* the values of max_queue_size to start with; 0: no queue *)

VARIABLES
  m_array,
  m_size,
  m_max_size,
  m_front, m_back,
  item,           (* the consumer's variable that pop fills                  *)
  asleep          (* the consumer waits in m_cond.wait                       *)

queueVars == <<m_array, m_size, m_max_size, m_front, m_back, item, asleep>>

Places == 0..(m_max_size - 1)

QueueTypeOK ==
  /\ m_max_size \in QueueSizes
  /\ m_size \in 0..m_max_size
  /\ m_front \in Places \cup {-1} /\ m_back \in Places \cup {-1}
  /\ m_array \in [Places -> Items \cup {0}]
  /\ item \in Items \cup {0}
  /\ asleep \in BOOLEAN

QueueInit ==
  /\ m_max_size \in QueueSizes
  /\ m_array = [i \in Places |-> 0]
  /\ m_size = 0 /\ m_front = -1 /\ m_back = -1
  /\ item = 0 /\ asleep = FALSE

(* Faulty variant of Full: off by one.                                       *)
FullLate == m_size > m_max_size

Full == m_size >= m_max_size

(* Faulty variant of Broadcast: nobody is woken.                             *)
BroadcastForgotten == asleep' = asleep

Broadcast == asleep' = FALSE

(* Faulty variant of After: the ring does not wrap.                          *)
AfterUnwrapped(i) == IF i + 1 = m_max_size THEN i ELSE i + 1

After(i) == (i + 1) % m_max_size

(* push, which returns false on a full queue.                                *)
Push(x) ==
  /\ ~Full
  /\ m_back' = After(m_back)
  /\ m_array' = [m_array EXCEPT ![After(m_back)] = x]
  /\ m_size' = m_size + 1
  /\ Broadcast
  /\ UNCHANGED <<m_front, m_max_size, item>>

PushFull ==
  /\ Full /\ Broadcast
  /\ UNCHANGED <<m_array, m_size, m_max_size, m_front, m_back, item>>

(* Faulty variant of NextPlace: the newest item is taken.                   *)
NextPlaceBack == m_back

NextPlace == After(m_front)

(* pop: the loop on the condition variable, and what follows it.             *)
Sleep ==
  /\ ~asleep /\ m_size <= 0
  /\ asleep' = TRUE
  /\ UNCHANGED <<m_array, m_size, m_max_size, m_front, m_back, item>>

SpuriousWakeup ==
  /\ asleep /\ asleep' = FALSE
  /\ UNCHANGED <<m_array, m_size, m_max_size, m_front, m_back, item>>

Pop ==
  /\ ~asleep /\ m_size > 0
  /\ m_front' = After(m_front)
  /\ item' = m_array[NextPlace]
  /\ m_size' = m_size - 1
  /\ UNCHANGED <<m_array, m_max_size, m_back, asleep>>

-----------------------------------------------------------------------------
(* The items in the queue, oldest first.                                     *)
Contents == [i \in 1..m_size |-> m_array[(m_front + i) % m_max_size]]

(* The consumer does not sleep while there is something to pop: a push that  *)
(* comes between its test of m_size and the wait is not missed.              *)
ConsumerAwake == m_size > 0 => ~asleep
=============================================================================
