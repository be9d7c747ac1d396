--------------------------- MODULE ExclusiveProofs ---------------------------
(***************************************************************************)
(* One thread at a time on each http_conn, for every set of descriptors,   *)
(* clients and workers and every bound.  http_conn has no lock: what keeps *)
(* a second worker, and the main thread's own init, close and deal_timer,  *)
(* off a connection that a worker has is EPOLLONESHOT together with the    *)
(* timer.  The invariant HoldInv says how, for a descriptor that is in the *)
(* queue or in a worker's hands: it is open, not armed, has no event left  *)
(* to dispatch, its timer is not due and its timer_flag is not set.  It    *)
(* rests on the invariants of WebServerProofs and on three assumptions:    *)
(*                                                                         *)
(*   "drop" \notin Outcomes   no worker calls close_conn, after which the  *)
(*                            descriptor may belong to somebody else;      *)
(*   FALSE \notin Linger      connections are kept alive: write() arms the *)
(*                            socket before it returns false otherwise;    *)
(*   Prompt                   no job outlives the timer of its connection, *)
(*                            which tick would close under the worker.     *)
(***************************************************************************)
EXTENDS WebServerProofs

USE ConstAssumption
    DEF vars, clientVars, kernelVars, mainVars, connVars, timerVars, poolVars

(* A thread other than the main thread has the http_conn, or will take it.   *)
Held(fd) == workqueue = <<fd>> \/ \E w \in Workers : request[w] = fd

OneHand ==
  /\ \A w \in Workers : wpc[w] = "idle" => request[w] = None
  /\ \A v, w \in Workers :
       v # w /\ request[w] # None => request[v] # request[w]
  /\ \A w \in Workers : request[w] # None => workqueue # <<request[w]>>

HeldAlone ==
  \A fd \in Fds : Held(fd) =>
    /\ owner[fd] # None /\ left[owner[fd]] > 0
    /\ interest[fd] = "off" /\ batch[fd] = "none" /\ timer_flag[fd] = 0

OneShot ==
  \A fd \in Fds :
    /\ batch[fd] # "none" => interest[fd] = "off"
    /\ owner[fd] # None /\ timer_flag[fd] = 1
         => interest[fd] = "off" /\ batch[fd] = "none"

KeptAlive ==
  /\ \A fd \in Fds : m_write_buf[fd] # None => m_linger[fd]
  /\ \A w \in Workers : wpc[w] = "respond" => m_linger[request[w]]

HoldInv == OneHand /\ HeldAlone /\ OneShot /\ KeptAlive

(* The invariants of WebServerProofs this module starts from.                *)
BaseInv == TypeInv /\ JobInv /\ TimerInv /\ OwnInv

(* A step that leaves the jobs, the sockets and the flags alone and lets no  *)
(* timer of a held connection run out keeps HoldInv.                         *)
LEMMA HoldFrame ==
  ASSUME HoldInv,
         UNCHANGED <<workqueue, wpc, request, owner, interest, batch,
                     timer_flag, m_write_buf, m_linger>>,
         \A fd \in Fds : Held(fd) => left'[owner[fd]] > 0
  PROVE  HoldInv'
  BY DEF HoldInv, OneHand, HeldAlone, OneShot, KeptAlive, Held

(* An event that is still to be dispatched is that of an open connection.    *)
LEMMA BatchLive ==
  BaseInv => \A fd \in Fds : batch[fd] # "none"
               => /\ owner[fd] # None /\ timer[fd] = owner[fd]
                  /\ timer[fd] \in lst /\ user_data[timer[fd]] = fd
  BY DEF BaseInv, TypeInv, TypeOK, TimersOK, TimerInv, NoDanglingTimer, InUse,
         OwnInv, OneTimerPerConnection

(* cb_func on timers whose descriptors no worker has.                        *)
LEMMA CbFuncHold ==
  ASSUME HoldInv, NEW T, CbFunc(T), \A c \in T : ~Held(user_data[c]),
         UNCHANGED <<workqueue, wpc, request, batch, m_write_buf, m_linger,
                     left>>,
         \A fd \in Fds : timer_flag'[fd] \in {0, timer_flag[fd]}
  PROVE  HoldInv'
  <1>1. \A fd \in Fds :
          /\ owner'[fd] \in {None, owner[fd]}
          /\ interest'[fd] \in {"off", interest[fd]}
          /\ Held(fd) => owner'[fd] = owner[fd] /\ interest'[fd] = interest[fd]
    BY DEF CbFunc, CloseFds
  <1>2. \A fd \in Fds : Held(fd)' <=> Held(fd)
    BY DEF Held
  <1>3. OneHand' /\ KeptAlive'
    BY DEF HoldInv, OneHand, KeptAlive
  <1>4. HeldAlone'
    BY <1>1, <1>2 DEF HoldInv, HeldAlone
  <1>5. OneShot'
    BY <1>1 DEF HoldInv, OneShot
  <1>6. QED
    BY <1>3, <1>4, <1>5 DEF HoldInv

(* A worker that ends its job and does at most arm the socket.               *)
LEMMA FinishHold ==
  ASSUME BaseInv, HoldInv, NEW w \in Workers, request[w] \in Fds, Finish(w),
         \A fd \in Fds \ {request[w]} : interest'[fd] = interest[fd],
         UNCHANGED <<workqueue, owner, batch, left, timer_flag>>,
         KeptAlive'
  PROVE  HoldInv'
  <1>1. /\ wpc' = [wpc EXCEPT ![w] = "idle"]
        /\ request' = [request EXCEPT ![w] = None]
    BY DEF Finish, Goto
  <1>2. OneHand'
    BY <1>1 DEF HoldInv, OneHand, BaseInv, TypeInv, TypeOK, PoolOK
  <1>3. \A fd \in Fds : Held(fd)' => Held(fd) /\ fd # request[w]
    BY <1>1 DEF HoldInv, OneHand, Held, BaseInv, TypeInv, TypeOK, PoolOK
  <1>4. HeldAlone'
    BY <1>3 DEF HoldInv, HeldAlone
  <1>5. Held(request[w])
    BY DEF Held
  <1>6. OneShot'
    BY <1>5 DEF HoldInv, OneShot, HeldAlone
  <1>7. QED
    BY <1>2, <1>4, <1>6 DEF HoldInv

(* The steps of the clients, of time and of the operator keep HoldInv.       *)
LEMMA HoldEnvironment ==
  ASSUME Prompt, BaseInv, HoldInv, Environment
  PROVE  HoldInv'
  <1>1. UNCHANGED <<workqueue, wpc, request, owner, interest, batch,
                    timer_flag, m_write_buf, m_linger>>
    BY DEF Environment, Connect, Send, Hangup, Drain, Sigterm, TimePasses
  <1>2. CASE TimePasses
    <2>1. ASSUME NEW fd \in Fds, Held(fd) PROVE left'[owner[fd]] > 0
      <3>1. /\ owner[fd] \in lst /\ user_data[owner[fd]] = fd
            /\ lst \subseteq Conns /\ left \in [Conns -> 0..Slots]
        BY <2>1
        DEF HoldInv, HeldAlone, BaseInv, OwnInv, OneTimerPerConnection,
            TypeInv, TypeOK, TimersOK
      <3>2. Busy(fd)
        BY <2>1 DEF Held, Busy, BaseInv, JobInv, AtMostOneJob
      <3>3. left[owner[fd]] > 1
        BY <1>2, <3>1, <3>2 DEF TimePasses
      <3>4. left'[owner[fd]] = left[owner[fd]] - 1
        BY <1>2, <3>1, <3>3 DEF TimePasses
      <3>5. QED
        BY <3>1, <3>3, <3>4
    <2>2. QED
      BY <1>1, <2>1, HoldFrame
  <1>3. CASE ~TimePasses
    <2>1. left' = left
      BY <1>3 DEF Environment, Connect, Send, Hangup, Drain, Sigterm
    <2>2. QED
      BY <1>1, <2>1, HoldFrame DEF HoldInv, HeldAlone
  <1>4. QED
    BY <1>2, <1>3

(* The steps of the main thread keep HoldInv: epoll_wait disarms what it     *)
(* reports, an event is dispatched once, and what is closed is not held.     *)
LEMMA HoldMain ==
  ASSUME BaseInv, HoldInv, MainThread
  PROVE  HoldInv'
  <1> USE DEF BaseInv
  <1>1. CASE EpollWait
    <2>1. /\ UNCHANGED <<workqueue, wpc, request, owner, timer_flag,
                         m_write_buf, m_linger, left>>
          /\ batch' = [fd \in Fds |-> EventOf(fd)]
          /\ interest' = [fd \in Fds |-> AfterReport(fd)]
      BY <1>1 DEF EpollWait
    <2>2. \A fd \in Fds : interest[fd] = "off" => EventOf(fd) = "none"
      BY DEF EventOf
    <2>3. \A fd \in Fds :
            /\ interest[fd] = "off"
                 => interest'[fd] = "off" /\ batch'[fd] = "none"
            /\ batch'[fd] # "none" => interest'[fd] = "off"
      BY <2>1, <2>2 DEF AfterReport
    <2>4. OneHand' /\ KeptAlive'
      BY <2>1 DEF HoldInv, OneHand, KeptAlive
    <2>5. HeldAlone'
      BY <2>1, <2>3 DEF HoldInv, HeldAlone, Held
    <2>6. OneShot'
      BY <2>1, <2>3 DEF HoldInv, OneShot
    <2>7. QED
      BY <2>4, <2>5, <2>6 DEF HoldInv
  <1>2. CASE EventListen \/ EventSignal \/ AcceptStop
    BY <1>2, HoldFrame
    DEF EventListen, EventSignal, AcceptStop, HoldInv, HeldAlone
  <1>3. ASSUME NEW fd \in Fds, NEW c \in Conns, AcceptConn(fd, c)
        PROVE  HoldInv'
    <2>1. /\ UNCHANGED <<workqueue, wpc, request, batch>>
          /\ owner[fd] = None
          /\ owner' = [owner EXCEPT ![fd] = c]
          /\ interest' = [interest EXCEPT ![fd] = "in"]
          /\ timer_flag' = [timer_flag EXCEPT ![fd] = 0]
          /\ m_linger' = [m_linger EXCEPT ![fd] = FALSE]
          /\ m_write_buf' = [m_write_buf EXCEPT ![fd] = None]
          /\ left' = [left EXCEPT ![c] = Slots]
      BY <1>3 DEF AcceptConn, StartConn, InitConn, NewTimer, Free
    <2>2. batch[fd] = "none" /\ ~Held(fd)
      BY <2>1, BatchLive DEF HoldInv, HeldAlone
    <2>3. OneHand'
      BY <2>1 DEF HoldInv, OneHand
    <2>4. KeptAlive'
      <3>1. \A w \in Workers : request[w] # fd
        BY <2>2 DEF Held
      <3>2. QED
        BY <2>1, <3>1 DEF HoldInv, KeptAlive, TypeInv, TypeOK, ConnsOK
    <2>5. HeldAlone'
      <3>1. \A f \in Fds : Held(f)' => Held(f) /\ f # fd
        BY <2>1, <2>2 DEF Held
      <3>2. \A d \in Conns : left[d] > 0 => left'[d] > 0
        BY <2>1 DEF TypeInv, TypeOK, TimersOK
      <3>3. QED
        BY <2>1, <3>1, <3>2
        DEF HoldInv, HeldAlone, TypeInv, TypeOK, KernelOK, ConnsOK
    <2>6. OneShot'
      BY <2>1, <2>2 DEF HoldInv, OneShot, TypeInv, TypeOK, KernelOK, ConnsOK
    <2>7. QED
      BY <2>3, <2>4, <2>5, <2>6 DEF HoldInv
  <1>4. ASSUME NEW c \in Conns, AcceptBusy(c) PROVE HoldInv'
    BY <1>4, HoldFrame DEF AcceptBusy, HoldInv, HeldAlone
  <1>5. ASSUME NEW fd \in Fds, EventHup(fd) PROVE HoldInv'
    <2>1. /\ timer[fd] # None /\ user_data[timer[fd]] = fd /\ ~Held(fd)
      BY <1>5, BatchLive DEF EventHup, HoldInv, HeldAlone
    <2>2. /\ UNCHANGED <<workqueue, wpc, request, m_write_buf, m_linger,
                         left, timer_flag>>
          /\ batch' = [batch EXCEPT ![fd] = "none"]
          /\ CbFunc({timer[fd]})
      BY <1>5, <2>1 DEF EventHup, DealTimer
    <2>3. \A f \in Fds :
            /\ owner'[f] \in {None, owner[f]}
            /\ interest'[f] \in {"off", interest[f]}
            /\ batch'[f] \in {"none", batch[f]}
            /\ Held(f) => owner'[f] = owner[f]
      BY <2>1, <2>2 DEF CbFunc, CloseFds, TypeInv, TypeOK, MainOK
    <2>4. OneHand' /\ KeptAlive'
      BY <2>2 DEF HoldInv, OneHand, KeptAlive
    <2>5. HeldAlone'
      BY <2>2, <2>3 DEF HoldInv, HeldAlone, Held
    <2>6. OneShot'
      BY <2>2, <2>3 DEF HoldInv, OneShot
    <2>7. QED
      BY <2>4, <2>5, <2>6 DEF HoldInv
  <1>6. ASSUME NEW fd \in Fds, EventIO(fd) PROVE HoldInv'
    <2>1. /\ owner[fd] # None /\ timer[fd] = owner[fd] /\ owner[fd] \in Conns
          /\ ~Held(fd) /\ interest[fd] = "off" /\ timer_flag[fd] # 1
      BY <1>6, BatchLive
      DEF EventIO, HoldInv, HeldAlone, OneShot, TypeInv, TypeOK, KernelOK
    <2>2. workqueue = <<>>
      BY <1>6 DEF JobInv, AtMostOneJob, EventIO
    <2>3. workqueue' = <<fd>>
      BY <1>6, <2>2 DEF EventIO, AppendJob
    <2>4. /\ UNCHANGED <<wpc, request, owner, interest, timer_flag,
                         m_write_buf, m_linger>>
          /\ batch' = [batch EXCEPT ![fd] = "none"]
          /\ left' = [left EXCEPT ![owner[fd]] = Slots]
      BY <1>6, <2>1 DEF EventIO, AdjustTimer
    <2>5. OneHand'
      BY <2>1, <2>3, <2>4 DEF HoldInv, OneHand, Held
    <2>6. KeptAlive'
      BY <2>4 DEF HoldInv, KeptAlive
    <2>7. HeldAlone'
      <3>1. \A f \in Fds : Held(f)' => f = fd \/ Held(f)
        BY <2>3, <2>4 DEF Held
      <3>2. \A d \in Conns : left[d] > 0 => left'[d] > 0
        BY <2>4 DEF TypeInv, TypeOK, TimersOK
      <3>3. left'[owner[fd]] > 0 /\ batch'[fd] = "none" /\ timer_flag[fd] = 0
        BY <2>1, <2>4 DEF TypeInv, TypeOK, TimersOK, MainOK, ConnsOK
      <3>4. QED
        BY <2>1, <2>4, <3>1, <3>2, <3>3
        DEF HoldInv, HeldAlone, TypeInv, TypeOK, KernelOK, MainOK
    <2>8. OneShot'
      BY <2>4 DEF HoldInv, OneShot, TypeInv, TypeOK, MainOK
    <2>9. QED
      BY <2>5, <2>6, <2>7, <2>8 DEF HoldInv
  <1>7. CASE SpinExit
    <2>1. /\ UNCHANGED <<workqueue, wpc, request, batch, m_write_buf, m_linger>>
          /\ timer_flag' = [timer_flag EXCEPT ![cur] = 0]
          /\ cur \in Fds
      BY <1>7 DEF SpinExit, TypeInv, JobOK
    <2>2. \A fd \in Fds : timer_flag'[fd] \in {0, timer_flag[fd]}
      BY <2>1 DEF TypeInv, TypeOK, ConnsOK
    <2>3. CASE timer_flag[cur] = 1
      <3>1. ~Held(cur)
        BY <2>1, <2>3 DEF HoldInv, HeldAlone
      <3>2. timer[cur] # None /\ user_data[timer[cur]] = cur
        BY <1>7, <2>1
        DEF SpinExit, TimerInv, NoDanglingTimer, InUse, TypeInv, TypeOK,
            TimersOK
      <3>3. CbFunc({timer[cur]}) /\ left' = left
        BY <1>7, <2>3, <3>2 DEF SpinExit, DealTimer
      <3>4. QED
        BY <2>1, <2>2, <3>1, <3>2, <3>3, CbFuncHold
    <2>4. CASE timer_flag[cur] # 1
      <3>1. UNCHANGED <<owner, interest, left>>
        BY <1>7, <2>4 DEF SpinExit
      <3>2. timer_flag' = timer_flag
        BY <2>1, <2>4 DEF TypeInv, TypeOK, ConnsOK
      <3>3. QED
        BY <2>1, <3>1, <3>2, HoldFrame DEF HoldInv, HeldAlone
    <2>5. QED
      BY <2>3, <2>4
  <1>8. CASE BatchDone
    <2>1. UNCHANGED <<workqueue, wpc, request, batch, m_write_buf, m_linger,
                      timer_flag, left>>
      BY <1>8 DEF BatchDone
    <2>2. CASE timeout
      <3>1. CbFunc(Expired)
        BY <1>8, <2>2 DEF BatchDone
      <3>2. ASSUME NEW c \in Expired PROVE ~Held(user_data[c])
        BY <3>2
        DEF Expired, HoldInv, HeldAlone, OwnInv, OneTimerPerConnection
      <3>3. QED
        BY <2>1, <3>1, <3>2, CbFuncHold
    <2>3. CASE ~timeout
      <3>1. UNCHANGED <<owner, interest>>
        BY <1>8, <2>3 DEF BatchDone
      <3>2. QED
        BY <2>1, <3>1, HoldFrame DEF HoldInv, HeldAlone
    <2>4. QED
      BY <2>2, <2>3
  <1>9. QED
    BY <1>1, <1>2, <1>3, <1>4, <1>5, <1>6, <1>7, <1>8 DEF MainThread

(* A worker that goes on with its job and sets no flag.                      *)
LEMMA GoOnHold ==
  ASSUME BaseInv, HoldInv, NEW w \in Workers, wpc[w] # "idle",
         NEW p \in {"process", "respond", "flag", "armIn", "armOut"},
         Goto(w, p),
         UNCHANGED <<workqueue, request, owner, interest, batch, left,
                     timer_flag>>,
         KeptAlive'
  PROVE  HoldInv'
  <1>1. OneHand'
    BY DEF HoldInv, OneHand, Goto, BaseInv, TypeInv, TypeOK, PoolOK
  <1>2. HeldAlone' /\ OneShot'
    BY DEF HoldInv, HeldAlone, OneShot, Held
  <1>3. QED
    BY <1>1, <1>2 DEF HoldInv

(* The steps of a worker keep HoldInv: the worker lets go of the http_conn   *)
(* in the very step that arms its socket or sets timer_flag.                 *)
LEMMA HoldWorker ==
  ASSUME "drop" \notin Outcomes, FALSE \notin Linger, BaseInv, HoldInv,
         NEW w \in Workers, Worker(w)
  PROVE  HoldInv'
  <1> USE DEF BaseInv
  <1>1. CASE Take(w)
    <2>1. workqueue = <<cur>> /\ cur \in Fds
      BY <1>1 DEF Take, JobInv, AtMostOneJob, TypeInv, JobOK
    <2>2. /\ workqueue' = <<>>
          /\ request' = [request EXCEPT ![w] = cur]
          /\ wpc' = [wpc EXCEPT ![w] = "io"]
      BY <1>1, <2>1 DEF Take, Goto
    <2>3. UNCHANGED <<owner, interest, batch, left, timer_flag, m_write_buf,
                      m_linger>>
      BY <1>1 DEF Take
    <2>4. OneHand'
      BY <2>1, <2>2 DEF HoldInv, OneHand, TypeInv, TypeOK, PoolOK
    <2>5. \A fd \in Fds : Held(fd)' => Held(fd)
      BY <2>1, <2>2 DEF Held, TypeInv, TypeOK, PoolOK
    <2>6. HeldAlone' /\ OneShot'
      BY <2>3, <2>5 DEF HoldInv, HeldAlone, OneShot
    <2>7. KeptAlive'
      BY <2>2, <2>3 DEF HoldInv, KeptAlive, TypeInv, TypeOK, PoolOK
    <2>8. QED
      BY <2>4, <2>6, <2>7 DEF HoldInv
  <1>2. CASE \/ ReadOk(w) \/ ReadFail(w) \/ ProcessIncomplete(w)
             \/ WriteFail(w)
    <2>1. wpc[w] # "idle"
      BY <1>2 DEF ReadOk, ReadFail, ProcessIncomplete, WriteFail, At
    <2>2. UNCHANGED <<workqueue, request, owner, interest, batch, left,
                      timer_flag, m_write_buf, m_linger>>
      BY <1>2 DEF ReadOk, ReadFail, ProcessIncomplete, WriteFail
    <2>3. \E p \in {"process", "flag", "armIn", "armOut"} : Goto(w, p)
      BY <1>2 DEF ReadOk, ReadFail, ProcessIncomplete, WriteFail
    <2>4. KeptAlive'
      BY <2>2, <2>3 DEF HoldInv, KeptAlive, Goto, TypeInv, TypeOK, PoolOK
    <2>5. QED
      BY <2>1, <2>2, <2>3, <2>4, GoOnHold
  <1>3. CASE ParseRequest(w)
    <2>1. wpc[w] # "idle" /\ Goto(w, "respond")
      BY <1>3 DEF ParseRequest, At
    <2>2. UNCHANGED <<workqueue, request, owner, interest, batch, left,
                      timer_flag, m_write_buf>>
      BY <1>3 DEF ParseRequest
    <2>3. m_linger' = [m_linger EXCEPT ![request[w]] = TRUE]
      <3>1. PICK b \in Linger : m_linger' = [m_linger EXCEPT ![request[w]] = b]
        BY <1>3 DEF ParseRequest
      <3>2. b = TRUE
        BY <3>1
      <3>3. QED
        BY <3>1, <3>2
    <2>4. KeptAlive'
      <3>1. \A fd \in Fds : m_linger[fd] \/ fd = request[w] => m_linger'[fd]
        BY <2>3 DEF TypeInv, TypeOK, ConnsOK
      <3>2. \A v \in Workers : wpc'[v] = "respond"
              => (wpc[v] = "respond" \/ v = w) /\ request[v] \in Fds
        BY <2>1, <2>2 DEF Goto, TypeInv, TypeOK, PoolOK, JobOK
      <3>3. QED
        BY <2>2, <3>1, <3>2 DEF HoldInv, KeptAlive
    <2>5. QED
      BY <2>1, <2>2, <2>4, GoOnHold
  <1>4. CASE ProcessReply(w)
    <2>1. wpc[w] = "respond" /\ Goto(w, "armOut")
      BY <1>4 DEF ProcessReply, At
    <2>2. /\ UNCHANGED <<workqueue, request, owner, interest, batch, left,
                         timer_flag, m_linger>>
          /\ m_write_buf' = [m_write_buf EXCEPT ![request[w]] = found[w]]
      BY <1>4 DEF ProcessReply
    <2>3. m_linger[request[w]]
      BY <2>1 DEF HoldInv, KeptAlive
    <2>4. KeptAlive'
      BY <2>1, <2>2, <2>3
      DEF HoldInv, KeptAlive, Goto, TypeInv, TypeOK, PoolOK, ConnsOK
    <2>5. QED
      BY <2>1, <2>2, <2>4, GoOnHold
  <1>5. CASE Flag(w)
    <2>1. /\ UNCHANGED <<workqueue, owner, interest, batch, left, m_write_buf,
                         m_linger>>
          /\ timer_flag' = [timer_flag EXCEPT ![request[w]] = 1]
          /\ wpc' = [wpc EXCEPT ![w] = "idle"]
          /\ request' = [request EXCEPT ![w] = None]
          /\ request[w] \in Fds
      BY <1>5 DEF Flag, Finish, Goto, At, TypeInv, JobOK
    <2>2. OneHand'
      BY <2>1 DEF HoldInv, OneHand, TypeInv, TypeOK, PoolOK
    <2>3. \A fd \in Fds : Held(fd)' => Held(fd) /\ fd # request[w]
      BY <2>1 DEF HoldInv, OneHand, Held, TypeInv, TypeOK, PoolOK
    <2>4. HeldAlone'
      BY <2>1, <2>3 DEF HoldInv, HeldAlone, TypeInv, TypeOK, ConnsOK
    <2>5. OneShot'
      <3>1. interest[request[w]] = "off" /\ batch[request[w]] = "none"
        BY <2>1 DEF HoldInv, HeldAlone, Held
      <3>2. QED
        BY <2>1, <3>1 DEF HoldInv, OneShot, TypeInv, TypeOK, ConnsOK
    <2>6. KeptAlive'
      BY <2>1 DEF HoldInv, KeptAlive, TypeInv, TypeOK, PoolOK
    <2>7. QED
      BY <2>2, <2>4, <2>5, <2>6 DEF HoldInv
  <1>6. CASE Arm(w) \/ WriteNothing(w) \/ WriteAgain(w) \/ WriteDone(w)
    <2>1. request[w] \in Fds
      BY <1>6
      DEF Arm, WriteNothing, WriteAgain, WriteDone, At, TypeInv, JobOK
    <2>2. timer_flag[request[w]] = 0
      BY <2>1 DEF HoldInv, HeldAlone, Held
    <2>3. WriteDone(w) => m_linger[request[w]]
      BY <2>1 DEF WriteDone, HoldInv, KeptAlive
    <2>4. /\ UNCHANGED <<workqueue, owner, batch, left>>
          /\ Finish(w)
      BY <1>6, <2>3 DEF Arm, WriteNothing, WriteAgain, WriteDone
    <2>5. \E ev : Modfd(request[w], ev)
      BY <1>6 DEF Arm, WriteNothing, WriteAgain, WriteDone
    <2>6. \A fd \in Fds \ {request[w]} : interest'[fd] = interest[fd]
      BY <2>5 DEF Modfd, TypeInv, TypeOK, KernelOK
    <2>7. \/ InitConn(request[w])
          \/ UNCHANGED <<timer_flag, m_write_buf, m_linger>>
      BY <1>6, <2>3 DEF Arm, WriteNothing, WriteAgain, WriteDone
    <2>8. timer_flag' = timer_flag /\ KeptAlive'
      <3>1. \A v \in Workers : wpc'[v] = "respond"
              => /\ wpc[v] = "respond" /\ request'[v] = request[v]
                 /\ request[v] \in Fds \ {request[w]}
        BY <2>1, <2>4
        DEF Finish, Goto, HoldInv, OneHand, TypeInv, TypeOK, PoolOK, JobOK
      <3>2. /\ timer_flag' = timer_flag
            /\ \A fd \in Fds \ {request[w]} :
                 /\ m_linger'[fd] = m_linger[fd]
                 /\ m_write_buf'[fd] = m_write_buf[fd]
            /\ \/ m_write_buf'[request[w]] = None
               \/ UNCHANGED <<m_write_buf, m_linger>>
        BY <2>1, <2>2, <2>7 DEF InitConn, TypeInv, TypeOK, ConnsOK
      <3>3. QED
        BY <2>1, <3>1, <3>2 DEF HoldInv, KeptAlive
    <2>9. QED
      BY <2>1, <2>4, <2>6, <2>8, FinishHold
  <1>7. CASE ProcessDrop(w) \/ CloseRemovefd(w) \/ CloseForget(w)
               \/ CloseCount(w)
    BY <1>7
    DEF OwnInv, ProcessDrop, CloseRemovefd, CloseForget, CloseCount, At
  <1>8. QED
    BY <1>1, <1>2, <1>3, <1>4, <1>5, <1>6, <1>7 DEF Worker

(* Every step keeps HoldInv, and with it all that it rests on.               *)
LEMMA HoldStep ==
  ASSUME "drop" \notin Outcomes, FALSE \notin Linger, Prompt
  PROVE  BaseInv /\ HoldInv /\ [Next]_vars => (BaseInv /\ HoldInv)'
  <1>1. SUFFICES ASSUME BaseInv, HoldInv, [Next]_vars
                 PROVE  BaseInv' /\ HoldInv'
    OBVIOUS
  <1>2. BaseInv'
    BY <1>1, TypeStep, JobStep, TimerStep, OwnStep DEF BaseInv
  <1>3. CASE Environment
    BY <1>1, <1>2, <1>3, HoldEnvironment
  <1>4. CASE MainThread
    BY <1>1, <1>2, <1>4, HoldMain
  <1>5. ASSUME NEW w \in Workers, Worker(w) PROVE HoldInv'
    BY <1>1, <1>5, HoldWorker
  <1>6. CASE UNCHANGED vars
    BY <1>1, <1>2, <1>6, HoldFrame DEF HoldInv, HeldAlone
  <1>7. QED
    BY <1>1, <1>2, <1>3, <1>4, <1>5, <1>6 DEF Next

(* Before the first connection nobody holds anything.                        *)
LEMMA InitHold == Init => BaseInv /\ HoldInv
  <1>1. SUFFICES ASSUME Init PROVE BaseInv /\ HoldInv
    OBVIOUS
  <1>2. BaseInv
    BY <1>1, InitOK, InitOwn DEF BaseInv
  <1>3. \A fd \in Fds : ~Held(fd)
    BY <1>1 DEF Init, Held
  <1>4. HoldInv
    BY <1>1, <1>3 DEF Init, HoldInv, OneHand, HeldAlone, OneShot, KeptAlive
  <1>5. QED
    BY <1>2, <1>4

(* The main thread leaves what is held alone: what it closes, accepts or     *)
(* hands to the queue is something else.                                     *)
LEMMA MainHandsOff ==
  ASSUME BaseInv, HoldInv, MainThread, NEW fd \in Fds,
         NEW w \in Workers, request[w] = fd
  PROVE  UNCHANGED <<owner[fd], m_sockfd[fd], m_state[fd], m_linger[fd],
                     m_read_buf[fd], m_write_buf[fd]>>
  <1> USE DEF BaseInv
  <1>1. Held(fd) /\ owner[fd] # None /\ batch[fd] = "none"
        /\ timer_flag[fd] = 0
    BY DEF Held, HoldInv, HeldAlone
  <1>2. CASE EpollWait \/ EventListen \/ EventSignal \/ AcceptStop
    BY <1>2 DEF EpollWait, EventListen, EventSignal, AcceptStop
  <1>3. ASSUME NEW f \in Fds, NEW c \in Conns, AcceptConn(f, c)
        PROVE  UNCHANGED <<owner[fd], m_sockfd[fd], m_state[fd], m_linger[fd],
                           m_read_buf[fd], m_write_buf[fd]>>
    BY <1>1, <1>3
    DEF AcceptConn, StartConn, InitConn, Free, TypeInv, TypeOK, KernelOK,
        ConnsOK
  <1>4. CASE \E c \in Conns : AcceptBusy(c)
    BY <1>4 DEF AcceptBusy
  <1>5. ASSUME NEW f \in Fds, EventHup(f)
        PROVE  UNCHANGED <<owner[fd], m_sockfd[fd], m_state[fd], m_linger[fd],
                           m_read_buf[fd], m_write_buf[fd]>>
    <2>1. f # fd /\ user_data[timer[f]] = f
      BY <1>1, <1>5, BatchLive DEF EventHup
    <2>2. CbFunc({timer[f]} \ {None})
          /\ UNCHANGED <<m_sockfd, m_state, m_linger, m_read_buf, m_write_buf>>
      BY <1>5 DEF EventHup, DealTimer
    <2>3. QED
      BY <2>1, <2>2 DEF CbFunc, CloseFds
  <1>6. ASSUME NEW f \in Fds, EventIO(f)
        PROVE  UNCHANGED <<owner[fd], m_sockfd[fd], m_state[fd], m_linger[fd],
                           m_read_buf[fd], m_write_buf[fd]>>
    <2>1. f # fd
      BY <1>1, <1>6 DEF EventIO
    <2>2. m_state'[fd] = m_state[fd]
      BY <1>6, <2>1 DEF EventIO, AppendJob, TypeInv, TypeOK, ConnsOK
    <2>3. QED
      BY <1>6, <2>2 DEF EventIO
  <1>7. CASE SpinExit
    <2>1. UNCHANGED <<m_sockfd, m_state, m_linger, m_read_buf, m_write_buf>>
      BY <1>7 DEF SpinExit
    <2>2. CASE timer_flag[cur] = 1
      <3>1. cur # fd /\ timer[cur] # None /\ user_data[timer[cur]] = cur
        BY <1>1, <1>7, <2>2
        DEF SpinExit, TimerInv, NoDanglingTimer, InUse, TypeInv, TypeOK,
            TimersOK, JobOK
      <3>2. CbFunc({timer[cur]} \ {None})
        BY <1>7, <2>2 DEF SpinExit, DealTimer
      <3>3. QED
        BY <2>1, <3>1, <3>2 DEF CbFunc, CloseFds
    <2>3. CASE timer_flag[cur] # 1
      BY <1>7, <2>1, <2>3 DEF SpinExit
    <2>4. QED
      BY <2>2, <2>3
  <1>8. CASE BatchDone
    <2>1. UNCHANGED <<m_sockfd, m_state, m_linger, m_read_buf, m_write_buf>>
      BY <1>8 DEF BatchDone
    <2>2. CASE timeout
      <3>1. CbFunc(Expired)
        BY <1>8, <2>2 DEF BatchDone
      <3>2. \A c \in Expired : user_data[c] # fd
        BY <1>1
        DEF Expired, HoldInv, HeldAlone, OwnInv, OneTimerPerConnection
      <3>3. QED
        BY <2>1, <3>1, <3>2 DEF CbFunc, CloseFds
    <2>3. CASE ~timeout
      BY <1>8, <2>1, <2>3 DEF BatchDone
    <2>4. QED
      BY <2>2, <2>3
  <1>9. QED
    BY <1>2, <1>3, <1>4, <1>5, <1>6, <1>7, <1>8 DEF MainThread

(* The two halves of NoCrossTalk, the second with where an answer may wait.  *)
OwnBuffers ==
  \A fd \in Fds : owner[fd] # None =>
    /\ m_read_buf[fd] \in {None, owner[fd]}
    /\ m_write_buf[fd] \in {None, owner[fd]}

OwnAnswers ==
  \A w \in Workers : found[w] # None =>
    wpc[w] = "respond" /\ owner[request[w]] = found[w]

(* The only step that opens a descriptor clears both buffers, and a worker   *)
(* fills them with bytes of the client that owns the descriptor at the time. *)
LEMMA BuffersStep ==
  TypeInv /\ OwnBuffers /\ OwnAnswers /\ [Next]_vars => OwnBuffers'
  <1>1. SUFFICES ASSUME TypeInv, OwnBuffers, OwnAnswers, [Next]_vars
                 PROVE  OwnBuffers'
    OBVIOUS
  <1> DEFINE Owned ==
        \A fd \in Fds : owner'[fd] \in {None, owner[fd]}
  <1> DEFINE Stays == UNCHANGED <<m_read_buf, m_write_buf>>
  <1>2. ASSUME Owned, Stays PROVE OwnBuffers'
    BY <1>1, <1>2 DEF OwnBuffers
  <1>3. ASSUME NEW T, CbFunc(T) PROVE Owned
    BY <1>3 DEF CbFunc, CloseFds
  <1>4. CASE Environment
    BY <1>2, <1>4
    DEF Environment, Connect, Send, Hangup, Drain, Sigterm, TimePasses
  <1>5. CASE MainThread
    <2>1. ASSUME NEW fd \in Fds, NEW c \in Conns, AcceptConn(fd, c)
          PROVE  OwnBuffers'
      BY <1>1, <2>1
      DEF AcceptConn, StartConn, InitConn, OwnBuffers, TypeInv, TypeOK,
          KernelOK, ConnsOK
    <2>2. CASE \E fd \in Fds : EventHup(fd)
      BY <1>2, <1>3, <2>2 DEF EventHup, DealTimer
    <2>3. CASE SpinExit
      <3>1. Owned
        BY <1>3, <2>3 DEF SpinExit, DealTimer
      <3>2. QED
        BY <1>2, <2>3, <3>1 DEF SpinExit
    <2>4. CASE BatchDone
      <3>1. Owned
        BY <1>3, <2>4 DEF BatchDone
      <3>2. QED
        BY <1>2, <2>4, <3>1 DEF BatchDone
    <2>5. CASE \/ EpollWait \/ EventListen \/ EventSignal \/ AcceptStop
               \/ \E c \in Conns : AcceptBusy(c)
               \/ \E fd \in Fds : EventIO(fd)
      BY <1>2, <2>5
      DEF EpollWait, EventListen, EventSignal, AcceptStop, AcceptBusy, EventIO
    <2>6. QED
      BY <1>5, <2>1, <2>2, <2>3, <2>4, <2>5 DEF MainThread
  <1>6. ASSUME NEW w \in Workers, Worker(w) PROVE OwnBuffers'
    <2>1. CASE ReadOk(w) \/ ReadFail(w)
      <3>1. PICK b \in {m_read_buf[request[w]], Peer(request[w])} :
              m_read_buf' = [m_read_buf EXCEPT ![request[w]] = b]
        BY <2>1, Zenon DEF ReadOk, ReadFail
      <3>2. \A fd \in Fds : owner[fd] # None
              => m_read_buf'[fd] \in {None, owner[fd]}
        BY <1>1, <3>1 DEF Peer, OwnBuffers, TypeInv, TypeOK, ConnsOK
      <3>3. UNCHANGED <<owner, m_write_buf>>
        BY <2>1 DEF ReadOk, ReadFail
      <3>4. QED
        BY <1>1, <3>2, <3>3 DEF OwnBuffers
    <2>2. CASE ProcessReply(w)
      <3>1. /\ m_write_buf' = [m_write_buf EXCEPT ![request[w]] = found[w]]
            /\ UNCHANGED <<owner, m_read_buf>>
        BY <2>2 DEF ProcessReply
      <3>2. found[w] \in {None, owner[request[w]]}
        BY <1>1 DEF OwnAnswers
      <3>3. QED
        BY <1>1, <3>1, <3>2 DEF OwnBuffers, TypeInv, TypeOK, ConnsOK
    <2>3. CASE WriteNothing(w)
      BY <1>1, <2>3
      DEF WriteNothing, InitConn, OwnBuffers, TypeInv, TypeOK, ConnsOK
    <2>4. CASE WriteDone(w)
      <3>1. /\ m_read_buf' \in {m_read_buf,
                                [m_read_buf EXCEPT ![request[w]] = None]}
            /\ m_write_buf' = [m_write_buf EXCEPT ![request[w]] = None]
            /\ UNCHANGED owner
        BY <2>4 DEF WriteDone, InitConn
      <3>2. QED
        BY <1>1, <3>1 DEF OwnBuffers, TypeInv, TypeOK, ConnsOK
    <2>5. CASE CloseRemovefd(w)
      BY <1>2, <2>5 DEF CloseRemovefd, CloseFds
    <2>6. CASE \/ Take(w) \/ Flag(w) \/ ProcessIncomplete(w) \/ ParseRequest(w)
               \/ ProcessDrop(w) \/ CloseForget(w) \/ CloseCount(w) \/ Arm(w)
               \/ WriteAgain(w) \/ WriteFail(w)
      BY <1>2, <2>6
      DEF Take, Flag, ProcessIncomplete, ParseRequest, ProcessDrop,
          CloseForget, CloseCount, Arm, WriteAgain, WriteFail
    <2>7. QED
      BY <1>6, <2>1, <2>2, <2>3, <2>4, <2>5, <2>6 DEF Worker
  <1>7. CASE UNCHANGED vars
    BY <1>2, <1>7
  <1>8. QED
    BY <1>1, <1>4, <1>5, <1>6, <1>7 DEF Next

(* What a worker has parsed stays a request of the client it will answer:    *)
(* the main thread gives the descriptor to nobody else in the meantime.      *)
LEMMA AnswersStep ==
  BaseInv /\ HoldInv /\ OwnBuffers /\ OwnAnswers /\ [Next]_vars
    => OwnAnswers'
  <1>1. SUFFICES ASSUME BaseInv, HoldInv, OwnBuffers, OwnAnswers, [Next]_vars
                 PROVE  OwnAnswers'
    OBVIOUS
  <1> USE DEF BaseInv
  <1>2. ASSUME UNCHANGED <<wpc, request, found>>,
               \A w \in Workers : wpc[w] = "respond"
                 => owner'[request[w]] = owner[request[w]]
        PROVE  OwnAnswers'
    BY <1>1, <1>2 DEF OwnAnswers
  <1>3. CASE Environment
    BY <1>2, <1>3
    DEF Environment, Connect, Send, Hangup, Drain, Sigterm, TimePasses
  <1>4. CASE MainThread
    <2>1. UNCHANGED <<wpc, request, found>>
      BY <1>4
      DEF MainThread, EpollWait, EventListen, EventSignal, AcceptConn,
          AcceptBusy, AcceptStop, EventHup, EventIO, SpinExit, BatchDone
    <2>2. ASSUME NEW w \in Workers, wpc[w] = "respond"
          PROVE  owner'[request[w]] = owner[request[w]]
      <3>1. request[w] \in Fds
        BY <1>1, <2>2 DEF TypeInv, JobOK
      <3>2. QED
        BY <1>1, <1>4, <3>1, MainHandsOff
    <2>3. QED
      BY <1>2, <2>1, <2>2
  <1>5. ASSUME NEW w \in Workers, Worker(w) PROVE OwnAnswers'
    <2>1. ~CloseRemovefd(w) /\ ~CloseForget(w) /\ ~CloseCount(w)
      BY <1>1 DEF OwnInv, CloseRemovefd, CloseForget, CloseCount, At
    <2>2. owner' = owner
      BY <1>5, <2>1
      DEF Worker, Take, ReadOk, ReadFail, Flag, ProcessIncomplete,
          ParseRequest, ProcessReply, ProcessDrop, Arm, WriteNothing,
          WriteAgain, WriteFail, WriteDone
    <2>3. \A v \in Workers \ {w} :
            wpc'[v] = wpc[v] /\ request'[v] = request[v] /\ found'[v] = found[v]
      BY <1>1, <1>5, <2>1
      DEF Worker, Take, ReadOk, ReadFail, Flag, ProcessIncomplete,
          ParseRequest, ProcessReply, ProcessDrop, Arm, WriteNothing,
          WriteAgain, WriteFail, WriteDone, Goto, Finish, TypeInv, TypeOK,
          PoolOK
    <2>4. CASE ParseRequest(w)
      <3>1. /\ wpc'[w] = "respond" /\ request' = request
            /\ found'[w] = m_read_buf[request[w]]
            /\ m_read_buf[request[w]] # None /\ request[w] \in Fds
        BY <1>1, <2>4 DEF ParseRequest, Goto, At, TypeInv, TypeOK, PoolOK, JobOK
      <3>2. owner[request[w]] # None
        BY <1>1, <3>1 DEF HoldInv, HeldAlone, Held
      <3>3. owner[request[w]] = m_read_buf[request[w]]
        BY <1>1, <3>1, <3>2 DEF OwnBuffers
      <3>4. QED
        BY <1>1, <2>2, <2>3, <3>1, <3>3 DEF OwnAnswers
    <2>5. CASE ProcessReply(w) \/ ProcessDrop(w)
      <3>1. found'[w] = None
        BY <1>1, <2>5 DEF ProcessReply, ProcessDrop, TypeInv, TypeOK, PoolOK
      <3>2. QED
        BY <1>1, <2>2, <2>3, <3>1 DEF OwnAnswers
    <2>6. CASE ~ParseRequest(w) /\ ~ProcessReply(w) /\ ~ProcessDrop(w)
      <3>1. wpc[w] # "respond" /\ found' = found
        BY <1>5, <2>1, <2>6
        DEF Worker, Take, ReadOk, ReadFail, Flag, ProcessIncomplete, Arm,
            WriteNothing, WriteAgain, WriteFail, WriteDone, At
      <3>2. found'[w] = None
        BY <1>1, <3>1 DEF OwnAnswers
      <3>3. QED
        BY <1>1, <2>2, <2>3, <3>2 DEF OwnAnswers
    <2>7. QED
      BY <2>4, <2>5, <2>6
  <1>6. CASE UNCHANGED vars
    BY <1>2, <1>6
  <1>7. QED
    BY <1>1, <1>3, <1>4, <1>5, <1>6 DEF Next

(* EPOLLONESHOT and the timers keep a second worker and a pending event off  *)
(* an http_conn for as long as a worker has it (modfd, timer, adjust_timer), *)
(* when connections are kept alive, answered, and jobs end in time.          *)
THEOREM WorkersExclusive ==
  ASSUME "drop" \notin Outcomes, FALSE \notin Linger, Prompt
  PROVE  Spec => []Exclusive
  <1>1. Init => BaseInv /\ HoldInv
    BY InitHold
  <1>2. BaseInv /\ HoldInv /\ [Next]_vars => (BaseInv /\ HoldInv)'
    BY HoldStep
  <1>3. BaseInv /\ HoldInv => Exclusive
    <2>1. SUFFICES ASSUME BaseInv, HoldInv, NEW w \in Workers, wpc[w] # "idle"
                   PROVE  /\ interest[request[w]] = "off"
                          /\ batch[request[w]] = "none"
                          /\ \A v \in Workers \ {w} : request[v] # request[w]
      BY DEF Exclusive
    <2>2. request[w] \in Fds /\ Held(request[w])
      BY <2>1 DEF BaseInv, TypeInv, JobOK, Held
    <2>3. QED
      BY <2>1, <2>2 DEF HoldInv, HeldAlone, OneHand
  <1>4. QED
    BY <1>1, <1>2, <1>3, PTL DEF Spec

(* While a worker has an http_conn the main thread touches neither its       *)
(* fields nor its descriptor (dealclinetdata, deal_timer, tick): http_conn   *)
(* needs no lock, under the same assumptions.                                *)
THEOREM MainKeepsOff ==
  ASSUME "drop" \notin Outcomes, FALSE \notin Linger, Prompt
  PROVE  Spec => HandsOff
  <1>1. Init => BaseInv /\ HoldInv
    BY InitHold
  <1>2. BaseInv /\ HoldInv /\ [Next]_vars => (BaseInv /\ HoldInv)'
    BY HoldStep
  <1>3. BaseInv /\ HoldInv /\ [Next]_vars
          => [MainThread => \A fd \in Fds :
                (\E w \in Workers : request[w] = fd) =>
                UNCHANGED <<owner[fd], m_sockfd[fd], m_state[fd],
                            m_linger[fd], m_read_buf[fd],
                            m_write_buf[fd]>>]_vars
    BY MainHandsOff
  <1>4. QED
    BY <1>1, <1>2, <1>3, PTL DEF Spec, HandsOff

(* What a client is sent answers its own request: init() and the read that   *)
(* follows it leave nothing of the former owner of the descriptor in the     *)
(* buffers, and nobody else is given the http_conn between the parse and the *)
(* answer of process().  Without Prompt a worker may answer the old client's *)
(* request to the new one.                                                   *)
THEOREM AnswersOwnRequest ==
  ASSUME "drop" \notin Outcomes, FALSE \notin Linger, Prompt
  PROVE  Spec => []NoCrossTalk
  <1> DEFINE CrossInv == BaseInv /\ HoldInv /\ OwnBuffers /\ OwnAnswers
  <1>1. Init => CrossInv
    BY InitHold DEF Init, OwnBuffers, OwnAnswers
  <1>2. CrossInv /\ [Next]_vars => CrossInv'
    <2>1. CrossInv /\ [Next]_vars => BaseInv' /\ HoldInv'
      BY HoldStep
    <2>2. CrossInv /\ [Next]_vars => OwnBuffers' /\ OwnAnswers'
      BY BuffersStep, AnswersStep DEF BaseInv
    <2>3. QED
      BY <2>1, <2>2
  <1>3. CrossInv => NoCrossTalk
    BY DEF OwnBuffers, OwnAnswers, NoCrossTalk
  <1>4. QED
    BY <1>1, <1>2, <1>3, PTL DEF Spec
==============================================================================
