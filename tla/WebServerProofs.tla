--------------------------- MODULE WebServerProofs ---------------------------
(***************************************************************************)
(* Safety of WebServer for every set of descriptors, clients and workers   *)
(* and every bound.  Each property is a part of an inductive invariant:    *)
(*                                                                         *)
(*   TypeInv   types, and what the program counters say of cur and request *)
(*   JobInv    AtMostOneJob, relative to TypeInv                           *)
(*   TimerInv  NoDanglingTimer, relative to TypeInv                        *)
(*   OwnInv    OneTimerPerConnection and the count of users, relative to   *)
(*             TypeInv and TimerInv, when no request is dropped            *)
(*   QuietInv  the countdown of each timer, relative to all but JobInv     *)
(*                                                                         *)
(* The step lemmas have one step for each action that can disturb the      *)
(* invariant; the frame lemmas deal with all the others at once.           *)
(***************************************************************************)
EXTENDS WebServer, FiniteSetTheorems, FunctionTheorems, TLAPS

USE ConstAssumption
    DEF vars, clientVars, kernelVars, mainVars, connVars, timerVars, poolVars

(* The busy wait names a descriptor, and a busy worker has an http_conn.     *)
JobOK ==
  /\ pc = "spin" => cur \in Fds
  /\ \A w \in Workers : wpc[w] # "idle" => request[w] \in Fds

TypeInv == TypeOK /\ JobOK

(* cb_func on any timers keeps the types of what it assigns.                 *)
LEMMA CbFuncTypes ==
  ASSUME TypeInv, NEW T \in SUBSET Conns, CbFunc(T)
  PROVE  /\ client' \in [Conns -> {"idle", "backlog", "open", "refused",
                                   "closed"}]
         /\ owner' \in [Fds -> Conns \cup {None}]
         /\ interest' \in [Fds -> {"off", "in", "out"}]
         /\ m_user_count' \in Int
         /\ lst' \subseteq Conns
  <1>1. Cardinality(T) \in Nat
    BY FS_Subset, FS_CardinalityType
  <1>2. QED
    BY <1>1 DEF CbFunc, CloseFds, TypeInv, TypeOK, ClientsOK, KernelOK,
                ConnsOK, TimersOK

(* Every step keeps the types.                                               *)
LEMMA TypeStep == TypeInv /\ [Next]_vars => TypeInv'
  <1>0. SUFFICES ASSUME TypeInv, [Next]_vars PROVE TypeInv'
    OBVIOUS
  <1> USE DEF TypeInv, TypeOK, ClientsOK, KernelOK, MainOK, ConnsOK, TimersOK,
              PoolOK, JobOK
  <1>1. ASSUME NEW c \in Conns, Connect(c) PROVE TypeInv'
    BY <1>0, <1>1 DEF Connect
  <1>2. ASSUME NEW c \in Conns, Send(c) PROVE TypeInv'
    BY <1>0, <1>2 DEF Send
  <1>3. ASSUME NEW c \in Conns, Hangup(c) PROVE TypeInv'
    BY <1>0, <1>3 DEF Hangup
  <1>4. ASSUME NEW c \in Conns, Drain(c) PROVE TypeInv'
    BY <1>0, <1>4 DEF Drain
  <1>5. ASSUME Sigterm PROVE TypeInv'
    BY <1>0, <1>5 DEF Sigterm
  <1>6. ASSUME TimePasses PROVE TypeInv'
    <2>1. left' \in [Conns -> 0..Slots]
      BY <1>0, <1>6 DEF TimePasses
    <2>2. quiet' \in [Conns -> 0..Slots]
      BY <1>0, <1>6 DEF TimePasses
    <2>3. QED
      BY <1>0, <1>6, <2>1, <2>2 DEF TimePasses
  <1>7. ASSUME EpollWait PROVE TypeInv'
    BY <1>0, <1>7 DEF EpollWait, AfterReport, EventOf, CtlReady
  <1>8. ASSUME EventListen PROVE TypeInv'
    BY <1>0, <1>8 DEF EventListen
  <1>9. ASSUME EventSignal PROVE TypeInv'
    BY <1>0, <1>9 DEF EventSignal
  <1>10. ASSUME NEW fd \in Fds, NEW c \in Conns, AcceptConn(fd, c)
          PROVE  TypeInv'
    BY <1>0, <1>10 DEF AcceptConn, StartConn, InitConn, NewTimer
  <1>11. ASSUME NEW c \in Conns, AcceptBusy(c) PROVE TypeInv'
    BY <1>0, <1>11 DEF AcceptBusy
  <1>12. ASSUME AcceptStop PROVE TypeInv'
    BY <1>0, <1>12 DEF AcceptStop
  <1>13. ASSUME NEW fd \in Fds, EventHup(fd) PROVE TypeInv'
    <2>1. {timer[fd]} \ {None} \subseteq Conns
      BY <1>0
    <2>2. QED
      BY <1>0, <1>13, <2>1, CbFuncTypes DEF EventHup, DealTimer
  <1>14. ASSUME NEW fd \in Fds, EventIO(fd) PROVE TypeInv'
    <2>1. left' \in [Conns -> 0..Slots]
      BY <1>0, <1>14 DEF EventIO, AdjustTimer
    <2>2. quiet' \in [Conns -> 0..Slots]
      BY <1>0, <1>14 DEF EventIO
    <2>3. PICK s \in {0, 1} : AppendJob(fd, s)
      BY <1>14 DEF EventIO
    <2>4. m_state' \in [Fds -> {0, 1}] /\ workqueue' \in Seq(Fds)
      <3>1. CASE Len(workqueue) >= MaxRequests
        BY <1>0, <2>3, <3>1 DEF AppendJob
      <3>2. CASE ~(Len(workqueue) >= MaxRequests)
        <4>1. /\ m_state' = [m_state EXCEPT ![fd] = s]
              /\ workqueue' = Append(workqueue, fd)
          BY <2>3, <3>2 DEF AppendJob
        <4>2. Append(workqueue, fd) \in Seq(Fds)
          BY <1>0
        <4>3. QED
          BY <1>0, <4>1, <4>2
      <3>3. QED
        BY <3>1, <3>2
    <2>5. MainOK' /\ PoolOK'
      BY <1>0, <1>14, <2>4 DEF EventIO
    <2>6. JobOK'
      BY <1>0, <1>14 DEF EventIO
    <2>7. ClientsOK' /\ KernelOK' /\ ConnsOK' /\ TimersOK'
      BY <1>0, <1>14, <2>1, <2>2, <2>4 DEF EventIO
    <2>8. QED
      BY <2>5, <2>6, <2>7
  <1>15. ASSUME SpinExit PROVE TypeInv'
    <2>1. cur \in Fds /\ {timer[cur]} \ {None} \subseteq Conns
      BY <1>0, <1>15 DEF SpinExit
    <2>2. CASE timer_flag[cur] = 1
      BY <1>0, <1>15, <2>1, <2>2, CbFuncTypes
      DEF SpinExit, DealTimer, SpinReset
    <2>3. CASE timer_flag[cur] # 1
      BY <1>0, <1>15, <2>1, <2>3 DEF SpinExit, SpinReset
    <2>4. QED
      BY <2>2, <2>3
  <1>16. ASSUME BatchDone PROVE TypeInv'
    <2>1. Expired \subseteq Conns
      BY <1>0 DEF Expired
    <2>2. CASE timeout
      BY <1>0, <1>16, <2>1, <2>2, CbFuncTypes DEF BatchDone
    <2>3. CASE timeout = FALSE
      <3>1. JobOK' /\ PoolOK' /\ TimersOK' /\ MainOK'
        BY <1>0, <1>16, <2>3 DEF BatchDone
      <3>2. ClientsOK' /\ KernelOK' /\ ConnsOK'
        BY <1>0, <1>16, <2>3 DEF BatchDone
      <3>3. QED
        BY <3>1, <3>2
    <2>4. QED
      BY <1>0, <2>2, <2>3
  <1>17. ASSUME NEW w \in Workers, Take(w) PROVE TypeInv'
    BY <1>0, <1>17 DEF Take, At, Goto
  <1>18. ASSUME NEW w \in Workers, ReadOk(w) PROVE TypeInv'
    BY <1>0, <1>18 DEF ReadOk, At, Peer, Improv, Goto
  <1>19. ASSUME NEW w \in Workers, ReadFail(w) PROVE TypeInv'
    BY <1>0, <1>19 DEF ReadFail, At, Peer, Improv, Goto
  <1>20. ASSUME NEW w \in Workers, Flag(w) PROVE TypeInv'
    BY <1>0, <1>20 DEF Flag, At, Goto, Finish
  <1>21. ASSUME NEW w \in Workers, ProcessIncomplete(w) PROVE TypeInv'
    BY <1>0, <1>21 DEF ProcessIncomplete, At, Goto
  <1>22. ASSUME NEW w \in Workers, ProcessReply(w) PROVE TypeInv'
    BY <1>0, <1>22 DEF ProcessReply, At, Goto
  <1>23. ASSUME NEW w \in Workers, ProcessDrop(w) PROVE TypeInv'
    BY <1>0, <1>23 DEF ProcessDrop, At, Goto
  <1>24. ASSUME NEW w \in Workers, CloseRemovefd(w) PROVE TypeInv'
    BY <1>0, <1>24 DEF CloseRemovefd, At, CloseFds, Goto
  <1>25. ASSUME NEW w \in Workers, CloseForget(w) PROVE TypeInv'
    BY <1>0, <1>25 DEF CloseForget, At, Goto
  <1>26. ASSUME NEW w \in Workers, CloseCount(w) PROVE TypeInv'
    BY <1>0, <1>26 DEF CloseCount, At, Goto
  <1>27. ASSUME NEW w \in Workers, Arm(w) PROVE TypeInv'
    BY <1>0, <1>27 DEF Arm, At, Modfd, Goto, Finish
  <1>28. ASSUME NEW w \in Workers, WriteNothing(w) PROVE TypeInv'
    BY <1>0, <1>28 DEF WriteNothing, At, Modfd, InitConn, Improv, Goto, Finish
  <1>29. ASSUME NEW w \in Workers, WriteAgain(w) PROVE TypeInv'
    BY <1>0, <1>29 DEF WriteAgain, At, Peer, Modfd, Improv, Goto, Finish
  <1>30. ASSUME NEW w \in Workers, WriteFail(w) PROVE TypeInv'
    BY <1>0, <1>30 DEF WriteFail, At, Peer, Improv, Goto
  <1>31. ASSUME NEW w \in Workers, WriteDone(w) PROVE TypeInv'
    <2>1. request[w] \in Fds
      BY <1>0, <1>31 DEF WriteDone, At
    <2>2. CASE m_linger[request[w]]
      <3>1. InitConn(request[w]) /\ Finish(w)
        BY <1>31, <2>2, Zenon DEF WriteDone
      <3>2. QED
        BY <1>0, <1>31, <2>1, <3>1
        DEF WriteDone, At, Modfd, InitConn, Improv, Goto, Finish
    <2>3. CASE ~m_linger[request[w]]
      <3>1. /\ m_write_buf' = [m_write_buf EXCEPT ![request[w]] = None]
            /\ Goto(w, "flag")
            /\ UNCHANGED <<timer_flag, m_state, m_linger, m_read_buf, request>>
        BY <1>31, <2>3, Zenon DEF WriteDone
      <3>2. QED
        BY <1>0, <1>31, <2>1, <3>1 DEF WriteDone, At, Modfd, Improv, Goto
    <2>4. QED
      BY <2>2, <2>3
  <1>32. ASSUME NEW w \in Workers, ParseRequest(w) PROVE TypeInv'
    BY <1>0, <1>32 DEF ParseRequest, At, Goto
  <1>33. CASE UNCHANGED vars
    BY <1>0, <1>33
  <1>34. QED
    BY <1>0, <1>1, <1>2, <1>3, <1>4, <1>5, <1>6, <1>7, <1>8, <1>9, <1>10,
       <1>11, <1>12, <1>13, <1>14, <1>15, <1>16, <1>17, <1>18, <1>19, <1>20,
       <1>21, <1>22, <1>23, <1>24, <1>25, <1>26, <1>27, <1>28, <1>29, <1>30,
       <1>31, <1>32, <1>33 DEF Next, Environment, MainThread, Worker

(* The busy wait has exactly one job in flight, and improv is 0 on every     *)
(* other http_conn.                                                          *)
JobInv ==
  /\ AtMostOneJob
  /\ pc = "spin" => \A fd \in Fds \ {cur} : improv[fd] = 0

(* A step that keeps what JobInv talks about keeps JobInv.                   *)
LEMMA JobFrame ==
  ASSUME JobInv, UNCHANGED <<cur, improv, workqueue, request>>,
         pc' = pc \/ (pc # "spin" /\ pc' # "spin"),
         \A w \in Workers : Doing(w)' <=> Doing(w)
  PROVE  JobInv'
  BY DEF JobInv, AtMostOneJob, Doing

(* Every step keeps JobInv: EventIO queues a job when there is none, Take    *)
(* moves it to a worker, improv = 1 ends it and SpinExit clears the flag.    *)
LEMMA JobStep == TypeInv /\ JobInv /\ [Next]_vars => JobInv'
  <1>0. SUFFICES ASSUME TypeInv, JobInv, [Next]_vars PROVE JobInv'
    OBVIOUS
  <1>1. CASE Environment
    BY <1>0, <1>1, JobFrame
    DEF Environment, Connect, Send, Hangup, Drain, Sigterm, TimePasses, Doing
  <1>2. CASE MainThread
    <2>1. CASE EpollWait \/ EventListen \/ EventSignal \/ AcceptStop
      BY <1>0, <2>1, JobFrame
      DEF EpollWait, EventListen, EventSignal, AcceptStop, Doing
    <2>2. ASSUME NEW fd \in Fds, NEW c \in Conns, AcceptConn(fd, c)
          PROVE  JobInv'
      <3>1. improv' = improv
        BY <1>0, <2>2
        DEF TypeInv, TypeOK, ConnsOK, JobInv, AtMostOneJob, AcceptConn,
            StartConn
      <3>2. QED
        BY <1>0, <2>2, <3>1, JobFrame DEF AcceptConn, Doing
    <2>3. ASSUME NEW c \in Conns, AcceptBusy(c) PROVE JobInv'
      BY <1>0, <2>3, JobFrame DEF AcceptBusy, Doing
    <2>4. ASSUME NEW fd \in Fds, EventHup(fd) PROVE JobInv'
      BY <1>0, <2>4, JobFrame DEF EventHup, Doing
    <2>5. ASSUME NEW fd \in Fds, EventIO(fd) PROVE JobInv'
      <3>1. /\ workqueue = <<>> /\ \A f \in Fds : improv[f] = 0
            /\ \A w \in Workers : ~Doing(w)
        BY <1>0, <2>5 DEF JobInv, AtMostOneJob, EventIO
      <3>2. workqueue' = <<fd>>
        BY <2>5, <3>1 DEF EventIO, AppendJob
      <3>3. pc' = "spin" /\ cur' = fd /\ improv' = improv
        BY <2>5 DEF EventIO
      <3>4. \A w \in Workers : ~Doing(w)'
        BY <2>5, <3>1 DEF EventIO, Doing
      <3>5. QED
        BY <3>1, <3>2, <3>3, <3>4 DEF JobInv, AtMostOneJob
    <2>6. CASE SpinExit
      <3>1. /\ workqueue = <<>> /\ \A w \in Workers : ~Doing(w)
            /\ cur \in Fds /\ \A f \in Fds \ {cur} : improv[f] = 0
        BY <1>0, <2>6 DEF TypeInv, JobOK, JobInv, AtMostOneJob, SpinExit
      <3>2. \A f \in Fds : improv'[f] = 0
        BY <1>0, <2>6, <3>1 DEF TypeInv, TypeOK, ConnsOK, SpinExit, SpinReset
      <3>3. pc' = "dispatch" /\ workqueue' = <<>>
        BY <2>6, <3>1 DEF SpinExit
      <3>4. \A w \in Workers : ~Doing(w)'
        BY <2>6, <3>1 DEF SpinExit, Doing
      <3>5. QED
        BY <3>2, <3>3, <3>4 DEF JobInv, AtMostOneJob
    <2>7. CASE BatchDone
      BY <1>0, <2>7, JobFrame DEF BatchDone, Doing
    <2>8. QED
      BY <1>2, <2>1, <2>2, <2>3, <2>4, <2>5, <2>6, <2>7 DEF MainThread
  <1>3. ASSUME NEW w \in Workers, Worker(w) PROVE JobInv'
    (* The step that ends the worker's use of the socket: improv = 1.        *)
    <2>1. ASSUME wpc[w] = "io", wpc' = [wpc EXCEPT ![w] = wpc'[w]],
                 wpc'[w] # "io", Improv(request[w]),
                 UNCHANGED <<pc, cur, workqueue>>,
                 \A v \in Workers \ {w} : request'[v] = request[v]
          PROVE  JobInv'
      <3>1. /\ pc = "spin" /\ workqueue = <<>> /\ request[w] = cur
            /\ \A v \in Workers \ {w} : ~Doing(v)
            /\ cur \in Fds
        BY <1>0, <2>1 DEF TypeInv, JobOK, JobInv, AtMostOneJob, Doing
      <3>2. improv'[cur] = 1 /\ \A f \in Fds \ {cur} : improv'[f] = 0
        BY <1>0, <2>1, <3>1 DEF TypeInv, TypeOK, ConnsOK, JobInv, Improv
      <3>3. \A v \in Workers : ~Doing(v)'
        BY <1>0, <2>1, <3>1 DEF TypeInv, TypeOK, PoolOK, Doing
      <3>4. QED
        BY <2>1, <3>1, <3>2, <3>3 DEF JobInv, AtMostOneJob
    <2>2. CASE Take(w)
      <3>1. /\ pc = "spin" /\ workqueue = <<cur>> /\ improv[cur] = 0
            /\ \A v \in Workers : ~Doing(v)
        BY <1>0, <2>2 DEF JobInv, AtMostOneJob, Take
      <3>2. workqueue' = <<>> /\ request' = [request EXCEPT ![w] = cur]
        BY <2>2, <3>1 DEF Take
      <3>3. wpc' = [wpc EXCEPT ![w] = "io"] /\ UNCHANGED <<pc, cur, improv>>
        BY <2>2 DEF Take, Goto
      <3>4. /\ request'[w] = cur /\ Doing(w)'
            /\ \A v \in Workers \ {w} : ~Doing(v)'
        BY <1>0, <3>1, <3>2, <3>3 DEF TypeInv, TypeOK, PoolOK, Doing
      <3>5. QED
        BY <1>0, <3>1, <3>2, <3>3, <3>4 DEF JobInv, AtMostOneJob
    <2>3. CASE ReadOk(w) \/ ReadFail(w) \/ WriteNothing(w) \/ WriteAgain(w)
                 \/ WriteFail(w) \/ WriteDone(w)
      <3>1. /\ wpc[w] = "io" /\ Improv(request[w])
            /\ UNCHANGED <<pc, cur, workqueue>>
        BY <2>3
        DEF ReadOk, ReadFail, WriteNothing, WriteAgain, WriteFail, WriteDone,
            At
      <3>2. \E p \in {"idle", "process", "flag"} : Goto(w, p)
        BY <2>3
        DEF ReadOk, ReadFail, WriteNothing, WriteAgain, WriteFail, WriteDone,
            Finish
      <3>3. request' = request \/ request' = [request EXCEPT ![w] = None]
        BY <2>3
        DEF ReadOk, ReadFail, WriteNothing, WriteAgain, WriteFail, WriteDone,
            Finish
      <3>4. \A v \in Workers \ {w} : request'[v] = request[v]
        BY <1>0, <3>3 DEF TypeInv, TypeOK, PoolOK
      <3>5. wpc' = [wpc EXCEPT ![w] = wpc'[w]] /\ wpc'[w] # "io"
        BY <1>0, <3>2 DEF TypeInv, TypeOK, PoolOK, Goto
      <3>6. QED
        BY <2>1, <3>1, <3>4, <3>5
    <2>4. CASE ProcessIncomplete(w) \/ ParseRequest(w) \/ ProcessReply(w)
                 \/ ProcessDrop(w) \/ CloseRemovefd(w) \/ CloseForget(w)
                 \/ CloseCount(w)
      <3>1. \A v \in Workers : Doing(v)' <=> Doing(v)
        BY <1>0, <2>4
        DEF TypeInv, TypeOK, PoolOK, Doing, ProcessIncomplete, ParseRequest,
            ProcessReply, ProcessDrop, CloseRemovefd, CloseForget,
            CloseCount, At, Goto
      <3>2. UNCHANGED <<pc, cur, improv, workqueue, request>>
        BY <2>4
        DEF ProcessIncomplete, ParseRequest, ProcessReply, ProcessDrop,
            CloseRemovefd, CloseForget, CloseCount
      <3>3. QED
        BY <1>0, <3>1, <3>2, JobFrame
    <2>5. CASE Flag(w) \/ Arm(w)
      <3>1. \A v \in Workers : /\ Doing(v)' <=> Doing(v)
                               /\ Doing(v) => request'[v] = request[v]
        BY <1>0, <2>5
        DEF TypeInv, TypeOK, PoolOK, Doing, Flag, Arm, At, Finish, Goto
      <3>2. UNCHANGED <<pc, cur, improv, workqueue>>
        BY <2>5 DEF Flag, Arm
      <3>3. QED
        BY <1>0, <3>1, <3>2 DEF JobInv, AtMostOneJob
    <2>6. QED
      BY <1>3, <2>2, <2>3, <2>4, <2>5 DEF Worker
  <1>4. CASE UNCHANGED vars
    BY <1>0, <1>4, JobFrame DEF Doing
  <1>5. QED
    BY <1>0, <1>1, <1>2, <1>3, <1>4 DEF Next

(* NoDanglingTimer is inductive once it is known that the client about to be *)
(* accepted has no timer yet, and that the batch has no second event of the  *)
(* descriptor whose timer the busy wait may deal with.                       *)
TimerInv ==
  /\ NoDanglingTimer
  /\ \A c \in lst : client[c] \in {"open", "closed"}
  /\ pc = "spin" => batch[cur] = "none"

(* A step that adds no use of a timer and takes none out keeps TimerInv.     *)
LEMMA TimerFrame ==
  ASSUME TimerInv, UNCHANGED <<timer, lst, user_data>>,
         \A fd \in Fds : InUse(fd)' => InUse(fd),
         \A c \in lst : client[c] \in {"open", "closed"}
                          => client'[c] \in {"open", "closed"},
         pc' = "spin" => batch'[cur'] = "none"
  PROVE  TimerInv'
  BY DEF TimerInv, NoDanglingTimer

(* cb_func on the timers T, which are those of descriptors that are not in   *)
(* use afterwards.                                                           *)
LEMMA CbFuncTimers ==
  ASSUME TypeInv, TimerInv, NEW T \in SUBSET Conns, CbFunc(T),
         UNCHANGED <<timer, user_data>>, pc' # "spin",
         \A fd \in Fds : InUse(fd)' => InUse(fd) /\ timer[fd] \notin T
  PROVE  TimerInv'
  <1>1. lst' = lst \ T
    BY DEF CbFunc
  <1>2. \A c \in lst : client'[c] \in {"open", "closed"}
    BY DEF CbFunc, CloseFds, TimerInv, TypeInv, TypeOK, TimersOK
  <1>3. QED
    BY <1>1, <1>2 DEF TimerInv, NoDanglingTimer

(* Every step keeps TimerInv: the timers dealt with are exactly those of the *)
(* descriptors that are closed by the same step.                             *)
LEMMA TimerStep == TypeInv /\ TimerInv /\ [Next]_vars => TimerInv'
  <1>0. SUFFICES ASSUME TypeInv, TimerInv, [Next]_vars PROVE TimerInv'
    OBVIOUS
  <1>1. CASE Environment
    <2>1. \A c \in lst : client'[c] = client[c]
      BY <1>0, <1>1
      DEF TypeInv, TypeOK, ClientsOK, TimersOK, TimerInv, Environment, Connect,
          Send, Hangup, Drain, Sigterm, TimePasses
    <2>2. UNCHANGED <<owner, batch, pc, cur, timer, lst, user_data>>
      BY <1>1
      DEF Environment, Connect, Send, Hangup, Drain, Sigterm, TimePasses
    <2>3. QED
      BY <1>0, <2>1, <2>2, TimerFrame DEF InUse, TimerInv
  <1>2. CASE MainThread
    <2>1. CASE EpollWait
      <3>1. \A fd \in Fds : InUse(fd)' => InUse(fd)
        BY <1>0, <2>1 DEF TypeInv, TypeOK, MainOK, EpollWait, EventOf, InUse
      <3>2. QED
        BY <1>0, <2>1, <3>1, TimerFrame DEF EpollWait
    <2>2. CASE EventListen \/ EventSignal \/ AcceptStop
      BY <1>0, <2>2, TimerFrame DEF EventListen, EventSignal, AcceptStop, InUse
    <2>3. ASSUME NEW fd \in Fds, NEW c \in Conns, AcceptConn(fd, c)
          PROVE  TimerInv'
      <3>1. c \notin lst
        BY <1>0, <2>3 DEF TimerInv, AcceptConn
      <3>2. /\ timer' = [timer EXCEPT ![fd] = c]
            /\ user_data' = [user_data EXCEPT ![c] = fd]
            /\ lst' = lst \cup {c}
            /\ client' = [client EXCEPT ![c] = "open"]
            /\ owner' = [owner EXCEPT ![fd] = c]
            /\ UNCHANGED <<batch, pc, cur>> /\ pc = "accept"
        BY <2>3 DEF AcceptConn, StartConn, NewTimer
      <3>3. timer'[fd] \in lst' /\ user_data'[timer'[fd]] = fd
        BY <1>0, <3>2 DEF TypeInv, TypeOK, TimersOK
      <3>4. ASSUME NEW f \in Fds \ {fd}, InUse(f)'
            PROVE  timer'[f] \in lst' /\ user_data'[timer'[f]] = f
        <4>1. InUse(f)
          BY <1>0, <3>2, <3>4 DEF TypeInv, TypeOK, KernelOK, InUse
        <4>2. timer[f] \in lst /\ user_data[timer[f]] = f /\ timer[f] # c
          BY <1>0, <3>1, <4>1 DEF TimerInv, NoDanglingTimer
        <4>3. QED
          BY <1>0, <3>2, <4>2 DEF TypeInv, TypeOK, TimersOK
      <3>5. \A d \in lst' : client'[d] \in {"open", "closed"}
        BY <1>0, <3>2 DEF TypeInv, TypeOK, ClientsOK, TimersOK, TimerInv
      <3>6. QED
        BY <3>2, <3>3, <3>4, <3>5 DEF TimerInv, NoDanglingTimer
    <2>4. ASSUME NEW c \in Conns, AcceptBusy(c) PROVE TimerInv'
      <3>1. \A d \in lst : client'[d] = client[d]
        BY <1>0, <2>4
        DEF TypeInv, TypeOK, ClientsOK, TimersOK, TimerInv, AcceptBusy
      <3>2. QED
        BY <1>0, <2>4, <3>1, TimerFrame DEF AcceptBusy, InUse
    <2>5. ASSUME NEW fd \in Fds, EventHup(fd) PROVE TimerInv'
      <3>1. timer[fd] \in lst /\ user_data[timer[fd]] = fd
        BY <1>0, <2>5 DEF TimerInv, NoDanglingTimer, InUse, EventHup
      <3>2. CbFunc({timer[fd]}) /\ timer[fd] \in Conns
        BY <1>0, <2>5, <3>1 DEF TypeInv, TypeOK, TimersOK, EventHup, DealTimer
      <3>3. UNCHANGED <<timer, user_data, pc, cur>> /\ pc = "dispatch"
            /\ batch' = [batch EXCEPT ![fd] = "none"]
        BY <2>5 DEF EventHup, DealTimer
      <3>4. owner' = [f \in Fds |-> IF f = fd THEN None ELSE owner[f]]
        BY <3>1, <3>2 DEF CbFunc, CloseFds
      <3>5. \A f \in Fds : InUse(f)' => InUse(f) /\ f # fd
        BY <1>0, <3>3, <3>4 DEF TypeInv, TypeOK, MainOK, InUse
      <3>6. \A f \in Fds : InUse(f)' => InUse(f) /\ timer[f] \notin {timer[fd]}
        BY <1>0, <3>1, <3>5 DEF TimerInv, NoDanglingTimer
      <3>7. QED
        BY <1>0, <3>2, <3>3, <3>6, CbFuncTimers
    <2>6. ASSUME NEW fd \in Fds, EventIO(fd) PROVE TimerInv'
      <3>0. cur' = fd /\ batch'[fd] = "none"
        BY <1>0, <2>6 DEF TypeInv, TypeOK, MainOK, EventIO
      <3>1. \A f \in Fds : InUse(f)' => InUse(f)
        BY <1>0, <2>6 DEF TypeInv, TypeOK, MainOK, EventIO, InUse
      <3>2. QED
        BY <1>0, <2>6, <3>0, <3>1, TimerFrame DEF EventIO
    <2>7. CASE SpinExit
      <3>1. /\ cur \in Fds /\ pc' = "dispatch" /\ batch' = batch
            /\ timer[cur] \in lst /\ user_data[timer[cur]] = cur
        BY <1>0, <2>7
        DEF TypeInv, JobOK, TimerInv, NoDanglingTimer, InUse, SpinExit
      <3>2. CASE timer_flag[cur] = 1
        <4>1. DealTimer(cur)
          BY <2>7, <3>2 DEF SpinExit
        <4>2. timer[cur] \in Conns /\ {timer[cur]} \ {None} = {timer[cur]}
          BY <1>0, <3>1 DEF TypeInv, TypeOK, TimersOK
        <4>3. CbFunc({timer[cur]}) /\ UNCHANGED <<timer, user_data>>
          BY <4>1, <4>2 DEF DealTimer
        <4>4. owner' = [f \in Fds |-> IF f = cur THEN None ELSE owner[f]]
          BY <3>1, <4>3 DEF CbFunc, CloseFds
        <4>5. batch[cur] = "none"
          BY <1>0, <2>7 DEF TimerInv, SpinExit
        <4>6. \A f \in Fds : InUse(f)' => InUse(f) /\ f # cur
          BY <3>1, <4>4, <4>5 DEF InUse
        <4>7. \A f \in Fds : InUse(f)' =>
                InUse(f) /\ timer[f] \notin {timer[cur]}
          BY <1>0, <3>1, <4>6 DEF TimerInv, NoDanglingTimer
        <4>8. QED
          BY <1>0, <3>1, <4>2, <4>3, <4>7, CbFuncTimers
      <3>3. CASE timer_flag[cur] # 1
        BY <1>0, <2>7, <3>1, <3>3, TimerFrame DEF SpinExit, InUse
      <3>4. QED
        BY <3>2, <3>3
    <2>8. CASE BatchDone
      <3>1. /\ pc' # "spin" /\ UNCHANGED <<timer, user_data, batch>>
            /\ \A f \in Fds : batch[f] = "none"
        BY <2>8 DEF BatchDone
      <3>2. CASE timeout
        <4>1. CbFunc(Expired) /\ Expired \in SUBSET Conns
          BY <1>0, <2>8, <3>2 DEF TypeInv, TypeOK, TimersOK, BatchDone, Expired
        <4>2. ASSUME NEW f \in Fds, InUse(f)'
              PROVE  InUse(f) /\ timer[f] \notin Expired
          <5>1. owner'[f] # None
            BY <3>1, <4>2 DEF InUse
          <5>2. owner[f] # None /\ f \notin {user_data[c] : c \in Expired}
            BY <4>1, <5>1 DEF CbFunc, CloseFds
          <5>3. user_data[timer[f]] = f
            BY <1>0, <5>2 DEF TimerInv, NoDanglingTimer, InUse
          <5>4. QED
            BY <5>2, <5>3 DEF InUse
        <4>3. QED
          BY <1>0, <3>1, <4>1, <4>2, CbFuncTimers
      <3>3. CASE ~timeout
        <4>1. UNCHANGED <<client, owner, lst>>
          BY <1>0, <2>8, <3>3 DEF BatchDone
        <4>2. QED
          BY <1>0, <3>1, <4>1, TimerFrame DEF InUse
      <3>4. QED
        BY <3>2, <3>3
    <2>9. QED
      BY <1>2, <2>1, <2>2, <2>3, <2>4, <2>5, <2>6, <2>7, <2>8 DEF MainThread
  <1>3. ASSUME NEW w \in Workers, Worker(w) PROVE TimerInv'
    <2>1. CASE CloseRemovefd(w)
      <3>1. /\ \A f \in Fds : owner'[f] # None => owner[f] # None
            /\ \A c \in Conns : client'[c] \in {client[c], "closed"}
        BY <2>1 DEF CloseRemovefd, CloseFds
      <3>2. UNCHANGED <<pc, cur, batch, timer, lst, user_data>>
        BY <2>1 DEF CloseRemovefd
      <3>3. QED
        BY <1>0, <3>1, <3>2, TimerFrame
        DEF InUse, TimerInv, TypeInv, TypeOK, TimersOK
    <2>2. CASE ~CloseRemovefd(w)
      <3>1. UNCHANGED <<client, owner, pc, cur, batch, timer, lst, user_data>>
        BY <1>3, <2>2
        DEF Worker, Take, ReadOk, ReadFail, Flag, ProcessIncomplete,
            ParseRequest, ProcessReply, ProcessDrop, CloseForget, CloseCount,
            Arm, WriteNothing, WriteAgain, WriteFail, WriteDone
      <3>2. QED
        BY <1>0, <3>1, TimerFrame DEF InUse, TimerInv
    <2>3. QED
      BY <2>1, <2>2
  <1>4. CASE UNCHANGED vars
    BY <1>0, <1>4, TimerFrame DEF InUse, TimerInv
  <1>5. QED
    BY <1>0, <1>1, <1>2, <1>3, <1>4 DEF Next

(* When process_write never gives up, no worker closes a descriptor, so only *)
(* cb_func does, and each close takes away exactly one timer.                *)
OwnInv ==
  /\ OneTimerPerConnection
  /\ m_user_count = Cardinality(lst)
  /\ \A w \in Workers : wpc[w] \notin {"close", "forget", "count"}

(* A step that touches no timer, descriptor or count, and starts no          *)
(* close_conn, keeps OwnInv.                                                 *)
LEMMA OwnFrame ==
  ASSUME OwnInv, UNCHANGED <<owner, timer, lst, user_data, m_user_count>>,
         \A w \in Workers : wpc'[w] \in {"close", "forget", "count"}
                              => wpc'[w] = wpc[w]
  PROVE  OwnInv'
  BY DEF OwnInv, OneTimerPerConnection

(* cb_func on timers that are in the list.                                   *)
LEMMA CbFuncOwn ==
  ASSUME TypeInv, OwnInv, NEW T \in SUBSET lst, CbFunc(T),
         UNCHANGED <<timer, user_data, wpc>>
  PROVE  OwnInv'
  <1>1. /\ lst' = lst \ T /\ m_user_count' = m_user_count - Cardinality(T)
        /\ owner' = [f \in Fds |-> IF f \in {user_data[c] : c \in T}
                                   THEN None ELSE owner[f]]
    BY DEF CbFunc, CloseFds
  <1>2. IsFiniteSet(lst) /\ lst \cap T = T
    BY FS_Subset DEF TypeInv, TypeOK, TimersOK
  <1>3. Cardinality(lst') = Cardinality(lst) - Cardinality(T)
    BY <1>1, <1>2, FS_Difference
  <1>4. ASSUME NEW f \in Fds, owner'[f] # None
        PROVE  /\ timer'[f] = owner'[f] /\ owner'[f] \in lst'
               /\ user_data'[owner'[f]] = f
    <2>1. owner'[f] = owner[f] /\ f \notin {user_data[c] : c \in T}
      BY <1>1, <1>4
    <2>2. QED
      BY <1>1, <1>4, <2>1 DEF OwnInv, OneTimerPerConnection
  <1>5. ASSUME NEW c \in lst'
        PROVE  user_data'[c] \in Fds /\ owner'[user_data'[c]] = c
    <2>1. c \in lst /\ c \notin T
      BY <1>1, <1>5
    <2>2. user_data[c] \in Fds /\ owner[user_data[c]] = c
      BY <2>1 DEF OwnInv, OneTimerPerConnection
    <2>3. \A d \in T : user_data[d] # user_data[c]
      BY <2>1, <2>2 DEF OwnInv, OneTimerPerConnection
    <2>4. QED
      BY <1>1, <2>2, <2>3
  <1>6. QED
    BY <1>1, <1>3, <1>4, <1>5 DEF OwnInv, OneTimerPerConnection

(* Every step keeps OwnInv when process_write never gives up.                *)
LEMMA OwnStep ==
  ASSUME "drop" \notin Outcomes
  PROVE  TypeInv /\ TimerInv /\ OwnInv /\ [Next]_vars => OwnInv'
  <1>0. SUFFICES ASSUME TypeInv, TimerInv, OwnInv, [Next]_vars PROVE OwnInv'
    OBVIOUS
  <1>1. CASE Environment
    BY <1>0, <1>1, OwnFrame
    DEF Environment, Connect, Send, Hangup, Drain, Sigterm, TimePasses
  <1>2. CASE MainThread
    <2>1. CASE EpollWait \/ EventListen \/ EventSignal \/ AcceptStop
      BY <1>0, <2>1, OwnFrame
      DEF EpollWait, EventListen, EventSignal, AcceptStop
    <2>2. ASSUME NEW fd \in Fds, NEW c \in Conns, AcceptConn(fd, c)
          PROVE  OwnInv'
      <3>1. c \notin lst /\ owner[fd] = None /\ IsFiniteSet(lst)
        BY <1>0, <2>2, FS_Subset
        DEF TypeInv, TypeOK, TimersOK, TimerInv, AcceptConn, Free
      <3>2. /\ timer' = [timer EXCEPT ![fd] = c]
            /\ user_data' = [user_data EXCEPT ![c] = fd]
            /\ lst' = lst \cup {c}
            /\ owner' = [owner EXCEPT ![fd] = c]
            /\ m_user_count' = m_user_count + 1
            /\ UNCHANGED wpc
        BY <2>2 DEF AcceptConn, StartConn, NewTimer
      <3>3. m_user_count' = Cardinality(lst')
        BY <1>0, <3>1, <3>2, FS_AddElement DEF OwnInv
      <3>4. ASSUME NEW f \in Fds, owner'[f] # None
            PROVE  /\ timer'[f] = owner'[f] /\ owner'[f] \in lst'
                   /\ user_data'[owner'[f]] = f
        <4>1. CASE f = fd
          BY <1>0, <3>2, <4>1 DEF TypeInv, TypeOK, TimersOK, KernelOK
        <4>2. CASE f # fd
          <5>1. owner'[f] = owner[f] /\ timer'[f] = timer[f]
            BY <1>0, <3>2, <4>2 DEF TypeInv, TypeOK, TimersOK, KernelOK
          <5>2. /\ timer[f] = owner[f] /\ owner[f] \in lst
                /\ user_data[owner[f]] = f /\ owner[f] # c
            BY <1>0, <3>1, <3>4, <5>1 DEF OwnInv, OneTimerPerConnection
          <5>3. QED
            BY <1>0, <3>2, <5>1, <5>2 DEF TypeInv, TypeOK, TimersOK
        <4>3. QED
          BY <4>1, <4>2
      <3>5. ASSUME NEW d \in lst'
            PROVE  user_data'[d] \in Fds /\ owner'[user_data'[d]] = d
        <4>1. CASE d = c
          BY <1>0, <3>2, <4>1 DEF TypeInv, TypeOK, TimersOK, KernelOK
        <4>2. CASE d # c
          <5>1. d \in lst /\ user_data'[d] = user_data[d]
            BY <1>0, <3>2, <3>5, <4>2 DEF TypeInv, TypeOK, TimersOK
          <5>2. /\ user_data[d] \in Fds /\ owner[user_data[d]] = d
                /\ d # None
            BY <1>0, <5>1
            DEF TypeInv, TypeOK, TimersOK, OwnInv, OneTimerPerConnection
          <5>3. user_data[d] # fd
            BY <3>1, <5>2
          <5>4. QED
            BY <1>0, <3>2, <5>1, <5>2, <5>3 DEF TypeInv, TypeOK, KernelOK
        <4>3. QED
          BY <4>1, <4>2
      <3>6. QED
        BY <1>0, <3>2, <3>3, <3>4, <3>5 DEF OwnInv, OneTimerPerConnection
    <2>3. ASSUME NEW c \in Conns, AcceptBusy(c) PROVE OwnInv'
      BY <1>0, <2>3, OwnFrame DEF AcceptBusy
    <2>4. ASSUME NEW fd \in Fds, EventHup(fd) PROVE OwnInv'
      <3>1. timer[fd] \in lst /\ timer[fd] # None
        BY <1>0, <2>4
        DEF TypeInv, TypeOK, TimersOK, TimerInv, NoDanglingTimer, InUse,
            EventHup
      <3>2. CbFunc({timer[fd]}) /\ UNCHANGED <<timer, user_data, wpc>>
        BY <2>4, <3>1 DEF EventHup, DealTimer
      <3>3. QED
        BY <1>0, <3>1, <3>2, CbFuncOwn
    <2>5. ASSUME NEW fd \in Fds, EventIO(fd) PROVE OwnInv'
      BY <1>0, <2>5, OwnFrame DEF EventIO
    <2>6. CASE SpinExit
      <3>1. timer[cur] \in lst /\ {timer[cur]} \ {None} = {timer[cur]}
        BY <1>0, <2>6
        DEF TypeInv, TypeOK, TimersOK, JobOK, TimerInv, NoDanglingTimer, InUse,
            SpinExit
      <3>2. CASE timer_flag[cur] = 1
        <4>1. DealTimer(cur) /\ UNCHANGED wpc
          BY <2>6, <3>2 DEF SpinExit
        <4>2. CbFunc({timer[cur]}) /\ UNCHANGED <<timer, user_data>>
          BY <3>1, <4>1 DEF DealTimer
        <4>3. QED
          BY <1>0, <3>1, <4>1, <4>2, CbFuncOwn
      <3>3. CASE timer_flag[cur] # 1
        BY <1>0, <2>6, <3>3, OwnFrame DEF SpinExit
      <3>4. QED
        BY <3>2, <3>3
    <2>7. CASE BatchDone
      <3>1. CASE timeout
        <4>1. CbFunc(Expired) /\ UNCHANGED <<timer, user_data, wpc>>
          BY <2>7, <3>1 DEF BatchDone
        <4>2. Expired \in SUBSET lst
          BY DEF Expired
        <4>3. QED
          BY <1>0, <4>1, <4>2, CbFuncOwn
      <3>2. CASE ~timeout
        BY <1>0, <2>7, <3>2, OwnFrame DEF BatchDone
      <3>3. QED
        BY <3>1, <3>2
    <2>8. QED
      BY <1>2, <2>1, <2>2, <2>3, <2>4, <2>5, <2>6, <2>7 DEF MainThread
  <1>3. ASSUME NEW w \in Workers, Worker(w) PROVE OwnInv'
    <2>1. CASE Take(w) \/ ReadOk(w) \/ ReadFail(w) \/ ProcessIncomplete(w)
                 \/ ParseRequest(w) \/ ProcessReply(w) \/ WriteFail(w)
      <3>1. \E p \in {"io", "process", "respond", "flag", "armIn", "armOut"} :
              Goto(w, p)
        BY <2>1
        DEF Take, ReadOk, ReadFail, ProcessIncomplete, ParseRequest,
            ProcessReply, WriteFail
      <3>2. \A v \in Workers : wpc'[v] \in {"close", "forget", "count"}
                                 => wpc'[v] = wpc[v]
        BY <1>0, <3>1 DEF TypeInv, TypeOK, PoolOK, Goto
      <3>3. UNCHANGED <<owner, timer, lst, user_data, m_user_count>>
        BY <2>1
        DEF Take, ReadOk, ReadFail, ProcessIncomplete, ParseRequest,
            ProcessReply, WriteFail
      <3>4. QED
        BY <1>0, <3>2, <3>3, OwnFrame
    <2>2. CASE Flag(w) \/ Arm(w) \/ WriteNothing(w) \/ WriteAgain(w)
                 \/ WriteDone(w)
      <3>1. \E p \in {"idle", "flag"} : Goto(w, p)
        BY <2>2 DEF Flag, Arm, WriteNothing, WriteAgain, WriteDone, Finish
      <3>2. \A v \in Workers : wpc'[v] \in {"close", "forget", "count"}
                                 => wpc'[v] = wpc[v]
        BY <1>0, <3>1 DEF TypeInv, TypeOK, PoolOK, Goto
      <3>3. UNCHANGED <<owner, timer, lst, user_data, m_user_count>>
        BY <2>2 DEF Flag, Arm, WriteNothing, WriteAgain, WriteDone
      <3>4. QED
        BY <1>0, <3>2, <3>3, OwnFrame
    <2>3. CASE ProcessDrop(w) \/ CloseRemovefd(w) \/ CloseForget(w)
                 \/ CloseCount(w)
      BY <1>0, <2>3
      DEF OwnInv, ProcessDrop, CloseRemovefd, CloseForget, CloseCount, At
    <2>4. QED
      BY <1>3, <2>1, <2>2, <2>3 DEF Worker
  <1>4. CASE UNCHANGED vars
    BY <1>0, <1>4, OwnFrame
  <1>5. QED
    BY <1>0, <1>1, <1>2, <1>3, <1>4 DEF Next

(* The timers and the open descriptors are in bijection, which turns the     *)
(* count of timers into the count of connections.                            *)
LEMMA OwnCount == TypeInv /\ OwnInv => UserCountExact
  <1>0. SUFFICES ASSUME TypeInv, OwnInv PROVE UserCountExact
    OBVIOUS
  <1> DEFINE f == [c \in lst |-> user_data[c]]
  <1>1. IsFiniteSet(lst)
    BY <1>0, FS_Subset DEF TypeInv, TypeOK, TimersOK
  <1>2. \A c \in lst : /\ c # None /\ user_data[c] \in Fds
                       /\ owner[user_data[c]] = c
    BY <1>0 DEF TypeInv, TypeOK, TimersOK, OwnInv, OneTimerPerConnection
  <1>3. f \in [lst -> OpenFds] /\ \A a, b \in lst : f[a] = f[b] => a = b
    BY <1>2 DEF OpenFds
  <1>4. \A fd \in OpenFds : \E c \in lst : f[c] = fd
    BY <1>0 DEF OwnInv, OneTimerPerConnection, OpenFds
  <1>5. ExistsBijection(lst, OpenFds)
    BY <1>3, <1>4, Fun_IsBij DEF ExistsBijection
  <1>6. Cardinality(OpenFds) = Cardinality(lst)
    BY <1>1, <1>5, FS_Bijection
  <1>7. QED
    BY <1>0, <1>6 DEF OwnInv, UserCountExact

(* Every timer in the list is that of an open connection, and counts down    *)
(* exactly while nothing happens on it.                                      *)
QuietInv == \A c \in lst : client[c] = "open" /\ left[c] + quiet[c] = Slots

(* A step that leaves the listed timers and their clients alone keeps it.    *)
LEMMA QuietFrame ==
  ASSUME QuietInv, UNCHANGED <<lst, left, quiet>>,
         \A c \in lst : client'[c] = client[c]
  PROVE  QuietInv'
  BY DEF QuietInv

(* cb_func on listed timers closes no other listed client.                   *)
LEMMA CbFuncQuiet ==
  ASSUME TypeInv, OwnInv, QuietInv, NEW T \in SUBSET lst, CbFunc(T),
         UNCHANGED <<left, quiet>>
  PROVE  QuietInv'
  <1>1. lst' = lst \ T /\ lst \subseteq Conns
    BY DEF CbFunc, TypeInv, TypeOK, TimersOK
  <1>2. ASSUME NEW c \in lst' PROVE client'[c] = client[c]
    <2>1. c \notin Peers({user_data[d] : d \in T})
      BY <1>1, <1>2 DEF Peers, OwnInv, OneTimerPerConnection
    <2>2. QED
      BY <1>1, <1>2, <2>1 DEF CbFunc, CloseFds
  <1>3. QED
    BY <1>1, <1>2 DEF QuietInv

(* Every step keeps QuietInv when process_write never gives up: the timer is *)
(* restarted by the very steps that attend to the connection.                *)
LEMMA QuietStep ==
  ASSUME "drop" \notin Outcomes
  PROVE  TypeInv /\ TimerInv /\ OwnInv /\ QuietInv /\ [Next]_vars => QuietInv'
  <1>0. SUFFICES ASSUME TypeInv, TimerInv, OwnInv, QuietInv, [Next]_vars
                 PROVE  QuietInv'
    OBVIOUS
  <1>1. lst \subseteq Conns /\ \A c \in lst : client[c] = "open"
    BY <1>0 DEF TypeInv, TypeOK, TimersOK, QuietInv
  <1>2. CASE Environment
    <2>1. CASE TimePasses
      <3>1. \A c \in lst : left[c] \in 0..Slots /\ quiet[c] \in 0..Slots
        BY <1>0, <1>1 DEF TypeInv, TypeOK, TimersOK, ClientsOK
      <3>2. QED
        BY <1>0, <1>1, <2>1, <3>1 DEF QuietInv, TimePasses
    <2>2. CASE ~TimePasses
      <3>1. UNCHANGED <<lst, left, quiet>>
        BY <1>2, <2>2 DEF Environment, Connect, Send, Hangup, Drain, Sigterm
      <3>2. \A c \in lst : client'[c] = client[c]
        BY <1>0, <1>1, <1>2, <2>2
        DEF TypeInv, TypeOK, ClientsOK, Environment, Connect, Send, Hangup,
            Drain, Sigterm
      <3>3. QED
        BY <1>0, <3>1, <3>2, QuietFrame
    <2>3. QED
      BY <2>1, <2>2
  <1>3. CASE MainThread
    <2>1. CASE EpollWait \/ EventListen \/ EventSignal \/ AcceptStop
      BY <1>0, <2>1, QuietFrame
      DEF EpollWait, EventListen, EventSignal, AcceptStop
    <2>2. ASSUME NEW fd \in Fds, NEW c \in Conns, AcceptConn(fd, c)
          PROVE  QuietInv'
      <3>1. /\ lst' = lst \cup {c}
            /\ left' = [left EXCEPT ![c] = Slots]
            /\ quiet' = [quiet EXCEPT ![c] = 0]
            /\ client' = [client EXCEPT ![c] = "open"]
        BY <2>2 DEF AcceptConn, StartConn, NewTimer
      <3>2. QED
        BY <1>0, <1>1, <3>1
        DEF TypeInv, TypeOK, ClientsOK, TimersOK, QuietInv
    <2>3. ASSUME NEW c \in Conns, AcceptBusy(c) PROVE QuietInv'
      <3>1. \A d \in lst : client'[d] = client[d]
        BY <1>0, <1>1, <2>3 DEF TypeInv, TypeOK, ClientsOK, AcceptBusy
      <3>2. QED
        BY <1>0, <2>3, <3>1, QuietFrame DEF AcceptBusy
    <2>4. ASSUME NEW fd \in Fds, EventHup(fd) PROVE QuietInv'
      <3>1. timer[fd] \in lst /\ timer[fd] # None
        BY <1>0, <2>4
        DEF TypeInv, TypeOK, TimersOK, TimerInv, NoDanglingTimer, InUse,
            EventHup
      <3>2. CbFunc({timer[fd]}) /\ UNCHANGED <<left, quiet>>
        BY <2>4, <3>1 DEF EventHup, DealTimer
      <3>3. QED
        BY <1>0, <3>1, <3>2, CbFuncQuiet
    <2>5. ASSUME NEW fd \in Fds, EventIO(fd) PROVE QuietInv'
      <3>1. /\ timer[fd] \in lst /\ timer[fd] # None
            /\ user_data[timer[fd]] = fd
        BY <1>0, <2>5
        DEF TypeInv, TypeOK, TimersOK, TimerInv, NoDanglingTimer, InUse,
            EventIO
      <3>2. owner[fd] = timer[fd]
        BY <1>0, <3>1 DEF OwnInv, OneTimerPerConnection
      <3>3. /\ left' = [left EXCEPT ![timer[fd]] = Slots]
            /\ quiet' = [c \in Conns |-> IF c = timer[fd] THEN 0
                                                         ELSE quiet[c]]
            /\ UNCHANGED <<lst, client>>
        BY <2>5, <3>1, <3>2 DEF EventIO, AdjustTimer
      <3>4. QED
        BY <1>0, <1>1, <3>1, <3>3
        DEF TypeInv, TypeOK, TimersOK, ClientsOK, QuietInv
    <2>6. CASE SpinExit
      <3>1. timer[cur] \in lst /\ {timer[cur]} \ {None} = {timer[cur]}
        BY <1>0, <2>6
        DEF TypeInv, TypeOK, TimersOK, JobOK, TimerInv, NoDanglingTimer, InUse,
            SpinExit
      <3>2. CASE timer_flag[cur] = 1
        <4>1. DealTimer(cur)
          BY <2>6, <3>2 DEF SpinExit
        <4>2. CbFunc({timer[cur]}) /\ UNCHANGED <<left, quiet>>
          BY <3>1, <4>1 DEF DealTimer
        <4>3. QED
          BY <1>0, <3>1, <4>2, CbFuncQuiet
      <3>3. CASE timer_flag[cur] # 1
        BY <1>0, <2>6, <3>3, QuietFrame DEF SpinExit
      <3>4. QED
        BY <3>2, <3>3
    <2>7. CASE BatchDone
      <3>1. UNCHANGED <<left, quiet>>
        BY <2>7 DEF BatchDone
      <3>2. CASE timeout
        <4>1. CbFunc(Expired) /\ Expired \in SUBSET lst
          BY <2>7, <3>2 DEF BatchDone, Expired
        <4>2. QED
          BY <1>0, <3>1, <4>1, CbFuncQuiet
      <3>3. CASE ~timeout
        <4>1. UNCHANGED <<lst, client>>
          BY <2>7, <3>3 DEF BatchDone
        <4>2. QED
          BY <1>0, <3>1, <4>1, QuietFrame
      <3>4. QED
        BY <3>2, <3>3
    <2>8. QED
      BY <1>3, <2>1, <2>2, <2>3, <2>4, <2>5, <2>6, <2>7 DEF MainThread
  <1>4. ASSUME NEW w \in Workers, Worker(w) PROVE QuietInv'
    <2>1. ~CloseRemovefd(w)
      BY <1>0 DEF OwnInv, CloseRemovefd, At
    <2>2. UNCHANGED <<client, lst, left, quiet>>
      BY <1>4, <2>1
      DEF Worker, Take, ReadOk, ReadFail, Flag, ProcessIncomplete,
          ParseRequest, ProcessReply, ProcessDrop, CloseForget, CloseCount, Arm,
          WriteNothing, WriteAgain, WriteFail, WriteDone
    <2>3. QED
      BY <1>0, <2>2, QuietFrame
  <1>5. CASE UNCHANGED vars
    BY <1>0, <1>5, QuietFrame
  <1>6. QED
    BY <1>0, <1>2, <1>3, <1>4, <1>5 DEF Next

(* What tick closes is a connection whose timer counted down to 0, so        *)
(* nothing happened on it for all the Slots of the countdown.                *)
LEMMA TickOnQuiet ==
  ASSUME TypeInv, OwnInv, QuietInv, BatchDone,
         NEW fd \in Fds, owner[fd] # None, owner'[fd] = None
  PROVE  quiet[owner[fd]] = Slots
  <1>1. timeout /\ CbFunc(Expired)
    <2>1. CASE timeout
      BY <2>1 DEF BatchDone
    <2>2. CASE ~timeout
      BY <2>2 DEF BatchDone
    <2>3. QED
      BY <2>1, <2>2
  <1>2. PICK c \in Expired : user_data[c] = fd
    BY <1>1 DEF CbFunc, CloseFds
  <1>3. owner[fd] = c /\ c \in lst /\ left[c] = 0
    BY <1>2 DEF Expired, OwnInv, OneTimerPerConnection
  <1>4. c \in Conns /\ quiet[c] \in 0..Slots
    BY <1>3 DEF TypeInv, TypeOK, TimersOK, ClientsOK
  <1>5. QED
    BY <1>3, <1>4 DEF QuietInv

(* The invariants hold before the first connection.                          *)
LEMMA InitOK == Init => TypeInv /\ JobInv /\ TimerInv
  <1>1. SUFFICES ASSUME Init PROVE TypeInv /\ JobInv /\ TimerInv
    OBVIOUS
  <1>2. ClientsOK
    BY <1>1 DEF Init, ClientsOK
  <1>3. KernelOK
    BY <1>1 DEF Init, KernelOK
  <1>4. MainOK
    BY <1>1 DEF Init, MainOK
  <1>5. ConnsOK /\ TimersOK /\ PoolOK
    BY <1>1 DEF Init, ConnsOK, TimersOK, PoolOK
  <1>6. JobOK /\ JobInv /\ TimerInv
    BY <1>1 DEF Init, JobOK, JobInv, AtMostOneJob, Doing, TimerInv,
                NoDanglingTimer, InUse
  <1>7. QED
    BY <1>2, <1>3, <1>4, <1>5, <1>6 DEF TypeInv, TypeOK

(* So does the one that needs every request to be answered.                  *)
LEMMA InitOwn == Init => OwnInv /\ QuietInv
  BY FS_EmptySet DEF Init, OwnInv, OneTimerPerConnection, QuietInv

(* Every variable keeps its type, the busy wait names a descriptor, and a    *)
(* busy worker has an http_conn (webserver.cpp, threadpool.h).               *)
THEOREM TypeCorrect == Spec => []TypeOK
  <1>1. Init => TypeInv
    BY InitOK
  <1>2. TypeInv /\ [Next]_vars => TypeInv'
    BY TypeStep
  <1>3. TypeInv => TypeOK
    BY DEF TypeInv
  <1>4. QED
    BY <1>1, <1>2, <1>3, PTL DEF Spec

(* The busy wait of dealwithread and dealwithwrite serialises the pool: one  *)
(* socket is read or written at a time, and each improv = 1 ends the wait    *)
(* for the job that set it.                                                  *)
THEOREM PoolSerialised == Spec => []AtMostOneJob
  <1>1. Init => TypeInv /\ JobInv
    BY InitOK
  <1>2. TypeInv /\ JobInv /\ [Next]_vars => (TypeInv /\ JobInv)'
    BY TypeStep, JobStep
  <1>3. JobInv => AtMostOneJob
    BY DEF JobInv
  <1>4. QED
    BY <1>1, <1>2, <1>3, PTL DEF Spec

(* deal_timer and adjust_timer are never given a null or freed util_timer,   *)
(* even when close_conn has left timers behind and descriptors are reused.   *)
THEOREM TimersAlive == Spec => []NoDanglingTimer
  <1>1. Init => TypeInv /\ TimerInv
    BY InitOK
  <1>2. TypeInv /\ TimerInv /\ [Next]_vars => (TypeInv /\ TimerInv)'
    BY TypeStep, TimerStep
  <1>3. TimerInv => NoDanglingTimer
    BY DEF TimerInv
  <1>4. QED
    BY <1>1, <1>2, <1>3, PTL DEF Spec

(* Unless close_conn is called, every open connection has exactly its own    *)
(* timer, and no timer can fire for a descriptor that has a new owner.       *)
THEOREM TimersOwned ==
  ASSUME "drop" \notin Outcomes
  PROVE  Spec => []OneTimerPerConnection
  <1>1. Init => TypeInv /\ TimerInv /\ OwnInv
    BY InitOK, InitOwn
  <1>2. TypeInv /\ TimerInv /\ OwnInv /\ [Next]_vars
          => (TypeInv /\ TimerInv /\ OwnInv)'
    BY TypeStep, TimerStep, OwnStep
  <1>3. OwnInv => OneTimerPerConnection
    BY DEF OwnInv
  <1>4. QED
    BY <1>1, <1>2, <1>3, PTL DEF Spec

(* Unless close_conn is called, m_user_count is the number of open           *)
(* connections, so the test against MAX_FD counts what it should.            *)
THEOREM UsersCounted ==
  ASSUME "drop" \notin Outcomes
  PROVE  Spec => []UserCountExact
  <1>1. Init => TypeInv /\ TimerInv /\ OwnInv
    BY InitOK, InitOwn
  <1>2. TypeInv /\ TimerInv /\ OwnInv /\ [Next]_vars
          => (TypeInv /\ TimerInv /\ OwnInv)'
    BY TypeStep, TimerStep, OwnStep
  <1>3. TypeInv /\ OwnInv => UserCountExact
    BY OwnCount
  <1>4. QED
    BY <1>1, <1>2, <1>3, PTL DEF Spec

(* Unless close_conn is called, tick closes only connections on which        *)
(* nothing happened for the whole life of their timer (timer_handler).       *)
THEOREM TickSparesActive ==
  ASSUME "drop" \notin Outcomes
  PROVE  Spec => TickClosesOnlyInactive
  <1>1. Init => TypeInv /\ TimerInv /\ OwnInv /\ QuietInv
    BY InitOK, InitOwn
  <1>2. TypeInv /\ TimerInv /\ OwnInv /\ QuietInv /\ [Next]_vars
          => (TypeInv /\ TimerInv /\ OwnInv /\ QuietInv)'
    BY TypeStep, TimerStep, OwnStep, QuietStep
  <1>3. TypeInv /\ OwnInv /\ QuietInv /\ [Next]_vars
          => [BatchDone => \A fd \in Fds :
                owner[fd] # None /\ owner'[fd] = None
                => quiet[owner[fd]] = Slots]_vars
    BY TickOnQuiet
  <1>4. QED
    BY <1>1, <1>2, <1>3, PTL DEF Spec, TickClosesOnlyInactive
==============================================================================
