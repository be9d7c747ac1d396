------------------------------ MODULE WebServer ------------------------------
(***************************************************************************)
(* The connection-handling core of the server: the event loop              *)
(* (webserver/webserver.cpp) on the main thread, the worker threads        *)
(* (threadpool.h) that run http_conn::read_once, process and write, the    *)
(* idle timers (timer/lst_timer.cpp), and the part of the kernel these     *)
(* share: the descriptor table, the epoll interest of each socket          *)
(* (EPOLLONESHOT), the listening socket (EPOLLET) and the self-pipe of the *)
(* signal handler.                                                         *)
(*                                                                         *)
(* Grain.  A step of the main thread is one iteration of a loop of         *)
(* eventLoop, dealclinetdata or of the busy wait in dealwithread and       *)
(* dealwithwrite.  A step of a worker ends at each point where the main    *)
(* thread or another worker can observe it: the store improv = 1, the      *)
(* store timer_flag = 1, the parse and the answer of process(), each half  *)
(* of the plain --m_user_count, each system call of close_conn and the     *)
(* final modfd.                                                            *)
(***************************************************************************)
EXTENDS Integers, Sequences, FiniteSets

CONSTANTS
  Fds,          (* descriptors accept can return                             *)
  Conns,        (* the clients: each connects at most once.  The util_timer  *)
                (* that timer() allocates for a client carries its name.     *)
  Workers,      (* the threads of the pool                                   *)
  MAX_FD,       (* the bound m_user_count is compared with                   *)
  MaxRequests,  (* m_max_requests of the pool                                *)
  Slots,        (* a timer's life in TIMESLOTs: 3 in the code                *)
  Outcomes,     (* what process() may make of a buffer, see OutcomeKinds     *)
  Linger,       (* the values a request may give to m_linger                 *)
  Prompt,       (* TRUE: no job outlives the timer of its connection         *)
  MaxSends,     (* bound: messages a client sends                            *)
  Stoppable,    (* bound: FALSE leaves out the operator's SIGTERM            *)
  None          (* a null pointer, descriptor -1                             *)

(* "more":  NO_REQUEST, the request is incomplete or a line is bad;          *)
(* "reply": process_write returned true;                                     *)
(* "drop":  process_write returned false (404, empty file), so close_conn.   *)
OutcomeKinds == {"more", "reply", "drop"}

ASSUME ConstAssumption ==
  /\ None \notin Fds
  /\ None \notin Conns
  /\ None \notin Workers
  /\ IsFiniteSet(Conns)
  /\ MAX_FD \in Nat \ {0}
  /\ MaxRequests \in Nat \ {0}
  /\ Slots \in Nat \ {0}
  /\ Outcomes \subseteq OutcomeKinds
  /\ Linger \subseteq BOOLEAN
  /\ Prompt \in BOOLEAN
  /\ MaxSends \in Nat
  /\ Stoppable \in BOOLEAN

VARIABLES
  (* the clients and their sockets *)
  client,       (* life of the connection of each client                     *)
  readable,     (* its socket holds bytes the server has not read            *)
  hup,          (* the peer has shut the connection down                     *)
  sends,        (* messages it may still send                                *)
  tx,           (* its send buffer: "stalled" while full                     *)
  quiet,        (* history: TIMESLOTs since the server last attended to it   *)
  (* the kernel *)
  owner,        (* the client a descriptor is connected to, None if closed   *)
  interest,     (* armed event of a descriptor: EPOLLONESHOT leaves "off"    *)
  listenReady,  (* an edge of m_listenfd not yet reported                    *)
  pipe,         (* signals written to m_pipefd[1] and not yet received       *)
  alarm,        (* alarm(TIMESLOT) is pending                                *)
  (* the main thread *)
  pc,           (* where it is in eventLoop                                  *)
  cur,          (* the sockfd of the event it waits for                      *)
  batch,        (* client events of this epoll_wait not yet dispatched       *)
  batchCtl,     (* the same for m_listenfd and m_pipefd[0]                   *)
  timeout, stop_server,
  (* users[fd] : http_conn *)
  m_sockfd, improv, timer_flag, m_state, m_linger,
  m_read_buf,   (* the client whose bytes the buffer holds                   *)
  m_write_buf,  (* the client whose request the unsent response answers      *)
  m_user_count,
  (* users_timer[fd].timer and the timer list *)
  timer, lst, left, user_data,
  (* the pool *)
  workqueue,
  wpc,          (* where each worker is in run()                             *)
  request,      (* the http_conn it works on                                 *)
  found,        (* the client whose request it has parsed, not yet answered  *)
  cnt           (* the value of m_user_count it has loaded                   *)

clientVars == <<client, readable, hup, sends, tx, quiet>>
kernelVars == <<owner, interest, listenReady, pipe, alarm>>
mainVars   == <<pc, cur, batch, batchCtl, timeout, stop_server>>
connVars   == <<m_sockfd, improv, timer_flag, m_state, m_linger,
                m_read_buf, m_write_buf>>
timerVars  == <<timer, lst, left, user_data>>
poolVars   == <<workqueue, wpc, request, found, cnt>>
vars == <<clientVars, kernelVars, mainVars, connVars, m_user_count,
          timerVars, poolVars>>

ClientsOK ==
  /\ client \in [Conns -> {"idle", "backlog", "open", "refused", "closed"}]
  /\ readable \in [Conns -> BOOLEAN]
  /\ hup \in [Conns -> BOOLEAN]
  /\ sends \in [Conns -> Nat]
  /\ tx \in [Conns -> {"fresh", "stalled", "drained"}]
  /\ quiet \in [Conns -> 0..Slots]

KernelOK ==
  /\ owner \in [Fds -> Conns \cup {None}]
  /\ interest \in [Fds -> {"off", "in", "out"}]
  /\ listenReady \in BOOLEAN
  /\ pipe \subseteq {"SIGALRM", "SIGTERM"}
  /\ alarm \in BOOLEAN

MainOK ==
  /\ pc \in {"wait", "dispatch", "accept", "spin", "exited"}
  /\ cur \in Fds \cup {None}
  /\ batch \in [Fds -> {"none", "in", "out", "hup"}]
  /\ batchCtl \subseteq {"listen", "pipe"}
  /\ timeout \in BOOLEAN
  /\ stop_server \in BOOLEAN

ConnsOK ==
  /\ m_sockfd \in [Fds -> Fds \cup {None}]
  /\ improv \in [Fds -> {0, 1}]
  /\ timer_flag \in [Fds -> {0, 1}]
  /\ m_state \in [Fds -> {0, 1}]
  /\ m_linger \in [Fds -> BOOLEAN]
  /\ m_read_buf \in [Fds -> Conns \cup {None}]
  /\ m_write_buf \in [Fds -> Conns \cup {None}]
  /\ m_user_count \in Int

TimersOK ==
  /\ timer \in [Fds -> Conns \cup {None}]
  /\ lst \subseteq Conns
  /\ left \in [Conns -> 0..Slots]
  /\ user_data \in [Conns -> Fds \cup {None}]

PoolOK ==
  /\ workqueue \in Seq(Fds)
  /\ wpc \in [Workers -> {"idle", "io", "flag", "process", "respond", "close",
                          "forget", "count", "armIn", "armOut"}]
  /\ request \in [Workers -> Fds \cup {None}]
  /\ found \in [Workers -> Conns \cup {None}]
  /\ cnt \in [Workers -> Int]

TypeOK == ClientsOK /\ KernelOK /\ MainOK /\ ConnsOK /\ TimersOK /\ PoolOK

Init ==
  /\ client = [c \in Conns |-> "idle"]
  /\ readable = [c \in Conns |-> FALSE]
  /\ hup = [c \in Conns |-> FALSE]
  /\ sends = [c \in Conns |-> MaxSends]
  /\ tx = [c \in Conns |-> "fresh"]
  /\ quiet = [c \in Conns |-> 0]
  /\ owner = [fd \in Fds |-> None]
  /\ interest = [fd \in Fds |-> "off"]
  /\ listenReady = FALSE
  /\ pipe = {}
  /\ alarm = TRUE
  /\ pc = "wait"
  /\ cur = None
  /\ batch = [fd \in Fds |-> "none"]
  /\ batchCtl = {}
  /\ timeout = FALSE
  /\ stop_server = FALSE
  /\ m_sockfd = [fd \in Fds |-> None]
  /\ improv = [fd \in Fds |-> 0]
  /\ timer_flag = [fd \in Fds |-> 0]
  /\ m_state = [fd \in Fds |-> 0]
  /\ m_linger = [fd \in Fds |-> FALSE]
  /\ m_read_buf = [fd \in Fds |-> None]
  /\ m_write_buf = [fd \in Fds |-> None]
  /\ m_user_count = 0
  /\ timer = [fd \in Fds |-> None]
  /\ lst = {}
  /\ left = [c \in Conns |-> Slots]
  /\ user_data = [c \in Conns |-> None]
  /\ workqueue = <<>>
  /\ wpc = [w \in Workers |-> "idle"]
  /\ request = [w \in Workers |-> None]
  /\ found = [w \in Workers |-> None]
  /\ cnt = [w \in Workers |-> 0]

-----------------------------------------------------------------------------
(* The clients, the passing of time and the operator's SIGTERM.              *)

Connect(c) ==
  /\ client[c] = "idle"
  /\ client' = [client EXCEPT ![c] = "backlog"]
  /\ listenReady' = TRUE
  /\ UNCHANGED <<readable, hup, sends, tx, quiet, owner, interest, pipe, alarm,
                 mainVars, connVars, m_user_count, timerVars, poolVars>>

Send(c) ==
  /\ client[c] \in {"backlog", "open"}
  /\ ~hup[c] /\ ~readable[c]
  /\ sends[c] > 0
  /\ sends' = [sends EXCEPT ![c] = @ - 1]
  /\ readable' = [readable EXCEPT ![c] = TRUE]
  /\ UNCHANGED <<client, hup, tx, quiet, kernelVars, mainVars, connVars,
                 m_user_count, timerVars, poolVars>>

Hangup(c) ==
  /\ client[c] \in {"backlog", "open"}
  /\ ~hup[c]
  /\ hup' = [hup EXCEPT ![c] = TRUE]
  /\ UNCHANGED <<client, readable, sends, tx, quiet, kernelVars, mainVars,
                 connVars, m_user_count, timerVars, poolVars>>

(* The peer reads, so its full send buffer has room again.                   *)
Drain(c) ==
  /\ client[c] = "open"
  /\ tx[c] = "stalled"
  /\ tx' = [tx EXCEPT ![c] = "drained"]
  /\ UNCHANGED <<client, readable, hup, sends, quiet, kernelVars, mainVars,
                 connVars, m_user_count, timerVars, poolVars>>

Sigterm ==
  /\ Stoppable
  /\ "SIGTERM" \notin pipe /\ ~stop_server
  /\ pipe' = pipe \cup {"SIGTERM"}
  /\ UNCHANGED <<clientVars, owner, interest, listenReady, alarm, mainVars,
                 connVars, m_user_count, timerVars, poolVars>>

(* A thread has, or is about to be given, the http_conn of fd.               *)
Busy(fd) == (pc = "spin" /\ cur = fd) \/ \E w \in Workers : request[w] = fd

(* One TIMESLOT passes: the pending alarm fires and sig_handler writes the   *)
(* signal to the pipe.                                                       *)
TimePasses ==
  /\ alarm \/ \E c \in lst : left[c] > 0
  /\ Prompt => \A c \in lst : Busy(user_data[c]) => left[c] > 1
  /\ left' = [c \in Conns |-> IF c \in lst /\ left[c] > 0 THEN left[c] - 1
                                                          ELSE left[c]]
  /\ quiet' = [c \in Conns |-> IF client[c] = "open" /\ quiet[c] < Slots
                                THEN quiet[c] + 1 ELSE quiet[c]]
  /\ pipe' = IF alarm THEN pipe \cup {"SIGALRM"} ELSE pipe
  /\ alarm' = FALSE
  /\ UNCHANGED <<client, readable, hup, sends, tx, owner, interest,
                 listenReady, mainVars, connVars, m_user_count, timer, lst,
                 user_data, poolVars>>

-----------------------------------------------------------------------------
(* Descriptors and timers.                                                   *)

Peers(F) == {c \in Conns : \E fd \in F : owner[fd] = c}

(* EPOLL_CTL_DEL and close of every descriptor of F; on a closed descriptor  *)
(* both fail, and nobody looks at the result.                                *)
CloseFds(F) ==
  /\ client' = [c \in Conns |-> IF c \in Peers(F) THEN "closed" ELSE client[c]]
  /\ owner' = [fd \in Fds |-> IF fd \in F THEN None ELSE owner[fd]]
  /\ interest' = [fd \in Fds |-> IF fd \in F THEN "off" ELSE interest[fd]]

(* Faulty variants of CbFunc: the timer stays in the list; the count goes    *)
(* down once for all of T.                                                   *)
CbFuncKeepsTimer(T) ==
  /\ CloseFds({user_data[c] : c \in T})
  /\ m_user_count' = m_user_count - Cardinality(T)
  /\ lst' = lst

CbFuncCountsOnce(T) ==
  /\ CloseFds({user_data[c] : c \in T})
  /\ m_user_count' = m_user_count - (IF T = {} THEN 0 ELSE 1)
  /\ lst' = lst \ T

(* The timers of T fire or are dealt with: cb_func on each one's user_data,  *)
(* then the timer leaves the list and is freed.                              *)
CbFunc(T) ==
  /\ CloseFds({user_data[c] : c \in T})
  /\ m_user_count' = m_user_count - Cardinality(T)
  /\ lst' = lst \ T

(* deal_timer(users_timer[fd].timer, fd)                                     *)
DealTimer(fd) ==
  /\ CbFunc({timer[fd]} \ {None})
  /\ UNCHANGED <<readable, hup, sends, tx, quiet, left, timer, user_data>>

(* modfd(m_epollfd, m_sockfd, ev) on the http_conn of fd: it fails with no   *)
(* effect unless the socket is registered.                                   *)
Modfd(fd, ev) ==
  interest' = IF m_sockfd[fd] # None /\ owner[fd] # None
              THEN [interest EXCEPT ![fd] = ev] ELSE interest

(* Faulty variant of InitConn: the old response is left in place.            *)
InitConnKeepsResponse(fd) ==
  /\ timer_flag' = [timer_flag EXCEPT ![fd] = 0]
  /\ m_state' = [m_state EXCEPT ![fd] = 0]
  /\ m_linger' = [m_linger EXCEPT ![fd] = FALSE]
  /\ m_read_buf' = [m_read_buf EXCEPT ![fd] = None]
  /\ m_write_buf' = m_write_buf

(* http_conn::init(): everything but m_sockfd.                               *)
InitConn(fd) ==
  /\ timer_flag' = [timer_flag EXCEPT ![fd] = 0]
  /\ m_state' = [m_state EXCEPT ![fd] = 0]
  /\ m_linger' = [m_linger EXCEPT ![fd] = FALSE]
  /\ m_read_buf' = [m_read_buf EXCEPT ![fd] = None]
  /\ m_write_buf' = [m_write_buf EXCEPT ![fd] = None]

(* Faulty variants of AdjustTimer: not called; one TIMESLOT too many.        *)
AdjustTimerSkipped(fd) == left' = left

AdjustTimerLate(fd) ==
  left' = IF timer[fd] # None THEN [left EXCEPT ![timer[fd]] = Slots + 1]
                              ELSE left

(* adjust_timer: the life of the timer starts again.                         *)
AdjustTimer(fd) ==
  left' = IF timer[fd] # None THEN [left EXCEPT ![timer[fd]] = Slots] ELSE left

-----------------------------------------------------------------------------
(* The main thread: WebServer::eventLoop.                                    *)

(* What epoll reports of a descriptor; the loop tests EPOLLRDHUP, EPOLLHUP   *)
(* and EPOLLERR before EPOLLIN and EPOLLOUT.                                 *)
EventOf(fd) ==
  LET c == owner[fd] IN
  IF c = None \/ interest[fd] = "off" THEN "none"
  ELSE IF hup[c] THEN "hup"
  ELSE IF interest[fd] = "in" /\ readable[c] THEN "in"
  ELSE IF interest[fd] = "out" /\ tx[c] # "stalled" THEN "out"
  ELSE "none"

CtlReady == (IF listenReady THEN {"listen"} ELSE {})
            \cup (IF pipe # {} THEN {"pipe"} ELSE {})

(* Faulty variant of AfterReport: without EPOLLONESHOT.                      *)
AfterReportStillArmed(fd) == interest[fd]

(* EPOLLONESHOT: a reported descriptor is disarmed until the next modfd.     *)
AfterReport(fd) == IF EventOf(fd) = "none" THEN interest[fd] ELSE "off"

(* epoll_wait returns every ready event; ONESHOT disarms the sockets among   *)
(* them and the edge of m_listenfd is consumed.                              *)
EpollWait ==
  /\ pc = "wait"
  /\ CtlReady # {} \/ \E fd \in Fds : EventOf(fd) # "none"
  /\ batch' = [fd \in Fds |-> EventOf(fd)]
  /\ interest' = [fd \in Fds |-> AfterReport(fd)]
  /\ batchCtl' = CtlReady
  /\ listenReady' = FALSE
  /\ pc' = "dispatch"
  /\ UNCHANGED <<clientVars, owner, pipe, alarm, cur, timeout, stop_server,
                 connVars, m_user_count, timerVars, poolVars>>

EventListen ==
  /\ pc = "dispatch" /\ "listen" \in batchCtl
  /\ batchCtl' = batchCtl \ {"listen"}
  /\ pc' = "accept"
  /\ UNCHANGED <<clientVars, kernelVars, cur, batch, timeout, stop_server,
                 connVars, m_user_count, timerVars, poolVars>>

(* dealwithsignal: recv takes all the signals out of the pipe.               *)
EventSignal ==
  /\ pc = "dispatch" /\ "pipe" \in batchCtl
  /\ batchCtl' = batchCtl \ {"pipe"}
  /\ timeout' = (timeout \/ "SIGALRM" \in pipe)
  /\ stop_server' = (stop_server \/ "SIGTERM" \in pipe)
  /\ pipe' = {}
  /\ UNCHANGED <<clientVars, owner, interest, listenReady, alarm, pc, cur,
                 batch, connVars, m_user_count, timerVars, poolVars>>

Free(fd) == owner[fd] = None

(* Faulty variants of NewTimer: users_timer[fd].timer is not set; the timer  *)
(* is not added to the list.                                                 *)
NewTimerUnlinked(fd, c) ==
  /\ timer' = timer
  /\ user_data' = [user_data EXCEPT ![c] = fd]
  /\ left' = [left EXCEPT ![c] = Slots]
  /\ lst' = lst \cup {c}

NewTimerUnlisted(fd, c) ==
  /\ timer' = [timer EXCEPT ![fd] = c]
  /\ user_data' = [user_data EXCEPT ![c] = fd]
  /\ left' = [left EXCEPT ![c] = Slots]
  /\ lst' = lst

(* The util_timer that timer() allocates, links to users_timer[fd] and adds. *)
NewTimer(fd, c) ==
  /\ timer' = [timer EXCEPT ![fd] = c]
  /\ user_data' = [user_data EXCEPT ![c] = fd]
  /\ left' = [left EXCEPT ![c] = Slots]
  /\ lst' = lst \cup {c}

(* timer(): users[fd].init(fd, ...) makes a fresh http_conn registered for   *)
(* EPOLLIN.                                                                  *)
StartConn(fd, c) ==
  /\ owner' = [owner EXCEPT ![fd] = c]
  /\ interest' = [interest EXCEPT ![fd] = "in"]
  /\ m_sockfd' = [m_sockfd EXCEPT ![fd] = fd]
  /\ InitConn(fd)
  /\ improv' = [improv EXCEPT ![fd] = 0]
  /\ m_user_count' = m_user_count + 1
  /\ NewTimer(fd, c)

(* One round of the loop of dealclinetdata that accepts a connection.        *)
AcceptConn(fd, c) ==
  /\ pc = "accept" /\ client[c] = "backlog" /\ Free(fd)
  /\ m_user_count < MAX_FD
  /\ client' = [client EXCEPT ![c] = "open"]
  /\ quiet' = [quiet EXCEPT ![c] = 0]
  /\ StartConn(fd, c)
  /\ UNCHANGED <<readable, hup, sends, tx, listenReady, pipe, alarm, mainVars,
                 poolVars>>

(* Internal server busy: show_error closes the connection and the loop ends, *)
(* even when more connections wait.                                          *)
AcceptBusy(c) ==
  /\ pc = "accept" /\ client[c] = "backlog" /\ \E fd \in Fds : Free(fd)
  /\ m_user_count >= MAX_FD
  /\ client' = [client EXCEPT ![c] = "refused"]
  /\ pc' = "dispatch"
  /\ UNCHANGED <<readable, hup, sends, tx, quiet, kernelVars, cur, batch,
                 batchCtl, timeout, stop_server, connVars, m_user_count,
                 timerVars, poolVars>>

(* accept fails: the backlog is empty, or no descriptor is free (EMFILE).    *)
AcceptStop ==
  /\ pc = "accept"
  /\ \/ \A c \in Conns : client[c] # "backlog"
     \/ \A fd \in Fds : ~Free(fd)
  /\ pc' = "dispatch"
  /\ UNCHANGED <<clientVars, kernelVars, cur, batch, batchCtl, timeout,
                 stop_server, connVars, m_user_count, timerVars, poolVars>>

(* EPOLLRDHUP | EPOLLHUP | EPOLLERR.                                         *)
EventHup(fd) ==
  /\ pc = "dispatch" /\ batch[fd] = "hup"
  /\ batch' = [batch EXCEPT ![fd] = "none"]
  /\ DealTimer(fd)
  /\ UNCHANGED <<listenReady, pipe, alarm, pc, cur, batchCtl, timeout,
                 stop_server, connVars, poolVars>>

(* Faulty variant of AppendJob: the queue counts as full one entry early.    *)
AppendJobOffByOne(fd, state) ==
  IF Len(workqueue) + 1 >= MaxRequests
  THEN UNCHANGED <<workqueue, m_state>>
  ELSE /\ m_state' = [m_state EXCEPT ![fd] = state]
       /\ workqueue' = Append(workqueue, fd)

(* threadpool::append, whose result dealwithread and dealwithwrite ignore.   *)
AppendJob(fd, state) ==
  IF Len(workqueue) >= MaxRequests
  THEN UNCHANGED <<workqueue, m_state>>
  ELSE /\ m_state' = [m_state EXCEPT ![fd] = state]
       /\ workqueue' = Append(workqueue, fd)

(* dealwithread and dealwithwrite, up to their busy wait.                    *)
EventIO(fd) ==
  /\ pc = "dispatch" /\ batch[fd] \in {"in", "out"}
  /\ batch' = [batch EXCEPT ![fd] = "none"]
  /\ AdjustTimer(fd)
  /\ AppendJob(fd, IF batch[fd] = "in" THEN 0 ELSE 1)
  /\ quiet' = [c \in Conns |-> IF c = owner[fd] THEN 0 ELSE quiet[c]]
  /\ pc' = "spin"
  /\ cur' = fd
  /\ UNCHANGED <<client, readable, hup, sends, tx, kernelVars, batchCtl,
                 timeout, stop_server, m_sockfd, improv, timer_flag, m_linger,
                 m_read_buf, m_write_buf, m_user_count, timer, lst, user_data,
                 wpc, request, found, cnt>>

(* Faulty variant of SpinReset: improv is left at 1.                         *)
SpinResetForgotten(fd) == improv' = improv

SpinReset(fd) == improv' = [improv EXCEPT ![fd] = 0]

(* The busy wait sees improv = 1 and then reads timer_flag.                  *)
SpinExit ==
  /\ pc = "spin" /\ improv[cur] = 1
  /\ IF timer_flag[cur] = 1
     THEN DealTimer(cur)
     ELSE UNCHANGED <<clientVars, owner, interest, m_user_count, timerVars>>
  /\ timer_flag' = [timer_flag EXCEPT ![cur] = 0]
  /\ SpinReset(cur)
  /\ pc' = "dispatch"
  /\ cur' = None
  /\ UNCHANGED <<listenReady, pipe, alarm, batch, batchCtl, timeout,
                 stop_server, m_sockfd, m_state, m_linger, m_read_buf,
                 m_write_buf, poolVars>>

(* Faulty variant of Expired: the comparison the wrong way round.            *)
ExpiredNever == {c \in lst : left[c] > Slots}

(* sort_timer_lst::tick: the timers at the head that are due.                *)
Expired == {c \in lst : left[c] = 0}

(* The batch is done: timer_handler if SIGALRM came, then the loop test.     *)
BatchDone ==
  /\ pc = "dispatch" /\ batchCtl = {} /\ \A fd \in Fds : batch[fd] = "none"
  /\ IF timeout
     THEN CbFunc(Expired) /\ alarm' = TRUE
     ELSE UNCHANGED <<client, owner, interest, alarm, m_user_count, lst>>
  /\ timeout' = FALSE
  /\ pc' = IF stop_server THEN "exited" ELSE "wait"
  /\ UNCHANGED <<readable, hup, sends, tx, quiet, listenReady, pipe, cur,
                 batch, batchCtl, stop_server, connVars, timer, left,
                 user_data, poolVars>>

-----------------------------------------------------------------------------
(* The workers: threadpool::run and the http_conn methods it calls.  When    *)
(* eventLoop returns, main returns and the process ends with its threads.    *)

At(w, p) == pc # "exited" /\ wpc[w] = p

(* The peer of the socket recv or writev is called on.                       *)
Peer(fd) == IF m_sockfd[fd] = None THEN None ELSE owner[fd]

Goto(w, p) == wpc' = [wpc EXCEPT ![w] = p]

(* The worker's last step on a job: back to m_queuestat.wait().              *)
Finish(w) ==
  /\ Goto(w, "idle")
  /\ request' = [request EXCEPT ![w] = None]

Improv(fd) == improv' = [improv EXCEPT ![fd] = 1]

(* m_queuestat counts the entries of the queue: wait, lock, pop, unlock.     *)
Take(w) ==
  /\ At(w, "idle") /\ workqueue # <<>>
  /\ request' = [request EXCEPT ![w] = Head(workqueue)]
  /\ workqueue' = Tail(workqueue)
  /\ Goto(w, "io")
  /\ UNCHANGED <<clientVars, kernelVars, mainVars, connVars, m_user_count,
                 timerVars, found, cnt>>

(* read_once returned true: the socket is read until EAGAIN.                 *)
ReadOk(w) ==
  LET fd == request[w]  c == Peer(fd) IN
  /\ At(w, "io") /\ m_state[fd] = 0
  /\ c # None /\ ~hup[c]
  /\ m_read_buf' = [m_read_buf EXCEPT ![fd] = IF readable[c] THEN c ELSE @]
  /\ readable' = [readable EXCEPT ![c] = FALSE]
  /\ Improv(fd)
  /\ Goto(w, "process")
  /\ UNCHANGED <<client, hup, sends, tx, quiet, kernelVars, mainVars, m_sockfd,
                 timer_flag, m_state, m_linger, m_write_buf, m_user_count,
                 timerVars, workqueue, request, found, cnt>>

(* read_once returned false: bad descriptor, end of file or error, or a full *)
(* buffer, for which recv is called with length 0.                           *)
ReadFail(w) ==
  LET fd == request[w]  c == Peer(fd) IN
  /\ At(w, "io") /\ m_state[fd] = 0
  /\ c # None => hup[c] \/ readable[c]
  /\ m_read_buf' = [m_read_buf EXCEPT
       ![fd] = IF c # None THEN IF readable[c] THEN c ELSE @ ELSE @]
  /\ Improv(fd)
  /\ Goto(w, "flag")
  /\ UNCHANGED <<clientVars, kernelVars, mainVars, m_sockfd, timer_flag,
                 m_state, m_linger, m_write_buf, m_user_count, timerVars,
                 workqueue, request, found, cnt>>

(* timer_flag = 1, a store after improv = 1.                                 *)
Flag(w) ==
  /\ At(w, "flag")
  /\ timer_flag' = [timer_flag EXCEPT ![request[w]] = 1]
  /\ Finish(w)
  /\ UNCHANGED <<clientVars, kernelVars, mainVars, m_sockfd, improv, m_state,
                 m_linger, m_read_buf, m_write_buf, m_user_count, timerVars,
                 workqueue, found, cnt>>

(* process_read: the buffer holds no complete request.                       *)
ProcessIncomplete(w) ==
  /\ At(w, "process")
  /\ "more" \in Outcomes \/ m_read_buf[request[w]] = None
  /\ Goto(w, "armIn")
  /\ UNCHANGED <<clientVars, kernelVars, mainVars, connVars, m_user_count,
                 timerVars, workqueue, request, found, cnt>>

(* process_read: the request is parsed and do_request, which may wait for    *)
(* redis, has found what to answer.                                          *)
ParseRequest(w) ==
  LET fd == request[w] IN
  /\ At(w, "process") /\ Outcomes # {"more"} /\ m_read_buf[fd] # None
  /\ found' = [found EXCEPT ![w] = m_read_buf[fd]]
  /\ \E b \in Linger : m_linger' = [m_linger EXCEPT ![fd] = b]
  /\ Goto(w, "respond")
  /\ UNCHANGED <<clientVars, kernelVars, mainVars, m_sockfd, improv,
                 timer_flag, m_state, m_read_buf, m_write_buf, m_user_count,
                 timerVars, workqueue, request, cnt>>

(* process_write: the answer to what was parsed goes to m_write_buf.         *)
ProcessReply(w) ==
  /\ At(w, "respond") /\ "reply" \in Outcomes
  /\ m_write_buf' = [m_write_buf EXCEPT ![request[w]] = found[w]]
  /\ found' = [found EXCEPT ![w] = None]
  /\ Goto(w, "armOut")
  /\ UNCHANGED <<clientVars, kernelVars, mainVars, m_sockfd, improv,
                 timer_flag, m_state, m_linger, m_read_buf, m_user_count,
                 timerVars, workqueue, request, cnt>>

(* process_write gives up.                                                   *)
ProcessDrop(w) ==
  /\ At(w, "respond") /\ "drop" \in Outcomes
  /\ found' = [found EXCEPT ![w] = None]
  /\ Goto(w, "close")
  /\ UNCHANGED <<clientVars, kernelVars, mainVars, connVars, m_user_count,
                 timerVars, workqueue, request, cnt>>

(* close_conn: removefd, m_sockfd = -1, --m_user_count.  The timer stays.    *)
CloseRemovefd(w) ==
  LET fd == request[w] IN
  /\ At(w, "close")
  /\ CloseFds(IF m_sockfd[fd] = None THEN {} ELSE {fd})
  /\ Goto(w, IF m_sockfd[fd] = None THEN "armOut" ELSE "forget")
  /\ UNCHANGED <<readable, hup, sends, tx, quiet, listenReady, pipe, alarm,
                 mainVars, connVars, m_user_count, timerVars, workqueue,
                 request, found, cnt>>

CloseForget(w) ==
  /\ At(w, "forget")
  /\ m_sockfd' = [m_sockfd EXCEPT ![request[w]] = None]
  /\ cnt' = [cnt EXCEPT ![w] = m_user_count]
  /\ Goto(w, "count")
  /\ UNCHANGED <<clientVars, kernelVars, mainVars, improv, timer_flag, m_state,
                 m_linger, m_read_buf, m_write_buf, m_user_count, timerVars,
                 workqueue, request, found>>

CloseCount(w) ==
  /\ At(w, "count")
  /\ m_user_count' = cnt[w] - 1
  /\ Goto(w, "armOut")
  /\ UNCHANGED <<clientVars, kernelVars, mainVars, connVars, timerVars,
                 workqueue, request, found, cnt>>

(* The modfd that ends process().                                            *)
Arm(w) ==
  /\ At(w, "armIn") \/ At(w, "armOut")
  /\ Modfd(request[w], IF wpc[w] = "armIn" THEN "in" ELSE "out")
  /\ Finish(w)
  /\ UNCHANGED <<clientVars, owner, listenReady, pipe, alarm, mainVars,
                 connVars, m_user_count, timerVars, workqueue, found, cnt>>

(* write() with bytes_to_send = 0.                                           *)
WriteNothing(w) ==
  LET fd == request[w] IN
  /\ At(w, "io") /\ m_state[fd] = 1 /\ m_write_buf[fd] = None
  /\ Modfd(fd, "in")
  /\ InitConn(fd)
  /\ Improv(fd)
  /\ Finish(w)
  /\ UNCHANGED <<clientVars, owner, listenReady, pipe, alarm, mainVars,
                 m_sockfd, m_user_count, timerVars, workqueue, found, cnt>>

(* writev sends a part and then meets EAGAIN.                                *)
WriteAgain(w) ==
  LET fd == request[w]  c == Peer(fd) IN
  /\ At(w, "io") /\ m_state[fd] = 1 /\ m_write_buf[fd] # None
  /\ c # None /\ tx[c] # "drained"
  /\ tx' = [tx EXCEPT ![c] = "stalled"]
  /\ Modfd(fd, "out")
  /\ Improv(fd)
  /\ Finish(w)
  /\ UNCHANGED <<client, readable, hup, sends, quiet, owner, listenReady, pipe,
                 alarm, mainVars, m_sockfd, timer_flag, m_state, m_linger,
                 m_read_buf, m_write_buf, m_user_count, timerVars, workqueue,
                 found, cnt>>

(* writev fails: unmap and return false.                                     *)
WriteFail(w) ==
  LET fd == request[w]  c == Peer(fd) IN
  /\ At(w, "io") /\ m_state[fd] = 1 /\ m_write_buf[fd] # None
  /\ c # None => hup[c]
  /\ Improv(fd)
  /\ Goto(w, "flag")
  /\ UNCHANGED <<clientVars, kernelVars, mainVars, m_sockfd, timer_flag,
                 m_state, m_linger, m_read_buf, m_write_buf, m_user_count,
                 timerVars, workqueue, request, found, cnt>>

(* All bytes sent: modfd for EPOLLIN, then init() when the connection is to  *)
(* stay, return false when it is not.                                        *)
WriteDone(w) ==
  LET fd == request[w]  c == Peer(fd) IN
  /\ At(w, "io") /\ m_state[fd] = 1 /\ m_write_buf[fd] # None
  /\ c # None /\ tx[c] # "stalled"
  /\ Modfd(fd, "in")
  /\ Improv(fd)
  /\ IF m_linger[fd]
     THEN InitConn(fd) /\ Finish(w)
     ELSE /\ m_write_buf' = [m_write_buf EXCEPT ![fd] = None]
          /\ Goto(w, "flag")
          /\ UNCHANGED <<timer_flag, m_state, m_linger, m_read_buf, request>>
  /\ UNCHANGED <<clientVars, owner, listenReady, pipe, alarm, mainVars,
                 m_sockfd, m_user_count, timerVars, workqueue, found, cnt>>

-----------------------------------------------------------------------------
Environment ==
  \/ \E c \in Conns : Connect(c) \/ Send(c) \/ Hangup(c) \/ Drain(c)
  \/ Sigterm
  \/ TimePasses

MainThread ==
  \/ EpollWait \/ EventListen \/ EventSignal
  \/ \E fd \in Fds, c \in Conns : AcceptConn(fd, c)
  \/ \E c \in Conns : AcceptBusy(c)
  \/ AcceptStop
  \/ \E fd \in Fds : EventHup(fd) \/ EventIO(fd)
  \/ SpinExit \/ BatchDone

Worker(w) ==
  \/ Take(w)
  \/ ReadOk(w) \/ ReadFail(w) \/ Flag(w)
  \/ ProcessIncomplete(w) \/ ParseRequest(w)
  \/ ProcessReply(w) \/ ProcessDrop(w)
  \/ CloseRemovefd(w) \/ CloseForget(w) \/ CloseCount(w)
  \/ Arm(w)
  \/ WriteNothing(w) \/ WriteAgain(w) \/ WriteFail(w) \/ WriteDone(w)

Next == Environment \/ MainThread \/ \E w \in Workers : Worker(w)

Spec == Init /\ [][Next]_vars

(* The scheduler runs the main thread and every worker, and time passes.     *)
(* Nothing is assumed of the clients.                                        *)
FairSpec ==
  /\ Spec
  /\ WF_vars(MainThread)
  /\ \A w \in Workers : WF_vars(Worker(w))
  /\ WF_vars(TimePasses)

-----------------------------------------------------------------------------
(* Properties that hold whatever process() decides and however late a worker *)
(* is.                                                                       *)

Doing(w) == wpc[w] = "io"

(* The busy wait turns the pool into a remote procedure call: there is at    *)
(* most one job in the whole server whose socket is still to be read or      *)
(* written, it is the one the main thread waits for, and a finished one is   *)
(* never waited for again (dealwithread, dealwithwrite, threadpool::run).    *)
AtMostOneJob ==
  /\ pc = "spin" =>
       \/ /\ workqueue = <<cur>> /\ improv[cur] = 0
          /\ \A w \in Workers : ~Doing(w)
       \/ /\ workqueue = <<>> /\ improv[cur] = 0
          /\ \E w \in Workers : /\ Doing(w) /\ request[w] = cur
                               /\ \A v \in Workers \ {w} : ~Doing(v)
       \/ /\ workqueue = <<>> /\ improv[cur] = 1
          /\ \A w \in Workers : ~Doing(w)
  /\ pc # "spin" =>
       /\ workqueue = <<>>
       /\ \A fd \in Fds : improv[fd] = 0
       /\ \A w \in Workers : ~Doing(w)

(* The main thread never uses a null or freed util_timer: whenever it may    *)
(* come to deal_timer or adjust_timer on a descriptor, users_timer[fd].timer *)
(* is a timer that is still in the list and that belongs to the descriptor.  *)
InUse(fd) ==
  owner[fd] # None \/ batch[fd] # "none" \/ (pc = "spin" /\ cur = fd)

NoDanglingTimer ==
  \A fd \in Fds : InUse(fd) => timer[fd] \in lst /\ user_data[timer[fd]] = fd

-----------------------------------------------------------------------------
(* Properties of connections that are kept alive, answered, and processed    *)
(* before their timer is due.                                                *)

(* EPOLLONESHOT keeps two threads off one http_conn: while a worker has it,  *)
(* its socket is not armed, no event of it is left to dispatch, and no other *)
(* worker has it.                                                            *)
Exclusive ==
  \A w \in Workers : wpc[w] # "idle" =>
    LET fd == request[w] IN
    /\ wpc[w] = "flag" \/ (interest[fd] = "off" /\ batch[fd] = "none")
    /\ \A v \in Workers \ {w} : request[v] # fd

(* What lets http_conn do without a lock: while a worker has the http_conn   *)
(* of a descriptor, the main thread neither closes the descriptor nor gives  *)
(* it to another client, and writes none of its fields; improv and           *)
(* timer_flag, over which the two threads talk, are the exception            *)
(* (dealclinetdata, dealwithread, deal_timer, tick; http_conn::process).     *)
HandsOff ==
  [][MainThread => \A fd \in Fds : (\E w \in Workers : request[w] = fd) =>
       UNCHANGED <<owner[fd], m_sockfd[fd], m_state[fd], m_linger[fd],
                   m_read_buf[fd], m_write_buf[fd]>>]_vars

(* Every open connection has its own timer in the list and every timer in    *)
(* the list is that of an open connection: none fires for a descriptor that  *)
(* was closed, or given to somebody else (timer, deal_timer, tick, cb_func). *)
OneTimerPerConnection ==
  /\ \A fd \in Fds : owner[fd] # None =>
       timer[fd] = owner[fd] /\ owner[fd] \in lst /\ user_data[owner[fd]] = fd
  /\ \A c \in lst : user_data[c] \in Fds /\ owner[user_data[c]] = c

OpenFds == {fd \in Fds : owner[fd] # None}

(* m_user_count is the number of open connections, whenever no close_conn is *)
(* half done: "closing one connection takes one off the number of clients".  *)
UserCountExact ==
  (\A w \in Workers : wpc[w] \notin {"forget", "count"})
    => m_user_count = Cardinality(OpenFds)

(* What a client is sent answers its own request: the buffers of a live      *)
(* http_conn never hold what belongs to an earlier owner of the descriptor,  *)
(* and what a worker has parsed and not yet answered is a request of the     *)
(* client whose http_conn it will put the answer in (init, process).         *)
NoCrossTalk ==
  /\ \A fd \in Fds : owner[fd] # None =>
       /\ m_read_buf[fd] \in {None, owner[fd]}
       /\ m_write_buf[fd] \in {None, owner[fd]}
  /\ \A w \in Workers : found[w] # None => owner[request[w]] = found[w]

(* tick closes only connections on which nothing happened for 3 * TIMESLOT   *)
(* (timer_handler, and timer/README.md: it handles inactive connections).    *)
TickClosesOnlyInactive ==
  [][BatchDone => \A fd \in Fds : owner[fd] # None /\ owner'[fd] = None
       => quiet[owner[fd]] = Slots]_vars

-----------------------------------------------------------------------------
(* Liveness.                                                                 *)

(* The busy wait of dealwithread and dealwithwrite ends.                     *)
SpinEnds == pc = "spin" ~> pc # "spin"

HasWork(c) == /\ client[c] = "open"
              /\ readable[c] \/ \E fd \in Fds : m_read_buf[fd] = c

(* Bytes that reach an accepted connection are answered, or the connection   *)
(* is closed.                                                                *)
RequestsServed == \A c \in Conns : HasWork(c) ~> ~HasWork(c) \/ pc = "exited"

(* The descriptor of a peer that went away is released, even when the main   *)
(* thread misses the store timer_flag = 1: the timer is the safety net.      *)
HangupReleases ==
  \A c \in Conns : (client[c] = "open" /\ hup[c])
    ~> client[c] = "closed" \/ pc = "exited"
=============================================================================
