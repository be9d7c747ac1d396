# poorWebserver: a TLA+ model of the server

poorWebserver is a small HTTP server: one thread runs an epoll loop, a pool of
threads reads, parses and answers, and a list of timers closes connections that
stay silent. It keeps user accounts in redis. This directory holds a model of
it, the TLC runs that check the model and the TLAPS proofs about it.

| file | what it is |
| --- | --- |
| `WebServer.tla` | the event loop, the worker threads, the connections, the timers and the kernel state they share |
| `MCWebServer.tla`, `server_*.cfg`, `close_conn_*.cfg` | small instances of it for TLC |
| `WebServerProofs.tla` | safety for every number of descriptors, clients and workers |
| `ExclusiveProofs.tla` | why an `http_conn` needs no lock: one thread at a time, for every number of them |
| `TimerSet.tla` | what the timer list promises: a set of deadlines |
| `TimerList.tla` | `sort_timer_lst` at the level of its pointers |
| `MCTimerList.tla`, `timer_list.cfg` | a small instance for TLC |
| `TimerListProofs.tla` | the list is well formed, loses nothing, and implements the set, for any number of timers |
| `HttpService.tla` | what a client is promised on a connection |
| `HttpParse.tla`, `HttpWrite.tla` | the request parser and the response of an `http_conn`, as functions of its fields |
| `HttpConn.tla`, `http_*.cfg` | one `http_conn` from bytes to bytes, with its client and the network |
| `HttpWriteProofs.tla`, `HttpConnProofs.tla` | the arithmetic of `write`; the parser and the service, for all lengths and cuts |
| `RedisPool.tla`, `ThreadPool.tla` | the redis connection pool; the queue of the thread pool |
| `Accounts.tla`, `MCAccounts.tla`, `accounts*.cfg` | registration and login on the workers: both pools, redis, `m_lock` |
| `RedisPoolProofs.tla`, `AccountsProofs.tla` | their safety for any number of workers, connections, requests and names |
| `Fifo.tla` | what a blocking queue promises |
| `BlockQueue.tla`, `Log.tla`, `log.cfg` | the ring buffer, and the log that writes through it |
| `LogProofs.tla` | the ring implements a queue of any length; no line is lost, doubled or out of order |
| `PROJECT.json` | components, runs, mutants, hazards, theorems, and the source lines of every definition |

## 1. Inventory

### Components

**Event loop** (`webserver/webserver.cpp`, main thread). State: `users[MAX_FD]`
and `users_timer[MAX_FD]`, both indexed by descriptor; the locals `timeout` and
`stop_server` of `eventLoop`; the batch that `epoll_wait` returned. Operations:
accept until EAGAIN (the listening socket is edge triggered), take signals out
of the self-pipe, deal with a hang-up, hand a read or a write to the pool, run
the timers after the batch. The loop is *not* asynchronous: after `append` it
spins on `users[fd].improv` until the worker has done the socket operation.
Correct if it never waits for ever, never uses a dead timer, and never takes one
job's completion for another's.

**Thread pool** (`threadpool.h`). State: `m_workqueue`, its mutex and its
semaphore. `append` refuses a job when the queue is full; `run` takes a job,
calls `read_once` and `process`, or `write`, and tells the main thread by
`improv` and `timer_flag`. Correct if every job is done once and each
`http_conn` has one worker at a time.

**Connection** (`http/http_conn.cpp`). State: one `http_conn` per descriptor,
reused by each connection that gets the number, and the static
`m_user_count`. Operations: `init`, `read_once`, `process` (with
`process_read`, `do_request`, `process_write`), `write`, `close_conn`. Correct
if a client is sent only answers to its own requests, if each request is
answered or the connection closed, and if the count is that of the open
connections. The parser and the response have a state machine of their own
(`m_check_state`, the buffer indices, the two iovecs).

**Timer list** (`timer/lst_timer.cpp`). A doubly linked list, ascending by
`expire`, with `add_timer`, `adjust_timer`, `del_timer` and `tick`; used by the
main thread only. Correct if it loses no timer, and `tick` fires those that are
due and no other.

**Signals** (`Utils` in `timer/lst_timer.cpp`). `sig_handler` writes the signal
number into a pipe; `timer_handler` ticks and arms the next alarm.

**Redis pool and accounts** (`CGIredis/redis.cpp`, `do_request`). A deque of
connections with a mutex and a semaphore, held for the duration of `process` by
`connectionRAII`; registration is GET then SET, login is GET and compare. Only
the SET is inside `m_lock`, a global mutex. Correct if no connection has two
holders, if nobody waits for a connection for ever, and if what a client is told
of its account is true.

**Log and blocking queue** (`log/`). A ring buffer with a condition variable and
a writer thread. `Log::init` is called from nowhere; spdlog does the logging.
Correct if the ring is a FIFO, no line is lost and the writer never oversleeps.

**Not part of the running server**: `threadpool11.h` (no file includes it),
`CGIredis/test.cpp`, the pages under `root/`. `locker.h` wraps the pthread
primitives; `configure` sets port, number of redis connections (8) and of
threads (the hardware's).

### How they interact

- main thread -> pool: `append(users + fd, state)`, then the busy wait;
- worker -> main thread: `improv = 1` after the socket operation, then
  `timer_flag = 1` if it failed, as plain `int`s;
- both -> kernel: `epoll_ctl` and `close` on the same descriptors, without a
  lock. `EPOLLONESHOT` keeps a descriptor silent until `modfd`;
- both -> `m_user_count`, without a lock;
- main thread -> timer -> descriptor: `util_timer::user_data` points to
  `users_timer[fd]`, so what a timer closes is whatever has that number *then*;
- `close_conn` in a worker closes a descriptor and does not know of its timer.

### What is hard

Two threads that share plain integers; a completion flag used again for the next
job; descriptor numbers given to another client while a timer, an event or a
worker still refers to the old one; one-shot and edge-triggered events that are
lost if nobody re-arms them; requests and responses split at any byte; a worker
that is slower than the idle timeout; redis calls interrupted by SIGALRM.
`PROJECT.json` lists each at its line with the properties that cover it.

Three notes on the code itself. As it is, it does not compile: `block_queue.h:161`
calls `cond::timewait`, which `locker.h` does not have, and `configure.cpp:11`
uses `std::thread` without its header. The model takes both as repaired.
`m_close_log` of `http_conn` is never assigned, and `LOG_INFO` at
`http_conn.cpp:266` would write to a log that was never opened if it happened to
be 0: the model takes it as nonzero. The default build is `-g -fsanitize=address` without
optimisation: every read of `improv` in the busy wait is a load, and stores of one
thread are seen in their order on the usual hardware. The model takes this
build. At `-O2` a compiler may take the load out of the loop, for there is no
atomic access or call in it.

## 2. Plan

Done: WebServer, TimerSet and TimerList, HttpConn with the parser and the
response, Accounts with the two pools, Log with its queue; and, for each safety
property and each refinement that a run checks, its proof. Left, in this order:

1. Weaker hypotheses where the code allows it: `ServesRequests` for a client that
   sends its next request before the answer has come needs a model of what
   `init()` then clears.
2. In HttpConn: a job that outlives the idle timer, which so far only WebServer
   has.
3. In WebServer: liveness of the backlog.

How the modules fit together: WebServer has all connections and threads, and the
parser and the response only as outcomes (`more`, `reply`, `drop`). HttpConn has
one object and its bytes; that one thread at a time works on it is
WebServer's `Exclusive`, and that every request comes to one of the outcomes is
HttpConn's `Served`. Both have the idle timer: WebServer with its list, its
TIMESLOTs and the descriptors, HttpConn as what it means to the client. Accounts has what workers do inside `process` with redis,
which is only a delay in the other two.

## 3. WebServer

### State and code

| model | code |
| --- | --- |
| `client`, `readable`, `hup`, `sends`, `tx` | the peers: unread bytes, shutdown, messages still to come, room in the send buffer |
| `quiet` | history: TIMESLOTs since the server last attended to a client |
| `owner[fd]`, `interest[fd]` | the descriptor table and the armed epoll event; `off` is what EPOLLONESHOT leaves behind |
| `listenReady` | an edge of `m_listenfd` not yet reported |
| `pipe`, `alarm` | the self-pipe and the pending alarm |
| `pc`, `cur`, `batch`, `batchCtl`, `timeout`, `stop_server` | the position in `eventLoop` and the events not yet dispatched |
| `m_sockfd`, `improv`, `timer_flag`, `m_state`, `m_linger`, `m_user_count` | the fields of that name |
| `m_read_buf[fd]`, `m_write_buf[fd]` | whose bytes are in the buffer; whose request the unsent response answers |
| `timer[fd]`, `lst`, `left`, `user_data` | `users_timer[fd].timer`, the list, the TIMESLOTs each timer has left, its `user_data->sockfd` |
| `workqueue`, `wpc`, `request`, `cnt` | the queue; each thread's place in `run`, its job, and the `m_user_count` it loaded |
| `found` | the client whose request a thread has parsed and not yet answered: what `do_request` left in `m_file_address` and the return code |

A step of the main thread is one round of a loop: `EpollWait`, `EventListen`,
`AcceptConn`, `AcceptBusy`, `AcceptStop`, `EventSignal`, `EventHup`, `EventIO`
(`dealwithread` and `dealwithwrite` up to the wait), `SpinExit`, `BatchDone`. A
step of a worker ends wherever another thread can see it: `Take`; `ReadOk`,
`ReadFail`, `Write*` (the system call, and the store `improv = 1` that follows);
`Flag` (the store `timer_flag = 1`); `process`, with a step between the request
and its answer; the effects of
`close_conn` (`CloseRemovefd`, `CloseForget`, which also loads the count,
`CloseCount`); `Arm` (the last `modfd`). Between them every interleaving is
explored.

`process` is `ProcessIncomplete`, or `ParseRequest` (`process_read`, redis,
`do_request`) and then `ProcessReply` or `ProcessDrop` (`process_write`). A
worker may be held up in between, by redis above all; if the main thread
then closes the connection and accepts the next client on the same descriptor,
the answer goes into the `http_conn` of that client.

`Outcomes` says what `process` may make of a buffer: `more` (the request is not
complete), `reply`, or `drop`: `process_write` returned false, as it does for
every missing file (`NO_RESOURCE` has no case) and every empty one (the case
falls through to `default`), and `close_conn` follows. The environment is free:
clients connect, send, hang up and read in any order, or do nothing.

A util_timer is named after the client it was made for. `accept` returns *any*
free descriptor, the kernel's lowest among them.

### Runs

`server_all` allows everything: every outcome, both kinds of connection,
workers of any delay (`Prompt = FALSE`), SIGTERM. One descriptor, two clients
and two workers make the descriptor number pass from one client to the next
while a worker or a timer still refers to the first. It checks
- `AtMostOneJob`: with the busy wait there is one job in the whole server whose
  socket is not yet served, it is the one waited for, and no `improv` is left
  over. So `append` never refuses;
- `NoDanglingTimer`: wherever `deal_timer` or `adjust_timer` may be reached,
  `users_timer[fd].timer` is in the list and belongs to `fd`.

`server_nodrop`, two descriptors, no `drop`: `OneTimerPerConnection`,
`UserCountExact`, `TickClosesOnlyInactive`. All three fail with `drop`, see
below; no more than that is assumed.

`server_keepalive`, `reply` and `more` with keep-alive: `Exclusive` (no two
workers have one `http_conn`, and no event for it is armed or pending meanwhile),
`HandsOff` (nor does the main thread close its descriptor, give it away or write
its fields; `improv` and `timer_flag` excepted, over which they talk) and
`NoCrossTalk` (no client gets the bytes of the descriptor's former owner: the
buffers of a live `http_conn` hold none, and a request that a worker has parsed is
one of the client that will get the answer).
`Exclusive` and `HandsOff` need three assumptions, and fail without any one of
them: no `drop`; kept alive, since a closing response re-arms the socket
and only then reports failure, and the late `timer_flag` may meet the
next event; and `Prompt`, since a worker slower than the timer works on for a
client that is gone, on an `http_conn` that somebody else has got. `NoCrossTalk`
is false with `Prompt = FALSE`: in TLC's counterexample the worker has parsed
the request, the timer fires, and the answer is still to be made; its proof
assumes all three. Two messages per client make a connection serve twice.

`server_live`, one worker: `SpinEnds`, `RequestsServed`, `HangupReleases`, with
every outcome and any delay.

`close_conn_count` and `close_conn_timer` show the two findings below on one
descriptor and two clients.

`TIMESLOT`s are the unit of time. `Slots` is 1 or 2 in the runs (3 in the code):
what matters is that a timer may be fresh, half spent or due. `MAX_FD` is the number of
descriptors, so that `AcceptBusy` can fire; `MaxRequests = 1` is the smallest
queue, and `AtMostOneJob` shows that no more is used. `MaxSends` bounds the
messages of a client and each client connects once. Descriptors, clients and
workers are interchangeable, so the safety runs use their symmetry; the
liveness run does not. Deadlock is not checked: all clients may be done, or
`eventLoop` may have returned.

### Fairness

`FairSpec` has weak fairness of the main thread, of each worker, and of the
passing of time: the operating system runs every thread, and the alarm fires. It
assumes nothing of clients. Weak fairness is enough since no thread's step is
disabled again and again by others: a worker waits only for a nonempty queue, the
main thread for an event.

### Findings

`http_conn::close_conn` closes the socket and leaves the timer.
- `close_conn_count`: the timer fires later and `cb_func` takes the same
  connection off `m_user_count` again. The run ends with -1 and no
  connection, against the comment on `close_conn`, "closing one connection takes
  one off the number of clients".
- `close_conn_timer`: the descriptor has been given to the next client. The old
  timer closes that client although it is active; `timer/README.md` says that the
  timer handles inactive connections.

## 4. TimerList and TimerSet

`TimerList` has one action for each branch of `add_timer`, `adjust_timer` and
`del_timer`, and one for each round of the two loops (the walk of the private
`add_timer`, and `tick`). Only the clock runs beside them, as only the main
thread uses the list. `Deadline` is `time(NULL) + 3 * TIMESLOT`; the list is
checked for any delays, so that it may be inserted into at every place. With
the server's single delay and a clock that does not step back, every timer goes to
the end. `adjust_timer` never moves a timer to the front, so the model has
the assumption that it is not asked to (`PutOff`); the server asks for it only if
the clock steps back.

`timer_list`: three timers, delays 1 to 3, clock 0 to 4. Three timers have a
head, an inner one and a tail. It checks `WellLinked` (next and prev are
inverse, and lead to no deleted timer), `Ascending`, `NothingLost` (each timer is
found from the head), and `ImplementsTimerSet`: under
`armed <- live, ticking <- (pc = "tick")` every step is one of TimerSet or a
stutter, so `tick` fires what is due, the earliest first, and nothing else.

`tick` leaves `tail` as it is when it empties the list. `WellLinked` asks for
`tail` only when the list has a timer, and holds: `add_timer` sets it again.

## 5. HttpConn, HttpParse, HttpWrite

`HttpParse` and `HttpWrite` are functions of two records, `c` and `r`, that hold
the fields of an `http_conn` under their names; `HttpConn` has the actions. One
round of a loop is one step: `ReadOnce` (all that the socket has), `NoRequest`,
`ParseOn`, `BadRequest`, `DoRequest` for `process_read`, `Respond` and `GiveUp`
for `process_write` and the close, `SendPart`, `SendLater`, `SendFails`, `SendRest`
for `write`. The client sends (`Ask`), the network delivers any number of
characters (`Deliver`), the client reads (`Drain`) or leaves; `Accept` gives the same
object to the next client.

The main thread has three ways to close the connection. `EventHup`: the client has
left. `Tick`: nothing happened for 3 * TIMESLOT (`Silence` sets `due`: nothing has
come, the send buffer has stayed full, or the socket is not armed) and no event
came before `tick`, in which case `ReadOnce`, `ReadFail` and `EventOut` have
`adjust_timer` and reset `due`. And `DealTimer`, when it sees the `timer_flag` of a
worker that failed (`dead`) or that answered a request which did not ask to be
kept (`ended`). The worker sets that flag after `improv`, so the main thread may
have gone on (`FlagMissed`). A failed socket is then not armed and waits for its
timer (`failed`). After `ended` it is armed, for `write` has called `modfd`, but
`init()` has not run: what the client still sends is parsed in the old state, and
the flag, still set, closes the connection when the next job is done (`missed`).
None of the three calls `unmap`.

A character is a token: CR, LF, NUL, a character of the body, or a whole word.
The parser's indices are real, so a cut after a CR, a CR without LF, an
LF without CR, or a buffer that is full are what they are in the code. The
eleven messages of `Message` are those whose paths differ: a file kept alive or
not, a POST with a body, a missing, empty or unreadable file, a directory, a
request line that is refused, a request longer than the buffer, and two with a
bad line end. `HeaderLength = 3`, `PageLength = 2` and `FileLength = 2` are the
shortest that writev can cut in every way: within the header, between header and
file, within the file.

`http_conn` checks
- `ParsedRight`: the target, the body and keep-alive found by the parser are those
  of the message as a whole, however it came;
- `NoRequestOverlooked`: the server never waits for more of a complete request
  (bad lines excepted: `LINE_BAD` ends the loop like `LINE_OPEN`, and no answer is given);
- `SentIsPrefix`: what has been sent is a prefix of header and file;
- `MappingReleased`: the file that is being answered is mapped, and besides it at most
  one file for each transfer that was cut off, by the client, by `tick` or by a
  missed `timer_flag`: `cb_func` leaks it (the next `unmap` of the object may
  release it or another one). A transfer that ends leaves none;
- `ImplementsService`: HttpService, where answers come in the order of the
  requests, and the server hangs up only on a client that left, did not ask to be
  kept or sent a request it gives up, or that has been silent: it asked for
  nothing, its request is not complete, or it does not read its answer. So the idle
  timer does not run out on a client that only waits for its answer (`FallSilent`
  has the condition at the moment of `Silence`). A missing or empty file and a
  request of the size of the buffer or more are given up; bad lines get no answer
  (`none`), and the timer ends the wait;
- `Served`: a request that has come is answered, or the connection ends; if the
  main thread missed the flag of a socket that failed, by the timer.

Bounds: two requests on a connection and two connections show what `init()`
leaves behind. Pipelining is excluded (`Ask` waits for the answer):
`init()` clears what had come early. writev ends within the header at most once
(`HeaderSplits = 1`): the second time, `write()` takes all bytes sent so far off
a length from which the first part is gone already. With 2, TLC finds
`SentIsPrefix` violated: the file iovec starts before the mapping. With a page
instead of a file, `write()` would loop for ever. The header has some 80 bytes
and the send buffer is empty at that point, so the run takes 1.

`http_body` allows a cut within a body (`BodyCuts`), and finds that
`NoRequestOverlooked` fails: `parse_line` moves `m_checked_idx` over the first part
of the body, and `parse_content` then asks for the whole length behind it. The
client waits until its timer closes the connection. In `http_conn` a body comes in
one piece, after any cut in the lines before it.

Fairness: weak for the server's threads as a whole (one thread has the object
at a time), for `Drain`: a client that stays reads what it is sent; and for the
timer of a socket that is not armed, which no event can put off. Elsewhere the
timer may run out or not. Nothing is assumed of the network or of a client's next
request.

## 6. Accounts, RedisPool, ThreadPool

`RedisPool` has the steps of `GetConnection` and `ReleaseConnection`: the unlocked
`connDeque.size()` (`LoadEnd`, `TestSize`: the two ends are read at different times,
and what is popped in between is taken off), `Wait`, `Pop`, `Release`, `Post`. A
critical section is one step. `WaitInterrupted` is a `sem_wait` that SIGALRM ends:
the handler is installed without SA_RESTART and the result is ignored. After it
`GetConnection` goes on with `front()` and `pop_front()`, even if the deque is
empty (`TakeNothing`). That is undefined; with libstdc++, `front()` reads the slot
where the start points: a connection that left it, which somebody else may hold, or
a null pointer, or garbage; and the start moves past the end (`ahead`), so
that what is given back fills the gap and is not found again. The history variable
`emptied` records that it happened. `redisConnect` may fail at start
(`ConnectFails`).

`ThreadPool` has `append` (push under the mutex, then post), the interrupted
wait, and `Take`. `Accounts` puts both together with redis, a map from names to
passwords whose commands are atomic, and the steps of `do_request`: GET,
lock, SET, unlock. Here the main thread does not wait for a worker between
appends (WebServer models that wait), which only adds behaviours.

`accounts`: two workers, three requests, pools of 1 and 2, two alarms. With
fewer connections than workers somebody waits; with as many, nobody does.
- `OneHolder`: a connection is free or has one holder, until somebody pops the
  empty deque. An interrupted wait alone does no harm: as long as the pop finds
  a connection, the mutex is enough;
- `SemaphoreCounts`, without interruption: whoever passed the wait finds a
  connection, so nobody pops the empty deque;
- `EnoughNeverBlocks`: with as many connections as workers, no wait blocks, so none
  can be interrupted and no empty deque popped. The default is 8 connections, and as many workers as
  the hardware has threads: on a larger machine the guarantee is gone;
- `AnswersTrue`: a name refused is taken, a name registered is there, a
  welcome needs a password that was stored for the name;
- `RegisteredAtMostThreads`: only overlapping registrations can share a name. Both
  hold until the empty deque is popped: then two workers may use one redis context
  at once, and each may read the reply to the other;
- `NoLostWakeup`, `JobOnce` of the queue;
- `NobodyStuck`: never does every thread wait with a request unanswered. Two
  cases are excepted and do occur: a connect that failed at start (the
  semaphore is 0 while the deque is not empty), and a pop of the empty deque,
  after which a connection that is given back may be lost.

A login with an unknown name (`LoginUnknown`) and a null connection
(`NullContext`) end the process. `accounts_register`: two registrations of one
name both succeed, see the findings in `PROJECT.json`. Symmetry of
passwords and workers is used; there is no liveness in these runs.

## 7. Log and BlockQueue

The program never calls `Log::init`; this is the log as it would run with a queue
of 0 (none), 1 or 2 lines. `BlockQueue` is the ring with `m_front` and `m_back`
from -1, `full`, `push`, and `pop` with its wait, spurious wakeups included. In
`Log` a call of `write_log` is four steps: the clock (`Call`), the first critical
section, which counts the line and may change files (`Count`), `full()`
(`TestFull`), and `push` or `fputs`. Two threads, four lines, two days, a new file
every second line: the ring of two wraps around, the queue fills up
between `full()` and `push`, and a late thread goes back to yesterday's file.

`log` checks `QueueIsFifo` (the ring implements `Fifo`), `ConsumerAwake`,
`EachLineInOnePlace` (a line is lost only when push refuses it), `OnlyDirectOvertakes`
(a thread's lines stay in order, but for those that went past a full queue),
`SplitBound` and `EveryLineSettles`,
under weak fairness of each thread inside a call and of the writer.
`SplitBound` says how long a file may grow. Each time it is opened it gets at most
`m_split_lines - 1` lines and those that were on their way (one for each thread, the
queue, the writer's). Around midnight a late thread takes the log back to the old
day and the next one forward again; both set `m_count` to 0 and open, in append
mode, files that may be there already. So a file is opened once, and once more for
each return to an earlier day (`opened`, `total` and `returns` are the history of
this). That a line is in the file of its day does not hold: the writer may write it
after midnight, and a thread that read the clock before midnight goes back to the
old file.

## 8. Proofs

All with TLAPS, from the assumptions that the modules state of their constants:
`ConstAssumption`, `TimerAssumption`, `RedisAssumption`, `AccountsAssumption`,
`LogAssumption`, `HttpAssumption`, `KindsAssumption`. The sets are arbitrary,
finite where their elements are counted (`Conns`, `Workers`, `Jobs`, `Threads`,
and `Timers` in one theorem); bounds such as `MaxLines` are any number.
`AccountsAssumption` has at least one worker, since the constructor of the pool
throws otherwise; `KindsAssumption` says that clients send messages that `Message`
has. A theorem that assumes more says so in its ASSUME.

**WebServerProofs.** The inductive invariant is a conjunction that grows with the
theorems.
- `TypeInv`: `TypeOK`, that a worker which is not idle has an `http_conn` and that
  the busy wait names a descriptor: without that, the functions indexed by
  `request[w]` and `cur` have no known value. => `TypeCorrect`.
- `JobInv`: `AtMostOneJob`, which says where the one job is (in the queue, with
  exactly one worker, or done), and that `improv` is 0 on every other `http_conn`,
  so that the next wait starts from 0. => `PoolSerialised`.
- `TimerInv`: `NoDanglingTimer`, that a timer in the list is that of a client that
  was accepted (so the next one accepted brings a new timer), and that the batch
  holds no second event of the descriptor the main thread waits for, whose timer
  `SpinExit` may free. It holds with `drop` too. => `TimersAlive`.
- `OwnInv` (with no `drop`): `OneTimerPerConnection`, that no worker is inside
  `close_conn`, and that `m_user_count` is the number of timers in the list, which
  a bijection turns into that of the open descriptors (`OwnCount`). =>
  `TimersOwned`, `UsersCounted`.
- `QuietInv`: the client of a timer in the list is connected, and its timer has
  spent as many TIMESLOTs as it has been silent. => `TickSparesActive`, an action
  property.

**ExclusiveProofs.** `http_conn` has no lock. `HoldInv` says what takes its place:
while a descriptor is in the queue or with a worker, there is one such worker
(`OneHand`), it is open, its timer is not due, nothing is armed for it or left in
the batch, and its `timer_flag` is 0 (`HeldAlone`); an event is in the batch only
if EPOLLONESHOT has disarmed its descriptor, and a flag that is set stays with a
disarmed one (`OneShot`); an unsent response is of a connection that is kept alive
(`KeptAlive`). Each way to the `http_conn` is closed by one of these: another
event, the hang-up branch, `tick`, the late flag. The proof starts from the four
invariants above. => `WorkersExclusive` and `MainKeepsOff`, an action property,
both under the three assumptions of section 3. `AnswersOwnRequest` rests on
them: between `ParseRequest` and the answer the descriptor is with a
worker, so that the main thread neither closes it nor gives it away
(`MainHandsOff`), which gives `OwnAnswers`; that the buffers are the owner's (`OwnBuffers`) needs the types only,
since `init` clears them.

**TimerListProofs.** `WellLinked` speaks of neighbours: a list and a separate ring
of timers would satisfy it, and `tick` would miss the ring. `ListInv` adds that a
rank exists which grows along `next` (`Acyclic`) and what the walk knows of `last`
and `tmp` (`WalkOK`). The rank gives `HeadEarliest`: the head has the least
deadline of all timers, which is what the refinement of `tick` needs. =>
`ListTypeCorrect`, `ListWellLinked`, `ListAscending`, `ListImplementsSet`. It also
gives `ListLosesNothing`, if the timers are finitely many: of the timers that
`next` does not lead to from the head, one would have the least rank; it is not
the head, so its `prev` is a timer of a lesser rank, which is reached, and `next`
leads on. (The rank takes the place of an induction over the list.)

**RedisPoolProofs, AccountsProofs.** `RedisPoolProofs` has what each step of the
connection pool preserves; `AccountsProofs` shows that every step of the whole is
such a step or leaves the pool alone. Four invariants, each for every reachable
state:
- `PoolInv`: `OneHolder` needs that only a worker between pop and release holds a
  connection (`HoldInv`), since the pop must bring a new holder. From the pop of
  an empty deque on it says nothing, and `SemaphoreCounts` excludes that pop.
  `EnoughNeverBlocks` is an equation: connections = free + held (`ConnInv`) and
  free = semaphore + workers about to pop or to post (`SemaphoreCounts`), while
  workers at different places are different workers (`PlacesAddUp`). So workers
  that wait are at most the value of the semaphore, a wait that could be
  interrupted does not exist, and the premise of `SemaphoreCounts` lasts
  (`EnoughInv`). => `ConnectionHasOneHolder`, `SemaphoreInStep`,
  `EnoughConnections`.
- `QueueInv`: what is queued or with a worker has been submitted, so that a new
  job is neither (`SubmitInv`). => `JobHasOneWorker`, `NoJobOverslept`.
- `AccountInv`: a stored password is one that was ever set, and a worker about to
  answer a registration has stored the name (`DoInv`). `RegisterInv` counts for
  each name the registrations answered together with the workers that have seen
  the name free: while it is free there are none of the former, and once it is
  there nobody joins the latter. => `AnswersAreTrue`, `RegistrationsBounded`, and
  with the other two `AccountsTypeCorrect`;
- `LockInv` and `UnansweredInv`: who has `m_lock` is at SET or unlock, with a
  connection in hand, and there is one such worker; a request without an answer is
  in the queue or with a worker. So whoever waits for `m_lock` waits for a worker
  that can go on; a wait for a connection with the semaphore at 0 means, by the
  equations of `PoolInv`, a worker that has one; and a job in a queue on which all
  sleep is excluded by `NoLostWakeup`. => `NobodyIsStuck`.

**LogProofs.** `m_front` and `m_back` both start at -1, where the place behind the
items is not `(m_front + m_size) % m_max_size`; `RingInv` is about the next one,
`After(m_back) = (m_front + m_size + 1) % m_max_size`. With it a push appends
(`PushAppends`: less than `m_max_size` places apart are different places) and a
pop takes the first (`PopTakes`: to wrap early or late is the same). `ItemInv`
says that only lines are in the queue, though unused places are not lines. =>
`LogTypeCorrect`, `RingImplementsFifo`; `WriterNeverOversleeps` needs the types
only. For the lines, `LinesInv`: a thread in `write_log` has the newest of its
lines (`CallerInv`); each line is in a caller's hand, the queue, the writer, a
file or dropped, in one place and once (`PlaceInv`); in the queue and the writer a
thread's lines are in order, and a written line that is ahead of one still there
went past the queue (`OrderInv`). => `OvertakersAreDirect`, and with `AsyncInv` (a
push meets a full queue only if two threads log) `LinesInOnePlace`. `SplitBound`
is not inductive: the lines of a file are to be compared with the lines *counted*
since it was opened, `m_count % m_split_lines`. `BoundInv` does, adding to the
file what is on its way (threads past `Count`, queue, writer) and allowing for
what was on its way when the file was opened, at most `WayInv`. That bounds one
opening; `TotalInv` adds up a file's, and `NameInv` counts them: a name is used
again only after a return to its day, which sets the count of lines, and with it the
names still to come, back to the beginning. => `FilesBounded`.

**HttpWriteProofs, HttpConnProofs.** `Sending` says what the fields of a response
mean between two calls of writev: what is sent is a beginning of header and file,
the counters agree with it, and the two iovecs are as set up (`FromStart`), or the
first is cut once and the second untouched (`InHeader`), or the first is empty and
the second begins where the file was cut (`InFile`). A second cut within the
header is outside of all three, and the model has the counterexample, so
`ConnTypeCorrect`, `TransferExact` and `ServesRequests` assume `HeaderSplits <=
1`.
- `ConnInv`: types, and that `m_file_address` is a mapping where a file is being
  answered (`Pending`), of which there are no more than it and the transfers that
  were cut off (`FileInv`). => `ConnTypeCorrect`, `MappingsReleased`; with `WriteInv` (the
  response is empty or `Sending`) `TransferExact`.
- `RequestInv` relates the parser to the message as a whole. While the oldest
  unanswered request is read, buffer and network together hold it from the
  parser's line on (`Holds`, `Arrives`; a line before has its CR and LF
  overwritten by NUL), and the parser is at the beginning of line *i* with the
  fields that lines 0 to *i* - 1 set (`HeadAt`), in the body (`BodyAhead`), or at
  a bad line end for good (`Stuck`). Every message is made of lines of the same
  shape, so that one lemma serves all lines of all messages. While it is answered,
  url, linger, body and return code are what the message says (`BuildInv`). All
  this only while no `timer_flag` was missed: afterwards the parser is in any
  state, and what it makes of the bytes goes nowhere. =>
  `RequestsUnderstood`, for any cuts, those within a body included: such a request
  is not answered, but never misread.
- `LookInv` and `CutInv`: the parser waits only before the end of its line; after a
  missed flag `LateInv` says it in their place. =>
  `CompleteMeansAnswered`, if bodies are not cut (`BodyCuts = FALSE`; `http_body`
  has the counterexample).
- `ServiceInv`: the response set up is the one due (`AnswerInv`), a connection
  ends for a reason the service allows (`DeadInv`), and a missed flag is that of a
  client that did not ask to be kept (`EndInv`). That the idle timer runs out on
  nobody who only waits for an answer (`SilentRightly`) is `CompleteMeansAnswered`
  read the other way: if the server reads on, the request is not complete. With
  the others it maps every step to one of HttpService or a stutter. =>
  `ServesRequests`. Besides `HeaderSplits <= 1` and `BodyCuts = FALSE` (a client whose
  body was cut does fall victim to the timer while it waits for the answer) it assumes `BufferFits`: the message called `long` does not
  fit in the buffer and the others do, which is what their answers in `Reply`
  presuppose.

`Message` is a fixed list: these theorems are for every cut, order and number of
the eleven messages and all lengths of buffer, header, page and file, not for
every text.

Only model-checked: the liveness properties `SpinEnds`, `RequestsServed`,
`HangupReleases`, `Served` and `EveryLineSettles`, as TLAPS has neither fairness
nor ENABLED here; and the runs that expect a violation.

## 9. Abstractions and what is left out

- In WebServer the buffers, the parser and the response are abstracted as said
  above: where a late worker goes on with an `http_conn` that `init()` has cleared,
  the answer is a client's that is not the owner, and not the null `m_url` that
  `do_request` may meet.
- HttpConn has neither pipelined requests nor a worker that outlives the timer. A
  missed `timer_flag` ends the connection after the next job; in the code this may be
  at the `improv` of that job, before its `process`. While a flag is missed a second
  one is not told apart from it.
- Of the deque of redis connections: the blocks it is made of. Two workers that
  share a redis context after a pop of the empty deque are in the model; what they
  then read from it is not, and no property speaks of it.
- mmap succeeds for a file that is not empty, and a mapping is only counted: the
  size that munmap is given is not told apart.
- Redis is assumed not to fail once the server is up; a NULL reply is read through.
- Header texts, http:// prefixes, Host, the pages for `/0` to `/6` (another file
  name) and the lengths of names and passwords.
- Of the log: the texts, `flush`, a file that cannot be opened.
- `tx` lets a connection's send buffer fill up once.
- The kernel's limit on the backlog (5) and the descriptors that the server uses
  itself. EMFILE is when no descriptor of `Fds` is free.
- EPOLLERR and EPOLLHUP are one event with EPOLLRDHUP. A disarmed
  descriptor reports none of them, as EPOLLONESHOT has it.
- The main thread's `++`/`--` of `m_user_count` is one step, since no step of a
  worker depends on its middle but the lost update, which the split of the
  worker's `--` gives.
- Redis in WebServer: a worker may wait for a connection in `process`, which is only
  a delay there.
- When `eventLoop` returns, `main` returns and the process ends with its
  threads; the destructor's race with detached workers is not modelled.

Not modelled: `threadpool11.h` (no file includes it), `CGIredis/test.cpp` (a separate
program), the pages, the options of `configure` but for the values they give; the
functions without a caller (`append_p`, `GetFreeConn`, `clear`, `front`, `back`, the timed
`pop`), and what runs only when the process ends (`DestroyPool`, the destructors).
