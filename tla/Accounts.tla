------------------------------ MODULE Accounts ------------------------------
(***************************************************************************)
(* User accounts: the workers of the thread pool answer requests, each     *)
(* with a redis connection held for the duration of process(); do_request  *)
(* registers a user by GET and then SET, and logs one in by GET            *)
(* (http/http_conn.cpp).  Composes ThreadPool and RedisPool.  The main     *)
(* thread may append a request before the one before it has been read: its *)
(* busy wait, which WebServer models, is left out here.                    *)
(*                                                                         *)
(* Redis executes a command atomically.  It is assumed not to fail once    *)
(* the server is up; then redisCommand returns a reply.                    *)
(***************************************************************************)
EXTENDS RedisPool

CONSTANTS
  Jobs,         (* the requests, numbered in the order they come             *)
  Names, Passwords,
  Kinds,        (* "register" and "login" (POST to /3..., /2...), "page"     *)
  MaxRequests,  (* m_max_requests of the thread pool                         *)
  MaxAlarms     (* bound: the SIGALRMs that meet a worker waiting            *)

Commands == [kind : Kinds, name : Names, password : Passwords]

ASSUME AccountsAssumption ==
  /\ IsFiniteSet(Jobs) /\ Jobs \subseteq Nat
  /\ None \notin Passwords \cup Workers \cup Commands
  /\ Kinds \subseteq {"register", "login", "page"}
  /\ MaxRequests \in Nat \ {0} /\ Workers # {}
  /\ MaxAlarms \in Nat

VARIABLES
  db,           (* redis: the password of each name                          *)
  stored,       (* history: the passwords ever SET for a name                *)
  cmd,          (* what each request asks for                                *)
  page,         (* m_url, the page that answers it                           *)
  doing,        (* where each worker is in do_request                        *)
  m_lock,       (* the holder of the global m_lock                           *)
  down,         (* the process has ended                                     *)
  alarms,       (* SIGALRMs still to come                                    *)
  m_workqueue, m_queuestat, posting, wstep, request

T == INSTANCE ThreadPool

accountVars == <<db, stored, cmd, page, doing, m_lock, down, alarms>>
jobVars == <<m_workqueue, m_queuestat, posting, wstep, request>>
vars == <<accountVars, redisVars, jobVars>>

TypeOK ==
  /\ RedisTypeOK
  /\ T!PoolTypeOK
  /\ db \in [Names -> Passwords \cup {None}]
  /\ stored \in [Names -> SUBSET Passwords]
  /\ cmd \in [Jobs -> Commands \cup {None}]
  /\ page \in [Jobs -> {"none", "log", "registerError", "welcome", "logError",
                        "file"}]
  /\ doing \in [Workers -> {"idle", "command", "lock", "set", "unlock",
                            "done"}]
  /\ m_lock \in Workers \cup {None}
  /\ down \in BOOLEAN
  /\ alarms \in Nat

Init ==
  /\ RedisInit
  /\ T!PoolInit
  /\ db = [n \in Names |-> None]
  /\ stored = [n \in Names |-> {}]
  /\ cmd = [j \in Jobs |-> None]
  /\ page = [j \in Jobs |-> "none"]
  /\ doing = [w \in Workers |-> "idle"]
  /\ m_lock = None
  /\ down = FALSE
  /\ alarms = MaxAlarms

Job(w) == request[w]
Asked(w) == cmd[request[w]]
At(w, s) == doing[w] = s /\ rstep[w] = "hold"
Then(w, s) == doing' = [doing EXCEPT ![w] = s]
Answer(w, p) == page' = [page EXCEPT ![Job(w)] = p]

-----------------------------------------------------------------------------
(* A client sends a request and the main thread appends it.                  *)
Submit(j) ==
  /\ cmd[j] = None /\ \A k \in Jobs : k < j => cmd[k] # None
  /\ \E c \in Commands : cmd' = [cmd EXCEPT ![j] = c]
  /\ T!AppendPush(j)
  /\ UNCHANGED <<db, stored, page, doing, m_lock, down, alarms, redisVars>>

Posted ==
  /\ T!AppendPost
  /\ UNCHANGED <<accountVars, redisVars>>

(* A worker waits for a job and takes it.                                    *)
Fetch(w) ==
  /\ T!QueueWait(w) \/ T!Take(w)
  /\ UNCHANGED <<accountVars, redisVars>>

(* connectionRAII myrediscon(&request->redis, m_connPool)                    *)
Connect(w) ==
  /\ wstep[w] = "run" /\ doing[w] = "idle"
  /\ LoadEnd(w)
  /\ Then(w, "command")
  /\ UNCHANGED <<db, stored, cmd, page, m_lock, down, alarms, jobVars>>

GetConnection(w) ==
  /\ Getting(w)
  /\ UNCHANGED <<accountVars, jobVars>>

(* SIGALRM has no SA_RESTART: it ends the wait of the thread it is given to. *)
Alarm(w) ==
  /\ ~down /\ alarms > 0
  /\ alarms' = alarms - 1
  /\ \/ T!QueueInterrupted(w) /\ UNCHANGED redisVars
     \/ WaitInterrupted(w) /\ UNCHANGED jobVars
  /\ UNCHANGED <<db, stored, cmd, page, doing, m_lock, down>>

-----------------------------------------------------------------------------
(* do_request.                                                               *)

(* A request for a file, which has no use for the connection.                *)
ServePage(w) ==
  /\ At(w, "command") /\ Asked(w).kind = "page"
  /\ Answer(w, "file") /\ Then(w, "done")
  /\ UNCHANGED <<db, stored, cmd, m_lock, down, alarms, redisVars, jobVars>>

(* redisCommand on a null context, or on what is none: the process is        *)
(* killed.                                                                   *)
NullContext(w) ==
  /\ At(w, "command") /\ Asked(w).kind # "page" /\ redis[w] \in {None, 0}
  /\ down' = TRUE
  /\ UNCHANGED <<db, stored, cmd, page, doing, m_lock, alarms, redisVars, jobVars>>

Ready(w, kind) ==
  At(w, "command") /\ Asked(w).kind = kind /\ redis[w] \notin {None, 0}

(* Faulty variants of Taken: the test is left out; it is the wrong way round.*)
TakenNever(n) == FALSE

TakenInverted(n) == db[n] = None

(* reply->str is not null                                                    *)
Taken(n) == db[n] # None

(* GET name, outside m_lock.                                                 *)
RegisterGet(w) ==
  /\ Ready(w, "register")
  /\ IF Taken(Asked(w).name)
     THEN Answer(w, "registerError") /\ Then(w, "done")
     ELSE Then(w, "lock") /\ page' = page
  /\ UNCHANGED <<db, stored, cmd, m_lock, down, alarms, redisVars, jobVars>>

RegisterLock(w) ==
  /\ At(w, "lock") /\ m_lock = None
  /\ m_lock' = w /\ Then(w, "set")
  /\ UNCHANGED <<db, stored, cmd, page, down, alarms, redisVars, jobVars>>

(* SET name password                                                         *)
RegisterSet(w) ==
  LET c == Asked(w) IN
  /\ At(w, "set")
  /\ db' = [db EXCEPT ![c.name] = c.password]
  /\ stored' = [stored EXCEPT ![c.name] = @ \cup {c.password}]
  /\ Then(w, "unlock")
  /\ UNCHANGED <<cmd, page, m_lock, down, alarms, redisVars, jobVars>>

(* Faulty variant of Unlock: m_lock is kept.                                 *)
UnlockForgotten == m_lock' = m_lock

Unlock == m_lock' = None

RegisterUnlock(w) ==
  /\ At(w, "unlock")
  /\ Unlock /\ Answer(w, "log") /\ Then(w, "done")
  /\ UNCHANGED <<db, stored, cmd, down, alarms, redisVars, jobVars>>

(* A name that is not in redis: std::string from a null pointer throws in a  *)
(* thread that catches nothing.                                              *)
LoginUnknown(w) ==
  /\ Ready(w, "login") /\ db[Asked(w).name] = None
  /\ down' = TRUE
  /\ UNCHANGED <<db, stored, cmd, page, doing, m_lock, alarms, redisVars, jobVars>>

LoginGet(w) ==
  LET c == Asked(w) IN
  /\ Ready(w, "login") /\ db[c.name] # None
  /\ Answer(w, IF db[c.name] = c.password THEN "welcome" ELSE "logError")
  /\ Then(w, "done")
  /\ UNCHANGED <<db, stored, cmd, m_lock, down, alarms, redisVars, jobVars>>

-----------------------------------------------------------------------------
(* process() has returned: the guard gives the connection back, and the      *)
(* round of run() ends.                                                      *)
GiveBack(w) ==
  /\ doing[w] = "done"
  /\ Releasing(w)
  /\ UNCHANGED <<accountVars, jobVars>>

Finish(w) ==
  /\ doing[w] = "done" /\ rstep[w] = "out"
  /\ T!Done(w)
  /\ Then(w, "idle")
  /\ UNCHANGED <<db, stored, cmd, page, m_lock, down, alarms, redisVars>>

Worker(w) ==
  ~down /\
    \/ Fetch(w) \/ Connect(w) \/ GetConnection(w)
    \/ ServePage(w) \/ NullContext(w)
    \/ RegisterGet(w) \/ RegisterLock(w) \/ RegisterSet(w) \/ RegisterUnlock(w)
    \/ LoginUnknown(w) \/ LoginGet(w)
    \/ GiveBack(w) \/ Finish(w)

Next == \/ ~down /\ ((\E j \in Jobs : Submit(j)) \/ Posted)
        \/ \E w \in Workers : Worker(w) \/ Alarm(w)

Spec == Init /\ [][Next]_vars

-----------------------------------------------------------------------------
(* What a client is told is true of the accounts, whatever the other workers *)
(* did meanwhile: a name refused is taken, a name registered is there, a     *)
(* user who is let in gave a password that was registered for that name, and *)
(* one who is turned away gave a name that exists.  A name never vanishes.   *)
(* (After a pop of the empty deque two workers may have one context and take *)
(* each other's replies: that is not modelled and nothing is claimed.)       *)
AnswersTrue ==
  ~emptied =>
    /\ \A j \in Jobs :
         page[j] \in {"registerError", "log", "welcome", "logError"}
         => db[cmd[j].name] # None
    /\ \A j \in Jobs :
         page[j] = "welcome" => cmd[j].password \in stored[cmd[j].name]

Registered(n) == {j \in Jobs : page[j] = "log" /\ cmd[j].name = n}

(* Only registrations that overlap can both take a name, each on a thread of *)
(* its own: as many as there are threads, and no more (GET, then SET).       *)
RegisteredAtMostThreads ==
  ~emptied =>
    \A n \in Names : Cardinality(Registered(n)) <= Cardinality(Workers)

(* "Look first whether the name is in the database; if it is not, add it":   *)
(* a password that is stored is never replaced by somebody else's.           *)
NameTakenOnce ==
  [][\A n \in Names : db[n] # None => db'[n] = db[n]]_vars

(* The parts, as they are used here.                                         *)
NoLostWakeup == T!NoLostWakeup
JobOnce      == T!JobOnce

Blocked(w) ==
  \/ wstep[w] = "wait" /\ m_queuestat = 0
  \/ rstep[w] = "wait" /\ reserve = 0
  \/ At(w, "lock") /\ m_lock # None

(* The two semaphores and the two mutexes never leave every thread waiting   *)
(* for another with a request unanswered, interrupted waits included; unless *)
(* init could not connect, or the empty deque was popped: then a connection  *)
(* that is given back may be lost.                                           *)
NobodyStuck ==
  (\A w \in Workers : Blocked(w)) /\ ~posting /\ ~down =>
    \/ \A j \in Jobs : cmd[j] # None => page[j] # "none"
    \/ m_MaxConn = None \/ emptied
=============================================================================
