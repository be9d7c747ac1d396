------------------------------ MODULE HttpConn ------------------------------
(***************************************************************************)
(* One http_conn (http/http_conn.cpp) from the bytes of its client to the  *)
(* bytes of the answers: read_once and process_read (HttpParse),           *)
(* do_request and process_write, write() (HttpWrite), the main thread that *)
(* closes the connection (hang-up, timer_flag, idle timer), and the        *)
(* connections that use the object one after the other.  One thread at a   *)
(* time works on it (WebServer!Exclusive and HandsOff), so that the rounds *)
(* of its loops interleave with the client, the kernel and time only: no   *)
(* job outlives the idle timer, and a timer_flag that the main thread has  *)
(* missed is there when it looks for the next time, after the next job.    *)
(***************************************************************************)
EXTENDS HttpParse, HttpWrite

CONSTANTS
  READ_BUFFER_SIZE,
  Kinds,          (* the requests that clients send, see Message             *)
  MaxAsked,       (* bound: the requests of a connection                     *)
  MaxConnects,    (* bound: the connections                                  *)
  BodyCuts        (* FALSE: a body is not cut by the network                 *)

ASSUME HttpAssumption ==
  /\ READ_BUFFER_SIZE \in Nat \ {0}
  /\ HeaderLength \in Nat \ {0} /\ PageLength \in Nat \ {0}
  /\ FileLength \in Nat \ {0}
  /\ HeaderSplits \in Nat
  /\ MaxAsked \in Nat /\ MaxConnects \in Nat /\ BodyCuts \in BOOLEAN

VARIABLES
  pc,             (* where its thread is; in "epollin" and "epollout" it has *)
                  (* none and is armed, in "failed" it is not armed either   *)
  due,            (* the idle timer has run out                              *)
  missed,         (* a timer_flag that the main thread missed is set         *)
  c,              (* the fields of the parser                                *)
  r,              (* the fields of the response                              *)
  ret,            (* what process_read returned                              *)
  m_file_address, (* "null", "file", or MAP_FAILED: "failed"                 *)
  mappings,       (* files that are mapped                                   *)
  asked, answered,(* history: requests and complete answers                  *)
  abandoned,      (* history: transfers of a file that were never finished   *)
  todo,           (* characters of the client that are under way             *)
  socket,         (* characters that have arrived and are not read           *)
  room,           (* the send buffer of the socket has room                  *)
  hup,            (* the client has left                                     *)
  connects        (* connections so far                                      *)

fileVars == <<m_file_address, mappings>>
history  == <<answered, abandoned>>
timers   == <<due, missed>>
peerVars == <<asked, todo, socket, room, hup, connects>>
vars == <<pc, c, r, ret, fileVars, history, timers, peerVars>>

EOL == <<"CR", "LF">>

(* The messages: lines, an empty line, and a body.                           *)
Message == [
  file      |-> <<"file">> \o EOL \o <<"keep">> \o EOL \o EOL,
  once      |-> <<"file">> \o EOL \o <<"other">> \o EOL \o EOL,
  post      |-> <<"file">> \o EOL \o <<"keep">> \o EOL \o <<"length">> \o EOL
                \o EOL \o <<"b", "b">>,
  missing   |-> <<"missing">> \o EOL \o EOL,
  empty     |-> <<"empty">> \o EOL \o EOL,
  forbidden |-> <<"forbidden">> \o EOL \o <<"keep">> \o EOL \o EOL,
  dir       |-> <<"dir">> \o EOL \o EOL,
  junk      |-> <<"junk">> \o EOL \o <<"keep">> \o EOL \o EOL,
  long      |-> <<"file">> \o EOL \o <<"other">> \o EOL \o <<"other">> \o EOL
                \o <<"other">> \o EOL \o EOL,
  bareLF    |-> <<"file", "LF">> \o EOL,
  bareCR    |-> <<"file", "CR", "other">> \o EOL ]

ASSUME KindsAssumption == Kinds \subseteq DOMAIN Message

(* What each of them is to get.  parse_line reports a bad line, which nobody *)
(* looks at: the server waits for more.                                      *)
BadLines == {"bareLF", "bareCR"}
Reply == [k \in DOMAIN Message |->
  IF k \in BadLines THEN "none"
  ELSE IF k \in {"missing", "empty", "long"} THEN "drop"
  ELSE IF k \in {"forbidden", "dir", "junk"} THEN "page" ELSE "file"]
Keeps == [k \in DOMAIN Message |-> k \in {"file", "post", "forbidden"}]

TypeOK ==
  /\ pc \in {"closed", "epollin", "parse", "build", "epollout", "write",
            "ended", "dead", "failed"}
  /\ due \in BOOLEAN /\ missed \in BOOLEAN
  /\ ParserOK(c) /\ ReadIdx(c) < READ_BUFFER_SIZE
  /\ r \in Responses
  /\ ret \in {"none", "BAD_REQUEST", "NO_RESOURCE", "FORBIDDEN_REQUEST",
              "FILE_REQUEST", "EMPTY_FILE"}
  /\ m_file_address \in {"null", "file", "failed"} /\ mappings \in Nat
  /\ asked \in Seq(DOMAIN Message) /\ answered \in Seq({"file", "page"})
  /\ todo \in Seq(Tokens) /\ socket \in Seq(Tokens)
  /\ room \in BOOLEAN /\ hup \in BOOLEAN
  /\ connects \in 0..MaxConnects /\ abandoned \in Nat

Init ==
  /\ pc = "closed" /\ ret = "none" /\ due = FALSE /\ missed = FALSE
  /\ c = Cleared /\ r = Empty
  /\ m_file_address = "null" /\ mappings = 0
  /\ asked = <<>> /\ answered = <<>> /\ abandoned = 0
  /\ todo = <<>> /\ socket = <<>>
  /\ room = TRUE /\ hup = FALSE /\ connects = 0

Waiting == Len(answered) < Len(asked)
Oldest  == asked[Len(answered) + 1]

-----------------------------------------------------------------------------
(* The client and the network.                                               *)

(* The next request is sent when the one before has its answer.              *)
Ask(k) ==
  /\ pc # "closed" /\ ~hup /\ ~Waiting /\ todo = <<>>
  /\ Len(asked) < MaxAsked
  /\ asked' = Append(asked, k)
  /\ todo' = Message[k]
  /\ UNCHANGED <<pc, c, r, ret, fileVars, history, timers, socket, room, hup,
                 connects>>

InBody(left) == left # <<>> /\ left # <<"b", "b">> /\ left[1] = "b"

Deliver(n) ==
  LET left == SubSeq(todo, n + 1, Len(todo)) IN
  /\ pc # "closed"
  /\ BodyCuts \/ ~InBody(left)
  /\ socket' = socket \o SubSeq(todo, 1, n)
  /\ todo' = left
  /\ UNCHANGED <<pc, c, r, ret, fileVars, history, timers, asked, room, hup,
                 connects>>

(* The client reads: the send buffer has room again.                         *)
Drain ==
  /\ ~room /\ ~hup /\ room' = TRUE
  /\ UNCHANGED <<pc, c, r, ret, fileVars, history, timers, asked, todo, socket,
                 hup, connects>>

Leave ==
  /\ pc # "closed" /\ ~hup /\ hup' = TRUE
  /\ UNCHANGED <<pc, c, r, ret, fileVars, history, timers, asked, todo, socket,
                 room, connects>>

(* accept, and init(sockfd, addr, root) on the same object: m_file_address   *)
(* is not touched.                                                           *)
Accept ==
  /\ pc = "closed" /\ connects < MaxConnects
  /\ connects' = connects + 1
  /\ pc' = "epollin" /\ ret' = "none" /\ due' = FALSE /\ missed' = FALSE
  /\ c' = InitParse(c) /\ r' = InitWrite(r)
  /\ asked' = <<>> /\ answered' = <<>> /\ todo' = <<>> /\ socket' = <<>>
  /\ room' = TRUE /\ hup' = FALSE
  /\ UNCHANGED <<abandoned, fileVars>>

-----------------------------------------------------------------------------
(* The steps of the threads.  `Goto` is one that leaves the response, the    *)
(* file, the timer and the peer alone.                                       *)
Goto(to) == pc' = to /\ UNCHANGED <<r, fileVars, history, timers, peerVars>>

(* The connection ends with an answer half sent, or not sent at all: the     *)
(* file that was mapped for it is left behind.                               *)
Abandon == abandoned' = IF ret = "FILE_REQUEST" THEN abandoned + 1 ELSE abandoned

Close ==
  /\ pc' = "closed"
  /\ IF pc = "epollout" THEN Abandon ELSE abandoned' = abandoned
  /\ UNCHANGED <<c, r, ret, fileVars, answered, timers, peerVars>>

(* The main thread closes the connection: EPOLLRDHUP.                        *)
EventHup == pc \in {"epollin", "epollout"} /\ hup /\ Close

(* 3 * TIMESLOT pass without an event: nothing has come, the send buffer has *)
(* stayed full, or the socket is not armed.                                  *)
Silence ==
  /\ ~due
  /\ \/ pc = "epollin" /\ socket = <<>> /\ ~hup
     \/ pc = "epollout" /\ ~room /\ ~hup
     \/ pc = "failed"
  /\ due' = TRUE
  /\ UNCHANGED <<pc, c, r, ret, fileVars, history, missed, peerVars>>

(* tick calls cb_func on a timer that is due, unless adjust_timer comes      *)
(* before it (dealwithread and dealwithwrite, see ReadOnce and EventOut).    *)
Tick == pc \in {"epollin", "epollout", "failed"} /\ due /\ Close

(* The worker sets timer_flag just after improv, which ends the busy wait.   *)
(* The main thread sees the flag and closes the connection, or it misses it: *)
(* then the socket stays armed after the answer to a request that did not    *)
(* ask to be kept, and unarmed after a failure.                              *)
DealTimer == pc \in {"ended", "dead"} /\ Close

FlagMissed ==
  /\ \/ pc = "ended" /\ pc' = "epollin" /\ missed' = TRUE
     \/ pc = "dead" /\ ~missed /\ pc' = "failed" /\ UNCHANGED missed
  /\ UNCHANGED <<c, r, ret, fileVars, history, due, peerVars>>

-----------------------------------------------------------------------------
(* read_once and process.                                                    *)

(* When the buffer fills up, recv is called once more, with length 0, and    *)
(* its 0 is taken for the end of file.                                       *)
Fits == ReadIdx(c) + Len(socket) < READ_BUFFER_SIZE

ReadOnce ==
  /\ pc = "epollin" /\ socket # <<>> /\ Fits /\ ~hup
  /\ pc' = "parse"
  /\ due' = FALSE
  /\ c' = Receive(c, socket)
  /\ socket' = <<>>
  /\ UNCHANGED <<r, ret, fileVars, history, missed, asked, todo, room, hup,
                 connects>>

(* The buffer is full, or behind the last character is the end of file.      *)
ReadFail ==
  /\ pc = "epollin" /\ (~Fits \/ hup)
  /\ pc' = "dead"
  /\ due' = FALSE
  /\ UNCHANGED <<c, r, ret, fileVars, history, missed, peerVars>>

(* process() ends with modfd; a timer_flag still set ends the connection.    *)
Armed(event) == IF missed THEN "dead" ELSE event

(* NO_REQUEST: modfd for EPOLLIN.                                            *)
NoRequest ==
  /\ pc = "parse" /\ NoLine(c)
  /\ c' = TakeLine(c)
  /\ Goto(Armed("epollin")) /\ UNCHANGED ret

ParseOn ==
  /\ pc = "parse"
  /\ \/ LineFor(c, "REQUESTLINE") /\ GoodTarget(c) /\ c' = RequestLine(c)
     \/ LineFor(c, "HEADER") /\ Text(c) # "NUL" /\ c' = HeaderLine(c)
     \/ /\ LineFor(c, "HEADER") /\ Text(c) = "NUL" /\ c.m_content_length # 0
        /\ c' = BodyFollows(c)
     \/ Content(c) /\ ~BodyThere(c) /\ c' = BodyMissing(c)
  /\ Goto("parse") /\ UNCHANGED ret

BadRequest ==
  /\ pc = "parse" /\ LineFor(c, "REQUESTLINE") /\ ~GoodTarget(c)
  /\ c' = NextLine(c)
  /\ ret' = "BAD_REQUEST"
  /\ Goto("build")

(* What do_request finds by stat.                                            *)
Lookup == [missing |-> "NO_RESOURCE", forbidden |-> "FORBIDDEN_REQUEST",
           dir |-> "BAD_REQUEST", empty |-> "EMPTY_FILE", file |-> "FILE_REQUEST"]

(* GET_REQUEST, and do_request.  The mmap of an empty file fails, which      *)
(* nobody looks at.                                                          *)
DoRequest ==
  /\ pc = "parse"
  /\ \/ /\ LineFor(c, "HEADER") /\ Text(c) = "NUL" /\ c.m_content_length = 0
        /\ c' = NextLine(c)
     \/ Content(c) /\ BodyThere(c) /\ c' = Body(c)
  /\ ret' = Lookup[c.m_url]
  /\ m_file_address' = IF c.m_url = "file" THEN "file"
                       ELSE IF c.m_url = "empty" THEN "failed" ELSE m_file_address
  /\ mappings' = IF c.m_url = "file" THEN mappings + 1 ELSE mappings
  /\ pc' = "build"
  /\ UNCHANGED <<r, history, timers, peerVars>>

(* process_write                                                             *)
Respond ==
  /\ pc = "build"
  /\ \/ ret = "FILE_REQUEST" /\ r' = AnswerFile(r)
     \/ ret \in {"BAD_REQUEST", "FORBIDDEN_REQUEST"} /\ r' = AnswerPage(r)
  /\ pc' = Armed("epollout")
  /\ IF missed THEN Abandon ELSE abandoned' = abandoned
  /\ UNCHANGED <<c, ret, fileVars, answered, timers, peerVars>>

(* It has no case for NO_RESOURCE, and that of an empty file falls through   *)
(* to the default: close_conn.                                               *)
GiveUp ==
  /\ pc = "build" /\ ret \in {"NO_RESOURCE", "EMPTY_FILE"}
  /\ Goto("closed") /\ UNCHANGED <<c, ret>>

-----------------------------------------------------------------------------
(* write()                                                                   *)

EventOut ==
  /\ pc = "epollout" /\ room
  /\ pc' = "write"
  /\ due' = FALSE
  /\ UNCHANGED <<c, r, ret, fileVars, history, missed, peerVars>>

(* writev sends a part; that may have filled the send buffer, or not.        *)
SendPart ==
  /\ pc = "write" /\ room
  /\ \E n \in 1..Len(Gathered(r)) :
       /\ ~Finishes(r, n) /\ (Split(r, n) => r.splits < HeaderSplits)
       /\ r' = Writev(r, n)
  /\ room' \in BOOLEAN
  /\ UNCHANGED <<pc, c, ret, fileVars, history, timers, asked, todo, socket,
                 hup, connects>>

(* Faulty variant of AwaitRoom: the socket is not armed again.               *)
AwaitRoomUnarmed == Goto("off")

AwaitRoom == Goto("epollout")

(* EAGAIN: modfd for EPOLLOUT.                                               *)
SendLater == pc = "write" /\ ~room /\ AwaitRoom /\ UNCHANGED <<c, ret>>

(* Faulty variant of Unmap: it does nothing.                                 *)
UnmapSkipped == UNCHANGED fileVars

(* unmap(): the length is that of the file that was looked up last.          *)
Unmap ==
  /\ m_file_address' = "null"
  /\ mappings' = IF m_file_address = "file" THEN mappings - 1 ELSE mappings

(* writev fails on the socket of a client that has left.                     *)
SendFails ==
  /\ pc = "write" /\ hup
  /\ Unmap
  /\ pc' = "dead"
  /\ UNCHANGED <<c, r, ret, history, timers, peerVars>>

(* The last byte is sent: the client has the whole answer, or something      *)
(* else.  After modfd for EPOLLIN, init(), or, without it, timer_flag: the   *)
(* parser keeps its fields.  (Those of the response are not used again.)     *)
SendRest ==
  /\ pc = "write" /\ room /\ Finishes(r, Len(Gathered(r)))
  /\ answered' = Append(answered,
       IF AfterAll(r) # Response(r) THEN "garbled"
       ELSE IF r.m_iv_count = 2 THEN "file" ELSE "page")
  /\ Unmap
  /\ r' = InitWrite(r)
  /\ IF c.m_linger THEN pc' = "epollin" /\ c' = InitParse(c)
                   ELSE pc' = "ended" /\ UNCHANGED c
  /\ UNCHANGED <<ret, abandoned, timers, peerVars>>

-----------------------------------------------------------------------------
Client ==
  \/ \E k \in Kinds : Ask(k)
  \/ \E n \in 1..Len(todo) : Deliver(n)
  \/ Leave \/ Accept

Server ==
  \/ EventHup \/ Tick \/ DealTimer \/ FlagMissed
  \/ ReadOnce \/ ReadFail
  \/ NoRequest \/ ParseOn \/ BadRequest \/ DoRequest \/ Respond \/ GiveUp
  \/ EventOut \/ SendPart \/ SendLater \/ SendFails \/ SendRest

Next == Client \/ Drain \/ Silence \/ Server

(* The server's threads run, a client that stays reads what it is sent, and  *)
(* the timer of a connection that can have no event more runs out.           *)
Spec == /\ Init /\ [][Next]_vars
        /\ WF_vars(Server) /\ WF_vars(Drain)
        /\ WF_vars(pc = "failed" /\ Silence)

-----------------------------------------------------------------------------
(* However the network cuts a request, what the server makes of it is what   *)
(* the message says as a whole: target, body, and whether to stay.  (What    *)
(* comes after a missed timer_flag is parsed, without init(), for nothing.)  *)
ParsedRight ==
  pc = "build" /\ ret # "BAD_REQUEST" /\ ~missed =>
    /\ Waiting
    /\ c.m_url = Message[Oldest][1]
    /\ c.m_linger = Keeps[Oldest]
    /\ c.m_content_length > 0 => c.m_string = <<"b", "b">>

(* The server does not wait for more of a request that has come completely   *)
(* (process_read, parse_content).  A bad line is another matter: it waits.   *)
NoRequestOverlooked ==
  pc = "epollin" /\ todo = <<>> /\ socket = <<>> /\ Waiting
    => Oldest \in BadLines

(* What the client has of an answer is the beginning of it: no byte is sent  *)
(* twice, left out, or taken from outside the file, however writev cuts it   *)
(* (with at most one cut within the header).                                 *)
SentIsPrefix == r.wire = SubSeq(Response(r), 1, Len(r.wire))

(* A mapping belongs to the file response that is being sent, and is gone    *)
(* after it.  What stays mapped is at most one file for each transfer that   *)
(* was cut off: by the client, by tick, or by a timer_flag that was missed   *)
(* (unmap, and cb_func, which does not call it).                             *)
MappingReleased ==
  LET cur == IF pc \in {"build", "epollout", "write"} /\ ret = "FILE_REQUEST"
             THEN 1 ELSE 0
  IN mappings \in cur..(cur + abandoned)

Service == INSTANCE HttpService
  WITH open <- (pc # "closed"), silent <- due, whole <- (todo = <<>>)

(* The answers come in the order of the requests, one for each, complete and *)
(* unmixed; the server hangs up only when HttpService lets it, and its idle  *)
(* timer runs out on no client that only waits for its answer.               *)
ImplementsService == Service!Spec

(* Every request that has come is answered, or the connection is closed      *)
(* (process, write, and tick when the main thread has missed timer_flag).    *)
Served ==
  (pc # "closed" /\ Waiting /\ todo = <<>> /\ Oldest \notin BadLines)
    ~> (pc = "closed" \/ ~Waiting)
=============================================================================
