---------------------------- MODULE HttpService ----------------------------
(***************************************************************************)
(* What a client is promised on one connection at a time (http_conn): each *)
(* answer is that of the oldest request which has none, no request gets    *)
(* two, and the server hangs up only                                       *)
(*   - on a client that has left, that did not ask to be kept, or whose    *)
(*     request it gives up, or                                             *)
(*   - on one that has been silent for 3 * TIMESLOT: it asked for nothing, *)
(*     its request is not complete or no request at all, or it does not    *)
(*     read its answer.  The server being slow is no reason.               *)
(***************************************************************************)
EXTENDS Sequences, Naturals

CONSTANTS
  Kinds,      (* the requests                                                *)
  Reply,      (* the answer to each kind; "drop" if it is given up, "none"   *)
              (* if the server will wait for more                            *)
  Keeps       (* whether the connection stays after the answer               *)

VARIABLES
  open,       (* the connection is open                                      *)
  hup,        (* the client has left                                         *)
  asked,      (* the requests of this connection                             *)
  answered,   (* the answers it was sent, complete                           *)
  whole,      (* no part of a request is under way                           *)
  room,       (* the client reads what it is sent                            *)
  silent      (* the idle timer has run out                                  *)

vars == <<open, hup, asked, answered, whole, room, silent>>

Waiting == Len(answered) < Len(asked)
Oldest  == asked[Len(answered) + 1]

Init == /\ open = FALSE /\ hup = FALSE
        /\ asked = <<>> /\ answered = <<>>
        /\ whole = TRUE /\ room = TRUE /\ silent = FALSE

Connect == /\ ~open /\ open' = TRUE /\ hup' = FALSE
           /\ asked' = <<>> /\ answered' = <<>>
           /\ whole' = TRUE /\ room' = TRUE /\ silent' = FALSE

Ask(k) == /\ open /\ ~hup
          /\ asked' = Append(asked, k)
          /\ whole' = FALSE
          /\ UNCHANGED <<open, hup, answered, room, silent>>

Arrive == /\ open /\ ~whole /\ whole' = TRUE
          /\ UNCHANGED <<open, hup, asked, answered, room, silent>>

(* The send buffer of the socket fills up, and has room again.               *)
Fill == /\ room /\ room' = FALSE
        /\ UNCHANGED <<open, hup, asked, answered, whole, silent>>

Read == /\ ~room /\ room' = TRUE
        /\ UNCHANGED <<open, hup, asked, answered, whole, silent>>

Leave == /\ open /\ ~hup /\ hup' = TRUE
         /\ UNCHANGED <<open, asked, answered, whole, room, silent>>

Answer == /\ open /\ Waiting /\ Reply[Oldest] \notin {"drop", "none"}
          /\ answered' = Append(answered, Reply[Oldest])
          /\ UNCHANGED <<open, hup, asked, whole, room, silent>>

Excused == \/ hup
           \/ Waiting /\ Reply[Oldest] = "drop"
           \/ answered # <<>> /\ ~Keeps[asked[Len(answered)]]

(* It is not the server that the client waits for.                           *)
Idle == \/ ~Waiting \/ ~whole \/ ~room
        \/ Reply[Oldest] = "none"

FallSilent == /\ open /\ ~silent /\ (Excused \/ Idle)
              /\ silent' = TRUE
              /\ UNCHANGED <<open, hup, asked, answered, whole, room>>

Attend == /\ silent /\ silent' = FALSE
          /\ UNCHANGED <<open, hup, asked, answered, whole, room>>

MayClose == Excused \/ silent

Close == /\ open /\ MayClose /\ open' = FALSE
         /\ UNCHANGED <<hup, asked, answered, whole, room, silent>>

Next == \/ Connect \/ (\E k \in Kinds : Ask(k)) \/ Arrive \/ Leave
        \/ Fill \/ Read \/ Answer
        \/ FallSilent \/ Attend \/ Close

Spec == Init /\ [][Next]_vars
=============================================================================
