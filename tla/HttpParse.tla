----------------------------- MODULE HttpParse -----------------------------
(***************************************************************************)
(* The request parser of an http_conn (http/http_conn.cpp): parse_line and *)
(* the three states of process_read, as functions of the parser's fields   *)
(* c.  The read buffer fills up in any number of reads.                    *)
(*                                                                         *)
(* A character is a token: "CR", "LF", "NUL", "b" for one of the body, and *)
(* a word for everything else of a line.  A cut inside a word has the      *)
(* effect of one after it, for a line is looked at only when its end has   *)
(* been found.  Indices are those of the code, from 0.                     *)
(***************************************************************************)
EXTENDS Integers, Sequences, FiniteSetsExt

(* Words: what the target of a request line is, "junk" for a line that       *)
(* parse_request_line refuses; "keep" and "length" are the headers           *)
(* Connection: keep-alive and Content-length: 2.                             *)
Targets == {"file", "missing", "empty", "forbidden", "dir", "junk"}
Tokens  == Targets \cup {"keep", "length", "other", "CR", "LF", "NUL", "b"}
BodyLength == 2

(* m_read_buf holds the m_read_idx characters received; m_url is the word of *)
(* the request line, m_string the body; line_status is local to process_read.*)
ParserStates ==
  [m_read_buf : Seq(Tokens), m_checked_idx : Nat, m_start_line : Nat,
   m_check_state : {"REQUESTLINE", "HEADER", "CONTENT"},
   m_content_length : {0, BodyLength}, m_linger : BOOLEAN,
   m_url : Targets \cup {"NUL"}, m_string : Seq(Tokens),
   line_status : {"OK", "BAD", "OPEN"}]

ReadIdx(c) == Len(c.m_read_buf)

ParserOK(c) ==
  /\ c \in ParserStates
  /\ c.m_start_line <= c.m_checked_idx /\ c.m_checked_idx <= ReadIdx(c)

(* init(): the whole buffer is cleared, whatever it still holds.  (m_string  *)
(* is not set; it is not used before it is set again.)                       *)
Cleared ==
  [m_read_buf |-> <<>>, m_checked_idx |-> 0, m_start_line |-> 0,
   m_check_state |-> "REQUESTLINE", m_content_length |-> 0,
   m_linger |-> FALSE, m_url |-> "NUL", m_string |-> <<>>,
   line_status |-> "OK"]

(* Faulty variant of InitParse: m_checked_idx stays.                         *)
InitParseKeepsIndex(c) == [Cleared EXCEPT !.m_checked_idx = c.m_checked_idx]

InitParse(c) == Cleared

(* What read_once received is appended, and process_read begins.             *)
Receive(c, data) ==
  [c EXCEPT !.m_read_buf = @ \o data, !.line_status = "OK"]

-----------------------------------------------------------------------------
(* parse_line                                                                *)

Char(c, i) == c.m_read_buf[i + 1]
LineEnds(c) ==
  {i \in c.m_checked_idx..(ReadIdx(c) - 1) : Char(c, i) \in {"CR", "LF"}}

Found(status, checked, nul) == [status |-> status, checked |-> checked, nul |-> nul]

(* The status, the new m_checked_idx, and where NULs are written.  A CR at   *)
(* the end of what was received may be followed by its LF later.             *)
ParseLine(c) ==
  LET i == Min(LineEnds(c)) IN
  CASE LineEnds(c) = {} -> Found("OPEN", ReadIdx(c), {})
    [] LineEnds(c) # {} /\ Char(c, i) = "CR" ->
         IF i + 1 = ReadIdx(c) THEN Found("OPEN", i, {})
         ELSE IF Char(c, i + 1) = "LF" THEN Found("OK", i + 2, {i, i + 1})
         ELSE Found("BAD", i, {})
    [] LineEnds(c) # {} /\ Char(c, i) = "LF" ->
         IF i > 1 /\ Char(c, i - 1) = "CR" THEN Found("OK", i + 1, {i - 1, i})
         ELSE Found("BAD", i, {})

TakeLine(c) ==
  LET line == ParseLine(c) IN
  [c EXCEPT
    !.m_checked_idx = line.checked,
    !.m_read_buf = [k \in DOMAIN @ |-> IF k - 1 \in line.nul THEN "NUL" ELSE @[k]],
    !.line_status = line.status]

-----------------------------------------------------------------------------
(* One round of the loop of process_read.                                    *)

(* In CONTENT the loop does not look for a line, unless the body was found   *)
(* to be incomplete.                                                         *)
Content(c) == c.m_check_state = "CONTENT" /\ c.line_status = "OK"

(* The loop ends with NO_REQUEST.                                            *)
NoLine(c) == ~Content(c) /\ ParseLine(c).status # "OK"

(* A line is there, and it is for this state.                                *)
LineFor(c, state) ==
  ~Content(c) /\ ParseLine(c).status = "OK" /\ c.m_check_state = state

NextLine(c) == [TakeLine(c) EXCEPT !.m_start_line = ParseLine(c).checked]

(* get_line(): the one word of the line, or "NUL" if it is empty.            *)
Text(c) == Char(TakeLine(c), c.m_start_line)

(* parse_request_line                                                        *)
GoodTarget(c) == Text(c) \in Targets \ {"junk"}

RequestLine(c) ==
  [NextLine(c) EXCEPT !.m_url = Text(c), !.m_check_state = "HEADER"]

(* Faulty variant of HeaderLine: another header takes m_linger back.         *)
HeaderLineResets(c) ==
  [NextLine(c) EXCEPT
    !.m_linger = Text(c) = "keep",
    !.m_content_length = IF Text(c) = "length" THEN BodyLength ELSE @]

(* parse_headers, of a line that is not empty                                *)
HeaderLine(c) ==
  [NextLine(c) EXCEPT
    !.m_linger = @ \/ Text(c) = "keep",
    !.m_content_length = IF Text(c) = "length" THEN BodyLength ELSE @]

(* ... and of the empty line: GET_REQUEST, or a body follows.                *)
BodyFollows(c) == [NextLine(c) EXCEPT !.m_check_state = "CONTENT"]

(* Faulty variant of BodyThere: one character too many is asked for.         *)
BodyThereLate(c) == ReadIdx(c) > c.m_content_length + c.m_checked_idx

(* parse_content                                                             *)
BodyThere(c) == ReadIdx(c) >= c.m_content_length + c.m_checked_idx

(* GET_REQUEST: the body begins where the line does.                         *)
Body(c) ==
  [c EXCEPT !.m_start_line = c.m_checked_idx,
            !.m_string = SubSeq(c.m_read_buf, c.m_start_line + 1,
                                c.m_start_line + c.m_content_length)]

(* The body is incomplete.  The round after it calls parse_line, which takes *)
(* what there is of the body for the beginning of a line.                    *)
BodyMissing(c) ==
  [c EXCEPT !.m_start_line = c.m_checked_idx, !.line_status = "OPEN"]
=============================================================================
