--------------------------- MODULE HttpConnProofs ---------------------------
(***************************************************************************)
(* Proofs about HttpConn, for every size of the buffers, every header,     *)
(* page and file, and any number of requests and connections.              *)
(*                                                                         *)
(* ConnInv has the types, and how many files are mapped (FileInv: no more  *)
(* than the one being answered, where Pending says so, and the transfers   *)
(* that were cut off); WriteInv, that the response fields are cleared or   *)
(* those of a response of which wire is the beginning (Sending, see        *)
(* HttpWriteProofs).  RequestInv relates the server to the oldest request  *)
(* without an answer: while it is read, the buffer and the network hold    *)
(* the message from the parser's line on (StreamInv), and the parser's     *)
(* fields are what the lines before it say (Understands); while it is      *)
(* answered, they are what the whole message says (BuildInv).  LookInv and *)
(* CutInv say where the parser may stop and wait.  These speak of          *)
(* connections without a missed timer_flag; after one, what is parsed is   *)
(* ignored, and LateInv says that the first look at it ends the connection *)
(* (while the socket is armed, something of the request is not read yet).  *)
(*                                                                         *)
(* ServiceInv: which response is set up (AnswerInv), why a connection ends *)
(* (DeadInv), and that a missed flag is that of a client which did not ask *)
(* to be kept (EndInv).  The idle timer runs out on nobody who only waits  *)
(* for an answer, as the server does not wait for more of a complete       *)
(* request (SilentRightly, from CompleteMeansAnswered).                    *)
(*                                                                         *)
(* HeaderSplits <= 1, where it is assumed: writev ends at most once within *)
(* m_write_buf.  BodyCuts = FALSE: the network does not cut a body.        *)
(* Without the one and without the other the model has counterexamples.    *)
(***************************************************************************)
EXTENDS HttpConn, HttpWriteProofs, WellFoundedInduction

-----------------------------------------------------------------------------
(* parse_line                                                                *)

(* The strict order of the natural numbers, as a set of pairs.               *)
Less == {p \in Nat \X Nat : p[1] < p[2]}

(* A nonempty set of natural numbers has a least element, which Min is.      *)
LEMMA LeastEnd ==
  ASSUME NEW T, T \subseteq Nat, T # {}
  PROVE  Min(T) \in T /\ \A k \in T : Min(T) <= k
  <1>1. IsWellFoundedOn(Less, Nat)
    BY NatLessThanWellFounded DEF OpToRel, Less
  <1>2. PICK m \in T : \A k \in T : ~ (<<k, m>> \in Less)
    BY <1>1, WFMin
  <1>3. ASSUME NEW k \in T PROVE m <= k
    <2>1. ~ (<<k, m>> \in Less) /\ k \in Nat /\ m \in Nat
      BY <1>2
    <2>2. ~ (k < m)
      BY <2>1 DEF Less
    <2>3. QED
      BY <2>1, <2>2
  <1>4. QED
    BY <1>3 DEF Min

(* The end of line that parse_line stops at is the first behind what it has  *)
(* looked at.                                                                *)
LEMMA FirstEnd ==
  ASSUME NEW x, ParserOK(x), LineEnds(x) # {},
         NEW i, i = Min(LineEnds(x))
  PROVE  /\ i \in x.m_checked_idx..(ReadIdx(x) - 1)
         /\ Char(x, i) \in {"CR", "LF"}
         /\ \A j \in LineEnds(x) : i <= j
  <1>1. x.m_checked_idx \in Nat /\ LineEnds(x) \subseteq Nat
    BY DEF ParserOK, ParserStates, LineEnds
  <1>2. i \in LineEnds(x) /\ \A j \in LineEnds(x) : i <= j
    BY <1>1, LeastEnd
  <1>3. QED
    BY <1>2 DEF LineEnds

(* parse_line looks ahead, never back and never behind what was received.    *)
LEMMA LookedAt ==
  ASSUME NEW x, ParserOK(x)
  PROVE  /\ ParseLine(x).checked \in Nat
         /\ x.m_checked_idx <= ParseLine(x).checked
         /\ ParseLine(x).checked <= ReadIdx(x)
         /\ ParseLine(x).status \in {"OK", "BAD", "OPEN"}
  <1> DEFINE i == Min(LineEnds(x))
             a == x.m_checked_idx
             n == ReadIdx(x)
  <1>1. a \in Nat /\ n \in Nat /\ a <= n
    BY LenProperties DEF ParserOK, ParserStates, ReadIdx
  <1>2. CASE LineEnds(x) = {}
    <2>1. ParseLine(x) = Found("OPEN", n, {})
      BY <1>2 DEF ParseLine
    <2>2. QED
      BY <1>1, <2>1 DEF Found
  <1>3. CASE LineEnds(x) # {}
    <2>1. i \in a..(n - 1) /\ Char(x, i) \in {"CR", "LF"}
      BY <1>3, FirstEnd
    <2> HIDE DEF i
    <2>2. CASE Char(x, i) = "CR"
      <3>1. ParseLine(x) = IF i + 1 = n THEN Found("OPEN", i, {})
                           ELSE IF Char(x, i + 1) = "LF"
                                THEN Found("OK", i + 2, {i, i + 1})
                                ELSE Found("BAD", i, {})
        BY <1>3, <2>2 DEF ParseLine, i
      <3>2. /\ i + 1 # n => i + 2 <= n
            /\ i \in Nat /\ a <= i /\ i <= n /\ i + 2 \in Nat /\ a <= i + 2
        BY <1>1, <2>1
      <3>3. QED
        BY <3>1, <3>2 DEF Found
    <2>3. CASE Char(x, i) = "LF"
      <3>1. ParseLine(x) = IF i > 1 /\ Char(x, i - 1) = "CR"
                           THEN Found("OK", i + 1, {i - 1, i})
                           ELSE Found("BAD", i, {})
        BY <1>3, <2>3 DEF ParseLine, i
      <3>2. /\ i \in Nat /\ a <= i /\ i <= n
            /\ i + 1 \in Nat /\ a <= i + 1 /\ i + 1 <= n
        BY <1>1, <2>1
      <3>3. QED
        BY <3>1, <3>2 DEF Found
    <2>4. QED
      BY <2>1, <2>2, <2>3
  <1>4. QED
    BY <1>2, <1>3

(* What parse_line leaves of the parser's fields.                            *)
LEMMA LineTaken ==
  ASSUME NEW x, ParserOK(x)
  PROVE  /\ TakeLine(x) \in ParserStates
         /\ ReadIdx(TakeLine(x)) = ReadIdx(x)
         /\ TakeLine(x).m_checked_idx = ParseLine(x).checked
         /\ TakeLine(x).m_start_line = x.m_start_line
         /\ TakeLine(x).m_check_state = x.m_check_state
         /\ TakeLine(x).m_content_length = x.m_content_length
         /\ TakeLine(x).m_linger = x.m_linger
         /\ TakeLine(x).m_url = x.m_url
         /\ TakeLine(x).m_string = x.m_string
         /\ TakeLine(x).line_status = ParseLine(x).status
         /\ \A k \in 1..ReadIdx(x) : TakeLine(x).m_read_buf[k] =
              IF k - 1 \in ParseLine(x).nul THEN "NUL" ELSE x.m_read_buf[k]
  <1> DEFINE b == [k \in DOMAIN x.m_read_buf |->
                    IF k - 1 \in ParseLine(x).nul THEN "NUL"
                    ELSE x.m_read_buf[k]]
             n == ReadIdx(x)
             l == ParseLine(x)
             checked == l.checked
             status == l.status
  <1>1. x \in ParserStates /\ x.m_read_buf \in Seq(Tokens)
    BY DEF ParserOK, ParserStates
  <1>2. n \in Nat /\ DOMAIN x.m_read_buf = 1..n
        /\ \A k \in 1..n : x.m_read_buf[k] \in Tokens
    BY <1>1, LenProperties, ElementOfSeq DEF ReadIdx
  <1>3. b = [k \in 1..n |->
              IF k - 1 \in ParseLine(x).nul THEN "NUL"
                    ELSE x.m_read_buf[k]]
    BY <1>2
  <1>4. \A k \in 1..n :
          (IF k - 1 \in ParseLine(x).nul THEN "NUL" ELSE x.m_read_buf[k])
            \in Tokens
    BY <1>2 DEF Tokens
  <1> HIDE DEF n
  <1>5. b \in Seq(Tokens) /\ Len(b) = n
    BY <1>2, <1>3, <1>4, IsASeq
  <1>6. TakeLine(x) = [x EXCEPT !.m_checked_idx = checked, !.m_read_buf = b,
                                !.line_status = status]
    BY DEF TakeLine
  <1>7. checked \in Nat /\ status \in {"OK", "BAD", "OPEN"}
    BY LookedAt
  <1>8. \A k \in 1..n : b[k] =
          IF k - 1 \in ParseLine(x).nul THEN "NUL" ELSE x.m_read_buf[k]
    BY <1>3
  <1> HIDE DEF b, checked, status
  <1>9. TakeLine(x) \in ParserStates
    BY <1>1, <1>5, <1>6, <1>7 DEF ParserStates
  <1>10. /\ TakeLine(x).m_read_buf = b
         /\ TakeLine(x).m_checked_idx = checked
         /\ TakeLine(x).m_start_line = x.m_start_line
         /\ TakeLine(x).m_check_state = x.m_check_state
         /\ TakeLine(x).m_content_length = x.m_content_length
         /\ TakeLine(x).m_linger = x.m_linger
         /\ TakeLine(x).m_url = x.m_url
         /\ TakeLine(x).m_string = x.m_string
         /\ TakeLine(x).line_status = status
    BY <1>1, <1>6 DEF ParserStates
  <1>11. QED
    BY <1>5, <1>8, <1>9, <1>10 DEF ReadIdx, n, checked, status

(* What is left behind a line.                                               *)
LEMMA LineLeft ==
  ASSUME NEW x, ParserOK(x)
  PROVE  /\ NextLine(x) \in ParserStates
         /\ ReadIdx(NextLine(x)) = ReadIdx(x)
         /\ NextLine(x).m_read_buf = TakeLine(x).m_read_buf
         /\ NextLine(x).m_checked_idx = ParseLine(x).checked
         /\ NextLine(x).m_start_line = ParseLine(x).checked
         /\ NextLine(x).m_check_state = x.m_check_state
         /\ NextLine(x).m_content_length = x.m_content_length
         /\ NextLine(x).m_linger = x.m_linger
         /\ NextLine(x).m_url = x.m_url
         /\ NextLine(x).m_string = x.m_string
         /\ NextLine(x).line_status = ParseLine(x).status
  <1> DEFINE t == TakeLine(x)
             checked == ParseLine(x).checked
  <1>1. /\ t \in ParserStates /\ ReadIdx(t) = ReadIdx(x) /\ checked \in Nat
        /\ t.m_checked_idx = checked /\ t.line_status = ParseLine(x).status
        /\ t.m_check_state = x.m_check_state
        /\ t.m_content_length = x.m_content_length
        /\ t.m_linger = x.m_linger /\ t.m_url = x.m_url
        /\ t.m_string = x.m_string
    BY LineTaken, LookedAt
  <1>2. NextLine(x) = [t EXCEPT !.m_start_line = checked]
    BY DEF NextLine
  <1> HIDE DEF t, checked
  <1>3. NextLine(x) \in ParserStates
    BY <1>1, <1>2 DEF ParserStates
  <1>4. /\ NextLine(x).m_read_buf = t.m_read_buf
        /\ NextLine(x).m_checked_idx = t.m_checked_idx
        /\ NextLine(x).m_start_line = checked
        /\ NextLine(x).m_check_state = t.m_check_state
        /\ NextLine(x).m_content_length = t.m_content_length
        /\ NextLine(x).m_linger = t.m_linger
        /\ NextLine(x).m_url = t.m_url
        /\ NextLine(x).m_string = t.m_string
        /\ NextLine(x).line_status = t.line_status
    BY <1>1, <1>2 DEF ParserStates
  <1>5. QED
    BY <1>1, <1>3, <1>4 DEF ReadIdx, t, checked

(* The parser's fields: their types, and the target once there is one.       *)
ParserInv(x) ==
  /\ ParserOK(x)
  /\ x.m_check_state # "REQUESTLINE" => x.m_url \in Targets \ {"junk"}

(* The steps of the parser keep this, and the number of characters.          *)
LEMMA NoLineKeeps ==
  ASSUME NEW x, ParserInv(x)
  PROVE  /\ ParserInv(TakeLine(x)) /\ ReadIdx(TakeLine(x)) = ReadIdx(x)
         /\ ParserInv(NextLine(x)) /\ ReadIdx(NextLine(x)) = ReadIdx(x)
  <1>1. x \in ParserStates /\ x.m_start_line \in Nat /\ x.m_checked_idx \in Nat
        /\ x.m_start_line <= x.m_checked_idx
    BY DEF ParserInv, ParserOK, ParserStates
  <1>2. /\ ParseLine(x).checked \in Nat
        /\ x.m_checked_idx <= ParseLine(x).checked
        /\ ParseLine(x).checked <= ReadIdx(x)
    BY LookedAt DEF ParserInv
  <1>3. ParserOK(x)
    BY DEF ParserInv
  <1>4. ParserInv(TakeLine(x)) /\ ReadIdx(TakeLine(x)) = ReadIdx(x)
    BY <1>1, <1>2, <1>3, LineTaken DEF ParserInv, ParserOK
  <1>5. ParserInv(NextLine(x)) /\ ReadIdx(NextLine(x)) = ReadIdx(x)
    BY <1>2, <1>3, LineLeft DEF ParserInv, ParserOK
  <1>6. QED
    BY <1>4, <1>5

(* A request line gives the target, a header does not touch it.              *)
LEMMA LineKeeps ==
  ASSUME NEW x, ParserInv(x)
  PROVE  /\ GoodTarget(x) => /\ ParserInv(RequestLine(x))
                             /\ ReadIdx(RequestLine(x)) = ReadIdx(x)
         /\ ParserInv(HeaderLine(x)) /\ ReadIdx(HeaderLine(x)) = ReadIdx(x)
         /\ x.m_check_state = "HEADER" =>
              ParserInv(BodyFollows(x)) /\ ReadIdx(BodyFollows(x)) = ReadIdx(x)
  <1> DEFINE y == NextLine(x)
             word == Text(x)
             length == IF Text(x) = "length" THEN BodyLength
                       ELSE y.m_content_length
             keep == y.m_linger \/ Text(x) = "keep"
  <1>1. ParserInv(y) /\ ReadIdx(y) = ReadIdx(x) /\ y \in ParserStates
    BY NoLineKeeps DEF ParserInv, ParserOK
  <1>2. /\ y.m_check_state = x.m_check_state /\ y.m_url = x.m_url
    BY LineLeft DEF ParserInv
  <1>3. /\ RequestLine(x) =
             [y EXCEPT !.m_url = word, !.m_check_state = "HEADER"]
        /\ HeaderLine(x) = [y EXCEPT !.m_linger = keep,
                                     !.m_content_length = length]
        /\ BodyFollows(x) = [y EXCEPT !.m_check_state = "CONTENT"]
    BY DEF RequestLine, HeaderLine, BodyFollows
  <1>4. /\ length \in {0, BodyLength} /\ keep \in BOOLEAN
        /\ GoodTarget(x) <=> word \in Targets \ {"junk"}
    BY <1>1 DEF ParserStates, GoodTarget
  <1> HIDE DEF y, word, length, keep
  <1>5. ASSUME GoodTarget(x)
        PROVE  ParserInv(RequestLine(x)) /\ ReadIdx(RequestLine(x)) = ReadIdx(x)
    <2> DEFINE z == RequestLine(x)
    <2>1. z \in ParserStates
      BY <1>1, <1>3, <1>4, <1>5 DEF ParserStates
    <2>2. /\ z.m_read_buf = y.m_read_buf /\ z.m_start_line = y.m_start_line
          /\ z.m_checked_idx = y.m_checked_idx /\ z.m_url = word
      BY <1>1, <1>3 DEF ParserStates
    <2> HIDE DEF z
    <2>3. QED
      BY <1>1, <1>4, <1>5, <2>1, <2>2 DEF ParserInv, ParserOK, ReadIdx, z
  <1>6. ParserInv(HeaderLine(x)) /\ ReadIdx(HeaderLine(x)) = ReadIdx(x)
    <2> DEFINE z == HeaderLine(x)
    <2>1. z \in ParserStates
      BY <1>1, <1>3, <1>4 DEF ParserStates
    <2>2. /\ z.m_read_buf = y.m_read_buf /\ z.m_start_line = y.m_start_line
          /\ z.m_checked_idx = y.m_checked_idx /\ z.m_url = y.m_url
          /\ z.m_check_state = y.m_check_state
      BY <1>1, <1>3 DEF ParserStates
    <2> HIDE DEF z
    <2>3. QED
      BY <1>1, <2>1, <2>2 DEF ParserInv, ParserOK, ReadIdx, z
  <1>7. ASSUME x.m_check_state = "HEADER"
        PROVE  ParserInv(BodyFollows(x)) /\ ReadIdx(BodyFollows(x)) = ReadIdx(x)
    <2> DEFINE z == BodyFollows(x)
    <2>1. z \in ParserStates
      BY <1>1, <1>3 DEF ParserStates
    <2>2. /\ z.m_read_buf = y.m_read_buf /\ z.m_start_line = y.m_start_line
          /\ z.m_checked_idx = y.m_checked_idx /\ z.m_url = y.m_url
      BY <1>1, <1>3 DEF ParserStates
    <2> HIDE DEF z
    <2>3. y.m_url \in Targets \ {"junk"}
      BY <1>2, <1>7 DEF ParserInv
    <2>4. QED
      BY <1>1, <2>1, <2>2, <2>3 DEF ParserInv, ParserOK, ReadIdx, z
  <1>8. QED
    BY <1>5, <1>6, <1>7

(* parse_content takes characters that are there.                            *)
LEMMA BodyKeeps ==
  ASSUME NEW x, ParserInv(x)
  PROVE  /\ BodyThere(x) => ParserInv(Body(x)) /\ ReadIdx(Body(x)) = ReadIdx(x)
         /\ ParserInv(BodyMissing(x)) /\ ReadIdx(BodyMissing(x)) = ReadIdx(x)
  <1> DEFINE a == x.m_start_line + 1
             b == x.m_start_line + x.m_content_length
             text == SubSeq(x.m_read_buf, a, b)
             checked == x.m_checked_idx
             zero == 0
  <1>1. /\ x \in ParserStates /\ x.m_start_line \in Nat /\ checked \in Nat
        /\ x.m_content_length \in {0, BodyLength}
        /\ x.m_start_line <= checked /\ checked <= ReadIdx(x)
        /\ x.m_read_buf \in Seq(Tokens) /\ ReadIdx(x) \in Nat
    BY LenProperties DEF ParserInv, ParserOK, ParserStates, ReadIdx
  <1>2. ASSUME BodyThere(x)
        PROVE  text \in Seq(Tokens)
    <2>1. a \in 1..(Len(x.m_read_buf) + 1) /\ b \in (a - 1)..Len(x.m_read_buf)
      BY <1>1, <1>2 DEF BodyThere, ReadIdx, BodyLength
    <2> HIDE DEF a, b
    <2>2. QED
      BY <1>1, <2>1, SubSeqProperties
  <1>3. /\ Body(x) = [x EXCEPT !.m_start_line = checked, !.m_string = text]
        /\ BodyMissing(x) = [x EXCEPT !.m_start_line = checked,
                                      !.line_status = "OPEN"]
    BY DEF Body, BodyMissing
  <1> HIDE DEF text, checked
  <1>4. ASSUME BodyThere(x)
        PROVE  ParserInv(Body(x)) /\ ReadIdx(Body(x)) = ReadIdx(x)
    <2> DEFINE z == Body(x)
    <2>1. z \in ParserStates
      BY <1>1, <1>2, <1>3, <1>4 DEF ParserStates
    <2>2. /\ z.m_read_buf = x.m_read_buf /\ z.m_start_line = checked
          /\ z.m_checked_idx = checked /\ z.m_url = x.m_url
          /\ z.m_check_state = x.m_check_state
      BY <1>1, <1>3 DEF ParserStates, checked
    <2> HIDE DEF z
    <2>3. checked <= checked
      BY <1>1
    <2>4. QED
      BY <1>1, <2>1, <2>2, <2>3 DEF ParserInv, ParserOK, ReadIdx, z
  <1>5. ParserInv(BodyMissing(x)) /\ ReadIdx(BodyMissing(x)) = ReadIdx(x)
    <2> DEFINE z == BodyMissing(x)
    <2>1. z \in ParserStates
      BY <1>1, <1>3 DEF ParserStates
    <2>2. /\ z.m_read_buf = x.m_read_buf /\ z.m_start_line = checked
          /\ z.m_checked_idx = checked /\ z.m_url = x.m_url
          /\ z.m_check_state = x.m_check_state
      BY <1>1, <1>3 DEF ParserStates, checked
    <2> HIDE DEF z
    <2>3. checked <= checked
      BY <1>1
    <2>4. QED
      BY <1>1, <2>1, <2>2, <2>3 DEF ParserInv, ParserOK, ReadIdx, z
  <1>6. QED
    BY <1>4, <1>5

(* read_once appends, init() clears.                                         *)
LEMMA ReadKeeps ==
  /\ \A x, data : ParserInv(x) /\ data \in Seq(Tokens) =>
       /\ ParserInv(Receive(x, data))
       /\ Receive(x, data).m_read_buf = x.m_read_buf \o data
       /\ ReadIdx(Receive(x, data)) = ReadIdx(x) + Len(data)
  /\ ParserInv(Cleared) /\ ReadIdx(Cleared) = 0
  <1>1. ASSUME NEW x, ParserInv(x), NEW data \in Seq(Tokens)
        PROVE  /\ ParserInv(Receive(x, data))
               /\ Receive(x, data).m_read_buf = x.m_read_buf \o data
               /\ ReadIdx(Receive(x, data)) = ReadIdx(x) + Len(data)
    <2> DEFINE z == Receive(x, data)
               b == x.m_read_buf \o data
    <2>1. /\ x \in ParserStates /\ x.m_start_line \in Nat
          /\ x.m_checked_idx \in Nat /\ x.m_read_buf \in Seq(Tokens)
          /\ x.m_start_line <= x.m_checked_idx /\ x.m_checked_idx <= ReadIdx(x)
          /\ ReadIdx(x) \in Nat /\ Len(data) \in Nat
      BY <1>1, LenProperties DEF ParserInv, ParserOK, ParserStates, ReadIdx
    <2>2. b \in Seq(Tokens) /\ Len(b) = ReadIdx(x) + Len(data)
      BY <2>1, ConcatProperties DEF ReadIdx
    <2>3. z = [x EXCEPT !.m_read_buf = b, !.line_status = "OK"]
      BY DEF Receive
    <2> HIDE DEF z, b
    <2>4. z \in ParserStates
      BY <2>1, <2>2, <2>3 DEF ParserStates
    <2>5. /\ z.m_read_buf = b /\ z.m_start_line = x.m_start_line
          /\ z.m_checked_idx = x.m_checked_idx /\ z.m_url = x.m_url
          /\ z.m_check_state = x.m_check_state
      BY <2>1, <2>3 DEF ParserStates
    <2>6. x.m_checked_idx <= ReadIdx(x) + Len(data)
      BY <2>1
    <2>7. ParserInv(z) /\ ReadIdx(z) = ReadIdx(x) + Len(data)
      BY <1>1, <2>1, <2>2, <2>4, <2>5, <2>6 DEF ParserInv, ParserOK, ReadIdx
    <2>8. QED
      BY <2>5, <2>7 DEF z, b
  <1>2. ParserInv(Cleared) /\ ReadIdx(Cleared) = 0
    <2>1. <<>> \in Seq(Tokens) /\ Len(<<>>) = 0
      BY EmptySeq
    <2>2. Cleared \in ParserStates
      BY <2>1 DEF Cleared, ParserStates
    <2>3. QED
      BY <2>1, <2>2 DEF ParserInv, ParserOK, ReadIdx, Cleared
  <1>3. QED
    BY <1>1, <1>2

-----------------------------------------------------------------------------
(* The invariant that needs nothing of what the messages say.                *)

Names == {"file", "once", "post", "missing", "empty", "forbidden", "dir",
          "junk", "long", "bareLF", "bareCR"}

(* The messages are sequences of tokens.                                     *)
LEMMA MessageTokens ==
  /\ DOMAIN Message = Names
  /\ \A k \in Names : Message[k] \in Seq(Tokens)
  <1>1. DOMAIN Message = Names
    BY DEF Message, Names
  <1>2. Message["file"] \in Seq(Tokens) /\ Message["once"] \in Seq(Tokens)
    BY DEF Message, EOL, Tokens, Targets
  <1>3. Message["post"] \in Seq(Tokens)
    BY DEF Message, EOL, Tokens, Targets
  <1>4. /\ Message["missing"] \in Seq(Tokens)
        /\ Message["empty"] \in Seq(Tokens)
        /\ Message["dir"] \in Seq(Tokens)
    BY DEF Message, EOL, Tokens, Targets
  <1>5. /\ Message["forbidden"] \in Seq(Tokens)
        /\ Message["junk"] \in Seq(Tokens)
    BY DEF Message, EOL, Tokens, Targets
  <1>6. Message["long"] \in Seq(Tokens)
    BY DEF Message, EOL, Tokens, Targets
  <1>7. /\ Message["bareLF"] \in Seq(Tokens)
        /\ Message["bareCR"] \in Seq(Tokens)
    BY DEF Message, EOL, Tokens, Targets
  <1>8. QED
    BY <1>1, <1>2, <1>3, <1>4, <1>5, <1>6, <1>7 DEF Names

(* None of them is empty.                                                    *)
LEMMA MessageStarts ==
  ASSUME NEW k \in Names
  PROVE  Message[k] # <<>>
  <1>1. CASE k \in {"file", "once", "post", "missing", "empty", "forbidden"}
    BY <1>1 DEF Message, EOL
  <1>2. CASE k \in {"dir", "junk", "long", "bareLF", "bareCR"}
    BY <1>2 DEF Message, EOL
  <1>3. QED
    BY <1>1, <1>2 DEF Names

ControlInv ==
  /\ pc \in {"closed", "epollin", "parse", "build", "epollout", "write",
            "ended", "dead", "failed"}
  /\ due \in BOOLEAN /\ missed \in BOOLEAN
  /\ missed => pc \notin {"epollout", "write", "ended", "failed"}
  /\ ret \in {"none", "BAD_REQUEST", "NO_RESOURCE", "FORBIDDEN_REQUEST",
              "FILE_REQUEST", "EMPTY_FILE"}
  /\ room \in BOOLEAN /\ hup \in BOOLEAN
  /\ connects \in 0..MaxConnects /\ abandoned \in Nat

PeerInv ==
  /\ asked \in Seq(DOMAIN Message)
  /\ answered \in Seq({"file", "page", "garbled"})
  /\ todo \in Seq(Tokens) /\ socket \in Seq(Tokens)

ReadInv == ParserInv(c) /\ ReadIdx(c) < READ_BUFFER_SIZE

(* The response fields are those of a response while there is one to send,   *)
(* and cleared while there is none.                                          *)
WriteInv ==
  /\ r = Empty \/ Sending(r)
  /\ pc \in {"epollin", "parse", "build", "ended"} => r = Empty
  /\ pc \in {"epollout", "write"} => Sending(r)
  /\ answered \in Seq({"file", "page"})

(* Who has a mapping: the answer that is under way, and the transfers that   *)
(* were cut off; m_file_address is never taken for one that is gone.         *)
Pending == pc \in {"build", "epollout", "write"} /\ ret = "FILE_REQUEST"

FileInv ==
  /\ m_file_address \in {"null", "file", "failed"} /\ mappings \in Nat
  /\ m_file_address = "file" => mappings >= 1
  /\ Pending => m_file_address = "file"
  /\ mappings <= abandoned + (IF Pending THEN 1 ELSE 0)

ConnInv == ControlInv /\ PeerInv /\ ReadInv /\ FileInv

(* What the assumptions say.                                                 *)
LEMMA Sizes ==
  /\ LengthAssumption
  /\ READ_BUFFER_SIZE \in Nat \ {0} /\ MaxConnects \in Nat
  /\ MaxAsked \in Nat /\ BodyCuts \in BOOLEAN
  /\ Kinds \subseteq DOMAIN Message
  BY HttpAssumption, KindsAssumption DEF LengthAssumption

(* What do_request finds.                                                    *)
LEMMA LookupFinds ==
  \A u \in Targets \ {"junk"} :
    /\ Lookup[u] \in {"BAD_REQUEST", "NO_RESOURCE", "FORBIDDEN_REQUEST",
                      "FILE_REQUEST", "EMPTY_FILE"}
    /\ Lookup[u] = "FILE_REQUEST" <=> u = "file"
  BY DEF Targets, Lookup

(* The target is known when do_request is called.                            *)
LEMMA KnownTarget ==
  ASSUME ReadInv,
         LineFor(c, "HEADER") \/ Content(c)
  PROVE  c.m_url \in Targets \ {"junk"}
  BY DEF ReadInv, ParserInv, LineFor, Content

(* The invariant holds in the beginning.                                     *)
LEMMA ConnInit == Init => ConnInv /\ WriteInv
  <1> SUFFICES ASSUME Init PROVE ConnInv /\ WriteInv
    OBVIOUS
  <1>1. ControlInv
    <2>1. 0 \in 0..MaxConnects
      BY Sizes
    <2>2. QED
      BY <2>1 DEF Init, ControlInv
  <1>2. PeerInv
    BY EmptySeq DEF Init, PeerInv
  <1>3. ReadInv
    BY Sizes, ReadKeeps DEF Init, ReadInv
  <1>4. WriteInv
    BY EmptySeq DEF Init, WriteInv
  <1>5. FileInv
    BY DEF Init, FileInv, Pending
  <1>6. QED
    BY <1>1, <1>2, <1>3, <1>4, <1>5 DEF ConnInv

(* Where the threads are.                                                    *)
LEMMA ControlStep == ConnInv /\ [Next]_vars => ControlInv'
  <1> SUFFICES ASSUME ConnInv, [Next]_vars PROVE ControlInv'
    OBVIOUS
  <1> USE DEF ConnInv, ControlInv, peerVars, fileVars, history, timers
  <1>1. ASSUME NEW k \in Kinds, Ask(k) PROVE ControlInv'
    BY <1>1 DEF Ask
  <1>2. ASSUME NEW n \in 1..Len(todo), Deliver(n) PROVE ControlInv'
    BY <1>2 DEF Deliver
  <1>3. CASE Leave
    BY <1>3 DEF Leave
  <1>4. CASE Accept
    <2>1. connects + 1 \in 0..MaxConnects
      BY <1>4, Sizes DEF Accept
    <2>2. QED
      BY <1>4, <2>1 DEF Accept
  <1>5. CASE Drain
    BY <1>5 DEF Drain
  <1>6. CASE EventHup \/ Tick \/ DealTimer
    <2>1. pc' = "closed" /\ UNCHANGED <<ret, timers, peerVars>>
          /\ abandoned' \in {abandoned, abandoned + 1}
      BY <1>6 DEF EventHup, Tick, DealTimer, Close, Abandon
    <2>2. abandoned' \in Nat
      BY <2>1
    <2>3. QED
      BY <2>1, <2>2
  <1>7. CASE Silence \/ FlagMissed
    <2>1. CASE Silence
      BY <2>1 DEF Silence
    <2>2. CASE pc = "ended" /\ pc' = "epollin" /\ missed' = TRUE
      BY <1>7, <2>2 DEF Silence, FlagMissed
    <2>3. CASE pc = "dead" /\ ~missed /\ pc' = "failed" /\ UNCHANGED missed
      BY <1>7, <2>3 DEF Silence, FlagMissed
    <2>4. QED
      BY <1>7, <2>1, <2>2, <2>3 DEF FlagMissed
  <1>8. CASE ReadOnce
    BY <1>8 DEF ReadOnce
  <1>9. CASE ReadFail
    BY <1>9 DEF ReadFail
  <1>10. CASE NoRequest
    BY <1>10 DEF NoRequest, Goto, Armed
  <1>11. CASE ParseOn
    BY <1>11 DEF ParseOn, Goto
  <1>12. CASE BadRequest
    BY <1>12 DEF BadRequest, Goto
  <1>13. CASE DoRequest
    <2>1. c.m_url \in Targets \ {"junk"}
      BY <1>13, KnownTarget DEF DoRequest
    <2>2. ret' \in {"BAD_REQUEST", "NO_RESOURCE", "FORBIDDEN_REQUEST",
                    "FILE_REQUEST", "EMPTY_FILE"}
      BY <1>13, <2>1, LookupFinds DEF DoRequest
    <2>3. QED
      BY <1>13, <2>2 DEF DoRequest
  <1>14. CASE Respond
    <2>1. /\ pc = "build" /\ UNCHANGED <<ret, timers, peerVars>>
          /\ pc' = IF missed THEN "dead" ELSE "epollout"
          /\ abandoned' \in {abandoned, abandoned + 1}
      BY <1>14 DEF Respond, Armed, Abandon
    <2>2. abandoned' \in Nat
      BY <2>1
    <2>3. QED
      BY <2>1, <2>2
  <1>15. CASE GiveUp
    BY <1>15 DEF GiveUp, Goto
  <1>16. CASE EventOut
    BY <1>16 DEF EventOut
  <1>17. CASE SendPart
    BY <1>17 DEF SendPart
  <1>18. CASE SendLater
    BY <1>18 DEF SendLater, AwaitRoom, Goto
  <1>19. CASE SendFails
    BY <1>19 DEF SendFails
  <1>20. CASE SendRest
    BY <1>20 DEF SendRest
  <1>21. CASE UNCHANGED vars
    BY <1>21 DEF vars
  <1>22. QED
    BY <1>1, <1>2, <1>3, <1>4, <1>5, <1>6, <1>7, <1>8, <1>9, <1>10, <1>11,
       <1>12, <1>13, <1>14, <1>15, <1>16, <1>17, <1>18, <1>19, <1>20, <1>21
       DEF Next, Client, Server

(* What the client sends.                                                    *)
LEMMA PeerStep == ConnInv /\ [Next]_vars => PeerInv'
  <1> SUFFICES ASSUME ConnInv, [Next]_vars PROVE PeerInv'
    OBVIOUS
  <1> USE DEF ConnInv, PeerInv, history
  <1> DEFINE streams == <<asked, answered, todo, socket>>
  <1>1. ASSUME NEW k \in Kinds, Ask(k) PROVE PeerInv'
    <2>1. k \in DOMAIN Message /\ Message[k] \in Seq(Tokens)
      BY Sizes, MessageTokens
    <2>2. Append(asked, k) \in Seq(DOMAIN Message)
      BY <2>1, AppendProperties
    <2>3. QED
      BY <1>1, <2>1, <2>2 DEF Ask
  <1>2. ASSUME NEW n \in 1..Len(todo), Deliver(n) PROVE PeerInv'
    <2>1. Len(todo) \in Nat /\ n \in Nat /\ n <= Len(todo) /\ n >= 1
      BY LenProperties
    <2>2. /\ 1 \in 1..(Len(todo) + 1) /\ n \in (1 - 1)..Len(todo)
          /\ n + 1 \in 1..(Len(todo) + 1)
          /\ Len(todo) \in (n + 1 - 1)..Len(todo)
      BY <2>1
    <2>3. SubSeq(todo, 1, n) \in Seq(Tokens)
      BY <2>2, SubSeqProperties
    <2>4. SubSeq(todo, n + 1, Len(todo)) \in Seq(Tokens)
      BY <2>2, SubSeqProperties
    <2>5. socket \o SubSeq(todo, 1, n) \in Seq(Tokens)
      BY <2>3, ConcatProperties
    <2>6. QED
      BY <1>2, <2>4, <2>5 DEF Deliver
  <1>3. CASE Accept
    BY <1>3, EmptySeq DEF Accept
  <1>4. CASE ReadOnce
    BY <1>4, EmptySeq DEF ReadOnce
  <1>5. CASE SendRest
    <2>1. \E a \in {"file", "page", "garbled"} : answered' = Append(answered, a)
      BY <1>5 DEF SendRest
    <2>2. answered' \in Seq({"file", "page", "garbled"})
      BY <2>1, AppendProperties
    <2>3. QED
      BY <1>5, <2>2 DEF SendRest, peerVars
  <1>6. CASE UNCHANGED streams
    BY <1>6
  <1>7. QED
    <2> USE DEF peerVars, Goto
    <2>1. Leave \/ Drain => UNCHANGED streams
      BY DEF Leave, Drain
    <2>2. EventHup \/ Tick \/ DealTimer \/ Silence \/ FlagMissed \/ ReadFail
            => UNCHANGED streams
      BY DEF EventHup, Tick, DealTimer, Close, Silence, FlagMissed, ReadFail
    <2>3. NoRequest \/ ParseOn \/ BadRequest \/ DoRequest \/ Respond \/ GiveUp
            => UNCHANGED streams
      BY DEF NoRequest, ParseOn, BadRequest, DoRequest, Respond, GiveUp
    <2>4. EventOut \/ SendPart \/ SendLater \/ SendFails => UNCHANGED streams
      BY DEF EventOut, SendPart, SendLater, AwaitRoom, SendFails
    <2>5. UNCHANGED vars => UNCHANGED streams
      BY DEF vars
    <2>6. QED
      BY <1>1, <1>2, <1>3, <1>4, <1>5, <1>6, <2>1, <2>2, <2>3, <2>4, <2>5
         DEF Next, Client, Server

(* The parser's fields, whatever comes.                                      *)
LEMMA ReadStep == ConnInv /\ [Next]_vars => ReadInv'
  <1> SUFFICES ASSUME ConnInv, [Next]_vars PROVE ReadInv'
    OBVIOUS
  <1>1. ParserInv(c) /\ ReadIdx(c) < READ_BUFFER_SIZE
    BY DEF ConnInv, ReadInv
  <1>2. ASSUME ParserInv(c'), ReadIdx(c') = ReadIdx(c) PROVE ReadInv'
    BY <1>1, <1>2 DEF ReadInv
  <1>3. ASSUME c' = Cleared PROVE ReadInv'
    BY <1>3, ReadKeeps, Sizes DEF ReadInv
  <1>4. ASSUME UNCHANGED c PROVE ReadInv'
    BY <1>1, <1>4 DEF ReadInv
  <1>5. CASE ReadOnce
    <2>1. /\ ParserInv(Receive(c, socket))
          /\ ReadIdx(Receive(c, socket)) = ReadIdx(c) + Len(socket)
      BY <1>1, ReadKeeps DEF ConnInv, PeerInv
    <2>2. QED
      BY <1>5, <2>1 DEF ReadOnce, Fits, ReadInv
  <1>6. CASE NoRequest
    BY <1>1, <1>2, <1>6, NoLineKeeps DEF NoRequest
  <1>7. CASE ParseOn
    <2>1. CASE LineFor(c, "REQUESTLINE") /\ GoodTarget(c) /\ c' = RequestLine(c)
      BY <1>1, <1>2, <2>1, LineKeeps
    <2>2. CASE LineFor(c, "HEADER") /\ c' = HeaderLine(c)
      BY <1>1, <1>2, <2>2, LineKeeps
    <2>3. CASE LineFor(c, "HEADER") /\ c' = BodyFollows(c)
      BY <1>1, <1>2, <2>3, LineKeeps DEF LineFor
    <2>4. CASE c' = BodyMissing(c)
      BY <1>1, <1>2, <2>4, BodyKeeps
    <2>5. QED
      BY <1>7, <2>1, <2>2, <2>3, <2>4 DEF ParseOn
  <1>8. CASE BadRequest
    BY <1>1, <1>2, <1>8, NoLineKeeps DEF BadRequest
  <1>9. CASE DoRequest
    <2>1. CASE c' = NextLine(c)
      BY <1>1, <1>2, <2>1, NoLineKeeps
    <2>2. CASE BodyThere(c) /\ c' = Body(c)
      BY <1>1, <1>2, <2>2, BodyKeeps
    <2>3. QED
      BY <1>9, <2>1, <2>2 DEF DoRequest
  <1>10. CASE Accept
    BY <1>3, <1>10 DEF Accept, InitParse
  <1>11. CASE SendRest
    BY <1>3, <1>4, <1>11 DEF SendRest, InitParse
  <1>12. QED
    <2>1. (\E k \in Kinds : Ask(k)) \/ (\E n \in 1..Len(todo) : Deliver(n))
            \/ Leave \/ Drain => UNCHANGED c
      BY DEF Ask, Deliver, Leave, Drain
    <2>2. EventHup \/ Tick \/ DealTimer \/ Silence \/ FlagMissed \/ ReadFail
            \/ Respond \/ GiveUp => UNCHANGED c
      BY DEF EventHup, Tick, DealTimer, Close, Silence, FlagMissed, ReadFail,
             Respond, GiveUp
    <2>3. EventOut \/ SendPart \/ SendLater \/ SendFails => UNCHANGED c
      BY DEF EventOut, SendPart, SendLater, SendFails
    <2>4. UNCHANGED vars => UNCHANGED c
      BY DEF vars
    <2>5. QED
      BY <1>4, <1>5, <1>6, <1>7, <1>8, <1>9, <1>10, <1>11, <2>1, <2>2, <2>3,
         <2>4 DEF Next, Client, Server

(* The response, if writev ends at most once within m_write_buf.             *)
LEMMA WriteStep ==
  ASSUME HeaderSplits <= 1
  PROVE  WriteInv /\ [Next]_vars => WriteInv'
  <1> SUFFICES ASSUME WriteInv, [Next]_vars PROVE WriteInv'
    OBVIOUS
  <1>1. WriteInv
    OBVIOUS
  <1>2. ASSUME r' = Empty, pc' \notin {"epollout", "write"},
               answered' \in Seq({"file", "page"})
        PROVE  WriteInv'
    BY <1>2 DEF WriteInv
  <1>3. ASSUME Sending(r'), pc' \in {"epollout", "write"}, UNCHANGED answered
        PROVE  WriteInv'
    BY <1>1, <1>3 DEF WriteInv
  <1>4. ASSUME UNCHANGED <<r, answered>>, pc' \in {"closed", "dead", "failed"}
        PROVE  WriteInv'
    BY <1>1, <1>4 DEF WriteInv
  <1>5. ASSUME UNCHANGED <<r, answered, pc>> PROVE WriteInv'
    BY <1>1, <1>5 DEF WriteInv
  <1>6. CASE Accept
    <2>1. r' = Empty /\ pc' = "epollin" /\ answered' = <<>>
      BY <1>6 DEF Accept, InitWrite
    <2>2. answered' \in Seq({"file", "page"})
      BY <2>1, EmptySeq
    <2>3. QED
      BY <1>2, <2>1, <2>2
  <1>7. CASE ReadOnce \/ NoRequest \/ ParseOn \/ BadRequest \/ DoRequest
    <2>1. /\ pc \in {"epollin", "parse"} /\ pc' \notin {"epollout", "write"}
          /\ UNCHANGED <<r, answered>>
      BY <1>7 DEF ReadOnce, NoRequest, ParseOn, BadRequest, DoRequest, Goto,
                  Armed, history
    <2>2. QED
      BY <1>1, <1>2, <2>1 DEF WriteInv
  <1>8. CASE Respond
    <2>1. r = Empty /\ pc' \in {"epollout", "dead"} /\ UNCHANGED answered
      BY <1>1, <1>8 DEF WriteInv, Respond, Armed
    <2>2. r' = AnswerFile(Empty) \/ r' = AnswerPage(Empty)
      BY <1>8, <2>1 DEF Respond
    <2>3. Sending(r')
      BY <2>2, Started, Sizes
    <2>4. QED
      BY <1>1, <2>1, <2>3 DEF WriteInv
  <1>9. CASE EventOut \/ SendLater
    <2>1. /\ pc \in {"epollout", "write"} /\ pc' \in {"epollout", "write"}
          /\ UNCHANGED <<r, answered>>
      BY <1>9 DEF EventOut, SendLater, AwaitRoom, Goto, history
    <2>2. QED
      BY <1>1, <1>3, <2>1 DEF WriteInv
  <1>10. CASE SendPart
    <2>1. Sending(r) /\ pc' = "write" /\ UNCHANGED answered
      BY <1>1, <1>10 DEF WriteInv, SendPart, history
    <2>2. PICK n \in 1..Len(Gathered(r)) :
            /\ ~Finishes(r, n) /\ (Split(r, n) => r.splits < HeaderSplits)
            /\ r' = Writev(r, n)
      BY <1>10 DEF SendPart
    <2>3. n \in 1..r.bytes_to_send
      BY <2>1, <2>2, GatheredBytes, Sizes
    <2>4. Sending(r')
      BY <2>1, <2>2, <2>3, WritevKeeps, Sizes
    <2>5. QED
      BY <1>3, <2>1, <2>4
  <1>11. CASE SendRest
    <2>1. Sending(r) /\ r' = Empty /\ pc' \in {"epollin", "ended"}
      BY <1>1, <1>11 DEF WriteInv, SendRest, InitWrite
    <2>2. AfterAll(r) = Response(r)
      BY <2>1, WholeSent, Sizes
    <2>3. answered' = Append(answered,
                             IF r.m_iv_count = 2 THEN "file" ELSE "page")
      BY <1>11, <2>2 DEF SendRest
    <2>4. answered' \in Seq({"file", "page"})
      BY <1>1, <2>3, AppendProperties DEF WriteInv
    <2>5. QED
      BY <1>2, <2>1, <2>4
  <1>12. CASE EventHup \/ Tick \/ DealTimer \/ ReadFail \/ GiveUp \/ SendFails
    BY <1>4, <1>12
       DEF EventHup, Tick, DealTimer, Close, ReadFail, GiveUp, SendFails, Goto,
           history
  <1>13. CASE (\E k \in Kinds : Ask(k)) \/ (\E n \in 1..Len(todo) : Deliver(n))
              \/ Leave \/ Drain \/ UNCHANGED vars
    BY <1>5, <1>13 DEF Ask, Deliver, Leave, Drain, vars, history
  <1>14. CASE Silence \/ FlagMissed
    <2>1. CASE pc = "ended" /\ pc' = "epollin"
      <3>1. r = Empty
        BY <1>1, <2>1 DEF WriteInv
      <3>2. QED
        BY <1>1, <1>2, <1>14, <2>1, <3>1
           DEF WriteInv, Silence, FlagMissed, history
    <2>2. QED
      BY <1>4, <1>5, <1>14, <2>1 DEF Silence, FlagMissed, history
  <1>15. QED
    BY <1>6, <1>7, <1>8, <1>9, <1>10, <1>11, <1>12, <1>13, <1>14
       DEF Next, Client, Server

(* Mappings come with do_request and go with unmap().                        *)
LEMMA FileStep == ConnInv /\ [Next]_vars => FileInv'
  <1> SUFFICES ASSUME ConnInv, [Next]_vars PROVE FileInv'
    OBVIOUS
  <1>1. FileInv /\ abandoned \in Nat
    BY DEF ConnInv, ControlInv
  <1>2. ASSUME UNCHANGED <<fileVars, abandoned>>, Pending' <=> Pending
        PROVE  FileInv'
    BY <1>1, <1>2 DEF FileInv, fileVars
  <1>3. ASSUME UNCHANGED fileVars, Pending, ~Pending',
               abandoned' = abandoned + 1
        PROVE  FileInv'
    BY <1>1, <1>3 DEF FileInv, fileVars
  <1>4. CASE (\E k \in Kinds : Ask(k)) \/ (\E n \in 1..Len(todo) : Deliver(n))
             \/ Leave \/ Drain \/ UNCHANGED vars
    BY <1>2, <1>4 DEF Ask, Deliver, Leave, Drain, vars, history, Pending
  <1>5. CASE Accept \/ Silence \/ FlagMissed \/ ReadOnce \/ ReadFail
             \/ NoRequest \/ ParseOn
    BY <1>2, <1>5 DEF Accept, Silence, FlagMissed, ReadOnce, ReadFail,
                      NoRequest, ParseOn, Goto, Armed, history, Pending
  <1>6. CASE EventHup \/ Tick \/ DealTimer
    <2>1. /\ pc \in {"epollin", "epollout", "failed", "ended", "dead"} /\ Close
          /\ pc' = "closed" /\ UNCHANGED <<fileVars, ret>>
      BY <1>6 DEF EventHup, Tick, DealTimer, Close
    <2>2. CASE Pending
      <3>1. abandoned' = abandoned + 1
        BY <2>1, <2>2 DEF Pending, Close, Abandon
      <3>2. QED
        BY <1>3, <2>1, <2>2, <3>1 DEF Pending
    <2>3. CASE ~Pending
      <3>1. abandoned' = abandoned
        BY <2>1, <2>3 DEF Pending, Close, Abandon
      <3>2. QED
        BY <1>2, <2>1, <2>3, <3>1 DEF Pending
    <2>4. QED
      BY <2>2, <2>3
  <1>7. CASE BadRequest
    BY <1>2, <1>7 DEF BadRequest, Goto, history, Pending
  <1>8. CASE DoRequest
    <2>1. c.m_url \in Targets \ {"junk"}
      BY <1>8, KnownTarget DEF DoRequest, ConnInv
    <2>2. /\ ret' = "FILE_REQUEST" <=> c.m_url = "file"
          /\ pc = "parse" /\ pc' = "build" /\ UNCHANGED abandoned
      BY <1>8, <2>1, LookupFinds DEF DoRequest, history
    <2>3. CASE c.m_url = "file"
      <3>1. m_file_address' = "file" /\ mappings' = mappings + 1
        BY <1>8, <2>3 DEF DoRequest
      <3>2. Pending' /\ ~Pending
        BY <2>2, <2>3 DEF Pending
      <3>3. QED
        BY <1>1, <2>2, <3>1, <3>2 DEF FileInv
    <2>4. CASE c.m_url # "file"
      <3>1. /\ mappings' = mappings
            /\ m_file_address' \in {m_file_address, "failed"}
        BY <1>8, <2>4 DEF DoRequest
      <3>2. ~Pending' /\ ~Pending
        BY <2>2, <2>4 DEF Pending
      <3>3. QED
        BY <1>1, <2>2, <3>1, <3>2 DEF FileInv
    <2>5. QED
      BY <2>3, <2>4
  <1>9. CASE Respond
    <2>1. pc = "build" /\ UNCHANGED <<ret, fileVars>>
      BY <1>9 DEF Respond
    <2>2. CASE missed /\ Pending
      <3>1. abandoned' = abandoned + 1 /\ pc' = "dead"
        BY <1>9, <2>2 DEF Respond, Armed, Abandon, Pending
      <3>2. QED
        BY <1>3, <2>1, <2>2, <3>1 DEF Pending
    <2>3. CASE ~missed \/ ~Pending
      <3>1. abandoned' = abandoned /\ (Pending => pc' = "epollout")
        BY <1>9, <2>1, <2>3 DEF Respond, Armed, Abandon, Pending
      <3>2. QED
        BY <1>2, <2>1, <3>1 DEF Pending
    <2>4. QED
      BY <2>2, <2>3
  <1>10. CASE GiveUp \/ EventOut \/ SendPart \/ SendLater
    BY <1>2, <1>10 DEF GiveUp, EventOut, SendPart, SendLater, AwaitRoom, Goto,
                       history, Pending
  <1>11. CASE SendFails \/ SendRest
    <2>1. /\ pc' \in {"dead", "ended", "epollin"} /\ m_file_address' = "null"
          /\ UNCHANGED abandoned /\ ~Pending'
          /\ mappings' = IF m_file_address = "file" THEN mappings - 1
                                                    ELSE mappings
      BY <1>11 DEF SendFails, SendRest, Unmap, history, Pending
    <2>2. CASE m_file_address = "file"
      BY <1>1, <2>1, <2>2 DEF FileInv
    <2>3. CASE m_file_address # "file"
      BY <1>1, <2>1, <2>3 DEF FileInv
    <2>4. QED
      BY <2>2, <2>3
  <1>12. QED
    BY <1>4, <1>5, <1>6, <1>7, <1>8, <1>9, <1>10, <1>11
       DEF Next, Client, Server

-----------------------------------------------------------------------------
(* The types, the transfer and the mappings.                                 *)

(* The invariants hold in every state, that of the response if writev ends   *)
(* at most once within m_write_buf.                                          *)
LEMMA ConnInvariant ==
  /\ Spec => []ConnInv
  /\ HeaderSplits <= 1 => (Spec => []WriteInv)
  <1>1. ConnInv /\ [Next]_vars => ConnInv'
    BY ControlStep, PeerStep, ReadStep, FileStep DEF ConnInv
  <1>2. Spec => []ConnInv
    BY ConnInit, <1>1, PTL DEF Spec
  <1>3. ASSUME HeaderSplits <= 1
        PROVE  Spec => []WriteInv
    <2>1. WriteInv /\ [Next]_vars => WriteInv'
      BY <1>3, WriteStep
    <2>2. QED
      BY ConnInit, <2>1, PTL DEF Spec
  <1>4. QED
    BY <1>2, <1>3

(* Every variable keeps its type (http_conn), if writev ends at most once    *)
(* within m_write_buf: with a second time iov_len wraps around.              *)
THEOREM ConnTypeCorrect ==
  ASSUME HeaderSplits <= 1
  PROVE  Spec => []TypeOK
  <1>1. ConnInv /\ WriteInv => TypeOK
    <2>1. WriteInv => r \in Responses
      BY Started, Sizes DEF WriteInv, Sending
    <2>2. QED
      BY <2>1 DEF ConnInv, ControlInv, PeerInv, ReadInv, ParserInv, WriteInv,
                  FileInv, TypeOK
  <1>2. QED
    BY ConnInvariant, <1>1, PTL

(* What the client has of an answer is always the beginning of it, wherever  *)
(* writev cuts it (write()), if at most once within m_write_buf.             *)
THEOREM TransferExact ==
  ASSUME HeaderSplits <= 1
  PROVE  Spec => []SentIsPrefix
  <1>1. WriteInv => SentIsPrefix
    BY NothingSent, PrefixSent, Sizes DEF WriteInv, SentIsPrefix
  <1>2. QED
    BY ConnInvariant, <1>1, PTL

(* A file is mapped while it is being sent, and of those sent before, only   *)
(* files whose transfer was cut off are still mapped, at most one for each:  *)
(* by the client, by the idle timer, or by a timer_flag that the main thread *)
(* had missed (do_request, unmap, cb_func).                                  *)
THEOREM MappingsReleased == Spec => []MappingReleased
  <1>1. ConnInv => MappingReleased
    BY DEF ConnInv, ControlInv, FileInv, Pending, MappingReleased
  <1>2. QED
    BY ConnInvariant, <1>1, PTL

-----------------------------------------------------------------------------
(* The messages, line by line.                                               *)

(* The lines of a message before the empty one.  Each is a word, a CR and a  *)
(* LF, so that line i begins at 3 * i.                                       *)
NLines == [k \in DOMAIN Message |->
  IF k \in {"missing", "empty", "dir"} THEN 1
  ELSE IF k = "post" THEN 3 ELSE IF k = "long" THEN 4 ELSE 2]

Good == Names \ BadLines

(* Where the CR of line i is, and where the body begins.                     *)
LineEnd(k, i) == IF i < NLines[k] THEN 3 * i + 1 ELSE 3 * i
BodyAt(k) == 3 * NLines[k] + 2

(* What the proofs use of a message.                                         *)
Shaped(k) ==
  LET m == Message[k] IN
  /\ Len(m) = IF k = "post" THEN 13 ELSE BodyAt(k)
  /\ \A i \in 0..NLines[k] :
       m[LineEnd(k, i) + 1] = "CR" /\ m[LineEnd(k, i) + 2] = "LF"
  /\ m[1] \in Targets
  /\ \A i \in 1..(NLines[k] - 1) : m[3 * i + 1] \in {"keep", "length", "other"}

(* The number of lines.                                                      *)
LEMMA LineCount ==
  /\ \A k \in Names : NLines[k] \in 1..4
  /\ NLines["file"] = 2 /\ NLines["once"] = 2 /\ NLines["post"] = 3
  /\ NLines["missing"] = 1 /\ NLines["empty"] = 1 /\ NLines["dir"] = 1
  /\ NLines["forbidden"] = 2 /\ NLines["junk"] = 2 /\ NLines["long"] = 4
  BY MessageTokens DEF NLines, Names

(* A message of one line.                                                    *)
LEMMA ShapedOne ==
  ASSUME NEW k \in {"missing", "empty", "dir"}
  PROVE  Shaped(k) /\ Message[k][1] = k
  <1> DEFINE m == Message[k]
  <1>1. /\ m[1] = k /\ m[2] = "CR" /\ m[3] = "LF" /\ m[4] = "CR" /\ m[5] = "LF"
        /\ Len(m) = 5
    <2>1. CASE k = "missing"
      BY <2>1 DEF Message, EOL
    <2>2. CASE k = "empty"
      BY <2>2 DEF Message, EOL
    <2>3. CASE k = "dir"
      BY <2>3 DEF Message, EOL
    <2>4. QED
      BY <2>1, <2>2, <2>3
  <1>2. NLines[k] = 1 /\ BodyAt(k) = 5 /\ LineEnd(k, 0) = 1 /\ LineEnd(k, 1) = 3
    BY LineCount DEF BodyAt, LineEnd
  <1> HIDE DEF m
  <1>3. \A i \in 0..NLines[k] :
          m[LineEnd(k, i) + 1] = "CR" /\ m[LineEnd(k, i) + 2] = "LF"
    <2> SUFFICES ASSUME NEW i \in 0..NLines[k]
                 PROVE  /\ m[LineEnd(k, i) + 1] = "CR"
                        /\ m[LineEnd(k, i) + 2] = "LF"
      OBVIOUS
    <2>1. i = 0 \/ i = 1
      BY <1>2
    <2>2. QED
      BY <1>1, <1>2, <2>1
  <1>4. 1..(NLines[k] - 1) = {}
    BY <1>2
  <1>5. m[1] \in Targets
    BY <1>1 DEF Targets
  <1>6. QED
    BY <1>1, <1>2, <1>3, <1>4, <1>5 DEF Shaped, m

(* A message of two lines.                                                   *)
LEMMA ShapedTwo ==
  ASSUME NEW k \in {"file", "once", "forbidden", "junk"}
  PROVE  /\ Shaped(k)
         /\ Message[k][1] = IF k = "once" THEN "file" ELSE k
         /\ Message[k][4] = IF k = "once" THEN "other" ELSE "keep"
  <1> DEFINE m == Message[k]
  <1>1. /\ m[1] = IF k = "once" THEN "file" ELSE k
        /\ m[2] = "CR" /\ m[3] = "LF"
        /\ m[4] = IF k = "once" THEN "other" ELSE "keep"
        /\ m[5] = "CR" /\ m[6] = "LF" /\ m[7] = "CR" /\ m[8] = "LF"
        /\ Len(m) = 8
    <2>1. CASE k = "file"
      BY <2>1 DEF Message, EOL
    <2>2. CASE k = "once"
      BY <2>2 DEF Message, EOL
    <2>3. CASE k = "forbidden"
      BY <2>3 DEF Message, EOL
    <2>4. CASE k = "junk"
      BY <2>4 DEF Message, EOL
    <2>5. QED
      BY <2>1, <2>2, <2>3, <2>4
  <1>2. /\ NLines[k] = 2 /\ BodyAt(k) = 8
        /\ LineEnd(k, 0) = 1 /\ LineEnd(k, 1) = 4 /\ LineEnd(k, 2) = 6
    BY LineCount DEF BodyAt, LineEnd
  <1> HIDE DEF m
  <1>3. \A i \in 0..NLines[k] :
          m[LineEnd(k, i) + 1] = "CR" /\ m[LineEnd(k, i) + 2] = "LF"
    <2> SUFFICES ASSUME NEW i \in 0..NLines[k]
                 PROVE  /\ m[LineEnd(k, i) + 1] = "CR"
                        /\ m[LineEnd(k, i) + 2] = "LF"
      OBVIOUS
    <2>1. i = 0 \/ i = 1 \/ i = 2
      BY <1>2
    <2>2. QED
      BY <1>1, <1>2, <2>1
  <1>4. \A i \in 1..(NLines[k] - 1) :
          m[3 * i + 1] \in {"keep", "length", "other"}
    <2> SUFFICES ASSUME NEW i \in 1..(NLines[k] - 1)
                 PROVE  m[3 * i + 1] \in {"keep", "length", "other"}
      OBVIOUS
    <2>1. 3 * i + 1 = 4
      BY <1>2
    <2>2. QED
      BY <1>1, <2>1
  <1>5. m[1] \in Targets
    BY <1>1 DEF Targets
  <1>6. QED
    BY <1>1, <1>2, <1>3, <1>4, <1>5 DEF Shaped, m

(* The message with a body.                                                  *)
LEMMA ShapedPost ==
  /\ Shaped("post")
  /\ Message["post"][1] = "file" /\ Message["post"][4] = "keep"
  /\ Message["post"][7] = "length"
  /\ Message["post"][12] = "b" /\ Message["post"][13] = "b"
  <1> DEFINE k == "post"
             m == Message[k]
  <1>1. /\ m[1] = "file" /\ m[2] = "CR" /\ m[3] = "LF"
        /\ m[4] = "keep" /\ m[5] = "CR" /\ m[6] = "LF"
        /\ m[7] = "length" /\ m[8] = "CR" /\ m[9] = "LF"
        /\ m[10] = "CR" /\ m[11] = "LF" /\ m[12] = "b" /\ m[13] = "b"
        /\ Len(m) = 13
    BY DEF Message, EOL
  <1>2. /\ NLines[k] = 3 /\ BodyAt(k) = 11
        /\ LineEnd(k, 0) = 1 /\ LineEnd(k, 1) = 4 /\ LineEnd(k, 2) = 7
        /\ LineEnd(k, 3) = 9
    BY LineCount DEF BodyAt, LineEnd
  <1> HIDE DEF m
  <1>3. \A i \in 0..NLines[k] :
          m[LineEnd(k, i) + 1] = "CR" /\ m[LineEnd(k, i) + 2] = "LF"
    <2> SUFFICES ASSUME NEW i \in 0..NLines[k]
                 PROVE  /\ m[LineEnd(k, i) + 1] = "CR"
                        /\ m[LineEnd(k, i) + 2] = "LF"
      OBVIOUS
    <2>1. i = 0 \/ i = 1 \/ i = 2 \/ i = 3
      BY <1>2
    <2>2. QED
      BY <1>1, <1>2, <2>1
  <1>4. \A i \in 1..(NLines[k] - 1) :
          m[3 * i + 1] \in {"keep", "length", "other"}
    <2> SUFFICES ASSUME NEW i \in 1..(NLines[k] - 1)
                 PROVE  m[3 * i + 1] \in {"keep", "length", "other"}
      OBVIOUS
    <2>1. 3 * i + 1 = 4 \/ 3 * i + 1 = 7
      BY <1>2
    <2>2. QED
      BY <1>1, <2>1
  <1>5. m[1] \in Targets
    BY <1>1 DEF Targets
  <1>6. QED
    BY <1>1, <1>2, <1>3, <1>4, <1>5 DEF Shaped, m

(* The message that is too long for the buffer.                              *)
LEMMA ShapedLong ==
  /\ Shaped("long")
  /\ Message["long"][1] = "file" /\ Message["long"][4] = "other"
  /\ Message["long"][7] = "other" /\ Message["long"][10] = "other"
  <1> DEFINE k == "long"
             m == Message[k]
  <1>1. /\ m[1] = "file" /\ m[2] = "CR" /\ m[3] = "LF"
        /\ m[4] = "other" /\ m[5] = "CR" /\ m[6] = "LF"
        /\ m[7] = "other" /\ m[8] = "CR" /\ m[9] = "LF"
        /\ m[10] = "other" /\ m[11] = "CR" /\ m[12] = "LF"
        /\ m[13] = "CR" /\ m[14] = "LF"
        /\ Len(m) = 14
    BY DEF Message, EOL
  <1>2. /\ NLines[k] = 4 /\ BodyAt(k) = 14
        /\ LineEnd(k, 0) = 1 /\ LineEnd(k, 1) = 4 /\ LineEnd(k, 2) = 7
        /\ LineEnd(k, 3) = 10 /\ LineEnd(k, 4) = 12
    BY LineCount DEF BodyAt, LineEnd
  <1> HIDE DEF m
  <1>3. \A i \in 0..NLines[k] :
          m[LineEnd(k, i) + 1] = "CR" /\ m[LineEnd(k, i) + 2] = "LF"
    <2> SUFFICES ASSUME NEW i \in 0..NLines[k]
                 PROVE  /\ m[LineEnd(k, i) + 1] = "CR"
                        /\ m[LineEnd(k, i) + 2] = "LF"
      OBVIOUS
    <2>1. i = 0 \/ i = 1 \/ i = 2 \/ i = 3 \/ i = 4
      BY <1>2
    <2>2. QED
      BY <1>1, <1>2, <2>1
  <1>4. \A i \in 1..(NLines[k] - 1) :
          m[3 * i + 1] \in {"keep", "length", "other"}
    <2> SUFFICES ASSUME NEW i \in 1..(NLines[k] - 1)
                 PROVE  m[3 * i + 1] \in {"keep", "length", "other"}
      OBVIOUS
    <2>1. 3 * i + 1 = 4 \/ 3 * i + 1 = 7 \/ 3 * i + 1 = 10
      BY <1>2
    <2>2. QED
      BY <1>1, <2>1
  <1>5. m[1] \in Targets
    BY <1>1 DEF Targets
  <1>6. QED
    BY <1>1, <1>2, <1>3, <1>4, <1>5 DEF Shaped, m

(* All the messages whose lines are good.                                    *)
LEMMA Shapes ==
  ASSUME NEW k \in Good
  PROVE  /\ Shaped(k) /\ NLines[k] \in 1..4
         /\ Message[k][1] = "junk" <=> k = "junk"
         /\ \A i \in 1..(NLines[k] - 1) :
              /\ k # "junk" =>
                   (Message[k][3 * i + 1] = "keep" <=> Keeps[k] /\ i = 1)
              /\ Message[k][3 * i + 1] = "length" <=> k = "post" /\ i = 2
         /\ Keeps[k] => NLines[k] >= 2
         /\ Keeps[k] <=> k \in {"file", "post", "forbidden"}
  <1>1. k \in Names /\ NLines[k] \in 1..4
    BY LineCount DEF Good
  <1>2. Keeps[k] <=> k \in {"file", "post", "forbidden"}
    BY <1>1, MessageTokens DEF Keeps
  <1>3. CASE k \in {"missing", "empty", "dir"}
    <2>1. 1..(NLines[k] - 1) = {}
      BY <1>3, LineCount
    <2>2. Shaped(k) /\ Message[k][1] = k
      BY <1>3, ShapedOne
    <2>3. QED
      BY <1>1, <1>2, <1>3, <2>1, <2>2
  <1>4. CASE k \in {"file", "once", "forbidden", "junk"}
    <2>1. /\ NLines[k] = 2
          /\ \A i \in 1..(NLines[k] - 1) : i = 1 /\ 3 * i + 1 = 4 /\ i # 2
      BY <1>4, LineCount
    <2>2. /\ Shaped(k)
          /\ Message[k][1] = IF k = "once" THEN "file" ELSE k
          /\ Message[k][4] = IF k = "once" THEN "other" ELSE "keep"
      BY <1>4, ShapedTwo
    <2>3. NLines[k] >= 2
      BY <2>1
    <2>4. ASSUME NEW i \in 1..(NLines[k] - 1)
          PROVE  /\ k # "junk" =>
                      (Message[k][3 * i + 1] = "keep" <=> Keeps[k] /\ i = 1)
                 /\ Message[k][3 * i + 1] = "length" <=> k = "post" /\ i = 2
      <3>1. i = 1 /\ i # 2 /\ Message[k][3 * i + 1] = Message[k][4]
        BY <2>1
      <3>2. QED
        BY <1>2, <1>4, <2>2, <3>1
    <2>5. QED
      BY <1>1, <1>2, <1>4, <2>2, <2>3, <2>4
  <1>5. CASE k = "post"
    <2>1. /\ NLines[k] = 3
          /\ \A i \in 1..(NLines[k] - 1) : \/ i = 1 /\ 3 * i + 1 = 4 /\ i # 2
                                           \/ i = 2 /\ 3 * i + 1 = 7 /\ i # 1
      BY <1>5, LineCount
    <2>2. /\ Shaped(k) /\ Message[k][1] = "file" /\ Message[k][4] = "keep"
          /\ Message[k][7] = "length"
      BY <1>5, ShapedPost
    <2>3. NLines[k] >= 2
      BY <2>1
    <2>4. ASSUME NEW i \in 1..(NLines[k] - 1)
          PROVE  /\ k # "junk" =>
                      (Message[k][3 * i + 1] = "keep" <=> Keeps[k] /\ i = 1)
                 /\ Message[k][3 * i + 1] = "length" <=> k = "post" /\ i = 2
      <3>1. \/ i = 1 /\ i # 2 /\ Message[k][3 * i + 1] = Message[k][4]
            \/ i = 2 /\ i # 1 /\ Message[k][3 * i + 1] = Message[k][7]
        BY <2>1
      <3>2. QED
        BY <1>2, <1>5, <2>2, <3>1
    <2>5. QED
      BY <1>1, <1>2, <1>5, <2>2, <2>3, <2>4
  <1>6. CASE k = "long"
    <2>1. /\ NLines[k] = 4
          /\ \A i \in 1..(NLines[k] - 1) :
               3 * i + 1 = 4 \/ 3 * i + 1 = 7 \/ 3 * i + 1 = 10
      BY <1>6, LineCount
    <2>2. /\ Shaped(k) /\ Message[k][1] = "file" /\ Message[k][4] = "other"
          /\ Message[k][7] = "other" /\ Message[k][10] = "other"
      BY <1>6, ShapedLong
    <2>3. \A i \in 1..(NLines[k] - 1) : Message[k][3 * i + 1] = "other"
      BY <2>1, <2>2
    <2>4. QED
      BY <1>1, <1>2, <1>6, <2>2, <2>3
  <1>7. QED
    BY <1>1, <1>3, <1>4, <1>5, <1>6 DEF Good, Names, BadLines

(* A line of a good message ends behind its beginning, has no other CR or LF *)
(* in it, and the next one begins behind it.                                 *)
LEMMA GoodLine ==
  ASSUME NEW k \in Good, NEW i \in 0..NLines[k]
  PROVE  LET m == Message[k]
             s == 3 * i
             e == LineEnd(k, i) IN
         /\ s \in Nat /\ e \in Nat /\ s <= e /\ e + 2 <= Len(m)
         /\ m[e + 1] = "CR" /\ m[e + 2] = "LF"
         /\ \A p \in s..(e - 1) : m[p + 1] \notin {"CR", "LF", "NUL"}
         /\ i < NLines[k] => e + 2 = 3 * (i + 1) /\ e = s + 1
         /\ i = NLines[k] => e = s /\ e + 2 = BodyAt(k)
  <1> DEFINE m == Message[k]
             s == 3 * i
             e == LineEnd(k, i)
  <1>1. Shaped(k) /\ NLines[k] \in 1..4
    BY Shapes
  <1>2. /\ i < NLines[k] => e = s + 1
        /\ i = NLines[k] => e = s
        /\ i \in Nat /\ i <= NLines[k]
    BY <1>1 DEF LineEnd
  <1>3. BodyAt(k) <= Len(m)
    <2>1. k = "post" => NLines[k] = 3
      BY LineCount
    <2>2. QED
      BY <1>1, <2>1 DEF Shaped, BodyAt
  <1>4. /\ s \in Nat /\ e \in Nat /\ s <= e
        /\ i < NLines[k] => e + 2 = 3 * (i + 1)
        /\ i = NLines[k] => e + 2 = BodyAt(k)
    BY <1>1, <1>2 DEF BodyAt
  <1>5. e + 2 <= BodyAt(k)
    BY <1>1, <1>2 DEF BodyAt
  <1>6. Len(m) \in Nat /\ BodyAt(k) \in Nat
    BY <1>1, MessageTokens, LenProperties DEF Good, BodyAt
  <1>7. e + 2 <= Len(m)
    BY <1>3, <1>4, <1>5, <1>6
  <1>8. m[e + 1] = "CR" /\ m[e + 2] = "LF"
    BY <1>1 DEF Shaped
  <1>9. ASSUME NEW p \in s..(e - 1)
        PROVE  m[p + 1] \notin {"CR", "LF", "NUL"}
    <2>1. i < NLines[k] /\ p + 1 = 3 * i + 1
      BY <1>1, <1>2
    <2>2. CASE i = 0
      <3>1. m[p + 1] \in Targets
        BY <1>1, <2>1, <2>2 DEF Shaped
      <3>2. QED
        BY <3>1 DEF Targets
    <2>3. CASE i # 0
      <3>1. i \in 1..(NLines[k] - 1)
        BY <1>1, <2>1, <2>3
      <3>2. m[p + 1] \in {"keep", "length", "other"}
        BY <1>1, <2>1, <3>1 DEF Shaped
      <3>3. QED
        BY <3>2
    <2>4. QED
      BY <2>2, <2>3
  <1>10. QED
    BY <1>2, <1>4, <1>7, <1>8, <1>9

-----------------------------------------------------------------------------
(* parse_line on a line of a message, as far as it has come.                 *)

(* The buffer holds the beginning of the message m, but for the lines that   *)
(* are done with.                                                            *)
Holds(x, m) ==
  /\ m \in Seq(Tokens) /\ ReadIdx(x) <= Len(m)
  /\ \A i \in 1..ReadIdx(x) : i > x.m_start_line => x.m_read_buf[i] = m[i]

(* Of a line whose CR is at e, parse_line finds nothing before the LF has    *)
(* come, and never goes behind the CR; then it finds the line.               *)
LEMMA LineLooked ==
  ASSUME NEW x, ParserInv(x), NEW m, Holds(x, m),
         NEW e \in Nat, x.m_checked_idx <= e,
         m[e + 1] = "CR", m[e + 2] = "LF",
         \A p \in x.m_start_line..(e - 1) : m[p + 1] \notin {"CR", "LF", "NUL"}
  PROVE  /\ ReadIdx(x) <= e => ParseLine(x) = Found("OPEN", ReadIdx(x), {})
         /\ ReadIdx(x) = e + 1 => ParseLine(x) = Found("OPEN", e, {})
         /\ ReadIdx(x) >= e + 2 =>
              ParseLine(x) = Found("OK", e + 2, {e, e + 1})
  <1> DEFINE n == ReadIdx(x)
             a == x.m_checked_idx
             s == x.m_start_line
             i == Min(LineEnds(x))
  <1>1. n \in Nat /\ a \in Nat /\ s \in Nat /\ s <= a /\ a <= n /\ a <= e
    BY LenProperties DEF ParserInv, ParserOK, ParserStates, ReadIdx
  <1>2. \A p \in a..(n - 1) : Char(x, p) = m[p + 1]
    <2>1. \A p \in a..(n - 1) : p + 1 \in 1..n /\ p + 1 > s
      BY <1>1
    <2>2. QED
      BY <2>1 DEF Holds, Char
  <1>3. ASSUME NEW p \in LineEnds(x) PROVE p >= e /\ p \in a..(n - 1)
    <2>1. p \in a..(n - 1) /\ m[p + 1] \in {"CR", "LF"}
      BY <1>2 DEF LineEnds
    <2>2. p \notin s..(e - 1)
      BY <2>1
    <2>3. QED
      BY <1>1, <2>1, <2>2
  <1>4. CASE n <= e
    <2>1. LineEnds(x) = {}
      BY <1>1, <1>3, <1>4
    <2>2. ParseLine(x) = Found("OPEN", n, {})
      BY <2>1 DEF ParseLine
    <2>3. ~(n = e + 1) /\ ~(n >= e + 2)
      BY <1>1, <1>4
    <2>4. QED
      BY <2>2, <2>3
  <1>5. CASE n > e
    <2>1. e \in a..(n - 1)
      BY <1>1, <1>5
    <2>2. Char(x, e) = "CR"
      BY <1>2, <2>1
    <2>3. e \in LineEnds(x)
      BY <2>1, <2>2 DEF LineEnds
    <2>4. i \in LineEnds(x) /\ i <= e
      <3>1. i \in a..(n - 1) /\ Char(x, i) \in {"CR", "LF"} /\ i <= e
        BY <2>3, FirstEnd DEF ParserInv
      <3>2. QED
        BY <3>1 DEF LineEnds
    <2>5. i = e
      BY <1>1, <1>3, <2>4
    <2>6. ParseLine(x) = IF e + 1 = n THEN Found("OPEN", e, {})
                         ELSE IF Char(x, e + 1) = "LF"
                              THEN Found("OK", e + 2, {e, e + 1})
                              ELSE Found("BAD", e, {})
      BY <2>2, <2>3, <2>5 DEF ParseLine
    <2>7. CASE n = e + 1
      <3>1. ~(n <= e) /\ ~(n >= e + 2) /\ e + 1 = n
        BY <2>7
      <3>2. QED
        BY <2>6, <3>1
    <2>8. CASE n # e + 1
      <3>1. e + 1 \in a..(n - 1) /\ ~(n <= e) /\ e + 1 # n /\ e + 1 + 1 = e + 2
        BY <1>1, <1>5, <2>8
      <3>2. Char(x, e + 1) = "LF"
        BY <1>2, <3>1
      <3>3. QED
        BY <2>6, <2>8, <3>1, <3>2
    <2>9. QED
      BY <2>7, <2>8
  <1>6. QED
    BY <1>1, <1>4, <1>5

(* Its text, and what remains behind it.                                     *)
LEMMA LineText ==
  ASSUME NEW x, ParserInv(x), NEW m, Holds(x, m),
         NEW e \in Nat, x.m_start_line <= e, ReadIdx(x) >= e + 2,
         ParseLine(x) = Found("OK", e + 2, {e, e + 1})
  PROVE  /\ Text(x) = IF x.m_start_line = e THEN "NUL"
                                            ELSE m[x.m_start_line + 1]
         /\ \A i \in 1..ReadIdx(x) :
              i > e + 2 => NextLine(x).m_read_buf[i] = m[i]
  <1> DEFINE n == ReadIdx(x)
             s == x.m_start_line
  <1>1. n \in Nat /\ s \in Nat /\ ParserOK(x) /\ n = Len(x.m_read_buf)
    BY LenProperties DEF ParserInv, ParserOK, ParserStates, ReadIdx
  <1>2. ParseLine(x).nul = {e, e + 1}
    BY DEF Found
  <1>3. \A k \in 1..n : TakeLine(x).m_read_buf[k] =
          IF k - 1 \in {e, e + 1} THEN "NUL" ELSE x.m_read_buf[k]
    BY <1>1, <1>2, LineTaken
  <1>4. /\ s + 1 \in 1..n /\ s + 1 > s /\ s + 1 - 1 = s
        /\ s # e => s \notin {e, e + 1}
    BY <1>1
  <1>5. Text(x) = TakeLine(x).m_read_buf[s + 1]
    BY DEF Text, Char
  <1>6. Text(x) = IF s = e THEN "NUL" ELSE m[s + 1]
    <2>1. x.m_read_buf[s + 1] = m[s + 1]
      BY <1>4 DEF Holds
    <2>2. TakeLine(x).m_read_buf[s + 1] =
            IF s \in {e, e + 1} THEN "NUL" ELSE x.m_read_buf[s + 1]
      <3> DEFINE j == s + 1
      <3>1. j \in 1..n /\ j - 1 = s
        BY <1>1, <1>4
      <3> HIDE DEF j
      <3>2. TakeLine(x).m_read_buf[j] =
              IF j - 1 \in {e, e + 1} THEN "NUL" ELSE x.m_read_buf[j]
        BY <1>3, <3>1
      <3>3. QED
        BY <3>1, <3>2 DEF j
    <2>3. s = e <=> s \in {e, e + 1}
      BY <1>4
    <2>4. QED
      BY <1>5, <2>1, <2>2, <2>3
  <1>7. ASSUME NEW i \in 1..n, i > e + 2
        PROVE  NextLine(x).m_read_buf[i] = m[i]
    <2>1. i - 1 \notin {e, e + 1} /\ i > s
      BY <1>1, <1>7
    <2>2. TakeLine(x).m_read_buf[i] = m[i]
      BY <1>3, <2>1 DEF Holds
    <2>3. QED
      BY <1>1, <2>2, LineLeft
  <1>8. QED
    BY <1>6, <1>7

-----------------------------------------------------------------------------
(* What the parser knows of a request.                                       *)

(* It looks for the end of line i: the target is known behind the first      *)
(* line, the second may have said keep-alive, the third the length.          *)
HeadAt(x, k, i) ==
  /\ x.m_start_line = 3 * i
  /\ x.m_checked_idx <= LineEnd(k, i)
  /\ x.m_check_state = IF i = 0 THEN "REQUESTLINE" ELSE "HEADER"
  /\ i > 0 => k # "junk" /\ x.m_url = Message[k][1]
  /\ x.m_linger = (Keeps[k] /\ i >= 2)
  /\ x.m_content_length = IF k = "post" /\ i >= 3 THEN 2 ELSE 0

(* It looks at the body.                                                     *)
BodyAhead(x, k) ==
  /\ k = "post" /\ x.m_check_state = "CONTENT"
  /\ x.m_linger = TRUE /\ x.m_url = "file" /\ x.m_content_length = 2
  /\ x.m_start_line >= 11

(* It never gets over the first character that is no end of line.            *)
Stuck(x) ==
  x.m_start_line = 0 /\ x.m_checked_idx <= 1 /\ x.m_check_state = "REQUESTLINE"

Understands(x, k) ==
  IF k \in BadLines THEN Stuck(x)
  ELSE (\E i \in 0..NLines[k] : HeadAt(x, k, i)) \/ BodyAhead(x, k)

(* A round of the loop in a line of the request.                             *)
LEMMA HeadLine ==
  ASSUME NEW x, ParserInv(x), NEW k \in Good, NEW i \in 0..NLines[k],
         HeadAt(x, k, i), Holds(x, Message[k])
  PROVE  LET m == Message[k]
             e == LineEnd(k, i) IN
         /\ ~Content(x)
         /\ ParseLine(x).status = "OK" =>
              /\ ReadIdx(x) >= e + 2
              /\ ParseLine(x).checked = e + 2
              /\ Text(x) = IF i = NLines[k] THEN "NUL" ELSE m[3 * i + 1]
              /\ Holds(NextLine(x), m)
         /\ ParseLine(x).status # "OK" =>
              /\ ReadIdx(x) <= e + 1
              /\ HeadAt(TakeLine(x), k, i)
              /\ Holds(TakeLine(x), m)
  <1> DEFINE m == Message[k]
             e == LineEnd(k, i)
             n == ReadIdx(x)
             s == x.m_start_line
             l == ParseLine(x)
  <1>1. /\ s = 3 * i /\ e \in Nat /\ s \in Nat /\ s <= e /\ e + 2 <= Len(m)
        /\ m[e + 1] = "CR" /\ m[e + 2] = "LF"
        /\ \A p \in s..(e - 1) : m[p + 1] \notin {"CR", "LF", "NUL"}
        /\ s = e <=> i = NLines[k]
        /\ x.m_checked_idx <= e
    BY GoodLine, Shapes DEF HeadAt
  <1>2. n \in Nat /\ Len(m) \in Nat /\ n <= Len(m) /\ m \in Seq(Tokens)
        /\ ParserOK(x)
    BY LenProperties DEF ParserInv, ParserOK, ParserStates, ReadIdx, Holds
  <1> HIDE DEF m, e, n, s
  <1>3. /\ n <= e => l = Found("OPEN", n, {})
        /\ n = e + 1 => l = Found("OPEN", e, {})
        /\ n >= e + 2 => l = Found("OK", e + 2, {e, e + 1})
    BY <1>1, LineLooked DEF m, e, n, s
  <1>4. n <= e \/ n = e + 1 \/ n >= e + 2
    BY <1>1, <1>2
  <1>5. ~Content(x)
    BY DEF HeadAt, Content
  <1>6. ASSUME l.status = "OK"
        PROVE  /\ n >= e + 2 /\ l.checked = e + 2
               /\ Text(x) = IF i = NLines[k] THEN "NUL" ELSE m[3 * i + 1]
               /\ Holds(NextLine(x), m)
    <2>1. n >= e + 2 /\ l = Found("OK", e + 2, {e, e + 1})
      BY <1>3, <1>4, <1>6 DEF Found
    <2>2. l.checked = e + 2
      BY <2>1 DEF Found
    <2>3. /\ Text(x) = IF s = e THEN "NUL" ELSE m[s + 1]
          /\ \A j \in 1..n : j > e + 2 => NextLine(x).m_read_buf[j] = m[j]
      BY <1>1, <2>1, LineText DEF m, n, s
    <2>4. /\ ReadIdx(NextLine(x)) = n /\ NextLine(x).m_start_line = e + 2
      BY <1>2, <2>2, LineLeft DEF n
    <2>5. Holds(NextLine(x), m)
      BY <1>2, <2>3, <2>4 DEF Holds
    <2>6. QED
      BY <1>1, <2>1, <2>2, <2>3, <2>5
  <1>7. ASSUME l.status # "OK"
        PROVE  /\ n <= e + 1
               /\ HeadAt(TakeLine(x), k, i)
               /\ Holds(TakeLine(x), m)
    <2>1. n <= e + 1 /\ l.nul = {} /\ l.checked <= e
      BY <1>1, <1>2, <1>3, <1>4, <1>7 DEF Found
    <2>2. HeadAt(TakeLine(x), k, i)
      BY <1>2, <2>1, LineTaken DEF HeadAt, e
    <2>3. \A j \in 1..n : TakeLine(x).m_read_buf[j] = x.m_read_buf[j]
      BY <1>2, <2>1, LineTaken DEF n
    <2>4. ReadIdx(TakeLine(x)) = n /\ TakeLine(x).m_start_line = s
      BY <1>2, LineTaken DEF n, s
    <2>5. Holds(TakeLine(x), m)
      BY <1>2, <2>3, <2>4 DEF Holds, m, n, s
    <2>6. QED
      BY <2>1, <2>2, <2>5
  <1>8. QED
    BY <1>5, <1>6, <1>7 DEF m, e, n

(* A round of the loop behind the head: only the body is there, and what     *)
(* parse_line takes of it for the beginning of a line has no end.            *)
LEMMA BodyRound ==
  ASSUME NEW x, ParserInv(x), BodyAhead(x, "post"), Holds(x, Message["post"])
  PROVE  LET m == Message["post"] IN
         /\ x.m_start_line \in 11..13 /\ x.m_checked_idx \in 11..13
         /\ ParseLine(x) = Found("OPEN", ReadIdx(x), {})
         /\ BodyAhead(TakeLine(x), "post") /\ Holds(TakeLine(x), m)
         /\ BodyThere(x) <=> x.m_checked_idx = 11 /\ ReadIdx(x) = 13
         /\ BodyThere(x) => Body(x).m_string = <<"b", "b">>
  <1> DEFINE m == Message["post"]
             n == ReadIdx(x)
             a == x.m_checked_idx
             s == x.m_start_line
  <1>1. m[12] = "b" /\ m[13] = "b" /\ Len(m) = 13
    BY ShapedPost DEF Shaped
  <1>2. /\ ParserOK(x) /\ n \in Nat /\ a \in Nat /\ s \in Nat
        /\ 11 <= s /\ s <= a /\ a <= n /\ n <= 13
        /\ x.m_read_buf \in Seq(Tokens) /\ n = Len(x.m_read_buf)
        /\ m \in Seq(Tokens)
    BY <1>1, LenProperties
       DEF ParserInv, ParserOK, ParserStates, ReadIdx, Holds, BodyAhead
  <1>3. \A p \in s..(n - 1) : x.m_read_buf[p + 1] = "b"
    <2>1. ASSUME NEW p \in s..(n - 1) PROVE x.m_read_buf[p + 1] = "b"
      <3>1. p + 1 \in 1..n /\ p + 1 > s /\ (p + 1 = 12 \/ p + 1 = 13)
        BY <1>2
      <3>2. x.m_read_buf[p + 1] = m[p + 1]
        BY <3>1 DEF Holds
      <3>3. QED
        BY <1>1, <3>1, <3>2
    <2>2. QED
      BY <2>1
  <1>4. LineEnds(x) = {}
    <2>1. \A p \in a..(n - 1) : p \in s..(n - 1)
      BY <1>2
    <2>2. \A p \in a..(n - 1) : Char(x, p) = "b"
      BY <1>3, <2>1 DEF Char
    <2>3. QED
      BY <2>2 DEF LineEnds
  <1>5. ParseLine(x) = Found("OPEN", n, {})
    BY <1>4 DEF ParseLine
  <1>6. ParseLine(x).nul = {}
    BY <1>5 DEF Found
  <1>7. BodyAhead(TakeLine(x), "post")
    BY <1>2, LineTaken DEF BodyAhead
  <1>8. Holds(TakeLine(x), m)
    <2>1. /\ ReadIdx(TakeLine(x)) = n /\ TakeLine(x).m_start_line = s
          /\ \A j \in 1..n : TakeLine(x).m_read_buf[j] = x.m_read_buf[j]
      BY <1>2, <1>6, LineTaken
    <2>2. QED
      BY <2>1 DEF Holds
  <1>9. BodyThere(x) <=> a = 11 /\ n = 13
    <2>1. x.m_content_length = 2
      BY DEF BodyAhead
    <2>2. BodyThere(x) <=> n >= 2 + a
      BY <2>1 DEF BodyThere
    <2> HIDE DEF n, a, s
    <2>3. /\ n \in Nat /\ a \in Nat /\ 11 <= a /\ a <= n /\ n <= 13
      BY <1>2
    <2>4. n >= 2 + a => a = 11 /\ n = 13
      BY <2>3
    <2>5. a = 11 /\ n = 13 => n >= 2 + a
      BY <2>3
    <2>6. QED
      BY <2>2, <2>4, <2>5
  <1>10. ASSUME BodyThere(x) PROVE Body(x).m_string = <<"b", "b">>
    <2> DEFINE text == SubSeq(x.m_read_buf, 12, 13)
    <2>1. s = 11 /\ a = 11 /\ n = 13 /\ x.m_content_length = 2
      BY <1>2, <1>9, <1>10 DEF BodyAhead
    <2>2. s + 1 = 12 /\ s + x.m_content_length = 13
      BY <2>1
    <2>3. x \in ParserStates
      BY <1>2 DEF ParserOK
    <2>4. Body(x).m_string = text
      BY <2>2, <2>3 DEF Body, ParserStates
    <2>5. /\ 12 \in 1..(Len(x.m_read_buf) + 1)
          /\ 13 \in (12 - 1)..Len(x.m_read_buf)
      BY <1>2, <2>1
    <2>6. /\ text \in Seq(Tokens) /\ Len(text) = 13 - 12 + 1
          /\ \A j \in 1..(13 - 12 + 1) : text[j] = x.m_read_buf[12 + j - 1]
      BY <1>2, <2>5, SubSeqProperties
    <2> HIDE DEF text
    <2>7. x.m_read_buf[12] = "b" /\ x.m_read_buf[13] = "b"
      <3>1. 11 \in s..(n - 1) /\ 12 \in s..(n - 1)
        BY <2>1
      <3>2. QED
        BY <1>3, <3>1
    <2>8. /\ Len(text) = 2 /\ text[1] = "b" /\ text[2] = "b"
      BY <2>6, <2>7
    <2>9. /\ <<"b", "b">> \in Seq(Tokens) /\ Len(<<"b", "b">>) = 2
          /\ <<"b", "b">>[1] = "b" /\ <<"b", "b">>[2] = "b"
      BY DEF Tokens
    <2>10. \A j \in 1..2 : text[j] = <<"b", "b">>[j]
      <3>1. \A j \in 1..2 : j = 1 \/ j = 2
        OBVIOUS
      <3>2. QED
        BY <2>8, <2>9, <3>1
    <2>11. text = <<"b", "b">>
      BY <2>6, <2>8, <2>9, <2>10, SeqEqual
    <2>12. QED
      BY <2>4, <2>11
  <1>11. QED
    BY <1>2, <1>5, <1>7, <1>8, <1>9, <1>10

(* A bad line is never taken for a line.                                     *)
LEMMA BadRound ==
  ASSUME NEW x, ParserInv(x), NEW k \in BadLines, Stuck(x),
         Holds(x, Message[k])
  PROVE  /\ NoLine(x)
         /\ Stuck(TakeLine(x)) /\ Holds(TakeLine(x), Message[k])
  <1> DEFINE m == Message[k]
             n == ReadIdx(x)
             a == x.m_checked_idx
             i == Min(LineEnds(x))
  <1>1. /\ m[1] = "file" /\ m[2] \in {"CR", "LF"}
        /\ m[2] = "CR" => m[3] = "other"
    <2>1. CASE k = "bareLF"
      BY <2>1 DEF Message, EOL
    <2>2. CASE k = "bareCR"
      BY <2>2 DEF Message, EOL
    <2>3. QED
      BY <2>1, <2>2 DEF BadLines
  <1> HIDE DEF m
  <1>2. ParserOK(x) /\ n \in Nat /\ a \in 0..1 /\ a <= n /\ m \in Seq(Tokens)
    BY LenProperties
       DEF ParserInv, ParserOK, ParserStates, ReadIdx, Stuck, Holds, m
  <1>3. \A p \in 0..(n - 1) : Char(x, p) = m[p + 1]
    <2>1. \A p \in 0..(n - 1) : p + 1 \in 1..n /\ p + 1 > 0
      BY <1>2
    <2>2. QED
      BY <2>1 DEF Holds, Char, Stuck, m
  <1>4. ParseLine(x).status # "OK" /\ ParseLine(x).nul = {}
        /\ ParseLine(x).checked <= 1
    <2>1. CASE n <= 1
      <3>1. LineEnds(x) = {}
        <4>1. ASSUME NEW p \in LineEnds(x) PROVE FALSE
          <5>1. p \in a..(n - 1) /\ Char(x, p) \in {"CR", "LF"}
            BY DEF LineEnds
          <5>2. p = 0 /\ p \in 0..(n - 1) /\ p + 1 = 1
            BY <1>2, <2>1, <5>1
          <5>3. Char(x, p) = "file"
            BY <1>1, <1>3, <5>2
          <5>4. QED
            BY <5>1, <5>3
        <4>2. QED
          BY <4>1
      <3>2. ParseLine(x) = Found("OPEN", n, {})
        BY <3>1 DEF ParseLine
      <3>3. QED
        BY <2>1, <3>2 DEF Found
    <2>2. CASE n > 1
      <3>1. 1 \in a..(n - 1) /\ 1 \in 0..(n - 1) /\ 1 + 1 = 2
        BY <1>2, <2>2
      <3>2. Char(x, 1) = m[2]
        BY <1>3, <3>1
      <3>3. 1 \in LineEnds(x)
        BY <1>1, <3>1, <3>2 DEF LineEnds
      <3>4. /\ i \in a..(n - 1) /\ Char(x, i) \in {"CR", "LF"}
            /\ i <= 1
        BY <1>2, <3>3, FirstEnd
      <3>5. i = 1
        <4>1. CASE i = 0
          <5>1. 0 \in 0..(n - 1) /\ 0 + 1 = 1
            BY <1>2, <2>2
          <5>2. Char(x, 0) = m[1]
            BY <1>3, <5>1
          <5>3. QED
            BY <1>1, <3>4, <4>1, <5>2
        <4>2. QED
          BY <1>2, <3>4, <4>1
      <3>6. CASE m[2] = "CR"
        <4>1. ParseLine(x) = IF 1 + 1 = n THEN Found("OPEN", 1, {})
                             ELSE IF Char(x, 1 + 1) = "LF"
                                  THEN Found("OK", 1 + 2, {1, 1 + 1})
                                  ELSE Found("BAD", 1, {})
          BY <3>2, <3>3, <3>5, <3>6 DEF ParseLine
        <4>2. 1 + 1 # n => 2 \in 0..(n - 1) /\ 1 + 1 = 2 /\ 2 + 1 = 3
          BY <1>2, <2>2
        <4>3. 1 + 1 # n => Char(x, 1 + 1) # "LF"
          BY <1>1, <1>3, <3>6, <4>2
        <4>4. \/ ParseLine(x) = Found("OPEN", 1, {})
              \/ ParseLine(x) = Found("BAD", 1, {})
          BY <4>1, <4>3
        <4>5. QED
          BY <4>4 DEF Found
      <3>7. CASE m[2] = "LF"
        <4>1. ParseLine(x) = Found("BAD", 1, {})
          BY <3>2, <3>3, <3>5, <3>7 DEF ParseLine
        <4>2. QED
          BY <4>1 DEF Found
      <3>8. QED
        BY <1>1, <3>6, <3>7
    <2>3. QED
      BY <1>2, <2>1, <2>2
  <1>5. ~Content(x)
    BY DEF Stuck, Content
  <1>6. Stuck(TakeLine(x))
    BY <1>2, <1>4, LineTaken DEF Stuck
  <1>7. Holds(TakeLine(x), m)
    <2>1. /\ ReadIdx(TakeLine(x)) = n
          /\ TakeLine(x).m_start_line = x.m_start_line
          /\ \A j \in 1..n : TakeLine(x).m_read_buf[j] = x.m_read_buf[j]
      BY <1>2, <1>4, LineTaken
    <2>2. QED
      BY <2>1 DEF Holds, m
  <1>8. QED
    BY <1>4, <1>5, <1>6, <1>7 DEF NoLine, m

(* The fields behind a line that is taken.                                   *)
LEMMA LineFields ==
  ASSUME NEW x, ParserInv(x)
  PROVE  LET y == NextLine(x) IN
    /\ LET z == RequestLine(x) IN
       /\ z.m_read_buf = y.m_read_buf /\ z.m_start_line = y.m_start_line
       /\ z.m_checked_idx = y.m_checked_idx /\ z.m_url = Text(x)
       /\ z.m_check_state = "HEADER" /\ z.m_linger = y.m_linger
       /\ z.m_content_length = y.m_content_length
    /\ LET z == HeaderLine(x) IN
       /\ z.m_read_buf = y.m_read_buf /\ z.m_start_line = y.m_start_line
       /\ z.m_checked_idx = y.m_checked_idx /\ z.m_url = y.m_url
       /\ z.m_check_state = y.m_check_state
       /\ z.m_linger = (y.m_linger \/ Text(x) = "keep")
       /\ z.m_content_length =
            IF Text(x) = "length" THEN BodyLength ELSE y.m_content_length
    /\ LET z == BodyFollows(x) IN
       /\ z.m_read_buf = y.m_read_buf /\ z.m_start_line = y.m_start_line
       /\ z.m_checked_idx = y.m_checked_idx /\ z.m_url = y.m_url
       /\ z.m_check_state = "CONTENT" /\ z.m_linger = y.m_linger
       /\ z.m_content_length = y.m_content_length
    /\ LET z == BodyMissing(x) IN
       /\ z.m_read_buf = x.m_read_buf /\ z.m_start_line = x.m_checked_idx
       /\ z.m_checked_idx = x.m_checked_idx /\ z.m_url = x.m_url
       /\ z.m_check_state = x.m_check_state /\ z.m_linger = x.m_linger
       /\ z.m_content_length = x.m_content_length
    /\ LET z == Body(x) IN
       /\ z.m_url = x.m_url /\ z.m_linger = x.m_linger
       /\ z.m_content_length = x.m_content_length
  <1> DEFINE y == NextLine(x)
             word == Text(x)
             keep == y.m_linger \/ word = "keep"
             length == IF word = "length" THEN BodyLength
                       ELSE y.m_content_length
             text == SubSeq(x.m_read_buf, x.m_start_line + 1,
                            x.m_start_line + x.m_content_length)
             checked == x.m_checked_idx
  <1>1. y \in ParserStates /\ x \in ParserStates
    BY LineLeft DEF ParserInv, ParserOK
  <1>2. /\ RequestLine(x) =
             [y EXCEPT !.m_url = word, !.m_check_state = "HEADER"]
        /\ HeaderLine(x) = [y EXCEPT !.m_linger = keep,
                                     !.m_content_length = length]
        /\ BodyFollows(x) = [y EXCEPT !.m_check_state = "CONTENT"]
        /\ BodyMissing(x) = [x EXCEPT !.m_start_line = checked,
                                      !.line_status = "OPEN"]
        /\ Body(x) = [x EXCEPT !.m_start_line = checked, !.m_string = text]
    BY DEF RequestLine, HeaderLine, BodyFollows, BodyMissing, Body
  <1> HIDE DEF y, keep, length, text
  <1>3. LET z == RequestLine(x) IN
        /\ z.m_read_buf = y.m_read_buf /\ z.m_start_line = y.m_start_line
        /\ z.m_checked_idx = y.m_checked_idx /\ z.m_url = Text(x)
        /\ z.m_check_state = "HEADER" /\ z.m_linger = y.m_linger
        /\ z.m_content_length = y.m_content_length
    BY <1>1, <1>2 DEF ParserStates
  <1>4. LET z == HeaderLine(x) IN
        /\ z.m_read_buf = y.m_read_buf /\ z.m_start_line = y.m_start_line
        /\ z.m_checked_idx = y.m_checked_idx /\ z.m_url = y.m_url
        /\ z.m_check_state = y.m_check_state
        /\ z.m_linger = keep /\ z.m_content_length = length
    BY <1>1, <1>2 DEF ParserStates
  <1>5. LET z == BodyFollows(x) IN
        /\ z.m_read_buf = y.m_read_buf /\ z.m_start_line = y.m_start_line
        /\ z.m_checked_idx = y.m_checked_idx /\ z.m_url = y.m_url
        /\ z.m_check_state = "CONTENT" /\ z.m_linger = y.m_linger
        /\ z.m_content_length = y.m_content_length
    BY <1>1, <1>2 DEF ParserStates
  <1>6. LET z == BodyMissing(x) IN
        /\ z.m_read_buf = x.m_read_buf /\ z.m_start_line = x.m_checked_idx
        /\ z.m_checked_idx = x.m_checked_idx /\ z.m_url = x.m_url
        /\ z.m_check_state = x.m_check_state /\ z.m_linger = x.m_linger
        /\ z.m_content_length = x.m_content_length
    BY <1>1, <1>2 DEF ParserStates
  <1>7. LET z == Body(x) IN
        /\ z.m_url = x.m_url /\ z.m_linger = x.m_linger
        /\ z.m_content_length = x.m_content_length
    BY <1>1, <1>2 DEF ParserStates
  <1>8. QED
    BY <1>3, <1>4, <1>5, <1>6, <1>7 DEF y, keep, length

(* Which line it is, when there is one.                                      *)
LEMMA WhichLine ==
  ASSUME NEW x, ParserInv(x), NEW k \in Names, Understands(x, k),
         Holds(x, Message[k]), ~NoLine(x), ~Content(x)
  PROVE  /\ k \in Good
         /\ \E i \in 0..NLines[k] :
              /\ HeadAt(x, k, i)
              /\ Text(x) = IF i = NLines[k] THEN "NUL"
                           ELSE Message[k][3 * i + 1]
              /\ ReadIdx(x) >= LineEnd(k, i) + 2
              /\ Holds(NextLine(x), Message[k])
              /\ NextLine(x).m_start_line = LineEnd(k, i) + 2
              /\ NextLine(x).m_checked_idx = LineEnd(k, i) + 2
  <1>1. ParseLine(x).status = "OK"
    BY DEF NoLine
  <1>2. k \notin BadLines
    BY BadRound DEF Understands
  <1>3. k \in Good
    BY <1>2 DEF Good
  <1>4. ~BodyAhead(x, k)
    <2>1. SUFFICES ASSUME BodyAhead(x, k) PROVE FALSE
      OBVIOUS
    <2>2. k = "post"
      BY <2>1 DEF BodyAhead
    <2>3. ParseLine(x) = Found("OPEN", ReadIdx(x), {})
      BY <2>1, <2>2, BodyRound
    <2>4. QED
      BY <1>1, <2>3 DEF Found
  <1>5. PICK i \in 0..NLines[k] : HeadAt(x, k, i)
    BY <1>2, <1>4 DEF Understands
  <1>6. /\ ReadIdx(x) >= LineEnd(k, i) + 2
        /\ ParseLine(x).checked = LineEnd(k, i) + 2
        /\ Text(x) = IF i = NLines[k] THEN "NUL" ELSE Message[k][3 * i + 1]
        /\ Holds(NextLine(x), Message[k])
    BY <1>1, <1>3, <1>5, HeadLine
  <1>7. /\ NextLine(x).m_start_line = LineEnd(k, i) + 2
        /\ NextLine(x).m_checked_idx = LineEnd(k, i) + 2
    BY <1>6, LineLeft DEF ParserInv
  <1>8. QED
    BY <1>3, <1>5, <1>6, <1>7

(* The buffer, under the parser's fields.                                    *)
LEMMA HoldsFrame ==
  ASSUME NEW x, NEW y, NEW m, Holds(y, m),
         x.m_read_buf = y.m_read_buf, x.m_start_line = y.m_start_line
  PROVE  Holds(x, m)
  BY DEF Holds, ReadIdx

(* A round of the loop that does not end it.                                 *)
LEMMA RoundKeeps ==
  ASSUME NEW x, ParserInv(x), NEW k \in Names, Understands(x, k),
         Holds(x, Message[k]),
         NEW z,
         \/ NoLine(x) /\ z = TakeLine(x)
         \/ LineFor(x, "REQUESTLINE") /\ GoodTarget(x) /\ z = RequestLine(x)
         \/ LineFor(x, "HEADER") /\ Text(x) # "NUL" /\ z = HeaderLine(x)
         \/ /\ LineFor(x, "HEADER") /\ Text(x) = "NUL" /\ x.m_content_length # 0
            /\ z = BodyFollows(x)
         \/ Content(x) /\ ~BodyThere(x) /\ z = BodyMissing(x)
  PROVE  Understands(z, k) /\ Holds(z, Message[k])
  <1> DEFINE m == Message[k]
             y == NextLine(x)
  <1>1. CASE NoLine(x) /\ z = TakeLine(x)
    <2>1. CASE k \in BadLines
      BY <1>1, <2>1, BadRound DEF Understands
    <2>2. CASE k \notin BadLines /\ BodyAhead(x, k)
      <3>1. k = "post"
        BY <2>2 DEF BodyAhead
      <3>2. QED
        BY <1>1, <2>2, <3>1, BodyRound DEF Understands
    <2>3. CASE k \notin BadLines /\ ~BodyAhead(x, k)
      <3>1. k \in Good
        BY <2>3 DEF Good
      <3>2. PICK i \in 0..NLines[k] : HeadAt(x, k, i)
        BY <2>3 DEF Understands
      <3>3. ~Content(x)
        BY <3>1, <3>2, HeadLine
      <3>4. HeadAt(z, k, i) /\ Holds(z, m)
        BY <1>1, <3>1, <3>2, <3>3, HeadLine DEF NoLine
      <3>5. QED
        BY <2>3, <3>4 DEF Understands
    <2>4. QED
      BY <2>1, <2>2, <2>3
  <1>2. CASE /\ \/ /\ LineFor(x, "REQUESTLINE") /\ GoodTarget(x)
                   /\ z = RequestLine(x)
                \/ LineFor(x, "HEADER") /\ Text(x) # "NUL" /\ z = HeaderLine(x)
                \/ /\ LineFor(x, "HEADER") /\ Text(x) = "NUL"
                   /\ x.m_content_length # 0 /\ z = BodyFollows(x)
    <2>1. ~NoLine(x) /\ ~Content(x)
      BY <1>2 DEF LineFor, NoLine
    <2>2. k \in Good /\ k \notin BadLines
      BY <2>1, WhichLine DEF Good
    <2>3. PICK i \in 0..NLines[k] :
            /\ HeadAt(x, k, i)
            /\ Text(x) = IF i = NLines[k] THEN "NUL" ELSE m[3 * i + 1]
            /\ Holds(y, m)
            /\ y.m_start_line = LineEnd(k, i) + 2
            /\ y.m_checked_idx = LineEnd(k, i) + 2
      BY <2>1, WhichLine
    <2>4. /\ y.m_linger = x.m_linger /\ y.m_url = x.m_url
          /\ y.m_content_length = x.m_content_length
          /\ y.m_check_state = x.m_check_state
      BY LineLeft DEF ParserInv
    <2>5. NLines[k] \in 1..4 /\ Shaped(k) /\ (m[1] = "junk" <=> k = "junk")
      BY <2>2, Shapes
    <2>6. /\ i \in Nat /\ i <= NLines[k]
          /\ i < NLines[k] => LineEnd(k, i) + 2 = 3 * (i + 1)
          /\ i = NLines[k] => LineEnd(k, i) + 2 = BodyAt(k)
      BY <2>2, <2>5, GoodLine
    <2>7. ASSUME i < NLines[k]
          PROVE  /\ i + 1 \in 0..NLines[k] /\ i + 1 # 0 /\ i + 1 > 0
                 /\ y.m_start_line = 3 * (i + 1)
                 /\ y.m_checked_idx <= LineEnd(k, i + 1)
      BY <2>3, <2>5, <2>6, <2>7 DEF LineEnd
    <2> HIDE DEF y, m
    <2>8. CASE LineFor(x, "REQUESTLINE") /\ GoodTarget(x) /\ z = RequestLine(x)
      <3>1. i = 0 /\ i < NLines[k]
        BY <2>3, <2>5, <2>8 DEF HeadAt, LineFor
      <3>2. 3 * i + 1 = 1 /\ i # NLines[k]
        BY <2>5, <3>1
      <3>3. Text(x) = m[1]
        BY <2>3, <3>2
      <3>4. k # "junk"
        BY <2>5, <2>8, <3>3 DEF GoodTarget
      <3>5. /\ z.m_read_buf = y.m_read_buf /\ z.m_start_line = y.m_start_line
            /\ z.m_checked_idx = y.m_checked_idx /\ z.m_url = m[1]
            /\ z.m_check_state = "HEADER" /\ z.m_linger = x.m_linger
            /\ z.m_content_length = x.m_content_length
        BY <2>4, <2>8, <3>3, LineFields DEF y
      <3>6. ~(i >= 2) /\ ~(i >= 3) /\ ~(i + 1 >= 2) /\ ~(i + 1 >= 3)
        BY <3>1
      <3>7. /\ z.m_linger = (Keeps[k] /\ i + 1 >= 2)
            /\ z.m_content_length = IF k = "post" /\ i + 1 >= 3 THEN 2 ELSE 0
        BY <2>3, <3>5, <3>6 DEF HeadAt
      <3>8. HeadAt(z, k, i + 1)
        BY <2>7, <3>1, <3>4, <3>5, <3>7 DEF HeadAt, m
      <3>9. Holds(z, m)
        BY <2>3, <3>5, HoldsFrame
      <3>10. QED
        BY <2>2, <2>7, <3>1, <3>8, <3>9 DEF Understands, m
    <2>9. CASE LineFor(x, "HEADER") /\ Text(x) # "NUL" /\ z = HeaderLine(x)
      <3>1. x.m_check_state = "HEADER" /\ i # 0 /\ i # NLines[k]
        BY <2>3, <2>9 DEF HeadAt, LineFor
      <3>2. i < NLines[k] /\ i \in 1..(NLines[k] - 1) /\ i > 0
        BY <2>5, <2>6, <3>1
      <3>3. Text(x) = m[3 * i + 1] /\ k # "junk" /\ x.m_url = m[1]
        BY <2>3, <3>1, <3>2 DEF HeadAt, m
      <3>4. /\ Text(x) = "keep" <=> Keeps[k] /\ i = 1
            /\ Text(x) = "length" <=> k = "post" /\ i = 2
        BY <2>2, <3>2, <3>3, Shapes DEF m
      <3>5. /\ z.m_read_buf = y.m_read_buf /\ z.m_start_line = y.m_start_line
            /\ z.m_checked_idx = y.m_checked_idx /\ z.m_url = m[1]
            /\ z.m_check_state = "HEADER"
            /\ z.m_linger = (x.m_linger \/ Text(x) = "keep")
            /\ z.m_content_length =
                 IF Text(x) = "length" THEN 2 ELSE x.m_content_length
        BY <2>4, <2>9, <3>1, <3>3, LineFields DEF y, BodyLength
      <3>6. /\ i + 1 >= 2 /\ (i >= 2 \/ i = 1)
            /\ i + 1 >= 3 <=> i >= 3 \/ i = 2
        BY <2>6, <3>2
      <3>7. z.m_linger = (Keeps[k] /\ i + 1 >= 2)
        BY <2>3, <3>4, <3>5, <3>6 DEF HeadAt
      <3>8. z.m_content_length = IF k = "post" /\ i + 1 >= 3 THEN 2 ELSE 0
        BY <2>3, <3>4, <3>5, <3>6 DEF HeadAt
      <3>9. HeadAt(z, k, i + 1)
        BY <2>7, <3>2, <3>3, <3>5, <3>7, <3>8 DEF HeadAt, m
      <3>10. Holds(z, m)
        BY <2>3, <3>5, HoldsFrame
      <3>11. QED
        BY <2>2, <2>7, <3>2, <3>9, <3>10 DEF Understands, m
    <2>10. CASE /\ LineFor(x, "HEADER") /\ Text(x) = "NUL"
                /\ x.m_content_length # 0 /\ z = BodyFollows(x)
      <3>1. k = "post" /\ i >= 3
        BY <2>3, <2>10 DEF HeadAt
      <3>2. i = 3 /\ i > 0 /\ i >= 2 /\ NLines[k] = 3 /\ BodyAt(k) = 11
        BY <2>6, <3>1, LineCount DEF BodyAt
      <3>3. Keeps[k]
        BY <2>2, <3>1, Shapes
      <3>4. m[1] = "file"
        BY <3>1, ShapedPost DEF m
      <3>5. x.m_linger = TRUE /\ x.m_url = "file" /\ x.m_content_length = 2
        BY <2>3, <3>1, <3>2, <3>3, <3>4 DEF HeadAt, m
      <3>6. /\ z.m_read_buf = y.m_read_buf /\ z.m_start_line = y.m_start_line
            /\ z.m_linger = x.m_linger /\ z.m_url = x.m_url
            /\ z.m_content_length = x.m_content_length
            /\ z.m_check_state = "CONTENT"
        BY <2>4, <2>10, LineFields DEF y
      <3>7. z.m_start_line >= 11
        BY <2>3, <2>6, <3>2, <3>6 DEF y
      <3>8. BodyAhead(z, k)
        BY <3>1, <3>5, <3>6, <3>7 DEF BodyAhead
      <3>9. Holds(z, m)
        BY <2>3, <3>6, HoldsFrame
      <3>10. QED
        BY <2>2, <3>8, <3>9 DEF Understands, m
    <2>11. QED
      BY <1>2, <2>8, <2>9, <2>10
  <1>3. CASE Content(x) /\ ~BodyThere(x) /\ z = BodyMissing(x)
    <2>1. k = "post" /\ BodyAhead(x, k) /\ k \notin BadLines
      BY <1>3 DEF Content, Understands, Stuck, HeadAt, BodyAhead
    <2>2. /\ x.m_start_line \in 11..13 /\ x.m_checked_idx \in 11..13
          /\ x.m_start_line <= x.m_checked_idx
      BY <2>1, BodyRound DEF ParserInv, ParserOK
    <2>3. /\ z.m_read_buf = x.m_read_buf /\ z.m_start_line = x.m_checked_idx
          /\ z.m_url = x.m_url /\ z.m_check_state = x.m_check_state
          /\ z.m_linger = x.m_linger /\ z.m_content_length = x.m_content_length
      BY <1>3, LineFields
    <2>4. z.m_start_line >= 11
      BY <2>2, <2>3
    <2>5. BodyAhead(z, k)
      BY <2>1, <2>3, <2>4 DEF BodyAhead
    <2>6. Holds(z, m)
      <3>1. ReadIdx(z) = ReadIdx(x)
        BY <2>3 DEF ReadIdx
      <3>2. ASSUME NEW j \in 1..ReadIdx(x), j > x.m_checked_idx
            PROVE  j > x.m_start_line
        BY <2>2, <3>2
      <3>3. QED
        BY <2>3, <3>1, <3>2 DEF Holds
    <2>7. QED
      BY <2>1, <2>5, <2>6 DEF Understands
  <1>4. QED
    BY <1>1, <1>2, <1>3

(* parse_request_line refuses only the message that is no request.           *)
LEMMA Refused ==
  ASSUME NEW x, ParserInv(x), NEW k \in Names, Understands(x, k),
         Holds(x, Message[k]), LineFor(x, "REQUESTLINE"), ~GoodTarget(x)
  PROVE  /\ k = "junk" /\ NextLine(x).m_linger = FALSE
         /\ NextLine(x).m_content_length = 0
  <1>1. ~NoLine(x) /\ ~Content(x)
    BY DEF LineFor, NoLine
  <1>2. k \in Good
    BY <1>1, WhichLine
  <1>3. PICK i \in 0..NLines[k] :
          /\ HeadAt(x, k, i)
          /\ Text(x) = IF i = NLines[k] THEN "NUL" ELSE Message[k][3 * i + 1]
    BY <1>1, WhichLine
  <1>4. /\ NLines[k] \in 1..4 /\ Shaped(k)
        /\ Message[k][1] = "junk" <=> k = "junk"
    BY <1>2, Shapes
  <1>5. i = 0
    BY <1>3 DEF HeadAt, LineFor
  <1>6. 3 * i + 1 = 1 /\ i # NLines[k] /\ ~(i >= 2) /\ ~(i >= 3)
    BY <1>4, <1>5
  <1>7. Text(x) = Message[k][1] /\ Message[k][1] \in Targets
    BY <1>3, <1>4, <1>6 DEF Shaped
  <1>8. k = "junk"
    BY <1>4, <1>7 DEF GoodTarget
  <1>9. x.m_linger = FALSE /\ x.m_content_length = 0
    BY <1>3, <1>6 DEF HeadAt
  <1>10. QED
    BY <1>8, <1>9, LineLeft DEF ParserInv

(* What do_request is called with is what the message says as a whole, and   *)
(* the message has come completely.                                          *)
LEMMA Requested ==
  ASSUME NEW x, ParserInv(x), NEW k \in Names, Understands(x, k),
         Holds(x, Message[k]),
         NEW z,
         \/ /\ LineFor(x, "HEADER") /\ Text(x) = "NUL" /\ x.m_content_length = 0
            /\ z = NextLine(x)
         \/ Content(x) /\ BodyThere(x) /\ z = Body(x)
  PROVE  /\ k \in Good \ {"junk"}
         /\ x.m_url = Message[k][1] /\ z.m_url = Message[k][1]
         /\ z.m_linger = Keeps[k]
         /\ z.m_content_length > 0 => z.m_string = <<"b", "b">>
         /\ ReadIdx(x) = Len(Message[k])
  <1>1. ReadIdx(x) \in Nat /\ ReadIdx(x) <= Len(Message[k])
        /\ Len(Message[k]) \in Nat
    BY LenProperties DEF Holds, ParserInv, ParserOK, ParserStates, ReadIdx
  <1>2. CASE /\ LineFor(x, "HEADER") /\ Text(x) = "NUL"
             /\ x.m_content_length = 0 /\ z = NextLine(x)
    <2>1. ~NoLine(x) /\ ~Content(x)
      BY <1>2 DEF LineFor, NoLine
    <2>2. k \in Good
      BY <2>1, WhichLine
    <2>3. PICK i \in 0..NLines[k] :
            /\ HeadAt(x, k, i)
            /\ Text(x) = IF i = NLines[k] THEN "NUL" ELSE Message[k][3 * i + 1]
            /\ ReadIdx(x) >= LineEnd(k, i) + 2
      BY <2>1, WhichLine
    <2>4. /\ NLines[k] \in 1..4 /\ Shaped(k)
          /\ Keeps[k] => NLines[k] >= 2
          /\ Keeps[k] \in BOOLEAN
      BY <2>2, Shapes, MessageTokens DEF Keeps, Good
    <2>5. i # 0 /\ i \in Nat /\ i > 0
      <3>1. i # 0
        BY <1>2, <2>3 DEF HeadAt, LineFor
      <3>2. QED
        BY <2>4, <3>1
    <2>6. i = NLines[k]
      <3>1. SUFFICES ASSUME i # NLines[k] PROVE FALSE
        OBVIOUS
      <3>2. i \in 1..(NLines[k] - 1)
        BY <2>4, <2>5, <3>1
      <3>3. Message[k][3 * i + 1] \in {"keep", "length", "other"}
        BY <2>4, <3>2 DEF Shaped
      <3>4. QED
        BY <1>2, <2>3, <3>1, <3>3
    <2>7. k # "post"
      <3>1. SUFFICES ASSUME k = "post" PROVE FALSE
        OBVIOUS
      <3>2. i >= 3
        BY <2>6, <3>1, LineCount
      <3>3. QED
        BY <1>2, <2>3, <3>1, <3>2 DEF HeadAt
    <2>8. k # "junk" /\ x.m_url = Message[k][1]
      BY <2>3, <2>5 DEF HeadAt
    <2>9. x.m_linger = Keeps[k]
      BY <2>3, <2>4, <2>6 DEF HeadAt
    <2>10. LineEnd(k, i) + 2 = BodyAt(k)
      BY <2>2, <2>6, GoodLine
    <2>11. BodyAt(k) = Len(Message[k])
      BY <2>4, <2>7 DEF Shaped
    <2>12. ReadIdx(x) = Len(Message[k])
      BY <1>1, <2>3, <2>10, <2>11
    <2>13. /\ z.m_url = x.m_url /\ z.m_linger = x.m_linger
           /\ z.m_content_length = 0
      BY <1>2, LineLeft DEF ParserInv
    <2>14. QED
      BY <2>2, <2>8, <2>9, <2>12, <2>13
  <1>3. CASE Content(x) /\ BodyThere(x) /\ z = Body(x)
    <2>1. k = "post" /\ BodyAhead(x, k) /\ k \in Good
      BY <1>3 DEF Content, Understands, Stuck, HeadAt, BodyAhead, Good
    <2>2. ReadIdx(x) = 13 /\ z.m_string = <<"b", "b">>
      BY <1>3, <2>1, BodyRound
    <2>3. Len(Message[k]) = 13 /\ Message[k][1] = "file"
      BY <2>1, ShapedPost DEF Shaped
    <2>4. Keeps[k] = TRUE
      BY <2>1, MessageTokens DEF Keeps, Names
    <2>5. z.m_url = x.m_url /\ z.m_linger = x.m_linger
      BY <1>3, LineFields
    <2>6. QED
      BY <2>1, <2>2, <2>3, <2>4, <2>5 DEF BodyAhead
  <1>4. QED
    BY <1>2, <1>3

-----------------------------------------------------------------------------
(* A message on its way: what was read, what is in the socket, and what the  *)
(* network still has, one behind the other.                                  *)
Arrives(x, so, td, m) ==
  /\ ReadIdx(x) + Len(so) + Len(td) = Len(m)
  /\ \A i \in 1..Len(so) : so[i] = m[ReadIdx(x) + i]
  /\ \A i \in 1..Len(td) : td[i] = m[ReadIdx(x) + Len(so) + i]

(* The network delivers a part of it.                                        *)
LEMMA ArrivesDeliver ==
  ASSUME NEW x, ReadIdx(x) \in Nat, NEW m,
         NEW so \in Seq(Tokens), NEW td \in Seq(Tokens),
         Arrives(x, so, td, m),
         NEW n \in 1..Len(td)
  PROVE  Arrives(x, so \o SubSeq(td, 1, n), SubSeq(td, n + 1, Len(td)), m)
  <1> DEFINE t == SubSeq(td, 1, n)
             u == SubSeq(td, n + 1, Len(td))
             v == so \o t
             d == ReadIdx(x)
  <1>1. /\ Len(td) \in Nat /\ Len(so) \in Nat
        /\ n \in Nat /\ n <= Len(td) /\ n >= 1
    BY LenProperties
  <1>2. /\ 1 \in 1..(Len(td) + 1) /\ n \in (1 - 1)..Len(td)
        /\ n + 1 \in 1..(Len(td) + 1) /\ Len(td) \in (n + 1 - 1)..Len(td)
    BY <1>1
  <1>3. /\ t \in Seq(Tokens) /\ Len(t) = n - 1 + 1
        /\ \A i \in 1..(n - 1 + 1) : t[i] = td[1 + i - 1]
    BY <1>2, SubSeqProperties
  <1>4. /\ u \in Seq(Tokens) /\ Len(u) = Len(td) - (n + 1) + 1
        /\ \A i \in 1..(Len(td) - (n + 1) + 1) : u[i] = td[n + 1 + i - 1]
    BY <1>2, SubSeqProperties
  <1> HIDE DEF t, u
  <1>5. /\ n - 1 + 1 = n /\ Len(td) - (n + 1) + 1 = Len(td) - n
        /\ \A i \in 1..n : 1 + i - 1 = i
        /\ \A i \in 1..(Len(td) - n) : n + 1 + i - 1 = n + i
    BY <1>1
  <1>6. Len(t) = n /\ Len(u) = Len(td) - n
    BY <1>3, <1>4, <1>5
  <1>7. \A i \in 1..n : t[i] = td[i]
    BY <1>3, <1>5
  <1>8. \A i \in 1..(Len(td) - n) : u[i] = td[n + i]
    BY <1>4, <1>5
  <1>9. /\ v \in Seq(Tokens) /\ Len(v) = Len(so) + n
        /\ \A i \in 1..Len(so) : v[i] = so[i]
        /\ \A i \in 1..(Len(so) + n) : i > Len(so) => v[i] = t[i - Len(so)]
    <2>1. t \in Seq(Tokens)
      BY <1>3
    <2>2. /\ so \o t \in Seq(Tokens) /\ Len(so \o t) = Len(so) + Len(t)
          /\ \A i \in 1..Len(so) : (so \o t)[i] = so[i]
          /\ \A i \in 1..(Len(so) + Len(t)) :
               i > Len(so) => (so \o t)[i] = t[i - Len(so)]
      BY <2>1, Joined
    <2>3. QED
      BY <1>6, <2>2
  <1> HIDE DEF v
  <1>10. d + Len(v) + Len(u) = Len(m)
    <2>1. d + Len(so) + Len(td) = Len(m)
      BY DEF Arrives
    <2>2. QED
      BY <1>1, <1>6, <1>9, <2>1
  <1>11. ASSUME NEW i \in 1..Len(v)
         PROVE  v[i] = m[d + i]
    <2>1. CASE i <= Len(so)
      <3>1. i \in 1..Len(so)
        BY <1>1, <2>1
      <3>2. QED
        BY <1>9, <3>1 DEF Arrives
    <2>2. CASE ~(i <= Len(so))
      <3>1. /\ i - Len(so) \in 1..n /\ i > Len(so) /\ i \in 1..(Len(so) + n)
            /\ i - Len(so) \in 1..Len(td)
            /\ d + Len(so) + (i - Len(so)) = d + i
        BY <1>1, <1>9, <2>2
      <3>2. v[i] = td[i - Len(so)]
        BY <1>7, <1>9, <3>1
      <3>3. td[i - Len(so)] = m[d + Len(so) + (i - Len(so))]
        BY <3>1 DEF Arrives
      <3>4. QED
        BY <3>1, <3>2, <3>3
    <2>3. QED
      BY <2>1, <2>2
  <1>12. ASSUME NEW i \in 1..Len(u)
         PROVE  u[i] = m[d + Len(v) + i]
    <2>1. /\ i \in 1..(Len(td) - n) /\ n + i \in 1..Len(td)
          /\ d + Len(so) + (n + i) = d + Len(v) + i
      BY <1>1, <1>6, <1>9
    <2>2. u[i] = td[n + i]
      BY <1>8, <2>1
    <2>3. td[n + i] = m[d + Len(so) + (n + i)]
      BY <2>1 DEF Arrives
    <2>4. QED
      BY <2>1, <2>2, <2>3
  <1>13. QED
    BY <1>10, <1>11, <1>12 DEF Arrives, t, u, v

(* read_once takes what is in the socket.                                    *)
LEMMA ArrivesRead ==
  ASSUME NEW x, ParserInv(x), NEW k \in Names, Holds(x, Message[k]),
         Understands(x, k),
         NEW so \in Seq(Tokens), NEW td \in Seq(Tokens),
         Arrives(x, so, td, Message[k])
  PROVE  LET y == Receive(x, so) IN
         /\ Arrives(y, <<>>, td, Message[k])
         /\ Holds(y, Message[k]) /\ Understands(y, k)
  <1> DEFINE y == Receive(x, so)
             m == Message[k]
             d == ReadIdx(x)
             l == Len(so)
  <1>1. /\ x.m_read_buf \in Seq(Tokens) /\ d = Len(x.m_read_buf) /\ d \in Nat
        /\ l \in Nat /\ Len(td) \in Nat /\ m \in Seq(Tokens) /\ Len(m) \in Nat
        /\ x \in ParserStates
    BY LenProperties DEF ParserInv, ParserOK, ParserStates, ReadIdx, Holds
  <1>2. y.m_read_buf = x.m_read_buf \o so /\ ReadIdx(y) = d + l
    BY ReadKeeps
  <1>3. /\ y.m_start_line = x.m_start_line /\ y.m_checked_idx = x.m_checked_idx
        /\ y.m_check_state = x.m_check_state /\ y.m_url = x.m_url
        /\ y.m_linger = x.m_linger /\ y.m_content_length = x.m_content_length
    BY <1>1 DEF Receive, ParserStates
  <1> HIDE DEF y
  <1>4. Understands(y, k)
    BY <1>3 DEF Understands, Stuck, HeadAt, BodyAhead
  <1>5. Len(<<>>) = 0 /\ 1..0 = {}
    BY EmptySeq
  <1> HIDE DEF m, d, l
  <1>6. d + l + Len(td) = Len(m)
    BY DEF Arrives, m, d, l
  <1>7. Arrives(y, <<>>, td, m)
    <2>1. ReadIdx(y) + 0 + Len(td) = Len(m)
      BY <1>1, <1>2, <1>6
    <2>2. ReadIdx(y) + 0 = d + l
      BY <1>1, <1>2
    <2>3. \A i \in 1..Len(td) : td[i] = m[d + l + i]
      BY DEF Arrives, m, d, l
    <2>4. QED
      BY <1>5, <2>1, <2>2, <2>3 DEF Arrives
  <1>8. ASSUME NEW i \in 1..(d + l), i > x.m_start_line
        PROVE  y.m_read_buf[i] = m[i]
    <2>1. /\ \A j \in 1..d : y.m_read_buf[j] = x.m_read_buf[j]
          /\ \A j \in 1..(d + l) : j > d => y.m_read_buf[j] = so[j - d]
      BY <1>1, <1>2, Joined DEF l
    <2>2. CASE i <= d
      <3>1. i \in 1..d
        BY <1>1, <2>2
      <3>2. x.m_read_buf[i] = m[i]
        BY <1>8, <3>1 DEF Holds, d, m
      <3>3. QED
        BY <2>1, <3>1, <3>2
    <2>3. CASE ~(i <= d)
      <3>1. i > d /\ i - d \in 1..l /\ d + (i - d) = i
        BY <1>1, <2>3
      <3>2. so[i - d] = m[d + (i - d)]
        BY <3>1 DEF Arrives, d, l, m
      <3>3. QED
        BY <2>1, <3>1, <3>2
    <2>4. QED
      BY <2>2, <2>3
  <1>9. Holds(y, m)
    <2>1. d + l <= Len(m)
      BY <1>1, <1>6
    <2>2. QED
      BY <1>1, <1>2, <1>3, <1>8, <2>1 DEF Holds
  <1>10. QED
    BY <1>4, <1>7, <1>9 DEF y, m

-----------------------------------------------------------------------------
(* The invariant that relates the server to what the client has sent.        *)

(* A client has at most one request that is not answered.                    *)
AskedInv == Len(answered) <= Len(asked) /\ Len(asked) <= Len(answered) + 1

(* Between two requests nothing is left of the one before; a thread works    *)
(* on a request only.  (When a timer_flag was missed, the parser has not     *)
(* been cleared, and what it makes of the next bytes is thrown away.)        *)
IdleInv ==
  ~missed =>
    /\ pc = "epollin" /\ ~Waiting => c = Cleared /\ socket = <<>> /\ todo = <<>>
    /\ pc \in {"parse", "build", "epollout", "write"} => Waiting

StreamInv ==
  ~missed /\ pc \in {"epollin", "parse"} /\ Waiting =>
    /\ Holds(c, Message[Oldest]) /\ Understands(c, Oldest)
    /\ Arrives(c, socket, todo, Message[Oldest])

(* What the server goes by while it answers.  A request that it was refused, *)
(* or that does not ask to be kept, need not have come completely.           *)
BuildInv ==
  ~missed /\ pc \in {"build", "epollout", "write"} =>
    /\ Oldest \in Good
    /\ c.m_linger = Keeps[Oldest]
    /\ Keeps[Oldest] => socket = <<>> /\ todo = <<>>
    /\ IF Oldest = "junk" THEN ret = "BAD_REQUEST"
       ELSE /\ c.m_url = Message[Oldest][1] /\ ret = Lookup[c.m_url]
            /\ Len(Message[Oldest]) < READ_BUFFER_SIZE
    /\ c.m_content_length > 0 => c.m_string = <<"b", "b">>

RequestInv == AskedInv /\ IdleInv /\ StreamInv /\ BuildInv

(* The oldest request is one of the messages.                                *)
LEMMA OldestKnown ==
  ASSUME ConnInv, RequestInv
  PROVE  /\ Len(asked) \in Nat /\ Len(answered) \in Nat
         /\ Waiting => Oldest \in Names /\ Len(asked) = Len(answered) + 1
         /\ ~Waiting => Len(asked) = Len(answered)
  <1>1. asked \in Seq(DOMAIN Message)
    BY DEF ConnInv, PeerInv
  <1>2. Len(asked) \in Nat
    BY <1>1, LenProperties
  <1>3. Len(answered) \in Nat
    BY LenProperties DEF ConnInv, PeerInv
  <1>4. QED
    <2>1. Waiting => Len(answered) + 1 \in 1..Len(asked)
      BY <1>2, <1>3 DEF Waiting
    <2>2. Waiting => Oldest \in DOMAIN Message
      BY <1>1, <2>1, ElementOfSeq DEF Oldest
    <2>3. Waiting => Len(asked) = Len(answered) + 1
      BY <1>2, <1>3 DEF Waiting, RequestInv, AskedInv
    <2>4. ~Waiting => Len(asked) = Len(answered)
      BY <1>2, <1>3 DEF Waiting, RequestInv, AskedInv
    <2>5. QED
      BY <1>2, <1>3, <2>2, <2>3, <2>4, MessageTokens

(* All is as it was, for the request that is oldest.                         *)
LEMMA SameOldest ==
  ASSUME UNCHANGED <<asked, answered>>
  PROVE  (Waiting' <=> Waiting) /\ Oldest' = Oldest
  BY DEF Waiting, Oldest

(* The request that a client sends is then the oldest, and the only one.     *)
LEMMA AskedFirst ==
  ASSUME ConnInv, RequestInv, NEW k \in Kinds, Ask(k)
  PROVE  /\ Waiting' /\ Oldest' = k /\ k \in Names
         /\ Len(asked') = Len(answered) + 1 /\ Len(answered) \in Nat
         /\ ~missed =>
              /\ pc \notin {"parse", "build", "epollout", "write"}
              /\ pc = "epollin" => c = Cleared /\ socket = <<>>
  <1>1. /\ ~Waiting /\ asked' = Append(asked, k) /\ UNCHANGED answered
    BY DEF Ask, history
  <1>2. k \in Names
    BY Sizes, MessageTokens
  <1>3. /\ Len(asked') = Len(asked) + 1 /\ asked'[Len(asked) + 1] = k
    BY <1>1, <1>2, AppendProperties, MessageTokens DEF ConnInv, PeerInv
  <1>4. /\ Len(asked) = Len(answered) /\ Len(answered) \in Nat
    BY <1>1, OldestKnown
  <1>5. Waiting' /\ Oldest' = k
    BY <1>1, <1>3, <1>4 DEF Waiting, Oldest
  <1>6. QED
    BY <1>1, <1>2, <1>3, <1>4, <1>5 DEF RequestInv, IdleInv

(* A timer_flag that was missed stays set until the next init().             *)
LEMMA FlagStays ==
  ASSUME [Next]_vars, ~Accept
  PROVE  missed => missed'
  <1> USE DEF timers, peerVars, history, Goto
  <1>1. (\E k \in Kinds : Ask(k)) \/ (\E n \in 1..Len(todo) : Deliver(n))
          \/ Leave \/ Drain \/ UNCHANGED vars => UNCHANGED missed
    BY DEF Ask, Deliver, Leave, Drain, vars
  <1>2. EventHup \/ Tick \/ DealTimer \/ Silence \/ ReadOnce \/ ReadFail
          => UNCHANGED missed
    BY DEF EventHup, Tick, DealTimer, Close, Silence, ReadOnce, ReadFail
  <1>3. FlagMissed => (missed => missed')
    BY DEF FlagMissed
  <1>4. NoRequest \/ ParseOn \/ BadRequest \/ DoRequest \/ Respond \/ GiveUp
          => UNCHANGED missed
    BY DEF NoRequest, ParseOn, BadRequest, DoRequest, Respond, GiveUp
  <1>5. EventOut \/ SendPart \/ SendLater \/ SendFails \/ SendRest
          => UNCHANGED missed
    BY DEF EventOut, SendPart, SendLater, AwaitRoom, SendFails, SendRest
  <1>6. QED
    BY <1>1, <1>2, <1>3, <1>4, <1>5 DEF Next, Client, Server

(* What happens after that is of no account for the requests.                *)
LEMMA RequestIgnored ==
  ASSUME ConnInv, RequestInv, missed, [Next]_vars, ~Accept
  PROVE  RequestInv'
  <1>1. missed'
    BY FlagStays
  <1>2. AskedInv'
    <2>1. ASSUME NEW k \in Kinds, Ask(k)
          PROVE  AskedInv'
      <3>1. Len(asked') = Len(answered) + 1 /\ Len(answered) \in Nat
        BY <2>1, AskedFirst
      <3>2. UNCHANGED answered
        BY <2>1 DEF Ask, history
      <3>3. QED
        BY <3>1, <3>2 DEF AskedInv
    <2>2. CASE UNCHANGED <<asked, answered>>
      BY <2>2 DEF RequestInv, AskedInv
    <2>3. ~SendRest
      BY DEF ConnInv, ControlInv, SendRest
    <2>4. QED
      BY <2>1, <2>2, <2>3
         DEF Next, Client, Server, Deliver, Leave, Drain, EventHup, Tick,
             DealTimer, Close, Silence, FlagMissed, ReadOnce, ReadFail,
             NoRequest, ParseOn, BadRequest, DoRequest, Respond, GiveUp,
             EventOut, SendPart, SendLater, AwaitRoom, SendFails, Goto,
             history, peerVars, vars
  <1>3. QED
    BY <1>1, <1>2 DEF RequestInv, IdleInv, StreamInv, BuildInv

(* The client asks.                                                          *)
LEMMA RequestAsked ==
  ASSUME ConnInv, RequestInv, ~missed, NEW k \in Kinds, Ask(k)
  PROVE  RequestInv'
  <1>1. /\ todo = <<>> /\ todo' = Message[k] /\ pc # "closed"
        /\ UNCHANGED <<pc, c, answered, socket>>
    BY DEF Ask, history
  <1>2. k \in Names /\ Message[k] \in Seq(Tokens)
    BY Sizes, MessageTokens
  <1>3. Len(asked') = Len(answered) + 1 /\ Len(answered) \in Nat
    BY AskedFirst
  <1>4. /\ pc \notin {"parse", "build", "epollout", "write"}
        /\ pc = "epollin" => c = Cleared /\ socket = <<>>
    BY AskedFirst
  <1>5. Waiting' /\ Oldest' = k
    BY AskedFirst
  <1>6. AskedInv'
    BY <1>1, <1>3 DEF AskedInv
  <1>7. pc \notin {"parse", "build", "epollout", "write"}
    BY <1>4
  <1>8. IdleInv'
    BY <1>1, <1>5 DEF IdleInv
  <1>9. BuildInv'
    BY <1>1, <1>7 DEF BuildInv
  <1>10. StreamInv'
    <2>1. SUFFICES ASSUME pc = "epollin"
                   PROVE  /\ Holds(c, Message[k]) /\ Understands(c, k)
                          /\ Arrives(c, socket, todo', Message[k])
      BY <1>1, <1>5, <1>7 DEF StreamInv
    <2>2. c = Cleared /\ socket = <<>>
      BY <1>4, <2>1
    <2>3. ReadIdx(c) = 0 /\ Len(<<>>) = 0 /\ 1..0 = {}
      BY <2>2, ReadKeeps, EmptySeq
    <2>4. Len(Message[k]) \in Nat
      BY <1>2, LenProperties
    <2>5. Holds(c, Message[k])
      BY <1>2, <2>3, <2>4 DEF Holds
    <2>6. Understands(c, k)
      <3>1. CASE k \in BadLines
        BY <2>2, <3>1 DEF Understands, Stuck, Cleared
      <3>2. CASE k \notin BadLines
        <4>1. NLines[k] \in 1..4
          BY <1>2, LineCount
        <4>2. /\ 0 \in 0..NLines[k] /\ 3 * 0 = 0 /\ 0 <= LineEnd(k, 0)
              /\ ~(0 >= 2) /\ ~(0 >= 3) /\ ~(0 > 0)
          BY <4>1 DEF LineEnd
        <4>3. /\ c.m_start_line = 0 /\ c.m_checked_idx = 0
              /\ c.m_check_state = "REQUESTLINE" /\ c.m_linger = FALSE
              /\ c.m_content_length = 0
          BY <2>2 DEF Cleared
        <4>4. HeadAt(c, k, 0)
          BY <4>2, <4>3 DEF HeadAt
        <4>5. QED
          BY <3>2, <4>2, <4>4 DEF Understands
      <3>3. QED
        BY <3>1, <3>2
    <2>7. Arrives(c, socket, todo', Message[k])
      <3>1. 0 + 0 + Len(Message[k]) = Len(Message[k])
            /\ \A i \in 1..Len(Message[k]) : 0 + 0 + i = i
        BY <2>4
      <3>2. QED
        BY <1>1, <2>2, <2>3, <3>1 DEF Arrives
    <2>8. QED
      BY <2>5, <2>6, <2>7
  <1>11. QED
    BY <1>6, <1>8, <1>9, <1>10 DEF RequestInv

(* The network delivers.                                                     *)
LEMMA RequestDelivered ==
  ASSUME ConnInv, RequestInv, ~missed, NEW n \in 1..Len(todo), Deliver(n)
  PROVE  RequestInv'
  <1> DEFINE t == socket \o SubSeq(todo, 1, n)
             u == SubSeq(todo, n + 1, Len(todo))
  <1>1. /\ socket' = t /\ todo' = u
        /\ UNCHANGED <<pc, c, ret, asked, answered, missed>>
    BY DEF Deliver, history, timers
  <1>2. (Waiting' <=> Waiting) /\ Oldest' = Oldest
    BY <1>1, SameOldest
  <1>3. todo # <<>>
    BY EmptySeq
  <1>4. AskedInv' /\ IdleInv' /\ BuildInv'
    BY <1>1, <1>2, <1>3 DEF RequestInv, AskedInv, IdleInv, BuildInv
  <1>5. StreamInv'
    <2>1. SUFFICES ASSUME pc \in {"epollin", "parse"}, Waiting
                   PROVE  /\ Holds(c, Message[Oldest]) /\ Understands(c, Oldest)
                          /\ Arrives(c, t, u, Message[Oldest])
      BY <1>1, <1>2 DEF StreamInv
    <2>2. /\ Holds(c, Message[Oldest]) /\ Understands(c, Oldest)
          /\ Arrives(c, socket, todo, Message[Oldest])
      BY <2>1 DEF RequestInv, StreamInv
    <2>3. /\ ReadIdx(c) \in Nat
          /\ socket \in Seq(Tokens) /\ todo \in Seq(Tokens)
      BY LenProperties DEF ConnInv, PeerInv, ReadInv, ParserInv, ParserOK,
                           ParserStates, ReadIdx
    <2>4. Arrives(c, t, u, Message[Oldest])
      BY <2>2, <2>3, ArrivesDeliver
    <2>5. QED
      BY <2>2, <2>4
  <1>6. QED
    BY <1>4, <1>5 DEF RequestInv

(* read_once, and the rounds of process_read.                                *)
LEMMA RequestRead ==
  ASSUME ConnInv, RequestInv, ~missed, ReadOnce \/ NoRequest \/ ParseOn
  PROVE  RequestInv'
  <1>1. /\ pc \in {"epollin", "parse"} /\ pc' \in {"epollin", "parse"}
        /\ UNCHANGED <<asked, answered, todo, missed>>
    BY DEF ReadOnce, NoRequest, ParseOn, Goto, Armed, history, timers, peerVars
  <1>2. (Waiting' <=> Waiting) /\ Oldest' = Oldest
    BY <1>1, SameOldest
  <1>3. Waiting
    BY EmptySeq DEF ReadOnce, NoRequest, ParseOn, RequestInv, IdleInv
  <1>4. Oldest \in Names /\ ParserInv(c) /\ socket \in Seq(Tokens)
        /\ todo \in Seq(Tokens)
    BY <1>3, OldestKnown DEF ConnInv, ReadInv, PeerInv
  <1>5. /\ Holds(c, Message[Oldest]) /\ Understands(c, Oldest)
        /\ Arrives(c, socket, todo, Message[Oldest])
    BY <1>1, <1>3 DEF RequestInv, StreamInv
  <1>6. /\ Holds(c', Message[Oldest]) /\ Understands(c', Oldest)
        /\ Arrives(c', socket', todo', Message[Oldest])
    <2>1. CASE ReadOnce
      <3>1. c' = Receive(c, socket) /\ socket' = <<>>
        BY <2>1 DEF ReadOnce
      <3>2. QED
        BY <1>1, <1>4, <1>5, <3>1, ArrivesRead
    <2>2. CASE NoRequest \/ ParseOn
      <3>1. Holds(c', Message[Oldest]) /\ Understands(c', Oldest)
        BY <1>4, <1>5, <2>2, RoundKeeps DEF NoRequest, ParseOn
      <3>2. ReadIdx(c') = ReadIdx(c)
        BY <1>4, <2>2, NoLineKeeps, LineKeeps, BodyKeeps
           DEF NoRequest, ParseOn, LineFor
      <3>3. UNCHANGED socket
        BY <2>2 DEF NoRequest, ParseOn, Goto, peerVars
      <3>4. QED
        BY <1>1, <1>5, <3>1, <3>2, <3>3 DEF Arrives
    <2>3. QED
      BY <2>1, <2>2
  <1>7. AskedInv' /\ IdleInv' /\ BuildInv'
    BY <1>1, <1>2, <1>3 DEF RequestInv, AskedInv, IdleInv, BuildInv
  <1>8. StreamInv'
    BY <1>2, <1>6 DEF StreamInv
  <1>9. QED
    BY <1>7, <1>8 DEF RequestInv

(* process_read ends with a request, or with one that it refuses.            *)
LEMMA RequestBuilt ==
  ASSUME ConnInv, RequestInv, ~missed, BadRequest \/ DoRequest
  PROVE  RequestInv'
  <1>1. /\ pc = "parse" /\ pc' = "build"
        /\ UNCHANGED <<asked, answered, todo, socket, missed>>
    BY DEF BadRequest, DoRequest, Goto, history, timers, peerVars
  <1>2. (Waiting' <=> Waiting) /\ Oldest' = Oldest
    BY <1>1, SameOldest
  <1>3. Waiting
    BY <1>1 DEF RequestInv, IdleInv
  <1>4. /\ Oldest \in Names /\ ParserInv(c) /\ ReadIdx(c) < READ_BUFFER_SIZE
    BY <1>3, OldestKnown DEF ConnInv, ReadInv
  <1>5. /\ Holds(c, Message[Oldest]) /\ Understands(c, Oldest)
        /\ Arrives(c, socket, todo, Message[Oldest])
    BY <1>1, <1>3 DEF RequestInv, StreamInv
  <1>6. CASE BadRequest
    <2>1. /\ LineFor(c, "REQUESTLINE") /\ ~GoodTarget(c) /\ c' = NextLine(c)
          /\ ret' = "BAD_REQUEST"
      BY <1>6 DEF BadRequest
    <2>2. /\ Oldest = "junk" /\ c'.m_linger = FALSE /\ c'.m_content_length = 0
      BY <1>4, <1>5, <2>1, Refused
    <2>3. Oldest \in Good /\ Keeps[Oldest] = FALSE
      <3>1. "junk" \in Good /\ "junk" \in DOMAIN Message
        BY MessageTokens DEF Good, Names, BadLines
      <3>2. ~Keeps["junk"]
        BY <3>1, Shapes
      <3>3. Keeps["junk"] \in BOOLEAN
        BY <3>1 DEF Keeps
      <3>4. Keeps["junk"] = FALSE
        BY <3>2, <3>3
      <3>5. QED
        BY <2>2, <3>1, <3>4
    <2>4. ~(c'.m_content_length > 0)
      BY <2>2
    <2>5. BuildInv'
      BY <1>2, <2>1, <2>2, <2>3, <2>4 DEF BuildInv
    <2>6. QED
      BY <1>1, <1>2, <1>3, <2>5 DEF RequestInv, AskedInv, IdleInv, StreamInv
  <1>7. CASE DoRequest
    <2>1. /\ Oldest \in Good \ {"junk"} /\ c.m_url = Message[Oldest][1]
          /\ c'.m_url = Message[Oldest][1]
          /\ c'.m_linger = Keeps[Oldest]
          /\ c'.m_content_length > 0 => c'.m_string = <<"b", "b">>
          /\ ReadIdx(c) = Len(Message[Oldest])
      BY <1>4, <1>5, <1>7, Requested DEF DoRequest
    <2>2. ret' = Lookup[c'.m_url]
      BY <1>7, <2>1 DEF DoRequest
    <2>3. socket = <<>> /\ todo = <<>>
      <3>1. Len(socket) \in Nat /\ Len(todo) \in Nat /\ ReadIdx(c) \in Nat
        BY LenProperties DEF ConnInv, PeerInv, ReadInv, ParserInv, ParserOK,
                             ParserStates, ReadIdx
      <3>2. ReadIdx(c) + Len(socket) + Len(todo) = ReadIdx(c)
        BY <1>5, <2>1 DEF Arrives
      <3>3. Len(socket) = 0 /\ Len(todo) = 0
        BY <3>1, <3>2
      <3>4. QED
        BY <3>3, EmptySeq DEF ConnInv, PeerInv
    <2>4. BuildInv'
      BY <1>1, <1>2, <1>4, <2>1, <2>2, <2>3 DEF BuildInv
    <2>5. QED
      BY <1>1, <1>2, <1>3, <2>4 DEF RequestInv, AskedInv, IdleInv, StreamInv
  <1>8. QED
    BY <1>6, <1>7

(* A new connection: accept, and init().                                     *)
LEMMA RequestAccepted ==
  ASSUME Accept
  PROVE  RequestInv' /\ ~Waiting'
  <1>1. /\ pc' = "epollin" /\ c' = Cleared
        /\ asked' = <<>> /\ answered' = <<>> /\ todo' = <<>> /\ socket' = <<>>
    BY DEF Accept, InitParse
  <1>2. Len(<<>>) = 0
    BY EmptySeq
  <1>3. AskedInv' /\ ~Waiting'
    BY <1>1, <1>2 DEF AskedInv, Waiting
  <1>4. QED
    BY <1>1, <1>3 DEF RequestInv, IdleInv, StreamInv, BuildInv

(* The answer is complete: write() waits for the next request, or ends.      *)
LEMMA RequestAnswered ==
  ASSUME ConnInv, RequestInv, SendRest
  PROVE  RequestInv' /\ ~Waiting'
  <1>1. /\ pc = "write" /\ UNCHANGED <<asked, todo, socket, ret, missed>>
        /\ \/ c.m_linger /\ pc' = "epollin" /\ c' = InitParse(c)
           \/ ~c.m_linger /\ pc' = "ended"
        /\ ~missed
    BY DEF SendRest, timers, peerVars, ConnInv, ControlInv
  <1>2. PICK a \in {"file", "page", "garbled"} : answered' = Append(answered, a)
    BY DEF SendRest
  <1>3. Len(answered') = Len(answered) + 1
    BY <1>2, AppendProperties DEF ConnInv, PeerInv
  <1>4. Len(asked) = Len(answered) + 1 /\ Len(answered) \in Nat
    BY <1>1, OldestKnown DEF RequestInv, IdleInv
  <1>5. AskedInv' /\ ~Waiting'
    BY <1>1, <1>3, <1>4 DEF AskedInv, Waiting
  <1>6. pc' \in {"epollin", "ended"}
    BY <1>1
  <1>7. pc' = "epollin" => c' = Cleared /\ socket' = <<>> /\ todo' = <<>>
    BY <1>1 DEF RequestInv, BuildInv, InitParse
  <1>8. IdleInv'
    BY <1>5, <1>6, <1>7 DEF IdleInv
  <1>9. QED
    BY <1>5, <1>6, <1>8 DEF RequestInv, StreamInv, BuildInv

(* The steps that leave the request alone: of the response before its last   *)
(* byte, of a connection that ends, and of the client's side of the socket.  *)
LEMMA RequestLeftAlone ==
  ASSUME ConnInv, RequestInv,
         \/ Respond \/ EventOut \/ SendPart \/ SendLater
         \/ EventHup \/ DealTimer \/ ReadFail \/ GiveUp \/ SendFails
         \/ Tick \/ Silence \/ FlagMissed
         \/ Leave \/ Drain \/ UNCHANGED vars
  PROVE  /\ RequestInv'
         /\ UNCHANGED <<c, ret, asked, answered, todo, socket>>
         /\ (Waiting' <=> Waiting) /\ Oldest' = Oldest
  <1> USE DEF history, timers, peerVars
  <1>1. UNCHANGED <<c, ret, asked, answered, todo, socket>>
    <2>1. CASE Respond \/ EventOut \/ SendPart \/ SendLater
      BY <2>1 DEF Respond, EventOut, SendPart, SendLater, AwaitRoom, Goto
    <2>2. CASE EventHup \/ DealTimer \/ Tick \/ Silence \/ FlagMissed
      BY <2>2 DEF EventHup, DealTimer, Tick, Close, Silence, FlagMissed
    <2>3. CASE ReadFail \/ GiveUp \/ SendFails
      BY <2>3 DEF ReadFail, GiveUp, SendFails, Goto
    <2>4. CASE Leave \/ Drain \/ UNCHANGED vars
      BY <2>4 DEF Leave, Drain, vars
    <2>5. QED
      BY <2>1, <2>2, <2>3, <2>4
  <1>2. (Waiting' <=> Waiting) /\ Oldest' = Oldest
    BY <1>1, SameOldest
  <1>3. \/ missed'
        \/ /\ ~missed
           /\ \/ UNCHANGED pc
              \/ pc' \in {"closed", "dead", "failed"}
              \/ /\ pc \in {"build", "epollout", "write"}
                 /\ pc' \in {"build", "epollout", "write"}
    <2>1. CASE Respond \/ EventOut \/ SendPart \/ SendLater
      BY <2>1 DEF Respond, EventOut, SendPart, SendLater, AwaitRoom, Goto,
                  Armed
    <2>2. CASE EventHup \/ DealTimer \/ Tick \/ Silence
      BY <2>2 DEF EventHup, DealTimer, Tick, Close, Silence
    <2>3. CASE FlagMissed
      BY <2>3 DEF FlagMissed
    <2>4. CASE ReadFail \/ GiveUp \/ SendFails
      BY <2>4 DEF ReadFail, GiveUp, SendFails, Goto
    <2>5. CASE Leave \/ Drain \/ UNCHANGED vars
      BY <2>5 DEF Leave, Drain, vars
    <2>6. QED
      BY <2>1, <2>2, <2>3, <2>4, <2>5
  <1>4. AskedInv' /\ IdleInv' /\ StreamInv'
    BY <1>1, <1>2, <1>3 DEF RequestInv, AskedInv, IdleInv, StreamInv
  <1>5. BuildInv'
    BY <1>1, <1>2, <1>3 DEF RequestInv, BuildInv
  <1>6. QED
    BY <1>1, <1>2, <1>4, <1>5 DEF RequestInv

(* The disjuncts of the next-state relation.                                 *)
LEMMA Actions ==
  [Next]_vars =>
    \/ \E k \in Kinds : Ask(k)
    \/ \E n \in 1..Len(todo) : Deliver(n)
    \/ Accept
    \/ ReadOnce \/ NoRequest \/ ParseOn
    \/ BadRequest \/ DoRequest
    \/ SendRest
    \/ \/ Respond \/ EventOut \/ SendPart \/ SendLater
       \/ EventHup \/ DealTimer \/ ReadFail \/ GiveUp \/ SendFails
       \/ Tick \/ Silence \/ FlagMissed
       \/ Leave \/ Drain \/ UNCHANGED vars
  BY DEF Next, Client, Server

(* Every state relates as RequestInv says what the server holds to what the  *)
(* client has sent.                                                          *)
LEMMA RequestInvariant == Spec => []RequestInv
  <1>1. Init => RequestInv
    <2>1. SUFFICES ASSUME Init PROVE RequestInv
      OBVIOUS
    <2>2. AskedInv /\ ~Waiting
      BY <2>1, EmptySeq DEF Init, AskedInv, Waiting
    <2>3. QED
      BY <2>1, <2>2 DEF Init, RequestInv, IdleInv, StreamInv, BuildInv
  <1>2. ConnInv /\ RequestInv /\ [Next]_vars => RequestInv'
    BY Actions, RequestAsked, RequestDelivered, RequestAccepted, RequestRead,
       RequestBuilt, RequestAnswered, RequestLeftAlone, RequestIgnored
  <1>3. QED
    BY ConnInvariant, <1>1, <1>2, PTL DEF Spec

(* However the network cuts the requests, what do_request and process_write  *)
(* go by is what the message says as a whole (parse_line, parse_content).    *)
THEOREM RequestsUnderstood == Spec => []ParsedRight
  <1>1. RequestInv => ParsedRight
    BY DEF RequestInv, IdleInv, BuildInv, ParsedRight
  <1>2. QED
    BY RequestInvariant, <1>1, PTL

-----------------------------------------------------------------------------
(* A request that has come completely is not left waiting.                   *)

(* process_read goes back to waiting only while the end of the line it looks *)
(* for is not there.                                                         *)
LookInv ==
  ~missed /\ pc = "epollin" /\ Waiting /\ Oldest \in Good =>
    \A i \in 0..NLines[Oldest] :
      HeadAt(c, Oldest, i) => ReadIdx(c) <= LineEnd(Oldest, i) + 1

(* If the network does not cut a body, the buffer never ends within it, and  *)
(* parse_content finds all of it or nothing.                                 *)
CutInv ==
  ~missed /\ pc \in {"epollin", "parse"} /\ Waiting /\ Oldest = "post" =>
    /\ ReadIdx(c) # 12 /\ ReadIdx(c) + Len(socket) # 12
    /\ c.m_check_state = "CONTENT" =>
         /\ c.m_checked_idx = 11
         /\ pc = "epollin" \/ c.line_status # "OK" => ReadIdx(c) = 11

(* What comes after a missed timer_flag is not looked at and forgotten: the  *)
(* first look at it ends the connection.                                     *)
LateInv ==
  pc = "ended" \/ (missed /\ pc = "epollin") =>
    (Waiting => socket # <<>> \/ todo # <<>>)

(* The steps that do not disturb these: the parser and its input are left    *)
(* alone, or no request is waiting, or it is done with.                      *)
LEMMA LookLeftAlone ==
  ASSUME LookInv, CutInv,
         \/ ~missed /\ UNCHANGED <<pc, c, socket, asked, answered>>
         \/ missed'
         \/ pc' \notin {"epollin", "parse"}
         \/ ~Waiting'
  PROVE  LookInv' /\ CutInv'
  <1>1. CASE ~missed /\ UNCHANGED <<pc, c, socket, asked, answered>>
    <2>1. (Waiting' <=> Waiting) /\ Oldest' = Oldest
      BY <1>1, SameOldest
    <2>2. QED
      BY <1>1, <2>1 DEF LookInv, CutInv
  <1>2. CASE missed' \/ pc' \notin {"epollin", "parse"} \/ ~Waiting'
    BY <1>2 DEF LookInv, CutInv
  <1>3. QED
    BY <1>1, <1>2

(* A request is sent to a parser that is cleared.                            *)
LEMMA LookAsked ==
  ASSUME ConnInv, RequestInv, ~missed, NEW k \in Kinds, Ask(k)
  PROVE  LookInv' /\ CutInv'
  <1>1. UNCHANGED <<pc, c, socket>>
    BY DEF Ask
  <1>2. /\ Oldest' = k /\ k \in Names
        /\ pc \notin {"parse", "build", "epollout", "write"}
        /\ pc = "epollin" => c = Cleared /\ socket = <<>>
    BY AskedFirst
  <1>3. ASSUME pc = "epollin"
        PROVE  /\ ReadIdx(c) = 0 /\ ReadIdx(c) + Len(socket) = 0
               /\ c.m_check_state # "CONTENT"
    <2>1. c = Cleared /\ socket = <<>>
      BY <1>2, <1>3
    <2>2. Cleared.m_check_state # "CONTENT"
      BY DEF Cleared
    <2>3. ReadIdx(Cleared) = 0 /\ Len(<<>>) = 0
      BY ReadKeeps, EmptySeq
    <2>4. QED
      BY <2>1, <2>2, <2>3
  <1>4. ASSUME NEW i \in 0..NLines[k]
        PROVE  0 <= LineEnd(k, i) + 1
    BY <1>2, LineCount DEF LineEnd
  <1>5. LookInv'
    BY <1>1, <1>2, <1>3, <1>4 DEF LookInv
  <1>6. CutInv'
    BY <1>1, <1>2, <1>3 DEF CutInv
  <1>7. QED
    BY <1>5, <1>6

(* The network delivers: never the first character of a body alone.          *)
LEMMA LookDelivered ==
  ASSUME BodyCuts = FALSE, ConnInv, RequestInv, ~missed, LookInv, CutInv,
         NEW n \in 1..Len(todo), Deliver(n)
  PROVE  LookInv' /\ CutInv'
  <1> DEFINE left == SubSeq(todo, n + 1, Len(todo))
             m == Message["post"]
  <1>1. /\ socket' = socket \o SubSeq(todo, 1, n) /\ todo' = left
        /\ ~InBody(left) /\ UNCHANGED <<pc, c, asked, answered>>
    BY DEF Deliver, history
  <1>2. (Waiting' <=> Waiting) /\ Oldest' = Oldest
    BY <1>1, SameOldest
  <1>3. LookInv'
    BY <1>1, <1>2 DEF LookInv
  <1>4. ASSUME pc \in {"epollin", "parse"}, Waiting, Oldest = "post"
        PROVE  ReadIdx(c) + Len(socket') # 12
    <2>1. ReadIdx(c) + Len(socket') = 12 => Len(left) = 1 /\ left[1] = m[13]
      <3>1. Arrives(c, socket, todo, m)
        BY <1>4 DEF RequestInv, StreamInv
      <3>2. ReadIdx(c) \in Nat /\ socket \in Seq(Tokens) /\ todo \in Seq(Tokens)
        BY LenProperties DEF ConnInv, PeerInv, ReadInv, ParserInv, ParserOK,
                             ParserStates, ReadIdx
      <3>3. Arrives(c, socket', left, m)
        BY <1>1, <3>1, <3>2, ArrivesDeliver
      <3>4. Len(m) = 13
        BY ShapedPost DEF Shaped
      <3>5. socket' \in Seq(Tokens) /\ left \in Seq(Tokens)
        <4>1. n \in Nat /\ 1 <= n /\ n <= Len(todo) /\ Len(todo) \in Nat
          BY <3>2, LenProperties
        <4>2. SubSeq(todo, 1, n) \in Seq(Tokens)
          BY <3>2, <4>1, SubSeqProperties
        <4>3. n + 1 \in 1..(Len(todo) + 1) /\ Len(todo) \in n..Len(todo)
          BY <4>1
        <4>4. left \in Seq(Tokens)
          BY <3>2, <4>1, <4>3, SubSeqProperties
        <4>5. QED
          BY <1>1, <3>2, <4>2, <4>4, ConcatProperties
      <3>6. Len(socket') \in Nat /\ Len(left) \in Nat
        BY <3>5, LenProperties
      <3>7. ReadIdx(c) + Len(socket') + Len(left) = 13
        BY <3>3, <3>4 DEF Arrives
      <3>8. ASSUME ReadIdx(c) + Len(socket') = 12
            PROVE  Len(left) = 1 /\ left[1] = m[13]
        <4>1. Len(left) = 1 /\ 1 \in 1..Len(left)
              /\ ReadIdx(c) + Len(socket') + 1 = 13
          BY <3>2, <3>6, <3>7, <3>8
        <4>2. QED
          BY <3>3, <4>1 DEF Arrives
      <3>9. QED
        BY <3>8
    <2>2. m[13] = "b"
      BY ShapedPost
    <2>3. ASSUME Len(left) = 1, left[1] = "b"
          PROVE  FALSE
      <3> HIDE DEF left
      <3>1. Len(<<>>) = 0 /\ Len(<<"b", "b">>) = 2
        BY EmptySeq
      <3>2. left # <<>>
        BY <2>3, <3>1
      <3>3. left # <<"b", "b">>
        BY <2>3, <3>1
      <3>4. QED
        BY <1>1, <2>3, <3>2, <3>3 DEF InBody
    <2>4. QED
      BY <2>1, <2>2, <2>3
  <1>5. CutInv'
    BY <1>1, <1>2, <1>4 DEF CutInv
  <1>6. QED
    BY <1>3, <1>5

(* read_once takes all that has arrived.                                     *)
LEMMA LookRead ==
  ASSUME ConnInv, RequestInv, ~missed, LookInv, CutInv, ReadOnce
  PROVE  LookInv' /\ CutInv'
  <1>1. /\ pc = "epollin" /\ pc' = "parse" /\ c' = Receive(c, socket)
        /\ socket' = <<>> /\ UNCHANGED <<asked, answered>>
    BY DEF ReadOnce, history
  <1>2. (Waiting' <=> Waiting) /\ Oldest' = Oldest
    BY <1>1, SameOldest
  <1>3. /\ ParserInv(c) /\ socket \in Seq(Tokens) /\ c \in ParserStates
        /\ ReadIdx(c) + Len(socket) \in Nat
    BY LenProperties DEF ConnInv, PeerInv, ReadInv, ParserInv, ParserOK,
                         ParserStates, ReadIdx
  <1>4. ReadIdx(c') = ReadIdx(c) + Len(socket)
    BY <1>1, <1>3, ReadKeeps
  <1>5. /\ c'.m_check_state = c.m_check_state /\ c'.line_status = "OK"
        /\ c'.m_checked_idx = c.m_checked_idx
    BY <1>1, <1>3 DEF Receive, ParserStates
  <1>6. ReadIdx(c') + Len(socket') = ReadIdx(c')
    BY <1>1, <1>3, <1>4, EmptySeq
  <1>7. LookInv'
    BY <1>1 DEF LookInv
  <1>8. CutInv'
    BY <1>1, <1>2, <1>4, <1>5, <1>6 DEF CutInv
  <1>9. QED
    BY <1>7, <1>8

(* The rounds of process_read.                                               *)
LEMMA LookRound ==
  ASSUME ConnInv, RequestInv, ~missed, LookInv, CutInv, NoRequest \/ ParseOn
  PROVE  LookInv' /\ CutInv'
  <1>1. /\ pc = "parse" /\ UNCHANGED <<asked, answered, socket>>
        /\ NoRequest => pc' = "epollin" /\ NoLine(c) /\ c' = TakeLine(c)
        /\ ParseOn => pc' = "parse"
    BY DEF NoRequest, ParseOn, Goto, Armed, history, peerVars
  <1>2. (Waiting' <=> Waiting) /\ Oldest' = Oldest /\ Waiting
    BY <1>1, SameOldest DEF RequestInv, IdleInv
  <1>3. /\ Oldest \in Names /\ ParserInv(c) /\ ParserOK(c)
        /\ Holds(c, Message[Oldest]) /\ Understands(c, Oldest)
    BY <1>1, <1>2, OldestKnown DEF ConnInv, ReadInv, RequestInv, StreamInv,
                                   ParserInv
  <1>4. ReadIdx(c') = ReadIdx(c)
    BY <1>1, <1>3, NoLineKeeps, LineKeeps, BodyKeeps DEF ParseOn, LineFor
  <1>5. LookInv'
    <2>1. SUFFICES ASSUME NoRequest, Oldest \in Good,
                          NEW i \in 0..NLines[Oldest], HeadAt(c', Oldest, i)
                   PROVE  ReadIdx(c) <= LineEnd(Oldest, i) + 1
      BY <1>1, <1>2, <1>4 DEF LookInv
    <2>2. /\ c'.m_start_line = c.m_start_line
          /\ c'.m_check_state = c.m_check_state
      BY <1>1, <1>3, <2>1, LineTaken
    <2>3. ~BodyAhead(c, Oldest)
      BY <2>1, <2>2 DEF BodyAhead, HeadAt
    <2>4. PICK j \in 0..NLines[Oldest] : HeadAt(c, Oldest, j)
      BY <1>3, <2>1, <2>3 DEF Understands, Good
    <2>5. NLines[Oldest] \in 1..4
      BY <1>3, LineCount
    <2>6. 3 * j = 3 * i
      BY <2>1, <2>2, <2>4 DEF HeadAt
    <2>7. j = i
      BY <2>5, <2>6
    <2>8. ~Content(c) /\ ParseLine(c).status # "OK"
      BY <1>1, <1>3, <2>1, <2>4, HeadLine DEF NoLine
    <2>9. QED
      BY <1>3, <2>1, <2>4, <2>7, <2>8, HeadLine
  <1>6. CutInv'
    <2>1. SUFFICES ASSUME Oldest = "post", c'.m_check_state = "CONTENT"
                   PROVE  /\ c'.m_checked_idx = 11
                          /\ pc' = "epollin" \/ c'.line_status # "OK"
                               => ReadIdx(c) = 11
      BY <1>1, <1>2, <1>4 DEF CutInv
    <2>2. ReadIdx(c) # 12
      BY <1>1, <1>2, <2>1 DEF CutInv
    <2>3. CASE c.m_check_state = "CONTENT"
      <3>1. /\ BodyAhead(c, "post") /\ c.m_checked_idx = 11
            /\ c.line_status # "OK" => ReadIdx(c) = 11
        BY <1>1, <1>2, <1>3, <2>1, <2>3
           DEF CutInv, Understands, Stuck, HeadAt, BodyAhead
      <3>2. CASE NoRequest
        <4>1. ~Content(c)
          BY <1>1, <3>1, <3>2, BodyRound, <1>3, <2>1 DEF NoLine
        <4>2. ReadIdx(c) = 11
          BY <2>3, <3>1, <4>1 DEF Content
        <4>3. ParseLine(c).checked = ReadIdx(c)
          BY <1>3, <2>1, <3>1, BodyRound DEF Found
        <4>4. c'.m_checked_idx = 11
          BY <1>1, <1>3, <3>2, <4>2, <4>3, LineTaken
        <4>5. QED
          BY <4>2, <4>4
      <3>3. CASE ParseOn
        <4>1. ParseLine(c).status # "OK"
          BY <1>3, <2>1, <3>1, BodyRound DEF Found
        <4>2. Content(c) /\ ~BodyThere(c) /\ c' = BodyMissing(c)
          BY <3>3, <4>1 DEF ParseOn, LineFor
        <4>3. c'.m_checked_idx = c.m_checked_idx
          BY <1>3, <4>2 DEF BodyMissing, ParserOK, ParserStates
        <4>4. ReadIdx(c) \in 11..13
          <5>1. /\ 11 <= c.m_start_line /\ c.m_start_line <= c.m_checked_idx
                /\ c.m_checked_idx <= ReadIdx(c) /\ c.m_start_line \in Nat
                /\ c.m_checked_idx \in Nat
            BY <1>3, <3>1 DEF BodyAhead, ParserOK, ParserStates
          <5>2. ReadIdx(c) <= 13 /\ ReadIdx(c) \in Nat
            BY <1>3, <2>1, ShapedPost, LenProperties
               DEF Holds, Shaped, ParserOK, ParserStates, ReadIdx
          <5>3. QED
            BY <5>1, <5>2, <3>1
        <4>5. ReadIdx(c) # 13
          BY <1>3, <2>1, <3>1, <4>2, BodyRound
        <4>6. ReadIdx(c) = 11
          BY <2>2, <4>4, <4>5
        <4>7. QED
          BY <3>1, <4>3, <4>6
      <3>4. QED
        BY <3>2, <3>3
    <2>4. CASE c.m_check_state # "CONTENT"
      <3>1. ~NoRequest
        BY <1>1, <1>3, <2>1, <2>4, LineTaken
      <3>2. LineFor(c, "HEADER") /\ c' = BodyFollows(c)
            /\ c.m_content_length # 0
        <4>1. ~Content(c)
          BY <2>4 DEF Content
        <4>2. /\ RequestLine(c).m_check_state # "CONTENT"
              /\ HeaderLine(c).m_check_state = c.m_check_state
          BY <1>3, LineFields, LineLeft
        <4>3. QED
          BY <2>1, <2>4, <3>1, <4>1, <4>2 DEF ParseOn
      <3>3. ~NoLine(c) /\ ~Content(c) /\ ParseLine(c).status = "OK"
        BY <3>2 DEF LineFor, NoLine
      <3>4. PICK i \in 0..NLines["post"] :
              /\ HeadAt(c, "post", i)
              /\ NextLine(c).m_checked_idx = LineEnd("post", i) + 2
        BY <1>3, <2>1, <3>3, WhichLine
      <3>5. i >= 3 /\ NLines["post"] = 3
        BY <3>2, <3>4, LineCount DEF HeadAt
      <3>6. LineEnd("post", i) + 2 = 11
        BY <3>5 DEF LineEnd
      <3>7. c'.m_checked_idx = 11
        BY <1>3, <3>2, <3>4, <3>6, LineFields
      <3>8. c'.line_status = "OK"
        BY <1>3, <3>2, <3>3, LineLeft DEF BodyFollows, ParserStates
      <3>9. pc' = "parse"
        BY <1>1, <3>1
      <3>10. QED
        BY <3>7, <3>8, <3>9
    <2>5. QED
      BY <2>3, <2>4
  <1>7. QED
    BY <1>5, <1>6

(* A step keeps what the invariants say of the parser.                       *)
LEMMA LookStep ==
  ASSUME BodyCuts = FALSE, ConnInv, RequestInv, LookInv, CutInv, [Next]_vars
  PROVE  LookInv' /\ CutInv'
  <1>1. CASE missed'
    BY <1>1, LookLeftAlone
  <1>2. CASE Accept
    BY <1>2, RequestAccepted, LookLeftAlone
  <1>3. CASE ~missed' /\ ~Accept
    <2>1. ~missed
      BY <1>3, FlagStays
    <2>2. CASE \E k \in Kinds : Ask(k)
      BY <2>1, <2>2, LookAsked
    <2>3. CASE \E n \in 1..Len(todo) : Deliver(n)
      BY <2>1, <2>3, LookDelivered
    <2>4. CASE ReadOnce
      BY <2>1, <2>4, LookRead
    <2>5. CASE NoRequest \/ ParseOn
      BY <2>1, <2>5, LookRound
    <2>6. CASE BadRequest \/ DoRequest
      <3>1. pc' = "build"
        BY <2>6 DEF BadRequest, DoRequest, Goto
      <3>2. QED
        BY <3>1, LookLeftAlone
    <2>7. CASE SendRest
      BY <2>7, RequestAnswered, LookLeftAlone
    <2>8. CASE \/ Respond \/ EventOut \/ SendPart \/ SendLater
               \/ EventHup \/ DealTimer \/ ReadFail \/ GiveUp \/ SendFails
               \/ Tick \/ Silence \/ FlagMissed
               \/ Leave \/ Drain \/ UNCHANGED vars
      <3>1. UNCHANGED <<c, asked, answered, socket>>
        BY <2>8, RequestLeftAlone
      <3>2. \/ UNCHANGED pc
            \/ pc' \notin {"epollin", "parse"}
        BY <1>3, <2>1, <2>8
           DEF Respond, EventOut, SendPart, SendLater, AwaitRoom, Goto, Armed,
               EventHup, DealTimer, Tick, Close, Silence, FlagMissed,
               ReadFail, GiveUp, SendFails, Leave, Drain, vars
      <3>3. QED
        BY <2>1, <3>1, <3>2, LookLeftAlone
    <2>9. QED
      BY <1>3, <2>2, <2>3, <2>4, <2>5, <2>6, <2>7, <2>8, Actions
  <1>4. QED
    BY <1>1, <1>2, <1>3

(* And what they say of the bytes behind a missed timer_flag.                *)
LEMMA LateStep ==
  ASSUME ConnInv, RequestInv, LateInv, [Next]_vars
  PROVE  LateInv'
  <1> USE DEF history, timers, peerVars
  <1>1. ASSUME NEW k \in Kinds, Ask(k)
        PROVE  LateInv'
    <2>1. Message[k] # <<>>
      BY Sizes, MessageTokens, MessageStarts
    <2>2. todo' # <<>>
      BY <1>1, <2>1 DEF Ask
    <2>3. QED
      BY <2>2 DEF LateInv
  <1>2. ASSUME NEW n \in 1..Len(todo), Deliver(n)
        PROVE  LateInv'
    <2>1. /\ n \in Nat /\ 1 <= n /\ n <= Len(todo) /\ todo \in Seq(Tokens)
          /\ Len(todo) \in Nat /\ socket \in Seq(Tokens)
      BY LenProperties DEF ConnInv, PeerInv
    <2>2. SubSeq(todo, 1, n) \in Seq(Tokens) /\ Len(SubSeq(todo, 1, n)) = n
      BY <2>1, SubSeqProperties
    <2>3. Len(socket \o SubSeq(todo, 1, n)) = Len(socket) + n
          /\ Len(socket) \in Nat
      BY <2>1, <2>2, ConcatProperties, LenProperties
    <2>4. Len(socket \o SubSeq(todo, 1, n)) # 0 /\ Len(<<>>) = 0
      BY <2>1, <2>3, EmptySeq
    <2>5. socket' = socket \o SubSeq(todo, 1, n)
      BY <1>2 DEF Deliver
    <2>6. socket' # <<>>
      BY <2>4, <2>5
    <2>7. QED
      BY <2>6 DEF LateInv
  <1>3. CASE Accept \/ SendRest
    BY <1>3, RequestAccepted, RequestAnswered DEF LateInv
  <1>4. CASE FlagMissed
    BY <1>4, SameOldest DEF FlagMissed, LateInv
  <1>5. CASE UNCHANGED <<pc, missed, asked, answered, todo, socket>>
    BY <1>5, SameOldest DEF LateInv
  <1>6. CASE pc' \notin {"ended", "epollin"}
    BY <1>6 DEF LateInv
  <1>7. CASE ~missed' /\ pc' # "ended"
    BY <1>7 DEF LateInv
  <1>8. QED
    <2>1. Leave \/ Drain \/ Silence \/ UNCHANGED vars
            => UNCHANGED <<pc, missed, asked, answered, todo, socket>>
      BY DEF Leave, Drain, Silence, vars
    <2>2. EventHup \/ Tick \/ DealTimer \/ ReadOnce \/ ReadFail
            => pc' \notin {"ended", "epollin"}
      BY DEF EventHup, Tick, DealTimer, Close, ReadOnce, ReadFail
    <2>3. ParseOn \/ BadRequest \/ DoRequest \/ GiveUp \/ Respond
            => pc' \notin {"ended", "epollin"}
      BY DEF ParseOn, BadRequest, DoRequest, GiveUp, Respond, Armed, Goto
    <2>4. EventOut \/ SendPart \/ SendLater \/ SendFails
            => pc' \notin {"ended", "epollin"}
      BY DEF EventOut, SendPart, SendLater, AwaitRoom, SendFails, Goto
    <2>5. NoRequest => pc' # "ended" /\ (pc' = "epollin" => ~missed')
      BY DEF NoRequest, Goto, Armed
    <2>6. QED
      BY <1>1, <1>2, <1>3, <1>4, <1>5, <1>6, <1>7, <2>1, <2>2, <2>3, <2>4,
         <2>5 DEF Next, Client, Server

(* The server does not wait for more of a request that has come completely,  *)
(* unless the network has cut its body: that is what parse_content's restart *)
(* of the line loop stumbles over.                                           *)
THEOREM CompleteMeansAnswered ==
  ASSUME BodyCuts = FALSE
  PROVE  Spec => []NoRequestOverlooked
  <1> DEFINE Inv == LookInv /\ CutInv /\ LateInv
  <1>1. Init => Inv
    BY DEF Init, Inv, LookInv, CutInv, LateInv
  <1>2. ConnInv /\ RequestInv /\ Inv /\ [Next]_vars => Inv'
    <2>1. SUFFICES ASSUME ConnInv, RequestInv, Inv, [Next]_vars PROVE Inv'
      OBVIOUS
    <2>2. LookInv' /\ CutInv'
      BY <2>1, LookStep
    <2>3. LateInv'
      BY <2>1, LateStep
    <2>4. QED
      BY <2>2, <2>3
  <1>3. ConnInv /\ RequestInv /\ Inv => NoRequestOverlooked
    <2>1. SUFFICES ASSUME ConnInv, RequestInv, Inv, pc = "epollin",
                          todo = <<>>, socket = <<>>, Waiting,
                          Oldest \notin BadLines
                   PROVE  FALSE
      BY DEF NoRequestOverlooked
    <2>2. Oldest \in Good /\ ParserInv(c)
      BY <2>1, OldestKnown DEF Good, ConnInv, ReadInv
    <2>3. /\ Holds(c, Message[Oldest]) /\ Understands(c, Oldest)
          /\ Arrives(c, socket, todo, Message[Oldest])
          /\ ~missed
      BY <2>1 DEF RequestInv, StreamInv, LateInv
    <2>4. ReadIdx(c) = Len(Message[Oldest]) /\ ReadIdx(c) \in Nat
      <3>1. ReadIdx(c) \in Nat
        BY <2>2, LenProperties DEF ParserInv, ParserOK, ParserStates, ReadIdx
      <3>2. QED
        BY <2>1, <2>3, <3>1, EmptySeq DEF Arrives
    <2>5. CASE \E i \in 0..NLines[Oldest] : HeadAt(c, Oldest, i)
      <3>1. PICK i \in 0..NLines[Oldest] : HeadAt(c, Oldest, i)
        BY <2>5
      <3>2. ReadIdx(c) <= LineEnd(Oldest, i) + 1
        BY <2>1, <2>2, <2>3, <3>1 DEF LookInv
      <3>3. /\ LineEnd(Oldest, i) + 2 <= Len(Message[Oldest])
            /\ LineEnd(Oldest, i) \in Nat
        BY <2>2, GoodLine
      <3>4. QED
        BY <2>4, <3>2, <3>3
    <2>6. CASE BodyAhead(c, Oldest)
      <3>1. Oldest = "post" /\ c.m_check_state = "CONTENT"
        BY <2>6 DEF BodyAhead
      <3>2. ReadIdx(c) = 11
        BY <2>1, <2>3, <3>1 DEF CutInv
      <3>3. Len(Message["post"]) = 13
        BY ShapedPost DEF Shaped
      <3>4. QED
        BY <2>4, <3>1, <3>2, <3>3
    <2>7. QED
      BY <2>1, <2>3, <2>5, <2>6 DEF Understands
  <1>4. QED
    BY ConnInvariant, RequestInvariant, <1>1, <1>2, <1>3, PTL DEF Spec

-----------------------------------------------------------------------------
(* http_conn keeps what HttpService promises to a client.                    *)

(* Only a request that is too long does not fit in the read buffer.          *)
BufferFits ==
  \A k \in Kinds : Len(Message[k]) < READ_BUFFER_SIZE <=> k # "long"

(* The response that is set up is the one that the oldest request is to get, *)
(* and a connection ends for one of the reasons that HttpService allows.     *)
AnswerInv ==
  pc \in {"epollout", "write"} =>
    /\ Reply[Oldest] \in {"file", "page"}
    /\ r.m_iv_count = IF Reply[Oldest] = "file" THEN 2 ELSE 1

(* The last request that was answered did not ask to be kept.                *)
LastNotKept == answered # <<>> /\ ~Keeps[asked[Len(answered)]]

DeadInv ==
  pc \in {"dead", "failed"} =>
    \/ hup
    \/ Waiting /\ Reply[Oldest] = "drop"
    \/ LastNotKept

(* Nor when the connection is kept all the same, for a missed timer_flag.    *)
EndInv == pc = "ended" \/ (missed /\ pc # "closed") => LastNotKept

ServiceInv == asked \in Seq(Kinds) /\ AnswerInv /\ DeadInv /\ EndInv

(* The files that the messages ask for, and what do_request finds.           *)
LEMMA LookupReply ==
  ASSUME NEW k \in Good \ {"junk", "long"}
  PROVE  LET found == Lookup[Message[k][1]] IN
         /\ found = "FILE_REQUEST" => Reply[k] = "file"
         /\ found \in {"BAD_REQUEST", "FORBIDDEN_REQUEST"} => Reply[k] = "page"
         /\ found \in {"NO_RESOURCE", "EMPTY_FILE"} => Reply[k] = "drop"
  <1>1. k \in Names /\ k \in DOMAIN Message
    BY MessageTokens DEF Good
  <1>2. CASE k \in {"missing", "empty", "dir"}
    <2>1. Message[k][1] = k
      BY <1>2, ShapedOne
    <2>2. QED
      BY <1>1, <1>2, <2>1 DEF Lookup, Reply, BadLines
  <1>3. CASE k \in {"file", "once", "post"}
    <2>1. Message[k][1] = "file"
      BY <1>3, ShapedTwo, ShapedPost
    <2>2. QED
      BY <1>1, <1>3, <2>1 DEF Lookup, Reply, BadLines
  <1>4. CASE k = "forbidden"
    <2>1. Message[k][1] = "forbidden"
      BY <1>4, ShapedTwo
    <2>2. QED
      BY <1>1, <1>4, <2>1 DEF Lookup, Reply, BadLines
  <1>5. QED
    BY <1>2, <1>3, <1>4 DEF Good, Names, BadLines

(* What process_write goes by is the answer that the request is to get.      *)
LEMMA Decided ==
  ASSUME BufferFits, ConnInv, RequestInv, asked \in Seq(Kinds),
         pc = "build", ~missed
  PROVE  /\ Waiting
         /\ ret = "FILE_REQUEST" => Reply[Oldest] = "file"
         /\ ret \in {"BAD_REQUEST", "FORBIDDEN_REQUEST"}
              => Reply[Oldest] = "page"
         /\ ret \in {"NO_RESOURCE", "EMPTY_FILE"} => Reply[Oldest] = "drop"
  <1>1. Waiting /\ Len(asked) = Len(answered) + 1 /\ Len(answered) \in Nat
    BY OldestKnown DEF RequestInv, IdleInv
  <1>2. Oldest \in Good
    BY DEF RequestInv, BuildInv
  <1>3. Oldest \in Kinds
    <2>1. Len(answered) + 1 \in 1..Len(asked)
      BY <1>1
    <2>2. QED
      BY <2>1, ElementOfSeq DEF Oldest
  <1>4. CASE Oldest = "junk"
    <2>1. ret = "BAD_REQUEST"
      BY <1>4 DEF RequestInv, BuildInv
    <2>2. Reply[Oldest] = "page"
      BY <1>2, <1>4, MessageTokens DEF Reply, Names, BadLines
    <2>3. QED
      BY <1>1, <2>1, <2>2
  <1>5. CASE Oldest # "junk"
    <2>1. /\ ret = Lookup[Message[Oldest][1]]
          /\ Len(Message[Oldest]) < READ_BUFFER_SIZE
      BY <1>5 DEF RequestInv, BuildInv
    <2>2. Oldest # "long"
      BY <1>3, <2>1 DEF BufferFits
    <2>3. QED
      BY <1>1, <1>2, <1>5, <2>1, <2>2, LookupReply
  <1>6. QED
    BY <1>4, <1>5

(* Only kinds of requests are asked.                                         *)
LEMMA KindsAsked ==
  ASSUME asked \in Seq(Kinds), [Next]_vars
  PROVE  asked' \in Seq(Kinds)
  <1>1. ASSUME NEW k \in Kinds, Ask(k)
        PROVE  asked' \in Seq(Kinds)
    BY <1>1, AppendProperties DEF Ask
  <1>2. CASE Accept
    BY <1>2, EmptySeq DEF Accept
  <1>3. CASE UNCHANGED asked
    BY <1>3
  <1>4. QED
    BY <1>1, <1>2, <1>3
       DEF Next, Client, Server, Deliver, Leave, Drain, EventHup, DealTimer,
           Tick, Close, Silence, FlagMissed,
           ReadOnce, ReadFail, NoRequest, ParseOn, BadRequest, DoRequest,
           Respond, GiveUp, EventOut, SendPart, SendLater, AwaitRoom,
           SendFails, SendRest, Goto, peerVars, vars

(* process_write sets up the answer, writev keeps it.                        *)
LEMMA AnswerStep ==
  ASSUME BufferFits, HeaderSplits <= 1, ConnInv, WriteInv, RequestInv,
         ServiceInv, [Next]_vars
  PROVE  AnswerInv'
  <1>1. CASE Respond
    <2>1. /\ pc = "build" /\ r = Empty /\ UNCHANGED <<asked, answered>>
          /\ \/ ret = "FILE_REQUEST" /\ r' = AnswerFile(r)
             \/ /\ ret \in {"BAD_REQUEST", "FORBIDDEN_REQUEST"}
                /\ r' = AnswerPage(r)
      BY <1>1 DEF Respond, WriteInv, history, peerVars
    <2>2. Oldest' = Oldest
      BY <2>1, SameOldest
    <2>3. ~missed => /\ ret = "FILE_REQUEST" => Reply[Oldest] = "file"
                     /\ ret \in {"BAD_REQUEST", "FORBIDDEN_REQUEST"}
                          => Reply[Oldest] = "page"
      BY <2>1, Decided DEF ServiceInv
    <2>4. /\ AnswerFile(Empty).m_iv_count = 2
          /\ AnswerPage(Empty).m_iv_count = 1
      BY Started, Sizes
    <2>5. missed => pc' = "dead"
      BY <1>1 DEF Respond, Armed
    <2>6. QED
      BY <2>1, <2>2, <2>3, <2>4, <2>5 DEF AnswerInv
  <1>2. CASE SendPart
    <2>1. PICK n \in 1..Len(Gathered(r)) :
            /\ ~Finishes(r, n) /\ (Split(r, n) => r.splits < HeaderSplits)
            /\ r' = Writev(r, n)
      BY <1>2 DEF SendPart
    <2>2. pc = "write" /\ UNCHANGED <<pc, asked, answered>> /\ Sending(r)
      BY <1>2 DEF SendPart, WriteInv, history
    <2>3. Len(Gathered(r)) = r.bytes_to_send
      BY <2>2, GatheredBytes, Sizes
    <2>4. r'.m_iv_count = r.m_iv_count
      BY <2>1, <2>2, <2>3, WritevKeeps, Sizes
    <2>5. Oldest' = Oldest
      BY <2>2, SameOldest
    <2>6. QED
      BY <2>2, <2>4, <2>5 DEF ServiceInv, AnswerInv
  <1>3. CASE \/ UNCHANGED <<pc, r, asked, answered>>
             \/ /\ pc \in {"epollout", "write"}
                /\ UNCHANGED <<r, asked, answered>>
             \/ pc' \notin {"epollout", "write"}
    BY <1>3, SameOldest DEF ServiceInv, AnswerInv
  <1>4. ASSUME NEW k \in Kinds, Ask(k)
        PROVE  pc' \notin {"epollout", "write"}
    BY <1>4, AskedFirst DEF Ask, ConnInv, ControlInv
  <1>5. QED
    BY <1>1, <1>2, <1>3, <1>4
       DEF Next, Client, Server, Deliver, Leave, Accept, Drain, EventHup,
           DealTimer, Tick, Close, Silence, FlagMissed, Armed,
           ReadOnce, ReadFail, NoRequest, ParseOn, BadRequest,
           DoRequest, GiveUp, EventOut, SendLater, AwaitRoom,
           SendFails, SendRest, Goto, history, peerVars, vars

(* A request behind the last answer does not change that one.                *)
LEMMA NotKeptStays ==
  ASSUME ConnInv, RequestInv, ServiceInv, LastNotKept,
         NEW k \in Kinds, Ask(k)
  PROVE  LastNotKept'
  <1>1. /\ ~Waiting /\ asked' = Append(asked, k) /\ UNCHANGED answered
    BY DEF Ask, history
  <1>2. Len(answered) = Len(asked) /\ Len(answered) \in Nat
    BY <1>1, OldestKnown
  <1>3. Len(answered) # 0
    BY EmptySeq DEF ConnInv, PeerInv, LastNotKept
  <1>4. Len(answered) \in 1..Len(asked)
    BY <1>2, <1>3
  <1>5. asked'[Len(answered)] = asked[Len(answered)]
    BY <1>1, <1>4, AppendProperties DEF ServiceInv
  <1>6. QED
    BY <1>1, <1>5 DEF LastNotKept

(* A connection that is kept after an answer ends otherwise.                 *)
LEMMA EndStep ==
  ASSUME ConnInv, RequestInv, ServiceInv, [Next]_vars
  PROVE  EndInv'
  <1> USE DEF history, timers, peerVars
  <1>1. ASSUME NEW k \in Kinds, Ask(k)
        PROVE  EndInv'
    BY <1>1, NotKeptStays DEF ServiceInv, EndInv, Ask
  <1>2. CASE SendRest
    <2>1. ~missed'
      BY <1>2 DEF SendRest, ConnInv, ControlInv
    <2>2. SUFFICES ASSUME pc' = "ended"
                   PROVE  LastNotKept'
      BY <2>1 DEF EndInv
    <2>3. pc = "write" /\ ~c.m_linger /\ UNCHANGED asked
      BY <1>2, <2>2 DEF SendRest
    <2>4. PICK a \in {"file", "page", "garbled"} :
            answered' = Append(answered, a)
      BY <1>2 DEF SendRest
    <2>5. Len(answered') = Len(answered) + 1 /\ Len(answered) \in Nat
      BY <2>4, AppendProperties, LenProperties DEF ConnInv, PeerInv
    <2>6. answered' # <<>>
      BY <2>5, EmptySeq
    <2>7. asked'[Len(answered')] = Oldest
      BY <2>3, <2>5 DEF Oldest
    <2>8. ~Keeps[Oldest]
      BY <2>3 DEF RequestInv, BuildInv, ConnInv, ControlInv
    <2>9. QED
      BY <2>6, <2>7, <2>8 DEF LastNotKept
  <1>3. CASE Accept
    BY <1>3 DEF Accept, EndInv
  <1>4. CASE FlagMissed
    <2>1. (LastNotKept' <=> LastNotKept)
      BY <1>4 DEF FlagMissed, LastNotKept
    <2>2. QED
      BY <1>4, <2>1 DEF FlagMissed, ServiceInv, EndInv
  <1>5. ASSUME UNCHANGED <<asked, answered, missed>>,
               pc' = "ended" => pc = "ended", pc' # "closed" => pc # "closed"
        PROVE  EndInv'
    <2>1. (LastNotKept' <=> LastNotKept)
      BY <1>5 DEF LastNotKept
    <2>2. QED
      BY <1>5, <2>1 DEF ServiceInv, EndInv
  <1>6. CASE (\E n \in 1..Len(todo) : Deliver(n)) \/ Leave \/ Drain
             \/ UNCHANGED vars
    BY <1>5, <1>6 DEF Deliver, Leave, Drain, vars
  <1>7. CASE EventHup \/ Tick \/ DealTimer \/ Silence \/ ReadOnce \/ ReadFail
    BY <1>5, <1>7
       DEF EventHup, Tick, DealTimer, Close, Silence, ReadOnce, ReadFail
  <1>8. CASE NoRequest \/ ParseOn \/ BadRequest \/ DoRequest \/ Respond
             \/ GiveUp
    BY <1>5, <1>8 DEF NoRequest, ParseOn, BadRequest, DoRequest, Respond,
                      GiveUp, Armed, Goto
  <1>9. CASE EventOut \/ SendPart \/ SendLater \/ SendFails
    BY <1>5, <1>9 DEF EventOut, SendPart, SendLater, AwaitRoom, SendFails, Goto
  <1>10. QED
    BY <1>1, <1>2, <1>3, <1>4, <1>6, <1>7, <1>8, <1>9
       DEF Next, Client, Server

(* Why a connection is given to the timer.                                   *)
LEMMA DeadStep ==
  ASSUME BufferFits, ConnInv, RequestInv, ServiceInv, [Next]_vars
  PROVE  DeadInv'
  <1> USE DEF history, timers, peerVars
  <1>1. ASSUME NEW k \in Kinds, Ask(k)
        PROVE  DeadInv'
    BY <1>1, NotKeptStays DEF ServiceInv, DeadInv, Ask
  <1>2. ASSUME missed, pc # "closed", UNCHANGED <<asked, answered>>
        PROVE  DeadInv'
    BY <1>2 DEF ServiceInv, EndInv, DeadInv, LastNotKept
  <1>3. CASE ReadFail
    <2>1. /\ pc = "epollin" /\ UNCHANGED <<hup, asked, answered>>
          /\ ~Fits \/ hup
      BY <1>3 DEF ReadFail
    <2>2. (Waiting' <=> Waiting) /\ Oldest' = Oldest
      BY <2>1, SameOldest
    <2>3. SUFFICES ASSUME ~Fits, ~missed PROVE Waiting /\ Reply[Oldest] = "drop"
      BY <1>2, <2>1, <2>2 DEF DeadInv
    <2>4. /\ READ_BUFFER_SIZE \in Nat /\ READ_BUFFER_SIZE # 0
          /\ ReadIdx(c) \in Nat /\ Len(socket) \in Nat /\ Len(todo) \in Nat
      BY Sizes, LenProperties DEF ConnInv, PeerInv, ReadInv, ParserInv,
                                  ParserOK, ParserStates, ReadIdx
    <2>5. ReadIdx(c) + Len(socket) >= READ_BUFFER_SIZE
      BY <2>3, <2>4 DEF Fits
    <2>6. Waiting
      <3>1. SUFFICES ASSUME ~Waiting PROVE FALSE
        OBVIOUS
      <3>2. c = Cleared /\ socket = <<>>
        BY <2>1, <2>3, <3>1 DEF RequestInv, IdleInv
      <3>3. ReadIdx(c) = 0 /\ Len(socket) = 0
        BY <3>2, ReadKeeps, EmptySeq
      <3>4. QED
        BY <2>4, <2>5, <3>3
    <2>7. Oldest \in Kinds /\ Oldest \in Names
      <3>1. Len(answered) + 1 \in 1..Len(asked)
        BY <2>6, OldestKnown
      <3>2. QED
        BY <2>6, <3>1, ElementOfSeq, OldestKnown DEF Oldest, ServiceInv
    <2>8. ReadIdx(c) + Len(socket) + Len(todo) = Len(Message[Oldest])
      BY <2>1, <2>3, <2>6 DEF RequestInv, StreamInv, Arrives
    <2>9. ~(Len(Message[Oldest]) < READ_BUFFER_SIZE)
      BY <2>4, <2>5, <2>8
    <2>10. Oldest = "long"
      BY <2>7, <2>9 DEF BufferFits
    <2>11. Reply[Oldest] = "drop"
      BY <2>7, <2>10, MessageTokens DEF Reply, BadLines
    <2>12. QED
      BY <2>6, <2>11
  <1>4. CASE SendFails \/ Leave
    BY <1>4 DEF SendFails, Leave, DeadInv
  <1>5. CASE NoRequest \/ Respond
    <2>1. pc' \in {"dead", "failed"} => missed
      BY <1>5 DEF NoRequest, Respond, Goto, Armed
    <2>2. pc # "closed" /\ UNCHANGED <<asked, answered>>
      BY <1>5 DEF NoRequest, Respond, Goto
    <2>3. QED
      BY <1>2, <2>1, <2>2 DEF DeadInv
  <1>6. CASE \/ /\ (pc = "dead" \/ pc' = pc)
                /\ UNCHANGED <<hup, asked, answered>>
             \/ pc' \notin {"dead", "failed"}
    <2>1. CASE UNCHANGED <<hup, asked, answered>>
      <3>1. (LastNotKept' <=> LastNotKept)
        BY <2>1 DEF LastNotKept
      <3>2. QED
        BY <1>6, <2>1, <3>1, SameOldest DEF ServiceInv, DeadInv
    <2>2. QED
      BY <1>6, <2>1 DEF DeadInv
  <1>7. CASE (\E n \in 1..Len(todo) : Deliver(n)) \/ Accept \/ Drain
             \/ Silence \/ FlagMissed \/ UNCHANGED vars
    BY <1>6, <1>7 DEF Deliver, Accept, Drain, Silence, FlagMissed, vars
  <1>8. CASE EventHup \/ Tick \/ DealTimer \/ ReadOnce \/ ParseOn
             \/ BadRequest \/ DoRequest \/ GiveUp
    BY <1>6, <1>8 DEF EventHup, Tick, DealTimer, Close, ReadOnce, ParseOn,
                      BadRequest, DoRequest, GiveUp, Goto
  <1>9. CASE EventOut \/ SendPart \/ SendLater \/ SendRest
    BY <1>6, <1>9 DEF EventOut, SendPart, SendLater, AwaitRoom, SendRest, Goto
  <1>10. QED
    BY <1>1, <1>3, <1>4, <1>5, <1>7, <1>8, <1>9 DEF Next, Client, Server

(* Steps that a client does not see.                                         *)
LEMMA Stutters ==
  ASSUME pc # "closed" <=> pc' # "closed",
         UNCHANGED <<hup, asked, answered, todo, room, due>>
  PROVE  UNCHANGED Service!vars
  BY DEF Service!vars

(* The last byte of an answer.                                               *)
LEMMA AnswersOldest ==
  ASSUME ConnInv, WriteInv, RequestInv, ServiceInv, SendRest
  PROVE  Service!Answer
  <1>1. /\ pc = "write" /\ pc' # "closed"
        /\ UNCHANGED <<hup, asked, todo, room, due>>
        /\ answered' = Append(answered,
             IF AfterAll(r) # Response(r) THEN "garbled"
             ELSE IF r.m_iv_count = 2 THEN "file" ELSE "page")
    BY DEF SendRest, timers, peerVars
  <1>2. Sending(r)
    BY <1>1 DEF WriteInv
  <1>3. AfterAll(r) = Response(r)
    BY <1>2, WholeSent, Sizes
  <1>4. /\ Reply[Oldest] \in {"file", "page"}
        /\ r.m_iv_count = IF Reply[Oldest] = "file" THEN 2 ELSE 1
    BY <1>1 DEF ServiceInv, AnswerInv
  <1>5. (IF r.m_iv_count = 2 THEN "file" ELSE "page") = Reply[Oldest]
    BY <1>4
  <1>6. answered' = Append(answered, Reply[Oldest])
    BY <1>1, <1>3, <1>5
  <1>7. Waiting
    BY <1>1 DEF RequestInv, IdleInv, ConnInv, ControlInv
  <1>8. QED
    BY <1>1, <1>4, <1>6, <1>7
       DEF Service!Answer, Service!Waiting, Service!Oldest, Waiting, Oldest

(* The reasons of HttpService to close a connection, in terms of http_conn.  *)
LEMMA ServiceExcuses ==
  Service!Excused <=> hup \/ (Waiting /\ Reply[Oldest] = "drop") \/ LastNotKept
  BY DEF Service!Excused, Service!Waiting, Service!Oldest, Waiting, Oldest,
         LastNotKept

(* A connection is closed for one of them.                                   *)
LEMMA ClosesRightly ==
  ASSUME BufferFits, ConnInv, RequestInv, ServiceInv,
         EventHup \/ Tick \/ DealTimer \/ GiveUp
  PROVE  Service!Close
  <1>1. /\ pc # "closed" /\ pc' = "closed"
        /\ UNCHANGED <<hup, asked, answered, todo, room, due>>
    BY DEF EventHup, Tick, DealTimer, Close, GiveUp, Goto, history, timers,
           peerVars
  <1>2. due \/ Service!Excused
    <2>1. CASE EventHup
      BY <2>1, ServiceExcuses DEF EventHup
    <2>2. CASE DealTimer
      BY <2>2, ServiceExcuses DEF DealTimer, ServiceInv, DeadInv, EndInv
    <2>3. CASE GiveUp
      <3>1. pc = "build" /\ ret \in {"NO_RESOURCE", "EMPTY_FILE"}
        BY <2>3 DEF GiveUp
      <3>2. CASE missed
        BY <3>1, <3>2, ServiceExcuses DEF ServiceInv, EndInv
      <3>3. CASE ~missed
        BY <3>1, <3>3, Decided, ServiceExcuses DEF ServiceInv
      <3>4. QED
        BY <3>2, <3>3
    <2>4. CASE Tick
      BY <2>4 DEF Tick
    <2>5. QED
      BY <2>1, <2>2, <2>3, <2>4
  <1>3. QED
    BY <1>1, <1>2 DEF Service!Close, Service!MayClose

(* The idle timer runs out only on a client that is silent, or on a          *)
(* connection that ends.                                                     *)
LEMMA SilentRightly ==
  ASSUME ConnInv, RequestInv, ServiceInv, NoRequestOverlooked, Silence
  PROVE  Service!FallSilent
  <1>1. /\ ~due /\ due' = TRUE /\ pc \in {"epollin", "epollout", "failed"}
        /\ UNCHANGED <<pc, hup, asked, answered, todo, room>>
    BY DEF Silence, history, peerVars
  <1>2. Service!Excused \/ Service!Idle
    <2>1. CASE pc = "epollin"
      <3>1. CASE missed
        BY <2>1, <3>1, ServiceExcuses DEF ServiceInv, EndInv
      <3>2. CASE Waiting /\ todo = <<>>
        <4>1. Oldest \in BadLines
          BY <2>1, <3>2 DEF Silence, NoRequestOverlooked
        <4>2. Oldest \in DOMAIN Message
          BY <3>2, OldestKnown, MessageTokens
        <4>3. Reply[Oldest] = "none"
          BY <4>1, <4>2 DEF Reply
        <4>4. QED
          BY <4>3 DEF Service!Idle, Service!Oldest, Oldest
      <3>3. CASE ~(Waiting /\ todo = <<>>)
        BY <3>3 DEF Service!Idle, Service!Waiting, Waiting
      <3>4. QED
        BY <3>1, <3>2, <3>3
    <2>2. CASE pc = "epollout"
      BY <2>2 DEF Silence, Service!Idle
    <2>3. CASE pc = "failed"
      BY <2>3, ServiceExcuses DEF ServiceInv, DeadInv
    <2>4. QED
      BY <1>1, <2>1, <2>2, <2>3
  <1>3. QED
    BY <1>1, <1>2 DEF Service!FallSilent

(* A client gets one answer for each of its requests, in their order,        *)
(* complete and unmixed, and the server hangs up only for one of the reasons *)
(* of HttpService: read_once, process and write(), the idle timer and        *)
(* timer_flag, seen or missed, together.                                     *)
THEOREM ServesRequests ==
  ASSUME BufferFits, HeaderSplits <= 1, BodyCuts = FALSE
  PROVE  Spec => ImplementsService
  <1> DEFINE Inv == /\ ConnInv /\ WriteInv /\ RequestInv
                    /\ NoRequestOverlooked
  <1>1. Spec => []Inv
    BY ConnInvariant, RequestInvariant, CompleteMeansAnswered, PTL
  <1>2. Init => ServiceInv
    BY EmptySeq DEF Init, ServiceInv, AnswerInv, DeadInv, EndInv
  <1>3. Inv /\ ServiceInv /\ [Next]_vars => ServiceInv'
    <2>1. SUFFICES ASSUME Inv, ServiceInv, [Next]_vars PROVE ServiceInv'
      OBVIOUS
    <2>2. asked' \in Seq(Kinds)
      BY <2>1, KindsAsked DEF ServiceInv
    <2>3. AnswerInv'
      BY <2>1, AnswerStep
    <2>4. DeadInv'
      BY <2>1, DeadStep
    <2>5. EndInv'
      BY <2>1, EndStep
    <2>6. QED
      BY <2>2, <2>3, <2>4, <2>5 DEF ServiceInv
  <1>4. Init => Service!Init
    BY DEF Init, Service!Init
  <1>5. Inv /\ ServiceInv /\ [Next]_vars => [Service!Next]_(Service!vars)
    <2>1. SUFFICES ASSUME Inv, ServiceInv, [Next]_vars
                   PROVE  [Service!Next]_(Service!vars)
      OBVIOUS
    <2> USE DEF history, timers, peerVars
    <2>2. ASSUME NEW k \in Kinds, Ask(k)
          PROVE  Service!Ask(k)
      <3>1. Message[k] # <<>>
        BY Sizes, MessageTokens, MessageStarts
      <3>2. QED
        BY <2>2, <3>1 DEF Ask, Service!Ask
    <2>3. CASE Leave
      BY <2>3 DEF Leave, Service!Next, Service!Leave
    <2>4. CASE Accept
      BY <2>4 DEF Accept, Service!Next, Service!Connect
    <2>5. CASE SendRest
      BY <2>1, <2>5, AnswersOldest DEF Service!Next
    <2>6. CASE EventHup \/ Tick \/ DealTimer \/ GiveUp
      BY <2>1, <2>6, ClosesRightly DEF Service!Next
    <2>7. CASE Silence
      BY <2>1, <2>7, SilentRightly DEF Service!Next
    <2>8. CASE \E n \in 1..Len(todo) : Deliver(n)
      <3>1. /\ todo # <<>> /\ pc # "closed"
            /\ UNCHANGED <<pc, hup, asked, answered, room, due>>
        BY <2>8, EmptySeq DEF Deliver
      <3>2. CASE todo' = <<>>
        BY <3>1, <3>2 DEF Service!Next, Service!Arrive
      <3>3. CASE todo' # <<>>
        BY <3>1, <3>3 DEF Service!vars
      <3>4. QED
        BY <3>2, <3>3
    <2>9. CASE Drain
      BY <2>9 DEF Drain, Service!Next, Service!Read
    <2>10. CASE SendPart
      <3>1. /\ room /\ room' \in BOOLEAN
            /\ UNCHANGED <<pc, hup, asked, answered, todo, due>>
        BY <2>10 DEF SendPart
      <3>2. CASE room' = FALSE
        BY <3>1, <3>2 DEF Service!Next, Service!Fill
      <3>3. CASE room' = TRUE
        <4>1. UNCHANGED room
          BY <2>1, <3>1, <3>3 DEF ConnInv, ControlInv
        <4>2. QED
          BY <3>1, <4>1, Stutters
      <3>4. QED
        BY <3>1, <3>2, <3>3
    <2>11. CASE ReadOnce \/ ReadFail \/ EventOut
      <3>1. /\ pc # "closed" /\ pc' # "closed" /\ due' = FALSE
            /\ UNCHANGED <<hup, asked, answered, todo, room>>
        BY <2>11 DEF ReadOnce, ReadFail, EventOut
      <3>2. CASE due
        BY <3>1, <3>2 DEF Service!Next, Service!Attend
      <3>3. CASE ~due
        <4>1. UNCHANGED due
          BY <2>1, <3>1, <3>3 DEF ConnInv, ControlInv
        <4>2. QED
          BY <3>1, <4>1, Stutters
      <3>4. QED
        BY <3>2, <3>3
    <2>12. CASE NoRequest \/ ParseOn \/ BadRequest \/ DoRequest \/ Respond
      BY <2>12, Stutters DEF NoRequest, ParseOn, BadRequest, DoRequest, Respond,
                             Armed, Goto
    <2>13. CASE SendLater \/ SendFails \/ FlagMissed \/ UNCHANGED vars
      BY <2>13, Stutters DEF SendLater, AwaitRoom, SendFails, FlagMissed, Goto,
                             vars
    <2>14. QED
      BY <2>1, <2>2, <2>3, <2>4, <2>5, <2>6, <2>7, <2>8, <2>9, <2>10, <2>11,
         <2>12, <2>13 DEF Next, Client, Server, Service!Next
  <1>6. QED
    BY <1>1, <1>2, <1>3, <1>4, <1>5, PTL
       DEF Spec, Service!Spec, ImplementsService
=============================================================================
