----------------------------- MODULE HttpWrite -----------------------------
(***************************************************************************)
(* The response of an http_conn (http/http_conn.cpp), as functions of its  *)
(* fields r: the two iovecs that process_write sets up, and their          *)
(* arithmetic in write() when writev sends only a part.                    *)
(*                                                                         *)
(* A byte is named by where it comes from: <<"buf", i>> is the i-th of     *)
(* m_write_buf, <<"file", i>> the i-th from m_file_address.                *)
(***************************************************************************)
EXTENDS Integers, Sequences

CONSTANTS
  HeaderLength,   (* the bytes of a status line and headers                  *)
  PageLength,     (* the bytes of an error page with its headers             *)
  FileLength,     (* m_file_stat.st_size                                     *)
  HeaderSplits    (* bound: how often writev may end within m_write_buf      *)

Iovecs == [base : Nat, len : Nat]

(* m_iv[0] and m_iv[1] with their bases as offsets; wire: the bytes that     *)
(* were sent; splits: how often writev has ended within m_write_buf.         *)
Responses ==
  [m_write_idx : {0, HeaderLength, PageLength}, iv0 : Iovecs, iv1 : Iovecs,
   m_iv_count : 0..2, bytes_to_send : Nat, bytes_have_send : Nat,
   wire : Seq({"buf", "file"} \X Nat), splits : 0..HeaderSplits]

Nothing == [base |-> 0, len |-> 0]

Empty ==
  [m_write_idx |-> 0, iv0 |-> Nothing, iv1 |-> Nothing, m_iv_count |-> 0,
   bytes_to_send |-> 0, bytes_have_send |-> 0, wire |-> <<>>, splits |-> 0]

(* Faulty variant of InitWrite: bytes_have_send stays.                       *)
InitWriteKeepsCount(r) ==
  [Empty EXCEPT !.bytes_have_send = r.bytes_have_send]

(* init().  (The iovecs stay, but are not used before they are set again.)   *)
InitWrite(r) == Empty

-----------------------------------------------------------------------------
(* process_write, after init(): a file, or an error page.                    *)

AnswerFile(r) ==
  [r EXCEPT !.m_write_idx = HeaderLength, !.m_iv_count = 2,
            !.iv0 = [base |-> 0, len |-> HeaderLength],
            !.iv1 = [base |-> 0, len |-> FileLength],
            !.bytes_to_send = HeaderLength + FileLength]

AnswerPage(r) ==
  [r EXCEPT !.m_write_idx = PageLength, !.m_iv_count = 1,
            !.iv0 = [base |-> 0, len |-> PageLength],
            !.bytes_to_send = PageLength]

-----------------------------------------------------------------------------
(* write()                                                                   *)

Bytes(origin, iv) == [k \in 1..iv.len |-> <<origin, iv.base + k>>]

(* What writev has to send.                                                  *)
Gathered(r) ==
  Bytes("buf", r.iv0)
  \o (IF r.m_iv_count = 2 THEN Bytes("file", r.iv1) ELSE <<>>)

(* Faulty variant of FileFrom: the header is not taken off.                  *)
FileFromStart(r, have, left) == [base |-> have, len |-> left]

(* The second iovec, when the header is done and `left` bytes are to go.     *)
FileFrom(r, have, left) == [base |-> have - r.m_write_idx, len |-> left]

Split(r, n) == r.bytes_have_send + n < r.m_write_idx

(* writev sends n bytes.  The length of the first iovec is compared with,    *)
(* and reduced by, all bytes sent so far, also those of earlier calls.       *)
Writev(r, n) ==
  LET have == r.bytes_have_send + n
      left == r.bytes_to_send - n
      done == have >= r.iv0.len IN
  [r EXCEPT
    !.bytes_have_send = have,
    !.bytes_to_send = left,
    !.iv0 = IF done THEN [@ EXCEPT !.len = 0]
                    ELSE [base |-> have, len |-> @.len - have],
    !.iv1 = IF done THEN FileFrom(r, have, left) ELSE @,
    !.wire = @ \o SubSeq(Gathered(r), 1, n),
    !.splits = IF Split(r, n) THEN @ + 1 ELSE @]

(* The call of writev that sends the last byte, and what the client has then.*)
Finishes(r, n) == r.bytes_to_send - n <= 0
AfterAll(r)    == r.wire \o Gathered(r)

(* What a whole response is: m_write_buf, then the file.                     *)
Response(r) ==
  [k \in 1..r.m_write_idx |-> <<"buf", k>>]
  \o (IF r.m_iv_count = 2 THEN [k \in 1..FileLength |-> <<"file", k>>] ELSE <<>>)
=============================================================================
