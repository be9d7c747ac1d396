-------------------------- MODULE HttpWriteProofs --------------------------
(***************************************************************************)
(* The arithmetic of write() on the two iovecs, for headers, pages and     *)
(* files of any length: wherever writev ends, if it ends at most once      *)
(* within m_write_buf, the iovecs hold what is left of the response.       *)
(***************************************************************************)
EXTENDS HttpWrite, SequenceTheorems, TLAPS

Origins == {"buf", "file"} \X Nat

(* The response by its bytes: those of m_write_buf, then those of the file.  *)
Total(x) == x.m_write_idx + (IF x.m_iv_count = 2 THEN FileLength ELSE 0)
ByteAt(x, i) == IF i <= x.m_write_idx THEN <<"buf", i>>
                                      ELSE <<"file", i - x.m_write_idx>>

(* Before writev has ended, where it has ended within m_write_buf, and where *)
(* it has ended behind it.                                                   *)
FromStart(x) ==
  /\ x.bytes_have_send = 0
  /\ x.iv0 = [base |-> 0, len |-> x.m_write_idx]
  /\ x.m_iv_count = 2 => x.iv1 = [base |-> 0, len |-> FileLength]

InHeader(x) ==
  /\ x.splits >= 1
  /\ x.bytes_have_send \in 1..(x.m_write_idx - 1)
  /\ x.iv0 = [base |-> x.bytes_have_send,
              len |-> x.m_write_idx - x.bytes_have_send]
  /\ x.m_iv_count = 2 => x.iv1 = [base |-> 0, len |-> FileLength]

InFile(x) ==
  /\ x.m_iv_count = 2
  /\ x.bytes_have_send >= x.m_write_idx
  /\ x.iv0.len = 0
  /\ x.iv1 = [base |-> x.bytes_have_send - x.m_write_idx,
              len |-> x.bytes_to_send]

(* What was sent is the beginning of the response, and the rest is to go.    *)
Sending(x) ==
  /\ x \in Responses
  /\ x.m_iv_count \in {1, 2} /\ x.m_write_idx > 0
  /\ x.bytes_have_send = Len(x.wire)
  /\ x.bytes_to_send = Total(x) - Len(x.wire)
  /\ x.bytes_to_send > 0
  /\ \A i \in 1..Len(x.wire) : x.wire[i] = ByteAt(x, i)
  /\ FromStart(x) \/ InHeader(x) \/ InFile(x)

LengthAssumption ==
  /\ HeaderLength \in Nat \ {0} /\ PageLength \in Nat \ {0}
  /\ FileLength \in Nat \ {0} /\ HeaderSplits \in Nat

-----------------------------------------------------------------------------
(* A run of bytes.                                                           *)
LEMMA RunOfBytes ==
  ASSUME NEW o \in {"buf", "file"}, NEW b \in Nat, NEW n \in Nat
  PROVE  LET s == [k \in 1..n |-> <<o, b + k>>] IN
         /\ s \in Seq(Origins) /\ Len(s) = n
         /\ \A k \in 1..n : s[k] = <<o, b + k>>
  <1>1. \A k \in 1..n : <<o, b + k>> \in Origins
    BY DEF Origins
  <1>2. QED
    BY <1>1, IsASeq

(* One sequence behind another.                                              *)
LEMMA Joined ==
  ASSUME NEW S, NEW s \in Seq(S), NEW t \in Seq(S),
         NEW a, a = Len(s), NEW b, b = Len(t)
  PROVE  /\ s \o t \in Seq(S) /\ a \in Nat /\ b \in Nat
         /\ Len(s \o t) = a + b
         /\ \A i \in 1..a : (s \o t)[i] = s[i]
         /\ \A i \in 1..(a + b) : i > a => (s \o t)[i] = t[i - a]
  <1>1. a \in Nat /\ b \in Nat
    BY LenProperties
  <1>2. /\ s \o t \in Seq(S) /\ Len(s \o t) = a + b
        /\ \A i \in 1..(a + b) :
             (s \o t)[i] = IF i <= a THEN s[i] ELSE t[i - a]
    BY ConcatProperties
  <1>3. \A i \in 1..a : i \in 1..(a + b) /\ i <= a
    BY <1>1
  <1>4. \A i \in 1..(a + b) : i > a => ~(i <= a)
    BY <1>1
  <1>5. QED
    BY <1>1, <1>2, <1>3, <1>4

(* The bytes of a response.                                                  *)
LEMMA ResponseBytes ==
  ASSUME LengthAssumption, NEW x \in Responses
  PROVE  /\ Response(x) \in Seq(Origins) /\ Len(Response(x)) = Total(x)
         /\ Total(x) \in Nat
         /\ \A i \in 1..Total(x) : Response(x)[i] = ByteAt(x, i)
  <1> DEFINE w == x.m_write_idx
             h == [k \in 1..w |-> <<"buf", k>>]
             f == [k \in 1..FileLength |-> <<"file", k>>]
  <1>1. w \in Nat /\ FileLength \in Nat
    BY DEF LengthAssumption, Responses
  <1>2. h \in Seq(Origins) /\ Len(h) = w /\ \A k \in 1..w : h[k] = <<"buf", k>>
    <2>1. \A k \in 1..w : <<"buf", k>> \in Origins
      BY <1>1 DEF Origins
    <2>2. QED
      BY <1>1, <2>1, IsASeq
  <1>3. /\ f \in Seq(Origins) /\ Len(f) = FileLength
        /\ \A k \in 1..FileLength : f[k] = <<"file", k>>
    <2>1. \A k \in 1..FileLength : <<"file", k>> \in Origins
      BY <1>1 DEF Origins
    <2>2. QED
      BY <1>1, <2>1, IsASeq
  <1>4. CASE x.m_iv_count = 2
    <2>1. Response(x) = h \o f /\ Total(x) = w + FileLength
      BY <1>4 DEF Response, Total
    <2> HIDE DEF h, f, w
    <2>2. /\ h \o f \in Seq(Origins) /\ Len(h \o f) = w + FileLength
          /\ \A i \in 1..(w + FileLength) :
               (h \o f)[i] = IF i <= w THEN h[i] ELSE f[i - w]
      BY <1>2, <1>3, ConcatProperties
    <2>3. ASSUME NEW i \in 1..(w + FileLength)
          PROVE  (h \o f)[i] = IF i <= w THEN <<"buf", i>>
                                         ELSE <<"file", i - w>>
      <3>1. CASE i <= w
        <4>1. i \in 1..w
          BY <1>1, <3>1
        <4>2. QED
          BY <1>2, <2>2, <3>1, <4>1
      <3>2. CASE ~(i <= w)
        <4>1. i - w \in 1..FileLength
          BY <1>1, <3>2
        <4>2. QED
          BY <1>3, <2>2, <3>2, <4>1
      <3>3. QED
        BY <3>1, <3>2
    <2>4. QED
      BY <1>1, <2>1, <2>2, <2>3 DEF ByteAt, w
  <1>5. CASE x.m_iv_count # 2
    <2>1. Response(x) = h \o <<>> /\ Total(x) = w + 0
      BY <1>5 DEF Response, Total
    <2>2. Response(x) = h
      BY <1>2, <2>1, ConcatEmptySeq
    <2>3. Total(x) = w
      BY <1>1, <2>1
    <2>4. QED
      BY <1>1, <1>2, <2>2, <2>3 DEF ByteAt
  <1>6. QED
    BY <1>4, <1>5

(* What writev has to send is the rest of the response.                      *)
LEMMA GatheredBytes ==
  ASSUME LengthAssumption, NEW x, Sending(x)
  PROVE  /\ Gathered(x) \in Seq(Origins)
         /\ Len(Gathered(x)) = x.bytes_to_send
         /\ \A i \in 1..x.bytes_to_send :
              Gathered(x)[i] = ByteAt(x, Len(x.wire) + i)
  <1> DEFINE h == Bytes("buf", x.iv0)
             f == Bytes("file", x.iv1)
             a == x.iv0.len
             b == x.iv1.len
             have == x.bytes_have_send
             w == x.m_write_idx
  <1>1. /\ x \in Responses /\ have \in Nat /\ w \in Nat /\ FileLength \in Nat
        /\ have = Len(x.wire) /\ x.bytes_to_send = Total(x) - have
        /\ x.iv0 \in Iovecs /\ x.iv1 \in Iovecs /\ x.m_iv_count \in {1, 2}
    BY DEF Sending, LengthAssumption, Responses
  <1>2. h \in Seq(Origins) /\ Len(h) = a
        /\ \A k \in 1..a : h[k] = <<"buf", x.iv0.base + k>>
    BY <1>1, RunOfBytes DEF Bytes, Iovecs
  <1>3. f \in Seq(Origins) /\ Len(f) = b
        /\ \A k \in 1..b : f[k] = <<"file", x.iv1.base + k>>
    BY <1>1, RunOfBytes DEF Bytes, Iovecs
  <1>4. a \in Nat /\ b \in Nat
    BY <1>1 DEF Iovecs
  <1>5. CASE x.m_iv_count = 2
    <2>1. Gathered(x) = h \o f /\ Total(x) = w + FileLength
      BY <1>5 DEF Gathered, Total
    <2>2. /\ x.bytes_to_send = a + b
          /\ a > 0 => a = w - have /\ x.iv0.base = have /\ x.iv1.base = 0
          /\ a = 0 => x.iv1.base = have - w /\ have >= w
      <3>1. CASE FromStart(x)
        BY <1>1, <1>5, <2>1, <3>1 DEF FromStart, Sending
      <3>2. CASE InHeader(x)
        <4>1. /\ a = w - have /\ x.iv0.base = have
              /\ x.iv1.base = 0 /\ b = FileLength /\ have <= w - 1
          BY <1>5, <3>2 DEF InHeader
        <4>2. QED
          BY <1>1, <2>1, <4>1
      <3>3. CASE InFile(x)
        BY <1>1, <1>5, <2>1, <3>3 DEF InFile
      <3>4. QED
        BY <3>1, <3>2, <3>3 DEF Sending
    <2> HIDE DEF h, f, a, b, have
    <2>3. /\ h \o f \in Seq(Origins) /\ Len(h \o f) = a + b
          /\ \A i \in 1..a : (h \o f)[i] = h[i]
          /\ \A i \in 1..(a + b) : i > a => (h \o f)[i] = f[i - a]
      BY <1>2, <1>3, Joined
    <2>4. ASSUME NEW i \in 1..(a + b)
          PROVE  (h \o f)[i] = ByteAt(x, have + i)
      <3>1. CASE i <= a
        <4>1. i \in 1..a /\ have + i <= w /\ a > 0
          BY <1>1, <1>4, <2>2, <3>1
        <4>2. QED
          BY <1>2, <2>2, <2>3, <4>1 DEF ByteAt
      <3>2. CASE ~(i <= a)
        <4>1. i - a \in 1..b /\ have + i > w
              /\ x.iv1.base + (i - a) = have + i - w
          BY <1>1, <1>4, <2>2, <3>2
        <4>2. (h \o f)[i] = <<"file", have + i - w>>
          <5>1. (h \o f)[i] = f[i - a]
            BY <1>4, <2>3, <3>2
          <5>2. QED
            BY <1>3, <4>1, <5>1
        <4>3. ~(have + i <= w)
          BY <1>1, <1>4, <4>1
        <4>4. QED
          BY <1>1, <4>2, <4>3 DEF ByteAt
      <3>3. QED
        BY <3>1, <3>2
    <2>5. QED
      BY <1>1, <2>1, <2>2, <2>3, <2>4
  <1>6. CASE x.m_iv_count = 1
    <2>1. Gathered(x) = h \o <<>> /\ Total(x) = w + 0
      BY <1>6 DEF Gathered, Total
    <2>2. Gathered(x) = h
      BY <1>2, <2>1, ConcatEmptySeq
    <2>3. x.bytes_to_send = a /\ a = w - have /\ x.iv0.base = have
      BY <1>1, <1>4, <1>6, <2>1 DEF Sending, FromStart, InHeader, InFile
    <2>4. \A i \in 1..a : have + i <= w
      BY <1>1, <1>4, <2>3
    <2>5. QED
      BY <1>1, <1>2, <2>2, <2>3, <2>4 DEF ByteAt
  <1>7. QED
    BY <1>1, <1>5, <1>6

(* Wherever writev ends, the rest of the response remains to be sent.        *)
LEMMA WritevKeeps ==
  ASSUME LengthAssumption, HeaderSplits <= 1,
         NEW x, Sending(x),
         NEW n \in 1..x.bytes_to_send,
         ~Finishes(x, n), Split(x, n) => x.splits < HeaderSplits
  PROVE  /\ Sending(Writev(x, n))
         /\ Writev(x, n).m_iv_count = x.m_iv_count
         /\ Writev(x, n).m_write_idx = x.m_write_idx
  <1> DEFINE y == Writev(x, n)
             w == x.m_write_idx
             have == x.bytes_have_send + n
             left == x.bytes_to_send - n
             done == have >= x.iv0.len
             sent == SubSeq(Gathered(x), 1, n)
  <1>1. /\ x \in Responses /\ x.bytes_have_send \in Nat /\ w \in Nat
        /\ FileLength \in Nat /\ HeaderSplits \in Nat
        /\ x.bytes_have_send = Len(x.wire)
        /\ x.bytes_to_send = Total(x) - Len(x.wire)
        /\ x.bytes_to_send \in Nat /\ n \in Nat /\ n >= 1
        /\ x.iv0 \in Iovecs /\ x.iv1 \in Iovecs /\ x.m_iv_count \in {1, 2}
        /\ x.wire \in Seq(Origins) /\ x.splits \in 0..HeaderSplits
    BY DEF Sending, LengthAssumption, Responses, Origins
  <1>2. /\ y.m_write_idx = w /\ y.m_iv_count = x.m_iv_count
        /\ y.bytes_have_send = have /\ y.bytes_to_send = left
        /\ y.iv0 = IF done THEN [x.iv0 EXCEPT !.len = 0]
                           ELSE [base |-> have, len |-> x.iv0.len - have]
        /\ y.iv1 = IF done THEN [base |-> have - w, len |-> left] ELSE x.iv1
        /\ y.wire = x.wire \o sent
        /\ y.splits = IF have < w THEN x.splits + 1 ELSE x.splits
    BY <1>1 DEF Writev, FileFrom, Split, Responses
  <1>3. ASSUME have \in Nat, left \in Nat, y.iv0 \in Iovecs,
               y.iv1 \in Iovecs, y.wire \in Seq(Origins),
               y.splits \in 0..HeaderSplits
        PROVE  y \in Responses
    <2> DEFINE i0 == IF done THEN [x.iv0 EXCEPT !.len = 0]
                             ELSE [base |-> have, len |-> x.iv0.len - have]
               i1 == IF done THEN FileFrom(x, have, left) ELSE x.iv1
               wi == x.wire \o SubSeq(Gathered(x), 1, n)
               sp == IF Split(x, n) THEN x.splits + 1 ELSE x.splits
    <2>1. y = [x EXCEPT !.bytes_have_send = have, !.bytes_to_send = left,
                        !.iv0 = i0, !.iv1 = i1, !.wire = wi, !.splits = sp]
      BY DEF Writev
    <2>2. /\ i0 \in Iovecs /\ i1 \in Iovecs /\ wi \in Seq(Origins)
          /\ sp \in 0..HeaderSplits
      BY <1>2, <1>3 DEF FileFrom, Split
    <2> HIDE DEF i0, i1, wi, sp, have, left, y
    <2>3. QED
      BY <1>1, <1>3, <2>1, <2>2 DEF Responses, Origins
  <1>4. left > 0 /\ left \in Nat /\ have \in Nat
    BY <1>1 DEF Finishes
  <1>5. have < w => x.splits < HeaderSplits
    BY DEF Split
  <1> HIDE DEF y
  <1>6. /\ sent \in Seq(Origins) /\ Len(sent) = n
        /\ \A i \in 1..n : sent[i] = ByteAt(x, Len(x.wire) + i)
    <2> DEFINE g == Gathered(x)
    <2>1. /\ g \in Seq(Origins) /\ Len(g) = x.bytes_to_send
          /\ \A i \in 1..x.bytes_to_send : g[i] = ByteAt(x, Len(x.wire) + i)
      BY GatheredBytes
    <2> HIDE DEF g
    <2>2. 1 \in 1..(Len(g) + 1) /\ n \in (1 - 1)..Len(g)
      BY <1>1, <2>1
    <2>3. /\ SubSeq(g, 1, n) \in Seq(Origins)
          /\ Len(SubSeq(g, 1, n)) = n - 1 + 1
          /\ \A i \in 1..(n - 1 + 1) : SubSeq(g, 1, n)[i] = g[1 + i - 1]
      BY <2>1, <2>2, SubSeqProperties
    <2>4. n - 1 + 1 = n
          /\ \A i \in 1..n : 1 + i - 1 = i /\ i \in 1..x.bytes_to_send
      BY <1>1
    <2>5. \A i \in 1..n : SubSeq(g, 1, n)[i] = ByteAt(x, Len(x.wire) + i)
      BY <2>1, <2>3, <2>4
    <2>6. QED
      BY <2>3, <2>4, <2>5 DEF g
  <1> HIDE DEF sent
  <1>7. /\ y.wire \in Seq(Origins) /\ Len(y.wire) = have
        /\ \A i \in 1..have : y.wire[i] = ByteAt(x, i)
    <2>1. /\ x.wire \o sent \in Seq(Origins)
          /\ Len(x.wire \o sent) = Len(x.wire) + n
          /\ \A i \in 1..Len(x.wire) : (x.wire \o sent)[i] = x.wire[i]
          /\ \A i \in 1..(Len(x.wire) + n) :
               i > Len(x.wire) => (x.wire \o sent)[i] = sent[i - Len(x.wire)]
      <3> DEFINE u == x.wire
      <3>1. u \in Seq(Origins)
        BY <1>1
      <3> HIDE DEF u
      <3>2. /\ u \o sent \in Seq(Origins)
            /\ Len(u \o sent) = Len(u) + n
            /\ \A i \in 1..Len(u) : (u \o sent)[i] = u[i]
            /\ \A i \in 1..(Len(u) + n) :
                 i > Len(u) => (u \o sent)[i] = sent[i - Len(u)]
        BY <1>6, <3>1, Joined
      <3>3. QED
        BY <3>2 DEF u
    <2>2. ASSUME NEW i \in 1..have
          PROVE  y.wire[i] = ByteAt(x, i)
      <3>1. CASE i <= Len(x.wire)
        <4>1. i \in 1..Len(x.wire) /\ i \in 1..(Len(x.wire) + n)
          BY <1>1, <3>1
        <4>2. QED
          BY <1>2, <2>1, <3>1, <4>1 DEF Sending
      <3>2. CASE ~(i <= Len(x.wire))
        <4>1. i - Len(x.wire) \in 1..n /\ i \in 1..(Len(x.wire) + n)
              /\ Len(x.wire) + (i - Len(x.wire)) = i
          BY <1>1, <3>2
        <4>2. QED
          BY <1>2, <1>6, <2>1, <3>2, <4>1
      <3>3. QED
        BY <3>1, <3>2
    <2>3. QED
      BY <1>1, <1>2, <2>1, <2>2
  <1>8. /\ FromStart(y) \/ InHeader(y) \/ InFile(y)
        /\ y.iv0 \in Iovecs /\ y.iv1 \in Iovecs
        /\ y.splits \in 0..HeaderSplits
    <2>1. y.splits \in 0..HeaderSplits
      BY <1>1, <1>2, <1>5
    <2>2. CASE have >= w
      <3>1. x.m_iv_count = 2
        BY <1>1, <1>4, <2>2 DEF Total
      <3>2. done
        BY <1>1, <2>2 DEF Sending, FromStart, InHeader, InFile
      <3>3. /\ y.iv0 = [base |-> x.iv0.base, len |-> 0]
            /\ y.iv1 = [base |-> have - w, len |-> left]
        BY <1>1, <1>2, <3>2 DEF Iovecs
      <3>4. have - w \in Nat /\ x.iv0.base \in Nat
        BY <1>1, <1>4, <2>2 DEF Iovecs
      <3>5. y.iv0 \in Iovecs /\ y.iv1 \in Iovecs
        BY <1>4, <3>3, <3>4 DEF Iovecs
      <3>6. InFile(y)
        BY <1>2, <2>2, <3>1, <3>3 DEF InFile
      <3>7. QED
        BY <2>1, <3>5, <3>6
    <2>3. CASE ~(have >= w)
      <3>1. FromStart(x)
        <4>1. ~InHeader(x)
          BY <1>1, <1>5, <2>3 DEF InHeader
        <4>2. ~InFile(x)
          BY <1>1, <2>3 DEF InFile
        <4>3. QED
          BY <4>1, <4>2 DEF Sending
      <3>2. x.iv0 = [base |-> 0, len |-> w] /\ x.bytes_have_send = 0 /\ ~done
        BY <2>3, <3>1 DEF FromStart
      <3>3. /\ y.iv0 = [base |-> have, len |-> w - have]
            /\ y.iv1 = x.iv1 /\ y.splits = x.splits + 1
        BY <1>1, <1>2, <2>3, <3>2
      <3>4. w - have \in Nat /\ have \in 1..(w - 1) /\ y.splits >= 1
        BY <1>1, <2>3, <3>2, <3>3
      <3>5. y.iv0 \in Iovecs /\ y.iv1 \in Iovecs
        BY <1>1, <3>3, <3>4 DEF Iovecs
      <3>6. InHeader(y)
        BY <1>2, <3>1, <3>3, <3>4 DEF InHeader, FromStart
      <3>7. QED
        BY <2>1, <3>5, <3>6
    <2>4. QED
      BY <2>2, <2>3
  <1>9. y \in Responses
    BY <1>3, <1>4, <1>7, <1>8
  <1>10. Total(y) = Total(x) /\ \A i : ByteAt(y, i) = ByteAt(x, i)
    BY <1>2 DEF Total, ByteAt
  <1>11. y.bytes_to_send = Total(y) - Len(y.wire)
    <2>1. Total(x) \in Nat
      BY <1>1, ResponseBytes
    <2>2. QED
      BY <1>1, <1>2, <1>7, <1>10, <2>1
  <1>12. Sending(y)
    BY <1>1, <1>2, <1>4, <1>7, <1>8, <1>9, <1>10, <1>11 DEF Sending
  <1>13. QED
    BY <1>2, <1>12 DEF y

(* What was sent is the beginning of the response, ...                       *)
LEMMA PrefixSent ==
  ASSUME LengthAssumption, NEW x, Sending(x)
  PROVE  x.wire = SubSeq(Response(x), 1, Len(x.wire))
  <1> DEFINE s == x.wire
             t == Response(x)
             n == Len(x.wire)
  <1>1. /\ s \in Seq(Origins) /\ n \in Nat /\ n <= Total(x) /\ x \in Responses
        /\ \A i \in 1..n : s[i] = ByteAt(x, i)
    <2>1. x \in Responses /\ s \in Seq(Origins)
      BY DEF Sending, Responses, Origins
    <2>2. n \in Nat /\ Total(x) \in Nat
      BY <2>1, LenProperties, ResponseBytes
    <2>3. QED
      BY <2>1, <2>2 DEF Sending
  <1>2. /\ t \in Seq(Origins) /\ Len(t) = Total(x) /\ Total(x) \in Nat
        /\ \A i \in 1..Total(x) : t[i] = ByteAt(x, i)
    BY <1>1, ResponseBytes
  <1> HIDE DEF s, t, n
  <1>3. 1 \in 1..(Len(t) + 1) /\ n \in (1 - 1)..Len(t)
    BY <1>1, <1>2
  <1>4. /\ SubSeq(t, 1, n) \in Seq(Origins) /\ Len(SubSeq(t, 1, n)) = n - 1 + 1
        /\ \A i \in 1..(n - 1 + 1) : SubSeq(t, 1, n)[i] = t[1 + i - 1]
    BY <1>2, <1>3, SubSeqProperties
  <1>5. n - 1 + 1 = n /\ \A i \in 1..n : 1 + i - 1 = i /\ i \in 1..Total(x)
    BY <1>1, <1>2
  <1>6. \A i \in 1..n : SubSeq(t, 1, n)[i] = s[i]
    BY <1>1, <1>2, <1>4, <1>5
  <1>7. Len(s) = n
    BY DEF s, n
  <1>8. s = SubSeq(t, 1, n)
    BY <1>1, <1>4, <1>5, <1>6, <1>7, SeqEqual
  <1>9. QED
    BY <1>8 DEF s, t, n

(* ... and with what is to go it is the whole of it.                         *)
LEMMA WholeSent ==
  ASSUME LengthAssumption, NEW x, Sending(x)
  PROVE  /\ AfterAll(x) = Response(x)
         /\ Finishes(x, Len(Gathered(x)))
  <1> DEFINE s == x.wire
             t == Response(x)
             g == Gathered(x)
             T == Total(x)
             b == x.bytes_to_send
  <1>1. /\ s \in Seq(Origins) /\ Len(s) \in Nat /\ x \in Responses
        /\ T \in Nat /\ b = T - Len(s) /\ b \in Nat
        /\ \A i \in 1..Len(s) : s[i] = ByteAt(x, i)
    <2>1. x \in Responses /\ s \in Seq(Origins) /\ b \in Nat
      BY DEF Sending, Responses, Origins
    <2>2. Len(s) \in Nat /\ T \in Nat
      BY <2>1, LenProperties, ResponseBytes
    <2>3. QED
      BY <2>1, <2>2 DEF Sending
  <1>2. /\ t \in Seq(Origins) /\ Len(t) = T
        /\ \A i \in 1..T : t[i] = ByteAt(x, i)
    BY <1>1, ResponseBytes
  <1>3. /\ g \in Seq(Origins) /\ Len(g) = b
        /\ \A i \in 1..b : g[i] = ByteAt(x, Len(s) + i)
    BY GatheredBytes
  <1>4. AfterAll(x) = s \o g
    BY DEF AfterAll
  <1>5. Finishes(x, Len(g))
    BY <1>1, <1>3 DEF Finishes
  <1> HIDE DEF s, t, g, T, b
  <1>6. /\ s \o g \in Seq(Origins) /\ Len(s \o g) = Len(s) + b
        /\ \A i \in 1..Len(s) : (s \o g)[i] = s[i]
        /\ \A i \in 1..(Len(s) + b) :
             i > Len(s) => (s \o g)[i] = g[i - Len(s)]
    BY <1>1, <1>3, Joined
  <1>7. Len(s) + b = T
    BY <1>1
  <1>8. ASSUME NEW i \in 1..T
        PROVE  (s \o g)[i] = t[i]
    <2>1. CASE i <= Len(s)
      <3>1. i \in 1..Len(s)
        BY <1>1, <2>1
      <3>2. QED
        BY <1>1, <1>2, <1>6, <3>1
    <2>2. CASE ~(i <= Len(s))
      <3>1. i - Len(s) \in 1..b /\ Len(s) + (i - Len(s)) = i /\ i > Len(s)
        BY <1>1, <2>2
      <3>2. (s \o g)[i] = g[i - Len(s)]
        BY <1>6, <1>7, <3>1
      <3>3. QED
        BY <1>2, <1>3, <3>1, <3>2
    <2>3. QED
      BY <2>1, <2>2
  <1>9. s \o g = t
    BY <1>2, <1>6, <1>7, <1>8, SeqEqual
  <1>10. QED
    BY <1>4, <1>5, <1>9 DEF t, g

(* Nothing is sent when a response is set up.                                *)
LEMMA Started ==
  ASSUME LengthAssumption
  PROVE  /\ Empty \in Responses /\ Empty.wire = <<>>
         /\ Sending(AnswerFile(Empty)) /\ Sending(AnswerPage(Empty))
         /\ AnswerFile(Empty).m_iv_count = 2
         /\ AnswerPage(Empty).m_iv_count = 1
  <1> DEFINE f == AnswerFile(Empty)
             p == AnswerPage(Empty)
  <1>1. <<>> \in Seq(Origins) /\ Len(<<>>) = 0
    BY EmptySeq
  <1>2. Empty \in Responses /\ Empty.wire = <<>>
    BY <1>1 DEF Empty, Nothing, Responses, Iovecs, Origins, LengthAssumption
  <1>3. /\ f.m_write_idx = HeaderLength /\ f.m_iv_count = 2
        /\ f.iv0 = [base |-> 0, len |-> HeaderLength]
        /\ f.iv1 = [base |-> 0, len |-> FileLength]
        /\ f.bytes_to_send = HeaderLength + FileLength
        /\ f.bytes_have_send = 0 /\ f.wire = <<>>
    BY DEF AnswerFile, Empty
  <1>4. /\ p.m_write_idx = PageLength /\ p.m_iv_count = 1
        /\ p.iv0 = [base |-> 0, len |-> PageLength]
        /\ p.bytes_to_send = PageLength
        /\ p.bytes_have_send = 0 /\ p.wire = <<>>
    BY DEF AnswerPage, Empty
  <1>5. f \in Responses /\ p \in Responses
    <2> DEFINE e == Empty
               h0 == [base |-> 0, len |-> HeaderLength]
               h1 == [base |-> 0, len |-> FileLength]
               p0 == [base |-> 0, len |-> PageLength]
               all == HeaderLength + FileLength
               one == 1
               two == 2
    <2>1. /\ h0 \in Iovecs /\ h1 \in Iovecs /\ p0 \in Iovecs
          /\ all \in Nat /\ PageLength \in Nat /\ one \in 0..2 /\ two \in 0..2
      BY DEF Iovecs, LengthAssumption
    <2>2. /\ f = [e EXCEPT !.m_write_idx = HeaderLength, !.m_iv_count = two,
                           !.iv0 = h0, !.iv1 = h1, !.bytes_to_send = all]
          /\ p = [e EXCEPT !.m_write_idx = PageLength, !.m_iv_count = one,
                           !.iv0 = p0, !.bytes_to_send = PageLength]
      BY DEF AnswerFile, AnswerPage
    <2>3. e \in Responses
      BY <1>2
    <2> HIDE DEF e, h0, h1, p0, all, one, two, f, p
    <2>4. f \in Responses
      BY <2>1, <2>2, <2>3 DEF Responses
    <2>5. p \in Responses
      BY <2>1, <2>2, <2>3 DEF Responses
    <2>6. QED
      BY <2>4, <2>5
  <1> HIDE DEF f, p
  <1>6. FromStart(f) /\ Total(f) = HeaderLength + FileLength
    BY <1>3 DEF FromStart, Total
  <1>7. FromStart(p) /\ Total(p) = PageLength + 0
    BY <1>4 DEF FromStart, Total
  <1>8. Sending(f)
    <2>1. /\ f.m_iv_count = 2 /\ f.m_write_idx > 0 /\ f.bytes_have_send = 0
          /\ f.bytes_to_send = HeaderLength + FileLength
          /\ f.bytes_to_send > 0 /\ Len(f.wire) = 0
      BY <1>1, <1>3 DEF LengthAssumption
    <2>2. f.bytes_to_send = Total(f) - Len(f.wire) /\ 1..Len(f.wire) = {}
      BY <1>6, <2>1 DEF LengthAssumption
    <2>3. QED
      BY <1>5, <1>6, <2>1, <2>2 DEF Sending
  <1>9. Sending(p)
    <2>1. /\ p.m_iv_count = 1 /\ p.m_write_idx > 0 /\ p.bytes_have_send = 0
          /\ p.bytes_to_send = PageLength
          /\ p.bytes_to_send > 0 /\ Len(p.wire) = 0
      BY <1>1, <1>4 DEF LengthAssumption
    <2>2. p.bytes_to_send = Total(p) - Len(p.wire) /\ 1..Len(p.wire) = {}
      BY <1>7, <2>1 DEF LengthAssumption
    <2>3. QED
      BY <1>5, <1>7, <2>1, <2>2 DEF Sending
  <1>10. QED
    BY <1>2, <1>3, <1>4, <1>8, <1>9 DEF f, p

(* The beginning of a response of which nothing was sent.                    *)
LEMMA NothingSent ==
  ASSUME LengthAssumption
  PROVE  Empty.wire = SubSeq(Response(Empty), 1, Len(Empty.wire))
  <1> DEFINE t == Response(Empty)
  <1>1. Empty.wire = <<>> /\ Len(Empty.wire) = 0
    BY Started, EmptySeq
  <1>2. t \in Seq(Origins) /\ Len(t) \in Nat
    BY Started, ResponseBytes
  <1> HIDE DEF t
  <1>3. 1 \in 1..(Len(t) + 1) /\ 0 \in (1 - 1)..Len(t)
    BY <1>2
  <1>4. SubSeq(t, 1, 0) \in Seq(Origins) /\ Len(SubSeq(t, 1, 0)) = 0 - 1 + 1
    BY <1>2, <1>3, SubSeqProperties
  <1>5. SubSeq(t, 1, 0) = <<>>
    BY <1>4, EmptySeq
  <1>6. QED
    BY <1>1, <1>5 DEF t
=============================================================================
