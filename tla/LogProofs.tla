----------------------------- MODULE LogProofs -----------------------------
(***************************************************************************)
(* The log, for any number of threads and lines and any length of the      *)
(* queue: the ring implements a bounded FIFO, the writer does not          *)
(* oversleep, no line is lost or written twice, a thread's lines are       *)
(* overtaken only by those that go past the queue, and files are bounded.  *)
(*                                                                         *)
(* m_front and m_back both start at -1, which is not where (m_front +      *)
(* m_size) % m_max_size is: the invariant is about the place after m_back. *)
(***************************************************************************)
EXTENDS Log, SequenceTheorems, FiniteSetTheorems, TLAPS

(* The next push goes behind the last item.                                  *)
RingInv ==
  m_max_size > 0 => After(m_back) = (m_front + m_size + 1) % m_max_size

(* A thread in write_log has a line.                                         *)
LineInv == \A t \in Threads : lstep[t] # "out" => log_str[t] \in Items

(* The queue and the writer hold lines, never the 0 of an unused place.      *)
ItemInv == Contents \in Seq(Items) /\ (holds => item \in Items)

LogInv == TypeOK /\ RingInv /\ LineInv /\ ItemInv

(* The histories of the files: the part of the type invariant about them.    *)
OpenTypes ==
  /\ DOMAIN total = DOMAIN opened /\ m_fp \in DOMAIN opened
  /\ \A f \in DOMAIN opened : opened[f] \in Nat /\ total[f] \in Nat
  /\ returns \in Nat

-----------------------------------------------------------------------------
(* Arithmetic of a ring of n places, for the sums that occur.                *)
LEMMA RingMod ==
  ASSUME NEW n \in Nat \ {0}, NEW x \in 0..(2 * n)
  PROVE  /\ x % n \in 0..(n - 1)
         /\ x < n => x % n = x
         /\ n <= x /\ x < 2 * n => x % n = x - n
         /\ x = 2 * n => x % n = 0
  BY SMTT(30)

(* To wrap early or late is the same.                                        *)
LEMMA RingPlus ==
  ASSUME NEW n \in Nat \ {0}, NEW f \in -1..(n - 1), NEW k \in 0..n
  PROVE  (((f + 1) % n) + k) % n = (f + 1 + k) % n
  <1>1. CASE f + 1 < n
    <2>1. f + 1 \in 0..(n - 1)
      BY <1>1
    <2>2. (f + 1) % n = f + 1
      BY <2>1, SMTT(30)
    <2>3. QED
      BY <2>2
  <1>2. CASE f + 1 = n
    <2>1. n % n = 0 /\ (n + k) % n = k % n
      BY SMTT(30)
    <2>2. 0 + k = k
      OBVIOUS
    <2>3. QED
      BY <1>2, <2>1, <2>2
  <1>3. QED
    BY <1>1, <1>2

(* The place after.                                                          *)
LEMMA RingSucc ==
  ASSUME NEW n \in Nat \ {0}, NEW x \in 0..(2 * n - 1)
  PROVE  ((x % n) + 1) % n = (x + 1) % n
  BY SMTT(30)

(* The number of a file.                                                     *)
LEMMA DivNat ==
  ASSUME NEW n \in Nat \ {0}, NEW x \in Nat
  PROVE  x \div n \in Nat
  BY SMTT(30)

(* Less than n places apart are different places.                            *)
LEMMA RingDistinct ==
  ASSUME NEW n \in Nat \ {0}, NEW f \in -1..(n - 1),
         NEW i \in 1..n, NEW k \in 1..n, i < k
  PROVE  (f + i) % n # (f + k) % n
  BY SMTT(30)

-----------------------------------------------------------------------------
(* The items read from a ring are a sequence of m_size elements.             *)
LEMMA RingSeq ==
  ASSUME NEW S, NEW n \in Nat, NEW f \in -1..(n - 1), NEW s \in 0..n,
         NEW array \in [0..(n - 1) -> S]
  PROVE  LET q == [i \in 1..s |-> array[(f + i) % n]] IN
         q \in Seq(S) /\ Len(q) = s
  <1>1. ASSUME NEW i \in 1..s PROVE array[(f + i) % n] \in S
    <2>1. n \in Nat \ {0} /\ f + i \in 0..(2 * n)
      OBVIOUS
    <2>2. (f + i) % n \in 0..(n - 1)
      BY <2>1, RingMod
    <2>3. QED
      BY <2>2
  <1>2. QED
    BY <1>1, IsASeq

(* A push appends to the items.                                              *)
LEMMA PushAppends ==
  ASSUME QueueTypeOK, QueueSizes \subseteq Nat, RingInv,
         NEW x \in Items, Push(x)
  PROVE  /\ QueueTypeOK' /\ RingInv'
         /\ Contents' = Append(Contents, x)
         /\ m_size < m_max_size
  <1> DEFINE n == m_max_size
  <1>1. /\ n \in Nat \ {0} /\ m_size \in 0..(n - 1)
        /\ m_front \in -1..(n - 1) /\ m_back \in -1..(n - 1)
        /\ m_size' = m_size + 1 /\ m_max_size' = n
        /\ m_front' = m_front
        /\ m_back' = After(m_back)
        /\ m_array' = [m_array EXCEPT ![After(m_back)] = x]
    BY DEF QueueTypeOK, Push, Full, Places
  <1>2. After(m_back) \in Places
    BY <1>1, RingMod DEF After, Places
  <1>3. QueueTypeOK'
    <2>1. m_array' \in [Places -> Items \cup {0}]
      BY <1>1, <1>2 DEF QueueTypeOK
    <2>2. Places' = Places
      BY <1>1 DEF Places
    <2>3. m_size' \in 0..n /\ m_back' \in Places
      BY <1>1, <1>2
    <2>4. m_max_size' \in QueueSizes /\ item' = item /\ asleep' = FALSE
      BY DEF QueueTypeOK, Push, Broadcast
    <2>5. QED
      BY <1>1, <2>1, <2>2, <2>3, <2>4 DEF QueueTypeOK
  <1>4. RingInv'
    <2>1. After(m_back) = (m_front + 1 + m_size) % n
      BY <1>1 DEF RingInv
    <2>3. (((m_front + 1 + m_size) % n) + 1) % n
            = (m_front + 1 + m_size + 1) % n
      <3>1. m_front + 1 + m_size \in 0..(2 * n - 1)
        BY <1>1
      <3>2. QED
        BY <1>1, <3>1, RingSucc
    <2>4. After(m_back)' = (((m_front + 1 + m_size) % n) + 1) % n
      BY <1>1, <2>1 DEF After
    <2>5. m_front + 1 + m_size + 1 = m_front + (m_size + 1) + 1
      BY <1>1
    <2>6. QED
      BY <1>1, <2>3, <2>4, <2>5 DEF RingInv
  <1>5. ASSUME NEW i \in 1..m_size
        PROVE  m_array'[(m_front + i) % n] = m_array[(m_front + i) % n]
    <2>1. (m_front + i) % n # After(m_back)
      <3>1. After(m_back) = (m_front + (m_size + 1)) % n
        BY <1>1 DEF RingInv
      <3>2. i \in 1..n /\ m_size + 1 \in 1..n /\ i < m_size + 1
        BY <1>1
      <3>3. QED
        BY <1>1, <3>1, <3>2, RingDistinct
    <2>2. (m_front + i) % n \in Places
      BY <1>1, RingMod DEF Places
    <2>3. QED
      BY <1>1, <2>1, <2>2 DEF QueueTypeOK
  <1>6. m_array'[(m_front + (m_size + 1)) % n] = x
    <2>1. After(m_back) = (m_front + (m_size + 1)) % n
      BY <1>1 DEF RingInv
    <2>2. QED
      BY <1>1, <1>2, <2>1 DEF QueueTypeOK
  <1>7. Contents' = Append(Contents, x)
    <2>1. /\ Contents \in Seq(Items \cup {0}) /\ Len(Contents) = m_size
          /\ \A i \in 1..m_size : Contents[i] = m_array[(m_front + i) % n]
      BY <1>1, RingSeq DEF Contents, QueueTypeOK, Places
    <2>2. /\ Contents' \in Seq(Items \cup {0}) /\ Len(Contents') = m_size + 1
          /\ \A i \in 1..(m_size + 1) :
               Contents'[i] = m_array'[(m_front + i) % n]
      <3>1. m_array' \in [0..(n - 1) -> Items \cup {0}] /\ m_size + 1 \in 0..n
        BY <1>1, <1>3 DEF QueueTypeOK, Places
      <3>2. Contents' = [i \in 1..(m_size + 1) |-> m_array'[(m_front + i) % n]]
        BY <1>1 DEF Contents
      <3>3. QED
        BY <1>1, <3>1, <3>2, RingSeq
    <2>3. /\ Append(Contents, x) \in Seq(Items \cup {0})
          /\ Len(Append(Contents, x)) = m_size + 1
          /\ \A i \in 1..m_size : Append(Contents, x)[i] = Contents[i]
          /\ Append(Contents, x)[m_size + 1] = x
      BY <2>1, AppendProperties
    <2>4. ASSUME NEW i \in 1..(m_size + 1)
          PROVE  Contents'[i] = Append(Contents, x)[i]
      <3>1. CASE i = m_size + 1
        <4>1. /\ Contents'[m_size + 1] = m_array'[(m_front + (m_size + 1)) % n]
              /\ Append(Contents, x)[m_size + 1] = x
          BY <2>2, <2>3, <3>1
        <4>2. QED
          BY <1>6, <3>1, <4>1
      <3>2. CASE i \in 1..m_size
        <4>1. i \in 1..(m_size + 1)
          BY <1>1, <3>2
        <4>2. /\ Contents'[i] = m_array'[(m_front + i) % n]
              /\ Append(Contents, x)[i] = m_array[(m_front + i) % n]
          BY <2>1, <2>2, <2>3, <3>2, <4>1
        <4>3. QED
          BY <1>5, <3>2, <4>2
      <3>3. i = m_size + 1 \/ i \in 1..m_size
        BY <1>1
      <3>4. QED
        BY <3>1, <3>2, <3>3
    <2>5. QED
      BY <2>2, <2>3, <2>4, SeqEqual
  <1>8. QED
    BY <1>1, <1>3, <1>4, <1>7

(* A pop takes the first item.                                               *)
LEMMA PopTakes ==
  ASSUME QueueTypeOK, QueueSizes \subseteq Nat, RingInv, Pop
  PROVE  /\ QueueTypeOK' /\ RingInv'
         /\ Contents # <<>>
         /\ item' = Head(Contents) /\ Contents' = Tail(Contents)
         /\ m_max_size' = m_max_size
  <1> DEFINE n == m_max_size
  <1>1. /\ n \in Nat \ {0} /\ m_size \in 1..n
        /\ m_front \in -1..(n - 1) /\ m_back \in -1..(n - 1)
        /\ m_size' = m_size - 1 /\ m_max_size' = n
        /\ m_front' = (m_front + 1) % n
        /\ m_back' = m_back /\ m_array' = m_array
        /\ item' = m_array[(m_front + 1) % n]
    BY DEF QueueTypeOK, Pop, Places, After, NextPlace
  <1>2. m_front' \in 0..(n - 1)
    BY <1>1, RingMod
  <1>3. /\ Contents \in Seq(Items \cup {0}) /\ Len(Contents) = m_size
        /\ \A i \in 1..m_size : Contents[i] = m_array[(m_front + i) % n]
    BY <1>1, RingSeq DEF Contents, QueueTypeOK, Places
  <1>4. Contents # <<>> /\ Head(Contents) = Contents[1] /\ 1 \in 1..m_size
    BY <1>1, <1>3
  <1>5. item' = Head(Contents) /\ item' \in Items \cup {0}
    BY <1>1, <1>3, <1>4, ElementOfSeq
  <1>6. QueueTypeOK'
    BY <1>1, <1>2, <1>5 DEF QueueTypeOK, Pop, Places
  <1>7. RingInv'
    <2>1. After(m_back)' = After(m_back)
      BY <1>1 DEF After
    <2>2. (((m_front + 1) % n) + m_size) % n = (m_front + 1 + m_size) % n
      BY <1>1, RingPlus
    <2>3. m_front' + m_size' + 1 = ((m_front + 1) % n) + m_size
      BY <1>1, <1>2
    <2>4. m_front + 1 + m_size = m_front + m_size + 1
      BY <1>1
    <2>5. QED
      BY <1>1, <2>1, <2>2, <2>3, <2>4 DEF RingInv
  <1>8. Contents' = Tail(Contents)
    <2>1. /\ Contents' \in Seq(Items \cup {0}) /\ Len(Contents') = m_size - 1
          /\ \A i \in 1..(m_size - 1) :
               Contents'[i] = m_array[(((m_front + 1) % n) + i) % n]
      <3>1. /\ m_array \in [0..(n - 1) -> Items \cup {0}]
            /\ m_size - 1 \in 0..n /\ (m_front + 1) % n \in -1..(n - 1)
        BY <1>1, <1>2 DEF QueueTypeOK, Places
      <3>2. Contents' = [i \in 1..(m_size - 1) |->
                           m_array[(((m_front + 1) % n) + i) % n]]
        BY <1>1 DEF Contents
      <3>3. QED
        BY <1>1, <3>1, <3>2, RingSeq
    <2>2. /\ Tail(Contents) \in Seq(Items \cup {0})
          /\ Len(Tail(Contents)) = m_size - 1
          /\ \A i \in 1..(m_size - 1) : Tail(Contents)[i] = Contents[i + 1]
      BY <1>3, <1>4, HeadTailProperties
    <2>3. ASSUME NEW i \in 1..(m_size - 1)
          PROVE  Contents'[i] = Tail(Contents)[i]
      <3>1. (((m_front + 1) % n) + i) % n = (m_front + 1 + i) % n
        <4>1. i \in 0..n
          BY <1>1
        <4>2. QED
          BY <1>1, <4>1, RingPlus
      <3>2. m_front + 1 + i = m_front + (i + 1) /\ i + 1 \in 1..m_size
        BY <1>1
      <3>3. QED
        BY <1>3, <2>1, <2>2, <3>1, <3>2
    <2>4. QED
      BY <2>1, <2>2, <2>3, SeqEqual
  <1>9. QED
    BY <1>1, <1>4, <1>5, <1>6, <1>7, <1>8

-----------------------------------------------------------------------------
(* The initial states satisfy the invariant.                                 *)
LEMMA LogInit == Init => LogInv
  <1> SUFFICES ASSUME Init PROVE LogInv
    OBVIOUS
  <1>1. m_max_size \in Nat /\ 0 \in 0..MaxLines /\ 0 \in 0..MaxDay
    BY LogAssumption DEF Init, QueueInit
  <1>2. QueueTypeOK
    <2>1. m_array \in [Places -> Items \cup {0}]
      BY DEF Init, QueueInit, Places
    <2>2. m_size \in 0..m_max_size /\ m_front = -1 /\ m_back = -1
      BY <1>1 DEF Init, QueueInit
    <2>3. m_max_size \in QueueSizes /\ item = 0 /\ asleep = FALSE
      BY DEF Init, QueueInit
    <2>4. QED
      BY <2>1, <2>2, <2>3 DEF QueueTypeOK
  <1>3. TypeOK
    <2>1. written \in Seq(Items) /\ calls \in Seq(Threads)
      BY EmptySeq DEF Init
    <2>2. Len(calls) = 0
      BY EmptySeq DEF Init
    <2>3. /\ lstep \in [Threads -> {"out", "count", "full", "push", "puts"}]
          /\ log_str \in [Threads -> 0..MaxLines]
          /\ my_tm \in [Threads -> 0..MaxDay]
      BY <1>1 DEF Init
    <2>4. /\ day \in 0..MaxDay /\ m_today \in 0..MaxDay
          /\ m_count \in Nat /\ m_fp \in (0..MaxDay) \X Nat
          /\ holds \in BOOLEAN /\ inFile \in Nat
          /\ direct \subseteq Items /\ dropped \subseteq Items
      BY <1>1 DEF Init
    <2>5. Len(calls) <= MaxLines
      BY <2>2, LogAssumption
    <2>6. OpenTypes
      BY DEF Init, OpenTypes
    <2>7. QED
      BY <1>2, <2>1, <2>3, <2>4, <2>5, <2>6 DEF TypeOK, OpenTypes
  <1>4. RingInv
    <2>1. m_back + 1 = m_front + m_size + 1
      BY DEF Init, QueueInit
    <2>2. QED
      BY <2>1 DEF RingInv, After
  <1>5. ItemInv
    <2>1. 1..m_size = {} /\ m_size = 0
      BY DEF Init, QueueInit
    <2>2. Contents \in Seq(Items)
      BY <2>1, IsASeq DEF Contents
    <2>3. QED
      BY <2>2 DEF ItemInv, Init
  <1>6. QED
    BY <1>3, <1>4, <1>5 DEF LogInv, LineInv, Init

(* Every step keeps it.                                                      *)
LEMMA LogStep == LogInv /\ [Next]_vars => LogInv'
  <1> SUFFICES ASSUME LogInv, [Next]_vars PROVE LogInv'
    OBVIOUS
  <1> USE LogAssumption DEF LogInv
  <1>0. ASSUME UNCHANGED queueVars
        PROVE  /\ QueueTypeOK' /\ RingInv'
               /\ (holds' => holds) => ItemInv'
    BY <1>0 DEF queueVars, QueueTypeOK, RingInv, ItemInv, Places, After,
                Contents, TypeOK
  <1>1. ASSUME NEW t \in Threads, Call(t) PROVE LogInv'
    <2>1. Len(calls) \in Nat /\ Len(calls) + 1 \in 1..MaxLines
      BY <1>1 DEF Call, TypeOK
    <2>2. calls' \in Seq(Threads) /\ Len(calls') = Len(calls) + 1
      BY <1>1, <2>1, AppendProperties DEF Call, TypeOK
    <2>3. log_str'[t] \in Items /\ log_str' \in [Threads -> 0..MaxLines]
      BY <1>1, <2>1, <2>2 DEF Call, TypeOK
    <2>4. TypeOK'
      BY <1>1, <1>0, <2>1, <2>2, <2>3
         DEF Call, TypeOK, Goto, fileVars, writeVars
    <2>5. LineInv'
      BY <1>1, <2>3 DEF Call, Goto, TypeOK, LineInv
    <2>6. QED
      BY <1>1, <1>0, <2>4, <2>5 DEF Call
  <1>2. ASSUME NEW t \in Threads, Count(t) PROVE LogInv'
    <2>1. m_count + 1 \in Nat /\ (m_count + 1) \div m_split_lines \in Nat
      <3>1. m_count + 1 \in Nat
        BY DEF TypeOK
      <3>2. QED
        BY <3>1, DivNat
    <2>2. /\ m_today' \in 0..MaxDay /\ m_count' \in Nat
          /\ m_fp' \in (0..MaxDay) \X Nat /\ inFile' \in Nat
      BY <1>2, <2>1 DEF Count, Open, TypeOK
    <2>3. OpenTypes'
      <3>1. ASSUME NEW file, Open(file), returns' \in Nat PROVE OpenTypes'
        BY <3>1 DEF Open, OpenTypes, TypeOK
      <3>2. my_tm[t] \in 0..MaxDay /\ returns \in Nat
        BY DEF TypeOK
      <3>3. CASE UNCHANGED <<m_fp, opened, total, returns>>
        BY <3>3 DEF OpenTypes, TypeOK
      <3>4. QED
        BY <1>2, <3>1, <3>2, <3>3 DEF Count
    <2>4. TypeOK' /\ LineInv'
      BY <1>2, <1>0, <2>2, <2>3 DEF Count, TypeOK, Goto, LineInv, OpenTypes
    <2>5. QED
      BY <1>2, <1>0, <2>4 DEF Count
  <1>3. ASSUME NEW t \in Threads, TestFull(t) PROVE LogInv'
    <2>1. TypeOK' /\ LineInv'
      BY <1>3, <1>0 DEF TestFull, TypeOK, Goto, LineInv, fileVars, writeVars
    <2>2. QED
      BY <1>3, <1>0, <2>1 DEF TestFull
  <1>4. ASSUME NEW t \in Threads, PushLine(t) PROVE LogInv'
    <2>1. log_str[t] \in Items
      BY <1>4 DEF PushLine, LineInv
    <2>2. QueueTypeOK' /\ RingInv' /\ ItemInv'
      <3>1. CASE Push(log_str[t])
        <4>1. /\ QueueTypeOK' /\ RingInv'
              /\ Contents' = Append(Contents, log_str[t])
          BY <2>1, <3>1, PushAppends DEF TypeOK
        <4>2. Contents' \in Seq(Items)
          BY <2>1, <4>1, AppendProperties DEF ItemInv
        <4>3. item' = item /\ holds' = holds
          BY <1>4, <3>1 DEF PushLine, Push
        <4>4. QED
          BY <4>1, <4>2, <4>3 DEF ItemInv
      <3>2. CASE PushFull
        BY <1>4, <3>2 DEF PushLine, PushFull, Broadcast, QueueTypeOK, RingInv,
                          ItemInv, Places, After, Contents, TypeOK
      <3>3. QED
        BY <1>4, <3>1, <3>2 DEF PushLine
    <2>3. dropped' \subseteq Items
      BY <1>4, <2>1 DEF PushLine, TypeOK
    <2>4. TypeOK' /\ LineInv'
      BY <1>4, <2>2, <2>3
         DEF PushLine, Return, Goto, TypeOK, LineInv, fileVars, writeVars
    <2>5. QED
      BY <2>2, <2>4
  <1>5. ASSUME NEW t \in Threads, PutsLine(t) PROVE LogInv'
    <2>1. log_str[t] \in Items
      BY <1>5 DEF PutsLine, LineInv
    <2>2. written' \in Seq(Items)
      BY <1>5, <2>1, AppendProperties DEF PutsLine, Puts, TypeOK
    <2>3. inFile' \in Nat /\ OpenTypes'
      BY <1>5 DEF PutsLine, Puts, TypeOK, OpenTypes, fileVars, openVars
    <2>4. direct' \subseteq Items
      <3>1. direct \subseteq Items /\ direct' = direct \cup {log_str[t]}
        BY <1>5 DEF PutsLine, TypeOK
      <3>2. QED
        BY <2>1, <3>1, Zenon
    <2>5. QueueTypeOK' /\ RingInv' /\ ItemInv'
      BY <1>5, <1>0 DEF PutsLine
    <2>6. /\ lstep' \in [Threads -> {"out", "count", "full", "push", "puts"}]
          /\ log_str' \in [Threads -> 0..MaxLines]
      BY <1>5 DEF PutsLine, Return, Goto, TypeOK
    <2>7. TypeOK'
      BY <1>5, <2>2, <2>3, <2>4, <2>5, <2>6
         DEF PutsLine, TypeOK, OpenTypes, fileVars
    <2>8. LineInv'
      BY <1>5 DEF PutsLine, Return, Goto, TypeOK, LineInv
    <2>9. QED
      BY <2>5, <2>7, <2>8
  <1>6. CASE WriterPop
    <2>1. /\ QueueTypeOK' /\ RingInv'
          /\ Contents # <<>>
          /\ item' = Head(Contents) /\ Contents' = Tail(Contents)
      BY <1>6, PopTakes DEF WriterPop, TypeOK
    <2>2. ItemInv'
      <3>1. Contents \in Seq(Items) /\ Contents # <<>>
        BY <2>1 DEF ItemInv
      <3>2. Head(Contents) \in Items /\ Tail(Contents) \in Seq(Items)
        BY <3>1, HeadTailProperties
      <3>3. QED
        BY <2>1, <3>2 DEF ItemInv
    <2>3. TypeOK' /\ LineInv'
      BY <1>6, <2>1 DEF WriterPop, TypeOK, LineInv, fileVars, writeVars
    <2>4. QED
      BY <2>1, <2>2, <2>3
  <1>7. CASE WriterPuts
    <2>1. holds /\ item \in Items
      BY <1>7 DEF WriterPuts, ItemInv
    <2>2. written' \in Seq(Items)
      BY <1>7, <2>1, AppendProperties DEF WriterPuts, Puts, TypeOK
    <2>3. inFile' \in Nat /\ OpenTypes'
      BY <1>7 DEF WriterPuts, Puts, TypeOK, OpenTypes, fileVars, openVars
    <2>4. TypeOK' /\ LineInv'
      BY <1>7, <1>0, <2>2, <2>3
         DEF WriterPuts, TypeOK, OpenTypes, LineInv, fileVars
    <2>5. QED
      BY <1>7, <1>0, <2>1, <2>4 DEF WriterPuts
  <1>8. CASE WriterWait
    <2>1. QueueTypeOK' /\ RingInv' /\ ItemInv'
      BY <1>8 DEF WriterWait, Sleep, SpuriousWakeup, QueueTypeOK, RingInv,
                  ItemInv, Places, After, Contents, TypeOK
    <2>2. TypeOK' /\ LineInv'
      BY <1>8, <2>1 DEF WriterWait, TypeOK, LineInv, fileVars, writeVars
    <2>3. QED
      BY <2>1, <2>2
  <1>9. CASE Midnight
    <2>1. day' \in 0..MaxDay
      BY <1>9 DEF Midnight, TypeOK
    <2>2. TypeOK' /\ LineInv'
      BY <1>9, <1>0, <2>1 DEF Midnight, TypeOK, LineInv, fileVars, writeVars
    <2>3. QED
      BY <1>9, <1>0, <2>2 DEF Midnight
  <1>10. CASE UNCHANGED vars
    <2>1. TypeOK' /\ LineInv'
      BY <1>10, <1>0 DEF vars, TypeOK, LineInv, fileVars, writeVars
    <2>2. QED
      BY <1>10, <1>0, <2>1 DEF vars
  <1>11. QED
    BY <1>1, <1>2, <1>3, <1>4, <1>5, <1>6, <1>7, <1>8, <1>9, <1>10
       DEF Next, WriteLog, Writer

(* The invariant holds in every reachable state.                             *)
LEMMA LogInvariant == Spec => []LogInv
  BY LogInit, LogStep, PTL DEF Spec

(* Type correctness of the log, for any number of threads, lines and days    *)
(* (write_log, async_write_log).                                             *)
THEOREM LogTypeCorrect == Spec => []TypeOK
  <1>1. LogInv => TypeOK
    BY DEF LogInv
  <1>2. QED
    BY <1>1, LogInvariant, PTL

-----------------------------------------------------------------------------
(* pop and push: the writer never sleeps on a queue that has lines, for      *)
(* sleeping needs an empty queue and every push wakes it.                    *)
THEOREM WriterNeverOversleeps == Spec => []ConsumerAwake
  <1>1. Init => ConsumerAwake
    BY DEF Init, QueueInit, ConsumerAwake
  <1>2. TypeOK /\ ConsumerAwake /\ [Next]_vars => ConsumerAwake'
    <2> SUFFICES ASSUME TypeOK, ConsumerAwake, [Next]_vars
                 PROVE  ConsumerAwake'
      OBVIOUS
    <2>1. m_size \in Nat
      BY LogAssumption DEF TypeOK, QueueTypeOK
    <2>2. ASSUME UNCHANGED <<m_size, asleep>> PROVE ConsumerAwake'
      BY <2>2 DEF ConsumerAwake
    <2>3. ASSUME NEW t \in Threads, PushLine(t) PROVE ConsumerAwake'
      BY <2>3 DEF PushLine, Push, PushFull, Broadcast, ConsumerAwake
    <2>4. CASE WriterPop
      BY <2>1, <2>4 DEF WriterPop, Pop, ConsumerAwake
    <2>5. CASE WriterWait
      BY <2>1, <2>5 DEF WriterWait, Sleep, SpuriousWakeup, ConsumerAwake
    <2>6. QED
      BY <2>2, <2>3, <2>4, <2>5
         DEF Next, WriteLog, Writer, Call, Count, TestFull, PutsLine,
             WriterPuts, Midnight, vars, queueVars
  <1>3. QED
    BY <1>1, <1>2, LogTypeCorrect, PTL DEF Spec

(* The ring of block_queue implements a bounded FIFO queue, for any length   *)
(* and any number of threads: push appends, pop takes the oldest.            *)
THEOREM RingImplementsFifo == Spec => QueueIsFifo
  <1>1. Init => Ring!Init
    BY LogAssumption DEF Init, QueueInit, Ring!Init, Contents
  <1>2. LogInv /\ [Next]_vars => [Ring!Next]_Ring!vars
    <2> SUFFICES ASSUME LogInv, [Next]_vars PROVE [Ring!Next]_Ring!vars
      OBVIOUS
    <2> USE LogAssumption DEF LogInv
    <2>1. ASSUME UNCHANGED <<m_array, m_size, m_front, m_max_size, item>>
          PROVE  UNCHANGED Ring!vars
      BY <2>1 DEF Ring!vars, Contents
    <2>2. ASSUME NEW t \in Threads, PushLine(t)
          PROVE  [Ring!Next]_Ring!vars
      <3>1. log_str[t] \in Items
        BY <2>2 DEF PushLine, LineInv
      <3>2. CASE Push(log_str[t])
        <4>1. /\ Contents' = Append(Contents, log_str[t])
              /\ m_size < m_max_size
          BY <3>1, <3>2, PushAppends DEF TypeOK
        <4>2. Len(Contents) = m_size
          BY RingSeq DEF TypeOK, QueueTypeOK, Places, Contents
        <4>3. Ring!Push(log_str[t])
          BY <3>2, <4>1, <4>2 DEF Ring!Push, Push
        <4>4. QED
          BY <3>1, <4>3 DEF Ring!Next
      <3>3. CASE PushFull
        BY <2>1, <3>3 DEF PushFull
      <3>4. QED
        BY <2>2, <3>2, <3>3 DEF PushLine
    <2>3. CASE WriterPop
      <3>1. Ring!Pop
        BY <2>3, PopTakes DEF WriterPop, Ring!Pop, TypeOK
      <3>2. QED
        BY <3>1 DEF Ring!Next
    <2>4. CASE WriterWait
      BY <2>1, <2>4 DEF WriterWait, Sleep, SpuriousWakeup
    <2>5. QED
      BY <2>1, <2>2, <2>3, <2>4
         DEF Next, WriteLog, Writer, Call, Count, TestFull, PutsLine,
             WriterPuts, Midnight, vars, queueVars
  <1>3. QED
    BY <1>1, <1>2, LogInvariant, PTL DEF Spec, QueueIsFifo, Ring!Spec

-----------------------------------------------------------------------------
(* Sequences without repetition.  Appending to one.                          *)
LEMMA DistinctAppend ==
  ASSUME NEW S, NEW s \in Seq(S), NEW x \in S
  PROVE  /\ Range(Append(s, x)) = Range(s) \cup {x}
         /\ IsInjective(s) /\ x \notin Range(s) => IsInjective(Append(s, x))
  <1>1. /\ DOMAIN s = 1..Len(s) /\ Len(s) \in Nat
        /\ DOMAIN Append(s, x) = 1..(Len(s) + 1)
        /\ \A i \in 1..Len(s) : Append(s, x)[i] = s[i]
        /\ Append(s, x)[Len(s) + 1] = x
    BY AppendProperties, LenProperties
  <1>2. \A i : i \in 1..(Len(s) + 1) <=> i \in 1..Len(s) \/ i = Len(s) + 1
    BY <1>1
  <1>3. QED
    BY <1>1, <1>2 DEF Range, IsInjective

(* Taking its first element.                                                 *)
LEMMA DistinctTail ==
  ASSUME NEW S, NEW s \in Seq(S), s # <<>>, IsInjective(s)
  PROVE  /\ Head(s) \in Range(s) /\ Head(s) = s[1]
         /\ Range(Tail(s)) = Range(s) \ {Head(s)}
         /\ IsInjective(Tail(s))
  <1>1. /\ DOMAIN s = 1..Len(s) /\ Len(s) \in Nat \ {0}
        /\ DOMAIN Tail(s) = 1..(Len(s) - 1)
        /\ \A i \in 1..(Len(s) - 1) : Tail(s)[i] = s[i + 1]
        /\ Head(s) = s[1]
    BY HeadTailProperties, LenProperties, EmptySeq
  <1>2. \A i \in 1..(Len(s) - 1) : i + 1 \in 1..Len(s) /\ i + 1 # 1
    BY <1>1
  <1>3. \A k \in 1..Len(s) : k # 1 => k - 1 \in 1..(Len(s) - 1)
                                     /\ Tail(s)[k - 1] = s[k]
    BY <1>1
  <1>4. Range(Tail(s)) \subseteq Range(s) \ {Head(s)}
    <2>1. ASSUME NEW i \in 1..(Len(s) - 1)
          PROVE  Tail(s)[i] \in Range(s) /\ Tail(s)[i] # Head(s)
      <3>1. Tail(s)[i] = s[i + 1] /\ i + 1 \in DOMAIN s /\ 1 \in DOMAIN s
            /\ i + 1 # 1
        BY <1>1, <1>2
      <3>2. QED
        BY <1>1, <3>1 DEF Range, IsInjective
    <2>2. QED
      BY <1>1, <2>1 DEF Range
  <1>5. Range(s) \ {Head(s)} \subseteq Range(Tail(s))
    <2>1. ASSUME NEW k \in 1..Len(s), s[k] # Head(s)
          PROVE  s[k] \in Range(Tail(s))
      <3>1. k # 1 /\ k - 1 \in DOMAIN Tail(s) /\ Tail(s)[k - 1] = s[k]
        BY <1>1, <1>3, <2>1
      <3>2. QED
        BY <3>1 DEF Range
    <2>2. QED
      BY <1>1, <2>1 DEF Range
  <1>6. IsInjective(Tail(s))
    <2>1. ASSUME NEW i \in 1..(Len(s) - 1), NEW k \in 1..(Len(s) - 1),
                 Tail(s)[i] = Tail(s)[k]
          PROVE  i = k
      <3>1. i + 1 \in DOMAIN s /\ k + 1 \in DOMAIN s /\ s[i + 1] = s[k + 1]
        BY <1>1, <1>2, <2>1
      <3>2. QED
        BY <3>1 DEF IsInjective
    <2>2. QED
      BY <1>1, <2>1 DEF IsInjective
  <1>7. Head(s) \in Range(s)
    BY <1>1 DEF Range
  <1>8. QED
    BY <1>1, <1>4, <1>5, <1>6, <1>7

(* Counting them.                                                            *)
LEMMA DistinctCount ==
  ASSUME NEW S, NEW s \in Seq(S), IsInjective(s)
  PROVE  IsFiniteSet(Range(s)) /\ Cardinality(Range(s)) = Len(s)
  <1>1. DOMAIN s = 1..Len(s) /\ Len(s) \in Nat
    BY LenProperties
  <1>2. s \in Bijection(1..Len(s), Range(s))
    BY <1>1 DEF Bijection, Injection, Surjection, IsInjective, Range
  <1>3. ExistsBijection(1..Len(s), Range(s))
    BY <1>2 DEF ExistsBijection
  <1>4. IsFiniteSet(1..Len(s)) /\ Cardinality(1..Len(s)) = Len(s)
    BY <1>1, FS_Interval
  <1>5. QED
    BY <1>3, <1>4, FS_Bijection

-----------------------------------------------------------------------------
(* Where the lines are.  A thread in write_log has the newest of its lines.  *)
CallerInv ==
  \A t \in Threads :
    /\ lstep[t] = "out" => log_str[t] = 0
    /\ log_str[t] # 0 =>
         /\ log_str[t] \in 1..Len(calls) /\ calls[log_str[t]] = t
         /\ \A l \in 1..Len(calls) : calls[l] = t => l <= log_str[t]

(* Each line that was logged is in one place, once.                          *)
PlaceInv ==
  /\ 1..Len(calls) = InCall \cup InQueue \cup InWriter \cup Range(written)
                     \cup dropped
  /\ InCall \cap (InQueue \cup InWriter \cup Range(written) \cup dropped) = {}
  /\ InQueue \cap (InWriter \cup Range(written) \cup dropped) = {}
  /\ InWriter \cap (Range(written) \cup dropped) = {}
  /\ Range(written) \cap dropped = {}
  /\ IsInjective(Contents) /\ IsInjective(written)

(* A thread's lines go through the queue and the writer in the order it      *)
(* logged them; a line that is ahead of an older one went past the queue.    *)
OrderInv ==
  /\ OnlyDirectOvertakes
  /\ direct \subseteq Range(written)
  /\ \A i, k \in DOMAIN Contents :
       i < k /\ calls[Contents[i]] = calls[Contents[k]]
       => Contents[i] < Contents[k]
  /\ holds => \A k \in DOMAIN Contents :
       calls[item] = calls[Contents[k]] => item < Contents[k]
  /\ \A i \in DOMAIN written, l \in InWriter \cup InQueue :
       calls[written[i]] = calls[l] /\ written[i] > l => written[i] \in direct

LinesInv == CallerInv /\ PlaceInv /\ OrderInv

(* The queue as a sequence.                                                  *)
LEMMA ContentsSeq ==
  LogInv => /\ Contents \in Seq(Items) /\ Len(Contents) = m_size
            /\ DOMAIN Contents = 1..m_size
  BY RingSeq, LogAssumption
     DEF LogInv, ItemInv, TypeOK, QueueTypeOK, Places, Contents

(* The lines that have left write_log.                                       *)
LEMMA LinesKnown ==
  ASSUME LogInv, LinesInv
  PROVE  /\ \A k \in DOMAIN Contents :
              Contents[k] \in InQueue /\ Contents[k] \in 1..Len(calls)
         /\ \A i \in DOMAIN written :
              written[i] \in Range(written) /\ written[i] \in 1..Len(calls)
         /\ holds => item \in InWriter /\ item \in 1..Len(calls)
         /\ Len(calls) \in Nat
  BY DEF LinesInv, PlaceInv, InQueue, InWriter, Range, LogInv, TypeOK

(* A step that moves no line.                                                *)
LEMMA LinesFrame ==
  ASSUME LinesInv,
         UNCHANGED <<log_str, calls, written, dropped, direct, holds, item,
                     Contents>>,
         \A t \in Threads : lstep'[t] = "out" => lstep[t] = "out"
  PROVE  LinesInv'
  <1>1. CallerInv'
    BY DEF LinesInv, CallerInv
  <1>2. PlaceInv'
    BY DEF LinesInv, PlaceInv, InCall, InQueue, InWriter
  <1>3. OrderInv'
    BY DEF LinesInv, OrderInv, OnlyDirectOvertakes, InQueue, InWriter
  <1>4. QED
    BY <1>1, <1>2, <1>3 DEF LinesInv

(* write_log takes the next number for its line.                             *)
LEMMA LinesCall ==
  ASSUME LogInv, LinesInv, NEW t \in Threads, Call(t)
  PROVE  LinesInv'
  <1> DEFINE n == Len(calls) + 1
  <1>1. /\ lstep[t] = "out" /\ log_str[t] = 0
        /\ calls' = Append(calls, t) /\ calls \in Seq(Threads)
        /\ log_str \in [Threads -> 0..MaxLines]
        /\ UNCHANGED <<written, dropped, direct, holds, item>>
    BY DEF Call, LogInv, TypeOK, LinesInv, CallerInv, writeVars, queueVars
  <1>2. /\ Len(calls) \in Nat /\ Len(calls') = n
        /\ \A l \in 1..Len(calls) : calls'[l] = calls[l]
        /\ calls'[n] = t
    BY <1>1, AppendProperties, LenProperties
  <1>3. log_str' = [log_str EXCEPT ![t] = n]
    BY <1>2 DEF Call
  <1>4. Contents' = Contents
    BY DEF Call, queueVars, Contents
  <1>5. n # 0 /\ n \notin 1..Len(calls) /\ 1..n = 1..Len(calls) \cup {n}
    BY <1>2
  <1>6. CallerInv'
    <2>1. ASSUME NEW u \in Threads, log_str'[u] # 0
          PROVE  /\ log_str'[u] \in 1..n /\ calls'[log_str'[u]] = u
                 /\ \A l \in 1..n : calls'[l] = u => l <= log_str'[u]
      <3>1. CASE u = t
        BY <1>1, <1>2, <1>3, <3>1
      <3>2. CASE u # t
        BY <1>1, <1>2, <1>3, <1>5, <2>1, <3>2 DEF LinesInv, CallerInv
      <3>3. QED
        BY <3>1, <3>2
    <2>2. ASSUME NEW u \in Threads, lstep'[u] = "out" PROVE log_str'[u] = 0
      BY <1>1, <1>3, <2>2
      DEF Call, Goto, LogInv, TypeOK, LinesInv, CallerInv
    <2>3. QED
      BY <1>2, <2>1, <2>2 DEF CallerInv
  <1>7. PlaceInv'
    <2>1. InCall' = InCall \cup {n}
      BY <1>1, <1>3, <1>5 DEF InCall
    <2>2. InQueue' = InQueue /\ InWriter' = InWriter
      BY <1>1, <1>4 DEF InQueue, InWriter
    <2>3. QED
      BY <1>1, <1>2, <1>4, <1>5, <2>1, <2>2 DEF LinesInv, PlaceInv
  <1>8. OrderInv'
    <2>1. InQueue' = InQueue /\ InWriter' = InWriter
      BY <1>1, <1>4 DEF InQueue, InWriter
    <2>2. \A l \in InWriter \cup InQueue : l \in 1..Len(calls)
      BY DEF LinesInv, PlaceInv
    <2>3. QED
      BY <1>1, <1>2, <1>4, <2>1, <2>2, LinesKnown
      DEF LinesInv, OrderInv, OnlyDirectOvertakes
  <1>9. QED
    BY <1>6, <1>7, <1>8 DEF LinesInv

(* What is left behind when a thread returns from write_log.                 *)
LEMMA LinesReturn ==
  ASSUME LogInv, LinesInv, NEW t \in Threads, lstep[t] # "out", Return(t),
         calls' = calls
  PROVE  /\ CallerInv'
         /\ InCall' = InCall \ {log_str[t]}
         /\ log_str[t] \in InCall /\ log_str[t] \in Items
         /\ \A l \in 1..Len(calls) :
              calls[l] = calls[log_str[t]] => l <= log_str[t]
  <1>1. /\ log_str[t] \in Items /\ log_str[t] # 0
        /\ log_str \in [Threads -> 0..MaxLines]
        /\ log_str' = [log_str EXCEPT ![t] = 0]
        /\ lstep' = [lstep EXCEPT ![t] = "out"]
    BY LogAssumption DEF LogInv, LineInv, TypeOK, Return, Goto
  <1>2. /\ calls[log_str[t]] = t
        /\ \A l \in 1..Len(calls) : calls[l] = t => l <= log_str[t]
        /\ \A u \in Threads \ {t} : log_str[u] # log_str[t]
    BY <1>1 DEF LinesInv, CallerInv
  <1>3. CallerInv'
    BY <1>1 DEF LinesInv, CallerInv, LogInv, TypeOK
  <1>4. InCall' = InCall \ {log_str[t]} /\ log_str[t] \in InCall
    BY <1>1, <1>2 DEF InCall
  <1>5. QED
    BY <1>1, <1>2, <1>3, <1>4

(* push puts the line behind those of its thread, or refuses it.             *)
LEMMA LinesPush ==
  ASSUME LogInv, LinesInv, NEW t \in Threads, PushLine(t)
  PROVE  LinesInv'
  <1> DEFINE x == log_str[t]
  <1>1. /\ lstep[t] = "push" /\ Return(t)
        /\ UNCHANGED <<written, direct, holds, calls>>
    BY DEF PushLine, writeVars
  <1>2. /\ CallerInv' /\ InCall' = InCall \ {x} /\ x \in InCall /\ x \in Items
        /\ \A l \in 1..Len(calls) : calls[l] = calls[x] => l <= x
    BY <1>1, LinesReturn
  <1>3. x \notin InQueue \cup InWriter \cup Range(written) \cup dropped
    BY <1>2 DEF LinesInv, PlaceInv
  <1>4. CASE Push(x)
    <2>1. Contents' = Append(Contents, x) /\ item' = item
      BY <1>2, <1>4, PushAppends, LogAssumption
      DEF LogInv, TypeOK, Push
    <2>2. dropped' = dropped
      BY <1>4 DEF PushLine, PushFull, Push
    <2>3. /\ InQueue' = InQueue \cup {x}
          /\ IsInjective(Contents')
      BY <1>2, <1>3, <2>1, ContentsSeq, DistinctAppend
      DEF InQueue, LinesInv, PlaceInv
    <2>4. InWriter' = InWriter
      BY <1>1, <2>1 DEF InWriter
    <2>5. PlaceInv'
      BY <1>1, <1>2, <1>3, <2>2, <2>3, <2>4 DEF LinesInv, PlaceInv
    <2>6. /\ m_size \in Nat /\ DOMAIN Contents = 1..m_size
          /\ DOMAIN Contents' = 1..(m_size + 1)
          /\ \A i \in 1..m_size : Contents'[i] = Contents[i]
          /\ Contents'[m_size + 1] = x
      <3>1. /\ Contents \in Seq(Items) /\ Len(Contents) = m_size
            /\ DOMAIN Contents = 1..m_size
        BY ContentsSeq
      <3>2. QED
        BY <1>2, <2>1, <3>1, AppendProperties, LenProperties
    <2>7. \A k \in DOMAIN Contents :
            calls[Contents[k]] = calls[x] => Contents[k] < x
      BY <1>2, <1>3, LinesKnown, LogAssumption
    <2>8. \A i, k \in DOMAIN Contents' :
            i < k /\ calls[Contents'[i]] = calls[Contents'[k]]
            => Contents'[i] < Contents'[k]
      <3>1. ASSUME NEW i \in 1..(m_size + 1), NEW k \in 1..(m_size + 1), i < k,
                   calls[Contents'[i]] = calls[Contents'[k]]
            PROVE  Contents'[i] < Contents'[k]
        <4>1. i \in 1..m_size /\ (k \in 1..m_size \/ k = m_size + 1)
          BY <2>6, <3>1
        <4>2. QED
          BY <2>6, <2>7, <3>1, <4>1 DEF LinesInv, OrderInv
      <3>2. QED
        BY <2>6, <3>1
    <2>9. holds => \A k \in DOMAIN Contents' :
                     calls[item] = calls[Contents'[k]] => item < Contents'[k]
      <3>1. ASSUME holds, NEW k \in 1..(m_size + 1),
                   calls[item] = calls[Contents'[k]]
            PROVE  item < Contents'[k]
        <4>1. k \in 1..m_size \/ k = m_size + 1
          BY <2>6, <3>1
        <4>2. item # x /\ item \in 1..Len(calls)
          BY <1>3, <3>1, LinesKnown
        <4>3. CASE k = m_size + 1
          BY <1>2, <2>6, <3>1, <4>2, <4>3, LogAssumption
        <4>4. CASE k \in 1..m_size
          BY <2>6, <3>1, <4>4 DEF LinesInv, OrderInv
        <4>5. QED
          BY <4>1, <4>3, <4>4
      <3>2. QED
        BY <2>6, <3>1
    <2>10. \A i \in DOMAIN written, l \in InWriter \cup InQueue \cup {x} :
             calls[written[i]] = calls[l] /\ written[i] > l
             => written[i] \in direct
      <3>1. \A i \in DOMAIN written : calls[written[i]] = calls[x]
              => ~(written[i] > x)
        BY <1>2, LinesKnown, LogAssumption
      <3>2. QED
        BY <3>1 DEF LinesInv, OrderInv
    <2>11. OrderInv'
      <3>1. InWriter' \cup InQueue' = InWriter \cup InQueue \cup {x}
        BY <2>3, <2>4
      <3>2. OnlyDirectOvertakes' /\ (direct \subseteq Range(written))'
        BY <1>1 DEF LinesInv, OrderInv, OnlyDirectOvertakes
      <3>3. QED
        BY <1>1, <2>1, <2>8, <2>9, <2>10, <3>1, <3>2 DEF OrderInv
    <2>12. QED
      BY <1>2, <2>5, <2>11 DEF LinesInv
  <1>5. CASE PushFull /\ dropped' = dropped \cup {x}
    <2>1. Contents' = Contents /\ item' = item
      BY <1>5 DEF PushFull, Contents
    <2>2. InQueue' = InQueue /\ InWriter' = InWriter
      BY <1>1, <2>1 DEF InQueue, InWriter
    <2>3. PlaceInv'
      BY <1>1, <1>2, <1>3, <1>5, <2>1, <2>2 DEF LinesInv, PlaceInv
    <2>4. OrderInv'
      BY <1>1, <2>1, <2>2 DEF LinesInv, OrderInv, OnlyDirectOvertakes
    <2>5. QED
      BY <1>2, <2>3, <2>4 DEF LinesInv
  <1>6. QED
    BY <1>4, <1>5 DEF PushLine

(* A line that goes past the queue is newer than all of its thread.          *)
LEMMA LinesPuts ==
  ASSUME LogInv, LinesInv, NEW t \in Threads, PutsLine(t)
  PROVE  LinesInv'
  <1> DEFINE x == log_str[t]
  <1>1. /\ lstep[t] = "puts" /\ Return(t)
        /\ written' = Append(written, x) /\ direct' = direct \cup {x}
        /\ UNCHANGED <<holds, item, calls, dropped>>
    BY DEF PutsLine, Puts, queueVars
  <1>2. /\ CallerInv' /\ InCall' = InCall \ {x} /\ x \in InCall /\ x \in Items
        /\ \A l \in 1..Len(calls) : calls[l] = calls[x] => l <= x
    BY <1>1, LinesReturn
  <1>3. x \notin InQueue \cup InWriter \cup Range(written) \cup dropped
    BY <1>2 DEF LinesInv, PlaceInv
  <1>4. Contents' = Contents
    BY DEF PutsLine, queueVars, Contents
  <1>5. InQueue' = InQueue /\ InWriter' = InWriter
    BY <1>1, <1>4 DEF InQueue, InWriter
  <1>6. /\ Range(written') = Range(written) \cup {x} /\ IsInjective(written')
        /\ Len(written) \in Nat /\ DOMAIN written = 1..Len(written)
        /\ DOMAIN written' = 1..(Len(written) + 1)
        /\ \A i \in 1..Len(written) : written'[i] = written[i]
        /\ written'[Len(written) + 1] = x
    BY <1>1, <1>2, <1>3, DistinctAppend, AppendProperties, LenProperties
    DEF LinesInv, PlaceInv, LogInv, TypeOK
  <1>7. PlaceInv'
    BY <1>1, <1>2, <1>3, <1>4, <1>5, <1>6 DEF LinesInv, PlaceInv
  <1>8. \A i \in 1..Len(written) : /\ written[i] # x /\ written[i] \in Int
                                   /\ calls[written[i]] = calls[x]
                                        => ~(written[i] > x)
    <2>1. ASSUME NEW i \in 1..Len(written)
          PROVE  /\ written[i] # x /\ written[i] \in Int
                 /\ calls[written[i]] = calls[x] => ~(written[i] > x)
      <3>1. written[i] \in Range(written) /\ written[i] \in 1..Len(calls)
        BY <1>6, <2>1, LinesKnown
      <3>2. QED
        BY <1>2, <1>3, <3>1, LogAssumption, LinesKnown
    <2>2. QED
      BY <2>1
  <1>9. OnlyDirectOvertakes'
    <2>1. ASSUME NEW i \in 1..(Len(written) + 1),
                 NEW k \in 1..(Len(written) + 1), i < k,
                 calls[written'[i]] = calls[written'[k]],
                 written'[i] > written'[k]
          PROVE  written'[i] \in direct' /\ written'[k] \notin direct'
      <3>1. i \in 1..Len(written) /\ (k \in 1..Len(written)
                                      \/ k = Len(written) + 1)
        BY <1>6, <2>1
      <3>2. k \in 1..Len(written)
        BY <1>6, <1>8, <2>1, <3>1
      <3>3. written[i] \in direct /\ written[k] \notin direct
        BY <1>6, <2>1, <3>1, <3>2
        DEF LinesInv, OrderInv, OnlyDirectOvertakes
      <3>4. QED
        BY <1>1, <1>6, <1>8, <3>1, <3>2, <3>3
    <2>2. QED
      BY <1>1, <1>6, <2>1 DEF OnlyDirectOvertakes
  <1>10. \A i \in DOMAIN written', l \in InWriter \cup InQueue :
           calls[written'[i]] = calls[l] /\ written'[i] > l
           => written'[i] \in direct'
    <2>1. ASSUME NEW i \in 1..(Len(written) + 1),
                 NEW l \in InWriter \cup InQueue,
                 calls[written'[i]] = calls[l], written'[i] > l
          PROVE  written'[i] \in direct'
      <3>1. i \in 1..Len(written) \/ i = Len(written) + 1
        BY <1>6
      <3>2. CASE i = Len(written) + 1
        BY <1>1, <1>6, <3>2
      <3>3. CASE i \in 1..Len(written)
        <4>1. written[i] \in direct
          BY <1>6, <2>1, <3>3 DEF LinesInv, OrderInv
        <4>2. QED
          BY <1>1, <1>6, <3>3, <4>1
      <3>4. QED
        BY <3>1, <3>2, <3>3
    <2>2. QED
      BY <1>6, <2>1
  <1>11. OrderInv'
    BY <1>1, <1>4, <1>5, <1>6, <1>9, <1>10 DEF LinesInv, OrderInv
  <1>12. QED
    BY <1>2, <1>7, <1>11 DEF LinesInv

(* pop gives the writer the oldest line: older than what stays of its thread.*)
LEMMA LinesPop ==
  ASSUME LogInv, LinesInv, WriterPop
  PROVE  LinesInv'
  <1>1. /\ ~holds /\ holds'
        /\ UNCHANGED <<lstep, log_str, written, direct, calls, dropped>>
    BY DEF WriterPop, writeVars
  <1>2. /\ Contents # <<>>
        /\ item' = Head(Contents) /\ Contents' = Tail(Contents)
    BY PopTakes, LogAssumption DEF WriterPop, LogInv, TypeOK
  <1>3. Contents \in Seq(Items) /\ IsInjective(Contents)
    BY ContentsSeq DEF LinesInv, PlaceInv
  <1>4. /\ item' \in InQueue /\ item' = Contents[1]
        /\ InQueue' = InQueue \ {item'}
        /\ IsInjective(Contents')
    BY <1>2, <1>3, DistinctTail DEF InQueue
  <1>5. InWriter = {} /\ InWriter' = {item'} /\ InCall' = InCall
    BY <1>1 DEF InWriter, InCall
  <1>6. /\ Len(Contents) \in Nat \ {0}
        /\ DOMAIN Contents = 1..Len(Contents)
        /\ DOMAIN Contents' = 1..(Len(Contents) - 1)
        /\ \A i \in 1..(Len(Contents) - 1) : Contents'[i] = Contents[i + 1]
    BY <1>2, <1>3, HeadTailProperties, LenProperties, EmptySeq
  <1>7. CallerInv'
    BY <1>1 DEF LinesInv, CallerInv
  <1>8. PlaceInv'
    BY <1>1, <1>4, <1>5 DEF LinesInv, PlaceInv
  <1>9. /\ \A i, k \in DOMAIN Contents' :
             i < k /\ calls[Contents'[i]] = calls[Contents'[k]]
             => Contents'[i] < Contents'[k]
        /\ \A k \in DOMAIN Contents' :
             calls[item'] = calls[Contents'[k]] => item' < Contents'[k]
    <2>1. \A i \in 1..(Len(Contents) - 1) :
            i + 1 \in 1..Len(Contents) /\ 1 < i + 1
      BY <1>6
    <2>2. \A i, k \in 1..Len(Contents) :
            i < k /\ calls[Contents[i]] = calls[Contents[k]]
            => Contents[i] < Contents[k]
      BY <1>6 DEF LinesInv, OrderInv
    <2>3. ASSUME NEW i \in 1..(Len(Contents) - 1),
                 NEW k \in 1..(Len(Contents) - 1),
                 i < k, calls[Contents'[i]] = calls[Contents'[k]]
          PROVE  Contents'[i] < Contents'[k]
      BY <1>6, <2>1, <2>2, <2>3
    <2>4. ASSUME NEW k \in 1..(Len(Contents) - 1),
                 calls[item'] = calls[Contents'[k]]
          PROVE  item' < Contents'[k]
      BY <1>4, <1>6, <2>1, <2>2, <2>4
    <2>5. QED
      BY <1>6, <2>3, <2>4
  <1>10. OrderInv'
    <2>1. InWriter' \cup InQueue' \subseteq InWriter \cup InQueue
      BY <1>4, <1>5
    <2>2. OnlyDirectOvertakes' /\ (direct \subseteq Range(written))'
      BY <1>1 DEF LinesInv, OrderInv, OnlyDirectOvertakes
    <2>3. \A i \in DOMAIN written, l \in InWriter \cup InQueue :
            calls[written[i]] = calls[l] /\ written[i] > l
            => written[i] \in direct
      BY DEF LinesInv, OrderInv
    <2>4. QED
      BY <1>1, <1>9, <2>1, <2>2, <2>3 DEF OrderInv
  <1>11. QED
    BY <1>7, <1>8, <1>10 DEF LinesInv

(* The writer writes its line behind those of the line's thread, but for     *)
(* some that did not go through the queue.                                   *)
LEMMA LinesWrite ==
  ASSUME LogInv, LinesInv, WriterPuts
  PROVE  LinesInv'
  <1>1. /\ holds /\ ~holds'
        /\ written' = Append(written, item)
        /\ UNCHANGED <<lstep, log_str, item, direct, calls, dropped>>
    BY DEF WriterPuts, Puts, queueVars
  <1>2. Contents' = Contents
    BY DEF WriterPuts, queueVars, Contents
  <1>3. /\ InWriter = {item} /\ InWriter' = {} /\ InCall' = InCall
        /\ InQueue' = InQueue
    BY <1>1, <1>2 DEF InWriter, InCall, InQueue
  <1>4. /\ item \notin InCall \cup InQueue \cup Range(written) \cup dropped
        /\ item \notin direct /\ item \in Items
    BY <1>1, <1>3 DEF LinesInv, PlaceInv, OrderInv, LogInv, ItemInv
  <1>5. /\ Range(written') = Range(written) \cup {item}
        /\ IsInjective(written')
        /\ Len(written) \in Nat /\ DOMAIN written = 1..Len(written)
        /\ DOMAIN written' = 1..(Len(written) + 1)
        /\ \A i \in 1..Len(written) : written'[i] = written[i]
        /\ written'[Len(written) + 1] = item
    BY <1>1, <1>4, DistinctAppend, AppendProperties, LenProperties
    DEF LinesInv, PlaceInv, LogInv, TypeOK
  <1>6. CallerInv'
    BY <1>1 DEF LinesInv, CallerInv
  <1>7. PlaceInv'
    BY <1>1, <1>2, <1>3, <1>4, <1>5 DEF LinesInv, PlaceInv
  <1>8. OnlyDirectOvertakes'
    <2>1. ASSUME NEW i \in 1..(Len(written) + 1),
                 NEW k \in 1..(Len(written) + 1), i < k,
                 calls[written'[i]] = calls[written'[k]],
                 written'[i] > written'[k]
          PROVE  written'[i] \in direct /\ written'[k] \notin direct
      <3>1. i \in 1..Len(written) /\ (k \in 1..Len(written)
                                      \/ k = Len(written) + 1)
        BY <1>5, <2>1
      <3>2. CASE k \in 1..Len(written)
        BY <1>5, <2>1, <3>1, <3>2
        DEF LinesInv, OrderInv, OnlyDirectOvertakes
      <3>3. CASE k = Len(written) + 1
        <4>1. written[i] \in direct
          BY <1>3, <1>5, <2>1, <3>1, <3>3 DEF LinesInv, OrderInv
        <4>2. QED
          BY <1>4, <1>5, <3>1, <3>3, <4>1
      <3>4. QED
        BY <3>1, <3>2, <3>3
    <2>2. QED
      BY <1>1, <1>5, <2>1 DEF OnlyDirectOvertakes
  <1>9. \A i \in DOMAIN written', l \in InQueue :
          calls[written'[i]] = calls[l] /\ written'[i] > l
          => written'[i] \in direct
    <2>1. ASSUME NEW i \in 1..(Len(written) + 1), NEW l \in InQueue,
                 calls[written'[i]] = calls[l], written'[i] > l
          PROVE  written'[i] \in direct
      <3>1. CASE i \in 1..Len(written)
        BY <1>5, <2>1, <3>1 DEF LinesInv, OrderInv
      <3>2. CASE i = Len(written) + 1
        <4>1. PICK k \in DOMAIN Contents : l = Contents[k]
          BY DEF InQueue, Range
        <4>2. item < l
          BY <1>1, <1>5, <2>1, <3>2, <4>1 DEF LinesInv, OrderInv
        <4>3. item \in Nat /\ l \in Nat
          BY <1>4, LogAssumption, LinesKnown, <4>1
        <4>4. QED
          BY <1>5, <2>1, <3>2, <4>2, <4>3
      <3>3. QED
        BY <1>5, <3>1, <3>2
    <2>2. QED
      BY <1>5, <2>1
  <1>10. OrderInv'
    BY <1>1, <1>2, <1>3, <1>5, <1>8, <1>9 DEF LinesInv, OrderInv
  <1>11. QED
    BY <1>6, <1>7, <1>10 DEF LinesInv

(* Nothing has been logged at the start.                                     *)
LEMMA LinesInit == Init => LinesInv
  <1> SUFFICES ASSUME Init PROVE LinesInv
    OBVIOUS
  <1>1. /\ calls = <<>> /\ written = <<>> /\ dropped = {} /\ direct = {}
        /\ ~holds /\ \A t \in Threads : log_str[t] = 0
        /\ m_size = 0
    BY DEF Init, QueueInit
  <1>2. /\ Len(calls) = 0 /\ 1..Len(calls) = {} /\ DOMAIN written = {}
        /\ DOMAIN Contents = {}
    <2>1. Len(calls) = 0 /\ 1..0 = {} /\ DOMAIN written = {}
      BY <1>1, EmptySeq, LenProperties
    <2>2. QED
      BY <1>1, <2>1 DEF Contents
  <1>3. InCall = {} /\ InQueue = {} /\ InWriter = {} /\ Range(written) = {}
    BY <1>1, <1>2 DEF InCall, InQueue, InWriter, Range
  <1>4. CallerInv
    BY <1>1 DEF CallerInv
  <1>5. PlaceInv
    BY <1>1, <1>2, <1>3 DEF PlaceInv, IsInjective
  <1>6. OrderInv
    BY <1>1, <1>2, <1>3 DEF OrderInv, OnlyDirectOvertakes
  <1>7. QED
    BY <1>4, <1>5, <1>6 DEF LinesInv

(* Every step keeps the lines where they belong.                             *)
LEMMA LinesStep == LogInv /\ LinesInv /\ [Next]_vars => LinesInv'
  <1> SUFFICES ASSUME LogInv, LinesInv, [Next]_vars PROVE LinesInv'
    OBVIOUS
  <1>1. ASSUME UNCHANGED <<log_str, calls, written, dropped, direct, holds>>,
               UNCHANGED <<m_array, m_size, m_front, m_max_size, item>>,
               \A t \in Threads : lstep'[t] = "out" => lstep[t] = "out"
        PROVE  LinesInv'
    BY <1>1, LinesFrame DEF Contents
  <1>2. ASSUME NEW t \in Threads, Count(t) PROVE LinesInv'
    BY <1>1, <1>2 DEF Count, Goto, queueVars, LogInv, TypeOK
  <1>3. ASSUME NEW t \in Threads, TestFull(t) PROVE LinesInv'
    BY <1>1, <1>3
    DEF TestFull, Goto, queueVars, writeVars, LogInv, TypeOK
  <1>4. CASE WriterWait
    BY <1>1, <1>4 DEF WriterWait, Sleep, SpuriousWakeup, writeVars
  <1>5. CASE Midnight \/ UNCHANGED vars
    BY <1>1, <1>5 DEF Midnight, vars, queueVars, writeVars
  <1>6. QED
    BY <1>2, <1>3, <1>4, <1>5, LinesCall, LinesPush, LinesPuts, LinesPop,
       LinesWrite
    DEF Next, WriteLog, Writer

(* The invariant of the lines holds in every reachable state.                *)
LEMMA LinesInvariant == Spec => []LinesInv
  BY LinesInit, LinesStep, LogInvariant, PTL DEF Spec

(* A thread's lines are written in the order it logged them, for any number  *)
(* of threads, lines and places in the queue, but for a line that write_log  *)
(* itself puts to the file because full() has said so: that one overtakes    *)
(* lines that are still in the queue or with the writer.                     *)
THEOREM OvertakersAreDirect == Spec => []OnlyDirectOvertakes
  <1>1. LinesInv => OnlyDirectOvertakes
    BY DEF LinesInv, OrderInv
  <1>2. QED
    BY <1>1, LinesInvariant, PTL

-----------------------------------------------------------------------------
(* Only a log with a queue has a writer and threads that push; if the queue  *)
(* is full when one comes to push, another has filled it since it asked.     *)
AsyncInv ==
  /\ holds => m_is_async
  /\ \A t \in Threads : lstep[t] = "push" =>
       m_is_async /\ (Full => \E u \in Range(calls) : u # t)
  /\ dropped # {} => m_is_async /\ \E t, u \in Range(calls) : t # u

(* Only the threads that log are in write_log.                               *)
LEMMA AsyncStep == LogInv /\ LinesInv /\ AsyncInv /\ [Next]_vars => AsyncInv'
  <1> SUFFICES ASSUME LogInv, LinesInv, AsyncInv, [Next]_vars PROVE AsyncInv'
    OBVIOUS
  <1>1. ASSUME NEW t \in Threads, lstep[t] # "out" PROVE t \in Range(calls)
    <2>1. log_str[t] \in 1..Len(calls) /\ calls[log_str[t]] = t
      BY <1>1, LogAssumption DEF LogInv, LineInv, LinesInv, CallerInv
    <2>2. log_str[t] \in DOMAIN calls
      BY <2>1, LenProperties DEF LogInv, TypeOK
    <2>3. QED
      BY <2>1, <2>2 DEF Range
  <1>2. /\ m_max_size \in Nat /\ m_size \in 0..m_max_size
        /\ lstep \in [Threads -> {"out", "count", "full", "push", "puts"}]
    BY LogAssumption DEF LogInv, TypeOK, QueueTypeOK
  <1>3. Range(calls) \subseteq Range(calls')
    <2>1. ASSUME NEW t \in Threads, Call(t)
          PROVE  Range(calls) \subseteq Range(calls')
      BY <2>1, DistinctAppend DEF Call, LogInv, TypeOK
    <2>2. QED
      BY <2>1 DEF Next, WriteLog, Writer, WriterPop, WriterPuts, WriterWait,
                  Midnight, Count, TestFull, PushLine, PutsLine, vars
  <1>4. ASSUME UNCHANGED <<m_size, m_max_size, dropped, holds>>,
               \A t \in Threads : lstep'[t] = "push" => lstep[t] = "push"
        PROVE  AsyncInv'
    BY <1>3, <1>4 DEF AsyncInv, m_is_async, Full
  <1>5. ASSUME NEW t \in Threads, Call(t) \/ Count(t) \/ PutsLine(t)
        PROVE  AsyncInv'
    BY <1>2, <1>4, <1>5
    DEF Call, Count, PutsLine, Return, Goto, queueVars
  <1>6. ASSUME NEW t \in Threads, TestFull(t) PROVE AsyncInv'
    BY <1>2, <1>3, <1>6
    DEF TestFull, Goto, queueVars, AsyncInv, m_is_async, Full
  <1>7. ASSUME NEW t \in Threads, PushLine(t) PROVE AsyncInv'
    <2>1. /\ lstep[t] = "push" /\ lstep' = [lstep EXCEPT ![t] = "out"]
          /\ holds' = holds /\ calls' = calls
          /\ t \in Range(calls) /\ m_max_size' = m_max_size /\ m_is_async
      BY <1>1, <1>7
      DEF PushLine, Return, Goto, Push, PushFull, AsyncInv
    <2>2. CASE Push(log_str[t])
      BY <1>2, <1>7, <2>1, <2>2
      DEF PushLine, PushFull, Push, AsyncInv, m_is_async
    <2>3. CASE PushFull
      BY <1>2, <1>7, <2>1, <2>3
      DEF PushLine, PushFull, Push, Full, AsyncInv, m_is_async
    <2>4. QED
      BY <1>7, <2>2, <2>3 DEF PushLine
  <1>8. CASE WriterPop
    BY <1>2, <1>3, <1>8 DEF WriterPop, Pop, Full, AsyncInv, m_is_async
  <1>9. CASE WriterPuts
    BY <1>3, <1>9
    DEF WriterPuts, queueVars, Full, AsyncInv, m_is_async
  <1>10. CASE WriterWait \/ Midnight \/ UNCHANGED vars
    BY <1>4, <1>10
    DEF WriterWait, Sleep, SpuriousWakeup, Midnight, vars, queueVars
  <1>11. QED
    BY <1>5, <1>6, <1>7, <1>8, <1>9, <1>10 DEF Next, WriteLog, Writer

(* And so in every reachable state.                                          *)
LEMMA AsyncInvariant == Spec => []AsyncInv
  <1>1. Init => AsyncInv
    BY DEF Init, AsyncInv
  <1>2. QED
    BY <1>1, AsyncStep, LinesInvariant, LogInvariant, PTL DEF Spec

(* Sets that have nothing in common are counted one by one.                  *)
LEMMA CountDisjoint ==
  ASSUME NEW S, NEW T, IsFiniteSet(S), IsFiniteSet(T), S \cap T = {}
  PROVE  /\ IsFiniteSet(S \cup T)
         /\ Cardinality(S \cup T) = Cardinality(S) + Cardinality(T)
  <1>1. Cardinality(S \cap T) = 0
    BY FS_EmptySet
  <1>2. Cardinality(S) \in Nat /\ Cardinality(T) \in Nat
    BY FS_CardinalityType
  <1>3. /\ IsFiniteSet(S \cup T)
        /\ Cardinality(S \cup T) = Cardinality(S) + Cardinality(T)
                                   - Cardinality(S \cap T)
    BY FS_Union
  <1>4. QED
    BY <1>1, <1>2, <1>3

(* Every line that was logged is in exactly one place: with its caller, in   *)
(* the queue, with the writer, in a file, or refused by push; a line is      *)
(* refused only if there is a queue and two threads have logged.             *)
THEOREM LinesInOnePlace == Spec => []EachLineInOnePlace
  <1> SUFFICES ASSUME LogInv, LinesInv, AsyncInv PROVE EachLineInOnePlace
    BY LogInvariant, LinesInvariant, AsyncInvariant, PTL
  <1>1. /\ Len(calls) \in Nat /\ calls \in Seq(Threads)
        /\ DOMAIN calls = 1..Len(calls)
    BY LenProperties DEF LogInv, TypeOK
  <1>2. IsFiniteSet(1..Len(calls)) /\ Cardinality(1..Len(calls)) = Len(calls)
    BY <1>1, FS_Interval
  <1>3. /\ IsFiniteSet(InCall) /\ IsFiniteSet(InQueue)
        /\ IsFiniteSet(InWriter) /\ IsFiniteSet(Range(written))
        /\ IsFiniteSet(dropped)
    <2>1. /\ InCall \subseteq 1..Len(calls) /\ InQueue \subseteq 1..Len(calls)
          /\ InWriter \subseteq 1..Len(calls)
          /\ Range(written) \subseteq 1..Len(calls)
          /\ dropped \subseteq 1..Len(calls)
      BY Zenon DEF LinesInv, PlaceInv
    <2>2. QED
      BY <1>2, <2>1, FS_Subset
  <1>4. Cardinality(InQueue) = m_size
    BY ContentsSeq, DistinctCount DEF InQueue, LinesInv, PlaceInv
  <1>5. Cardinality(Range(written)) = Len(written)
    BY DistinctCount DEF LinesInv, PlaceInv, LogInv, TypeOK
  <1>6. Len(calls) = Cardinality(InCall) + m_size + Cardinality(InWriter)
                     + Len(written) + Cardinality(dropped)
    <2> DEFINE A == Range(written) \cup dropped
               B == InWriter \cup A
               C == InQueue \cup B
    <2>1. /\ Range(written) \cap dropped = {} /\ InWriter \cap A = {}
          /\ InQueue \cap B = {} /\ InCall \cap C = {}
          /\ 1..Len(calls) = InCall \cup C
      BY DEF LinesInv, PlaceInv
    <2>2. /\ IsFiniteSet(A)
          /\ Cardinality(A) = Len(written) + Cardinality(dropped)
      BY <1>3, <1>5, <2>1, CountDisjoint
    <2>3. /\ IsFiniteSet(B)
          /\ Cardinality(B) = Cardinality(InWriter) + Cardinality(A)
      BY <1>3, <2>1, <2>2, CountDisjoint
    <2>4. /\ IsFiniteSet(C)
          /\ Cardinality(C) = m_size + Cardinality(B)
      BY <1>3, <1>4, <2>1, <2>3, CountDisjoint
    <2>5. Len(calls) = Cardinality(InCall) + Cardinality(C)
      BY <1>2, <1>3, <2>1, <2>4, CountDisjoint
    <2>6. /\ Cardinality(InCall) \in Nat /\ Cardinality(InWriter) \in Nat
          /\ Cardinality(dropped) \in Nat /\ m_size \in Nat
          /\ Len(written) \in Nat
      BY <1>3, <1>4, <1>5, FS_CardinalityType
    <2> HIDE DEF A, B, C
    <2>7. QED
      BY <2>2, <2>3, <2>4, <2>5, <2>6
  <1>7. ASSUME NEW t \in Range(calls), NEW u \in Range(calls), t # u
        PROVE  Cardinality(Range(calls)) > 1
    <2>1. Range(calls) \subseteq Threads
      BY <1>1, ElementOfSeq DEF Range
    <2>2. IsFiniteSet(Range(calls))
      BY <2>1, FS_Subset, LogAssumption
    <2>3. /\ IsFiniteSet({t}) /\ IsFiniteSet({u})
          /\ Cardinality({t}) = 1 /\ Cardinality({u}) = 1
      BY FS_Singleton
    <2>4. Cardinality({t} \cup {u}) = 2
      <3>1. {t} \cap {u} = {}
        BY <1>7
      <3>2. Cardinality({t} \cup {u}) = Cardinality({t}) + Cardinality({u})
        BY <2>3, <3>1, CountDisjoint
      <3>3. QED
        BY <2>3, <3>2
    <2>5. {t} \cup {u} \subseteq Range(calls)
      OBVIOUS
    <2>6. Cardinality({t} \cup {u}) <= Cardinality(Range(calls))
      BY <2>2, <2>5, FS_Subset
    <2>7. Cardinality(Range(calls)) \in Nat
      BY <2>2, FS_CardinalityType
    <2>8. QED
      BY <2>4, <2>6, <2>7
  <1>8. QED
    BY <1>6, <1>7 DEF EachLineInOnePlace, LinesInv, PlaceInv, AsyncInv

-----------------------------------------------------------------------------
(* Lines that are counted and not yet in a file.                             *)
Counted  == {t \in Threads : lstep[t] \in {"full", "push", "puts"}}
Held     == IF holds THEN 1 ELSE 0
OnTheWay == Cardinality(Counted) + m_size + Held

(* Since it was opened a file got at most the lines counted since then, and  *)
(* those that were on their way then: one for each thread, and what fits in  *)
(* the queue and in the writer's hands.                                      *)
Since    == m_count % m_split_lines
BoundInv == inFile + OnTheWay <= Since + Cardinality(Threads) + Room

(* Quotient and remainder.                                                   *)
LEMMA DivMod ==
  ASSUME NEW n \in Nat \ {0}, NEW x \in Nat
  PROVE  /\ x \div n \in Nat /\ x % n \in 0..(n - 1)
         /\ x = n * (x \div n) + (x % n)
  BY SMTT(30)

(* A remainder is the only one.                                              *)
LEMMA ModUnique ==
  ASSUME NEW n \in Nat \ {0}, NEW q \in Nat, NEW r \in 0..(n - 1)
  PROVE  (n * q + r) % n = r
  BY SMTT(30)

(* To count one more, unless that makes a full file.                         *)
LEMMA SplitCount ==
  ASSUME NEW n \in Nat \ {0}, NEW x \in Nat
  PROVE  /\ x % n \in 0..(n - 1)
         /\ (x + 1) % n = 0 \/ (x + 1) % n = (x % n) + 1
         /\ 0 % n = 0
  <1> DEFINE q == x \div n
             r == x % n
  <1>1. q \in Nat /\ r \in 0..(n - 1) /\ x = n * q + r
    BY DivMod
  <1>2. 0 % n = 0
    BY SMTT(30)
  <1> HIDE DEF q, r
  <1>3. CASE r + 1 < n
    <2>1. r + 1 \in 0..(n - 1) /\ x + 1 = n * q + (r + 1)
      BY <1>1, <1>3
    <2>2. (n * q + (r + 1)) % n = r + 1
      BY <1>1, <2>1, ModUnique
    <2>3. QED
      BY <1>1, <1>2, <2>1, <2>2 DEF r
  <1>4. CASE r + 1 = n
    <2>1. q + 1 \in Nat /\ 0 \in 0..(n - 1) /\ x + 1 = n * (q + 1) + 0
      <3>1. n * (q + 1) = n * q + n
        BY <1>1
      <3>2. n * q \in Nat
        BY <1>1
      <3>3. QED
        BY <1>1, <1>4, <3>1, <3>2
    <2>2. (n * (q + 1) + 0) % n = 0
      BY <2>1, ModUnique
    <2>3. QED
      BY <1>1, <1>2, <2>1, <2>2 DEF r
  <1>5. QED
    BY <1>1, <1>3, <1>4

(* The threads that carry a counted line.                                    *)
LEMMA CountedFinite ==
  /\ IsFiniteSet(Counted) /\ Cardinality(Counted) \in Nat
  /\ Cardinality(Threads) \in Nat
  /\ Cardinality(Counted) <= Cardinality(Threads)
  <1>1. Counted \in SUBSET Threads
    BY DEF Counted
  <1>2. IsFiniteSet(Threads)
    BY LogAssumption
  <1>3. IsFiniteSet(Counted) /\ Cardinality(Counted) <= Cardinality(Threads)
    BY <1>1, <1>2, FS_Subset
  <1>4. QED
    BY <1>2, <1>3, FS_CardinalityType

(* One more, and one less.                                                   *)
LEMMA CountedMoves ==
  ASSUME LogInv, NEW t \in Threads,
         NEW s \in {"out", "count", "full", "push", "puts"}, Goto(t, s)
  PROVE  /\ t \in Counted /\ s = "out"
              => Cardinality(Counted') = Cardinality(Counted) - 1
         /\ t \in Counted /\ s \in {"push", "puts"} => Counted' = Counted
         /\ t \notin Counted /\ s = "full"
              => Cardinality(Counted') = Cardinality(Counted) + 1
         /\ t \notin Counted /\ s = "count" => Counted' = Counted
  <1>1. lstep' = [lstep EXCEPT ![t] = s]
        /\ lstep \in [Threads -> {"out", "count", "full", "push", "puts"}]
    BY DEF Goto, LogInv, TypeOK
  <1>2. CASE t \in Counted /\ s = "out"
    <2>1. Counted' = Counted \ {t}
      BY <1>1, <1>2 DEF Counted
    <2>2. Cardinality(Counted \ {t}) = Cardinality(Counted) - 1
      BY <1>2, CountedFinite, FS_RemoveElement
    <2>3. QED
      BY <1>2, <2>1, <2>2
  <1>3. CASE t \notin Counted /\ s = "full"
    <2>1. Counted' = Counted \cup {t}
      BY <1>1, <1>3 DEF Counted
    <2>2. Cardinality(Counted \cup {t}) = Cardinality(Counted) + 1
      BY <1>3, CountedFinite, FS_AddElement
    <2>3. QED
      BY <1>3, <2>1, <2>2
  <1>4. /\ t \in Counted /\ s \in {"push", "puts"} => Counted' = Counted
        /\ t \notin Counted /\ s = "count" => Counted' = Counted
    BY <1>1 DEF Counted
  <1>5. QED
    BY <1>2, <1>3, <1>4

(* What may be on its way at once.                                           *)
WayInv ==
  /\ OnTheWay \in Nat /\ Room \in Nat
  /\ OnTheWay <= Cardinality(Threads) + Room

(* Without a queue nothing is in it and there is no writer.                  *)
LEMMA WayBound == LogInv /\ AsyncInv => WayInv
  <1> SUFFICES ASSUME LogInv, AsyncInv PROVE WayInv
    OBVIOUS
  <1>1. m_max_size \in Nat /\ m_size \in 0..m_max_size
    BY LogAssumption DEF LogInv, TypeOK, QueueTypeOK
  <1>2. Held \in {0, 1} /\ (m_is_async \/ Held = 0)
    BY DEF AsyncInv, Held
  <1>3. Room \in Nat /\ m_size + Held <= Room
    <2>1. CASE m_is_async
      BY <1>1, <1>2, <2>1 DEF Room
    <2>2. CASE ~m_is_async
      BY <1>1, <1>2, <2>2 DEF Room, m_is_async
    <2>3. QED
      BY <2>1, <2>2
  <1>4. QED
    BY <1>1, <1>2, <1>3, CountedFinite DEF OnTheWay, WayInv

(* A sum that does not grow stays below the bound.                           *)
LEMMA SumBound ==
  ASSUME NEW a \in Nat, NEW b \in Nat, NEW p \in Nat, NEW q \in Nat,
         NEW m \in Nat, q + p <= b + a, a + b <= m
  PROVE  p + q <= m
  OBVIOUS

(* Every line that goes into a file was on its way to it.                    *)
LEMMA BoundStep ==
  LogInv /\ LogInv' /\ WayInv /\ WayInv' /\ BoundInv /\ [Next]_vars
  => BoundInv'
  <1> SUFFICES ASSUME LogInv, LogInv', WayInv, WayInv', BoundInv, [Next]_vars
               PROVE  BoundInv'
    OBVIOUS
  <1> DEFINE T == Cardinality(Threads)
             N == Cardinality(Counted)
  <1>1. /\ m_size \in Nat /\ inFile \in Nat /\ m_count \in Nat
        /\ m_split_lines \in Nat \ {0} /\ T \in Nat /\ N \in Nat
    BY LogAssumption, CountedFinite DEF LogInv, TypeOK, QueueTypeOK
  <1>2. Since \in Nat /\ Held \in Nat
    BY <1>1, SplitCount DEF Held, Since
  <1>3. OnTheWay \in Nat /\ Room \in Nat
    BY DEF WayInv
  <1>4. m_max_size' = m_max_size /\ Room' = Room
    BY DEF Next, WriteLog, Writer, Call, Count, TestFull, PushLine, Push,
           PushFull, PutsLine, WriterPop, Pop, WriterPuts, WriterWait, Sleep,
           SpuriousWakeup, Midnight, vars, queueVars, Room, m_is_async
  <1>5. inFile' \in Nat /\ OnTheWay' \in Nat /\ OnTheWay' <= T + Room
    BY <1>4 DEF WayInv, LogInv, TypeOK
  <1>6. ASSUME OnTheWay' + inFile' <= OnTheWay + inFile, m_count' = m_count
        PROVE  BoundInv'
    <2>1. inFile + OnTheWay <= Since + T + Room /\ Since' = Since
      BY <1>6 DEF BoundInv, Since
    <2>2. Since + T + Room \in Nat
      BY <1>1, <1>2, <1>3
    <2>3. inFile' + OnTheWay' <= Since + T + Room
      BY <1>1, <1>3, <1>5, <1>6, <2>1, <2>2, SumBound
    <2>4. QED
      BY <1>4, <2>1, <2>3 DEF BoundInv
  <1>7. ASSUME NEW t \in Threads, Count(t) PROVE BoundInv'
    <2>1. CASE inFile' = 0
      <3>1. Since' \in Nat
        <4>1. m_count' \in Nat
          BY DEF LogInv, TypeOK
        <4>2. (m_count' % m_split_lines) \in 0..(m_split_lines - 1)
          BY <1>1, <4>1, SplitCount
        <4>3. QED
          BY <4>2 DEF Since
      <3>2. inFile' + OnTheWay' <= Since' + T + Room
        BY <1>1, <1>3, <1>5, <2>1, <3>1
      <3>3. QED
        BY <1>4, <3>2 DEF BoundInv
    <2>2. CASE inFile' # 0
      <3>1. /\ lstep[t] = "count" /\ Goto(t, "full")
            /\ ~SplitDue(m_count + 1) /\ m_count' = m_count + 1
            /\ inFile' = inFile /\ UNCHANGED queueVars /\ holds' = holds
        BY <1>7, <2>2 DEF Count, Open
      <3>2. Since' = Since + 1
        BY <1>1, <3>1, SplitCount DEF SplitDue, Since
      <3>3. Cardinality(Counted') = N + 1
        BY <3>1, CountedMoves DEF Counted
      <3>4. m_size' = m_size /\ Held' = Held
        BY <3>1 DEF queueVars, Held
      <3>5. OnTheWay' = OnTheWay + 1
        BY <1>1, <1>2, <3>3, <3>4 DEF OnTheWay
      <3>6. inFile + OnTheWay <= Since + T + Room
        BY DEF BoundInv
      <3>7. inFile' + OnTheWay' <= (Since + 1) + T + Room
        BY <1>1, <1>2, <1>3, <3>1, <3>5, <3>6
      <3>8. QED
        BY <1>4, <3>2, <3>7 DEF BoundInv
    <2>3. QED
      BY <2>1, <2>2
  <1>8. ASSUME NEW t \in Threads, Call(t) \/ TestFull(t) PROVE BoundInv'
    <2>1. Counted' = Counted
      <3>1. CASE Call(t)
        BY <3>1, CountedMoves DEF Call, Counted
      <3>2. CASE TestFull(t)
        BY <3>2, CountedMoves DEF TestFull, Counted
      <3>3. QED
        BY <1>8, <3>1, <3>2
    <2>2. UNCHANGED <<m_size, holds, inFile, m_count>>
      BY <1>8 DEF Call, TestFull, queueVars, fileVars, writeVars
    <2>3. QED
      BY <1>1, <1>3, <1>6, <2>1, <2>2 DEF OnTheWay, Held
  <1>9. ASSUME NEW t \in Threads, PushLine(t) PROVE BoundInv'
    <2>1. /\ lstep[t] = "push" /\ Goto(t, "out")
          /\ UNCHANGED <<holds, inFile, m_count>>
          /\ m_size' = m_size + 1 \/ m_size' = m_size
      BY <1>9
      DEF PushLine, Return, Push, PushFull, fileVars, writeVars
    <2>2. Cardinality(Counted') = N - 1
      BY <2>1, CountedMoves DEF Counted
    <2>3. QED
      BY <1>1, <1>2, <1>6, <2>1, <2>2 DEF OnTheWay, Held
  <1>10. ASSUME NEW t \in Threads, PutsLine(t) PROVE BoundInv'
    <2>1. /\ lstep[t] = "puts" /\ Goto(t, "out")
          /\ inFile' = inFile + 1 /\ UNCHANGED <<holds, m_size, m_count>>
      BY <1>10 DEF PutsLine, Puts, Return, fileVars, queueVars
    <2>2. Cardinality(Counted') = N - 1
      BY <2>1, CountedMoves DEF Counted
    <2>3. QED
      BY <1>1, <1>2, <1>6, <2>1, <2>2 DEF OnTheWay, Held
  <1>11. CASE WriterPop
    <2>1. /\ ~holds /\ holds' /\ m_size' = m_size - 1
          /\ UNCHANGED <<lstep, inFile, m_count>>
      BY <1>11 DEF WriterPop, Pop, fileVars, writeVars
    <2>2. Held' = 1 /\ Held = 0 /\ Counted' = Counted
      BY <2>1 DEF Held, Counted
    <2>3. QED
      BY <1>1, <1>6, <2>1, <2>2 DEF OnTheWay
  <1>12. CASE WriterPuts
    <2>1. /\ holds /\ ~holds' /\ inFile' = inFile + 1
          /\ UNCHANGED <<lstep, m_size, m_count>>
      BY <1>12 DEF WriterPuts, Puts, queueVars, fileVars
    <2>2. Held' = 0 /\ Held = 1 /\ Counted' = Counted
      BY <2>1 DEF Held, Counted
    <2>3. QED
      BY <1>1, <1>6, <2>1, <2>2 DEF OnTheWay
  <1>13. CASE WriterWait \/ Midnight \/ UNCHANGED vars
    <2>1. UNCHANGED <<m_size, lstep, holds, inFile, m_count>>
      BY <1>13 DEF WriterWait, Sleep, SpuriousWakeup, Midnight, vars,
                   queueVars, fileVars, writeVars
    <2>2. QED
      BY <1>1, <1>3, <1>6, <2>1 DEF OnTheWay, Held, Counted
  <1>14. QED
    BY <1>7, <1>8, <1>9, <1>10, <1>11, <1>12, <1>13
    DEF Next, WriteLog, Writer

(* One opening of the file brings it at most so many lines.                  *)
LEMMA OpeningBound ==
  LogInv /\ WayInv /\ BoundInv
  => inFile \in Nat /\ PerOpening \in Nat /\ inFile <= PerOpening
  <1> SUFFICES ASSUME LogInv, WayInv, BoundInv
               PROVE  /\ inFile \in Nat /\ PerOpening \in Nat
                      /\ inFile <= PerOpening
    OBVIOUS
  <1>1. /\ inFile \in Nat /\ m_split_lines \in Nat \ {0}
        /\ Since \in 0..(m_split_lines - 1)
    BY LogAssumption, SplitCount DEF LogInv, TypeOK, Since
  <1>2. OnTheWay \in Nat /\ Room \in Nat /\ Cardinality(Threads) \in Nat
    BY CountedFinite DEF WayInv
  <1>3. inFile <= (m_split_lines - 1) + Cardinality(Threads) + Room
    BY <1>1, <1>2 DEF BoundInv
  <1>4. QED
    BY <1>1, <1>2, <1>3 DEF PerOpening

(* What a file holds: as much as its openings bring, the last one so far no  *)
(* more than inFile.                                                         *)
TotalInv ==
  \A f \in DOMAIN opened :
    /\ opened[f] >= 1
    /\ total[f] <= opened[f] * PerOpening
    /\ f = m_fp => total[f] <= (opened[f] - 1) * PerOpening + inFile

(* To open a file once more.                                                 *)
LEMMA OnceMore ==
  ASSUME NEW b \in Nat, NEW k \in Nat
  PROVE  /\ k * b \in Nat /\ 0 * b = 0
         /\ (k + 1) * b = k * b + b /\ ((k + 1) - 1) * b = k * b
  BY SMTT(30)

(* A step that opens a file, one that writes a line, and the others.         *)
LEMMA TotalStep ==
  /\ LogInv /\ LogInv' /\ WayInv /\ WayInv' /\ BoundInv /\ BoundInv'
  /\ TotalInv /\ [Next]_vars
  => TotalInv'
  <1> SUFFICES ASSUME LogInv, LogInv', WayInv, WayInv', BoundInv, BoundInv',
                      TotalInv, [Next]_vars
               PROVE  TotalInv'
    OBVIOUS
  <1> DEFINE B == PerOpening
  <1>1. B \in Nat /\ inFile \in Nat /\ B' \in Nat /\ inFile' <= B'
        /\ inFile' \in Nat
    <2>1. inFile \in Nat /\ B \in Nat /\ inFile <= B
      BY OpeningBound
    <2>2. (inFile \in Nat /\ B \in Nat /\ inFile <= B)'
      BY OpeningBound, PTL
    <2>3. QED
      BY <2>1, <2>2
  <1>2. B' = B
    BY DEF Next, WriteLog, Writer, Call, Count, TestFull, PushLine, Push,
           PushFull, PutsLine, WriterPop, Pop, WriterPuts, WriterWait, Sleep,
           SpuriousWakeup, Midnight, vars, queueVars, Room, m_is_async,
           PerOpening
  <1>3. OpenTypes /\ OpenTypes'
    BY DEF LogInv, TypeOK, OpenTypes
  <1> HIDE DEF B
  <1>4. \A f \in DOMAIN opened :
          /\ opened[f] \in Nat /\ opened[f] >= 1 /\ total[f] \in Nat
          /\ total[f] <= opened[f] * B
          /\ f = m_fp => total[f] <= (opened[f] - 1) * B + inFile
    BY <1>3 DEF TotalInv, OpenTypes, B
  <1>5. ASSUME NEW file, Open(file) PROVE TotalInv'
    <2> SUFFICES ASSUME NEW f \in DOMAIN opened'
                 PROVE  /\ opened'[f] >= 1
                        /\ total'[f] <= opened'[f] * B
                        /\ f = m_fp' =>
                             total'[f] <= (opened'[f] - 1) * B + inFile'
      BY <1>2 DEF TotalInv, B
    <2>1. m_fp' = file /\ inFile' = 0 /\ f \in DOMAIN opened \cup {file}
      BY <1>5 DEF Open
    <2>2. CASE f \in DOMAIN opened
      <3>1. /\ total'[f] = total[f] /\ total[f] <= opened[f] * B
            /\ opened[f] \in Nat /\ opened[f] >= 1 /\ total[f] \in Nat
        BY <1>4, <1>5, <2>2 DEF Open
      <3>2. opened'[f] = IF f = file THEN opened[f] + 1 ELSE opened[f]
        BY <1>5, <2>2, <3>1 DEF Open
      <3>3. CASE f = file
        <4>1. opened'[f] = opened[f] + 1
          BY <3>2, <3>3
        <4>2. /\ (opened[f] + 1) * B = opened[f] * B + B
              /\ ((opened[f] + 1) - 1) * B = opened[f] * B
              /\ opened[f] * B \in Nat
          BY <1>1, <3>1, OnceMore
        <4>3. QED
          BY <1>1, <2>1, <3>1, <4>1, <4>2
      <3>4. CASE f # file
        BY <2>1, <3>1, <3>2, <3>4
      <3>5. QED
        BY <3>3, <3>4
    <2>3. CASE f \notin DOMAIN opened
      <3>1. f = file /\ total'[f] = 0 /\ opened'[f] = 1
        BY <1>5, <2>1, <2>3 DEF Open
      <3>2. 1 * B \in Nat /\ (1 - 1) * B = 0
        BY <1>1
      <3>3. QED
        BY <2>1, <3>1, <3>2
    <2>4. QED
      BY <2>2, <2>3
  <1>6. ASSUME NEW line, Puts(line), m_fp' = m_fp PROVE TotalInv'
    <2> SUFFICES ASSUME NEW f \in DOMAIN opened'
                 PROVE  /\ opened'[f] >= 1
                        /\ total'[f] <= opened'[f] * B
                        /\ f = m_fp' =>
                             total'[f] <= (opened'[f] - 1) * B + inFile'
      BY <1>2 DEF TotalInv, B
    <2>1. /\ opened' = opened /\ inFile' = inFile + 1
          /\ total' = [total EXCEPT ![m_fp] = @ + 1]
      BY <1>6 DEF Puts, openVars
    <2>2. /\ opened[f] \in Nat /\ opened[f] >= 1 /\ total[f] \in Nat
          /\ total[f] <= opened[f] * B
          /\ f = m_fp => total[f] <= (opened[f] - 1) * B + inFile
      BY <1>4, <2>1
    <2>3. CASE f = m_fp
      <3>1. total'[f] = total[f] + 1
        BY <1>3, <2>1, <2>3 DEF OpenTypes
      <3>2. opened[f] - 1 \in Nat /\ (opened[f] - 1) + 1 = opened[f]
        BY <2>2
      <3>3. ((opened[f] - 1) + 1) * B = (opened[f] - 1) * B + B
            /\ (opened[f] - 1) * B \in Nat
        BY <1>1, <3>2, OnceMore
      <3>4. total'[f] <= (opened[f] - 1) * B + inFile'
        BY <1>1, <2>1, <2>2, <2>3, <3>1, <3>3
      <3>5. inFile' <= B
        BY <1>1, <1>2
      <3>6. total'[f] <= opened[f] * B
        BY <1>1, <2>2, <3>1, <3>2, <3>3, <3>4, <3>5
      <3>7. QED
        BY <2>1, <2>2, <3>4, <3>6
    <2>4. CASE f # m_fp
      <3>1. total'[f] = total[f]
        BY <1>3, <2>1, <2>4 DEF OpenTypes
      <3>2. QED
        BY <1>6, <2>1, <2>2, <2>4, <3>1
    <2>5. QED
      BY <2>3, <2>4
  <1>7. CASE UNCHANGED <<m_fp, inFile, opened, total>>
    BY <1>2, <1>7 DEF TotalInv, B
  <1>8. QED
    BY <1>5, <1>6, <1>7
    DEF Next, WriteLog, Writer, Call, Count, TestFull, PushLine, PutsLine,
        WriterPop, WriterPuts, WriterWait, Midnight, vars, writeVars, fileVars

(* A file of the day that the count has not reached, and any file of a later *)
(* day, has been opened once less than the others may have been.             *)
NameInv ==
  /\ m_fp = <<m_fp[1], m_fp[2]>> /\ m_fp[1] = m_today
  /\ \A f \in DOMAIN opened :
       /\ f \in (0..MaxDay) \X Nat
       /\ opened[f] <= 1 + returns
       /\ f[1] > m_today => opened[f] <= returns
       /\ f[1] = m_today /\ f[2] > m_count \div m_split_lines
            => opened[f] <= returns

(* The quotient grows by one when the remainder returns to 0, and not else.  *)
LEMMA SplitNumber ==
  ASSUME NEW n \in Nat \ {0}, NEW x \in Nat
  PROVE  /\ x \div n \in Nat /\ (x + 1) \div n \in Nat
         /\ x \div n <= (x + 1) \div n
         /\ (x + 1) % n = 0 => x \div n < (x + 1) \div n
         /\ 0 \div n = 0
  BY SMTT(60)

(* A step that opens a file, and the others.                                 *)
LEMMA NameStep == LogInv /\ NameInv /\ [Next]_vars => NameInv'
  <1> SUFFICES ASSUME LogInv, NameInv, [Next]_vars PROVE NameInv'
    OBVIOUS
  <1>1. /\ m_count \in Nat /\ m_split_lines \in Nat \ {0}
        /\ m_today \in 0..MaxDay /\ MaxDay \in Nat /\ returns \in Nat
        /\ \A f \in DOMAIN opened : opened[f] \in Nat
    BY LogAssumption DEF LogInv, TypeOK
  <1>2. ASSUME NEW t \in Threads, Count(t) PROVE NameInv'
    <2>1. my_tm[t] \in 0..MaxDay
      BY DEF LogInv, TypeOK
    <2>2. CASE m_today # my_tm[t]
      <3> DEFINE file == <<my_tm[t], 0>>
      <3>1. /\ m_today' = my_tm[t] /\ m_count' = 0 /\ Open(file)
            /\ returns' = returns + (IF my_tm[t] < m_today THEN 1 ELSE 0)
        BY <1>2, <2>2 DEF Count
      <3>2. m_count' \div m_split_lines = 0
        BY <1>1, <3>1, SplitNumber
      <3>3. m_fp' = file /\ file \in (0..MaxDay) \X Nat
            /\ file[1] = my_tm[t] /\ file[2] = 0
        BY <2>1, <3>1 DEF Open
      <3>4. \A f \in DOMAIN opened' :
              /\ f \in (0..MaxDay) \X Nat
              /\ opened'[f] <= 1 + returns'
              /\ f[1] > m_today' => opened'[f] <= returns'
              /\ f[1] = m_today' /\ f[2] > 0 => opened'[f] <= returns'
        <4> SUFFICES ASSUME NEW f \in DOMAIN opened'
                     PROVE  /\ f \in (0..MaxDay) \X Nat
                            /\ opened'[f] <= 1 + returns'
                            /\ f[1] > m_today' => opened'[f] <= returns'
                            /\ f[1] = m_today' /\ f[2] > 0
                                 => opened'[f] <= returns'
          OBVIOUS
        <4>1. f \in DOMAIN opened \cup {file}
          BY <3>1 DEF Open
        <4>2. CASE f \notin DOMAIN opened
          <5>1. f = file /\ opened'[f] = 1
            BY <3>1, <4>1, <4>2 DEF Open
          <5>2. returns' \in Nat
            BY <1>1, <3>1
          <5>3. QED
            BY <2>1, <3>1, <3>3, <5>1, <5>2
        <4>3. CASE f \in DOMAIN opened
          <5>1. opened'[f] = IF f = file THEN opened[f] + 1 ELSE opened[f]
            BY <1>1, <3>1, <4>3 DEF Open
          <5>2. /\ f \in (0..MaxDay) \X Nat /\ opened[f] \in Nat
                /\ opened[f] <= 1 + returns
                /\ f[1] > m_today => opened[f] <= returns
            BY <1>1, <4>3 DEF NameInv
          <5>3. CASE my_tm[t] < m_today
            <6>1. returns' = returns + 1
              BY <3>1, <5>3
            <6>2. QED
              BY <1>1, <2>1, <3>1, <3>3, <5>1, <5>2, <6>1
          <5>4. CASE my_tm[t] > m_today
            <6>1. returns' = returns
              BY <1>1, <2>1, <3>1, <5>4
            <6>2. f[1] \in 0..MaxDay /\ f[2] \in Nat
              BY <5>2
            <6>3. f[1] >= my_tm[t] => f[1] > m_today
              BY <1>1, <2>1, <5>4, <6>2
            <6>4. QED
              BY <1>1, <2>1, <3>1, <3>3, <5>1, <5>2, <6>1, <6>2, <6>3
          <5>5. QED
            BY <1>1, <2>1, <2>2, <5>3, <5>4
        <4>4. QED
          BY <4>2, <4>3
      <3>5. QED
        BY <3>1, <3>2, <3>3, <3>4 DEF NameInv
    <2>3. CASE m_today = my_tm[t] /\ SplitDue(m_count + 1)
      <3> DEFINE number == (m_count + 1) \div m_split_lines
                 file == <<my_tm[t], number>>
      <3>1. /\ m_today' = m_today /\ m_count' = m_count + 1 /\ Open(file)
            /\ returns' = returns
        BY <1>2, <2>3 DEF Count
      <3>2. /\ number \in Nat /\ m_count \div m_split_lines \in Nat
            /\ m_count \div m_split_lines < number
        BY <1>1, <2>3, SplitNumber DEF SplitDue
      <3>3. m_count' \div m_split_lines = number
        BY <3>1
      <3> HIDE DEF number
      <3>4. m_fp' = file /\ file \in (0..MaxDay) \X Nat
            /\ file[1] = m_today /\ file[2] = number
        BY <2>1, <2>3, <3>1, <3>2 DEF Open
      <3>5. \A f \in DOMAIN opened' :
              /\ f \in (0..MaxDay) \X Nat
              /\ opened'[f] <= 1 + returns
              /\ f[1] > m_today => opened'[f] <= returns
              /\ f[1] = m_today /\ f[2] > number => opened'[f] <= returns
        <4> SUFFICES ASSUME NEW f \in DOMAIN opened'
                     PROVE  /\ f \in (0..MaxDay) \X Nat
                            /\ opened'[f] <= 1 + returns
                            /\ f[1] > m_today => opened'[f] <= returns
                            /\ f[1] = m_today /\ f[2] > number
                                 => opened'[f] <= returns
          OBVIOUS
        <4>1. f \in DOMAIN opened \cup {file}
          BY <3>1 DEF Open
        <4>2. CASE f \notin DOMAIN opened
          <5>1. f = file /\ opened'[f] = 1
            BY <3>1, <4>1, <4>2 DEF Open
          <5>2. QED
            BY <1>1, <3>2, <3>4, <5>1
        <4>3. CASE f \in DOMAIN opened
          <5>1. opened'[f] = IF f = file THEN opened[f] + 1 ELSE opened[f]
            BY <1>1, <3>1, <4>3 DEF Open
          <5>2. /\ f \in (0..MaxDay) \X Nat /\ opened[f] \in Nat
                /\ opened[f] <= 1 + returns
                /\ f[1] > m_today => opened[f] <= returns
                /\ f[1] = m_today /\ f[2] > m_count \div m_split_lines
                     => opened[f] <= returns
            BY <1>1, <4>3 DEF NameInv
          <5>3. f[1] \in Nat /\ f[2] \in Nat
            BY <5>2
          <5>4. f = file \/ f[2] > number
                => f[2] > m_count \div m_split_lines
            BY <3>2, <3>4, <5>3
          <5>5. QED
            BY <1>1, <3>2, <3>4, <5>1, <5>2, <5>3, <5>4
        <4>4. QED
          BY <4>2, <4>3
      <3>6. QED
        BY <3>1, <3>3, <3>4, <3>5 DEF NameInv
    <2>4. CASE m_today = my_tm[t] /\ ~SplitDue(m_count + 1)
      <3>1. /\ UNCHANGED <<m_today, m_fp, opened, returns>>
            /\ m_count' = m_count + 1
        BY <1>2, <2>4 DEF Count
      <3>2. /\ m_count \div m_split_lines \in Nat
            /\ m_count' \div m_split_lines \in Nat
            /\ m_count \div m_split_lines <= m_count' \div m_split_lines
        BY <1>1, <3>1, SplitNumber
      <3>3. \A f \in DOMAIN opened :
              f[2] > m_count' \div m_split_lines
              => f[2] > m_count \div m_split_lines
        <4>1. \A f \in DOMAIN opened : f[2] \in Nat
          BY DEF NameInv
        <4>2. QED
          BY <3>2, <4>1
      <3>4. QED
        BY <3>1, <3>3 DEF NameInv
    <2>5. QED
      BY <2>2, <2>3, <2>4
  <1>3. CASE UNCHANGED <<m_fp, m_today, m_count, opened, returns>>
    BY <1>3 DEF NameInv
  <1>4. QED
    BY <1>2, <1>3
    DEF Next, WriteLog, Writer, Call, TestFull, PushLine, PutsLine, Puts,
        WriterPop, WriterPuts, WriterWait, Midnight, vars, writeVars,
        fileVars, openVars

(* However often it is opened, a file gets at most PerOpening lines each     *)
(* time, and that is once, and once more for every thread that went back to  *)
(* an earlier day (write_log, async_write_log).                              *)
THEOREM FilesBounded == Spec => []SplitBound
  <1>1. Init => BoundInv /\ TotalInv /\ NameInv
    <2> SUFFICES ASSUME Init PROVE BoundInv /\ TotalInv /\ NameInv
      OBVIOUS
    <2>1. /\ inFile = 0 /\ m_count = 0 /\ m_size = 0 /\ Held = 0
          /\ Counted = {} /\ m_max_size \in Nat
      BY LogAssumption DEF Init, QueueInit, Held, Counted
    <2>2. Cardinality(Counted) = 0 /\ Since = 0
      BY <2>1, FS_EmptySet, SplitCount, LogAssumption DEF Since
    <2>3. Room \in Nat
      BY <2>1 DEF Room
    <2>4. BoundInv
      BY <2>1, <2>2, <2>3, CountedFinite DEF BoundInv, OnTheWay
    <2>5. PerOpening \in Nat
      BY <2>3, CountedFinite, LogAssumption DEF PerOpening
    <2>6. 1 * PerOpening \in Nat /\ (1 - 1) * PerOpening = 0
      BY <2>5
    <2>7. TotalInv
      BY <2>1, <2>6 DEF Init, TotalInv
    <2>8. NameInv
      BY <2>1, LogAssumption, SplitNumber DEF Init, NameInv
    <2>9. QED
      BY <2>4, <2>7, <2>8
  <1>2. TotalInv /\ NameInv => SplitBound
    BY DEF TotalInv, NameInv, SplitBound
  <1>3. QED
    BY <1>1, <1>2, BoundStep, TotalStep, NameStep, WayBound, LogInvariant,
       AsyncInvariant, PTL
    DEF Spec
=============================================================================
