-------------------------------- MODULE Log --------------------------------
(***************************************************************************)
(* The log (log/log.cpp, log.h): write_log by any number of threads, into  *)
(* the queue or the file, and the thread that takes lines from the queue   *)
(* and writes them.  max_queue_size is 0 for a log without a queue.  Files *)
(* change every m_split_lines lines, and at midnight.                      *)
(*                                                                         *)
(* A critical section of m_mutex is one step.  The second one of write_log *)
(* formats the line in m_buf and copies it from there: no other touches    *)
(* m_buf, so it is not a step here.  Files can be opened and written.      *)
(***************************************************************************)
EXTENDS BlockQueue, Functions, FiniteSets

CONSTANTS
  Threads,        (* those that call write_log                               *)
  MaxLines,       (* bound: the calls                                        *)
  MaxDay,         (* bound: the days                                         *)
  m_split_lines

ASSUME LogAssumption ==
  /\ MaxLines \in Nat /\ MaxDay \in Nat
  /\ IsFiniteSet(Threads)
  /\ QueueSizes \subseteq Nat
  /\ Items = 1..MaxLines
  /\ m_split_lines \in Nat \ {0}

VARIABLES
  lstep,          (* where each thread is in write_log                       *)
  log_str,        (* its line; 0 if it has none                              *)
  my_tm,          (* the day it has read from the clock                      *)
  day,            (* the clock                                               *)
  m_count, m_today,
  m_fp,           (* the file: its day, and the number after its name or 0   *)
  holds,          (* the writer has popped a line and not yet written it     *)
  written,        (* the lines in the files, in the order they were written  *)
  inFile,         (* history: how many since the file was opened             *)
  opened,         (* history: how often each file has been opened            *)
  total,          (* history: the lines in each file                         *)
  returns,        (* history: how often a thread went back to an earlier day *)
  calls,          (* history: who logged each line; they are numbered        *)
  direct,         (* history: lines that were written without the queue      *)
  dropped         (* history: lines that push has refused                    *)

fileVars  == <<m_count, m_today, m_fp>>
openVars  == <<opened, returns>>
writeVars == <<written, inFile, opened, total, returns, direct>>
vars == <<queueVars, lstep, log_str, my_tm, day, fileVars, holds, writeVars,
          calls, dropped>>

m_is_async == m_max_size >= 1

TypeOK ==
  /\ QueueTypeOK
  /\ lstep \in [Threads -> {"out", "count", "full", "push", "puts"}]
  /\ log_str \in [Threads -> 0..MaxLines]
  /\ my_tm \in [Threads -> 0..MaxDay]
  /\ day \in 0..MaxDay /\ m_today \in 0..MaxDay
  /\ m_count \in Nat
  /\ m_fp \in (0..MaxDay) \X Nat
  /\ holds \in BOOLEAN
  /\ written \in Seq(Items) /\ inFile \in Nat
  /\ DOMAIN total = DOMAIN opened /\ m_fp \in DOMAIN opened
  /\ \A f \in DOMAIN opened : opened[f] \in Nat /\ total[f] \in Nat
  /\ returns \in Nat
  /\ calls \in Seq(Threads) /\ Len(calls) <= MaxLines
  /\ direct \subseteq Items
  /\ dropped \subseteq Items

Init ==
  /\ QueueInit
  /\ lstep = [t \in Threads |-> "out"]
  /\ log_str = [t \in Threads |-> 0]
  /\ my_tm = [t \in Threads |-> 0]
  /\ day = 0 /\ m_today = 0 /\ m_count = 0 /\ m_fp = <<0, 0>>
  /\ holds = FALSE
  /\ written = <<>> /\ direct = {}
  /\ inFile = 0 /\ returns = 0
  /\ opened = [f \in {m_fp} |-> 1] /\ total = [f \in {m_fp} |-> 0]
  /\ calls = <<>> /\ dropped = {}

Midnight ==
  /\ day < MaxDay /\ day' = day + 1
  /\ UNCHANGED <<queueVars, lstep, log_str, my_tm, fileVars, holds, writeVars,
                 calls, dropped>>

-----------------------------------------------------------------------------
(* write_log.                                                                *)

Goto(t, s) == lstep' = [lstep EXCEPT ![t] = s]
Return(t) == Goto(t, "out") /\ log_str' = [log_str EXCEPT ![t] = 0]

(* gettimeofday, localtime                                                   *)
Call(t) ==
  /\ lstep[t] = "out" /\ Len(calls) < MaxLines
  /\ calls' = Append(calls, t)
  /\ log_str' = [log_str EXCEPT ![t] = Len(calls')]
  /\ my_tm' = [my_tm EXCEPT ![t] = day]
  /\ Goto(t, "count")
  /\ UNCHANGED <<queueVars, day, fileVars, holds, writeVars, dropped>>

(* Faulty variant of SplitDue: files are never split.                        *)
SplitDueNever(n) == FALSE

SplitDue(n) == n % m_split_lines = 0

(* fopen for appending: the file may be there with lines in it.              *)
Open(file) ==
  /\ m_fp' = file /\ inFile' = 0
  /\ opened' = [f \in DOMAIN opened \cup {file} |->
                  (IF f \in DOMAIN opened THEN opened[f] ELSE 0)
                  + (IF f = file THEN 1 ELSE 0)]
  /\ total' = [f \in DOMAIN opened \cup {file} |->
                 IF f \in DOMAIN opened THEN total[f] ELSE 0]

(* The first critical section: the line is counted, and may open a file; a   *)
(* thread that read the clock before midnight goes back to the old day.      *)
Count(t) ==
  /\ lstep[t] = "count"
  /\ \/ /\ m_today # my_tm[t]
        /\ m_today' = my_tm[t] /\ m_count' = 0 /\ Open(<<my_tm[t], 0>>)
        /\ returns' = returns + (IF my_tm[t] < m_today THEN 1 ELSE 0)
     \/ /\ m_today = my_tm[t] /\ SplitDue(m_count + 1)
        /\ m_count' = m_count + 1
        /\ Open(<<my_tm[t], (m_count + 1) \div m_split_lines>>)
        /\ UNCHANGED <<m_today, returns>>
     \/ /\ m_today = my_tm[t] /\ ~SplitDue(m_count + 1)
        /\ m_count' = m_count + 1
        /\ UNCHANGED <<m_today, m_fp, inFile, opened, total, returns>>
  /\ Goto(t, "full")
  /\ UNCHANGED <<queueVars, log_str, my_tm, day, holds, written, calls, direct,
                 dropped>>

(* m_is_async && !full(); the queue may fill up before the push.             *)
TestFull(t) ==
  /\ lstep[t] = "full"
  /\ Goto(t, IF m_is_async /\ ~Full THEN "push" ELSE "puts")
  /\ UNCHANGED <<queueVars, log_str, my_tm, day, fileVars, holds, writeVars,
                 calls, dropped>>

(* Nobody looks at what push returns: a line it refuses is gone.             *)
PushLine(t) ==
  /\ lstep[t] = "push"
  /\ \/ Push(log_str[t]) /\ UNCHANGED dropped
     \/ PushFull /\ dropped' = dropped \cup {log_str[t]}
  /\ Return(t)
  /\ UNCHANGED <<my_tm, day, fileVars, holds, writeVars, calls>>

(* fputs: to the file that is open now.                                      *)
Puts(line) ==
  /\ written' = Append(written, line)
  /\ inFile' = inFile + 1 /\ total' = [total EXCEPT ![m_fp] = @ + 1]
  /\ UNCHANGED openVars

PutsLine(t) ==
  /\ lstep[t] = "puts"
  /\ Puts(log_str[t])
  /\ direct' = direct \cup {log_str[t]}
  /\ Return(t)
  /\ UNCHANGED <<queueVars, my_tm, day, fileVars, holds, calls, dropped>>

-----------------------------------------------------------------------------
(* async_write_log.                                                          *)

WriterPop ==
  /\ m_is_async /\ ~holds
  /\ Pop /\ holds' = TRUE
  /\ UNCHANGED <<lstep, log_str, my_tm, day, fileVars, writeVars, calls, dropped>>

WriterWait ==
  /\ m_is_async /\ ~holds
  /\ Sleep \/ SpuriousWakeup
  /\ UNCHANGED <<lstep, log_str, my_tm, day, fileVars, holds, writeVars, calls,
                 dropped>>

WriterPuts ==
  /\ holds /\ holds' = FALSE
  /\ Puts(item)
  /\ UNCHANGED <<queueVars, lstep, log_str, my_tm, day, fileVars, direct, calls,
                 dropped>>

Writer == WriterPop \/ WriterPuts

WriteLog(t) == Count(t) \/ TestFull(t) \/ PushLine(t) \/ PutsLine(t)

Next == \/ \E t \in Threads : Call(t) \/ WriteLog(t)
        \/ Writer \/ WriterWait \/ Midnight

(* The threads run.                                                          *)
Spec == Init /\ [][Next]_vars
             /\ (\A t \in Threads : WF_vars(WriteLog(t))) /\ WF_vars(Writer)

-----------------------------------------------------------------------------
(* Where a line that was logged may be.                                      *)
InCall   == {log_str[t] : t \in Threads} \ {0}
InQueue  == Range(Contents)
InWriter == IF holds THEN {item} ELSE {}

(* Every line is in one place: with its caller, in the queue, with the       *)
(* writer, or in a file, once; only a push on a queue that has filled up     *)
(* since full() was asked loses it, and then there were two threads.         *)
EachLineInOnePlace ==
  /\ 1..Len(calls) = InCall \cup InQueue \cup InWriter \cup Range(written)
                     \cup dropped
  /\ Len(calls) = Cardinality(InCall) + m_size + Cardinality(InWriter)
                  + Len(written) + Cardinality(dropped)
  /\ dropped # {} => m_is_async /\ Cardinality(Range(calls)) > 1

(* A thread's lines are written in the order it logged them, but for a line  *)
(* that went past a full queue: it overtakes those in the queue.             *)
OnlyDirectOvertakes ==
  \A i, k \in DOMAIN written :
    /\ i < k /\ calls[written[i]] = calls[written[k]]
    /\ written[i] > written[k]
    => written[i] \in direct /\ written[k] \notin direct

(* What is counted, carried by a thread, queued or held by the writer when a *)
(* file is opened may still go into it.                                      *)
Room == IF m_is_async THEN m_max_size + 1 ELSE 0
PerOpening == (m_split_lines - 1) + Cardinality(Threads) + Room

(* How long a file may grow: each time it is opened by the lines counted     *)
(* until the next one is, and those that were on their way; and it is opened *)
(* again only when a late thread has gone back to an earlier day, which      *)
(* takes the count of the new day, and the names of its files, back to 0.    *)
SplitBound ==
  \A f \in DOMAIN opened :
    /\ total[f] <= opened[f] * PerOpening
    /\ opened[f] <= 1 + returns

Ring == INSTANCE Fifo WITH queue <- Contents, capacity <- m_max_size

(* The ring of block_queue, with its m_front and m_back, is a bounded FIFO.  *)
QueueIsFifo == Ring!Spec

(* Every line that is logged gets to a file, or is refused by push.          *)
EveryLineSettles ==
  \A l \in Items : Len(calls) >= l ~> l \in Range(written) \cup dropped
=============================================================================
