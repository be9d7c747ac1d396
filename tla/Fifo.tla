-------------------------------- MODULE Fifo --------------------------------
(***************************************************************************)
(* What a block_queue promises (log/block_queue.h): a bounded queue, first *)
(* in, first out.                                                          *)
(***************************************************************************)
EXTENDS Naturals, Sequences

CONSTANT Items

VARIABLES
  queue,
  capacity,
  item        (* what was popped last                                        *)

vars == <<queue, capacity, item>>

Init == queue = <<>> /\ capacity \in Nat

Push(x) == /\ Len(queue) < capacity
           /\ queue' = Append(queue, x)
           /\ UNCHANGED <<capacity, item>>

Pop == /\ queue # <<>>
       /\ item' = Head(queue) /\ queue' = Tail(queue)
       /\ UNCHANGED capacity

Next == (\E x \in Items : Push(x)) \/ Pop

Spec == Init /\ [][Next]_vars
=============================================================================
