---------------------------- MODULE AbstractQueue ----------------------------
(***************************************************************************)
(* What an unbounded multi-producer, multi-consumer FIFO queue promises:   *)
(* each operation takes effect at one instant; an enqueue appends its      *)
(* object, a dequeue removes the oldest one and returns it.  A dequeue     *)
(* that finds the queue empty does not change it.  `out' is the sequence  *)
(* of objects dequeued so far, in the order they were dequeued.            *)
(***************************************************************************)
EXTENDS Sequences

CONSTANT Objects

VARIABLES queue, out

Init == queue = <<>> /\ out = <<>>

Enqueue(o) ==
    /\ queue' = Append(queue, o)
    /\ UNCHANGED out

Dequeue ==
    /\ queue # <<>>
    /\ queue' = Tail(queue)
    /\ out' = Append(out, Head(queue))

Next == (\E o \in Objects : Enqueue(o)) \/ Dequeue

Spec == Init /\ [][Next]_<<queue, out>>
=============================================================================
