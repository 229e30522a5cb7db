---------------------------- MODULE MCLfRingFifo ----------------------------
(***************************************************************************)
(* The allocated ring of a channel: lfring_init_empty, then senders that   *)
(* each enqueue the slot indices of their frames in order                 *)
(* (frontend_send, backend_forward_send) and one receive loop that polls  *)
(* lfring_dequeue without end (frontend_receiver, backend_forward_receiver)*)
(***************************************************************************)
EXTENDS LfRing, SequencesExt, TLC

CONSTANTS
    P1, P2,         \* the two sending threads
    Consumer,       \* the receiving thread
    Polls           \* bound on the dequeue calls of the receive loop,
                    \* 0 for none

ASSUME Polls \in Nat

Producers == {P1, P2}

(* Sender k enqueues the indices congruent to k modulo 2, ascending; the  *)
(* second sender stops after one, which keeps the state space in reach.   *)
Stride(k) == [j \in 1 .. Half \div 2 |-> 2 * (j - 1) + k]

(* The indices each sender enqueues, in order; disjoint, as the free ring  *)
(* hands every index to one sender at a time.                              *)
Plan == [p \in Procs |-> CASE p = P1 -> Stride(0)
                           [] p = P2 -> SubSeq(Stride(1), 1, 1)
                           [] OTHER  -> <<>>]

Total == Len(Plan[P1]) + Len(Plan[P2])

VARIABLES
    sent,           \* number of enqueue calls each sender has started
    received,       \* the indices the receive loop got, in order
    emptySeen,      \* history: no committed index during the current dequeue
    polls           \* dequeue calls the receive loop has made

vars == <<ring, loc, sent, received, emptySeen, polls>>

Init ==
    /\ InitEmpty
    /\ InitLoc
    /\ sent = [p \in Procs |-> 0]
    /\ received = <<>>
    /\ emptySeen = FALSE
    /\ polls = 0

(* lfring_enqueue(aring, NETDOM_RING_ORDER, idx, false) *)
Send(p) ==
    /\ p \in Producers
    /\ sent[p] < Len(Plan[p])
    /\ StartEnqueue(p, Plan[p][sent[p] + 1])
    /\ sent' = [sent EXCEPT ![p] = @ + 1]
    /\ UNCHANGED <<received, polls>>

SendDone(p) ==
    /\ p \in Producers /\ Finish(p)
    /\ UNCHANGED <<sent, received, polls>>

(* idx = lfring_dequeue(aring, NETDOM_RING_ORDER, false) in the poll loop *)
Poll ==
    /\ Polls = 0 \/ polls < Polls
    /\ StartDequeue(Consumer)
    /\ polls' = IF Polls = 0 THEN polls ELSE polls + 1
    /\ UNCHANGED <<sent, received>>

(* a frame is taken: the index is consumed *)
Receive ==
    /\ loc[Consumer].ret \in Indices
    /\ Finish(Consumer)
    /\ received' = Append(received, loc[Consumer].ret)
    /\ UNCHANGED <<sent, polls>>

(* LFRING_EMPTY: the loop polls again *)
PollEmpty ==
    /\ loc[Consumer].ret = EMPTY
    /\ Finish(Consumer)
    /\ UNCHANGED <<sent, received, polls>>

InDequeue(l) == l.op = "deq" /\ l.pc # "idle"

UpdateEmptySeen ==
    emptySeen' = /\ InDequeue(loc'[Consumer])
                 /\ \/ InDequeue(loc[Consumer]) /\ emptySeen
                    \/ NothingCommitted'

Step(p) ==
    \/ RingStep(p) /\ UNCHANGED <<sent, received, polls>>
    \/ Send(p) \/ SendDone(p)
    \/ p = Consumer /\ (Poll \/ Receive \/ PollEmpty)

(* With a bound on the polls, the harness stops once every thread is idle *)
(* and the receive loop has used its polls.                                *)
Stopped ==
    /\ Polls # 0 /\ polls = Polls
    /\ \A p \in Procs : loc[p].pc = "idle"
    /\ \A p \in Producers : sent[p] = Len(Plan[p])
    /\ UNCHANGED vars

Next ==
    \/ \E p \in Procs : Step(p) /\ UpdateEmptySeen
    \/ Stopped

(* Each thread runs on its own virtual CPU and is never descheduled for   *)
(* good inside a ring operation.                                           *)
Spec == Init /\ [][Next]_vars /\ \A p \in Procs : WF_vars(Step(p) /\ UpdateEmptySeen)

-----------------------------------------------------------------------------
(* The receiver gets the frames of each sender in the order the sender    *)
(* enqueued them, none twice: the ring is FIFO per producer even when the *)
(* enqueues of two senders and the dequeues interleave at every atomic     *)
(* step.                                                                   *)
PerProducerFifo ==
    \A p \in Producers :
        IsPrefix(SelectSeq(received, LAMBDA i : i \in Range(Plan[p])), Plan[p])

(* The receive loop sees LFRING_EMPTY only if at some instant during that *)
(* dequeue no index was committed to the ring.                             *)
EmptyJustified == loc[Consumer].ret = EMPTY /\ loc[Consumer].pc = "done" => emptySeen

(* Every frame sent is eventually received by the polling loop: no index  *)
(* is stranded behind the head, and the threshold never keeps the         *)
(* receiver out of a ring that holds an index.                             *)
AllDelivered == <>(Len(received) = Total)
=============================================================================
