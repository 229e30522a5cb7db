---------------------------- MODULE MCLfRingFree ----------------------------
(***************************************************************************)
(* The free ring of a channel: lfring_init_full, then threads that each    *)
(* take a slot index (frontend_send, backend_forward_send) and put the     *)
(* same index back (the receive loops), all concurrently on one ring.      *)
(***************************************************************************)
EXTENDS LfRing, TLC

CONSTANT Rounds     \* number of lfring_dequeue calls each thread makes

VARIABLES
    rounds,         \* dequeue calls each thread has left
    emptySeen       \* history: the ring held no committed index at some
                    \* state of the thread's current dequeue

vars == <<ring, loc, rounds, emptySeen>>

Init ==
    /\ InitFull
    /\ InitLoc
    /\ rounds = [p \in Procs |-> Rounds]
    /\ emptySeen = [p \in Procs |-> FALSE]

(* idx = lfring_dequeue(fring, NETDOM_RING_ORDER, false) *)
TakeSlot(p) ==
    /\ rounds[p] > 0
    /\ StartDequeue(p)
    /\ rounds' = [rounds EXCEPT ![p] = @ - 1]

(* if (idx == LFRING_EMPTY) return *)
DropFrame(p) ==
    /\ loc[p].op = "deq" /\ loc[p].ret = EMPTY
    /\ Finish(p)
    /\ UNCHANGED rounds

(* lfring_enqueue(fring, NETDOM_RING_ORDER, idx, false) once the slot is  *)
(* consumed                                                                *)
GiveBack(p) ==
    /\ loc[p].pc = "done" /\ loc[p].op = "deq" /\ loc[p].ret \in Indices
    /\ loc' = [loc EXCEPT ![p] = [IdleLoc EXCEPT !.pc = "enq_faa", !.op = "enq",
                                                 !.arg = loc[p].ret]]
    /\ UNCHANGED <<ring, rounds>>

EnqueueReturned(p) ==
    /\ loc[p].op = "enq"
    /\ Finish(p)
    /\ UNCHANGED rounds

InDequeue(l) == l.op = "deq" /\ l.pc # "idle"

UpdateEmptySeen ==
    emptySeen' = [q \in Procs |->
                    /\ InDequeue(loc'[q])
                    /\ \/ InDequeue(loc[q]) /\ emptySeen[q]
                       \/ NothingCommitted']

Terminated ==
    /\ \A p \in Procs : loc[p].pc = "idle" /\ rounds[p] = 0
    /\ UNCHANGED vars

Next ==
    \/ \E p \in Procs :
         /\ \/ RingStep(p) /\ UNCHANGED rounds
            \/ TakeSlot(p) \/ DropFrame(p) \/ GiveBack(p) \/ EnqueueReturned(p)
         /\ UpdateEmptySeen
    \/ Terminated

Spec == Init /\ [][Next]_vars

(* The threads are interchangeable model values. *)
Symmetry == Permutations(Procs)

-----------------------------------------------------------------------------
(* Every slot index is in exactly one place at every instant: in one live *)
(* slot of the ring, or owned by exactly one thread (returned by its      *)
(* dequeue, or being enqueued and not yet CASed in).  A lost index shrinks *)
(* the channel for ever; a duplicated one lets two senders write the same *)
(* packet slot.                                                            *)
Holds(p, i) ==
    \/ Enqueuing(p, i)
    \/ loc[p].pc = "done" /\ loc[p].op = "deq" /\ loc[p].ret = i

IndexConservation ==
    \A i \in Indices :
        Cardinality({s \in Slots : ring.array[s].idx = i})
          + Cardinality({p \in Procs : Holds(p, i)}) = 1

(* No live entry is stranded: the ticket it was written at is either not  *)
(* yet handed out by the head fetch-and-add, or is held by a dequeuer     *)
(* that has not yet passed the slot.  This is what the IsSafe bit and the *)
(* head check of lfring_enqueue protect: an enqueue must never fill a     *)
(* slot that its dequeuer has already skipped.                             *)
NoStrandedEntry ==
    \A s \in Slots :
        Live(s) => \/ TicketDiff(TicketOf(s), ring.head) >= 0
                   \/ \E p \in Procs : Claims(p, TicketOf(s))

(* lfring_dequeue returns LFRING_EMPTY only if, at some instant during    *)
(* the call, every live index was still owned by an enqueue or dequeue in *)
(* progress: the threshold short-cut and the catch-up path never report   *)
(* an empty ring that holds a committed index.                            *)
EmptyJustified ==
    \A p \in Procs :
        (loc[p].pc = "done" /\ loc[p].op = "deq" /\ loc[p].ret = EMPTY)
            => emptySeen[p]
=============================================================================
