----------------------------- MODULE MCLfQueue -----------------------------
(***************************************************************************)
(* Threads that each run a script of lfqueue_enqueue and lfqueue_dequeue   *)
(* calls on one queue.  A thread owns a pool of free nodes: an enqueue     *)
(* hands one of them to the queue with a fresh object, and the node a      *)
(* dequeue returns (the old sentinel) goes back to the caller's pool, so   *)
(* nodes are reused while other threads may still hold stale pointers to  *)
(* them: the situation the stamps are there for.                           *)
(***************************************************************************)
EXTENDS LfQueue, FiniteSets, TLC

CONSTANTS
    Script,         \* [Procs -> Seq({"enq", "deq"})]
    FirstPool       \* [Procs -> SUBSET Nodes]: each thread's own nodes

VARIABLES
    pool,           \* each thread's free nodes
    opIdx,          \* the index in Script of each thread's current call
    outLog,         \* the objects dequeued so far, in dequeue order
    emptySeen       \* whether the queue was empty at some instant of the
                    \* thread's current dequeue

vars == <<mem, obj, loc, pool, opIdx, outLog, emptySeen>>

(* The object of a thread's k-th call *)
Objects == Procs \X (1 .. 4)

Init ==
    /\ InitQueue
    /\ InitLoc
    /\ pool = FirstPool
    /\ opIdx = [p \in Procs |-> 1]
    /\ outLog = <<>>
    /\ emptySeen = [p \in Procs |-> FALSE]

Pending(p) == opIdx[p] <= Len(Script[p])

Invoke(p) ==
    /\ Pending(p)
    /\ IF Script[p][opIdx[p]] = "enq"
       THEN IF pool[p] = {}
            THEN \* nothing to enqueue: the call is skipped
                 /\ loc[p].pc = "idle"
                 /\ opIdx' = [opIdx EXCEPT ![p] = @ + 1]
                 /\ UNCHANGED <<mem, obj, loc, pool>>
            ELSE \E n \in pool[p] :
                 /\ StartEnqueue(p, n, <<p, opIdx[p]>>)
                 /\ pool' = [pool EXCEPT ![p] = @ \ {n}]
                 /\ UNCHANGED opIdx
       ELSE /\ StartDequeue(p)
            /\ UNCHANGED <<pool, opIdx>>
    /\ emptySeen' = [emptySeen EXCEPT ![p] = Content = <<>>]
    /\ UNCHANGED outLog

Return(p) ==
    /\ Finish(p)
    /\ pool' = IF loc[p].op = "deq" /\ loc[p].ret # Null
               THEN [pool EXCEPT ![p] = @ \cup {loc[p].ret}] ELSE pool
    /\ opIdx' = [opIdx EXCEPT ![p] = @ + 1]
    /\ UNCHANGED <<outLog, emptySeen>>

(* A step of the algorithm; the successful head CAS is the instant the    *)
(* object read before it leaves the queue.                                 *)
Run(p) ==
    /\ Step(p)
    /\ outLog' = IF loc[p].pc = "d_cas" /\ loc'[p].pc = "d_store"
                 THEN Append(outLog, loc[p].object) ELSE outLog
    /\ emptySeen' = [q \in Procs |-> emptySeen[q] \/ (loc[q].op = "deq" /\ Content' = <<>>)]
    /\ UNCHANGED <<pool, opIdx>>

Thread(p) == Invoke(p) \/ Run(p) \/ Return(p)

AllDone == \A p \in Procs : ~Pending(p)

Next ==
    \/ \E p \in Procs : Thread(p)
    \/ AllDone /\ UNCHANGED vars

(* Every thread keeps running: lfqueue has no blocking step. *)
Spec == Init /\ [][Next]_vars /\ \A p \in Procs : WF_vars(Thread(p))

-----------------------------------------------------------------------------
Stamps == Nat

TypeOK ==
    /\ mem \in [Words -> [stamp : Stamps, value : Nodes \cup {Null}]]
    /\ mem[HEAD].value \in Nodes /\ mem[TAIL].value \in Nodes
    /\ obj \in [Nodes -> Objects \cup {NoObj}]
    /\ pool \in [Procs -> SUBSET Nodes]

(* The nodes the queue holds: the sentinel and those linked after it *)
Queued == {mem[HEAD].value} \cup {QueueNodes[i] : i \in 1 .. Len(QueueNodes)}

(* Program counters of lfqueue_enqueue before its node is linked *)
BeforeLink == {"e_sv_stamp", "e_sv_value", "e_lt_stamp", "e_lt_value", "e_ln_stamp",
               "e_ln_value", "e_help", "e_reload", "e_reload_value", "e_link"}

(* The nodes thread p owns: its pool, the node it is enqueueing before the *)
(* link CAS, and the node a finished dequeue returned.                     *)
Owned(p) ==
    pool[p]
    \cup (IF loc[p].op = "enq" /\ loc[p].pc \in BeforeLink THEN {loc[p].node} ELSE {})
    \cup (IF loc[p].op = "deq" /\ loc[p].pc = "done" /\ loc[p].ret # Null
          THEN {loc[p].ret} ELSE {})

(* A node is in at most one place: no node a thread owns (and may reset   *)
(* with __lfaba_store_value or refill) is still in the queue or owned by   *)
(* another thread, and queue->tail never points outside the queue: the     *)
(* reuse of nodes by lfqueue callers is safe.                              *)
NodesExclusive ==
    /\ mem[TAIL].value \in Queued
    /\ \A p \in Procs : Owned(p) \cap Queued = {}
    /\ \A p, q \in Procs : p # q => Owned(p) \cap Owned(q) = {}

(* lfqueue_dequeue returns NULL only if the queue was empty at some        *)
(* instant during that call, although it read head, tail and next in      *)
(* separate split loads.                                                   *)
EmptyJustified ==
    \A p \in Procs : loc[p].op = "deq" /\ loc[p].pc = "done" /\ loc[p].ret = Null
                     => emptySeen[p]

(* The queue is linearizable: the objects linked after the sentinel form  *)
(* an abstract FIFO queue whose enqueue is the successful link CAS of      *)
(* lfqueue_enqueue and whose dequeue is the successful head CAS of         *)
(* lfqueue_dequeue, which returns the object at the front.                 *)
AQ == INSTANCE AbstractQueue WITH queue <- Content, out <- outLog

Linearizable == AQ!Spec

(* lfqueue is lock-free: with every thread scheduled, every call of every  *)
(* script returns, despite the retry loops of both operations.             *)
AllComplete == <>AllDone

-----------------------------------------------------------------------------
(* The bounds of MCLfQueue.cfg *)
CONSTANTS p1, p2

MCScript == (p1 :> <<"enq", "deq", "enq", "deq">>) @@ (p2 :> <<"deq", "enq", "deq">>)

MCFirstPool == (p1 :> {1}) @@ (p2 :> {2})
=============================================================================
