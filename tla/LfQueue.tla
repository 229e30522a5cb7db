------------------------------ MODULE LfQueue ------------------------------
(***************************************************************************)
(* The ABA-safe Michael-Scott queue of lfqueue.h over the atomic pair of   *)
(* lf/gcc_x86.h and lf/c11.h, with mark = false.                           *)
(*                                                                         *)
(* Each atomic word is a (stamp, value) pair.  __lfaba_load and            *)
(* __lfaba_reload read the stamp and then the value in two separate        *)
(* atomic loads (__LFABA_LOAD_SPLIT on x86), so a thread can see a stamp   *)
(* and a value of two different versions; __lfaba_store_value increments   *)
(* the stamp and then stores the value; __lfaba_cmpxchg_* compares and     *)
(* swaps both halves at once (cmpxchg16b).  One action is one of these     *)
(* atomic accesses.                                                        *)
(*                                                                         *)
(* Pointers are node numbers; __LFQ_NULL, the pointer -1, has the low      *)
(* __LFQ_CNT bit set and is modelled as -1: a value below zero is one with *)
(* that bit set.                                                           *)
(***************************************************************************)
EXTENDS Integers, Sequences

CONSTANTS
    Procs,          \* threads calling lfqueue_enqueue and lfqueue_dequeue
    NumNodes,       \* nodes 0 .. NumNodes - 1; node 0 is the first sentinel
    NoObj           \* the object field of a node no one has filled

Nodes == 0 .. NumNodes - 1
Null == -1                  \* __LFQ_NULL
HEAD == -2                  \* queue->head
TAIL == -3                  \* queue->tail
Words == {HEAD, TAIL} \cup Nodes     \* the atomic pairs; node n is n->next

(* (unsigned long) value & __LFQ_CNT *)
IsCnt(v) == v < 0

Pair(s, v) == [stamp |-> s, value |-> v]

VARIABLES
    mem,            \* [Words -> Pair]: the atomic pairs
    obj,            \* [Nodes -> objects]: the plain object fields
    loc             \* each thread's program counter and locals

IdleLoc == [pc |-> "idle", op |-> "none", node |-> Null, t |-> Pair(0, Null),
            h |-> Pair(0, Null), nx |-> Pair(0, Null), object |-> NoObj,
            ret |-> Null]

(* lfqueue_init(queue, node 0) *)
InitQueue ==
    /\ mem = [w \in Words |-> IF w \in {HEAD, TAIL} THEN Pair(0, 0) ELSE Pair(0, Null)]
    /\ obj = [n \in Nodes |-> NoObj]

InitLoc == loc = [p \in Procs |-> IdleLoc]

Goto(p, pc) == loc' = [loc EXCEPT ![p].pc = pc]

(* The caller owns node, has set node->object and calls                   *)
(* lfqueue_enqueue(queue, node, false).                                    *)
StartEnqueue(p, n, o) ==
    /\ loc[p].pc = "idle"
    /\ obj' = [obj EXCEPT ![n] = o]
    /\ loc' = [loc EXCEPT ![p] = [IdleLoc EXCEPT !.pc = "e_sv_stamp", !.op = "enq",
                                                 !.node = n]]
    /\ UNCHANGED mem

(* lfqueue_dequeue(queue, false) *)
StartDequeue(p) ==
    /\ loc[p].pc = "idle"
    /\ loc' = [loc EXCEPT ![p] = [IdleLoc EXCEPT !.pc = "d_lh_stamp", !.op = "deq"]]
    /\ UNCHANGED <<mem, obj>>

Finish(p) ==
    /\ loc[p].pc = "done"
    /\ loc' = [loc EXCEPT ![p] = IdleLoc]
    /\ UNCHANGED <<mem, obj>>

-----------------------------------------------------------------------------
(* lfqueue_enqueue                                                         *)

(* __lfaba_store_value(&node->next, __LFQ_NULL): the stamp first ...       *)
EnqStampNext(p) ==
    LET n == loc[p].node IN
    /\ loc[p].pc = "e_sv_stamp"
    /\ mem' = [mem EXCEPT ![n].stamp = @ + 1]
    /\ Goto(p, "e_sv_value")
    /\ UNCHANGED obj

(* ... only then the value.                                                *)
EnqStoreNext(p) ==
    LET n == loc[p].node IN
    /\ loc[p].pc = "e_sv_value"
    /\ mem' = [mem EXCEPT ![n].value = Null]
    /\ Goto(p, "e_lt_stamp")
    /\ UNCHANGED obj

(* tail = __lfaba_load(&queue->tail): stamp, then value *)
EnqLoadTailStamp(p) ==
    /\ loc[p].pc = "e_lt_stamp"
    /\ loc' = [loc EXCEPT ![p].t.stamp = mem[TAIL].stamp, ![p].pc = "e_lt_value"]
    /\ UNCHANGED <<mem, obj>>

EnqLoadTailValue(p) ==
    /\ loc[p].pc = "e_lt_value"
    /\ loc' = [loc EXCEPT ![p].t.value = mem[TAIL].value, ![p].pc = "e_ln_stamp"]
    /\ UNCHANGED <<mem, obj>>

(* curr = tail.value; next = __lfaba_load(&curr->next) *)
EnqLoadNextStamp(p) ==
    /\ loc[p].pc = "e_ln_stamp"
    /\ loc' = [loc EXCEPT ![p].nx.stamp = mem[loc[p].t.value].stamp,
                          ![p].pc = "e_ln_value"]
    /\ UNCHANGED <<mem, obj>>

(* Top of the inner loop: a next without the __LFQ_CNT bit means the tail *)
(* lags and is helped forward; otherwise the tail is re-validated.         *)
EnqDecideNoCnt(v) == "e_help"

EnqDecide(v) == IF ~IsCnt(v) THEN "e_help" ELSE "e_reload"

EnqLoadNextValue(p) ==
    LET v == mem[loc[p].t.value].value IN
    /\ loc[p].pc = "e_ln_value"
    /\ loc' = [loc EXCEPT ![p].nx.value = v, ![p].pc = EnqDecide(v)]
    /\ UNCHANGED <<mem, obj>>

EnqHelpTailKeep(p) ==
    LET l == loc[p]
        new == Pair(l.t.stamp + 1, l.nx.value) IN
    /\ l.pc = "e_help"
    /\ IF mem[TAIL] = l.t
       THEN /\ mem' = [mem EXCEPT ![TAIL] = new]
            /\ loc' = [loc EXCEPT ![p].t = new, ![p].pc = "e_ln_stamp"]
       ELSE /\ loc' = [loc EXCEPT ![p].pc = "e_ln_stamp"]
            /\ UNCHANGED mem
    /\ UNCHANGED obj

(* cmpxchg(&queue->tail, &tail, {next.value, tail.stamp + 1}); on success  *)
(* tail = value, on failure tail holds what was there; break.              *)
EnqHelpTail(p) ==
    LET l == loc[p]
        new == Pair(l.t.stamp + 1, l.nx.value) IN
    /\ l.pc = "e_help"
    /\ IF mem[TAIL] = l.t
       THEN /\ mem' = [mem EXCEPT ![TAIL] = new]
            /\ loc' = [loc EXCEPT ![p].t = new, ![p].pc = "e_ln_stamp"]
       ELSE /\ loc' = [loc EXCEPT ![p].t = mem[TAIL], ![p].pc = "e_ln_stamp"]
            /\ UNCHANGED mem
    /\ UNCHANGED obj

(* __lfaba_reload(&queue->tail, &tail): the stamp; if unchanged the tail  *)
(* is still current, else the value is loaded too and the loop restarts.  *)
EnqReloadStamp(p) ==
    LET s == mem[TAIL].stamp IN
    /\ loc[p].pc = "e_reload"
    /\ IF s = loc[p].t.stamp
       THEN Goto(p, "e_link")
       ELSE loc' = [loc EXCEPT ![p].t.stamp = s, ![p].pc = "e_reload_value"]
    /\ UNCHANGED <<mem, obj>>

EnqReloadValue(p) ==
    /\ loc[p].pc = "e_reload_value"
    /\ loc' = [loc EXCEPT ![p].t.value = mem[TAIL].value, ![p].pc = "e_ln_stamp"]
    /\ UNCHANGED <<mem, obj>>

(* cmpxchg(&curr->next, &next, {node, next.stamp + 1}) with curr =         *)
(* tail.value; on failure next holds what was there and the inner loop    *)
(* decides again.                                                          *)
EnqLink(p) ==
    LET l == loc[p]
        w == l.t.value IN
    /\ l.pc = "e_link"
    /\ IF mem[w] = l.nx
       THEN /\ mem' = [mem EXCEPT ![w] = Pair(l.nx.stamp + 1, l.node)]
            /\ Goto(p, "e_swing")
       ELSE /\ loc' = [loc EXCEPT ![p].nx = mem[w], ![p].pc = EnqDecide(mem[w].value)]
            /\ UNCHANGED mem
    /\ UNCHANGED obj

(* cmpxchg(&queue->tail, &tail, {node, tail.stamp + 1}), result ignored;   *)
(* return true.                                                             *)
EnqSwingTail(p) ==
    LET l == loc[p] IN
    /\ l.pc = "e_swing"
    /\ mem' = IF mem[TAIL] = l.t THEN [mem EXCEPT ![TAIL] = Pair(l.t.stamp + 1, l.node)]
                                 ELSE mem
    /\ loc' = [loc EXCEPT ![p].ret = 1, ![p].pc = "done"]
    /\ UNCHANGED obj

-----------------------------------------------------------------------------
(* lfqueue_dequeue                                                         *)

(* head = __lfaba_load(&queue->head): stamp, then value *)
DeqLoadHeadStamp(p) ==
    /\ loc[p].pc = "d_lh_stamp"
    /\ loc' = [loc EXCEPT ![p].h.stamp = mem[HEAD].stamp, ![p].pc = "d_lh_value"]
    /\ UNCHANGED <<mem, obj>>

DeqLoadHeadValue(p) ==
    /\ loc[p].pc = "d_lh_value"
    /\ loc' = [loc EXCEPT ![p].h.value = mem[HEAD].value, ![p].pc = "d_lt_stamp"]
    /\ UNCHANGED <<mem, obj>>

(* Top of the loop: tail = __lfaba_load(&queue->tail) *)
DeqLoadTailStamp(p) ==
    /\ loc[p].pc = "d_lt_stamp"
    /\ loc' = [loc EXCEPT ![p].t.stamp = mem[TAIL].stamp, ![p].pc = "d_lt_value"]
    /\ UNCHANGED <<mem, obj>>

DeqLoadTailValue(p) ==
    /\ loc[p].pc = "d_lt_value"
    /\ loc' = [loc EXCEPT ![p].t.value = mem[TAIL].value, ![p].pc = "d_ln_stamp"]
    /\ UNCHANGED <<mem, obj>>

(* curr = head.value; next = __lfaba_load(&curr->next) *)
DeqLoadNextStamp(p) ==
    /\ loc[p].pc = "d_ln_stamp"
    /\ loc' = [loc EXCEPT ![p].nx.stamp = mem[loc[p].h.value].stamp,
                          ![p].pc = "d_ln_value"]
    /\ UNCHANGED <<mem, obj>>

DeqLoadNextValue(p) ==
    /\ loc[p].pc = "d_ln_value"
    /\ loc' = [loc EXCEPT ![p].nx.value = mem[loc[p].h.value].value,
                          ![p].pc = "d_reload"]
    /\ UNCHANGED <<mem, obj>>

(* After a successful reload of the head, with mark = false: a next with  *)
(* the __LFQ_CNT bit means the queue is empty and NULL is returned; a      *)
(* head equal to the tail means the tail lags and is swung first.          *)
DeqDecide(l) ==
    IF IsCnt(l.nx.value) THEN [l EXCEPT !.ret = Null, !.pc = "done"]
    ELSE IF l.h.value = l.t.value THEN [l EXCEPT !.pc = "d_swing"]
    ELSE [l EXCEPT !.pc = "d_object"]

DeqReloadNoCheck(p) ==
    /\ loc[p].pc = "d_reload"
    /\ loc' = [loc EXCEPT ![p] = DeqDecide(@)]
    /\ UNCHANGED <<mem, obj>>

(* repeat: __lfaba_reload(&queue->head, &head): the stamp; if it changed, *)
(* the value too, and the loop restarts.                                   *)
DeqReloadStamp(p) ==
    LET s == mem[HEAD].stamp IN
    /\ loc[p].pc = "d_reload"
    /\ loc' = [loc EXCEPT ![p] = IF s = @.h.stamp THEN DeqDecide(@)
                                 ELSE [@ EXCEPT !.h.stamp = s, !.pc = "d_reload_value"]]
    /\ UNCHANGED <<mem, obj>>

DeqReloadValue(p) ==
    /\ loc[p].pc = "d_reload_value"
    /\ loc' = [loc EXCEPT ![p].h.value = mem[HEAD].value, ![p].pc = "d_lt_stamp"]
    /\ UNCHANGED <<mem, obj>>

(* __lfaba_cmpxchg_strong(&queue->tail, &tail, {next.value,               *)
(* tail.stamp + 1}), result ignored.                                       *)
DeqSwingTail(p) ==
    LET l == loc[p] IN
    /\ l.pc = "d_swing"
    /\ mem' = IF mem[TAIL] = l.t THEN [mem EXCEPT ![TAIL] = Pair(l.t.stamp + 1, l.nx.value)]
                                 ELSE mem
    /\ loc' = [loc EXCEPT ![p].t = mem[TAIL], ![p].pc = "d_object"]
    /\ UNCHANGED obj

DeqReadObjectSentinel(p) ==
    /\ loc[p].pc = "d_object"
    /\ loc' = [loc EXCEPT ![p].object = obj[loc[p].h.value], ![p].pc = "d_cas"]
    /\ UNCHANGED <<mem, obj>>

(* object = curr->object with curr = next.value: a plain read of a node   *)
(* that another thread may already have dequeued and reused.               *)
DeqReadObject(p) ==
    /\ loc[p].pc = "d_object"
    /\ loc' = [loc EXCEPT ![p].object = obj[loc[p].nx.value], ![p].pc = "d_cas"]
    /\ UNCHANGED <<mem, obj>>

(* cmpxchg(&queue->head, &head, {next.value, head.stamp + 1}); on failure *)
(* head holds what was there and the loop restarts.                        *)
DeqCasHead(p) ==
    LET l == loc[p] IN
    /\ l.pc = "d_cas"
    /\ IF mem[HEAD] = l.h
       THEN /\ mem' = [mem EXCEPT ![HEAD] = Pair(l.h.stamp + 1, l.nx.value)]
            /\ Goto(p, "d_store")
       ELSE /\ loc' = [loc EXCEPT ![p].h = mem[HEAD], ![p].pc = "d_lt_stamp"]
            /\ UNCHANGED mem
    /\ UNCHANGED obj

DeqStoreObjectNext(p) ==
    LET l == loc[p] IN
    /\ l.pc = "d_store"
    /\ obj' = [obj EXCEPT ![l.nx.value] = l.object]
    /\ loc' = [loc EXCEPT ![p].ret = l.nx.value, ![p].pc = "done"]
    /\ UNCHANGED mem

(* curr = head.value (the old sentinel); curr->object = object; return    *)
(* curr: the caller now owns the old sentinel node.                        *)
DeqStoreObject(p) ==
    LET l == loc[p] IN
    /\ l.pc = "d_store"
    /\ obj' = [obj EXCEPT ![l.h.value] = l.object]
    /\ loc' = [loc EXCEPT ![p].ret = l.h.value, ![p].pc = "done"]
    /\ UNCHANGED mem

(* One atomic step of thread p inside lfqueue_enqueue or lfqueue_dequeue *)
Step(p) ==
    \/ EnqStampNext(p) \/ EnqStoreNext(p) \/ EnqLoadTailStamp(p)
    \/ EnqLoadTailValue(p) \/ EnqLoadNextStamp(p) \/ EnqLoadNextValue(p)
    \/ EnqHelpTail(p) \/ EnqReloadStamp(p) \/ EnqReloadValue(p)
    \/ EnqLink(p) \/ EnqSwingTail(p)
    \/ DeqLoadHeadStamp(p) \/ DeqLoadHeadValue(p) \/ DeqLoadTailStamp(p)
    \/ DeqLoadTailValue(p) \/ DeqLoadNextStamp(p) \/ DeqLoadNextValue(p)
    \/ DeqReloadStamp(p) \/ DeqReloadValue(p) \/ DeqSwingTail(p)
    \/ DeqReadObject(p) \/ DeqCasHead(p) \/ DeqStoreObject(p)

-----------------------------------------------------------------------------
(* The list the queue holds: the nodes reachable from the sentinel        *)
(* queue->head through next pointers without the __LFQ_CNT bit, at most   *)
(* NumNodes of them.                                                       *)
RECURSIVE ChainFrom(_, _)
ChainFrom(n, k) ==
    IF k = 0 \/ IsCnt(mem[n].value) THEN <<>>
    ELSE <<mem[n].value>> \o ChainFrom(mem[n].value, k - 1)

QueueNodes == ChainFrom(mem[HEAD].value, NumNodes)

(* The objects of the queue, oldest first *)
Content == [i \in 1 .. Len(QueueNodes) |-> obj[QueueNodes[i]]]
=============================================================================
