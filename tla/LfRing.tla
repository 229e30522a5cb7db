------------------------------- MODULE LfRing -------------------------------
(***************************************************************************)
(* The SCQ index ring of src/include/bmk-core/lfring.h.                    *)
(*                                                                         *)
(* Every atomic access of lfring_enqueue, lfring_dequeue and               *)
(* __lfring_catchup is one step of the thread that performs it; the local  *)
(* computation between two atomic accesses is folded into the step before *)
(* it.  The packed machine word of a slot is kept as a record of its three *)
(* fields: the cycle (the bits above 2n-1), the IsSafe bit (bit n) and the *)
(* index (the bits below n, all ones = Bot).  Counters are Width-bit       *)
(* words compared by the sign of their difference, as __lfring_cmp does;  *)
(* a cycle is the field of (t << 1) above bit log2(2n), so it wraps at    *)
(* half the counter range.  The runs start a few tickets before the wrap, *)
(* from the state that Start sequential round trips leave behind.         *)
(*                                                                         *)
(* Only nonempty = false is modelled: it is the only value the network     *)
(* code passes.  A weak CAS that fails spuriously reloads the same value   *)
(* and retries, which adds no behaviour, so CASes fail only on a mismatch. *)
(*                                                                         *)
(* The module is a library of actions on the variables ring and loc; a     *)
(* client (an MC module or the channel) starts operations with             *)
(* StartEnqueue/StartDequeue and reads the result when loc[p].pc = "done".*)
(***************************************************************************)
EXTENDS Integers, FiniteSets

CONSTANTS
    Order,      \* the ring order: 2^Order indices in 2^(Order+1) slots
    LfringMin,  \* LFRING_MIN, the order under which slots are spread
    Procs,      \* the threads that call the ring
    Bot,        \* the all-ones index field of an empty slot
    EMPTY,      \* LFRING_EMPTY, returned when no index is available
    Width,      \* LFATOMIC_WIDTH, the bits of lfatomic_t
    Start       \* sequential round trips made before the threads start

ASSUME Order \in Nat /\ LfringMin \in 0 .. Order
       /\ Width \in Nat /\ Width > Order + 2 /\ Start \in Nat

VARIABLES
    ring,       \* [head, tail, threshold, array] of struct __lfring
    loc         \* the locals of each thread inside an operation

Half == 2 ^ Order               \* lfring_pow2(order)
N == 2 * Half                   \* n = lfring_pow2(order + 1)
Indices == 0 .. Half - 1
Slots == 0 .. N - 1
Threshold3 == Half + N - 1      \* __lfring_threshold3(half, n)

(* __lfring_raw_map: the low (order - LFRING_MIN) bits of idx move above   *)
(* the high LFRING_MIN bits.  The two shifted parts occupy disjoint bits,  *)
(* so their | is a sum.                                                    *)
RawMap(idx, ord, n) ==
    IF LfringMin = 0 THEN idx % n
    ELSE ((idx % n) \div 2 ^ (ord - LfringMin)) + ((idx * 2 ^ LfringMin) % n)

Map(idx) == RawMap(idx, Order + 1, N)      \* __lfring_map
MapInv(s) == CHOOSE k \in Slots : Map(k) = s

Word == 2 ^ Width                           \* lfatomic_t wraps at Word

(* (lfsatomic_t) (x - y): the difference of two words read as signed. *)
SDiff(x, y) ==
    LET d == (x - y) % Word IN IF d >= Word \div 2 THEN d - Word ELSE d

Inc(x) == (x + 1) % Word

(* The cycle field of (t << 1) | (2n - 1): the bits of 2t from log2(2n)   *)
(* up, in a Width-bit word.                                                 *)
CycMod == Word \div (2 * N)
Cycle(t) == (t \div N) % CycMod

(* __lfring_cmp(ecycle, op, tcycle): the low 2n - 1 bits of both are ones *)
(* and cancel, so the sign is that of the cycle difference times 2n.      *)
CycDiff(c, d) == SDiff(c * 2 * N, d * 2 * N)

Entry(c, safe, i) == [cycle |-> c, safe |-> safe, idx |-> i]
AllOnes == Entry(CycMod - 1, TRUE, Bot)     \* (lfsatomic_t) -1

EnqPcs == {"enq_faa", "enq_load", "enq_head", "enq_cas", "enq_thr", "enq_store"}
DeqPcs == {"deq_thr", "deq_faa", "deq_load", "deq_or", "deq_cas", "deq_tail",
           "cu_cas", "cu_head", "cu_tail", "deq_dec_empty", "deq_dec"}

IdleLoc == [pc |-> "idle", op |-> "none", arg |-> Bot, t |-> 0,
            e |-> AllOnes, lt |-> 0, lh |-> 0, ret |-> EMPTY]

-----------------------------------------------------------------------------
(* Initialisation                                                          *)

(* The last ticket that used slot s when the tickets below lim have been *)
(* handed out, or -1.                                                      *)
LastTicket(s, lim) ==
    LET r == MapInv(s) IN IF lim <= r THEN -1 ELSE r + ((lim - 1 - r) \div N) * N

(* lfring_init_empty, then Start sequential pairs of lfring_enqueue and   *)
(* lfring_dequeue: ticket t of both went to slot map(t), which the         *)
(* dequeue's fetch_or left empty with the cycle and IsSafe the enqueue     *)
(* wrote; the enqueue stored threshold3 and no dequeue decremented it.     *)
InitEmpty ==
    ring = [head |-> Start % Word, tail |-> Start % Word,
            threshold |-> IF Start = 0 THEN -1 ELSE Threshold3,
            array |-> [s \in Slots |->
                         LET t == LastTicket(s, Start) IN
                         IF t < 0 THEN AllOnes ELSE Entry(Cycle(t), TRUE, Bot)]]

(* lfring_init_full: slot map(i) of the first half holds raw_map(n + i,   *)
(* order, half), a value below half: cycle 0, IsSafe clear, and the index *)
(* raw_map(i) of the half-sized permutation.  Then Start sequential pairs *)
(* of lfring_dequeue and lfring_enqueue of the index it returned: ticket  *)
(* t holds the index first placed at ticket t % half, IsSafe set if an    *)
(* enqueue wrote it; the tickets below head were emptied by fetch_or.     *)
InitIndex(k) == RawMap(N + k, Order, Half)

InitFull ==
    ring = [head |-> Start % Word, tail |-> (Start + Half) % Word,
            threshold |-> Threshold3,
            array |-> [s \in Slots |->
                         LET t == LastTicket(s, Start + Half) IN
                         IF t < 0 THEN AllOnes
                         ELSE Entry(Cycle(t), t >= Half,
                                    IF t >= Start THEN InitIndex(t % Half) ELSE Bot)]]

InitLoc == loc = [p \in Procs |-> IdleLoc]

-----------------------------------------------------------------------------
(* Operations as seen by a caller                                          *)

StartEnqueue(p, i) ==
    /\ loc[p].pc = "idle"
    /\ loc' = [loc EXCEPT ![p] = [IdleLoc EXCEPT !.pc = "enq_faa", !.op = "enq",
                                                 !.arg = i]]
    /\ UNCHANGED ring

StartDequeue(p) ==
    /\ loc[p].pc = "idle"
    /\ loc' = [loc EXCEPT ![p] = [IdleLoc EXCEPT !.pc = "deq_thr", !.op = "deq"]]
    /\ UNCHANGED ring

Finish(p) ==
    /\ loc[p].pc = "done"
    /\ loc' = [loc EXCEPT ![p] = IdleLoc]
    /\ UNCHANGED ring

Goto(p, pc) == loc' = [loc EXCEPT ![p].pc = pc]
Return(p, v) == loc' = [loc EXCEPT ![p].pc = "done", ![p].ret = v]
SetArray(s, v) == ring' = [ring EXCEPT !.array[s] = v]

-----------------------------------------------------------------------------
(* lfring_enqueue(ring, order, eidx, false)                                *)

(* Mutant: the test accepts an occupied slot of an older cycle (the       *)
(* entry == ecycle comparison dropped).                                    *)
EnqDecideAnySlot(e, t) ==
    IF CycDiff(e.cycle, Cycle(t)) < 0
    THEN IF e.safe THEN "enq_cas" ELSE "enq_head"
    ELSE "enq_faa"

(* The test at the retry label: the slot's cycle is older than the        *)
(* ticket's and the slot is empty; a safe empty slot is taken at once, an *)
(* unsafe one only after head is seen not to have passed the ticket.      *)
EnqDecide(e, t) ==
    IF CycDiff(e.cycle, Cycle(t)) < 0 /\ e.idx = Bot
    THEN IF e.safe THEN "enq_cas" ELSE "enq_head"
    ELSE "enq_faa"

(* tail = atomic_fetch_add(&q->tail, 1) *)
EnqFetchTail(p) ==
    /\ loc[p].pc = "enq_faa"
    /\ ring' = [ring EXCEPT !.tail = Inc(@)]
    /\ loc' = [loc EXCEPT ![p].pc = "enq_load", ![p].t = ring.tail]

(* entry = atomic_load(&q->array[tidx]) *)
EnqLoadEntry(p) ==
    /\ loc[p].pc = "enq_load"
    /\ LET e == ring.array[Map(loc[p].t)]
       IN loc' = [loc EXCEPT ![p].e = e, ![p].pc = EnqDecide(e, loc[p].t)]
    /\ UNCHANGED ring

(* Mutant: an unsafe slot is taken without reading head. *)
EnqLoadHeadSkipped(p) ==
    /\ loc[p].pc = "enq_head"
    /\ Goto(p, "enq_cas")
    /\ UNCHANGED ring

(* __lfring_cmp(atomic_load(&q->head), <=, tail) *)
EnqLoadHead(p) ==
    /\ loc[p].pc = "enq_head"
    /\ Goto(p, IF SDiff(ring.head, loc[p].t) <= 0 THEN "enq_cas" ELSE "enq_faa")
    /\ UNCHANGED ring

(* Mutant: a failed CAS does not refresh entry, so it retries with the   *)
(* stale expected value.                                                   *)
EnqCasStaleEntry(p) ==
    /\ loc[p].pc = "enq_cas"
    /\ LET s == Map(loc[p].t)
       IN IF ring.array[s] = loc[p].e
          THEN /\ SetArray(s, Entry(Cycle(loc[p].t), TRUE, loc[p].arg))
               /\ Goto(p, "enq_thr")
          ELSE UNCHANGED <<ring, loc>>

(* Mutant: eidx ^= (n - 1) left out, so the slot holds the complement of  *)
(* the index.                                                              *)
EnqCasNoXor(p) ==
    /\ loc[p].pc = "enq_cas"
    /\ LET s == Map(loc[p].t)
           cur == ring.array[s]
       IN IF cur = loc[p].e
          THEN /\ SetArray(s, Entry(Cycle(loc[p].t), TRUE, N - 1 - loc[p].arg))
               /\ Goto(p, "enq_thr")
          ELSE /\ loc' = [loc EXCEPT ![p].e = cur,
                                     ![p].pc = EnqDecide(cur, loc[p].t)]
               /\ UNCHANGED ring

(* atomic_compare_exchange(&q->array[tidx], &entry, tcycle ^ eidx): the   *)
(* new entry has the ticket's cycle, IsSafe set and the index; a failed   *)
(* CAS reloads entry and goes back to the retry label.                     *)
EnqCas(p) ==
    /\ loc[p].pc = "enq_cas"
    /\ LET s == Map(loc[p].t)
           cur == ring.array[s]
       IN IF cur = loc[p].e
          THEN /\ SetArray(s, Entry(Cycle(loc[p].t), TRUE, loc[p].arg))
               /\ Goto(p, "enq_thr")
          ELSE /\ loc' = [loc EXCEPT ![p].e = cur,
                                     ![p].pc = EnqDecide(cur, loc[p].t)]
               /\ UNCHANGED ring

(* atomic_load(&q->threshold) != __lfring_threshold3(half, n) *)
EnqLoadThreshold(p) ==
    /\ loc[p].pc = "enq_thr"
    /\ IF ring.threshold # Threshold3 THEN Goto(p, "enq_store")
                                      ELSE Goto(p, "done")
    /\ UNCHANGED ring

(* atomic_store(&q->threshold, __lfring_threshold3(half, n)); return true *)
EnqStoreThreshold(p) ==
    /\ loc[p].pc = "enq_store"
    /\ ring' = [ring EXCEPT !.threshold = Threshold3]
    /\ Goto(p, "done")

-----------------------------------------------------------------------------
(* lfring_dequeue(ring, order, false)                                      *)

(* Mutant: the cycles compared as plain integers. *)
DeqDecideUnsigned(e, h) ==
    CASE e.cycle = Cycle(h)          -> "deq_or"
      [] e.idx # Bot /\ ~e.safe      -> "deq_tail"
      [] e.cycle < Cycle(h)          -> "deq_cas"
      [] OTHER                       -> "deq_tail"

(* The body of the do-while loop on entry: a slot of the head's cycle is  *)
(* consumed; an occupied slot of another cycle that is already unsafe     *)
(* breaks out; otherwise the slot is CASed only while its cycle is older. *)
DeqDecide(e, h) ==
    CASE e.cycle = Cycle(h)          -> "deq_or"
      [] e.idx # Bot /\ ~e.safe      -> "deq_tail"
      [] CycDiff(e.cycle, Cycle(h)) < 0 -> "deq_cas"
      [] OTHER                       -> "deq_tail"

(* entry_new: an occupied slot loses IsSafe (entry & ~n); an empty one is *)
(* moved to the head's cycle keeping IsSafe (hcycle ^ (~entry & n)).      *)
DeqNew(e, h) ==
    IF e.idx # Bot THEN [e EXCEPT !.safe = FALSE]
                   ELSE Entry(Cycle(h), e.safe, Bot)

(* if (atomic_load(&q->threshold) < 0) return LFRING_EMPTY *)
DeqLoadThreshold(p) ==
    /\ loc[p].pc = "deq_thr"
    /\ IF ring.threshold < 0 THEN Return(p, EMPTY) ELSE Goto(p, "deq_faa")
    /\ UNCHANGED ring

(* head = atomic_fetch_add(&q->head, 1) *)
DeqFetchHead(p) ==
    /\ loc[p].pc = "deq_faa"
    /\ ring' = [ring EXCEPT !.head = Inc(@)]
    /\ loc' = [loc EXCEPT ![p].pc = "deq_load", ![p].t = ring.head]

(* entry = atomic_load(&q->array[hidx]) *)
DeqLoadEntry(p) ==
    /\ loc[p].pc = "deq_load"
    /\ LET e == ring.array[Map(loc[p].t)]
       IN loc' = [loc EXCEPT ![p].e = e, ![p].pc = DeqDecide(e, loc[p].t)]
    /\ UNCHANGED ring

(* atomic_fetch_or(&q->array[hidx], n - 1); return entry & (n - 1): the   *)
(* OR empties whatever the slot holds now, the result is the loaded index.*)
DeqFetchOr(p) ==
    /\ loc[p].pc = "deq_or"
    /\ LET s == Map(loc[p].t)
       IN SetArray(s, [ring.array[s] EXCEPT !.idx = Bot])
    /\ Return(p, loc[p].e.idx)

(* atomic_compare_exchange(&q->array[hidx], &entry, entry_new) *)
DeqCas(p) ==
    /\ loc[p].pc = "deq_cas"
    /\ LET s == Map(loc[p].t)
           cur == ring.array[s]
       IN IF cur = loc[p].e
          THEN /\ SetArray(s, DeqNew(cur, loc[p].t))
               /\ Goto(p, "deq_tail")
          ELSE /\ loc' = [loc EXCEPT ![p].e = cur,
                                     ![p].pc = DeqDecide(cur, loc[p].t)]
               /\ UNCHANGED ring

(* Mutant: the catch-up test tail <= head + 1 written as tail <= head + 2. *)
DeqLoadTailOffByOne(p) ==
    /\ loc[p].pc = "deq_tail"
    /\ IF SDiff(ring.tail, (loc[p].t + 2) % Word) <= 0
       THEN loc' = [loc EXCEPT ![p].pc = "cu_cas", ![p].lt = ring.tail,
                               ![p].lh = Inc(loc[p].t)]
       ELSE Goto(p, "deq_dec")
    /\ UNCHANGED ring

(* tail = atomic_load(&q->tail); if (tail <= head + 1) catch up *)
DeqLoadTail(p) ==
    /\ loc[p].pc = "deq_tail"
    /\ IF SDiff(ring.tail, Inc(loc[p].t)) <= 0
       THEN loc' = [loc EXCEPT ![p].pc = "cu_cas", ![p].lt = ring.tail,
                               ![p].lh = Inc(loc[p].t)]
       ELSE Goto(p, "deq_dec")
    /\ UNCHANGED ring

(* __lfring_catchup: CAS(&q->tail, &tail, head); a failure stores the     *)
(* current tail into the local tail.                                       *)
CatchupCas(p) ==
    /\ loc[p].pc = "cu_cas"
    /\ IF ring.tail = loc[p].lt
       THEN /\ ring' = [ring EXCEPT !.tail = loc[p].lh]
            /\ Goto(p, "deq_dec_empty")
       ELSE /\ loc' = [loc EXCEPT ![p].lt = ring.tail, ![p].pc = "cu_head"]
            /\ UNCHANGED ring

(* head = atomic_load(&q->head) *)
CatchupLoadHead(p) ==
    /\ loc[p].pc = "cu_head"
    /\ loc' = [loc EXCEPT ![p].lh = ring.head, ![p].pc = "cu_tail"]
    /\ UNCHANGED ring

(* tail = atomic_load(&q->tail); if (tail >= head) break *)
CatchupLoadTail(p) ==
    /\ loc[p].pc = "cu_tail"
    /\ loc' = [loc EXCEPT ![p].lt = ring.tail,
                          ![p].pc = IF SDiff(ring.tail, loc[p].lh) >= 0 THEN "deq_dec_empty"
                                                             ELSE "cu_cas"]
    /\ UNCHANGED ring

(* atomic_fetch_sub(&q->threshold, 1); return LFRING_EMPTY *)
DeqDecEmpty(p) ==
    /\ loc[p].pc = "deq_dec_empty"
    /\ ring' = [ring EXCEPT !.threshold = @ - 1]
    /\ Return(p, EMPTY)

(* if (atomic_fetch_sub(&q->threshold, 1) <= 0) return LFRING_EMPTY *)
DeqDec(p) ==
    /\ loc[p].pc = "deq_dec"
    /\ ring' = [ring EXCEPT !.threshold = @ - 1]
    /\ IF ring.threshold <= 0 THEN Return(p, EMPTY) ELSE Goto(p, "deq_faa")

-----------------------------------------------------------------------------
(* One atomic step of thread p inside an operation. *)
RingStep(p) ==
    \/ EnqFetchTail(p) \/ EnqLoadEntry(p) \/ EnqLoadHead(p) \/ EnqCas(p)
    \/ EnqLoadThreshold(p) \/ EnqStoreThreshold(p)
    \/ DeqLoadThreshold(p) \/ DeqFetchHead(p) \/ DeqLoadEntry(p)
    \/ DeqFetchOr(p) \/ DeqCas(p) \/ DeqLoadTail(p)
    \/ CatchupCas(p) \/ CatchupLoadHead(p) \/ CatchupLoadTail(p)
    \/ DeqDecEmpty(p) \/ DeqDec(p)

Busy(p) == loc[p].pc \in EnqPcs \cup DeqPcs

-----------------------------------------------------------------------------
(* State predicates used by the properties of the clients.                 *)

Words == 0 .. Word - 1

EntryType == [cycle : 0 .. CycMod - 1, safe : BOOLEAN, idx : Indices \cup {Bot}]

TypeOK ==
    /\ ring \in [head : Words, tail : Words, threshold : Int,
                 array : [Slots -> EntryType]]
    /\ loc \in [Procs -> [pc : EnqPcs \cup DeqPcs \cup {"idle", "done"},
                          op : {"none", "enq", "deq"},
                          arg : Indices \cup {Bot}, t : Words, e : EntryType,
                          lt : Words, lh : Words,
                          ret : Indices \cup {Bot, EMPTY}]]

(* A slot holds a live index. *)
Live(s) == ring.array[s].idx # Bot

(* The ticket at which the entry of slot s was written, modulo half the   *)
(* counter range: the cycle keeps no more of it.                           *)
TicketOf(s) == ring.array[s].cycle * N + MapInv(s)

(* The signed distance of ticket x from counter y, modulo half the range. *)
TicketDiff(x, y) == SDiff(2 * x, 2 * y) \div 2

(* Thread p owns ticket t on the dequeue side and has not yet passed it. *)
Claims(p, t) ==
    loc[p].pc \in {"deq_load", "deq_cas", "deq_or"} /\ TicketDiff(t, loc[p].t) = 0

(* An enqueuer whose CAS has not yet succeeded still owns its index. *)
Enqueuing(p, i) ==
    loc[p].pc \in {"enq_faa", "enq_load", "enq_head", "enq_cas"} /\ loc[p].arg = i

(* An index that a completed enqueue placed and whose ticket no dequeue   *)
(* in progress holds: a dequeue that overlaps the enqueue, or that holds  *)
(* the ticket, may be ordered before the one that sees the ring empty.    *)
Committed(i) ==
    \E s \in Slots :
        /\ ring.array[s].idx = i
        /\ ~\E q \in Procs : loc[q].pc \in {"enq_thr", "enq_store"} /\ loc[q].arg = i
        /\ ~\E q \in Procs : Claims(q, TicketOf(s))

NothingCommitted == \A i \in Indices : ~Committed(i)
=============================================================================
