------------------------------- MODULE Channel ------------------------------
(***************************************************************************)
(* One direction of a shared-memory channel between the network domain    *)
(* and an application domain (src/platform/hw/xen): the senders of one     *)
(* side (backend_forward_send), the receive loop of the other side         *)
(* (frontend_receiver) with its readers flag, the event-channel interrupt *)
(* that wakes it (frontend_interrupt_handler), the block callback          *)
(* (receiver_callback), session tear-down (frontend_terminate,             *)
(* frontend_join), and reconnection: the network domain crashes and        *)
(* restarts, frontend_reconnecter builds a new ring pair and points        *)
(* rx_fring at it, and the restarted backend maps the new pair            *)
(* (backend_connect).  The opposite direction (frontend_send,              *)
(* backend_forward_receiver) is the same protocol without tear-down.       *)
(*                                                                         *)
(* Each ring pair is a generation g: fring[g] its free ring and aring[g]   *)
(* its allocated ring, both sequences of slot indices in ring order, with *)
(* one atomic step per ring operation; LfRing and its harnesses check the  *)
(* ring algorithm itself.  rx is the generation rx_fring points to, which  *)
(* the receive loop reads anew at every ring access, as the code does.     *)
(* Frame contents, lengths and the copy into the slot are left out: only   *)
(* which slot index is where matters.                                      *)
(*                                                                         *)
(* The scheduler (bmk_sched_*, not in this repository) is modelled from    *)
(* its interface: bmk_sched_blockprepare clears the thread's wake token,  *)
(* bmk_sched_wake sets it, bmk_sched_block switches away unless the token *)
(* is set and runs the block callback once the thread is off the CPU, and *)
(* the thread runs again once the token is set.  Threads of a domain are   *)
(* switched only where they yield, block or wait for the rump kernel       *)
(* (hyp_schedule and KERNEL_LOCK in rump_virtif_pktdeliver), so the        *)
(* reconnecter's pass is one step, and it can fall between the receive    *)
(* loop's dequeue and its enqueue, but within no step of it.               *)
(***************************************************************************)
EXTENDS Integers, Sequences, SequencesExt, FiniteSets

CONSTANTS
    Senders,    \* the threads that send on the channel
    SlotIdx,    \* the slot indices of the channel buffer
    Frames,     \* frames each sender sends
    FailLimit,  \* empty polls before the receiver sleeps (256 in the code)
    MaxRestarts \* crashes of the network domain

ASSUME Frames \in Nat /\ FailLimit \in Nat \ {0} /\ SlotIdx \subseteq Nat \ {0}
ASSUME MaxRestarts \in Nat

Gens == 0 .. MaxRestarts
Dead == -1      \* no live backend maps a ring pair

VARIABLES
    fring,      \* [Gens -> Seq(SlotIdx)]: the free ring of each pair
    aring,      \* [Gens -> Seq(SlotIdx)]: the allocated ring of each pair
    readers,    \* [Gens -> {-1, 0, 1}]: aring->readers of each pair
    rx,         \* the generation rx_fring points to
    pending,    \* the event channel of the receiving side is pending
    terminating,\* frontend_terminating
    rpc,        \* where the receive loop is
    fails,      \* its count of empty polls
    held,       \* the index the receive loop is delivering
    hgen,       \* the generation it dequeued that index from (history)
    token,      \* the receive thread's wake token
    delivered,  \* number of frames the receive loop delivered
    spc,        \* where each sender is
    sidx,       \* the index each sender holds
    sent,       \* frames each sender has handed to the channel or dropped
    bgen,       \* the generation the live backend maps, or Dead
    restarts,   \* crashes of the network domain so far
    apc         \* where the thread tearing the session down is

vars == <<fring, aring, readers, rx, pending, terminating, rpc, fails, held, hgen,
          token, delivered, spc, sidx, sent, bgen, restarts, apc>>

recv == <<rpc, fails, held, hgen, token, delivered>>
send == <<spc, sidx, sent>>
link == <<rx, bgen, restarts>>

NoIdx == 0      \* no index held (slot indices are positive)

(* lfring_init_full: every index, in ascending order *)
FullRing == SetToSortSeq(SlotIdx, <)

(* frontend_init_ring: atomic_init(&aring->readers, 0) *)
FreshReaders == 0

(* frontend_init: the first pair built (free ring full, allocated ring    *)
(* empty, readers 0) and mapped by the backend; the receiver thread       *)
(* created and not yet run.                                                *)
Init ==
    /\ fring = [g \in Gens |-> FullRing]
    /\ aring = [g \in Gens |-> <<>>]
    /\ readers = [g \in Gens |-> FreshReaders]
    /\ rx = 0 /\ bgen = 0 /\ restarts = 0
    /\ pending = FALSE
    /\ terminating = FALSE
    /\ rpc = "start" /\ fails = 0 /\ held = NoIdx /\ hgen = 0 /\ token = TRUE
    /\ delivered = 0
    /\ spc = [s \in Senders |-> "idle"]
    /\ sidx = [s \in Senders |-> NoIdx]
    /\ sent = [s \in Senders |-> 0]
    /\ apc = "run"

(* bmk_sched_wake(rx_thread) *)
Wake == token' = TRUE

-----------------------------------------------------------------------------
(* frontend_receiver                                                       *)

(* if (atomic_load(&frontend_terminating)) return; then                    *)
(* atomic_store(&NETDOM_ARING(rx_fring)->readers, 1), fails = 0            *)
RecvStart ==
    /\ rpc = "start"
    /\ IF terminating
       THEN rpc' = "exited" /\ UNCHANGED readers
       ELSE rpc' = "poll" /\ readers' = [readers EXCEPT ![rx] = 1]
    /\ UNCHANGED <<fails, held, hgen, token, delivered>>
    /\ UNCHANGED <<fring, aring, pending, terminating, send, link, apc>>

(* Take the head of the current allocated ring for delivery. *)
TakeHead ==
    /\ held' = Head(aring[rx]) /\ hgen' = rx
    /\ aring' = [aring EXCEPT ![rx] = Tail(@)]
    /\ rpc' = "deliver" /\ fails' = 0

(* Mutant: fails++ < 256 in place of ++fails < 256. *)
RecvPollPostIncrement ==
    /\ rpc = "poll"
    /\ IF aring[rx] # <<>>
       THEN TakeHead
       ELSE /\ fails' = fails + 1
            /\ rpc' = IF fails < FailLimit THEN "poll" ELSE "store"
            /\ UNCHANGED <<held, hgen, aring>>
    /\ UNCHANGED <<token, delivered, fring, readers, pending, terminating, send, link, apc>>

(* The dequeue of the while loop from NETDOM_ARING(rx_fring); on          *)
(* LFRING_EMPTY, ++fails < 256 yields and polls again, otherwise the loop *)
(* shuts down.                                                             *)
RecvPoll ==
    /\ rpc = "poll"
    /\ IF aring[rx] # <<>>
       THEN TakeHead
       ELSE /\ fails' = fails + 1
            /\ rpc' = IF fails + 1 < FailLimit THEN "poll" ELSE "store"
            /\ UNCHANGED <<held, hgen, aring>>
    /\ UNCHANGED <<token, delivered, fring, readers, pending, terminating, send, link, apc>>

(* retry: hyp_schedule, rump_virtif_pktdeliver, hyp_unschedule, then      *)
(* lfring_enqueue(rx_fring->ring, idx) with rx_fring read again.           *)
RecvDeliver ==
    /\ rpc = "deliver"
    /\ fring' = [fring EXCEPT ![rx] = Append(@, held)]
    /\ delivered' = delivered + 1
    /\ held' = NoIdx /\ rpc' = "poll"
    /\ UNCHANGED <<fails, hgen, token, aring, readers, pending, terminating, send, link, apc>>

(* atomic_store(&NETDOM_ARING(rx_fring)->readers, -1) *)
RecvStore ==
    /\ rpc = "store"
    /\ readers' = [readers EXCEPT ![rx] = -1] /\ rpc' = "final"
    /\ UNCHANGED <<fails, held, hgen, token, delivered>>
    /\ UNCHANGED <<fring, aring, pending, terminating, send, link, apc>>

(* The last dequeue: an index goes to retry, LFRING_EMPTY on to block.    *)
RecvFinal ==
    /\ rpc = "final"
    /\ IF aring[rx] # <<>>
       THEN TakeHead
       ELSE /\ rpc' = "prepare"
            /\ UNCHANGED <<held, hgen, aring, fails>>
    /\ UNCHANGED <<token, delivered, fring, readers, pending, terminating, send, link, apc>>

(* bmk_sched_blockprepare: the wake token is cleared. *)
RecvPrepare ==
    /\ rpc = "prepare"
    /\ token' = FALSE /\ rpc' = "block"
    /\ UNCHANGED <<fails, held, hgen, delivered>>
    /\ UNCHANGED <<fring, aring, readers, pending, terminating, send, link, apc>>

(* bmk_sched_block: returns at once if woken since blockprepare,          *)
(* otherwise the thread leaves the CPU and its callback is due.            *)
RecvBlock ==
    /\ rpc = "block"
    /\ rpc' = IF token THEN "check" ELSE "callback"
    /\ UNCHANGED <<fails, held, hgen, token, delivered>>
    /\ UNCHANGED <<fring, aring, readers, pending, terminating, send, link, apc>>

(* receiver_callback: CAS(&NETDOM_ARING(rx_fring)->readers, -1, 0); on    *)
(* failure wake the thread.                                                *)
RecvCallback ==
    /\ rpc = "callback"
    /\ IF readers[rx] = -1
       THEN readers' = [readers EXCEPT ![rx] = 0] /\ UNCHANGED token
       ELSE Wake /\ UNCHANGED readers
    /\ rpc' = "asleep"
    /\ UNCHANGED <<fails, held, hgen, delivered>>
    /\ UNCHANGED <<fring, aring, pending, terminating, send, link, apc>>

(* The thread runs again once woken. *)
RecvResume ==
    /\ rpc = "asleep" /\ token
    /\ rpc' = "check"
    /\ UNCHANGED <<fails, held, hgen, token, delivered>>
    /\ UNCHANGED <<fring, aring, readers, pending, terminating, send, link, apc>>

(* Mutant: the test of frontend_terminating inverted. *)
RecvCheckInverted ==
    /\ rpc = "check"
    /\ IF ~terminating THEN rpc' = "exited" /\ UNCHANGED fails
                       ELSE rpc' = "poll" /\ fails' = 0
    /\ UNCHANGED <<held, hgen, token, delivered>>
    /\ UNCHANGED <<fring, aring, readers, pending, terminating, send, link, apc>>

(* if (atomic_load(&frontend_terminating)) return; goto start_over *)
RecvCheck ==
    /\ rpc = "check"
    /\ IF terminating THEN rpc' = "exited" /\ UNCHANGED fails
                      ELSE rpc' = "poll" /\ fails' = 0
    /\ UNCHANGED <<held, hgen, token, delivered>>
    /\ UNCHANGED <<fring, aring, readers, pending, terminating, send, link, apc>>

Receiver ==
    \/ RecvStart \/ RecvPoll \/ RecvDeliver \/ RecvStore \/ RecvFinal
    \/ RecvPrepare \/ RecvBlock \/ RecvCallback \/ RecvResume \/ RecvCheck

-----------------------------------------------------------------------------
(* backend_forward_send(dom, m0)                                           *)

(* idx = lfring_dequeue(tx_fring[dom]); LFRING_EMPTY drops the frame.     *)
(* The frame is then copied into the slot.  tx_fring[dom] is the pair the *)
(* live backend mapped.                                                    *)
SendTake(s) ==
    /\ bgen # Dead
    /\ spc[s] = "idle" /\ sent[s] < Frames
    /\ sent' = [sent EXCEPT ![s] = @ + 1]
    /\ IF fring[bgen] = <<>>
       THEN UNCHANGED <<fring, spc, sidx>>
       ELSE /\ fring' = [fring EXCEPT ![bgen] = Tail(@)]
            /\ sidx' = [sidx EXCEPT ![s] = Head(fring[bgen])]
            /\ spc' = [spc EXCEPT ![s] = "enqueue"]
    /\ UNCHANGED <<aring, readers, pending, terminating, recv, link, apc>>

(* lfring_enqueue(tx_aring[dom], idx) *)
SendEnqueue(s) ==
    /\ spc[s] = "enqueue"
    /\ aring' = [aring EXCEPT ![bgen] = Append(@, sidx[s])]
    /\ sidx' = [sidx EXCEPT ![s] = NoIdx]
    /\ spc' = [spc EXCEPT ![s] = "load"]
    /\ UNCHANGED <<fring, readers, pending, terminating, sent, recv, link, apc>>

(* Mutant: readers < 0 in place of readers <= 0. *)
SendLoadReadersStrict(s) ==
    /\ spc[s] = "load"
    /\ spc' = [spc EXCEPT ![s] = IF readers[bgen] < 0 THEN "notify" ELSE "idle"]
    /\ UNCHANGED <<fring, aring, readers, pending, terminating, sidx, sent, recv, link, apc>>

(* if (atomic_load(&tx_aring[dom]->readers) <= 0) notify the other side *)
SendLoadReaders(s) ==
    /\ spc[s] = "load"
    /\ spc' = [spc EXCEPT ![s] = IF readers[bgen] <= 0 THEN "notify" ELSE "idle"]
    /\ UNCHANGED <<fring, aring, readers, pending, terminating, sidx, sent, recv, link, apc>>

(* minios_notify_remote_via_evtchn: sets the port pending; a notification *)
(* of a port already pending is merged with it.                            *)
SendNotify(s) ==
    /\ spc[s] = "notify"
    /\ pending' = TRUE
    /\ spc' = [spc EXCEPT ![s] = "idle"]
    /\ UNCHANGED <<fring, aring, readers, terminating, sidx, sent, recv, link, apc>>

Sender(s) == SendTake(s) \/ SendEnqueue(s) \/ SendLoadReaders(s) \/ SendNotify(s)

(* The network domain crashes: every send in progress is lost with it,    *)
(* the index it held included; the hypervisor restarts the domain.         *)
BackendRestart ==
    /\ bgen # Dead /\ restarts < MaxRestarts
    /\ bgen' = Dead /\ restarts' = restarts + 1
    /\ spc' = [s \in Senders |-> "idle"]
    /\ sidx' = [s \in Senders |-> NoIdx]
    /\ UNCHANGED <<fring, aring, readers, rx, pending, terminating, sent, recv, apc>>

(* backend_connect of the restarted backend for this frontend: it maps    *)
(* the grants the reconnecter registered and sets tx_aring[dom] and        *)
(* tx_fring[dom] to the new pair.                                          *)
BackendConnect ==
    /\ bgen = Dead /\ rx = restarts
    /\ bgen' = rx
    /\ UNCHANGED <<fring, aring, readers, rx, restarts, pending, terminating, send, recv, apc>>

-----------------------------------------------------------------------------
(* The receiving domain                                                    *)

(* frontend_interrupt_handler, run for the pending port:                  *)
(* if (atomic_exchange(&NETDOM_ARING(rx_fring)->readers, 1) == 0) wake     *)
Interrupt ==
    /\ pending
    /\ pending' = FALSE
    /\ readers' = [readers EXCEPT ![rx] = 1]
    /\ IF readers[rx] = 0 THEN Wake ELSE UNCHANGED token
    /\ UNCHANGED <<fring, aring, terminating, rpc, fails, held, hgen, delivered,
                   send, link, apc>>

(* frontend_reconnecter, woken by the restarted backend's hello: its pass *)
(* up to the next block has no switch point.  The old grants are ended,   *)
(* frontend_init_ring builds a new pair (free ring full, allocated ring    *)
(* empty, readers 0) and rx_fring = _rx_fring.                             *)
ReconnectPass ==
    /\ rx < restarts
    /\ rx' = rx + 1
    /\ fring' = [fring EXCEPT ![rx + 1] = FullRing]
    /\ aring' = [aring EXCEPT ![rx + 1] = <<>>]
    /\ readers' = [readers EXCEPT ![rx + 1] = FreshReaders]
    /\ UNCHANGED <<bgen, restarts, pending, terminating, send, recv, apc>>

(* frontend_terminate: atomic_store(&frontend_terminating, 1) *)
Terminate ==
    /\ apc = "run"
    /\ terminating' = TRUE
    /\ apc' = "handler"
    /\ UNCHANGED <<fring, aring, readers, pending, recv, send, link>>

(* ... then return frontend_interrupt_handler(0, NULL, NULL) *)
TerminateHandler ==
    /\ apc = "handler"
    /\ readers' = [readers EXCEPT ![rx] = 1]
    /\ IF readers[rx] = 0 THEN Wake ELSE UNCHANGED token
    /\ apc' = "join"
    /\ UNCHANGED <<fring, aring, pending, terminating, rpc, fails, held, hgen, delivered,
                   send, link>>

(* frontend_join: bmk_sched_join(rx_thread) returns once the thread exits *)
Join ==
    /\ apc = "join" /\ rpc = "exited"
    /\ apc' = "joined"
    /\ UNCHANGED <<fring, aring, readers, pending, terminating, recv, send, link>>

Application == Terminate \/ TerminateHandler \/ Join

(* Nothing left to do: the backend is connected and every sender has sent *)
(* its frames, no interrupt is pending and the receiver sleeps or has     *)
(* exited.  The domain idles until the next packet, which the bounded     *)
(* model does not produce.                                                 *)
Idle ==
    /\ bgen # Dead
    /\ \A s \in Senders : spc[s] = "idle" /\ sent[s] = Frames
    /\ ~pending
    /\ rpc \in {"asleep", "exited"} /\ ~(rpc = "asleep" /\ token)
    /\ apc \in {"run", "join", "joined"}
    /\ UNCHANGED vars

Next ==
    \/ Receiver
    \/ \E s \in Senders : Sender(s)
    \/ Interrupt
    \/ Application
    \/ BackendRestart \/ BackendConnect \/ ReconnectPass
    \/ Idle

(* Each domain runs on its own virtual CPU; the receive loop, every       *)
(* sender, the reconnecter, the restarted backend's connect and a          *)
(* tear-down once begun keep running while they have a step to take, and   *)
(* a pending event is delivered.  Whether the session is torn down and    *)
(* whether the network domain crashes are not the code's choice, so       *)
(* Terminate and BackendRestart are not fair.                              *)
Fairness ==
    /\ WF_vars(Receiver)
    /\ \A s \in Senders : WF_vars(Sender(s))
    /\ WF_vars(Interrupt)
    /\ WF_vars(ReconnectPass) /\ WF_vars(BackendConnect)
    /\ WF_vars(TerminateHandler \/ Join)

Spec == Init /\ [][Next]_vars /\ Fairness

-----------------------------------------------------------------------------
TypeOK ==
    /\ fring \in [Gens -> Seq(SlotIdx)]
    /\ aring \in [Gens -> Seq(SlotIdx)]
    /\ readers \in [Gens -> {-1, 0, 1}]
    /\ rx \in Gens /\ bgen \in Gens \cup {Dead} /\ restarts \in Gens
    /\ pending \in BOOLEAN /\ terminating \in BOOLEAN /\ token \in BOOLEAN
    /\ rpc \in {"start", "poll", "deliver", "store", "final", "prepare", "block",
                "callback", "asleep", "check", "exited"}
    /\ fails \in 0 .. FailLimit
    /\ held \in SlotIdx \cup {NoIdx} /\ hgen \in Gens
    /\ delivered \in Nat
    /\ spc \in [Senders -> {"idle", "enqueue", "load", "notify"}]
    /\ sidx \in [Senders -> SlotIdx \cup {NoIdx}]
    /\ sent \in [Senders -> 0 .. Frames]
    /\ apc \in {"run", "handler", "join", "joined"}

(* The receive thread off the CPU with no wake token. *)
Sleeping == rpc \in {"callback", "asleep"} /\ ~token

(* No lost wake-up: while the receive loop sleeps without a wake token    *)
(* and a frame waits in the allocated ring rx_fring points to (a pair no  *)
(* crash has abandoned: frames of a crashed backend are lost), readers of *)
(* that ring is 0 and a wake is on its way: a sender of the live backend  *)
(* that has yet to read readers or to notify, or a pending interrupt.     *)
(* Between the receiver's readers = -1, its last dequeue, blockprepare and *)
(* the callback's CAS, a sender's enqueue and its load of readers can fall *)
(* anywhere, and a reconnection can replace the ring pair under it.        *)
NoLostWakeup ==
    (Sleeping /\ rx = restarts /\ aring[rx] # <<>>) =>
        \/ rpc = "callback"
        \/ readers[rx] = 0 /\ (pending \/ \E s \in Senders : spc[s] \in {"load", "notify"})

(* Positions of index i in a ring *)
Positions(r, i) == {k \in 1 .. Len(r) : r[k] = i}

(* Every frame in the allocated ring of the current pair is eventually    *)
(* taken by the receive loop, unless the session is being torn down or a  *)
(* reconnection replaces the pair (its frames are lost with the crashed   *)
(* backend).                                                               *)
FramesDelivered ==
    \A g \in Gens, i \in SlotIdx :
        (rx = g /\ Positions(aring[g], i) # {}) ~>
            (Positions(aring[g], i) = {} \/ rx # g \/ terminating)

(* frontend_terminate ends the session: once terminating is set, the      *)
(* receive loop eventually returns, so frontend_join returns (the         *)
(* cancellation rule of the design: the forced wake makes the loop see the*)
(* flag and exit rather than poll again).                                  *)
TerminationCompletes == terminating ~> (rpc = "exited")

(* The holders of index i of pair g: its free ring, its allocated ring, a *)
(* sender of the backend that maps g between dequeue and enqueue, and the *)
(* receive loop delivering an index it took from g.                        *)
Copies(g, i) ==
    Cardinality(Positions(fring[g], i)) + Cardinality(Positions(aring[g], i))
    + Cardinality({s \in Senders : bgen = g /\ spc[s] = "enqueue" /\ sidx[s] = i})
    + (IF rpc = "deliver" /\ hgen = g /\ held = i THEN 1 ELSE 0)

(* Every slot index of the pair in use, once no crash has abandoned it,   *)
(* has exactly one holder: the free ring never hands one slot to two       *)
(* frames (the design: no index is handed out to two concurrent            *)
(* claimants).  The receive loop gives its index back to whatever pair     *)
(* rx_fring points to after rump_virtif_pktdeliver.                        *)
IndexConservation == rx = restarts => \A i \in SlotIdx : Copies(rx, i) = 1
=============================================================================
