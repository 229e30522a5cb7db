# TLA+ models of the librettos network domain

This directory holds TLA+ models of the lock-free transport between the
network domain (backend) and the application domains (frontends) in
`src/`, and of the mode switch that lets a frontend bypass the network
domain through a passthrough NIC. Each model is checked with TLC. Every action is translated from the C
source. `PROJECT.json` maps each definition to the lines it models
(`"map"`), lists the TLC runs and their mutants, and records the findings
and the hazards.

## The system

Leaves first:

| Part | Source | What it does |
|---|---|---|
| atomic pair | `src/include/bmk-core/lf/*.h` | (stamp, value) word pair with double-width CAS, or a split load with reload check |
| lfqueue | `src/include/bmk-core/lfqueue.h` | Michael–Scott queue over the atomic pair, optionally markable |
| SCQ ring | `src/include/bmk-core/lfring.h` | bounded ring of small indices: head/tail tickets taken by fetch-and-add, slots tagged with a cycle and an IsSafe bit, a threshold that shortcuts dequeues on an empty ring |
| channel | `frontend.c`, `backend.c` | two SCQ rings over a slot buffer. The free ring starts full and the allocated ring starts empty. A sender takes an index from the free ring, fills the slot, enqueues the index on the allocated ring and notifies the peer if `readers <= 0`. The receive loop polls the allocated ring, returns indices to the free ring, and after 256 empty polls stores `readers = -1`, dequeues once more and blocks. |
| backend | `backend.c` | per-domain channels, domain ids from `frontend_dom` or, after a backend restart, from `get_dom`; demultiplexes frames by port and floods ARP/broadcast |
| frontend | `frontend.c` | the single channel pair of an application domain, the reconnecter and mode switcher threads (single-flight flags), tear-down |
| interface glue | `librumpnet_xenif/if_virt.c`, `xenif_user.c` | the rump kernel's `virt` interface: clone, init/stop, start (send each queued mbuf through `VIFHYPER_SEND`), and in direct access the forwarding of frames between the stack and a passthrough NIC, bypassing the network domain |
| rumprun service | `rumprun-utils/module/rumprun_service.c`, `service.c` | a dom0 kernel module and its tool: `bind <dom>` binds the domain's port 8 and records the irq in `evtchn_table`; `switch <dom>` notifies it; `clean` resets the table |
| hypervisor control plane | `network_hypercall.h` (declarations only) | the roster of registered frontends (`REGISTER_APP`, `FETCH`, `RECONNECT`) and the last registered welcome port (`QUERY`) |

These parts interact as follows:
- Senders and receivers on two domains share the rings.
- Event-channel interrupts run `*_interrupt_handler`, which exchanges `readers` with 1 and wakes the receiver if it was 0.
- The receiver's block callback moves `readers` from -1 to 0, or wakes the thread itself when that CAS fails.
- A frontend joins by querying the backend's welcome port, binding to it, registering its grants with the hypervisor and saying hello. The backend maps the grants of roster entry `frontend_dom` and rearms a fresh welcome port.
- A restarted backend reads the roster, binds one reconnect port per active entry and says hello to each frontend. Each frontend's reconnecter then rebuilds its rings, registers again and says hello back on its old hello port. The backend counts `_reconnection` down and opens a regular welcome port once the count reaches zero.
- `service switch <dom>` notifies the domain's mode-switch port. `frontend_switch_handler` exchanges `switchers` with 1 and wakes the switcher thread if it was 0. The switcher stores -1, blocks, and its block callback moves `switchers` from -1 to 0 or wakes it when that CAS fails; then it runs `rump_virtif_switch`, which toggles `direct_access`. `VIFHYPER_SEND` and `rumpuser_network_receive` read `direct_access` to choose between the network domain's channel and the passthrough NIC.
- The reconnecter builds the new ring pair and points `rx_fring` at it while the frontend's receive loop keeps running. The loop reads `rx_fring` again at every ring access, including the enqueue that returns a delivered index.

## Modules

| Module | Models | State | Actions |
|---|---|---|---|
| `LfRing` | `lfring.h`: `lfring_init_empty`, `lfring_init_full`, `lfring_enqueue`, `__lfring_catchup` and `lfring_dequeue` with `nonempty = false` | `ring` (head, tail, threshold, slot array of cycle/IsSafe/index records), `loc` (each thread's program counter and locals) | one action per atomic access: `EnqFetchTail`, `EnqLoadEntry`, `EnqLoadHead`, `EnqCas`, `EnqLoadThreshold`, `EnqStoreThreshold`, `DeqLoadThreshold`, `DeqFetchHead`, `DeqLoadEntry`, `DeqFetchOr`, `DeqCas`, `DeqLoadTail`, `CatchupCas`, `CatchupLoadHead`, `CatchupLoadTail`, `DeqDecEmpty`, `DeqDec` |
| `MCLfRingFree` | the free ring: `frontend_send` takes an index, the receive loop gives it back | `rounds` and the history `emptySeen` | `TakeSlot`, `DropFrame`, `GiveBack`, `EnqueueReturned` |
| `MCLfRingFifo` | the allocated ring: senders enqueue, the receive loop polls | `sent`, `received`, `polls` and `emptySeen` | `Send`, `Poll`, `Receive`, `PollEmpty` |
| `Channel` | one direction of a channel: `backend_forward_send`, `frontend_receiver`, `receiver_callback`, `frontend_interrupt_handler`, `frontend_terminate` and `frontend_join`; reconnection: a crash of the network domain, the ring swap of `frontend_reconnecter` and the new backend's `backend_connect` | per ring pair (generation) the free ring, the allocated ring and `readers`; `rx` (the pair `rx_fring` points to), `bgen` (the pair the live backend maps), `restarts`; the pending event, `frontend_terminating`, the receiver's location, poll count, held index (and the pair it came from) and wake token, and the senders' locations | `RecvStart` … `RecvCheck`, `SendTake` … `SendNotify`, `Interrupt`, `Terminate`, `TerminateHandler`, `Join`, `BackendRestart`, `ReconnectPass`, `BackendConnect` |
| `MCChannel` | the slot sets of the cfgs | | |
| `Handshake` | `backend_init` (first boot and restart), `backend_welcome_handler`/`backend_connect`, `get_dom`, the flood set of `backend_receive`; `frontend_init`, `frontend_hello_handler`, `frontend_reconnecter`, `reconnect_callback`; the hypervisor roster | `roster`; the backend's `welcome`, `wopen`/`wlive` (welcome ports by generation), `frontend_dom`, `reconnection`, `session` (which frontend's grants each dom maps), `rcport` (reconnect ports), `restarts`, `inbox` (pending notifications), `bhalted`; per frontend `fpc`, `fwel`, `hgen`/`hmask` (its hello port), `reconnecters`, `rpc`, `oldh`; the history `lastConn` | `FrontQuery`, `FrontBind`, `FrontRegister`, `FrontNotify`, `FrontHello`, `RStore`, `RBlock`, `RReinit`, `RNotify`, `BackendConnect` (with `ConnectDom`, `Rearm`, `Countdown`), `BackendRestart` |
| `MCHandshake` | symmetry over frontends (violation runs only) | | |
| `ModeSwitch` | `rumprun_service.c`: `evtchn_table`, `init_evtchn_table`, `set_evtchn`, `get_evtchn`, the `CLEANUP`/`BIND`/`SWITCH` ioctls and `service.c`'s commands; `frontend.c`: `frontend_switch_handler`, `frontend_switcher`, `switch_callback` and the switcher part of `frontend_init`; `xenif_user.c`: `VIFHYPER_CREATE`, `VIFHYPER_SEND`, `rumpuser_network_receive`, `rumpuser_network_init`, `rump_virtif_switch`; `if_virt.c`: `virtif_clone`, `virtif_init`, `virtif_stop`, `virtif_start`, `rump_virtif_pktdeliver_direct`, `rump_virtif_pktforward_direct` | `table`, `cmds`; per domain `fpc` (off, up, halted), `swport` (the mode-switch port: none, unbound, bound to an irq), `pending`, `switchers`, `swpc` (the switcher's location), `token`, `direct_access`, the histories `requested` and `owed`; `running` (`IFF_RUNNING`), `phys` (`phys_ifp`: null, down, up), one outbound mbuf `tx` with its `fate` (taken by the NIC, freed), one inbound frame `rx` | `IoctlCleanup`, `IoctlBind`, `IoctlSwitch`, `SwitchHandler`, the switcher steps (`SwitcherStart`, `SwitcherStore`, `SwitcherPrepare`, `SwitcherBlock`, `SwitchCallback`, `SwitcherResume`, `RumpVirtifSwitch`), `VirtifClone` (with `VifCreate`), `VirtifInit`, `VirtifStop`, `NetworkInitPhys`, `PhysUp`, `Output`, `VirtifStart`, `NetworkReceive` |
| `MCModeSwitch` | the domain set of the cfg | | |
| `AbstractQueue` | what an MPMC FIFO promises | `queue`, `out` | `Enqueue`, `Dequeue` |
| `LfQueue` | `lfqueue_init`, `lfqueue_enqueue`, `lfqueue_dequeue` (mark = false) over the split-load atomic pair of `lf/gcc_x86.h` and `lf/c11.h` | `mem` (the (stamp, value) pairs head, tail and each node's next), `obj` (node objects), `loc` (each thread's pc and locals) | one action per atomic access: `EnqStampNext`, `EnqStoreNext`, `EnqLoadTail*`, `EnqLoadNext*`, `EnqHelpTail`, `EnqReload*`, `EnqLink`, `EnqSwingTail`, `DeqLoadHead*`, `DeqLoadTail*`, `DeqLoadNext*`, `DeqReload*`, `DeqSwingTail`, `DeqReadObject`, `DeqCasHead`, `DeqStoreObject` |
| `MCLfQueue` | threads running scripts of calls, reusing the nodes dequeues hand back | `pool`, `opIdx`, and the histories `outLog`, `emptySeen` | `Invoke`, `Run`, `Return` |

Modelling choices:
- In `LfRing`, the packed slot word is a record of cycle, IsSafe and index. `Bot` stands for an all-ones index. Counters are `Width`-bit words (`lfatomic_t` is an `unsigned long`, 32 bits on a 32-bit build) compared by signed difference as `__lfring_cmp` does, and the cycle field of a slot is the ticket's cycle modulo the half word. The runs start from the state that `Start` sequential take-and-return round trips leave (`LastTicket` gives the last ticket that touched each slot); that formula was compared with a bit-level simulation of the C code over both orders, full and empty rings, and many `Start` values, with no difference.
- `Channel` treats each ring operation as atomic. The ring algorithm itself is checked by the `LfRing` harnesses. Rings are sequences, so that an index returned twice shows up twice. The threads of a domain switch only where they yield, block or wait for the rump kernel, so the reconnecter's pass (end grants, build the pair, set `rx_fring`) is one step. That step can fall between the receive loop's dequeue and its enqueue, because `hyp_schedule` and the `KERNEL_LOCK` in `rump_virtif_pktdeliver` lie between them. A crash of the network domain loses the sends it had in progress; the hypervisor's restart is modelled from the design (`spec_modelled`).
- In `Handshake`, `backend_connect` and the other event handlers are atomic steps: Mini-OS runs event-channel handlers one at a time with events masked. The hypervisor's side of the `RUMPRUN_SERVICE_*` calls is not in the repository; it is modelled from the interface the code relies on (marked `spec_modelled` in the map). A backend restart is a new domain: the ports of the old one are gone, and a notification to them is lost.
- In `LfQueue`, each split load is two steps (the stamp, then the value), `__lfaba_store_value` is two steps (stamp increment, then value store), and each CAS is one step comparing both halves, as `cmpxchg16b` does. `__LFQ_NULL` is -1 and any negative value stands for a pointer with the `__LFQ_CNT` bit set. `Content`, the objects of the nodes reachable from the sentinel, is the refinement mapping: `MCLfQueue` checks `INSTANCE AbstractQueue WITH queue <- Content, out <- outLog`, whose enqueue is the successful link CAS and whose dequeue is the successful head CAS.
- In `ModeSwitch`, each ioctl and each handler is one atomic step. `owed` records a switch event that found `switchers` at 0 or -1, the cases in which the handler or the callback must wake the switcher; `requested` records any event since the last toggle. A NULL `phys_ifp` dereferenced in direct access, and a failed allocation of the mode-switch port, move the domain to `halted`. `PhysUp` (the NIC's driver) and `Output` (the stack queueing an mbuf) are outside events modelled from their interface.
- The scheduler (`bmk_sched_*`) is not in the repository. It is modelled from its interface as a wake token: blockprepare clears it, wake sets it, and block returns at once if it is set.

## Runs

| Run | Checks | Shows |
|---|---|---|
| `lfring_free` | `TypeOK`, `IndexConservation`, `NoStrandedEntry`, `EmptyJustified` | three threads, order 1 (2 indices in 4 slots), one take-and-return each, full interleaving, counters two tickets before the 16-bit wrap: each index is always in exactly one place; every live entry is ahead of head or held by its dequeuer; EMPTY is returned only if at some instant of that dequeue no index was committed |
| `lfring_fifo` | `PerProducerFifo` | order 2, two senders (indices 0, 2 and 1), the receive loop polls twice, counters two tickets before the 16-bit wrap: each sender's indices arrive in order, none twice |
| `lfring_live` | `EmptyJustified`, `AllDelivered` | order 1, a receive loop that polls without bound, weak fairness per thread: every index sent is received |
| `channel` | `TypeOK`, `NoLostWakeup`, `FramesDelivered` | two senders, one frame each, one slot, one crash of the network domain, sleep after 2 empty polls: on the current pair the receiver is never asleep with a frame waiting unless a wake is on its way, and every frame is delivered unless the session is torn down or the pair replaced, also when the reconnecter swaps the rings under the sleeping or polling loop |
| `channel_terminate` (violation) | `TerminationCompletes` | a tear-down while the loop polls is never seen; `frontend_join` hangs |
| `channel_dup` (violation) | `IndexConservation` | one sender, two slots, one crash: the receive loop returns an index of the old pair into the new, full free ring, so that index has two holders |
| `handshake_recovery` | `TypeOK`, `SleepIffIdle`, `BackendNeverHalts`, `ReconnectionCounts`, `ConnectInBounds`, `ConnectMapsCallerBeforeRestart`, `JoinCompletes` | three frontends against a roster of two, one backend restart, no symmetry (it would make the liveness check unsound): the reconnecter sleeps exactly when `reconnecters` is 0, `get_dom` never meets an unknown port, `_reconnection` equals the reconnect ports still waiting for their hello, a connect never serves a dom past the arrays (the third frontend halts at `REGISTER_APP`, so the check at backend.c:410 is never reached with `dom = RUMPRUN_NUM_OF_APPS`); until the restart, each connect maps the caller's grants, and every booted frontend ends connected or halted |
| `handshake_collision` (violation) | `ConnectMapsCaller` | after a restart `frontend_dom` restarts at 0, so a new frontend is given a recovered domain's dom |
| `handshake_flood` (violation) | `FloodCoversSessions` | recovered domains are outside the flood range `0 .. frontend_dom - 1` |
| `handshake_lost_hello` (violation) | `RecoveryCompletes` | a restart hello absorbed while `reconnecters = 1` leaves `_reconnection` above zero for ever |
| `mode_switch` | `TypeOK`, `ExclusiveOwnership`, `NoSpuriousSwitch`, `SwitchServed` | two domains, one with a passthrough NIC, a one-entry `evtchn_table`, two administrator commands, one frame each way: `direct_access` changes only after a switch event, an event that finds the switcher asleep or on its way to sleep is always served, and an outbound mbuf is never both taken by the NIC and freed |
| `lfqueue` | `TypeOK`, `NodesExclusive`, `EmptyJustified`, `Linearizable`, `AllComplete` | two threads, three nodes, every node reused: the queue refines an atomic FIFO (ABA on reused nodes and torn split loads included), no node is both queued and owned, NULL only when the queue was empty, and every call returns |

`LfRing`'s type invariant is checked once, in `lfring_free`; the other two ring runs use the same module and check only what is particular to them. In `ModeSwitch` the irq that `BIND` records is modelled by the domain it was bound for, so the table can hold, for a domain, only that domain or an error; that `SWITCH` notifies the domain it names is then a consequence of `get_evtchn`'s domid test, and no property restates it.

Each property of a passing run has a mutant in `PROJECT.json`: a plausible bug in the definition the property is about. TLC must report a violation of the property when the mutant replaces that definition.

The bounds were chosen as follows:
- Order 1 is the smallest ring in which slots are reused across cycles. With 3 threads, every interleaving of a take-and-return is covered.
- The FIFO run needs order 2, so that a sender can have two indices in flight.
- The lfring runs use `Width = 16` and `Start = 65534`: TLC's integers are 32-bit, and 16-bit words keep every sum in range. Two tickets before the wrap, every run crosses both the counter wrap and the wrap of the cycle field, the place where an unsigned comparison in place of `__lfring_cmp` goes wrong (the `DeqDecideUnsigned` mutant breaks `PerProducerFifo`).
- The channel run has one slot, so that the second sender finds the free ring empty and drops its frame, and one crash, so that the ring swap meets every location of the receive loop. The duplicate needs two slots: one delivered while the crash and the swap happen, one other.
- 2 empty polls before sleeping stands for 256: the count only decides when the receiver goes to sleep, and both 1 and 2 reach every path.
- Handshake's main run has three frontends and a roster of two, so that a frontend meets a full roster, and one restart, so that recovered and new frontends meet. The properties that the violation runs show broken after a restart are checked up to the restart. The violation runs need only two frontends and one restart.
- `mode_switch` has two domains so that a switch can name a domain other than the one in the table, and a table of one entry so that a bind can find it full. Two commands are enough for a bind and a switch, the shortest sequence that serves an event; one frame each way covers every branch of `virtif_start`, `VIFHYPER_SEND` and `rumpuser_network_receive`. Only one domain gets a passthrough NIC; the other still reaches the NULL `phys_ifp` branch.
- The lfqueue run has three nodes: the first sentinel and one per thread. Each thread's script dequeues and then enqueues the node it got back, so every node re-enters the queue while the other thread may hold a stale pointer to it. This bound reaches both ABA and torn reads. A variant of the model whose head CAS compares the pointer alone fails `Linearizable`, and so does one whose split loads read the value before the stamp. A variant whose `__lfaba_store_value` stores the value before bumping the stamp still passes, because every decision taken on a next field is re-validated against the head or tail stamp. One thread begins with a dequeue, so it can meet a tail that lags behind a link.

## Fairness

Weak fairness per thread is justified as follows:
- Each domain runs on its own virtual CPU.
- A thread inside a ring operation or a send keeps running.
- A pending event channel is eventually delivered.
- In `Handshake`, a booted frontend's steps and the backend's event handling are weakly fair. Booting a frontend and restarting the backend are not, because they are outside events. The runs set `CHECK_DEADLOCK FALSE`, because the control plane is event driven and is idle once every handshake is done.
- In `MCLfQueue`, every thread is weakly fair: lfqueue never blocks. `AllComplete` is lock-freedom with bounded scripts: every call returns once the others stop interfering.
- In `Channel`, the reconnecter's pass and the restarted backend's connect are weakly fair: the hello that wakes the reconnecter and the connect of the new backend are handled once they are due. A crash of the network domain (`BackendRestart`) is not fair.
- In `ModeSwitch`, the switch handler of each domain and its switcher thread are weakly fair: a pending event on an unmasked port is delivered, and a runnable thread is scheduled because the others yield or block. Administrator commands, interface configuration, NICs and the stack are outside events with no fairness. The run sets `CHECK_DEADLOCK FALSE`: once the commands are used up and the switcher sleeps, nothing is left to do.
- Tear-down (`Terminate`) is not fair, because whether a session ends is the application's choice. Once it has begun, the tear-down steps are fair.

## Findings

- `frontend_terminate` (frontend.c:266–270) can lose its wake-up. If the receive loop is polling (`readers = 1`), the interrupt handler does not wake it. The loop never tests `frontend_terminating` while polling. It later blocks, the callback sets `readers = 0`, and it sleeps for good, so `frontend_join` never returns. Run `channel_terminate` shows this.
- After a backend restart `frontend_dom` restarts at 0 (backend.c:409). The next frontend to join maps roster entry 0, a recovered domain, over its live session, and is itself never connected. Run `handshake_collision` shows this.
- ARP and broadcast frames are flooded to doms `0 .. frontend_dom - 1` only (backend.c:521), so recovered domains get none. Run `handshake_flood` shows this.
- `frontend_hello_handler` wakes the reconnecter only if `reconnecters` was 0 (frontend.c:88). The variable starts at 1, so a restart hello that arrives before the reconnecter first blocks is absorbed, and the recovery never completes. Run `handshake_lost_hello` shows this.
- `frontend_receiver` returns a delivered index to `rx_fring->ring`, reading `rx_fring` again after `rump_virtif_pktdeliver` (frontend.c:212). If the network domain restarted and the reconnecter swapped the rings in between, the index of the old pair goes into the new free ring, which `lfring_init_full` has just filled. That ring then holds the index twice, and the backend can hand one slot to two frames. The design says that no index is handed out to two concurrent claimants. Run `channel_dup` shows this.
- A frontend that boots between another frontend's bind and that frontend's hello binds an already bound welcome port and halts (frontend.c:443). The design does not say that frontends must boot one at a time. `NoFrontendHalts` in `Handshake` states the rule; with two frontends booting together and no restart, TLC finds it violated. The project keeps this as a hazard with that note, not as a run.

## Not modelled

- Weak-memory reorderings: TLC interleaves atomic accesses under sequential consistency.
- Frame contents, the copy into the slot, and the oversize halt.
- The unicast port-map lookup of `backend_receive`, which reads a table the hypervisor fills, and `backend_ip_register`.
- `virtif_unclone` with `VIFHYPER_DYING`/`VIFHYPER_DESTROY` (tear-down is `Channel`'s), `virtif_ioctl`, and `rumpuser_network_portbind`. Unclone leaves `virt_ifp` pointing into the freed softc; this is a hazard.
- Two rumprun service ioctls at once (the module has no lock), a `copy_from_user` failure, unknown commands and the module's exit.
- The opposite direction of the channel: `frontend_send` into `backend_forward_receiver`, with `backend_interrupt_handler` and the backend's `receiver_callback` (backend.c:93-98, 281-339; frontend.c:233-265). It is the same sleep/wake protocol as the modelled direction, line for line, except that it has no tear-down and the receive thread is created anew by each `backend_connect`. Only its ring operations are modelled, by `MCLfRingFree` and `MCLfRingFifo`. Both directions were put into one module, sharing the crash and the reconnecter's pass. With one downlink sender that took 1,032,598 distinct states and 9.5 minutes; with the run's two senders it did not finish in 15 minutes. Each direction's receive loop cycles through its polls independently of the other, so the state space is their product. The direction was left out rather than weaken the bounds of the `channel` run.
- The swap of `tx_fring` under a running `frontend_send`: the send has no switch point between its reads of `tx_fring`, so the reconnecter cannot run inside it.
- The markable lfqueue (`mark = true`), the non-split `c11.h` load, and spurious failures of a weak CAS on architectures other than x86. Nothing in the repository calls lfqueue.
- The rest of the network-stack glue: the conversion between frames and mbufs, `ether_input` and the NIC drivers.

## Known issues not run

These are in the model's state space but have no property, because the code makes no promise that a property could state. Each is a hazard in `PROJECT.json`.
- A switch event while `switchers` is 1 with no toggle pending is lost: from `atomic_init` (frontend.c:435) to the switcher's first store, and from `rump_virtif_switch` to the next store of -1 (frontend.c:382), which overwrites the handler's 1.
- `BIND` records a failed bind's negative return (rumprun_service.c:107), and a full table leaves a successful bind unrecorded. `clean` resets the table but not the irqs, so a bind after `clean` fails. Each leaves the domain impossible to switch.
- In direct access, an mbuf is leaked when the NIC (if_virt.c:322) or the virtual interface (if_virt.c:303) is not running. A domain with no physical NIC dereferences a NULL `phys_ifp` on its first send after a switch.
