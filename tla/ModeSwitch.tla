----------------------------- MODULE ModeSwitch -----------------------------
(***************************************************************************)
(* The mode switch of the application domains: the administrator's tool   *)
(* (rumprun-utils/service.c) and the dom0 kernel module it drives          *)
(* (rumprun_service.c, its evtchn_table), the frontend's switch event      *)
(* handler and switcher thread (frontend.c), and the toggle of            *)
(* direct_access together with the send and receive dispatch it selects   *)
(* (xenif_user.c, if_virt.c).                                              *)
(*                                                                         *)
(* An event channel port is abstracted to whose mode-switch port it is: a *)
(* local irq that bind_interdomain_evtchn_to_irq returned for domain d is  *)
(* the value d, a negative return value is Err.  The tool always binds     *)
(* remote port 8, which is taken to be the mode-switch port the frontend  *)
(* allocates; the bind succeeds only while that port is allocated and not *)
(* yet bound (Xen, not in this repository).  The tool issues one ioctl at *)
(* a time, so each ioctl is one step.                                      *)
(*                                                                         *)
(* The scheduler is modelled from its interface, as in Channel:            *)
(* bmk_sched_blockprepare clears the thread's wake token, bmk_sched_wake   *)
(* sets it, bmk_sched_block returns at once if the token is set and        *)
(* otherwise runs the block callback once the thread is off the CPU, and   *)
(* the thread runs again once the token is set.                            *)
(***************************************************************************)
EXTENDS Integers, FiniteSetsExt

CONSTANTS
    Doms,       \* the application domains
    TableSize,  \* RUMPRUN_NUM_OF_APPS, the entries of evtchn_table
    MaxCmds,    \* bound on the commands the administrator issues
    NoDom,      \* domid -1 of a free evtchn_table entry
    Err,        \* a negative port: a failed bind, or none found
    MaxFrames,  \* bound on the frames, each way, in the whole system
    NicDoms     \* the domains given a physical (passthrough) NIC

ASSUME TableSize \in Nat \ {0} /\ MaxCmds \in Nat /\ NoDom \notin Doms /\ Err \notin Doms
       /\ MaxFrames \in Nat /\ NicDoms \subseteq Doms

VARIABLES
    table,          \* evtchn_table: [domid, port] per entry
    cmds,           \* commands issued so far
    fpc,            \* "off" before virtif_clone, "up", "halted" once the
                    \* domain stopped: a halt or a NULL dereference
    swport,         \* the frontend's mode-switch port: "none", "unbound", "bound"
    pending,        \* that port has an event pending
    switchers,      \* frontend.c switchers
    swpc,           \* where the switcher thread is
    token,          \* the switcher thread's wake token
    direct_access,  \* xenif_user.c direct_access
    requested,      \* history: a switch event was handled since the last toggle
    owed,           \* history: one of them found switchers 0 or -1
    running,        \* IFF_RUNNING of the virtif interface
    phys,           \* phys_ifp: "null", or set and "down" or "up" (IFF_RUNNING)
    tx,             \* the outbound mbuf: "none", on if_snd "ifq", "sent"
    fate,           \* history: where that mbuf went, "nic" and/or "free"
    rx              \* the inbound frame: on the "wire", delivered to the
                    \* "stack", left to the "phys" path, or "unowned"

admin == <<table, cmds>>
switch == <<switchers, swpc, token, direct_access, requested, owed>>
data == <<running, phys, tx, fate, rx>>
vars == <<admin, fpc, swport, pending, switch, data>>

-----------------------------------------------------------------------------
(* rumprun_service.c: the evtchn_table of the dom0 kernel module           *)

Empty == [domid |-> NoDom, port |-> Err]

(* init_evtchn_table: memset to 0xFF, every domid and port -1. *)
InitTable == [i \in 1 .. TableSize |-> Empty]

(* set_evtchn: the first entry with domid -1 takes (domid, port); the     *)
(* table is left alone if there is none.                                   *)
SetEvtchn(t, d, p) ==
    LET free == {i \in DOMAIN t : t[i].domid = NoDom} IN
    IF free = {} THEN t ELSE [t EXCEPT ![Min(free)] = [domid |-> d, port |-> p]]

(* get_evtchn: the port of the first entry for the domain, else -1. *)
GetEvtchn(t, d) ==
    LET hit == {i \in DOMAIN t : t[i].domid = d} IN
    IF hit = {} THEN Err ELSE t[Min(hit)].port

(* bind_interdomain_evtchn_to_irq(domain, 8) *)
BindIrq(d) == IF swport[d] = "unbound" THEN d ELSE Err

Init ==
    /\ table = InitTable /\ cmds = 0
    /\ fpc = [d \in Doms |-> "off"] /\ swport = [d \in Doms |-> "none"]
    /\ pending = [d \in Doms |-> FALSE]
    /\ switchers = [d \in Doms |-> 0] /\ swpc = [d \in Doms |-> "none"]
    /\ token = [d \in Doms |-> FALSE] /\ direct_access = [d \in Doms |-> 0]
    /\ requested = [d \in Doms |-> FALSE] /\ owed = [d \in Doms |-> FALSE]
    /\ running = [d \in Doms |-> FALSE] /\ phys = [d \in Doms |-> "null"]
    /\ tx = [d \in Doms |-> "none"] /\ fate = [d \in Doms |-> {}]
    /\ rx = [d \in Doms |-> "wire"]

(* service.c clean: RUMPRUN_SERVICE_IOCTL_CLEANUP, the hypervisor's        *)
(* cleanup (outside this model) and init_evtchn_table.  The irqs bound    *)
(* before stay bound.                                                      *)
IoctlCleanup ==
    /\ cmds < MaxCmds /\ cmds' = cmds + 1
    /\ table' = InitTable
    /\ UNCHANGED <<fpc, swport, pending, switch, data>>

(* service.c bind <domain>: RUMPRUN_SERVICE_IOCTL_BIND binds remote port 8 *)
(* and records the return value, failed or not, with set_evtchn, whose     *)
(* failure is only printed.                                                *)
IoctlBind(d) ==
    /\ cmds < MaxCmds /\ cmds' = cmds + 1
    /\ table' = SetEvtchn(table, d, BindIrq(d))
    /\ swport' = IF BindIrq(d) = Err THEN swport ELSE [swport EXCEPT ![d] = "bound"]
    /\ UNCHANGED <<fpc, pending, switch, data>>

(* service.c switch <domain>: RUMPRUN_SERVICE_IOCTL_SWITCH looks the       *)
(* domain up with get_evtchn, fails if the port is negative, and otherwise *)
(* notify_remote_via_irq sets the remote port pending.                     *)
IoctlSwitch(d) ==
    LET lp == GetEvtchn(table, d) IN
    /\ cmds < MaxCmds /\ cmds' = cmds + 1
    /\ IF lp = Err THEN UNCHANGED pending
                    ELSE pending' = [pending EXCEPT ![lp] = TRUE]
    /\ UNCHANGED <<table, fpc, swport, switch, data>>

-----------------------------------------------------------------------------
(* frontend.c: the switch event and the switcher thread                    *)

Wake(d) == token' = [token EXCEPT ![d] = TRUE]

(* Mutants: atomic_fetch_add for the exchange; a wake on -1, not on 0. *)
SwitchHandlerAdd(d) ==
    /\ pending[d] /\ fpc[d] = "up"
    /\ pending' = [pending EXCEPT ![d] = FALSE]
    /\ switchers' = [switchers EXCEPT ![d] = @ + 1]
    /\ IF switchers[d] = 0 THEN Wake(d) ELSE UNCHANGED token
    /\ requested' = [requested EXCEPT ![d] = TRUE]
    /\ owed' = [owed EXCEPT ![d] = @ \/ switchers[d] # 1]
    /\ UNCHANGED <<admin, fpc, swport, swpc, direct_access, data>>

SwitchHandlerWakeOnBusy(d) ==
    /\ pending[d] /\ fpc[d] = "up"
    /\ pending' = [pending EXCEPT ![d] = FALSE]
    /\ switchers' = [switchers EXCEPT ![d] = 1]
    /\ IF switchers[d] = -1 THEN Wake(d) ELSE UNCHANGED token
    /\ requested' = [requested EXCEPT ![d] = TRUE]
    /\ owed' = [owed EXCEPT ![d] = @ \/ switchers[d] # 1]
    /\ UNCHANGED <<admin, fpc, swport, swpc, direct_access, data>>

(* frontend_switch_handler, run when the pending event is delivered:      *)
(* atomic_exchange(&switchers, 1), and a wake if it was 0.                 *)
SwitchHandler(d) ==
    /\ pending[d] /\ fpc[d] = "up"
    /\ pending' = [pending EXCEPT ![d] = FALSE]
    /\ switchers' = [switchers EXCEPT ![d] = 1]
    /\ IF switchers[d] = 0 THEN Wake(d) ELSE UNCHANGED token
    /\ requested' = [requested EXCEPT ![d] = TRUE]
    /\ owed' = [owed EXCEPT ![d] = @ \/ switchers[d] # 1]
    /\ UNCHANGED <<admin, fpc, swport, swpc, direct_access, data>>

(* frontend_init: atomic_init(&switchers, 1) and the switcher thread       *)
(* created; it first runs once frontend_init has returned.                 *)
SwitchInit(d) ==
    /\ switchers' = [switchers EXCEPT ![d] = 1]
    /\ swpc' = [swpc EXCEPT ![d] = "start"]

(* frontend_init: the mode-switch port allocated and unmasked. *)
AllocSwitchPort(d) == swport' = [swport EXCEPT ![d] = "unbound"]

SwStep(d, from, to) ==
    /\ swpc[d] = from /\ swpc' = [swpc EXCEPT ![d] = to]

(* hyp_schedule, hyp_lwproc_newlwp, hyp_unschedule *)
SwitcherStart(d) ==
    /\ SwStep(d, "start", "store")
    /\ UNCHANGED <<switchers, token, direct_access, requested, owed>>

(* atomic_store(&switchers, -1) at the top of the loop *)
SwitcherStore(d) ==
    /\ SwStep(d, "store", "prepare")
    /\ switchers' = [switchers EXCEPT ![d] = -1]
    /\ UNCHANGED <<token, direct_access, requested, owed>>

(* bmk_sched_blockprepare *)
SwitcherPrepare(d) ==
    /\ SwStep(d, "prepare", "block")
    /\ token' = [token EXCEPT ![d] = FALSE]
    /\ UNCHANGED <<switchers, direct_access, requested, owed>>

(* bmk_sched_block(&switch_data): returns at once if woken since          *)
(* blockprepare, otherwise the thread leaves the CPU and switch_callback   *)
(* is due.                                                                  *)
SwitcherBlock(d) ==
    /\ swpc[d] = "block"
    /\ swpc' = [swpc EXCEPT ![d] = IF token[d] THEN "switch" ELSE "callback"]
    /\ UNCHANGED <<switchers, token, direct_access, requested, owed>>

(* Mutant: the wake on the CAS succeeding instead of failing. *)
SwitchCallbackInverted(d) ==
    /\ SwStep(d, "callback", "asleep")
    /\ IF switchers[d] = -1
       THEN switchers' = [switchers EXCEPT ![d] = 0] /\ Wake(d)
       ELSE UNCHANGED <<switchers, token>>
    /\ UNCHANGED <<direct_access, requested, owed>>

(* switch_callback: CAS(&switchers, -1, 0); on failure wake the thread. *)
SwitchCallback(d) ==
    /\ SwStep(d, "callback", "asleep")
    /\ IF switchers[d] = -1
       THEN switchers' = [switchers EXCEPT ![d] = 0] /\ UNCHANGED token
       ELSE Wake(d) /\ UNCHANGED switchers
    /\ UNCHANGED <<direct_access, requested, owed>>

(* The thread runs again once woken. *)
SwitcherResume(d) ==
    /\ swpc[d] = "asleep" /\ token[d]
    /\ swpc' = [swpc EXCEPT ![d] = "switch"]
    /\ UNCHANGED <<switchers, token, direct_access, requested, owed>>

(* rump_virtif_switch: direct_access ^= 1 and ifconfigd_waker (outside    *)
(* this repository); then back to the top of the loop.                     *)
RumpVirtifSwitch(d) ==
    /\ SwStep(d, "switch", "store")
    /\ direct_access' = [direct_access EXCEPT ![d] = 1 - @]
    /\ requested' = [requested EXCEPT ![d] = FALSE]
    /\ owed' = [owed EXCEPT ![d] = FALSE]
    /\ UNCHANGED <<switchers, token>>

Switcher(d) ==
    /\ fpc[d] = "up"
    /\ \/ SwitcherStart(d) \/ SwitcherStore(d) \/ SwitcherPrepare(d)
       \/ SwitcherBlock(d) \/ SwitchCallback(d) \/ SwitcherResume(d)
       \/ RumpVirtifSwitch(d)
    /\ UNCHANGED <<admin, fpc, swport, pending, data>>

-----------------------------------------------------------------------------
(* if_virt.c and xenif_user.c: the interface and the dispatch             *)

(* VIFHYPER_CREATE: frontend_init, its switcher part here (its handshake  *)
(* is in Handshake).                                                        *)
VifCreate(d) ==
    /\ SwitchInit(d)
    /\ \/ fpc' = [fpc EXCEPT ![d] = "up"] /\ AllocSwitchPort(d)
       \/ \* minios_evtchn_alloc_unbound fails: bmk_platform_halt
          fpc' = [fpc EXCEPT ![d] = "halted"] /\ UNCHANGED swport

(* virtif_clone: VIFHYPER_CREATE, then the interface is attached without *)
(* IFF_RUNNING.                                                             *)
VirtifClone(d) ==
    /\ fpc[d] = "off" /\ VifCreate(d)
    /\ UNCHANGED <<admin, pending, token, direct_access, requested, owed, data>>

(* virtif_init sets IFF_RUNNING; virtif_stop clears it. *)
VirtifInit(d) ==
    /\ fpc[d] = "up" /\ running' = [running EXCEPT ![d] = TRUE]
    /\ UNCHANGED <<admin, fpc, swport, pending, switch, phys, tx, fate, rx>>

VirtifStop(d) ==
    /\ fpc[d] = "up" /\ running' = [running EXCEPT ![d] = FALSE]
    /\ UNCHANGED <<admin, fpc, swport, pending, switch, phys, tx, fate, rx>>

(* rumpuser_network_init for an interface that is neither VIF_NAME nor   *)
(* loopback: phys_ifp is set and dynamic_mode = 1.                          *)
NetworkInitPhys(d) ==
    /\ d \in NicDoms /\ fpc[d] # "halted"
    /\ phys[d] = "null" /\ phys' = [phys EXCEPT ![d] = "down"]
    /\ UNCHANGED <<admin, fpc, swport, pending, switch, running, tx, fate, rx>>

(* The physical NIC's driver (not in this repository) brings it up. *)
PhysUp(d) ==
    /\ fpc[d] # "halted" /\ phys[d] = "down" /\ phys' = [phys EXCEPT ![d] = "up"]
    /\ UNCHANGED <<admin, fpc, swport, pending, switch, running, tx, fate, rx>>

(* The stack (ether_output, not in this repository) queues an mbuf on    *)
(* if_snd of a running interface.                                          *)
Output(d) ==
    /\ fpc[d] = "up" /\ running[d] /\ tx[d] = "none"
    /\ Cardinality({e \in Doms : tx[e] # "none"}) < MaxFrames
    /\ tx' = [tx EXCEPT ![d] = "ifq"]
    /\ UNCHANGED <<admin, fpc, swport, pending, switch, running, phys, fate, rx>>

(* rump_virtif_pktforward_direct(phys_ifp, m): a NIC that is not running  *)
(* is left alone and m with it; otherwise if_transmit_lock takes m.        *)
PktforwardDirect(d) == IF phys[d] = "up" THEN {"nic"} ELSE {}

(* Mutant: VIFHYPER_SEND returns 0 on every path. *)
VifSendRcZero(d) == 0

(* VIFHYPER_SEND: in direct access pktforward_direct and -1; otherwise     *)
(* frontend_send copies m into the channel and 0.                           *)
VifSendRc(d) == IF direct_access[d] = 1 THEN -1 ELSE 0

VifSendFate(d) == IF direct_access[d] = 1 THEN PktforwardDirect(d) ELSE {}

(* virtif_start: IF_DEQUEUE, VIFHYPER_SEND, and m_freem if it returned 0. *)
(* pktforward_direct dereferences phys_ifp, which is NULL on a domain      *)
(* without a physical NIC.                                                  *)
VirtifStart(d) ==
    /\ fpc[d] = "up" /\ tx[d] = "ifq"
    /\ tx' = [tx EXCEPT ![d] = "sent"]
    /\ IF direct_access[d] = 1 /\ phys[d] = "null"
       THEN fpc' = [fpc EXCEPT ![d] = "halted"] /\ UNCHANGED fate
       ELSE /\ fate' = [fate EXCEPT ![d] = VifSendFate(d)
                                     \cup (IF VifSendRc(d) = 0 THEN {"free"} ELSE {})]
            /\ UNCHANGED fpc
    /\ UNCHANGED <<admin, swport, pending, switch, running, phys, rx>>

(* rump_virtif_pktdeliver_direct(virt_ifp, m): ether_input if the         *)
(* interface runs; otherwise it returns, and nobody frees m.                *)
PktdeliverDirect(d) == IF running[d] THEN "stack" ELSE "unowned"

(* rumpuser_network_receive for a frame of the physical NIC: in direct    *)
(* access rump_virtif_pktdeliver_direct(virt_ifp, m) hands it to the stack *)
(* if the interface runs, and leaves it alone otherwise, and -1; else      *)
(* BMK_ENOENT, and the frame takes the physical interface's path.          *)
NetworkReceive(d) ==
    /\ fpc[d] # "halted" /\ phys[d] = "up" /\ rx[d] = "wire"
    /\ Cardinality({e \in Doms : rx[e] # "wire"}) < MaxFrames
    /\ rx' = [rx EXCEPT ![d] = IF direct_access[d] = 0 THEN "phys"
                                ELSE PktdeliverDirect(d)]
    /\ UNCHANGED <<admin, fpc, swport, pending, switch, running, phys, tx, fate>>

-----------------------------------------------------------------------------
Admin ==
    \/ IoctlCleanup
    \/ \E d \in Doms : IoctlBind(d) \/ IoctlSwitch(d)

Domain(d) ==
    \/ VirtifClone(d) \/ VirtifInit(d) \/ VirtifStop(d)
    \/ NetworkInitPhys(d) \/ PhysUp(d)
    \/ Output(d) \/ VirtifStart(d) \/ NetworkReceive(d)

Next ==
    \/ Admin
    \/ \E d \in Doms : SwitchHandler(d) \/ Switcher(d) \/ Domain(d)

(* A pending event on an unmasked port is delivered, and the switcher     *)
(* thread, once runnable, is scheduled: other threads of the domain yield *)
(* or block.  What the administrator, the stack and the NICs do is not up *)
(* to the code.                                                             *)
Spec ==
    /\ Init /\ [][Next]_vars
    /\ \A d \in Doms : WF_vars(SwitchHandler(d)) /\ WF_vars(Switcher(d))

-----------------------------------------------------------------------------
TypeOK ==
    /\ table \in [1 .. TableSize -> [domid : Doms \cup {NoDom}, port : Doms \cup {Err}]]
    /\ cmds \in 0 .. MaxCmds
    /\ fpc \in [Doms -> {"off", "up", "halted"}]
    /\ swport \in [Doms -> {"none", "unbound", "bound"}]
    /\ switchers \in [Doms -> {-1, 0, 1}]
    /\ swpc \in [Doms -> {"none", "start", "store", "prepare", "block", "callback",
                          "asleep", "switch"}]
    /\ direct_access \in [Doms -> {0, 1}]
    /\ phys \in [Doms -> {"null", "down", "up"}]
    /\ tx \in [Doms -> {"none", "ifq", "sent"}] /\ fate \in [Doms -> SUBSET {"nic", "free"}]
    /\ rx \in [Doms -> {"wire", "stack", "phys", "unowned"}]

(* The mode of a domain changes only in answer to a switch event handled  *)
(* since its last change: the switcher thread, its block callback and the *)
(* handler's exchange never run rump_virtif_switch on their own.           *)
NoSpuriousSwitch ==
    [][\A d \in Doms : direct_access'[d] # direct_access[d] => requested[d]]_vars

(* A switch event that finds switchers 0 (the switcher asleep) or -1 (on  *)
(* its way to sleep) is eventually followed by a toggle of direct_access:  *)
(* the handler's wake and switch_callback's failed CAS leave no window in  *)
(* which the thread sleeps with the request unseen.                         *)
SwitchServed == \A d \in Doms : owed[d] ~> (~owed[d] \/ fpc[d] = "halted")

(* An outbound mbuf is never both taken by the NIC and freed by           *)
(* virtif_start: VIFHYPER_SEND returns 0, the caller's cue to free, only   *)
(* on the path that copied the frame.                                       *)
ExclusiveOwnership == \A d \in Doms : ~({"nic", "free"} \subseteq fate[d])
====
