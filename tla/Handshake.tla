------------------------------ MODULE Handshake ------------------------------
(***************************************************************************)
(* The control plane that connects application domains to the network     *)
(* domain (src/platform/hw/xen): backend_init, backend_connect and         *)
(* get_dom on the backend, frontend_init and frontend_reconnecter on each  *)
(* frontend, and the hypervisor's roster of registered frontends.          *)
(*                                                                         *)
(* A session is the grant mapping of one frontend's channel pair into the *)
(* backend's per-domain arrays (tx_aring[dom], rx_fring[dom], ...) and the *)
(* receiver thread created for it; the mapping itself is abstracted to     *)
(* the frontend whose grants it maps.  Event-channel ports are abstracted  *)
(* to what identifies them: the backend's regular welcome ports by a       *)
(* generation number, a frontend's hello port by the frontend and its own  *)
(* generation number.                                                      *)
(*                                                                         *)
(* The hypervisor side of RUMPRUN_SERVICE_* is not in this repository; it  *)
(* is modelled from the interface the code relies on: REGISTER_APP adds a  *)
(* frontend at the next roster position, or updates its entry in place if *)
(* it is already there; FETCH and RECONNECT return the roster; QUERY       *)
(* returns the welcome port the backend registered last; the roster holds *)
(* at most RUMPRUN_NUM_OF_APPS entries (the size of the arrays FETCH and   *)
(* RECONNECT fill).  Binding an interdomain port succeeds only on an       *)
(* unbound port of a live domain; a restarted backend is a new domain, so  *)
(* the ports of the old one are gone.                                      *)
(***************************************************************************)
EXTENDS Integers, Sequences, FiniteSets

CONSTANTS
    Apps,           \* the application domains
    NumApps,        \* RUMPRUN_NUM_OF_APPS
    MaxRestarts,    \* bound on backend restarts
    NoApp           \* an unmapped session

ASSUME NumApps \in Nat \ {0} /\ MaxRestarts \in Nat /\ NoApp \notin Apps

(* The per-domain arrays, one slot past their end included: a dom the     *)
(* bound check admits is written there.                                    *)
Doms == 0 .. NumApps

VARIABLES
    roster,         \* the hypervisor's app_data: <<[app, gen of hello port]>>
    welcome,        \* the welcome port the backend registered; 0 for none
    wopen,          \* welcome ports of the live backend not yet bound
    wlive,          \* welcome ports of the live backend
    nextWelcome,    \* the next welcome port the backend allocates
    frontend_dom,   \* backend.c frontend_dom
    reconnection,   \* backend.c reconnection
    session,        \* whose grants backend_map[dom] maps, per dom
    rcport,         \* reconnect_welcome_port[i]: the hello port it is bound to
    restarts,       \* backend restarts so far
    inbox,          \* notifications pending at the backend
    bhalted,        \* the backend called bmk_platform_halt
    fpc,            \* where each frontend is in frontend_init
    fwel,           \* network_dom_info.welcome_port as each frontend queried it
    hgen,           \* app_dom_info.hello_port: generation of the current one
    hmask,          \* the current hello port is still masked
    hello,          \* hello ports with a notification pending, per frontend
    reconnecters,   \* frontend.c reconnecters, per frontend
    rpc,            \* where each frontend's reconnecter is
    oldh,           \* the reconnecter's old_hello_port
    lastConn        \* history: caller and dom of the last backend_connect

vars == <<roster, welcome, wopen, wlive, nextWelcome, frontend_dom,
          reconnection, session, rcport, restarts, inbox, bhalted, fpc, fwel,
          hgen, hmask, hello, reconnecters, rpc, oldh, lastConn>>

bvars == <<welcome, wopen, wlive, nextWelcome, frontend_dom, reconnection,
           session, rcport, restarts, bhalted, lastConn>>
rvars == <<reconnecters, rpc, oldh>>

Slots == 0 .. NumApps - 1
NoPort == [app |-> NoApp, gen |-> 0]
NoConn == [caller |-> NoApp, dom |-> 0]
Gens == Nat

Registered(a) == \E i \in 1 .. Len(roster) : roster[i].app = a
Connected(a) == \E d \in Doms : session[d] = a

(* RUMPRUN_SERVICE_REGISTER_APP (hypervisor): update the caller's entry   *)
(* in place, or append it while the roster has room.                      *)
CanRegister(a) == Registered(a) \/ Len(roster) < NumApps
XenRegister(a, g) ==
    IF Registered(a)
    THEN [i \in 1 .. Len(roster) |->
             IF roster[i].app = a THEN [app |-> a, gen |-> g] ELSE roster[i]]
    ELSE Append(roster, [app |-> a, gen |-> g])

(* Mutant: app_dom_info is indexed by dom + 1.                           *)
FetchNext(dom) == IF dom + 1 < Len(roster) THEN roster[dom + 2].app ELSE NoApp

(* RUMPRUN_SERVICE_FETCH as backend_connect reads it: app_dom_info[dom]   *)
Fetch(dom) == IF dom < Len(roster) THEN roster[dom + 1].app ELSE NoApp

(* get_dom: the reconnect_welcome_port the notification came in on, or -1 *)
(* for any other port.                                                      *)
GetDom(m) == IF m.kind = "hello" THEN m.slot ELSE -1

(* The domains backend_receive floods ARP and broadcast frames to.         *)
FloodDoms == 0 .. frontend_dom - 1

(* backend_init (first boot): no frontend is active in the roster, so the *)
(* regular routine allocates welcome port 1 and registers it.               *)
Init ==
    /\ roster = <<>>
    /\ welcome = 1 /\ wopen = {1} /\ wlive = {1} /\ nextWelcome = 2
    /\ frontend_dom = 0 /\ reconnection = 0
    /\ session = [d \in Doms |-> NoApp]
    /\ rcport = [i \in Slots |-> NoPort]
    /\ restarts = 0 /\ inbox = {} /\ bhalted = FALSE
    /\ fpc = [a \in Apps |-> "off"]
    /\ fwel = [a \in Apps |-> 0]
    /\ hgen = [a \in Apps |-> 0]
    /\ hmask = [a \in Apps |-> TRUE]
    /\ hello = [a \in Apps |-> {}]
    /\ reconnecters = [a \in Apps |-> 1]
    /\ rpc = [a \in Apps |-> "start"]
    /\ oldh = [a \in Apps |-> 0]
    /\ lastConn = NoConn

-----------------------------------------------------------------------------
(* frontend_init                                                           *)

(* RUMPRUN_SERVICE_QUERY; the rings are set up and the receiver,          *)
(* reconnecter and switcher threads created (reconnecters = 1).            *)
FrontQuery(a) ==
    /\ fpc[a] = "off"
    /\ fwel' = [fwel EXCEPT ![a] = welcome]
    /\ fpc' = [fpc EXCEPT ![a] = "bind"]
    /\ UNCHANGED <<roster, inbox, hgen, hmask, hello, rvars, bvars>>

(* Bind to the welcome port, allocate the event port and a new hello port *)
(* (masked); a failed bind halts the frontend.                             *)
FrontBind(a) ==
    /\ fpc[a] = "bind"
    /\ IF fwel[a] \in wopen /\ ~bhalted
       THEN /\ wopen' = wopen \ {fwel[a]}
            /\ hgen' = [hgen EXCEPT ![a] = 1]
            /\ fpc' = [fpc EXCEPT ![a] = "register"]
       ELSE /\ fpc' = [fpc EXCEPT ![a] = "halted"]
            /\ UNCHANGED <<wopen, hgen>>
    /\ UNCHANGED <<roster, welcome, wlive, nextWelcome, frontend_dom,
                   reconnection, session, rcport, restarts, bhalted, lastConn,
                   inbox, fwel, hmask, hello, rvars>>

(* Mutant: a failed REGISTER_APP is only reported, and boot goes on.      *)
FrontRegisterNoHalt(a) ==
    /\ fpc[a] = "register"
    /\ roster' = IF CanRegister(a) THEN XenRegister(a, hgen[a]) ELSE roster
    /\ fpc' = [fpc EXCEPT ![a] = "notify"]
    /\ UNCHANGED <<inbox, fwel, hgen, hmask, hello, rvars, bvars>>

(* status = RUMPRUN_FRONTEND_ACTIVE; RUMPRUN_SERVICE_REGISTER_APP, whose  *)
(* failure halts.                                                          *)
FrontRegister(a) ==
    /\ fpc[a] = "register"
    /\ IF CanRegister(a)
       THEN /\ roster' = XenRegister(a, hgen[a])
            /\ fpc' = [fpc EXCEPT ![a] = "notify"]
       ELSE /\ fpc' = [fpc EXCEPT ![a] = "halted"]
            /\ UNCHANGED roster
    /\ UNCHANGED <<inbox, fwel, hgen, hmask, hello, rvars, bvars>>

(* Mutant: old_hello_port is read after the new hello port is allocated,  *)
(* so the hello goes to the frontend's own unbound port.                  *)
FrontNotifyNewPort(a) ==
    /\ fpc[a] = "notify"
    /\ hmask' = [hmask EXCEPT ![a] = FALSE]
    /\ fpc' = [fpc EXCEPT ![a] = "up"]
    /\ UNCHANGED <<roster, inbox, fwel, hgen, hello, rvars, bvars>>

(* Say hello on the welcome port (old_hello_port), unmask the ports and   *)
(* poll for an IP lease.  A notification to a port of a dead backend is    *)
(* lost.                                                                    *)
FrontNotify(a) ==
    /\ fpc[a] = "notify"
    /\ inbox' = IF fwel[a] \in wlive /\ ~bhalted
                THEN inbox \cup {[kind |-> "welcome", app |-> a, slot |-> 0]}
                ELSE inbox
    /\ hmask' = [hmask EXCEPT ![a] = FALSE]
    /\ fpc' = [fpc EXCEPT ![a] = "up"]
    /\ UNCHANGED <<roster, fwel, hgen, hello, rvars, bvars>>

-----------------------------------------------------------------------------
(* frontend_hello_handler and frontend_reconnecter                          *)

(* A hello is delivered on an unmasked hello port: exchange reconnecters  *)
(* with 1 and wake the reconnecter if it was 0.                            *)
FrontHello(a, g) ==
    /\ g \in hello[a]
    /\ fpc[a] = "up"
    /\ g < hgen[a] \/ ~hmask[a]
    /\ hello' = [hello EXCEPT ![a] = @ \ {g}]
    /\ reconnecters' = [reconnecters EXCEPT ![a] = 1]
    /\ rpc' = IF reconnecters[a] = 0 THEN [rpc EXCEPT ![a] = "reinit"] ELSE rpc
    /\ UNCHANGED <<roster, inbox, fpc, fwel, hgen, hmask, oldh, bvars>>

(* Top of the loop: store -1 and prepare to block.  The thread first runs *)
(* once frontend_init has returned.                                        *)
RStore(a) ==
    /\ rpc[a] = "start" /\ fpc[a] = "up"
    /\ reconnecters' = [reconnecters EXCEPT ![a] = -1]
    /\ rpc' = [rpc EXCEPT ![a] = "block"]
    /\ UNCHANGED <<roster, inbox, fpc, fwel, hgen, hmask, hello, oldh, bvars>>

(* Mutant: the callback stores 0 instead of compare-and-swapping it.      *)
RBlockStore(a) ==
    /\ rpc[a] = "block"
    /\ reconnecters' = [reconnecters EXCEPT ![a] = 0]
    /\ rpc' = IF reconnecters[a] = -1 THEN [rpc EXCEPT ![a] = "asleep"]
                                      ELSE [rpc EXCEPT ![a] = "reinit"]
    /\ UNCHANGED <<roster, inbox, fpc, fwel, hgen, hmask, hello, oldh, bvars>>

(* bmk_sched_block runs reconnect_callback: CAS -1 -> 0 and sleep, or, if *)
(* a hello came in since the store, wake itself and run a pass.            *)
RBlock(a) ==
    /\ rpc[a] = "block"
    /\ IF reconnecters[a] = -1
       THEN /\ reconnecters' = [reconnecters EXCEPT ![a] = 0]
            /\ rpc' = [rpc EXCEPT ![a] = "asleep"]
       ELSE /\ rpc' = [rpc EXCEPT ![a] = "reinit"]
            /\ UNCHANGED reconnecters
    /\ UNCHANGED <<roster, inbox, fpc, fwel, hgen, hmask, hello, oldh, bvars>>

(* One pass: tear down and rebuild the rings, QUERY, allocate a new event *)
(* port and a new (masked) hello port, remember the old one and           *)
(* REGISTER_APP again.                                                      *)
RReinit(a) ==
    /\ rpc[a] = "reinit"
    /\ oldh' = [oldh EXCEPT ![a] = hgen[a]]
    /\ hgen' = [hgen EXCEPT ![a] = @ + 1]
    /\ hmask' = [hmask EXCEPT ![a] = TRUE]
    /\ roster' = XenRegister(a, hgen[a] + 1)
    /\ rpc' = [rpc EXCEPT ![a] = "notify"]
    /\ UNCHANGED <<inbox, fpc, fwel, hello, reconnecters, bvars>>

(* Say hello on old_hello_port, which reaches the backend only if the live *)
(* backend bound it in backend_init; unmask the new ports.                 *)
RNotify(a) ==
    /\ rpc[a] = "notify"
    /\ inbox' = IF \E i \in Slots : rcport[i] = [app |-> a, gen |-> oldh[a]]
                   /\ ~bhalted
                THEN inbox \cup
                     {[kind |-> "hello", app |-> a,
                       slot |-> CHOOSE i \in Slots :
                                  rcport[i] = [app |-> a, gen |-> oldh[a]]]}
                ELSE inbox
    /\ hmask' = [hmask EXCEPT ![a] = FALSE]
    /\ rpc' = [rpc EXCEPT ![a] = "start"]
    /\ UNCHANGED <<roster, fpc, fwel, hgen, hello, reconnecters, oldh, bvars>>
-----------------------------------------------------------------------------
(* backend_welcome_handler -> backend_connect                              *)

(* The domain a notification is served as: get_dom while reconnection is  *)
(* non-zero, else the next frontend_dom.                                    *)
(* Mutant: the test of reconnection is dropped, get_dom serves every      *)
(* notification.                                                            *)
ConnectDomAlwaysGetDom(m) == GetDom(m)

ConnectDom(m) == IF reconnection > 0 THEN GetDom(m) ELSE frontend_dom

(* Allocate and register a new regular welcome port while _reconnection  *)
(* <= 1.                                                                    *)
Rearm ==
    IF reconnection <= 1
    THEN /\ welcome' = nextWelcome
         /\ wopen' = wopen \cup {nextWelcome}
         /\ wlive' = wlive \cup {nextWelcome}
         /\ nextWelcome' = nextWelcome + 1
    ELSE UNCHANGED <<welcome, wopen, wlive, nextWelcome>>

(* Mutant: the goto out for _reconnection == 0 is missing.                 *)
CountdownNoGoto == reconnection - 1

(* Mutant: the last reconnection also takes the goto out.                  *)
CountdownKeepLast == IF reconnection <= 1 THEN reconnection ELSE reconnection - 1

(* The counter after the connect: unchanged if it was 0 (goto out), else  *)
(* atomic_fetch_sub.                                                        *)
Countdown == IF reconnection = 0 THEN 0 ELSE reconnection - 1

(* atomic_fetch_add(&frontend_dom, 1) on the regular path                  *)
NextFrontendDom == IF reconnection > 0 THEN frontend_dom ELSE frontend_dom + 1

(* backend_connect, run to completion by the event handler: pick the dom, *)
(* FETCH the roster, map app_dom_info[dom]'s grants into backend_map[dom] *)
(* (gntmap_init, no unmap of what was there), create its receiver, bind   *)
(* its event port, then rearm the welcome port and count the reconnection *)
(* down.  get_dom failing or dom > RUMPRUN_NUM_OF_APPS halts.              *)
BackendConnect(m) ==
    LET dom == ConnectDom(m) IN
    /\ m \in inbox /\ ~bhalted
    /\ inbox' = inbox \ {m}
    /\ frontend_dom' = NextFrontendDom
    /\ IF dom = -1 \/ dom > NumApps
       THEN /\ bhalted' = TRUE
            /\ UNCHANGED <<welcome, wopen, wlive, nextWelcome, reconnection,
                           session, lastConn>>
       ELSE /\ session' = [session EXCEPT ![dom] = Fetch(dom)]
            /\ lastConn' = [caller |-> m.app, dom |-> dom]
            /\ Rearm
            /\ reconnection' = Countdown
            /\ UNCHANGED bhalted
    /\ UNCHANGED <<roster, rcport, restarts, fpc, fwel, hgen, hmask, hello, rvars>>

(* The network domain restarts and runs backend_init: RECONNECT returns   *)
(* the roster; every ACTIVE entry counts one reconnection and has its      *)
(* hello port bound as reconnect_welcome_port[i].  With none, the regular *)
(* routine allocates a welcome port; otherwise the registered welcome port *)
(* is the zero-initialised one.  Then every bound hello port is notified.  *)
BackendRestart ==
    LET n == Len(roster) IN
    /\ restarts < MaxRestarts
    /\ restarts' = restarts + 1
    /\ reconnection' = n
    /\ rcport' = [i \in Slots |-> IF i < n THEN roster[i + 1] ELSE NoPort]
    /\ IF n = 0
       THEN /\ welcome' = nextWelcome /\ wopen' = {nextWelcome}
            /\ wlive' = {nextWelcome} /\ nextWelcome' = nextWelcome + 1
       ELSE /\ welcome' = 0 /\ wopen' = {} /\ wlive' = {}
            /\ UNCHANGED nextWelcome
    /\ hello' = [a \in Apps |->
                    hello[a] \cup {roster[i].gen : i \in {j \in 1 .. n : roster[j].app = a}}]
    /\ frontend_dom' = 0
    /\ session' = [d \in Doms |-> NoApp]
    /\ inbox' = {} /\ bhalted' = FALSE /\ lastConn' = NoConn
    /\ UNCHANGED <<roster, fpc, fwel, hgen, hmask, rvars>>

-----------------------------------------------------------------------------
Frontend(a) ==
    \/ FrontQuery(a) \/ FrontBind(a) \/ FrontRegister(a) \/ FrontNotify(a)
    \/ \E g \in hello[a] : FrontHello(a, g)
    \/ RStore(a) \/ RBlock(a) \/ RReinit(a) \/ RNotify(a)

Backend == \E m \in inbox : BackendConnect(m)

Next ==
    \/ \E a \in Apps : Frontend(a)
    \/ Backend
    \/ BackendRestart

(* Every domain runs on its own virtual CPU and pending event channels are *)
(* delivered, so each frontend's steps other than booting, and the        *)
(* backend's handling of its notifications, are weakly fair.  Whether a    *)
(* frontend boots and whether the backend restarts is not up to the code.  *)
Booted(a) == Frontend(a) /\ fpc[a] # "off"

Spec ==
    /\ Init /\ [][Next]_vars
    /\ \A a \in Apps : WF_vars(Booted(a))
    /\ WF_vars(Backend)

-----------------------------------------------------------------------------
TypeOK ==
    /\ roster \in Seq([app : Apps, gen : Gens]) /\ Len(roster) <= NumApps
    /\ welcome \in Gens /\ wopen \subseteq wlive /\ wlive \subseteq 1 .. nextWelcome - 1
    /\ frontend_dom \in Nat /\ reconnection \in 0 .. NumApps
    /\ session \in [Doms -> Apps \cup {NoApp}]
    /\ rcport \in [Slots -> [app : Apps \cup {NoApp}, gen : Gens]]
    /\ inbox \subseteq [kind : {"welcome", "hello"}, app : Apps, slot : Slots]
    /\ fpc \in [Apps -> {"off", "bind", "register", "notify", "up", "halted"}]
    /\ hello \in [Apps -> SUBSET Gens]
    /\ reconnecters \in [Apps -> {-1, 0, 1}]
    /\ rpc \in [Apps -> {"start", "block", "asleep", "reinit", "notify"}]

(* The reconnecter is asleep exactly when reconnecters is 0: the hello    *)
(* handler's exchange then wakes it, and a hello while it is awake or     *)
(* about to block finds reconnecters non-zero and leaves the wake to       *)
(* reconnect_callback.                                                      *)
SleepIffIdle == \A a \in Apps : (rpc[a] = "asleep") = (reconnecters[a] = 0)

(* backend_connect maps the grants of the frontend that said hello: the   *)
(* dom it picks (frontend_dom or get_dom) is the caller's roster position, *)
(* so app_dom_info[dom] describes the caller and not another frontend.     *)
ConnectMapsCaller == lastConn.caller # NoApp => session[lastConn.dom] = lastConn.caller

(* backend_receive floods ARP and broadcast frames to domains 0 ..        *)
(* frontend_dom - 1; every domain with a mapped session is among them.     *)
FloodCoversSessions == \A d \in Doms : session[d] # NoApp => d \in FloodDoms

(* Before any restart of the network domain, ConnectMapsCaller holds;     *)
(* the run handshake_collision shows that it fails after one.              *)
ConnectMapsCallerBeforeRestart == restarts = 0 => ConnectMapsCaller

(* A frontend that boots is eventually connected, or halts, unless the    *)
(* network domain restarts first (a restart can absorb its hello, see      *)
(* RecoveryCompletes).                                                       *)
JoinCompletes ==
    \A a \in Apps : (fpc[a] # "off" /\ restarts = 0)
                      ~> (Connected(a) \/ fpc[a] = "halted" \/ restarts > 0)

(* backend_connect never serves a dom of RUMPRUN_NUM_OF_APPS, one past the *)
(* end of the per-domain arrays: the bound check of backend_connect                *)
(* (dom > RUMPRUN_NUM_OF_APPS) lets that dom through, so only the way doms *)
(* are handed out (frontend_dom, get_dom) and the roster bound keep it out.*)
ConnectInBounds == lastConn.caller # NoApp => lastConn.dom < NumApps

(* No frontend halts in frontend_init.                                     *)
NoFrontendHalts == \A a \in Apps : fpc[a] # "halted"

(* The backend never halts in backend_connect: no welcome notification    *)
(* reaches it while it is reconnecting (get_dom = -1), and dom stays in    *)
(* bounds.                                                                  *)
BackendNeverHalts == ~bhalted

(* reconnection counts exactly the recovered slots whose frontend has not *)
(* yet said hello back: each is decremented once, and the regular welcome *)
(* port opens when the last one reconnects.                                *)
ReconnectionCounts ==
    reconnection = Cardinality({i \in Slots : rcport[i] # NoPort /\ session[i] = NoApp})

(* A backend that restarts with active frontends eventually finishes      *)
(* reconnecting them and opens its welcome port again.                     *)
RecoveryCompletes == reconnection > 0 ~> reconnection = 0
=============================================================================
