--------------------------- MODULE WgQuickMonitor ---------------------------
(***************************************************************************)
(* wg-quick on FreeBSD, OpenBSD and macOS (src/src/wg-quick/freebsd.bash,  *)
(* openbsd.bash, darwin.bash).  A default route there is two routes to the *)
(* halves of the address space, and each endpoint of a peer gets a direct  *)
(* route via the gateway of its family.  A daemon follows the routing      *)
(* table: on every message of `route -n monitor` it looks for other        *)
(* gateways and endpoints, and on macOS sets the name servers again; it    *)
(* cleans up when the interface has gone.                                  *)
(*                                                                         *)
(* "up" is the process that brings the interface up, "mon" the daemon it   *)
(* forks, "down" the process that takes the interface down.  Another       *)
(* process creates interfaces, gateways and endpoints change, and network  *)
(* services come and go.                                                   *)
(***************************************************************************)
EXTENDS Naturals, FiniteSetsExt

CONSTANTS
    Scenarios,  \* the platform ("freebsd", "openbsd", "darwin"), the families with
                \* a default route (AUTO_ROUTE4, AUTO_ROUTE6), the first gateways,
                \* whether the implementation is in userspace, and the bound
                \* on the changes that others make
    Gateways, Endpoints, FamilyOf(_),
    Services,   \* the network services of macOS
    NULL,
    MaxFaults   \* failing commands and signals

Families == {"v4", "v6"}
VPN == "vpn"
Actors == {"up", "mon", "down"}

VARIABLES
    sys,   \* interfaces, routes and name servers
    sh,    \* by process: the state of the shell
    hist   \* what the properties recall, and the bounds

monVars == <<sys, sh, hist>>

(* A shell that has just started, and one that has ended. *)
Fresh(label) ==
    [pc |-> label, trap |-> FALSE, ret |-> NULL, real |-> NULL, existing |-> {}, HAVE_SET_DNS |-> FALSE,
     gw |-> [f \in Families |-> NULL], ENDPOINTS |-> {}, old |-> {}, del |-> {}, add |-> {}, kept |-> {}, todo |-> {},
     dns |-> [s \in Services |-> NULL], alarm |-> FALSE]
Ended == Fresh("end")

MonInit ==
    /\ \E c \in Scenarios :
         /\ sys = [platform |-> c.platform, auto |-> c.auto, user |-> c.user, link |-> NULL, going |-> FALSE,
                   sock |-> FALSE, taken |-> {}, gw |-> c.gw,
                   endpoints |-> {CHOOSE e \in Endpoints : TRUE}, half |-> {},
                   direct |-> [e \in Endpoints |-> NULL], listening |-> FALSE, pending |-> FALSE,
                   resolv |-> "own", backup |-> NULL,
                   service |-> [s \in Services |-> IF c.platform = "darwin" THEN "own" ELSE NULL]]
         /\ hist = [unheard |-> FALSE, deaf |-> FALSE, excused |-> FALSE, changes |-> c.changes, faults |-> 0]
    /\ sh = [a \in Actors |-> Fresh(IF a = "up" THEN "check" ELSE "off")]

platform == sys.platform

-----------------------------------------------------------------------------
(* The shell.                                                                  *)
To(a, label) == [sh[a] EXCEPT !.pc = label]
Shell(a, s) == sh' = [sh EXCEPT ![a] = s]
Do(a, label, s) == sh[a].pc = label /\ Shell(a, s) /\ UNCHANGED <<sys, hist>>

(* The script of a ends: by its trap, or at once. *)
Leave(s) == IF s.trap THEN [s EXCEPT !.pc = "del_if", !.trap = FALSE] ELSE Ended
Misfortune(excuse) ==
    /\ hist.faults < MaxFaults
    /\ hist' = [hist EXCEPT !.faults = @ + 1, !.excused = @ \/ excuse]

(* A command of `up` that makes n of sys and is followed by s, or fails. *)
Cmd(label, n, s) ==
    /\ sh["up"].pc = label
    /\ \/ sys' = n /\ Shell("up", s) /\ UNCHANGED hist
       \/ Misfortune(FALSE) /\ Shell("up", Leave(sh["up"])) /\ UNCHANGED sys

(* A change that `route -n monitor` tells of. *)
Told(n) == [n EXCEPT !.pending = n.listening]
NewLink(i) == [sys EXCEPT !.link = i, !.sock = TRUE]
(* An interface that is removed is announced first and disappears afterwards,  *)
(* with all its routes.  (What the announcement and the disappearance are to a *)
(* listener is the kernel's.)                                                  *)
Announced(n) == Told([n EXCEPT !.going = TRUE])
NoLink(n) == [n EXCEPT !.link = NULL, !.going = FALSE, !.sock = FALSE, !.taken = @ \ {n.link}, !.half = {}]
Unannounced == [hist EXCEPT !.deaf = ~sys.listening]

-----------------------------------------------------------------------------
cmd_up == Do("up", "check", [To("up", "add_if") EXCEPT !.trap = TRUE])

(* On FreeBSD the name may have been taken since it was looked up: the status  *)
(* that add_if returns is then that of the `if', and "up" goes on with an      *)
(* interface that is not its own.                                              *)
add_if_freebsd ==
    /\ platform = "freebsd"
    /\ Cmd("add_if", NewLink(0), [To("up", "pre_up") EXCEPT !.real = 0])

(* OpenBSD takes the first number that is free, and starts again if another    *)
(* process has taken it meanwhile.                                             *)
Unused(existing) == Min((0..Cardinality(existing)) \ existing)
add_if_openbsd ==
    /\ platform = "openbsd"
    /\ \/ Do("up", "add_if", [To("up", "create") EXCEPT !.existing = sys.taken])
       \/ LET i == Unused(sh["up"].existing)
          IN IF i \in sys.taken THEN Do("up", "create", To("up", "add_if"))
             ELSE Cmd("create", NewLink(i), [To("up", "pre_up") EXCEPT !.real = i])

(* macOS starts the userspace implementation and then learns from a file which *)
(* interface it got.                                                           *)
add_if_darwin == platform = "darwin" /\ Cmd("add_if", NewLink(0), To("up", "real"))
get_real_interface ==
    /\ sh["up"].pc = "real"
    /\ \/ Do("up", "real", [To("up", "pre_up") EXCEPT !.real = sys.link])
       \/ Misfortune(TRUE) /\ Shell("up", Leave(sh["up"])) /\ UNCHANGED sys

(* The steps that only touch the interface, which goes with all it has. *)
PreUp == Cmd("pre_up", sys, To("up", "set_config"))
set_config == Cmd("set_config", sys, To("up", "add_addr"))
add_addr == Cmd("add_addr", sys, To("up", "set_mtu"))
set_mtu == Cmd("set_mtu", sys, To("up", "up_if"))
up_if == Cmd("up_if", sys, To("up", IF platform = "darwin" THEN "list" ELSE "set_resolv"))

(* FreeBSD recalls that it has set the name servers, OpenBSD looks for its     *)
(* backup.                                                                     *)
set_dns_freebsd ==
    /\ platform = "freebsd"
    /\ \/ Cmd("set_resolv", [sys EXCEPT !.resolv = VPN], To("up", "have_set_dns"))
       \/ Do("up", "have_set_dns", [To("up", "list") EXCEPT !.HAVE_SET_DNS = TRUE])
set_dns_openbsd ==
    /\ platform = "openbsd"
    /\ \/ Cmd("set_resolv", [sys EXCEPT !.backup = sys.resolv], To("up", "nameserver"))
       \/ Cmd("nameserver", [sys EXCEPT !.resolv = VPN], To("up", "list"))

(* Two routes for each default route; then the direct routes, on macOS the     *)
(* name servers, and the daemon, which inherits the variables.                 *)
ListRoutes == Do("up", "list", [To("up", "routes") EXCEPT !.todo = sys.auto])
add_route ==
    IF sh["up"].todo = {}
    THEN Do("up", "routes", IF sys.auto = {} THEN To("up", "dns")
                            ELSE [To("up", "gateways") EXCEPT !.ret = "dns"])
    ELSE \E f \in sh["up"].todo :
           Cmd("routes", Told([sys EXCEPT !.half = @ \cup {f}]), [sh["up"] EXCEPT !.todo = @ \ {f}])
UpDns ==
    Do("up", "dns", IF platform = "darwin" THEN [To("up", "set_dns") EXCEPT !.ret = "fork"] ELSE To("up", "fork"))
ForkMonitor ==
    /\ sh["up"].pc = "fork"
    /\ sh' = [sh EXCEPT !["up"].pc = "post_up",
                        !["mon"] = [sh["up"] EXCEPT !.pc = "listen", !.trap = TRUE]]
    /\ UNCHANGED <<sys, hist>>
PostUp == Cmd("post_up", sys, Ended)

-----------------------------------------------------------------------------
(* set_endpoint_direct_route, by "up" or by the daemon.                        *)
collect_gateways(a) ==
    /\ sh[a].pc = "gateways"
    /\ Shell(a, [To(a, "endpoints") EXCEPT !.gw = sys.gw, !.kept = {}, !.old = sh[a].ENDPOINTS,
                                           !.ENDPOINTS = {},
                                           !.todo = IF sys.gw # sh[a].gw THEN {"all"} ELSE {}])
    /\ hist' = [hist EXCEPT !.unheard = FALSE]
    /\ UNCHANGED sys

\* Slip: routes that exist are removed and added again in any case.
RemoveAllOldAlways(a) == TRUE
remove_all_old(a) == sh[a].todo # {}
(* The endpoints that `wg show' tells; on OpenBSD none of IPv6 (Ipc's          *)
(* ReadEndpoints).                                                             *)
Shown == {e \in sys.endpoints : platform = "openbsd" => FamilyOf(e) = "v4"}
collect_endpoints(a) ==
    LET new == IF sys.sock THEN Shown ELSE {}
        old == sh[a].old
    IN Do(a, "endpoints",
          [To(a, "direct") EXCEPT
             !.ENDPOINTS = new, !.todo = {}, !.old = {},
             !.kept = IF remove_all_old(a) THEN {} ELSE new \cap old,
             !.del = IF remove_all_old(a) THEN old \cup new ELSE old \ new,
             !.add = IF remove_all_old(a) THEN new ELSE new \ old])

(* An endpoint is of IPv6 if IPv6 has a default route, else taken for one of    *)
(* IPv4: no command, or one that does nothing.  The daemon is told of commands *)
(* that do nothing, too.                                                       *)
Handled(e) == FamilyOf(e) \in sys.auto
Attempted(e) == Handled(e) \/ "v4" \in sys.auto
Route(e, to) == IF Attempted(e) THEN Told(IF Handled(e) THEN [sys EXCEPT !.direct[e] = to] ELSE sys) ELSE sys
DelDirect(a) ==
    /\ sh[a].pc = "direct"
    /\ \E e \in sh[a].del : Shell(a, [sh[a] EXCEPT !.del = @ \ {e}]) /\ sys' = Route(e, NULL)
    /\ UNCHANGED hist
\* Slip: without a gateway there is no route.
ViaGateway(a, e) == sh[a].gw[FamilyOf(e)]
Via(a, e) == IF sh[a].gw[FamilyOf(e)] = NULL THEN "blackhole" ELSE sh[a].gw[FamilyOf(e)]
AddDirect(a) ==
    /\ sh[a].pc = "direct" /\ sh[a].del = {}
    /\ \E e \in sh[a].add :
         /\ Shell(a, [sh[a] EXCEPT !.add = @ \ {e}, !.kept = IF Attempted(e) THEN @ \cup {e} ELSE @])
         /\ \/ sys' = Route(e, IF sys.direct[e] = NULL THEN Via(a, e) ELSE sys.direct[e]) /\ UNCHANGED hist
            \/ Misfortune(TRUE) /\ sys' = Told(sys)
DirectDone(a) ==
    /\ sh[a].del = {} /\ sh[a].add = {}
    /\ Do(a, "direct", [To(a, sh[a].ret) EXCEPT !.ENDPOINTS = sh[a].kept, !.kept = {}])

-----------------------------------------------------------------------------
(* macOS: the settings of the services that are new are recalled, those of     *)
(* services that have gone forgotten; all services get the new name servers.   *)
Present == {s \in Services : sys.service[s] # NULL}
\* Slip: what a service has now is recalled again.
RecallAgain(dns) == [s \in Services |-> sys.service[s]]
collect_new_service_dns(dns) ==
    [s \in Services |-> IF sys.service[s] # NULL /\ dns[s] # NULL THEN dns[s] ELSE sys.service[s]]
set_dns_darwin(a) ==
    \/ Do(a, "set_dns", [To(a, "set_service") EXCEPT !.dns = collect_new_service_dns(sh[a].dns), !.todo = Present])
    \/ /\ sh[a].pc = "set_service"
       /\ \E s \in sh[a].todo :
            /\ Shell(a, [sh[a] EXCEPT !.todo = @ \ {s}])
            /\ sys' = [sys EXCEPT !.service[s] = IF @ = NULL THEN NULL ELSE VPN]
       /\ UNCHANGED hist
    \/ sh[a].todo = {} /\ Do(a, "set_service", To(a, sh[a].ret))

(* The daemon.  Its own changes of routes come back to it as messages.  On     *)
(* macOS an alarm repeats set_dns two seconds after the last message.          *)
Listen ==
    /\ sh["mon"].pc = "listen" /\ Shell("mon", To("mon", "wait"))
    /\ sys' = [sys EXCEPT !.listening = TRUE]
    /\ UNCHANGED hist
\* Slip: `|| break' is left out.
LinkThereAssumed == TRUE
LinkThere == sys.link # NULL
Message ==
    /\ sh["mon"].pc = "wait" /\ sys.pending
    /\ sys' = [sys EXCEPT !.pending = FALSE, !.listening = LinkThere]
    /\ Shell("mon", IF ~LinkThere THEN To("mon", "del_routes")
                    ELSE IF sys.auto # {} THEN [To("mon", "gateways") EXCEPT !.ret = "again"]
                    ELSE To("mon", "again"))
    /\ hist' = [hist EXCEPT !.deaf = @ \/ sys.going]
(* macOS: set_mtu fails if the interface has gone, and the daemon ends.        *)
Again ==
    \/ Do("mon", "again", IF platform = "darwin" THEN [To("mon", "set_dns") EXCEPT !.ret = "wait", !.alarm = TRUE]
                          ELSE To("mon", "wait"))
    \/ /\ sh["mon"].pc = "again" /\ platform = "darwin" /\ sys.link = NULL
       /\ Shell("mon", To("mon", "del_routes")) /\ sys' = [sys EXCEPT !.listening = FALSE, !.pending = FALSE]
       /\ UNCHANGED hist
Alarm ==
    /\ sh["mon"].alarm
    /\ Do("mon", "wait", [To("mon", "set_dns") EXCEPT !.ret = "wait", !.alarm = FALSE])
(* In the middle of the trap the alarm sets the name servers that have been    *)
(* restored already.                                                           *)
AlarmInTrap ==
    /\ sh["mon"].alarm /\ sh["mon"].pc \in {"del_routes", "del_direct", "del_dns"}
    /\ sys' = [sys EXCEPT !.service = [s \in Services |-> IF @[s] = NULL THEN NULL ELSE VPN]]
    /\ Shell("mon", [sh["mon"] EXCEPT !.alarm = FALSE, !.dns = collect_new_service_dns(@)])
    /\ hist' = [hist EXCEPT !.excused = @ \/ sh["mon"].pc = "del_dns"]

-----------------------------------------------------------------------------
(* The trap of "up", and "down".  FreeBSD recalls in a variable whether there  *)
(* are name servers to unset; `down' has no such variable and unsets them      *)
(* behind the interface.                                                       *)
unset_dns(a) ==
    CASE platform = "freebsd" -> IF sh[a].HAVE_SET_DNS \/ a = "down" THEN [sys EXCEPT !.resolv = "own"] ELSE sys
      [] platform = "openbsd" -> IF sys.backup = NULL THEN sys ELSE [sys EXCEPT !.resolv = sys.backup, !.backup = NULL]
      [] OTHER -> sys
del_if(a) ==
    /\ sh[a].pc = "del_if" /\ Shell(a, To(a, "destroy"))
    /\ sys' = (IF a = "down" /\ platform = "freebsd" THEN sys ELSE unset_dns(a))
    /\ UNCHANGED hist
AfterDelIf(a) == To(a, IF a = "up" THEN "del_routes" ELSE "unset_dns")
(* The socket of an implementation in userspace is removed, for which it ends  *)
(* some time later; an interface of the kernel is destroyed, and may answer    *)
(* `wg show' or not until it has disappeared.  FreeBSD polls until it has,     *)
(* with OpenBSD `ifconfig destroy' returns then, macOS does not wait.          *)
Destroy(a) ==
    /\ sh[a].pc = "destroy"
    /\ \/ /\ sys.link = NULL \/ sh[a].real # sys.link
          /\ Shell(a, AfterDelIf(a)) /\ UNCHANGED <<sys, hist>>
       \/ /\ sys.link # NULL /\ sh[a].real = sys.link
          /\ Shell(a, IF platform = "darwin" THEN AfterDelIf(a) ELSE To(a, "gone"))
          /\ IF sys.user THEN sys' = [sys EXCEPT !.sock = FALSE] /\ UNCHANGED hist
             ELSE \E answers \in BOOLEAN : sys' = Announced([sys EXCEPT !.sock = answers]) /\ hist' = Unannounced
       \/ Misfortune(TRUE) /\ Shell(a, Ended) /\ UNCHANGED sys
WaitGone(a) == sys.link = NULL /\ Do(a, "gone", AfterDelIf(a))
DownDns ==
    /\ sh["down"].pc = "unset_dns" /\ Shell("down", Ended)
    /\ sys' = unset_dns("down") /\ UNCHANGED hist

(* The routes of the interface, then the direct routes of the endpoints that   *)
(* the process knows of.                                                       *)
del_routes(a) ==
    \/ /\ sh[a].pc = "del_routes"
       /\ Shell(a, [To(a, "del_direct") EXCEPT !.todo = sh[a].ENDPOINTS, !.del = {}, !.add = {}, !.kept = {}, !.old = {}])
       /\ sys' = IF sys.half # {} /\ sh[a].real = sys.link THEN Told([sys EXCEPT !.half = {}]) ELSE sys
       /\ UNCHANGED hist
    \/ /\ sh[a].pc = "del_direct"
       /\ \E e \in sh[a].todo :
            Shell(a, [sh[a] EXCEPT !.todo = @ \ {e}]) /\ sys' = Told([sys EXCEPT !.direct[e] = NULL])
       /\ UNCHANGED hist
    \/ /\ sh[a].todo = {}
       /\ Do(a, "del_direct", IF a = "mon" /\ platform = "darwin"
                              THEN [To(a, "del_dns") EXCEPT !.todo = {s \in Services : sh[a].dns[s] # NULL}]
                              ELSE Ended)
del_dns ==
    \/ /\ sh["mon"].pc = "del_dns"
       /\ \E s \in sh["mon"].todo :
            /\ Shell("mon", [sh["mon"] EXCEPT !.todo = @ \ {s}])
            /\ sys' = [sys EXCEPT !.service[s] = IF @ = NULL THEN NULL ELSE sh["mon"].dns[s]]
       /\ UNCHANGED hist
    \/ sh["mon"].todo = {} /\ Do("mon", "del_dns", Ended)

cmd_down ==
    /\ sh["down"].pc = "off" /\ sh["up"].pc = "end" /\ sys.link # NULL
    /\ Shell("down", [To("down", "del_if") EXCEPT !.real = sys.link])
    /\ UNCHANGED <<sys, hist>>

-----------------------------------------------------------------------------
(* The others.                                                                 *)
(* Before up_if nobody has looked: a change is then another scenario. *)
Early == {"check", "add_if", "create", "real", "pre_up", "set_config", "add_addr", "set_mtu", "up_if"}
Change == hist.changes > 0 /\ UNCHANGED sh
Changed(heard) == hist' = [hist EXCEPT !.changes = @ - 1, !.unheard = @ \/ ~heard]

GatewayChange(f) ==
    /\ Change /\ Changed(sys.listening) /\ sh["up"].pc \notin Early
    /\ \E g \in (Gateways \cup {NULL}) \ {sys.gw[f]} : sys' = Told([sys EXCEPT !.gw[f] = g])
(* A peer has moved; no message tells of it. *)
Roam ==
    /\ Change /\ Changed(FALSE) /\ sys.sock /\ sh["up"].pc \notin Early
    /\ \E e \in Endpoints : sys.endpoints # {e} /\ sys' = [sys EXCEPT !.endpoints = {e}]
OtherCreates ==
    /\ Change /\ Changed(TRUE)
    /\ \/ platform = "openbsd" /\ sh["up"].pc = "create"
       \/ platform = "freebsd" /\ ~sys.user /\ sh["up"].pc = "add_if" /\ sys.taken = {}
    /\ sys' = [sys EXCEPT !.taken = @ \cup {Unused(@)}]
(* The implementation has seen that its socket has gone, and ends. *)
ImplementationEnds ==
    /\ sys.user /\ sys.link # NULL /\ ~sys.sock /\ ~sys.going
    /\ sys' = Announced(sys) /\ hist' = Unannounced /\ UNCHANGED sh
(* Another message may tell that the interface and its routes have gone. *)
LinkGoes ==
    /\ sys.going /\ UNCHANGED sh
    /\ \/ sys' = NoLink(sys) /\ UNCHANGED hist
       \/ sys.listening /\ sys' = Told(NoLink(sys)) /\ hist' = [hist EXCEPT !.deaf = FALSE]
(* A service that comes back may have kept the name servers it had. *)
ServiceChange(s) ==
    /\ Change /\ platform = "darwin" /\ sh["up"].pc \notin Early
    /\ \/ sys.service[s] # NULL /\ Changed(TRUE) /\ sys' = Told([sys EXCEPT !.service[s] = NULL])
       \/ /\ sys.service[s] = NULL
          /\ \E v \in {"own", VPN} :
               /\ sys' = Told([sys EXCEPT !.service[s] = v])
               /\ hist' = [hist EXCEPT !.changes = @ - 1, !.excused = @ \/ v = VPN]

(* INT or TERM for "up" or the daemon.  A daemon that is moving routes forgets *)
(* the old ones.  FreeBSD does not unset name servers before the variable is   *)
(* set, macOS none before there is a daemon; nor does macOS end the            *)
(* implementation of an interface that it does not know.                       *)
SignalLoses(a) ==
    IF a = "mon" THEN sh[a].pc \in {"endpoints", "direct"}
    ELSE \/ sh[a].pc \in {"have_set_dns", "real"}
         \/ platform = "darwin" /\ sh[a].pc \in {"set_service", "fork"}
Signal(a) ==
    /\ hist.faults < MaxFaults /\ sh[a].trap
    /\ Shell(a, IF a = "mon" THEN [To(a, "del_routes") EXCEPT !.trap = FALSE] ELSE Leave(sh[a]))
    /\ hist' = [hist EXCEPT !.faults = @ + 1, !.excused = @ \/ SignalLoses(a)]
    /\ sys' = IF a = "mon" THEN [sys EXCEPT !.listening = FALSE, !.pending = FALSE] ELSE sys

Direct(a) == collect_gateways(a) \/ collect_endpoints(a) \/ DelDirect(a) \/ AddDirect(a) \/ DirectDone(a)
Up ==
    \/ cmd_up \/ add_if_openbsd \/ add_if_freebsd \/ add_if_darwin \/ get_real_interface \/ PreUp \/ set_config
    \/ add_addr \/ set_mtu \/ up_if \/ set_dns_freebsd \/ set_dns_openbsd \/ ListRoutes \/ add_route \/ Direct("up") \/ UpDns
    \/ set_dns_darwin("up") \/ ForkMonitor \/ PostUp \/ del_if("up") \/ Destroy("up") \/ WaitGone("up")
    \/ del_routes("up")
Monitor ==
    \/ Listen \/ Message \/ Direct("mon") \/ Again \/ set_dns_darwin("mon") \/ Alarm \/ AlarmInTrap
    \/ del_routes("mon") \/ del_dns
Down == del_if("down") \/ Destroy("down") \/ WaitGone("down") \/ DownDns
Others ==
    \/ cmd_down \/ Roam \/ OtherCreates \/ (\E f \in Families : GatewayChange(f))
    \/ (\E s \in Services : ServiceChange(s)) \/ (\E a \in {"up", "mon"} : Signal(a))

Idle(a) ==
    IF a = "mon" THEN \/ sh[a].pc \in {"off", "end"}
                      \/ sh[a].pc = "wait" /\ ~sys.pending /\ ~sh[a].alarm
    ELSE sh[a].pc \in {"off", "end"}
Quiet == \A a \in Actors : Idle(a)
Done == Quiet /\ UNCHANGED monVars

MonNext == Up \/ Monitor \/ Down \/ ImplementationEnds \/ LinkGoes \/ Others \/ Done

(* Every process goes on with its next command, every command returns, an      *)
(* implementation whose socket has gone ends, and an interface that has been   *)
(* announced to go disappears.  The first is weak fairness of Up, Monitor and  *)
(* Down, which are enabled until the process is idle, or waits for the         *)
(* interface to disappear, and change the state of its shell with every step.  *)
(* (Written without ENABLED it is faster to check.)                            *)
Waits(a) == Idle(a) \/ (sh[a].pc = "gone" /\ sys.link # NULL)
Fairness ==
    /\ \A a \in Actors : []<>Waits(a) \/ []<><<sh'[a] # sh[a]>>_monVars
    /\ WF_monVars(ImplementationEnds) /\ WF_monVars(LinkGoes)
MonSpec == MonInit /\ [][MonNext]_monVars /\ Fairness

-----------------------------------------------------------------------------
(* While the daemon waits and has heard of everything, each endpoint that wg   *)
(* shows, of a family with a default route, has a direct route, via the        *)
(* present gateway or into the void, and no other address has one: the packets *)
(* of the tunnel do not go into the tunnel.  The daemon hears of gateways, not *)
(* of endpoints (`TODO: this should also check to see if the endpoint actually *)
(* changes').                                                                  *)
DirectRoutes ==
    (sh["mon"].pc = "wait" /\ sh["up"].pc = "end" /\ sys.sock /\ ~sys.pending /\ ~hist.unheard /\ ~hist.excused)
        => \A e \in Endpoints :
             sys.direct[e] = IF e \notin Shown \/ FamilyOf(e) \notin sys.auto THEN NULL
                             ELSE IF sys.gw[FamilyOf(e)] = NULL THEN "blackhole" ELSE sys.gw[FamilyOf(e)]

(* When the interface and the processes have gone, by `down', by a command     *)
(* that failed, or by a signal, there are no routes left, and name servers are *)
(* what they were.  Exempt are the failures of the clean-up itself and what    *)
(* SignalLoses, AlarmInTrap and ServiceChange describe.                        *)
NothingLeft ==
    (sys.link = NULL /\ ~hist.excused /\ sh["up"].pc = "end" /\ \A a \in {"mon", "down"} : sh[a].pc \in {"off", "end"})
        => /\ sys.half = {} /\ \A e \in Endpoints : sys.direct[e] = NULL
           /\ sys.resolv = "own" /\ sys.backup = NULL
           /\ \A s \in Services : sys.service[s] # VPN

(* The processes come to rest: the changes that the daemon makes to the        *)
(* routing table, and is told of, do not set it going for ever; add_if's retry *)
(* ends once the others stop creating interfaces.                              *)
Settles == <>[]Quiet

(* When its interface has gone the daemon ends, unless it was deaf to that: it *)
(* was not listening yet when the interface was announced to go, or it read    *)
(* the announcement, found the interface still there and was not told again.   *)
(* Such a daemon ends with the next message, whatever that tells.              *)
DaemonLeaves ==
    (sys.link = NULL /\ sh["mon"].pc \notin {"off", "end"} /\ (sys.pending \/ ~hist.deaf)) ~> (sh["mon"].pc = "end")
=============================================================================
