------------------------------- MODULE WgQuick -------------------------------
(***************************************************************************)
(* src/src/wg-quick/linux.bash: processes that run `wg-quick up`, `down`   *)
(* and `save`, against the links, routes, rules, firewall tables and       *)
(* resolver entries of one machine and the configuration files on its      *)
(* disk.  A step is one command of the script.                             *)
(*                                                                         *)
(* The shell stops at the first command that fails (set -e).  What it does *)
(* then is up to the trap: "none", "del_if" while an interface is brought  *)
(* up, "rm" while a file is saved.  A signal runs the trap as well, when   *)
(* the command that is running has ended, and then once more, since the    *)
(* trap on INT and TERM leaves with `exit`.                                *)
(***************************************************************************)
EXTENDS Integers, Sequences, FiniteSetsExt

CONSTANTS
    Ifaces, Procs, NULL, AUTO, OFF,
    Scenarios,   \* conf: what the configuration files say, by interface; jobs: what the
                 \* processes are asked to do, in order; module: whether the kernel has the
                 \* module; dup: whether it takes the same rule twice; nft: whether there is
                 \* nft, or else iptables
    UserTables,  \* the marks and tables that configurations name
    MaxFails,    \* bound on commands that fail for reasons of their own
    MaxSignals

Families == {"v4", "v6"}
FirstTable == 51820
Tables == UserTables \cup FirstTable .. FirstTable + Cardinality(Ifaces)
MAIN == 254

VARIABLES
    net,      \* the links and what belongs to them
    disk,     \* by interface: the configuration file and the temporary one
    setup,    \* the scenario
    sh,       \* by process: the state of the shell
    hist,     \* by process: what the properties recall of its job; before is net as
              \* it was, as long as no other process does anything
    shared,   \* the interfaces that two processes have worked on at a time, and the
              \* tables that were chosen when they were the mark of another interface
    budget    \* the failures and signals so far

wgqVars == <<net, disk, setup, sh, hist, shared, budget>>

WgqInit ==
    /\ net = [links |-> [i \in Ifaces |-> NULL], routes |-> {}, dns |-> {}, firewall |-> {},
              rules |-> [f \in Families |-> [t \in Tables |-> 0]],
              suppress |-> [f \in Families |-> 0], src_valid_mark |-> FALSE]
    /\ disk = [i \in Ifaces |-> [file |-> [data |-> "old", synced |-> TRUE], tmp |-> NULL]]
    /\ setup \in Scenarios
    /\ sh = [p \in Procs |-> [pc |-> "end", jobs |-> setup.jobs[p], iface |-> NULL, trap |-> "none",
                              again |-> FALSE, todo |-> <<>>, table |-> NULL, HAVE_SET_DNS |-> FALSE,
                              HAVE_SET_FIREWALL |-> FALSE, fam |-> "v4", status |-> 1]]
    /\ hist = [p \in Procs |-> [op |-> NULL, before |-> NULL, excused |-> FALSE]]
    /\ shared = [ifaces |-> {}, tables |-> {}]
    /\ budget = [fails |-> 0, signals |-> 0]

Iface(p) == sh[p].iface
Conf(p) == setup.conf[Iface(p)]
Link(p) == net.links[Iface(p)]
Busy(p) == sh[p].pc \notin {"end", "off"}

-----------------------------------------------------------------------------
(* The shell.                                                                  *)
To(p, label) == [sh[p] EXCEPT !.pc = label]
Finish(s, status) ==
    [s EXCEPT !.pc = "end", !.status = status, !.trap = "none", !.todo = <<>>, !.HAVE_SET_DNS = FALSE,
              !.again = FALSE, !.fam = "v4"]

(* The script ends with this status, or its trap does: the trap "run" is the   *)
(* one that is running.                                                        *)
Leave(s, status) ==
    CASE s.trap = "none" -> Finish(s, status)
      [] s.trap = "rm" -> [s EXCEPT !.pc = "rm", !.trap = "run", !.status = status]
      [] s.trap = "del_if" -> [s EXCEPT !.pc = "del_dns", !.trap = "run", !.status = status]
      [] s.trap = "run" -> IF s.again THEN [s EXCEPT !.again = FALSE, !.pc = "del_dns", !.status = status]
                           ELSE Finish(s, status)

Shell(p, s) == sh' = [sh EXCEPT ![p] = s]

(* A test or an assignment of the script. *)
Do(p, label, s) ==
    /\ sh[p].pc = label /\ Shell(p, s)
    /\ UNCHANGED <<net, disk, setup, hist, shared, budget>>

Excuse(p, b) == hist' = [hist EXCEPT ![p].excused = @ \/ b]
Misfortune == budget.fails < MaxFails /\ budget' = [budget EXCEPT !.fails = @ + 1]

(* A command that makes n of net, if it is possible, and is followed by s.  It *)
(* may also fail by misfortune, and then has made one of parts; in a trap this *)
(* leaves things undone.                                                       *)
CmdOrPart(p, label, possible, n, parts, s, status) ==
    /\ sh[p].pc = label
    /\ \/ possible /\ net' = n /\ Shell(p, s) /\ UNCHANGED <<hist, budget>>
       \/ /\ net' \in parts /\ Shell(p, Leave(sh[p], status))
          /\ IF possible THEN Misfortune /\ Excuse(p, sh[p].trap = "run") ELSE UNCHANGED <<hist, budget>>
    /\ UNCHANGED <<disk, setup, shared>>

CmdOrExit(p, label, possible, n, s, status) == CmdOrPart(p, label, possible, n, {net}, s, status)
Cmd(p, label, possible, n, s) == CmdOrExit(p, label, possible, n, s, 1)

(* command || true *)
TriedOrPart(p, label, n, parts, s) ==
    /\ sh[p].pc = label /\ Shell(p, s)
    /\ \/ net' = n /\ UNCHANGED <<hist, budget>>
       \/ net' \in parts /\ Misfortune /\ Excuse(p, TRUE)
    /\ UNCHANGED <<disk, setup, shared>>
Tried(p, label, n, s) == TriedOrPart(p, label, n, {net}, s)

(* The next job.  The file has been parsed: what it says is in setup. *)
Start(p) ==
    /\ sh[p].pc = "end" /\ sh[p].jobs # <<>>
    /\ LET job == Head(sh[p].jobs)
           others == {q \in Procs \ {p} : Busy(q)}
       IN /\ Shell(p, [sh[p] EXCEPT !.pc = job.op, !.iface = job.iface, !.jobs = Tail(@), !.table = NULL,
                                    !.HAVE_SET_DNS = FALSE, !.HAVE_SET_FIREWALL = FALSE, !.again = FALSE])
          /\ hist' = [q \in Procs |->
                        [op |-> IF q = p THEN job.op
                                ELSE IF ~Busy(q) /\ Iface(q) = job.iface THEN NULL ELSE hist[q].op,
                         before |-> IF q = p /\ others = {} THEN net ELSE NULL,
                         excused |-> q # p /\ hist[q].excused]]
          /\ shared' = [shared EXCEPT !.ifaces = @ \cup {Iface(q) : q \in {r \in others : Iface(r) = job.iface}}]
    /\ UNCHANGED <<net, disk, setup, budget>>

-----------------------------------------------------------------------------
(* What the commands do (ip, wg, resolvconf, nft).                             *)
WithLink(i, l) == [net EXCEPT !.links[i] = l]
NewLink == [mark |-> 0, allowed |-> <<>>, addrs |-> FALSE, up |-> FALSE]
NoLink(n, i) ==
    [n EXCEPT !.links[i] = NULL, !.routes = {r \in @ : r.dev # i}]
HasRoute(f, t, dst) == \E r \in net.routes : r.fam = f /\ r.table = t /\ r.dst = dst
WithRoute(f, t, dst, i) ==
    [net EXCEPT !.routes = @ \cup {[fam |-> f, table |-> t, dst |-> dst, dev |-> i]}]

-----------------------------------------------------------------------------
cmd_up(p) ==
    Do(p, "up", IF Link(p) # NULL THEN Leave(sh[p], 1)
                ELSE [To(p, "add_if") EXCEPT !.trap = "del_if"])

(* With WebSockets the userspace implementation is started at once, otherwise  *)
(* when the kernel has no module.  Where `ip link add` is to blame, the status *)
(* is that of the negated command: 0.                                          *)
add_if(p) ==
    /\ sh[p].pc = "add_if"
    /\ IF Conf(p).ws THEN Shell(p, To(p, "userspace"))
       ELSE IF setup.module THEN Shell(p, To(p, "link_add"))
       ELSE Shell(p, To(p, "userspace")) \/ Shell(p, Leave(sh[p], 0))
    /\ UNCHANGED <<net, disk, setup, hist, shared, budget>>
LinkAdd(p) ==
    CmdOrExit(p, "link_add", Link(p) = NULL, WithLink(Iface(p), NewLink), To(p, "pre_up"), 0)
Userspace(p) ==
    Cmd(p, "userspace", Link(p) = NULL, WithLink(Iface(p), NewLink), To(p, "pre_up"))

PreUp(p) == Cmd(p, "pre_up", TRUE, net, To(p, "set_config"))
set_config(p) ==
    Cmd(p, "set_config", Link(p) # NULL,
        WithLink(Iface(p), [Link(p) EXCEPT !.mark = Conf(p).mark, !.allowed = Conf(p).allowed]),
        To(p, "add_addr"))
add_addr(p) ==
    Cmd(p, "add_addr", Link(p) # NULL, WithLink(Iface(p), [Link(p) EXCEPT !.addrs = TRUE]),
        To(p, "set_mtu_up"))
set_mtu_up(p) ==
    Cmd(p, "set_mtu_up", Link(p) # NULL, WithLink(Iface(p), [Link(p) EXCEPT !.up = TRUE]),
        To(p, IF Conf(p).dns THEN "set_dns" ELSE "list_routes"))
set_dns(p) ==
    \/ Cmd(p, "set_dns", TRUE, [net EXCEPT !.dns = @ \cup {Iface(p)}], To(p, "have_set_dns"))
    \/ Do(p, "have_set_dns", [To(p, "list_routes") EXCEPT !.HAVE_SET_DNS = TRUE])

(* The routes are those of the allowed IPs that the interface now has. *)
ListRoutes(p) ==
    Do(p, "list_routes", [To(p, "add_route") EXCEPT !.todo = IF Link(p) = NULL THEN <<>> ELSE Link(p).allowed])

RouteDone(p) == [To(p, "add_route") EXCEPT !.todo = Tail(@)]
Fam(p) == Head(sh[p].todo).fam
Dst(p) == Head(sh[p].todo).dst
IsDefault(r) == r.dst = "/0"

AddRouteTo(p, t) ==
    Cmd(p, "add_route", Link(p) # NULL /\ ~HasRoute(Fam(p), t, Dst(p)),
        WithRoute(Fam(p), t, Dst(p), Iface(p)), RouteDone(p))
add_route(p) ==
    /\ sh[p].pc = "add_route"
    /\ IF sh[p].todo = <<>> THEN Do(p, "add_route", To(p, "post_up"))
       ELSE IF Conf(p).table = OFF THEN Do(p, "add_route", RouteDone(p))
       ELSE IF Conf(p).table # AUTO THEN AddRouteTo(p, Conf(p).table)
       ELSE IF IsDefault(Head(sh[p].todo)) THEN Do(p, "add_route", To(p, "get_fwmark"))
       ELSE IF \E r \in net.routes : r.fam = Fam(p) /\ r.table = MAIN /\ r.dst = Dst(p) /\ r.dev = Iface(p)
       THEN Do(p, "add_route", RouteDone(p))
       ELSE AddRouteTo(p, MAIN)

(* The mark that the interface has, or else the first table without routes.    *)
get_fwmark(p) ==
    Do(p, "get_fwmark", IF Link(p) # NULL /\ Link(p).mark # 0
                        THEN [To(p, "rule_add") EXCEPT !.table = Link(p).mark]
                        ELSE [To(p, "find_table") EXCEPT !.table = FirstTable])
\* Slip: the first table is taken without a look.
TakenNever(t) == FALSE
Taken(t) == \E r \in net.routes : r.table = t
(* Other interfaces that have or get the mark t without a route in the table,  *)
(* which the search does not see.                                              *)
Claims(p, t) ==
    {i \in Ifaces \ {Iface(p)} :
       /\ \/ net.links[i] # NULL /\ net.links[i].mark = t
          \/ \E q \in Procs : Iface(q) = i /\ sh[q].pc = "set_fwmark" /\ sh[q].table = t
       /\ ~\E r \in net.routes : r.table = t /\ r.dev = i}
FindTable(p) ==
    /\ sh[p].pc = "find_table"
    /\ LET t == sh[p].table
       IN IF Taken(t) THEN Shell(p, [sh[p] EXCEPT !.table = @ + 1]) /\ UNCHANGED shared
          ELSE /\ Shell(p, To(p, "set_fwmark"))
               /\ shared' = [shared EXCEPT !.tables = IF Claims(p, t) = {} THEN @ ELSE @ \cup {t}]
    /\ UNCHANGED <<net, disk, setup, hist, budget>>
\* Slip: the mark may fail to be set (`|| true`).
SetFwmarkTried(p) ==
    /\ sh[p].pc = "set_fwmark" /\ Link(p) # NULL
    /\ Tried(p, "set_fwmark", WithLink(Iface(p), [Link(p) EXCEPT !.mark = sh[p].table]), To(p, "rule_add"))
(* The rest of add_default: first the mark, then what sends traffic without    *)
(* the mark into the table, then the route in the table.                       *)
SetFwmark(p) ==
    Cmd(p, "set_fwmark", Link(p) # NULL, WithLink(Iface(p), [Link(p) EXCEPT !.mark = sh[p].table]),
        To(p, "rule_add"))
RuleAdd(p) ==
    LET f == Fam(p)
    IN \/ /\ sh[p].pc = "rule_add"
          /\ Cmd(p, "rule_add", setup.dup \/ net.rules[f][sh[p].table] = 0,
                 [net EXCEPT !.rules[f][sh[p].table] = @ + 1], To(p, "suppress_add"))
       \/ /\ sh[p].pc = "suppress_add"
          /\ Cmd(p, "suppress_add", setup.dup \/ net.suppress[f] = 0,
                 [net EXCEPT !.suppress[f] = @ + 1], To(p, "route_add"))
DefaultRouteAdd(p) ==
    /\ sh[p].pc = "route_add"
    /\ Cmd(p, "route_add", Link(p) # NULL /\ ~HasRoute(Fam(p), sh[p].table, "/0"),
           WithRoute(Fam(p), sh[p].table, "/0", Iface(p)), To(p, "src_valid_mark"))
(* The last command of a list of &&: the script goes on if it is not reached. *)
SrcValidMark(p) ==
    /\ sh[p].pc = "src_valid_mark"
    /\ IF Fam(p) = "v4" /\ ~net.src_valid_mark
       THEN Cmd(p, "src_valid_mark", TRUE, [net EXCEPT !.src_valid_mark = TRUE], To(p, "firewall"))
       ELSE Do(p, "src_valid_mark", To(p, "firewall"))
(* nft takes the whole table or nothing of it.  iptables-restore commits the   *)
(* rules of raw and then those of mangle, and may fail between the two.        *)
WithFirewall(p, parts) == [net EXCEPT !.firewall = @ \cup {<<Fam(p), Iface(p), x>> : x \in parts}]
Firewall(p) ==
    /\ sh[p].pc = "firewall"
    /\ IF setup.nft
       THEN Cmd(p, "firewall", TRUE, WithFirewall(p, {"nft"}), To(p, "have_set_firewall"))
       ELSE CmdOrPart(p, "firewall", TRUE, WithFirewall(p, {"raw", "mangle"}),
                      {net, WithFirewall(p, {"raw"})}, To(p, "have_set_firewall"), 1)
\* Slip: the assignment is missing.
HaveSetFirewallForgotten(p) == Do(p, "have_set_firewall", RouteDone(p))
HaveSetFirewall(p) ==
    Do(p, "have_set_firewall", [RouteDone(p) EXCEPT !.HAVE_SET_FIREWALL = TRUE])

PostUp(p) == Cmd(p, "post_up", TRUE, net, Finish(sh[p], 0))

-----------------------------------------------------------------------------
unset_dns(n, i) == [n EXCEPT !.dns = @ \ {i}]
\* Slip: the tables of every interface match.
FirewallOfAny(i, fams) == {w \in net.firewall : w[1] \in fams}
(* What nft deletes in one transaction, and iptables-restore one family at a   *)
(* time and table by table.                                                    *)
FirewallOf(i, fams) == {w \in net.firewall : w[1] \in fams /\ w[2] = i}
Without(w) == [net EXCEPT !.firewall = @ \ w]
remove_firewall(i, fams) == Without(FirewallOf(i, fams))
RemovedPartly(i, fams) ==
    IF setup.nft THEN {net} ELSE {Without({w \in FirewallOf(i, fams) : w[3] \in x}) : x \in {{}, {"raw"}, {"mangle"}}}

(* Whether `ip rule show` has a line with "lookup $table" if there is a rule   *)
(* for t: the number may go on.                                                *)
ShownAs(t, table) == \E d \in 0..5 : t \div 10^d = table
RuleShown(f, table) == \E t \in Tables : net.rules[f][t] > 0 /\ ShownAs(t, table)

DelDns(p) ==
    /\ sh[p].pc = "del_dns"
    /\ IF sh[p].HAVE_SET_DNS THEN Cmd(p, "del_dns", TRUE, unset_dns(net, Iface(p)), To(p, "del_firewall"))
       ELSE Do(p, "del_dns", To(p, "del_firewall"))
DelFirewall(p) ==
    /\ sh[p].pc \in {"del_firewall", "del_firewall6"}
    /\ LET i == Iface(p)
           first == sh[p].pc = "del_firewall"
           fams == IF setup.nft THEN Families ELSE IF first THEN {"v4"} ELSE {"v6"}
           s == To(p, IF first /\ ~setup.nft THEN "del_firewall6" ELSE "del_table")
       IN IF ~sh[p].HAVE_SET_FIREWALL THEN Do(p, "del_firewall", To(p, "del_table"))
          ELSE IF FirewallOf(i, fams) = {} THEN Do(p, sh[p].pc, s)
          ELSE CmdOrPart(p, sh[p].pc, TRUE, remove_firewall(i, fams), RemovedPartly(i, fams), s, 1)

(* Rules are looked for if there is a mark and a peer with a default route. *)
HasDefault(l) == \E k \in 1..Len(l.allowed) : IsDefault(l.allowed[k])
DelTable(p) ==
    Do(p, "del_table", IF Conf(p).table = AUTO /\ Link(p) # NULL /\ Link(p).mark # 0 /\ HasDefault(Link(p))
                       THEN [To(p, "del_rule") EXCEPT !.table = Link(p).mark, !.fam = "v4"]
                       ELSE To(p, "del_link"))
\* Slip: a rule that cannot be deleted is ignored (`|| true`).
DelRuleTried(p) ==
    LET f == sh[p].fam  t == sh[p].table
    IN Tried(p, "rule_delete", IF net.rules[f][t] > 0 THEN [net EXCEPT !.rules[f][t] = @ - 1] ELSE net,
             To(p, "del_rule"))
DelRule(p) ==
    LET f == sh[p].fam  t == sh[p].table
    IN /\ sh[p].pc = "rule_delete"
       /\ Cmd(p, "rule_delete", net.rules[f][t] > 0, [net EXCEPT !.rules[f][t] = @ - 1], To(p, "del_rule"))
DelRules(p) ==
    Do(p, "del_rule", To(p, IF RuleShown(sh[p].fam, sh[p].table) THEN "rule_delete" ELSE "del_suppress"))

AfterFamily(p) == IF sh[p].fam = "v4" THEN [To(p, "del_rule") EXCEPT !.fam = "v6"] ELSE To(p, "del_link")
DelSuppress(p) ==
    LET f == sh[p].fam
    IN \/ Do(p, "del_suppress", IF net.suppress[f] > 0 THEN To(p, "suppress_delete") ELSE AfterFamily(p))
       \/ Cmd(p, "suppress_delete", net.suppress[f] > 0, [net EXCEPT !.suppress[f] = @ - 1], To(p, "del_suppress"))
DelLink(p) ==
    Cmd(p, "del_link", Link(p) # NULL, NoLink(net, Iface(p)),
        IF sh[p].trap = "run" THEN Leave(sh[p], sh[p].status) ELSE To(p, "down_dns"))

-----------------------------------------------------------------------------
cmd_down(p) == Do(p, "down", IF Link(p) = NULL THEN Leave(sh[p], 1) ELSE To(p, "pre_down"))
PreDown(p) == Cmd(p, "pre_down", TRUE, net, To(p, IF Conf(p).save THEN "showconf" ELSE "del_dns"))
DownDns(p) ==
    Tried(p, "down_dns", IF Conf(p).dns THEN unset_dns(net, Iface(p)) ELSE net, To(p, "down_firewall"))
DownFirewall(p) ==
    /\ sh[p].pc \in {"down_firewall", "down_firewall6"}
    /\ LET i == Iface(p)
           first == sh[p].pc = "down_firewall"
           fams == IF setup.nft THEN Families ELSE IF first THEN {"v4"} ELSE {"v6"}
       IN TriedOrPart(p, sh[p].pc, remove_firewall(i, fams), RemovedPartly(i, fams),
                      To(p, IF first /\ ~setup.nft THEN "down_firewall6" ELSE "post_down"))
PostDown(p) == Cmd(p, "post_down", TRUE, net, Finish(sh[p], 0))

cmd_save(p) == Do(p, "save", IF Link(p) = NULL THEN Leave(sh[p], 1) ELSE To(p, "showconf"))

(* save_config: a temporary file is written, made durable and moved over the   *)
(* configuration file.  data is "part" until all is written.                   *)
ShowConf(p) == Cmd(p, "showconf", Link(p) # NULL, net, [To(p, "open") EXCEPT !.trap = "rm"])

Disk(p, label, possible, d, s) ==
    /\ sh[p].pc = label
    /\ \/ possible /\ disk' = [disk EXCEPT ![Iface(p)] = d] /\ Shell(p, s) /\ UNCHANGED budget
       \/ UNCHANGED disk /\ Shell(p, Leave(sh[p], 1))
          /\ IF possible THEN Misfortune ELSE UNCHANGED budget
    /\ UNCHANGED <<net, setup, hist, shared>>
File(p) == disk[Iface(p)]

Open(p) == Disk(p, "open", TRUE, [File(p) EXCEPT !.tmp = [data |-> "part", synced |-> FALSE]], To(p, "write"))
Write(p) ==
    Disk(p, "write", TRUE, [File(p) EXCEPT !.tmp = IF @ = NULL THEN NULL ELSE [data |-> "new", synced |-> FALSE]],
         To(p, "sync"))
\* Slip: the file is not synced before it is moved.
SyncMissing(p) == Do(p, "sync", To(p, "mv"))
Sync(p) ==
    /\ sh[p].pc = "sync"
    /\ Disk(p, "sync", File(p).tmp # NULL, [File(p) EXCEPT !.tmp.synced = TRUE], To(p, "mv"))
Move(p) ==
    /\ sh[p].pc = "mv"
    /\ Disk(p, "mv", File(p).tmp # NULL, [file |-> File(p).tmp, tmp |-> NULL], To(p, "saved"))
Saved(p) ==
    Do(p, "saved", IF hist[p].op = "down" THEN [To(p, "del_dns") EXCEPT !.trap = "none"] ELSE Finish(sh[p], 0))
Remove(p) ==
    /\ sh[p].pc = "rm"
    /\ disk' = [disk EXCEPT ![Iface(p)].tmp = NULL] /\ Shell(p, Finish(sh[p], sh[p].status))
    /\ UNCHANGED <<net, setup, hist, shared, budget>>

-----------------------------------------------------------------------------
(* A signal, up to one per process and not in a trap.  Between a command and   *)
(* the assignment that recalls it, the trap knows nothing of the command.      *)
Signal(p) ==
    /\ Busy(p) /\ sh[p].trap # "run" /\ budget.signals < MaxSignals
    /\ budget' = [budget EXCEPT !.signals = @ + 1]
    /\ Shell(p, Leave([sh[p] EXCEPT !.again = sh[p].trap = "del_if"], 1))
    /\ Excuse(p, sh[p].pc \in {"have_set_dns", "have_set_firewall"})
    /\ UNCHANGED <<net, disk, setup, shared>>

(* The machine loses its power while a file is being saved: what was not       *)
(* synced may be lost.                                                         *)
PowerLoss ==
    /\ \E i \in Ifaces : disk[i].tmp # NULL \/ ~disk[i].file.synced
    /\ disk' = [i \in Ifaces |->
                  [disk[i] EXCEPT !.file = IF @.synced THEN @ ELSE [data |-> "part", synced |-> TRUE]]]
    /\ sh' = [p \in Procs |-> [sh[p] EXCEPT !.pc = "off", !.jobs = <<>>]]
    /\ UNCHANGED <<net, setup, hist, shared, budget>>

Script(p) ==
    \/ Start(p) \/ cmd_up(p) \/ add_if(p) \/ LinkAdd(p) \/ Userspace(p) \/ PreUp(p) \/ set_config(p)
    \/ add_addr(p) \/ set_mtu_up(p) \/ set_dns(p) \/ ListRoutes(p) \/ add_route(p) \/ get_fwmark(p)
    \/ FindTable(p) \/ SetFwmark(p) \/ RuleAdd(p) \/ DefaultRouteAdd(p) \/ SrcValidMark(p)
    \/ Firewall(p) \/ HaveSetFirewall(p) \/ PostUp(p)
    \/ DelDns(p) \/ DelFirewall(p) \/ DelTable(p) \/ DelRules(p) \/ DelRule(p) \/ DelSuppress(p) \/ DelLink(p)
    \/ cmd_down(p) \/ PreDown(p) \/ DownDns(p) \/ DownFirewall(p) \/ PostDown(p)
    \/ cmd_save(p) \/ ShowConf(p) \/ Open(p) \/ Write(p) \/ Sync(p) \/ Move(p) \/ Saved(p) \/ Remove(p)

AllEnded == \A p \in Procs : ~Busy(p) /\ sh[p].jobs = <<>>
Done == AllEnded /\ UNCHANGED wgqVars

(* Every shell goes on with its next command, and every command returns: this  *)
(* is weak fairness of Script(p), which is enabled until p has ended its last  *)
(* job and whose steps are the ones that change sh[p], apart from signals,     *)
(* which are bounded.  (Written without ENABLED it is faster to check.)        *)
Fairness == \A p \in Procs : []<>(~Busy(p) /\ sh[p].jobs = <<>>) \/ []<><<sh'[p] # sh[p]>>_sh

WgqNext == (\E p \in Procs : Script(p) \/ Signal(p)) \/ PowerLoss \/ Done
WgqSpec == WgqInit /\ [][WgqNext]_wgqVars /\ Fairness

-----------------------------------------------------------------------------
(* WireGuard's own packets never enter the table of their interface: as soon   *)
(* as add_default has given a table its default route, the interface has the   *)
(* mark that the rule exempts, whatever fails or is undone.  (Not if another   *)
(* process works on the interface at the same time.)                           *)
NoLoop ==
    \A r \in net.routes :
      (IsDefault(r) /\ setup.conf[r.dev].table = AUTO /\ r.dev \notin shared.ifaces)
        => net.links[r.dev].mark = r.table

(* Everything that an `up` is to set up is there: what belongs to i, the rules *)
(* of its table, and those that suppress default routes, for all interfaces.   *)
HasOwn(i) ==
    LET l == net.links[i]  c == setup.conf[i]
        In(r, t) == \E x \in net.routes : x.fam = r.fam /\ x.dst = r.dst /\ x.table = t /\ x.dev = i
    IN /\ l # NULL /\ l.up /\ l.addrs /\ l.allowed = c.allowed
       /\ c.dns => i \in net.dns
       /\ c.table # OFF => \A k \in 1..Len(c.allowed) :
            LET r == c.allowed[k]
            IN CASE c.table # AUTO -> In(r, c.table)
                 [] ~IsDefault(r) -> In(r, MAIN)
                 [] OTHER -> /\ In(r, l.mark)
                             /\ r.fam = "v4" => net.src_valid_mark
                             /\ \A x \in IF setup.nft THEN {"nft"} ELSE {"raw", "mangle"} :
                                  <<r.fam, i, x>> \in net.firewall
DefaultFams(i) ==
    LET c == setup.conf[i]
    IN IF c.table = AUTO THEN {c.allowed[k].fam : k \in {k \in 1..Len(c.allowed) : IsDefault(c.allowed[k])}}
       ELSE {}
HasRules(i) == \A f \in DefaultFams(i) : net.rules[f][net.links[i].mark] > 0
HasSuppress(i) == \A f \in DefaultFams(i) : net.suppress[f] > 0

(* Whether rules that were there before are taken for those of p's interface.  *)
RuleClash(p) ==
    \E f \in Families, t \in Tables : hist[p].before.rules[f][t] > 0 /\ ShownAs(t, sh[p].table)

(* An `up` sets up everything, or fails and leaves everything as it was:       *)
(* del_if undoes the steps that were taken.  It undoes one thing of others,    *)
(* the rules that suppress default routes.  Two things it does not undo:       *)
(* src_valid_mark, and the rules in raw of an iptables-restore that failed     *)
(* after it had committed them, when no earlier one has succeeded.  (If        *)
(* nothing else runs meanwhile, no signal comes between a command and the      *)
(* assignment that recalls it, no command of del_if fails, and no other        *)
(* interface has rules that look like those of this one.)                      *)
UpAllOrNothing ==
    \A p \in Procs :
      (sh[p].pc = "end" /\ hist[p].op = "up" /\ hist[p].before # NULL /\ ~hist[p].excused /\ ~RuleClash(p)) =>
        IF sh[p].status = 0 THEN HasOwn(Iface(p)) /\ HasRules(Iface(p)) /\ HasSuppress(Iface(p))
        ELSE LET old == hist[p].before
             IN /\ net.links = old.links /\ net.routes = old.routes /\ net.rules = old.rules
                /\ net.dns \subseteq old.dns
                /\ \A w \in net.firewall \ old.firewall :
                     w[2] = Iface(p) /\ w[3] = "raw" /\ ~sh[p].HAVE_SET_FIREWALL
                /\ \A f \in Families : net.suppress[f] \in {0, old.suppress[f]}

(* What an `up` has set up stays, until a process works on the interface       *)
(* again, whatever other processes bring up, take down, fail at and undo:      *)
(* none of them takes the link, a route, a rule, the firewall or the name      *)
(* servers of another interface.  (Not the rules that suppress default routes, *)
(* which any down deletes; and not the rules of a table that was chosen while  *)
(* it was the mark of another interface and had no route yet: the one that     *)
(* fails, or is taken down, deletes those of both.)                            *)
UpStaysUp ==
    \A p \in Procs :
      (sh[p].pc = "end" /\ hist[p].op = "up" /\ sh[p].status = 0 /\ Iface(p) \notin shared.ifaces) =>
        HasOwn(Iface(p)) /\ (HasRules(Iface(p)) \/ Link(p).mark \in shared.tables)


(* The configuration file is the old one or the complete new one at every      *)
(* moment, also after a loss of power.  (Not if two processes save the same    *)
(* interface at the same time: they share the temporary file.)                 *)
ConfigFileWhole == \A i \in Ifaces \ shared.ifaces : disk[i].file.data \in {"old", "new"}

(* Every command ends: the search for a table without routes, and the loops    *)
(* that delete rules as long as one is shown.                                  *)
CommandsEnd == <>AllEnded
=============================================================================
