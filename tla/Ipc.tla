--------------------------------- MODULE Ipc ---------------------------------
(***************************************************************************)
(* How `wg` finds the backend of an interface and talks to it              *)
(* (src/src/ipc.c): one process that runs `wg show all`, which lists the   *)
(* interfaces and reads each of them, or a command that writes one.        *)
(*                                                                         *)
(* An interface may be in the kernel or served by a daemon that listens on *)
(* a socket.  Daemons are numbered in the order they start; sock[n] is the *)
(* number of the daemon that has made the socket of interface n, 0 if      *)
(* there is none and -1 for a plain file in its place.  The socket of a    *)
(* killed daemon stays behind and refuses connections.  On Windows the     *)
(* socket is a pipe, which goes with its daemon.                           *)
(***************************************************************************)
EXTENDS UapiText, StringList

CONSTANTS
    Platforms,    \* subset of {"linux", "openbsd", "freebsd", "windows", "other"}
    NameOrder,    \* the names of interfaces, in the order the kernel lists them
    Kernels,      \* what the kernel may hold at first
    KernelConfs,  \* what others may make of a kernel interface
    Sockets,      \* the initial sock; the daemons up to MaxRunning of them run
    DaemonConfs,  \* what a daemon may hold
    Wanted,       \* the configurations to write, with the interface
    FOREIGN,      \* an interface of another kind
    MaxRunning,
    MaxEvents     \* bound on what others do

Names == {NameOrder[i] : i \in 1..Len(NameOrder)}

VARIABLES
    sys,  \* the kernel, the sockets and the daemons
    wg,   \* the command: its position pc and its data
    hist  \* what has happened, for the properties

ipcVars == <<sys, wg, hist>>

IsWg(n) == sys.kern[n] \notin {NULL, FOREIGN}
Live(n) == sys.sock[n] \in sys.alive
platform == sys.platform
name == wg.name

(* What a kernel interface holds; that of Windows has no mark. *)
KernelHolds(c) == [AsRead(c) EXCEPT !.fwmark = IF platform = "windows" THEN NULL ELSE @]

(* Of that, what the backend puts into the device: all of it, as on FreeBSD;   *)
(* but on OpenBSD an endpoint only if it is no longer than a struct sockaddr,  *)
(* which one of IPv6 is.                                                       *)
FitsSockaddr(endpoint) == endpoint # "v6"
ReadEndpoints(d) ==
    [d EXCEPT !.peers = [i \in 1..Len(@) |->
        [@[i] EXCEPT !.endpoint = IF FitsSockaddr(@) THEN @ ELSE NULL]]]
KernelRead(c) ==
    IF platform = "openbsd" THEN ReadEndpoints(KernelHolds(c)) ELSE KernelHolds(c)

(* What an access to n may find now, by backend; what a listing may find. *)
Held(n) ==
    (IF IsWg(n) THEN {[from |-> "kernel", dev |-> KernelHolds(sys.kern[n])]} ELSE {})
      \cup (IF Live(n) THEN {[from |-> "daemon", dev |-> AsRead(sys.dconf[sys.sock[n]])]} ELSE {})
Existing == {<<"kernel", n>> : n \in {m \in Names : IsWg(m)}}
              \cup {<<"daemon", n>> : n \in {m \in Names : Live(m)}}

IpcInit ==
    /\ \E p \in Platforms, k \in Kernels, s \in Sockets, d \in DaemonConfs :
         /\ p = "other" => \A n \in Names : k[n] = NULL
         /\ p = "windows" => \A n \in Names : s[n] \in 0..MaxRunning
         /\ sys = [platform |-> p, kern |-> k, sock |-> s, alive |-> 1..MaxRunning,
                   dconf |-> [i \in 1 .. MaxRunning + 1 + MaxEvents |-> d],
                   started |-> MaxRunning + 1, moved |-> FALSE, events |-> 0]
    /\ \E w \in {[pc |-> "list", op |-> "show", dev |-> NULL, name |-> NULL]}
                  \cup {[pc |-> "access", op |-> "set", dev |-> x.dev, name |-> x.name] : x \in Wanted} :
         wg = [pc |-> w.pc, op |-> w.op, dev |-> w.dev, name |-> w.name, list |-> EmptyList,
               listing |-> w.op = "show", todo |-> {}, queue |-> <<>>, pos |-> 0, size |-> 0, adapters |-> NULL, pipes |-> NULL,
               conn |-> 0, reply |-> <<>>, ret |-> NULL, got |-> NULL]
    /\ hist = [since |-> 0, orphans |-> {}, gone |-> {}, always |-> Existing, ever |-> Existing,
               partial |-> FALSE, seen |-> {}, steady |-> "none", effect |-> NULL]

Go(label) == wg' = [wg EXCEPT !.pc = label]
Return(ret, got) ==
    wg' = [wg EXCEPT !.pc = "next", !.ret = ret, !.got = got, !.conn = 0, !.reply = <<>>, !.size = 0]
Fail(errno) == Return(errno, NULL)

-----------------------------------------------------------------------------
(* Listing: the kernel's interfaces first.                                     *)
AddAll(names) == FoldLeft(string_list_add, wg.list, names)
WgIn(from, to) == SelectSeq(SubSeq(NameOrder, from, to), IsWg)
Group == WgIn(1, Len(NameOrder))

(* Linux: the dump arrives in messages.  After a change a message carries the  *)
(* mark, and the list is left as it is.                                        *)
KernelListRequest ==
    /\ wg.pc = "list" /\ platform = "linux"
    /\ \/ wg' = [wg EXCEPT !.pos = 1, !.pc = "dump"] /\ sys' = [sys EXCEPT !.moved = FALSE]
       \/ Go("failed") /\ UNCHANGED sys
    /\ UNCHANGED hist
KernelListMessage ==
    /\ wg.pc = "dump"
    /\ IF sys.moved
       THEN Go("opendir") /\ hist' = [hist EXCEPT !.partial = TRUE]
       ELSE /\ \/ \E to \in wg.pos .. Len(NameOrder) :
                    wg' = [wg EXCEPT !.list = AddAll(WgIn(wg.pos, to)), !.pos = to + 1,
                                     !.pc = IF to = Len(NameOrder) THEN "opendir" ELSE @]
               \/ Go("failed")
            /\ UNCHANGED hist
    /\ UNCHANGED sys

(* BSD: the first call tells the size of the group, the second fills as many   *)
(* entries.  A group that has grown is an error; of one that has shrunk the    *)
(* last entries stay empty.                                                    *)
Entries(n) == [i \in 1..n |-> IF i <= Len(Group) THEN Group[i] ELSE <<>>]
GroupSize ==
    /\ wg.pc = "list" /\ platform \in {"openbsd", "freebsd"}
    /\ \/ Group = <<>> /\ Go("opendir")
       \/ Group # <<>> /\ wg' = [wg EXCEPT !.size = Len(Group), !.pc = "group"]
       \/ Go("failed")
    /\ UNCHANGED <<sys, hist>>
GroupMembers ==
    /\ wg.pc = "group"
    /\ IF Group = <<>> \/ Len(Group) > wg.size THEN Go("failed")
       ELSE wg' = [wg EXCEPT !.list = AddAll(Entries(wg.size)), !.size = 0, !.pc = "opendir"]
    /\ UNCHANGED <<sys, hist>>

(* Windows: a snapshot of the adapters, kept for the accesses that follow. *)
ListAdapters ==
    /\ wg.pc = "list" /\ platform = "windows"
    /\ \/ wg' = [wg EXCEPT !.list = AddAll(Group), !.adapters = {n \in Names : IsWg(n)}, !.pc = "opendir"]
       \/ Go("failed")
    /\ UNCHANGED <<sys, hist>>

NoKernelList ==
    /\ wg.pc = "list" /\ platform = "other"
    /\ Go("opendir")
    /\ UNCHANGED <<sys, hist>>

(* Then the sockets: the names in the directory that end in .sock, in any      *)
(* order, each probed before it is added.                                      *)
OpenDir ==
    /\ wg.pc = "opendir" /\ platform # "windows"
    /\ \/ wg' = [wg EXCEPT !.todo = {n \in Names : sys.sock[n] # 0}, !.pc = "readdir"]
       \/ Go("failed")
    /\ UNCHANGED <<sys, hist>>
ReadDir ==
    /\ wg.pc = "readdir"
    /\ IF wg.todo = {} THEN Go("listed")
       ELSE \E n \in wg.todo : wg' = [wg EXCEPT !.name = n, !.todo = @ \ {n}, !.pc = "stat"]
    /\ UNCHANGED <<sys, hist>>
AddName ==
    /\ wg.pc = "add"
    /\ wg' = [wg EXCEPT !.list = AddAll(<<name>>), !.pc = "readdir"] \/ Go("failed")
    /\ UNCHANGED <<sys, hist>>

(* The pipes of Windows, which are also kept. *)
ListPipes ==
    /\ wg.pc = "opendir" /\ platform = "windows"
    /\ LET pipes == {n \in Names : Live(n)}
       IN \/ wg' = [wg EXCEPT !.list = AddAll(SetToSeq(pipes)), !.pipes = pipes, !.pc = "listed"]
          \/ Go("failed")
    /\ UNCHANGED <<sys, hist>>

(* show_main goes through the names it reads in the list, and skips the        *)
(* interfaces it cannot access.                                                *)
ShowListed ==
    /\ wg.pc = "listed"
    /\ wg' = [wg EXCEPT !.queue = NamesIn(wg.list), !.listing = FALSE, !.pc = "next"]
    /\ hist' = [hist EXCEPT !.always = {}, !.ever = {}, !.gone = {}]
    /\ UNCHANGED sys
ShowNext ==
    /\ wg.pc = "next" /\ wg.queue # <<>>
    /\ wg' = [wg EXCEPT !.name = Head(wg.queue), !.queue = Tail(@), !.pc = "access"]
    /\ UNCHANGED <<sys, hist>>

-----------------------------------------------------------------------------
(* ipc_get_device and ipc_set_device.                                          *)
Access ==
    /\ wg.pc = "access"
    /\ wg' = [wg EXCEPT !.ret = NULL, !.got = NULL,
                        !.pc = CASE platform = "other" -> "open"
                                 [] platform = "windows" -> "find"
                                 [] OTHER -> "stat"]
    /\ hist' = [hist EXCEPT !.seen = Held(name), !.steady = IF Live(name) THEN "daemon" ELSE "none",
                            !.effect = NULL]
    /\ UNCHANGED sys

(* Where the result of userspace_has_wireguard_interface leads. *)
Probed(has) ==
    Go(IF wg.listing THEN (IF has THEN "add" ELSE "readdir")
       ELSE IF has THEN "open" ELSE IF wg.op = "set" THEN "guard" ELSE "kernel")

\* Slip: any error of connect counts as refused, such as a full backlog.
RefusedOnError(busy) == busy \/ ~Live(name)
(* Whether connect fails with ECONNREFUSED; a live daemon may be too busy,     *)
(* which is another error.                                                     *)
Refused(busy) == sys.sock[name] > 0 /\ ~Live(name)

(* The probe: what is not a socket is no interface; a refused connection means *)
(* that the daemon is gone, and its socket is removed.  Every other outcome of *)
(* connect, errors included, counts as an interface.  (socket is taken to      *)
(* succeed.)                                                                   *)
ProbeStat ==
    /\ wg.pc = "stat"
    /\ IF sys.sock[name] > 0 THEN Go("connect") ELSE Probed(FALSE)
    /\ UNCHANGED <<sys, hist>>
ProbeConnect ==
    /\ wg.pc = "connect"
    /\ \E busy \in BOOLEAN :
         IF Refused(busy) THEN Go("unlink") /\ hist' = [hist EXCEPT !.since = sys.started]
         ELSE Probed(TRUE) /\ UNCHANGED hist
    /\ UNCHANGED sys

(* unlink takes what now has the name. *)
Unlinked ==
    /\ sys' = [sys EXCEPT !.sock[name] = 0]
    /\ hist' = [hist EXCEPT !.orphans = IF Live(name) THEN @ \cup {[daemon |-> sys.sock[name],
                                                                   since |-> hist.since]} ELSE @,
                            !.steady = IF Live(name) THEN "mixed" ELSE @]
ProbeUnlink == wg.pc = "unlink" /\ Probed(FALSE) /\ Unlinked

(* On Windows the probe looks for the pipe, or for the name in the list that   *)
(* an earlier listing has kept.                                                *)
ProbePipe ==
    /\ wg.pc = "find"
    /\ Probed(IF wg.pipes # NULL THEN name \in wg.pipes ELSE Live(name))
    /\ UNCHANGED <<sys, hist>>

(* userspace_interface_file: the same again, now with errors. *)
OpenStat ==
    /\ wg.pc = "open"
    /\ IF platform = "windows" THEN
            IF Live(name) THEN Go("open_connect") ELSE Fail("EACCES")
       ELSE CASE sys.sock[name] = 0 -> Fail("ENOENT")
              [] sys.sock[name] = -1 -> Fail("EBADF")
              [] OTHER -> Go("open_connect")
    /\ UNCHANGED <<sys, hist>>
OpenConnect ==
    /\ wg.pc = "open_connect"
    /\ \E busy \in BOOLEAN :
         IF Refused(busy) THEN Go("open_unlink") /\ hist' = [hist EXCEPT !.since = sys.started]
         ELSE /\ IF Live(name) /\ ~busy THEN wg' = [wg EXCEPT !.conn = sys.sock[name], !.pc = "talk"]
                 ELSE Fail("EAGAIN")
              /\ UNCHANGED hist
    /\ UNCHANGED sys
OpenUnlink == wg.pc = "open_unlink" /\ Fail("ECONNREFUSED") /\ Unlinked

-----------------------------------------------------------------------------
(* The transaction.                                                            *)
Happened ==
    hist' = [hist EXCEPT !.always = @ \cap Existing', !.ever = IF wg.listing THEN @ \cup Existing' ELSE {},
                         !.seen = IF wg.listing \/ name = NULL THEN @ ELSE @ \cup Held(name)',
                         !.steady = IF name # NULL /\ sys'.sock[name] = sys.sock[name]
                                       /\ (Live(name) <=> Live(name)') THEN @ ELSE "mixed"]

(* Daemon d dies; on Windows its pipe goes with it. *)
Killed(d) ==
    [sys EXCEPT !.alive = @ \ {d}, !.events = @ + 1,
                !.sock = IF platform # "windows" THEN @
                         ELSE [n \in Names |-> IF @[n] = d THEN 0 ELSE @[n]]]

Finished(errno) == L("errno", errno) \o BLANK

(* What a client gets of an answer when the daemon dies while it writes. *)
Broken(text) == {SubSeq(text, 1, i) : i \in 0 .. Len(text) - 1}
                  \cup {SubSeq(text, 1, i) \o CUT : i \in 0 .. Len(text) - 1}

(* The daemon takes the configuration, or refuses it at some line with what is *)
(* before applied; it answers, or dies before the answer is out.               *)
TalkSet ==
    /\ wg.pc = "talk" /\ wg.op = "set" /\ wg.conn \in sys.alive
    /\ \E i \in 0 .. Len(SetLines(wg.dev)) :
         LET lines == SetLines(wg.dev)
             answer == Finished(IF i = Len(lines) THEN "0" ELSE "EINVAL")
             after == DaemonSet(sys.dconf[wg.conn], SubSeq(lines, 1, i))
         IN /\ hist' = [hist EXCEPT !.effect = [before |-> sys.dconf[wg.conn], after |-> after]]
            /\ \/ /\ wg' = [wg EXCEPT !.reply = answer, !.pc = "read"]
                  /\ sys' = [sys EXCEPT !.dconf[wg.conn] = after]
               \/ /\ sys.events < MaxEvents
                  /\ \E r \in Broken(answer) : wg' = [wg EXCEPT !.reply = r, !.pc = "read"]
                  /\ sys' = Killed(wg.conn)
TalkGet ==
    /\ wg.pc = "talk" /\ wg.op = "show" /\ wg.conn \in sys.alive
    /\ LET answer == DaemonGet(sys.dconf[wg.conn]) \o Finished("0")
       IN \/ wg' = [wg EXCEPT !.reply = answer, !.pc = "read"] /\ UNCHANGED <<sys, hist>>
          \/ wg' = [wg EXCEPT !.reply = Finished("EIO"), !.pc = "read"] /\ UNCHANGED <<sys, hist>>
          \/ /\ sys.events < MaxEvents
             /\ \E r \in Broken(answer) : wg' = [wg EXCEPT !.reply = r, !.pc = "read"]
             /\ sys' = Killed(wg.conn)
             /\ Happened
(* The daemon had died before. *)
TalkReset ==
    /\ wg.pc = "talk" /\ wg.conn \notin sys.alive
    /\ wg' = [wg EXCEPT !.reply = <<>>, !.pc = "read"]
    /\ UNCHANGED <<sys, hist>>

ReadSet ==
    /\ wg.pc = "read" /\ wg.op = "set"
    /\ Return(set_errno(wg.reply), [from |-> "daemon"])
    /\ UNCHANGED <<sys, hist>>
ReadGet ==
    /\ wg.pc = "read" /\ wg.op = "show"
    /\ \E resolves \in BOOLEAN :
         LET r == userspace_get_device(wg.reply, resolves)
         IN Return(r.ret, IF r.dev = NULL THEN NULL ELSE [from |-> "daemon", dev |-> r.dev])
    /\ UNCHANGED <<sys, hist>>

-----------------------------------------------------------------------------
(* The kernel backends.  Linux reads and writes in one step here: NetlinkGet   *)
(* and SetDevice show that this is how it looks.                               *)
Size(c) ==
    1 + Cardinality({k \in Keys : c.base.peers[k] # NULL})
      + Cardinality({i \in Ips : c.base.owner[i] # NULL})

Read == Return("0", [from |-> "kernel", dev |-> KernelRead(sys.kern[name])])

KernelGetLinux ==
    /\ wg.pc = "kernel" /\ wg.op = "show" /\ platform = "linux"
    /\ IF IsWg(name) THEN Read ELSE Fail("ENODEV")
    /\ UNCHANGED <<sys, hist>>

\* Slip: a buffer that is just large enough is not accepted.
EnoughStrict(size, need) == size > need
Enough(size, need) == size >= need
(* OpenBSD: the call tells the size it needs; it is repeated with a buffer of  *)
(* that size until it is enough.                                               *)
Grow(need) == wg' = [wg EXCEPT !.size = need, !.pc = "alloc"]
KernelGetOpenbsd ==
    /\ wg.pc = "kernel" /\ wg.op = "show" /\ platform = "openbsd"
    /\ IF ~IsWg(name) THEN Fail("ENXIO")
       ELSE IF Enough(wg.size, Size(sys.kern[name])) THEN Read
       ELSE Grow(Size(sys.kern[name]))
    /\ UNCHANGED <<sys, hist>>

(* FreeBSD: one call for the size and one for the data. *)
KernelSizeFreebsd ==
    /\ wg.pc = "kernel" /\ wg.op = "show" /\ platform = "freebsd"
    /\ IF ~IsWg(name) THEN Fail("ENXIO")
       ELSE Grow(Size(sys.kern[name]))
    /\ UNCHANGED <<sys, hist>>
KernelGetFreebsd ==
    /\ wg.pc = "data"
    /\ IF ~IsWg(name) THEN Fail("ENXIO")
       ELSE IF Size(sys.kern[name]) > wg.size THEN Fail("ENOSPC") ELSE Read
    /\ UNCHANGED <<sys, hist>>

(* The allocation of the buffer, before the next call. *)
Allocate ==
    /\ wg.pc = "alloc"
    /\ \/ Go(CASE platform = "openbsd" -> "kernel" [] platform = "freebsd" -> "data" [] OTHER -> "ioctl")
       \/ Fail("ENOMEM")
    /\ UNCHANGED <<sys, hist>>

(* Windows: the adapter is looked up in the list that was kept, or else        *)
(* searched for; then as on OpenBSD, where too small a buffer is an error.     *)
KernelHandle ==
    /\ wg.pc = "kernel" /\ platform = "windows"
    /\ IF IsWg(name) THEN Go("ioctl")
       ELSE Fail(IF wg.adapters # NULL /\ name \in wg.adapters THEN "EACCES" ELSE "ENOENT")
    /\ UNCHANGED <<sys, hist>>
KernelGetWindows ==
    /\ wg.pc = "ioctl" /\ wg.op = "show"
    /\ IF ~IsWg(name) THEN Fail("EACCES")
       ELSE IF Enough(wg.size, Size(sys.kern[name])) THEN Read
       ELSE Grow(Size(sys.kern[name]))
    /\ UNCHANGED <<sys, hist>>

(* What cannot be said to an interface in the kernel. *)
device_has_ws_settings(d) ==
    \/ d.ws \notin {NULL, ""}
    \/ \E i \in 1..Len(d.peers) : d.peers[i].transport \in {"websocket", "wstunnel"}

WsGuard ==
    /\ wg.pc = "guard"
    /\ IF device_has_ws_settings(wg.dev) THEN Fail("EOPNOTSUPP") ELSE Go("kernel")
    /\ UNCHANGED <<sys, hist>>

(* The device as each backend packs it for the kernel, NULL if it cannot: the  *)
(* fields whose flag is set, and nothing of WebSockets.  OpenBSD has no        *)
(* allowed IPs that are removed, Windows no mark.                              *)
PackedPeer(p) ==
    [key |-> p.key, psk |-> p.psk, ka |-> p.ka, endpoint |-> p.endpoint, replace |-> p.replace,
     remove |-> p.remove, aips |-> p.aips]
PackedFreebsd(d) ==
    [priv |-> d.priv, port |-> d.port, fwmark |-> d.fwmark, replace |-> d.replace,
     peers |-> [i \in 1..Len(d.peers) |-> PackedPeer(d.peers[i])]]
HasRemovedIp(d) == \E i \in 1..Len(d.peers) : \E j \in 1..Len(d.peers[i].aips) : d.peers[i].aips[j].remove
PackedOpenbsd(d) == IF HasRemovedIp(d) THEN NULL ELSE PackedFreebsd(d)
PackedWindows(d) == [PackedFreebsd(d) EXCEPT !.fwmark = NULL]
Packed(d) ==
    CASE platform = "openbsd" -> PackedOpenbsd(d)
      [] platform = "windows" -> PackedWindows(d)
      [] OTHER -> PackedFreebsd(d)

KernelSet ==
    /\ wg.pc = (IF platform = "windows" THEN "ioctl" ELSE "kernel") /\ wg.op = "set"
    /\ LET old == sys.kern[name]
           new == [old EXCEPT !.base = ApplyDevice(@, Packed(wg.dev))]
       IN IF Packed(wg.dev) = NULL
          THEN Fail("EOPNOTSUPP") /\ UNCHANGED <<sys, hist>>
          ELSE IF ~IsWg(name) THEN Fail("ENODEV") /\ UNCHANGED <<sys, hist>>
          ELSE /\ Return("0", [from |-> "kernel"])
               /\ sys' = [sys EXCEPT !.kern[name] = new]
               /\ hist' = [hist EXCEPT !.effect = [before |-> old, after |-> new]]

-----------------------------------------------------------------------------
(* The others: daemons that start, are killed or exit, another wg that finds a *)
(* stale socket, and changes of interfaces in the kernel.                      *)
StartDaemon(n) ==
    /\ sys.events < MaxEvents /\ sys.sock[n] >= 0 /\ ~Live(n)
    /\ \E c \in DaemonConfs :
         sys' = [sys EXCEPT !.sock[n] = sys.started + 1, !.started = @ + 1,
                            !.alive = @ \cup {sys.started + 1}, !.dconf[sys.started + 1] = c,
                            !.events = @ + 1]
    /\ UNCHANGED wg /\ Happened
KillDaemon(n) ==
    /\ sys.events < MaxEvents /\ Live(n)
    /\ sys' = Killed(sys.sock[n])
    /\ UNCHANGED wg /\ Happened
ExitDaemon(n) ==
    /\ sys.events < MaxEvents /\ Live(n)
    /\ sys' = [Killed(sys.sock[n]) EXCEPT !.sock[n] = 0]
    /\ UNCHANGED wg /\ Happened
OtherUnlinks(n) ==
    /\ sys.events < MaxEvents /\ sys.sock[n] > 0 /\ ~Live(n)
    /\ sys' = [sys EXCEPT !.sock[n] = 0, !.events = @ + 1]
    /\ hist' = [hist EXCEPT !.gone = IF wg.listing THEN @ \cup {n} ELSE {}]
    /\ UNCHANGED wg
KernelChange(n) ==
    /\ sys.events < MaxEvents /\ platform # "other" /\ sys.kern[n] # FOREIGN
    /\ \E c \in KernelConfs \ {sys.kern[n]} :
         sys' = [sys EXCEPT !.kern[n] = c, !.moved = TRUE, !.events = @ + 1]
    /\ UNCHANGED wg /\ Happened

Command ==
    \/ KernelListRequest \/ KernelListMessage \/ GroupSize \/ GroupMembers \/ ListAdapters
    \/ NoKernelList \/ OpenDir \/ ReadDir \/ AddName \/ ListPipes \/ ShowListed \/ ShowNext
    \/ Access \/ ProbeStat \/ ProbeConnect \/ ProbeUnlink \/ ProbePipe
    \/ OpenStat \/ OpenConnect \/ OpenUnlink \/ TalkSet \/ TalkGet \/ TalkReset \/ ReadSet \/ ReadGet
    \/ KernelGetLinux \/ KernelGetOpenbsd \/ KernelSizeFreebsd \/ KernelGetFreebsd \/ Allocate
    \/ KernelHandle \/ KernelGetWindows \/ WsGuard \/ KernelSet
Others ==
    \E n \in Names :
      StartDaemon(n) \/ KillDaemon(n) \/ ExitDaemon(n) \/ OtherUnlinks(n) \/ KernelChange(n)

Ended == wg.pc = "failed" \/ (wg.pc = "next" /\ wg.queue = <<>>)
Done == Ended /\ UNCHANGED ipcVars

(* The command takes its next step, and every call it makes returns: this is   *)
(* WF_ipcVars(Command), as Command is enabled until the command has ended and  *)
(* its steps are the ones that change wg.  (TLC is slow to evaluate ENABLED    *)
(* for the long texts of TalkSet.)                                             *)
Fairness == []<>Ended \/ []<><<TRUE>>_wg

IpcNext == Command \/ Others \/ Done
IpcSpec == IpcInit /\ [][IpcNext]_ipcVars /\ Fairness

-----------------------------------------------------------------------------

(* The two terminators of the list of names are inside the buffer, whatever    *)
(* names are added in whatever order (string_list_add).                        *)
ListRoom ==
    /\ Len(wg.list.buf) = wg.list.cap
    /\ wg.list.cap > 0 => wg.list.len + 1 <= wg.list.cap

(* A list that ipc_list_devices returns has every interface that was there all *)
(* the time, unless Linux has cut the dump short, and no interface that never  *)
(* was there.  (Only a stale socket that another wg removes between stat and   *)
(* connect is taken for an interface.)                                         *)
ListFaithful ==
    wg.pc = "listed" =>
      LET names == NamesIn(wg.list)
          listed == {names[i] : i \in 1..Len(names)}
      IN /\ \A e \in hist.always : e[2] \in listed \/ (e[1] = "kernel" /\ hist.partial)
         /\ listed \subseteq {e[2] : e \in hist.ever} \cup hist.gone

(* wg removes the socket of a running daemon only if the daemon was started    *)
(* after the connection to its predecessor was refused: the window between     *)
(* connect and unlink.                                                         *)
LiveSocketKept == \A o \in hist.orphans : o.daemon > o.since

(* What ipc_get_device returns is what the backend it comes from held at some  *)
(* moment of the call, and never a part of it after an error; and as long as a *)
(* daemon serves the interface all the time, the kernel is neither read nor    *)
(* written, while without a daemon nothing comes from one.  (On Windows        *)
(* `show all` goes by the daemons it had when it listed the interfaces.  The   *)
(* kernel backend of OpenBSD loses the endpoints of IPv6: see ShowIsCurrent.)  *)
Shorn(h) ==
    IF platform # "openbsd" \/ h.from # "kernel" THEN h
    ELSE [h EXCEPT !.dev.peers = [i \in 1..Len(@) |->
            [@[i] EXCEPT !.endpoint = IF @ = "v6" THEN NULL ELSE @]]]
BackendConsistent ==
    wg.got # NULL =>
      /\ wg.op = "show" => wg.ret = "0" /\ Shorn(wg.got) \in {Shorn(h) : h \in hist.seen}
      /\ wg.got.from = "kernel" /\ wg.pipes = NULL => hist.steady # "daemon"
      /\ wg.got.from = "daemon" => hist.steady # "none"

(* What the manual says of `wg show`: it shows the current configuration and   *)
(* runtime information of the interface, endpoints included.  So what          *)
(* ipc_get_device returns is all that the interface held at some moment.       *)
ShowIsCurrent == wg.op = "show" /\ wg.got # NULL => wg.got \in hist.seen

(* When ipc_set_device returns 0, the interface has become what the            *)
(* configuration asks of it, through a daemon's text as well as through a      *)
(* kernel: an answer that ends early is never taken for success, and settings  *)
(* for WebSockets do not get lost in a kernel.  (A kernel does not get the     *)
(* WebSocket keys of a peer whose transport is not mentioned, nor Windows the  *)
(* mark.)                                                                      *)
Unheard(d) ==
    /\ wg.got.from = "kernel"
    /\ \/ platform = "windows" /\ d.fwmark # NULL
       \/ \E i \in 1..Len(d.peers) : d.peers[i].transport = NULL /\ d.peers[i].ws # NULL
SetTakesEffect ==
    wg.op = "set" /\ wg.ret = "0" /\ ~Unheard(wg.dev) =>
      hist.effect.after = Asked(hist.effect.before, wg.dev)

(* The command ends if daemons answer or die and the others stop changing the  *)
(* interface: the loops that ask for the size again come to an end.            *)
CommandEnds == <>Ended
=============================================================================
