------------------------------ MODULE WgLibrary ------------------------------
(***************************************************************************)
(* The embeddable library (src/contrib/embeddable-wg-library/wireguard.c)  *)
(* under the program of its test.c: create an interface, configure it,     *)
(* list all interfaces, read each, delete the one created.  Meanwhile      *)
(* other processes create, change and delete interfaces.                   *)
(*                                                                         *)
(* The library is a copy of the netlink code of `wg` with differences of   *)
(* its own.  What the attributes of a message cost is left out here: a     *)
(* message holds any number of items up to MaxItems, an item being the     *)
(* header of a peer or one allowed IP.  One page holds at least one.       *)
(***************************************************************************)
EXTENDS KernelConfig, SequencesExt

CONSTANTS
    Names,       \* interface names
    Target,      \* the name of the program's interface, "wgtest0" in test.c
    Devices,     \* what the program configures
    Ifaces,      \* what other processes make of an interface
    FOREIGN,     \* the content of an interface of another kind
    MaxItems,    \* items, or links, in one message
    MaxChanges,  \* what other processes do
    MaxFaults    \* interrupted reads and failed allocations of allowed IPs

ASSUME LibraryAssumption ==
    /\ Target \in Names
    /\ Devices \subseteq WgDev /\ Ifaces \subseteq Iface
    /\ MaxItems \in Nat \ {0}

VARIABLES
    link,     \* the links of the machine: by name, index (0: none) and content
    born,     \* the last index given to a link
    changes,  \* what other processes have done so far
    faults,   \* the interrupted reads so far
    nomem,    \* the allocations of allowed IPs that failed in this wg_get_device
    dirty,    \* whether what is being dumped has changed since the last message
    dev,      \* what wg_set_device configures
    pc,       \* where the program is
    at,       \* how far wg_set_device is, in items
    cursor,   \* how far the dump is: a link index, or a number of items
    list,     \* the names read so far
    todo,     \* the names that are still to be read
    device,   \* the peers parsed so far
    ret,      \* the variable ret of wg_get_device
    mine,     \* the index of the link the program has created, 0 before (history)
    begun,    \* the links when the call began (history)
    seen      \* what the interface has held since the last request (history)

calls == <<dev, at, cursor, list, todo, device, ret, nomem>>
libVars == <<link, born, changes, faults, dirty, pc, calls, mine, begun, seen>>

NoLink == [index |-> 0, holds |-> NULL]
FreshIface == [priv |-> NULL, port |-> 0, fwmark |-> 0, peers |-> NoPeers, owner |-> NoOwners]
Exists(n) == link[n].index # 0
IsWireguard(n) == Exists(n) /\ link[n].holds # FOREIGN

Ended == pc \in {"exit", "failed", "crashed"}

-----------------------------------------------------------------------------
(* Lists of peers as items: a peer's header, marked 0, then its allowed IPs. *)
Items(ps) ==
    FlattenSeq([p \in 1..Len(ps) |-> [i \in 1 .. Len(ps[p].aips) + 1 |-> <<p, i - 1>>]])

(* A run of items as the peer nests of a message. *)
Fragments(items) ==
    LET order == SetToSortSeq({x[1] : x \in ToSet(items)}, <)
        its(p) == {x[2] : x \in {y \in ToSet(items) : y[1] = p}}
        nest(p) == [peer |-> p, first |-> 0 \in its(p),
                    from |-> IF 0 \in its(p) THEN 1 ELSE Min(its(p)), to |-> Max(its(p)) + 1]
    IN [i \in 1..Len(order) |-> nest(order[i])]

(* The peers of an interface in the order the kernel dumps them (external). *)
Dumped(f) ==
    LET aips(k) == SelectSeq(SetToSeq(Ips), LAMBDA i : f.owner[i] = k)
        here == SelectSeq(SetToSeq(Keys), LAMBDA k : f.peers[k] # NULL)
    IN [i \in 1..Len(here) |-> [key |-> here[i], aips |-> aips(here[i])]]

-----------------------------------------------------------------------------
LibInit ==
    /\ \E holds \in [Names -> {NULL, FOREIGN} \cup Ifaces] :
         LET there == SelectSeq(SetToSeq(Names), LAMBDA n : holds[n] # NULL)
         IN /\ link = [n \in Names |->
                         IF holds[n] = NULL THEN NoLink
                         ELSE [index |-> CHOOSE i \in 1..Len(there) : there[i] = n,
                               holds |-> holds[n]]]
            /\ born = Len(there)
    /\ dev \in Devices
    /\ changes = 0 /\ faults = 0 /\ nomem = 0 /\ dirty = FALSE
    /\ pc = "add" /\ at = 0 /\ cursor = 0
    /\ list = <<>> /\ todo = <<>> /\ device = <<>> /\ ret = "0"
    /\ mine = 0 /\ begun = link /\ seen = {}

(* exit(1) behind a call that failed. *)
Fails == pc' = "failed"

(* RTM_NEWLINK with NLM_F_CREATE and NLM_F_EXCL, and RTM_DELLINK. *)
\* Slip: without NLM_F_EXCL the kernel takes an existing link for the one asked for.
NewLinkShared(n) ==
    IF Exists(n) THEN UNCHANGED <<link, born>>
    ELSE /\ link' = [link EXCEPT ![n] = [index |-> born + 1, holds |-> FreshIface]]
         /\ born' = born + 1
NewLink(n) ==
    /\ ~Exists(n)
    /\ link' = [link EXCEPT ![n] = [index |-> born + 1, holds |-> FreshIface]]
    /\ born' = born + 1
DelLink(n) ==
    /\ Exists(n)
    /\ link' = [link EXCEPT ![n] = NoLink]
    /\ UNCHANGED born

(* add_del_iface.  When the answer cannot be read, what was asked for has been *)
(* done all the same.                                                          *)
add_del_iface(n, add, next) ==
    \/ /\ IF add THEN NewLink(n) ELSE DelLink(n)
       /\ pc' = next \/ Fails
    \/ Fails /\ UNCHANGED <<link, born>>

wg_add_device ==
    /\ pc = "add"
    /\ add_del_iface(Target, TRUE, "set")
    /\ begun' = link'
    /\ mine' = IF born' # born THEN born' ELSE 0
    /\ UNCHANGED <<changes, faults, dirty, calls, seen>>

wg_del_device ==
    /\ pc = "del"
    /\ add_del_iface(Target, FALSE, "exit")
    /\ UNCHANGED <<changes, faults, dirty, calls, mine, begun, seen>>

(* One peer nest of wg_set_device.  What is under `if (!allowedip)` is in the  *)
(* first nest of a peer only, WGPEER_F_REMOVE_ME in every one.                 *)
\* Slip: REPLACE_ALLOWEDIPS in every nest of a peer.
PeerNestReplacing(f) ==
    [peer |-> f.peer, first |-> f.first, flags |-> UserFlags(dev.peers[f.peer]),
     from |-> f.from, to |-> f.to]
PeerNest(f) ==
    [peer |-> f.peer, first |-> f.first,
     flags |-> UserFlags(dev.peers[f.peer])
                 \ (IF f.first THEN {} ELSE {"REPLACE_ALLOWEDIPS"}),
     from |-> f.from, to |-> f.to]

(* The message with the items from at + 1 to `to`; the attributes of the device *)
(* are in the first.                                                            *)
DeviceNest == [peer |-> 0, first |-> TRUE, flags |-> {}, from |-> 1, to |-> 1]
SetMessage(to) ==
    LET fs == Fragments(SubSeq(Items(dev.peers), at + 1, to))
    IN (IF at = 0 THEN <<DeviceNest>> ELSE <<>>) \o [i \in 1..Len(fs) |-> PeerNest(fs[i])]

(* Where peer and allowedip stand when a message ends with the item `to`; they *)
(* are NULL behind the last item, and `if (peer) goto again` goes on otherwise. *)
\* Slip: the loop starts over behind the last peer.
ResumeOver(to) == IF to = Len(Items(dev.peers)) THEN 0 ELSE to
Resume(to) == to
PeersLeft == at' < Len(Items(dev.peers))

(* One turn of wg_set_device from `again`.  The kernel applies the message, or *)
(* a part of it when it answers an error; an error may also hide that it was   *)
(* applied.                                                                    *)
wg_set_device ==
    /\ pc = "set"
    /\ \/ Fails /\ UNCHANGED <<link, at>>
       \/ /\ IsWireguard(Target)
          /\ \E n \in 0..MaxItems :
               /\ n = 0 => dev.peers = <<>>
               /\ at + n <= Len(Items(dev.peers))
               /\ \/ at' = Resume(at + n) /\ pc' = IF PeersLeft THEN "set" ELSE "names"
                  \/ at' = at /\ Fails
               /\ link' = [link EXCEPT ![Target].holds = ApplyEntries(@, dev, SetMessage(at + n))]
    /\ UNCHANGED <<born, changes, faults, dirty, dev, cursor, list, todo, device, ret, nomem, mine, begun, seen>>

-----------------------------------------------------------------------------
(* wg_list_device_names: the request of fetch_device_names. *)
NamesRequest ==
    /\ pc = "names"
    /\ \/ pc' = "another" /\ list' = <<>> /\ cursor' = 0 /\ dirty' = FALSE /\ begun' = link
       \/ Fails /\ UNCHANGED <<list, cursor, dirty, begun>>
    /\ UNCHANGED <<link, born, changes, faults, dev, at, todo, device, ret, nomem, mine, seen>>

(* NLM_F_DUMP_INTR in __mnl_cb_run, which makes errno EINTR. *)
DumpIntr == dirty

(* read_devices_cb: the name of a link of the kind "wireguard". *)
\* Slip: every link with a name is taken.
ReadDevicesAll(n) == <<n>>
read_devices_cb(n) == IF link[n].holds # FOREIGN THEN <<n>> ELSE <<>>

(* The links behind the cursor, in the order of their index (external). *)
LinksLeft ==
    SetToSortSeq({n \in Names : link[n].index > cursor},
                 LAMBDA m, n : link[m].index < link[n].index)

(* One message: the loop `another`.  A dump that was interrupted is used as far *)
(* as it has come; another error of recvmsg, or in the list, is returned.       *)
NamesMessage ==
    /\ pc = "another"
    /\ \/ /\ DumpIntr \/ LinksLeft = <<>>
          /\ pc' = "each" /\ todo' = list
          /\ UNCHANGED <<list, cursor, dirty>>
       \/ /\ ~DumpIntr
          /\ \E n \in 1..MaxItems :
               /\ n <= Len(LinksLeft)
               /\ list' = list \o FlattenSeq([i \in 1..n |-> read_devices_cb(LinksLeft[i])])
               /\ cursor' = link[LinksLeft[n]].index
               /\ dirty' = FALSE
          /\ UNCHANGED <<pc, todo>>
       \/ Fails /\ UNCHANGED <<list, cursor, dirty, todo>>
    /\ UNCHANGED <<link, born, changes, faults, dev, at, device, ret, nomem, mine, begun, seen>>

(* wg_for_each_device_name in list_devices, up to the empty name at the end. *)
EachName ==
    /\ pc = "each"
    /\ pc' = IF todo = <<>> THEN "del" ELSE "try_again"
    /\ ret' = "0"
    /\ UNCHANGED <<link, born, changes, faults, dirty, dev, at, cursor, list, todo, device, nomem,
                   mine, begun, seen>>

-----------------------------------------------------------------------------
(* wg_get_device from `out` on, with the value of ret: the device is returned, *)
(* or freed and read again, or freed and the error returned.                   *)
out(r, parsed) ==
    /\ ret' = r
    /\ pc' = CASE r = "0" -> "got" [] r = "EINTR" -> "try_again" [] OTHER -> "each"
    /\ device' = IF r = "0" THEN parsed ELSE <<>>
    /\ todo' = IF r = "error" THEN Tail(todo) ELSE todo

Interrupt == faults < MaxFaults /\ faults' = faults + 1

(* try_again: a new device, socket and request.  ret keeps its value. *)
GetRequest ==
    /\ pc = "try_again"
    /\ \/ /\ pc' = "recv" /\ device' = <<>> /\ cursor' = 0 /\ dirty' = FALSE
          /\ nomem' = 0 /\ seen' = {link[Head(todo)].holds}
          /\ UNCHANGED <<faults, todo, ret>>
       \/ /\ Interrupt /\ out("EINTR", <<>>)
          /\ UNCHANGED <<cursor, dirty, nomem, seen>>
       \/ /\ out("error", <<>>)
          /\ UNCHANGED <<faults, cursor, dirty, nomem, seen>>
    /\ UNCHANGED <<link, born, changes, dev, at, list, mine, begun>>

(* parse_peers: one more peer, with its key and the allowed IPs of the nest. *)
Parsed(ps, f) == [key |-> ps[f.peer].key, aips |-> SubSeq(ps[f.peer].aips, f.from, f.to - 1)]

(* coalesce_peers: f is the peer behind the last of ps. *)
\* Slip: compares with the first peer, not with the one before.
MergeFirst(ps, f) ==
    IF ps = <<>> \/ ps[1].key # f.key THEN Append(ps, f)
    ELSE [ps EXCEPT ![1].aips = @ \o f.aips]
Merge(ps, f) ==
    IF ps = <<>> \/ ps[Len(ps)].key # f.key THEN Append(ps, f)
    ELSE [ps EXCEPT ![Len(ps)].aips = @ \o f.aips]
coalesce_peers(ps) == FoldLeft(Merge, <<>>, ps)

(* last_allowedip is NULL behind a nest without allowed IPs that was merged    *)
(* into a peer with some, and the next nest of the peer is appended there.     *)
DereferencesNull(ps) ==
    \E n \in 1 .. Len(ps) - 1 :
        /\ ps[n].aips = <<>> /\ ps[n + 1].key = ps[n].key
        /\ \E i \in 1..n : ps[i].key = ps[n].key /\ ps[i].aips # <<>>

(* One message of the answer: mnlg_socket_recv_run and read_device_cb.  When   *)
(* calloc fails in parse_allowedips, parse_peers ends the peer there and       *)
(* reports no error.  A ret that an interrupted round has left behind is still *)
(* there when a later round succeeds.                                          *)
GetMessage ==
    /\ pc = "recv"
    /\ LET n == Head(todo)
           ps == IF IsWireguard(n) THEN Dumped(link[n].holds) ELSE <<>>
           items == Items(ps)
       IN \/ /\ DumpIntr /\ out("EINTR", <<>>)
             /\ UNCHANGED <<faults, cursor, dirty, nomem>>
          \/ /\ Interrupt /\ out("EINTR", <<>>)
             /\ UNCHANGED <<cursor, dirty, nomem>>
          \/ /\ out("error", <<>>)
             /\ UNCHANGED <<faults, cursor, dirty, nomem>>
          \/ /\ IsWireguard(n) /\ ~DumpIntr
             /\ \E m \in 1..MaxItems :
                  LET fs == Fragments(SubSeq(items, cursor + 1, cursor + m))
                      parsed == [i \in 1..Len(fs) |-> Parsed(ps, fs[i])]
                  IN /\ cursor + m <= Len(items)
                     /\ cursor' = cursor + m
                     /\ \/ device' = device \o parsed /\ UNCHANGED <<faults, nomem>>
                        \/ /\ Interrupt /\ nomem' = nomem + 1
                           /\ \E i \in 1..Len(parsed) : \E j \in 0 .. Len(parsed[i].aips) - 1 :
                                device' = device \o [parsed EXCEPT ![i].aips = SubSeq(@, 1, j)]
             /\ dirty' = FALSE
             /\ UNCHANGED <<pc, ret, todo>>
          \/ /\ IsWireguard(n) /\ ~DumpIntr /\ cursor >= Len(items)
             /\ IF DereferencesNull(device) THEN pc' = "crashed" /\ UNCHANGED <<ret, todo, device>>
                ELSE out(ret, coalesce_peers(device))
             /\ UNCHANGED <<faults, cursor, dirty, nomem>>
    /\ UNCHANGED <<link, born, changes, dev, at, list, mine, begun, seen>>

(* The body of the loop of list_devices has printed the device and frees it. *)
wg_free_device ==
    /\ pc = "got"
    /\ pc' = "each" /\ device' = <<>> /\ todo' = Tail(todo)
    /\ UNCHANGED <<link, born, changes, faults, dirty, dev, at, cursor, list, ret, nomem, mine, begun, seen>>

Program ==
    \/ wg_add_device \/ wg_set_device \/ NamesRequest \/ NamesMessage \/ EachName
    \/ GetRequest \/ GetMessage \/ wg_free_device \/ wg_del_device

-----------------------------------------------------------------------------
(* Other processes.  The kernel marks the next message of a dump of links when *)
(* a link has come or gone, and of an interface when that has changed.         *)
Dirties(n, linkChange) ==
    dirty' = (\/ dirty \/ (pc = "another" /\ linkChange)
              \/ (pc = "recv" /\ n = Head(todo)))
Other(n) ==
    /\ ~Ended /\ changes < MaxChanges
    /\ changes' = changes + 1
    /\ \/ DelLink(n) /\ Dirties(n, TRUE)
       \/ \E f \in {FOREIGN} \cup Ifaces :
            /\ ~Exists(n)
            /\ link' = [link EXCEPT ![n] = [index |-> born + 1, holds |-> f]]
            /\ born' = born + 1
            /\ Dirties(n, TRUE)
       \/ /\ IsWireguard(n)
          /\ link' = [link EXCEPT ![n].holds = CHOOSE f \in Ifaces : f # @]
          /\ UNCHANGED born
          /\ Dirties(n, FALSE)
    /\ seen' = IF pc = "recv" /\ n = Head(todo) THEN seen \cup {link'[n].holds} ELSE seen
    /\ UNCHANGED <<faults, pc, calls, mine, begun>>

Stopped == Ended /\ UNCHANGED libVars

LibNext == Program \/ (\E n \in Names : Other(n)) \/ Stopped

(* The program is one sequential process that takes its next step, and every   *)
(* system call it makes returns.                                               *)
LibSpec == LibInit /\ [][LibNext]_libVars /\ WF_libVars(Program)

-----------------------------------------------------------------------------
(* When wg_set_device has returned 0 and no other process has touched anything, *)
(* the new interface holds what the configuration asks for, as if one message   *)
(* could have carried it, and every other link what it held before.             *)
LibSetApplies ==
    pc = "names" /\ changes = 0 =>
        link = [begun EXCEPT ![Target].holds = ApplyDevice(@, dev)]

(* wg_list_device_names gives WireGuard interfaces only, each once, all of them *)
(* from the moment of the request, and none is missing when no link came or     *)
(* went: the partial result of an interrupted dump is a part of that moment.    *)
LibNamesFaithful ==
    pc = "each" /\ todo = list =>
        LET were == {n \in Names : begun[n].index # 0 /\ begun[n].holds # FOREIGN}
        IN /\ IsInjective(list)
           /\ ToSet(list) \subseteq were
           /\ (\A n \in Names : begun[n].index = link[n].index) /\ ~dirty => ToSet(list) = were

(* A device that wg_get_device returns has the peers that the interface had at  *)
(* one moment since the last request, each once, with its own allowed IPs: all  *)
(* of them, unless an allocation failed.  Without that coalesce_peers never     *)
(* follows a null pointer.                                                      *)
LibGetFaithful ==
    /\ pc = "crashed" => nomem > 0
    /\ pc = "got" =>
         \E f \in seen :
            /\ f \in Iface
            /\ Len(device) = Len(Dumped(f))
            /\ \A i \in 1..Len(device) :
                 /\ device[i].key = Dumped(f)[i].key
                 /\ ToSet(device[i].aips) \subseteq ToSet(Dumped(f)[i].aips)
                 /\ nomem = 0 => device[i].aips = Dumped(f)[i].aips

(* A step of the program, apart from a sending that is interrupted. *)
ProgramSteps == <<pc, calls>>' # <<pc, calls>>

(* The program configures and deletes nothing but the link it has created, or *)
(* one that came later under its name: never a link that was there before, not *)
(* even when it already has the name that the program wants.                   *)
LibOthersKept ==
    [][ProgramSteps => \A n \in Names :
         Exists(n) /\ link'[n] # link[n] => mine # 0 /\ link[n].index >= mine]_libVars

(* The program comes to its end, or a read has been interrupted. *)
LibEndsUninterrupted == <>(Ended \/ ret = "EINTR")

(* Every wg_get_device returns a device or an error in the end, as list_devices *)
(* of test.c expects, so that the program comes to its end.                     *)
LibEnds == <>Ended
=============================================================================
