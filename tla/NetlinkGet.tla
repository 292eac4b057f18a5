----------------------------- MODULE NetlinkGet -----------------------------
(***************************************************************************)
(* kernel_get_device (src/src/ipc-linux.h): reading the peers of an        *)
(* interface with a netlink dump, while other processes change it.         *)
(*                                                                         *)
(* The kernel sends as many messages as it needs and may cut the list of   *)
(* allowed IPs of a peer anywhere; the rest follows under the same public  *)
(* key in the next message.  A change of the interface during the dump     *)
(* makes the kernel mark the messages that follow with NLM_F_DUMP_INTR.    *)
(* `wg` collects the peers of all messages, starts again when it sees the  *)
(* mark, and otherwise coalesces adjacent peers of the same key.           *)
(***************************************************************************)
EXTENDS WgDevice, SequencesExt

CONSTANTS
    Configs,    \* what the interface may hold: a list of peers with distinct keys
    MaxItems,   \* peer headers and allowed IPs that fit into one message
    MaxChanges, \* changes of the interface by other processes
    MaxFaults,  \* system calls a signal interrupts
    MaxNoMem    \* allowed IPs for which calloc fails

(* A peer of the interface: its key and the list of its allowed IPs. *)
KernelPeer == [key : Keys, aips : Seq(Ips)]
ASSUME ConfigsAssumption ==
    \A c \in Configs : /\ c \in Seq(KernelPeer)
                       /\ \A i, j \in 1..Len(c) : c[i].key = c[j].key => i = j
ASSUME MaxItemsAssumption == MaxItems \in Nat /\ MaxItems >= 2

VARIABLES
    cfg,      \* the peers of the interface
    changes,  \* how often other processes have changed it
    seen,     \* what it has held since the dump began
    cursor,   \* how many items of it the dump has sent
    began,    \* the value of changes when the dump began
    queue,    \* the message on its way to `wg`
    pc,       \* where kernel_get_device is
    device,   \* the peers parsed so far
    faults,   \* interrupted calls so far
    nomem,    \* failed allocations of allowed IPs so far
    ret       \* kernel_get_device's result

kernel == <<cfg, changes, seen, cursor, began>>
getVars == <<kernel, queue, pc, device, faults, nomem, ret>>

-----------------------------------------------------------------------------
(* The kernel's side of a dump (external). *)

(* The items of a configuration in the order the kernel dumps them: a peer's   *)
(* header, marked 0, then its allowed IPs by their index.                      *)
Items(c) ==
    FlattenSeq([p \in 1..Len(c) |-> [i \in 1 .. Len(c[p].aips) + 1 |-> <<p, i - 1>>]])

(* A run of items as the peer nests of a message.  Only a nest that begins     *)
(* with the header of its peer has the peer's attributes.                      *)
Nests(c, items) ==
    LET ps == {items[i][1] : i \in 1..Len(items)}
        nest(p) == LET mine == SelectSeq(items, LAMBDA x : x[1] = p)
                       ips == SelectSeq(mine, LAMBDA x : x[2] # 0)
                   IN [key |-> c[p].key, attrs |-> mine[1][2] = 0,
                       aips |-> [i \in 1..Len(ips) |-> c[p].aips[ips[i][2]]]]
        order == SetToSortSeq(ps, <)
    IN [i \in 1..Len(order) |-> nest(order[i])]

Interrupted == changes # began

(* The next message of the dump, or NLMSG_DONE behind the last.                *)
Dump ==
    /\ pc = "recv" /\ queue = <<>>
    /\ LET items == Items(cfg)
           left == Len(items) - cursor
       IN \/ /\ left <= 0
             /\ queue' = <<[type |-> "done", intr |-> Interrupted, peers |-> <<>>]>>
             /\ UNCHANGED cursor
          \/ \E n \in 1..MaxItems :
               /\ n <= left
               /\ queue' = <<[type |-> "data", intr |-> Interrupted,
                              peers |-> Nests(cfg, SubSeq(items, cursor + 1, cursor + n))]>>
               /\ cursor' = cursor + n
    /\ UNCHANGED <<cfg, changes, seen, began, pc, device, faults, nomem, ret>>

(* The dump fails, for example because the interface is gone. *)
DumpFails ==
    /\ pc = "recv" /\ queue = <<>>
    /\ queue' = <<[type |-> "error", intr |-> Interrupted, peers |-> <<>>]>>
    /\ UNCHANGED <<kernel, pc, device, faults, nomem, ret>>

(* Another process changes the interface. *)
Change ==
    /\ changes < MaxChanges
    /\ pc # "done"
    /\ cfg' \in Configs \ {cfg}
    /\ changes' = changes + 1
    /\ seen' = seen \cup {cfg'}
    /\ UNCHANGED <<cursor, began, queue, pc, device, faults, nomem, ret>>

-----------------------------------------------------------------------------
(* kernel_get_device. *)

GetInit ==
    /\ cfg \in Configs
    /\ changes = 0 /\ seen = {cfg} /\ cursor = 0 /\ began = 0
    /\ queue = <<>> /\ pc = "try_again" /\ device = <<>> /\ faults = 0 /\ nomem = 0 /\ ret = "none"

(* try_again: a new device, a new socket and a new request.  A signal during   *)
(* the sending starts over; any other failure is returned.                     *)
Request ==
    /\ pc = "try_again"
    /\ \/ /\ pc' = "recv" /\ device' = <<>> /\ queue' = <<>>
          /\ cursor' = 0 /\ began' = changes /\ seen' = {cfg}
          /\ UNCHANGED <<faults, ret>>
       \/ /\ faults < MaxFaults /\ faults' = faults + 1
          /\ UNCHANGED <<pc, device, queue, cursor, began, seen, ret>>
       \/ /\ pc' = "done" /\ ret' = "error" /\ device' = <<>>
          /\ UNCHANGED <<queue, cursor, began, seen, faults>>
    /\ UNCHANGED <<cfg, changes, nomem>>

(* A peer nest as parse_peer leaves it: last tells whether last_allowedip is set. *)
Parsed(n) == [key |-> n.key, aips |-> n.aips, attrs |-> n.attrs, last |-> n.aips # <<>>]
ParsedAll(ns) == [i \in 1..Len(ns) |-> Parsed(ns[i])]

(* The same when calloc fails in parse_allowedips behind the first n allowed   *)
(* IPs of nest i: its MNL_CB_ERROR ends the loop over the allowed IPs, but     *)
(* parse_peers tests `!ret`, reports MNL_CB_OK and goes on with the next peer. *)
ParsedShort(ns, i, n) ==
    ParsedAll([ns EXCEPT ![i].aips = SubSeq(ns[i].aips, 1, n)])

(* One turn of the loop of coalesce_peers: f is the peer behind the last of ps. *)
\* Slip: last_allowedip is not moved on.
MergeForgetsTail(ps, f) ==
    LET p == ps[Len(ps)]
    IN IF ps = <<>> \/ p.key # f.key THEN Append(ps, f)
       ELSE [ps EXCEPT ![Len(ps)].aips = p.aips \o f.aips]
Merge(ps, f) ==
    LET p == ps[Len(ps)]
    IN IF ps = <<>> \/ p.key # f.key THEN Append(ps, f)
       ELSE [ps EXCEPT ![Len(ps)].aips = p.aips \o f.aips, ![Len(ps)].last = f.last]

coalesce_peers(ps) == FoldLeft(Merge, <<>>, ps)

(* Whether some turn appends behind a last_allowedip that is NULL: behind a    *)
(* peer with allowed IPs, a nest of the same key without any, and another.     *)
DereferencesNull(ps) ==
    \E n \in 1 .. Len(ps) - 1 :
        LET done == coalesce_peers(SubSeq(ps, 1, n))
            p == done[Len(done)]
        IN p.key = ps[n + 1].key /\ p.aips # <<>> /\ ~p.last

(* NLM_F_DUMP_INTR in __mnl_cb_run, which makes errno EINTR. *)
\* Slip: the mark is not looked at.
NeverInterrupted(m) == FALSE
DumpIntr(m) == m.intr

(* Where kernel_get_device goes when ret is -EINTR. *)
\* Slip: reads on from the same dump.
ReadOn == "recv"
OnInterrupt == "try_again"

(* One message: __mnl_cb_run and read_device_cb, and what follows its result. *)
Receive ==
    /\ pc = "recv" /\ queue # <<>>
    /\ LET m == queue[1]
       IN \/ /\ DumpIntr(m)
             /\ pc' = OnInterrupt
             /\ UNCHANGED <<device, nomem, ret>>
          \/ /\ ~DumpIntr(m) /\ m.type = "data"
             /\ device' = device \o ParsedAll(m.peers)
             /\ UNCHANGED <<pc, nomem, ret>>
          \/ /\ ~DumpIntr(m) /\ m.type = "data"
             /\ nomem < MaxNoMem /\ nomem' = nomem + 1
             /\ \E i \in 1..Len(m.peers) : \E n \in 0 .. Len(m.peers[i].aips) - 1 :
                    device' = device \o ParsedShort(m.peers, i, n)
             /\ UNCHANGED <<pc, ret>>
          \/ /\ ~DumpIntr(m) /\ m.type = "done"
             /\ device' = coalesce_peers(device)
             /\ ret' = IF DereferencesNull(device) THEN "crash" ELSE "ok"
             /\ pc' = "done"
             /\ UNCHANGED nomem
          \/ /\ ~DumpIntr(m) /\ m.type = "error"
             /\ pc' = "done" /\ ret' = "error" /\ device' = <<>>
             /\ UNCHANGED nomem
    /\ queue' = <<>>
    /\ UNCHANGED <<kernel, faults>>

(* recvmsg fails: with EINTR the function starts again, with anything else it  *)
(* gives up, as it does when calloc fails in parse_peers.                      *)
ReceiveFails ==
    /\ pc = "recv"
    /\ \/ faults < MaxFaults /\ faults' = faults + 1 /\ pc' = OnInterrupt /\ UNCHANGED <<device, ret>>
       \/ pc' = "done" /\ ret' = "error" /\ device' = <<>> /\ UNCHANGED faults
    /\ UNCHANGED <<kernel, queue, nomem>>

Get == Request \/ Receive \/ ReceiveFails

GetNext == Dump \/ DumpFails \/ Change \/ Get

GetSpec == GetInit /\ [][GetNext]_getVars

(* The kernel answers every recvmsg and `wg` handles what it receives: the     *)
(* last conjunct is WF_getVars(Receive), as Receive is enabled exactly while a *)
(* message is waiting.                                                         *)
GetFairSpec ==
    /\ GetSpec /\ WF_getVars(Dump) /\ WF_getVars(Request)
    /\ []<>~(pc = "recv" /\ queue # <<>>) \/ []<><<Receive>>_getVars

-----------------------------------------------------------------------------
(* On success `wg` has exactly what the interface held at one moment since the *)
(* last request: no peer or allowed IP lost or doubled at a message boundary,  *)
(* and no mixture of two configurations, whatever other processes did.  If     *)
(* memory was short for an allowed IP, which kernel_get_device does not        *)
(* report, it still has the peers of one moment, each with none but its own    *)
(* allowed IPs.                                                                *)
GetReturnsSnapshot ==
    ret = "ok" =>
        \E c \in seen :
            /\ Len(device) = Len(c)
            /\ \A i \in 1..Len(c) : /\ device[i].key = c[i].key
                                    /\ ToSet(device[i].aips) \subseteq ToSet(c[i].aips)
                                    /\ nomem = 0 => device[i].aips = c[i].aips

(* coalesce_peers only appends behind a last_allowedip that is set, and leaves *)
(* every peer with the attributes of its first nest and with last_allowedip    *)
(* set exactly when it has an allowed IP.  (While no allocation fails.)        *)
CoalescedPeersWhole ==
    nomem = 0 =>
      /\ ret # "crash"
      /\ ret = "ok" => \A i \in 1..Len(device) :
                         device[i].attrs /\ (device[i].last <=> device[i].aips # <<>>)

(* When other processes leave the interface alone in the end, the retries on  *)
(* EINTR come to an end.                                                      *)
GetTerminates == <>(pc = "done")
=============================================================================
