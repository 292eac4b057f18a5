------------------------------ MODULE SyncConf ------------------------------
(***************************************************************************)
(* setconf_main and sync_conf (src/src/setconf.c): `wg setconf`, `wg       *)
(* addconf` and `wg syncconf` on an interface that other processes may     *)
(* change at any moment.                                                   *)
(*                                                                         *)
(* syncconf reads the interface, turns the configuration file into the     *)
(* difference to what it has read, and writes that.  Reading is one step:  *)
(* NetlinkGet shows that its result is what the interface held at one      *)
(* moment.  Writing goes through the configuration peer by peer and may    *)
(* fail anywhere: SetDevice shows that it is an ordered update.            *)
(***************************************************************************)
EXTENDS KernelConfig

CONSTANTS
    Files,      \* what config_read_finish may return
    Ifaces,     \* what the interface may hold before the command
    KeyOrder,   \* the public keys in the order of memcmp
    OtherKeys,  \* the peers other processes add and remove
    MaxOthers   \* how often they do

(* A file cannot ask for the removal of a peer; the kernel gives no allowed IP *)
(* to a peer it does not have; and a key of all zeros is a key.                *)
ASSUME FilesAssumption ==
    Files \subseteq {d \in WgDev : \A i \in 1..Len(d.peers) : ~d.peers[i].remove}
ASSUME IfacesAssumption ==
    Ifaces \subseteq {f \in Iface : \A i \in Ips : f.owner[i] # NULL => f.peers[f.owner[i]] # NULL}
ASSUME OthersAssumption == OtherKeys \subseteq Keys
ASSUME KeyOrderAssumption ==
    /\ KeyOrder \in Seq(Keys) /\ {KeyOrder[i] : i \in 1..Len(KeyOrder)} = Keys
    /\ \A i, j \in 1..Len(KeyOrder) : KeyOrder[i] = KeyOrder[j] => i = j
ASSUME ZeroAssumption == "zero" \in Secrets

VARIABLES
    cmd,      \* the subcommand
    file,     \* the device made from the file, as parsed
    device,   \* the device that is written
    runtime,  \* the peers read back
    iface,    \* the interface
    before,   \* what it held when the command began
    others,   \* the peers other processes have touched, and when
    next,     \* the next peer of device to write; 0 is the device itself
    pc, ret

syncVars == <<cmd, file, device, runtime, iface, before, others, next, pc, ret>>

KeysOf(d) == {d.peers[i].key : i \in 1..Len(d.peers)}
Existing(peers) == {k \in Keys : peers[k] # NULL}

-----------------------------------------------------------------------------
(* Everything config_read_init and the parser may hand over: addconf is the   *)
(* command whose device does not replace the peers.                           *)
SyncInit ==
    /\ file \in Files
    /\ cmd \in IF file.replace THEN {"setconf", "syncconf"} ELSE {"addconf"}
    /\ device = file
    /\ iface \in Ifaces
    /\ before = iface
    /\ runtime = NoPeers
    /\ others = <<>>
    /\ next = 0
    /\ pc = "parse" /\ ret = "none"

Fail == pc' = "done" /\ ret' = "error"

(* Opening and parsing the file, then on to sync_conf or straight to writing. *)
Parse ==
    /\ pc = "parse"
    /\ \/ Fail
       \/ /\ pc' = IF cmd = "syncconf" /\ file.peers # <<>> THEN "get" ELSE "set"
          /\ UNCHANGED ret
    /\ UNCHANGED <<cmd, file, device, runtime, iface, before, others, next>>

(* sync_conf reads the interface back.  It leaves the device as it is if the  *)
(* interface has no peers.                                                    *)
GetRuntime ==
    /\ pc = "get"
    /\ \/ Fail /\ UNCHANGED runtime
       \/ /\ runtime' = iface.peers
          /\ pc' = IF Existing(iface.peers) = {} THEN "set" ELSE "sync"
          /\ UNCHANGED ret
    /\ UNCHANGED <<cmd, file, device, iface, before, others, next>>

Removal(k) == [key |-> k, remove |-> TRUE, replace |-> FALSE, psk |-> NULL,
               endpoint |-> NULL, ka |-> NULL, aips |-> <<>>]

(* The entries that remove the peers of the interface the file does not have; *)
(* each one is put in front of the last.                                      *)
Removals(rt, d) ==
    InTurn(LAMBDA rs, k : IF k \in Existing(rt) \ KeysOf(d) THEN <<Removal(k)>> \o rs ELSE rs,
             <<>>, KeyOrder)

(* What the file does not say about a peer of the interface is reset. *)
\* Slip: the keepalive is forgotten.
ResetPskOnly(r, p) ==
    [p EXCEPT !.psk = IF r.psk # NULL /\ @ = NULL THEN "zero" ELSE @]
ResetUnset(r, p) ==
    [p EXCEPT !.psk = IF r.psk # NULL /\ @ = NULL THEN "zero" ELSE @,
              !.ka = IF r.ka # 0 /\ @ = NULL THEN 0 ELSE @]

(* WGDEVICE_REPLACE_PEERS of the device that sync_conf leaves. *)
\* Slip: the flag is not cleared.
StillReplaces == TRUE
SyncReplaces == FALSE

(* The sorted array.  A peer of the interface is directly before one of the     *)
(* entries of the file with its key, and only that one is looked at.  The       *)
(* entries with the same key compare equal, so qsort may bring any of them      *)
(* there.                                                                       *)
Both(rt, d) == Existing(rt) \cap KeysOf(d)
Sorted(rt, d) ==
    {hit \in [Both(rt, d) -> 1..Len(d.peers)] : \A k \in Both(rt, d) : d.peers[hit[k]].key = k}
Edited(rt, d, hit) ==
    [i \in 1..Len(d.peers) |->
       LET p == d.peers[i]
       IN IF p.key \in Both(rt, d) /\ hit[p.key] = i THEN ResetUnset(rt[p.key], p) ELSE p]
Difference(rt, d, hit) ==
    [d EXCEPT !.replace = SyncReplaces, !.peers = Removals(rt, d) \o Edited(rt, d, hit)]

(* The loop over the sorted array. *)
Sync ==
    /\ pc = "sync"
    /\ \/ Fail /\ UNCHANGED device
       \/ /\ \E hit \in Sorted(runtime, file) : device' = Difference(runtime, file, hit)
          /\ pc' = "set"
          /\ UNCHANGED ret
    /\ UNCHANGED <<cmd, file, runtime, iface, before, others, next>>

(* ipc_set_device: the next part of the device, or an error. *)
Set ==
    /\ pc = "set"
    /\ \/ Fail /\ UNCHANGED <<iface, next>>
       \/ /\ next <= Len(device.peers)
          /\ iface' = ApplyEntry(iface, device,
                        IF next = 0 THEN [peer |-> 0]
                        ELSE LET p == device.peers[next]
                             IN [peer |-> next, first |-> TRUE, flags |-> UserFlags(p),
                                 from |-> 1, to |-> Len(p.aips) + 1])
          /\ next' = next + 1
          /\ UNCHANGED <<pc, ret>>
       \/ /\ next > Len(device.peers)
          /\ pc' = "done" /\ ret' = "ok"
          /\ UNCHANGED <<iface, next>>
    /\ UNCHANGED <<cmd, file, device, runtime, before, others>>

(* Another process adds or removes a peer. *)
Other ==
    /\ Len(others) < MaxOthers
    /\ pc # "done"
    /\ \E k \in OtherKeys :
         /\ others' = Append(others, [key |-> k, adds |-> iface.peers[k] = NULL, pc |-> pc])
         /\ iface' = IF iface.peers[k] = NULL
                     THEN [iface EXCEPT !.peers[k] = NewPeer] ELSE RemovePeer(iface, k)
    /\ UNCHANGED <<cmd, file, device, runtime, before, next, pc, ret>>

SyncNext == Parse \/ GetRuntime \/ Sync \/ Set \/ Other

SyncSpec == SyncInit /\ [][SyncNext]_syncVars

-----------------------------------------------------------------------------
Touched == {others[i].key : i \in 1..Len(others)}

(* The file has each key once, and its lists of allowed IPs are complete: no *)
(* allowed IP has a sign.                                                    *)
Plain(d) ==
    /\ \A i, j \in 1..Len(d.peers) : d.peers[i].key = d.peers[j].key => i = j
    /\ \A i \in 1..Len(d.peers) : d.peers[i].replace

(* Whatever way syncconf takes, and whether or not sync_conf found something   *)
(* to compare, the interface ends up as setconf would have left it: the same   *)
(* peers with the same preshared keys, keepalives and allowed IPs; of the      *)
(* peers only the endpoint may differ.  This holds for all peers no other      *)
(* process has touched.  It does not hold for files that are not plain:        *)
(* setconf forgets the allowed IPs that a list of changes starts from, and of  *)
(* two entries with one key sync_conf resets what only one of them leaves out. *)
SyncLikeSetconf ==
    LET want == ApplyDevice(before, file)
    IN ret = "ok" /\ (cmd = "syncconf" => Plain(file)) =>
         /\ \A k \in Keys \ Touched :
              /\ (iface.peers[k] = NULL) <=> (want.peers[k] = NULL)
              /\ iface.peers[k] # NULL =>
                   iface.peers[k].psk = want.peers[k].psk /\ iface.peers[k].ka = want.peers[k].ka
         /\ \A i \in Ips : iface.owner[i] # want.owner[i] =>
                              {iface.owner[i], want.owner[i]} \cap Touched # {}
         /\ iface.priv = want.priv /\ iface.port = want.port /\ iface.fwmark = want.fwmark

(* syncconf does not interrupt the sessions of the peers that stay: at every   *)
(* moment, and after an error at any point, a peer that is on the interface    *)
(* and in the file exists, and it keeps its endpoint unless the file has one.  *)
SyncKeepsSessions ==
    cmd = "syncconf" =>
      \A k \in (Existing(before.peers) \cap KeysOf(file)) \ Touched :
        /\ iface.peers[k] # NULL
        /\ (\A i \in 1..Len(file.peers) : file.peers[i].key = k => file.peers[i].endpoint = NULL)
             => iface.peers[k].endpoint = before.peers[k].endpoint

(* A peer that another process adds after sync_conf has read the interface is  *)
(* left alone, as long as what was read and the file both have peers: what     *)
(* syncconf removes is what it has seen.                                       *)
SyncSparesNewPeers ==
    \A i \in 1..Len(others) :
      (/\ cmd = "syncconf" /\ others[i].adds /\ others[i].pc \in {"sync", "set"}
       /\ Existing(runtime) # {}
       /\ runtime[others[i].key] = NULL
       /\ \A j \in i + 1 .. Len(others) : others[j].key # others[i].key)
      => iface.peers[others[i].key] # NULL
=============================================================================
