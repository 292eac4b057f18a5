---------------------------- MODULE KernelConfig ----------------------------
(***************************************************************************)
(* What a WireGuard interface in the kernel holds, and what one entry of a *)
(* WG_CMD_SET_DEVICE message does to it.  The kernel is not part of this   *)
(* repository: this is the contract that the code in src/src/ipc-linux.h   *)
(* programs against, as src/src/uapi/linux/linux/wireguard.h states it.    *)
(*                                                                         *)
(* An allowed IP belongs to at most one peer of an interface, so the       *)
(* allowed IPs are a function from addresses to their owner.               *)
(***************************************************************************)
EXTENDS WgDevice, SeqFold

KernelPeer == [psk : {NULL} \cup Secrets, endpoint : {NULL, "v4", "v6"}, ka : Nat]

ASSUME NoPeerAssumption == NULL \notin KernelPeer

Iface ==
    [priv : {NULL} \cup Secrets, port : Nat, fwmark : Nat,
     peers : [Keys -> {NULL} \cup KernelPeer],
     owner : [Ips -> {NULL} \cup Keys]]

Given(v, old) == IF v # NULL THEN v ELSE old

NewPeer == [psk |-> NULL, endpoint |-> NULL, ka |-> 0]
NoPeers == [k \in Keys |-> NULL]
NoOwners == [i \in Ips |-> NULL]

(* The allowed IPs of peer k are given up. *)
Disown(owner, k) == [i \in Ips |-> IF owner[i] = k THEN NULL ELSE owner[i]]

(* The attributes of the device; WGDEVICE_F_REPLACE_PEERS removes all peers. *)
SetDeviceAttrs(f, d) ==
    [f EXCEPT !.priv = Given(d.priv, @),
              !.port = Given(d.port, @),
              !.fwmark = Given(d.fwmark, @),
              !.peers = IF d.replace THEN NoPeers ELSE @,
              !.owner = IF d.replace THEN NoOwners ELSE @]

(* WGPEER_F_REMOVE_ME: the peer does not exist at the end of the operation. *)
RemovePeer(f, k) == [f EXCEPT !.peers[k] = NULL, !.owner = Disown(@, k)]

(* The header of a peer nest with its flags.  An unknown peer is created; the  *)
(* attributes are there in the first fragment of a peer only.  A preshared key *)
(* of all zeros, "zero", removes it.                                           *)
SetPeer(f, p, first, flags) ==
    LET old == IF f.peers[p.key] = NULL THEN NewPeer ELSE f.peers[p.key]
        psk == IF p.psk = "zero" THEN NULL ELSE Given(p.psk, old.psk)
        new == [psk |-> psk, endpoint |-> Given(p.endpoint, old.endpoint), ka |-> Given(p.ka, old.ka)]
    IN IF "REMOVE_ME" \in flags THEN RemovePeer(f, p.key)
       ELSE [f EXCEPT !.peers[p.key] = IF first THEN new ELSE old,
                      !.owner = IF "REPLACE_ALLOWEDIPS" \in flags THEN Disown(@, p.key) ELSE @]

(* One allowed IP: it moves to the peer, or leaves it if the peer has it. *)
SetAllowedIp(f, k, a) ==
    [f EXCEPT !.owner[a.ip] = IF ~a.remove THEN k ELSE IF @ = k THEN NULL ELSE @]

(* The allowed IPs of a nest that removes its peer are not looked at. *)
SetAllowedIps(f, p, flags, from, to) ==
    IF "REMOVE_ME" \in flags THEN f
    ELSE InTurn(LAMBDA g, a : SetAllowedIp(g, p.key, a), f, SubSeq(p.aips, from, to - 1))

(* One peer nest, with the allowed IPs from .. to - 1. *)
SetNest(f, p, first, flags, from, to) ==
    SetAllowedIps(SetPeer(f, p, first, flags), p, flags, from, to)

(* One entry of a message of configuration d; peer 0 is the device itself. *)
ApplyEntry(f, d, e) ==
    IF e.peer = 0 THEN SetDeviceAttrs(f, d)
    ELSE SetNest(f, d.peers[e.peer], e.first, e.flags, e.from, e.to)

ApplyEntries(f, d, es) == InTurn(LAMBDA g, e : ApplyEntry(g, d, e), f, es)

(* The whole configuration at once, as if one message could hold it all: what *)
(* the user asked for.                                                        *)
UserFlags(p) == (IF p.remove THEN {"REMOVE_ME"} ELSE {})
                  \cup (IF p.replace THEN {"REPLACE_ALLOWEDIPS"} ELSE {})
ApplyDevice(f, d) ==
    InTurn(LAMBDA g, p : SetNest(g, p, TRUE, UserFlags(p), 1, Len(p.aips) + 1),
             SetDeviceAttrs(f, d), d.peers)
=============================================================================
