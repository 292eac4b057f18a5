----------------------------- MODULE NetlinkSet -----------------------------
(***************************************************************************)
(* kernel_set_device (src/src/ipc-linux.h): how `wg` hands a whole device  *)
(* configuration to the Linux kernel as a series of netlink messages of at *)
(* most SOCKET_BUFFER_SIZE bytes.                                          *)
(*                                                                         *)
(* The configuration is a list of peers, each with a list of allowed IPs.  *)
(* The function walks it with two pointers, peer and allowedip, that       *)
(* survive the jump back to `again`: they are indices here, with 0 for     *)
(* NULL.  What a message carries is recorded as a sequence of entries; an  *)
(* entry is one peer nest: which peer, whether it has the attributes that  *)
(* only the first nest of a peer has, its flags, and the half-open range   *)
(* [from, to) of its allowed IPs.  Peer 0 stands for the attributes of the *)
(* device itself, which only the first message has.                        *)
(*                                                                         *)
(* `log` is what the kernel has applied, in order.  What the entries do to *)
(* an interface is in KernelConfig; SetDevice puts the two together.       *)
(***************************************************************************)
EXTENDS WgDevice

CONSTANTS
    Devices,             \* the configurations `wg` may be asked to apply
    SOCKET_BUFFER_SIZE,  \* room for one message, in bytes
    IFNAME_LEN           \* strlen(dev->name)

(***************************************************************************)
(* Attribute sizes.  Every attribute is a 4-byte header and its payload    *)
(* rounded up to a multiple of 4; a nest costs its header.                 *)
(***************************************************************************)
MNL_ATTR_HDRLEN == 4
NLMSG_HDRLEN == 16
GENL_HDRLEN == 4
WG_KEY == MNL_ATTR_HDRLEN + 32
U8 == MNL_ATTR_HDRLEN + 4
U16 == MNL_ATTR_HDRLEN + 4
U32 == MNL_ATTR_HDRLEN + 4
SOCKADDR_IN == MNL_ATTR_HDRLEN + 16
SOCKADDR_IN6 == MNL_ATTR_HDRLEN + 28
IFNAMSIZ == 16

If(c, n) == IF c THEN n ELSE 0

(* mnl_nlmsg_put_header, the generic netlink header and the interface name. *)
IfnameAttr == MNL_ATTR_HDRLEN + 4 * ((IFNAME_LEN + 4) \div 4)
MsgHeader == NLMSG_HDRLEN + GENL_HDRLEN + IfnameAttr

(* The device attributes of the first message, put without a size check. *)
DeviceAttrs(d) ==
    If(d.priv # NULL, WG_KEY) + If(d.port # NULL, U16) + If(d.fwmark # NULL, U32)
      + If(d.replace, U32)

(* WGPEER_A_FLAGS: REMOVE_ME is repeated in every fragment of a peer, *)
(* REPLACE_ALLOWEDIPS is in the first one only.                       *)
\* Slip: REPLACE_ALLOWEDIPS outside of `if (!allowedip)`, so in every fragment.
PeerFlagsAlways(p, first) ==
    {f \in {"REMOVE_ME", "REPLACE_ALLOWEDIPS"} :
       (f = "REMOVE_ME" /\ p.remove) \/ (f = "REPLACE_ALLOWEDIPS" /\ p.replace)}
\* Slip: REMOVE_ME inside of `if (!allowedip)`, so in the first fragment only.
PeerFlagsOnce(p, first) == IF first THEN PeerFlagsAlways(p, first) ELSE {}
PeerFlags(p, first) ==
    {f \in {"REMOVE_ME", "REPLACE_ALLOWEDIPS"} :
       \/ f = "REMOVE_ME" /\ p.remove
       \/ f = "REPLACE_ALLOWEDIPS" /\ first /\ p.replace}

(* A peer nest up to its allowed IPs. *)
PeerHeader(p, first) ==
    MNL_ATTR_HDRLEN + WG_KEY
      + If(first /\ p.psk # NULL, WG_KEY)
      + If(first /\ p.endpoint = "v4", SOCKADDR_IN)
      + If(first /\ p.endpoint = "v6", SOCKADDR_IN6)
      + If(first /\ p.ka # NULL, U16)
      + If(PeerFlags(p, first) # {}, U32)

(* One allowed IP: nest, family, address, cidr, flags. *)
AllowedIpAttrs(a) ==
    MNL_ATTR_HDRLEN + U16 + MNL_ATTR_HDRLEN + (IF a.family = "v4" THEN 4 ELSE 16) + U8
      + If(a.remove, U32)

(* The widest message head, peer header and allowed IP there can be.  A buffer *)
(* of one page, the least the code allocates, holds all three.                 *)
MaxPeerHeader == MNL_ATTR_HDRLEN + 2 * WG_KEY + SOCKADDR_IN6 + U16 + U32
MaxAllowedIp == MNL_ATTR_HDRLEN + U16 + (MNL_ATTR_HDRLEN + 16) + U8 + U32
ASSUME DevicesAssumption == Devices \subseteq WgDev
ASSUME IfnameAssumption == IFNAME_LEN \in 1 .. IFNAMSIZ - 1
ASSUME BufferAssumption ==
    /\ SOCKET_BUFFER_SIZE \in Nat
    /\ SOCKET_BUFFER_SIZE >= MsgHeader + MNL_ATTR_HDRLEN + MaxPeerHeader
                               + MNL_ATTR_HDRLEN + MaxAllowedIp

VARIABLES
    dev,        \* the configuration being applied
    pc,         \* where kernel_set_device is
    peer,       \* the peer pointer: an index into dev.peers, 0 for NULL
    allowedip,  \* the allowedip pointer: an index into the peer's list, 0 for NULL
    len,        \* nlh->nlmsg_len
    msg,        \* the entries of the message being built
    sent,       \* the entries of the messages sent before it
    log,        \* the entries the kernel has applied
    reply,      \* the kernel's answer to the message just sent
    ret         \* kernel_set_device's result

vars == <<dev, pc, peer, allowedip, len, msg, sent, log, reply, ret>>

Peers == dev.peers
NAips(d, p) == IF p = 0 THEN 0 ELSE Len(d.peers[p].aips)
Entry ==
    [peer : Nat, first : BOOLEAN, flags : SUBSET {"REMOVE_ME", "REPLACE_ALLOWEDIPS"},
     from : Nat, to : Nat]
DeviceAttrsEntry == [peer |-> 0, first |-> TRUE, flags |-> {}, from |-> 1, to |-> 1]

(* The check of mnl_attr_put_check and mnl_attr_nest_start_check. *)
\* Slip: the header of the attribute is not counted.
FitsWithoutHeader(n) == len + n - MNL_ATTR_HDRLEN <= SOCKET_BUFFER_SIZE
\* Slip: the check keeps room for another peer, which no message may have.
FitsTwice(n) == len + 2 * MaxPeerHeader <= SOCKET_BUFFER_SIZE
Fits(n) == len + n <= SOCKET_BUFFER_SIZE

Init ==
    /\ dev \in Devices
    /\ pc = "open"
    /\ peer = 0 /\ allowedip = 0
    /\ len = 0 /\ msg = <<>> /\ sent = <<>>
    /\ log = <<>> /\ reply = "none" /\ ret = "none"

(* mnlg_socket_open: no socket or no such netlink family, nothing is sent. *)
Open ==
    /\ pc = "open"
    /\ \/ pc' = "again" /\ UNCHANGED ret
       \/ pc' = "done" /\ ret' = "error"
    /\ UNCHANGED <<dev, peer, allowedip, len, msg, sent, log, reply>>

(* From `again` to the head of the peer loop. *)
Prepare ==
    /\ pc = "again"
    /\ msg' = IF peer = 0 THEN <<DeviceAttrsEntry>> ELSE <<>>
    /\ len' = MsgHeader + If(peer = 0, DeviceAttrs(dev)) + If(Peers # <<>>, MNL_ATTR_HDRLEN)
    /\ peer' = IF Peers # <<>> /\ peer = 0 THEN 1 ELSE peer
    /\ pc' = IF Peers = <<>> THEN "send" ELSE "peer"
    /\ UNCHANGED <<dev, allowedip, sent, log, reply, ret>>

(* The end of the body of the peer loop: peer = peer->next_peer. *)
\* Slip: the loop does not stop at the last peer.
NextPeerPastEnd == peer' = peer + 1 /\ pc' = "peer"
NextPeer ==
    /\ peer' = IF peer = Len(Peers) THEN 0 ELSE peer + 1
    /\ pc' = IF peer = Len(Peers) THEN "send" ELSE "peer"

(* `if (!allowedip)`: no allowed IP of this peer was left over. *)
\* Slip: every fragment of a peer is taken for the first.
EveryFragment == TRUE
IsFirstFragment == allowedip = 0

(* The body of the peer loop up to the allowed IPs, or toobig_peers. *)
PutPeer ==
    LET p == Peers[peer]
        first == IsFirstFragment
        size == PeerHeader(p, first)
        from == IF allowedip = 0 THEN 1 ELSE allowedip
    IN /\ pc = "peer"
       /\ \/ /\ ~Fits(size)
             /\ pc' = "send"
             /\ UNCHANGED <<peer, allowedip, len, msg>>
          \/ /\ Fits(size)
             /\ len' = len + size
             /\ msg' = Append(msg, [peer |-> peer, first |-> first, flags |-> PeerFlags(p, first),
                                    from |-> from, to |-> from])
             /\ IF p.aips = <<>>
                  THEN NextPeer /\ UNCHANGED allowedip
                  ELSE pc' = "nest" /\ allowedip' = from /\ UNCHANGED peer
       /\ UNCHANGED <<dev, sent, log, reply, ret>>

(* The nest of the allowed IPs, or toobig_allowedips. *)
StartAllowedIps ==
    /\ pc = "nest"
    /\ \/ Fits(MNL_ATTR_HDRLEN) /\ len' = len + MNL_ATTR_HDRLEN /\ pc' = "aip"
       \/ ~Fits(MNL_ATTR_HDRLEN) /\ pc' = "send" /\ UNCHANGED len
    /\ UNCHANGED <<dev, peer, allowedip, msg, sent, log, reply, ret>>

(* One turn of the allowed IP loop, or toobig_allowedips.  The last allowed IP *)
(* of a peer leaves allowedip at NULL and moves on to the next peer.           *)
PutAllowedIp ==
    LET size == AllowedIpAttrs(Peers[peer].aips[allowedip])
    IN /\ pc = "aip"
       /\ \/ /\ ~Fits(size)
             /\ pc' = "send"
             /\ UNCHANGED <<peer, allowedip, len, msg>>
          \/ /\ Fits(size)
             /\ len' = len + size
             /\ msg' = [msg EXCEPT ![Len(msg)].to = allowedip + 1]
             /\ IF allowedip = NAips(dev, peer)
                  THEN NextPeer /\ allowedip' = 0
                  ELSE allowedip' = allowedip + 1 /\ UNCHANGED <<pc, peer>>
       /\ UNCHANGED <<dev, sent, log, reply, ret>>

(***************************************************************************)
(* The kernel handles a message inside sendto.  It applies the entries in  *)
(* order and answers success, or it stops before an entry or between two   *)
(* allowed IPs of one, keeps what it has applied, and answers an error.    *)
(***************************************************************************)
ApplyAll ==
    /\ log' = log \o msg
    /\ reply' = "ok"

ApplySome ==
    /\ \/ log' = log
       \/ \E k \in 1..Len(msg) : \E to \in msg[k].from .. msg[k].to :
            log' = log \o Append(SubSeq(msg, 1, k - 1), [msg[k] EXCEPT !.to = to])
    /\ reply' = "error"

(* send: mnlg_socket_send, whose failure ends the function. *)
Send ==
    /\ pc = "send"
    /\ \/ /\ pc' = "recv"
          /\ sent' = sent \o msg
          /\ msg' = <<>>
          /\ ApplyAll \/ ApplySome
          /\ UNCHANGED ret
       \/ /\ pc' = "done" /\ ret' = "error"
          /\ UNCHANGED <<msg, sent, log, reply>>
    /\ UNCHANGED <<dev, peer, allowedip, len>>

(* `if (peer) goto again`. *)
\* Slip: goes on only if the allowed IPs of a peer were cut.
AllowedIpsLeft == allowedip # 0
PeersLeft == peer # 0

(* mnlg_socket_recv_run.  Receiving may fail whatever the kernel answered. *)
Recv ==
    /\ pc = "recv"
    /\ \/ reply = "ok" /\ PeersLeft /\ pc' = "again" /\ UNCHANGED ret
       \/ reply = "ok" /\ ~PeersLeft /\ pc' = "done" /\ ret' = "ok"
       \/ pc' = "done" /\ ret' = "error"
    /\ reply' = "none"
    /\ UNCHANGED <<dev, peer, allowedip, len, msg, sent, log>>

Next ==
    \/ Open \/ Prepare \/ PutPeer \/ StartAllowedIps \/ PutAllowedIp
    \/ Send \/ Recv

Spec == Init /\ [][Next]_vars

-----------------------------------------------------------------------------
(* The type invariant: the pointers are NULL or point into the lists. *)
TypeOK ==
    /\ dev \in Devices
    /\ pc \in {"open", "again", "peer", "nest", "aip", "send", "recv", "done"}
    /\ peer \in 0..Len(Peers)
    /\ allowedip \in 0..NAips(dev, peer)
    /\ len \in Nat
    /\ msg \in Seq(Entry) /\ sent \in Seq(Entry) /\ log \in Seq(Entry)
    /\ reply \in {"none", "ok", "error"}
    /\ ret \in {"none", "ok", "error"}

(* f is what the configuration has right after e: the rest of the allowed IPs *)
(* of the same peer, without the attributes, or the next peer with them.      *)
Complete(d, e) == e.to = NAips(d, e.peer) + 1
Follows(d, e, f) ==
    \/ f.peer = e.peer /\ ~f.first /\ f.from = e.to /\ ~Complete(d, e)
    \/ f.peer = e.peer + 1 /\ f.first /\ f.from = 1 /\ Complete(d, e)

InOrder(d, s) ==
    /\ \A k \in 1..Len(s) : s[k].peer <= Len(d.peers) /\ s[k].from <= s[k].to
                              /\ s[k].to <= NAips(d, s[k].peer) + 1
    /\ s # <<>> => s[1].peer = 0 /\ s[1].first /\ s[1].from = 1
    /\ \A k \in 1 .. Len(s) - 1 : Follows(d, s[k], s[k + 1])

(* The kernel applies the configuration in its order, nothing twice, nothing *)
(* skipped, and the flags and attributes of a device or a peer only once, in *)
(* its first fragment, however kernel_set_device cut it into messages and    *)
(* wherever an error stopped it.                                             *)
AppliedInOrder == InOrder(dev, log)

(* kernel_set_device returns 0 only when the kernel has applied everything up *)
(* to the last allowed IP of the last peer.                                   *)
SuccessMeansApplied ==
    ret = "ok" => /\ log # <<>>
                  /\ log[Len(log)].peer = Len(Peers)
                  /\ Complete(dev, log[Len(log)])

(* Neither the checked nor the unchecked puts write past the message buffer. *)
WithinBuffer == len <= SOCKET_BUFFER_SIZE

(* A message after the first always carries a new peer or a new allowed IP, so *)
(* `goto again` cannot send the same nothing for ever.                         *)
MessageMakesProgress ==
    pc = "send" /\ sent # <<>> =>
        msg # <<>> /\ (msg[1].first \/ msg[1].from < msg[1].to)

(* kernel_set_device returns, every time it is called. *)
Terminates == []<>(pc = "done")
=============================================================================
