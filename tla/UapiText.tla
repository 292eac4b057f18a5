------------------------------ MODULE UapiText ------------------------------
(***************************************************************************)
(* The text that `wg` and a userspace daemon exchange over a socket:       *)
(* userspace_set_device and userspace_get_device of src/src/ipc-uapi.h.  A *)
(* line is a key with a value; BLANK is the empty line that ends an        *)
(* answer, CUT a line without its newline.                                 *)
(*                                                                         *)
(* To the device of WgDevice this adds what only a daemon can do: `ws`     *)
(* stands for the WebSocket keys of the device or of a peer and            *)
(* `transport` for the carrier of a peer.  A daemon holds the              *)
(* configuration that an interface in the kernel holds (base), its         *)
(* WebSocket keys, and a carrier per peer.                                 *)
(***************************************************************************)
EXTENDS KernelConfig, SequencesExt

CONSTANT KeyOrder  \* the order in which a daemon lists its peers

L(key, val) == <<[key |-> key, val |-> val]>>
BLANK == L("", "")
CUT == L("cut", "")

(* A line for a field that is set. *)
Opt(key, v) == IF v = NULL THEN <<>> ELSE L(key, v)
Flag(key, b) == IF b THEN L(key, "true") ELSE <<>>
Concat(seqs) == FoldLeft(LAMBDA a, s : a \o s, <<>>, seqs)

-----------------------------------------------------------------------------
DeviceLines(d) ==
    L("set", "1") \o Opt("private_key", d.priv) \o Opt("listen_port", d.port)
      \o Opt("fwmark", d.fwmark) \o Opt("ws", d.ws) \o Flag("replace_peers", d.replace)

(* An allowed IP that is to go is printed with a minus sign. *)
AllowedIpLines(p) == Concat([i \in 1..Len(p.aips) |-> L("allowed_ip", p.aips[i])])

(* Whether the WebSocket keys of a peer are printed: for a WebSocket peer, and *)
(* for one whose transport is not mentioned.                                   *)
PrintsWs(p) == p.transport \in {"websocket", "wstunnel"} \/ p.transport = NULL

\* Slip: the flag is printed behind the allowed IPs, and the daemon drops them.
PeerLinesLate(p) ==
    L("public_key", p.key) \o
      (IF p.remove THEN L("remove", "true")
       ELSE Opt("preshared_key", p.psk) \o Opt("transport", p.transport)
              \o Opt("endpoint", p.endpoint) \o (IF PrintsWs(p) THEN Opt("ws", p.ws) ELSE <<>>)
              \o Opt("persistent_keepalive_interval", p.ka)
              \o AllowedIpLines(p) \o Flag("replace_allowed_ips", p.replace))
PeerLines(p) ==
    L("public_key", p.key) \o
      (IF p.remove THEN L("remove", "true")
       ELSE Opt("preshared_key", p.psk) \o Opt("transport", p.transport)
              \o Opt("endpoint", p.endpoint) \o (IF PrintsWs(p) THEN Opt("ws", p.ws) ELSE <<>>)
              \o Opt("persistent_keepalive_interval", p.ka)
              \o Flag("replace_allowed_ips", p.replace) \o AllowedIpLines(p))

SetLines(d) == DeviceLines(d) \o Concat([i \in 1..Len(d.peers) |-> PeerLines(d.peers[i])])

(* The answer to set=1: the errno of the last errno= line before the empty     *)
(* line.  Everything else is a protocol error: no empty line, a line without   *)
(* its newline, no errno.                                                      *)
SetResult(reply) ==
    FoldLeft(LAMBDA s, l : IF s.end THEN s
                           ELSE IF l.key = "" THEN [s EXCEPT !.end = TRUE]
                           ELSE IF l.key = "cut" THEN [errno |-> "EPROTO", end |-> TRUE]
                           ELSE IF l.key = "errno" THEN [s EXCEPT !.errno = l.val] ELSE s,
             [errno |-> "EPROTO", end |-> FALSE], reply)
set_errno(reply) == IF SetResult(reply).end THEN SetResult(reply).errno ELSE "EPROTO"

-----------------------------------------------------------------------------
(* Reading the answer to get=1.  `aip` is the peer to whose list the pointer   *)
(* allowedip leads, 0 if it is NULL.                                           *)
NoDevice == [priv |-> NULL, port |-> NULL, fwmark |-> NULL, ws |-> NULL, peers |-> <<>>]
ReadPeer(k) ==
    [key |-> k, psk |-> NULL, transport |-> NULL, endpoint |-> NULL, ws |-> NULL, ka |-> NULL,
     aips |-> <<>>]
Reading == [dev |-> NoDevice, aip |-> 0, ret |-> "EPROTO", end |-> FALSE]

WithDevice(s, field, v) == [s EXCEPT !.dev = [@ EXCEPT ![field] = v]]
WithPeer(s, field, v) == [s EXCEPT !.dev.peers[Len(s.dev.peers)][field] = v]

\* Slip: allowedip still points into the list of the peer before.
ReadPublicKeyKeepsTail(s, k) == [s EXCEPT !.dev.peers = Append(@, ReadPeer(k))]
ReadPublicKey(s, k) == [s EXCEPT !.dev.peers = Append(@, ReadPeer(k)), !.aip = 0]

ReadAllowedIp(s, ip) ==
    LET at == IF s.aip # 0 THEN s.aip ELSE Len(s.dev.peers)
    IN [s EXCEPT !.dev.peers[at].aips = Append(@, ip), !.aip = at]

(* One line: device keys before the first peer only, peer keys behind it; a    *)
(* key out of place or unknown is ignored.  A preshared key of all zeros is    *)
(* none.                                                                       *)
DeviceField == [private_key |-> "priv", listen_port |-> "port", fwmark |-> "fwmark", ws |-> "ws"]
PeerField ==
    [transport |-> "transport", endpoint |-> "endpoint", ws |-> "ws",
     persistent_keepalive_interval |-> "ka"]
ReadKey(s, l) ==
    LET inPeer == s.dev.peers # <<>>
    IN CASE l.key = "public_key" -> ReadPublicKey(s, l.val)
         [] l.key = "errno" -> [s EXCEPT !.ret = l.val]
         [] ~inPeer /\ l.key \in DOMAIN DeviceField -> WithDevice(s, DeviceField[l.key], l.val)
         [] inPeer /\ l.key \in DOMAIN PeerField -> WithPeer(s, PeerField[l.key], l.val)
         [] inPeer /\ l.key = "preshared_key" ->
              IF l.val = "zero" THEN s ELSE WithPeer(s, "psk", l.val)
         [] inPeer /\ l.key = "allowed_ip" -> ReadAllowedIp(s, l.val)
         [] OTHER -> s

(* The loop.  An endpoint that the resolver refuses ends it with an error of   *)
(* its own.                                                                    *)
ReadLine(s, l, resolves) ==
    IF s.end THEN s
    ELSE IF l.key = "" THEN [s EXCEPT !.end = TRUE]
    ELSE IF l.key = "cut" THEN [s EXCEPT !.ret = "EPROTO", !.end = TRUE]
    ELSE IF l.key = "endpoint" /\ s.dev.peers # <<>> /\ ~resolves
         THEN [s EXCEPT !.ret = "ENETUNREACH", !.end = TRUE]
    ELSE ReadKey(s, l)

(* What userspace_get_device returns; the device is freed on any error. *)
ReadAnswer(reply, resolves) ==
    LET s == FoldLeft(LAMBDA t, l : ReadLine(t, l, resolves), Reading, reply)
    IN [ret |-> IF s.end THEN s.ret ELSE "EPROTO", dev |-> s.dev]
userspace_get_device(reply, resolves) ==
    LET r == ReadAnswer(reply, resolves)
    IN IF r.ret = "0" THEN r ELSE [r EXCEPT !.dev = NULL]

-----------------------------------------------------------------------------
(* The daemon (external).                                                      *)
NewCarrier == [transport |-> "udp", ws |-> NULL]
NewConf ==
    [base |-> [priv |-> NULL, port |-> 0, fwmark |-> 0, peers |-> NoPeers, owner |-> NoOwners],
     ws |-> NULL, carrier |-> [k \in Keys |-> NewCarrier]]

(* One line of set=1; `cur` is the peer of the last public_key.  The value ""  *)
(* clears the WebSocket keys.                                                  *)
DaemonLine(s, l) ==
    LET k == s.cur
        old == s.conf.base.peers[k]
    IN CASE l.key = "private_key" -> [s EXCEPT !.conf.base.priv = l.val]
         [] l.key = "listen_port" -> [s EXCEPT !.conf.base.port = l.val]
         [] l.key = "fwmark" -> [s EXCEPT !.conf.base.fwmark = l.val]
         [] l.key = "ws" /\ k = NULL -> [s EXCEPT !.conf.ws = IF l.val = "" THEN NULL ELSE l.val]
         [] l.key = "replace_peers" ->
              [s EXCEPT !.conf.base.peers = NoPeers, !.conf.base.owner = NoOwners,
                        !.conf.carrier = [x \in Keys |-> NewCarrier]]
         [] l.key = "public_key" ->
              [s EXCEPT !.cur = l.val, !.conf.base.peers[l.val] = IF @ = NULL THEN NewPeer ELSE @]
         [] l.key = "remove" ->
              [s EXCEPT !.conf.base = RemovePeer(@, k), !.conf.carrier[k] = NewCarrier]
         [] l.key = "preshared_key" ->
              [s EXCEPT !.conf.base.peers[k].psk = IF l.val = "zero" THEN NULL ELSE l.val]
         [] l.key = "endpoint" -> [s EXCEPT !.conf.base.peers[k].endpoint = l.val]
         [] l.key = "persistent_keepalive_interval" -> [s EXCEPT !.conf.base.peers[k].ka = l.val]
         [] l.key = "transport" -> [s EXCEPT !.conf.carrier[k].transport = l.val]
         [] l.key = "ws" /\ k # NULL -> [s EXCEPT !.conf.carrier[k].ws = l.val]
         [] l.key = "replace_allowed_ips" -> [s EXCEPT !.conf.base.owner = Disown(@, k)]
         [] l.key = "allowed_ip" -> [s EXCEPT !.conf.base = SetAllowedIp(@, k, l.val)]
         [] OTHER -> s
DaemonSet(conf, lines) == FoldLeft(DaemonLine, [conf |-> conf, cur |-> NULL], lines).conf

(* What it answers to get=1, without errno and the empty line. *)
DaemonPeer(conf, k) ==
    LET p == conf.base.peers[k]
    IN IF p = NULL THEN <<>>
       ELSE L("public_key", k) \o L("preshared_key", IF p.psk = NULL THEN "zero" ELSE p.psk)
              \o Opt("endpoint", p.endpoint) \o L("transport", conf.carrier[k].transport)
              \o Opt("ws", conf.carrier[k].ws) \o L("last_handshake_time_sec", 0)
              \o L("persistent_keepalive_interval", p.ka)
              \o Concat([i \in 1..Len(SetToSeq(Ips)) |->
                           LET ip == SetToSeq(Ips)[i]
                           IN IF conf.base.owner[ip] = k THEN L("allowed_ip", ip) ELSE <<>>])
DaemonGet(conf) ==
    Opt("private_key", conf.base.priv) \o L("listen_port", conf.base.port)
      \o L("fwmark", conf.base.fwmark) \o Opt("ws", conf.ws)
      \o Concat([i \in 1..Len(KeyOrder) |-> DaemonPeer(conf, KeyOrder[i])])
      \o L("protocol_version", 1)

-----------------------------------------------------------------------------
(* What a configuration asks of a daemon, as a whole: what it asks of any      *)
(* interface, and the carriers.                                                *)
CarriersOf(carrier, p) ==
    [carrier EXCEPT ![p.key] =
       IF p.remove THEN NewCarrier
       ELSE [transport |-> Given(p.transport, @.transport), ws |-> Given(p.ws, @.ws)]]
Asked(conf, d) ==
    [base |-> ApplyDevice(conf.base, d),
     ws |-> IF d.ws = "" THEN NULL ELSE Given(d.ws, conf.ws),
     carrier |-> FoldLeft(CarriersOf, IF d.replace THEN [k \in Keys |-> NewCarrier] ELSE conf.carrier,
                          d.peers)]

(* What a daemon holds, as wg should read it. *)
AsRead(conf) ==
    LET keys == SelectSeq(KeyOrder, LAMBDA k : conf.base.peers[k] # NULL)
    IN [priv |-> conf.base.priv, port |-> conf.base.port, fwmark |-> conf.base.fwmark, ws |-> conf.ws,
        peers |-> [i \in 1..Len(keys) |->
          LET k == keys[i] IN
          [key |-> k, psk |-> conf.base.peers[k].psk, transport |-> conf.carrier[k].transport,
           endpoint |-> conf.base.peers[k].endpoint, ws |-> conf.carrier[k].ws,
           ka |-> conf.base.peers[k].ka,
           aips |-> SelectSeq(SetToSeq(Ips), LAMBDA ip : conf.base.owner[ip] = k)]]]
=============================================================================
