------------------------------ MODULE ShowConf ------------------------------
(***************************************************************************)
(* src/src/showconf.c: `wg showconf` prints an interface as a file that    *)
(* setconf reads.  The file goes all the way: the parser of Config, the    *)
(* text of UapiText to a daemon, which is the only backend that holds      *)
(* every setting, the daemon's answer, and the parser again.               *)
(***************************************************************************)
EXTENDS Config

CONSTANTS
    KeyOrder, Keys, Ips, Secrets,  \* as in UapiText
    PlainEndpoint,                 \* address -> the text that inet_ntop and the port make
    FamilyOf                       \* address of an allowed IP -> its family

Uapi == INSTANCE UapiText

(* The device of the parser as ipc_set_device gets it; the WebSocket keys of a *)
(* peer are one value.                                                         *)
NoWs == [url |-> NULL, target |-> NULL, bearer |-> NULL, mask |-> FALSE, tls_ca |-> NULL, ping |-> 0]
WsOf(p) ==
    LET ws == [url |-> p.ws_url, target |-> p.target, bearer |-> p.bearer, mask |-> p.mask,
               tls_ca |-> p.tls_ca, ping |-> p.ping]
    IN IF ws = NoWs THEN NULL ELSE ws
Handed(d) ==
    [priv |-> d.priv, port |-> d.port, fwmark |-> d.fwmark, ws |-> d.ws, replace |-> d.replace,
     peers |-> [i \in 1..Len(d.peers) |->
       LET p == d.peers[i] IN
       [key |-> p.key, remove |-> p.remove, replace |-> p.replace, psk |-> p.psk,
        endpoint |-> p.endpoint, ka |-> p.ka, ws |-> WsOf(p),
        transport |-> IF p.has_transport THEN p.transport ELSE NULL,
        aips |-> [j \in 1..Len(p.aips) |->
                    [ip |-> p.aips[j].ip, family |-> FamilyOf[p.aips[j].ip.addr], remove |-> p.aips[j].remove]]]]]

(* `wg setconf` on a new interface, and what ipc_get_device then gets. *)
HeldAfter(d) == Uapi!DaemonSet(Uapi!NewConf, Uapi!SetLines(Handed(d)))
ReadBack(conf) ==
    Uapi!userspace_get_device(Uapi!DaemonGet(conf) \o Uapi!L("errno", "0") \o Uapi!BLANK, TRUE).dev

-----------------------------------------------------------------------------
Line(k, v) == <<[k |-> k, v |-> v]>>
LineIf(b, k, v) == IF b THEN Line(k, v) ELSE <<>>

(* key_to_base64, and the texts of printf: %u and 0x%x. *)
ToBase64(k) == CHOOSE t \in DOMAIN Base64 : Base64[t] = k
Decimal(n) == Number("digit", n, FALSE)
Hex(n) == Number("0x", n, FALSE)
ServiceText(n) == [service |-> "decimal", family |-> "AF_INET", port |-> n]

(* A number that is zero, a key that is not set and a WebSocket key of the     *)
(* device that is empty are left out.                                          *)
DeviceText(d) ==
    Line("Interface", "x")
      \o LineIf(d.port \notin {NULL, 0}, "ListenPort", ServiceText(d.port))
      \o LineIf(d.fwmark \notin {NULL, 0}, "FwMark", Hex(d.fwmark))
      \o LineIf(d.priv # NULL, "PrivateKey", ToBase64(d.priv))
      \o LineIf(d.ws \notin {NULL, ""}, "WSListen", d.ws)

(* A WebSocket peer is printed with its URL, if it has one, any other with its *)
(* address.                                                                    *)
WsText(p) ==
    LET ws == IF p.ws = NULL THEN NoWs ELSE p.ws
    IN Line("WSMode", p.transport)
         \o LineIf(ws.url # NULL, "Endpoint", ws.url)
         \o LineIf(ws.target # NULL, "WSTunnelTarget", ws.target)
         \o LineIf(ws.bearer # NULL, "WSBearer", ws.bearer)
         \o LineIf(ws.mask, "WSMask", "true")
         \o LineIf(ws.tls_ca # NULL, "WSTLSCA", ws.tls_ca)
         \o LineIf(ws.ping # 0, "WSPingInterval", Decimal(ws.ping))
UdpText(p) == IF p.endpoint = NULL THEN <<>> ELSE Line("Endpoint", PlainEndpoint[p.endpoint])

\* Slip: only a peer that dials is printed as a WebSocket peer.
CarrierTextDialing(p) ==
    IF p.transport \notin {NULL, "udp"} /\ p.ws # NULL /\ p.ws.url # NULL THEN WsText(p) ELSE UdpText(p)
CarrierText(p) == IF p.transport \notin {NULL, "udp"} THEN WsText(p) ELSE UdpText(p)

(* inet_ntop of an address, which has a colon if it is of version 6, and %d. *)
IpText(ip) ==
    [prefix |-> "", addr |-> ip.addr, colon |-> FamilyOf[ip.addr] = "v6",
     pton |-> IF FamilyOf[ip.addr] = "v6" THEN "AF_INET6" ELSE "AF_INET", mask |-> Decimal(ip.cidr)]
PeerText(p) ==
    Line("Peer", "x") \o Line("PublicKey", ToBase64(p.key))
      \o LineIf(p.psk # NULL, "PresharedKey", ToBase64(p.psk))
      \o LineIf(p.aips # <<>>, "AllowedIPs", [i \in 1..Len(p.aips) |-> IpText(p.aips[i])])
      \o CarrierText(p)
      \o LineIf(p.ka \notin {NULL, 0}, "PersistentKeepalive", Decimal(p.ka))

showconf_main(d) == DeviceText(d) \o FlattenSeq([i \in 1..Len(d.peers) |-> PeerText(d.peers[i])])

-----------------------------------------------------------------------------
(* A file that setconf reads to its end, with a resolver that answers; NULL if *)
(* it refuses it.                                                              *)
ReadFile(text) ==
    LET line(c, s) ==
          IF c # NULL /\ Known("setconf", c.section, s) /\ Valid("setconf", s)
          THEN Processed("setconf", c, s) ELSE NULL
        finish(c) == IF c # NULL /\ Accepted(c.device) THEN c.device ELSE NULL
    IN finish(FoldLeft(line, NewCtx("setconf"), text))

(* The address of a WebSocket peer depends on when its host was looked up. *)
WithoutWsAddresses(conf) ==
    [conf EXCEPT !.base.peers = [k \in Keys |->
       IF conf.carrier[k].transport = "udp" THEN @[k] ELSE [@[k] EXCEPT !.endpoint = NULL]]]

(* The file that showconf prints of what a daemon holds gives the same again. *)
GivesAgain(held, device) ==
    device # NULL /\ WithoutWsAddresses(HeldAfter(device)) = WithoutWsAddresses(held)
ReadsBack(held) == GivesAgain(held, ReadFile(showconf_main(ReadBack(held))))

(* What showconf prints of an interface that setconf has set up is accepted by *)
(* setconf and gives the same interface again: nothing is lost or changed on   *)
(* the way through the backend, the printer and the parser, an inbound         *)
(* WebSocket peer stays one ("`showconf | setconf` round-trips a WS config",   *)
(* docs/plans), and settings that were cleared stay cleared.  (Of files that   *)
(* have each public key once.)                                                 *)
RoundTrip ==
    (status = "accepted" /\ front = "setconf" /\ IsInjective([i \in 1..Len(ctx.device.peers) |-> ctx.device.peers[i].key]))
      => ReadsBack(HeldAfter(ctx.device))
=============================================================================
