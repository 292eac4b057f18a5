------------------------------- MODULE Config -------------------------------
(***************************************************************************)
(* The two parsers of src/src/config.c: config_read_line, which setconf,   *)
(* addconf and syncconf call for every line of a file, and config_read_cmd,*)
(* which reads the words of `wg set`.                                      *)
(*                                                                         *)
(* A statement is a line of a file, or a word of the command line with its *)
(* argument: a key and the text of a value, which ConfigValues parses.     *)
(* Both parsers use the names of the file for the keys.  WSListen stands   *)
(* for the WebSocket keys of a device, the others of which take any text;  *)
(* WSTLSCert and WSTLSKey are handled as WSTLSCA is, WSTLSInsecure as      *)
(* WSMask, the two WSBackoff keys as WSPingInterval.                       *)
(***************************************************************************)
EXTENDS ConfigValues

CONSTANTS
    Commands,       \* "setconf" (as syncconf) and "addconf" read a file, "set" words
    Vocabularies,   \* sets of statements: an input is made of those of one set
    MaxStatements,  \* the longest input
    Retries,        \* values of WG_ENDPOINT_RESOLUTION_RETRIES, -1 for infinity
    MaxTries,       \* how often a resolver fails before one that asks for ever
    Resolver        \* the address a host has

(* parse_dns_retries returns a natural number or -1, or gives up. *)
ASSUME RetriesAssumption ==
    /\ Retries \subseteq Nat \cup {-1, BAD}
    /\ BAD \notin Int /\ NULL \notin Int /\ NULL # "transient"

VARIABLES
    front,   \* the command
    input,   \* the statements read so far
    ctx,     \* struct config_ctx
    dns,     \* the variables of parse_endpoint, with the answers it has got
    status   \* "reading", "resolving", "failed" or "accepted"

cfgVars == <<front, input, ctx, dns, status>>

DeviceKeys == {"ListenPort", "FwMark", "PrivateKey", "WSListen"}
PeerKeys == {"PublicKey", "PresharedKey", "Endpoint", "PersistentKeepalive", "AllowedIPs",
             "WSMode", "WSTunnelTarget", "WSBearer", "WSMask", "WSTLSCA", "WSPingInterval", "remove"}

-----------------------------------------------------------------------------
(* A file declares all of a peer; `wg set` declares what it mentions. *)
NewPeer(f) ==
    [key |-> NULL, remove |-> FALSE, replace |-> f # "set", psk |-> NULL, endpoint |-> NULL,
     ka |-> NULL, has_transport |-> f # "set", transport |-> "udp", ws_url |-> NULL,
     target |-> NULL, bearer |-> NULL, mask |-> FALSE, tls_ca |-> NULL, ping |-> 0,
     ws_settings |-> FALSE, aips |-> <<>>]

(* config_read_init; setconf resets what the file does not mention. *)
NewDevice(f) ==
    [replace |-> f = "setconf", priv |-> IF f = "setconf" THEN "zero" ELSE NULL,
     port |-> IF f = "setconf" THEN 0 ELSE NULL, fwmark |-> IF f = "setconf" THEN 0 ELSE NULL,
     ws |-> NULL, peers |-> <<>>]

(* setconf_main and config_read_cmd start with an empty device; the words of   *)
(* `wg set` begin with those about the device.  last_allowedip is the peer     *)
(* whose list ends with the last allowed IP, 0 for NULL.                       *)
NewCtx(f) ==
    [device |-> NewDevice(f), section |-> IF f = "set" THEN "device" ELSE "none", last_allowedip |-> 0]

CfgInit ==
    /\ front \in Commands
    /\ input = <<>>
    /\ ctx = NewCtx(front)
    /\ dns = [retries |-> NULL, left |-> 0, tries |-> 0, answer |-> NULL]
    /\ status = "reading"

(* An allowed IP without a prefix is to be added; one of no family or with a   *)
(* bad mask is refused.                                                        *)
GoodIp(e) == parse_ip(e) # "AF_UNSPEC" /\ cidr(e) # BAD
Aips(v) == [i \in 1..Len(v) |->
              [ip |-> [addr |-> v[i].addr, cidr |-> cidr(v[i])], remove |-> v[i].prefix = "-"]]

(* The value that the parser of a key makes of a text. *)
Value(f, s) ==
    CASE s.k = "ListenPort" -> parse_port(s.v)
      [] s.k = "FwMark" -> parse_fwmark(s.v)
      [] s.k \in {"PrivateKey", "PresharedKey"} -> IF f = "set" THEN parse_keyfile(s.v) ELSE parse_key(s.v)
      [] s.k = "PublicKey" \/ (s.k = "Peer" /\ f = "set") -> parse_key(s.v)
      [] s.k = "PersistentKeepalive" -> parse_persistent_keepalive(s.v)
      [] s.k = "Endpoint" -> EndpointOf(s.v)
      [] s.k = "AllowedIPs" -> IF \A i \in 1..Len(s.v) : GoodIp(s.v[i]) THEN Aips(s.v) ELSE BAD
      [] s.k = "WSMode" -> parse_ws_mode(s.v)
      [] s.k = "WSTunnelTarget" -> parse_ws_target(s.v)
      [] s.k = "WSBearer" -> IF f = "set" THEN parse_ws_secret_file(s.v) ELSE parse_ws_secret(s.v)
      [] s.k = "WSMask" -> parse_ws_bool(s.v)
      [] s.k = "WSTLSCA" -> parse_ws_str(s.v)
      [] s.k = "WSPingInterval" -> parse_ws_millis(s.v)
      [] s.k = "WSListen" -> parse_ws_listen(s.v)
      [] OTHER -> s.v

(* A key of the device, with its value. *)
WithDeviceKey(d, k, v) ==
    CASE k = "ListenPort" -> [d EXCEPT !.port = v]
      [] k = "FwMark" -> [d EXCEPT !.fwmark = v]
      [] k = "PrivateKey" -> [d EXCEPT !.priv = v]
      [] k = "WSListen" -> [d EXCEPT !.ws = v]

(* The address the resolver has found, and the URL if the text is one. *)
WithEndpoint(p, text) ==
    [p EXCEPT !.endpoint = Resolver[EndpointOf(text).host],
              !.ws_url = IF is_ws_url(text) THEN text ELSE @, !.has_transport = TRUE]

(* A key of a peer, apart from its endpoint and its allowed IPs. *)
WithPeerKey(p, k, v) ==
    CASE k = "PublicKey" -> [p EXCEPT !.key = v]
      [] k = "PresharedKey" -> [p EXCEPT !.psk = v]
      [] k = "PersistentKeepalive" -> [p EXCEPT !.ka = v]
      [] k = "remove" -> [p EXCEPT !.remove = TRUE]
      [] k = "WSMode" -> [p EXCEPT !.transport = v, !.has_transport = TRUE]
      [] k = "WSTunnelTarget" -> [p EXCEPT !.target = v, !.ws_settings = TRUE]
      [] k = "WSBearer" -> [p EXCEPT !.bearer = v, !.ws_settings = TRUE]
      [] k = "WSMask" -> [p EXCEPT !.mask = v, !.ws_settings = TRUE]
      [] k = "WSTLSCA" -> [p EXCEPT !.tls_ca = v, !.ws_settings = TRUE]
      [] k = "WSPingInterval" -> [p EXCEPT !.ping = v, !.ws_settings = TRUE]

(* parse_allowedips: every call switches the peer to replacing its allowed IPs *)
(* and every + or - (parse_ip_prefix) to changing them.  The new ones go behind *)
(* last_allowedip, whichever peer that belongs to.                              *)
Replaces(v) == \A i \in 1..Len(v) : v[i].prefix = ""
WithAllowedIps(ps, last, v) ==
    LET n == Len(ps)
        to == IF last = 0 THEN n ELSE last
        flagged == [ps EXCEPT ![n].replace = Replaces(v)]
    IN [flagged EXCEPT ![to].aips = (IF last = 0 THEN <<>> ELSE @) \o Aips(v)]

(* [Peer], or `peer` with its key: an empty peer, and no last allowed IP.      *)
\* Slip: last_allowedip still points into the list of the peer before.
KeepTail(last) == last
ResetTail(last) == 0

StartPeer(f, c, s) ==
    [c EXCEPT !.device.peers = Append(@, IF f = "set" THEN [NewPeer(f) EXCEPT !.key = Value(f, s)] ELSE NewPeer(f)),
              !.section = "peer", !.last_allowedip = ResetTail(@)]

(* A statement the current section has; a file may have empty lines and comments. *)
Known(f, section, s) ==
    \/ s.k = "Peer"
    \/ s.k \in {"Interface", "blank"} /\ f # "set"
    \/ s.k \in DeviceKeys /\ section = "device"
    \/ /\ s.k \in PeerKeys /\ section = "peer"
       /\ s.k = "PublicKey" => f # "set"
       /\ s.k = "remove" => f = "set"

(* An empty list of allowed IPs has no value in a file, so it is an unknown line. *)
Valid(f, s) == Value(f, s) # BAD /\ (s.k = "AllowedIPs" /\ f # "set" => s.v # <<>>)

(* What a known statement with a good value does. *)
Processed(f, c, s) ==
    LET n == Len(c.device.peers) IN
    CASE s.k = "Peer" -> StartPeer(f, c, s)
      [] s.k = "blank" -> c
      [] s.k = "Interface" -> [c EXCEPT !.section = "device"]
      [] s.k \in DeviceKeys -> [c EXCEPT !.device = WithDeviceKey(@, s.k, Value(f, s))]
      [] s.k = "AllowedIPs" ->
           [c EXCEPT !.device.peers = WithAllowedIps(@, c.last_allowedip, s.v),
                     !.last_allowedip = IF s.v = <<>> \/ @ # 0 THEN @ ELSE n]
      [] s.k = "Endpoint" -> [c EXCEPT !.device.peers[n] = WithEndpoint(@, s.v)]
      [] OTHER -> [c EXCEPT !.device.peers[n] = WithPeerKey(@, s.k, Value(f, s))]

(* What parse_endpoint finds in its environment, which stays the same. *)
parse_dns_retries == IF dns.retries = NULL THEN Retries ELSE {dns.retries}

(* config_read_line with process_line, or one turn of the loop of              *)
(* config_read_cmd.  An endpoint waits for the resolver.                       *)
Read(s) ==
    /\ status = "reading" /\ Len(input) < MaxStatements
    /\ input' = Append(input, s)
    /\ \E V \in Vocabularies : ToSet(input') \subseteq V
    /\ \/ /\ ~(Known(front, ctx.section, s) /\ Valid(front, s))
          /\ status' = "failed"
          /\ UNCHANGED <<ctx, dns>>
       \/ /\ Known(front, ctx.section, s) /\ Valid(front, s) /\ s.k # "Endpoint"
          /\ ctx' = Processed(front, ctx, s)
          /\ UNCHANGED <<dns, status>>
       \/ /\ Known(front, ctx.section, s) /\ Valid(front, s) /\ s.k = "Endpoint"
          /\ \E r \in parse_dns_retries :
               /\ dns' = [retries |-> r, left |-> r, tries |-> 0, answer |-> NULL]
               /\ status' = IF r = BAD THEN "failed" ELSE "resolving"
          /\ UNCHANGED ctx
    /\ UNCHANGED front

\* Slip: the test comes behind the decrement.
LastTryLate(left) == left = 1
LastTry(left) == left = 0

(* One getaddrinfo of parse_endpoint: an address, one of another family, or an *)
(* error, of which all but the permanent ones are tried again.                 *)
Answers == {"address", "family", "permanent", "transient"}
parse_endpoint(answer) ==
    /\ status = "resolving"
    /\ answer = "transient" => dns.tries < MaxTries
    /\ answer = "address" => EndpointOf(Last(input).v).host \in DOMAIN Resolver
    /\ \/ /\ answer = "address"
          /\ ctx' = Processed(front, ctx, Last(input))
          /\ dns' = [dns EXCEPT !.left = 0, !.tries = 0, !.answer = NULL]
          /\ status' = "reading"
       \/ /\ answer # "address"
          /\ dns' = [dns EXCEPT !.left = IF @ >= 0 THEN @ - 1 ELSE @, !.tries = @ + 1, !.answer = answer]
          /\ status' = IF answer # "transient" \/ LastTry(dns.left) THEN "failed" ELSE status
          /\ UNCHANGED ctx
    /\ UNCHANGED <<front, input>>

validate_ws_peer(p) ==
    p.has_transport =>
      /\ p.transport = "udp" => p.ws_url = NULL /\ ~p.ws_settings
      /\ p.transport # "udp" /\ p.ws_url # NULL =>
           p.endpoint # NULL /\ (p.transport = "wstunnel" => p.target # NULL)
      /\ p.transport # "udp" /\ p.ws_url = NULL =>
           p.endpoint = NULL /\ p.transport # "wstunnel" /\ p.target = NULL
      /\ p.transport = "websocket" => p.target = NULL

(* config_read_finish, or the end of config_read_cmd. *)
\* Slip: only the last peer is looked at.
LastAccepted(d) == d.peers # <<>> => d.peers[Len(d.peers)].key # NULL
                                       /\ validate_ws_peer(d.peers[Len(d.peers)])
Accepted(d) == \A i \in 1..Len(d.peers) : d.peers[i].key # NULL /\ validate_ws_peer(d.peers[i])

Finish ==
    /\ status = "reading"
    /\ front = "set" => input # <<>>    \* set_main wants an argument
    /\ status' = IF Accepted(ctx.device) THEN "accepted" ELSE "failed"
    /\ UNCHANGED <<front, input, ctx, dns>>

CfgNext ==
    (\E s \in UNION Vocabularies : Read(s)) \/ (\E a \in Answers : parse_endpoint(a)) \/ Finish

CfgSpec == CfgInit /\ [][CfgNext]_cfgVars

-----------------------------------------------------------------------------
(* What the input says, without going through it in order: the statements of   *)
(* a peer are those between its header and the next header.                    *)
IsHeader(n) == input[n].k \in {"Peer", "Interface"}
HeaderOf(n) == {h \in 1..n : IsHeader(h) /\ \A j \in h + 1 .. n : ~IsHeader(j)}
PeerHeaders == SetToSortSeq({h \in 1..Len(input) : input[h].k = "Peer"}, <)
Said(h, k) ==
    SelectSeq([n \in 1..Len(input) |->
                 IF input[n].k = k /\ h \in HeaderOf(n) THEN <<input[n].v>> ELSE <<>>],
              LAMBDA x : x # <<>>)
LastSaid(h, k, Means(_), default) ==
    LET vs == Said(h, k) IN IF vs = <<>> THEN default ELSE Means(vs[Len(vs)][1])
LastSaidOfDevice(k, Means(_), default) ==
    LET at == {n \in 1..Len(input) :
                 input[n].k = k /\ \A h \in HeaderOf(n) : input[h].k = "Interface"}
    IN IF at = {} THEN default ELSE Means(input[CHOOSE n \in at : \A j \in at : j <= n].v)
AllIps(h) == FlattenSeq([i \in 1..Len(Said(h, "AllowedIPs")) |-> Said(h, "AllowedIPs")[i][1]])

(* What a text means, whichever way it is parsed. *)
Itself(t) == t
PortMeant(t) == t.port
NumberMeant(t) == IF t.first = "off" THEN 0 ELSE IF t.first = "minus" THEN -t.n ELSE t.n
KeyMeant(t) == Base64[t]
SecretMeant(t) == IF front = "set" THEN Files[t].line ELSE t
SecretKeyMeant(t) == IF front = "set" /\ Files[t].len = 0 THEN "zero" ELSE Base64[SecretMeant(t)]
IpMeant(e) ==
    [ip |-> [addr |-> e.addr,
             cidr |-> IF e.mask # NULL THEN e.mask.n ELSE IF e.colon THEN 128 ELSE 32],
     remove |-> e.prefix = "-"]

(* A host, perhaps in brackets, stands between an optional scheme and a colon  *)
(* with a port, behind which a URL may go on.                                  *)
Parts(t) == {SubSeq(t, i, Len(t)) : i \in 1..Len(t) + 1}
Spells(text, host) ==
    LET t == Lex[text]
        scheme == IF is_ws_url(text) THEN <<t[1]>> ELSE <<>>
    IN \E rest \in Parts(t) :
         /\ t \in {scheme \o host \o <<":">> \o rest, scheme \o <<"[">> \o host \o <<"]", ":">> \o rest}
         /\ ":" \notin ToSet(IF scheme = <<>> THEN rest ELSE Before(rest, "/"))
AddressMeant(text) == Resolver[CHOOSE host \in DOMAIN Resolver : Spells(text, host)]

(* An accepted device says what its input says, wherever the sections and keys *)
(* stand: it has a peer for every header, with the keys that stand under that  *)
(* header and no other, the last one of a key that is repeated, and all the    *)
(* allowed IPs in their order; the device has the keys that stand under no     *)
(* peer; and every value is what its text means, no number cut to its width    *)
(* and no host cut short.  (config_read_line and config_read_cmd, which go     *)
(* through the input once, with pointers to the last peer and the last allowed *)
(* IP, and the parse_ functions.)                                              *)
SaysWhatInputSays ==
    status = "accepted" =>
      /\ ctx.device.port = LastSaidOfDevice("ListenPort", PortMeant, NewDevice(front).port)
      /\ ctx.device.fwmark = LastSaidOfDevice("FwMark", NumberMeant, NewDevice(front).fwmark)
      /\ ctx.device.priv = LastSaidOfDevice("PrivateKey", SecretKeyMeant, NewDevice(front).priv)
      /\ ctx.device.ws = LastSaidOfDevice("WSListen", Itself, NULL)
      /\ Len(ctx.device.peers) = Len(PeerHeaders)
      /\ \A i \in 1..Len(ctx.device.peers) :
           LET p == ctx.device.peers[i]
               h == PeerHeaders[i]
           IN /\ p.key = IF front = "set" THEN KeyMeant(input[h].v) ELSE LastSaid(h, "PublicKey", KeyMeant, NULL)
              /\ p.psk = LastSaid(h, "PresharedKey", SecretKeyMeant, NULL)
              /\ p.ka = LastSaid(h, "PersistentKeepalive", NumberMeant, NULL)
              /\ p.endpoint = LastSaid(h, "Endpoint", AddressMeant, NULL)
              /\ p.transport = LastSaid(h, "WSMode", Itself, "udp")
              /\ p.target = LastSaid(h, "WSTunnelTarget", Itself, NULL)
              /\ p.bearer = LastSaid(h, "WSBearer", SecretMeant, NULL)
              /\ p.mask = LastSaid(h, "WSMask", LAMBDA t : t = "true", FALSE)
              /\ p.tls_ca = LastSaid(h, "WSTLSCA", Itself, NULL)
              /\ p.ping = LastSaid(h, "WSPingInterval", NumberMeant, 0)
              /\ p.remove = (Said(h, "remove") # <<>>)
              /\ p.aips = [j \in 1..Len(AllIps(h)) |-> IpMeant(AllIps(h)[j])]

(* Every peer of an accepted device has a key, and WebSocket settings only if  *)
(* a WebSocket mode or, with `wg set`, nothing about the transport was said.   *)
AcceptedPeersComplete ==
    status = "accepted" =>
      \A i \in 1..Len(ctx.device.peers) :
        LET h == PeerHeaders[i]
            ws == \E k \in {"WSTunnelTarget", "WSBearer", "WSMask", "WSTLSCA", "WSPingInterval"} :
                    Said(h, k) # <<>>
        IN /\ ctx.device.peers[i].key # NULL
           /\ ws /\ Said(h, "WSMode") = <<>> => front = "set" /\ Said(h, "Endpoint") = <<>>

(* "DNS resolution for each peer's endpoint will be retried that many times    *)
(* for non-permanent errors" (man/wg.8): each endpoint is tried once more than *)
(* there are retries, not less often and not more often, and with `infinity'   *)
(* it is not given up.                                                         *)
RetriesAsAsked ==
    /\ dns.retries \in Nat => dns.tries <= dns.retries + 1
    /\ status = "failed" /\ dns.answer = "transient" => dns.tries = dns.retries + 1

(* A + or - before one of the allowed IPs of a peer makes all of them an       *)
(* incremental change (docs/ARCHITECTURE.md:57).                               *)
PrefixMeansIncremental ==
    status = "accepted" =>
      \A i \in 1..Len(ctx.device.peers) :
        (\E n \in 1..Len(input) :
           /\ input[n].k = "AllowedIPs" /\ PeerHeaders[i] \in HeaderOf(n)
           /\ ~Replaces(input[n].v))
        => ~ctx.device.peers[i].replace

(* The transport of a peer whose endpoint has no ws(s):// scheme is udp        *)
(* (docs/ARCHITECTURE.md:124).                                                 *)
PlainEndpointMeansUdp ==
    status = "accepted" =>
      \A i \in 1..Len(ctx.device.peers) :
        LastSaid(PeerHeaders[i], "Endpoint", LAMBDA t : ~is_ws_url(t), FALSE)
          => ctx.device.peers[i].transport = "udp"
=============================================================================
