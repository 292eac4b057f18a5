------------------------------ MODULE MCConfig ------------------------------
(* Inputs about sections, public keys and allowed IPs, about the endpoint and  *)
(* the WebSocket keys of a peer, and about the other keys, wrong sections and  *)
(* texts at the limits of their parsers.                                       *)
EXTENDS ShowConf

S(k, v) == [k |-> k, v |-> v]
E(addr, prefix, mask) ==
    [prefix |-> prefix, addr |-> addr, colon |-> FamilyOf[addr] = "v6",
     pton |-> IF FamilyOf[addr] = "v6" THEN "AF_INET6" ELSE "AF_INET", mask |-> mask]
Port(n) == [service |-> "text", family |-> "AF_INET6", port |-> n]
NoPort == [service |-> "text", family |-> "error", port |-> 0]
Ip(addr, n) == [addr |-> addr, cidr |-> n]

MCFamilyOf == [a |-> "v4", b |-> "v6"]
MCIps == {Ip("a", 32), Ip("a", 24), Ip("b", 128)}

MCSections ==
    {S("Interface", "x"), S("Peer", "k="), S("PublicKey", "k="), S("PublicKey", "m="),
     S("AllowedIPs", <<E("a", "", Decimal(24)), E("b", "", NULL)>>),
     S("AllowedIPs", <<E("b", "+", Decimal(128)), E("a", "-", NULL)>>),
     S("AllowedIPs", <<E("a", "", Decimal(33))>>), S("AllowedIPs", <<>>)}

MCPeerKeys ==
    {S("Peer", "k="), S("PublicKey", "k="), S("Endpoint", "h:1"), S("Endpoint", "ws://[a:b]:1/p"),
     S("WSMode", "websocket"), S("WSMode", "wstunnel"), S("WSTunnelTarget", "h:1")}

MCHosts ==
    {S("Peer", "k="), S("PublicKey", "k="), S("Endpoint", "[a:b]:1"), S("Endpoint", "ws://h"),
     S("WSMode", "websocket"), S("WSTunnelTarget", "h")}

MCOthers ==
    {S("Peer", "k="), S("Peer", "junk"), S("PublicKey", "k="), S("PresharedKey", "psk="),
     S("PresharedKey", "psk.key"), S("PersistentKeepalive", Decimal(65535)),
     S("PersistentKeepalive", Decimal(65536)), S("remove", "x"), S("FwMark", Hex(1))}

MCDevice ==
    {S("Interface", "x"), S("Peer", "k="), S("PrivateKey", "priv="), S("PrivateKey", "empty"),
     S("PrivateKey", "short"), S("ListenPort", Port(7)), S("ListenPort", NoPort), S("blank", "x")}

MCMarks ==
    {S("Interface", "x"), S("Peer", "k="), S("FwMark", Hex(UINT32_MAX)), S("FwMark", Hex(UINT32_MAX + 1)),
     S("FwMark", Number("off", 0, FALSE)), S("WSListen", "ws://h:1"), S("WSListen", ""), S("WSListen", "h:1")}

MCSecrets ==
    {S("Peer", "k="), S("PublicKey", "k="), S("WSMode", "websocket"), S("WSMode", "udp"),
     S("WSBearer", "psk.key"), S("WSBearer", "long"), S("WSBearer", ""), S("WSTLSCA", "psk.key")}

MCSettings ==
    {S("Peer", "k="), S("PublicKey", "k="), S("WSMode", "websocket"), S("WSMask", "true"),
     S("WSMask", "false"), S("WSMask", "1"), S("WSPingInterval", Decimal(UINT32_MAX)),
     S("WSPingInterval", Number("minus", 1, FALSE)), S("WSPingInterval", Number("digit", 5, TRUE))}

MCLex ==
    [t \in {""} |-> <<>>] @@
    [t \in {"h"} |-> <<"h">>] @@ [t \in {"h:1"} |-> <<"h", ":", "1">>] @@
    [t \in {"[a:b]:1"} |-> <<"[", "a", ":", "b", "]", ":", "1">>] @@
    [t \in {"ws://h"} |-> <<"ws://", "h">>] @@ [t \in {"ws://h:1"} |-> <<"ws://", "h", ":", "1">>] @@
    [t \in {"ws://[a:b]:1/p"} |-> <<"ws://", "[", "a", ":", "b", "]", ":", "1", "/", "p">>]
MCResolver == (<<"h">> :> "v4") @@ (<<"a", ":", "b">> :> "v6") @@ (<<"a">> :> "v4")
MCPlainEndpoint == [v4 |-> "h:1", v6 |-> "[a:b]:1"]
MCBase64 ==
    ("k=" :> "k") @@ ("m=" :> "m") @@ ("psk=" :> "psk") @@ ("priv=" :> "priv") @@ ("zero=" :> "zero")
File(line, len, newline) == [line |-> line, len |-> len, newline |-> newline, rest |-> "space"]
MCFiles ==
    ("psk.key" :> File("psk=", 44, TRUE)) @@ ("empty" :> File("", 0, FALSE)) @@
    ("short" :> File("psk", 43, TRUE)) @@ ("long" :> File("secret", 8191, TRUE))

MCKeyOrder == <<"m", "k">>
MCRetries == {0, 1, -1, BAD}

MCAll == {MCSections, MCPeerKeys, MCHosts, MCOthers, MCDevice, MCMarks, MCSecrets, MCSettings}
MCIncremental == {MCSections}
MCTransport == {MCPeerKeys}
=============================================================================
