------------------------------- MODULE MCIpc -------------------------------
(* One interface in the kernel, one that may be in the kernel, have a daemon   *)
(* or a stale socket, and one of another kind.                                 *)
EXTENDS Ipc

MCKeyOrder == <<"p", "q">>
MCNameOrder == <<<<"k">>, <<"l", "o">>, <<"b", "1">>>>

Peer(psk, ep, ka) == [psk |-> psk, endpoint |-> ep, ka |-> ka]
Conf(ps, own, ws, c) ==
    [base |-> [priv |-> "key", port |-> 7, fwmark |-> 0,
               peers |-> [k \in Keys |-> IF k \in DOMAIN ps THEN ps[k] ELSE NULL], owner |-> own],
     ws |-> ws, carrier |-> [k \in Keys |-> IF k = "p" /\ "p" \in DOMAIN ps THEN c ELSE NewCarrier]]
Two == [p |-> Peer("psk", NULL, 5), q |-> Peer(NULL, "v4", 0)]
One == [q |-> Peer(NULL, "v6", 0)]
Owned(a, b) == [i \in Ips |-> IF i = "a" THEN a ELSE b]

Small == Conf(One, Owned(NULL, "q"), NULL, NewCarrier)
Large == Conf(Two, Owned("p", "q"), NULL, NewCarrier)
Web == Conf(Two, Owned("q", "p"), "w", [transport |-> "websocket", ws |-> "w"])

MCKernelConfs == {NULL, Small, Large}
MCDaemonConfs == {Web}
MCKernels ==
    {[n \in Names |-> CASE n = <<"k">> -> Small [] n = <<"l", "o">> -> FOREIGN [] OTHER -> Large],
     [n \in Names |-> NULL]}
MCSockets ==
    {[n \in Names |-> CASE n = <<"b", "1">> -> b [] n = <<"k">> -> IF b = 0 THEN -1 ELSE 0 [] OTHER -> 0] :
        b \in {0, 1, 2}}

P(k, rm, rep, psk, ep, ka, tr, ws, l) ==
    [key |-> k, remove |-> rm, replace |-> rep, psk |-> psk, endpoint |-> ep, ka |-> ka, transport |-> tr,
     ws |-> ws, aips |-> l]
Aip(i, r) == [ip |-> i, family |-> "v4", remove |-> r]
Dev(fw, ws, rep, ps) ==
    [priv |-> NULL, port |-> 8, fwmark |-> fw, ws |-> ws, replace |-> rep, peers |-> ps]
MCDevices ==
    {Dev(NULL, NULL, TRUE, <<P("p", FALSE, TRUE, "psk", "v4", 5, "udp", NULL, <<Aip("a", FALSE)>>)>>),
     Dev(3, "", FALSE, <<P("q", TRUE, TRUE, "psk", NULL, NULL, NULL, NULL, <<Aip("b", FALSE)>>)>>),
     Dev(NULL, "w", FALSE, <<>>),
     Dev(NULL, NULL, FALSE, <<P("q", FALSE, FALSE, "zero", NULL, NULL, NULL, "w2", <<Aip("a", TRUE), Aip("b", TRUE)>>)>>),
     Dev(NULL, NULL, FALSE, <<P("p", FALSE, TRUE, NULL, "v6", NULL, "wstunnel", "w2", <<Aip("b", FALSE)>>),
                              P("q", FALSE, FALSE, NULL, NULL, 0, NULL, NULL, <<Aip("a", FALSE)>>)>>)}
MCWanted == {[name |-> n, dev |-> d] : n \in {<<"b", "1">>}, d \in MCDevices}
=============================================================================
