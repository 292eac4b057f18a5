---------------------------- MODULE MCWgLibrary ----------------------------
(* The configuration of test.c and one whose two peers need several messages. *)
EXTENDS WgLibrary

Aip(i) == [ip |-> i, family |-> "v4", remove |-> FALSE]
Peer(k, replace, psk, aips) ==
    [key |-> k, remove |-> FALSE, replace |-> replace, psk |-> psk, endpoint |-> NULL,
     ka |-> NULL, aips |-> aips]
Dev(replace, ps) ==
    [priv |-> "s", port |-> 1234, fwmark |-> NULL, replace |-> replace, peers |-> ps]
MCDevices ==
    {Dev(FALSE, <<>>), Dev(FALSE, <<Peer("k", TRUE, NULL, <<>>)>>),
     Dev(TRUE, <<Peer("k", TRUE, "s", <<Aip("a"), Aip("b"), Aip("c")>>),
                 Peer("m", FALSE, NULL, <<Aip("b")>>),
                 [Peer("m", FALSE, NULL, <<Aip("c")>>) EXCEPT !.remove = TRUE]>>)}

Plain == [psk |-> NULL, endpoint |-> "v4", ka |-> 0]
Owned(a, b, c) == [i \in Ips |-> CASE i = "a" -> a [] i = "b" -> b [] OTHER -> c]
MCIfaces ==
    {[FreshIface EXCEPT !.peers["k"] = Plain, !.peers["m"] = Plain,
                        !.owner = Owned("k", "m", "k")],
     [FreshIface EXCEPT !.peers["m"] = Plain, !.owner = Owned("m", "m", "m")]}
=============================================================================
