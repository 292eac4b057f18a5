----------------------------- MODULE MCSyncConf -----------------------------
(* Configuration files of up to two peers over three keys, some with a key     *)
(* twice, on interfaces with up to two peers.                                  *)
EXTENDS SyncConf

Aip(i) == [ip |-> i, family |-> "v4", remove |-> FALSE]
P(k, psk, ep, ka, l) ==
    [key |-> k, remove |-> FALSE, replace |-> TRUE, psk |-> psk, endpoint |-> ep, ka |-> ka,
     aips |-> l]
PeersOf(k) ==
    {P(k, psk, ep, ka, l) : psk \in {NULL, "psk"}, ep \in {NULL, "v6"}, ka \in {NULL, 25},
                            l \in {<<>>, <<Aip("a"), Aip("b")>>}}

(* A peer whose list of allowed IPs is one of changes. *)
Changes(p) == [p EXCEPT !.replace = FALSE, !.aips = [i \in DOMAIN @ |-> [@[i] EXCEPT !.remove = i = 1]]]

Dev(replace, ps) == [priv |-> "key", port |-> 7, fwmark |-> 0, replace |-> replace, peers |-> ps]
MCFiles ==
    {Dev(r, ps) : r \in BOOLEAN,
       ps \in {<<>>} \cup {<<p>> : p \in PeersOf("k")}
                \cup {<<P("m", NULL, NULL, NULL, l), q>> :
                           l \in {<<>>, <<Aip("b")>>}, q \in PeersOf("k")}
                \cup {<<P("k", NULL, NULL, 25, <<Aip("a")>>), Changes(q)>> : q \in PeersOf("k")}}

RuntimePeer(psk, ka) == [psk |-> psk, endpoint |-> "v4", ka |-> ka]
RuntimeChoices == {NULL, RuntimePeer("old", 5), RuntimePeer(NULL, 0), RuntimePeer("old", 0)}
MCIfaces ==
    {[priv |-> NULL, port |-> 51820, fwmark |-> 3,
      peers |-> [x \in Keys |-> CASE x = "k" -> k [] x = "m" -> NULL [] x = "n" -> n],
      owner |-> [i \in Ips |-> IF i = "a" /\ n # NULL THEN "n"
                               ELSE IF i = "b" /\ k # NULL THEN "k" ELSE NULL]] :
        k \in RuntimeChoices, n \in RuntimeChoices}
MCKeyOrder == <<"k", "m", "n">>
=============================================================================
