----------------------------- MODULE MCSetDevice -----------------------------
(* kernel_set_device with up to three peers of up to three allowed IPs, in a  *)
(* buffer that holds little more than one full peer, on an interface with     *)
(* peers of its own, while another process changes one of them.               *)
EXTENDS SetDevice

Add(i) == [ip |-> i, family |-> IF i = "c" THEN "v4" ELSE "v6", remove |-> FALSE]
Minus(i) == [Add(i) EXCEPT !.remove = TRUE]

Full(k, aips) ==
    [key |-> k, remove |-> FALSE, replace |-> TRUE, psk |-> "psk", endpoint |-> "v6",
     ka |-> 25, aips |-> aips]
Incremental(k, aips) ==
    [key |-> k, remove |-> FALSE, replace |-> FALSE, psk |-> NULL, endpoint |-> NULL,
     ka |-> NULL, aips |-> aips]
Removed(k, aips) == [Incremental(k, aips) EXCEPT !.remove = TRUE]

Short == <<Add("c")>>
Two == <<Add("a"), Add("b")>>
Long == <<Add("a"), Minus("b"), Add("c")>>

(* The first peer may fill the message up to any point of the second. *)
FirstPeers ==
    {Full("k", l) : l \in {<<>>, Two, Long}}
      \cup {Incremental("m", Long), Removed("k", Long), [Full("m", Short) EXCEPT !.endpoint = "v4"]}
SecondPeers ==
    {Full(k, l) : k \in {"k", "m"}, l \in {Two, Long}}
      \cup {Incremental("k", Long), Incremental("m", Short)}
      \cup {Removed(k, l) : k \in {"k", "m"}, l \in {<<>>, Long}}
MCDevices ==
    {[priv |-> "psk", port |-> NULL, fwmark |-> 7, replace |-> r, peers |-> <<p, q>>] :
       r \in BOOLEAN, p \in FirstPeers, q \in SecondPeers}
      \cup
    {[priv |-> NULL, port |-> NULL, fwmark |-> NULL, replace |-> FALSE, peers |-> ps] :
       ps \in {<<>>, <<Full("k", Long), Removed("m", Two), Incremental("k", Short)>>,
               <<Removed("m", Long), Incremental("k", Long), Full("m", Long)>>}}
      \cup
    {[priv |-> "psk", port |-> 51820, fwmark |-> 1, replace |-> TRUE,
      peers |-> <<Full("k", Long), Removed("m", Long), Full("m", Two)>>]}

Runtime == [psk |-> "old", endpoint |-> "v4", ka |-> 5]
MCIfaces ==
    {[priv |-> NULL, port |-> 51820, fwmark |-> 0,
      peers |-> [x \in Keys |-> IF x = "k" THEN Runtime ELSE m],
      owner |-> [i \in Ips |-> IF i = "a" THEN "k" ELSE IF m = NULL THEN NULL ELSE "m"]] :
        m \in {NULL, Runtime}}
=============================================================================
