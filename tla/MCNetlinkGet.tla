---------------------------- MODULE MCNetlinkGet ----------------------------
(* Interfaces with up to three peers and up to three allowed IPs, changed up  *)
(* to twice during the dump.                                                  *)
EXTENDS NetlinkGet

KP(k, ips) == [key |-> k, aips |-> ips]
MCConfigs ==
    {<<>>,
     <<KP("k", <<"a", "b", "c">>)>>,
     <<KP("k", <<>>), KP("m", <<"a", "b">>)>>,
     <<KP("m", <<"b", "a", "c">>), KP("k", <<>>)>>,
     <<KP("m", <<"a">>), KP("n", <<"b">>), KP("k", <<"c">>)>>}
=============================================================================
