-------------------------- MODULE MCWgQuickMonitor --------------------------
EXTENDS WgQuickMonitor

MCGateways4(g) == [f \in Families |-> IF f = "v4" THEN g ELSE NULL]
MCScenarios ==
    {[platform |-> "freebsd", user |-> FALSE, auto |-> {"v4", "v6"}, gw |-> MCGateways4("g1"), changes |-> 2],
     [platform |-> "freebsd", user |-> TRUE, auto |-> {"v4"}, gw |-> MCGateways4(NULL), changes |-> 2],
     [platform |-> "openbsd", user |-> FALSE, auto |-> {"v4", "v6"}, gw |-> MCGateways4(NULL), changes |-> 2],
     [platform |-> "openbsd", user |-> FALSE, auto |-> {"v4"}, gw |-> MCGateways4("g1"), changes |-> 2],
     [platform |-> "darwin", user |-> TRUE, auto |-> {"v4"}, gw |-> MCGateways4("g1"), changes |-> 1],
     [platform |-> "darwin", user |-> TRUE, auto |-> {}, gw |-> MCGateways4("g1"), changes |-> 2]}
MCFamilyOf(e) == IF e = "e6" THEN "v6" ELSE "v4"
=============================================================================
