------------------------------ MODULE MCWgQuick ------------------------------
EXTENDS WgQuick, TLC

Default(f) == [fam |-> f, dst |-> "/0"]
Net(f) == [fam |-> f, dst |-> "/24"]
Quiet == [ws |-> FALSE, mark |-> 0, allowed |-> <<Net("v4")>>, dns |-> FALSE, table |-> AUTO, save |-> FALSE]

(* A tunnel for everything, with a name server and without, one for IPv6 only, *)
(* one with a mark that the first table's number begins with, a server that    *)
(* saves its configuration.                                                    *)
Tunnel == [Quiet EXCEPT !.allowed = <<Net("v4"), Default("v4"), Default("v6")>>, !.dns = TRUE]
Both == [Quiet EXCEPT !.allowed = <<Default("v4"), Default("v6")>>]
Six == [Quiet EXCEPT !.allowed = <<Default("v6")>>]
Marked == [Quiet EXCEPT !.allowed = <<Default("v4")>>, !.mark = 5182, !.ws = TRUE]
Server == [Quiet EXCEPT !.save = TRUE, !.table = 5182]

Up(i) == [op |-> "up", iface |-> i]
Down(i) == [op |-> "down", iface |-> i]
Save(i) == [op |-> "save", iface |-> i]
Scenario(c0, c1, jobsP, jobsQ, kernel) ==
    [conf |-> ("w0" :> c0) @@ ("w1" :> c1), jobs |-> ("p" :> jobsP) @@ ("q" :> jobsQ),
     module |-> kernel, dup |-> kernel, nft |-> kernel]

MCScenarios ==
    {Scenario(Tunnel, Marked, <<Up("w0"), Down("w0")>>, <<Up("w1"), Down("w1")>>, TRUE),
     Scenario(Tunnel, Server, <<Up("w0"), Down("w0")>>, <<Up("w1"), Down("w1")>>, TRUE),
     Scenario(Both, Six, <<Up("w0")>>, <<Up("w1"), Down("w1")>>, TRUE),
     Scenario(Both, Marked, <<Up("w0"), Down("w0")>>, <<Up("w1")>>, FALSE),
     Scenario([Six EXCEPT !.dns = TRUE], Server, <<Up("w0")>>, <<Up("w0")>>, TRUE),
     Scenario(Six, [Server EXCEPT !.table = OFF], <<Up("w1"), Save("w1")>>, <<Down("w1")>>, FALSE)}
=============================================================================
