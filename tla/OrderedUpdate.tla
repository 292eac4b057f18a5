---------------------------- MODULE OrderedUpdate ----------------------------
(***************************************************************************)
(* What handing a configuration to an interface promises, whatever messages *)
(* it takes: the interface walks along the states of the configuration     *)
(* applied up to some point, forwards only and from the state it was in;   *)
(* it may stop anywhere with an error, and success means the end was       *)
(* reached.  The promise is about one run that is alone on the interface:  *)
(* once another process writes, or the command runs again, it ends.        *)
(***************************************************************************)
EXTENDS Integers, Sequences

CONSTANTS
    Devices, Ifaces,
    (* What a configuration and its parts make of an interface (KernelConfig). *)
    SetDeviceAttrs(_, _), ApplyDevice(_, _), SetNest(_, _, _, _, _, _), UserFlags(_)

VARIABLES
    dev,     \* the configuration
    iface,   \* the interface
    before,  \* the interface when the update began
    at,      \* how far the update is: <<peer, allowed IPs of it>>
    status,  \* "none" until the update ends with "ok" or "error"
    alone    \* nobody else has written since the update began

updVars == <<dev, iface, before, at, status, alone>>

Nowhere == <<-1, 0>>
Start == <<0, 0>>
End(d) == <<Len(d.peers), IF d.peers = <<>> THEN 0 ELSE Len(d.peers[Len(d.peers)].aips)>>

Points(d) ==
    {Nowhere, Start} \cup UNION {{<<p, i>> : i \in 0..Len(d.peers[p].aips)} : p \in 1..Len(d.peers)}

NotBefore(x, y) == y[1] < x[1] \/ (y[1] = x[1] /\ y[2] <= x[2])

(* The interface f after configuration d up to point x. *)
UpTo(f, d, x) ==
    CASE x = Nowhere -> f
      [] x = Start -> SetDeviceAttrs(f, d)
      [] OTHER ->
           LET p == d.peers[x[1]]
               rest == ApplyDevice(f, [d EXCEPT !.peers = SubSeq(@, 1, x[1] - 1)])
           IN SetNest(rest, p, TRUE, UserFlags(p), 1, x[2] + 1)

UpdInit ==
    /\ dev \in Devices
    /\ iface \in Ifaces
    /\ before = iface
    /\ at = Nowhere
    /\ status = "none"
    /\ alone = TRUE

Advance ==
    /\ status = "none"
    /\ \E x \in Points(dev) :
         /\ NotBefore(x, at)
         /\ at' = x
         /\ iface' = UpTo(before, dev, x)
    /\ UNCHANGED <<dev, before, status, alone>>

Finish ==
    /\ status = "none"
    /\ \/ status' = "error"
       \/ status' = "ok" /\ at = End(dev)
    /\ UNCHANGED <<dev, iface, before, at, alone>>

(* Somebody else writes: from here on nothing is promised. *)
Disturbed == alone' = FALSE

UpdNext == (alone /\ (Advance \/ Finish)) \/ Disturbed

UpdSpec == UpdInit /\ [][UpdNext]_updVars
=============================================================================
