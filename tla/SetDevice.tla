------------------------------ MODULE SetDevice ------------------------------
(***************************************************************************)
(* kernel_set_device at work on an interface.  Every message changes the   *)
(* interface when it is sent; between two messages other processes may     *)
(* change it too; and after an error the user may run the command again.   *)
(***************************************************************************)
EXTENDS NetlinkSet, KernelConfig

CONSTANTS
    Ifaces,     \* what the interface may hold before the command
    OtherKeys,  \* the peers other processes touch
    OtherIps,   \* the allowed IPs they give to those peers
    MaxOthers,  \* how often they do
    MaxRuns     \* how often the command is run until it succeeds

VARIABLES
    iface,    \* the interface in the kernel
    before,   \* what it held before the first run
    others,   \* what other processes have done so far
    runs      \* the runs of the command so far

ASSUME IfacesAssumption == Ifaces \subseteq Iface
ASSUME OthersAssumption == OtherKeys \subseteq Keys /\ OtherIps \subseteq Ips

setVars == <<vars, iface, before, others, runs>>

SetInit ==
    /\ Init
    /\ iface \in Ifaces
    /\ before = iface
    /\ others = <<>>
    /\ runs = 1

Applied == SubSeq(log', Len(log) + 1, Len(log'))

(* A step of kernel_set_device; what it adds to the log changes the interface. *)
Step ==
    /\ Next
    /\ iface' = ApplyEntries(iface, dev, Applied)
    /\ UNCHANGED <<before, others, runs>>

(* Another process removes a peer, or gives it an allowed IP, in one message. *)
OtherRemoves(k) == iface' = RemovePeer(iface, k)
OtherAdds(k, i) ==
    iface' = [iface EXCEPT !.peers[k] = IF @ = NULL THEN NewPeer ELSE @, !.owner[i] = k]
Other ==
    /\ Len(others) < MaxOthers
    /\ pc # "done"
    /\ \E k \in OtherKeys :
         \/ OtherRemoves(k) /\ others' = Append(others, <<k>>)
         \/ \E i \in OtherIps : OtherAdds(k, i) /\ others' = Append(others, <<k, i>>)
    /\ UNCHANGED <<vars, before, runs>>

(* The command failed and is run again with the same configuration. *)
Rerun ==
    /\ pc = "done" /\ ret = "error"
    /\ runs < MaxRuns
    /\ runs' = runs + 1
    /\ pc' = "open" /\ ret' = "none"
    /\ peer' = 0 /\ allowedip' = 0 /\ len' = 0
    /\ msg' = <<>> /\ sent' = <<>> /\ log' = <<>> /\ reply' = "none"
    /\ UNCHANGED <<dev, iface, before, others>>

SetNext == Step \/ Other \/ Rerun

SetSpec == SetInit /\ [][SetNext]_setVars

(* The command always takes its next step; nobody has to run it again. *)
FairSetSpec == SetSpec /\ WF_setVars(Step)

-----------------------------------------------------------------------------
TouchedKeys == {others[i][1] : i \in 1..Len(others)}
TouchedIps == {others[i][2] : i \in {j \in 1..Len(others) : Len(others[j]) = 2}}

(* If kernel_set_device succeeds, the interface is what the configuration     *)
(* asks for, as if it had been applied in one message: no attribute is lost   *)
(* at a message boundary and none is applied again in a later fragment.  This *)
(* includes a success after failed runs that stopped at any point, and holds  *)
(* for every peer and allowed IP that no other process touched meanwhile.     *)
SuccessAppliesConfig ==
    LET want == ApplyDevice(before, dev)
    IN ret = "ok" =>
         /\ \A k \in Keys \ TouchedKeys : iface.peers[k] = want.peers[k]
         /\ \A i \in Ips \ TouchedIps :
              iface.owner[i] # want.owner[i] => want.owner[i] \in TouchedKeys
         /\ iface.priv = want.priv /\ iface.port = want.port /\ iface.fwmark = want.fwmark

(* How far the log is: the point of the configuration the last entry ends at. *)
LogEnd ==
    IF log = <<>> THEN <<-1, 0>> ELSE <<log[Len(log)].peer, log[Len(log)].to - 1>>

Update ==
    INSTANCE OrderedUpdate
      WITH at <- LogEnd, status <- ret, alone <- others = <<>> /\ runs = 1

(* Until somebody else writes, kernel_set_device implements an ordered update: *)
(* at every moment, between any two messages and after any error, the          *)
(* interface is in a state that applying the configuration up to some point    *)
(* gives, and it only moves forward.                                           *)
ImplementsOrderedUpdate == Update!UpdSpec

(* A peer that the configuration removes, and that no later entry of the      *)
(* configuration and no other process adds again, stays removed once the      *)
(* kernel has handled it: the fragments of its allowed IPs do not recreate it.*)
RemovedStaysRemoved ==
    \A e \in 1..Len(log) :
      LET k == dev.peers[log[e].peer].key
      IN (/\ log[e].peer # 0
          /\ dev.peers[log[e].peer].remove
          /\ \A q \in log[e].peer + 1 .. Len(dev.peers) : dev.peers[q].key # k
          /\ k \notin TouchedKeys)
         => iface.peers[k] = NULL
=============================================================================
