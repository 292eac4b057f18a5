------------------------------ MODULE WgDevice ------------------------------
(***************************************************************************)
(* The device model of src/src/containers.h that every command fills in    *)
(* and every backend reads: a device has a list of peers and a peer has a  *)
(* list of allowed IPs.  A field guarded by a HAS_ flag is NULL when the   *)
(* flag is not set.  An endpoint is represented by its address family, the *)
(* only thing about it that the code looks at.                             *)
(***************************************************************************)
EXTENDS Integers, Sequences

CONSTANTS
    Keys,     \* public keys
    Ips,      \* allowed IPs: address and prefix length
    Secrets,  \* private and preshared keys
    NULL      \* not set

ASSUME NullAssumption ==
    NULL \notin Secrets /\ NULL \notin Nat /\ NULL \notin {"v4", "v6"}

WgAllowedIp == [ip : Ips, family : {"v4", "v6"}, remove : BOOLEAN]

WgPeer ==
    [key : Keys, remove : BOOLEAN, replace : BOOLEAN, psk : {NULL} \cup Secrets,
     endpoint : {NULL, "v4", "v6"}, ka : {NULL} \cup Nat, aips : Seq(WgAllowedIp)]

WgDev ==
    [priv : {NULL} \cup Secrets, port : {NULL} \cup Nat, fwmark : {NULL} \cup Nat,
     replace : BOOLEAN, peers : Seq(WgPeer)]
=============================================================================
