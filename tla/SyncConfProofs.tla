--------------------------- MODULE SyncConfProofs ---------------------------
(***************************************************************************)
(* Proofs about `wg setconf`, `wg addconf` and `wg syncconf`, for every    *)
(* file, every interface and every order of the equal elements that qsort  *)
(* may choose, with other processes adding and removing peers at any       *)
(* moment.                                                                 *)
(***************************************************************************)
EXTENDS SyncDifferenceProofs

(* What the command alone would have made of the interface so far. *)
Written == IF next = 0 THEN before ELSE FirstPeers(before, device, next - 1)

(* sync_conf had something to compare with. *)
Compared == cmd = "syncconf" /\ file.peers # <<>> /\ Existing(runtime) # {}

(* The inductive invariant: the control state; the device, which is the file, *)
(* or its difference to what was read; what was read, which of the untouched  *)
(* peers is what was there before; and the interface, which is near to what   *)
(* the command alone would have made of it.                                   *)
ControlInv ==
    /\ pc \in {"parse", "get", "sync", "set", "done"}
    /\ pc \notin {"set", "done"} => next = 0
    /\ pc \in {"sync", "get"} => cmd = "syncconf" /\ file.peers # <<>>
    /\ pc = "sync" => Compared
    /\ next \in 0 .. Len(device.peers) + 1
    /\ ret = "ok" => next = Len(device.peers) + 1
    /\ others \in Seq([key : Keys, adds : BOOLEAN, pc : {"parse", "get", "sync", "set"}])
    /\ \A i \in 1..Len(others) : others[i].pc \in {"parse", "get"} \/ pc \in {"sync", "set", "done"}

DeviceInv ==
    /\ file \in Files /\ cmd \in {"setconf", "addconf", "syncconf"}
    /\ cmd = "syncconf" => file.replace
    /\ \/ device = file /\ (Compared => next = 0 /\ pc # "set")
       \/ /\ Compared /\ pc \in {"set", "done"}
          /\ \E hit \in Sorted(runtime, file) : device = Difference(runtime, file, hit)

ReadInv ==
    /\ before \in Ifaces
    /\ runtime \in [Keys -> {NULL} \cup KernelPeer]
    /\ Existing(runtime) # {} => Compared
    /\ (pc \in {"sync", "set"} \/ next # 0) /\ cmd = "syncconf" /\ file.peers # <<>> =>
         \A k \in Keys \ Touched : runtime[k] = before.peers[k]

NearInv == iface \in Iface /\ Near(Touched, {}, iface, Written)

SyncInv == ControlInv /\ DeviceInv /\ ReadInv /\ NearInv

-----------------------------------------------------------------------------
(* The invariant. *)

(* Files are devices, and so is what is written. *)
LEMMA DeviceType ==
    ASSUME DeviceInv
    PROVE  /\ file \in WgDev /\ device \in WgDev
           /\ \A i \in 1..Len(file.peers) : ~file.peers[i].remove
<1>1. file \in WgDev /\ \A i \in 1..Len(file.peers) : ~file.peers[i].remove
  BY FilesAssumption DEF DeviceInv
<1>2. ASSUME NEW hit, device = Difference(runtime, file, hit) PROVE device \in WgDev
  BY Zenon, <1>1, <1>2, DifferenceFacts DEF DiffOf
<1> QED
  BY <1>1, <1>2 DEF DeviceInv

(* The command begins in the invariant. *)
LEMMA SyncInitEstablishes ==
    ASSUME SyncInit
    PROVE  SyncInv
<1>1. /\ file \in Files /\ iface \in Ifaces /\ device = file /\ before = iface
      /\ runtime = NoPeers /\ others = <<>> /\ next = 0 /\ pc = "parse" /\ ret = "none"
      /\ cmd \in {"setconf", "addconf", "syncconf"}
      /\ cmd = "syncconf" => file.replace
  BY DEF SyncInit
<1>2. device.peers \in Seq(WgPeer) /\ Len(device.peers) \in Nat
  BY <1>1, FilesAssumption DEF WgDev
<1>3. Existing(runtime) = {} /\ runtime \in [Keys -> {NULL} \cup KernelPeer]
  BY <1>1 DEF Existing, NoPeers
<1>4. ControlInv
  BY <1>1, <1>2 DEF ControlInv
<1>5. DeviceInv
  BY <1>1, <1>3 DEF DeviceInv, Compared
<1>6. ReadInv
  BY <1>1, <1>3 DEF ReadInv
<1>7. NearInv
  BY <1>1, IfacesAssumption DEF NearInv, Near, Written
<1> QED
  BY <1>4, <1>5, <1>6, <1>7 DEF SyncInv

(* Parsing changes the control state only. *)
LEMMA ParsePreserves ==
    ASSUME SyncInv, Parse
    PROVE  SyncInv'
<1>1. /\ pc = "parse" /\ next = 0
      /\ UNCHANGED <<cmd, file, device, runtime, iface, before, others, next>>
      /\ Len(device.peers) \in Nat
  BY DeviceType DEF SyncInv, ControlInv, Parse, WgDev
<1>2. \/ pc' = "done" /\ ret' = "error"
      \/ /\ pc' = (IF cmd = "syncconf" /\ file.peers # <<>> THEN "get" ELSE "set")
         /\ ret' = ret
  BY DEF Parse, Fail
<1>3. Compared' = Compared /\ Written' = Written /\ Touched' = Touched
  BY <1>1 DEF Compared, Written, Touched
<1>4. ControlInv'
  BY <1>1, <1>2, <1>3 DEF SyncInv, ControlInv
<1>5. DeviceInv'
  BY <1>1, <1>2, <1>3 DEF SyncInv, DeviceInv, Compared
<1>6. ReadInv'
  BY <1>1, <1>2, <1>3 DEF SyncInv, ReadInv
<1>7. NearInv'
  BY <1>1, <1>3 DEF SyncInv, NearInv
<1> QED
  BY <1>4, <1>5, <1>6, <1>7 DEF SyncInv

(* sync_conf reads an interface that nobody but other processes has changed. *)
LEMMA GetRuntimePreserves ==
    ASSUME SyncInv, GetRuntime
    PROVE  SyncInv'
<1>1. /\ pc = "get" /\ next = 0 /\ device = file /\ cmd = "syncconf" /\ file.peers # <<>>
      /\ UNCHANGED <<cmd, file, device, iface, before, others, next>>
      /\ Len(device.peers) \in Nat
  BY DeviceType DEF SyncInv, ControlInv, DeviceInv, GetRuntime, WgDev
<1>2. Written' = Written /\ Touched' = Touched
  BY <1>1 DEF Written, Touched
<1>3. NearInv'
  BY <1>1, <1>2 DEF SyncInv, NearInv
<1>4. CASE Fail /\ UNCHANGED runtime
  <2>1. Compared' = Compared /\ pc' = "done" /\ ret' = "error"
    BY <1>1, <1>4 DEF Compared, Fail
  <2>2. ControlInv'
    BY <1>1, <2>1 DEF SyncInv, ControlInv
  <2>3. DeviceInv'
    BY <1>1, <2>1 DEF SyncInv, DeviceInv
  <2>4. ReadInv'
    BY <1>1, <1>2, <1>4, <2>1 DEF SyncInv, ReadInv
  <2> QED
    BY <1>3, <2>2, <2>3, <2>4 DEF SyncInv
<1>5. CASE runtime' = iface.peers /\ pc' = (IF Existing(iface.peers) = {} THEN "set" ELSE "sync")
           /\ UNCHANGED ret
  <2>1. /\ Existing(runtime') = Existing(iface.peers)
        /\ Compared' <=> Existing(iface.peers) # {}
    BY <1>1, <1>5 DEF Compared
  <2>2. ControlInv'
    BY <1>1, <1>5, <2>1 DEF SyncInv, ControlInv
  <2>3. DeviceInv'
    BY <1>1, <1>5, <2>1 DEF SyncInv, DeviceInv
  <2>4. \A k \in Keys \ Touched : iface.peers[k] = before.peers[k]
    BY <1>1 DEF SyncInv, NearInv, Near, Written
  <2>5. iface.peers \in [Keys -> {NULL} \cup KernelPeer]
    BY DEF SyncInv, NearInv, Iface
  <2>6. ReadInv'
    BY <1>1, <1>2, <1>5, <2>1, <2>4, <2>5 DEF SyncInv, ReadInv
  <2> QED
    BY <1>3, <2>2, <2>3, <2>6 DEF SyncInv
<1> QED
  BY <1>4, <1>5 DEF GetRuntime

(* The comparison changes the device only. *)
LEMMA SyncPreserves ==
    ASSUME SyncInv, Sync
    PROVE  SyncInv'
<1>1. /\ pc = "sync" /\ next = 0 /\ device = file /\ Compared
      /\ UNCHANGED <<cmd, file, runtime, iface, before, others, next>>
      /\ file \in WgDev /\ Len(device.peers) \in Nat
  BY DeviceType DEF SyncInv, ControlInv, DeviceInv, Sync, WgDev
<1>2. Written' = Written /\ Touched' = Touched /\ Compared' = Compared
  BY <1>1 DEF Written, Touched, Compared
<1>3. NearInv'
  BY <1>1, <1>2 DEF SyncInv, NearInv
<1>4. CASE Fail /\ UNCHANGED device
  <2>1. pc' = "done" /\ ret' = "error"
    BY <1>4 DEF Fail
  <2>2. ControlInv'
    BY <1>1, <1>2, <1>4, <2>1 DEF SyncInv, ControlInv
  <2>3. DeviceInv'
    BY <1>1, <1>2, <1>4, <2>1 DEF SyncInv, DeviceInv
  <2>4. ReadInv'
    BY <1>1, <1>2, <1>4, <2>1 DEF SyncInv, ReadInv
  <2> QED
    BY <1>3, <2>2, <2>3, <2>4 DEF SyncInv
<1>5. ASSUME NEW hit \in Sorted(runtime, file), device' = Difference(runtime, file, hit),
             pc' = "set", ret' = ret
      PROVE  SyncInv'
  <2>1. Len(device'.peers) \in Nat
    BY <1>1, <1>5, DifferenceFacts DEF DiffOf, WgDev
  <2>2. ControlInv'
    BY <1>1, <1>2, <1>5, <2>1 DEF SyncInv, ControlInv
  <2>3. DeviceInv'
    BY <1>1, <1>2, <1>5 DEF SyncInv, DeviceInv
  <2>4. ReadInv'
    BY <1>1, <1>2, <1>5 DEF SyncInv, ReadInv
  <2> QED
    BY <1>3, <2>2, <2>3, <2>4 DEF SyncInv
<1> QED
  BY <1>4, <1>5 DEF Sync

(* What Set writes. *)
WrittenNext(f) == IF next = 0 THEN SetDeviceAttrs(f, device) ELSE SetWhole(f, device.peers[next])

(* One part written keeps the interface near to what the command alone makes. *)
LEMMA SetNear ==
    ASSUME SyncInv, next <= Len(device.peers), NEW g, g = FirstPeers(before, device, next)
    PROVE  /\ WrittenNext(iface) \in Iface
           /\ Near(Touched, {}, WrittenNext(iface), g)
<1>1. /\ iface \in Iface /\ before \in Iface /\ device \in WgDev /\ next \in Nat
      /\ device.peers \in Seq(WgPeer) /\ Len(device.peers) \in Nat
      /\ Near(Touched, {}, iface, Written)
  BY DeviceType, IfacesAssumption DEF SyncInv, NearInv, ReadInv, ControlInv, WgDev
<1>2. CASE next = 0
  <2> DEFINE H == AttrsMap(device)
  <2>1. Steady(H)
    BY <1>1, SteadyAttrs
  <2>2. Written = before /\ g = SetDeviceAttrs(before, device)
    BY <1>1, <1>2, FirstPeersStep DEF Written
  <2>3. H[iface] = WrittenNext(iface) /\ H[before] = g
    BY <1>1, <1>2, <2>2 DEF AttrsMap, WrittenNext
  <2> HIDE DEF H
  <2>4. H[iface] \in Iface
    BY <1>1, <2>1 DEF Steady
  <2> QED
    BY <1>1, <2>1, <2>2, <2>3, <2>4, SteadyNear
<1>3. CASE next # 0
  <2> DEFINE p == device.peers[next]
             H == NestMap(p, TRUE, UserFlags(p), 1, Len(p.aips) + 1)
             w == FirstPeers(before, device, next - 1)
  <2>1. next \in 1..Len(device.peers) /\ next - 1 \in 0..Len(device.peers)
    BY <1>1, <1>3
  <2>2. p \in WgPeer
    BY <1>1, <2>1
  <2>3. Written = w /\ w \in Iface /\ g = SetWhole(w, p)
    BY <1>1, <1>3, <2>1, FirstPeersStep DEF Written
  <2> HIDE DEF p, w
  <2>4. NestRange(p, 1, Len(p.aips) + 1)
    BY <2>2 DEF NestRange, WgPeer
  <2>5. Steady(H)
    BY Zenon, <2>2, <2>4, SteadyNest
  <2>6. H[iface] = SetWhole(iface, p) /\ H[w] = SetWhole(w, p)
    BY <1>1, <2>3 DEF NestMap, SetWhole
  <2>7. H[iface] = WrittenNext(iface)
    BY Zenon, <1>3, <2>6 DEF WrittenNext, p
  <2> HIDE DEF H
  <2>8. H[iface] \in Iface
    BY <1>1, <2>5 DEF Steady
  <2> QED
    BY <1>1, <2>3, <2>5, <2>6, <2>7, <2>8, SteadyNear
<1> QED
  BY <1>2, <1>3

(* The step of Set that writes something. *)
SetWrites ==
    /\ next <= Len(device.peers)
    /\ iface' = WrittenNext(iface) /\ next' = next + 1 /\ pc' = pc /\ ret' = ret

(* A step of the write fails, writes the next part, or ends the command. *)
LEMMA SetCases ==
    ASSUME Set
    PROVE  \/ Fail /\ UNCHANGED <<iface, next>>
           \/ SetWrites
           \/ next > Len(device.peers) /\ pc' = "done" /\ ret' = "ok" /\ UNCHANGED <<iface, next>>
<1>1. ApplyEntry(iface, device, [peer |-> 0]) = SetDeviceAttrs(iface, device)
  BY DEF ApplyEntry
<1>2. ASSUME NEW p, p = device.peers[next], next # 0
      PROVE  ApplyEntry(iface, device, [peer |-> next, first |-> TRUE, flags |-> UserFlags(p),
                                        from |-> 1, to |-> Len(p.aips) + 1]) = SetWhole(iface, p)
  BY <1>2 DEF ApplyEntry, SetWhole
<1> QED
  BY <1>1, <1>2 DEF Set, SetWrites, WrittenNext

(* A step of the write keeps the invariant. *)
LEMMA SetPreserves ==
    ASSUME SyncInv, Set
    PROVE  SyncInv'
<1>1. /\ pc = "set" /\ UNCHANGED <<cmd, file, device, runtime, before, others>>
      /\ Len(device.peers) \in Nat /\ next \in Nat /\ next <= Len(device.peers) + 1
  BY DeviceType DEF SyncInv, ControlInv, Set, WgDev
<1>2. Touched' = Touched /\ Compared' = Compared
  BY <1>1 DEF Touched, Compared
<1>3. CASE Fail /\ UNCHANGED <<iface, next>>
  <2>1. pc' = "done" /\ ret' = "error" /\ Written' = Written
    BY <1>1, <1>3 DEF Fail, Written
  <2>2. ControlInv'
    BY <1>1, <1>2, <1>3, <2>1 DEF SyncInv, ControlInv
  <2>3. DeviceInv'
    BY <1>1, <1>2, <1>3, <2>1 DEF SyncInv, DeviceInv
  <2>4. ReadInv'
    BY <1>1, <1>2, <1>3, <2>1 DEF SyncInv, ReadInv
  <2>5. NearInv'
    BY <1>1, <1>2, <1>3, <2>1 DEF SyncInv, NearInv
  <2> QED
    BY <2>2, <2>3, <2>4, <2>5 DEF SyncInv
<1>4. CASE SetWrites
  <2>1. /\ next <= Len(device.peers) /\ next' = next + 1 /\ pc' = pc /\ ret' = ret
        /\ iface' = WrittenNext(iface)
    BY <1>4 DEF SetWrites
  <2>2. ControlInv'
    BY <1>1, <1>2, <2>1 DEF SyncInv, ControlInv
  <2>3. DeviceInv'
    BY <1>1, <1>2, <2>1 DEF SyncInv, DeviceInv
  <2>4. ReadInv'
    BY <1>1, <1>2, <2>1 DEF SyncInv, ReadInv
  <2>5. Written' = FirstPeers(before, device, next)
    BY <1>1, <2>1 DEF Written
  <2>6. iface' \in Iface /\ Near(Touched, {}, iface', Written')
    BY <2>1, <2>5, SetNear
  <2>7. NearInv'
    BY <1>2, <2>6 DEF NearInv
  <2> QED
    BY <2>2, <2>3, <2>4, <2>7 DEF SyncInv
<1>5. CASE next > Len(device.peers) /\ pc' = "done" /\ ret' = "ok" /\ UNCHANGED <<iface, next>>
  <2>1. Written' = Written
    BY <1>1, <1>5 DEF Written
  <2>2. ControlInv'
    BY <1>1, <1>2, <1>5 DEF SyncInv, ControlInv
  <2>3. DeviceInv'
    BY <1>1, <1>2, <1>5 DEF SyncInv, DeviceInv
  <2>4. ReadInv'
    BY <1>1, <1>2, <1>5 DEF SyncInv, ReadInv
  <2>5. NearInv'
    BY <1>1, <1>2, <1>5, <2>1 DEF SyncInv, NearInv
  <2> QED
    BY <2>2, <2>3, <2>4, <2>5 DEF SyncInv
<1> QED
  BY <1>3, <1>4, <1>5, SetCases

(* What another process does to peer q. *)
OtherDoes(q) ==
    /\ others' = Append(others, [key |-> q, adds |-> iface.peers[q] = NULL, pc |-> pc])
    /\ iface' \in Iface
    /\ iface'.priv = iface.priv /\ iface'.port = iface.port /\ iface'.fwmark = iface.fwmark
    /\ \A k \in Keys : k # q => iface'.peers[k] = iface.peers[k]
    /\ \A i \in Ips : iface'.owner[i] = iface.owner[i]
                        \/ (iface'.owner[i] = NULL /\ iface.owner[i] = q)
    /\ iface.peers[q] = NULL => iface'.peers[q] = NewPeer

(* A change by another process adds or removes one peer. *)
LEMMA OtherFacts ==
    ASSUME SyncInv, Other
    PROVE  \E q \in Keys : OtherDoes(q)
<1>1. iface \in Iface
  BY DEF SyncInv, NearInv
<1>2. PICK q \in Keys :
         /\ others' = Append(others, [key |-> q, adds |-> iface.peers[q] = NULL, pc |-> pc])
         /\ iface' = IF iface.peers[q] = NULL
                     THEN [iface EXCEPT !.peers[q] = NewPeer] ELSE RemovePeer(iface, q)
  BY Zenon, OthersAssumption DEF Other
<1>3. CASE iface.peers[q] = NULL
  <2>1. NewPeer \in KernelPeer
    BY DEF NewPeer, KernelPeer
  <2>2. iface' = [iface EXCEPT !.peers[q] = NewPeer]
    BY <1>2, <1>3
  <2>3. /\ iface' \in Iface /\ iface'.owner = iface.owner
        /\ iface'.priv = iface.priv /\ iface'.port = iface.port /\ iface'.fwmark = iface.fwmark
        /\ \A k \in Keys : k # q => iface'.peers[k] = iface.peers[k]
        /\ iface'.peers[q] = NewPeer
    BY <1>1, <2>1, <2>2 DEF Iface
  <2> QED
    BY SMTT(60), <1>2, <2>3 DEF OtherDoes
<1>4. CASE iface.peers[q] # NULL
  <2>1. iface' = RemovePeer(iface, q) /\ iface' \in Iface
    BY <1>1, <1>2, <1>4, RemovePeerType
  <2>2. /\ iface'.priv = iface.priv /\ iface'.port = iface.port /\ iface'.fwmark = iface.fwmark
        /\ \A k \in Keys : k # q => iface'.peers[k] = iface.peers[k]
        /\ \A i \in Ips : iface'.owner[i] = IF iface.owner[i] = q THEN NULL ELSE iface.owner[i]
    BY Zenon, <1>1, <2>1 DEF RemovePeer, Disown, Iface
  <2> QED
    BY <1>2, <1>4, <2>1, <2>2 DEF OtherDoes
<1> QED
  BY <1>3, <1>4

OthersType == [key : Keys, adds : BOOLEAN, pc : {"parse", "get", "sync", "set"}]

(* A list with one more element. *)
LEMMA OneMore ==
    ASSUME NEW T, NEW s \in Seq(T), NEW e \in T
    PROVE  /\ Append(s, e) \in Seq(T) /\ Len(s) \in Nat /\ Len(Append(s, e)) = Len(s) + 1
           /\ \A i \in 1..Len(s) : Append(s, e)[i] = s[i]
           /\ Append(s, e)[Len(s) + 1] = e
OBVIOUS

(* The touched peers are those of before and the new one. *)
LEMMA OtherTouches ==
    ASSUME SyncInv, Other, NEW q \in Keys, OtherDoes(q)
    PROVE  /\ others' \in Seq(OthersType) /\ Len(others) \in Nat /\ Len(others') = Len(others) + 1
           /\ \A i \in 1..Len(others) : others'[i] = others[i]
           /\ others'[Len(others')] = [key |-> q, adds |-> iface.peers[q] = NULL, pc |-> pc]
           /\ Touched' = Touched \cup {q}
<1> DEFINE e == [key |-> q, adds |-> iface.peers[q] = NULL, pc |-> pc]
<1>1. pc \in {"parse", "get", "sync", "set"} /\ others \in Seq(OthersType)
  BY DEF SyncInv, ControlInv, Other, OthersType
<1>2. e \in OthersType /\ e.key = q
  <2>1. (iface.peers[q] = NULL) \in BOOLEAN
    OBVIOUS
  <2> QED
    BY <1>1, <2>1 DEF OthersType
<1>3. others' = Append(others, e)
  BY DEF OtherDoes
<1> HIDE DEF e
<1>4. /\ others' \in Seq(OthersType) /\ Len(others) \in Nat /\ Len(others') = Len(others) + 1
      /\ \A i \in 1..Len(others) : others'[i] = others[i]
      /\ others'[Len(others) + 1] = e
  BY <1>1, <1>2, <1>3, OneMore
<1>5. Touched' = Touched \cup {q}
  <2>1. Touched' = {others'[i].key : i \in 1..(Len(others) + 1)}
    BY <1>4 DEF Touched
  <2>2. ASSUME NEW k \in Touched' PROVE k \in Touched \cup {q}
    <3>1. PICK i \in 1..(Len(others) + 1) : k = others'[i].key
      BY <2>1, <2>2
    <3>2. i \in 1..Len(others) \/ i = Len(others) + 1
      BY <1>4
    <3> QED
      BY <1>2, <1>4, <3>1, <3>2 DEF Touched
  <2>3. ASSUME NEW k \in Touched PROVE k \in Touched'
    <3>1. PICK i \in 1..Len(others) : k = others[i].key
      BY <2>3 DEF Touched
    <3>2. i \in 1..(Len(others) + 1) /\ k = others'[i].key
      BY <1>4, <3>1
    <3> QED
      BY <2>1, <3>2
  <2>4. q \in Touched'
    <3>1. Len(others) + 1 \in 1..(Len(others) + 1)
      BY <1>4
    <3> QED
      BY <1>2, <1>4, <2>1, <3>1
  <2> QED
    BY <2>2, <2>3, <2>4
<1> QED
  BY <1>4, <1>5 DEF e

(* A change by another process keeps the invariant. *)
LEMMA OtherPreserves ==
    ASSUME SyncInv, Other
    PROVE  SyncInv'
<1>1. UNCHANGED <<cmd, file, device, runtime, before, next, pc, ret>> /\ pc # "done"
  BY DEF Other
<1>2. PICK q \in Keys : OtherDoes(q)
  BY OtherFacts
<1>3. /\ others' \in Seq(OthersType) /\ Len(others) \in Nat /\ Len(others') = Len(others) + 1
      /\ \A i \in 1..Len(others) : others'[i] = others[i]
      /\ others'[Len(others')] = [key |-> q, adds |-> iface.peers[q] = NULL, pc |-> pc]
      /\ Touched' = Touched \cup {q}
  BY <1>2, OtherTouches
<1>4. Written' = Written /\ Compared' = Compared
  BY <1>1 DEF Written, Compared
<1>5. ControlInv'
  <2>1. others'[Len(others')].pc = pc
    BY <1>3
  <2>2. ASSUME NEW i \in 1..Len(others')
        PROVE  others'[i].pc \in {"parse", "get"} \/ pc \in {"sync", "set", "done"}
    <3>1. i \in 1..Len(others) \/ i = Len(others')
      BY <1>3
    <3> QED
      BY <1>3, <2>1, <3>1 DEF SyncInv, ControlInv
  <2> QED
    BY <1>1, <1>3, <1>4, <2>2 DEF SyncInv, ControlInv, OthersType
<1>6. DeviceInv'
  BY <1>1, <1>4 DEF SyncInv, DeviceInv
<1>7. ReadInv'
  BY <1>1, <1>3, <1>4 DEF SyncInv, ReadInv
<1>8. NearInv'
  <2>1. PICK w : w = Written
    OBVIOUS
  <2>2. Near(Touched, {}, iface, w)
    BY <2>1 DEF SyncInv, NearInv
  <2>3. Near(Touched', {}, iface', w)
    BY <1>2, <1>3, <2>2 DEF Near, OtherDoes
  <2> QED
    BY <1>2, <1>4, <2>1, <2>3 DEF NearInv, OtherDoes
<1> QED
  BY <1>5, <1>6, <1>7, <1>8 DEF SyncInv

(* Every state the commands can reach satisfies the invariant. *)
THEOREM SyncInvariance == SyncSpec => []SyncInv
<1>1. SyncInit => SyncInv
  BY SyncInitEstablishes
<1>2. SyncInv /\ [SyncNext]_syncVars => SyncInv'
  <2> SUFFICES ASSUME SyncInv, [SyncNext]_syncVars PROVE SyncInv'
    OBVIOUS
  <2>1. CASE UNCHANGED syncVars
    <3>1. ControlInv'
      BY <2>1 DEF syncVars, SyncInv, ControlInv, Compared
    <3>2. DeviceInv'
      BY <2>1 DEF syncVars, SyncInv, DeviceInv, Compared
    <3>3. ReadInv'
      BY <2>1 DEF syncVars, SyncInv, ReadInv, Compared, Touched
    <3>4. NearInv'
      BY <2>1 DEF syncVars, SyncInv, NearInv, Written, Touched
    <3> QED
      BY Zenon, <3>1, <3>2, <3>3, <3>4 DEF SyncInv
  <2> QED
    BY <2>1, ParsePreserves, GetRuntimePreserves, SyncPreserves, SetPreserves, OtherPreserves
    DEF SyncNext
<1> QED
  BY <1>1, <1>2, PTL DEF SyncSpec

-----------------------------------------------------------------------------
(* The properties. *)

(* Once sync_conf has compared, what is written spares every peer that it has *)
(* not read or that the file has.                                             *)
LEMMA ComparedSpares ==
    ASSUME SyncInv, Compared, pc = "set" \/ next # 0, NEW k, k \notin Gone(runtime, file)
    PROVE  Spares(device, k)
<1>1. file \in WgDev /\ \A i \in 1..Len(file.peers) : ~file.peers[i].remove
  BY DeviceType DEF SyncInv
<1>2. PICK hit : device = Difference(runtime, file, hit)
  BY DEF SyncInv, DeviceInv
<1> QED
  BY <1>1, <1>2, DifferenceSpares

(* At every moment, and after an error at any point, syncconf has left the    *)
(* peers alone that are on the interface and in the file: they exist, and     *)
(* have their endpoint unless the file has one.                               *)
THEOREM SyncKeeps == SyncSpec => []SyncKeepsSessions
<1>1. SyncInv => SyncKeepsSessions
  <2> SUFFICES ASSUME SyncInv, cmd = "syncconf",
                      NEW k \in (Existing(before.peers) \cap KeysOf(file)) \ Touched
               PROVE  /\ iface.peers[k] # NULL
                      /\ (\A i \in 1..Len(file.peers) :
                            file.peers[i].key = k => file.peers[i].endpoint = NULL)
                           => iface.peers[k].endpoint = before.peers[k].endpoint
    BY DEF SyncKeepsSessions
  <2>1. k \in Keys /\ k \notin Touched /\ before.peers[k] # NULL
    BY DEF Existing
  <2>2. before \in Iface /\ file \in WgDev /\ device \in WgDev
    BY DeviceType, IfacesAssumption DEF SyncInv, ReadInv
  <2>3. iface.peers[k] = Written.peers[k]
    BY <2>1 DEF SyncInv, NearInv, Near
  <2>4. CASE next = 0
    BY <2>1, <2>3, <2>4 DEF Written
  <2>5. CASE next # 0
    <3>1. file.peers # <<>>
      <4>1. PICK i \in 1..Len(file.peers) : file.peers[i].key = k
        BY DEF KeysOf
      <4>2. file.peers \in Seq(WgPeer)
        BY <2>2 DEF WgDev
      <4> QED
        BY <4>1, <4>2
    <3>2. runtime[k] = before.peers[k]
      BY <2>1, <2>5, <3>1 DEF SyncInv, ReadInv
    <3>3. k \in Existing(runtime)
      BY <2>1, <3>2 DEF Existing
    <3>4. Compared /\ k \notin Gone(runtime, file)
      BY <3>1, <3>3 DEF Compared, Gone
    <3>5. PICK hit : device = Difference(runtime, file, hit)
      BY <2>5, <3>4 DEF SyncInv, DeviceInv
    <3>6. Spares(device, k)
      BY <2>5, <3>4, ComparedSpares
    <3>7. next - 1 \in 0..Len(device.peers)
      BY <2>2, <2>5 DEF SyncInv, ControlInv, WgDev
    <3>8. ASSUME \A i \in 1..Len(file.peers) : file.peers[i].key = k => file.peers[i].endpoint = NULL
          PROVE  \A i \in 1..Len(device.peers) : device.peers[i].key = k => device.peers[i].endpoint = NULL
      <4> DEFINE rs == Removals(runtime, file)
                 s == Edited(runtime, file, hit)
      <4>1. DiffOf(runtime, file, hit, device, rs, s)
        BY <2>2, <3>5, DifferenceFacts
      <4> HIDE DEF rs, s
      <4>2. s \in Seq(WgPeer) /\ rs \in Seq(WgPeer) /\ Len(s) = Len(file.peers) /\ device.peers = rs \o s
        BY <4>1 DEF DiffOf, EditedEntries
      <4>3. ASSUME NEW i \in 1..Len(s) PROVE s[i].key = k => s[i].endpoint = NULL
        <5>1. i \in 1..Len(file.peers)
          BY <4>2
        <5>2. s[i].key = file.peers[i].key /\ s[i].endpoint = file.peers[i].endpoint
          BY Zenon, <4>1, <5>1 DEF DiffOf, EditedEntries, ResetEntry, SameEntry
        <5> QED
          BY Zenon, <3>8, <5>1, <5>2
      <4>4. ASSUME NEW i \in 1..Len(rs) PROVE rs[i].endpoint = NULL
        <5>1. PICK j : rs[i] = Removal(j)
          BY <4>1 DEF DiffOf, OnlyRemovals
        <5> QED
          BY Zenon, <5>1, RemovalFields
      <4>5. ASSUME NEW i \in 1..Len(device.peers)
            PROVE  \/ i \in 1..Len(rs) /\ device.peers[i] = rs[i]
                   \/ i - Len(rs) \in 1..Len(s) /\ device.peers[i] = s[i - Len(rs)]
        BY <4>2
      <4> QED
        BY <4>3, <4>4, <4>5
    <3>9. Written = FirstPeers(before, device, next - 1)
      BY <2>5 DEF Written
    <3> QED
      BY <2>1, <2>2, <2>3, <3>6, <3>7, <3>8, <3>9, SparedStays
  <2> QED
    BY <2>4, <2>5
<1> QED
  BY <1>1, SyncInvariance, PTL

(* A write that spares a peer leaves it on the interface. *)
LEMMA SparedWrite ==
    ASSUME SyncInv, SetWrites, NEW k \in Keys, Spares(device, k), iface.peers[k] # NULL
    PROVE  iface'.peers[k] # NULL
<1>1. iface \in Iface /\ device \in WgDev /\ next \in Nat /\ next <= Len(device.peers)
      /\ iface' = WrittenNext(iface)
  BY DeviceType DEF SyncInv, NearInv, ControlInv, SetWrites, WgDev
<1>2. CASE next = 0
  <2>1. SetDeviceAttrs(iface, device).peers = iface.peers
    BY <1>1 DEF SetDeviceAttrs, Spares, Iface
  <2> QED
    BY <1>1, <1>2, <2>1 DEF WrittenNext
<1>3. CASE next # 0
  <2> DEFINE p == device.peers[next]
  <2>1. next \in 1..Len(device.peers) /\ p \in WgPeer
    BY <1>1, <1>3 DEF WgDev
  <2>2. iface' = SetWhole(iface, p)
    BY <1>1, <1>3 DEF WrittenNext
  <2>3. p.key = k => ~p.remove
    BY <2>1 DEF Spares
  <2> HIDE DEF p
  <2> QED
    BY <1>1, <2>1, <2>2, <2>3, WholePeer, NoPeerAssumption
<1> QED
  BY <1>1, <1>2, <1>3

(* Peer others[i].key was added behind the back of sync_conf. *)
AddedLate(i) ==
    /\ cmd = "syncconf" /\ others[i].adds /\ others[i].pc \in {"sync", "set"}
    /\ Existing(runtime) # {}
    /\ runtime[others[i].key] = NULL
    /\ \A j \in i + 1 .. Len(others) : others[j].key # others[i].key

(* syncconf never removes a peer that another process has added after it read  *)
(* the interface.                                                              *)
THEOREM SyncSpares == SyncSpec => []SyncSparesNewPeers
<1>1. SyncInit => SyncSparesNewPeers
  BY DEF SyncInit, SyncSparesNewPeers
<1>2. SyncInv /\ SyncInv' /\ SyncSparesNewPeers /\ [SyncNext]_syncVars => SyncSparesNewPeers'
  <2> SUFFICES ASSUME SyncInv, SyncSparesNewPeers, [SyncNext]_syncVars,
                      NEW i \in 1..Len(others'), AddedLate(i)'
               PROVE  iface'.peers[others'[i].key] # NULL
    BY SMTT(60) DEF SyncSparesNewPeers, AddedLate
  <2>1. /\ cmd' = "syncconf" /\ others'[i].adds /\ others'[i].pc \in {"sync", "set"}
        /\ Existing(runtime') # {} /\ runtime'[others'[i].key] = NULL
        /\ \A j \in i + 1 .. Len(others') : others'[j].key # others'[i].key
    BY DEF AddedLate
  <2>2. \A j \in 1..Len(others) : AddedLate(j) => iface.peers[others[j].key] # NULL
    BY DEF SyncSparesNewPeers, AddedLate
  <2>3. others \in Seq(OthersType)
    BY DEF SyncInv, ControlInv, OthersType
  <2>4. CASE Parse \/ GetRuntime
    <3>1. others' = others /\ pc \in {"parse", "get"}
      BY <2>4 DEF Parse, GetRuntime
    <3>2. others[i].pc \in {"parse", "get"}
      BY <3>1 DEF SyncInv, ControlInv
    <3> QED
      BY <2>1, <3>1, <3>2
  <2>5. CASE Sync
    BY <2>1, <2>2, <2>5 DEF Sync, AddedLate
  <2>6. CASE Set
    <3>1. UNCHANGED <<cmd, file, device, runtime, before, others>> /\ pc = "set"
      BY <2>6 DEF Set
    <3>2. iface.peers[others[i].key] # NULL /\ others[i].key \in Keys
      <4>1. others[i] \in OthersType /\ i \in 1..Len(others)
        BY <2>3, <3>1
      <4>2. AddedLate(i)
        BY Zenon, <2>1, <3>1 DEF AddedLate
      <4> QED
        BY <2>2, <4>1, <4>2 DEF OthersType
    <3>3. CASE SetWrites
      <4>1. Compared
        BY <2>1, <3>1 DEF SyncInv, ReadInv
      <4>2. others[i].key \notin Gone(runtime, file)
        BY <2>1, <3>1 DEF Gone, Existing
      <4>3. Spares(device, others[i].key)
        BY <3>1, <4>1, <4>2, ComparedSpares
      <4> QED
        BY <3>1, <3>2, <3>3, <4>3, SparedWrite
    <3> QED
      BY <2>6, <3>1, <3>2, <3>3, SetCases
  <2>7. CASE Other
    <3>1. UNCHANGED <<cmd, file, device, runtime, before, next, pc, ret>>
      BY <2>7 DEF Other
    <3>2. PICK q \in Keys : OtherDoes(q)
      BY <2>7, OtherFacts
    <3>3. /\ Len(others) \in Nat /\ Len(others') = Len(others) + 1
          /\ \A j \in 1..Len(others) : others'[j] = others[j]
          /\ others'[Len(others')] = [key |-> q, adds |-> iface.peers[q] = NULL, pc |-> pc]
      BY <2>7, <3>2, OtherTouches
    <3>4. CASE i = Len(others')
      <4>1. iface.peers[q] = NULL /\ others'[i].key = q
        <5>1. others'[i].key = q /\ others'[i].adds = (iface.peers[q] = NULL)
          BY <3>3, <3>4
        <5> QED
          BY Zenon, <2>1, <5>1
      <4>2. NewPeer # NULL
        BY NoPeerAssumption DEF NewPeer, KernelPeer
      <4> QED
        BY <3>2, <4>1, <4>2 DEF OtherDoes
    <3>5. CASE i # Len(others')
      <4>1. i \in 1..Len(others) /\ others'[i] = others[i] /\ Len(others') \in i + 1 .. Len(others')
        BY <3>3, <3>5
      <4>2. others[i].key # q /\ others[i].key \in Keys
        <5>1. others'[Len(others')].key = q
          BY <3>3
        <5>2. others[i] \in OthersType
          BY <2>3, <4>1
        <5> QED
          BY <2>1, <4>1, <5>1, <5>2 DEF OthersType
      <4>3. \A j \in i + 1 .. Len(others) : others[j].key # others[i].key
        <5> SUFFICES ASSUME NEW j \in i + 1 .. Len(others) PROVE others[j].key # others[i].key
          OBVIOUS
        <5>1. j \in 1..Len(others) /\ j \in i + 1 .. Len(others')
          BY <3>3, <4>1
        <5> QED
          BY <2>1, <3>3, <4>1, <5>1
      <4>4. AddedLate(i)
        BY <2>1, <3>1, <4>1, <4>3 DEF AddedLate
      <4> QED
        BY <2>2, <3>2, <4>1, <4>2, <4>4 DEF OtherDoes
    <3> QED
      BY <3>4, <3>5
  <2>8. CASE UNCHANGED syncVars
    BY <2>1, <2>2, <2>8 DEF syncVars, AddedLate
  <2> QED
    BY <2>4, <2>5, <2>6, <2>7, <2>8 DEF SyncNext
<1> QED
  BY <1>1, <1>2, SyncInvariance, PTL DEF SyncSpec

(* A command that succeeds leaves all that nobody else has touched as setconf  *)
(* would have left it, whichever way syncconf has gone.                        *)
THEOREM SyncLike == SyncSpec => []SyncLikeSetconf
<1>1. SyncInv => SyncLikeSetconf
  <2> DEFINE want == ApplyDevice(before, file)
             w == Differed(before, device)
  <2> SUFFICES ASSUME SyncInv, ret = "ok", cmd = "syncconf" => Plain(file)
               PROVE  /\ \A k \in Keys \ Touched : Like(iface.peers[k], want.peers[k])
                      /\ \A i \in Ips : iface.owner[i] # want.owner[i] =>
                                          {iface.owner[i], want.owner[i]} \cap Touched # {}
                      /\ iface.priv = want.priv /\ iface.port = want.port
                      /\ iface.fwmark = want.fwmark
    BY Zenon DEF SyncLikeSetconf, Like
  <2>1. /\ before \in Iface /\ file \in WgDev /\ device \in WgDev /\ iface \in Iface
        /\ \A i \in 1..Len(file.peers) : ~file.peers[i].remove
        /\ \A i \in Ips : before.owner[i] # NULL => before.peers[before.owner[i]] # NULL
    BY Zenon, DeviceType, IfacesAssumption DEF SyncInv, ReadInv, NearInv
  <2>2. Len(device.peers) \in Nat /\ Len(file.peers) \in Nat
    BY <2>1 DEF WgDev
  <2>3. next # 0 /\ next - 1 = Len(device.peers)
    BY <2>2 DEF SyncInv, ControlInv
  <2>4. Near(Touched, {}, iface, w)
    BY <2>3 DEF SyncInv, NearInv, Written, Differed
  <2>5. want = Differed(before, file)
    BY <2>1, FirstPeersStep DEF Differed
  <2> HIDE DEF want, w
  <2>6. CASE device = file
    <3>1. want = w
      BY <2>5, <2>6 DEF w
    <3> QED
      BY <2>4, <3>1 DEF Near, Like
  <2>7. ASSUME NEW hit \in Sorted(runtime, file), Compared, device = Difference(runtime, file, hit)
        PROVE  /\ \A k \in Keys \ Touched : Like(w.peers[k], want.peers[k])
               /\ OwnersMatch(Touched, w, want)
               /\ w.priv = want.priv /\ w.port = want.port /\ w.fwmark = want.fwmark
    <3> DEFINE rs == Removals(runtime, file)
               s == Edited(runtime, file, hit)
    <3>1. DiffOf(runtime, file, hit, device, rs, s)
      BY <2>1, <2>7, DifferenceFacts
    <3>2. Plain(file) /\ file.replace /\ file.peers # <<>> /\ cmd = "syncconf"
      BY <2>7 DEF Compared, SyncInv, DeviceInv
    <3>3. \A k \in Keys \ Touched : runtime[k] = before.peers[k]
      BY Zenon, <2>3, <3>2 DEF SyncInv, ReadInv
    <3> HIDE DEF rs, s
    <3>4. ASSUME NEW k \in Keys \ Touched PROVE Like(w.peers[k], want.peers[k])
      BY Zenon, <2>1, <2>5, <2>7, <3>1, <3>2, <3>3, DifferencePeer DEF w
    <3>5. OwnersMatch(Leftover(before, runtime, file, Len(file.peers)), w, want)
      BY Zenon, <2>1, <2>5, <3>1, <3>2, DifferenceOwners DEF w
    <3>6. Leftover(before, runtime, file, Len(file.peers)) \subseteq Touched \cup {NULL}
      <4> SUFFICES ASSUME NEW x \in Keys, x # NULL, x \notin Touched, NEW i \in Ips, before.owner[i] = x,
                          x \notin Gone(runtime, file), \A j \in 1..Len(file.peers) : file.peers[j].key # x
                   PROVE  FALSE
        BY DEF Leftover
      <4>1. runtime[x] # NULL
        BY <2>1, <3>3
      <4> QED
        BY <4>1 DEF Gone, Existing, KeysOf
    <3>7. OwnersMatch(Touched, w, want)
      BY Zenon, <3>5, <3>6 DEF OwnersMatch
    <3>8. device.priv = file.priv /\ device.port = file.port /\ device.fwmark = file.fwmark
      BY <3>1 DEF DiffOf
    <3>9. w.priv = want.priv /\ w.port = want.port /\ w.fwmark = want.fwmark
      <4>1. /\ w.priv = Given(device.priv, before.priv) /\ w.port = Given(device.port, before.port)
            /\ w.fwmark = Given(device.fwmark, before.fwmark)
        <5>1. Len(device.peers) \in 0..Len(device.peers)
          BY <2>2
        <5> QED
          BY <2>1, <5>1, FirstPeersAttrs DEF w, Differed
      <4>2. /\ want.priv = Given(file.priv, before.priv) /\ want.port = Given(file.port, before.port)
            /\ want.fwmark = Given(file.fwmark, before.fwmark)
        <5>1. Len(file.peers) \in 0..Len(file.peers)
          BY <2>2
        <5> QED
          BY Zenon, <2>1, <2>5, <5>1, FirstPeersAttrs DEF Differed
      <4> QED
        BY <3>8, <4>1, <4>2
    <3> QED
      BY Zenon, <3>4, <3>7, <3>9
  <2>8. CASE \E hit \in Sorted(runtime, file) : Compared /\ device = Difference(runtime, file, hit)
    <3>1. /\ \A k \in Keys \ Touched : Like(w.peers[k], want.peers[k])
          /\ OwnersMatch(Touched, w, want)
          /\ w.priv = want.priv /\ w.port = want.port /\ w.fwmark = want.fwmark
      BY <2>7, <2>8
    <3>2. \A k \in Keys \ Touched : iface.peers[k] = w.peers[k]
      BY Zenon, <2>4 DEF Near
    <3>3. ASSUME NEW i \in Ips, iface.owner[i] # want.owner[i]
          PROVE  {iface.owner[i], want.owner[i]} \cap Touched # {}
      <4>1. iface.owner[i] = w.owner[i] \/ (iface.owner[i] = NULL /\ w.owner[i] \in Touched)
        BY <2>4 DEF Near
      <4>2. w.owner[i] = want.owner[i] \/ (want.owner[i] = NULL /\ w.owner[i] \in Touched)
        BY <3>1 DEF OwnersMatch
      <4> QED
        BY <3>3, <4>1, <4>2
    <3>4. iface.priv = w.priv /\ iface.port = w.port /\ iface.fwmark = w.fwmark
      BY <2>4 DEF Near
    <3> QED
      BY <3>1, <3>2, <3>3, <3>4
  <2> QED
    BY Zenon, <2>6, <2>8 DEF SyncInv, DeviceInv
<1> QED
  BY <1>1, SyncInvariance, PTL

=============================================================================
