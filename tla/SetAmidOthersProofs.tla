------------------------ MODULE SetAmidOthersProofs -------------------------
(***************************************************************************)
(* Proofs about kernel_set_device among others, for every configuration,   *)
(* every interface and every buffer size: whatever other processes and     *)
(* further runs do, a peer that was removed stays removed, and success     *)
(* means that what nobody else touched is as asked.                        *)
(***************************************************************************)
EXTENDS SetDeviceProofs

-----------------------------------------------------------------------------
(* Peers that are removed. *)

(* The peer of an entry is removed if the configuration says so, and no other *)
(* peer is added or removed.                                                  *)
LEMMA EntryOnPeers ==
    ASSUME NEW d \in Devices, NEW g \in Iface, NEW e \in EntriesOf(d), e.peer # 0,
           NEW k \in Keys
    PROVE  /\ d.peers[e.peer].key = k /\ d.peers[e.peer].remove
                => ApplyEntry(g, d, e).peers[k] = NULL
           /\ d.peers[e.peer].key # k => ApplyEntry(g, d, e).peers[k] = g.peers[k]
<1> DEFINE p == d.peers[e.peer]
           h == SetPeer(g, p, e.first, e.flags)
<1>1. /\ p \in WgPeer /\ NestRange(p, e.from, e.to) /\ e.first \in BOOLEAN
      /\ e.flags = PeerFlags(p, e.first)
  BY EntryFacts
<1>2. p.key \in Keys /\ p.remove \in BOOLEAN /\ g.peers \in [Keys -> {NULL} \cup KernelPeer]
  BY <1>1 DEF WgPeer, Iface
<1>3. ApplyEntry(g, d, e).peers = h.peers
  <2>1. SetNest(g, p, e.first, e.flags, e.from, e.to).peers = h.peers
    <3> HIDE DEF p
    <3> QED
      BY <1>1, SetNestFacts
  <2> QED
    BY Zenon, <2>1 DEF ApplyEntry
<1>4. p.remove => "REMOVE_ME" \in e.flags
  BY Zenon, <1>1 DEF PeerFlags
<1>5. p.key = k /\ p.remove => h.peers[k] = NULL
  BY <1>2, <1>4 DEF SetPeer, RemovePeer, Iface
<1>6. p.key # k => h.peers[k] = g.peers[k]
  BY Zenon, <1>2 DEF SetPeer, RemovePeer, Iface
<1> QED
  BY Zenon, <1>3, <1>5, <1>6

(* The keys that other processes touched. *)
LEMMA TouchedGrows ==
    ASSUME NEW x, others \in Seq(Seq(Keys \cup Ips)), x \in Seq(Keys \cup Ips),
           others' = Append(others, x)
    PROVE  TouchedKeys \subseteq TouchedKeys' /\ x[1] \in TouchedKeys'
<1>1. /\ Len(others) \in Nat /\ Len(others') = Len(others) + 1
      /\ \A i \in 1..Len(others) : others'[i] = others[i]
      /\ others'[Len(others) + 1] = x
  BY AppendFacts, EmptyFacts
<1>2. TouchedKeys' = {others'[i][1] : i \in 1..Len(others')}
  BY DEF TouchedKeys
<1>3. \A i \in 1..Len(others) : others[i][1] \in TouchedKeys'
  BY <1>1, <1>2
<1>4. x[1] \in TouchedKeys'
  <2>1. Len(others) + 1 \in 1..Len(others')
    BY <1>1
  <2> QED
    BY <1>1, <1>2, <2>1
<1> QED
  BY Zenon, <1>3, <1>4 DEF TouchedKeys

(* k is the key of the peer of entry e, which removes it; nothing after that *)
(* entry is about k.                                                         *)
Removes(d, e, k) ==
    /\ e.peer # 0 /\ d.peers[e.peer].key = k /\ d.peers[e.peer].remove
    /\ \A q \in e.peer + 1 .. Len(d.peers) : d.peers[q].key # k

(* Along the entries of the configuration in its order, a peer that is removed *)
(* is absent from there on.                                                    *)
LEMMA RemovedAlong ==
    ASSUME NEW d \in Devices, NEW s \in Seq(EntriesOf(d)), NEW t \in Seq(EntriesOf(d)),
           InOrder(d, s \o t), NEW f \in Iface, NEW n \in 1..Len(s \o t), NEW k \in Keys,
           Removes(d, (s \o t)[n], k), n <= Len(s) => f.peers[k] = NULL
    PROVE  ApplyEntries(f, d, t).peers[k] = NULL
<1> DEFINE u == s \o t
<1>1. /\ u \in Seq(EntriesOf(d)) /\ Len(u) = Len(s) + Len(t)
      /\ Len(s) \in Nat /\ Len(t) \in Nat
      /\ \A i \in 1..Len(t) : u[Len(s) + i] = t[i] /\ t[i] \in EntriesOf(d)
      /\ InOrder(d, u) /\ n \in 1..Len(u) /\ Removes(d, u[n], k)
  BY ConcatFacts, EmptyFacts
<1> HIDE DEF u
<1>2. PICK h : EntriesVia(f, d, t, h)
  BY EntriesClosed, EntriesHistory
<1> DEFINE S == {i \in 0..Len(t) : n <= Len(s) + i => h[i].peers[k] = NULL}
<1>3. 0 \in S
  BY <1>1, <1>2 DEF EntriesVia
<1>4. ASSUME NEW i \in 1..Len(t), i - 1 \in S PROVE i \in S
  <2> SUFFICES ASSUME n <= Len(s) + i PROVE h[i].peers[k] = NULL
    BY <1>1
  <2> DEFINE g == h[i - 1]
             e == t[i]
  <2>0. i - 1 \in 0..Len(t) /\ i \in Nat
    BY <1>1
  <2>1. g \in Iface /\ e \in EntriesOf(d) /\ h[i] = ApplyEntry(g, d, e) /\ u[Len(s) + i] = e
    <3>1. g \in Iface /\ h[i] = ApplyEntry(g, d, e)
      BY Zenon, <1>2, <2>0 DEF EntriesVia
    <3> QED
      BY <1>1, <3>1
  <2>2. u[n].peer <= e.peer /\ u[n].peer \in Nat /\ e.peer \in 0..Len(d.peers) /\ e.peer \in Nat
    <3>1. Len(s) + i \in n..Len(u) /\ u[n] \in EntriesOf(d)
      BY <1>1, EmptyFacts
    <3>2. Update!NotBefore(PointOf(u[Len(s) + i]), PointOf(u[n]))
      BY Zenon, <1>1, <3>1, PointsInOrder
    <3>3. u[n].peer \in Nat /\ e.peer \in Nat /\ e.peer \in 0..Len(d.peers)
      <4>1. u[n].peer \in 0..Len(d.peers) /\ e.peer \in 0..Len(d.peers) /\ Len(d.peers) \in Nat
        BY Zenon, <2>1, <3>1, EntryFacts
      <4>2. \A l \in Nat : \A m \in 0..l : m \in Nat
        OBVIOUS
      <4> QED
        BY Zenon, <4>1, <4>2
    <3> QED
      BY SMTT(60), <2>1, <3>2, <3>3 DEF Update!NotBefore, PointOf
  <2>3. u[n].peer # 0 /\ e.peer # 0 /\ Len(d.peers) \in Nat
    <3>1. u[n].peer # 0
      BY Zenon, <1>1 DEF Removes
    <3>2. Len(d.peers) \in Nat
      BY Zenon, NAipsFacts
    <3> QED
      BY SMTT(60), <2>2, <3>1, <3>2
  <2>4. CASE e.peer = u[n].peer
    <3>1. d.peers[e.peer].key = k /\ d.peers[e.peer].remove
      BY Zenon, <1>1, <2>4 DEF Removes
    <3>2. ApplyEntry(g, d, e).peers[k] = NULL
      BY ZenonT(60), <2>1, <2>3, <3>1, EntryOnPeers
    <3> QED
      BY Zenon, <2>1, <3>2
  <2>5. CASE e.peer # u[n].peer
    <3>1. e.peer \in u[n].peer + 1 .. Len(d.peers)
      BY SMTT(60), <2>2, <2>3, <2>5
    <3>2. d.peers[e.peer].key # k
      BY Zenon, <1>1, <3>1 DEF Removes
    <3>3. n # Len(s) + i
      BY <2>1, <2>5
    <3>4. g.peers[k] = NULL
      <4>1. n <= Len(s) + (i - 1)
        <5>1. n \in Int /\ Len(s) \in Int /\ i \in Int /\ n <= Len(s) + i
          BY <1>1, <2>0
        <5> QED
          BY <3>3, <5>1
      <4>2. n <= Len(s) + (i - 1) => h[i - 1].peers[k] = NULL
        BY <1>4
      <4> QED
        BY <4>1, <4>2
    <3> QED
      <4>1. ApplyEntry(g, d, e).peers[k] = g.peers[k]
        BY Zenon, <2>1, <2>3, <3>2, EntryOnPeers
      <4> QED
        BY Zenon, <2>1, <3>4, <4>1
  <2> QED
    BY <2>4, <2>5
<1>5. Len(t) \in S
  <2>1. Len(t) \in 0..Len(t)
    BY <1>1
  <2> HIDE DEF S
  <2>2. \A i \in 0..Len(t) : i \in S
    BY Zenon, <1>1, <1>3, <1>4, InductionUpTo
  <2> QED
    BY <2>1, <2>2
<1> QED
  BY <1>1, <1>2, <1>5 DEF EntriesVia

(* A peer that the configuration removes stays removed, whatever fragments and *)
(* messages follow, whatever other peers anybody else touches and however      *)
(* often the command is run.                                                   *)
THEOREM RemovedStays == SetSpec => []RemovedStaysRemoved
<1> DEFINE Inv == \A n \in 1..Len(log) : \A k \in Keys \ TouchedKeys :
                    Removes(dev, log[n], k) => iface.peers[k] = NULL
<1>1. SetInit => Inv
  BY DEF SetInit, Init
<1>2. SInv /\ SInv' /\ Inv /\ [SetNext]_setVars => Inv'
  <2> SUFFICES ASSUME SInv, SInv', Inv, [SetNext]_setVars,
                      NEW n \in 1..Len(log'), NEW k \in Keys \ TouchedKeys',
                      Removes(dev', log'[n], k)
               PROVE  iface'.peers[k] = NULL
    OBVIOUS
  <2>1. CASE Step
    <3>1. TouchedKeys' = TouchedKeys
      BY <2>1 DEF Step, TouchedKeys
    <3>2. /\ dev' = dev /\ dev \in Devices /\ log \in Seq(EntriesOf(dev))
          /\ Applied \in Seq(EntriesOf(dev)) /\ log' = log \o Applied
          /\ iface' = ApplyEntries(iface, dev, Applied) /\ iface \in Iface
      BY <2>1, StepApplies DEF SInv
    <3>3. InOrder(dev, log')
      BY <3>2 DEF SInv, IInv, AppliedInOrder
    <3>4. n <= Len(log) => iface.peers[k] = NULL
      <4>1. n <= Len(log) => n \in 1..Len(log) /\ log'[n] = log[n]
        BY <3>2, ConcatFacts, EmptyFacts
      <4> QED
        BY <3>1, <3>2, <4>1
    <3> HIDE DEF Inv
    <3> QED
      BY <3>2, <3>3, <3>4, RemovedAlong
  <2>2. CASE Other
    <3>1. dev' = dev /\ log' = log /\ iface \in Iface /\ others \in Seq(Seq(Keys \cup Ips))
      BY <2>2 DEF Other, vars, SInv
    <3>2. PICK q \in Keys :
             \/ OtherRemoves(q) /\ others' = Append(others, <<q>>)
             \/ \E j \in Ips : OtherAdds(q, j) /\ others' = Append(others, <<q, j>>)
      BY <2>2, OthersAssumption DEF Other
    <3>3. TouchedKeys \subseteq TouchedKeys' /\ q \in TouchedKeys'
      <4>1. CASE others' = Append(others, <<q>>)
        <5>1. <<q>> \in Seq(Keys \cup Ips) /\ <<q>>[1] = q
          OBVIOUS
        <5> QED
          BY Zenon, <3>1, <4>1, <5>1, TouchedGrows
      <4>2. CASE \E j \in Ips : others' = Append(others, <<q, j>>)
        <5>1. PICK j \in Ips : others' = Append(others, <<q, j>>)
          BY <4>2
        <5>2. <<q, j>> \in Seq(Keys \cup Ips) /\ <<q, j>>[1] = q
          OBVIOUS
        <5> QED
          BY Zenon, <3>1, <5>1, <5>2, TouchedGrows
      <4> QED
        BY <3>2, <4>1, <4>2
    <3>4. iface'.peers[k] = iface.peers[k]
      BY ZenonT(60), <3>1, <3>2, <3>3 DEF OtherRemoves, OtherAdds, RemovePeer, Iface
    <3> QED
      BY <3>1, <3>3, <3>4
  <2>3. CASE Rerun
    BY <2>3 DEF Rerun
  <2>4. CASE UNCHANGED setVars
    BY <2>4 DEF setVars, vars, TouchedKeys
  <2> QED
    BY <2>1, <2>2, <2>3, <2>4 DEF SetNext
<1>3. SInv /\ Inv => RemovedStaysRemoved
  <2> SUFFICES ASSUME SInv, Inv, NEW n \in 1..Len(log), log[n].peer # 0,
                      dev.peers[log[n].peer].remove,
                      \A q \in log[n].peer + 1 .. Len(dev.peers) :
                        dev.peers[q].key # dev.peers[log[n].peer].key,
                      dev.peers[log[n].peer].key \notin TouchedKeys
               PROVE  iface.peers[dev.peers[log[n].peer].key] = NULL
    BY Zenon DEF RemovedStaysRemoved
  <2>1. dev \in Devices /\ log[n] \in EntriesOf(dev)
    BY Zenon, EmptyFacts DEF SInv, IInv, TypeOK, EntriesInv
  <2>2. dev.peers[log[n].peer].key \in Keys
    BY Zenon, <2>1, EntryFacts DEF WgPeer
  <2>3. Removes(dev, log[n], dev.peers[log[n].peer].key)
    BY DEF Removes
  <2> QED
    BY Zenon, <2>2, <2>3
<1> HIDE DEF Inv
<1> QED
  BY <1>1, <1>2, <1>3, SetInvariance, PTL DEF SetSpec

-----------------------------------------------------------------------------
(* Success, whatever came before it. *)

(* The entries of a configuration are steady. *)
EntriesMap(d, s) == [f \in Iface |-> ApplyEntries(f, d, s)]
EntryMap(d, e) == [f \in Iface |-> ApplyEntry(f, d, e)]

(* Applying an entry of a message is steady. *)
LEMMA SteadyEntry ==
    ASSUME NEW d \in Devices, NEW e \in EntriesOf(d)
    PROVE  Steady(EntryMap(d, e))
<1>1. CASE e.peer = 0
  <2>1. EntryMap(d, e) = AttrsMap(d)
    BY <1>1 DEF EntryMap, AttrsMap, ApplyEntry
  <2> QED
    BY <2>1, EntryFacts, SteadyAttrs
<1>2. CASE e.peer # 0
  <2>1. EntryMap(d, e) = NestMap(d.peers[e.peer], e.first, e.flags, e.from, e.to)
    BY <1>2 DEF EntryMap, NestMap, ApplyEntry
  <2>2. /\ d.peers[e.peer] \in WgPeer /\ e.first \in BOOLEAN
        /\ NestRange(d.peers[e.peer], e.from, e.to)
    BY <1>2, EntryFacts
  <2> QED
    BY <2>1, <2>2, SteadyNest
<1> QED
  BY <1>1, <1>2

(* Applying a run of entries is steady. *)
LEMMA SteadyEntries ==
    ASSUME NEW d \in Devices, NEW s \in Seq(EntriesOf(d))
    PROVE  Steady(EntriesMap(d, s))
<1> DEFINE M(n) == EntriesMap(d, SubSeq(s, 1, n))
           S == {n \in 0..Len(s) : Steady(M(n))}
<1>1. Len(s) \in Nat /\ SubSeq(s, 1, 0) = <<>> /\ SubSeq(s, 1, Len(s)) = s
  OBVIOUS
<1>0. Closed(d, EntriesOf(d))
  BY EntriesClosed
<1>2. 0 \in S
  <2>1. \A f \in Iface : ApplyEntries(f, d, <<>>) = f
    BY <1>0, EntriesEmpty
  <2>2. EntriesMap(d, <<>>) = [f \in Iface |-> f]
    BY <2>1 DEF EntriesMap
  <2>3. Steady(M(0))
    BY Zenon, <1>1, <2>2, SteadyIdentity
  <2> HIDE DEF M
  <2> QED
    BY <1>1, <2>3
<1>3. ASSUME NEW n \in 1..Len(s), n - 1 \in S PROVE n \in S
  <2> DEFINE b == SubSeq(s, 1, n - 1)
             x == s[n]
             H == EntriesMap(d, b)
             G == EntryMap(d, x)
  <2>0. n - 1 \in Nat /\ 1 <= (n - 1) + 1 /\ (n - 1) + 1 <= Len(s) /\ (n - 1) + 1 = n
    BY <1>1
  <2>1. b \in Seq(EntriesOf(d)) /\ x \in EntriesOf(d) /\ SubSeq(s, 1, n) = Append(b, x)
    BY <2>0, SubSeqAppends
  <2>2. \A f \in Iface : ApplyEntries(f, d, b) \in Iface
    <3> TAKE f \in Iface
    <3>1. b \in Seq(EntriesOf(d))
      BY <2>1
    <3> HIDE DEF b
    <3>2. ApplyEntries(f, d, b) \in Iface /\ ApplyEntries(f, d, b \o b) = ApplyEntries(ApplyEntries(f, d, b), d, b)
      BY <1>0, <3>1, EntriesConcat
    <3> QED
      BY <3>2
  <2>3. \A f \in Iface : ApplyEntries(f, d, Append(b, x)) = ApplyEntry(ApplyEntries(f, d, b), d, x)
    <3> TAKE f \in Iface
    <3>1. b \in Seq(EntriesOf(d)) /\ x \in EntriesOf(d)
      BY <2>1
    <3> HIDE DEF b, x
    <3> QED
      BY <1>0, <3>1, EntriesAppend
  <2>4. EntriesMap(d, Append(b, x)) = Then(H, G)
    <3> HIDE DEF b, x
    <3> QED
      BY <2>2, <2>3 DEF EntriesMap, EntryMap, Then
  <2>5. Steady(G) /\ Steady(H)
    BY <1>3, <2>1, SteadyEntry
  <2>6. Steady(Then(H, G))
    BY <2>5, ThenSteady
  <2>7. Steady(M(n))
    BY Zenon, <2>1, <2>4, <2>6
  <2> HIDE DEF M
  <2> QED
    BY <1>1, <2>7
<1>4. Len(s) \in S
  <2>1. Len(s) \in 0..Len(s)
    BY <1>1
  <2> HIDE DEF S
  <2>2. \A n \in 0..Len(s) : n \in S
    BY Zenon, <1>1, <1>2, <1>3, InductionUpTo
  <2> QED
    BY <2>1, <2>2
<1>5. Steady(M(Len(s)))
  <2> HIDE DEF M
  <2> QED
    BY <1>4
<1> QED
  BY Zenon, <1>1, <1>5

(* The end of the last peer is the end of the configuration. *)
LEMMA WholeReached ==
    ASSUME NEW d \in Devices, NEW f \in Iface
    PROVE  Reached(f, d, Len(d.peers), NAips(d, Len(d.peers)) + 1) = ApplyDevice(f, d)
<1> DEFINE L == Len(d.peers)
<1>1. d \in WgDev /\ L \in Nat
  BY DevicesAssumption, NAipsFacts
<1>2. CASE L = 0
  BY <1>1, <1>2, FirstPeersStep DEF Reached
<1>3. CASE L # 0
  <2>1. L \in 1..L /\ NAips(d, L) = Len(d.peers[L].aips)
    BY <1>1, <1>3 DEF NAips
  <2>2. FirstPeers(f, d, L) = SetWhole(FirstPeers(f, d, L - 1), d.peers[L])
    BY <1>1, <2>1, FirstPeersStep
  <2>3. FirstPeers(f, d, L) = ApplyDevice(f, d)
    BY <1>1, FirstPeersStep
  <2> QED
    BY Zenon, <1>3, <2>1, <2>2, <2>3 DEF Reached, SetWhole, FirstNest
<1> QED
  BY <1>2, <1>3

(* An entry that lies within the allowed IPs of its peer. *)
LEMMA MakeEntry ==
    ASSUME NEW d \in Devices, NEW q \in 0..Len(d.peers), NEW first \in BOOLEAN, NEW flags,
           NEW from \in Nat, NEW to, 1 <= from, from <= to, to = NAips(d, q) + 1,
           flags \in SUBSET {"REMOVE_ME", "REPLACE_ALLOWEDIPS"},
           q # 0 => flags = PeerFlags(d.peers[q], first)
    PROVE  [peer |-> q, first |-> first, flags |-> flags, from |-> from, to |-> to] \in EntriesOf(d)
<1> DEFINE e == [peer |-> q, first |-> first, flags |-> flags, from |-> from, to |-> to]
<1>1. q \in Nat /\ q <= Len(d.peers) /\ to \in Nat
  BY NAipsFacts
<1>2. e \in Entry
  BY <1>1 DEF Entry
<1>3. e.peer = q /\ e.first = first /\ e.flags = flags /\ e.from = from /\ e.to = to
  OBVIOUS
<1> HIDE DEF e
<1>4. e.peer <= Len(d.peers) /\ 1 <= e.from /\ e.from <= e.to /\ e.to <= NAips(d, e.peer) + 1
  BY <1>1, <1>3
<1>5. e.peer # 0 => e.flags = PeerFlags(d.peers[e.peer], e.first)
  BY <1>3
<1>6. e \in EntriesOf(d)
  BY <1>2, <1>4, <1>5 DEF EntriesOf
<1> QED
  BY <1>6 DEF e

(* The peer n of configuration d in one nest. *)
WholeEntry(d, n) ==
    [peer |-> n, first |-> TRUE, flags |-> IF n = 0 THEN {} ELSE PeerFlags(d.peers[n], TRUE),
     from |-> 1, to |-> NAips(d, n) + 1]

(* The entry that carries a whole peer is a complete entry of the device. *)
LEMMA WholeEntryFacts ==
    ASSUME NEW d \in Devices, NEW n \in 0..Len(d.peers)
    PROVE  WholeEntry(d, n) \in EntriesOf(d) /\ Complete(d, WholeEntry(d, n))
<1>1. n \in Nat /\ NAips(d, n) \in Nat /\ n <= Len(d.peers)
  BY NAipsFacts
<1> DEFINE e == WholeEntry(d, n)
<1>2. /\ e.peer = n /\ e.first = TRUE /\ e.from = 1 /\ e.to = NAips(d, n) + 1
      /\ e.flags = IF n = 0 THEN {} ELSE PeerFlags(d.peers[n], TRUE)
  BY DEF WholeEntry
<1>3. e.flags \in SUBSET {"REMOVE_ME", "REPLACE_ALLOWEDIPS"}
  BY <1>2 DEF PeerFlags
<1>4. e \in EntriesOf(d)
  <2> DEFINE v == IF n = 0 THEN {} ELSE PeerFlags(d.peers[n], TRUE)
  <2>1. v \in SUBSET {"REMOVE_ME", "REPLACE_ALLOWEDIPS"} /\ (n # 0 => v = PeerFlags(d.peers[n], TRUE))
    BY Zenon, <1>2, <1>3
  <2>2. e = [peer |-> n, first |-> TRUE, flags |-> v, from |-> 1, to |-> NAips(d, n) + 1]
    BY DEF WholeEntry
  <2>3. PICK m : m = NAips(d, n) + 1 /\ 1 <= m
    BY <1>1
  <2> HIDE DEF v, e
  <2>4. \A b \in BOOLEAN : (n # 0 => v = PeerFlags(d.peers[n], b)) =>
           [peer |-> n, first |-> b, flags |-> v, from |-> 1, to |-> m] \in EntriesOf(d)
    <3> TAKE b \in BOOLEAN
    <3> HAVE n # 0 => v = PeerFlags(d.peers[n], b)
    <3>1. 1 \in Nat /\ 1 <= 1
      OBVIOUS
    <3> QED
      BY Zenon, <2>1, <2>3, <3>1, MakeEntry
  <2>5. [peer |-> n, first |-> TRUE, flags |-> v, from |-> 1, to |-> m] \in EntriesOf(d)
    BY <2>1, <2>4, Zenon
  <2> QED
    BY <2>2, <2>3, <2>5
<1> HIDE DEF e
<1>5. Complete(d, e)
  BY <1>2 DEF Complete
<1> QED
  BY <1>4, <1>5 DEF e

(* Once two interfaces have met on the way through a configuration, the rest of *)
(* it makes the same of them.                                                   *)
LEMMA RestFollows ==
    ASSUME NEW d \in Devices, NEW e \in EntriesOf(d), NEW f \in Iface, NEW g \in Iface,
           Reached(f, d, e.peer, e.to) = Reached(g, d, e.peer, e.to)
    PROVE  ApplyDevice(f, d) = ApplyDevice(g, d)
<1> DEFINE L == Len(d.peers)
           R(n) == Reached(f, d, n, NAips(d, n) + 1) = Reached(g, d, n, NAips(d, n) + 1)
           S == {n \in 0..L : n >= e.peer => R(n)}
<1>1. /\ L \in Nat /\ e.peer \in 0..L /\ e.peer \in Nat /\ e.to \in Nat
      /\ \A n \in 0..L : NAips(d, n) \in Nat
      /\ 1 <= e.to /\ e.to <= NAips(d, e.peer) + 1
  <2>1. L \in Nat /\ e.peer \in 0..L /\ e.to \in Nat
    BY Zenon, EntryFacts
  <2>2. \A n \in 0..L : NAips(d, n) \in Nat
    BY Zenon, NAipsFacts
  <2>3. 1 <= e.to /\ e.to <= NAips(d, e.peer) + 1
    <3>1. /\ e.from \in Nat /\ e.to \in Nat /\ 1 <= e.from /\ e.from <= e.to
          /\ e.to <= NAips(d, e.peer) + 1
      BY DEF EntriesOf, Entry
    <3> QED
      BY <3>1
  <2> QED
    BY <2>1, <2>2, <2>3
<1>2. R(e.peer)
  <2>1. CASE Complete(d, e)
    BY <2>1 DEF Complete
  <2>2. CASE ~Complete(d, e)
    <3> DEFINE x == [peer |-> e.peer, first |-> FALSE, flags |-> PeerFlags(d.peers[e.peer], FALSE),
                     from |-> e.to, to |-> NAips(d, e.peer) + 1]
    <3>1. /\ x.peer = e.peer /\ x.first = FALSE /\ x.from = e.to /\ x.to = NAips(d, e.peer) + 1
          /\ x.flags = PeerFlags(d.peers[e.peer], FALSE)
      BY Zenon
    <3>2. x.flags \in SUBSET {"REMOVE_ME", "REPLACE_ALLOWEDIPS"}
      BY Zenon, <3>1 DEF PeerFlags
    <3>4. x \in EntriesOf(d)
      BY Zenon, <1>1, <3>1, <3>2, MakeEntry
    <3> HIDE DEF x
    <3>5. Follows(d, e, x)
      BY Zenon, <2>2, <3>1 DEF Follows
    <3>6. Reached(f, d, x.peer, x.to) = Reached(g, d, x.peer, x.to)
      BY <3>4, <3>5, ReachedStep
    <3> QED
      BY <3>1, <3>6
  <2> QED
    BY <2>1, <2>2
<1>3. ASSUME NEW n \in 1..L, n > e.peer, R(n - 1) PROVE R(n)
  <2> DEFINE y == WholeEntry(d, n - 1)
             x == WholeEntry(d, n)
  <2>1. n - 1 \in 0..L /\ n \in 0..L /\ n = (n - 1) + 1
    BY <1>1
  <2>2. y \in EntriesOf(d) /\ Complete(d, y) /\ x \in EntriesOf(d)
    BY <2>1, WholeEntryFacts
  <2>3. /\ y.peer = n - 1 /\ y.to = NAips(d, n - 1) + 1
        /\ x.peer = n /\ x.to = NAips(d, n) + 1 /\ x.first /\ x.from = 1
    BY Zenon DEF WholeEntry
  <2> HIDE DEF x, y
  <2>4. Follows(d, y, x)
    BY <2>1, <2>2, <2>3 DEF Follows
  <2>5. Reached(f, d, y.peer, y.to) = Reached(g, d, y.peer, y.to)
    BY <1>3, <2>3
  <2>6. Reached(f, d, x.peer, x.to) = Reached(g, d, x.peer, x.to)
    BY <2>2, <2>4, <2>5, ReachedStep
  <2> QED
    BY <2>3, <2>6
<1>4. R(L)
  <2> HIDE DEF R
  <2>1. 0 \in S
    BY <1>1, <1>2
  <2>2. ASSUME NEW n \in 1..L, n - 1 \in S PROVE n \in S
    BY <1>1, <1>2, <1>3, <2>2
  <2>3. L \in S
    <3> HIDE DEF S
    <3>1. \A n \in 0..L : n \in S
      BY Zenon, <1>1, <2>1, <2>2, InductionUpTo
    <3> QED
      BY <1>1, <3>1
  <2> QED
    BY <1>1, <2>3
<1>5. ASSUME NEW h \in Iface PROVE Reached(h, d, L, NAips(d, L) + 1) = ApplyDevice(h, d)
  BY WholeReached
<1> QED
  BY <1>4, <1>5

(* A run that stopped anywhere does not change what the configuration makes of *)
(* the interface: applying all of it afterwards gives the same.                *)
LEMMA RunAgain ==
    ASSUME NEW d \in Devices, NEW f \in Iface, NEW s \in Seq(EntriesOf(d)), InOrder(d, s)
    PROVE  ApplyDevice(ApplyEntries(f, d, s), d) = ApplyDevice(f, d)
<1> DEFINE g == ApplyEntries(f, d, s)
           H == EntriesMap(d, s)
<1>1. Steady(H)
  BY SteadyEntries
<1>2. g = H[f] /\ g \in Iface /\ ApplyEntries(g, d, s) = H[g]
  BY <1>1 DEF EntriesMap, Steady
<1>3. ApplyEntries(g, d, s) = g
  BY <1>1, <1>2, SteadyIdempotent
<1>4. CASE s = <<>>
  <2>1. g = f
    BY <1>4, EntriesClosed, EntriesEmpty
  <2> QED
    BY <2>1
<1>5. CASE s # <<>>
  <2> DEFINE e == s[Len(s)]
  <2>1. e \in EntriesOf(d)
    BY <1>5
  <2> HIDE DEF g
  <2>2. ApplyEntries(g, d, s) = Reached(g, d, e.peer, e.to)
    BY <1>2, <1>5, ReachedByEntries
  <2>3. ApplyEntries(f, d, s) = Reached(f, d, e.peer, e.to)
    BY <1>5, ReachedByEntries
  <2>4. Reached(g, d, e.peer, e.to) = Reached(f, d, e.peer, e.to)
    BY Zenon, <1>3, <2>2, <2>3 DEF g
  <2> HIDE DEF e
  <2>5. ApplyDevice(g, d) = ApplyDevice(f, d)
    BY Zenon, <1>2, <2>1, <2>4, RestFollows
  <2> QED
    BY <2>5 DEF g
<1> QED
  BY <1>4, <1>5

(* Entries that reach the end of the configuration apply all of it. *)
LEMMA WholeApplied ==
    ASSUME NEW d \in Devices, NEW f \in Iface, NEW s \in Seq(EntriesOf(d)), InOrder(d, s), s # <<>>,
           s[Len(s)].peer = Len(d.peers), Complete(d, s[Len(s)])
    PROVE  ApplyEntries(f, d, s) = ApplyDevice(f, d)
<1>1. ApplyEntries(f, d, s) = Reached(f, d, s[Len(s)].peer, s[Len(s)].to)
  BY ReachedByEntries
<1> QED
  BY <1>1, WholeReached DEF Complete

(* The allowed IPs that other processes gave away. *)
LEMMA TouchedIpsGrow ==
    ASSUME NEW x, others \in Seq(Seq(Keys \cup Ips)), x \in Seq(Keys \cup Ips),
           others' = Append(others, x)
    PROVE  TouchedIps \subseteq TouchedIps' /\ (Len(x) = 2 => x[2] \in TouchedIps')
<1>1. /\ Len(others) \in Nat /\ Len(others') = Len(others) + 1
      /\ \A i \in 1..Len(others) : others'[i] = others[i]
      /\ others'[Len(others) + 1] = x
  BY AppendFacts, EmptyFacts
<1>2. TouchedIps' = {others'[i][2] : i \in {j \in 1..Len(others') : Len(others'[j]) = 2}}
  BY DEF TouchedIps
<1>3. \A i \in 1..Len(others) : Len(others[i]) = 2 => others[i][2] \in TouchedIps'
  BY <1>1, <1>2
<1>4. Len(x) = 2 => x[2] \in TouchedIps'
  <2>1. Len(others) + 1 \in 1..Len(others')
    BY <1>1
  <2> QED
    BY <1>1, <1>2, <2>1
<1> QED
  BY <1>3, <1>4 DEF TouchedIps

(* The interface is near to the one that this run of the command alone would   *)
(* have made of f by now, where the configuration makes of f what it makes of  *)
(* the interface before the first run.                                         *)
NearRun(f) ==
    /\ ApplyDevice(f, dev) = ApplyDevice(before, dev)
    /\ Near(TouchedKeys, TouchedIps, iface, ApplyEntries(f, dev, log))

(* What another process does keeps the interface near. *)
LEMMA OtherNear ==
    ASSUME SInv, Other, NEW g \in Iface, Near(TouchedKeys, TouchedIps, iface, g)
    PROVE  Near(TouchedKeys', TouchedIps', iface', g)
<1>1. iface \in Iface /\ others \in Seq(Seq(Keys \cup Ips))
  BY DEF SInv
<1>2. PICK q \in Keys :
         \/ OtherRemoves(q) /\ others' = Append(others, <<q>>)
         \/ \E j \in Ips : OtherAdds(q, j) /\ others' = Append(others, <<q, j>>)
  BY OthersAssumption DEF Other
<1>3. CASE OtherRemoves(q) /\ others' = Append(others, <<q>>)
  <2>1. <<q>> \in Seq(Keys \cup Ips) /\ <<q>>[1] = q
    OBVIOUS
  <2>2. TouchedKeys \subseteq TouchedKeys' /\ q \in TouchedKeys' /\ TouchedIps \subseteq TouchedIps'
    BY Zenon, <1>1, <1>3, <2>1, TouchedGrows, TouchedIpsGrow
  <2>3. /\ iface'.priv = iface.priv /\ iface'.port = iface.port /\ iface'.fwmark = iface.fwmark
        /\ \A k \in Keys : k # q => iface'.peers[k] = iface.peers[k]
        /\ \A i \in Ips : iface'.owner[i] = IF iface.owner[i] = q THEN NULL ELSE iface.owner[i]
    BY <1>1, <1>3 DEF OtherRemoves, RemovePeer, Disown, Iface
  <2> QED
    BY <2>2, <2>3 DEF Near
<1>4. ASSUME NEW j \in Ips, OtherAdds(q, j), others' = Append(others, <<q, j>>)
      PROVE  Near(TouchedKeys', TouchedIps', iface', g)
  <2>1. <<q, j>> \in Seq(Keys \cup Ips) /\ <<q, j>>[1] = q /\ <<q, j>>[2] = j /\ Len(<<q, j>>) = 2
    OBVIOUS
  <2>2. /\ TouchedKeys \subseteq TouchedKeys' /\ q \in TouchedKeys'
        /\ TouchedIps \subseteq TouchedIps' /\ j \in TouchedIps'
    BY Zenon, <1>1, <1>4, <2>1, TouchedGrows, TouchedIpsGrow
  <2>3. /\ iface'.priv = iface.priv /\ iface'.port = iface.port /\ iface'.fwmark = iface.fwmark
        /\ \A k \in Keys : k # q => iface'.peers[k] = iface.peers[k]
        /\ \A i \in Ips : i # j => iface'.owner[i] = iface.owner[i]
    BY <1>1, <1>4 DEF OtherAdds, Iface
  <2> QED
    BY ZenonT(60), <2>2, <2>3 DEF Near
<1> QED
  BY <1>2, <1>3, <1>4

(* If the command succeeds, after any number of runs that failed anywhere and   *)
(* whatever other processes did between its messages, every peer and allowed IP *)
(* that nobody else touched is as the configuration asks.                       *)
THEOREM SuccessApplies == SetSpec => []SuccessAppliesConfig
<1> DEFINE Inv == \E f \in Iface : NearRun(f)
<1>1. SetInit => Inv
  <2> SUFFICES ASSUME SetInit PROVE NearRun(before) /\ before \in Iface
    OBVIOUS
  <2>1. iface \in Iface /\ before = iface /\ log = <<>> /\ dev \in Devices
    BY IfacesAssumption DEF SetInit, Init
  <2>2. ApplyEntries(before, dev, log) = iface
    BY <2>1, EntriesClosed, EntriesEmpty
  <2> QED
    BY <2>1, <2>2 DEF NearRun, Near
<1>2. SInv /\ SInv' /\ Inv /\ [SetNext]_setVars => Inv'
  <2> SUFFICES ASSUME SInv, SInv', NEW f \in Iface, NearRun(f), [SetNext]_setVars
               PROVE  \E g \in Iface : NearRun(g)'
    OBVIOUS
  <2> DEFINE g == ApplyEntries(f, dev, log)
  <2>0. dev \in Devices /\ log \in Seq(EntriesOf(dev)) /\ iface \in Iface /\ InOrder(dev, log)
    BY DEF SInv, IInv, TypeOK, EntriesInv, AppliedInOrder
  <2>1. g \in Iface /\ Near(TouchedKeys, TouchedIps, iface, g)
        /\ ApplyDevice(f, dev) = ApplyDevice(before, dev)
    BY Zenon, <2>0, SteadyEntries DEF NearRun, Steady, EntriesMap
  <2>2. CASE Step
    <3> DEFINE H == EntriesMap(dev, Applied)
    <3>1. /\ dev' = dev /\ Applied \in Seq(EntriesOf(dev)) /\ log' = log \o Applied
          /\ iface' = ApplyEntries(iface, dev, Applied)
      BY <2>2, StepApplies
    <3>2. TouchedKeys' = TouchedKeys /\ TouchedIps' = TouchedIps /\ before' = before
      BY <2>2 DEF Step, TouchedKeys, TouchedIps
    <3>3. Steady(H)
      BY <2>0, <3>1, SteadyEntries
    <3> HIDE DEF g
    <3>4. Near(TouchedKeys, TouchedIps, H[iface], H[g])
      BY Zenon, <2>0, <2>1, <3>3, SteadyNear
    <3>5. H[iface] = iface' /\ H[g] = ApplyEntries(g, dev, Applied)
      BY <2>0, <2>1, <3>1 DEF EntriesMap
    <3>6. ApplyEntries(f, dev, log \o Applied) = ApplyEntries(g, dev, Applied)
      BY <2>0, <3>1, EntriesClosed, EntriesConcat DEF g
    <3>7. NearRun(f)'
      BY Zenon, <2>1, <3>1, <3>2, <3>4, <3>5, <3>6 DEF NearRun
    <3> QED
      BY <3>7
  <2>3. CASE Other
    <3>1. dev' = dev /\ log' = log /\ before' = before
      BY <2>3 DEF Other, vars
    <3> HIDE DEF g
    <3>2. Near(TouchedKeys', TouchedIps', iface', g)
      BY <2>1, <2>3, OtherNear
    <3>3. NearRun(f)'
      BY <2>1, <3>1, <3>2 DEF NearRun, g
    <3> QED
      BY <3>3
  <2>4. CASE Rerun
    <3>1. dev' = dev /\ log' = <<>> /\ before' = before /\ iface' = iface /\ others' = others
      BY <2>4 DEF Rerun
    <3>2. ApplyDevice(g, dev) = ApplyDevice(f, dev)
      BY <2>0, RunAgain
    <3>3. TouchedKeys' = TouchedKeys /\ TouchedIps' = TouchedIps
      BY <3>1 DEF TouchedKeys, TouchedIps
    <3> HIDE DEF g
    <3>4. ApplyEntries(g, dev, <<>>) = g
      BY <2>0, <2>1, EntriesClosed, EntriesEmpty
    <3>5. PICK c \in Iface : c = g
      BY <2>1
    <3>6. NearRun(c)'
      BY <2>1, <3>1, <3>2, <3>3, <3>4, <3>5 DEF NearRun
    <3> QED
      BY <3>6
  <2>5. CASE UNCHANGED setVars
    <3>1. UNCHANGED <<dev, log, before, iface, others>>
      BY <2>5 DEF setVars, vars
    <3>2. TouchedKeys' = TouchedKeys /\ TouchedIps' = TouchedIps
      BY Zenon, <3>1 DEF TouchedKeys, TouchedIps
    <3>3. NearRun(f)'
      BY <3>1, <3>2 DEF NearRun
    <3> QED
      BY <3>3
  <2> QED
    BY <2>2, <2>3, <2>4, <2>5 DEF SetNext
<1>3. SInv /\ Inv => SuccessAppliesConfig
  <2> SUFFICES ASSUME SInv, NEW f \in Iface, NearRun(f), ret = "ok"
               PROVE  Near(TouchedKeys, TouchedIps, iface, ApplyDevice(before, dev))
    BY DEF SuccessAppliesConfig, Near
  <2>0. dev \in Devices /\ log \in Seq(EntriesOf(dev)) /\ InOrder(dev, log)
    BY DEF SInv, IInv, TypeOK, EntriesInv, AppliedInOrder
  <2>1. log # <<>> /\ log[Len(log)].peer = Len(dev.peers) /\ Complete(dev, log[Len(log)])
    BY DEF SInv, IInv, SuccessMeansApplied, Peers
  <2>2. ApplyEntries(f, dev, log) = ApplyDevice(f, dev)
    BY <2>0, <2>1, WholeApplied
  <2> QED
    BY <2>2 DEF NearRun
<1> HIDE DEF Inv
<1> QED
  BY <1>1, <1>2, <1>3, SetInvariance, PTL DEF SetSpec

=============================================================================
