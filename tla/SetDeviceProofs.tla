-------------------------- MODULE SetDeviceProofs ---------------------------
(***************************************************************************)
(* Proofs about kernel_set_device at work on an interface, for every       *)
(* configuration, every interface and every buffer size: the inductive     *)
(* invariant, and that alone on the interface it implements an ordered     *)
(* update (OrderedUpdate).                                                 *)
(***************************************************************************)
EXTENDS SetDevice, NetlinkSetProofs, KernelConfigProofs

(* The entries that kernel_set_device puts for configuration d. *)
EntriesOf(d) ==
    {e \in Entry : /\ e.peer <= Len(d.peers)
                   /\ 1 <= e.from /\ e.from <= e.to /\ e.to <= NAips(d, e.peer) + 1
                   /\ e.peer # 0 => e.flags = PeerFlags(d.peers[e.peer], e.first)}

EntriesInv ==
    /\ msg \in Seq(EntriesOf(dev))
    /\ sent \in Seq(EntriesOf(dev))
    /\ log \in Seq(EntriesOf(dev))

Alone == others = <<>> /\ runs = 1

(* The inductive invariant: that of NetlinkSet, and as long as nobody else  *)
(* writes the interface is what the log makes of the first one.             *)
SInv ==
    /\ IInv
    /\ EntriesInv
    /\ iface \in Iface /\ before \in Ifaces
    /\ others \in Seq(Seq(Keys \cup Ips)) /\ runs \in Nat /\ 1 <= runs
    /\ Alone => iface = ApplyEntries(before, dev, log)

-----------------------------------------------------------------------------
(* Entries. *)

(* The flags of the first fragment are those of the peer. *)
LEMMA FlagFacts ==
    ASSUME NEW p \in WgPeer
    PROVE  /\ PeerFlags(p, TRUE) = UserFlags(p)
           /\ LaterFlags(p, PeerFlags(p, FALSE))
<1>1. p.remove \in BOOLEAN /\ p.replace \in BOOLEAN
  BY DEF WgPeer
<1> QED
  BY <1>1 DEF PeerFlags, UserFlags, LaterFlags

(* The peer of an entry, and its part of the allowed IPs. *)
LEMMA EntryFacts ==
    ASSUME NEW d \in Devices, NEW e \in EntriesOf(d)
    PROVE  /\ d \in WgDev /\ Len(d.peers) \in Nat
           /\ e.peer \in 0..Len(d.peers) /\ e.first \in BOOLEAN /\ e.from \in Nat /\ e.to \in Nat
           /\ e.peer = 0 => e.from = 1 /\ e.to = 1
           /\ e.peer # 0 => /\ e.peer \in 1..Len(d.peers)
                            /\ d.peers[e.peer] \in WgPeer
                            /\ NestRange(d.peers[e.peer], e.from, e.to)
                            /\ e.flags = PeerFlags(d.peers[e.peer], e.first)
<1>1. /\ e.peer \in Nat /\ e.first \in BOOLEAN /\ e.from \in Nat /\ e.to \in Nat
      /\ e.peer <= Len(d.peers) /\ 1 <= e.from /\ e.from <= e.to /\ e.to <= NAips(d, e.peer) + 1
      /\ e.peer # 0 => e.flags = PeerFlags(d.peers[e.peer], e.first)
  BY DEF EntriesOf, Entry
<1>2. d \in WgDev /\ Len(d.peers) \in Nat /\ \A p \in 1..Len(d.peers) : d.peers[p] \in WgPeer
  BY DevicesAssumption, NAipsFacts
<1>3. e.peer \in 0..Len(d.peers) /\ (e.peer # 0 => e.peer \in 1..Len(d.peers))
  BY <1>1, <1>2
<1>4. e.peer = 0 => e.from = 1 /\ e.to = 1
  BY <1>1 DEF NAips
<1>5. e.peer # 0 => NestRange(d.peers[e.peer], e.from, e.to)
  BY <1>1 DEF NAips, NestRange
<1> QED
  BY <1>1, <1>2, <1>3, <1>4, <1>5

(* Applying an entry to an interface gives an interface. *)
LEMMA EntriesClosed ==
    ASSUME NEW d \in Devices
    PROVE  Closed(d, EntriesOf(d))
<1> SUFFICES ASSUME NEW g \in Iface, NEW e \in EntriesOf(d)
             PROVE  ApplyEntry(g, d, e) \in Iface
  BY DEF Closed
<1>1. CASE e.peer = 0
  <2>1. SetDeviceAttrs(g, d) \in Iface
    BY EntryFacts, SetDeviceAttrsType
  <2> QED
    BY <1>1, <2>1 DEF ApplyEntry
<1>2. CASE e.peer # 0
  <2>1. d.peers[e.peer] \in WgPeer /\ e.first \in BOOLEAN
        /\ NestRange(d.peers[e.peer], e.from, e.to)
    BY <1>2, EntryFacts
  <2>2. SetNest(g, d.peers[e.peer], e.first, e.flags, e.from, e.to) \in Iface
    BY <2>1, SetNestFacts
  <2> QED
    BY <1>2, <2>2 DEF ApplyEntry
<1> QED
  BY <1>1, <1>2

-----------------------------------------------------------------------------
(* Where a series of entries leads. *)

(* The interface f after configuration d up to the allowed IP before i of its *)
(* peer q, or up to the device itself.                                        *)
Reached(f, d, q, i) ==
    IF q = 0 THEN SetDeviceAttrs(f, d)
    ELSE FirstNest(FirstPeers(f, d, q - 1), d.peers[q], i)

(* One more entry, in order, leads on to where that entry ends. *)
LEMMA ReachedStep ==
    ASSUME NEW d \in Devices, NEW f \in Iface, NEW e \in EntriesOf(d), NEW x \in EntriesOf(d),
           Follows(d, e, x)
    PROVE  ApplyEntry(Reached(f, d, e.peer, e.to), d, x) = Reached(f, d, x.peer, x.to)
<1> DEFINE q == e.peer
<1>1. /\ d \in WgDev /\ Len(d.peers) \in Nat /\ q \in 0..Len(d.peers)
      /\ x.peer \in 0..Len(d.peers)
  BY EntryFacts
<1>2. /\ FirstPeers(f, d, 0) = SetDeviceAttrs(f, d)
      /\ \A j \in 0..Len(d.peers) : FirstPeers(f, d, j) \in Iface
      /\ \A j \in 1..Len(d.peers) :
           FirstPeers(f, d, j) = SetWhole(FirstPeers(f, d, j - 1), d.peers[j])
  BY <1>1, FirstPeersStep
<1>3. CASE x.peer = q /\ ~x.first /\ x.from = e.to /\ ~Complete(d, e)
  <2>1. q # 0
    BY <1>3, EntryFacts DEF Complete, NAips
  <2> DEFINE p == d.peers[q]
             g == FirstPeers(f, d, q - 1)
  <2>2. /\ p \in WgPeer /\ NestRange(p, x.from, x.to) /\ x.flags = PeerFlags(p, x.first)
        /\ x.first = FALSE
    BY <2>1, <1>3, EntryFacts
  <2>3. q - 1 \in 0..Len(d.peers) /\ g \in Iface
    BY <1>1, <1>2, <2>1
  <2>4. LaterFlags(p, x.flags)
    BY Zenon, <2>2, FlagFacts
  <2>5. Reached(f, d, q, e.to) = FirstNest(g, p, x.from)
    BY <1>3, <2>1 DEF Reached
  <2>6. Reached(f, d, x.peer, x.to) = FirstNest(g, p, x.to)
    BY <1>3, <2>1 DEF Reached
  <2>7. ApplyEntry(Reached(f, d, q, e.to), d, x)
          = LaterNest(Reached(f, d, q, e.to), p, x.flags, x.from, x.to)
    BY Zenon, <1>3, <2>1, <2>2 DEF ApplyEntry, LaterNest
  <2> HIDE DEF p, g
  <2>8. LaterNest(FirstNest(g, p, x.from), p, x.flags, x.from, x.to) = FirstNest(g, p, x.to)
    BY <2>2, <2>3, <2>4, NestResumes
  <2> QED
    BY <2>5, <2>6, <2>7, <2>8
<1>4. CASE x.peer = q + 1 /\ x.first /\ x.from = 1 /\ Complete(d, e)
  <2> DEFINE p == d.peers[x.peer]
  <2>1. Reached(f, d, q, e.to) = FirstPeers(f, d, q)
    <3>1. CASE q = 0
      BY <3>1, <1>2 DEF Reached
    <3>2. CASE q # 0
      <4>1. q \in 1..Len(d.peers) /\ e.to = Len(d.peers[q].aips) + 1
        BY <3>2, <1>1, <1>4 DEF Complete, NAips
      <4> QED
        BY Zenon, <3>2, <4>1, <1>2 DEF Reached, SetWhole, FirstNest
    <3> QED
      BY <3>1, <3>2
  <2>2. x.peer # 0 /\ x.peer - 1 = q
    BY <1>1, <1>4
  <2>3. p \in WgPeer /\ x.first = TRUE /\ x.flags = PeerFlags(p, x.first)
    BY Zenon, <2>2, <1>4, EntryFacts
  <2>4. x.flags = UserFlags(p)
    BY Zenon, <2>3, FlagFacts
  <2>5. ApplyEntry(FirstPeers(f, d, q), d, x)
          = FirstNest(FirstPeers(f, d, q), p, x.to)
    BY Zenon, <1>4, <2>2, <2>3, <2>4 DEF ApplyEntry, FirstNest
  <2>6. Reached(f, d, x.peer, x.to)
          = FirstNest(FirstPeers(f, d, q), p, x.to)
    BY <2>2 DEF Reached
  <2> QED
    BY <2>1, <2>5, <2>6
<1> QED
  BY <1>3, <1>4 DEF Follows

(* A series of entries in order leads to where its last entry ends. *)
LEMMA ReachedByEntries ==
    ASSUME NEW d \in Devices, NEW f \in Iface, NEW s \in Seq(EntriesOf(d)),
           InOrder(d, s), s # <<>>
    PROVE  ApplyEntries(f, d, s) = Reached(f, d, s[Len(s)].peer, s[Len(s)].to)
<1>1. PICK h : EntriesVia(f, d, s, h)
  BY EntriesClosed, EntriesHistory
<1>2. Len(s) \in Nat /\ Len(s) # 0 /\ \A i \in 1..Len(s) : s[i] \in EntriesOf(d)
  BY EmptyFacts
<1> DEFINE S == {i \in 0..Len(s) : i # 0 => h[i] = Reached(f, d, s[i].peer, s[i].to)}
<1>3. 0 \in S
  BY <1>2
<1>4. ASSUME NEW i \in 1..Len(s), i - 1 \in S PROVE i \in S
  <2>1. h[i] = ApplyEntry(h[i - 1], d, s[i])
    BY <1>1 DEF EntriesVia
  <2>2. CASE i = 1
    <3>1. h[0] = f /\ s[1].peer = 0
      BY <1>1 DEF EntriesVia, InOrder
    <3>2. h[i] = ApplyEntry(f, d, s[i]) /\ s[i].peer = 0
      BY <2>1, <2>2, <3>1
    <3>3. h[i] = Reached(f, d, s[i].peer, s[i].to)
      BY <3>2 DEF ApplyEntry, Reached
    <3> QED
      BY <1>2, <3>3
  <2>3. CASE i # 1
    <3>1. i - 1 \in 1..Len(s) /\ i - 1 \in 1 .. Len(s) - 1 /\ (i - 1) + 1 = i
      BY <1>2, <2>3
    <3>2. h[i - 1] = Reached(f, d, s[i - 1].peer, s[i - 1].to)
      BY <1>4, <3>1
    <3>3. Follows(d, s[i - 1], s[i])
      BY <3>1 DEF InOrder
    <3>4. s[i - 1] \in EntriesOf(d) /\ s[i] \in EntriesOf(d)
      BY <1>2, <3>1
    <3>5. h[i] = Reached(f, d, s[i].peer, s[i].to)
      BY <2>1, <3>2, <3>3, <3>4, ReachedStep
    <3> QED
      BY <1>2, <3>5
  <2> QED
    BY <2>2, <2>3
<1> HIDE DEF S
<1>5. \A i \in 0..Len(s) : i \in S
  BY Zenon, <1>2, <1>3, <1>4, InductionUpTo
<1>6. h[Len(s)] = Reached(f, d, s[Len(s)].peer, s[Len(s)].to)
  BY <1>2, <1>5 DEF S
<1> QED
  BY <1>1, <1>6 DEF EntriesVia

-----------------------------------------------------------------------------
(* The steps of kernel_set_device. *)

(* A record of an entry of the message, cut or extended. *)
LEMMA CutIsEntry ==
    ASSUME NEW d \in Devices, NEW x \in EntriesOf(d), NEW to \in Nat,
           x.from <= to, to <= NAips(d, x.peer) + 1
    PROVE  [x EXCEPT !.to = to] \in EntriesOf(d)
<1> DEFINE e == [x EXCEPT !.to = to]
<1>1. x \in Entry /\ x.peer <= Len(d.peers) /\ 1 <= x.from
      /\ (x.peer # 0 => x.flags = PeerFlags(d.peers[x.peer], x.first))
  BY DEF EntriesOf
<1>2. /\ e \in Entry /\ e.to = to /\ e.peer = x.peer /\ e.first = x.first /\ e.from = x.from
      /\ e.flags = x.flags
  BY <1>1 DEF Entry
<1> HIDE DEF e
<1>3. e \in EntriesOf(d)
  BY <1>1, <1>2 DEF EntriesOf
<1> QED
  BY <1>3 DEF e

(* What a step adds to the log are entries of the configuration. *)
LEMMA LogGrows ==
    ASSUME IInv, EntriesInv, Next
    PROVE  /\ dev' = dev
           /\ \E t \in Seq(EntriesOf(dev)) : log' = log \o t
           /\ ret # "none" => UNCHANGED <<log, ret>>
           /\ log' # log => ret = "none" /\ ret' = "none"
<1> DEFINE E == EntriesOf(dev)
<1>1. /\ dev \in Devices /\ log \in Seq(E) /\ msg \in Seq(E)
      /\ pc # "done" => ret = "none"
  BY DEF IInv, EntriesInv, TypeOK, LogInv
<1>2. log \o <<>> = log /\ <<>> \in Seq(E)
  BY <1>1
<1>3. CASE Open \/ Prepare \/ PutPeer \/ StartAllowedIps \/ PutAllowedIp \/ Recv
  <2>1. dev' = dev /\ log' = log /\ ret = "none"
    BY <1>1, <1>3 DEF Open, Prepare, PutPeer, StartAllowedIps, PutAllowedIp, Recv
  <2> QED
    BY Zenon, <1>2, <2>1
<1>4. CASE Send
  <2>1. dev' = dev /\ ret = "none"
    BY <1>1, <1>4 DEF Send
  <2>2. CASE log' = log
    BY Zenon, <1>2, <2>1, <2>2
  <2>3. CASE pc' = "recv" /\ UNCHANGED ret /\ log' = log \o msg
    BY SMTT(60), <1>1, <2>1, <2>3
  <2>4. ASSUME UNCHANGED ret, NEW k \in 1..Len(msg), NEW to \in msg[k].from .. msg[k].to,
               log' = log \o Append(SubSeq(msg, 1, k - 1), [msg[k] EXCEPT !.to = to])
        PROVE  /\ ret' = "none"
               /\ \E t \in Seq(E) : log' = log \o t
    <3>1. msg[k] \in E /\ SubSeq(msg, 1, k - 1) \in Seq(E)
      BY <1>1
    <3>2. /\ to \in Nat /\ msg[k].from <= to /\ to <= NAips(dev, msg[k].peer) + 1
      <4>1. /\ msg[k].from \in Nat /\ msg[k].to \in Nat /\ msg[k].peer \in 0..Len(dev.peers)
            /\ msg[k].to <= NAips(dev, msg[k].peer) + 1
        BY <3>1, <1>1, EntryFacts DEF EntriesOf
      <4>2. NAips(dev, msg[k].peer) \in Nat
        BY <4>1, <1>1, NAipsFacts
      <4> HIDE DEF E
      <4> QED
        BY <4>1, <4>2
    <3>3. [msg[k] EXCEPT !.to = to] \in E
      BY <3>1, <3>2, <1>1, CutIsEntry
    <3>4. Append(SubSeq(msg, 1, k - 1), [msg[k] EXCEPT !.to = to]) \in Seq(E)
      <4> HIDE DEF E
      <4> QED
        BY <3>1, <3>3
    <3> QED
      BY Zenon, <2>1, <2>4, <3>4
  <2> QED
    BY Zenon, <1>4, <2>1, <2>2, <2>3, <2>4 DEF Send, ApplyAll, ApplySome
<1> QED
  BY <1>3, <1>4 DEF Next

(* The entries are those of the configuration: every step puts one. *)
LEMMA EntriesPreserved ==
    ASSUME IInv, EntriesInv, Next
    PROVE  EntriesInv'
<1> DEFINE E == EntriesOf(dev)
<1>1. /\ dev \in Devices /\ log \in Seq(E) /\ msg \in Seq(E) /\ sent \in Seq(E)
      /\ Len(Peers) \in Nat /\ peer \in 0..Len(Peers)
      /\ NAips(dev, peer) \in Nat /\ allowedip \in 0..NAips(dev, peer)
  BY NAipsFacts DEF IInv, EntriesInv, TypeOK, Peers
<1>2. dev' = dev
  BY LogGrows
<1>3. log' \in Seq(E)
  <2>1. PICK t \in Seq(E) : log' = log \o t
    BY LogGrows
  <2> HIDE DEF E
  <2> QED
    BY <1>1, <2>1
<1>4. CASE Open \/ StartAllowedIps \/ Recv
  BY <1>1, <1>2, <1>3, <1>4 DEF Open, StartAllowedIps, Recv, EntriesInv
<1>5. CASE Prepare
  <2>1. DeviceAttrsEntry \in E
    BY <1>1, NAipsFacts DEF DeviceAttrsEntry, EntriesOf, Entry, Peers
  <2>2. msg' \in Seq(E) /\ sent' = sent
    <3> HIDE DEF E
    <3> QED
      BY <1>5, <2>1 DEF Prepare
  <2> QED
    BY <1>1, <1>2, <1>3, <2>2 DEF EntriesInv
<1>6. CASE PutPeer
  <2> DEFINE p == Peers[peer]
             first == IsFirstFragment
             from == IF allowedip = 0 THEN 1 ELSE allowedip
             e == [peer |-> peer, first |-> first, flags |-> PeerFlags(p, first),
                   from |-> from, to |-> from]
  <2>1. sent' = sent /\ (msg' = msg \/ msg' = Append(msg, e))
    BY <1>6 DEF PutPeer
  <2>2. e \in E
    <3>1. from \in Nat /\ 1 <= from /\ from <= NAips(dev, peer) + 1
      BY <1>1
    <3>2. first \in BOOLEAN
      BY DEF IsFirstFragment
    <3>3. PeerFlags(p, first) \in SUBSET {"REMOVE_ME", "REPLACE_ALLOWEDIPS"}
      BY DEF PeerFlags
    <3> HIDE DEF from, first
    <3> QED
      BY <1>1, <3>1, <3>2, <3>3 DEF EntriesOf, Entry, Peers
  <2>3. msg' \in Seq(E)
    <3> HIDE DEF E, e
    <3>1. Append(msg, e) \in Seq(E)
      BY <1>1, <2>2, AppendFacts
    <3> QED
      BY Zenon, <1>1, <2>1, <3>1
  <2> QED
    BY <1>1, <1>2, <1>3, <2>1, <2>3 DEF EntriesInv
<1>7. CASE PutAllowedIp
  <2> DEFINE x == msg[Len(msg)]
             e == [x EXCEPT !.to = allowedip + 1]
  <2>1. sent' = sent /\ (msg' = msg \/ msg' = [msg EXCEPT ![Len(msg)] = e])
    BY <1>7 DEF PutAllowedIp
  <2>2. /\ msg # <<>> /\ allowedip # 0 /\ x.peer = peer /\ x.to = allowedip
    BY <1>7 DEF PutAllowedIp, IInv, CursorInv, EndsAt, LastEntry
  <2>3. Len(msg) \in Nat /\ Len(msg) \in 1..Len(msg) /\ x \in E
    <3> HIDE DEF E
    <3> QED
      BY <1>1, <2>2, EmptyFacts
  <2>4. x.from \in Nat /\ x.from <= x.to
    BY <2>3, <1>1, EntryFacts DEF EntriesOf
  <2>5. allowedip + 1 \in Nat /\ x.from <= allowedip + 1
        /\ allowedip + 1 <= NAips(dev, x.peer) + 1
    <3> HIDE DEF x, E
    <3> QED
      BY SMTT(60), <2>2, <2>4, <1>1
  <2>6. e \in E
    <3> HIDE DEF x
    <3> QED
      BY SMTT(60), <1>1, <2>3, <2>5, CutIsEntry
  <2>7. msg' \in Seq(E)
    <3> HIDE DEF E, e
    <3> QED
      BY SMTT(60), <1>1, <2>1, <2>3, <2>6, UpdateFacts
  <2> QED
    BY <1>1, <1>2, <1>3, <2>1, <2>7 DEF EntriesInv
<1>8. CASE Send
  <2>1. (sent' = sent /\ msg' = msg) \/ (sent' = sent \o msg /\ msg' = <<>>)
    BY <1>8 DEF Send
  <2>2. sent' \in Seq(E) /\ msg' \in Seq(E)
    <3> HIDE DEF E
    <3>1. sent \o msg \in Seq(E) /\ <<>> \in Seq(E)
      BY <1>1, ConcatFacts
    <3> QED
      BY Zenon, <1>1, <2>1, <3>1
  <2> QED
    BY <1>2, <1>3, <2>2 DEF EntriesInv
<1> QED
  BY <1>4, <1>5, <1>6, <1>7, <1>8 DEF Next

-----------------------------------------------------------------------------
(* The inductive invariant. *)

(* A step of kernel_set_device keeps its invariant. *)
LEMMA NextPreserves == IInv /\ Next => IInv'
BY OpenPreserves, PreparePreserves, PutPeerPreserves, StartAllowedIpsPreserves,
   PutAllowedIpPreserves, SendPreserves, RecvPreserves
DEF Next

(* The call begins in the invariant. *)
LEMMA SetInitEstablishes == SetInit => SInv
<1> SUFFICES ASSUME SetInit PROVE SInv
  OBVIOUS
<1> USE DEF SetInit
<1>1. IInv
  BY InitEstablishes
<1>2. log = <<>> /\ msg = <<>> /\ sent = <<>> /\ dev \in Devices
  BY DEF Init
<1>3. EntriesInv
  BY <1>2 DEF EntriesInv
<1>4. iface \in Iface /\ before \in Ifaces
  BY IfacesAssumption
<1>5. ApplyEntries(before, dev, <<>>) = before
  BY <1>2, <1>4, EntriesClosed, EntriesEmpty
<1> QED
  BY <1>1, <1>2, <1>3, <1>4, <1>5 DEF SInv

(* What a step of kernel_set_device does to the interface. *)
LEMMA StepApplies ==
    ASSUME SInv, Step
    PROVE  /\ dev' = dev /\ dev \in Devices /\ log \in Seq(EntriesOf(dev))
           /\ Applied \in Seq(EntriesOf(dev))
           /\ log' = log \o Applied
           /\ iface' = ApplyEntries(iface, dev, Applied)
           /\ iface' \in Iface
<1>1. dev \in Devices /\ log \in Seq(EntriesOf(dev))
  BY DEF SInv, IInv, TypeOK, EntriesInv
<1>2. PICK t \in Seq(EntriesOf(dev)) : log' = log \o t /\ dev' = dev
  BY Zenon, LogGrows DEF SInv, Step
<1>3. Applied = t
  BY <1>1, <1>2, SuffixFacts DEF Applied
<1>4. iface' = ApplyEntries(iface, dev, t)
  BY <1>3 DEF Step
<1>5. ApplyEntries(iface, dev, t) \in Iface
  BY <1>1, EntriesClosed, EntriesConcat DEF SInv
<1> QED
  BY <1>1, <1>2, <1>3, <1>4, <1>5

(* A step of kernel_set_device, with the kernel's, keeps the invariant. *)
LEMMA StepPreserves == SInv /\ Step => SInv'
<1> SUFFICES ASSUME SInv, Step PROVE SInv'
  OBVIOUS
<1>1. IInv' /\ EntriesInv'
  BY NextPreserves, EntriesPreserved DEF SInv, Step
<1>2. UNCHANGED <<before, others, runs>>
  BY DEF Step
<1>3. Alone' => iface' = ApplyEntries(before, dev, log)'
  <2> SUFFICES ASSUME Alone PROVE iface' = ApplyEntries(before, dev', log')
    BY <1>2 DEF Alone
  <2>1. iface = ApplyEntries(before, dev, log) /\ before \in Iface
    BY IfacesAssumption DEF SInv
  <2>2. ApplyEntries(before, dev, log \o Applied)
          = ApplyEntries(ApplyEntries(before, dev, log), dev, Applied)
    BY <2>1, StepApplies, EntriesClosed, EntriesConcat
  <2>3. dev' = dev /\ log' = log \o Applied /\ iface' = ApplyEntries(iface, dev, Applied)
    BY StepApplies
  <2> QED
    BY <2>1, <2>2, <2>3
<1>4. iface' \in Iface
  BY StepApplies
<1> QED
  BY <1>1, <1>2, <1>3, <1>4 DEF SInv

(* A change by another process keeps the invariant. *)
LEMMA OtherPreserves == SInv /\ Other => SInv'
<1> SUFFICES ASSUME SInv, Other PROVE SInv'
  OBVIOUS
<1>1. UNCHANGED <<vars, before, runs>>
  BY DEF Other
<1>2. IInv' /\ EntriesInv'
  BY <1>1, StutterPreserves DEF SInv, EntriesInv, vars
<1>3. PICK k \in Keys :
         \/ OtherRemoves(k) /\ others' = Append(others, <<k>>)
         \/ \E j \in Ips : OtherAdds(k, j) /\ others' = Append(others, <<k, j>>)
  BY OthersAssumption DEF Other
<1>4. iface \in Iface /\ others \in Seq(Seq(Keys \cup Ips))
  BY DEF SInv
<1>5. CASE OtherRemoves(k) /\ others' = Append(others, <<k>>)
  <2>1. RemovePeer(iface, k) \in Iface
    BY <1>4, RemovePeerType
  <2>2. <<k>> \in Seq(Keys \cup Ips)
    OBVIOUS
  <2>3. others' \in Seq(Seq(Keys \cup Ips)) /\ others' # <<>>
    BY <1>4, <1>5, <2>2, AppendFacts
  <2> QED
    BY <1>1, <1>2, <1>5, <2>1, <2>3 DEF OtherRemoves, SInv, Alone
<1>6. ASSUME NEW j \in Ips, OtherAdds(k, j), others' = Append(others, <<k, j>>)
      PROVE  SInv'
  <2>1. iface' \in Iface
    BY Zenon, <1>4, <1>6, AddPeerType DEF OtherAdds
  <2>2. <<k, j>> \in Seq(Keys \cup Ips)
    OBVIOUS
  <2>3. others' \in Seq(Seq(Keys \cup Ips)) /\ others' # <<>>
    BY <1>4, <1>6, <2>2, AppendFacts
  <2> QED
    BY <1>1, <1>2, <2>1, <2>3 DEF SInv, Alone
<1> QED
  BY <1>3, <1>5, <1>6

(* A second call with the same configuration begins in the invariant. *)
LEMMA RerunPreserves == SInv /\ Rerun => SInv'
<1> SUFFICES ASSUME SInv, Rerun PROVE SInv'
  OBVIOUS
<1>1. Init'
  BY DEF Rerun, SInv, IInv, TypeOK, Init
<1>2. IInv'
  BY <1>1, InitEstablishes, PTL
<1>3. EntriesInv'
  BY DEF Rerun, EntriesInv
<1>4. runs' \in Nat /\ 1 <= runs' /\ runs' # 1
  BY DEF Rerun, SInv
<1> QED
  BY <1>2, <1>3, <1>4 DEF Rerun, SInv, Alone

(* SInv is an invariant of kernel_set_device at work, whoever else writes. *)
THEOREM SetInvariance == SetSpec => []SInv
<1>1. SInv /\ UNCHANGED setVars => SInv'
  <2> SUFFICES ASSUME SInv, UNCHANGED setVars PROVE SInv'
    OBVIOUS
  <2>1. UNCHANGED vars /\ UNCHANGED <<iface, before, others, runs>>
    BY DEF setVars
  <2>2. IInv' /\ EntriesInv'
    BY <2>1, StutterPreserves DEF SInv, EntriesInv, vars
  <2> QED
    BY <2>1, <2>2 DEF SInv, Alone, vars
<1>2. SInv /\ [SetNext]_setVars => SInv'
  BY <1>1, StepPreserves, OtherPreserves, RerunPreserves DEF SetNext
<1> QED
  BY <1>2, SetInitEstablishes, PTL DEF SetSpec

-----------------------------------------------------------------------------
(* The refinement. *)

(* The end of an entry, as a point of the configuration. *)
PointOf(e) == <<e.peer, e.to - 1>>

(* What OrderedUpdate expects at the end of an entry is what the entries up to *)
(* it reach.                                                                   *)
LEMMA UpToIsReached ==
    ASSUME NEW d \in Devices, NEW f, NEW e \in EntriesOf(d)
    PROVE  /\ Update!UpTo(f, d, PointOf(e)) = Reached(f, d, e.peer, e.to)
           /\ PointOf(e) \in Update!Points(d)
<1> DEFINE x == PointOf(e)
<1>0. /\ x = <<e.peer, e.to - 1>> /\ x[1] = e.peer /\ x[2] = e.to - 1
      /\ e.peer \in Nat /\ e.to \in Nat /\ x[2] + 1 = e.to
  BY EntryFacts DEF PointOf
<1>1. CASE e.peer = 0
  <2>1. x = <<0, 0>> /\ x # <<-1, 0>>
    BY <1>0, <1>1, EntryFacts
  <2>2. Update!UpTo(f, d, x) = SetDeviceAttrs(f, d)
    BY <2>1 DEF Update!UpTo, Update!Nowhere, Update!Start
  <2>3. x \in Update!Points(d)
    BY <2>1 DEF Update!Points, Update!Start
  <2> QED
    BY <1>1, <2>2, <2>3 DEF Reached
<1>2. CASE e.peer # 0
  <2>1. x # <<0, 0>> /\ x # <<-1, 0>>
    BY <1>0, <1>2
  <2>2. Update!UpTo(f, d, x)
          = SetNest(ApplyDevice(f, [d EXCEPT !.peers = SubSeq(@, 1, x[1] - 1)]),
                           d.peers[x[1]], TRUE, UserFlags(d.peers[x[1]]), 1, x[2] + 1)
    BY Zenon, <2>1 DEF Update!UpTo, Update!Nowhere, Update!Start
  <2>3. Update!UpTo(f, d, x) = FirstNest(FirstPeers(f, d, e.peer - 1), d.peers[e.peer], e.to)
    BY Zenon, <1>0, <2>2 DEF FirstPeers, FirstNest
  <2>4. e.peer \in 1..Len(d.peers) /\ e.to - 1 \in 0..Len(d.peers[e.peer].aips)
    BY SMTT(60), <1>2, EntryFacts, DeviceFacts DEF NestRange
  <2>5. x \in Update!Points(d)
    BY SMTT(60), <1>0, <2>4 DEF Update!Points
  <2> QED
    BY <1>2, <2>3, <2>5 DEF Reached
<1> QED
  BY <1>1, <1>2

(* The entries of a configuration in its order end at points in that order. *)
LEMMA PointsInOrder ==
    ASSUME NEW d \in Devices, NEW s \in Seq(EntriesOf(d)), InOrder(d, s),
           NEW i \in 1..Len(s), NEW j \in i..Len(s)
    PROVE  Update!NotBefore(PointOf(s[j]), PointOf(s[i]))
<1> DEFINE Le(a, b) == s[a].peer < s[b].peer \/ (s[a].peer = s[b].peer /\ s[a].to <= s[b].to)
           S == {n \in 0..Len(s) : n >= i => Le(i, n)}
<1>1. Len(s) \in Nat /\ \A n \in 1..Len(s) : s[n] \in EntriesOf(d)
  BY EmptyFacts
<1>2. \A n \in 1..Len(s) : s[n].peer \in Nat /\ s[n].to \in Nat /\ s[n].from <= s[n].to /\ s[n].from \in Nat
  <2> TAKE n \in 1..Len(s)
  <2>1. s[n] \in EntriesOf(d)
    BY <1>1
  <2> QED
    BY <2>1, EntryFacts DEF EntriesOf
<1>3. \A n \in 1..Len(s) - 1 :
         \/ s[n + 1].peer = s[n].peer /\ s[n + 1].from = s[n].to
         \/ s[n + 1].peer = s[n].peer + 1
  BY DEF InOrder, Follows
<1>4. 0 \in S
  BY <1>1
<1>5. \A n \in S : n < Len(s) => n + 1 \in S
  <2> SUFFICES ASSUME NEW n \in S, n < Len(s), n + 1 >= i PROVE n + 1 \in S
    BY SMTT(60), <1>1
  <2>1. CASE n + 1 = i
    BY <1>1, <1>2, <2>1
  <2>2. CASE n >= i
    <3>1. Le(i, n) /\ n \in 1..Len(s) - 1 /\ n \in 1..Len(s) /\ n + 1 \in 1..Len(s)
      BY <1>1, <2>2
    <3>2. s[n + 1].peer = s[n].peer + 1 \/ (s[n + 1].peer = s[n].peer /\ s[n].to <= s[n + 1].to)
      BY <1>2, <1>3, <3>1
    <3>3. Le(i, n + 1)
      <4>1. /\ \A a, b \in Nat : a < b \/ a = b => a < b + 1
            /\ \A x, y, z \in Nat : x <= y /\ y <= z => x <= z
        OBVIOUS
      <4>2. /\ s[i].peer \in Nat /\ s[n].peer \in Nat /\ s[n + 1].peer \in Nat
            /\ s[i].to \in Nat /\ s[n].to \in Nat /\ s[n + 1].to \in Nat
        BY Zenon, <1>2, <3>1
      <4>3. CASE s[n + 1].peer = s[n].peer + 1
        BY ZenonT(60), <3>1, <4>1, <4>2, <4>3
      <4>4. CASE s[n + 1].peer = s[n].peer /\ s[n].to <= s[n + 1].to
        BY Zenon, <3>1, <4>1, <4>2, <4>4
      <4> QED
        BY Zenon, <3>2, <4>3, <4>4
    <3> QED
      BY <3>1, <3>3
  <2> QED
    BY <1>1, <2>1, <2>2
<1>6. \A n \in 0..Len(s) : n \in S
  <2>1. ASSUME NEW n \in 1..Len(s), n - 1 \in S PROVE n \in S
    <3>1. n - 1 < Len(s) /\ (n - 1) + 1 = n
      BY <1>1
    <3> HIDE DEF S
    <3> QED
      BY <1>5, <2>1, <3>1
  <2> HIDE DEF S
  <2> QED
    BY Zenon, <1>1, <1>4, <2>1, InductionUpTo
<1>7. Le(i, j) /\ j \in 1..Len(s)
  BY <1>1, <1>6
<1> HIDE DEF S
<1>8. s[i].to - 1 <= s[j].to - 1 \/ ~(s[i].to <= s[j].to)
  BY <1>2, <1>7
<1>9. /\ PointOf(s[i])[1] = s[i].peer /\ PointOf(s[i])[2] = s[i].to - 1
      /\ PointOf(s[j])[1] = s[j].peer /\ PointOf(s[j])[2] = s[j].to - 1
  BY DEF PointOf
<1> QED
  BY <1>7, <1>8, <1>9 DEF Update!NotBefore

(* A step of kernel_set_device that is alone on the interface is a step of the *)
(* ordered update, or leaves everything it sees alone.                         *)
LEMMA StepRefines ==
    ASSUME SInv, SInv', Alone, Alone', Step
    PROVE  [Update!UpdNext]_Update!updVars
<1>1. UNCHANGED <<dev, before>> /\ dev \in Devices /\ before \in Iface
  BY StepApplies, IfacesAssumption DEF Step, SInv
<1>2. (others = <<>> /\ runs = 1) /\ (others = <<>> /\ runs = 1)'
  BY DEF Alone
<1>3. /\ log' \in Seq(EntriesOf(dev)) /\ InOrder(dev, log')
      /\ ret' = "ok" => SuccessMeansApplied'
  BY <1>1 DEF SInv, EntriesInv, IInv, AppliedInOrder, SuccessMeansApplied
<1>4. log \in Seq(EntriesOf(dev))
  BY StepApplies
<1>5. CASE log' = log
  <2>1. Applied = <<>>
    <3>1. log \o Applied = log /\ Applied \in Seq(EntriesOf(dev))
      BY <1>5, StepApplies
    <3>2. Len(log \o Applied) = Len(log) + Len(Applied) /\ Len(log) \in Nat /\ Len(Applied) \in Nat
      BY <1>4, <3>1, ConcatFacts, EmptyFacts
    <3>3. Len(Applied) = 0
      BY <3>1, <3>2
    <3> QED
      BY <3>1, <3>3, EmptyFacts
  <2>2. iface' = iface
    BY <1>1, <2>1, StepApplies, EntriesClosed, EntriesEmpty DEF SInv
  <2>3. LogEnd' = LogEnd
    BY <1>5 DEF LogEnd
  <2>4. CASE ret' = ret
    BY <1>1, <1>2, <2>2, <2>3, <2>4 DEF Update!updVars
  <2>5. CASE ret' # ret
    <3>1. ret = "none" /\ ret' \in {"none", "ok", "error"}
      BY <2>5, LogGrows DEF SInv, IInv, TypeOK, Step
    <3>2. CASE ret' = "ok"
      <4>1. /\ log # <<>> /\ log[Len(log)].peer = Len(dev.peers)
            /\ log[Len(log)].to = NAips(dev, Len(dev.peers)) + 1
        BY <1>1, <1>3, <1>5, <3>2 DEF SuccessMeansApplied, Complete, Peers
      <4>2. NAips(dev, Len(dev.peers)) \in Nat
        BY <1>1, NAipsFacts
      <4>3. LogEnd = <<Len(dev.peers), NAips(dev, Len(dev.peers))>>
        BY <4>1, <4>2 DEF LogEnd
      <4>4. LogEnd = Update!End(dev)
        BY <1>1, <4>3, NAipsFacts DEF Update!End, NAips
      <4> QED
        BY <1>1, <1>2, <2>2, <2>3, <3>1, <3>2, <4>4 DEF Update!UpdNext, Update!Finish
    <3>3. CASE ret' = "error"
      BY <1>1, <1>2, <2>2, <2>3, <3>1, <3>3 DEF Update!UpdNext, Update!Finish
    <3> QED
      BY <2>5, <3>1, <3>2, <3>3
  <2> QED
    BY <2>4, <2>5
<1>6. CASE log' # log
  <2>1. ret = "none" /\ ret' = "none"
    BY <1>6, LogGrows DEF SInv, Step
  <2> DEFINE e == log'[Len(log')]
  <2>2. Len(log) \in Nat /\ Len(log') \in Nat /\ Len(log) <= Len(log') /\ log' # <<>>
    <3>1. log' = log \o Applied /\ Applied \in Seq(EntriesOf(dev))
      BY StepApplies
    <3>2. Len(log') = Len(log) + Len(Applied) /\ Len(log) \in Nat /\ Len(Applied) \in Nat
      BY <1>4, <3>1, ConcatFacts, EmptyFacts
    <3>3. Len(Applied) # 0
      BY <1>4, <1>6, <3>1
    <3> QED
      BY <1>3, <3>2, <3>3, EmptyFacts
  <2>3. e \in EntriesOf(dev) /\ LogEnd' = PointOf(e)
    <3>1. Len(log') \in 1..Len(log')
      BY <1>3, <2>2, EmptyFacts
    <3> QED
      BY <1>3, <2>2, <3>1, EmptyFacts DEF LogEnd, PointOf
  <2>4. iface' = Reached(before, dev, e.peer, e.to)
    <3>1. iface' = ApplyEntries(before, dev, log')
      BY <1>1 DEF SInv
    <3> QED
      BY <1>1, <1>3, <2>2, <3>1, ReachedByEntries
  <2>5. iface' = Update!UpTo(before, dev, LogEnd') /\ LogEnd' \in Update!Points(dev)
    BY <1>1, <2>3, <2>4, UpToIsReached
  <2>6. Update!NotBefore(LogEnd', LogEnd)
    <3>1. CASE log = <<>>
      <4>1. LogEnd[1] = -1 /\ LogEnd'[1] = e.peer /\ e.peer \in Nat
        BY <1>1, <2>3, <3>1, EntryFacts DEF LogEnd, PointOf
      <4>2. -1 < e.peer
        BY <4>1
      <4> QED
        BY <4>1, <4>2 DEF Update!NotBefore
    <3>2. CASE log # <<>>
      <4>1. Len(log) \in 1..Len(log') /\ Len(log') \in Len(log)..Len(log')
        BY <1>4, <2>2, <3>2, EmptyFacts
      <4>2. log'[Len(log)] = log[Len(log)]
        BY SMTT(60), <1>4, <3>2, StepApplies, ConcatFacts, EmptyFacts
      <4>3. LogEnd = PointOf(log'[Len(log)])
        BY <3>2, <4>2 DEF LogEnd, PointOf
      <4>4. Update!NotBefore(PointOf(e), PointOf(log'[Len(log)]))
        BY <1>1, <1>3, <4>1, PointsInOrder
      <4> QED
        BY <2>3, <4>3, <4>4
    <3> QED
      BY <3>1, <3>2
  <2>7. Update!Advance
    BY <1>1, <1>2, <2>1, <2>5, <2>6 DEF Update!Advance
  <2> QED
    BY <1>2, <2>7 DEF Update!UpdNext
<1> QED
  BY <1>5, <1>6

(* kernel_set_device, however it cuts the configuration into messages and     *)
(* wherever it fails, implements the ordered update: the interface only ever  *)
(* holds the configuration applied up to some point, that point only moves    *)
(* forwards, and success means that it is the end.                            *)
THEOREM OrderedUpdateRefinement == SetSpec => ImplementsOrderedUpdate
<1>1. SetInit => Update!UpdInit
  BY DEF SetInit, Init, Update!UpdInit, LogEnd, Update!Nowhere
<1>2. SInv /\ SInv' /\ [SetNext]_setVars => [Update!UpdNext]_Update!updVars
  <2> SUFFICES ASSUME SInv, SInv', [SetNext]_setVars
               PROVE  [Update!UpdNext]_Update!updVars
    OBVIOUS
  <2>1. CASE ~Alone'
    BY <2>1 DEF Alone, Update!UpdNext, Update!Disturbed
  <2>2. CASE Alone' /\ Step
    <3>1. Alone
      BY <2>2 DEF Alone, Step
    <3> QED
      BY <2>2, <3>1, StepRefines
  <2>3. CASE Other
    <3>1. \E x : others' = Append(others, x)
      BY <2>3 DEF Other
    <3>2. others' # <<>>
      BY <3>1 DEF SInv
    <3> QED
      BY <2>1, <3>2 DEF Alone
  <2>4. CASE Rerun
    BY <2>1, <2>4 DEF Rerun, Alone, SInv
  <2>5. CASE UNCHANGED setVars
    BY <2>5 DEF setVars, vars, Update!updVars, LogEnd
  <2> QED
    BY <2>1, <2>2, <2>3, <2>4, <2>5 DEF SetNext
<1> QED
  BY <1>1, <1>2, SetInvariance, PTL DEF SetSpec, ImplementsOrderedUpdate, Update!UpdSpec

=============================================================================
