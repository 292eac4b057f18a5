-------------------------- MODULE NetlinkSetProofs --------------------------
(***************************************************************************)
(* Proofs that kernel_set_device, as modelled in NetlinkSet, delivers      *)
(* every configuration in order, for every configuration and every buffer  *)
(* size that holds one message head, one peer header and one allowed IP.   *)
(***************************************************************************)
EXTENDS NetlinkSet, TLAPS

LastEntry(s) == s[Len(s)]

(* The last entry put so far. *)
LastPut == IF msg = <<>> THEN LastEntry(sent) ELSE LastEntry(msg)

(* Entry e ends where the pointers peer = p and allowedip = a stand. *)
EndsAt(d, p, a, e) ==
    IF a # 0 THEN e.peer = p /\ e.to = a
    ELSE IF p # 0 THEN e.peer = p - 1 /\ Complete(d, e)
    ELSE e.peer = Len(d.peers) /\ Complete(d, e)

InRange(d, e) == e.peer <= Len(d.peers) /\ e.from <= e.to /\ e.to <= NAips(d, e.peer) + 1
DeviceEntry(e) == e.peer = 0 /\ e.first /\ e.from = 1

(* m can come right after s. *)
Continues(d, s, m) ==
    /\ \A k \in 1..Len(m) : InRange(d, m[k])
    /\ \A k \in 1 .. Len(m) - 1 : Follows(d, m[k], m[k + 1])
    /\ m # <<>> => IF s = <<>> THEN DeviceEntry(m[1]) ELSE Follows(d, LastEntry(s), m[1])

(* The pointers and the entries belong together, at every point of the code. *)
CursorInv ==
    /\ pc = "open" => peer = 0 /\ allowedip = 0 /\ sent = <<>> /\ msg = <<>>
    /\ pc = "again" => /\ msg = <<>>
                       /\ IF peer = 0 THEN sent = <<>> /\ allowedip = 0
                          ELSE sent # <<>> /\ EndsAt(dev, peer, allowedip, LastEntry(sent))
    /\ pc = "peer" => /\ peer # 0
                      /\ sent # <<>> \/ msg # <<>>
                      /\ EndsAt(dev, peer, allowedip, LastPut)
                      /\ msg # <<>> => allowedip = 0
    /\ pc \in {"nest", "aip"} => /\ peer # 0 /\ allowedip # 0
                                 /\ msg # <<>>
                                 /\ EndsAt(dev, peer, allowedip, LastEntry(msg))
    /\ pc = "send" => (sent # <<>> \/ msg # <<>>) /\ EndsAt(dev, peer, allowedip, LastPut)
    /\ pc = "recv" => sent # <<>> /\ msg = <<>> /\ EndsAt(dev, peer, allowedip, LastEntry(sent))

(* The kernel has what was sent, unless it answered an error. *)
LogInv ==
    /\ pc \notin {"recv", "done"} => log = sent
    /\ pc = "recv" /\ reply = "ok" => log = sent
    /\ pc # "done" => ret = "none"

Progressed == msg # <<>> /\ (msg[1].first \/ msg[1].from < msg[1].to)

(* As long as a later message has nothing new in it, it still has room. *)
RoomInv ==
    /\ pc = "peer" /\ msg = <<>> => len = MsgHeader + MNL_ATTR_HDRLEN
    /\ pc = "peer" /\ msg # <<>> /\ sent # <<>> => Progressed
    /\ pc = "nest" /\ sent # <<>> /\ ~Progressed =>
         Len(msg) = 1 /\ len <= MsgHeader + MNL_ATTR_HDRLEN + MaxPeerHeader
    /\ pc = "aip" /\ sent # <<>> /\ ~Progressed =>
         Len(msg) = 1 /\ len <= MsgHeader + MNL_ATTR_HDRLEN + MaxPeerHeader + MNL_ATTR_HDRLEN

(* The inductive invariant. *)
IInv ==
    /\ TypeOK
    /\ InOrder(dev, sent) /\ Continues(dev, sent, msg) /\ InOrder(dev, log)
    /\ CursorInv
    /\ LogInv
    /\ SuccessMeansApplied
    /\ WithinBuffer
    /\ RoomInv
    /\ MessageMakesProgress

-----------------------------------------------------------------------------
(* Sequences. *)

(* What Append does to length, elements and type. *)
LEMMA AppendFacts ==
    ASSUME NEW S, NEW s \in Seq(S), NEW e \in S
    PROVE  /\ Append(s, e) \in Seq(S)
           /\ Len(Append(s, e)) = Len(s) + 1
           /\ \A k \in 1..Len(s) : Append(s, e)[k] = s[k]
           /\ Append(s, e)[Len(s) + 1] = e
           /\ Append(s, e) # <<>>
OBVIOUS

(* Replacing one element keeps the length and the others. *)
LEMMA UpdateFacts ==
    ASSUME NEW S, NEW s \in Seq(S), NEW i \in 1..Len(s), NEW e \in S
    PROVE  /\ [s EXCEPT ![i] = e] \in Seq(S)
           /\ Len([s EXCEPT ![i] = e]) = Len(s)
           /\ \A k \in 1..Len(s) : [s EXCEPT ![i] = e][k] = IF k = i THEN e ELSE s[k]
OBVIOUS

(* Concatenation. *)
LEMMA ConcatFacts ==
    ASSUME NEW S, NEW s \in Seq(S), NEW t \in Seq(S)
    PROVE  /\ s \o t \in Seq(S)
           /\ Len(s \o t) = Len(s) + Len(t)
           /\ \A k \in 1..Len(s) : (s \o t)[k] = s[k]
           /\ \A k \in 1..Len(t) : (s \o t)[Len(s) + k] = t[k]
OBVIOUS

(* The first k elements. *)
LEMMA PrefixFacts ==
    ASSUME NEW S, NEW s \in Seq(S), NEW k \in 0..Len(s)
    PROVE  /\ SubSeq(s, 1, k) \in Seq(S)
           /\ Len(SubSeq(s, 1, k)) = k
           /\ \A j \in 1..k : SubSeq(s, 1, k)[j] = s[j]
OBVIOUS

(* A sequence is empty exactly when its length is 0. *)
LEMMA EmptyFacts ==
    ASSUME NEW S, NEW s \in Seq(S)
    PROVE  /\ Len(s) \in Nat
           /\ s = <<>> <=> Len(s) = 0
           /\ \A k \in 1..Len(s) : s[k] \in S
OBVIOUS

-----------------------------------------------------------------------------
(* Configurations and sizes. *)

(* The lists of a configuration are lists. *)
LEMMA DeviceFacts ==
    ASSUME NEW d \in Devices
    PROVE  /\ d.peers \in Seq(WgPeer)
           /\ Len(d.peers) \in Nat
           /\ d.peers = <<>> <=> Len(d.peers) = 0
           /\ \A p \in 1..Len(d.peers) :
                /\ d.peers[p] \in WgPeer
                /\ d.peers[p].aips \in Seq(WgAllowedIp)
                /\ Len(d.peers[p].aips) \in Nat
                /\ d.peers[p].aips = <<>> <=> Len(d.peers[p].aips) = 0
                /\ \A i \in 1..Len(d.peers[p].aips) : d.peers[p].aips[i] \in WgAllowedIp
<1>1. d \in WgDev
  BY DevicesAssumption
<1>2. d.peers \in Seq(WgPeer)
  BY <1>1 DEF WgDev
<1>3. \A p \in 1..Len(d.peers) : d.peers[p] \in WgPeer
  BY <1>2
<1>4. \A p \in 1..Len(d.peers) : d.peers[p].aips \in Seq(WgAllowedIp)
  BY <1>3 DEF WgPeer
<1> QED
  BY <1>2, <1>3, <1>4, EmptyFacts

(* No peer header is wider than MaxPeerHeader. *)
LEMMA PeerHeaderBound ==
    ASSUME NEW p \in WgPeer, NEW first \in BOOLEAN
    PROVE  PeerHeader(p, first) \in Nat /\ PeerHeader(p, first) <= MaxPeerHeader
BY DEF WgPeer, PeerHeader, MaxPeerHeader, If, MNL_ATTR_HDRLEN, WG_KEY, SOCKADDR_IN,
       SOCKADDR_IN6, U16, U32

(* No allowed IP is wider than MaxAllowedIp. *)
LEMMA AllowedIpBound ==
    ASSUME NEW a \in WgAllowedIp
    PROVE  AllowedIpAttrs(a) \in Nat /\ AllowedIpAttrs(a) <= MaxAllowedIp
BY DEF WgAllowedIp, AllowedIpAttrs, MaxAllowedIp, If, MNL_ATTR_HDRLEN, U8, U16, U32

(* The unchecked puts of the first message. *)
LEMMA DeviceAttrsBound ==
    ASSUME NEW d \in WgDev
    PROVE  DeviceAttrs(d) \in Nat /\ DeviceAttrs(d) <= 60
BY DEF WgDev, DeviceAttrs, If, MNL_ATTR_HDRLEN, WG_KEY, U16, U32

(* The message head and the room that is left behind it. *)
LEMMA SizeFacts ==
    /\ MsgHeader \in Nat
    /\ MNL_ATTR_HDRLEN = 4 /\ MaxPeerHeader = 124 /\ MaxAllowedIp = 48
    /\ SOCKET_BUFFER_SIZE \in Nat
    /\ SOCKET_BUFFER_SIZE >= MsgHeader + 180
<1>1. IFNAME_LEN \in Nat
  BY IfnameAssumption DEF IFNAMSIZ
<1>2. (IFNAME_LEN + 4) \div 4 \in Nat
  BY <1>1
<1>3. MsgHeader \in Nat
  BY <1>2 DEF MsgHeader, IfnameAttr, NLMSG_HDRLEN, GENL_HDRLEN, MNL_ATTR_HDRLEN
<1>4. MNL_ATTR_HDRLEN = 4 /\ MaxPeerHeader = 124 /\ MaxAllowedIp = 48
  BY DEF MaxPeerHeader, MaxAllowedIp, MNL_ATTR_HDRLEN, WG_KEY, SOCKADDR_IN6, U8, U16, U32
<1> QED
  BY <1>3, <1>4, BufferAssumption

-----------------------------------------------------------------------------
(* The number of allowed IPs of a peer; peer 0, the device itself, has none. *)
LEMMA NAipsFacts ==
    ASSUME NEW d \in Devices
    PROVE  /\ Len(d.peers) \in Nat
           /\ d.peers = <<>> <=> Len(d.peers) = 0
           /\ NAips(d, 0) = 0
           /\ \A p \in 0..Len(d.peers) : NAips(d, p) \in Nat
           /\ \A p \in 1..Len(d.peers) :
                /\ d.peers[p] \in WgPeer
                /\ d.peers[p].aips = <<>> <=> NAips(d, p) = 0
                /\ \A i \in 1..NAips(d, p) : d.peers[p].aips[i] \in WgAllowedIp
<1>1. \A p \in 1..Len(d.peers) : NAips(d, p) = Len(d.peers[p].aips)
  BY DEF NAips
<1>2. NAips(d, 0) = 0
  BY DEF NAips
<1>3. Len(d.peers) \in Nat /\ (d.peers = <<>> <=> Len(d.peers) = 0)
  BY DeviceFacts
<1>4. \A p \in 1..Len(d.peers) : NAips(d, p) \in Nat
  BY <1>1, DeviceFacts
<1>5. \A p \in 0..Len(d.peers) : NAips(d, p) \in Nat
  <2> TAKE p \in 0..Len(d.peers)
  <2>1. CASE p = 0
    BY <2>1 DEF NAips
  <2>2. CASE p # 0
    <3>1. p \in 1..Len(d.peers)
      BY <2>2, <1>3
    <3> QED
      BY <3>1, <1>4
  <2> QED
    BY <2>1, <2>2
<1>6. ASSUME NEW p \in 1..Len(d.peers)
      PROVE  /\ d.peers[p] \in WgPeer
             /\ d.peers[p].aips = <<>> <=> NAips(d, p) = 0
             /\ \A i \in 1..NAips(d, p) : d.peers[p].aips[i] \in WgAllowedIp
  BY Zenon, <1>1, DeviceFacts
<1> QED
  BY <1>2, <1>3, <1>5, <1>6

(* A sequence in order and one that continues it are in order together. *)
LEMMA JoinInOrder ==
    ASSUME NEW d \in Devices, NEW s \in Seq(Entry), NEW m \in Seq(Entry), InOrder(d, s), Continues(d, s, m)
    PROVE  InOrder(d, s \o m)
<1> DEFINE t == s \o m
<1>1. /\ t \in Seq(Entry) /\ Len(t) = Len(s) + Len(m)
      /\ \A k \in 1..Len(s) : t[k] = s[k]
      /\ \A k \in 1..Len(m) : t[Len(s) + k] = m[k]
  BY ConcatFacts
<1>2. Len(s) \in Nat /\ Len(m) \in Nat
  BY EmptyFacts
<1> HIDE DEF t
<1>3. \A k \in 1..Len(t) : \/ k \in 1..Len(s)
                           \/ k - Len(s) \in 1..Len(m) /\ t[k] = m[k - Len(s)]
  <2> TAKE k \in 1..Len(t)
  <2>1. CASE k <= Len(s)
    BY <2>1, <1>2
  <2>2. CASE ~(k <= Len(s))
    <3>1. k - Len(s) \in 1..Len(m)
      BY <2>2, <1>1, <1>2
    <3>2. t[Len(s) + (k - Len(s))] = m[k - Len(s)]
      BY <3>1, <1>1
    <3>3. Len(s) + (k - Len(s)) = k
      BY <1>1, <1>2
    <3> QED
      BY <3>1, <3>2, <3>3
  <2> QED
    BY <2>1, <2>2
<1>4. \A k \in 1..Len(t) : InRange(d, t[k])
  BY ZenonT(60), <1>1, <1>3 DEF InOrder, Continues, InRange
<1>5. t # <<>> => DeviceEntry(t[1])
  <2>1. CASE s = <<>>
    BY <2>1, <1>1, <1>2, EmptyFacts DEF Continues
  <2>2. CASE s # <<>>
    <3>1. t[1] = s[1]
      BY <2>2, <1>1, <1>2, EmptyFacts
    <3>2. DeviceEntry(s[1])
      BY Zenon, <2>2 DEF InOrder, DeviceEntry
    <3> QED
      BY Zenon, <3>1, <3>2
  <2> QED
    BY <2>1, <2>2
<1>6. \A k \in 1 .. Len(t) - 1 : Follows(d, t[k], t[k + 1])
  <2> TAKE k \in 1 .. Len(t) - 1
  <2>1. CASE k < Len(s)
    <3>1. k \in 1 .. Len(s) - 1 /\ k \in 1..Len(s) /\ k + 1 \in 1..Len(s)
      BY <2>1, <1>2
    <3>2. Follows(d, s[k], s[k + 1])
      BY <3>1 DEF InOrder
    <3>3. t[k] = s[k] /\ t[k + 1] = s[k + 1]
      BY <3>1, <1>1
    <3> QED
      BY <3>2, <3>3
  <2>2. CASE k = Len(s)
    <3>1. s # <<>> /\ m # <<>> /\ k \in 1..Len(s) /\ 1 \in 1..Len(m)
      BY <2>2, <1>1, <1>2, EmptyFacts
    <3>2. t[k] = LastEntry(s) /\ t[k + 1] = m[1]
      BY <3>1, <2>2, <1>1 DEF LastEntry
    <3>3. Follows(d, LastEntry(s), m[1])
      BY <3>1 DEF Continues
    <3> QED
      BY <3>2, <3>3
  <2>3. CASE k > Len(s)
    <3> DEFINE j == k - Len(s)
    <3>1. j \in 1 .. Len(m) - 1 /\ j \in 1..Len(m) /\ j + 1 \in 1..Len(m)
      BY <2>3, <1>1, <1>2
    <3>2. t[Len(s) + j] = m[j] /\ t[Len(s) + (j + 1)] = m[j + 1]
      BY Zenon, <3>1, <1>1
    <3>3. Len(s) + j = k /\ Len(s) + (j + 1) = k + 1
      BY <1>1, <1>2
    <3>4. Follows(d, m[j], m[j + 1])
      BY <3>1 DEF Continues
    <3> QED
      BY <3>2, <3>3, <3>4
  <2> QED
    BY <2>1, <2>2, <2>3, <1>2
<1> QED
  BY <1>4, <1>5, <1>6 DEF InOrder, InRange, DeviceEntry, t

(* Cutting the range of an entry short changes nothing else of it. *)
LEMMA CutEntry ==
    ASSUME NEW x \in Entry, NEW to \in Nat
    PROVE  LET e == [x EXCEPT !.to = to]
           IN /\ e \in Entry /\ e.to = to
              /\ e.peer = x.peer /\ e.first = x.first /\ e.from = x.from
BY DEF Entry

(* What the kernel applies of a message before it gives up continues the log *)
(* as well as the whole message does.                                        *)
LEMMA CutContinues ==
    ASSUME NEW d \in Devices, NEW s \in Seq(Entry), NEW m \in Seq(Entry), Continues(d, s, m),
           NEW k \in 1..Len(m), NEW to \in m[k].from .. m[k].to
    PROVE  LET c == Append(SubSeq(m, 1, k - 1), [m[k] EXCEPT !.to = to])
           IN c \in Seq(Entry) /\ Continues(d, s, c)
<1> DEFINE e == [m[k] EXCEPT !.to = to]
           b == SubSeq(m, 1, k - 1)
           c == Append(b, e)
<1>0. Len(m) \in Nat /\ m # <<>> /\ m[k] \in Entry
  BY EmptyFacts
<1>1. e \in Entry /\ e.peer = m[k].peer /\ e.first = m[k].first /\ e.from = m[k].from /\ e.to = to
  <2>1. m[k].from \in Nat /\ m[k].to \in Nat
    BY SMTT(60), <1>0 DEF Entry
  <2>2. to \in Nat
    BY SMTT(60), <2>1
  <2> QED
    BY SMTT(60), <1>0, <2>2, CutEntry
<1>2. b \in Seq(Entry) /\ Len(b) = k - 1 /\ \A j \in 1 .. k - 1 : b[j] = m[j]
  BY PrefixFacts, k - 1 \in 0..Len(m), <1>0
<1> HIDE DEF e, b
<1>3. /\ c \in Seq(Entry) /\ Len(c) = k /\ c[k] = e /\ c # <<>>
      /\ \A j \in 1 .. k - 1 : c[j] = m[j]
  <2>1. /\ c \in Seq(Entry) /\ Len(c) = Len(b) + 1 /\ c[Len(b) + 1] = e /\ c # <<>>
        /\ \A j \in 1..Len(b) : c[j] = b[j]
    BY <1>1, <1>2, AppendFacts
  <2> QED
    BY <2>1, <1>2, <1>0
<1> HIDE DEF c
<1>4. \A j \in 1..Len(c) : InRange(d, c[j])
  <2> TAKE j \in 1..Len(c)
  <2>1. CASE j = k
    <3>1. InRange(d, m[k])
      BY DEF Continues
    <3>2. to <= m[k].to /\ m[k].from <= to /\ m[k].to \in Nat /\ to \in Int
      BY SMTT(60), <1>0 DEF Entry
    <3>3. NAips(d, m[k].peer) \in Nat
      <4>1. m[k].peer \in Nat /\ m[k].peer <= Len(d.peers)
        BY SMTT(60), <3>1, <1>0 DEF InRange, Entry
      <4> QED
        BY <4>1, NAipsFacts
    <3>4. NAips(d, e.peer) = NAips(d, m[k].peer)
      BY <1>1
    <3>5. InRange(d, e)
      BY <3>1, <3>2, <3>3, <3>4, <1>1 DEF InRange
    <3>6. c[j] = e
      BY <2>1, <1>3
    <3> QED
      BY <3>5, <3>6
  <2>2. CASE j # k
    BY <2>2, <1>3, <1>0 DEF Continues
  <2> QED
    BY <2>1, <2>2
<1>5. \A j \in 1 .. Len(c) - 1 : Follows(d, c[j], c[j + 1])
  <2> TAKE j \in 1 .. Len(c) - 1
  <2>1. c[j] = m[j] /\ j \in 1 .. Len(m) - 1 /\ Follows(d, m[j], m[j + 1])
    BY <1>3, <1>0 DEF Continues
  <2>2. c[j + 1] = m[j + 1] \/ (j + 1 = k /\ c[j + 1] = e)
    BY <1>3, <1>0
  <2> QED
    BY <2>1, <2>2, <1>1 DEF Follows
<1>6. IF s = <<>> THEN DeviceEntry(c[1]) ELSE Follows(d, LastEntry(s), c[1])
  <2>1. c[1] = m[1] \/ (k = 1 /\ c[1] = e)
    BY <1>3, <1>0
  <2>2. IF s = <<>> THEN DeviceEntry(m[1]) ELSE Follows(d, LastEntry(s), m[1])
    BY <1>0 DEF Continues
  <2> QED
    BY <2>1, <2>2, <1>1 DEF Follows, DeviceEntry
<1> QED
  BY Zenon, <1>3, <1>4, <1>5, <1>6 DEF Continues, c, b, e

-----------------------------------------------------------------------------
(* The steps, one lemma for each action that has something to show. *)

(* Initially nothing is sent and both pointers are NULL. *)
LEMMA InitEstablishes == Init => IInv
<1> SUFFICES ASSUME Init PROVE IInv
  OBVIOUS
<1> USE DEF Init
<1>1. TypeOK
  BY NAipsFacts DEF TypeOK, Peers
<1>2. InOrder(dev, <<>>) /\ Continues(dev, <<>>, <<>>)
  BY DEF InOrder, Continues
<1>3. CursorInv /\ LogInv /\ SuccessMeansApplied /\ RoomInv /\ MessageMakesProgress
  BY DEF CursorInv, LogInv, SuccessMeansApplied, RoomInv, MessageMakesProgress
<1>4. WithinBuffer
  BY SizeFacts DEF WithinBuffer
<1> QED
  BY <1>1, <1>2, <1>3, <1>4 DEF IInv

(* Open changes nothing but pc and ret. *)
LEMMA OpenPreserves == IInv /\ Open => IInv'
<1> SUFFICES ASSUME IInv, Open PROVE IInv'
  OBVIOUS
<1> USE DEF IInv, Open
<1>1. TypeOK'
  BY DEF TypeOK, Peers
<1>2. InOrder(dev, sent)' /\ Continues(dev, sent, msg)' /\ InOrder(dev, log)'
  OBVIOUS
<1>3. CursorInv' /\ LogInv' /\ RoomInv' /\ MessageMakesProgress'
  BY DEF CursorInv, LogInv, RoomInv, MessageMakesProgress
<1>4. SuccessMeansApplied' /\ WithinBuffer'
  BY DEF SuccessMeansApplied, WithinBuffer, LogInv
<1> QED
  BY <1>1, <1>2, <1>3, <1>4

(* Prepare starts a message: with the device attributes if there is none yet, *)
(* and at the pointers otherwise.                                             *)
LEMMA PreparePreserves == IInv /\ Prepare => IInv'
<1> SUFFICES ASSUME IInv, Prepare PROVE IInv'
  OBVIOUS
<1> DEFINE de == DeviceAttrsEntry
<1> USE DEF IInv, Prepare
<1>1. /\ dev \in Devices /\ dev \in WgDev /\ Len(Peers) \in Nat /\ (Peers = <<>> <=> Len(Peers) = 0)
      /\ peer \in 0..Len(Peers) /\ NAips(dev, 0) = 0
      /\ msg = <<>> /\ sent \in Seq(Entry)
  BY NAipsFacts, DevicesAssumption DEF TypeOK, Peers, CursorInv
<1>2. msg' \in Seq(Entry) /\ de \in Entry
  <2>1. de \in Entry
    BY DEF Entry, DeviceAttrsEntry
  <2>2. <<de>> \in Seq(Entry) /\ <<>> \in Seq(Entry)
    BY <2>1
  <2> QED
    BY <2>1, <2>2
<1>3. allowedip \in 0..NAips(dev, peer')
  BY <1>1, NAipsFacts DEF TypeOK, CursorInv, Peers
<1>4. len' \in Nat /\ len' <= SOCKET_BUFFER_SIZE
  BY <1>1, SizeFacts, DeviceAttrsBound DEF If
<1>5. TypeOK'
  BY <1>1, <1>2, <1>3, <1>4 DEF TypeOK, Peers
<1>6. CASE peer = 0
  <2>1. msg' = <<de>> /\ sent' = <<>> /\ msg' # <<>> /\ Len(msg') = 1 /\ msg'[1] = de
    BY <1>6 DEF CursorInv
  <2>2. Continues(dev, sent, msg)'
    BY <2>1, <1>1 DEF Continues, InRange, DeviceEntry, Peers, DeviceAttrsEntry
  <2>3. EndsAt(dev, peer', allowedip', de)
    BY <1>1, <1>6, <2>1 DEF EndsAt, Complete, CursorInv, Peers, DeviceAttrsEntry
  <2>4. CursorInv'
    BY <2>1, <2>3, <1>1, <1>6 DEF CursorInv, LastPut, LastEntry
  <2>5. RoomInv' /\ MessageMakesProgress'
    BY <2>1, <1>1 DEF RoomInv, MessageMakesProgress
  <2> QED
    BY <2>2, <2>4, <2>5, <1>4, <1>5 DEF LogInv, SuccessMeansApplied, WithinBuffer
<1>7. CASE peer # 0
  <2>1. msg' = <<>> /\ sent # <<>> /\ peer' = peer /\ pc' = "peer"
    BY <1>7, <1>1 DEF CursorInv
  <2>2. Continues(dev, sent, msg)'
    BY <2>1 DEF Continues
  <2>3. CursorInv'
    <3>1. EndsAt(dev, peer, allowedip, LastEntry(sent)) /\ sent' = sent
            /\ allowedip' = allowedip /\ dev' = dev
      BY Zenon, <1>1, <1>7 DEF CursorInv
    <3> HIDE DEF IInv
    <3> QED
      BY ZenonT(60), <3>1, <2>1, <1>7 DEF CursorInv, LastPut, LastEntry
  <2>4. RoomInv' /\ MessageMakesProgress'
    BY <2>1, <1>1, <1>7, SizeFacts DEF RoomInv, MessageMakesProgress, If
  <2> QED
    BY <2>2, <2>3, <2>4, <1>4, <1>5 DEF LogInv, SuccessMeansApplied, WithinBuffer
<1> QED
  BY <1>6, <1>7

(* One more entry that follows the last one put keeps the message in order. *)
LEMMA AppendContinues ==
    ASSUME NEW d \in Devices, NEW s \in Seq(Entry), NEW m \in Seq(Entry), NEW e \in Entry,
           Continues(d, s, m), s # <<>> \/ m # <<>>, InRange(d, e),
           Follows(d, IF m = <<>> THEN LastEntry(s) ELSE LastEntry(m), e)
    PROVE  Continues(d, s, Append(m, e))
<1> DEFINE t == Append(m, e)
<1>1. /\ t \in Seq(Entry) /\ Len(t) = Len(m) + 1 /\ t # <<>>
      /\ \A k \in 1..Len(m) : t[k] = m[k]
      /\ t[Len(m) + 1] = e
  BY AppendFacts
<1>2. Len(m) \in Nat /\ (m = <<>> <=> Len(m) = 0)
  BY EmptyFacts
<1> HIDE DEF t
<1>3. \A k \in 1..Len(t) : InRange(d, t[k])
  <2> TAKE k \in 1..Len(t)
  <2>1. k \in 1..Len(m) \/ k = Len(m) + 1
    BY <1>1, <1>2
  <2>2. CASE k \in 1..Len(m)
    BY <2>2, <1>1 DEF Continues
  <2>3. CASE k = Len(m) + 1
    BY <2>3, <1>1
  <2> QED
    BY <2>1, <2>2, <2>3
<1>4. \A k \in 1 .. Len(t) - 1 : Follows(d, t[k], t[k + 1])
  <2> TAKE k \in 1 .. Len(t) - 1
  <2>1. k \in 1..Len(m) /\ t[k] = m[k]
    BY <1>1, <1>2
  <2>2. CASE k = Len(m)
    <3>1. t[k] = LastEntry(m) /\ t[k + 1] = e /\ m # <<>>
      BY <2>1, <2>2, <1>1, <1>2 DEF LastEntry
    <3> QED
      BY <3>1
  <2>3. CASE k # Len(m)
    <3>1. k \in 1 .. Len(m) - 1 /\ k + 1 \in 1..Len(m)
      BY <2>1, <2>3, <1>2
    <3>2. Follows(d, m[k], m[k + 1]) /\ t[k + 1] = m[k + 1]
      BY <3>1, <1>1 DEF Continues
    <3> QED
      BY <2>1, <3>2
  <2> QED
    BY <2>2, <2>3
<1>5. IF s = <<>> THEN DeviceEntry(t[1]) ELSE Follows(d, LastEntry(s), t[1])
  <2>1. CASE m = <<>>
    <3>1. t[1] = e /\ s # <<>>
      BY <2>1, <1>1, <1>2
    <3> QED
      BY <3>1, <2>1
  <2>2. CASE m # <<>>
    <3>1. t[1] = m[1]
      BY <2>2, <1>1, <1>2
    <3> QED
      BY <3>1, <2>2 DEF Continues
  <2> QED
    BY <2>1, <2>2
<1> QED
  BY <1>1, <1>3, <1>4, <1>5 DEF Continues, t

(* Moving the end of the last entry keeps the message in order. *)
LEMMA ExtendContinues ==
    ASSUME NEW d \in Devices, NEW s \in Seq(Entry), NEW m \in Seq(Entry), NEW e \in Entry,
           Continues(d, s, m), m # <<>>, InRange(d, e),
           e.peer = LastEntry(m).peer, e.first = LastEntry(m).first, e.from = LastEntry(m).from
    PROVE  Continues(d, s, [m EXCEPT ![Len(m)] = e])
<1> DEFINE t == [m EXCEPT ![Len(m)] = e]
<1>1. Len(m) \in Nat /\ Len(m) \in 1..Len(m)
  BY EmptyFacts
<1>2. /\ t \in Seq(Entry) /\ Len(t) = Len(m)
      /\ \A k \in 1..Len(m) : t[k] = IF k = Len(m) THEN e ELSE m[k]
  BY <1>1, UpdateFacts
<1> HIDE DEF t
<1>3. \A k \in 1..Len(t) : InRange(d, t[k])
  BY <1>2 DEF Continues
<1>4. \A k \in 1 .. Len(t) - 1 : Follows(d, t[k], t[k + 1])
  <2> TAKE k \in 1 .. Len(t) - 1
  <2>1. k \in 1 .. Len(m) - 1 /\ t[k] = m[k] /\ Follows(d, m[k], m[k + 1])
    BY <1>1, <1>2 DEF Continues
  <2>2. t[k + 1] = m[k + 1] \/ (k + 1 = Len(m) /\ t[k + 1] = e)
    BY <2>1, <1>1, <1>2
  <2> QED
    BY <2>1, <2>2 DEF Follows, LastEntry
<1>5. IF s = <<>> THEN DeviceEntry(t[1]) ELSE Follows(d, LastEntry(s), t[1])
  <2>1. t[1] = m[1] \/ (Len(m) = 1 /\ t[1] = e)
    BY <1>1, <1>2
  <2>2. IF s = <<>> THEN DeviceEntry(m[1]) ELSE Follows(d, LastEntry(s), m[1])
    BY DEF Continues
  <2>3. CASE t[1] = m[1]
    BY <2>2, <2>3
  <2>4. CASE Len(m) = 1 /\ t[1] = e
    <3>1. e.peer = m[1].peer /\ e.first = m[1].first /\ e.from = m[1].from
      BY <2>4 DEF LastEntry
    <3> QED
      BY <2>2, <2>4, <3>1 DEF Follows, DeviceEntry
  <2> QED
    BY <2>1, <2>3, <2>4
<1> QED
  BY Zenon, <1>2, <1>3, <1>4, <1>5 DEF Continues, t

(* PutPeer adds an entry for the peer the pointers stand at, or sends. *)
LEMMA PutPeerPreserves == IInv /\ PutPeer => IInv'
<1> SUFFICES ASSUME IInv, PutPeer PROVE IInv'
  OBVIOUS
<1> DEFINE first == IsFirstFragment
           p == Peers[peer]
           size == PeerHeader(p, first)
           from == IF allowedip = 0 THEN 1 ELSE allowedip
           e == [peer |-> peer, first |-> first, flags |-> PeerFlags(p, first),
                 from |-> from, to |-> from]
<1> USE DEF IInv, IsFirstFragment
<1>1. /\ dev \in Devices /\ dev' = dev /\ Len(Peers) \in Nat /\ Peers' = Peers
      /\ peer \in 1..Len(Peers) /\ NAips(dev, peer) \in Nat /\ allowedip \in 0..NAips(dev, peer)
      /\ len \in Nat /\ msg \in Seq(Entry) /\ sent \in Seq(Entry)
      /\ Len(msg) \in Nat /\ (msg = <<>> <=> Len(msg) = 0)
  BY NAipsFacts, EmptyFacts DEF TypeOK, Peers, CursorInv, PutPeer
<1>2. p \in WgPeer /\ (p.aips = <<>> <=> NAips(dev, peer) = 0)
  BY <1>1, NAipsFacts DEF Peers
<1>3. size \in Nat /\ size <= MaxPeerHeader
  BY Zenon, <1>2, PeerHeaderBound
<1>4. /\ pc = "peer" /\ ret = "none" /\ log = sent
      /\ UNCHANGED <<dev, sent, log, reply, ret>>
      /\ sent # <<>> \/ msg # <<>>
      /\ msg # <<>> => allowedip = 0
  BY DEF PutPeer, CursorInv, LogInv
<1>5. EndsAt(dev, peer, allowedip, LastPut)
  BY <1>4 DEF CursorInv
<1>6. CASE ~Fits(size) /\ pc' = "send" /\ UNCHANGED <<peer, allowedip, len, msg>>
  <2>1. CursorInv'
    BY ZenonT(60), <1>1, <1>4, <1>5, <1>6 DEF CursorInv, LastPut, LastEntry
  <2>2. MessageMakesProgress'
    <3>1. sent # <<>> /\ msg # <<>> => Progressed
      BY Zenon, <1>4 DEF RoomInv
    <3>2. msg = <<>> => len = MsgHeader + MNL_ATTR_HDRLEN
      BY Zenon, <1>4 DEF RoomInv
    <3> HIDE DEF IInv, size
    <3>3. msg # <<>>
      BY SMTT(60), <3>2, <1>1, <1>3, <1>6, SizeFacts DEF Fits
    <3> QED
      BY ZenonT(60), <3>1, <3>3, <1>4, <1>6 DEF MessageMakesProgress, Progressed
  <2> QED
    BY ZenonT(60), <2>1, <2>2, <1>1, <1>4, <1>6
    DEF TypeOK, LogInv, SuccessMeansApplied, WithinBuffer, RoomInv
<1>7. CASE /\ Fits(size)
           /\ len' = len + size
           /\ msg' = Append(msg, e)
           /\ IF p.aips = <<>>
                THEN NextPeer /\ UNCHANGED allowedip
                ELSE pc' = "nest" /\ allowedip' = from /\ UNCHANGED peer
  <2>1. /\ e \in Entry
        /\ e.peer = peer /\ e.first = first /\ e.from = from /\ e.to = from
    BY <1>1 DEF Entry, PeerFlags
  <2>0. msg' = Append(msg, e)
    BY <1>7
  <2> HIDE DEF e
  <2>2. InRange(dev, e)
    BY <2>1, <1>1 DEF InRange, Peers
  <2>3. Follows(dev, LastPut, e)
    <3> DEFINE x == LastPut
    <3> HIDE DEF x
    <3>1. EndsAt(dev, peer, allowedip, x)
      BY <1>5 DEF x
    <3>2. Follows(dev, x, e)
      <4>1. CASE first
        <5>1. x.peer = peer - 1 /\ Complete(dev, x) /\ from = 1
          BY <3>1, <4>1, <1>1 DEF EndsAt
        <5>2. e.peer = x.peer + 1
          BY <5>1, <2>1, <1>1
        <5> QED
          BY Zenon, <5>1, <5>2, <4>1, <2>1 DEF Follows
      <4>2. CASE ~first
        <5>1. x.peer = peer /\ x.to = allowedip /\ from = allowedip
          BY <3>1, <4>2 DEF EndsAt
        <5>2. ~Complete(dev, x)
          BY <5>1, <4>2, <1>1 DEF Complete
        <5> QED
          BY Zenon, <5>1, <5>2, <4>2, <2>1 DEF Follows
      <4> QED
        BY <4>1, <4>2
    <3> QED
      BY <3>2 DEF x
  <2>4. Continues(dev, sent, msg')
    BY <2>0, <2>1, <2>2, <2>3, <1>1, <1>4, AppendContinues DEF LastPut
  <2>5. /\ msg' \in Seq(Entry) /\ Len(msg') = Len(msg) + 1 /\ msg' # <<>>
        /\ msg'[Len(msg')] = e
        /\ IF msg = <<>> THEN msg'[1] = e ELSE msg'[1] = msg[1]
    <3>1. /\ msg' \in Seq(Entry) /\ Len(msg') = Len(msg) + 1 /\ msg' # <<>>
          /\ \A k \in 1..Len(msg) : msg'[k] = msg[k]
          /\ msg'[Len(msg) + 1] = e
      BY <2>0, <2>1, <1>1, AppendFacts
    <3> QED
      BY <3>1, <1>1
  <2>6. len' \in Nat /\ len' <= SOCKET_BUFFER_SIZE
    BY <1>1, <1>3, <1>7 DEF Fits
  <2>7. sent # <<>> /\ (msg # <<>> \/ first) => Progressed'
    BY Zenon, <2>1, <2>5, <1>4 DEF RoomInv, Progressed
  <2>8. CASE p.aips = <<>>
    <3> HIDE DEF IInv, size
    <3>1. NextPeer /\ allowedip = 0 /\ allowedip' = 0 /\ NAips(dev, peer) = 0
      BY <2>8, <1>1, <1>2, <1>7
    <3>2. /\ peer' \in 0..Len(Peers) /\ pc' \in {"send", "peer"}
          /\ pc' = "peer" => peer' # 0
      BY <3>1, <1>1 DEF NextPeer
    <3>3. TypeOK'
      BY SMTT(60), <3>1, <3>2, <2>5, <2>6, <1>1, <1>4, NAipsFacts DEF IInv, TypeOK, Peers
    <3>4. EndsAt(dev, peer', allowedip', e)
      BY <3>1, <2>1, <1>1 DEF NextPeer, EndsAt, Complete, Peers
    <3>5. CursorInv'
      BY <3>1, <3>2, <3>4, <2>5, <1>1 DEF CursorInv, LastPut, LastEntry
    <3>6. RoomInv' /\ MessageMakesProgress'
      BY <3>1, <3>2, <2>5, <2>7, <1>4 DEF RoomInv, MessageMakesProgress, Progressed
    <3> QED
      BY <3>2, <3>3, <3>5, <3>6, <2>4, <2>6, <1>4 DEF IInv, LogInv, SuccessMeansApplied, WithinBuffer
  <2>9. CASE p.aips # <<>>
    <3> HIDE DEF IInv
    <3>1. /\ pc' = "nest" /\ allowedip' = from /\ peer' = peer
          /\ from \in 1..NAips(dev, peer)
      BY <2>9, <1>1, <1>2, <1>7
    <3>2. TypeOK'
      BY <3>1, <2>5, <2>6, <1>1, <1>4 DEF IInv, TypeOK
    <3>3. EndsAt(dev, peer', allowedip', e)
      BY <3>1, <2>1, <1>1 DEF EndsAt
    <3>4. CursorInv'
      BY <3>1, <3>3, <2>5, <1>1 DEF CursorInv, LastEntry
    <3>5. RoomInv'
      <4>1. sent # <<>> /\ ~Progressed' => msg = <<>>
        BY Zenon, <2>7
      <4>2. msg = <<>> => len = MsgHeader + MNL_ATTR_HDRLEN
        BY Zenon, <1>4 DEF IInv, RoomInv
      <4> HIDE DEF size
      <4>3. len' = len + size
        BY Zenon, <1>7
      <4>4. msg = <<>> =>
              Len(msg') = 1 /\ len' <= MsgHeader + MNL_ATTR_HDRLEN + MaxPeerHeader
        BY SMTT(60), <4>2, <4>3, <2>5, <1>1, <1>3, SizeFacts
      <4> QED
        BY SMTT(60), <4>1, <4>4, <3>1, <1>4 DEF RoomInv
    <3> QED
      BY <3>1, <3>2, <3>4, <3>5, <2>4, <2>6, <1>4
      DEF IInv, LogInv, SuccessMeansApplied, WithinBuffer, MessageMakesProgress
  <2> QED
    BY <2>8, <2>9
<1> QED
  BY <1>6, <1>7 DEF PutPeer

(* StartAllowedIps opens the nest, or sends. *)
LEMMA StartAllowedIpsPreserves == IInv /\ StartAllowedIps => IInv'
<1> SUFFICES ASSUME IInv, StartAllowedIps PROVE IInv'
  OBVIOUS
<1> USE DEF IInv, StartAllowedIps
<1>1. TypeOK' /\ WithinBuffer'
  BY SMTT(60), SizeFacts DEF TypeOK, Peers, Fits, WithinBuffer
<1>2. CursorInv'
  BY ZenonT(60) DEF CursorInv, EndsAt, LastPut, LastEntry, Peers
<1>3. LogInv' /\ SuccessMeansApplied'
  BY DEF LogInv, SuccessMeansApplied, Peers
<1>4. RoomInv' /\ MessageMakesProgress'
  <2>1. len \in Nat /\ pc = "nest" /\ sent' = sent /\ msg' = msg
    BY Zenon DEF TypeOK
  <2>2. sent # <<>> /\ ~Progressed =>
          Len(msg) = 1 /\ len <= MsgHeader + MNL_ATTR_HDRLEN + MaxPeerHeader
    BY ZenonT(60), <2>1 DEF RoomInv
  <2>3. Progressed' = Progressed
    BY Zenon, <2>1 DEF Progressed
  <2>4. CASE Fits(MNL_ATTR_HDRLEN) /\ len' = len + MNL_ATTR_HDRLEN /\ pc' = "aip"
    <3> HIDE DEF IInv, StartAllowedIps
    <3> QED
      BY SMTT(60), <2>1, <2>2, <2>3, <2>4, SizeFacts DEF RoomInv, MessageMakesProgress
  <2>5. CASE ~Fits(MNL_ATTR_HDRLEN) /\ pc' = "send" /\ UNCHANGED len
    <3> HIDE DEF IInv, StartAllowedIps
    <3>1. sent # <<>> => Progressed
      BY SMTT(60), <2>1, <2>2, <2>5, SizeFacts DEF Fits
    <3> QED
      BY ZenonT(60), <3>1, <2>1, <2>3, <2>5 DEF RoomInv, MessageMakesProgress, Progressed
  <2> QED
    BY Zenon, <2>4, <2>5
<1> QED
  BY <1>1, <1>2, <1>3, <1>4

(* PutAllowedIp moves the end of the last entry on by one, or sends. *)
LEMMA PutAllowedIpPreserves == IInv /\ PutAllowedIp => IInv'
<1> SUFFICES ASSUME IInv, PutAllowedIp PROVE IInv'
  OBVIOUS
<1> DEFINE size == AllowedIpAttrs(Peers[peer].aips[allowedip])
           x == msg[Len(msg)]
           e == [x EXCEPT !.to = allowedip + 1]
<1> USE DEF IInv
<1>1. /\ dev \in Devices /\ dev' = dev /\ Len(Peers) \in Nat /\ Peers' = Peers
      /\ peer \in 1..Len(Peers) /\ NAips(dev, peer) \in Nat /\ allowedip \in 1..NAips(dev, peer)
      /\ len \in Nat /\ msg \in Seq(Entry) /\ sent \in Seq(Entry)
      /\ Len(msg) \in Nat /\ Len(msg) \in 1..Len(msg) /\ msg # <<>>
  BY SMTT(60), NAipsFacts, EmptyFacts DEF TypeOK, Peers, CursorInv, PutAllowedIp
<1>2. size \in Nat /\ size <= MaxAllowedIp
  BY <1>1, NAipsFacts, AllowedIpBound DEF Peers
<1>3. /\ pc = "aip" /\ ret = "none" /\ log = sent
      /\ UNCHANGED <<dev, sent, log, reply, ret>>
  BY DEF PutAllowedIp, LogInv
<1>4. x \in Entry /\ x.peer = peer /\ x.to = allowedip
  BY <1>1, <1>3 DEF CursorInv, EndsAt, LastEntry
<1>5. CASE ~Fits(size) /\ pc' = "send" /\ UNCHANGED <<peer, allowedip, len, msg>>
  <2>1. CursorInv'
    BY ZenonT(60), <1>1, <1>3, <1>5 DEF CursorInv, LastPut, LastEntry
  <2>2. MessageMakesProgress'
    <3>0. sent # <<>> /\ ~Progressed =>
            len <= MsgHeader + MNL_ATTR_HDRLEN + MaxPeerHeader + MNL_ATTR_HDRLEN
      BY Zenon, <1>3 DEF RoomInv
    <3> HIDE DEF IInv, size
    <3>1. sent # <<>> => Progressed
      BY SMTT(60), <3>0, <1>1, <1>2, <1>5, SizeFacts DEF Fits
    <3> QED
      BY ZenonT(60), <3>1, <1>3, <1>5 DEF MessageMakesProgress, Progressed
  <2> QED
    BY Zenon, <2>1, <2>2, <1>1, <1>3, <1>5
    DEF TypeOK, LogInv, SuccessMeansApplied, WithinBuffer, RoomInv
<1>6. CASE /\ Fits(size)
           /\ len' = len + size
           /\ msg' = [msg EXCEPT ![Len(msg)].to = allowedip + 1]
           /\ IF allowedip = NAips(dev, peer)
                THEN NextPeer /\ allowedip' = 0
                ELSE allowedip' = allowedip + 1 /\ UNCHANGED <<pc, peer>>
  <2>1. /\ e \in Entry /\ e.to = allowedip + 1
        /\ e.peer = peer /\ e.first = x.first /\ e.from = x.from
    <3> HIDE DEF x
    <3>1. allowedip + 1 \in Nat
      BY <1>1
    <3> QED
      BY <3>1, <1>4, CutEntry
  <2>2. msg' = [msg EXCEPT ![Len(msg)] = e]
    BY <1>6
  <2>3. /\ msg' \in Seq(Entry) /\ Len(msg') = Len(msg) /\ msg' # <<>>
        /\ \A k \in 1..Len(msg) : msg'[k] = IF k = Len(msg) THEN e ELSE msg[k]
    <3>1. /\ msg' \in Seq(Entry) /\ Len(msg') = Len(msg)
          /\ \A k \in 1..Len(msg) : msg'[k] = IF k = Len(msg) THEN e ELSE msg[k]
      BY <2>1, <2>2, <1>1, UpdateFacts
    <3> QED
      BY <3>1, <1>1, EmptyFacts
  <2>4. InRange(dev, x)
    BY <1>1 DEF Continues
  <2> HIDE DEF e
  <2>5. InRange(dev, e)
    BY SMTT(60), <2>1, <2>4, <1>1, <1>4 DEF InRange, Entry, Peers
  <2>6. Continues(dev, sent, msg')
    BY ZenonT(60), <2>1, <2>2, <2>5, <1>1, <1>4, ExtendContinues DEF LastEntry
  <2>7. len' \in Nat /\ len' <= SOCKET_BUFFER_SIZE
    BY <1>1, <1>2, <1>6 DEF Fits
  <2>8. sent # <<>> => Progressed'
    <3>1. CASE Progressed
      <4>1. msg'[1].first = msg[1].first /\ msg'[1].from = msg[1].from
        BY <2>1, <2>3, <1>1
      <4>2. msg'[1].to = msg[1].to \/ (msg[1] = x /\ msg'[1] = e)
        BY <2>3, <1>1
      <4>3. msg[1].from < msg[1].to => msg'[1].from < msg'[1].to
        <5>1. CASE msg'[1].to = msg[1].to
          BY <5>1, <4>1
        <5>2. CASE msg[1] = x /\ msg'[1] = e
          <6> HIDE DEF x
          <6>1. x.from \in Nat /\ x.to = allowedip /\ e.to = allowedip + 1 /\ e.from = x.from
            BY <2>1, <1>4 DEF Entry
          <6>2. x.from < x.to => e.from < e.to
            BY <6>1, <1>1
          <6> QED
            BY <6>2, <5>2
        <5> QED
          BY <4>2, <5>1, <5>2
      <4> QED
        BY <3>1, <4>1, <4>3, <2>3 DEF Progressed
    <3>2. CASE ~Progressed /\ sent # <<>>
      <4>1. Len(msg) = 1
        BY <3>2, <1>3 DEF RoomInv
      <4>2. msg'[1] = e /\ e.from <= allowedip /\ e.from \in Nat
        BY <4>1, <2>1, <2>3, <2>4, <1>1, <1>4 DEF InRange, Entry
      <4> QED
        BY <4>2, <2>1, <2>3, <1>1 DEF Progressed
    <3> QED
      BY <3>1, <3>2
  <2>9. CASE allowedip = NAips(dev, peer)
    <3> HIDE DEF IInv, size
    <3>1. NextPeer /\ allowedip' = 0
      BY <2>9, <1>6
    <3>2. /\ peer' \in 0..Len(Peers) /\ pc' \in {"send", "peer"}
          /\ pc' = "peer" => peer' # 0
      BY <3>1, <1>1 DEF NextPeer
    <3>3. TypeOK'
      BY SMTT(60), <3>1, <3>2, <2>3, <2>7, <1>1, <1>3, NAipsFacts DEF IInv, TypeOK, Peers
    <3>4. EndsAt(dev, peer', allowedip', e)
      BY <3>1, <2>1, <2>9, <1>1 DEF NextPeer, EndsAt, Complete, Peers
    <3>5. CursorInv'
      BY <3>1, <3>2, <3>4, <2>3, <1>1 DEF CursorInv, LastPut, LastEntry
    <3>6. RoomInv' /\ MessageMakesProgress'
      BY <3>1, <3>2, <2>3, <2>8, <1>3 DEF RoomInv, MessageMakesProgress, Progressed
    <3> QED
      BY <3>2, <3>3, <3>5, <3>6, <2>6, <2>7, <1>3 DEF IInv, LogInv, SuccessMeansApplied, WithinBuffer
  <2>10. CASE allowedip # NAips(dev, peer)
    <3> HIDE DEF IInv, size
    <3>1. allowedip' = allowedip + 1 /\ pc' = "aip" /\ peer' = peer
      BY <2>10, <1>3, <1>6
    <3>2. TypeOK'
      BY SMTT(60), <3>1, <2>3, <2>7, <2>10, <1>1, <1>3 DEF IInv, TypeOK
    <3>3. EndsAt(dev, peer', allowedip', e)
      BY <3>1, <2>1, <1>1 DEF EndsAt
    <3>4. CursorInv'
      BY <3>1, <3>3, <2>3, <1>1 DEF CursorInv, LastEntry
    <3>5. RoomInv'
      BY <3>1, <2>8, <1>3 DEF RoomInv
    <3> QED
      BY <3>1, <3>2, <3>4, <3>5, <2>6, <2>7, <1>3
      DEF IInv, LogInv, SuccessMeansApplied, WithinBuffer, MessageMakesProgress
  <2> QED
    BY <2>9, <2>10
<1> QED
  BY <1>5, <1>6 DEF PutAllowedIp

(* Send moves the message to what was sent, and the kernel applies it or a   *)
(* part of it.                                                               *)
LEMMA SendPreserves == IInv /\ Send => IInv'
<1> SUFFICES ASSUME IInv, Send PROVE IInv'
  OBVIOUS
<1> USE DEF IInv
<1>1. /\ dev \in Devices /\ dev' = dev /\ Peers' = Peers
      /\ msg \in Seq(Entry) /\ sent \in Seq(Entry)
      /\ Len(msg) \in Nat /\ (msg = <<>> <=> Len(msg) = 0)
      /\ Len(sent) \in Nat /\ (sent = <<>> <=> Len(sent) = 0)
      /\ pc = "send" /\ ret = "none" /\ log = sent
      /\ UNCHANGED <<dev, peer, allowedip, len>>
  BY EmptyFacts DEF TypeOK, Peers, Send, LogInv
<1>2. /\ sent # <<>> \/ msg # <<>>
      /\ EndsAt(dev, peer, allowedip, LastPut)
  BY <1>1 DEF CursorInv
<1>3. CASE /\ pc' = "recv"
           /\ sent' = sent \o msg
           /\ msg' = <<>>
           /\ ApplyAll \/ ApplySome
           /\ UNCHANGED ret
  <2>1. InOrder(dev, sent \o msg)
    BY <1>1, JoinInOrder
  <2>2. /\ sent \o msg \in Seq(Entry) /\ Len(sent \o msg) = Len(sent) + Len(msg)
        /\ \A k \in 1..Len(sent) : (sent \o msg)[k] = sent[k]
        /\ \A k \in 1..Len(msg) : (sent \o msg)[Len(sent) + k] = msg[k]
    BY <1>1, ConcatFacts
  <2>3. sent' # <<>> /\ LastEntry(sent') = LastPut
    <3>1. Len(sent') # 0 /\ Len(sent') = Len(sent) + Len(msg)
      BY <2>2, <1>1, <1>2, <1>3
    <3>2. CASE msg = <<>>
      BY <3>1, <3>2, <2>2, <1>1, <1>3 DEF LastEntry, LastPut
    <3>3. CASE msg # <<>>
      BY <3>1, <3>3, <2>2, <1>1, <1>3 DEF LastEntry, LastPut
    <3> QED
      BY <3>2, <3>3
  <2>4. log' \in Seq(Entry) /\ InOrder(dev, log') /\ (reply' = "ok" => log' = sent')
        /\ reply' \in {"ok", "error"}
    <3>1. CASE ApplyAll
      BY <3>1, <2>1, <2>2, <1>1, <1>3 DEF ApplyAll
    <3>2. CASE log' = log /\ reply' = "error"
      BY <3>2, <1>1
    <3>3. ASSUME NEW k \in 1..Len(msg), NEW to \in msg[k].from .. msg[k].to,
                 log' = log \o Append(SubSeq(msg, 1, k - 1), [msg[k] EXCEPT !.to = to]),
                 reply' = "error"
          PROVE  log' \in Seq(Entry) /\ InOrder(dev, log')
      <4> DEFINE c == Append(SubSeq(msg, 1, k - 1), [msg[k] EXCEPT !.to = to])
      <4>1. c \in Seq(Entry) /\ Continues(dev, sent, c)
        BY <1>1, CutContinues
      <4>2. log' = sent \o c
        BY <3>3, <1>1
      <4> HIDE DEF c
      <4>3. sent \o c \in Seq(Entry) /\ InOrder(dev, sent \o c)
        BY <4>1, <1>1, JoinInOrder, ConcatFacts
      <4> QED
        BY <4>2, <4>3
    <3> QED
      BY Zenon, <3>1, <3>2, <3>3, <1>3 DEF ApplySome
  <2>5. TypeOK'
    BY <2>2, <2>4, <1>1, <1>3 DEF TypeOK
  <2>6. InOrder(dev, sent)' /\ Continues(dev, sent, msg)' /\ InOrder(dev, log)'
    BY <2>1, <2>4, <1>1, <1>3 DEF Continues
  <2>7. CursorInv'
    BY <2>3, <1>1, <1>2, <1>3 DEF CursorInv
  <2>8. LogInv' /\ SuccessMeansApplied' /\ WithinBuffer'
    BY <2>4, <1>1, <1>3 DEF LogInv, SuccessMeansApplied, WithinBuffer
  <2>9. RoomInv' /\ MessageMakesProgress'
    BY <1>3 DEF RoomInv, MessageMakesProgress
  <2> QED
    BY <2>5, <2>6, <2>7, <2>8, <2>9
<1>4. CASE pc' = "done" /\ ret' = "error" /\ UNCHANGED <<msg, sent, log, reply>>
  BY Zenon, <1>1, <1>4
  DEF TypeOK, CursorInv, LogInv, SuccessMeansApplied, WithinBuffer, RoomInv, MessageMakesProgress
<1> QED
  BY <1>3, <1>4 DEF Send

(* Recv goes back to `again` while peer is not NULL and returns otherwise. *)
LEMMA RecvPreserves == IInv /\ Recv => IInv'
<1> SUFFICES ASSUME IInv, Recv PROVE IInv'
  OBVIOUS
<1> USE DEF IInv, Recv, PeersLeft
<1>1. TypeOK' /\ WithinBuffer'
  BY DEF TypeOK, Peers, WithinBuffer
<1>2. InOrder(dev, sent)' /\ Continues(dev, sent, msg)' /\ InOrder(dev, log)'
  OBVIOUS
<1>3. CursorInv' /\ LogInv'
  BY DEF CursorInv, LogInv
<1>4. SuccessMeansApplied'
  <2>1. CASE ret' = "ok"
    <3>1. peer = 0 /\ log = sent
      BY <2>1 DEF LogInv, TypeOK
    <3>2. sent # <<>> /\ EndsAt(dev, 0, allowedip, LastEntry(sent))
      BY <3>1 DEF CursorInv
    <3>3. allowedip = 0
      BY <3>1, NAipsFacts DEF TypeOK
    <3> QED
      BY <2>1, <3>1, <3>2, <3>3 DEF SuccessMeansApplied, EndsAt, LastEntry, Peers
  <2>2. CASE ret' # "ok"
    BY <2>2 DEF SuccessMeansApplied
  <2> QED
    BY <2>1, <2>2
<1>5. RoomInv' /\ MessageMakesProgress'
  BY DEF RoomInv, MessageMakesProgress
<1> QED
  BY <1>1, <1>2, <1>3, <1>4, <1>5

(* A step that changes nothing. *)
LEMMA StutterPreserves == IInv /\ UNCHANGED vars => IInv'
BY Zenon DEF IInv, vars, TypeOK, Peers, CursorInv, LogInv, SuccessMeansApplied, WithinBuffer, RoomInv,
       MessageMakesProgress, Progressed, LastPut

-----------------------------------------------------------------------------
(* IInv is an invariant of kernel_set_device: the pointers, the message being *)
(* built, what was sent and what the kernel applied always belong together.   *)
THEOREM Invariance == Spec => []IInv
<1>1. Init => IInv
  BY InitEstablishes
<1>2. IInv /\ [Next]_vars => IInv'
  BY OpenPreserves, PreparePreserves, PutPeerPreserves, StartAllowedIpsPreserves,
     PutAllowedIpPreserves, SendPreserves, RecvPreserves, StutterPreserves
  DEF Next
<1> QED
  BY <1>1, <1>2, PTL DEF Spec

(* Type correctness: the pointers never leave the lists of the configuration. *)
THEOREM TypeCorrect == Spec => []TypeOK
<1>1. IInv => TypeOK
  BY DEF IInv
<1> QED
  BY <1>1, Invariance, PTL

(* Whatever the configuration, the kernel applies it in order, nothing twice  *)
(* and nothing skipped, and REPLACE flags and attributes in the first         *)
(* fragment only.                                                             *)
THEOREM DeliveryInOrder == Spec => []AppliedInOrder
<1>1. IInv => AppliedInOrder
  BY DEF IInv, AppliedInOrder
<1> QED
  BY <1>1, Invariance, PTL

(* kernel_set_device returns 0 only after the whole configuration was applied. *)
THEOREM SuccessIsComplete == Spec => []SuccessMeansApplied
<1>1. IInv => SuccessMeansApplied
  BY DEF IInv
<1> QED
  BY <1>1, Invariance, PTL

(* No message grows past the buffer of SOCKET_BUFFER_SIZE bytes. *)
THEOREM NoOverflow == Spec => []WithinBuffer
<1>1. IInv => WithinBuffer
  BY DEF IInv
<1> QED
  BY <1>1, Invariance, PTL

(* Every message after the first brings a new peer or a new allowed IP. *)
THEOREM Progress == Spec => []MessageMakesProgress
<1>1. IInv => MessageMakesProgress
  BY DEF IInv
<1> QED
  BY <1>1, Invariance, PTL
=============================================================================
