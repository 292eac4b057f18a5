------------------------ MODULE SyncDifferenceProofs ------------------------
(***************************************************************************)
(* What writing the difference does, for every file, every interface and   *)
(* every order of the equal elements that qsort may choose: lemmas about   *)
(* the operators of SyncConf.  They say which entries the difference that  *)
(* sync_conf computes consists of, what they leave of each peer and which  *)
(* peers they spare, and how the interface compares with the one that      *)
(* writing the whole file makes.                                           *)
(***************************************************************************)
EXTENDS SyncConf, KernelConfigProofs

-----------------------------------------------------------------------------
(* The removals. *)

Gone(rt, d) == Existing(rt) \ KeysOf(d)
Prepend(G, rs, k) == IF k \in G THEN <<Removal(k)>> \o rs ELSE rs

(* The removals made of the first 0, 1, 2, ... keys. *)
RemovalsVia(rt, d, h) ==
    /\ h \in [0..Len(KeyOrder) -> Seq(WgPeer)]
    /\ h[0] = <<>>
    /\ \A i \in 1..Len(KeyOrder) : h[i] = Prepend(Gone(rt, d), h[i - 1], KeyOrder[i])
    /\ h[Len(KeyOrder)] = Removals(rt, d)

(* A removal is an entry of a configuration. *)
LEMMA RemovalFacts ==
    ASSUME NEW k \in Keys
    PROVE  /\ Removal(k) \in WgPeer
           /\ Removal(k).key = k /\ Removal(k).remove
<1>1. <<>> \in Seq(WgAllowedIp)
  OBVIOUS
<1> QED
  BY <1>1 DEF Removal, WgPeer

(* What a removal says, of whichever key. *)
LEMMA RemovalFields ==
    \A k : Removal(k).key = k /\ Removal(k).remove /\ Removal(k).endpoint = NULL
BY Zenon DEF Removal

(* The peers of a configuration. *)
LEMMA PeersOfDev ==
    ASSUME NEW d \in WgDev
    PROVE  Len(d.peers) \in Nat /\ \A i \in 1..Len(d.peers) : d.peers[i] \in WgPeer
<1>1. d.peers \in Seq(WgPeer)
  BY Zenon DEF WgDev
<1> QED
  BY <1>1

(* One more removal in front. *)
LEMMA PrependFacts ==
    ASSUME NEW G, NEW rs \in Seq(WgPeer), NEW k \in Keys
    PROVE  /\ Prepend(G, rs, k) \in Seq(WgPeer)
           /\ k \notin G => Prepend(G, rs, k) = rs
           /\ k \in G => /\ Len(Prepend(G, rs, k)) = Len(rs) + 1
                         /\ Prepend(G, rs, k)[1] = Removal(k)
                         /\ \A i \in 1..Len(rs) : Prepend(G, rs, k)[i + 1] = rs[i]
<1> DEFINE r == Removal(k)
<1>1. r \in WgPeer
  BY RemovalFacts
<1> HIDE DEF r
<1>2. <<r>> \in Seq(WgPeer) /\ Len(<<r>>) = 1 /\ <<r>>[1] = r
  BY <1>1
<1>3. /\ <<r>> \o rs \in Seq(WgPeer) /\ Len(<<r>> \o rs) = Len(rs) + 1
      /\ (<<r>> \o rs)[1] = r
      /\ \A i \in 1..Len(rs) : (<<r>> \o rs)[i + 1] = rs[i]
  BY <1>1, <1>2
<1> QED
  BY <1>3 DEF Prepend, r

(* The fold over the keys goes through such a sequence. *)
LEMMA RemovalsHistory ==
    ASSUME NEW rt, NEW d
    PROVE  \E h : RemovalsVia(rt, d, h)
<1> DEFINE s == KeyOrder
           n == Len(s)
           G == Gone(rt, d)
           V == Seq(WgPeer)
           Fn(iter) == [t \in SUBSET (1..n) |->
                          IF t = {} THEN <<>> ELSE Prepend(G, iter[t \ {Greatest(t)}], s[Greatest(t)])]
           It == CHOOSE iter : iter = Fn(iter)
<1>1. n \in Nat /\ DOMAIN s = 1..n /\ \A i \in 1..n : s[i] \in Keys
  BY KeyOrderAssumption
<1>0. <<>> \in V
  OBVIOUS
<1> HIDE DEF G
<1>2. \E iter : iter = Fn(iter)
  <2> DEFINE step == [i \in 1..n |-> [rs \in V |-> Prepend(G, rs, s[i])]]
  <2>1. step \in [1..n -> [V -> V]]
    BY <1>1, PrependFacts
  <2>2. PICK iter \in [SUBSET (1..n) -> V] : Iterates(n, <<>>, step, iter)
    <3> HIDE DEF step, n, V
    <3> QED
      BY Zenon, <1>0, <1>1, <2>1, FoldExists
  <2>3. ASSUME NEW t \in SUBSET (1..n), t # {}
        PROVE iter[t] = Prepend(G, iter[t \ {Greatest(t)}], s[Greatest(t)])
    <3>1. Greatest(t) \in 1..n /\ iter[t \ {Greatest(t)}] \in V
      BY Zenon, <1>1, <2>3, GreatestFacts
    <3>2. step[Greatest(t)][iter[t \ {Greatest(t)}]] = Prepend(G, iter[t \ {Greatest(t)}], s[Greatest(t)])
      BY <3>1
    <3> HIDE DEF step
    <3> QED
      BY Zenon, <2>2, <2>3, <3>2 DEF Iterates
  <2>4. \A t \in SUBSET (1..n) : iter[t] = Fn(iter)[t]
    BY Zenon, <2>2, <2>3 DEF Iterates
  <2> HIDE DEF step
  <2> QED
    BY Zenon, <2>4
<1>3. It = Fn(It)
  <2> HIDE DEF Fn
  <2> QED
    BY <1>2
<1>4. Removals(rt, d) = It[1..n]
  BY <1>1 DEF Removals, InTurn, MapThenFoldSet, Prepend, Gone, G
<1> DEFINE h == PrefixFolds(n, It)
<1>5. PrefixesFollow(n, It, h)
  <2> HIDE DEF It, n
  <2> QED
    BY <1>1, PrefixValues
<1>6. h[0] = <<>>
  <2>1. {} \in SUBSET (1..n)
    OBVIOUS
  <2> HIDE DEF It, h
  <2> QED
    BY <1>3, <1>5, <2>1 DEF PrefixesFollow
<1>7. ASSUME NEW i \in 1..n PROVE h[i] = Prepend(G, h[i - 1], s[i])
  <2>1. It[1..i] = Fn(It)[1..i] /\ 1..i \in SUBSET (1..n) /\ 1..i # {} /\ Greatest(1..i) = i
    BY Zenon, <1>3, <1>5 DEF PrefixesFollow
  <2>2. Fn(It)[1..i] = Prepend(G, It[(1..i) \ {i}], s[i])
    <3> HIDE DEF It
    <3> QED
      BY Zenon, <2>1
  <2> HIDE DEF It, h, Fn
  <2> QED
    BY Zenon, <1>5, <2>1, <2>2 DEF PrefixesFollow
<1> HIDE DEF It, h
<1>8. h \in [0..n -> V]
  <2> DEFINE S == {i \in 0..n : h[i] \in V}
  <2>1. 0 \in S
    <3> HIDE DEF V
    <3> QED
      BY <1>0, <1>1, <1>6
  <2>2. ASSUME NEW i \in 1..n, i - 1 \in S PROVE i \in S
    BY <1>1, <2>2, <1>7, PrependFacts
  <2> HIDE DEF S
  <2>3. \A i \in 0..n : i \in S
    BY Zenon, <1>1, <2>1, <2>2, InductionUpTo
  <2> QED
    BY <2>3 DEF S, h, PrefixFolds
<1> QED
  BY SMTT(60), <1>1, <1>4, <1>5, <1>6, <1>7, <1>8 DEF PrefixesFollow, RemovalsVia, G

OnlyRemovals(s, G) == \A i \in 1..Len(s) : \E k \in G : s[i] = Removal(k)
HasRemoval(s, k) == \E i \in 1..Len(s) : s[i] = Removal(k)

(* One more removal in front, seen as a list of removals. *)
LEMMA PrependRemoval ==
    ASSUME NEW G, NEW rs \in Seq(WgPeer), NEW k \in Keys, OnlyRemovals(rs, G)
    PROVE  /\ OnlyRemovals(Prepend(G, rs, k), G)
           /\ k \in G => HasRemoval(Prepend(G, rs, k), k)
           /\ \A j : HasRemoval(rs, j) => HasRemoval(Prepend(G, rs, k), j)
<1> DEFINE s == Prepend(G, rs, k)
<1>1. CASE k \notin G
  BY <1>1, PrependFacts
<1>2. CASE k \in G
  <2>1. /\ s \in Seq(WgPeer) /\ Len(s) = Len(rs) + 1 /\ s[1] = Removal(k)
        /\ \A i \in 1..Len(rs) : s[i + 1] = rs[i]
    BY <1>2, PrependFacts
  <2> HIDE DEF s
  <2>2. Len(rs) \in Nat /\ 1 \in 1..Len(s)
    BY <2>1
  <2>3. ASSUME NEW i \in 1..Len(s) PROVE \E j \in G : s[i] = Removal(j)
    <3>1. CASE i = 1
      BY <1>2, <2>1, <3>1
    <3>2. CASE i # 1
      <4>1. i - 1 \in 1..Len(rs) /\ (i - 1) + 1 = i
        BY <2>1, <2>2, <3>2
      <4>2. s[i] = rs[i - 1]
        BY <2>1, <4>1
      <4> QED
        BY <4>1, <4>2 DEF OnlyRemovals
    <3> QED
      BY <3>1, <3>2
  <2>4. ASSUME NEW j, HasRemoval(rs, j) PROVE HasRemoval(s, j)
    <3>1. PICK i \in 1..Len(rs) : rs[i] = Removal(j)
      BY <2>4 DEF HasRemoval
    <3>2. i + 1 \in 1..Len(s) /\ s[i + 1] = Removal(j)
      BY SMTT(60), <2>1, <2>2, <3>1
    <3> QED
      BY <3>2 DEF HasRemoval
  <2> QED
    BY <2>1, <2>2, <2>3, <2>4 DEF OnlyRemovals, HasRemoval, s
<1> QED
  BY <1>1, <1>2

(* sync_conf puts exactly the peers that are on the interface and not in the *)
(* file in front of the file's entries, as removals.                         *)
LEMMA RemovalsFacts ==
    ASSUME NEW rt, NEW d
    PROVE  /\ Removals(rt, d) \in Seq(WgPeer)
           /\ OnlyRemovals(Removals(rt, d), Gone(rt, d))
           /\ \A k \in Gone(rt, d) : HasRemoval(Removals(rt, d), k)
<1> DEFINE n == Len(KeyOrder)
           G == Gone(rt, d)
<1>1. PICK h : RemovalsVia(rt, d, h)
  BY RemovalsHistory
<1>2. n \in Nat /\ \A i \in 1..n : KeyOrder[i] \in Keys
  BY KeyOrderAssumption
<1>3. /\ h[0] = <<>> /\ h[n] = Removals(rt, d)
      /\ \A i \in 0..n : h[i] \in Seq(WgPeer)
      /\ \A i \in 1..n : h[i] = Prepend(G, h[i - 1], KeyOrder[i])
  BY <1>1 DEF RemovalsVia
<1> HIDE DEF G
<1> DEFINE S == {i \in 0..n : /\ OnlyRemovals(h[i], G)
                              /\ \A m \in 1..i : KeyOrder[m] \in G => HasRemoval(h[i], KeyOrder[m])}
<1>4. 0 \in S
  <2>1. OnlyRemovals(<<>>, G)
    BY DEF OnlyRemovals
  <2> QED
    BY <1>2, <1>3, <2>1
<1>5. ASSUME NEW i \in 1..n, i - 1 \in S PROVE i \in S
  <2>1. OnlyRemovals(h[i - 1], G) /\ h[i - 1] \in Seq(WgPeer)
    BY <1>2, <1>3, <1>5
  <2>2. /\ OnlyRemovals(h[i], G)
        /\ KeyOrder[i] \in G => HasRemoval(h[i], KeyOrder[i])
        /\ \A j : HasRemoval(h[i - 1], j) => HasRemoval(h[i], j)
    <3>1. KeyOrder[i] \in Keys /\ h[i] = Prepend(G, h[i - 1], KeyOrder[i])
      BY <1>2, <1>3
    <3> QED
      BY <2>1, <3>1, PrependRemoval
  <2>3. ASSUME NEW m \in 1..i, KeyOrder[m] \in G PROVE HasRemoval(h[i], KeyOrder[m])
    <3>1. m = i \/ m \in 1..(i - 1)
      BY <1>2
    <3> QED
      BY <1>5, <2>2, <2>3, <3>1
  <2> QED
    BY <1>2, <2>2, <2>3
<1> HIDE DEF S
<1>6. \A i \in 0..n : i \in S
  BY Zenon, <1>2, <1>4, <1>5, InductionUpTo
<1>7. n \in S
  BY <1>2, <1>6
<1>8. \A k \in G : \E m \in 1..n : KeyOrder[m] = k
  <2>1. G \subseteq Keys
    BY DEF G, Gone, Existing
  <2> QED
    BY <2>1, KeyOrderAssumption
<1> QED
  BY <1>2, <1>3, <1>7, <1>8 DEF S, G

-----------------------------------------------------------------------------
(* The entries of the file. *)

(* Entry q is p with its unset fields reset if the peer r has them; or p itself. *)
SameEntry(p, q) ==
    /\ q \in WgPeer
    /\ q.key = p.key /\ q.remove = p.remove /\ q.replace = p.replace
    /\ q.endpoint = p.endpoint /\ q.aips = p.aips
ResetEntry(r, p, q) ==
    /\ SameEntry(p, q)
    /\ q.psk = (IF r.psk # NULL /\ p.psk = NULL THEN "zero" ELSE p.psk)
    /\ q.ka = (IF r.ka # 0 /\ p.ka = NULL THEN 0 ELSE p.ka)

(* A reset changes the preshared key and the keepalive only. *)
LEMMA ResetFacts ==
    ASSUME NEW r, NEW p \in WgPeer
    PROVE  ResetEntry(r, p, ResetUnset(r, p))
<1>1. "zero" \in Secrets /\ 0 \in Nat
  BY ZeroAssumption
<1> QED
  BY Zenon, <1>1 DEF ResetEntry, SameEntry, ResetUnset, WgPeer

IsHit(rt, d, hit, i) == d.peers[i].key \in Both(rt, d) /\ hit[d.peers[i].key] = i

(* Entry by entry, the entries of the file as sync_conf leaves them. *)
EditedEntries(rt, d, hit, s) ==
    /\ s \in Seq(WgPeer) /\ Len(s) = Len(d.peers)
    /\ \A i \in 1..Len(d.peers) :
         IF IsHit(rt, d, hit, i) THEN ResetEntry(rt[d.peers[i].key], d.peers[i], s[i])
                                 ELSE s[i] = d.peers[i]

(* What sync_conf leaves of the entries of the file. *)
LEMMA EditedFacts ==
    ASSUME NEW rt, NEW d \in WgDev, NEW hit
    PROVE  EditedEntries(rt, d, hit, Edited(rt, d, hit))
<1> DEFINE n == Len(d.peers)
           E(i) == IF IsHit(rt, d, hit, i) THEN ResetUnset(rt[d.peers[i].key], d.peers[i])
                   ELSE d.peers[i]
           s == [i \in 1..n |-> E(i)]
<1>1. d.peers \in Seq(WgPeer) /\ n \in Nat /\ \A i \in 1..n : d.peers[i] \in WgPeer
  BY DEF WgDev
<1>2. Edited(rt, d, hit) = s
  BY DEF Edited, IsHit
<1>3. ASSUME NEW i \in 1..n PROVE E(i) \in WgPeer
  BY <1>1, ResetFacts DEF ResetEntry, SameEntry
<1> HIDE DEF E
<1>4. s \in Seq(WgPeer) /\ Len(s) = n /\ \A i \in 1..n : s[i] = E(i)
  BY <1>1, <1>3
<1>5. ASSUME NEW i \in 1..n, IsHit(rt, d, hit, i)
      PROVE  ResetEntry(rt[d.peers[i].key], d.peers[i], E(i))
  BY <1>1, <1>5, ResetFacts DEF E
<1>6. ASSUME NEW i \in 1..n, ~IsHit(rt, d, hit, i)
      PROVE  E(i) = d.peers[i]
  BY <1>6 DEF E
<1> HIDE DEF s
<1> QED
  BY <1>2, <1>4, <1>5, <1>6 DEF EditedEntries

(* The difference: removals, then the file's entries. *)
DiffOf(rt, d, hit, e, rs, s) ==
    /\ e \in WgDev /\ ~e.replace
    /\ e.priv = d.priv /\ e.port = d.port /\ e.fwmark = d.fwmark
    /\ e.peers = rs \o s
    /\ rs \in Seq(WgPeer) /\ OnlyRemovals(rs, Gone(rt, d))
    /\ \A k \in Gone(rt, d) : HasRemoval(rs, k)
    /\ EditedEntries(rt, d, hit, s)

(* What sync_conf makes of the file: removals, then the edited entries. *)
LEMMA DifferenceFacts ==
    ASSUME NEW rt, NEW d \in WgDev, NEW hit
    PROVE  DiffOf(rt, d, hit, Difference(rt, d, hit), Removals(rt, d), Edited(rt, d, hit))
<1> DEFINE rs == Removals(rt, d)
           s == Edited(rt, d, hit)
<1>1. /\ rs \in Seq(WgPeer) /\ OnlyRemovals(rs, Gone(rt, d))
      /\ \A k \in Gone(rt, d) : HasRemoval(rs, k)
  BY RemovalsFacts
<1>2. s \in Seq(WgPeer) /\ EditedEntries(rt, d, hit, s)
  BY ZenonT(60), EditedFacts DEF EditedEntries
<1>3. Difference(rt, d, hit) = [d EXCEPT !.replace = FALSE, !.peers = rs \o s]
  BY DEF Difference, SyncReplaces
<1> HIDE DEF rs, s
<1>4. rs \o s \in Seq(WgPeer)
  BY <1>1, <1>2
<1> DEFINE t == rs \o s
<1> HIDE DEF t
<1>5. LET e == [d EXCEPT !.replace = FALSE, !.peers = t]
      IN /\ e \in WgDev /\ ~e.replace
         /\ e.priv = d.priv /\ e.port = d.port /\ e.fwmark = d.fwmark
         /\ e.peers = t
  BY ZenonT(60), <1>4 DEF WgDev, t
<1> QED
  BY <1>1, <1>2, <1>3, <1>5 DEF DiffOf, rs, s, t

-----------------------------------------------------------------------------
(* Peers, entry by entry. *)

(* One entry changes its own peer only: it removes or updates it. *)
LEMMA WholePeer ==
    ASSUME NEW f \in Iface, NEW p \in WgPeer
    PROVE  /\ SetWhole(f, p) \in Iface
           /\ SetWhole(f, p).priv = f.priv
           /\ SetWhole(f, p).port = f.port
           /\ SetWhole(f, p).fwmark = f.fwmark
           /\ \A k \in Keys : k # p.key => SetWhole(f, p).peers[k] = f.peers[k]
           /\ p.remove => SetWhole(f, p).peers[p.key] = NULL
           /\ ~p.remove => /\ SetWhole(f, p).peers[p.key] = UpdatedPeer(f, p)
                           /\ UpdatedPeer(f, p) \in KernelPeer
<1> DEFINE g == SetWhole(f, p)
           h == SetPeer(f, p, TRUE, UserFlags(p))
<1>1. NestRange(p, 1, Len(p.aips) + 1)
  BY DEF NestRange, WgPeer
<1>2. g \in Iface /\ g.priv = f.priv /\ g.port = f.port /\ g.fwmark = f.fwmark /\ g.peers = h.peers
  <2>1. PICK m : m = Len(p.aips) + 1
    OBVIOUS
  <2>2. NestRange(p, 1, m)
    BY <1>1, <2>1
  <2>3. \A b \in BOOLEAN :
          LET k == SetNest(f, p, b, UserFlags(p), 1, m)
          IN /\ k \in Iface /\ k.priv = f.priv /\ k.port = f.port /\ k.fwmark = f.fwmark
             /\ k.peers = SetPeer(f, p, b, UserFlags(p)).peers
    BY <2>2, SetNestFacts
  <2>4. TRUE \in BOOLEAN
    OBVIOUS
  <2>5. LET k == SetNest(f, p, TRUE, UserFlags(p), 1, m)
        IN /\ k \in Iface /\ k.priv = f.priv /\ k.port = f.port /\ k.fwmark = f.fwmark
           /\ k.peers = SetPeer(f, p, TRUE, UserFlags(p)).peers
    BY <2>3, <2>4, Zenon
  <2> QED
    BY <2>1, <2>5, Zenon DEF SetWhole
<1>3. HeaderFields(f, p, TRUE, UserFlags(p), h)
  BY Zenon, SetPeerFields
<1>4. "REMOVE_ME" \in UserFlags(p) <=> p.remove
  BY DEF UserFlags, WgPeer
<1> HIDE DEF g, h
<1>5. /\ \A k \in Keys : k # p.key => h.peers[k] = f.peers[k]
      /\ p.remove => h.peers[p.key] = NULL
      /\ ~p.remove => h.peers[p.key] = UpdatedPeer(f, p) /\ h.peers[p.key] \in KernelPeer
  BY <1>3, <1>4 DEF HeaderFields
<1> QED
  BY <1>2, <1>5 DEF g

(* Device e leaves peer k on the interface. *)
Spares(e, k) ==
    ~e.replace /\ \A i \in 1..Len(e.peers) : e.peers[i].key = k => ~e.peers[i].remove

(* The device that sync_conf makes removes only peers that were read and that *)
(* the file does not have.                                                    *)
LEMMA DifferenceSpares ==
    ASSUME NEW rt, NEW d \in WgDev, NEW hit, NEW k,
           \A i \in 1..Len(d.peers) : ~d.peers[i].remove, k \notin Gone(rt, d)
    PROVE  Spares(Difference(rt, d, hit), k)
<1> DEFINE e == Difference(rt, d, hit)
           rs == Removals(rt, d)
           s == Edited(rt, d, hit)
<1>1. DiffOf(rt, d, hit, e, rs, s)
  BY DifferenceFacts
<1> HIDE DEF e, rs, s
<1>2. s \in Seq(WgPeer) /\ rs \in Seq(WgPeer) /\ Len(s) = Len(d.peers)
  BY <1>1 DEF DiffOf, EditedEntries
<1>3. ASSUME NEW i \in 1..Len(s) PROVE ~s[i].remove
  BY <1>1, <1>2 DEF DiffOf, EditedEntries, ResetEntry, SameEntry
<1>4. ASSUME NEW i \in 1..Len(rs) PROVE rs[i].key # k
  <2>1. PICK j \in Gone(rt, d) : rs[i] = Removal(j)
    BY <1>1 DEF DiffOf, OnlyRemovals
  <2>2. rs[i].key = j
    BY <2>1 DEF Removal
  <2> QED
    BY <2>1, <2>2
<1>5. ASSUME NEW i \in 1..Len(e.peers), e.peers[i].key = k PROVE ~e.peers[i].remove
  <2>1. e.peers = rs \o s
    BY <1>1 DEF DiffOf
  <2>2. \/ i \in 1..Len(rs) /\ e.peers[i] = rs[i]
        \/ i - Len(rs) \in 1..Len(s) /\ e.peers[i] = s[i - Len(rs)]
    BY <1>2, <2>1
  <2> QED
    BY <1>3, <1>4, <1>5, <2>2
<1> QED
  BY <1>1, <1>5 DEF Spares, e, DiffOf

(* A device that spares a peer leaves it, with its endpoint unless it has one. *)
LEMMA SparedStays ==
    ASSUME NEW f \in Iface, NEW e \in WgDev, NEW k \in Keys, Spares(e, k), f.peers[k] # NULL
    PROVE  \A q \in 0..Len(e.peers) :
             /\ FirstPeers(f, e, q).peers[k] # NULL
             /\ (\A i \in 1..Len(e.peers) : e.peers[i].key = k => e.peers[i].endpoint = NULL)
                  => FirstPeers(f, e, q).peers[k].endpoint = f.peers[k].endpoint
<1> DEFINE F(q) == FirstPeers(f, e, q)
           NoEp == \A i \in 1..Len(e.peers) : e.peers[i].key = k => e.peers[i].endpoint = NULL
           n == Len(e.peers)
           S == {q \in 0..n : F(q).peers[k] # NULL /\ (NoEp => F(q).peers[k].endpoint = f.peers[k].endpoint)}
<1>1. n \in Nat /\ \A i \in 1..n : e.peers[i] \in WgPeer
  BY DEF WgDev
<1>2. /\ F(0) = SetDeviceAttrs(f, e)
      /\ \A q \in 0..n : F(q) \in Iface
      /\ \A q \in 1..n : F(q) = SetWhole(F(q - 1), e.peers[q])
  BY FirstPeersStep
<1>3. SetDeviceAttrs(f, e).peers = f.peers
  BY DEF SetDeviceAttrs, Spares, Iface
<1> HIDE DEF F, NoEp
<1>4. 0 \in S
  BY <1>1, <1>2, <1>3
<1>5. ASSUME NEW q \in 1..n, q - 1 \in S PROVE q \in S
  <2> DEFINE g == F(q - 1)
             p == e.peers[q]
  <2>1. g \in Iface /\ p \in WgPeer /\ F(q) = SetWhole(g, p)
    BY <1>1, <1>2
  <2>2. g.peers[k] # NULL /\ (NoEp => g.peers[k].endpoint = f.peers[k].endpoint)
    BY <1>5
  <2>3. p.key = k => ~p.remove /\ (NoEp => p.endpoint = NULL)
    BY DEF Spares, NoEp
  <2> HIDE DEF g, p
  <2>4. CASE p.key # k
    BY <2>1, <2>2, <2>4, WholePeer
  <2>5. CASE p.key = k
    <3>1. F(q).peers[k] = UpdatedPeer(g, p) /\ UpdatedPeer(g, p) \in KernelPeer
      BY <2>1, <2>3, <2>5, WholePeer
    <3>2. NoEp => UpdatedPeer(g, p).endpoint = g.peers[k].endpoint
      BY <2>2, <2>3, <2>5 DEF UpdatedPeer, OldPeer, Given
    <3> QED
      BY <2>2, <3>1, <3>2, NoPeerAssumption
  <2> QED
    BY <2>4, <2>5
<1> HIDE DEF S
<1>6. \A q \in 0..n : q \in S
  BY Zenon, <1>1, <1>4, <1>5, InductionUpTo
<1> QED
  BY <1>6 DEF S, F, NoEp

-----------------------------------------------------------------------------
(* What is left of a peer when a whole device has been written. *)

(* The attributes of the device are as given, or as they were. *)
LEMMA FirstPeersAttrs ==
    ASSUME NEW f \in Iface, NEW e \in WgDev
    PROVE  \A q \in 0..Len(e.peers) :
             /\ FirstPeers(f, e, q).priv = Given(e.priv, f.priv)
             /\ FirstPeers(f, e, q).port = Given(e.port, f.port)
             /\ FirstPeers(f, e, q).fwmark = Given(e.fwmark, f.fwmark)
<1> DEFINE F(q) == FirstPeers(f, e, q)
           n == Len(e.peers)
           S == {q \in 0..n : /\ F(q).priv = Given(e.priv, f.priv)
                              /\ F(q).port = Given(e.port, f.port)
                              /\ F(q).fwmark = Given(e.fwmark, f.fwmark)}
<1>1. n \in Nat /\ \A i \in 1..n : e.peers[i] \in WgPeer
  BY DEF WgDev
<1>2. /\ F(0) = SetDeviceAttrs(f, e)
      /\ \A q \in 0..n : F(q) \in Iface
      /\ \A q \in 1..n : F(q) = SetWhole(F(q - 1), e.peers[q])
  BY FirstPeersStep
<1>3. /\ SetDeviceAttrs(f, e).priv = Given(e.priv, f.priv)
      /\ SetDeviceAttrs(f, e).port = Given(e.port, f.port)
      /\ SetDeviceAttrs(f, e).fwmark = Given(e.fwmark, f.fwmark)
  BY DEF SetDeviceAttrs, Iface
<1> HIDE DEF F
<1>4. 0 \in S
  BY <1>1, <1>2, <1>3
<1>5. ASSUME NEW q \in 1..n, q - 1 \in S PROVE q \in S
  <2>1. F(q - 1) \in Iface /\ e.peers[q] \in WgPeer /\ F(q) = SetWhole(F(q - 1), e.peers[q])
    BY <1>1, <1>2
  <2>2. F(q).priv = F(q - 1).priv /\ F(q).port = F(q - 1).port /\ F(q).fwmark = F(q - 1).fwmark
    BY <2>1, WholePeer
  <2> QED
    BY <1>1, <1>5, <2>2
<1> HIDE DEF S
<1>6. \A q \in 0..n : q \in S
  BY Zenon, <1>1, <1>4, <1>5, InductionUpTo
<1> QED
  BY <1>6 DEF S, F

(* Entries a + 1 .. n that do not name a peer leave it as it is. *)
LEMMA UnnamedPeer ==
    ASSUME NEW f \in Iface, NEW e \in WgDev, NEW k \in Keys, NEW a \in 0..Len(e.peers),
           NEW b \in a..Len(e.peers), \A i \in a + 1 .. b : e.peers[i].key # k
    PROVE  FirstPeers(f, e, b).peers[k] = FirstPeers(f, e, a).peers[k]
<1> DEFINE F(q) == FirstPeers(f, e, q)
           n == Len(e.peers)
           S == {q \in 0..b : q < a \/ F(q).peers[k] = F(a).peers[k]}
<1>1. n \in Nat /\ a \in Nat /\ b \in Nat /\ b <= n /\ a <= b /\ \A i \in 1..n : e.peers[i] \in WgPeer
  BY DEF WgDev
<1>2. /\ \A q \in 0..n : F(q) \in Iface
      /\ \A q \in 1..n : F(q) = SetWhole(F(q - 1), e.peers[q])
  BY FirstPeersStep
<1> HIDE DEF F
<1>3. 0 \in S
  BY <1>1
<1>4. ASSUME NEW q \in 1..b, q - 1 \in S PROVE q \in S
  <2>1. CASE q <= a
    BY <1>1, <2>1
  <2>2. CASE q > a
    <3>1. q \in 1..n /\ q - 1 \in 0..n /\ q \in a + 1 .. b
      BY <1>1, <2>2
    <3>2. F(q - 1).peers[k] = F(a).peers[k]
      BY <1>1, <1>4, <2>2
    <3>3. F(q - 1) \in Iface /\ e.peers[q] \in WgPeer /\ F(q) = SetWhole(F(q - 1), e.peers[q])
      BY <1>1, <1>2, <3>1
    <3>4. F(q).peers[k] = F(q - 1).peers[k]
      BY <3>1, <3>3, WholePeer
    <3> QED
      BY <1>1, <3>2, <3>4
  <2> QED
    BY <1>1, <2>1, <2>2
<1> HIDE DEF S
<1>5. b \in S
  <2>1. \A q \in 0..b : q \in S
    BY Zenon, <1>1, <1>3, <1>4, InductionUpTo
  <2> QED
    BY <1>1, <2>1
<1> QED
  BY <1>1, <1>5 DEF S, F

(* A peer that has an entry which removes it, and no other entries, is gone. *)
LEMMA RemovedPeer ==
    ASSUME NEW f \in Iface, NEW e \in WgDev, NEW k \in Keys, NEW j \in 1..Len(e.peers),
           e.peers[j].key = k, \A i \in 1..Len(e.peers) : e.peers[i].key = k => e.peers[i].remove
    PROVE  FirstPeers(f, e, Len(e.peers)).peers[k] = NULL
<1> DEFINE F(q) == FirstPeers(f, e, q)
           n == Len(e.peers)
           S == {q \in 0..n : q < j \/ F(q).peers[k] = NULL}
<1>1. n \in Nat /\ j \in Nat /\ 1 <= j /\ j <= n /\ \A i \in 1..n : e.peers[i] \in WgPeer
  BY DEF WgDev
<1>2. /\ \A q \in 0..n : F(q) \in Iface
      /\ \A q \in 1..n : F(q) = SetWhole(F(q - 1), e.peers[q])
  BY FirstPeersStep
<1> HIDE DEF F
<1>3. 0 \in S
  BY <1>1
<1>4. ASSUME NEW q \in 1..n, q - 1 \in S PROVE q \in S
  <2>1. F(q - 1) \in Iface /\ e.peers[q] \in WgPeer /\ F(q) = SetWhole(F(q - 1), e.peers[q])
    BY <1>1, <1>2
  <2>2. CASE e.peers[q].key = k
    <3>1. F(q).peers[k] = NULL
      BY <2>1, <2>2, WholePeer
    <3> QED
      BY <1>1, <3>1
  <2>3. CASE e.peers[q].key # k
    <3>1. F(q).peers[k] = F(q - 1).peers[k] /\ q # j
      BY <2>1, <2>3, WholePeer
    <3>2. q - 1 < j \/ F(q - 1).peers[k] = NULL
      BY <1>4
    <3> QED
      BY <1>1, <3>1, <3>2
  <2> QED
    BY <2>2, <2>3
<1> HIDE DEF S
<1>5. n \in S
  <2>1. \A q \in 0..n : q \in S
    BY Zenon, <1>1, <1>3, <1>4, InductionUpTo
  <2> QED
    BY <1>1, <2>1
<1> QED
  BY <1>1, <1>5 DEF S, F

(* What an entry p makes of the peer v. *)
AsAsked(p, old, v) ==
    /\ v # NULL
    /\ v.psk = (IF p.psk = "zero" THEN NULL ELSE Given(p.psk, Known(old).psk))
    /\ v.ka = Given(p.ka, Known(old).ka)

(* The only entry of a peer decides. *)
LEMMA SinglePeer ==
    ASSUME NEW f \in Iface, NEW e \in WgDev, NEW j \in 1..Len(e.peers), ~e.peers[j].remove,
           \A i \in 1..Len(e.peers) : e.peers[i].key = e.peers[j].key => i = j
    PROVE  AsAsked(e.peers[j], SetDeviceAttrs(f, e).peers[e.peers[j].key],
                   FirstPeers(f, e, Len(e.peers)).peers[e.peers[j].key])
<1> DEFINE n == Len(e.peers)
           p == e.peers[j]
           k == p.key
           g == FirstPeers(f, e, j - 1)
<1>1. n \in Nat /\ j \in Nat /\ 1 <= j /\ j <= n /\ p \in WgPeer /\ k \in Keys
  <2>1. e.peers \in Seq(WgPeer)
    BY DEF WgDev
  <2>2. n \in Nat /\ p \in WgPeer
    BY <2>1
  <2> QED
    BY <2>2 DEF WgPeer
<1>2. FirstPeers(f, e, 0) = SetDeviceAttrs(f, e)
  BY FirstPeersStep
<1>3. g \in Iface /\ FirstPeers(f, e, j) = SetWhole(g, p)
  BY <1>1, FirstPeersStep
<1>4. g.peers[k] = SetDeviceAttrs(f, e).peers[k]
  <2>1. 0 \in 0..n /\ j - 1 \in 0..n /\ \A i \in 0 + 1 .. j - 1 : e.peers[i].key # k
    BY <1>1
  <2> HIDE DEF k
  <2> QED
    BY <1>1, <1>2, <2>1, UnnamedPeer
<1>5. FirstPeers(f, e, n).peers[k] = FirstPeers(f, e, j).peers[k]
  <2>1. j \in 0..n /\ n \in j..n /\ \A i \in j + 1 .. n : e.peers[i].key # k
    BY <1>1
  <2> HIDE DEF k
  <2> QED
    BY SMTT(60), <1>1, <2>1, UnnamedPeer
<1> HIDE DEF p, g
<1>6. FirstPeers(f, e, j).peers[k] = UpdatedPeer(g, p) /\ UpdatedPeer(g, p) \in KernelPeer
  BY <1>1, <1>3, WholePeer DEF p
<1>7. UpdatedPeer(g, p) # NULL
  BY <1>6, NoPeerAssumption
<1>8. AsAsked(p, g.peers[p.key], UpdatedPeer(g, p))
  BY <1>7 DEF AsAsked, UpdatedPeer, OldPeer, Known
<1> QED
  BY Zenon, <1>4, <1>5, <1>6, <1>8 DEF p

(* A list behind another. *)
LEMMA TwoLists ==
    ASSUME NEW T, NEW s \in Seq(T), NEW t \in Seq(T)
    PROVE  /\ Len(s) \in Nat /\ Len(t) \in Nat /\ Len(s \o t) = Len(s) + Len(t)
           /\ \A i \in 1..Len(s) : (s \o t)[i] = s[i]
           /\ \A i \in 1..Len(t) : (s \o t)[Len(s) + i] = t[i]
OBVIOUS

(* Where the entries of a difference come from. *)
LEMMA DifferenceEntries ==
    ASSUME NEW rt, NEW d \in WgDev, NEW hit, NEW e, NEW rs, NEW s, DiffOf(rt, d, hit, e, rs, s)
    PROVE  /\ e \in WgDev /\ Len(rs) \in Nat /\ Len(s) = Len(d.peers) /\ Len(s) \in Nat
           /\ Len(e.peers) = Len(rs) + Len(s)
           /\ \A i \in 1..Len(rs) : /\ e.peers[i] = rs[i] /\ rs[i].key \in Gone(rt, d)
                                    /\ rs[i].remove
           /\ \A i \in 1..Len(s) : /\ e.peers[Len(rs) + i] = s[i]
                                   /\ SameEntry(d.peers[i], s[i])
           /\ \A i \in 1..Len(e.peers) : i \in 1..Len(rs) \/ i - Len(rs) \in 1..Len(s)
<1>1. /\ e \in WgDev /\ e.peers = rs \o s /\ rs \in Seq(WgPeer) /\ s \in Seq(WgPeer)
      /\ Len(s) = Len(d.peers) /\ OnlyRemovals(rs, Gone(rt, d)) /\ EditedEntries(rt, d, hit, s)
  BY Zenon DEF DiffOf, EditedEntries
<1>0. rs \in Seq(WgPeer) /\ s \in Seq(WgPeer)
  BY <1>1
<1>2. /\ Len(rs) \in Nat /\ Len(s) \in Nat /\ Len(rs \o s) = Len(rs) + Len(s)
      /\ \A i \in 1..Len(rs) : (rs \o s)[i] = rs[i]
      /\ \A i \in 1..Len(s) : (rs \o s)[Len(rs) + i] = s[i]
  BY <1>0, TwoLists
<1>3. ASSUME NEW i \in 1..Len(rs) PROVE rs[i].key \in Gone(rt, d) /\ rs[i].remove
  <2>1. PICK k \in Gone(rt, d) : rs[i] = Removal(k)
    BY <1>1 DEF OnlyRemovals
  <2> QED
    BY <2>1 DEF Removal
<1>4. ASSUME NEW i \in 1..Len(s) PROVE SameEntry(d.peers[i], s[i])
  <2>1. d.peers[i] \in WgPeer /\ i \in 1..Len(d.peers)
    BY <1>1 DEF WgDev
  <2>2. SameEntry(d.peers[i], d.peers[i])
    BY <2>1 DEF SameEntry
  <2> QED
    BY Zenon, <1>1, <2>1, <2>2 DEF EditedEntries, ResetEntry
<1>5. ASSUME NEW i \in 1..(Len(rs) + Len(s)) PROVE i \in 1..Len(rs) \/ i - Len(rs) \in 1..Len(s)
  BY <1>2
<1> QED
  BY Zenon, <1>1, <1>2, <1>3, <1>4, <1>5

-----------------------------------------------------------------------------
(* syncconf and setconf. *)

(* The difference written to f, and the file itself. *)
Differed(f, e) == FirstPeers(f, e, Len(e.peers))
Like(v, w) == (v = NULL <=> w = NULL) /\ (v # NULL => v.psk = w.psk /\ v.ka = w.ka)

(* Of a peer that was read as it is, the difference makes what the file makes *)
(* of it on an interface without peers: it removes it if the file does not    *)
(* have it, and resets what the file does not say.                            *)
LEMMA DifferencePeer ==
    ASSUME NEW f \in Iface, NEW rt, NEW d \in WgDev, d.replace, Plain(d),
           \A i \in 1..Len(d.peers) : ~d.peers[i].remove,
           NEW hit \in Sorted(rt, d), NEW e, NEW rs, NEW s, DiffOf(rt, d, hit, e, rs, s),
           NEW k \in Keys, rt[k] = f.peers[k]
    PROVE  Like(Differed(f, e).peers[k], Differed(f, d).peers[k])
<1> DEFINE n == Len(d.peers)
           m == Len(rs)
<1>1. /\ e \in WgDev /\ m \in Nat /\ Len(s) = n /\ n \in Nat /\ Len(e.peers) = m + n
      /\ \A i \in 1..m : e.peers[i] = rs[i] /\ rs[i].key \in Gone(rt, d) /\ rs[i].remove
      /\ \A i \in 1..n : e.peers[m + i] = s[i] /\ SameEntry(d.peers[i], s[i])
      /\ \A i \in 1..(m + n) : i \in 1..m \/ i - m \in 1..n
  <2>1. /\ e \in WgDev /\ Len(rs) \in Nat /\ Len(s) = Len(d.peers) /\ Len(s) \in Nat
        /\ Len(e.peers) = Len(rs) + Len(s)
        /\ \A i \in 1..Len(rs) : e.peers[i] = rs[i] /\ rs[i].key \in Gone(rt, d) /\ rs[i].remove
        /\ \A i \in 1..Len(s) : e.peers[Len(rs) + i] = s[i] /\ SameEntry(d.peers[i], s[i])
        /\ \A i \in 1..Len(e.peers) : i \in 1..Len(rs) \/ i - Len(rs) \in 1..Len(s)
    BY DifferenceEntries, Zenon
  <2> QED
    BY <2>1
<1>2. SetDeviceAttrs(f, e).peers = f.peers /\ SetDeviceAttrs(f, d).peers = NoPeers
  BY DEF SetDeviceAttrs, Iface, DiffOf
<1>3. /\ FirstPeers(f, e, 0) = SetDeviceAttrs(f, e)
      /\ FirstPeers(f, d, 0) = SetDeviceAttrs(f, d)
  BY Zenon, <1>1, FirstPeersStep
<1>4. \A i \in 1..n : e.peers[m + i].key = d.peers[i].key /\ e.peers[m + i].remove = d.peers[i].remove
  BY ZenonT(60), <1>1 DEF SameEntry
<1>5. CASE k \notin KeysOf(d)
  <2>1. \A i \in 1..n : d.peers[i].key # k
    BY <1>5 DEF KeysOf
  <2>2. Differed(f, d).peers[k] = NULL
    <3>1. 0 \in 0..n /\ n \in 0..n /\ \A i \in 0 + 1 .. n : d.peers[i].key # k
      BY <1>1, <2>1
    <3>2. FirstPeers(f, d, n).peers[k] = FirstPeers(f, d, 0).peers[k]
      BY Zenon, <3>1, UnnamedPeer
    <3> QED
      BY Zenon, <1>2, <1>3, <3>2 DEF Differed, NoPeers
  <2>3. \A i \in 1..Len(e.peers) : e.peers[i].key = k => i \in 1..m
    <3> SUFFICES ASSUME NEW i \in 1..(m + n), i - m \in 1..n, e.peers[i].key = k PROVE FALSE
      BY <1>1
    <3>1. m + (i - m) = i
      BY <1>1
    <3>2. e.peers[i].key = d.peers[i - m].key
      BY SMTT(60), <1>4, <3>1
    <3> QED
      BY <2>1, <3>2
  <2>4. CASE k \in Gone(rt, d)
    <3>1. PICK j \in 1..m : rs[j] = Removal(k)
      BY <2>4 DEF DiffOf, HasRemoval
    <3>2. rs[j].key = k
      BY Zenon, <3>1, RemovalFields
    <3>3. j \in 1..Len(e.peers) /\ e.peers[j].key = k
      BY <1>1, <3>2
    <3>4. \A i \in 1..Len(e.peers) : e.peers[i].key = k => e.peers[i].remove
      BY Zenon, <1>1, <2>3
    <3>5. Differed(f, e).peers[k] = NULL
      <4>1. e \in WgDev
        BY Zenon, <1>1
      <4> QED
        BY <3>3, <3>4, <4>1, RemovedPeer DEF Differed
    <3> QED
      BY Zenon, <2>2, <3>5 DEF Like
  <2>5. CASE k \notin Gone(rt, d)
    <3>1. f.peers[k] = NULL
      BY <1>5, <2>5 DEF Gone, Existing
    <3>2. 0 \in 0..Len(e.peers) /\ Len(e.peers) \in 0..Len(e.peers)
          /\ \A i \in 0 + 1 .. Len(e.peers) : e.peers[i].key # k
      BY SMTT(60), <1>1, <2>3, <2>5
    <3>3. FirstPeers(f, e, Len(e.peers)).peers[k] = FirstPeers(f, e, 0).peers[k]
      <4>1. PICK l : l = Len(e.peers)
        BY Zenon
      <4>2. e \in WgDev /\ 0 \in 0..l /\ l \in 0..l /\ \A i \in 0 + 1 .. l : e.peers[i].key # k
        BY <1>1, <3>2, <4>1
      <4>3. FirstPeers(f, e, l).peers[k] = FirstPeers(f, e, 0).peers[k]
        BY <4>1, <4>2, UnnamedPeer
      <4> QED
        BY <4>1, <4>3
    <3> QED
      BY Zenon, <1>2, <1>3, <2>2, <3>1, <3>3 DEF Differed, Like
  <2> QED
    BY Zenon, <2>4, <2>5
<1>6. ASSUME NEW j \in 1..n, d.peers[j].key = k
      PROVE  Like(Differed(f, e).peers[k], Differed(f, d).peers[k])
  <2> DEFINE p == d.peers[j]
             q == e.peers[m + j]
  <2>1. AsAsked(p, NULL, Differed(f, d).peers[k])
    <3>1. \A i \in 1..n : d.peers[i].key = d.peers[j].key => i = j
      BY Zenon DEF Plain
    <3>2. AsAsked(d.peers[j], SetDeviceAttrs(f, d).peers[d.peers[j].key],
                  FirstPeers(f, d, n).peers[d.peers[j].key])
      BY Zenon, <3>1, SinglePeer
    <3> QED
      BY Zenon, <1>2, <1>6, <3>2 DEF Differed, NoPeers
  <2>2. AsAsked(q, f.peers[k], Differed(f, e).peers[k])
    <3>1. k \notin Gone(rt, d)
      BY <1>6 DEF Gone, KeysOf
    <3>2. ASSUME NEW i \in 1..Len(e.peers), e.peers[i].key = e.peers[m + j].key PROVE i = m + j
      <4>1. e.peers[i].key = k
        BY SMTT(60), <1>4, <1>6, <3>2
      <4>2. i - m \in 1..n /\ m + (i - m) = i
        <5>1. i \notin 1..m
          BY Zenon, <1>1, <3>1, <4>1
        <5>2. i \in 1..(m + n) /\ m \in Nat /\ n \in Nat
          BY <1>1
        <5> QED
          BY <5>1, <5>2
      <4>3. d.peers[i - m].key = k
        BY Zenon, <1>4, <4>1, <4>2
      <4>4. i - m = j
        BY Zenon, <1>6, <4>2, <4>3 DEF Plain
      <4> QED
        BY <1>1, <4>2, <4>4
    <3>3. m + j \in 1..Len(e.peers) /\ ~e.peers[m + j].remove /\ e.peers[m + j].key = k
      <4>1. m + j \in 1..(m + n)
        BY <1>1
      <4>2. e.peers[m + j].key = d.peers[j].key /\ e.peers[m + j].remove = d.peers[j].remove
        BY <1>4
      <4> QED
        BY Zenon, <1>1, <1>6, <4>1, <4>2
    <3>4. PICK l \in 1..Len(e.peers) : l = m + j
      BY <3>3
    <3>5. AsAsked(e.peers[l], SetDeviceAttrs(f, e).peers[e.peers[l].key],
                  FirstPeers(f, e, Len(e.peers)).peers[e.peers[l].key])
      BY Zenon, <1>1, <3>2, <3>3, <3>4, SinglePeer
    <3> QED
      BY Zenon, <1>2, <3>3, <3>4, <3>5 DEF Differed
  <2>3. q = s[j] /\ p \in WgPeer
    BY Zenon, <1>1, PeersOfDev
  <2>4. CASE f.peers[k] = NULL
    <3>1. ~IsHit(rt, d, hit, j)
      BY <1>6, <2>4 DEF IsHit, Both, Existing
    <3>2. q = p
      BY Zenon, <2>3, <3>1 DEF DiffOf, EditedEntries
    <3> QED
      BY ZenonT(60), <2>1, <2>2, <2>4, <3>2 DEF AsAsked, Like
  <2>5. CASE f.peers[k] # NULL
    <3>1. k \in Both(rt, d)
      BY <1>6, <2>5 DEF Both, Existing, KeysOf
    <3>2. hit[k] \in 1..n /\ d.peers[hit[k]].key = k
      BY <3>1 DEF Sorted
    <3>3. IsHit(rt, d, hit, j)
      BY <1>6, <3>1, <3>2 DEF IsHit, Plain
    <3>4. ResetEntry(f.peers[k], p, q)
      BY Zenon, <1>6, <2>3, <3>3 DEF DiffOf, EditedEntries
    <3> HIDE DEF p, q
    <3>5. Known(f.peers[k]) = f.peers[k] /\ Known(NULL) = NewPeer
      BY Zenon, <2>5 DEF Known
    <3>6. "zero" # NULL /\ 0 # NULL
      BY NullAssumption, ZeroAssumption
    <3>7. NewPeer.psk = NULL /\ NewPeer.ka = 0
      BY Zenon DEF NewPeer
    <3>8. /\ Differed(f, d).peers[k] # NULL
          /\ Differed(f, d).peers[k].psk = (IF p.psk = "zero" THEN NULL ELSE Given(p.psk, NULL))
          /\ Differed(f, d).peers[k].ka = Given(p.ka, 0)
      BY Zenon, <2>1, <3>5, <3>7 DEF AsAsked
    <3>9. /\ Differed(f, e).peers[k] # NULL
          /\ Differed(f, e).peers[k].psk = (IF q.psk = "zero" THEN NULL ELSE Given(q.psk, f.peers[k].psk))
          /\ Differed(f, e).peers[k].ka = Given(q.ka, f.peers[k].ka)
      BY Zenon, <2>2, <3>5 DEF AsAsked
    <3>10. /\ q.psk = (IF f.peers[k].psk # NULL /\ p.psk = NULL THEN "zero" ELSE p.psk)
           /\ q.ka = (IF f.peers[k].ka # 0 /\ p.ka = NULL THEN 0 ELSE p.ka)
      BY Zenon, <3>4 DEF ResetEntry
    <3>11. Differed(f, e).peers[k].psk = Differed(f, d).peers[k].psk
      BY Zenon, <3>6, <3>8, <3>9, <3>10 DEF Given
    <3>12. Differed(f, e).peers[k].ka = Differed(f, d).peers[k].ka
      BY Zenon, <3>6, <3>8, <3>9, <3>10 DEF Given
    <3> QED
      BY Zenon, <3>8, <3>9, <3>11, <3>12 DEF Like
  <2> QED
    BY Zenon, <2>4, <2>5
<1> QED
  BY <1>5, <1>6 DEF KeysOf

(* Interface g has the owners of h, and peers of X where h has none. *)
OwnersMatch(X, g, h) ==
    \A i \in Ips : g.owner[i] = h.owner[i] \/ (h.owner[i] = NULL /\ g.owner[i] \in X)

(* The same allowed IP on both. *)
LEMMA MatchAllowedIp ==
    ASSUME NEW X, NEW g \in Iface, NEW h \in Iface, OwnersMatch(X, g, h),
           NEW k \in Keys, NEW a \in WgAllowedIp
    PROVE  OwnersMatch(X, SetAllowedIp(g, k, a), SetAllowedIp(h, k, a))
<1>1. a.ip \in Ips
  BY DEF WgAllowedIp
<1>2. ASSUME NEW f \in Iface, NEW i \in Ips
      PROVE  SetAllowedIp(f, k, a).owner[i] =
               IF i # a.ip THEN f.owner[i]
               ELSE IF ~a.remove THEN k ELSE IF f.owner[i] = k THEN NULL ELSE f.owner[i]
  BY <1>1 DEF SetAllowedIp, Iface
<1> QED
  BY <1>2 DEF OwnersMatch

(* The same allowed IPs on both. *)
LEMMA MatchAllowedIps ==
    ASSUME NEW X, NEW g \in Iface, NEW h \in Iface, OwnersMatch(X, g, h),
           NEW k \in Keys, NEW s \in Seq(WgAllowedIp)
    PROVE  OwnersMatch(X, AllowedIps(g, k, s), AllowedIps(h, k, s))
<1> DEFINE n == Len(s)
<1>1. n \in Nat /\ \A i \in 1..n : s[i] \in WgAllowedIp
  OBVIOUS
<1>2. PICK u : AllowedIpsVia(g, k, s, u)
  BY AllowedIpsHistory
<1>3. PICK v : AllowedIpsVia(h, k, s, v)
  BY AllowedIpsHistory
<1>4. /\ u[0] = g /\ v[0] = h /\ u[n] = AllowedIps(g, k, s) /\ v[n] = AllowedIps(h, k, s)
      /\ \A i \in 0..n : u[i] \in Iface /\ v[i] \in Iface
      /\ \A i \in 1..n : /\ u[i] = SetAllowedIp(u[i - 1], k, s[i])
                         /\ v[i] = SetAllowedIp(v[i - 1], k, s[i])
  BY SMTT(60), <1>2, <1>3 DEF AllowedIpsVia
<1> DEFINE S == {i \in 0..n : OwnersMatch(X, u[i], v[i])}
<1>5. 0 \in S
  BY <1>1, <1>4
<1>6. ASSUME NEW i \in 1..n, i - 1 \in S PROVE i \in S
  <2>1. i - 1 \in 0..n /\ OwnersMatch(X, u[i - 1], v[i - 1])
    BY <1>1, <1>6
  <2>2. u[i - 1] \in Iface /\ v[i - 1] \in Iface /\ s[i] \in WgAllowedIp
    BY <1>1, <1>4, <2>1
  <2>3. OwnersMatch(X, u[i], v[i])
    BY <1>4, <2>1, <2>2, MatchAllowedIp
  <2> QED
    BY <1>1, <2>3
<1> HIDE DEF S
<1>7. n \in S
  <2>1. \A i \in 0..n : i \in S
    BY Zenon, <1>1, <1>5, <1>6, InductionUpTo
  <2> QED
    BY <1>1, <2>1
<1> QED
  BY Zenon, <1>4, <1>7 DEF S

(* The same entry on both, up to its preshared key and keepalive: it takes the *)
(* allowed IPs of its peer away before it gives it the ones it lists.          *)
LEMMA MatchWhole ==
    ASSUME NEW X, NEW g \in Iface, NEW h \in Iface, OwnersMatch(X, g, h),
           NEW p \in WgPeer, NEW q, SameEntry(p, q), p.replace, ~p.remove
    PROVE  OwnersMatch(X \ {p.key}, SetWhole(g, q), SetWhole(h, p))
<1> DEFINE k == p.key
           s == SubSeq(p.aips, 1, (Len(p.aips) + 1) - 1)
<1>1. q \in WgPeer /\ q.key = k /\ q.aips = p.aips /\ q.replace /\ ~q.remove /\ k \in Keys
  BY DEF SameEntry, WgPeer
<1>2. s \in Seq(WgAllowedIp)
  <2>1. p.aips \in Seq(WgAllowedIp)
    BY DEF WgPeer
  <2> QED
    BY <2>1
<1>3. ASSUME NEW f \in Iface, NEW r \in WgPeer, r.key = k, r.replace, ~r.remove, r.aips = p.aips
      PROVE  /\ SetWhole(f, r) = AllowedIps(SetPeer(f, r, TRUE, UserFlags(r)), k, s)
             /\ SetPeer(f, r, TRUE, UserFlags(r)) \in Iface
             /\ SetPeer(f, r, TRUE, UserFlags(r)).owner = Disown(f.owner, k)
  <2>1. "REMOVE_ME" \notin UserFlags(r) /\ "REPLACE_ALLOWEDIPS" \in UserFlags(r)
    BY <1>3 DEF UserFlags
  <2>2. HeaderFields(f, r, TRUE, UserFlags(r), SetPeer(f, r, TRUE, UserFlags(r)))
    BY Zenon, SetPeerFields
  <2>3. SetWhole(f, r) = AllowedIps(SetPeer(f, r, TRUE, UserFlags(r)), k, s)
    BY <1>3, <2>1 DEF SetWhole, SetNest, SetAllowedIps, AllowedIps
  <2> HIDE DEF s
  <2> QED
    BY Zenon, <1>3, <2>1, <2>2, <2>3 DEF HeaderFields
<1> DEFINE g0 == SetPeer(g, q, TRUE, UserFlags(q))
           h0 == SetPeer(h, p, TRUE, UserFlags(p))
<1>4. /\ SetWhole(g, q) = AllowedIps(g0, k, s) /\ g0 \in Iface /\ g0.owner = Disown(g.owner, k)
      /\ SetWhole(h, p) = AllowedIps(h0, k, s) /\ h0 \in Iface /\ h0.owner = Disown(h.owner, k)
  BY Zenon, <1>1, <1>3
<1> HIDE DEF g0, h0, s
<1>5. OwnersMatch(X \ {k}, g0, h0)
  BY <1>4 DEF OwnersMatch, Disown
<1> QED
  BY <1>1, <1>2, <1>4, <1>5, MatchAllowedIps

(* A removal takes the allowed IPs of its peer away. *)
LEMMA WholeRemoves ==
    ASSUME NEW f \in Iface, NEW p \in WgPeer, p.remove
    PROVE  SetWhole(f, p).owner = Disown(f.owner, p.key)
<1> DEFINE g == SetPeer(f, p, TRUE, UserFlags(p))
<1>1. "REMOVE_ME" \in UserFlags(p)
  BY DEF UserFlags
<1>2. HeaderFields(f, p, TRUE, UserFlags(p), g)
  BY Zenon, SetPeerFields
<1>3. SetWhole(f, p) = g
  BY <1>1 DEF SetWhole, SetNest, SetAllowedIps
<1> HIDE DEF g
<1> QED
  BY <1>1, <1>2, <1>3 DEF HeaderFields

(* The peers in front of the file's entries are removed with their allowed IPs. *)
LEMMA RemovalsOwners ==
    ASSUME NEW f \in Iface, NEW e \in WgDev, ~e.replace, NEW m \in 0..Len(e.peers),
           \A i \in 1..m : e.peers[i].remove
    PROVE  \A i \in Ips : \/ FirstPeers(f, e, m).owner[i] = NULL
                          \/ /\ FirstPeers(f, e, m).owner[i] = f.owner[i]
                             /\ \A j \in 1..m : f.owner[i] # e.peers[j].key
<1> DEFINE F(q) == FirstPeers(f, e, q)
           n == Len(e.peers)
           Left(q, i) == \/ F(q).owner[i] = NULL
                         \/ F(q).owner[i] = f.owner[i] /\ \A j \in 1..q : f.owner[i] # e.peers[j].key
           S == {q \in 0..m : \A i \in Ips : Left(q, i)}
<1>1. n \in Nat /\ m \in Nat /\ m <= n /\ \A i \in 1..n : e.peers[i] \in WgPeer
  BY DEF WgDev
<1>2. /\ F(0) = SetDeviceAttrs(f, e)
      /\ \A q \in 0..n : F(q) \in Iface
      /\ \A q \in 1..n : F(q) = SetWhole(F(q - 1), e.peers[q])
  BY FirstPeersStep
<1>3. SetDeviceAttrs(f, e).owner = f.owner
  BY DEF SetDeviceAttrs, Iface
<1> HIDE DEF F
<1>4. 0 \in S
  BY <1>1, <1>2, <1>3
<1>5. ASSUME NEW q \in 1..m, q - 1 \in S PROVE q \in S
  <2>1. q \in 1..n /\ q - 1 \in 0..n /\ q \in 0..m
    BY <1>1
  <2>2. F(q - 1) \in Iface /\ e.peers[q] \in WgPeer /\ F(q) = SetWhole(F(q - 1), e.peers[q])
    BY <1>1, <1>2, <2>1
  <2>3. F(q).owner = Disown(F(q - 1).owner, e.peers[q].key)
    BY <2>2, WholeRemoves
  <2>4. ASSUME NEW i \in Ips PROVE Left(q, i)
    <3>1. F(q).owner[i] = IF F(q - 1).owner[i] = e.peers[q].key THEN NULL ELSE F(q - 1).owner[i]
      BY <2>3 DEF Disown
    <3>2. Left(q - 1, i)
      BY <1>5
    <3>3. \A j \in 1..q : j \in 1..(q - 1) \/ j = q
      BY <1>1
    <3> QED
      BY <3>1, <3>2, <3>3
  <2> QED
    BY <2>1, <2>4
<1> HIDE DEF S
<1>6. m \in S
  <2>1. \A q \in 0..m : q \in S
    BY Zenon, <1>1, <1>4, <1>5, InductionUpTo
  <2> QED
    BY <1>1, <2>1
<1> QED
  BY <1>6 DEF S, F

(* The peers that had allowed IPs of f and that neither a removal nor one of   *)
(* the first q entries of the file names.                                      *)
Leftover(f, rt, d, q) ==
    {x \in Keys : /\ \E i \in Ips : f.owner[i] = x
                  /\ x \notin Gone(rt, d) /\ \A j \in 1..q : d.peers[j].key # x}

(* The allowed IPs are those the file gives, apart from those of such peers.   *)
LEMMA DifferenceOwners ==
    ASSUME NEW f \in Iface, NEW rt, NEW d \in WgDev, d.replace, Plain(d),
           \A i \in 1..Len(d.peers) : ~d.peers[i].remove,
           NEW hit, NEW e, NEW rs, NEW s, DiffOf(rt, d, hit, e, rs, s)
    PROVE  OwnersMatch(Leftover(f, rt, d, Len(d.peers)), Differed(f, e), Differed(f, d))
<1> DEFINE n == Len(d.peers)
           m == Len(rs)
           A(q) == FirstPeers(f, e, m + q)
           B(q) == FirstPeers(f, d, q)
           S == {q \in 0..n : OwnersMatch(Leftover(f, rt, d, q), A(q), B(q))}
<1>1. /\ e \in WgDev /\ Len(rs) \in Nat /\ Len(s) = Len(d.peers) /\ Len(s) \in Nat
      /\ Len(e.peers) = Len(rs) + Len(s)
      /\ \A i \in 1..Len(rs) : e.peers[i] = rs[i] /\ rs[i].key \in Gone(rt, d) /\ rs[i].remove
      /\ \A i \in 1..Len(s) : e.peers[Len(rs) + i] = s[i] /\ SameEntry(d.peers[i], s[i])
      /\ \A i \in 1..Len(e.peers) : i \in 1..Len(rs) \/ i - Len(rs) \in 1..Len(s)
  BY DifferenceEntries, Zenon
<1>2. /\ m \in Nat /\ n \in Nat /\ Len(e.peers) = m + n /\ m \in 0..Len(e.peers)
      /\ \A i \in 1..n : d.peers[i] \in WgPeer
  <2>1. \A a, b, c \in Nat : c = a + b => a \in 0..c
    OBVIOUS
  <2>2. m \in Nat /\ n \in Nat /\ Len(e.peers) = m + n /\ Len(e.peers) \in Nat
    BY Zenon, <1>1, PeersOfDev
  <2>3. m \in 0..Len(e.peers)
    BY Zenon, <2>1, <2>2
  <2> QED
    BY Zenon, <2>2, <2>3, PeersOfDev
<1>3. 0 \in S
  <2>1. B(0) = SetDeviceAttrs(f, d)
    BY Zenon, FirstPeersStep
  <2>2. SetDeviceAttrs(f, d).owner = NoOwners
    BY DEF SetDeviceAttrs, Iface
  <2>3. m + 0 = m
    BY <1>2
  <2>4. ~e.replace /\ \A i \in 1..m : e.peers[i].remove
    BY Zenon, <1>1 DEF DiffOf
  <2>5. \A i \in Ips : \/ FirstPeers(f, e, m).owner[i] = NULL
                       \/ /\ FirstPeers(f, e, m).owner[i] = f.owner[i]
                          /\ \A j \in 1..m : f.owner[i] # e.peers[j].key
    <3>1. e \in WgDev /\ m \in 0..Len(e.peers)
      BY Zenon, <1>1, <1>2
    <3> HIDE DEF m
    <3> QED
      BY <2>4, <3>1, RemovalsOwners
  <2> HIDE DEF m
  <2>6. ASSUME NEW i \in Ips
        PROVE  A(0).owner[i] = B(0).owner[i]
                 \/ (B(0).owner[i] = NULL /\ A(0).owner[i] \in Leftover(f, rt, d, 0))
    <3>1. B(0).owner[i] = NULL
      BY Zenon, <2>1, <2>2 DEF NoOwners
    <3>2. CASE A(0).owner[i] # NULL
      <4>1. A(0).owner[i] = f.owner[i] /\ \A j \in 1..m : f.owner[i] # e.peers[j].key
        BY Zenon, <2>3, <2>5, <3>2
      <4>2. f.owner[i] \in Keys
        BY <3>2, <4>1 DEF Iface
      <4>3. f.owner[i] \notin Gone(rt, d)
        <5> SUFFICES ASSUME f.owner[i] \in Gone(rt, d) PROVE FALSE
          OBVIOUS
        <5>1. PICK j \in 1..m : rs[j] = Removal(f.owner[i])
          BY Zenon DEF DiffOf, HasRemoval, m
        <5>2. rs[j].key = f.owner[i]
          BY Zenon, <5>1, RemovalFields
        <5> QED
          BY Zenon, <1>1, <4>1, <5>2 DEF m
      <4>4. \A j \in 1..0 : d.peers[j].key # f.owner[i]
        OBVIOUS
      <4> QED
        BY Zenon, <3>1, <4>1, <4>2, <4>3, <4>4 DEF Leftover
    <3> QED
      BY Zenon, <3>1, <3>2
  <2>7. OwnersMatch(Leftover(f, rt, d, 0), A(0), B(0))
    BY Zenon, <2>6 DEF OwnersMatch
  <2>8. 0 \in 0..n
    BY <1>2
  <2> QED
    BY Zenon, <2>7, <2>8
<1>4. ASSUME NEW q \in 1..n, q - 1 \in S PROVE q \in S
  <2> DEFINE X == Leftover(f, rt, d, q - 1)
             p == d.peers[q]
             r == e.peers[m + q]
  <2>1. /\ q - 1 \in 0..n /\ m + q \in 1..Len(e.peers) /\ m + (q - 1) \in 0..Len(e.peers)
        /\ m + (q - 1) = (m + q) - 1
    BY <1>2
  <2>2. OwnersMatch(X, A(q - 1), B(q - 1))
    BY Zenon, <1>4
  <2>3. B(q - 1) \in Iface /\ B(q) = SetWhole(B(q - 1), p)
    BY Zenon, <2>1, FirstPeersStep
  <2>4. A(q - 1) \in Iface /\ A(q) = SetWhole(A(q - 1), r)
    <3>1. PICK l : l = m + q
      OBVIOUS
    <3>2. l \in 1..Len(e.peers) /\ l - 1 \in 0..Len(e.peers)
      BY <2>1, <3>1
    <3>3. FirstPeers(f, e, l - 1) \in Iface /\ FirstPeers(f, e, l) = SetWhole(FirstPeers(f, e, l - 1), e.peers[l])
      BY ZenonT(60), <1>1, <3>2, FirstPeersStep
    <3> QED
      BY Zenon, <2>1, <3>1, <3>3
  <2>5. p \in WgPeer /\ SameEntry(p, r) /\ p.replace /\ ~p.remove
    BY Zenon, <1>1, <1>2 DEF Plain
  <2> HIDE DEF A, B, X, p, r
  <2>6. OwnersMatch(X \ {p.key}, A(q), B(q))
    BY Zenon, <2>2, <2>3, <2>4, <2>5, MatchWhole
  <2>7. X \ {p.key} \subseteq Leftover(f, rt, d, q)
    <3>1. \A j \in 1..q : j \in 1..(q - 1) \/ j = q
      BY <1>2
    <3> QED
      BY <3>1 DEF X, p, Leftover
  <2>8. OwnersMatch(Leftover(f, rt, d, q), A(q), B(q))
    BY Zenon, <2>6, <2>7 DEF OwnersMatch
  <2>9. q \in 0..n
    BY <1>2
  <2> QED
    BY Zenon, <2>8, <2>9 DEF A, B
<1> HIDE DEF S
<1>5. n \in S
  <2>1. \A q \in 0..n : q \in S
    BY Zenon, <1>2, <1>3, <1>4, InductionUpTo
  <2> QED
    BY <1>2, <2>1
<1> QED
  BY Zenon, <1>2, <1>5 DEF S, Differed

=============================================================================
