------------------------- MODULE KernelConfigProofs -------------------------
(***************************************************************************)
(* What a series of messages does to an interface: lemmas about the        *)
(* operators of KernelConfig, for every configuration and every interface. *)
(* The folds over allowed IPs, entries and peers are unrolled element by   *)
(* element; everything else about them follows by induction.               *)
(***************************************************************************)
EXTENDS KernelConfig, WellFoundedInduction, TLAPS

-----------------------------------------------------------------------------
(* Induction over the natural numbers, and the existence of the function that *)
(* a left fold over a sequence is defined by.  Both are stated about sets and *)
(* functions, so that they can be used with any property and any operation.   *)

(* A set of natural numbers has a least element. *)
LEMMA NatMin ==
    ASSUME NEW T, T \subseteq Nat, T # {}
    PROVE  \E x \in T : \A y \in T : x <= y
<1> DEFINE R == OpToRel(<, Nat)
<1>1. IsWellFoundedOn(R, Nat)
  BY Zenon, NatLessThanWellFounded
<1> HIDE DEF R
<1>2. PICK x \in T : \A y \in T : ~ (<<y, x>> \in R)
  BY Zenon, <1>1, WFMin
<1>3. \A y \in T : y < x => <<y, x>> \in R
  BY DEF R, OpToRel
<1>4. \A y \in T : x <= y
  <2> TAKE y \in T
  <2>1. x \in Int /\ y \in Int
    OBVIOUS
  <2>2. ~ (y < x)
    BY Zenon, <1>2, <1>3
  <2> QED
    BY <2>1, <2>2
<1> QED
  BY <1>4

(* Induction: S holds the numbers that have the property. *)
LEMMA Induction ==
    ASSUME NEW S, 0 \in S, \A n \in Nat : n \in S => n + 1 \in S
    PROVE  Nat \subseteq S
<1>1. SUFFICES ASSUME Nat \ S # {} PROVE FALSE
  OBVIOUS
<1>2. PICK x \in Nat \ S : \A y \in Nat \ S : x <= y
  BY Zenon, <1>1, NatMin
<1>3. x # 0 /\ x - 1 \in Nat
  BY <1>2
<1> QED
  BY <1>2, <1>3

(* A set of indices has a greatest one. *)
LEMMA GreatestFacts ==
    ASSUME NEW n \in Nat, NEW s \in SUBSET (1..n), s # {}
    PROVE  Greatest(s) \in s /\ \A y \in s : y <= Greatest(s)
<1> DEFINE T == {n - x : x \in s}
<1>1. T \subseteq Nat /\ T # {}
  <2>1. \A x \in s : x \in 1..n
    OBVIOUS
  <2>2. \A x \in 1..n : n - x \in Nat
    OBVIOUS
  <2> QED
    BY Zenon, <2>1, <2>2
<1>2. PICK t \in T : \A y \in T : t <= y
  BY Zenon, <1>1, NatMin
<1>3. PICK x \in s : t = n - x
  OBVIOUS
<1>4. \A y \in s : x >= y
  <2> TAKE y \in s
  <2>1. n - x <= n - y
    BY Zenon, <1>2, <1>3
  <2>2. x \in Int /\ y \in Int
    OBVIOUS
  <2> QED
    BY <2>1, <2>2
<1>5. Greatest(s) \in s /\ \A y \in s : Greatest(s) >= y
  BY Zenon, <1>4 DEF Greatest
<1>6. \A y \in s : y \in Int
  OBVIOUS
<1> HIDE DEF T
<1>7. ASSUME NEW y \in s PROVE y <= Greatest(s)
  <2>1. y \in Int /\ Greatest(s) \in Int /\ Greatest(s) >= y
    BY Zenon, <1>5, <1>6
  <2> QED
    BY <2>1
<1> QED
  BY <1>5, <1>7

(* The greatest of the first k indices is k. *)
LEMMA GreatestOfPrefix ==
    ASSUME NEW k \in Nat, k # 0
    PROVE  Greatest(1..k) = k /\ (1..k) \ {k} = 1 .. k - 1
<1>1. Greatest(1..k) \in 1..k /\ \A y \in 1..k : y <= Greatest(1..k)
  <2>1. 1..k \in SUBSET (1..k) /\ 1..k # {}
    OBVIOUS
  <2> QED
    BY Zenon, <2>1, GreatestFacts
<1>2. k \in 1..k
  OBVIOUS
<1>3. k <= Greatest(1..k) /\ Greatest(1..k) <= k /\ Greatest(1..k) \in Int
  BY <1>1, <1>2
<1> QED
  BY <1>3

(* iter is the function on sets of indices by which InTurn is defined. *)
Iterates(n, b, next, iter) ==
    \A s \in SUBSET (1..n) :
      iter[s] = IF s = {} THEN b ELSE next[Greatest(s)][iter[s \ {Greatest(s)}]]

(* Such a function exists: next[i][v] is what the *)
(* operation makes of value v and the i-th element.                         *)
LEMMA FoldExists ==
    ASSUME NEW V, NEW b \in V, NEW n \in Nat, NEW next \in [1..n -> [V -> V]]
    PROVE  \E iter \in [SUBSET (1..n) -> V] : Iterates(n, b, next, iter)
<1> DEFINE Good(m, iter) ==
             \A s \in SUBSET (1..m) :
               iter[s] = IF s = {} THEN b ELSE next[Greatest(s)][iter[s \ {Greatest(s)}]]
           Exists(m) == \E iter \in [SUBSET (1..m) -> V] : Good(m, iter)
           S == {m \in Nat : m <= n => Exists(m)}
<1>1. 0 \in S
  <2> DEFINE it == [s \in SUBSET (1..0) |-> b]
  <2>1. \A s \in SUBSET (1..0) : s = {}
    OBVIOUS
  <2>2. it \in [SUBSET (1..0) -> V] /\ Good(0, it)
    BY <2>1
  <2> QED
    BY Zenon, <2>2
<1>2. ASSUME NEW m \in Nat, m \in S PROVE m + 1 \in S
  <2>1. SUFFICES ASSUME m + 1 <= n
                 PROVE Exists(m + 1)
    <3> HIDE DEF Exists
    <3> QED
      OBVIOUS
  <2>2. PICK old \in [SUBSET (1..m) -> V] : Good(m, old)
    <3>1. Exists(m)
      <4> HIDE DEF Exists
      <4> QED
        BY <1>2, <2>1
    <3> QED
      BY Zenon, <3>1
  <2> DEFINE it == [s \in SUBSET (1 .. m + 1) |->
                      IF m + 1 \in s THEN next[m + 1][old[s \ {m + 1}]] ELSE old[s]]
  <2>3. \A s \in SUBSET (1 .. m + 1) : s \ {m + 1} \in SUBSET (1..m)
    OBVIOUS
  <2>4. \A s \in SUBSET (1 .. m + 1) : m + 1 \notin s => s \in SUBSET (1..m)
    OBVIOUS
  <2>5. it \in [SUBSET (1 .. m + 1) -> V]
    BY <2>1, <2>2, <2>3, <2>4
  <2>6. ASSUME NEW s \in SUBSET (1 .. m + 1)
        PROVE it[s] = IF s = {} THEN b ELSE next[Greatest(s)][it[s \ {Greatest(s)}]]
    <3>1. CASE m + 1 \in s
      <4>0. m + 1 \in Nat
        OBVIOUS
      <4>1. Greatest(s) \in s /\ \A y \in s : y <= Greatest(s)
        BY Zenon, <3>1, <4>0, GreatestFacts
      <4>2. Greatest(s) = m + 1
        <5>1. Greatest(s) \in 1 .. m + 1 /\ m + 1 <= Greatest(s)
          BY Zenon, <4>1, <3>1
        <5> HIDE DEF it
        <5> QED
          BY <5>1
      <4>3. it[s \ {m + 1}] = old[s \ {m + 1}]
        BY <2>3
      <4> QED
        BY <3>1, <4>2, <4>3
    <3>2. CASE m + 1 \notin s
      <4>1. s \in SUBSET (1..m) /\ it[s] = old[s]
        BY <2>4, <3>2
      <4>2. s \ {Greatest(s)} \in SUBSET (1 .. m + 1) /\ m + 1 \notin s \ {Greatest(s)}
        BY Zenon, <3>2
      <4>3. it[s \ {Greatest(s)}] = old[s \ {Greatest(s)}]
        BY <4>2
      <4> QED
        BY Zenon, <4>1, <4>3, <2>2
    <3> QED
      BY Zenon, <3>1, <3>2
  <2> QED
    BY Zenon, <2>5, <2>6
<1>3. Nat \subseteq S
  <2> HIDE DEF S
  <2> QED
    BY <1>1, <1>2, Induction
<1>4. Exists(n)
  <2> HIDE DEF Exists
  <2> QED
    BY <1>3
<1> QED
  BY Zenon, <1>4 DEF Iterates

(* Induction up to n. *)
LEMMA InductionUpTo ==
    ASSUME NEW n \in Nat, NEW S, 0 \in S, \A i \in 1..n : i - 1 \in S => i \in S
    PROVE  \A i \in 0..n : i \in S
<1> DEFINE T == {m \in Nat : m <= n => m \in S}
<1>1. 0 \in T
  OBVIOUS
<1>2. ASSUME NEW m \in Nat, m \in T PROVE m + 1 \in T
  <2>1. SUFFICES ASSUME m + 1 <= n PROVE m + 1 \in S
    OBVIOUS
  <2>2. m \in S /\ m + 1 \in 1..n /\ (m + 1) - 1 = m
    BY <1>2, <2>1
  <2>3. (m + 1) - 1 \in S => m + 1 \in S
    BY <2>2
  <2> QED
    BY <2>2, <2>3
<1> HIDE DEF T
<1>3. Nat \subseteq T
  BY <1>1, <1>2, Induction
<1> QED
  BY <1>3 DEF T

(* The values of a fold over the first 0, 1, 2, ... elements. *)
PrefixFolds(n, it) == [i \in 0..n |-> it[1..i]]

PrefixesFollow(n, it, h) ==
    /\ h[0] = it[{}]
    /\ h[n] = it[1..n]
    /\ \A i \in 1..n : /\ h[i] = it[1..i] /\ h[i - 1] = it[(1..i) \ {i}]
                      /\ 1..i \in SUBSET (1..n) /\ 1..i # {} /\ Greatest(1..i) = i

(* They follow from one another element by element. *)
LEMMA PrefixValues ==
    ASSUME NEW n \in Nat, NEW it
    PROVE  PrefixesFollow(n, it, PrefixFolds(n, it))
<1> DEFINE h == PrefixFolds(n, it)
<1>1. 1..0 = {} /\ 0 \in 0..n /\ n \in 0..n
  OBVIOUS
<1>2. ASSUME NEW i \in 1..n
      PROVE /\ h[i] = it[1..i] /\ h[i - 1] = it[(1..i) \ {i}]
            /\ 1..i \in SUBSET (1..n) /\ 1..i # {} /\ Greatest(1..i) = i
  <2>1. i \in Nat /\ i # 0 /\ i \in 0..n /\ i - 1 \in 0..n
    OBVIOUS
  <2>2. Greatest(1..i) = i /\ (1..i) \ {i} = 1 .. i - 1
    BY <2>1, GreatestOfPrefix
  <2>3. 1..i \in SUBSET (1..n) /\ 1..i # {}
    OBVIOUS
  <2> QED
    BY Zenon, <2>1, <2>2, <2>3 DEF PrefixFolds
<1>3. h[0] = it[{}] /\ h[n] = it[1..n]
  BY <1>1 DEF PrefixFolds
<1> HIDE DEF h
<1>4. PrefixesFollow(n, it, h)
  BY Zenon, <1>2, <1>3 DEF PrefixesFollow
<1> QED
  BY <1>4 DEF h

(* A part of a sequence that is one element longer. *)
LEMMA SubSeqAppends ==
    ASSUME NEW T, NEW s \in Seq(T), NEW i \in Nat, NEW j \in Nat, 1 <= i, i <= j + 1, j + 1 <= Len(s)
    PROVE  /\ SubSeq(s, i, j) \in Seq(T)
           /\ SubSeq(s, i, j + 1) = Append(SubSeq(s, i, j), s[j + 1])
OBVIOUS

(* Concatenation and Append. *)
LEMMA ConcatAppends ==
    ASSUME NEW T, NEW s \in Seq(T), NEW t \in Seq(T), NEW x \in T
    PROVE  s \o t \in Seq(T) /\ s \o Append(t, x) = Append(s \o t, x)
OBVIOUS

(* What was appended to a sequence. *)
LEMMA SuffixFacts ==
    ASSUME NEW T, NEW s \in Seq(T), NEW t \in Seq(T)
    PROVE  SubSeq(s \o t, Len(s) + 1, Len(s \o t)) = t
OBVIOUS

-----------------------------------------------------------------------------

(* The folds of KernelConfig. *)
AllowedIps(f, k, s) == InTurn(LAMBDA g, a : SetAllowedIp(g, k, a), f, s)
SetWhole(f, p) == SetNest(f, p, TRUE, UserFlags(p), 1, Len(p.aips) + 1)
ApplyPeers(f, s) ==
    InTurn(LAMBDA g, p : SetNest(g, p, TRUE, UserFlags(p), 1, Len(p.aips) + 1), f, s)

-----------------------------------------------------------------------------
(* One step. *)

(* Every operation on an interface yields an interface. *)
LEMMA SetAllowedIpType ==
    ASSUME NEW f \in Iface, NEW k \in Keys, NEW a \in WgAllowedIp
    PROVE  SetAllowedIp(f, k, a) \in Iface
BY DEF SetAllowedIp, Iface, WgAllowedIp

-----------------------------------------------------------------------------
(* The allowed IPs of one nest. *)

(* The interfaces between two allowed IPs. *)
AllowedIpsVia(f, k, s, h) ==
    /\ h \in [0..Len(s) -> Iface]
    /\ h[0] = f
    /\ \A i \in 1..Len(s) : h[i] = SetAllowedIp(h[i - 1], k, s[i])
    /\ h[Len(s)] = AllowedIps(f, k, s)

(* Writing allowed IPs in turn passes through a history of interfaces. *)
LEMMA AllowedIpsHistory ==
    ASSUME NEW f \in Iface, NEW k \in Keys, NEW s \in Seq(WgAllowedIp)
    PROVE  \E h : AllowedIpsVia(f, k, s, h)
<1> DEFINE n == Len(s)
           Fn(iter) == [t \in SUBSET (1..n) |->
                          IF t = {} THEN f ELSE SetAllowedIp(iter[t \ {Greatest(t)}], k, s[Greatest(t)])]
           It == CHOOSE iter : iter = Fn(iter)
<1>1. n \in Nat /\ DOMAIN s = 1..n /\ \A i \in 1..n : s[i] \in WgAllowedIp
  OBVIOUS
<1>2. \E iter : iter = Fn(iter)
  <2> DEFINE next == [i \in 1..n |-> [g \in Iface |-> SetAllowedIp(g, k, s[i])]]
  <2>1. next \in [1..n -> [Iface -> Iface]]
    BY <1>1, SetAllowedIpType
  <2>2. PICK iter \in [SUBSET (1..n) -> Iface] : Iterates(n, f, next, iter)
    <3> HIDE DEF next, n
    <3> QED
      BY Zenon, <1>1, <2>1, FoldExists
  <2>3. ASSUME NEW t \in SUBSET (1..n), t # {}
        PROVE iter[t] = SetAllowedIp(iter[t \ {Greatest(t)}], k, s[Greatest(t)])
    <3>1. Greatest(t) \in 1..n /\ iter[t \ {Greatest(t)}] \in Iface
      BY Zenon, <1>1, <2>3, GreatestFacts
    <3>2. next[Greatest(t)][iter[t \ {Greatest(t)}]] = SetAllowedIp(iter[t \ {Greatest(t)}], k, s[Greatest(t)])
      BY <3>1
    <3> HIDE DEF next
    <3> QED
      BY Zenon, <2>2, <2>3, <3>2 DEF Iterates
  <2>4. \A t \in SUBSET (1..n) : iter[t] = Fn(iter)[t]
    BY Zenon, <2>2, <2>3 DEF Iterates
  <2> HIDE DEF next
  <2> QED
    BY Zenon, <2>4
<1>3. It = Fn(It)
  <2> HIDE DEF Fn
  <2> QED
    BY <1>2
<1>4. AllowedIps(f, k, s) = It[1..n]
  BY <1>1 DEF AllowedIps, InTurn, MapThenFoldSet
<1> DEFINE h == PrefixFolds(n, It)
<1>5. PrefixesFollow(n, It, h)
  <2> HIDE DEF It, n
  <2> QED
    BY <1>1, PrefixValues
<1>6. h[0] = f
  <2>1. {} \in SUBSET (1..n)
    OBVIOUS
  <2> HIDE DEF It, h
  <2> QED
    BY <1>3, <1>5, <2>1 DEF PrefixesFollow
<1>7. ASSUME NEW i \in 1..n PROVE h[i] = SetAllowedIp(h[i - 1], k, s[i])
  <2>1. It[1..i] = Fn(It)[1..i] /\ 1..i \in SUBSET (1..n) /\ 1..i # {} /\ Greatest(1..i) = i
    BY Zenon, <1>3, <1>5 DEF PrefixesFollow
  <2>2. Fn(It)[1..i] = SetAllowedIp(It[(1..i) \ {i}], k, s[i])
    <3> HIDE DEF It
    <3> QED
      BY Zenon, <2>1
  <2> HIDE DEF It, h, Fn
  <2> QED
    BY Zenon, <1>5, <2>1, <2>2 DEF PrefixesFollow
<1> HIDE DEF It, h
<1>8. h \in [0..n -> Iface]
  <2> DEFINE S == {i \in 0..n : h[i] \in Iface}
  <2>1. 0 \in S
    BY <1>1, <1>6
  <2>2. ASSUME NEW i \in 1..n, i - 1 \in S PROVE i \in S
    BY <1>1, <2>2, <1>7, SetAllowedIpType
  <2> HIDE DEF S
  <2>3. \A i \in 0..n : i \in S
    BY Zenon, <1>1, <2>1, <2>2, InductionUpTo
  <2> QED
    BY <2>3 DEF S, h, PrefixFolds
<1> QED
  BY <1>1, <1>4, <1>5, <1>6, <1>7, <1>8 DEF PrefixesFollow, AllowedIpsVia

(* The allowed IPs are taken one after the other. *)
LEMMA AllowedIpsEmpty ==
    ASSUME NEW f \in Iface, NEW k \in Keys
    PROVE  AllowedIps(f, k, <<>>) = f
<1> DEFINE none == <<>>
<1>1. none \in Seq(WgAllowedIp) /\ Len(none) = 0
  OBVIOUS
<1> HIDE DEF none
<1>2. PICK h : AllowedIpsVia(f, k, none, h)
  BY Zenon, <1>1, AllowedIpsHistory
<1>3. AllowedIps(f, k, none) = f
  BY <1>1, <1>2 DEF AllowedIpsVia
<1> QED
  BY <1>3 DEF none

(* One more allowed IP is one more write after the others. *)
LEMMA AllowedIpsAppend ==
    ASSUME NEW f \in Iface, NEW k \in Keys, NEW s \in Seq(WgAllowedIp),
           NEW x \in WgAllowedIp
    PROVE  AllowedIps(f, k, Append(s, x)) = SetAllowedIp(AllowedIps(f, k, s), k, x)
<1>1. /\ Append(s, x) \in Seq(WgAllowedIp) /\ Len(Append(s, x)) = Len(s) + 1 /\ Len(s) \in Nat
      /\ \A i \in 1..Len(s) : Append(s, x)[i] = s[i]
      /\ Append(s, x)[Len(s) + 1] = x
  OBVIOUS
<1>2. PICK h : AllowedIpsVia(f, k, s, h)
  BY AllowedIpsHistory
<1>3. PICK g : AllowedIpsVia(f, k, Append(s, x), g)
  BY Zenon, <1>1, AllowedIpsHistory
<1>4. \A i \in 0..Len(s) : i \in {j \in 0..Len(s) : g[j] = h[j]}
  <2> DEFINE S == {j \in 0..Len(s) : g[j] = h[j]}
  <2>1. 0 \in S
    BY <1>1, <1>2, <1>3 DEF AllowedIpsVia
  <2>2. ASSUME NEW i \in 1..Len(s), i - 1 \in S PROVE i \in S
    <3>1. i - 1 \in 0..Len(s) /\ g[i - 1] = h[i - 1] /\ i \in 1 .. Len(s) + 1
      BY <1>1, <2>2
    <3> QED
      BY <1>1, <1>2, <1>3, <3>1 DEF AllowedIpsVia
  <2> HIDE DEF S
  <2>3. \A i \in 0..Len(s) : i \in S
    BY Zenon, <1>1, <2>1, <2>2, InductionUpTo
  <2> QED
    BY <2>3 DEF S
<1>5. g[Len(s)] = h[Len(s)] /\ Len(s) + 1 \in 1 .. Len(s) + 1 /\ (Len(s) + 1) - 1 = Len(s)
  BY <1>1, <1>4
<1> QED
  BY SMTT(60), <1>1, <1>2, <1>3, <1>5 DEF AllowedIpsVia

(* The allowed IPs of a nest change the owners and nothing else. *)
LEMMA AllowedIpsKeep ==
    ASSUME NEW f \in Iface, NEW k \in Keys, NEW s \in Seq(WgAllowedIp)
    PROVE  /\ AllowedIps(f, k, s) \in Iface
           /\ AllowedIps(f, k, s).priv = f.priv
           /\ AllowedIps(f, k, s).port = f.port
           /\ AllowedIps(f, k, s).fwmark = f.fwmark
           /\ AllowedIps(f, k, s).peers = f.peers
<1>1. PICK h : AllowedIpsVia(f, k, s, h)
  BY AllowedIpsHistory
<1> DEFINE Same(g) == /\ g.priv = f.priv /\ g.port = f.port /\ g.fwmark = f.fwmark
                      /\ g.peers = f.peers
           S == {i \in 0..Len(s) : Same(h[i])}
<1>2. Len(s) \in Nat
  OBVIOUS
<1>3. 0 \in S
  BY <1>1, <1>2 DEF AllowedIpsVia
<1>4. ASSUME NEW i \in 1..Len(s), i - 1 \in S PROVE i \in S
  <2>1. h[i] = SetAllowedIp(h[i - 1], k, s[i]) /\ h[i - 1] \in Iface /\ Same(h[i - 1])
    BY <1>1, <1>4 DEF AllowedIpsVia
  <2>2. Same(SetAllowedIp(h[i - 1], k, s[i]))
    BY <2>1 DEF SetAllowedIp, Iface
  <2> QED
    BY <2>1, <2>2
<1> HIDE DEF S
<1>5. \A i \in 0..Len(s) : i \in S
  BY Zenon, <1>2, <1>3, <1>4, InductionUpTo
<1>6. Len(s) \in S /\ h[Len(s)] \in Iface
  BY <1>2, <1>5, <1>1 DEF AllowedIpsVia
<1> QED
  BY <1>1, <1>6 DEF S, AllowedIpsVia

(* Part of a sequence. *)
LEMMA PartFacts ==
    ASSUME NEW T, NEW s \in Seq(T), NEW i \in Nat, NEW j \in Nat, 1 <= i, i <= j + 1, j <= Len(s)
    PROVE  /\ SubSeq(s, i, j) \in Seq(T)
           /\ Len(SubSeq(s, i, j)) = j - i + 1
           /\ \A m \in 1 .. j - i + 1 : SubSeq(s, i, j)[m] = s[i + m - 1]
OBVIOUS

(* The allowed IPs of a peer in two parts are the allowed IPs of the peer. *)
LEMMA AllowedIpsParts ==
    ASSUME NEW f \in Iface, NEW k \in Keys, NEW s \in Seq(WgAllowedIp),
           NEW i \in Nat, NEW j \in Nat, 1 <= i, i <= j + 1, j <= Len(s)
    PROVE  AllowedIps(AllowedIps(f, k, SubSeq(s, 1, i - 1)), k, SubSeq(s, i, j))
             = AllowedIps(f, k, SubSeq(s, 1, j))
<1> DEFINE g == AllowedIps(f, k, SubSeq(s, 1, i - 1))
           S == {n \in Nat : i - 1 + n <= Len(s) =>
                    AllowedIps(g, k, SubSeq(s, i, i - 1 + n))
                      = AllowedIps(f, k, SubSeq(s, 1, i - 1 + n))}
<1>1. g \in Iface
  <2>1. SubSeq(s, 1, i - 1) \in Seq(WgAllowedIp)
    BY PartFacts
  <2> QED
    BY Zenon, <2>1, AllowedIpsKeep
<1>2. 0 \in S
  <2>1. SubSeq(s, i, i - 1) = <<>> /\ i - 1 + 0 = i - 1
    OBVIOUS
  <2>2. AllowedIps(g, k, <<>>) = g
    BY <1>1, AllowedIpsEmpty
  <2> QED
    BY Zenon, <2>1, <2>2
<1> HIDE DEF g
<1>3. ASSUME NEW n \in Nat, n \in S PROVE n + 1 \in S
  <2>1. SUFFICES ASSUME i - 1 + (n + 1) <= Len(s)
                 PROVE AllowedIps(g, k, SubSeq(s, i, i - 1 + (n + 1)))
                         = AllowedIps(f, k, SubSeq(s, 1, i - 1 + (n + 1)))
    OBVIOUS
  <2> DEFINE m == i - 1 + n
  <2>2. m \in Nat /\ m + 1 <= Len(s) /\ i - 1 + (n + 1) = m + 1 /\ i <= m + 1
    BY <2>1
  <2>3. AllowedIps(g, k, SubSeq(s, i, m)) = AllowedIps(f, k, SubSeq(s, 1, m))
    BY <1>3, <2>2
  <2> HIDE DEF m
  <2>4. s[m + 1] \in WgAllowedIp
    BY <2>2
  <2>5. /\ SubSeq(s, 1, m) \in Seq(WgAllowedIp)
        /\ SubSeq(s, 1, m + 1) = Append(SubSeq(s, 1, m), s[m + 1])
    BY <2>2, SubSeqAppends
  <2>6. /\ SubSeq(s, i, m) \in Seq(WgAllowedIp)
        /\ SubSeq(s, i, m + 1) = Append(SubSeq(s, i, m), s[m + 1])
    BY <2>2, SubSeqAppends
  <2>7. AllowedIps(f, k, SubSeq(s, 1, m + 1))
          = SetAllowedIp(AllowedIps(f, k, SubSeq(s, 1, m)), k, s[m + 1])
    <3>1. AllowedIps(f, k, Append(SubSeq(s, 1, m), s[m + 1]))
            = SetAllowedIp(AllowedIps(f, k, SubSeq(s, 1, m)), k, s[m + 1])
      BY Zenon, <2>4, <2>5, AllowedIpsAppend
    <3> QED
      BY Zenon, <2>5, <3>1
  <2>8. AllowedIps(g, k, SubSeq(s, i, m + 1))
          = SetAllowedIp(AllowedIps(g, k, SubSeq(s, i, m)), k, s[m + 1])
    <3>1. AllowedIps(g, k, Append(SubSeq(s, i, m), s[m + 1]))
            = SetAllowedIp(AllowedIps(g, k, SubSeq(s, i, m)), k, s[m + 1])
      BY Zenon, <1>1, <2>4, <2>6, AllowedIpsAppend
    <3> QED
      BY Zenon, <2>6, <3>1
  <2> QED
    BY <2>2, <2>3, <2>7, <2>8
<1> HIDE DEF S
<1>4. Nat \subseteq S
  BY <1>2, <1>3, Induction
<1>5. j - i + 1 \in S /\ i - 1 + (j - i + 1) = j
  BY <1>4
<1> QED
  BY <1>5 DEF S, g

-----------------------------------------------------------------------------
(* One nest. *)

(* The header of a peer nest leaves an interface. *)
LEMMA SetPeerType ==
    ASSUME NEW f \in Iface, NEW p \in WgPeer, NEW first \in BOOLEAN, NEW flags
    PROVE  SetPeer(f, p, first, flags) \in Iface
<1> DEFINE old == IF f.peers[p.key] = NULL THEN NewPeer ELSE f.peers[p.key]
           psk == IF p.psk = "zero" THEN NULL ELSE Given(p.psk, old.psk)
           new == [psk |-> psk, endpoint |-> Given(p.endpoint, old.endpoint),
                   ka |-> Given(p.ka, old.ka)]
<1>1. p.key \in Keys /\ f.owner \in [Ips -> {NULL} \cup Keys]
      /\ f.peers \in [Keys -> {NULL} \cup KernelPeer]
  BY DEF WgPeer, Iface
<1>2. old \in KernelPeer
  BY <1>1 DEF NewPeer, KernelPeer
<1>3. new \in KernelPeer
  BY <1>2 DEF Given, WgPeer, KernelPeer
<1>4. \A o \in [Ips -> {NULL} \cup Keys] : Disown(o, p.key) \in [Ips -> {NULL} \cup Keys]
  BY DEF Disown
<1>5. RemovePeer(f, p.key) \in Iface
  BY Zenon, <1>1, <1>4 DEF RemovePeer, Iface
<1> HIDE DEF old, new
<1>6. ASSUME NEW q \in KernelPeer, NEW o \in [Ips -> {NULL} \cup Keys]
      PROVE [f EXCEPT !.peers[p.key] = q, !.owner = o] \in Iface
  BY Zenon, <1>1 DEF Iface
<1> QED
  BY ZenonT(60), <1>1, <1>2, <1>3, <1>4, <1>5, <1>6 DEF SetPeer, old, new

(* Removing a peer leaves an interface. *)
LEMMA RemovePeerType ==
    ASSUME NEW f \in Iface, NEW k \in Keys
    PROVE  RemovePeer(f, k) \in Iface
BY Zenon DEF RemovePeer, Disown, Iface

(* Another process's new peer, with its allowed IP, leaves an interface. *)
LEMMA AddPeerType ==
    ASSUME NEW f \in Iface, NEW k \in Keys, NEW i \in Ips
    PROVE  [f EXCEPT !.peers[k] = IF @ = NULL THEN NewPeer ELSE @, !.owner[i] = k] \in Iface
<1> DEFINE q == IF f.peers[k] = NULL THEN NewPeer ELSE f.peers[k]
<1>1. q \in {NULL} \cup KernelPeer
  BY DEF NewPeer, KernelPeer, Iface
<1> HIDE DEF q
<1>2. [f EXCEPT !.peers[k] = q, !.owner[i] = k] \in Iface
  BY Zenon, <1>1 DEF Iface
<1> QED
  BY <1>2 DEF q

(* The range of a nest lies within the allowed IPs of its peer. *)
NestRange(p, from, to) ==
    from \in Nat /\ to \in Nat /\ 1 <= from /\ from <= to /\ to <= Len(p.aips) + 1

(* A nest is the header, then the allowed IPs, which leave the peers alone. *)
LEMMA SetNestFacts ==
    ASSUME NEW f \in Iface, NEW p \in WgPeer, NEW first \in BOOLEAN, NEW flags,
           NEW from, NEW to, NestRange(p, from, to)
    PROVE  /\ SetNest(f, p, first, flags, from, to) \in Iface
           /\ SetNest(f, p, first, flags, from, to).priv = f.priv
           /\ SetNest(f, p, first, flags, from, to).port = f.port
           /\ SetNest(f, p, first, flags, from, to).fwmark = f.fwmark
           /\ SetNest(f, p, first, flags, from, to).peers = SetPeer(f, p, first, flags).peers
<1> DEFINE g == SetPeer(f, p, first, flags)
<1>1. g \in Iface
  BY SetPeerType
<1>2. g.priv = f.priv /\ g.port = f.port /\ g.fwmark = f.fwmark
  BY DEF SetPeer, RemovePeer, Iface
<1> HIDE DEF g
<1>3. p.key \in Keys /\ p.aips \in Seq(WgAllowedIp)
  BY DEF WgPeer
<1>4. SubSeq(p.aips, from, to - 1) \in Seq(WgAllowedIp)
  <2>1. /\ from \in Nat /\ to - 1 \in Nat /\ 1 <= from /\ from <= (to - 1) + 1
        /\ to - 1 <= Len(p.aips)
    BY <1>3 DEF NestRange
  <2> QED
    BY <1>3, <2>1, PartFacts
<1>5. SetAllowedIps(g, p, flags, from, to)
        = IF "REMOVE_ME" \in flags THEN g
          ELSE AllowedIps(g, p.key, SubSeq(p.aips, from, to - 1))
  BY DEF SetAllowedIps, AllowedIps
<1>6. /\ AllowedIps(g, p.key, SubSeq(p.aips, from, to - 1)) \in Iface
      /\ AllowedIps(g, p.key, SubSeq(p.aips, from, to - 1)).priv = g.priv
      /\ AllowedIps(g, p.key, SubSeq(p.aips, from, to - 1)).port = g.port
      /\ AllowedIps(g, p.key, SubSeq(p.aips, from, to - 1)).fwmark = g.fwmark
      /\ AllowedIps(g, p.key, SubSeq(p.aips, from, to - 1)).peers = g.peers
  BY Zenon, <1>1, <1>3, <1>4, AllowedIpsKeep
<1>7. SetNest(f, p, first, flags, from, to) = SetAllowedIps(g, p, flags, from, to)
  BY DEF SetNest, g
<1>8. g = SetPeer(f, p, first, flags)
  BY DEF g
<1> QED
  BY <1>1, <1>2, <1>5, <1>6, <1>7, <1>8

(* A whole peer, header and allowed IPs, leaves an interface. *)
LEMMA SetWholeType ==
    ASSUME NEW f \in Iface, NEW p \in WgPeer
    PROVE  SetWhole(f, p) \in Iface
<1>1. NestRange(p, 1, Len(p.aips) + 1)
  BY DEF NestRange, WgPeer
<1> QED
  BY ZenonT(60), <1>1, SetNestFacts DEF SetWhole

(* The device attributes leave an interface. *)
LEMMA SetDeviceAttrsType ==
    ASSUME NEW f \in Iface, NEW d \in WgDev
    PROVE  SetDeviceAttrs(f, d) \in Iface
BY ZenonT(60) DEF SetDeviceAttrs, Iface, WgDev, Given, NoPeers, NoOwners

-----------------------------------------------------------------------------
(* The peers of a configuration. *)

(* The interfaces between two peers of a configuration. *)
PeersVia(f, s, h) ==
    /\ h \in [0..Len(s) -> Iface]
    /\ h[0] = f
    /\ \A i \in 1..Len(s) : h[i] = SetWhole(h[i - 1], s[i])
    /\ h[Len(s)] = ApplyPeers(f, s)

(* Writing whole peers in turn passes through a history of interfaces. *)
LEMMA PeersHistory ==
    ASSUME NEW f \in Iface, NEW s \in Seq(WgPeer)
    PROVE  \E h : PeersVia(f, s, h)
<1> DEFINE n == Len(s)
           Fn(iter) == [t \in SUBSET (1..n) |->
                          IF t = {} THEN f ELSE SetWhole(iter[t \ {Greatest(t)}], s[Greatest(t)])]
           It == CHOOSE iter : iter = Fn(iter)
<1>1. n \in Nat /\ DOMAIN s = 1..n /\ \A i \in 1..n : s[i] \in WgPeer
  OBVIOUS
<1>2. \E iter : iter = Fn(iter)
  <2> DEFINE next == [i \in 1..n |-> [g \in Iface |-> SetWhole(g, s[i])]]
  <2>1. next \in [1..n -> [Iface -> Iface]]
    BY <1>1, SetWholeType
  <2>2. PICK iter \in [SUBSET (1..n) -> Iface] : Iterates(n, f, next, iter)
    <3> HIDE DEF next, n
    <3> QED
      BY Zenon, <1>1, <2>1, FoldExists
  <2>3. ASSUME NEW t \in SUBSET (1..n), t # {}
        PROVE iter[t] = SetWhole(iter[t \ {Greatest(t)}], s[Greatest(t)])
    <3>1. Greatest(t) \in 1..n /\ iter[t \ {Greatest(t)}] \in Iface
      BY Zenon, <1>1, <2>3, GreatestFacts
    <3>2. next[Greatest(t)][iter[t \ {Greatest(t)}]] = SetWhole(iter[t \ {Greatest(t)}], s[Greatest(t)])
      BY <3>1
    <3> HIDE DEF next
    <3> QED
      BY Zenon, <2>2, <2>3, <3>2 DEF Iterates
  <2>4. \A t \in SUBSET (1..n) : iter[t] = Fn(iter)[t]
    BY Zenon, <2>2, <2>3 DEF Iterates
  <2> HIDE DEF next
  <2> QED
    BY Zenon, <2>4
<1>3. It = Fn(It)
  <2> HIDE DEF Fn
  <2> QED
    BY <1>2
<1>4. ApplyPeers(f, s) = It[1..n]
  BY <1>1 DEF ApplyPeers, SetWhole, InTurn, MapThenFoldSet
<1> DEFINE h == PrefixFolds(n, It)
<1>5. PrefixesFollow(n, It, h)
  <2> HIDE DEF It, n
  <2> QED
    BY <1>1, PrefixValues
<1>6. h[0] = f
  <2>1. {} \in SUBSET (1..n)
    OBVIOUS
  <2> HIDE DEF It, h
  <2> QED
    BY <1>3, <1>5, <2>1 DEF PrefixesFollow
<1>7. ASSUME NEW i \in 1..n PROVE h[i] = SetWhole(h[i - 1], s[i])
  <2>1. It[1..i] = Fn(It)[1..i] /\ 1..i \in SUBSET (1..n) /\ 1..i # {} /\ Greatest(1..i) = i
    BY Zenon, <1>3, <1>5 DEF PrefixesFollow
  <2>2. Fn(It)[1..i] = SetWhole(It[(1..i) \ {i}], s[i])
    <3> HIDE DEF It
    <3> QED
      BY Zenon, <2>1
  <2> HIDE DEF It, h, Fn
  <2> QED
    BY Zenon, <1>5, <2>1, <2>2 DEF PrefixesFollow
<1> HIDE DEF It, h
<1>8. h \in [0..n -> Iface]
  <2> DEFINE S == {i \in 0..n : h[i] \in Iface}
  <2>1. 0 \in S
    BY <1>1, <1>6
  <2>2. ASSUME NEW i \in 1..n, i - 1 \in S PROVE i \in S
    BY <1>1, <2>2, <1>7, SetWholeType
  <2> HIDE DEF S
  <2>3. \A i \in 0..n : i \in S
    BY Zenon, <1>1, <2>1, <2>2, InductionUpTo
  <2> QED
    BY <2>3 DEF S, h, PrefixFolds
<1> QED
  BY SMTT(60), <1>1, <1>4, <1>5, <1>6, <1>7, <1>8 DEF PrefixesFollow, PeersVia

(* The peers are taken one after the other. *)
LEMMA PeersEmpty ==
    ASSUME NEW f \in Iface
    PROVE  ApplyPeers(f, <<>>) = f
<1> DEFINE none == <<>>
<1>1. none \in Seq(WgPeer) /\ Len(none) = 0
  OBVIOUS
<1> HIDE DEF none
<1>2. PICK h : PeersVia(f, none, h)
  BY Zenon, <1>1, PeersHistory
<1>3. ApplyPeers(f, none) = f
  BY <1>1, <1>2 DEF PeersVia
<1> QED
  BY <1>3 DEF none

(* One more peer is one more write after the others. *)
LEMMA PeersAppend ==
    ASSUME NEW f \in Iface, NEW s \in Seq(WgPeer),
           NEW x \in WgPeer
    PROVE  ApplyPeers(f, Append(s, x)) = SetWhole(ApplyPeers(f, s), x)
<1>1. /\ Append(s, x) \in Seq(WgPeer) /\ Len(Append(s, x)) = Len(s) + 1 /\ Len(s) \in Nat
      /\ \A i \in 1..Len(s) : Append(s, x)[i] = s[i]
      /\ Append(s, x)[Len(s) + 1] = x
  OBVIOUS
<1>2. PICK h : PeersVia(f, s, h)
  BY PeersHistory
<1>3. PICK g : PeersVia(f, Append(s, x), g)
  BY Zenon, <1>1, PeersHistory
<1>4. \A i \in 0..Len(s) : i \in {j \in 0..Len(s) : g[j] = h[j]}
  <2> DEFINE S == {j \in 0..Len(s) : g[j] = h[j]}
  <2>1. 0 \in S
    BY <1>1, <1>2, <1>3 DEF PeersVia
  <2>2. ASSUME NEW i \in 1..Len(s), i - 1 \in S PROVE i \in S
    <3>1. i - 1 \in 0..Len(s) /\ g[i - 1] = h[i - 1] /\ i \in 1 .. Len(s) + 1
      BY <1>1, <2>2
    <3> QED
      BY <1>1, <1>2, <1>3, <3>1 DEF PeersVia
  <2> HIDE DEF S
  <2>3. \A i \in 0..Len(s) : i \in S
    BY Zenon, <1>1, <2>1, <2>2, InductionUpTo
  <2> QED
    BY <2>3 DEF S
<1>5. g[Len(s)] = h[Len(s)] /\ Len(s) + 1 \in 1 .. Len(s) + 1 /\ (Len(s) + 1) - 1 = Len(s)
  BY <1>1, <1>4
<1> QED
  BY SMTT(60), <1>1, <1>2, <1>3, <1>5 DEF PeersVia

-----------------------------------------------------------------------------
(* The entries of messages. *)

(* E is a set of entries that make sense for configuration d. *)
Closed(d, E) == \A g \in Iface : \A e \in E : ApplyEntry(g, d, e) \in Iface

(* The interfaces between two entries. *)
EntriesVia(f, d, s, h) ==
    /\ h \in [0..Len(s) -> Iface]
    /\ h[0] = f
    /\ \A i \in 1..Len(s) : h[i] = ApplyEntry(h[i - 1], d, s[i])
    /\ h[Len(s)] = ApplyEntries(f, d, s)

(* Applying the entries of messages passes through a history of interfaces. *)
LEMMA EntriesHistory ==
    ASSUME NEW d, NEW E, Closed(d, E),
           NEW f \in Iface, NEW s \in Seq(E)
    PROVE  \E h : EntriesVia(f, d, s, h)
<1> DEFINE n == Len(s)
           Fn(iter) == [t \in SUBSET (1..n) |->
                          IF t = {} THEN f ELSE ApplyEntry(iter[t \ {Greatest(t)}], d, s[Greatest(t)])]
           It == CHOOSE iter : iter = Fn(iter)
<1>1. n \in Nat /\ DOMAIN s = 1..n /\ \A i \in 1..n : s[i] \in E
  OBVIOUS
<1>2. \E iter : iter = Fn(iter)
  <2> DEFINE next == [i \in 1..n |-> [g \in Iface |-> ApplyEntry(g, d, s[i])]]
  <2>1. next \in [1..n -> [Iface -> Iface]]
    BY <1>1 DEF Closed
  <2>2. PICK iter \in [SUBSET (1..n) -> Iface] : Iterates(n, f, next, iter)
    <3> HIDE DEF next, n
    <3> QED
      BY Zenon, <1>1, <2>1, FoldExists
  <2>3. ASSUME NEW t \in SUBSET (1..n), t # {}
        PROVE iter[t] = ApplyEntry(iter[t \ {Greatest(t)}], d, s[Greatest(t)])
    <3>1. Greatest(t) \in 1..n /\ iter[t \ {Greatest(t)}] \in Iface
      BY Zenon, <1>1, <2>3, GreatestFacts
    <3>2. next[Greatest(t)][iter[t \ {Greatest(t)}]] = ApplyEntry(iter[t \ {Greatest(t)}], d, s[Greatest(t)])
      BY <3>1
    <3> HIDE DEF next
    <3> QED
      BY <2>2, <2>3, <3>2 DEF Iterates
  <2>4. \A t \in SUBSET (1..n) : iter[t] = Fn(iter)[t]
    BY Zenon, <2>2, <2>3 DEF Iterates
  <2> HIDE DEF next
  <2> QED
    BY Zenon, <2>4
<1>3. It = Fn(It)
  <2> HIDE DEF Fn
  <2> QED
    BY <1>2
<1>4. ApplyEntries(f, d, s) = It[1..n]
  BY <1>1 DEF ApplyEntries, InTurn, MapThenFoldSet
<1> DEFINE h == PrefixFolds(n, It)
<1>5. PrefixesFollow(n, It, h)
  <2> HIDE DEF It, n
  <2> QED
    BY <1>1, PrefixValues
<1>6. h[0] = f
  <2>1. {} \in SUBSET (1..n)
    OBVIOUS
  <2> HIDE DEF It, h
  <2> QED
    BY <1>3, <1>5, <2>1 DEF PrefixesFollow
<1>7. ASSUME NEW i \in 1..n PROVE h[i] = ApplyEntry(h[i - 1], d, s[i])
  <2>1. It[1..i] = Fn(It)[1..i] /\ 1..i \in SUBSET (1..n) /\ 1..i # {} /\ Greatest(1..i) = i
    BY Zenon, <1>3, <1>5 DEF PrefixesFollow
  <2>2. Fn(It)[1..i] = ApplyEntry(It[(1..i) \ {i}], d, s[i])
    <3> HIDE DEF It
    <3> QED
      BY Zenon, <2>1
  <2> HIDE DEF It, h, Fn
  <2> QED
    BY Zenon, <1>5, <2>1, <2>2 DEF PrefixesFollow
<1> HIDE DEF It, h
<1>8. h \in [0..n -> Iface]
  <2> DEFINE S == {i \in 0..n : h[i] \in Iface}
  <2>1. 0 \in S
    BY <1>1, <1>6
  <2>2. ASSUME NEW i \in 1..n, i - 1 \in S PROVE i \in S
    BY <1>1, <2>2, <1>7 DEF Closed
  <2> HIDE DEF S
  <2>3. \A i \in 0..n : i \in S
    BY Zenon, <1>1, <2>1, <2>2, InductionUpTo
  <2> QED
    BY <2>3 DEF S, h, PrefixFolds
<1> QED
  BY SMTT(60), <1>1, <1>4, <1>5, <1>6, <1>7, <1>8 DEF PrefixesFollow, EntriesVia

(* The entries are taken one after the other. *)
LEMMA EntriesEmpty ==
    ASSUME NEW d, NEW E, Closed(d, E),
           NEW f \in Iface
    PROVE  ApplyEntries(f, d, <<>>) = f
<1> DEFINE none == <<>>
<1>1. none \in Seq(E) /\ Len(none) = 0
  OBVIOUS
<1> HIDE DEF none
<1>2. PICK h : EntriesVia(f, d, none, h)
  BY Zenon, <1>1, EntriesHistory
<1>3. ApplyEntries(f, d, none) = f
  BY <1>1, <1>2 DEF EntriesVia
<1> QED
  BY <1>3 DEF none

(* One more entry is applied after the others. *)
LEMMA EntriesAppend ==
    ASSUME NEW d, NEW E, Closed(d, E),
           NEW f \in Iface, NEW s \in Seq(E),
           NEW x \in E
    PROVE  ApplyEntries(f, d, Append(s, x)) = ApplyEntry(ApplyEntries(f, d, s), d, x)
<1>1. /\ Append(s, x) \in Seq(E) /\ Len(Append(s, x)) = Len(s) + 1 /\ Len(s) \in Nat
      /\ \A i \in 1..Len(s) : Append(s, x)[i] = s[i]
      /\ Append(s, x)[Len(s) + 1] = x
  OBVIOUS
<1>2. PICK h : EntriesVia(f, d, s, h)
  BY EntriesHistory
<1>3. PICK g : EntriesVia(f, d, Append(s, x), g)
  BY Zenon, <1>1, EntriesHistory
<1>4. \A i \in 0..Len(s) : i \in {j \in 0..Len(s) : g[j] = h[j]}
  <2> DEFINE S == {j \in 0..Len(s) : g[j] = h[j]}
  <2>1. 0 \in S
    BY <1>1, <1>2, <1>3 DEF EntriesVia
  <2>2. ASSUME NEW i \in 1..Len(s), i - 1 \in S PROVE i \in S
    <3>1. i - 1 \in 0..Len(s) /\ g[i - 1] = h[i - 1] /\ i \in 1 .. Len(s) + 1
      BY <1>1, <2>2
    <3> QED
      BY <1>1, <1>2, <1>3, <3>1 DEF EntriesVia
  <2> HIDE DEF S
  <2>3. \A i \in 0..Len(s) : i \in S
    BY Zenon, <1>1, <2>1, <2>2, InductionUpTo
  <2> QED
    BY <2>3 DEF S
<1>5. g[Len(s)] = h[Len(s)] /\ Len(s) + 1 \in 1 .. Len(s) + 1 /\ (Len(s) + 1) - 1 = Len(s)
  BY <1>1, <1>4
<1> QED
  BY <1>1, <1>2, <1>3, <1>5 DEF EntriesVia

(* Two series of entries, one after the other. *)
LEMMA EntriesConcat ==
    ASSUME NEW d, NEW E, Closed(d, E), NEW f \in Iface, NEW s \in Seq(E), NEW t \in Seq(E)
    PROVE  /\ ApplyEntries(f, d, s) \in Iface
           /\ ApplyEntries(f, d, s \o t) = ApplyEntries(ApplyEntries(f, d, s), d, t)
<1>1. ApplyEntries(f, d, s) \in Iface
  <2>1. PICK h : EntriesVia(f, d, s, h)
    BY EntriesHistory
  <2>2. Len(s) \in 0..Len(s)
    OBVIOUS
  <2> QED
    BY <2>1, <2>2 DEF EntriesVia
<1> DEFINE g == ApplyEntries(f, d, s)
<1>2. ApplyEntries(f, d, s \o <<>>) = ApplyEntries(g, d, <<>>)
  <2>1. s \o <<>> = s
    OBVIOUS
  <2>2. ApplyEntries(g, d, <<>>) = g
    BY <1>1, EntriesEmpty
  <2> QED
    BY <2>1, <2>2
<1>3. ASSUME NEW v \in Seq(E), NEW x \in E,
             ApplyEntries(f, d, s \o v) = ApplyEntries(g, d, v)
      PROVE  ApplyEntries(f, d, s \o Append(v, x)) = ApplyEntries(g, d, Append(v, x))
  <2>1. s \o v \in Seq(E) /\ s \o Append(v, x) = Append(s \o v, x)
    BY ConcatAppends
  <2>2. ApplyEntries(f, d, Append(s \o v, x)) = ApplyEntry(ApplyEntries(f, d, s \o v), d, x)
    <3>1. \A w \in Seq(E) : ApplyEntries(f, d, Append(w, x)) = ApplyEntry(ApplyEntries(f, d, w), d, x)
      BY EntriesAppend
    <3> QED
      BY <2>1, <3>1, Zenon
  <2>3. ApplyEntries(g, d, Append(v, x)) = ApplyEntry(ApplyEntries(g, d, v), d, x)
    BY <1>1, EntriesAppend
  <2> QED
    BY <1>3, <2>1, <2>2, <2>3
<1> HIDE DEF g
<1> DEFINE S == {n \in Nat : n <= Len(t) =>
                    ApplyEntries(f, d, s \o SubSeq(t, 1, n))
                      = ApplyEntries(g, d, SubSeq(t, 1, n))}
<1>4. 0 \in S
  <2>1. SubSeq(t, 1, 0) = <<>>
    OBVIOUS
  <2> QED
    BY Zenon, <1>2, <2>1
<1>5. ASSUME NEW n \in Nat, n \in S PROVE n + 1 \in S
  <2>1. SUFFICES ASSUME n + 1 <= Len(t)
                 PROVE ApplyEntries(f, d, s \o SubSeq(t, 1, n + 1))
                         = ApplyEntries(g, d, SubSeq(t, 1, n + 1))
    OBVIOUS
  <2>2. ApplyEntries(f, d, s \o SubSeq(t, 1, n)) = ApplyEntries(g, d, SubSeq(t, 1, n))
    BY <1>5, <2>1
  <2>3. t[n + 1] \in E
    BY <2>1
  <2>4. SubSeq(t, 1, n) \in Seq(E) /\ SubSeq(t, 1, n + 1) = Append(SubSeq(t, 1, n), t[n + 1])
    BY <2>1, SubSeqAppends
  <2> QED
    BY Zenon, <1>3, <2>2, <2>3, <2>4
<1> HIDE DEF S
<1>6. Nat \subseteq S
  BY <1>4, <1>5, Induction
<1>7. Len(t) \in S /\ SubSeq(t, 1, Len(t)) = t
  BY <1>6
<1>8. ApplyEntries(f, d, s \o t) = ApplyEntries(g, d, t)
  <2>1. Len(t) <= Len(t)
    OBVIOUS
  <2>2. ApplyEntries(f, d, s \o SubSeq(t, 1, Len(t))) = ApplyEntries(g, d, SubSeq(t, 1, Len(t)))
    BY <1>7, <2>1, Zenon DEF S
  <2> QED
    BY <1>7, <2>2, Zenon
<1> QED
  BY <1>1, <1>8 DEF g

-----------------------------------------------------------------------------
(* A configuration up to one of its peers. *)
FirstPeers(f, d, q) == ApplyDevice(f, [d EXCEPT !.peers = SubSeq(@, 1, q)])

(* The whole configuration is its device attributes, then its peers. *)
LEMMA ApplyDeviceIsFold ==
    \A f, d : ApplyDevice(f, d) = ApplyPeers(SetDeviceAttrs(f, d), d.peers)
BY DEF ApplyDevice, ApplyPeers

(* It is the device, then peer by peer. *)
LEMMA FirstPeersStep ==
    ASSUME NEW f \in Iface, NEW d \in WgDev
    PROVE  /\ FirstPeers(f, d, 0) = SetDeviceAttrs(f, d)
           /\ FirstPeers(f, d, Len(d.peers)) = ApplyDevice(f, d)
           /\ \A q \in 0..Len(d.peers) : FirstPeers(f, d, q) \in Iface
           /\ \A q \in 1..Len(d.peers) :
                 FirstPeers(f, d, q) = SetWhole(FirstPeers(f, d, q - 1), d.peers[q])
<1> DEFINE g == SetDeviceAttrs(f, d)
           ps == d.peers
<1>1. ps \in Seq(WgPeer) /\ Len(ps) \in Nat
  BY DEF WgDev
<1>2. g \in Iface
  BY SetDeviceAttrsType
<1>3. ASSUME NEW q \in 0..Len(ps)
      PROVE FirstPeers(f, d, q) = ApplyPeers(g, SubSeq(ps, 1, q))
  <2> DEFINE c == [d EXCEPT !.peers = SubSeq(@, 1, q)]
  <2>1. /\ c.peers = SubSeq(ps, 1, q) /\ c.priv = d.priv /\ c.port = d.port
        /\ c.fwmark = d.fwmark /\ c.replace = d.replace
    BY DEF WgDev
  <2>2. SetDeviceAttrs(f, c) = g
    <3> HIDE DEF c
    <3> QED
      BY <2>1 DEF SetDeviceAttrs
  <2> HIDE DEF g
  <2> QED
    BY Zenon, <2>1, <2>2, ApplyDeviceIsFold DEF FirstPeers
<1> HIDE DEF g
<1>4. SubSeq(ps, 1, 0) = <<>> /\ SubSeq(ps, 1, Len(ps)) = ps
  BY <1>1
<1>5. FirstPeers(f, d, 0) = g
  <2>1. 0 \in 0..Len(ps)
    BY <1>1
  <2>2. ApplyPeers(g, <<>>) = g
    BY <1>2, PeersEmpty
  <2> QED
    BY Zenon, <1>3, <1>4, <2>1, <2>2
<1>6. FirstPeers(f, d, Len(ps)) = ApplyDevice(f, d)
  <2>1. Len(ps) \in 0..Len(ps)
    BY <1>1
  <2> QED
    BY Zenon, <1>3, <1>4, <2>1, ApplyDeviceIsFold DEF g
<1>7. ASSUME NEW q \in 1..Len(ps)
      PROVE FirstPeers(f, d, q) = SetWhole(FirstPeers(f, d, q - 1), ps[q])
  <2>1. q \in 0..Len(ps) /\ q - 1 \in 0..Len(ps) /\ (q - 1) + 1 = q /\ ps[q] \in WgPeer
    BY <1>1
  <2>2. SubSeq(ps, 1, q - 1) \in Seq(WgPeer)
        /\ SubSeq(ps, 1, q) = Append(SubSeq(ps, 1, q - 1), ps[q])
    BY <1>1, <2>1, SubSeqAppends
  <2>3. ApplyPeers(g, SubSeq(ps, 1, q)) = SetWhole(ApplyPeers(g, SubSeq(ps, 1, q - 1)), ps[q])
    BY ZenonT(60), <1>2, <2>1, <2>2, PeersAppend
  <2> QED
    BY <1>3, <2>1, <2>3
<1>8. ASSUME NEW q \in 0..Len(ps) PROVE FirstPeers(f, d, q) \in Iface
  <2>1. SubSeq(ps, 1, q) \in Seq(WgPeer)
    BY <1>1
  <2>2. PICK h : PeersVia(g, SubSeq(ps, 1, q), h)
    BY Zenon, <1>2, <2>1, PeersHistory
  <2>3. ApplyPeers(g, SubSeq(ps, 1, q)) \in Iface
    BY <2>1, <2>2 DEF PeersVia
  <2> QED
    BY <1>3, <2>3
<1> QED
  BY <1>5, <1>6, <1>7, <1>8 DEF g

-----------------------------------------------------------------------------
(* The fragments of one peer. *)

(* The header of a nest, field by field. *)
OldPeer(f, p) == IF f.peers[p.key] = NULL THEN NewPeer ELSE f.peers[p.key]
UpdatedPeer(f, p) ==
    [psk |-> IF p.psk = "zero" THEN NULL ELSE Given(p.psk, OldPeer(f, p).psk),
     endpoint |-> Given(p.endpoint, OldPeer(f, p).endpoint),
     ka |-> Given(p.ka, OldPeer(f, p).ka)]
HeaderFields(f, p, first, flags, g) ==
    /\ g \in Iface
    /\ g.priv = f.priv /\ g.port = f.port /\ g.fwmark = f.fwmark
    /\ \A k \in Keys : k # p.key => g.peers[k] = f.peers[k]
    /\ "REMOVE_ME" \in flags => g.peers[p.key] = NULL /\ g.owner = Disown(f.owner, p.key)
    /\ "REMOVE_ME" \notin flags =>
         /\ g.peers[p.key] = IF first THEN UpdatedPeer(f, p) ELSE OldPeer(f, p)
         /\ g.peers[p.key] \in KernelPeer
         /\ g.owner = IF "REPLACE_ALLOWEDIPS" \in flags THEN Disown(f.owner, p.key) ELSE f.owner

(* What the header of a peer nest makes of the peer it names. *)
LEMMA SetPeerFields ==
    ASSUME NEW f \in Iface, NEW p \in WgPeer, NEW first \in BOOLEAN, NEW flags
    PROVE  HeaderFields(f, p, first, flags, SetPeer(f, p, first, flags))
<1> DEFINE g == SetPeer(f, p, first, flags)
           old == IF f.peers[p.key] = NULL THEN NewPeer ELSE f.peers[p.key]
           psk == IF p.psk = "zero" THEN NULL ELSE Given(p.psk, old.psk)
           new == [psk |-> psk, endpoint |-> Given(p.endpoint, old.endpoint),
                   ka |-> Given(p.ka, old.ka)]
           q == IF first THEN new ELSE old
           o == IF "REPLACE_ALLOWEDIPS" \in flags THEN Disown(f.owner, p.key) ELSE f.owner
<1>1. p.key \in Keys /\ f.peers \in [Keys -> {NULL} \cup KernelPeer]
  BY DEF WgPeer, Iface
<1>2. g \in Iface
  BY SetPeerType
<1>3. old \in KernelPeer
  BY <1>1 DEF NewPeer, KernelPeer
<1>4. new \in KernelPeer
  BY <1>3 DEF Given, WgPeer, KernelPeer
<1>5. CASE "REMOVE_ME" \in flags
  <2>1. g = [f EXCEPT !.peers[p.key] = NULL, !.owner = Disown(@, p.key)]
    BY <1>5 DEF SetPeer, RemovePeer
  <2> HIDE DEF g
  <2>2. /\ g.priv = f.priv /\ g.port = f.port /\ g.fwmark = f.fwmark
        /\ g.peers = [f.peers EXCEPT ![p.key] = NULL] /\ g.owner = Disown(f.owner, p.key)
    BY <2>1 DEF Iface
  <2> QED
    BY <1>1, <1>2, <1>5, <2>2 DEF g, HeaderFields
<1>6. CASE "REMOVE_ME" \notin flags
  <2>1. g = [f EXCEPT !.peers[p.key] = q, !.owner = o]
    BY <1>6 DEF SetPeer
  <2> HIDE DEF g, q, o, new, old
  <2>2. /\ g.priv = f.priv /\ g.port = f.port /\ g.fwmark = f.fwmark
        /\ g.peers = [f.peers EXCEPT ![p.key] = q] /\ g.owner = o
    BY <2>1 DEF Iface
  <2>3. q \in KernelPeer
    BY <1>3, <1>4 DEF q
  <2>4. g.peers[p.key] = q /\ \A k \in Keys : k # p.key => g.peers[k] = f.peers[k]
    BY <1>1, <2>2
  <2> QED
    BY <1>2, <1>6, <2>2, <2>3, <2>4
       DEF g, q, o, new, old, HeaderFields, UpdatedPeer, OldPeer
<1> QED
  BY <1>5, <1>6

(* Two interfaces with the same fields are the same. *)
LEMMA SameIface ==
    ASSUME NEW f \in Iface, NEW g \in Iface,
           f.priv = g.priv, f.port = g.port, f.fwmark = g.fwmark,
           f.peers = g.peers, f.owner = g.owner
    PROVE  f = g
BY DEF Iface

(* The first fragment of a peer, and a later one with its flags. *)
FirstNest(f, p, to) == SetNest(f, p, TRUE, UserFlags(p), 1, to)
LaterNest(f, p, flags, from, to) == SetNest(f, p, FALSE, flags, from, to)
LaterFlags(p, flags) ==
    ("REMOVE_ME" \in flags <=> p.remove) /\ "REPLACE_ALLOWEDIPS" \notin flags

(* A peer whose allowed IPs were cut after from - 1 of them and go on in the   *)
(* next message, without attributes but with REMOVE_ME if the peer is removed, *)
(* ends up as if all of them had come in one nest.                             *)
LEMMA NestResumes ==
    ASSUME NEW f \in Iface, NEW p \in WgPeer, NEW flags,
           NEW from, NEW to, NestRange(p, from, to),
           LaterFlags(p, flags)
    PROVE  LaterNest(FirstNest(f, p, from), p, flags, from, to) = FirstNest(f, p, to)
<1> DEFINE k == p.key
           h == SetPeer(f, p, TRUE, UserFlags(p))
           m == SetNest(f, p, TRUE, UserFlags(p), 1, from)
<1>1. k \in Keys /\ p.aips \in Seq(WgAllowedIp) /\ p.remove \in BOOLEAN
  BY DEF WgPeer
<1>2. "REMOVE_ME" \in UserFlags(p) <=> p.remove
  BY DEF UserFlags
<1>3. h \in Iface
  BY Zenon, SetPeerType
<1>4. from \in Nat /\ to \in Nat /\ 1 <= from /\ from <= to /\ to <= Len(p.aips) + 1
      /\ Len(p.aips) \in Nat
  BY <1>1 DEF NestRange
<1> USE DEF LaterFlags, FirstNest, LaterNest
<1>5. CASE p.remove
  <2>1. m = h /\ SetNest(f, p, TRUE, UserFlags(p), 1, to) = h
    BY <1>2, <1>5 DEF SetNest, SetAllowedIps
  <2>2. SetNest(h, p, FALSE, flags, from, to) = SetPeer(h, p, FALSE, flags)
    BY <1>5 DEF SetNest, SetAllowedIps
  <2>3. h.peers[k] = NULL /\ h.owner = Disown(f.owner, k)
    <3>1. HeaderFields(f, p, TRUE, UserFlags(p), h)
      BY Zenon, SetPeerFields
    <3> HIDE DEF h
    <3> QED
      BY <3>1, <1>2, <1>5 DEF HeaderFields
  <2> HIDE DEF h
  <2> DEFINE g == SetPeer(h, p, FALSE, flags)
  <2>4. /\ g \in Iface
        /\ g.priv = h.priv /\ g.port = h.port /\ g.fwmark = h.fwmark
        /\ \A j \in Keys : j # k => g.peers[j] = h.peers[j]
        /\ g.peers[k] = NULL /\ g.owner = Disown(h.owner, k)
    <3>1. HeaderFields(h, p, FALSE, flags, g)
      BY Zenon, <1>3, SetPeerFields
    <3> HIDE DEF g
    <3> QED
      BY <3>1, <1>5 DEF HeaderFields
  <2> HIDE DEF g
  <2>5. g.peers = h.peers
    BY <1>3, <2>3, <2>4 DEF Iface
  <2>6. g.owner = h.owner
    BY <2>3, <2>4 DEF Disown
  <2>7. g = h
    BY <1>3, <2>4, <2>5, <2>6, SameIface
  <2> QED
    BY Zenon, <2>1, <2>2, <2>7 DEF g
<1>6. CASE ~p.remove
  <2>1. m = AllowedIps(h, k, SubSeq(p.aips, 1, from - 1))
    BY Zenon, <1>2, <1>6 DEF SetNest, SetAllowedIps, AllowedIps
  <2>2. SetNest(f, p, TRUE, UserFlags(p), 1, to) = AllowedIps(h, k, SubSeq(p.aips, 1, to - 1))
    BY Zenon, <1>2, <1>6 DEF SetNest, SetAllowedIps, AllowedIps
  <2>3. SetNest(m, p, FALSE, flags, from, to)
          = AllowedIps(SetPeer(m, p, FALSE, flags), k, SubSeq(p.aips, from, to - 1))
    BY Zenon, <1>6 DEF SetNest, SetAllowedIps, AllowedIps
  <2>4. h.peers[k] \in KernelPeer
    <3>1. HeaderFields(f, p, TRUE, UserFlags(p), h)
      BY Zenon, SetPeerFields
    <3> HIDE DEF h
    <3> QED
      BY <3>1, <1>2, <1>6 DEF HeaderFields
  <2> HIDE DEF h, m
  <2>5. SubSeq(p.aips, 1, from - 1) \in Seq(WgAllowedIp)
    BY <1>1, <1>4, PartFacts
  <2>6. m \in Iface /\ m.peers = h.peers
    BY Zenon, <1>1, <1>3, <2>1, <2>5, AllowedIpsKeep
  <2>7. m.peers[k] # NULL
    BY <2>4, <2>6, NoPeerAssumption
  <2> DEFINE g == SetPeer(m, p, FALSE, flags)
  <2>8. /\ g \in Iface
        /\ g.priv = m.priv /\ g.port = m.port /\ g.fwmark = m.fwmark
        /\ \A j \in Keys : j # k => g.peers[j] = m.peers[j]
        /\ g.peers[k] = m.peers[k] /\ g.owner = m.owner
    <3>1. HeaderFields(m, p, FALSE, flags, g)
      BY Zenon, <2>6, SetPeerFields
    <3> HIDE DEF g
    <3> QED
      BY <3>1, <1>6, <2>7 DEF HeaderFields, OldPeer
  <2> HIDE DEF g
  <2>9. g.peers = m.peers
    BY <2>6, <2>8 DEF Iface
  <2>10. g = m
    BY <2>6, <2>8, <2>9, SameIface
  <2>11. AllowedIps(AllowedIps(h, k, SubSeq(p.aips, 1, from - 1)), k, SubSeq(p.aips, from, to - 1))
           = AllowedIps(h, k, SubSeq(p.aips, 1, to - 1))
    <3>1. to - 1 \in Nat /\ from <= (to - 1) + 1 /\ to - 1 <= Len(p.aips)
      BY <1>4
    <3> QED
      BY <1>1, <1>3, <1>4, <3>1, AllowedIpsParts
  <2> QED
    BY Zenon, <2>1, <2>2, <2>3, <2>10, <2>11 DEF g, m
<1> QED
  BY Zenon, <1>1, <1>5, <1>6

-----------------------------------------------------------------------------
(* What nests and device attributes do to an interface they do again: they     *)
(* set something, keep it, or take it away from peers, whatever it was.  Maps  *)
(* of that kind are closed under composition and idempotent, and they keep two *)
(* interfaces near to each other.                                              *)

Known(v) == IF v = NULL THEN NewPeer ELSE v

PskShape(H, k) ==
    \/ \A f, g \in Iface : H[f].peers[k].psk = H[g].peers[k].psk
    \/ \A f \in Iface : H[f].peers[k].psk = Known(f.peers[k]).psk
EndpointShape(H, k) ==
    \/ \A f, g \in Iface : H[f].peers[k].endpoint = H[g].peers[k].endpoint
    \/ \A f \in Iface : H[f].peers[k].endpoint = Known(f.peers[k]).endpoint
KaShape(H, k) ==
    \/ \A f, g \in Iface : H[f].peers[k].ka = H[g].peers[k].ka
    \/ \A f \in Iface : H[f].peers[k].ka = Known(f.peers[k]).ka

PeerShape(H, k) ==
    \/ \A f, g \in Iface : H[f].peers[k] = H[g].peers[k]
    \/ \A f \in Iface : H[f].peers[k] = f.peers[k]
    \/ /\ \A f \in Iface : H[f].peers[k] \in KernelPeer
       /\ PskShape(H, k) /\ EndpointShape(H, k) /\ KaShape(H, k)

Drops(H, i, K) ==
    \A f \in Iface : H[f].owner[i] = IF f.owner[i] \in K THEN NULL ELSE f.owner[i]
OwnerShape(H, i) ==
    \/ \A f, g \in Iface : H[f].owner[i] = H[g].owner[i]
    \/ \E K : Drops(H, i, K)

PrivShape(H) ==
    (\A f, g \in Iface : H[f].priv = H[g].priv) \/ (\A f \in Iface : H[f].priv = f.priv)
PortShape(H) ==
    (\A f, g \in Iface : H[f].port = H[g].port) \/ (\A f \in Iface : H[f].port = f.port)
FwmarkShape(H) ==
    (\A f, g \in Iface : H[f].fwmark = H[g].fwmark) \/ (\A f \in Iface : H[f].fwmark = f.fwmark)

Steady(H) ==
    /\ H \in [Iface -> Iface]
    /\ \A k \in Keys : PeerShape(H, k)
    /\ \A i \in Ips : OwnerShape(H, i)
    /\ PrivShape(H) /\ PortShape(H) /\ FwmarkShape(H)

Then(H, G) == [f \in Iface |-> G[H[f]]]

(* Doing nothing is steady. *)
LEMMA SteadyIdentity == Steady([f \in Iface |-> f])
<1> DEFINE H == [f \in Iface |-> f]
<1>1. H \in [Iface -> Iface] /\ \A f \in Iface : H[f] = f
  OBVIOUS
<1> HIDE DEF H
<1>2. \A i \in Ips : OwnerShape(H, i)
  <2> TAKE i \in Ips
  <2>1. Drops(H, i, {})
    BY <1>1 DEF Drops
  <2> QED
    BY <2>1 DEF OwnerShape
<1>3. \A k \in Keys : PeerShape(H, k)
  BY <1>1 DEF PeerShape
<1>4. PrivShape(H) /\ PortShape(H) /\ FwmarkShape(H)
  BY <1>1 DEF PrivShape, PortShape, FwmarkShape
<1>5. Steady(H)
  BY <1>1, <1>2, <1>3, <1>4 DEF Steady
<1> QED
  BY <1>5 DEF H

(* One steady map after another. *)
LEMMA ThenPeer ==
    ASSUME NEW H \in [Iface -> Iface], NEW G \in [Iface -> Iface], NEW k \in Keys,
           PeerShape(H, k), PeerShape(G, k)
    PROVE  PeerShape(Then(H, G), k)
<1> DEFINE T == Then(H, G)
<1>1. \A f \in Iface : T[f] = G[H[f]] /\ H[f] \in Iface
  BY DEF Then
<1> HIDE DEF T
<1>2. CASE \A f, g \in Iface : G[f].peers[k] = G[g].peers[k]
  <2>1. \A f, g \in Iface : T[f].peers[k] = T[g].peers[k]
    BY <1>1, <1>2
  <2> QED
    BY <2>1 DEF PeerShape, T
<1>3. CASE \A f \in Iface : G[f].peers[k] = f.peers[k]
  <2>1. \A f \in Iface : T[f].peers[k] = H[f].peers[k]
    BY <1>1, <1>3
  <2>2. PskShape(H, k) => PskShape(T, k)
    <3>1. \A f \in Iface : T[f].peers[k].psk = H[f].peers[k].psk
      BY <2>1
    <3> QED
      BY <3>1 DEF PskShape
  <2>3. EndpointShape(H, k) => EndpointShape(T, k)
    <3>1. \A f \in Iface : T[f].peers[k].endpoint = H[f].peers[k].endpoint
      BY <2>1
    <3> QED
      BY <3>1 DEF EndpointShape
  <2>4. KaShape(H, k) => KaShape(T, k)
    <3>1. \A f \in Iface : T[f].peers[k].ka = H[f].peers[k].ka
      BY <2>1
    <3> QED
      BY <3>1 DEF KaShape
  <2>5. PeerShape(T, k)
    BY ZenonT(60), <2>1, <2>2, <2>3, <2>4 DEF PeerShape
  <2> QED
    BY <2>5 DEF T
<1>4. CASE /\ \A f \in Iface : G[f].peers[k] \in KernelPeer
           /\ PskShape(G, k) /\ EndpointShape(G, k) /\ KaShape(G, k)
  <2>1. \A f \in Iface : T[f].peers[k] \in KernelPeer
    BY <1>1, <1>4
  <2>2. \/ \A f, g \in Iface : H[f].peers[k] = H[g].peers[k]
        \/ \A f \in Iface : H[f].peers[k] = f.peers[k]
        \/ /\ \A f \in Iface : Known(H[f].peers[k]) = H[f].peers[k]
           /\ PskShape(H, k) /\ EndpointShape(H, k) /\ KaShape(H, k)
    BY SMTT(60), NoPeerAssumption DEF PeerShape, Known
  <2>3. PskShape(T, k)
    <3>1. CASE \A f, g \in Iface : G[f].peers[k].psk = G[g].peers[k].psk
      BY <1>1, <3>1 DEF PskShape
    <3>2. CASE \A f \in Iface : G[f].peers[k].psk = Known(f.peers[k]).psk
      <4>1. \A f \in Iface : T[f].peers[k].psk = Known(H[f].peers[k]).psk
        BY <1>1, <3>2
      <4> QED
        BY SMTT(60), <2>2, <4>1 DEF PskShape
    <3> QED
      BY <1>4, <3>1, <3>2 DEF PskShape
  <2>4. EndpointShape(T, k)
    <3>1. CASE \A f, g \in Iface : G[f].peers[k].endpoint = G[g].peers[k].endpoint
      BY <1>1, <3>1 DEF EndpointShape
    <3>2. CASE \A f \in Iface : G[f].peers[k].endpoint = Known(f.peers[k]).endpoint
      <4>1. \A f \in Iface : T[f].peers[k].endpoint = Known(H[f].peers[k]).endpoint
        BY <1>1, <3>2
      <4> QED
        BY SMTT(60), <2>2, <4>1 DEF EndpointShape
    <3> QED
      BY <1>4, <3>1, <3>2 DEF EndpointShape
  <2>5. KaShape(T, k)
    <3>1. CASE \A f, g \in Iface : G[f].peers[k].ka = G[g].peers[k].ka
      BY <1>1, <3>1 DEF KaShape
    <3>2. CASE \A f \in Iface : G[f].peers[k].ka = Known(f.peers[k]).ka
      <4>1. \A f \in Iface : T[f].peers[k].ka = Known(H[f].peers[k]).ka
        BY <1>1, <3>2
      <4> QED
        BY SMTT(60), <2>2, <4>1 DEF KaShape
    <3> QED
      BY <1>4, <3>1, <3>2 DEF KaShape
  <2>6. PeerShape(T, k)
    BY <2>1, <2>3, <2>4, <2>5 DEF PeerShape
  <2> QED
    BY <2>6 DEF T
<1> QED
  BY <1>2, <1>3, <1>4 DEF PeerShape

(* Two writes in a row still treat the owner of an address in a steady way. *)
LEMMA ThenOwner ==
    ASSUME NEW H \in [Iface -> Iface], NEW G \in [Iface -> Iface], NEW i \in Ips,
           OwnerShape(H, i), OwnerShape(G, i)
    PROVE  OwnerShape(Then(H, G), i)
<1> DEFINE T == Then(H, G)
<1>1. \A f \in Iface : T[f] = G[H[f]] /\ H[f] \in Iface
  BY DEF Then
<1> HIDE DEF T
<1>2. CASE \A f, g \in Iface : G[f].owner[i] = G[g].owner[i]
  <2>1. OwnerShape(T, i)
    BY <1>1, <1>2 DEF OwnerShape
  <2> QED
    BY <2>1 DEF T
<1>3. ASSUME NEW K, Drops(G, i, K) PROVE OwnerShape(T, i)
  <2>1. \A f \in Iface : T[f].owner[i] = IF H[f].owner[i] \in K THEN NULL ELSE H[f].owner[i]
    BY <1>1, <1>3 DEF Drops
  <2>2. CASE \A f, g \in Iface : H[f].owner[i] = H[g].owner[i]
    <3>1. \A f, g \in Iface : T[f].owner[i] = T[g].owner[i]
      BY <2>1, <2>2
    <3> QED
      BY <3>1 DEF OwnerShape
  <2>3. ASSUME NEW L, Drops(H, i, L) PROVE OwnerShape(T, i)
    <3>1. Drops(T, i, K \cup L)
      BY <2>1, <2>3 DEF Drops
    <3> QED
      BY <3>1 DEF OwnerShape
  <2> QED
    BY <2>2, <2>3 DEF OwnerShape
<1> QED
  BY <1>2, <1>3 DEF OwnerShape, T

(* Two steady writes in a row are a steady write. *)
LEMMA ThenSteady ==
    ASSUME NEW H, NEW G, Steady(H), Steady(G)
    PROVE  Steady(Then(H, G))
<1> DEFINE T == Then(H, G)
<1>1. H \in [Iface -> Iface] /\ G \in [Iface -> Iface]
  BY DEF Steady
<1>2. T \in [Iface -> Iface] /\ \A f \in Iface : T[f] = G[H[f]] /\ H[f] \in Iface
  BY <1>1 DEF Then
<1>3. \A k \in Keys : PeerShape(T, k)
  BY Zenon, <1>1, ThenPeer DEF Steady
<1>4. \A i \in Ips : OwnerShape(T, i)
  BY <1>1, ThenOwner DEF Steady
<1> HIDE DEF T
<1>5. PrivShape(T)
  <2>1. PrivShape(H) /\ PrivShape(G)
    BY Zenon DEF Steady
  <2>2. \A f \in Iface : T[f].priv = G[H[f]].priv /\ H[f] \in Iface
    BY <1>2
  <2> QED
    BY <2>1, <2>2 DEF PrivShape
<1>6. PortShape(T)
  <2>1. PortShape(H) /\ PortShape(G)
    BY Zenon DEF Steady
  <2>2. \A f \in Iface : T[f].port = G[H[f]].port /\ H[f] \in Iface
    BY <1>2
  <2> QED
    BY <2>1, <2>2 DEF PortShape
<1>7. FwmarkShape(T)
  <2>1. FwmarkShape(H) /\ FwmarkShape(G)
    BY Zenon DEF Steady
  <2>2. \A f \in Iface : T[f].fwmark = G[H[f]].fwmark /\ H[f] \in Iface
    BY <1>2
  <2> QED
    BY <2>1, <2>2 DEF FwmarkShape
<1>8. Steady(T)
  BY <1>2, <1>3, <1>4, <1>5, <1>6, <1>7 DEF Steady
<1> QED
  BY <1>8 DEF T

(* A steady map that has been applied changes nothing when it is applied again. *)
LEMMA SteadyIdempotent ==
    ASSUME NEW H, Steady(H), NEW f \in Iface
    PROVE  H[H[f]] = H[f]
<1> DEFINE g == H[f]
           h == H[g]
<1>1. g \in Iface /\ h \in Iface
  BY DEF Steady
<1>2. ASSUME NEW k \in Keys PROVE h.peers[k] = g.peers[k]
  <2>1. CASE \A x, y \in Iface : H[x].peers[k] = H[y].peers[k]
    BY <1>1, <2>1
  <2>2. CASE \A x \in Iface : H[x].peers[k] = x.peers[k]
    BY <1>1, <2>2
  <2>3. CASE /\ \A x \in Iface : H[x].peers[k] \in KernelPeer
             /\ PskShape(H, k) /\ EndpointShape(H, k) /\ KaShape(H, k)
    <3>1. g.peers[k] \in KernelPeer /\ h.peers[k] \in KernelPeer
      BY <1>1, <2>3
    <3>2. Known(g.peers[k]) = g.peers[k]
      BY <3>1, NoPeerAssumption DEF Known
    <3>3. h.peers[k].psk = g.peers[k].psk
      BY <1>1, <2>3, <3>2 DEF PskShape
    <3>4. h.peers[k].endpoint = g.peers[k].endpoint
      BY <1>1, <2>3, <3>2 DEF EndpointShape
    <3>5. h.peers[k].ka = g.peers[k].ka
      BY <1>1, <2>3, <3>2 DEF KaShape
    <3> HIDE DEF g, h
    <3> QED
      BY <3>1, <3>3, <3>4, <3>5 DEF KernelPeer
  <2> QED
    BY <2>1, <2>2, <2>3 DEF Steady, PeerShape
<1>3. ASSUME NEW i \in Ips PROVE h.owner[i] = g.owner[i]
  <2>1. CASE \A x, y \in Iface : H[x].owner[i] = H[y].owner[i]
    BY <1>1, <2>1
  <2>2. ASSUME NEW K, Drops(H, i, K) PROVE h.owner[i] = g.owner[i]
    BY <1>1, <2>2 DEF Drops
  <2> QED
    BY <2>1, <2>2 DEF Steady, OwnerShape
<1>4. h.priv = g.priv
  BY <1>1 DEF Steady, PrivShape
<1>5. h.port = g.port
  BY <1>1 DEF Steady, PortShape
<1>6. h.fwmark = g.fwmark
  BY <1>1 DEF Steady, FwmarkShape
<1> HIDE DEF g, h
<1>7. h.peers = g.peers /\ h.owner = g.owner
  BY <1>1, <1>2, <1>3 DEF Iface
<1>8. h = g
  BY <1>1, <1>4, <1>5, <1>6, <1>7, SameIface
<1> QED
  BY <1>8 DEF g, h

(* Interface f is g except for the peers in T and the allowed IPs in U, and for *)
(* allowed IPs that a peer in T has in g and that have no owner in f.           *)
Near(T, U, f, g) ==
    /\ \A k \in Keys \ T : f.peers[k] = g.peers[k]
    /\ \A i \in Ips \ U : f.owner[i] = g.owner[i] \/ (f.owner[i] = NULL /\ g.owner[i] \in T)
    /\ f.priv = g.priv /\ f.port = g.port /\ f.fwmark = g.fwmark

(* A steady map keeps interfaces near. *)
LEMMA SteadyNear ==
    ASSUME NEW H, Steady(H), NEW T, NEW U, NEW f \in Iface, NEW g \in Iface, Near(T, U, f, g)
    PROVE  Near(T, U, H[f], H[g])
<1>1. H[f] \in Iface /\ H[g] \in Iface
  BY DEF Steady
<1>2. ASSUME NEW k \in Keys \ T PROVE H[f].peers[k] = H[g].peers[k]
  <2>0. f.peers[k] = g.peers[k]
    BY DEF Near
  <2>1. CASE \A x, y \in Iface : H[x].peers[k] = H[y].peers[k]
    BY <2>1
  <2>2. CASE \A x \in Iface : H[x].peers[k] = x.peers[k]
    BY <2>0, <2>2
  <2>3. CASE /\ \A x \in Iface : H[x].peers[k] \in KernelPeer
             /\ PskShape(H, k) /\ EndpointShape(H, k) /\ KaShape(H, k)
    <3>1. H[f].peers[k] \in KernelPeer /\ H[g].peers[k] \in KernelPeer
      BY <2>3
    <3>2. H[f].peers[k].psk = H[g].peers[k].psk
      BY <2>0, <2>3 DEF PskShape
    <3>3. H[f].peers[k].endpoint = H[g].peers[k].endpoint
      BY <2>0, <2>3 DEF EndpointShape
    <3>4. H[f].peers[k].ka = H[g].peers[k].ka
      BY <2>0, <2>3 DEF KaShape
    <3> QED
      BY <3>1, <3>2, <3>3, <3>4 DEF KernelPeer
  <2> QED
    BY <2>1, <2>2, <2>3 DEF Steady, PeerShape
<1>3. ASSUME NEW i \in Ips \ U
      PROVE  H[f].owner[i] = H[g].owner[i] \/ (H[f].owner[i] = NULL /\ H[g].owner[i] \in T)
  <2>0. f.owner[i] = g.owner[i] \/ (f.owner[i] = NULL /\ g.owner[i] \in T)
    BY DEF Near
  <2>1. CASE \A x, y \in Iface : H[x].owner[i] = H[y].owner[i]
    BY <2>1
  <2>2. ASSUME NEW K, Drops(H, i, K)
        PROVE  H[f].owner[i] = H[g].owner[i] \/ (H[f].owner[i] = NULL /\ H[g].owner[i] \in T)
    BY <2>0, <2>2 DEF Drops
  <2> QED
    BY <2>1, <2>2 DEF Steady, OwnerShape
<1>4. H[f].priv = H[g].priv
  BY DEF Steady, PrivShape, Near
<1>5. H[f].port = H[g].port
  BY DEF Steady, PortShape, Near
<1>6. H[f].fwmark = H[g].fwmark
  BY DEF Steady, FwmarkShape, Near
<1> QED
  BY <1>2, <1>3, <1>4, <1>5, <1>6 DEF Near

(* The device attributes, the header of a nest and one allowed IP are steady. *)
AttrsMap(d) == [f \in Iface |-> SetDeviceAttrs(f, d)]
HeaderMap(p, first, flags) == [f \in Iface |-> SetPeer(f, p, first, flags)]
AllowedIpMap(k, a) == [f \in Iface |-> SetAllowedIp(f, k, a)]
AllowedIpsMap(k, s) == [f \in Iface |-> AllowedIps(f, k, s)]
NestMap(p, first, flags, from, to) == [f \in Iface |-> SetNest(f, p, first, flags, from, to)]

(* Writing the device attributes is steady. *)
LEMMA SteadyAttrs ==
    ASSUME NEW d \in WgDev
    PROVE  Steady(AttrsMap(d))
<1> DEFINE H == AttrsMap(d)
<1>1. H \in [Iface -> Iface] /\ \A f \in Iface : H[f] = SetDeviceAttrs(f, d)
  BY SetDeviceAttrsType DEF AttrsMap
<1> HIDE DEF H
<1>2. ASSUME NEW f \in Iface
      PROVE  /\ H[f].priv = Given(d.priv, f.priv) /\ H[f].port = Given(d.port, f.port)
             /\ H[f].fwmark = Given(d.fwmark, f.fwmark)
             /\ H[f].peers = IF d.replace THEN NoPeers ELSE f.peers
             /\ H[f].owner = IF d.replace THEN NoOwners ELSE f.owner
  <2> DEFINE g == SetDeviceAttrs(f, d)
  <2>1. /\ g.priv = Given(d.priv, f.priv) /\ g.port = Given(d.port, f.port)
        /\ g.fwmark = Given(d.fwmark, f.fwmark)
        /\ g.peers = IF d.replace THEN NoPeers ELSE f.peers
        /\ g.owner = IF d.replace THEN NoOwners ELSE f.owner
    BY DEF SetDeviceAttrs, Iface
  <2>2. H[f] = g
    BY <1>1
  <2> HIDE DEF g
  <2> QED
    BY <2>1, <2>2
<1>3. \A k \in Keys : PeerShape(H, k)
  BY <1>2 DEF PeerShape
<1>4. ASSUME NEW i \in Ips PROVE OwnerShape(H, i)
  <2>1. CASE d.replace
    BY <1>2, <2>1 DEF OwnerShape
  <2>2. CASE ~d.replace
    <3>1. Drops(H, i, {})
      BY <1>2, <2>2 DEF Drops
    <3> QED
      BY <3>1 DEF OwnerShape
  <2> QED
    BY <2>1, <2>2
<1>5. PrivShape(H)
  BY <1>2 DEF PrivShape, Given
<1>6. PortShape(H)
  BY <1>2 DEF PortShape, Given
<1>7. FwmarkShape(H)
  BY <1>2 DEF FwmarkShape, Given
<1>8. Steady(H)
  BY <1>1, <1>3, <1>4, <1>5, <1>6, <1>7 DEF Steady
<1> QED
  BY <1>8 DEF H

(* Writing the header of a peer nest is steady. *)
LEMMA SteadyHeader ==
    ASSUME NEW p \in WgPeer, NEW first \in BOOLEAN, NEW flags
    PROVE  Steady(HeaderMap(p, first, flags))
<1> DEFINE H == HeaderMap(p, first, flags)
<1>1. H \in [Iface -> Iface] /\ \A f \in Iface : HeaderFields(f, p, first, flags, H[f])
  BY SetPeerType, SetPeerFields DEF HeaderMap
<1>2. p.key \in Keys
  BY DEF WgPeer
<1> HIDE DEF H
<1>3. PrivShape(H) /\ PortShape(H) /\ FwmarkShape(H)
  BY <1>1 DEF HeaderFields, PrivShape, PortShape, FwmarkShape
<1>4. ASSUME NEW k \in Keys PROVE PeerShape(H, k)
  <2>1. CASE k # p.key
    BY <1>1, <2>1 DEF HeaderFields, PeerShape
  <2>2. CASE k = p.key /\ "REMOVE_ME" \in flags
    BY <1>1, <2>2 DEF HeaderFields, PeerShape
  <2>3. CASE k = p.key /\ "REMOVE_ME" \notin flags
    <3> DEFINE Old(f) == Known(f.peers[k])
    <3>1. ASSUME NEW f \in Iface
          PROVE  /\ H[f].peers[k] \in KernelPeer
                 /\ ~first => H[f].peers[k] = Old(f)
                 /\ first =>
                      /\ H[f].peers[k].psk = IF p.psk = "zero" THEN NULL ELSE Given(p.psk, Old(f).psk)
                      /\ H[f].peers[k].endpoint = Given(p.endpoint, Old(f).endpoint)
                      /\ H[f].peers[k].ka = Given(p.ka, Old(f).ka)
      <4>1. HeaderFields(f, p, first, flags, H[f])
        BY <1>1
      <4>2. /\ H[f].peers[k] \in KernelPeer
            /\ H[f].peers[k] = IF first THEN UpdatedPeer(f, p) ELSE OldPeer(f, p)
        BY <2>3, <4>1 DEF HeaderFields
      <4>3. OldPeer(f, p) = Old(f)
        BY <2>3 DEF OldPeer, Known
      <4>4. /\ UpdatedPeer(f, p).psk = IF p.psk = "zero" THEN NULL ELSE Given(p.psk, OldPeer(f, p).psk)
            /\ UpdatedPeer(f, p).endpoint = Given(p.endpoint, OldPeer(f, p).endpoint)
            /\ UpdatedPeer(f, p).ka = Given(p.ka, OldPeer(f, p).ka)
        BY DEF UpdatedPeer
      <4> HIDE DEF Old
      <4> QED
        BY <4>2, <4>3, <4>4
    <3>2. PskShape(H, k)
      BY <3>1 DEF PskShape, Given
    <3>3. EndpointShape(H, k)
      BY <3>1 DEF EndpointShape, Given
    <3>4. KaShape(H, k)
      BY <3>1 DEF KaShape, Given
    <3> QED
      BY <3>1, <3>2, <3>3, <3>4 DEF PeerShape
  <2> QED
    BY <2>1, <2>2, <2>3
<1>5. ASSUME NEW i \in Ips PROVE OwnerShape(H, i)
  <2>1. CASE "REMOVE_ME" \in flags \/ "REPLACE_ALLOWEDIPS" \in flags
    <3>0. ASSUME NEW f \in Iface
          PROVE  H[f].owner[i] = IF f.owner[i] = p.key THEN NULL ELSE f.owner[i]
      <4>1. HeaderFields(f, p, first, flags, H[f])
        BY <1>1
      <4>2. H[f].owner = Disown(f.owner, p.key)
        BY <2>1, <4>1 DEF HeaderFields
      <4> QED
        BY <4>2 DEF Disown
    <3>1. Drops(H, i, {p.key})
      BY <3>0 DEF Drops
    <3> QED
      BY <3>1 DEF OwnerShape
  <2>2. CASE "REMOVE_ME" \notin flags /\ "REPLACE_ALLOWEDIPS" \notin flags
    <3>1. Drops(H, i, {})
      BY <1>1, <2>2 DEF HeaderFields, Drops
    <3> QED
      BY <3>1 DEF OwnerShape
  <2> QED
    BY <2>1, <2>2
<1>6. Steady(H)
  BY <1>1, <1>3, <1>4, <1>5 DEF Steady
<1> QED
  BY <1>6 DEF H

(* Writing one allowed IP is steady. *)
LEMMA SteadyAllowedIp ==
    ASSUME NEW k \in Keys, NEW a \in WgAllowedIp
    PROVE  Steady(AllowedIpMap(k, a))
<1> DEFINE H == AllowedIpMap(k, a)
<1>1. H \in [Iface -> Iface] /\ \A f \in Iface : H[f] = SetAllowedIp(f, k, a)
  BY SetAllowedIpType DEF AllowedIpMap
<1> HIDE DEF H
<1>2. ASSUME NEW f \in Iface
      PROVE  /\ H[f].priv = f.priv /\ H[f].port = f.port /\ H[f].fwmark = f.fwmark
             /\ H[f].peers = f.peers
             /\ \A i \in Ips : H[f].owner[i] =
                  IF i # a.ip THEN f.owner[i] ELSE IF ~a.remove THEN k
                  ELSE IF f.owner[i] = k THEN NULL ELSE f.owner[i]
  <2> DEFINE g == SetAllowedIp(f, k, a)
             o == IF ~a.remove THEN k ELSE IF f.owner[a.ip] = k THEN NULL ELSE f.owner[a.ip]
  <2>1. /\ g.priv = f.priv /\ g.port = f.port /\ g.fwmark = f.fwmark
        /\ g.peers = f.peers /\ g.owner = [f.owner EXCEPT ![a.ip] = o]
    BY DEF SetAllowedIp, Iface
  <2>2. H[f] = g
    BY <1>1
  <2>3. a.ip \in Ips /\ f.owner \in [Ips -> {NULL} \cup Keys]
    BY DEF WgAllowedIp, Iface
  <2> HIDE DEF g, o
  <2>4. \A i \in Ips : g.owner[i] = IF i = a.ip THEN o ELSE f.owner[i]
    BY <2>1, <2>3
  <2> QED
    BY ZenonT(60), <2>1, <2>2, <2>4 DEF o
<1>3. ASSUME NEW i \in Ips PROVE OwnerShape(H, i)
  <2>1. CASE i # a.ip
    <3>1. Drops(H, i, {})
      BY <1>2, <2>1 DEF Drops
    <3> QED
      BY <3>1 DEF OwnerShape
  <2>2. CASE i = a.ip /\ ~a.remove
    BY <1>2, <2>2 DEF OwnerShape
  <2>3. CASE i = a.ip /\ a.remove
    <3>1. Drops(H, i, {k})
      BY <1>2, <2>3 DEF Drops
    <3> QED
      BY <3>1 DEF OwnerShape
  <2> QED
    BY <2>1, <2>2, <2>3
<1>4. \A j \in Keys : PeerShape(H, j)
  BY <1>2 DEF PeerShape
<1>5. PrivShape(H) /\ PortShape(H) /\ FwmarkShape(H)
  BY <1>2 DEF PrivShape, PortShape, FwmarkShape
<1>6. Steady(H)
  BY <1>1, <1>3, <1>4, <1>5 DEF Steady
<1> QED
  BY <1>6 DEF H

(* So are the allowed IPs of a nest. *)
LEMMA SteadyAllowedIps ==
    ASSUME NEW k \in Keys, NEW s \in Seq(WgAllowedIp)
    PROVE  Steady(AllowedIpsMap(k, s))
<1> DEFINE M(n) == AllowedIpsMap(k, SubSeq(s, 1, n))
           S == {n \in 0..Len(s) : Steady(M(n))}
<1>1. Len(s) \in Nat /\ SubSeq(s, 1, 0) = <<>> /\ SubSeq(s, 1, Len(s)) = s
  OBVIOUS
<1>2. 0 \in S
  <2>1. AllowedIpsMap(k, <<>>) = [f \in Iface |-> f]
    BY AllowedIpsEmpty DEF AllowedIpsMap
  <2>2. Steady(M(0))
    BY Zenon, <1>1, <2>1, SteadyIdentity
  <2> HIDE DEF M
  <2> QED
    BY <1>1, <2>2
<1>3. ASSUME NEW n \in 1..Len(s), n - 1 \in S PROVE n \in S
  <2> DEFINE b == SubSeq(s, 1, n - 1)
             x == s[n]
             H == AllowedIpsMap(k, b)
             G == AllowedIpMap(k, x)
  <2>0. n - 1 \in Nat /\ 1 <= (n - 1) + 1 /\ (n - 1) + 1 <= Len(s) /\ (n - 1) + 1 = n
    BY <1>1
  <2>1. b \in Seq(WgAllowedIp) /\ x \in WgAllowedIp /\ SubSeq(s, 1, n) = Append(b, x)
    BY <2>0, SubSeqAppends
  <2>2. \A f \in Iface : AllowedIps(f, k, b) \in Iface
    BY Zenon, <2>1, AllowedIpsKeep
  <2>3. \A f \in Iface : AllowedIps(f, k, Append(b, x)) = SetAllowedIp(AllowedIps(f, k, b), k, x)
    BY Zenon, <2>1, AllowedIpsAppend
  <2>4. AllowedIpsMap(k, Append(b, x)) = Then(H, G)
    <3> HIDE DEF b, x
    <3> QED
      BY <2>2, <2>3 DEF AllowedIpsMap, AllowedIpMap, Then
  <2>5. Steady(G) /\ Steady(H)
    BY <1>3, <2>1, SteadyAllowedIp
  <2>6. Steady(Then(H, G))
    BY <2>5, ThenSteady
  <2>7. Steady(M(n))
    BY Zenon, <2>1, <2>4, <2>6
  <2> HIDE DEF M
  <2> QED
    BY <1>1, <2>7
<1>4. Len(s) \in S
  <2>1. Len(s) \in 0..Len(s)
    BY <1>1
  <2> HIDE DEF S
  <2>2. \A n \in 0..Len(s) : n \in S
    BY Zenon, <1>1, <1>2, <1>3, InductionUpTo
  <2> QED
    BY <2>1, <2>2
<1>5. Steady(M(Len(s)))
  <2> HIDE DEF M
  <2> QED
    BY <1>4
<1> QED
  BY Zenon, <1>1, <1>5

(* So is a nest. *)
LEMMA SteadyNest ==
    ASSUME NEW p \in WgPeer, NEW first \in BOOLEAN, NEW flags, NEW from, NEW to,
           NestRange(p, from, to)
    PROVE  Steady(NestMap(p, first, flags, from, to))
<1> DEFINE H == HeaderMap(p, first, flags)
           s == SubSeq(p.aips, from, to - 1)
           G == AllowedIpsMap(p.key, s)
           N == NestMap(p, first, flags, from, to)
<1>1. Steady(H)
  BY SteadyHeader
<1>2. p.key \in Keys /\ p.aips \in Seq(WgAllowedIp)
  BY DEF WgPeer
<1>3. s \in Seq(WgAllowedIp)
  <2>1. to - 1 \in Nat /\ from \in Nat /\ 1 <= from /\ from <= to - 1 + 1 /\ to - 1 <= Len(p.aips)
    BY <1>2 DEF NestRange
  <2> QED
    BY <1>2, <2>1, PartFacts
<1>4. \A f \in Iface : SetPeer(f, p, first, flags) \in Iface
  BY SetPeerType
<1>5. CASE "REMOVE_ME" \in flags
  <2>1. N = H
    BY <1>5 DEF NestMap, HeaderMap, SetNest, SetAllowedIps
  <2> QED
    BY <1>1, <2>1
<1>6. CASE "REMOVE_ME" \notin flags
  <2>1. \A f \in Iface : SetNest(f, p, first, flags, from, to)
                            = AllowedIps(SetPeer(f, p, first, flags), p.key, s)
    BY <1>6 DEF SetNest, SetAllowedIps, AllowedIps
  <2>2. N = Then(H, G)
    <3> HIDE DEF s
    <3> QED
      BY <1>4, <2>1 DEF NestMap, HeaderMap, AllowedIpsMap, Then
  <2>3. Steady(G)
    BY Zenon, <1>2, <1>3, SteadyAllowedIps
  <2> QED
    BY <1>1, <2>2, <2>3, ThenSteady
<1> QED
  BY <1>5, <1>6
=============================================================================
