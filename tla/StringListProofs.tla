-------------------------- MODULE StringListProofs --------------------------
(***************************************************************************)
(* string_list_add for names of every length and lists of every size.      *)
(***************************************************************************)
EXTENDS StringList, TLAPS

(* The characters are any set with the terminator and the mark of bytes that   *)
(* are not set.  A list as ipc_list_devices has it between two names: nothing  *)
(* is allocated, or the buffer has as many bytes as cap says, and the two      *)
(* terminators lie inside it, one at the end of the last name and one behind   *)
(* it.                                                                         *)
WellFormed(Byte, list) ==
    /\ list \in [buf : Seq(Byte), len : Nat, cap : Nat]
    /\ Len(list.buf) = list.cap
    /\ \/ list = EmptyList
       \/ /\ list.len > 0 /\ list.len < list.cap
          /\ list.buf[list.len] = NUL /\ list.buf[list.len + 1] = NUL

(* The list that a command starts with. *)
LEMMA EmptyWellFormed == ASSUME NEW Byte PROVE WellFormed(Byte, EmptyList)
BY DEF WellFormed, EmptyList

(* The capacity never shrinks and leaves one byte behind the new bytes. *)
LEMMA GrownCapRoom ==
    ASSUME NEW Byte, NUL \in Byte, Unset \in Byte, NEW list, WellFormed(Byte, list), NEW len \in Nat, len > 0
    PROVE /\ GrownCap(list, len) \in Nat
          /\ GrownCap(list, len) >= list.cap
          /\ list.len + len + 1 <= GrownCap(list, len)
<1>1. list.len \in Nat /\ list.cap \in Nat /\ list.len <= list.cap
  BY DEF WellFormed, EmptyList
<1> QED
  BY <1>1 DEF GrownCap

(* realloc keeps the old bytes and adds the missing ones. *)
LEMMA GrownBytes ==
    ASSUME NEW Byte, NUL \in Byte, Unset \in Byte, NEW list, WellFormed(Byte, list), NEW cap \in Nat, cap >= list.cap
    PROVE /\ Grown(list, cap) \in Seq(Byte)
          /\ Len(Grown(list, cap)) = cap
          /\ \A i \in 1..list.cap : Grown(list, cap)[i] = list.buf[i]
<1> DEFINE more == [i \in 1 .. cap - list.cap |-> Unset]
<1>1. list.cap \in Nat /\ list.buf \in Seq(Byte) /\ Len(list.buf) = list.cap
  BY DEF WellFormed
<1>2. more \in Seq(Byte) /\ Len(more) = cap - list.cap
  BY <1>1
<1> HIDE DEF more
<1>3. Grown(list, cap) = list.buf \o more
  BY DEF Grown, more
<1> DEFINE old == list.buf
<1>4. old \in Seq(Byte) /\ Len(old) = list.cap
  BY <1>1
<1> HIDE DEF old
<1>5. /\ old \o more \in Seq(Byte)
      /\ Len(old \o more) = Len(old) + Len(more)
      /\ \A i \in 1..Len(old) : (old \o more)[i] = old[i]
  BY <1>2, <1>4
<1>6. Len(old) + Len(more) = cap
  BY <1>1, <1>2, <1>4
<1> QED
  BY <1>3, <1>4, <1>5, <1>6 DEF old

(* memcpy inside the buffer changes the bytes it is about and no other. *)
LEMMA MemcpyInside ==
    ASSUME NEW Byte, NEW b \in Seq(Byte), NEW s \in Seq(Byte), NEW at \in Nat, at + Len(s) <= Len(b)
    PROVE /\ Memcpy(b, at, s) \in Seq(Byte)
          /\ Len(Memcpy(b, at, s)) = Len(b)
          /\ \A i \in 1..at : Memcpy(b, at, s)[i] = b[i]
          /\ \A i \in 1..Len(s) : Memcpy(b, at, s)[at + i] = s[i]
<1>1. (IF Len(b) > at + Len(s) THEN Len(b) ELSE at + Len(s)) = Len(b)
  OBVIOUS
<1>2. Memcpy(b, at, s) = [i \in 1..Len(b) |-> IF i \in at + 1 .. at + Len(s) THEN s[i - at] ELSE b[i]]
  BY <1>1 DEF Memcpy
<1>3. \A i \in 1..Len(b) : (IF i \in at + 1 .. at + Len(s) THEN s[i - at] ELSE b[i]) \in Byte
  OBVIOUS
<1>4. Memcpy(b, at, s) \in Seq(Byte) /\ Len(Memcpy(b, at, s)) = Len(b)
  BY <1>2, <1>3
<1>5. \A i \in 1..at : Memcpy(b, at, s)[i] = b[i]
  BY <1>2
<1>6. \A i \in 1..Len(s) : Memcpy(b, at, s)[at + i] = s[i]
  BY <1>2
<1> QED
  BY <1>4, <1>5, <1>6

(* The bytes that are copied: the name and the two terminators. *)
LEMMA NameBytes ==
    ASSUME NEW Byte, NUL \in Byte, NEW str \in Seq(Byte)
    PROVE LET s == Append(str, NUL) \o <<NUL>>
          IN /\ s \in Seq(Byte) /\ Len(s) = Len(str) + 2
             /\ s[Len(str) + 1] = NUL /\ s[Len(str) + 2] = NUL
             /\ \A i \in 1..Len(str) : s[i] = str[i]
OBVIOUS

(* Whatever name is added to whatever list, string_list_add writes inside the  *)
(* buffer, leaves both terminators in it, keeps the names that were there and  *)
(* appends the new one; an empty name changes nothing.  With EmptyWellFormed   *)
(* this holds for every list that ipc_list_devices builds.                     *)
THEOREM AddKeepsRoom ==
    ASSUME NEW Byte, NUL \in Byte, Unset \in Byte, NEW list, WellFormed(Byte, list), NEW str \in Seq(Byte)
    PROVE LET new == string_list_add(list, str)
          IN /\ WellFormed(Byte, new)
             /\ \A i \in 1..list.len : new.buf[i] = list.buf[i]
             /\ Len(str) = 0 => new = list
             /\ Len(str) > 0 => /\ new.len = list.len + Len(str) + 1
                                /\ \A i \in 1..Len(str) : new.buf[list.len + i] = str[i]
<1>1. CASE Len(str) = 0
  BY <1>1 DEF string_list_add
<1>2. CASE Len(str) # 0
  <2> DEFINE len == Len(str) + 1
             cap == GrownCap(list, len)
             s == Append(str, NUL) \o <<NUL>>
             grown == Grown(list, cap)
             buf == Memcpy(grown, list.len, s)
             new == [buf |-> buf, len |-> list.len + len, cap |-> cap]
  <2>1. string_list_add(list, str) = new
    BY <1>2 DEF string_list_add, Added
  <2>2. list.len \in Nat /\ list.cap \in Nat /\ list.len <= list.cap
    BY DEF WellFormed, EmptyList
  <2>3. len \in Nat /\ len > 0
    OBVIOUS
  <2>4. cap \in Nat /\ cap >= list.cap /\ list.len + len + 1 <= cap
    <3> HIDE DEF len
    <3> QED BY <2>3, GrownCapRoom
  <2>5. s \in Seq(Byte) /\ Len(s) = len + 1 /\ s[len] = NUL /\ s[len + 1] = NUL
          /\ \A i \in 1..Len(str) : s[i] = str[i]
    BY NameBytes
  <2> HIDE DEF cap, s
  <2>6. grown \in Seq(Byte) /\ Len(grown) = cap /\ \A i \in 1..list.cap : grown[i] = list.buf[i]
    BY <2>4, GrownBytes
  <2> HIDE DEF grown
  <2>7. /\ buf \in Seq(Byte) /\ Len(buf) = cap
        /\ \A i \in 1..list.len : buf[i] = grown[i]
        /\ \A i \in 1..Len(s) : buf[list.len + i] = s[i]
    <3>1. list.len + Len(s) <= Len(grown)
      BY <2>2, <2>3, <2>4, <2>5, <2>6
    <3> QED BY <3>1, <2>2, <2>5, <2>6, MemcpyInside
  <2> HIDE DEF buf
  <2>8. buf[list.len + len] = NUL /\ buf[list.len + len + 1] = NUL
    <3>1. len \in 1..Len(s) /\ len + 1 \in 1..Len(s)
      BY <2>3, <2>5
    <3>2. buf[list.len + len] = s[len] /\ buf[list.len + (len + 1)] = s[len + 1]
      BY <3>1, <2>7
    <3>3. list.len + (len + 1) = list.len + len + 1
      BY <2>2, <2>3
    <3> QED BY <3>2, <3>3, <2>5
  <2>9. WellFormed(Byte, new)
    BY <2>2, <2>3, <2>4, <2>7, <2>8 DEF WellFormed
  <2>10. \A i \in 1..list.len : buf[i] = list.buf[i]
    BY <2>2, <2>6, <2>7
  <2>11. \A i \in 1..Len(str) : buf[list.len + i] = str[i]
    BY <2>2, <2>5, <2>7
  <2>12. new.buf = buf /\ new.len = list.len + Len(str) + 1
    BY <2>2
  <2> HIDE DEF new
  <2> QED
    BY <2>1, <2>9, <2>10, <2>11, <2>12, <1>2
<1> QED
  BY <1>1, <1>2
=============================================================================
