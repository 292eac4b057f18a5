----------------------------- MODULE StringList -----------------------------
(***************************************************************************)
(* The list of interface names of src/src/ipc.c: the names one behind the  *)
(* other, each with a terminator, and one more terminator at the end.  A   *)
(* name is a sequence of characters.  `buf` has one element for every byte *)
(* that has been allocated, so a write behind the end makes it longer than *)
(* `cap`.                                                                  *)
(***************************************************************************)
EXTENDS Naturals, Sequences, FiniteSetsExt

NUL == "NUL"
Unset == "unset"  \* a byte that realloc has not initialised

EmptyList == [buf |-> <<>>, len |-> 0, cap |-> 0]

(* The bytes b with s in place of what is at the offset `at`. *)
Memcpy(b, at, s) ==
    [i \in 1 .. IF Len(b) > at + Len(s) THEN Len(b) ELSE at + Len(s) |->
       IF i \in at + 1 .. at + Len(s) THEN s[i - at] ELSE b[i]]

\* Slip: the comparison leaves no room for the second terminator.
GrownCapTight(list, len) ==
    IF len > list.cap - list.len
    THEN IF list.cap * 2 < list.len + len THEN list.len + len ELSE list.cap * 2
    ELSE list.cap
(* The capacity with which len more bytes are added. *)
GrownCap(list, len) ==
    IF len >= list.cap - list.len
    THEN IF list.cap * 2 < list.len + len + 1 THEN list.len + len + 1 ELSE list.cap * 2
    ELSE list.cap

Grown(list, cap) == list.buf \o [i \in 1 .. cap - list.cap |-> Unset]

Added(list, str) ==
    LET len == Len(str) + 1
        cap == GrownCap(list, len)
    IN [buf |-> Memcpy(Grown(list, cap), list.len, Append(str, NUL) \o <<NUL>>),
        len |-> list.len + len, cap |-> cap]

\* Slip: an empty name is stored, as a terminator in the middle of the list.
AddedAlways(list, str) == Added(list, str)
(* An empty name is not stored: it would end the list for its readers. *)
string_list_add(list, str) == IF Len(str) = 0 THEN list ELSE Added(list, str)

(* The names as show_main reads them: up to the first empty one.  A list that  *)
(* nothing was added to is a single terminator (strdup in ipc_list_devices).   *)
NamesIn(list) ==
    LET end(p) == Min({i \in p .. Len(list.buf) : list.buf[i] = NUL})
        from[p \in 1 .. Len(list.buf)] ==
          IF end(p) = p THEN <<>>
          ELSE <<SubSeq(list.buf, p, end(p) - 1)>> \o from[end(p) + 1]
    IN IF list.buf = <<>> THEN <<>> ELSE from[1]
=============================================================================
