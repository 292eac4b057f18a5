---------------------------- MODULE ConfigProofs ----------------------------
(***************************************************************************)
(* The retries of parse_endpoint, for every number of retries and every    *)
(* input.                                                                  *)
(***************************************************************************)
EXTENDS Config, TLAPS

(* While an endpoint is being resolved, the tries made and the retries left    *)
(* add up to what was asked for; otherwise nothing of an earlier endpoint is   *)
(* left.  RetriesAsAsked only speaks of the end of the count.                  *)
Counting ==
    \/ dns.retries = -1 /\ dns.left = -1
    \/ dns.retries \in Nat /\ dns.left \in Nat /\ dns.left + dns.tries = dns.retries
DnsInv ==
    /\ dns = [retries |-> dns.retries, left |-> dns.left, tries |-> dns.tries, answer |-> dns.answer]
    /\ dns.retries \in Nat \cup {-1, BAD, NULL} /\ dns.tries \in Nat
    /\ status = "resolving" => Counting
    /\ status \notin {"resolving", "failed"} => dns.tries = 0 /\ dns.answer = NULL
    /\ RetriesAsAsked

(* The first look-up begins in the invariant. *)
LEMMA DnsInit == CfgInit => DnsInv
BY RetriesAssumption DEF CfgInit, DnsInv, RetriesAsAsked

(* A statement that is no endpoint leaves the resolver alone, and an endpoint  *)
(* starts it anew.                                                             *)
LEMMA ReadKeeps == ASSUME DnsInv, NEW s, Read(s) PROVE DnsInv'
<1>1. status = "reading"
  BY DEF Read
<1>2. CASE UNCHANGED dns /\ status' \in {"failed", "reading"}
  BY <1>1, <1>2, RetriesAssumption DEF DnsInv, RetriesAsAsked
<1>3. CASE \E r \in parse_dns_retries :
             /\ dns' = [retries |-> r, left |-> r, tries |-> 0, answer |-> NULL]
             /\ status' = IF r = BAD THEN "failed" ELSE "resolving"
  <2>1. PICK r \in parse_dns_retries :
             /\ dns' = [retries |-> r, left |-> r, tries |-> 0, answer |-> NULL]
             /\ status' = IF r = BAD THEN "failed" ELSE "resolving"
    BY <1>3
  <2>2. r \in Nat \cup {-1, BAD}
    BY RetriesAssumption DEF DnsInv, parse_dns_retries
  <2> QED
    BY <2>1, <2>2, RetriesAssumption DEF DnsInv, Counting, RetriesAsAsked
<1> QED
  BY <1>1, <1>2, <1>3 DEF Read

(* An answer uses up one try. *)
LEMMA ResolveKeeps == ASSUME DnsInv, NEW a \in Answers, parse_endpoint(a) PROVE DnsInv'
<1>1. status = "resolving" /\ Counting
  BY DEF parse_endpoint, DnsInv
<1>2. CASE a = "address"
  <2>1. dns' = [dns EXCEPT !.left = 0, !.tries = 0, !.answer = NULL] /\ status' = "reading"
    BY <1>2 DEF parse_endpoint
  <2>2. dns' = [retries |-> dns.retries, left |-> 0, tries |-> 0, answer |-> NULL]
    BY Zenon, <2>1 DEF DnsInv
  <2>3. dns'.retries = dns.retries /\ dns'.left = 0 /\ dns'.tries = 0 /\ dns'.answer = NULL
    BY <2>2
  <2>4. dns' = [retries |-> dns'.retries, left |-> dns'.left, tries |-> dns'.tries, answer |-> dns'.answer]
    BY <2>2, <2>3
  <2>5. RetriesAsAsked'
    BY <2>1, <2>3, RetriesAssumption DEF RetriesAsAsked
  <2> QED
    BY <2>1, <2>3, <2>4, <2>5 DEF DnsInv
<1>3. CASE a # "address"
  <2>1. /\ dns' = [dns EXCEPT !.left = IF @ >= 0 THEN @ - 1 ELSE @, !.tries = @ + 1, !.answer = a]
        /\ status' = IF a # "transient" \/ dns.left = 0 THEN "failed" ELSE "resolving"
    BY <1>1, <1>3 DEF parse_endpoint, LastTry
  <2>2. /\ dns'.retries = dns.retries /\ dns'.tries = dns.tries + 1 /\ dns'.answer = a
        /\ dns'.left = IF dns.left >= 0 THEN dns.left - 1 ELSE dns.left
        /\ dns' = [retries |-> dns'.retries, left |-> dns'.left, tries |-> dns'.tries, answer |-> dns'.answer]
    BY Zenon, <2>1 DEF DnsInv
  <2>3. CASE dns.retries = -1 /\ dns.left = -1
    BY <2>1, <2>2, <2>3, RetriesAssumption DEF DnsInv, Counting, RetriesAsAsked
  <2>4. CASE dns.retries \in Nat /\ dns.left \in Nat /\ dns.left + dns.tries = dns.retries
    BY <2>1, <2>2, <2>4, RetriesAssumption DEF DnsInv, Counting, RetriesAsAsked
  <2> QED
    BY <1>1, <2>3, <2>4 DEF Counting
<1> QED
  BY <1>2, <1>3

(* A step of the resolver keeps the invariant. *)
LEMMA DnsNext == DnsInv /\ [CfgNext]_cfgVars => DnsInv'
<1> SUFFICES ASSUME DnsInv, [CfgNext]_cfgVars PROVE DnsInv'
  OBVIOUS
<1>1. CASE \E s \in UNION Vocabularies : Read(s)
  BY <1>1, ReadKeeps
<1>2. CASE \E a \in Answers : parse_endpoint(a)
  BY <1>2, ResolveKeeps
<1>3. CASE Finish
  BY <1>3, RetriesAssumption DEF Finish, DnsInv, RetriesAsAsked
<1>4. CASE UNCHANGED cfgVars
  BY <1>4 DEF cfgVars, DnsInv, Counting, RetriesAsAsked
<1> QED
  BY <1>1, <1>2, <1>3, <1>4 DEF CfgNext

(* parse_endpoint tries each endpoint exactly as often as                      *)
(* WG_ENDPOINT_RESOLUTION_RETRIES asks for, in every input and for every       *)
(* number of retries.                                                          *)
THEOREM RetriesExact == CfgSpec => []RetriesAsAsked
<1>1. DnsInv => RetriesAsAsked
  BY DEF DnsInv
<1> QED
  BY <1>1, DnsInit, DnsNext, PTL DEF CfgSpec
=============================================================================
