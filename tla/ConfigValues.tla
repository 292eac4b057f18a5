---------------------------- MODULE ConfigValues ----------------------------
(***************************************************************************)
(* The parsers of one value in src/src/config.c.  A text is a name; what   *)
(* its parser tells apart about it is given by the constants: Lex cuts     *)
(* endpoints, URLs and targets into tokens, Base64 has the texts that are  *)
(* keys, Files the files a path of the command line may lead to.  The text *)
(* of a number is a record: `first` is what it starts with ("digit", "0x", *)
(* "minus", "off" in any case, or "other"), n the number its digits make,  *)
(* junk whether something follows them.                                    *)
(***************************************************************************)
EXTENDS Integers, Sequences, SequencesExt

CONSTANTS
    UINT32_MAX, ULONG_MAX,  \* the largest uint32_t and unsigned long
    Lex,        \* text -> its tokens
    Oversize,   \* tokens that fill the buffers of parse_ws_endpoint
    Numeric,    \* tokens that consist of digits
    Base64,     \* text -> key
    Files,      \* path -> file
    BAD,        \* a value its parser refuses
    NULL

(* The types nest, so a uint32_t can be compared in an unsigned long. *)
ASSUME WidthAssumption ==
    UINT32_MAX \in Nat /\ ULONG_MAX \in Nat /\ 65535 < UINT32_MAX /\ UINT32_MAX <= ULONG_MAX

UINT16_MAX == 65535
Number(first, n, junk) == [first |-> first, n |-> n, junk |-> junk]

-----------------------------------------------------------------------------
(* strtoul and strtoull (external): a number that is too large becomes the     *)
(* largest, one with a minus sign is counted down from there.                  *)
strtoul(t) ==
    IF t.n > ULONG_MAX THEN ULONG_MAX
    ELSE IF t.first = "minus" THEN (ULONG_MAX + 1 - t.n) % (ULONG_MAX + 1) ELSE t.n

(* The answer of getaddrinfo to a service comes with the text. *)
parse_port(t) == IF t.service # "" /\ t.family \in {"AF_INET", "AF_INET6"} THEN t.port ELSE BAD

Narrowed(t, max) == IF strtoul(t) > max THEN BAD ELSE strtoul(t)

parse_fwmark(t) ==
    IF t.first = "off" THEN 0
    ELSE IF t.first \in {"digit", "0x"} /\ ~t.junk THEN Narrowed(t, UINT32_MAX) ELSE BAD

parse_persistent_keepalive(t) ==
    IF t.first = "off" THEN 0
    ELSE IF t.first = "digit" /\ ~t.junk THEN Narrowed(t, UINT16_MAX) ELSE BAD

(* No look at the first character here: strtoull takes a sign. *)
parse_ws_millis(t) ==
    IF t.first \in {"digit", "minus"} /\ ~t.junk THEN Narrowed(t, UINT32_MAX) ELSE BAD

-----------------------------------------------------------------------------
parse_key(t) == IF t \in DOMAIN Base64 THEN Base64[t] ELSE BAD

(* A file is its first line, with its length and whether a newline ends it,    *)
(* and what follows: "space", "junk" or an "error".  An empty key file is the  *)
(* key of zeros.                                                               *)
KEY_LEN == 44
parse_keyfile(path) ==
    IF path \notin DOMAIN Files THEN BAD
    ELSE LET f == Files[path] IN
         IF f.len = 0 /\ ~f.newline /\ f.rest = "space" THEN "zero"
         ELSE IF f.len >= KEY_LEN /\ f.rest = "space" THEN parse_key(f.line) ELSE BAD

(* fgets takes SECRET_MAX bytes, the newline among them. *)
SECRET_MAX == 8191
parse_ws_secret_file(path) ==
    IF path \notin DOMAIN Files THEN BAD
    ELSE LET f == Files[path] IN
         IF f.len > 0 /\ f.len + (IF f.newline THEN 1 ELSE 0) <= SECRET_MAX THEN f.line ELSE BAD

parse_ws_secret(t) == IF t = "" THEN BAD ELSE t
parse_ws_str(t) == IF t = "" THEN BAD ELSE t
parse_ws_bool(t) == IF t = "true" THEN TRUE ELSE IF t = "false" THEN FALSE ELSE BAD
parse_ws_mode(t) == IF t \in {"websocket", "wstunnel"} THEN t ELSE BAD

-----------------------------------------------------------------------------
(* Positions in a sequence of tokens, 0 if there is none. *)
strchr(s, c) == SelectInSeq(s, LAMBDA x : x = c)
strrchr(s, c) == SelectLastInSeq(s, LAMBDA x : x = c)
Before(s, c) == IF strchr(s, c) = 0 THEN s ELSE SubSeq(s, 1, strchr(s, c) - 1)
From(s, i) == SubSeq(s, i, Len(s))

Schemes == {"ws://", "wss://"}
is_ws_url(v) == Lex[v] # <<>> /\ Lex[v][1] \in Schemes

(* Host and port of a URL, its scheme taken off. *)
Fits(tokens) == tokens # <<>> /\ \A i \in 1..Len(tokens) : tokens[i] \notin Oversize
ws_url_split(p) ==
    LET bracket == p # <<>> /\ p[1] = "["
        close == strchr(p, "]")
        colon == strrchr(Before(p, "/"), ":")
        host == IF bracket THEN SubSeq(p, 2, close - 1) ELSE SubSeq(p, 1, colon - 1)
        port == Before(From(p, IF bracket THEN close + 2 ELSE colon + 1), "/")
        found == IF bracket THEN close # 0 /\ close < Len(p) /\ p[close + 1] = ":" ELSE colon # 0
    IN IF found /\ Fits(host) /\ Fits(port) THEN [host |-> host, port |-> port] ELSE BAD

(* What parse_endpoint asks the resolver for. *)
Split(s) ==
    IF s # <<>> /\ s[1] = "["
    THEN LET close == strchr(s, "]")
         IN IF close # 0 /\ close + 1 < Len(s) /\ s[close + 1] = ":"
            THEN [host |-> SubSeq(s, 2, close - 1), port |-> From(s, close + 2)] ELSE BAD
    ELSE LET colon == strrchr(s, ":")
         IN IF colon # 0 /\ colon < Len(s)
            THEN [host |-> SubSeq(s, 1, colon - 1), port |-> From(s, colon + 1)] ELSE BAD

(* A URL is split, and put together again for parse_endpoint. *)
parse_ws_endpoint(v) ==
    LET u == ws_url_split(Tail(Lex[v]))
    IN IF u = BAD THEN BAD
       ELSE IF strchr(u.host, ":") # 0
            THEN Split(<<"[">> \o u.host \o <<"]", ":">> \o u.port)
            ELSE Split(u.host \o <<":">> \o u.port)
EndpointOf(v) == IF is_ws_url(v) THEN parse_ws_endpoint(v) ELSE Split(Lex[v])

(* host:port, kept as it is. *)
parse_ws_target(v) ==
    LET s == Lex[v]
        colon == strrchr(s, ":")
    IN IF colon > 1 /\ colon < Len(s) /\ \A i \in colon + 1 .. Len(s) : s[i] \in Numeric
       THEN v ELSE BAD

(* Nothing, which clears the listener, or a URL. *)
parse_ws_listen(v) == IF Lex[v] = <<>> \/ is_ws_url(v) THEN v ELSE BAD

-----------------------------------------------------------------------------
(* An allowed IP: an address, that inet_pton takes for one of the families or  *)
(* for none, and the text of a mask, or NULL.                                  *)
parse_ip(e) == IF e.colon = (e.pton = "AF_INET6") THEN e.pton ELSE "AF_UNSPEC"
MaxCidr(family) == IF family = "AF_INET" THEN 32 ELSE 128
cidr(e) ==
    IF e.mask = NULL THEN MaxCidr(parse_ip(e))
    ELSE IF e.mask.first = "digit" /\ ~e.mask.junk THEN Narrowed(e.mask, MaxCidr(parse_ip(e))) ELSE BAD
=============================================================================
