------------------------------ MODULE Watchers ------------------------------
(***************************************************************************)
(* The watchers of src/watcher up to the network: which metadata validate  *)
(* accepts, and what new_address makes of it and of an address before it   *)
(* sends anything.  DnsRecords has what the requests do.                   *)
(*                                                                         *)
(* A text is a sequence of words, and a word one of pieces, as far as a    *)
(* parser of numbers and the placeholders tell them apart.  A domain is    *)
(* the sequence of its labels.  Of an address the port is kept.            *)
(***************************************************************************)
EXTENDS Integers, SequencesExt

CONSTANT None   \* a field that is not given

Empty == "-"    \* an empty label

Kinds == {"dnspod", "http", "script", "alidns", "cf"}
DnsKinds == {"dnspod", "alidns", "cf"}

(***************************************************************************)
(* A word is a sequence of pieces: text that is no number, the two         *)
(* placeholders, and runs of digits, as the numbers they make, a zero in   *)
(* front being a piece of its own: 05{port} is <<0, 5, Port>>.  A plus     *)
(* sign in front is left out, as the parser of numbers does.               *)
(***************************************************************************)
Text == -1
Ip == -2
Port == -3
Piece == Nat \cup {Text, Ip, Port}
Word == Seq(Piece) \ {<<>>}

U16 == 0 .. 65535

\* The power of ten that a has fewer digits than, up to that above every u16.
Above(a) ==
    CASE a < 10 -> 10 [] a < 100 -> 100 [] a < 1000 -> 1000 [] a < 10000 -> 10000
      [] OTHER -> 100000

\* The digits of a written behind those of n.  Past the largest u16 the number does
\* not matter, and one digit more takes it there from n > 6553.
Append10(n, a) == IF n > 6553 THEN 65536 ELSE n * Above(a) + a

\* The number a word of digits makes.
Number(w) ==
    LET number[n \in 0 .. Len(w)] ==
            IF n = 0 THEN 0 ELSE Append10(number[n - 1], w[n])
    IN  number[Len(w)]

IsU16(w) == ToSet(w) \subseteq Nat /\ Number(w) \in U16

\* A port is digits wherever {port} stands; an ip address is no number.
FormatWord(w, a) ==
    [i \in DOMAIN w |-> IF w[i] = Port THEN a ELSE IF w[i] = Ip THEN Text ELSE w[i]]

format_value(value, a) == [i \in DOMAIN value |-> FormatWord(value[i], a)]

\* The placeholders in a text, none in one that is not given.
HolesOf(value) ==
    IF value = None THEN {} ELSE {Ip, Port} \cap UNION {ToSet(value[i]) : i \in DOMAIN value}

-----------------------------------------------------------------------------
(***************************************************************************)
(* The module dns.                                                         *)
(***************************************************************************)
\* A trailing dot leaves an empty label at the end.
Labels(domain) == IF Last(domain) = Empty THEN Front(domain) ELSE domain

\* A slip the checks must notice: the host keeps a label of the domain.
split_off_by_one(domain) ==
    LET labels == Labels(domain)
        len == Len(labels)
    IN  IF len < 2 \/ labels[len] = Empty \/ labels[len - 1] = Empty
        THEN None
        ELSE [domain |-> SubSeq(labels, len - 1, len), host |-> SubSeq(labels, 1, len - 1)]

split_domain_name(domain) ==
    LET labels == Labels(domain)
        len == Len(labels)
    IN  IF len < 2 \/ labels[len] = Empty \/ labels[len - 1] = Empty
        THEN None
        ELSE [domain |-> SubSeq(labels, len - 1, len), host |-> SubSeq(labels, 1, len - 2)]

subdomain(s) == IF s \in {<<>>, <<Empty>>} THEN <<"@">> ELSE s

\* The name of the record that is written, as one domain.
RecordName(split) ==
    (IF subdomain(split.host) = <<"@">> THEN <<>> ELSE split.host) \o split.domain

\* The types the program knows, and others as they are.
Upper ==
    [a |-> "A", aaaa |-> "AAAA", cname |-> "CNAME", https |-> "HTTPS", mx |-> "MX",
     srv |-> "SRV", svcb |-> "SVCB", txt |-> "TXT", uri |-> "URI"]

to_uppercase(type) == IF type \in DOMAIN Upper THEN Upper[type] ELSE type

\* A slip: the type compared as it is written.
validate_dns_as_written(md) ==
    /\ md.domain # None
    /\ md.type # None
    /\ md.type \in {"SVCB", "HTTPS", "MX"} => md.priority
    /\ split_domain_name(md.domain) # None

validate_dns(md) ==
    /\ md.domain # None
    /\ md.type # None
    /\ to_uppercase(md.type) \in {"SVCB", "HTTPS", "MX"} => md.priority
    /\ split_domain_name(md.domain) # None
-----------------------------------------------------------------------------
(***************************************************************************)
(* The values of SRV and SVCB records that the Cloudflare watcher takes    *)
(* apart, and the validation of each kind of watcher.                      *)
(***************************************************************************)
SRV(value) == Len(value) = 4 /\ \A i \in 1 .. 3 : IsU16(value[i])
SVCB(value) == Len(value) >= 2

\* Does the value of a record of this type convert?
TryFrom(type, value) ==
    /\ to_uppercase(type) = "SRV" => SRV(value)
    /\ to_uppercase(type) \in {"HTTPS", "SVCB"} => SVCB(value)

TYPES == {"A", "AAAA", "CNAME", "HTTPS", "MX", "SRV", "SVCB", "TXT", "URI"}
ExamplePort == 1111

validate_dnspod(md) ==
    validate_dns(md) /\ md.rid \in {None, "number"}

\* A slip: the value is not tried.
validate_cf_untried(md) ==
    /\ validate_dns(md)
    /\ to_uppercase(md.type) \in TYPES
    /\ to_uppercase(md.type) = "URI" => md.priority

validate_cf(md) ==
    /\ validate_dns(md)
    /\ to_uppercase(md.type) \in TYPES
    /\ to_uppercase(md.type) = "URI" => md.priority
    /\ TryFrom(md.type, format_value(md.value, ExamplePort))

validate(kind, md) ==
    CASE kind = "dnspod" -> validate_dnspod(md)
      [] kind = "alidns" -> validate_dns(md)
      [] kind = "cf" -> validate_cf(md)
      [] OTHER -> TRUE
-----------------------------------------------------------------------------
(***************************************************************************)
(* new_address.  A watcher w has a kind and is sound or not: the secret of *)
(* a DnsPod or Cloudflare watcher that is not sound makes no header and    *)
(* panics, that of an AliDns watcher is an error.                          *)
(***************************************************************************)
Unwraps(kind, md) ==
    kind \in DnsKinds =>
        /\ md.domain # None /\ md.type # None
        /\ split_domain_name(md.domain) # None
        /\ kind = "dnspod" => md.rid \in {None, "number"}
        /\ kind = "cf" /\ to_uppercase(md.type) \in {"HTTPS", "SVCB"} => md.priority

Outcome(w, md, a) ==
    IF ~Unwraps(w.kind, md) \/ (w.kind \in {"dnspod", "cf"} /\ ~w.sound) THEN "panic"
    ELSE IF w.kind = "alidns" /\ ~w.sound THEN "err"
    ELSE IF w.kind = "cf" /\ ~TryFrom(md.type, format_value(md.value, a)) THEN "err"
    ELSE "sent"

(***************************************************************************)
(* The record a DNS watcher writes, the name it looks for first unless it  *)
(* is told the record's id, and the record's value.                        *)
(***************************************************************************)
DnsRequest(kind, md, a) ==
    LET name == RecordName(split_domain_name(md.domain))
    IN  [lookup |-> IF md.rid # None THEN None
                    ELSE IF kind = "dnspod" THEN name ELSE md.domain,
         name |-> name,
         left |-> HolesOf(format_value(md.value, a))]

(***************************************************************************)
(* The request of an HTTP watcher: in its url only the query is formatted, *)
(* and the metadata's value, unless it is empty, replaces the body.        *)
(***************************************************************************)
HttpRequest(http, md, a) ==
    LET query == IF http.query = None THEN None ELSE format_value(http.query, a)
        body == IF md.value = <<>> THEN http.body ELSE md.value
    IN  [lookup |-> None, name |-> None,
         left |-> HolesOf(http.path) \cup HolesOf(query)
                    \cup HolesOf(IF body = None THEN None ELSE format_value(body, a))]

\* The arguments of a script are as they are written, but for the value.
ScriptCommand(md, a) ==
    [lookup |-> None, name |-> None, left |-> HolesOf(format_value(md.value, a))]

new_address(w, md, a, http) ==
    CASE w.kind \in DnsKinds -> DnsRequest(w.kind, md, a)
      [] w.kind = "http" -> HttpRequest(http, md, a)
      [] w.kind = "script" -> ScriptCommand(md, a)
=============================================================================
