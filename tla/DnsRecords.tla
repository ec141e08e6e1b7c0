----------------------------- MODULE DnsRecords -----------------------------
(***************************************************************************)
(* The DNS watchers of src/watcher (alidns.rs, dnspod.rs, cf.rs): what     *)
(* their new_address does to the records of ONE domain name and type at a  *)
(* provider.  Several mapper tasks may have a watcher with that name and   *)
(* type: they are the updaters, each running one new_address at a time and *)
(* none knowing of the others.                                             *)
(*                                                                         *)
(* new_address is a chain of HTTP exchanges: the zone of the domain        *)
(* (Cloudflare only), the id of a record unless the metadata has one       *)
(* (rid), then the update of that record or the creation of one.  Each may *)
(* fail before the provider has served it or after, when its answer is     *)
(* lost, is an error or does not parse; the caller only sees an error.  A  *)
(* request whose exchange has failed is not served later.                  *)
(***************************************************************************)
EXTENDS Integers, FiniteSets

CONSTANTS
    Addrs,      \* values of the record, one per mapped address
    Updaters,   \* watchers that may have this domain and type
    Ids,        \* record ids of the provider
    None        \* no address: no such record; no id

ASSUME DnsAssumption ==
    /\ None \notin Addrs \cup Ids
    /\ IsFiniteSet(Updaters) /\ IsFiniteSet(Ids)

VARIABLES
    active,     \* those that do
    rid,        \* Metadata.rid of each updater
    zoned,      \* does the provider want the zone looked up first?
    records,    \* the provider's records: their values
    call,       \* the exchange each updater is in
    request,    \* its request: on the way, or served by the provider
    found,      \* the id in the answer, or in the request
    addr,       \* the address new_address was last called with
    result      \* history: how that call ended

config == <<active, rid, zoned>>
vars == <<active, rid, zoned, records, call, request, found, addr, result>>

TypeOK ==
    /\ active \subseteq Updaters
    /\ rid \in [Updaters -> Ids \cup {None}]
    /\ zoned \in BOOLEAN
    /\ records \in [Ids -> Addrs \cup {None}]
    /\ call \in [Updaters -> {"idle", "zone", "lookup", "update", "create"}]
    /\ request \in [Updaters -> {"none", "sent", "served"}]
    /\ found \in [Updaters -> Ids \cup {None}]
    /\ addr \in [Updaters -> Addrs \cup {None}]
    /\ result \in [Updaters -> {"none", "ok", "error"}]
    /\ \A u \in Updaters : call[u] = "idle" <=> request[u] = "none"

\* The records there are, those among them no updater's metadata names, and
\* the updaters that may create one.
Present == {r \in Ids : records[r] # None}
Unpinned == {r \in Present : \A u \in Updaters : rid[u] # r}
Creators == {u \in Updaters : u \in active /\ rid[u] = None}

\* There may be records already, though not more than updaters to own them.
Init ==
    /\ active \in SUBSET Updaters /\ active # {}
    /\ rid \in [Updaters -> Ids \cup {None}]
    /\ \A u \in Updaters \ active : rid[u] = None
    /\ zoned \in BOOLEAN
    /\ records \in [Ids -> Addrs \cup {None}]
    /\ Cardinality(Unpinned) <= Cardinality(Creators)
    /\ call = [u \in Updaters |-> "idle"]
    /\ request = [u \in Updaters |-> "none"]
    /\ found = [u \in Updaters |-> None]
    /\ addr = [u \in Updaters |-> None]
    /\ result = [u \in Updaters |-> "none"]
-----------------------------------------------------------------------------
\* The updater sends the request of its next exchange; new_address returns.
Ask(u, exchange) ==
    /\ call' = [call EXCEPT ![u] = exchange]
    /\ request' = [request EXCEPT ![u] = "sent"]

Return(u, outcome) ==
    /\ call' = [call EXCEPT ![u] = "idle"]
    /\ request' = [request EXCEPT ![u] = "none"]
    /\ found' = [found EXCEPT ![u] = None]
    /\ result' = [result EXCEPT ![u] = outcome]

Answered(u, exchanges) == call[u] \in exchanges /\ request[u] = "served"

\* The first exchange about records: a lookup, unless the id is configured.
RecordExchange(u) == IF rid[u] # None THEN "update" ELSE "lookup"

NewAddress(u, a) ==
    /\ u \in active /\ call[u] = "idle"
    /\ addr' = [addr EXCEPT ![u] = a]
    /\ result' = [result EXCEPT ![u] = "none"]
    /\ found' = [found EXCEPT ![u] = rid[u]]
    /\ Ask(u, IF zoned THEN "zone" ELSE RecordExchange(u))
    /\ UNCHANGED <<config, records>>

ZoneOk(u) ==
    /\ Answered(u, {"zone"})
    /\ Ask(u, RecordExchange(u))
    /\ UNCHANGED <<config, records, found, addr, result>>

\* A slip the checks must notice: a record that exists is not reused.
LookupOkCreating(u) ==
    /\ Answered(u, {"lookup"})
    /\ Ask(u, "create")
    /\ UNCHANGED <<config, records, found, addr, result>>

\* get_record_id returns the first record in the answer, if any.
LookupOk(u) ==
    /\ Answered(u, {"lookup"})
    /\ Ask(u, IF found[u] # None THEN "update" ELSE "create")
    /\ UNCHANGED <<config, records, found, addr, result>>

WriteOk(u) ==
    /\ Answered(u, {"update", "create"})
    /\ Return(u, "ok")
    /\ UNCHANGED <<config, records, addr>>

\* Slips: a record that cannot be updated is created; the exchange that failed
\* is left open.
ErrCreating(u) ==
    /\ call[u] # "idle"
    /\ IF call[u] = "update"
          THEN Ask(u, "create") /\ UNCHANGED <<found, result>>
          ELSE Return(u, "error")
    /\ UNCHANGED <<config, records, addr>>

ErrLeftOpen(u) ==
    /\ call[u] # "idle"
    /\ call' = [call EXCEPT ![u] = "idle"]
    /\ result' = [result EXCEPT ![u] = "error"]
    /\ UNCHANGED <<config, records, request, found, addr>>

\* An exchange fails, or (Cloudflare) the value does not convert after it.
Err(u) ==
    /\ call[u] # "idle"
    /\ Return(u, "error")
    /\ UNCHANGED <<config, records, addr>>
-----------------------------------------------------------------------------
(***************************************************************************)
(* The provider.  It lists the records in an order of its own, updates a   *)
(* record that exists, and gives a new one an id that nobody has.          *)
(***************************************************************************)
List(u) ==
    /\ \/ Present = {} /\ found' = [found EXCEPT ![u] = None]
       \/ \E r \in Present : found' = [found EXCEPT ![u] = r]
    /\ UNCHANGED records

Update(u) ==
    /\ found[u] \in Present
    /\ records' = [records EXCEPT ![found[u]] = addr[u]]
    /\ UNCHANGED found

NewId(r) == r \notin Present /\ \A v \in Updaters : r \notin {rid[v], found[v]}

Create(u) ==
    /\ \E r \in Ids : NewId(r) /\ records' = [records EXCEPT ![r] = addr[u]]
    /\ UNCHANGED found

Serve(u) ==
    /\ request[u] = "sent"
    /\ request' = [request EXCEPT ![u] = "served"]
    /\ \/ call[u] = "zone" /\ UNCHANGED <<records, found>>
       \/ call[u] = "lookup" /\ List(u)
       \/ call[u] = "update" /\ Update(u)
       \/ call[u] = "create" /\ Create(u)
    /\ UNCHANGED <<config, call, addr, result>>

\* Somebody deletes a record by hand.
Delete(r) ==
    /\ r \in Present
    /\ records' = [records EXCEPT ![r] = None]
    /\ UNCHANGED <<config, call, request, found, addr, result>>

Next ==
    \/ \E u \in Updaters :
        \/ \E a \in Addrs : NewAddress(u, a)
        \/ ZoneOk(u) \/ LookupOk(u) \/ WriteOk(u) \/ Err(u) \/ Serve(u)
    \/ \E r \in Ids : Delete(r)

Spec == Init /\ [][Next]_vars
-----------------------------------------------------------------------------
(***************************************************************************)
(* However lookups and creations of several updaters interleave, whatever  *)
(* answers are lost and whoever deletes records meanwhile, there are never *)
(* more records than updaters that may create one; for a single updater:   *)
(* a creation whose answer was lost is not repeated.  An updater with a    *)
(* rid creates none: "This field disables the automatic creation of dns    *)
(* records" (Metadata.rid).                                                *)
(***************************************************************************)
RecordsBounded == Cardinality(Unpinned) <= Cardinality(Creators)

\* The records of u are nobody else's: it is alone, or every updater has a rid
\* of its own.
Exclusive(u) ==
    \A v \in active \ {u} : rid[u] # None /\ rid[v] \notin {None, rid[u]}

Own(u) == IF rid[u] = None THEN Present ELSE Present \cap {rid[u]}

(***************************************************************************)
(* What the mapper relies on when new_address returns Ok: every record     *)
(* that is the updater's own holds the address, none an earlier one.       *)
(***************************************************************************)
OkIsPublished ==
    \A u \in Updaters :
        Exclusive(u) /\ result[u] = "ok" => \A r \in Own(u) : records[r] = addr[u]

(***************************************************************************)
(* An updater whose records are its own implements Publisher: whatever     *)
(* exchanges fail, before or after the provider has served them, a call    *)
(* stores its address once at most, into the one record there is, and      *)
(* returns Ok only then.                                                   *)
(***************************************************************************)
Shown(u) == IF Own(u) = {} THEN None ELSE records[CHOOSE r \in Own(u) : TRUE]

Watcher(u) == INSTANCE Publisher WITH
    busy <- call[u] # "idle",
    addr <- addr[u],
    stored <- Answered(u, {"update", "create"}),
    shown <- Shown(u),
    result <- result[u]

ImplementsPublisher ==
    /\ \A u \in Updaters : Exclusive(u) => Watcher(u)!Init
    /\ [][\A u \in Updaters :
            Exclusive(u) => [Watcher(u)!Next]_(Watcher(u)!vars)]_vars
=============================================================================
