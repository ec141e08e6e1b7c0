----------------------------- MODULE UdpClient -----------------------------
(***************************************************************************)
(* The UDP hole punching client of src/client/udp.rs: one task that sends  *)
(* a binding request to the next STUN server on every tick and reports the *)
(* address in the response.  Requests and responses are datagrams, lost,   *)
(* duplicated, delayed and reordered at will; only the transaction id says *)
(* which request a response belongs to.                                    *)
(*                                                                         *)
(* A request carries a fresh 96-bit random id.  Ids is a small set in its  *)
(* place, and an id is fresh if no datagram in the network carries it.     *)
(***************************************************************************)
EXTENDS Integers, FiniteSets

CONSTANTS
    Addrs,      \* mapped addresses
    S,          \* number of STUN servers
    Ids,        \* transaction ids
    MaxNet,     \* bound: datagrams in the network at a time
    Burst,      \* bound: ticks missed during one send of the callback
    None        \* no address, no id

Servers == 0 .. S - 1

ASSUME UdpAssumption ==
    /\ S \in Nat \ {0}      \* the builder keeps its default for an empty list
    /\ MaxNet \in Nat /\ Burst \in Nat
    /\ None \notin Addrs \cup Ids

VARIABLES
    upc,        \* what the task awaits: the select!, or the callback's send
    req,        \* the id of the request whose response is awaited
    first,      \* first_request
    i,          \* the server asked last
    missed,     \* ticks of the interval that are still to be made up for
    found,      \* the address in the response being reported
    net,        \* the datagrams in the network
    inbox,      \* the callback channel
    mapper,     \* its receiver: up, closed the client, or gone without
    nat,        \* the address the NAT maps the local port to
    network,    \* disturbed, or calm from some moment on
    measured,   \* history: what STUN servers observed of this request
    told        \* history: the last address the task sent

world == <<nat, network>>
vars == <<upc, req, first, i, missed, found, net, inbox, mapper, nat, network, measured,
          told>>

\* A response without an address has none of the attribute that carries it.
Request == [kind : {"request"}, id : Ids]
Response == [kind : {"response"}, id : Ids, addr : Addrs \cup {None}]

TypeOK ==
    /\ upc \in {"select", "send", "ended"}
    /\ req \in Ids \cup {None}
    /\ first \in BOOLEAN
    /\ i \in Servers
    /\ missed \in 0 .. Burst
    /\ found \in Addrs \cup {None}
    /\ net \subseteq Request \cup Response
    /\ inbox \in Addrs \cup {None}
    /\ mapper \in {"up", "closed", "gone"}
    /\ nat \in Addrs
    /\ network \in {"disturbed", "calm"}
    /\ measured \subseteq Addrs
    /\ told \in Addrs \cup {None}

Init ==
    /\ upc = "select" /\ req = None /\ first = TRUE /\ i = 0 /\ missed = 0
    /\ found = None
    /\ net = {}
    /\ inbox = None /\ mapper = "up"
    /\ nat \in Addrs /\ network = "disturbed"
    /\ measured = {} /\ told = None
-----------------------------------------------------------------------------
(***************************************************************************)
(* interval.tick.  A request that was not answered is given up when the    *)
(* next one is sent, and stays awaited when sending fails.  The interval   *)
(* of a calm network is long enough for the response, but ticks that were  *)
(* missed are made up for at once, whether the response has come or not.   *)
(***************************************************************************)
\* Slips the checks must notice: the index runs off the list; the first
\* request stays the first for ever.
NextServerUnwrapped ==
    /\ first' = FALSE
    /\ i' = IF first THEN i ELSE i + 1

NextServerStuck ==
    /\ UNCHANGED first
    /\ i' = IF first THEN i ELSE (i + 1) % S

NextServer ==
    /\ first' = FALSE
    /\ i' = IF first THEN i ELSE (i + 1) % S

InTime == network = "calm" => \A d \in net : d.id # req

Due ==
    /\ InTime \/ missed > 0
    /\ missed' = IF missed = 0 THEN 0 ELSE missed - 1

Fresh(id) == \A d \in net : d.id # id

\* A slip: a request without a response is never given up.
TickOkPatient ==
    /\ upc = "select" /\ Due
    /\ NextServer
    /\ \E id \in Ids :
        /\ Fresh(id)
        /\ req' = IF req = None THEN id ELSE req
        /\ net' = net \cup {[kind |-> "request", id |-> id]}
    /\ Cardinality(net') <= MaxNet
    /\ measured' = {}
    /\ UNCHANGED <<upc, found, inbox, mapper, world, told>>

TickOk ==
    /\ upc = "select" /\ Due
    /\ NextServer
    /\ \E id \in Ids :
        /\ Fresh(id)
        /\ req' = id
        /\ net' = net \cup {[kind |-> "request", id |-> id]}
    /\ Cardinality(net') <= MaxNet
    /\ measured' = {}
    /\ UNCHANGED <<upc, found, inbox, mapper, world, told>>

TickErr ==
    /\ upc = "select" /\ network = "disturbed" /\ Due
    /\ NextServer
    /\ UNCHANGED <<upc, req, found, net, inbox, mapper, world, measured, told>>

(***************************************************************************)
(* sock.recv_from: a response d, taken from the network for good or        *)
(* leaving a duplicate behind.                                             *)
(***************************************************************************)
Arrives(d) ==
    /\ upc = "select"
    /\ d \in net /\ d.kind = "response"
    /\ \/ net' = net \ {d}
       \/ network = "disturbed" /\ net' = net

\* No request is awaited, or not this one; what does not parse is no response
\* to any request either.
Outdated(d) ==
    /\ Arrives(d)
    /\ req # d.id
    /\ UNCHANGED <<upc, req, first, i, missed, found, inbox, mapper, world, measured, told>>

NoAddress(d) ==
    /\ Arrives(d)
    /\ req = d.id /\ d.addr = None
    /\ req' = None
    /\ UNCHANGED <<upc, first, i, missed, found, inbox, mapper, world, measured, told>>

\* A slip: any response will do while one is awaited.
AnswerAny(d) ==
    /\ Arrives(d)
    /\ req # None /\ d.addr # None
    /\ req' = None
    /\ found' = d.addr
    /\ upc' = "send"
    /\ UNCHANGED <<first, i, missed, inbox, mapper, world, measured, told>>

Answer(d) ==
    /\ Arrives(d)
    /\ req = d.id /\ d.addr # None
    /\ req' = None
    /\ found' = d.addr
    /\ upc' = "send"
    /\ UNCHANGED <<first, i, missed, inbox, mapper, world, measured, told>>

\* callback.send: waits for room while ticks are missed, and fails when the receiver
\* is gone.
SendOk ==
    /\ upc = "send" /\ inbox = None /\ mapper = "up"
    /\ inbox' = found
    /\ told' = found
    /\ found' = None
    /\ upc' = "select"
    /\ missed' \in missed .. Burst
    /\ UNCHANGED <<req, first, i, net, mapper, world, measured>>

\* A slip: the error is taken for one of this report only.
SendErrKept ==
    /\ upc = "send" /\ mapper = "gone"
    /\ found' = None
    /\ upc' = "select"
    /\ UNCHANGED <<req, first, i, missed, net, inbox, mapper, world, measured, told>>

SendErr ==
    /\ upc = "send" /\ mapper = "gone"
    /\ found' = None
    /\ upc' = "ended"
    /\ UNCHANGED <<req, first, i, missed, net, inbox, mapper, world, measured, told>>
-----------------------------------------------------------------------------
(***************************************************************************)
(* The peers: a STUN server that receives a request, perhaps one of two    *)
(* copies, and responds; the network; the NAT; the mapper.                 *)
(***************************************************************************)
Observe(d, attr) ==
    /\ d \in net /\ d.kind = "request"
    /\ attr \in {nat, None} /\ (network = "calm" => attr = nat)
    /\ \E rest \in {net, net \ {d}} :
        /\ network = "calm" => rest = net \ {d}
        /\ net' = rest \cup {[kind |-> "response", id |-> d.id, addr |-> attr]}
    /\ Cardinality(net') <= MaxNet
    /\ measured' = IF d.id = req /\ attr # None THEN measured \cup {attr} ELSE measured
    /\ UNCHANGED <<upc, req, first, i, missed, found, inbox, mapper, world, told>>

Lose(d) ==
    /\ network = "disturbed"
    /\ d \in net
    /\ net' = net \ {d}
    /\ UNCHANGED <<upc, req, first, i, missed, found, inbox, mapper, world, measured, told>>

Remap ==
    /\ network = "disturbed"
    /\ nat' \in Addrs \ {nat}
    /\ UNCHANGED <<upc, req, first, i, missed, found, net, inbox, mapper, network,
                   measured, told>>

CalmDown ==
    /\ network = "disturbed"
    /\ network' = "calm"
    /\ UNCHANGED <<upc, req, first, i, missed, found, net, inbox, mapper, nat, measured,
                   told>>

Take ==
    /\ mapper = "up" /\ inbox # None
    /\ inbox' = None
    /\ UNCHANGED <<upc, req, first, i, missed, found, net, mapper, world, measured, told>>

\* Client::close aborts the task wherever it is.
Close ==
    /\ mapper = "up"
    /\ mapper' = "closed"
    /\ upc' = "ended" /\ found' = None
    /\ UNCHANGED <<req, first, i, missed, net, inbox, world, measured, told>>

\* The mapper task ends on a panic, without closing its client.
MapperGone ==
    /\ mapper = "up"
    /\ mapper' = "gone"
    /\ UNCHANGED <<upc, req, first, i, missed, found, net, inbox, world, measured, told>>

Next ==
    \/ TickOk \/ TickErr
    \/ \E d \in net : Outdated(d) \/ NoAddress(d) \/ Answer(d) \/ Lose(d)
    \/ \E d \in net, attr \in Addrs \cup {None} : Observe(d, attr)
    \/ SendOk \/ SendErr
    \/ Remap \/ CalmDown \/ Take \/ Close \/ MapperGone

(***************************************************************************)
(* The task is scheduled and its interval ticks, select! picks at random   *)
(* among its ready branches, a mapper that is up takes the reports.  A     *)
(* calm network delivers, and STUN servers answer, what there is: nothing  *)
(* is assumed of a disturbed one, which loses what it likes.               *)
(***************************************************************************)
Fairness ==
    /\ WF_vars(TickOk \/ TickErr)
    /\ WF_vars(\E d \in net : Outdated(d) \/ NoAddress(d) \/ Answer(d))
    /\ WF_vars(\E d \in net : Observe(d, nat))
    /\ WF_vars(SendOk \/ SendErr) /\ WF_vars(Take)

Spec == Init /\ [][Next]_vars /\ Fairness
-----------------------------------------------------------------------------
(***************************************************************************)
(* The client implements AddressFeed, an epoch being a request: whatever   *)
(* responses come late, twice or out of order, an address is reported only *)
(* if a server observed it of the request last sent, and once per request. *)
(***************************************************************************)
Feed == INSTANCE AddressFeed WITH said <- req = None /\ upc # "send"

ImplementsFeed == Feed!Spec

(***************************************************************************)
(* Once the network is calm, the last address reported is the one the NAT  *)
(* maps to, and stays it: a lost response only costs its interval.         *)
(***************************************************************************)
TracksNat ==
    [](mapper = "up") /\ <>(network = "calm") => <>[](told = nat)

(***************************************************************************)
(* The half of TracksNat that is about single steps: once the network is   *)
(* calm, the last report is right and the awaited request has no response  *)
(* that says otherwise, no step makes the report wrong again, whatever     *)
(* outdated responses are still in the network.                            *)
(***************************************************************************)
OnTrack ==
    /\ network = "calm" /\ told = nat
    /\ inbox \in {nat, None}
    /\ upc = "send" => found = nat
    /\ \A d \in net : d.kind = "response" /\ d.id = req => d.addr \in {nat, None}

StaysOnTrack == [][OnTrack => OnTrack']_vars

(***************************************************************************)
(* A client whose receiver is gone without closing it finds out when it    *)
(* reports again and ends, whatever was under way when the receiver went.  *)
(***************************************************************************)
EndsWithMapper == mapper = "gone" /\ network = "calm" ~> upc = "ended"

(***************************************************************************)
(* "It selects hosts based on round-robin ordering" (stun_addrs of the     *)
(* builder): every server is asked again and again, even in a network that *)
(* loses every datagram or refuses to send.                                *)
(***************************************************************************)
EveryServerSelected ==
    [](mapper = "up") => \A k \in Servers : []<>(i = k)
=============================================================================
