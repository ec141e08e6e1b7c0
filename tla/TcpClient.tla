----------------------------- MODULE TcpClient -----------------------------
(***************************************************************************)
(* The TCP hole punching client of src/client/tcp.rs: two tasks that share *)
(* three channels.  The worker task keeps one HTTP connection alive, so    *)
(* that the NAT keeps the mapping of the local port, and reports the first *)
(* address measured on each connection.  The STUN task measures: on every  *)
(* tick of the worker it asks one STUN server, round-robin, from the same  *)
(* local port.  When the connection ends, the worker cancels the           *)
(* measurement in progress, waits and connects anew.                       *)
(*                                                                         *)
(*   stun_tx/stun_rx    watch      worker -> STUN task   measure again     *)
(*   addr_tx/addr_rx    watch      STUN task -> worker   what was measured *)
(*   reset_tx/reset_rx  mpsc(1)    worker -> STUN task   cancel            *)
(*   callback           mpsc(1)    worker -> mapper      what is reported  *)
(*                                                                         *)
(* Timers are choices: a tick or a deadline may come whenever it is armed. *)
(* Two durations matter and are kept: see Wake and SendOk.                 *)
(***************************************************************************)
EXTENDS Integers

CONSTANTS
    Addrs,      \* mapped addresses
    S,          \* number of STUN servers
    Silent,     \* the servers that accept a connection and never answer
    None        \* no address

Servers == 0 .. S - 1

ASSUME TcpAssumption ==
    /\ S \in Nat \ {0}      \* the builder keeps its default for an empty list
    /\ Silent \subseteq Servers
    /\ None \notin Addrs

VARIABLES
    wpc,        \* what the worker awaits: connect, the select! loop, send of
                \* the callback, send of the reset, sleep
    conn,       \* the keep-alive connection: none, up, closed by the peer
                \* (eof), or dead without a sign of it
    asked,      \* does the HTTP server still owe (a part of) a response?
    data,       \* are there bytes to read?
    deadline,   \* of the response: none, armed, or over since the worker
                \* waited in the send of the callback
    mapped,     \* mapped_addr: the first address measured on the connection
    stunDue,    \* stun_rx has a change
    unseen,     \* what addr_rx has and the worker has not seen
    resetQ,     \* is there a message in the reset channel?
    spc,        \* the STUN task: waiting, asking a server, or with its answer
    i,          \* the server it asks
    found,      \* the address in that answer
    inbox,      \* the callback channel
    mapper,     \* its receiver: up, closed the client, or gone without
    nat,        \* the address the NAT maps the local port to
    network,    \* disturbed, or calm from some moment on
    measured,   \* history: what STUN servers observed on this connection
    told        \* history: the last address the worker sent

http == <<conn, asked, data, deadline>>
stun == <<spc, i, found>>
world == <<nat, network>>
vars == <<wpc, conn, asked, data, deadline, mapped, stunDue, unseen, resetQ, spc,
          i, found, inbox, mapper, nat, network, measured, told>>

FlagsOK ==
    /\ asked \in BOOLEAN /\ data \in BOOLEAN /\ deadline \in {"none", "armed", "over"}
    /\ stunDue \in BOOLEAN /\ resetQ \in BOOLEAN

TypeOK ==
    /\ FlagsOK
    /\ wpc \in {"connect", "loop", "send", "reset", "sleep", "ended"}
    /\ conn \in {"none", "up", "eof", "dead"}
    /\ mapped \in Addrs \cup {None}
    /\ unseen \in Addrs \cup {None}
    /\ spc \in {"wait", "query", "answered", "ended"}
    /\ i \in Servers
    /\ found \in Addrs \cup {None}
    /\ inbox \in Addrs \cup {None}
    /\ mapper \in {"up", "closed", "gone"}
    /\ nat \in Addrs
    /\ network \in {"disturbed", "calm"}
    /\ measured \subseteq Addrs
    /\ told \in Addrs \cup {None}

Init ==
    /\ wpc = "connect"
    /\ conn = "none" /\ asked = FALSE /\ data = FALSE /\ deadline = "none"
    /\ mapped = None
    /\ stunDue = FALSE /\ unseen = None /\ resetQ = FALSE
    /\ spc = "wait" /\ i = 0 /\ found = None
    /\ inbox = None /\ mapper = "up"
    /\ nat \in Addrs /\ network = "disturbed"
    /\ measured = {} /\ told = None
-----------------------------------------------------------------------------
\* A slip the checks must notice: addr_rx keeps what it has.
ConnectOkUnmarked ==
    /\ wpc = "connect"
    /\ wpc' = "loop"
    /\ conn' = "up"
    /\ mapped' = None
    /\ measured' = {}
    /\ UNCHANGED <<asked, data, deadline, stunDue, unseen, resetQ, stun, inbox,
                   mapper, world, told>>

(***************************************************************************)
(* The worker.  A new connection starts with no mapped address, and with   *)
(* what was measured before it marked as seen.                             *)
(***************************************************************************)
ConnectOk ==
    /\ wpc = "connect"
    /\ wpc' = "loop"
    /\ conn' = "up"
    /\ mapped' = None
    /\ unseen' = None
    /\ measured' = {}
    /\ UNCHANGED <<asked, data, deadline, stunDue, resetQ, stun, inbox, mapper,
                   world, told>>

ConnectErr ==
    /\ wpc = "connect" /\ network = "disturbed"
    /\ wpc' = "sleep"
    /\ UNCHANGED <<http, mapped, stunDue, unseen, resetQ, stun, inbox, mapper,
                   world, measured, told>>

\* The stream is dropped, with what was on its way; `break' leaves the loop.
Drop == conn' = "none" /\ asked' = FALSE /\ data' = FALSE /\ deadline' = "none"
Break == wpc' = "reset" /\ Drop

\* reader.read: bytes of a response, or the end of the stream.
Read ==
    /\ wpc = "loop" /\ data
    /\ data' = FALSE
    /\ deadline' = "none"
    /\ UNCHANGED <<wpc, conn, asked, mapped, stunDue, unseen, resetQ, stun, inbox,
                   mapper, world, measured, told>>

ReadEnd ==
    /\ wpc = "loop" /\ conn = "eof"
    /\ Break
    /\ UNCHANGED <<mapped, stunDue, unseen, resetQ, stun, inbox, mapper, world,
                   measured, told>>

\* A slip: the request is written and no deadline set.
KeepAliveUnguarded ==
    /\ wpc = "loop" /\ deadline = "none"
    /\ asked' = TRUE
    /\ UNCHANGED <<wpc, conn, data, deadline, mapped, stunDue, unseen, resetQ, stun,
                   inbox, mapper, world, measured, told>>

\* interval.tick: ask for the next response, once the last one has come.
KeepAlive ==
    /\ wpc = "loop" /\ deadline = "none"
    /\ asked' = TRUE
    /\ deadline' = "armed"
    /\ UNCHANGED <<wpc, conn, data, mapped, stunDue, unseen, resetQ, stun, inbox,
                   mapper, world, measured, told>>

WriteErr ==
    /\ wpc = "loop" /\ deadline = "none" /\ conn \in {"eof", "dead"}
    /\ Break
    /\ UNCHANGED <<mapped, stunDue, unseen, resetQ, stun, inbox, mapper, world,
                   measured, told>>

\* A calm network delivers responses before the deadline; a worker that comes back
\* to the loop too late finds both branches ready.
TimedOut ==
    /\ wpc = "loop" /\ deadline # "none"
    /\ network = "disturbed" \/ conn # "up" \/ deadline = "over"
    /\ Break
    /\ UNCHANGED <<mapped, stunDue, unseen, resetQ, stun, inbox, mapper, world,
                   measured, told>>

StunTick ==
    /\ wpc = "loop"
    /\ stunDue' = TRUE
    /\ UNCHANGED <<wpc, http, mapped, unseen, resetQ, stun, inbox, mapper, world,
                   measured, told>>

\* A slip: the change is logged and the connection kept.
OtherAddressKept ==
    /\ wpc = "loop" /\ unseen # None /\ mapped \notin {None, unseen}
    /\ unseen' = None
    /\ UNCHANGED <<wpc, http, mapped, stunDue, resetQ, stun, inbox, mapper, world,
                   measured, told>>

(***************************************************************************)
(* addr_rx.changed: the first address of the connection is reported, the   *)
(* same one again says nothing, another one ends the connection.           *)
(***************************************************************************)
FirstAddress ==
    /\ wpc = "loop" /\ unseen # None /\ mapped = None
    /\ mapped' = unseen
    /\ unseen' = None
    /\ wpc' = "send"
    /\ UNCHANGED <<http, stunDue, resetQ, stun, inbox, mapper, world, measured, told>>

SameAddress ==
    /\ wpc = "loop" /\ unseen # None /\ mapped = unseen
    /\ unseen' = None
    /\ UNCHANGED <<wpc, http, mapped, stunDue, resetQ, stun, inbox, mapper, world,
                   measured, told>>

OtherAddress ==
    /\ wpc = "loop" /\ unseen # None /\ mapped \notin {None, unseen}
    /\ unseen' = None
    /\ Break
    /\ UNCHANGED <<mapped, stunDue, resetQ, stun, inbox, mapper, world, measured,
                   told>>

\* callback.send: waits for room, which may take until the deadline is over, and
\* fails when the receiver is gone.
SendOk ==
    /\ wpc = "send" /\ inbox = None /\ mapper = "up"
    /\ inbox' = mapped
    /\ told' = mapped
    /\ wpc' = "loop"
    /\ deadline' \in {deadline} \cup (IF deadline = "armed" THEN {"over"} ELSE {})
    /\ UNCHANGED <<conn, asked, data, mapped, stunDue, unseen, resetQ, stun, mapper, world,
                   measured>>

SendErr ==
    /\ wpc = "send" /\ mapper = "gone"
    /\ wpc' = "ended" /\ Drop
    /\ UNCHANGED <<mapped, stunDue, unseen, resetQ, stun, inbox, mapper, world,
                   measured, told>>

\* reset_tx.send, which cannot fail: the STUN task does not end before the
\* worker does.
Reset ==
    /\ wpc = "reset" /\ ~resetQ
    /\ resetQ' = TRUE
    /\ wpc' = "sleep"
    /\ UNCHANGED <<http, mapped, stunDue, unseen, stun, inbox, mapper, world,
                   measured, told>>

(***************************************************************************)
(* RETRY_INTERVAL is over.  The guard is an assumption on time: within ten *)
(* seconds the STUN task is polled once and takes the reset message.       *)
(***************************************************************************)
Wake ==
    /\ wpc = "sleep" /\ ~resetQ
    /\ wpc' = "connect"
    /\ UNCHANGED <<http, mapped, stunDue, unseen, resetQ, stun, inbox, mapper, world,
                   measured, told>>
-----------------------------------------------------------------------------
(***************************************************************************)
(* The STUN task: one measurement for the changes seen so far.             *)
(***************************************************************************)
StartQuery ==
    /\ spc = "wait" /\ stunDue
    /\ stunDue' = FALSE
    /\ spc' = "query"
    /\ UNCHANGED <<wpc, http, mapped, unseen, resetQ, i, found, inbox, mapper, world,
                   measured, told>>

\* A slip: the index runs off the list.
NextServerUnwrapped == i' = i + 1

NextServer == i' = (i + 1) % S
Idle == spc' = "wait" /\ found' = None

\* Slips: only an error moves on to the next server; a worker that is gone is
\* taken for one with nothing to ask.
QueryOkSticky ==
    /\ spc = "answered"
    /\ unseen' = found
    /\ Idle
    /\ UNCHANGED <<wpc, http, mapped, stunDue, resetQ, i, inbox, mapper, world,
                   measured, told>>

StunEndless ==
    /\ spc = "wait" /\ wpc = "ended" /\ ~stunDue
    /\ UNCHANGED vars

\* map_address returns: the address goes to addr_tx, an error to the log.
QueryOk ==
    /\ spc = "answered"
    /\ unseen' = found
    /\ NextServer
    /\ Idle
    /\ UNCHANGED <<wpc, http, mapped, stunDue, resetQ, inbox, mapper, world, measured,
                   told>>

QueryErr ==
    /\ spc \in {"query", "answered"} /\ network = "disturbed"
    /\ NextServer
    /\ Idle
    /\ UNCHANGED <<wpc, http, mapped, stunDue, unseen, resetQ, inbox, mapper, world,
                   measured, told>>

\* reset_rx.recv, also once the worker, which held reset_tx, has ended: the other
\* branch of the select! is dropped, and with it the measurement; the server is
\* asked again next time.
ResetRecv ==
    /\ spc \in {"wait", "query", "answered"}
    /\ resetQ \/ wpc = "ended"
    /\ resetQ' = FALSE
    /\ stunDue' = FALSE
    /\ Idle
    /\ UNCHANGED <<wpc, http, mapped, unseen, i, inbox, mapper, world, measured,
                   told>>

\* stun_rx.changed fails: nothing is unseen, and the worker, which held
\* stun_tx, has ended.
StunEnd ==
    /\ spc = "wait" /\ wpc = "ended" /\ ~stunDue
    /\ spc' = "ended"
    /\ UNCHANGED <<wpc, http, mapped, stunDue, unseen, resetQ, i, found, inbox,
                   mapper, world, measured, told>>
-----------------------------------------------------------------------------
(***************************************************************************)
(* The peers: the STUN server, the HTTP server, which may send a response  *)
(* in pieces, the NAT, and the mapper.                                     *)
(***************************************************************************)
Observe ==
    /\ spc = "query" /\ i \notin Silent
    /\ found' = nat
    /\ measured' = measured \cup {nat}
    /\ spc' = "answered"
    /\ UNCHANGED <<wpc, http, mapped, stunDue, unseen, resetQ, i, inbox, mapper,
                   world, told>>

Respond ==
    /\ conn = "up" /\ asked
    /\ data' = TRUE
    /\ asked' \in BOOLEAN
    /\ UNCHANGED <<wpc, conn, deadline, mapped, stunDue, unseen, resetQ, stun, inbox,
                   mapper, world, measured, told>>

Disconnect ==
    /\ conn = "up" /\ network = "disturbed"
    /\ conn' \in {"eof", "dead"}
    /\ UNCHANGED <<wpc, asked, data, deadline, mapped, stunDue, unseen, resetQ, stun,
                   inbox, mapper, world, measured, told>>

Remap ==
    /\ network = "disturbed"
    /\ nat' \in Addrs \ {nat}
    /\ UNCHANGED <<wpc, http, mapped, stunDue, unseen, resetQ, stun, inbox, mapper,
                   network, measured, told>>

CalmDown ==
    /\ network = "disturbed"
    /\ network' = "calm"
    /\ UNCHANGED <<wpc, http, mapped, stunDue, unseen, resetQ, stun, inbox, mapper,
                   nat, measured, told>>

Take ==
    /\ mapper = "up" /\ inbox # None
    /\ inbox' = None
    /\ UNCHANGED <<wpc, http, mapped, stunDue, unseen, resetQ, stun, mapper, world,
                   measured, told>>

\* Client::close aborts both tasks wherever they are.
Close ==
    /\ mapper = "up"
    /\ mapper' = "closed"
    /\ wpc' = "ended" /\ Drop
    /\ spc' = "ended" /\ found' = None
    /\ UNCHANGED <<mapped, stunDue, unseen, resetQ, i, inbox, world, measured, told>>

\* The mapper task ends on a panic, without closing its client.
MapperGone ==
    /\ mapper = "up"
    /\ mapper' = "gone"
    /\ UNCHANGED <<wpc, http, mapped, stunDue, unseen, resetQ, stun, inbox, world,
                   measured, told>>

Worker ==
    \/ ConnectOk \/ ConnectErr
    \/ Read \/ ReadEnd \/ KeepAlive \/ WriteErr \/ TimedOut \/ StunTick
    \/ FirstAddress \/ SameAddress \/ OtherAddress
    \/ SendOk \/ SendErr \/ Reset \/ Wake

StunTask == StartQuery \/ QueryOk \/ QueryErr \/ ResetRecv \/ StunEnd

Peers ==
    \/ Observe \/ Respond \/ Disconnect \/ Remap \/ CalmDown
    \/ Take \/ Close \/ MapperGone

Next == Worker \/ StunTask \/ Peers
-----------------------------------------------------------------------------
(***************************************************************************)
(* A branch of a select! stays ready until it is taken or its connection   *)
(* ends, and select! picks among the ready ones at random; the timers      *)
(* tick; a server that is not silent answers; a mapper that is up takes    *)
(* the reports.  Nothing is assumed of the network's disturbances.         *)
(***************************************************************************)
Fairness ==
    /\ WF_vars(ConnectOk)
    /\ WF_vars(Read) /\ WF_vars(ReadEnd) /\ WF_vars(KeepAlive)
    /\ WF_vars(TimedOut) /\ WF_vars(StunTick)
    /\ WF_vars(FirstAddress \/ SameAddress \/ OtherAddress)
    /\ WF_vars(SendOk \/ SendErr) /\ WF_vars(Reset \/ Wake)
    /\ WF_vars(ResetRecv) /\ WF_vars(StartQuery \/ QueryOk \/ StunEnd)
    /\ WF_vars(Observe) /\ WF_vars(Respond) /\ WF_vars(Take)

Spec == Init /\ [][Next]_vars /\ Fairness
-----------------------------------------------------------------------------
(***************************************************************************)
(* The client implements AddressFeed, an epoch being a connection: however *)
(* the connection ends, and wherever the STUN task is at that moment, no   *)
(* address measured before the connection is ever reported on it, and      *)
(* each connection reports once (mark_unchanged, reset, mapped_addr).      *)
(***************************************************************************)
Feed == INSTANCE AddressFeed WITH said <- mapped # None /\ wpc # "send"

ImplementsFeed == Feed!Spec

(***************************************************************************)
(* Once the network is calm, the last address reported is the one the NAT  *)
(* maps to, and stays it, even if what was reported on the connection is   *)
(* outdated: the next measurement differs and the client reconnects.       *)
(***************************************************************************)
TracksNat ==
    [](mapper = "up") /\ <>(network = "calm") => <>[](told = nat)

(***************************************************************************)
(* The half of TracksNat that is about single steps: once the network is   *)
(* calm and the last report is right, with nothing older on its way to the *)
(* callback, no step of either task makes it wrong again, whether the      *)
(* connection is kept or a new one is made, and whatever the STUN task has *)
(* found out before that.                                                  *)
(***************************************************************************)
OnTrack ==
    /\ network = "calm" /\ told = nat
    /\ inbox \in {nat, None}
    /\ wpc = "send" => mapped = nat
    /\ wpc \in {"loop", "send"} =>
         unseen \in {nat, None} /\ (spc = "answered" => found = nat)

StaysOnTrack == [][OnTrack => OnTrack']_vars

(***************************************************************************)
(* A connection that was closed or died is noticed and dropped, even if a  *)
(* late piece of a response disarms the deadline of a later request.       *)
(***************************************************************************)
DeadConnectionDropped == conn \in {"eof", "dead"} ~> conn = "none"

(***************************************************************************)
(* Neither task outlives the other: the end of the worker, whose channels  *)
(* the STUN task waits on, ends the STUN task.                             *)
(***************************************************************************)
TasksEndTogether == wpc = "ended" ~> spc = "ended"

(***************************************************************************)
(* "It selects hosts based on round-robin ordering" (stun_addrs of the     *)
(* builder): in a calm network every server has its turn again and again.  *)
(***************************************************************************)
EveryServerSelected ==
    [](mapper = "up") /\ <>(network = "calm") => \A k \in Servers : []<>(i = k)
=============================================================================
