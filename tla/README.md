# Specifications of nat2

nat2 exposes local services behind a full-cone NAT. For every entry of the
configuration's `map` it keeps a NAT mapping of a local port open, learns the
mapped address from STUN servers, keeps a port mapping on the gateway (UPnP), and
tells the entry's watchers (DNS records, HTTP, scripts) of every new address.

This directory models the program in TLA+, checks small instances with TLC, and
proves the main safety results for all instances with TLAPS. Paths below are
relative to the repository's `src/` directory unless they end in `.tla`.

## 1. Inventory

| Component | State | Operations | What is hard |
|---|---|---|---|
| Program (`mapper.rs` `run`, `Closer`; `main.rs`) | the tasks, the broadcast channel | set up the entries, wait for a signal, close | an error half-way through, a task that panicked, a broadcast nobody receives |
| Mapper task (`mapper.rs` 217-276) | `Mapper.public`, `failed` | receive a report, renew, call the watchers, close | a watcher fails between two others, the address changes while a failure is pending, close races reports |
| UPnP port mapping (`upnp.rs`) | `PortMap` (timeout, timestamp, port) | `add_port`, `renew_port`, `remove_port` | lost answers, failed renewals, gateway restarts, permanent leases, the boundary of the timeout |
| TCP client (`client/tcp.rs`) | one HTTP connection, `mapped_addr`, `deadline`; STUN index `i`; three channels | keep alive, measure, report, reset, reconnect | two tasks; a measurement of an old connection; a NAT remapping in mid-connection; responses in pieces; silent servers |
| UDP client (`client/udp.rs`) | `req`, `first_request`, `i` | send a request, receive a response, report | loss, duplication, delay, reordering; round-robin |
| Client interface (`client/mod.rs`) | the task handles, the callback channel | `close`, reports | what a mapper may rely on |
| DNS watchers (`watcher/alidns.rs`, `dnspod.rs`, `cf.rs`) | none; the records are at the provider | `new_address` (zone, lookup, update or create), `validate` | several requests per call, lost answers, other updaters of the same name |
| HTTP and script watchers (`watcher/http.rs`, `script.rs`) | none | `new_address` | one request or process, which may hang; where placeholders are replaced |
| Watcher helpers (`watcher/mod.rs`) | none | `format_value`, `validate`, `split_domain_name` | values legal for one port and not for another; what is checked at start is unwrapped hours later |
| Configuration (`config.rs`, the builders of `client/`) | none | sections, entries, options | two tests in two places that must agree; zero and empty options |
| Command line, logging, request signing | none | parsing, hashing | data only |

How they interact. A client *sends* reports over a `mpsc` channel of capacity 1;
the mapper task *receives* them, *awaits* `renew_port` and then each watcher, one
after the other: while it does, the channel fills up and the client waits.
`Closer::close` *broadcasts*; each task then awaits `remove_port`, *aborts* its
client's tasks and ends. Within the TCP client the worker asks the STUN task for
a measurement over a `watch` channel, gets the address over another one, and
cancels a measurement over a `mpsc` channel. The gateway, the DNS providers, the
STUN and HTTP servers, the NAT and the network are the environment; they fail,
restart, lose and reorder.

What makes each component correct:

* Program: an orderly exit leaves nothing behind; a shutdown that has begun ends.
* Mapper: no watcher is left with an older address where the task resumes; every
  record gets the address in the end; a closed task ends.
* UPnP: a held mapping is never lost by the passing of time, comes back after a
  gateway restart, and does not come back after its removal.
* Clients: a report is an address measured in the current connection or request;
  the last report ends up to be what the NAT does; servers are asked in turn.
* DNS watchers: no pile of duplicate records; Ok means the address is published.
* An entry with a port mapping: the task renews it in time whatever its watchers do,
  and serves its watchers whatever the gateway does.
* Configuration and watcher helpers: what passes validation is all that the tasks and
  clients rely on later.

`PROJECT.json` lists the hazards line by line, with the property that covers
each, or why none does.

## 2. Modules

| Module | Models | State and actions |
|---|---|---|
| `Upnp` | `upnp.rs` | One variable per field of `PortMap` (`age` stands for now - `timestamp`), the method in progress and its request, the gateway's entry. Each method is a request action (`AddPort`, `RenewPort`, `RemovePort`) and its returns (`...Ok`, `...Err`); `RenewSkip` is the early return. `Serve`, `Restart`, `Tick` are the gateway and the clock. |
| `Mapper` | the task of `mapper.rs` | `pc` is the `await` the task is at. `Recv`/`CloseRecv` are the branches of the `select!`; `NewAddress`, `Retry`, `NothingNew` what follows `changed`; `WatcherOk`, `WatcherErr` one turn of the loop over the watchers. |
| `AddressFeed` | the promise of `client/mod.rs` | Abstract specification: epochs, what was measured in the epoch, at most one report of it. |
| `TcpClient` | `client/tcp.rs` | `wpc` and `spc` are the `await`s of the two tasks, one variable for each channel; one action per branch of each `select!` and per outcome. |
| `UdpClient` | `client/udp.rs` | `upc`, `req`, `first`, `i` are the task, `missed` the ticks its interval is to make up for; `net` the set of datagrams. |
| `Mapping` | one entry with a port mapping: set-up and task of `mapper.rs` | Composes `Mapper` and `Upnp` (`INSTANCE`): `Receive` is `Recv` together with a call of `renew_port`, `Handle` waits for its return, `CloseRecv` calls `remove_port`. `Tick` passes time only as long as the client and the calls keep to their times (`Punctual`). |
| `DnsRecords` | `new_address` of `alidns.rs`, `dnspod.rs`, `cf.rs` | Per updater, the exchange it is in and its request; the provider's records of one name and type. `active` says which updaters there are, `zoned` is TRUE for Cloudflare. |
| `Publisher` | the promise of `Watcher::new_address` in `watcher/mod.rs` | Abstract specification: a call is made with an address, stores it once at most, and returns Ok only if it did. |
| `Program` | `run`, `Closer::close`, `main` | How far each entry has come, its port mapping and client, the program's stage. |
| `Watchers` | `watcher/mod.rs`, `validate` and the beginning of `new_address` of every watcher | Operators, no variables: a text is a sequence of words, a word one of pieces (digits, placeholders, other text), a domain one of labels. `Outcome` is what a call comes to before anything is sent, `new_address` what it then sends. |
| `Setup` | `run` with the `Config` it is given, the builders of `client/` | Extends `Program` and `Watchers`: every action is one of `Program` with the condition the configuration puts on it; `settings` is what a client is built with, `sent` the last call of a watcher. |
| `...Proofs` | | Theorems about the module of that name. |
| `MC...` | | The module to run TLC on; the `.cfg` files give the constants. |

How they compose. `TcpClient` and `UdpClient` both implement `AddressFeed`
(`INSTANCE ... WITH`, the property `ImplementsFeed`); an epoch is a connection in
one and a request in the other. `Mapper` takes its reports from any sender, and
its `record[w]` is what `DnsRecords` shows a watcher to be: set before Ok, set or
not before an error (`OkIsPublished`). An updater that shares its records with nobody
implements `Publisher` (`ImplementsPublisher`): its chain of exchanges, each of which may
fail on either side of the provider, is one call that stores once or not. `Mapper` awaits `renew_port` and
`remove_port`, whose details are in `Upnp` and whose results it ignores.
`Mapping` is the two together, and implements both. `Program` has one `Mapper` task
per entry, of which it keeps only the start, the end and the panic: its `Signal`,
`CloseRecv`, `Removed` are `Close`, `CloseRecv`, `Removed` there. `Mapping` has its own
instance of `Program`, with one entry, and from the start of the task takes its steps
(`ImplementsEntry`): the answer to `remove_port` is awaited before the client is closed.
`Setup` is
`Program` with conditions: it takes no step `Program` does not have, by the shape of its
actions, and what is checked is the conditions. `ClientsAreUsable` of `Setup` is what `TcpClient` and `UdpClient` assume
of their servers, `LookupFindsRecord` what `DnsRecords` assumes of a lookup.

Every slip (`AddOkKeepingTimeout`, `RenewErrStamped` and so on, each commented as
such) is a mutated form of the definition it stands before. `PROJECT.json` pairs
each with the property that must notice it.

### Abstractions and assumptions

* Addresses, servers, ids, records are members of small sets. Logging and the
  wording of errors are left out, and so is `external_ip`, whose result is only
  logged.
* Timers of the clients may fire whenever they are armed. Three durations matter:
  `Wake` needs the STUN task to be polled within the ten seconds the worker
  sleeps; a *calm* network answers a keep-alive request within its deadline, and
  delivers a UDP response within the interval. The last two are assumed from some
  moment on and only in the properties that speak of a calm network; before it the
  network does as it likes. What a client that waits for the mapper in `callback.send`
  makes of its timers is not assumed away: the deadline of the TCP worker may be over
  when it returns, and drop a connection that is in order (`SendOk`, `TimedOut`); the
  UDP task makes up for up to `Burst` missed ticks at once, each giving up the request
  before it (`SendOk`, `Due`).
* A TCP client that lost its receiver to a panic and whose connection is stable does
  not notice: its worker sends nothing more on that connection. `TasksEndTogether` starts
  at the end of the worker, `EndsWithMapper` is about the UDP client.
* `UpnpAssumption`: successful calls of `renew_port` are at most `MaxGap` apart,
  and half the lease plus two gaps fit into the lease. `Mapping` derives the gap from
  what can be said of the parts: a report within `Interval` (or `Handling`, when the
  task was busy), at most `Failures` renewals that fail in a row, and `Handling` for a
  report with its renewal and its watchers. For the UDP client, whose interval is 20
  seconds, a lease of an hour has room for all but very slow watchers. The TCP client
  reports once per connection: for it the assumption does *not* hold (run
  `mapping_tcp`).
* `Upnp`: renewals have the same `MaxGap` while requests fail. A gateway that is
  down for longer loses the lease, which no program can prevent.
* Calls of watchers and of the gateway return. The code has no time limits on
  them: a call that hangs stops its mapper task and the shutdown.
* `DnsRecords`: a request whose exchange has failed is not served later; nobody
  creates records by hand; and there are not more records at first than updaters
  without a `rid`. `Err` stands for every failure, a restart of the program too.
* `Setup`: numbers of the configuration are naturals (`u64` in `config.rs`), the ports
  clients report are `u16` (`SetupAssumption`). Watchers of a kind differ in their name
  only; `malformed` ones have a setting `new` refuses, `unsendable` ones a secret that
  makes no HTTP header. Of a word the digits, the placeholders and that it has other
  text are kept, in their order. `hostname` says whether the host's name is UTF-8 text,
  which `description` of `upnp.rs` unwraps; the name stays what it is, so that a renewal,
  which comes after `add_port`, never finds another. The empty label is written "-".
* `Watchers` takes `Url::parse` and the parser of socket addresses as given: a `host`
  is an IPv4 or IPv6 literal or a name.
* Transaction ids are 96 random bits; in `UdpClient` an id is fresh if no datagram
  in the network carries it.
* A panic of a mapper task is possible in a watcher (`parse().unwrap()` of a
  header made of a configured secret, `cf.rs` 122, `dnspod.rs` 190).

### Fairness

* `Mapper`: strong fairness of the two branches of the `select!`, which picks at
  random among those that are ready; weak fairness of everything else. `Converges`
  also assumes `WatchersRecover`: a watcher that is called again and again succeeds
  again and again.
* `TcpClient`, `UdpClient`: weak fairness only. A branch of a `select!` stays ready
  until it is taken, timers tick, servers that are not silent answer, the mapper
  takes reports. Nothing is assumed of the errors, the losses, the disturbances;
  of `ConnectErr`, `QueryErr`, `WriteErr` in particular.
* `Program`, `Setup`: tasks are scheduled, and `join_all` returns when they have ended.
* `Mapping`: as `Mapper`, and weak fairness of the returns of the calls to the gateway.
  A `Periodic` client reports again and again (`Periodic => WF_vars(Report)`), as the
  UDP client does at every tick of its interval.
* `Upnp`, `DnsRecords`: none, only safety is checked.

## 3. Runs

| Run | Instance | Shows |
|---|---|---|
| `upnp` | lease 8, gap 2: the tightest instance of the assumption | `LeaseAlive`: a held mapping does not expire. `OutageBounded`: one lost in a restart is asked for again in time. `ReleasedIsUnmapped`: a removed one stays removed, whatever is called after that (the mapper task calls nothing more). Ages and outages are capped where they stop mattering (`AgeCap`, `OutageCap`). |
| `mapper` | 2 addresses, 3 watchers: a failure has watchers before and behind it | `SyncedPrefix`: the records before the place where the task resumes hold the public address. `NoGroundLost`: a retry calls no watcher again that has it. `Converges`: every record gets it in the end. `ShutdownCompletes`. |
| `mapper_notify` | 1 address, 2 watchers | *Violation* of `EveryWatcherNotified`, see the findings. |
| `mapping` | 1 watcher, 2 addresses, lease 12, a report every unit, 1 unit to handle it, 1 failed renewal: a gap of 3, the longest this lease admits | `ImplementsUpnp`: renewals come in time, so that all of `upnp` holds of the composition; `PortStaysMapped` says so of the lease. `ImplementsMapper`: the gateway's failures keep neither addresses from the watchers nor the task from ending. `ImplementsEntry`: the task's start, shutdown and end are those of `Program`. `FailedRetried`: a watcher that failed is called again. |
| `mapping_tcp` | the same with a client that reports once | *Violation* of `PortStaysMapped`, see the findings. |
| `tcp` | 2 addresses, 2 servers | `ImplementsFeed`: no address of an earlier connection is reported. `TracksNat`: once the network is calm the last report is right and stays so. `StaysOnTrack`: from then on no step makes it wrong. `DeadConnectionDropped`, `TasksEndTogether`, `EveryServerSelected`. The worker may come back too late from any report. |
| `tcp_silent` | 1 address, 2 servers, one of them silent | *Violation* of `EveryServerSelected`, see the findings. |
| `udp` | 2 addresses, 2 servers, 2 ids, 3 datagrams, bursts of 2 ticks | `ImplementsFeed`, `TracksNat`, `StaysOnTrack`, and `EveryServerSelected`, which the UDP client satisfies in a network that loses everything. `EndsWithMapper`: a client whose receiver is gone ends by itself. |
| `dns` | 1 or 2 updaters, 2 values, 3 ids | `RecordsBounded`: racing creations do not pile up. `OkIsPublished` and `ImplementsPublisher` for updaters that are alone or have a `rid` of their own. |
| `setup` | 3 entries, 627 configurations, 3 ports | `CleanExit`, `ShutdownEnds`. `SetupPanicsOnlyForHostname`: the gateway was looked for when an entry unwraps it, and nothing but the host's name panics. `PanicsOnlyForSecret`: what `validate` lets pass does not panic later. `ClientsAreUsable`: no zero interval, no empty list. `LookupFindsRecord`: the record looked for is the one written. `ExampleIsEnough`: a value that converts with port 1111 converts with all, but for digits beside `{port}`. |
| `program_close` | no entries | *Violation* of `CloseIsHeard`, see the findings. |
| `http_path` | one configuration | *Violation* of `PlaceholdersReplaced`, see the findings. |

Each module's type invariant is checked in one of its runs. No symmetry is used.
Deadlock is checked for `Upnp`, `DnsRecords` and `Mapping`, which never stop; the other
systems end when they are closed, or when nothing is left to happen.

Why the bounds are enough. Two addresses let an address change and change back; a
third would only be one more that differs. Three watchers have one before and one
behind the failure; in `mapping`, where the loop over them is only a time that
passes, one will do. The configurations of `setup` each differ from a good one in
one respect, since every test of `run` looks at one: every scheme and host of a url
with every value of `upnp`, every shape of a domain, every type with and without
priority, values with text, digits and placeholders where numbers are expected,
watchers of each kind that are malformed, unsendable or share a name, every option
left out, zero or given; and a host name that is no text. Port 80 has fewer and 50000 more digits than the example's
1111. Two servers have a turn to take. Two ids are the awaited request and an
outdated one, and three datagrams a request, a duplicate and an old response. A burst of
two ticks gives up one request for another before any answer. The
theorems below hold without the bounds.

### Findings

1. `mapper.rs` 262: a watcher that always fails keeps those behind it from ever
   being notified; `watcher/mod.rs` 12-14 says that a watcher gets notified when the
   address is updated.
2. `client/tcp.rs` 157: a STUN server that accepts connections and never answers is
   asked for ever, `client/mod.rs` 44 promises round-robin. A reset cancels the
   query and does not move the index on.
3. `mapper.rs` 134: with an empty `map` the `unwrap` in `Closer::close` panics.
4. `mapper.rs` 222: the port mapping is renewed only when a report is handled, and the
   TCP client makes one per connection (`client/tcp.rs` 241-253). The lease of a stable
   TCP connection runs out, against the comment in `upnp.rs` 14.
5. `watcher/http.rs` 68: a placeholder in the path of an HTTP watcher's url is sent as
   it is written; `config.rs` 67-68 promises that the url may contain them.

Two things no document of the repository contradicts, and which the properties leave
out by name: an SRV value with digits beside a placeholder, `6{port}` or `{port}5`, passes
`validate` of the Cloudflare watcher with 61111 or 11115 and does not convert with most
ports (`ExampleIsEnough` says that there is no other such shape); for a domain with a dot at its end
or an `@` in front, AliDns and Cloudflare look up another name than they write
(`LookupFindsRecord`).

## 4. Theorems

TLAPS checks every proof for all values of the constants that satisfy the
assumption named in the module.

| Module | Theorem | Property |
|---|---|---|
| `UpnpProofs` | `LeaseStaysAlive`, `OutageIsBounded`, `ReleaseIsFinal` | `LeaseAlive`, `OutageBounded`, `ReleasedIsUnmapped` |
| `MapperProofs` | `PrefixIsSynced`, `GroundIsKept` | `SyncedPrefix`, `NoGroundLost` |
| `TcpClientProofs`, `UdpClientProofs` | `Refinement`, `TrackIsKept` | `ImplementsFeed`, `StaysOnTrack` |
| `TcpClientProofs` | `NoFalseAlarm` | the deadline is armed only for a response that is owed or unread |
| `DnsRecordsProofs` | `RecordsAreBounded`, `PublishedWhenOk`, `Refinement` | `RecordsBounded`, `OkIsPublished`, `ImplementsPublisher` |
| `ProgramProofs` | `ExitIsClean` | `CleanExit` |
| `MappingProofs` | `Refinement`, `PortIsKept` (a periodic client), `EntryRefinement` (any client) | `ImplementsUpnp`, `PortStaysMapped`, `ImplementsEntry` |
| `MappingProofs` | `OutageIsBounded` (a periodic client), `ReleaseIsFinal`, `PrefixIsSynced` (any client) | `OutageBounded`, `ReleasedIsUnmapped`, `SyncedPrefix` of the composition |
| `SetupProofs` | `ExitStaysClean`, `SetupIsSound`, `ValidationSuffices`, `BuildersAreSound`, `LookupIsSound`, `ExampleSuffices` | `CleanExit`, `SetupPanicsOnlyForHostname`, `PanicsOnlyForSecret`, `ClientsAreUsable`, `LookupFindsRecord`, `ExampleIsEnough` |
| all eight | `TypeCorrect` (`TypeCorrectSetup` in `SetupProofs`) | `TypeOK` (`TypeOKSetup`) |

Most rest on `Invariance`, `Spec => []IInv`, with an inductive invariant that says
more than the property:

* `Upnp`: what is left of the lease and the age of the timestamp add up to at least
  the duration less one gap (`LeaseInv`). The timestamp is taken when the answer
  arrives, later than the lease starts, and how much later is bounded by `idle`; so
  a request the gateway has served, and whose answer is still on its way, has a
  case of its own. `AgeInv` bounds the age of a mapping that is held by the renewal
  age plus `idle`, and the assumption on the gaps keeps what is left above 0.
  `OutageInv` bounds an outage in the same way, and `CallInv` ties each method to
  the `PortMap` it runs on.
* `Mapper`: with the type invariant, the task's `next` and `failed` point at
  watchers while they are used; then the prefix is kept by each return of a watcher.
  `GroundIsKept` follows step by step: only a changed address moves the place back.
* `TcpClient`: while there is a connection, the address the STUN task has found, the
  one `addr_rx` holds unseen and the one the worker is reporting were measured on
  it (`EpochInv`). That a new connection may forget what was measured before needs
  `IdleInv`: when the worker connects, the reset message has stopped the STUN task,
  and no reset is left to come. `TrackIsKept` is the part of `TracksNat` that needs no
  fairness: with nothing older than the current NAT mapping on its way to the callback
  (`OnTrack`), no step brings anything older there. It needs `IdleInv` for a reconnection,
  which must not find an old answer in the STUN task. `NoFalseAlarm` rests on
  `DeadlineOwed`: whoever arms the deadline has written a request, and what disarms it
  may come too early, never too late.
* `UdpClient`: every response in the network that carries the awaited id carries an
  address observed of that request. The same for `OnTrack`, whose responses agree with
  the NAT.
* `DnsRecords`: the number of records is not inductively bounded, since several
  creations may be on their way. Each updater about to create takes up room for a
  record already: records and those updaters together do not outnumber the
  creators (`RoomInv`). `PublishedInv` says of a served write what `OkIsPublished`
  says of an Ok. For `Refinement`, an updater's own records are one at most (`OwnOne`, from
  `RoomInv` if it has no `rid`), what it shows is what that one holds, its own steps are
  those of `Publisher` (`OwnStep`), and those of another updater leave it alone (`OtherStep`).
* `Program`: a task that is done has cleaned up, and an exited program has only
  ended tasks.
* `Mapping`: the time since the last renewal is at most one cycle for each renewal that
  has failed since, plus the time since the last report was taken (`DelayInv`). That is
  the bound `Upnp` assumes; then each step is one of `Upnp` or leaves its variables
  alone, and `PortIsKept` and `OutageIsBounded` are `LeaseStaysAlive` and `OutageIsBounded`
  of the instance. A TCP client gives no such bound, but the types and the order of the
  calls do not depend on it (`LooseInv`): time may also pass as `Upnp` does not allow, and
  `TypeCorrect` and `ReleaseIsFinal` hold all the same. `EntryRefinement` needs to know
  where the task is when it sees the broadcast and when a call is in progress (`LifeInv`).
* `Setup`: each action contains an action of `Program`, so that `CleanExit` carries over
  (`ProgramSpec`, a lemma that follows from the shape of the actions). For the rest, an
  entry that is set up or running is `Legal`, and at the entries the gateway is there
  exactly if one is needed. Lemmas about the operators do the work: `ValidUnwraps` (what `validate`
  accepts, `new_address` unwraps), `NameIsDomain` (splitting a domain and putting it
  together again), `ExampleNumber` and `ExampleConverts` (a word that is a number with the
  example's port is one with every port: it has no port in it, or is one, or has digits
  beside it and is left out).

Only model-checked: all liveness (`Converges`, `ShutdownCompletes`, `TracksNat`,
`DeadConnectionDropped`, `TasksEndTogether`, `EndsWithMapper`, `EveryServerSelected`,
`FailedRetried`, `ShutdownEnds`, the fairness in `ImplementsMapper`, whose steps follow
from the shape of `Mapping`), since the prover has neither fairness nor ENABLED. The
theorems `Refinement` cover the whole of `ImplementsFeed`, `ImplementsUpnp` and
`ImplementsPublisher`, which are safety properties. Of `TracksNat` the proofs have the half that says what a step may not do (`StaysOnTrack`); that the track is
reached at all is left to TLC, and so is that a deadline that is armed fires.

## 5. Plan

Done, in this order: `Upnp`, `Mapper`, `AddressFeed`, `TcpClient`, `UdpClient`,
`DnsRecords`, `Program`, `Mapping`, `Watchers`, `Setup`, `Publisher`, with their proofs.

Left:

1. That `Mapper` with a `Publisher` for each watcher implements `Mapper` with its atomic
   ones. `Publisher` lets records be deleted by hand, `Mapper` does not, and the one
   stores before the call returns, the other when it does.
2. `Mapping` with the clients' own modules as the source of its reports: `Periodic` and
   `Interval` stand for them.
3. That `Program` with a `Mapping` for each of several entries keeps its steps;
   `ImplementsEntry` has one entry.

Not modelled: parsing of the file and of the command line, logging and request signing,
which have no behaviour of their own; `external_ip`, which is only logged; what an HTTP
server or a script makes of a call, which is the outcome of `Mapper`'s watcher. An error
while a later entry is set up leaves the port mappings of the earlier ones on the
gateway (`Program` has the behaviour); nothing in the repository says otherwise, so no
property does.
