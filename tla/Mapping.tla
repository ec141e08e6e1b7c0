------------------------------ MODULE Mapping ------------------------------
(***************************************************************************)
(* One entry of [map] with a port mapping on the gateway: the set-up that  *)
(* adds the mapping and the task that serves the entry (src/mapper.rs,     *)
(* run), composed of Mapper and of Upnp.  The task owns the PortMap, and   *)
(* the port mapping is renewed only when the NAT client reports, in the    *)
(* same task that calls the watchers: how long a renewal can be late       *)
(* follows from how often reports come and how long one takes to handle,   *)
(* which Upnp has to assume.                                               *)
(***************************************************************************)
EXTENDS Integers

CONSTANTS
    MAPPING_DURATION,   \* the lease asked of the gateway
    Addrs, N, None,     \* see Mapper
    Periodic,           \* does the client go on reporting?  A UDP client does,
                        \* a TCP client reports once per connection
    Interval,           \* longest wait for the first report, and for the next
                        \* one of a Periodic client
    Handling,           \* longest time set-up takes to add the port mapping,
                        \* and the task to handle a report
    Failures            \* how many renewals in a row may fail

(***************************************************************************)
(* The time from one report to the next, and from a renewal that succeeds  *)
(* to the next that does: Failures renewals fail in between.               *)
(***************************************************************************)
Cycle == IF Interval < Handling THEN Handling ELSE Interval
Gap == (Failures + 1) * Cycle + Handling

ASSUME MappingAssumption ==
    /\ MAPPING_DURATION \in Nat
    /\ N \in Nat /\ None \notin Addrs
    /\ Periodic \in BOOLEAN
    /\ Interval \in Nat \ {0} /\ Handling \in Nat \ {0} /\ Failures \in Nat
    /\ MAPPING_DURATION \div 2 + 2 * Gap <= MAPPING_DURATION

VARIABLES
    inbox, client, closing, pc, addr, public, failed, next, record, notified,
                \* the task, its client and its watchers: see Mapper
    supports, status, timeout, age, call, request, lease, left, outage, idle,
                \* the PortMap and the gateway: see Upnp
    ago,        \* history: time since add_port began or returned, or since
                \* the task took the last report
    misses      \* history: renewals that failed since the last success

M == INSTANCE Mapper
U == INSTANCE Upnp WITH MaxGap <- Gap

task == <<inbox, client, closing, pc, addr, public, failed, next, record, notified>>
port == <<supports, status, timeout, age, call, request, lease, left, outage, idle>>
clock == <<ago, misses>>
vars == <<task, port, clock>>

TypeOK ==
    /\ M!TypeOK /\ U!TypeOK
    /\ ago \in 0 .. Cycle
    /\ misses \in 0 .. Failures + 1

Init ==
    /\ M!Init /\ U!Init
    /\ ago = 0 /\ misses = 0
-----------------------------------------------------------------------------
(***************************************************************************)
(* Set-up: the task starts with the PortMap that add_port returns; if it   *)
(* fails, there is none.                                                   *)
(***************************************************************************)
Setup ==
    /\ \/ (U!AddPort \/ U!AddOk) /\ ago' = 0
       \/ (U!AddPermanent \/ U!AddErr) /\ UNCHANGED ago
    /\ UNCHANGED <<task, misses>>

Started == status \in {"held", "closing", "released"}

\* The client reports an address; the program is closed.
Report ==
    /\ Started
    /\ \E a \in Addrs : M!ClientSend(a)
    /\ UNCHANGED <<port, clock>>

Close ==
    /\ Started
    /\ M!Close
    /\ UNCHANGED <<port, clock>>

\* A slip the checks must notice: only a changed address renews the mapping.
ReceiveChanged ==
    /\ Started
    /\ M!Recv
    /\ \/ public # inbox /\ (U!RenewSkip \/ U!RenewPort)
       \/ public = inbox /\ UNCHANGED port
    /\ ago' = 0
    /\ misses' = IF call' = "idle" THEN 0 ELSE misses

(***************************************************************************)
(* The task takes a report and renews the mapping first; what renew_port   *)
(* returns is ignored, and the address is handled next.                    *)
(***************************************************************************)
Receive ==
    /\ Started
    /\ M!Recv
    /\ U!RenewSkip \/ U!RenewPort
    /\ ago' = 0
    /\ misses' = IF call' = "idle" THEN 0 ELSE misses

Renewed ==
    /\ \/ U!RenewOk /\ misses' = 0
       \/ U!RenewErr /\ misses' = IF misses > Failures THEN misses ELSE misses + 1
    /\ UNCHANGED <<task, ago>>

Handle ==
    /\ call = "idle"
    /\ M!NewAddress \/ M!Retry \/ M!NothingNew
    /\ UNCHANGED <<port, clock>>

Notified ==
    /\ M!WatcherOk \/ M!WatcherErr
    /\ UNCHANGED <<port, clock>>

\* The broadcast: the mapping is removed, then the client is aborted.
CloseRecv ==
    /\ Started
    /\ M!CloseRecv
    /\ U!RemovePort
    /\ UNCHANGED clock

RemoveReturned ==
    /\ U!RemoveOk \/ U!RemoveErr
    /\ UNCHANGED <<task, clock>>

\* A slip: the client is closed before the gateway has answered.
RemovedUnanswered ==
    /\ M!Removed
    /\ UNCHANGED <<port, clock>>

Removed ==
    /\ call = "idle"
    /\ M!Removed
    /\ UNCHANGED <<port, clock>>

\* The gateway serves a request, or restarts.
Gateway ==
    /\ U!Serve \/ U!Restart
    /\ UNCHANGED <<task, clock>>

(***************************************************************************)
(* A unit of time.  It passes only as long as the client, the watchers and *)
(* the gateway keep to their times, and the task takes a report as soon as *)
(* it can.  While the mapping is being removed no limit holds.             *)
(***************************************************************************)
Punctual ==
    CASE U!Adding -> ago < Handling
      [] status = "held" /\ pc = "select" ->
            inbox = None /\ (Periodic \/ public = None => ago < Cycle)
      [] status = "held" /\ pc # "select" -> ago < Handling
      [] OTHER -> TRUE

Tick ==
    /\ Punctual
    /\ status = "held" => misses <= Failures
    /\ U!Pass
    /\ ago' = IF U!Waiting /\ ago < Cycle THEN ago + 1 ELSE ago
    /\ UNCHANGED <<task, misses>>

Next ==
    \/ Setup \/ Report \/ Close
    \/ Receive \/ Renewed \/ Handle \/ Notified
    \/ CloseRecv \/ RemoveReturned \/ Removed
    \/ Gateway \/ Tick

(***************************************************************************)
(* The runtime polls the task when it can go on, every call returns, with  *)
(* an error if need be, and select! picks among its ready branches at      *)
(* random.  A Periodic client reports again and again.                     *)
(***************************************************************************)
Fairness ==
    /\ SF_vars(Receive) /\ SF_vars(CloseRecv)
    /\ WF_vars(Renewed) /\ WF_vars(Handle) /\ WF_vars(Notified)
    /\ WF_vars(RemoveReturned) /\ WF_vars(Removed)
    /\ Periodic => WF_vars(Report)

Spec == Init /\ [][Next]_vars /\ Fairness
-----------------------------------------------------------------------------
(***************************************************************************)
(* The composition keeps to what Upnp assumes of its caller: one call at a *)
(* time, and never more than Gap between two successful renewals, however  *)
(* reports, watchers and failed renewals delay one another.  So all that   *)
(* holds of Upnp holds here.                                               *)
(***************************************************************************)
ImplementsUpnp == U!Spec

(***************************************************************************)
(* The task is that of Mapper, with its fairness: an unreachable gateway   *)
(* neither keeps the addresses from the watchers nor the program from      *)
(* closing.                                                                *)
(***************************************************************************)
ImplementsMapper == M!ScheduledSpec

(***************************************************************************)
(* Once the task has started, its steps are those Program has for one      *)
(* entry: it sees the broadcast once, awaits remove_port, and only then    *)
(* closes its client and ends, after which nothing touches its port any    *)
(* more.                                                                   *)
(***************************************************************************)
E == INSTANCE Program WITH
    Entries <- {1},
    stage <- IF closing = "no" THEN "running" ELSE "closing",
    task <- [e \in {1} |-> CASE pc = "remove" -> "removing"
                             [] pc = "done" -> "done"
                             [] OTHER -> "running"],
    port <- [e \in {1} |-> IF pc # "done" THEN "mapped"
                           ELSE IF status = "released" THEN "none" ELSE "stuck"],
    client <- [e \in {1} |-> client]

ImplementsEntry == [][Started => [E!Next]_(E!vars)]_vars

(***************************************************************************)
(* A watcher that failed is called again, although its address brings      *)
(* nothing new, unless the program is closed.                              *)
(***************************************************************************)
FailedRetried == failed >= 0 ~> pc = "notify" \/ closing # "no"

(***************************************************************************)
(* "Renew the Mapping every half of `MAPPING_DURATION` to avoid the port   *)
(* being unmapped" (src/upnp.rs): unless the gateway restarted, the port   *)
(* of an entry is mapped until the program is closed.                      *)
(***************************************************************************)
PortStaysMapped == U!LeaseAlive
=============================================================================
