------------------------------- MODULE Mapper -------------------------------
(***************************************************************************)
(* The task that src/mapper.rs runs for one entry of the configuration's   *)
(* [map]: it receives the addresses its NAT client reports, renews the     *)
(* port mapping if it has one, and passes a new address on to the entry's  *)
(* watchers, one after the other.  When a watcher fails, the ones behind   *)
(* it wait: the task remembers where it stopped and resumes there with the *)
(* next report.  The program closes it over a broadcast channel.           *)
(*                                                                         *)
(* The client is any sender on the callback channel (TcpClient, UdpClient) *)
(* and a watcher is any remote record that new_address sets; Upnp has the  *)
(* details of renew_port and remove_port, whose results the task ignores.  *)
(***************************************************************************)
EXTENDS Integers

CONSTANTS
    Addrs,  \* mapped addresses
    N,      \* number of watchers, in the order of the configuration
    None    \* no address

ASSUME MapperAssumption == N \in Nat /\ None \notin Addrs

Watchers == 0 .. N - 1

VARIABLES
    inbox,      \* the callback channel, of capacity 1
    client,     \* the client's tasks: "up", or "closed" once aborted
    closing,    \* "no", "sent" while the task has still to see the broadcast
    pc,         \* what the task awaits
    addr,       \* the report being handled
    public,     \* Mapper.public
    failed,     \* the watcher that failed last, -1 if none did
    next,       \* the watcher whose new_address is running
    record,     \* the address each watcher's remote record holds
    notified    \* history: the address each watcher was last called with

task == <<pc, addr, public, failed, next>>
remote == <<record, notified>>
vars == <<inbox, client, closing, pc, addr, public, failed, next, record, notified>>

TypeOK ==
    /\ inbox \in Addrs \cup {None}
    /\ client \in {"up", "closed"}
    /\ closing \in {"no", "sent", "seen"}
    /\ pc \in {"select", "renew", "notify", "remove", "done"}
    /\ addr \in Addrs \cup {None}
    /\ public \in Addrs \cup {None}
    /\ failed \in Watchers \cup {-1}
    /\ next \in 0 .. N
    /\ record \in [Watchers -> Addrs \cup {None}]
    /\ notified \in [Watchers -> Addrs \cup {None}]

Init ==
    /\ inbox = None
    /\ client = "up"
    /\ closing = "no"
    /\ pc = "select"
    /\ addr = None
    /\ public = None
    /\ failed = -1
    /\ next = 0
    /\ record = [w \in Watchers |-> None]
    /\ notified = [w \in Watchers |-> None]
-----------------------------------------------------------------------------
(***************************************************************************)
(* The client's callback.send completes: there was room in the channel.    *)
(***************************************************************************)
ClientSend(a) ==
    /\ client = "up"
    /\ inbox = None
    /\ inbox' = a
    /\ UNCHANGED <<client, closing, task, remote>>

\* Closer::close broadcasts to every task.
Close ==
    /\ closing = "no"
    /\ closing' = "sent"
    /\ UNCHANGED <<inbox, client, task, remote>>

(***************************************************************************)
(* The select! of the loop, and the renewal that starts a report's         *)
(* handling.                                                               *)
(***************************************************************************)
Recv ==
    /\ pc = "select"
    /\ inbox # None
    /\ addr' = inbox
    /\ inbox' = None
    /\ pc' = "renew"
    /\ UNCHANGED <<client, closing, public, failed, next, remote>>

\* A slip the checks must notice: one watcher too many.
CallBeyond(w) ==
    /\ next' = w
    /\ IF w <= N THEN /\ pc' = "notify"
                      /\ notified' = [notified EXCEPT ![w] = addr']
                 ELSE pc' = "select" /\ UNCHANGED notified

\* new_address is called on watcher w, or the loop over the watchers is over.
Call(w) ==
    /\ next' = w
    /\ IF w < N THEN /\ pc' = "notify"
                     /\ notified' = [notified EXCEPT ![w] = addr']
                ELSE pc' = "select" /\ UNCHANGED notified

\* A slip: a changed address resumes at the watcher that failed.
NewAddressResumed ==
    /\ pc = "renew"
    /\ public # addr
    /\ public' = addr
    /\ failed' = -1
    /\ addr' = addr
    /\ Call(IF failed >= 0 THEN failed ELSE 0)
    /\ UNCHANGED <<inbox, client, closing, record>>

(***************************************************************************)
(* renew_port has returned.  A changed address starts with the first       *)
(* watcher, an unchanged one with the watcher that failed.                 *)
(***************************************************************************)
NewAddress ==
    /\ pc = "renew"
    /\ public # addr
    /\ public' = addr
    /\ failed' = -1
    /\ addr' = addr
    /\ Call(0)
    /\ UNCHANGED <<inbox, client, closing, record>>

Retry ==
    /\ pc = "renew"
    /\ public = addr
    /\ failed >= 0
    /\ failed' = -1
    /\ addr' = addr
    /\ Call(failed)
    /\ UNCHANGED <<inbox, client, closing, public, record>>

\* A slip: an unchanged address is never worth a retry.
NothingNewUnchanged ==
    /\ pc = "renew"
    /\ public = addr
    /\ pc' = "select"
    /\ UNCHANGED <<inbox, client, closing, addr, public, failed, next, remote>>

NothingNew ==
    /\ pc = "renew"
    /\ public = addr
    /\ failed = -1
    /\ pc' = "select"
    /\ UNCHANGED <<inbox, client, closing, addr, public, failed, next, remote>>

\* A slip: the failure is logged and forgotten.
WatcherErrForgotten ==
    /\ pc = "notify"
    /\ \/ record' = [record EXCEPT ![next] = addr]
       \/ UNCHANGED record
    /\ pc' = "select"
    /\ UNCHANGED <<inbox, client, closing, addr, public, failed, next, notified>>

\* Another: the failure is remembered without its place.
WatcherErrFromFirst ==
    /\ pc = "notify"
    /\ \/ record' = [record EXCEPT ![next] = addr]
       \/ UNCHANGED record
    /\ failed' = 0
    /\ pc' = "select"
    /\ UNCHANGED <<inbox, client, closing, addr, public, next, notified>>

(***************************************************************************)
(* new_address of watcher `next' returns: Ok once the record is set, or an *)
(* error, with the record set or not.                                      *)
(***************************************************************************)
WatcherOk ==
    /\ pc = "notify"
    /\ record' = [record EXCEPT ![next] = addr]
    /\ addr' = addr
    /\ Call(next + 1)
    /\ UNCHANGED <<inbox, client, closing, public, failed>>

WatcherErr ==
    /\ pc = "notify"
    /\ \/ record' = [record EXCEPT ![next] = addr]
       \/ UNCHANGED record
    /\ failed' = next
    /\ pc' = "select"
    /\ UNCHANGED <<inbox, client, closing, addr, public, next, notified>>

\* A slip: a select! that prefers reports to the broadcast.
CloseRecvLast ==
    /\ pc = "select" /\ inbox = None
    /\ closing = "sent"
    /\ closing' = "seen"
    /\ pc' = "remove"
    /\ UNCHANGED <<inbox, client, addr, public, failed, next, remote>>

(***************************************************************************)
(* Shutdown: remove_port, then the client is aborted and the task ends,    *)
(* and its end of the callback channel with it.                            *)
(***************************************************************************)
CloseRecv ==
    /\ pc = "select"
    /\ closing = "sent"
    /\ closing' = "seen"
    /\ pc' = "remove"
    /\ UNCHANGED <<inbox, client, addr, public, failed, next, remote>>

Removed ==
    /\ pc = "remove"
    /\ client' = "closed"
    /\ pc' = "done"
    /\ inbox' = None
    /\ UNCHANGED <<closing, addr, public, failed, next, remote>>

Next ==
    \/ \E a \in Addrs : ClientSend(a)
    \/ Close
    \/ Recv \/ NewAddress \/ Retry \/ NothingNew
    \/ WatcherOk \/ WatcherErr
    \/ CloseRecv \/ Removed
-----------------------------------------------------------------------------
(***************************************************************************)
(* The runtime polls a task that can go on, every call of a gateway or a   *)
(* watcher returns in the end, and select! picks among its ready branches  *)
(* at random, so that a branch that is ready again and again is taken.     *)
(***************************************************************************)
Fairness ==
    /\ SF_vars(Recv) /\ SF_vars(CloseRecv)
    /\ WF_vars(NewAddress \/ Retry \/ NothingNew)
    /\ WF_vars(WatcherOk \/ WatcherErr)
    /\ WF_vars(Removed)

\* A watcher that is called again and again succeeds again and again.
WatchersRecover == \A w \in Watchers : SF_vars(next = w /\ WatcherOk)

ScheduledSpec == Init /\ [][Next]_vars /\ Fairness
Spec == ScheduledSpec /\ WatchersRecover
-----------------------------------------------------------------------------
(***************************************************************************)
(* The watchers known to have the public address: all before the one that  *)
(* is being called, or before the one that failed, or all of them.         *)
(***************************************************************************)
Frontier ==
    IF pc = "notify" THEN next
    ELSE IF failed >= 0 THEN failed
    ELSE N

(***************************************************************************)
(* No watcher is forgotten when the task resumes after a failure: the      *)
(* records before the place where it will resume all hold the address the  *)
(* mapper last saw, however reports, failures and changes interleave       *)
(* (`failed' and the starting index in run).                               *)
(***************************************************************************)
SyncedPrefix ==
    public # None => \A w \in Watchers : w < Frontier => record[w] = public

(***************************************************************************)
(* No ground is lost: while the address stays, the watchers known to have  *)
(* it stay known, so that a retry calls none of them again.  Reports that  *)
(* bring nothing new, failures and the broadcast come in any order         *)
(* (`failed' and the starting index in run).                               *)
(***************************************************************************)
NoGroundLost == [][public' = public => Frontier' >= Frontier]_vars

(***************************************************************************)
(* If the client ends up reporting one address for ever and the program is *)
(* not closed, every record ends up holding it, whatever the watchers did  *)
(* before: a failure is retried with a report that brings nothing new.     *)
(***************************************************************************)
Converges ==
    \A a \in Addrs :
        (<>[](inbox \in {a, None}) /\ []<>(inbox = a) /\ [](closing = "no"))
            => <>[](\A w \in Watchers : record[w] = a)

(***************************************************************************)
(* A closed task ends, however busy its client keeps it: Closer::close,    *)
(* which waits for all of them, returns.                                   *)
(***************************************************************************)
ShutdownCompletes == closing = "sent" ~> pc = "done"

(***************************************************************************)
(* "The watcher get notified when the mapped address is updated"           *)
(* (src/watcher/mod.rs): a watcher is told of an address that keeps being  *)
(* reported, whatever the other watchers do.                               *)
(***************************************************************************)
EveryWatcherNotified ==
    \A a \in Addrs : \A w \in Watchers :
        (<>[](inbox \in {a, None}) /\ []<>(inbox = a) /\ [](closing = "no"))
            => <>(notified[w] = a)
=============================================================================
