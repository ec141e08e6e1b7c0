--------------------------- MODULE MappingProofs ---------------------------
(***************************************************************************)
(* With a client that goes on reporting, Mapping implements Upnp, for      *)
(* every duration, delay and number of failures that MappingAssumption     *)
(* admits: the theorems of UpnpProofs hold of the composed program.        *)
(* Whatever the client does, the steps of the task are those of Mapper and *)
(* those Program has for one entry, and types and the order of the calls   *)
(* are kept.                                                               *)
(***************************************************************************)
EXTENDS Mapping, TLAPS

P == INSTANCE UpnpProofs WITH MaxGap <- Gap
Q == INSTANCE MapperProofs

(***************************************************************************)
(* The renewals that have been started since the last success.             *)
(***************************************************************************)
Attempts == IF call = "renew" THEN misses + 1 ELSE misses

(***************************************************************************)
(* Every renewal that failed has cost a cycle at most, and the task waits  *)
(* for the answer to one before it goes on.  After too many failures time  *)
(* stands still and nothing needs to hold.                                 *)
(***************************************************************************)
DelayInv ==
    /\ idle \in Nat /\ ago \in 0 .. Cycle /\ misses \in 0 .. Failures + 1
    /\ U!Adding => idle <= ago
    /\ status = "held" /\ misses <= Failures => idle <= Attempts * Cycle + ago
    /\ call = "renew" => pc = "renew"

(***************************************************************************)
(* What the proofs use of the constants.                                   *)
(***************************************************************************)
LEMMA Cycles ==
    /\ Cycle \in Nat \ {0}
    /\ Interval \in Nat /\ Handling \in Nat /\ Failures \in Nat
    /\ Interval <= Cycle /\ Handling <= Cycle
    /\ Gap \in Nat \ {0}
    /\ Gap = Failures * Cycle + Cycle + Handling
  <1>1. /\ Cycle \in Nat \ {0} /\ Failures \in Nat /\ Handling \in Nat
        /\ Interval \in Nat /\ Interval <= Cycle /\ Handling <= Cycle
    BY MappingAssumption DEF Cycle
  <1>2. (Failures + 1) * Cycle = Failures * Cycle + Cycle /\ Failures * Cycle \in Nat
    BY <1>1
  <1> QED
    BY <1>1, <1>2 DEF Gap

(***************************************************************************)
(* Multiples of a cycle.                                                   *)
(***************************************************************************)
LEMMA Multiples ==
    ASSUME NEW n \in Nat
    PROVE  /\ n * Cycle \in Nat
           /\ (n + 1) * Cycle = n * Cycle + Cycle
           /\ n <= Failures => n * Cycle <= Failures * Cycle
  <1>1. Cycle \in Nat /\ Failures \in Nat
    BY Cycles
  <1>2. n * Cycle \in Nat /\ (n + 1) * Cycle = n * Cycle + Cycle
    BY <1>1
  <1>3. ASSUME n <= Failures PROVE n * Cycle <= Failures * Cycle
    <2>1. PICK d \in Nat : Failures = n + d
      <3>1. Failures - n \in Nat /\ Failures = n + (Failures - n)
        BY <1>1, <1>3
      <3> QED BY <3>1
    <2>2. Failures * Cycle = n * Cycle + d * Cycle /\ d * Cycle \in Nat
      BY <1>1, <2>1
    <2> QED
      BY <1>2, <2>2, <1>1
  <1> QED
    BY <1>2, <1>3
-----------------------------------------------------------------------------
(***************************************************************************)
(* The initial states satisfy the invariant.                               *)
(***************************************************************************)
LEMMA InitDelay == Init => DelayInv
  BY Cycles, Multiples DEF Init, M!Init, U!Init, U!Adding, DelayInv, Attempts

(***************************************************************************)
(* Every step keeps it, as long as the client goes on reporting.           *)
(***************************************************************************)
LEMMA DelayStep ==
    ASSUME Periodic, DelayInv, [Next]_vars
    PROVE  DelayInv'
  <1> USE Cycles, Multiples DEF DelayInv, Attempts, U!Adding
  <1>1. CASE Setup
    BY <1>1 DEF Setup, U!AddPort, U!AddOk, U!AddPermanent, U!AddErr, U!Send, U!Return,
                U!Adding, task
  <1>2. CASE Report
    BY <1>2 DEF Report, M!ClientSend, M!task, port, clock
  <1>3. CASE Close
    BY <1>3 DEF Close, M!Close, M!task, port, clock
  <1>4. CASE Receive
    <2>1. CASE U!RenewSkip
      BY <1>4, <2>1 DEF Receive, M!Recv, U!RenewSkip, U!HasPortMap, U!program
    <2>2. CASE U!RenewPort
      BY <1>4, <2>2 DEF Receive, M!Recv, U!RenewPort, U!HasPortMap, U!Send
    <2> QED
      BY <1>4, <2>1, <2>2 DEF Receive
  <1>5. CASE Renewed
    BY <1>5 DEF Renewed, U!RenewOk, U!RenewErr, U!Return, task
  <1>6. CASE Handle
    BY <1>6 DEF Handle, port, clock
  <1>7. CASE Notified
    BY <1>7 DEF Notified, M!WatcherOk, M!WatcherErr, port, clock
  <1>8. CASE CloseRecv
    BY <1>8 DEF CloseRecv, M!CloseRecv, U!RemovePort, U!HasPortMap, U!Send, clock
  <1>9. CASE RemoveReturned
    BY <1>9 DEF RemoveReturned, U!RemoveOk, U!RemoveErr, U!Return, task, clock
  <1>10. CASE Removed
    BY <1>10 DEF Removed, M!Removed, port, clock
  <1>11. CASE Gateway
    BY <1>11 DEF Gateway, U!Serve, U!Restart, U!program, task, clock
  <1>12. CASE Tick
    BY <1>12 DEF Tick, Punctual, U!Pass, U!Waiting, task
  <1>13. CASE UNCHANGED vars
    BY <1>13 DEF vars, task, port, clock
  <1> QED
    BY <1>1, <1>2, <1>3, <1>4, <1>5, <1>6, <1>7, <1>8, <1>9, <1>10, <1>11, <1>12,
       <1>13 DEF Next

(***************************************************************************)
(* Every step is one of Upnp, or none: when time passes, it is not too     *)
(* late for the renewal.                                                   *)
(***************************************************************************)
LEMMA UpnpStep ==
    ASSUME Periodic, DelayInv, [Next]_vars
    PROVE  [U!Next]_(U!vars)
  <1> USE DEF U!Next, U!vars
  <1>1. CASE Setup
    BY <1>1 DEF Setup
  <1>2. CASE Receive \/ Renewed \/ CloseRecv \/ RemoveReturned \/ Gateway
    BY <1>2 DEF Receive, Renewed, CloseRecv, RemoveReturned, Gateway
  <1>3. CASE Report \/ Close \/ Handle \/ Notified \/ Removed
    BY <1>3 DEF Report, Close, Handle, Notified, Removed, port
  <1>4. CASE Tick
    <2>1. ASSUME U!Adding PROVE idle < Gap
      BY <1>4, <2>1, Cycles, Multiples DEF Tick, Punctual, DelayInv
    <2>2. ASSUME status = "held", ~U!Adding PROVE idle < Gap
      <3>1. misses <= Failures /\ idle <= Attempts * Cycle + ago
        BY <1>4, <2>2 DEF Tick, DelayInv
      <3>2. CASE pc = "select"
        BY <1>4, <2>2, <3>1, <3>2, Cycles, Multiples DEF Tick, Punctual, DelayInv, Attempts
      <3>3. CASE pc # "select"
        BY <1>4, <2>2, <3>1, <3>3, Cycles, Multiples DEF Tick, Punctual, DelayInv, Attempts
      <3> QED
        BY <3>2, <3>3
    <2>3. U!Tick
      BY <1>4, <2>1, <2>2 DEF Tick, U!Tick, U!Waiting
    <2> QED
      BY <2>3
  <1>5. CASE UNCHANGED vars
    BY <1>5 DEF vars, port
  <1> QED
    BY <1>1, <1>2, <1>3, <1>4, <1>5 DEF Next

(***************************************************************************)
(* Every step is one of Mapper, or none.                                   *)
(***************************************************************************)
LEMMA MapperStep ==
    ASSUME [Next]_vars
    PROVE  [M!Next]_(M!vars)
  <1> USE DEF M!Next, M!vars
  <1>1. CASE Setup \/ Renewed \/ RemoveReturned \/ Gateway \/ Tick
    BY <1>1 DEF Setup, Renewed, RemoveReturned, Gateway, Tick, task
  <1>2. CASE Report \/ Close \/ Receive \/ Handle
    BY <1>2 DEF Report, Close, Receive, Handle
  <1>3. CASE Notified \/ CloseRecv \/ Removed
    BY <1>3 DEF Notified, CloseRecv, Removed
  <1>4. CASE UNCHANGED vars
    BY <1>4 DEF vars, task
  <1> QED
    BY <1>1, <1>2, <1>3, <1>4 DEF Next
-----------------------------------------------------------------------------
(***************************************************************************)
(* The composition implements Upnp: the longest time between two           *)
(* successful renewals, which Upnp assumes, follows from the delays.       *)
(***************************************************************************)
THEOREM Refinement ==
    ASSUME Periodic
    PROVE  Spec => ImplementsUpnp
  <1>1. Init => DelayInv /\ U!Init
    BY InitDelay DEF Init
  <1>2. DelayInv /\ [Next]_vars => DelayInv' /\ [U!Next]_(U!vars)
    BY DelayStep, UpnpStep
  <1> QED
    BY <1>1, <1>2, PTL DEF Spec, ImplementsUpnp, U!Spec

(***************************************************************************)
(* Mapping runs the actions of Mapper with conditions, so that what Mapper *)
(* never does, the task never does.  ImplementsMapper also says that the   *)
(* conditions keep the fairness of Mapper, which is left to TLC.           *)
(***************************************************************************)
LEMMA TaskRefinement == Spec => M!Init /\ [][M!Next]_(M!vars)
  <1>1. Init => M!Init
    BY DEF Init
  <1>2. [Next]_vars => [M!Next]_(M!vars)
    BY MapperStep
  <1> QED
    BY <1>1, <1>2, PTL DEF Spec

(***************************************************************************)
(* P is U with its theorems, and Q is M.                                   *)
(***************************************************************************)
LEMMA SameUpnp == (U!Init => P!Init) /\ ([U!Next]_(U!vars) => [P!Next]_(P!vars))
  BY DEF U!Init, P!Init,
         U!Tick, U!Pass, U!Waiting, U!AgeCap, U!OutageCap, U!Forever,
         U!AddPort, U!AddPermanent, U!AddOk, U!AddErr, U!RenewSkip,
         U!RenewPort, U!RenewOk, U!RenewErr, U!RemovePort, U!RemoveOk,
         U!RemoveErr, U!Serve, U!Restart, U!Grant, U!Granted, U!Delete,
         U!Adding, U!HasPortMap, U!Fresh, U!Send, U!Return, U!program,
         U!gateway, U!MAPPING_TIMEOUT, U!vars, U!Next, P!Tick, P!Pass,
         P!Waiting, P!AgeCap, P!OutageCap, P!Forever, P!AddPort,
         P!AddPermanent, P!AddOk, P!AddErr, P!RenewSkip, P!RenewPort,
         P!RenewOk, P!RenewErr, P!RemovePort, P!RemoveOk, P!RemoveErr,
         P!Serve, P!Restart, P!Grant, P!Granted, P!Delete, P!Adding,
         P!HasPortMap, P!Fresh, P!Send, P!Return, P!program, P!gateway,
         P!MAPPING_TIMEOUT, P!vars, P!Next

(***************************************************************************)
(* The same for Mapper.                                                    *)
(***************************************************************************)
LEMMA SameMapper == (M!Init => Q!Init) /\ ([M!Next]_(M!vars) => [Q!Next]_(Q!vars))
  BY DEF M!Init, Q!Init,
         M!ClientSend, M!Close, M!Recv, M!Call, M!NewAddress, M!Retry,
         M!NothingNew, M!WatcherOk, M!WatcherErr, M!CloseRecv, M!Removed,
         M!task, M!remote, M!Watchers, M!vars, M!Next, Q!ClientSend,
         Q!Close, Q!Recv, Q!Call, Q!NewAddress, Q!Retry, Q!NothingNew,
         Q!WatcherOk, Q!WatcherErr, Q!CloseRecv, Q!Removed, Q!task,
         Q!remote, Q!Watchers, Q!vars, Q!Next

(***************************************************************************)
(* The constants satisfy what the theorems of P and Q assume of them.      *)
(***************************************************************************)
LEMMA Assumptions == P!UpnpAssumption /\ Q!MapperAssumption
  BY MappingAssumption, Cycles DEF P!UpnpAssumption, P!MAPPING_TIMEOUT, Q!MapperAssumption

(***************************************************************************)
(* The port of an entry whose client goes on reporting stays mapped.       *)
(***************************************************************************)
THEOREM PortIsKept ==
    ASSUME Periodic
    PROVE  Spec => []PortStaysMapped
  <1>1. P!Spec => []P!LeaseAlive
    BY Assumptions, P!LeaseStaysAlive
  <1>2. P!LeaseAlive => PortStaysMapped
    BY DEF P!LeaseAlive, U!LeaseAlive, PortStaysMapped
  <1> QED
    BY Refinement, SameUpnp, <1>1, <1>2, PTL DEF ImplementsUpnp, U!Spec, P!Spec

(***************************************************************************)
(* Without a client that goes on reporting, time may pass while a renewal  *)
(* is overdue, but every other step is still one of Upnp, whose types and  *)
(* order of calls do not depend on time.                                   *)
(***************************************************************************)
LEMMA LooseStep == [Next]_vars => [P!Next]_(P!vars) \/ P!Pass
  <1> SUFFICES ASSUME [Next]_vars PROVE [U!Next]_(U!vars) \/ U!Pass
    BY SameUpnp DEF U!Pass, P!Pass, U!Waiting, P!Waiting, U!Adding, P!Adding,
       U!AgeCap, P!AgeCap, U!OutageCap, P!OutageCap, U!Forever, P!Forever,
       U!MAPPING_TIMEOUT, P!MAPPING_TIMEOUT
  <1> USE DEF U!Next, U!vars
  <1>1. CASE Setup
    BY <1>1 DEF Setup
  <1>2. CASE Receive \/ Renewed \/ CloseRecv \/ RemoveReturned \/ Gateway
    BY <1>2 DEF Receive, Renewed, CloseRecv, RemoveReturned, Gateway
  <1>3. CASE Report \/ Close \/ Handle \/ Notified \/ Removed
    BY <1>3 DEF Report, Close, Handle, Notified, Removed, port
  <1>4. CASE Tick
    BY <1>4 DEF Tick
  <1>5. CASE UNCHANGED vars
    BY <1>5 DEF vars, port
  <1> QED
    BY <1>1, <1>2, <1>3, <1>4, <1>5 DEF Next

(***************************************************************************)
(* What holds of the port mapping at any pace, and the clock's types.      *)
(***************************************************************************)
LooseInv ==
    /\ P!TypeOK /\ P!CallInv
    /\ ago \in 0 .. Cycle /\ misses \in 0 .. Failures + 1

LEMMA ClockStep ==
    ASSUME LooseInv, [Next]_vars
    PROVE  ago' \in 0 .. Cycle /\ misses' \in 0 .. Failures + 1
  <1> USE Cycles DEF LooseInv
  <1>1. CASE Setup \/ Report \/ Close \/ Receive \/ Renewed
    BY <1>1 DEF Setup, Report, Close, Receive, Renewed, clock
  <1>2. CASE Handle \/ Notified \/ CloseRecv \/ RemoveReturned \/ Removed \/ Gateway
    BY <1>2 DEF Handle, Notified, CloseRecv, RemoveReturned, Removed, Gateway, clock
  <1>3. CASE Tick
    BY <1>3 DEF Tick
  <1>4. CASE UNCHANGED vars
    BY <1>4 DEF vars, clock
  <1> QED
    BY <1>1, <1>2, <1>3, <1>4 DEF Next

(***************************************************************************)
(* It is an invariant of every entry.                                      *)
(***************************************************************************)
LEMMA LooseInvariance == Spec => []LooseInv
  <1>1. Init => LooseInv
    <2>1. Init => P!IInv
      BY SameUpnp, Assumptions, P!InitIInv DEF Init
    <2> QED
      BY <2>1, Cycles DEF Init, LooseInv, P!IInv
  <1>2. LooseInv /\ [Next]_vars => LooseInv'
    <2> SUFFICES ASSUME LooseInv, [Next]_vars PROVE LooseInv'
      OBVIOUS
    <2>1. CASE [P!Next]_(P!vars)
      <3>1. P!TypeOK' /\ P!CallInv'
        BY <2>1, Assumptions, P!TypeStep, P!CallStep DEF LooseInv
      <3> QED
        BY <3>1, ClockStep DEF LooseInv
    <2>2. CASE P!Pass
      <3>1. P!TypeOK' /\ P!CallInv'
        BY <2>2, Assumptions, P!PassStep DEF LooseInv
      <3> QED
        BY <3>1, ClockStep DEF LooseInv
    <2> QED
      BY <2>1, <2>2, LooseStep
  <1> QED
    BY <1>1, <1>2, PTL DEF Spec

(***************************************************************************)
(* The invariant of the task carries over.                                 *)
(***************************************************************************)
LEMMA TaskInvariance == Spec => []Q!IInv
  <1>1. Q!Init => Q!IInv
    BY Assumptions, Q!InitIInv
  <1>2. Q!IInv /\ [Q!Next]_(Q!vars) => Q!IInv'
    BY Assumptions, Q!TypeStep, Q!PrefixStep DEF Q!IInv
  <1> QED
    BY TaskRefinement, SameMapper, <1>1, <1>2, PTL

(***************************************************************************)
(* Type correctness of the task, the port mapping and the clock, whatever  *)
(* the client does.                                                        *)
(***************************************************************************)
THEOREM TypeCorrect == Spec => []TypeOK
  <1>1. Q!IInv /\ LooseInv => TypeOK
    BY DEF TypeOK, Q!IInv, LooseInv, P!TypeOK, U!TypeOK, Q!TypeOK, M!TypeOK, P!AgeCap,
           U!AgeCap, P!OutageCap, U!OutageCap, P!Forever, U!Forever,
           P!MAPPING_TIMEOUT, U!MAPPING_TIMEOUT, M!Watchers, Q!Watchers
  <1> QED
    BY LooseInvariance, TaskInvariance, <1>1, PTL

(***************************************************************************)
(* A port the gateway has confirmed to be removed stays unmapped, for a    *)
(* client of either kind and at any pace.                                  *)
(***************************************************************************)
THEOREM ReleaseIsFinal == Spec => []U!ReleasedIsUnmapped
  <1>1. LooseInv => U!ReleasedIsUnmapped
    BY DEF LooseInv, P!CallInv, U!ReleasedIsUnmapped
  <1> QED
    BY LooseInvariance, <1>1, PTL

(***************************************************************************)
(* With a client that goes on reporting, the gateway's restart costs a     *)
(* bounded outage.                                                         *)
(***************************************************************************)
THEOREM OutageIsBounded ==
    ASSUME Periodic
    PROVE  Spec => []U!OutageBounded
  <1>1. P!Spec => []P!OutageBounded
    BY Assumptions, P!OutageIsBounded
  <1>2. P!OutageBounded => U!OutageBounded
    BY DEF P!OutageBounded, U!OutageBounded, P!OutageCap, U!OutageCap,
           P!MAPPING_TIMEOUT, U!MAPPING_TIMEOUT
  <1> QED
    BY Refinement, SameUpnp, <1>1, <1>2, PTL DEF ImplementsUpnp, U!Spec, P!Spec

(***************************************************************************)
(* Slow, failed or skipped renewals do not disturb the order in which the  *)
(* watchers get the address.                                               *)
(***************************************************************************)
THEOREM PrefixIsSynced == Spec => []M!SyncedPrefix
  <1>1. Q!IInv => M!SyncedPrefix
    BY DEF Q!IInv, Q!SyncedPrefix, M!SyncedPrefix, Q!Frontier, M!Frontier,
           Q!Watchers, M!Watchers
  <1> QED
    BY TaskInvariance, <1>1, PTL
-----------------------------------------------------------------------------
(***************************************************************************)
(* How far the entry has come: the task leaves its loop when it sees the   *)
(* broadcast and not otherwise, set-up is over before it runs, and no call *)
(* is left when it has ended.                                              *)
(***************************************************************************)
LifeInv ==
    /\ closing = "seen" <=> pc \in {"remove", "done"}
    /\ pc # "select" => Started
    /\ Started => ~U!Adding
    /\ pc = "done" => call = "idle"

(***************************************************************************)
(* Every step keeps it, whatever the client does.                          *)
(***************************************************************************)
LEMMA LifeStep == LifeInv /\ [Next]_vars => LifeInv'
  <1> SUFFICES ASSUME LifeInv, [Next]_vars PROVE LifeInv'
    OBVIOUS
  <1> USE DEF LifeInv, Started, U!Adding
  <1>1. CASE Setup
    BY <1>1 DEF Setup, U!AddPort, U!AddOk, U!AddPermanent, U!AddErr, U!Send, U!Return,
                U!Adding, task
  <1>2. CASE Report
    BY <1>2 DEF Report, M!ClientSend, M!task, port
  <1>3. CASE Close
    BY <1>3 DEF Close, M!Close, M!task, port
  <1>4. CASE Receive
    <2>1. CASE U!RenewSkip
      BY <1>4, <2>1 DEF Receive, M!Recv, U!RenewSkip, U!program
    <2>2. CASE U!RenewPort
      BY <1>4, <2>2 DEF Receive, M!Recv, U!RenewPort, U!Send
    <2> QED
      BY <1>4, <2>1, <2>2 DEF Receive
  <1>5. CASE Renewed
    BY <1>5 DEF Renewed, U!RenewOk, U!RenewErr, U!Return, task
  <1>6. CASE Handle \/ Notified
    BY <1>6 DEF Handle, Notified, M!NewAddress, M!Retry, M!NothingNew, M!Call,
                M!WatcherOk, M!WatcherErr, port
  <1>7. CASE CloseRecv
    BY <1>7 DEF CloseRecv, M!CloseRecv, U!RemovePort, U!Send
  <1>8. CASE RemoveReturned
    BY <1>8 DEF RemoveReturned, U!RemoveOk, U!RemoveErr, U!Return, task
  <1>9. CASE Removed
    BY <1>9 DEF Removed, M!Removed, port
  <1>10. CASE Gateway \/ Tick
    BY <1>10 DEF Gateway, Tick, U!Serve, U!Restart, U!Pass, U!program, task
  <1>11. CASE UNCHANGED vars
    BY <1>11 DEF vars, task, port
  <1> QED
    BY <1>1, <1>2, <1>3, <1>4, <1>5, <1>6, <1>7, <1>8, <1>9, <1>10, <1>11 DEF Next

(***************************************************************************)
(* Program's view of the entry follows from where its task is.             *)
(***************************************************************************)
LEMMA ViewKept ==
    ASSUME closing' = "no" <=> closing = "no", client' = client,
           pc' \in {"remove", "done"} \/ pc \in {"remove", "done"} => pc' = pc,
           pc = "done" => status' = status
    PROVE  UNCHANGED E!vars
  BY DEF E!vars

(***************************************************************************)
(* Every step of a task that has started is one of Program's, or none.     *)
(***************************************************************************)
LEMMA EntryStep ==
    ASSUME LifeInv, [Next]_vars, Started
    PROVE  [E!Next]_(E!vars)
  <1> USE DEF LifeInv, Started
  <1>1. CASE Setup
    <2>1. ~U!Adding /\ status # "none"
      OBVIOUS
    <2> QED
      BY <1>1, <2>1 DEF Setup, U!AddPort, U!AddOk, U!AddPermanent, U!AddErr, U!Adding
  <1>2. CASE Report
    <2>1. UNCHANGED E!vars
      BY <1>2, ViewKept DEF Report, M!ClientSend, M!task, port
    <2> QED
      BY <2>1
  <1>3. CASE Close
    <2>1. closing = "no" /\ closing' = "sent" /\ pc \notin {"remove", "done"}
      BY <1>3 DEF Close, M!Close
    <2>2. UNCHANGED <<pc, client, status>>
      BY <1>3 DEF Close, M!Close, M!task, port
    <2>3. E!Signal
      BY <2>1, <2>2 DEF E!Signal, E!Receivers
    <2> QED
      BY <2>3 DEF E!Next
  <1>4. CASE Receive
    <2>1. UNCHANGED E!vars
      BY <1>4, ViewKept DEF Receive, M!Recv
    <2> QED
      BY <2>1
  <1>5. CASE Renewed
    <2>1. UNCHANGED E!vars
      BY <1>5, ViewKept DEF Renewed, U!RenewOk, U!RenewErr, task
    <2> QED
      BY <2>1
  <1>6. CASE Handle \/ Notified
    <2>1. /\ pc \in {"renew", "notify"} /\ pc' \in {"notify", "select"}
          /\ UNCHANGED <<closing, client>>
      BY <1>6 DEF Handle, Notified, M!NewAddress, M!Retry, M!NothingNew, M!Call,
                  M!WatcherOk, M!WatcherErr
    <2>2. UNCHANGED E!vars
      BY <2>1, ViewKept
    <2> QED
      BY <2>2
  <1>7. CASE CloseRecv
    <2>1. /\ closing = "sent" /\ closing' = "seen"
          /\ pc = "select" /\ pc' = "remove"
          /\ client' = client
      BY <1>7 DEF CloseRecv, M!CloseRecv
    <2>2. E!CloseRecv(1)
      BY <2>1 DEF E!CloseRecv
    <2> QED
      BY <2>2 DEF E!Next
  <1>8. CASE RemoveReturned
    <2>1. pc # "done" /\ UNCHANGED <<closing, client, pc>>
      BY <1>8 DEF RemoveReturned, U!RemoveOk, U!RemoveErr, task
    <2>2. UNCHANGED E!vars
      BY <2>1, ViewKept
    <2> QED
      BY <2>2
  <1>9. CASE Removed
    <2>1. /\ closing = "seen" /\ closing' = closing
          /\ pc = "remove" /\ pc' = "done"
          /\ client' = "closed" /\ status' = status
      BY <1>9 DEF Removed, M!Removed, port
    <2>2. E!Removed(1)
      BY <2>1 DEF E!Removed, E!Alive
    <2> QED
      BY <2>2 DEF E!Next
  <1>10. CASE Gateway \/ Tick
    <2>1. UNCHANGED <<closing, client, pc, status>>
      BY <1>10 DEF Gateway, Tick, U!Serve, U!Restart, U!Pass, U!program, task
    <2>2. UNCHANGED E!vars
      BY <2>1, ViewKept
    <2> QED
      BY <2>2
  <1>11. CASE UNCHANGED vars
    <2>1. UNCHANGED E!vars
      BY <1>11, ViewKept DEF vars, task, port
    <2> QED
      BY <2>1
  <1> QED
    BY <1>1, <1>2, <1>3, <1>4, <1>5, <1>6, <1>7, <1>8, <1>9, <1>10, <1>11 DEF Next

(***************************************************************************)
(* From its start to its end, the task goes the way Program has for one    *)
(* entry: remove_port is awaited before the client is closed, once, and    *)
(* nothing happens to the port mapping after that.                         *)
(***************************************************************************)
THEOREM EntryRefinement == Spec => ImplementsEntry
  <1>1. Init => LifeInv
    BY DEF Init, M!Init, U!Init, U!Adding, LifeInv, Started
  <1>2. LifeInv /\ [Next]_vars => LifeInv'
    BY LifeStep
  <1>3. LifeInv /\ [Next]_vars => [Started => [E!Next]_(E!vars)]_vars
    BY EntryStep
  <1> QED
    BY <1>1, <1>2, <1>3, PTL DEF Spec, ImplementsEntry
=============================================================================
