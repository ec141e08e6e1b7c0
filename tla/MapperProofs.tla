---------------------------- MODULE MapperProofs ----------------------------
(***************************************************************************)
(* SyncedPrefix of Mapper for any number of watchers and any addresses.    *)
(***************************************************************************)
EXTENDS Mapper, TLAPS

(***************************************************************************)
(* While the watchers are called, the address they are called with is the  *)
(* public one and no failure is pending; a report is an address, and       *)
(* before the first one nothing has failed.                                *)
(***************************************************************************)
CallInv ==
    /\ pc = "notify" => addr = public /\ failed = -1 /\ next \in Watchers
    /\ pc \in {"renew", "notify"} => addr # None
    /\ public = None => failed = -1 /\ pc # "notify"

IInv == TypeOK /\ CallInv /\ SyncedPrefix
-----------------------------------------------------------------------------
(***************************************************************************)
(* The initial states satisfy the invariant.                               *)
(***************************************************************************)
LEMMA InitIInv == Init => IInv
  <1> SUFFICES ASSUME Init PROVE IInv
    OBVIOUS
  <1>1. TypeOK
    BY MapperAssumption DEF Init, TypeOK, Watchers
  <1>2. CallInv /\ SyncedPrefix
    BY DEF Init, CallInv, SyncedPrefix
  <1> QED
    BY <1>1, <1>2 DEF IInv

(***************************************************************************)
(* Calling watcher w, if there is one, keeps the types of what it sets.    *)
(***************************************************************************)
LEMMA CallType ==
  ASSUME TypeOK, addr' \in Addrs \cup {None}, NEW w \in 0 .. N, Call(w)
  PROVE  /\ pc' \in {"notify", "select"}
         /\ next' \in 0 .. N
         /\ notified' \in [Watchers -> Addrs \cup {None}]
         /\ pc' = "notify" => next' \in Watchers
  BY MapperAssumption DEF TypeOK, Call, Watchers

(***************************************************************************)
(* Every variable keeps its type, and the calls keep to the public address.*)
(***************************************************************************)
LEMMA TypeStep == TypeOK /\ CallInv /\ [Next]_vars => TypeOK' /\ CallInv'
  <1> SUFFICES ASSUME TypeOK, CallInv, [Next]_vars PROVE TypeOK' /\ CallInv'
    OBVIOUS
  <1> USE MapperAssumption DEF TypeOK, CallInv, task, remote
  <1>1. ASSUME NEW a \in Addrs, ClientSend(a) PROVE TypeOK' /\ CallInv'
    BY <1>1 DEF ClientSend
  <1>2. CASE Close
    BY <1>2 DEF Close
  <1>3. CASE Recv
    BY <1>3 DEF Recv
  <1>4. CASE NewAddress
    <2>1. addr' \in Addrs \cup {None} /\ Call(0) /\ 0 \in 0 .. N
      BY <1>4 DEF NewAddress
    <2>2. /\ pc' \in {"notify", "select"}
          /\ next' \in 0 .. N
          /\ notified' \in [Watchers -> Addrs \cup {None}]
          /\ pc' = "notify" => next' \in Watchers
      BY <2>1, CallType
    <2> QED
      BY <1>4, <2>2 DEF NewAddress
  <1>5. CASE Retry
    <2>1. addr' \in Addrs \cup {None} /\ Call(failed) /\ failed \in 0 .. N
      BY <1>5 DEF Retry, Watchers
    <2>2. /\ pc' \in {"notify", "select"}
          /\ next' \in 0 .. N
          /\ notified' \in [Watchers -> Addrs \cup {None}]
          /\ pc' = "notify" => next' \in Watchers
      BY <2>1, CallType
    <2> QED
      BY <1>5, <2>2 DEF Retry
  <1>6. CASE NothingNew
    BY <1>6 DEF NothingNew
  <1>7. CASE WatcherOk
    <2>1. addr' \in Addrs \cup {None} /\ Call(next + 1) /\ next + 1 \in 0 .. N
      BY <1>7 DEF WatcherOk, Watchers
    <2>2. /\ pc' \in {"notify", "select"}
          /\ next' \in 0 .. N
          /\ notified' \in [Watchers -> Addrs \cup {None}]
          /\ pc' = "notify" => next' \in Watchers
      BY <2>1, CallType
    <2> QED
      BY <1>7, <2>2 DEF WatcherOk
  <1>8. CASE WatcherErr
    BY <1>8 DEF WatcherErr
  <1>9. CASE CloseRecv
    BY <1>9 DEF CloseRecv
  <1>10. CASE Removed
    BY <1>10 DEF Removed
  <1>11. CASE UNCHANGED vars
    BY <1>11 DEF vars
  <1> QED
    BY <1>1, <1>2, <1>3, <1>4, <1>5, <1>6, <1>7, <1>8, <1>9, <1>10, <1>11 DEF Next

(***************************************************************************)
(* No step loses a watcher that was known to have the public address.      *)
(***************************************************************************)
LEMMA PrefixStep == IInv /\ [Next]_vars => SyncedPrefix'
  <1> SUFFICES ASSUME IInv, [Next]_vars,
                      public' # None, NEW w \in Watchers, w < Frontier'
               PROVE  record'[w] = public'
    BY DEF SyncedPrefix
  <1> USE MapperAssumption
      DEF IInv, TypeOK, CallInv, SyncedPrefix, Frontier, Watchers, task, remote
  <1>1. ASSUME NEW a \in Addrs, ClientSend(a) PROVE record'[w] = public'
    BY <1>1 DEF ClientSend
  <1>2. CASE Close
    BY <1>2 DEF Close
  <1>3. CASE Recv
    BY <1>3 DEF Recv
  <1>4. CASE NewAddress
    BY <1>4 DEF NewAddress, Call
  <1>5. CASE Retry
    BY <1>5 DEF Retry, Call
  <1>6. CASE NothingNew
    BY <1>6 DEF NothingNew
  <1>7. CASE WatcherOk
    <2>1. CASE w = next
      BY <1>7, <2>1 DEF WatcherOk
    <2>2. CASE w # next
      BY <1>7, <2>2 DEF WatcherOk, Call
    <2> QED
      BY <2>1, <2>2
  <1>8. CASE WatcherErr
    BY <1>8 DEF WatcherErr
  <1>9. CASE CloseRecv
    BY <1>9 DEF CloseRecv
  <1>10. CASE Removed
    BY <1>10 DEF Removed
  <1>11. CASE UNCHANGED vars
    BY <1>11 DEF vars
  <1> QED
    BY <1>1, <1>2, <1>3, <1>4, <1>5, <1>6, <1>7, <1>8, <1>9, <1>10, <1>11 DEF Next

(***************************************************************************)
(* The inductive invariant holds in every reachable state.                 *)
(***************************************************************************)
THEOREM Invariance == Spec => []IInv
  <1>1. IInv /\ [Next]_vars => IInv'
    BY TypeStep, PrefixStep DEF IInv
  <1> QED
    BY InitIInv, <1>1, PTL DEF Spec, ScheduledSpec

(***************************************************************************)
(* Type correctness of the mapper task.                                    *)
(***************************************************************************)
THEOREM TypeCorrect == Spec => []TypeOK
  <1>1. IInv => TypeOK
    BY DEF IInv
  <1> QED
    BY Invariance, <1>1, PTL

(***************************************************************************)
(* Whatever reports, failures and changes of address interleave, the       *)
(* watchers before the point where the task resumes are up to date.        *)
(***************************************************************************)
THEOREM PrefixIsSynced == Spec => []SyncedPrefix
  <1>1. IInv => SyncedPrefix
    BY DEF IInv
  <1> QED
    BY Invariance, <1>1, PTL
-----------------------------------------------------------------------------
(***************************************************************************)
(* No step that keeps the address moves the frontier back.                 *)
(***************************************************************************)
LEMMA FrontierStep == IInv /\ [Next]_vars => (public' = public => Frontier' >= Frontier)
  <1> SUFFICES ASSUME IInv, [Next]_vars, public' = public PROVE Frontier' >= Frontier
    OBVIOUS
  <1> USE MapperAssumption DEF IInv, TypeOK, CallInv, Frontier, Watchers, task
  <1>1. ASSUME NEW a \in Addrs, ClientSend(a) PROVE Frontier' >= Frontier
    BY <1>1 DEF ClientSend
  <1>2. CASE Close \/ Recv \/ NothingNew \/ CloseRecv \/ Removed
    BY <1>2 DEF Close, Recv, NothingNew, CloseRecv, Removed
  <1>3. CASE NewAddress
    BY <1>3 DEF NewAddress
  <1>4. CASE Retry
    BY <1>4 DEF Retry, Call
  <1>5. CASE WatcherOk
    BY <1>5 DEF WatcherOk, Call
  <1>6. CASE WatcherErr
    BY <1>6 DEF WatcherErr
  <1>7. CASE UNCHANGED vars
    BY <1>7 DEF vars
  <1> QED
    BY <1>1, <1>2, <1>3, <1>4, <1>5, <1>6, <1>7 DEF Next

(***************************************************************************)
(* A retry resumes with the watcher that failed and never calls one before *)
(* it with an address it has, for any number of watchers.                  *)
(***************************************************************************)
THEOREM GroundIsKept == Spec => NoGroundLost
  <1>1. IInv /\ [Next]_vars => [public' = public => Frontier' >= Frontier]_vars
    BY FrontierStep
  <1> QED
    BY <1>1, Invariance, PTL DEF Spec, ScheduledSpec, NoGroundLost
=============================================================================
