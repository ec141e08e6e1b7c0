--------------------------- MODULE ProgramProofs ---------------------------
(***************************************************************************)
(* An orderly exit is a clean one, for any entries.                        *)
(***************************************************************************)
EXTENDS Program, TLAPS

(***************************************************************************)
(* A task that is done has cleaned up, and the program has exited only     *)
(* when every task has ended.                                              *)
(***************************************************************************)
DoneInv ==
    \A e \in Entries :
        task[e] = "done" => port[e] # "mapped" /\ client[e] = "closed"

JoinedInv == stage = "exited" => \A e \in Entries : task[e] \in {"done", "panicked"}

IInv == TypeOK /\ DoneInv /\ JoinedInv
-----------------------------------------------------------------------------
(***************************************************************************)
(* The initial states satisfy the invariant.                               *)
(***************************************************************************)
LEMMA InitIInv == Init => IInv
  BY DEF Init, IInv, TypeOK, DoneInv, JoinedInv

(***************************************************************************)
(* Every step of the program keeps the invariant.                          *)
(***************************************************************************)
LEMMA Step == IInv /\ [Next]_vars => IInv'
  <1> SUFFICES ASSUME IInv, [Next]_vars PROVE IInv'
    OBVIOUS
  <1> USE DEF IInv, TypeOK, DoneInv, JoinedInv
  <1>1. ASSUME NEW e \in Entries, Check(e) PROVE IInv'
    BY <1>1 DEF Check, BetweenEntries
  <1>2. ASSUME NEW e \in Entries, AddPortOk(e) PROVE IInv'
    BY <1>2 DEF AddPortOk
  <1>3. ASSUME NEW e \in Entries, AddPortErr(e) PROVE IInv'
    BY <1>3 DEF AddPortErr
  <1>4. ASSUME NEW e \in Entries, BuildOk(e) PROVE IInv'
    BY <1>4 DEF BuildOk
  <1>5. ASSUME NEW e \in Entries, Panic(e) PROVE IInv'
    BY <1>5 DEF Panic, Alive
  <1>6. ASSUME NEW e \in Entries, CloseRecv(e) PROVE IInv'
    BY <1>6 DEF CloseRecv
  <1>7. ASSUME NEW e \in Entries, Removed(e) PROVE IInv'
    <2> USE <1>7 DEF Removed, Alive
    <2>1. CASE port[e] = "mapped"
      BY <2>1
    <2>2. CASE port[e] # "mapped"
      BY <2>2
    <2> QED
      BY <2>1, <2>2
  <1>8. CASE SetupErr \/ SetupOk
    BY <1>8 DEF SetupErr, SetupOk
  <1>9. CASE Signal \/ SignalErr
    BY <1>9 DEF Signal, SignalErr
  <1>10. CASE Exit \/ Kill
    BY <1>10 DEF Exit, Kill
  <1>11. CASE UNCHANGED vars
    BY <1>11 DEF vars
  <1> QED
    BY <1>1, <1>2, <1>3, <1>4, <1>5, <1>6, <1>7, <1>8, <1>9, <1>10, <1>11 DEF Next

(***************************************************************************)
(* The invariant holds in every reachable state.                           *)
(***************************************************************************)
THEOREM Invariance == Spec => []IInv
  BY InitIInv, Step, PTL DEF Spec

(***************************************************************************)
(* The variables have the types declared for them.                         *)
(***************************************************************************)
THEOREM TypeCorrect == Spec => []TypeOK
  <1>1. IInv => TypeOK
    BY DEF IInv
  <1> QED
    BY <1>1, Invariance, PTL

(***************************************************************************)
(* Whatever panicked or failed, a program that has exited in order leaves  *)
(* behind only what the gateway or a panic kept it from removing.          *)
(***************************************************************************)
THEOREM ExitIsClean == Spec => []CleanExit
  <1>1. IInv => CleanExit
    BY DEF IInv, DoneInv, JoinedInv, CleanExit
  <1> QED
    BY <1>1, Invariance, PTL
=============================================================================
