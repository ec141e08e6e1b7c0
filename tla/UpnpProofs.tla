----------------------------- MODULE UpnpProofs -----------------------------
(***************************************************************************)
(* The invariants of Upnp for every lease duration and every gap between   *)
(* renewals that UpnpAssumption admits.                                    *)
(***************************************************************************)
EXTENDS Upnp, TLAPS

(***************************************************************************)
(* A mapping the program holds is old by at most what renew_port lets pass *)
(* (MAPPING_TIMEOUT - 1) and the time since its last success.              *)
(***************************************************************************)
AgeInv == status = "held" => age < MAPPING_TIMEOUT + idle

(***************************************************************************)
(* The lease started at most MaxGap before the timestamp was taken; one    *)
(* whose answer is still on its way is no older than the wait for it.      *)
(***************************************************************************)
LeaseInv ==
    lease # "lost" =>
      /\ status = "held" => left + age + MaxGap >= MAPPING_DURATION
      /\ Waiting /\ request = "served" => left + idle >= MAPPING_DURATION

(***************************************************************************)
(* The same for the time since the gateway lost the mapping.               *)
(***************************************************************************)
OutageInv ==
    lease = "lost" =>
      /\ status = "held" => outage <= age + MaxGap
      /\ Waiting /\ request = "served" => outage <= idle

(***************************************************************************)
(* Each method runs on the PortMap it needs, and a removal that is served, *)
(* or confirmed, leaves no lease.                                          *)
(***************************************************************************)
CallInv ==
    /\ Adding => status = "none"
    /\ call = "renew" => status \in {"held", "closing"}
    /\ call = "remove" => status \in {"closing", "released"}
    /\ call = "remove" /\ request = "served" => left = 0
    /\ status = "released" => left = 0 /\ call \in {"idle", "remove"}
    /\ request = "none" <=> call = "idle"

IInv == TypeOK /\ AgeInv /\ LeaseInv /\ OutageInv /\ CallInv
-----------------------------------------------------------------------------
(***************************************************************************)
(* The renewal age is positive and leaves room for two gaps: all that      *)
(* the proofs below use of MAPPING_DURATION \div 2.                        *)
(***************************************************************************)
LEMMA Durations ==
    /\ MAPPING_DURATION \in Nat
    /\ MaxGap \in Nat \ {0}
    /\ MAPPING_TIMEOUT \in Nat \ {0}
    /\ MAPPING_TIMEOUT + 2 * MaxGap <= MAPPING_DURATION
  BY UpnpAssumption DEF MAPPING_TIMEOUT

(***************************************************************************)
(* The initial states satisfy the invariant.                               *)
(***************************************************************************)
LEMMA InitIInv == Init => IInv
  <1> SUFFICES ASSUME Init PROVE IInv
    OBVIOUS
  <1> USE Durations DEF Init
  <1>1. TypeOK
    BY DEF TypeOK, AgeCap, OutageCap, Forever
  <1>2. AgeInv /\ LeaseInv /\ OutageInv /\ CallInv
    BY DEF AgeInv, LeaseInv, OutageInv, CallInv, Waiting, Adding
  <1> QED
    BY <1>1, <1>2 DEF IInv

(***************************************************************************)
(* Every variable keeps its type.                                          *)
(***************************************************************************)
LEMMA TypeStep == TypeOK /\ [Next]_vars => TypeOK'
  <1> SUFFICES ASSUME TypeOK, [Next]_vars PROVE TypeOK'
    OBVIOUS
  <1> USE Durations DEF TypeOK, Waiting, Adding, AgeCap, OutageCap, Forever
  <1>1. CASE AddPort
    BY <1>1 DEF AddPort, Send, gateway
  <1>2. CASE AddPermanent
    BY <1>2 DEF AddPermanent, Send, gateway
  <1>3. CASE AddOk
    BY <1>3 DEF AddOk, Return, gateway
  <1>4. CASE AddErr
    BY <1>4 DEF AddErr, Return, gateway
  <1>5. CASE RenewSkip
    BY <1>5 DEF RenewSkip, HasPortMap, Fresh, program, gateway
  <1>6. CASE RenewPort
    BY <1>6 DEF RenewPort, Send, HasPortMap, Fresh, gateway
  <1>7. CASE RenewOk
    BY <1>7 DEF RenewOk, Return, gateway
  <1>8. CASE RenewErr
    BY <1>8 DEF RenewErr, Return, gateway
  <1>9. CASE RemovePort
    BY <1>9 DEF RemovePort, Send, HasPortMap, gateway
  <1>10. CASE RemoveOk
    BY <1>10 DEF RemoveOk, Return, gateway
  <1>11. CASE RemoveErr
    BY <1>11 DEF RemoveErr, Return, gateway
  <1>12. CASE Serve
    BY <1>12 DEF Serve, Grant, Granted, Delete, program
  <1>13. CASE Restart
    BY <1>13 DEF Restart, program
  <1>14. CASE Tick
    BY <1>14 DEF Tick, Pass
  <1>15. CASE UNCHANGED vars
    BY <1>15 DEF vars
  <1> QED
    BY <1>1, <1>2, <1>3, <1>4, <1>5, <1>6, <1>7, <1>8, <1>9, <1>10, <1>11,
       <1>12, <1>13, <1>14, <1>15 DEF Next

(***************************************************************************)
(* Types and the order of the calls do not depend on how late a renewal    *)
(* is: time may pass beyond MaxGap.                                        *)
(***************************************************************************)
LEMMA PassStep == TypeOK /\ CallInv /\ Pass => TypeOK' /\ CallInv'
  <1> SUFFICES ASSUME TypeOK, CallInv, Pass PROVE TypeOK' /\ CallInv'
    OBVIOUS
  <1> USE Durations DEF Adding, AgeCap, OutageCap, Forever, Pass
  <1>1. TypeOK'
    BY DEF TypeOK
  <1>2. CallInv'
    BY DEF TypeOK, CallInv
  <1> QED
    BY <1>1, <1>2

(***************************************************************************)
(* Calls stay exclusive, and a removed port stays removed.                 *)
(***************************************************************************)
LEMMA CallStep == TypeOK /\ CallInv /\ [Next]_vars => CallInv'
  <1> SUFFICES ASSUME TypeOK, CallInv, [Next]_vars PROVE CallInv'
    OBVIOUS
  <1> USE Durations DEF TypeOK, CallInv, Adding, Forever
  <1>1. CASE AddPort
    BY <1>1 DEF AddPort, Send, gateway
  <1>2. CASE AddPermanent
    BY <1>2 DEF AddPermanent, Send, gateway
  <1>3. CASE AddOk
    BY <1>3 DEF AddOk, Return, gateway
  <1>4. CASE AddErr
    BY <1>4 DEF AddErr, Return, gateway
  <1>5. CASE RenewSkip
    BY <1>5 DEF RenewSkip, HasPortMap, Fresh, program, gateway
  <1>6. CASE RenewPort
    BY <1>6 DEF RenewPort, Send, HasPortMap, Fresh, gateway
  <1>7. CASE RenewOk
    BY <1>7 DEF RenewOk, Return, gateway
  <1>8. CASE RenewErr
    BY <1>8 DEF RenewErr, Return, gateway
  <1>9. CASE RemovePort
    BY <1>9 DEF RemovePort, Send, HasPortMap, gateway
  <1>10. CASE RemoveOk
    BY <1>10 DEF RemoveOk, Return, gateway
  <1>11. CASE RemoveErr
    BY <1>11 DEF RemoveErr, Return, gateway
  <1>12. CASE Serve
    BY <1>12 DEF Serve, Grant, Granted, Delete, program
  <1>13. CASE Restart
    BY <1>13 DEF Restart, program
  <1>14. CASE Tick
    BY <1>14 DEF Tick, Pass
  <1>15. CASE UNCHANGED vars
    BY <1>15 DEF vars
  <1> QED
    BY <1>1, <1>2, <1>3, <1>4, <1>5, <1>6, <1>7, <1>8, <1>9, <1>10, <1>11,
       <1>12, <1>13, <1>14, <1>15 DEF Next

(***************************************************************************)
(* The timestamp ages by at most the wait for the next success.            *)
(***************************************************************************)
LEMMA AgeStep == TypeOK /\ CallInv /\ AgeInv /\ [Next]_vars => AgeInv'
  <1> SUFFICES ASSUME TypeOK, CallInv, AgeInv, [Next]_vars PROVE AgeInv'
    OBVIOUS
  <1> USE Durations DEF TypeOK, CallInv, AgeInv, Waiting, Adding, AgeCap
  <1>1. CASE AddPort
    BY <1>1 DEF AddPort, Send, gateway
  <1>2. CASE AddPermanent
    BY <1>2 DEF AddPermanent, Send, gateway
  <1>3. CASE AddOk
    BY <1>3 DEF AddOk, Return, gateway
  <1>4. CASE AddErr
    BY <1>4 DEF AddErr, Return, gateway
  <1>5. CASE RenewSkip
    BY <1>5 DEF RenewSkip, HasPortMap, Fresh, program, gateway
  <1>6. CASE RenewPort
    BY <1>6 DEF RenewPort, Send, HasPortMap, Fresh, gateway
  <1>7. CASE RenewOk
    BY <1>7 DEF RenewOk, Return, gateway
  <1>8. CASE RenewErr
    BY <1>8 DEF RenewErr, Return, gateway
  <1>9. CASE RemovePort
    BY <1>9 DEF RemovePort, Send, HasPortMap, gateway
  <1>10. CASE RemoveOk
    BY <1>10 DEF RemoveOk, Return, gateway
  <1>11. CASE RemoveErr
    BY <1>11 DEF RemoveErr, Return, gateway
  <1>12. CASE Serve
    BY <1>12 DEF Serve, Grant, Granted, Delete, program
  <1>13. CASE Restart
    BY <1>13 DEF Restart, program
  <1>14. CASE Tick
    BY <1>14 DEF Tick, Pass
  <1>15. CASE UNCHANGED vars
    BY <1>15 DEF vars
  <1> QED
    BY <1>1, <1>2, <1>3, <1>4, <1>5, <1>6, <1>7, <1>8, <1>9, <1>10, <1>11,
       <1>12, <1>13, <1>14, <1>15 DEF Next

(***************************************************************************)
(* The lease is never much older than the timestamp.                       *)
(***************************************************************************)
LEMMA LeaseStep == TypeOK /\ CallInv /\ AgeInv /\ LeaseInv /\ [Next]_vars => LeaseInv'
  <1> SUFFICES ASSUME TypeOK, CallInv, AgeInv, LeaseInv, [Next]_vars PROVE LeaseInv'
    OBVIOUS
  <1> USE Durations DEF TypeOK, CallInv, AgeInv, LeaseInv, Waiting, Adding, AgeCap, Forever
  <1>1. CASE AddPort
    BY <1>1 DEF AddPort, Send, gateway
  <1>2. CASE AddPermanent
    BY <1>2 DEF AddPermanent, Send, gateway
  <1>3. CASE AddOk
    BY <1>3 DEF AddOk, Return, gateway
  <1>4. CASE AddErr
    BY <1>4 DEF AddErr, Return, gateway
  <1>5. CASE RenewSkip
    BY <1>5 DEF RenewSkip, HasPortMap, Fresh, program, gateway
  <1>6. CASE RenewPort
    BY <1>6 DEF RenewPort, Send, HasPortMap, Fresh, gateway
  <1>7. CASE RenewOk
    BY <1>7 DEF RenewOk, Return, gateway
  <1>8. CASE RenewErr
    BY <1>8 DEF RenewErr, Return, gateway
  <1>9. CASE RemovePort
    BY <1>9 DEF RemovePort, Send, HasPortMap, gateway
  <1>10. CASE RemoveOk
    BY <1>10 DEF RemoveOk, Return, gateway
  <1>11. CASE RemoveErr
    BY <1>11 DEF RemoveErr, Return, gateway
  <1>12. CASE Serve
    BY <1>12 DEF Serve, Grant, Granted, Delete, program
  <1>13. CASE Restart
    BY <1>13 DEF Restart, program
  <1>14. CASE Tick
    BY <1>14 DEF Tick, Pass
  <1>15. CASE UNCHANGED vars
    BY <1>15 DEF vars
  <1> QED
    BY <1>1, <1>2, <1>3, <1>4, <1>5, <1>6, <1>7, <1>8, <1>9, <1>10, <1>11,
       <1>12, <1>13, <1>14, <1>15 DEF Next

(***************************************************************************)
(* An outage is never much older than the timestamp.                       *)
(***************************************************************************)
LEMMA OutageStep == TypeOK /\ CallInv /\ AgeInv /\ OutageInv /\ [Next]_vars => OutageInv'
  <1> SUFFICES ASSUME TypeOK, CallInv, AgeInv, OutageInv, [Next]_vars PROVE OutageInv'
    OBVIOUS
  <1> USE Durations DEF TypeOK, CallInv, AgeInv, OutageInv, Waiting, Adding, AgeCap, OutageCap
  <1>1. CASE AddPort
    BY <1>1 DEF AddPort, Send, gateway
  <1>2. CASE AddPermanent
    BY <1>2 DEF AddPermanent, Send, gateway
  <1>3. CASE AddOk
    BY <1>3 DEF AddOk, Return, gateway
  <1>4. CASE AddErr
    BY <1>4 DEF AddErr, Return, gateway
  <1>5. CASE RenewSkip
    BY <1>5 DEF RenewSkip, HasPortMap, Fresh, program, gateway
  <1>6. CASE RenewPort
    BY <1>6 DEF RenewPort, Send, HasPortMap, Fresh, gateway
  <1>7. CASE RenewOk
    BY <1>7 DEF RenewOk, Return, gateway
  <1>8. CASE RenewErr
    BY <1>8 DEF RenewErr, Return, gateway
  <1>9. CASE RemovePort
    BY <1>9 DEF RemovePort, Send, HasPortMap, gateway
  <1>10. CASE RemoveOk
    BY <1>10 DEF RemoveOk, Return, gateway
  <1>11. CASE RemoveErr
    BY <1>11 DEF RemoveErr, Return, gateway
  <1>12. CASE Serve
    BY <1>12 DEF Serve, Grant, Granted, Delete, program
  <1>13. CASE Restart
    BY <1>13 DEF Restart, program
  <1>14. CASE Tick
    BY <1>14 DEF Tick, Pass
  <1>15. CASE UNCHANGED vars
    BY <1>15 DEF vars
  <1> QED
    BY <1>1, <1>2, <1>3, <1>4, <1>5, <1>6, <1>7, <1>8, <1>9, <1>10, <1>11,
       <1>12, <1>13, <1>14, <1>15 DEF Next

(***************************************************************************)
(* The inductive invariant holds in every reachable state.                 *)
(***************************************************************************)
THEOREM Invariance == Spec => []IInv
  <1>1. IInv /\ [Next]_vars => IInv'
    BY TypeStep, CallStep, AgeStep, LeaseStep, OutageStep DEF IInv
  <1> QED
    BY InitIInv, <1>1, PTL DEF Spec

(***************************************************************************)
(* Type correctness of the port mapping and of the gateway's lease.        *)
(***************************************************************************)
THEOREM TypeCorrect == Spec => []TypeOK
  <1>1. IInv => TypeOK
    BY DEF IInv
  <1> QED
    BY Invariance, <1>1, PTL

(***************************************************************************)
(* However the requests of add_port and renew_port are delayed, repeated   *)
(* or lost, time alone never unmaps a port in use.                         *)
(***************************************************************************)
THEOREM LeaseStaysAlive == Spec => []LeaseAlive
  <1>1. IInv => LeaseAlive
    <2> SUFFICES ASSUME IInv, status = "held", lease # "lost" PROVE left > 0
      BY DEF LeaseAlive
    <2>1. age < MAPPING_TIMEOUT + idle /\ idle <= MaxGap
      BY Durations DEF IInv, TypeOK, AgeInv, AgeCap
    <2>2. left + age + MaxGap >= MAPPING_DURATION
      BY DEF IInv, LeaseInv
    <2> QED
      BY <2>1, <2>2, Durations DEF IInv, TypeOK, AgeCap, Forever
  <1> QED
    BY Invariance, <1>1, PTL

(***************************************************************************)
(* A mapping the gateway lost is back within OutageCap.                    *)
(***************************************************************************)
THEOREM OutageIsBounded == Spec => []OutageBounded
  <1>1. IInv => OutageBounded
    <2> SUFFICES ASSUME IInv, status = "held", lease = "lost" PROVE outage < OutageCap
      BY DEF OutageBounded
    <2>1. age < MAPPING_TIMEOUT + idle /\ idle <= MaxGap
      BY Durations DEF IInv, TypeOK, AgeInv, AgeCap
    <2>2. outage <= age + MaxGap
      BY DEF IInv, OutageInv
    <2> QED
      BY <2>1, <2>2, Durations DEF IInv, TypeOK, AgeCap, OutageCap
  <1> QED
    BY Invariance, <1>1, PTL

(***************************************************************************)
(* After remove_port has succeeded the port is never mapped again.         *)
(***************************************************************************)
THEOREM ReleaseIsFinal == Spec => []ReleasedIsUnmapped
  <1>1. IInv => ReleasedIsUnmapped
    BY DEF IInv, CallInv, ReleasedIsUnmapped
  <1> QED
    BY Invariance, <1>1, PTL
=============================================================================
