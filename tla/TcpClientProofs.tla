-------------------------- MODULE TcpClientProofs --------------------------
(***************************************************************************)
(* The TCP client implements AddressFeed, for any addresses, any number of *)
(* STUN servers and any of them silent.                                    *)
(***************************************************************************)
EXTENDS TcpClient, TLAPS

(***************************************************************************)
(* On a connection, everything on its way to the callback was measured on  *)
(* that connection: what the STUN task has found, what addr_rx holds and   *)
(* what the worker is sending.                                             *)
(***************************************************************************)
EpochInv ==
    /\ wpc \in {"loop", "send"} =>
         /\ unseen \in measured \cup {None}
         /\ spc = "answered" => found \in measured
    /\ wpc = "send" => mapped \in measured

(***************************************************************************)
(* Between connections the reset message stops the STUN task: when the     *)
(* worker connects, no measurement is in progress, and while it has a      *)
(* connection no reset is left to come.                                    *)
(***************************************************************************)
IdleInv ==
    /\ wpc = "connect" \/ (wpc = "sleep" /\ ~resetQ) => spc = "wait" /\ ~stunDue
    /\ wpc \in {"connect", "loop", "send"} => ~resetQ

IInv == TypeOK /\ EpochInv /\ IdleInv
-----------------------------------------------------------------------------
(***************************************************************************)
(* The initial states satisfy the invariant.                               *)
(***************************************************************************)
LEMMA InitIInv == Init => IInv
  <1> SUFFICES ASSUME Init PROVE IInv
    OBVIOUS
  <1>1. FlagsOK
    BY DEF Init, FlagsOK
  <1>2. TypeOK
    BY <1>1, TcpAssumption DEF Init, TypeOK, Servers
  <1>3. EpochInv /\ IdleInv
    BY DEF Init, EpochInv, IdleInv
  <1> QED
    BY <1>2, <1>3 DEF IInv

(***************************************************************************)
(* The round-robin index stays within the list of servers.                 *)
(***************************************************************************)
LEMMA IndexInRange == ASSUME NEW k \in Servers PROVE (k + 1) % S \in Servers
  BY TcpAssumption DEF Servers

(***************************************************************************)
(* The flags stay TRUE or FALSE.                                           *)
(***************************************************************************)
LEMMA FlagStep == FlagsOK /\ [Next]_vars => FlagsOK'
  <1> SUFFICES ASSUME FlagsOK, [Next]_vars PROVE FlagsOK'
    OBVIOUS
  <1> USE DEF FlagsOK, http
  <1>1. CASE ConnectOk
    BY <1>1 DEF ConnectOk
  <1>2. CASE ConnectErr
    BY <1>2 DEF ConnectErr
  <1>3. CASE Read
    BY <1>3 DEF Read
  <1>4. CASE ReadEnd
    BY <1>4 DEF ReadEnd, Break, Drop
  <1>5. CASE KeepAlive
    BY <1>5 DEF KeepAlive
  <1>6. CASE WriteErr
    BY <1>6 DEF WriteErr, Break, Drop
  <1>7. CASE TimedOut
    BY <1>7 DEF TimedOut, Break, Drop
  <1>8. CASE StunTick
    BY <1>8 DEF StunTick
  <1>9. CASE FirstAddress
    BY <1>9 DEF FirstAddress
  <1>10. CASE SameAddress
    BY <1>10 DEF SameAddress
  <1>11. CASE OtherAddress
    BY <1>11 DEF OtherAddress, Break, Drop
  <1>12. CASE SendOk
    BY <1>12 DEF SendOk
  <1>13. CASE SendErr
    BY <1>13 DEF SendErr, Drop
  <1>14. CASE Reset
    BY <1>14 DEF Reset
  <1>15. CASE Wake
    BY <1>15 DEF Wake
  <1>16. CASE StartQuery
    BY <1>16 DEF StartQuery
  <1>17. CASE QueryOk
    BY <1>17 DEF QueryOk, Idle, NextServer
  <1>18. CASE QueryErr
    BY <1>18 DEF QueryErr, Idle, NextServer
  <1>19. CASE ResetRecv
    BY <1>19 DEF ResetRecv, Idle
  <1>20. CASE StunEnd
    BY <1>20 DEF StunEnd
  <1>21. CASE Observe
    BY <1>21 DEF Observe
  <1>22. CASE Respond
    BY <1>22 DEF Respond
  <1>23. CASE Disconnect
    BY <1>23 DEF Disconnect
  <1>24. CASE Remap
    BY <1>24 DEF Remap
  <1>25. CASE CalmDown
    BY <1>25 DEF CalmDown
  <1>26. CASE Take
    BY <1>26 DEF Take
  <1>27. CASE Close
    BY <1>27 DEF Close, Drop
  <1>28. CASE MapperGone
    BY <1>28 DEF MapperGone
  <1>29. CASE UNCHANGED vars
    BY <1>29 DEF vars
  <1> QED
    BY <1>1, <1>2, <1>3, <1>4, <1>5, <1>6, <1>7, <1>8, <1>9, <1>10, <1>11,
       <1>12, <1>13, <1>14, <1>15, <1>16, <1>17, <1>18, <1>19, <1>20,
       <1>21, <1>22, <1>23, <1>24, <1>25, <1>26, <1>27, <1>28, <1>29 DEF
       Next, Worker, StunTask, Peers

(***************************************************************************)
(* Every variable keeps its type.                                          *)
(***************************************************************************)
LEMMA TypeStep == TypeOK /\ [Next]_vars => TypeOK'
  <1> SUFFICES ASSUME TypeOK, [Next]_vars PROVE TypeOK'
    OBVIOUS
  <1>a. FlagsOK'
    BY FlagStep DEF TypeOK
  <1> USE <1>a DEF TypeOK, http, stun, world
  <1>1. CASE ConnectOk
    BY <1>1 DEF ConnectOk
  <1>2. CASE ConnectErr
    BY <1>2 DEF ConnectErr
  <1>3. CASE Read
    BY <1>3 DEF Read
  <1>4. CASE ReadEnd
    BY <1>4 DEF ReadEnd, Break, Drop
  <1>5. CASE KeepAlive
    BY <1>5 DEF KeepAlive
  <1>6. CASE WriteErr
    BY <1>6 DEF WriteErr, Break, Drop
  <1>7. CASE TimedOut
    BY <1>7 DEF TimedOut, Break, Drop
  <1>8. CASE StunTick
    BY <1>8 DEF StunTick
  <1>9. CASE FirstAddress
    BY <1>9 DEF FirstAddress
  <1>10. CASE SameAddress
    BY <1>10 DEF SameAddress
  <1>11. CASE OtherAddress
    BY <1>11 DEF OtherAddress, Break, Drop
  <1>12. CASE SendOk
    BY <1>12 DEF SendOk
  <1>13. CASE SendErr
    BY <1>13 DEF SendErr, Drop
  <1>14. CASE Reset
    BY <1>14 DEF Reset
  <1>15. CASE Wake
    BY <1>15 DEF Wake
  <1>16. CASE StartQuery
    BY <1>16 DEF StartQuery
  <1>17. CASE QueryOk
    BY <1>17, IndexInRange DEF QueryOk, Idle, NextServer
  <1>18. CASE QueryErr
    BY <1>18, IndexInRange DEF QueryErr, Idle, NextServer
  <1>19. CASE ResetRecv
    BY <1>19 DEF ResetRecv, Idle
  <1>20. CASE StunEnd
    BY <1>20 DEF StunEnd
  <1>21. CASE Observe
    BY <1>21 DEF Observe
  <1>22. CASE Respond
    BY <1>22 DEF Respond
  <1>23. CASE Disconnect
    BY <1>23 DEF Disconnect
  <1>24. CASE Remap
    BY <1>24 DEF Remap
  <1>25. CASE CalmDown
    BY <1>25 DEF CalmDown
  <1>26. CASE Take
    BY <1>26 DEF Take
  <1>27. CASE Close
    BY <1>27 DEF Close, Drop
  <1>28. CASE MapperGone
    BY <1>28 DEF MapperGone
  <1>29. CASE UNCHANGED vars
    BY <1>29 DEF vars
  <1> QED
    BY <1>1, <1>2, <1>3, <1>4, <1>5, <1>6, <1>7, <1>8, <1>9, <1>10, <1>11,
       <1>12, <1>13, <1>14, <1>15, <1>16, <1>17, <1>18, <1>19, <1>20,
       <1>21, <1>22, <1>23, <1>24, <1>25, <1>26, <1>27, <1>28, <1>29 DEF
       Next, Worker, StunTask, Peers

(***************************************************************************)
(* No step brings an address into the epoch that was not measured in it.   *)
(***************************************************************************)
LEMMA EpochStep == IInv /\ [Next]_vars => EpochInv'
  <1> SUFFICES ASSUME IInv, [Next]_vars PROVE EpochInv'
    OBVIOUS
  <1> USE TcpAssumption DEF IInv, TypeOK, EpochInv, IdleInv, http, stun, world
  <1>1. CASE ConnectOk
    BY <1>1 DEF ConnectOk
  <1>2. CASE ConnectErr
    BY <1>2 DEF ConnectErr
  <1>3. CASE Read
    BY <1>3 DEF Read
  <1>4. CASE ReadEnd
    BY <1>4 DEF ReadEnd, Break, Drop
  <1>5. CASE KeepAlive
    BY <1>5 DEF KeepAlive
  <1>6. CASE WriteErr
    BY <1>6 DEF WriteErr, Break, Drop
  <1>7. CASE TimedOut
    BY <1>7 DEF TimedOut, Break, Drop
  <1>8. CASE StunTick
    BY <1>8 DEF StunTick
  <1>9. CASE FirstAddress
    BY <1>9 DEF FirstAddress
  <1>10. CASE SameAddress
    BY <1>10 DEF SameAddress
  <1>11. CASE OtherAddress
    BY <1>11 DEF OtherAddress, Break, Drop
  <1>12. CASE SendOk
    BY <1>12 DEF SendOk
  <1>13. CASE SendErr
    BY <1>13 DEF SendErr, Drop
  <1>14. CASE Reset
    BY <1>14 DEF Reset
  <1>15. CASE Wake
    BY <1>15 DEF Wake
  <1>16. CASE StartQuery
    BY <1>16 DEF StartQuery
  <1>17. CASE QueryOk
    BY <1>17 DEF QueryOk, Idle, NextServer
  <1>18. CASE QueryErr
    BY <1>18 DEF QueryErr, Idle, NextServer
  <1>19. CASE ResetRecv
    BY <1>19 DEF ResetRecv, Idle
  <1>20. CASE StunEnd
    BY <1>20 DEF StunEnd
  <1>21. CASE Observe
    BY <1>21 DEF Observe
  <1>22. CASE Respond
    BY <1>22 DEF Respond
  <1>23. CASE Disconnect
    BY <1>23 DEF Disconnect
  <1>24. CASE Remap
    BY <1>24 DEF Remap
  <1>25. CASE CalmDown
    BY <1>25 DEF CalmDown
  <1>26. CASE Take
    BY <1>26 DEF Take
  <1>27. CASE Close
    BY <1>27 DEF Close, Drop
  <1>28. CASE MapperGone
    BY <1>28 DEF MapperGone
  <1>29. CASE UNCHANGED vars
    BY <1>29 DEF vars
  <1> QED
    BY <1>1, <1>2, <1>3, <1>4, <1>5, <1>6, <1>7, <1>8, <1>9, <1>10, <1>11,
       <1>12, <1>13, <1>14, <1>15, <1>16, <1>17, <1>18, <1>19, <1>20,
       <1>21, <1>22, <1>23, <1>24, <1>25, <1>26, <1>27, <1>28, <1>29 DEF
       Next, Worker, StunTask, Peers

(***************************************************************************)
(* Once the reset is received, nothing is measured until the worker has    *)
(* a new connection.                                                       *)
(***************************************************************************)
LEMMA IdleStep == IInv /\ [Next]_vars => IdleInv'
  <1> SUFFICES ASSUME IInv, [Next]_vars PROVE IdleInv'
    OBVIOUS
  <1> USE DEF IInv, TypeOK, EpochInv, IdleInv, http, stun, world
  <1>1. CASE ConnectOk
    BY <1>1 DEF ConnectOk
  <1>2. CASE ConnectErr
    BY <1>2 DEF ConnectErr
  <1>3. CASE Read
    BY <1>3 DEF Read
  <1>4. CASE ReadEnd
    BY <1>4 DEF ReadEnd, Break, Drop
  <1>5. CASE KeepAlive
    BY <1>5 DEF KeepAlive
  <1>6. CASE WriteErr
    BY <1>6 DEF WriteErr, Break, Drop
  <1>7. CASE TimedOut
    BY <1>7 DEF TimedOut, Break, Drop
  <1>8. CASE StunTick
    BY <1>8 DEF StunTick
  <1>9. CASE FirstAddress
    BY <1>9 DEF FirstAddress
  <1>10. CASE SameAddress
    BY <1>10 DEF SameAddress
  <1>11. CASE OtherAddress
    BY <1>11 DEF OtherAddress, Break, Drop
  <1>12. CASE SendOk
    BY <1>12 DEF SendOk
  <1>13. CASE SendErr
    BY <1>13 DEF SendErr, Drop
  <1>14. CASE Reset
    BY <1>14 DEF Reset
  <1>15. CASE Wake
    BY <1>15 DEF Wake
  <1>16. CASE StartQuery
    BY <1>16 DEF StartQuery
  <1>17. CASE QueryOk
    BY <1>17 DEF QueryOk, Idle, NextServer
  <1>18. CASE QueryErr
    BY <1>18 DEF QueryErr, Idle, NextServer
  <1>19. CASE ResetRecv
    BY <1>19 DEF ResetRecv, Idle
  <1>20. CASE StunEnd
    BY <1>20 DEF StunEnd
  <1>21. CASE Observe
    BY <1>21 DEF Observe
  <1>22. CASE Respond
    BY <1>22 DEF Respond
  <1>23. CASE Disconnect
    BY <1>23 DEF Disconnect
  <1>24. CASE Remap
    BY <1>24 DEF Remap
  <1>25. CASE CalmDown
    BY <1>25 DEF CalmDown
  <1>26. CASE Take
    BY <1>26 DEF Take
  <1>27. CASE Close
    BY <1>27 DEF Close, Drop
  <1>28. CASE MapperGone
    BY <1>28 DEF MapperGone
  <1>29. CASE UNCHANGED vars
    BY <1>29 DEF vars
  <1> QED
    BY <1>1, <1>2, <1>3, <1>4, <1>5, <1>6, <1>7, <1>8, <1>9, <1>10, <1>11,
       <1>12, <1>13, <1>14, <1>15, <1>16, <1>17, <1>18, <1>19, <1>20,
       <1>21, <1>22, <1>23, <1>24, <1>25, <1>26, <1>27, <1>28, <1>29 DEF
       Next, Worker, StunTask, Peers

(***************************************************************************)
(* The inductive invariant holds in every reachable state.                 *)
(***************************************************************************)
THEOREM Invariance == Spec => []IInv
  <1>1. IInv /\ [Next]_vars => IInv'
    BY TypeStep, EpochStep, IdleStep DEF IInv
  <1> QED
    BY InitIInv, <1>1, PTL DEF Spec

(***************************************************************************)
(* Type correctness of the two tasks and their channels.                   *)
(***************************************************************************)
THEOREM TypeCorrect == Spec => []TypeOK
  <1>1. IInv => TypeOK
    BY DEF IInv
  <1> QED
    BY Invariance, <1>1, PTL

(***************************************************************************)
(* A step of the client is a step of AddressFeed or leaves it unchanged.   *)
(***************************************************************************)
LEMMA FeedStep == IInv /\ [Next]_vars => [Feed!Next]_(Feed!vars)
  <1> SUFFICES ASSUME IInv, [Next]_vars
               PROVE  Feed!Next \/ UNCHANGED Feed!vars
    OBVIOUS
  <1> USE TcpAssumption
      DEF IInv, TypeOK, EpochInv, IdleInv, http, stun, world, Feed!Next, Feed!vars
  <1>1. CASE ConnectOk
    <2>1. Feed!Begin
      BY <1>1 DEF ConnectOk, Feed!Begin
    <2> QED
      BY <2>1
  <1>2. CASE ConnectErr
    BY <1>2 DEF ConnectErr
  <1>3. CASE Read
    BY <1>3 DEF Read
  <1>4. CASE ReadEnd
    BY <1>4 DEF ReadEnd, Break, Drop
  <1>5. CASE KeepAlive
    BY <1>5 DEF KeepAlive
  <1>6. CASE WriteErr
    BY <1>6 DEF WriteErr, Break, Drop
  <1>7. CASE TimedOut
    BY <1>7 DEF TimedOut, Break, Drop
  <1>8. CASE StunTick
    BY <1>8 DEF StunTick
  <1>9. CASE FirstAddress
    BY <1>9 DEF FirstAddress
  <1>10. CASE SameAddress
    BY <1>10 DEF SameAddress
  <1>11. CASE OtherAddress
    BY <1>11 DEF OtherAddress, Break, Drop
  <1>12. CASE SendOk
    <2>1. Feed!Report
      BY <1>12 DEF SendOk, Feed!Report
    <2> QED
      BY <2>1
  <1>13. CASE SendErr
    <2>1. Feed!GiveUp
      BY <1>13 DEF SendErr, Feed!GiveUp
    <2> QED
      BY <2>1
  <1>14. CASE Reset
    BY <1>14 DEF Reset
  <1>15. CASE Wake
    BY <1>15 DEF Wake
  <1>16. CASE StartQuery
    BY <1>16 DEF StartQuery
  <1>17. CASE QueryOk
    BY <1>17 DEF QueryOk, Idle, NextServer
  <1>18. CASE QueryErr
    BY <1>18 DEF QueryErr, Idle, NextServer
  <1>19. CASE ResetRecv
    BY <1>19 DEF ResetRecv, Idle
  <1>20. CASE StunEnd
    BY <1>20 DEF StunEnd
  <1>21. CASE Observe
    <2>1. Feed!Measure
      BY <1>21 DEF Observe, Feed!Measure
    <2> QED
      BY <2>1
  <1>22. CASE Respond
    BY <1>22 DEF Respond
  <1>23. CASE Disconnect
    BY <1>23 DEF Disconnect
  <1>24. CASE Remap
    BY <1>24 DEF Remap
  <1>25. CASE CalmDown
    BY <1>25 DEF CalmDown
  <1>26. CASE Take
    <2>1. Feed!Take
      BY <1>26 DEF Take, Feed!Take
    <2> QED
      BY <2>1
  <1>27. CASE Close
    <2>1. CASE wpc = "send"
      <3>1. Feed!GiveUp
        BY <1>27, <2>1 DEF Close, Feed!GiveUp
      <3> QED
        BY <3>1
    <2>2. CASE wpc # "send"
      BY <1>27, <2>2 DEF Close
    <2> QED
      BY <2>1, <2>2
  <1>28. CASE MapperGone
    BY <1>28 DEF MapperGone
  <1>29. CASE UNCHANGED vars
    BY <1>29 DEF vars
  <1> QED
    BY <1>1, <1>2, <1>3, <1>4, <1>5, <1>6, <1>7, <1>8, <1>9, <1>10, <1>11,
       <1>12, <1>13, <1>14, <1>15, <1>16, <1>17, <1>18, <1>19, <1>20,
       <1>21, <1>22, <1>23, <1>24, <1>25, <1>26, <1>27, <1>28, <1>29 DEF
       Next, Worker, StunTask, Peers

(***************************************************************************)
(* The TCP client implements AddressFeed: what it reports on a connection  *)
(* was measured on that connection, and it reports once.                   *)
(***************************************************************************)
THEOREM Refinement == Spec => ImplementsFeed
  <1>1. Init => Feed!Init
    BY DEF Init, Feed!Init
  <1> QED
    BY <1>1, Invariance, FeedStep, PTL DEF Spec, ImplementsFeed, Feed!Spec
-----------------------------------------------------------------------------
(***************************************************************************)
(* Once on track, no step leaves it: a new connection forgets what was     *)
(* measured before it, and what is measured from now on is right.          *)
(***************************************************************************)
LEMMA TrackStep == IInv /\ [Next]_vars => (OnTrack => OnTrack')
  <1> SUFFICES ASSUME IInv, [Next]_vars, OnTrack PROVE OnTrack'
    OBVIOUS
  <1> USE TcpAssumption DEF IInv, TypeOK, IdleInv, OnTrack, http, stun, world
  <1>1. CASE ConnectOk
    BY <1>1 DEF ConnectOk
  <1>2. CASE ConnectErr \/ Remap \/ CalmDown \/ Disconnect \/ QueryErr
    BY <1>2 DEF ConnectErr, Remap, CalmDown, Disconnect, QueryErr
  <1>3. CASE Read \/ KeepAlive \/ StunTick
    BY <1>3 DEF Read, KeepAlive, StunTick
  <1>4. CASE ReadEnd \/ WriteErr \/ TimedOut
    BY <1>4 DEF ReadEnd, WriteErr, TimedOut, Break, Drop
  <1>5. CASE FirstAddress
    BY <1>5 DEF FirstAddress
  <1>6. CASE SameAddress
    BY <1>6 DEF SameAddress
  <1>7. CASE OtherAddress
    BY <1>7 DEF OtherAddress, Break, Drop
  <1>8. CASE SendOk
    BY <1>8 DEF SendOk
  <1>9. CASE SendErr
    BY <1>9 DEF SendErr, Drop
  <1>10. CASE Reset \/ Wake
    BY <1>10 DEF Reset, Wake
  <1>11. CASE StartQuery \/ StunEnd
    BY <1>11 DEF StartQuery, StunEnd
  <1>12. CASE QueryOk
    BY <1>12 DEF QueryOk, Idle, NextServer
  <1>13. CASE ResetRecv
    BY <1>13 DEF ResetRecv, Idle
  <1>14. CASE Observe
    BY <1>14 DEF Observe
  <1>15. CASE Respond \/ MapperGone
    BY <1>15 DEF Respond, MapperGone
  <1>16. CASE Take
    BY <1>16 DEF Take
  <1>17. CASE Close
    BY <1>17 DEF Close, Drop
  <1>18. CASE UNCHANGED vars
    BY <1>18 DEF vars
  <1> QED
    BY <1>1, <1>2, <1>3, <1>4, <1>5, <1>6, <1>7, <1>8, <1>9, <1>10, <1>11, <1>12,
       <1>13, <1>14, <1>15, <1>16, <1>17, <1>18 DEF Next, Worker, StunTask, Peers

(***************************************************************************)
(* A client whose last report is right in a calm network stays right for   *)
(* ever; that it gets there is TracksNat, which TLC checks.                *)
(***************************************************************************)
THEOREM TrackIsKept == Spec => StaysOnTrack
  <1>1. IInv /\ [Next]_vars => [OnTrack => OnTrack']_vars
    BY TrackStep
  <1> QED
    BY <1>1, Invariance, PTL DEF Spec, StaysOnTrack
-----------------------------------------------------------------------------
(***************************************************************************)
(* Only the loop has a connection, and a response is owed, or has come and *)
(* is unread, while its deadline is armed.                                 *)
(***************************************************************************)
DeadlineOwed ==
    /\ wpc \notin {"loop", "send"} => conn = "none" /\ ~asked /\ ~data /\ deadline = "none"
    /\ conn = "up" /\ deadline # "none" => asked \/ data

(***************************************************************************)
(* Every step keeps that: a piece of a response that disarms the deadline  *)
(* never leaves it armed for nothing.                                      *)
(***************************************************************************)
LEMMA DeadlineStep == IInv /\ DeadlineOwed /\ [Next]_vars => DeadlineOwed'
  <1> SUFFICES ASSUME IInv, DeadlineOwed, [Next]_vars PROVE DeadlineOwed'
    OBVIOUS
  <1> USE DEF IInv, TypeOK, FlagsOK, DeadlineOwed, http, stun, world
  <1>1. CASE ConnectOk \/ ConnectErr
    BY <1>1 DEF ConnectOk, ConnectErr
  <1>2. CASE Read \/ KeepAlive \/ StunTick
    BY <1>2 DEF Read, KeepAlive, StunTick
  <1>3. CASE ReadEnd \/ WriteErr \/ TimedOut \/ OtherAddress
    BY <1>3 DEF ReadEnd, WriteErr, TimedOut, OtherAddress, Break, Drop
  <1>4. CASE FirstAddress \/ SameAddress \/ SendOk
    BY <1>4 DEF FirstAddress, SameAddress, SendOk
  <1>5. CASE SendErr \/ Close
    BY <1>5 DEF SendErr, Close, Drop
  <1>6. CASE Reset \/ Wake
    BY <1>6 DEF Reset, Wake
  <1>7. CASE StunTask
    BY <1>7 DEF StunTask, StartQuery, QueryOk, QueryErr, ResetRecv, StunEnd
  <1>8. CASE Respond
    BY <1>8 DEF Respond
  <1>9. CASE Disconnect
    BY <1>9 DEF Disconnect
  <1>10. CASE Observe \/ Remap \/ CalmDown \/ Take \/ MapperGone
    BY <1>10 DEF Observe, Remap, CalmDown, Take, MapperGone
  <1>11. CASE UNCHANGED vars
    BY <1>11 DEF vars
  <1> QED
    BY <1>1, <1>2, <1>3, <1>4, <1>5, <1>6, <1>7, <1>8, <1>9, <1>10, <1>11
       DEF Next, Worker, StunTask, Peers

(***************************************************************************)
(* The deadline is armed only for a response that is still to come or to   *)
(* be read: a server that has answered everything, and was read, is never  *)
(* taken for a dead one (the guards of interval.tick and sleep_until).     *)
(***************************************************************************)
THEOREM NoFalseAlarm == Spec => [](conn = "up" /\ deadline # "none" => asked \/ data)
  <1>1. Init => DeadlineOwed
    BY DEF Init, DeadlineOwed
  <1>2. DeadlineOwed => (conn = "up" /\ deadline # "none" => asked \/ data)
    BY DEF DeadlineOwed
  <1> QED
    BY <1>1, <1>2, DeadlineStep, Invariance, PTL DEF Spec
=============================================================================
