-------------------------- MODULE UdpClientProofs --------------------------
(***************************************************************************)
(* The UDP client implements AddressFeed, for any addresses, servers and   *)
(* transaction ids, and any number of datagrams in the network.            *)
(***************************************************************************)
EXTENDS UdpClient, TLAPS

(***************************************************************************)
(* What a server has written into a response to the awaited request, and   *)
(* what the task is reporting, was observed of that request.               *)
(***************************************************************************)
EpochInv ==
    /\ \A d \in net :
         d.kind = "response" /\ d.id = req /\ d.addr # None => d.addr \in measured
    /\ upc = "send" => found \in measured /\ req = None

IInv == TypeOK /\ EpochInv
-----------------------------------------------------------------------------
(***************************************************************************)
(* The initial states satisfy the invariant.                               *)
(***************************************************************************)
LEMMA InitIInv == Init => IInv
  BY UdpAssumption DEF Init, IInv, TypeOK, EpochInv, Servers

(***************************************************************************)
(* The round-robin index stays within the list of servers.                 *)
(***************************************************************************)
LEMMA NextServerType ==
  ASSUME i \in Servers, first \in BOOLEAN, NextServer
  PROVE  i' \in Servers /\ first' \in BOOLEAN
  <1>1. i' \in Servers
    BY UdpAssumption DEF NextServer, Servers
  <1>2. first' \in BOOLEAN
    BY DEF NextServer
  <1> QED
    BY <1>1, <1>2

(***************************************************************************)
(* A tick makes up for one missed tick, if there are any.                  *)
(***************************************************************************)
LEMMA DueType ==
  ASSUME missed \in 0 .. Burst, Due
  PROVE  missed' \in 0 .. Burst
  BY UdpAssumption DEF Due

(***************************************************************************)
(* Every variable keeps its type.                                          *)
(***************************************************************************)
LEMMA TypeStep == TypeOK /\ [Next]_vars => TypeOK'
  <1> SUFFICES ASSUME TypeOK, [Next]_vars PROVE TypeOK'
    OBVIOUS
  <1> USE DEF TypeOK, world
  <1>1. CASE TickOk
    <2>1. i' \in Servers /\ first' \in BOOLEAN /\ missed' \in 0 .. Burst
      BY <1>1, NextServerType, DueType DEF TickOk
    <2>2. PICK id \in Ids :
             /\ req' = id
             /\ net' = net \cup {[kind |-> "request", id |-> id]}
      BY <1>1 DEF TickOk
    <2>3. [kind |-> "request", id |-> id] \in Request
      BY DEF Request
    <2> QED
      BY <1>1, <2>1, <2>2, <2>3 DEF TickOk
  <1>2. CASE TickErr
    <2>1. i' \in Servers /\ first' \in BOOLEAN /\ missed' \in 0 .. Burst
      BY <1>2, NextServerType, DueType DEF TickErr
    <2> QED
      BY <1>2, <2>1 DEF TickErr
  <1>3. ASSUME NEW d \in net, Outdated(d) PROVE TypeOK'
    BY <1>3 DEF Outdated, Arrives
  <1>4. ASSUME NEW d \in net, NoAddress(d) PROVE TypeOK'
    BY <1>4 DEF NoAddress, Arrives
  <1>5. ASSUME NEW d \in net, Answer(d) PROVE TypeOK'
    <2>1. d.addr \in Addrs
      BY <1>5 DEF Answer, Arrives, Request, Response
    <2> QED
      BY <1>5, <2>1 DEF Answer, Arrives
  <1>6. ASSUME NEW d \in net, Lose(d) PROVE TypeOK'
    BY <1>6 DEF Lose
  <1>7. ASSUME NEW d \in net, NEW attr \in Addrs \cup {None}, Observe(d, attr)
        PROVE  TypeOK'
    <2>1. d.id \in Ids
      BY DEF Request, Response
    <2>2. [kind |-> "response", id |-> d.id, addr |-> attr] \in Response
      BY <2>1 DEF Response
    <2>3. net' \subseteq Request \cup Response
      BY <1>7, <2>2 DEF Observe
    <2>4. measured' \subseteq Addrs
      BY <1>7 DEF Observe
    <2> QED
      BY <1>7, <2>3, <2>4 DEF Observe
  <1>8. CASE SendOk
    BY <1>8, UdpAssumption DEF SendOk
  <1>9. CASE SendErr
    BY <1>9 DEF SendErr
  <1>10. CASE Remap
    BY <1>10 DEF Remap
  <1>11. CASE CalmDown
    BY <1>11 DEF CalmDown
  <1>12. CASE Take
    BY <1>12 DEF Take
  <1>13. CASE Close
    BY <1>13 DEF Close
  <1>14. CASE MapperGone
    BY <1>14 DEF MapperGone
  <1>15. CASE UNCHANGED vars
    BY <1>15 DEF vars
  <1> QED
    BY <1>1, <1>2, <1>3, <1>4, <1>5, <1>6, <1>7, <1>8, <1>9, <1>10, <1>11,
       <1>12, <1>13, <1>14, <1>15 DEF Next

(***************************************************************************)
(* A fresh id makes every response on its way outdated; the server that    *)
(* answers the awaited request is what measured records.                   *)
(***************************************************************************)
LEMMA EpochStep == IInv /\ [Next]_vars => EpochInv'
  <1> SUFFICES ASSUME IInv, [Next]_vars PROVE EpochInv'
    OBVIOUS
  <1> USE UdpAssumption DEF IInv, TypeOK, EpochInv, world
  <1>1. CASE TickOk
    <2>1. PICK id \in Ids :
             /\ Fresh(id)
             /\ req' = id
             /\ net' = net \cup {[kind |-> "request", id |-> id]}
      BY <1>1 DEF TickOk
    <2>2. \A d \in net' : d.kind = "response" => d \in net /\ d.id # req'
      BY <2>1 DEF Fresh
    <2> QED
      BY <1>1, <2>2 DEF TickOk
  <1>2. CASE TickErr
    BY <1>2 DEF TickErr
  <1>3. ASSUME NEW d \in net, Outdated(d) PROVE EpochInv'
    BY <1>3 DEF Outdated, Arrives
  <1>4. ASSUME NEW d \in net, NoAddress(d) PROVE EpochInv'
    <2>1. \A e \in net' : e \in net /\ e.id # None
      BY <1>4 DEF NoAddress, Arrives, Request, Response
    <2> QED
      BY <1>4, <2>1 DEF NoAddress, Arrives
  <1>5. ASSUME NEW d \in net, Answer(d) PROVE EpochInv'
    <2>1. \A e \in net' : e \in net /\ e.id # None
      BY <1>5 DEF Answer, Arrives, Request, Response
    <2> QED
      BY <1>5, <2>1 DEF Answer, Arrives
  <1>6. ASSUME NEW d \in net, Lose(d) PROVE EpochInv'
    BY <1>6 DEF Lose
  <1>7. ASSUME NEW d \in net, NEW attr \in Addrs \cup {None}, Observe(d, attr)
        PROVE  EpochInv'
    <2>1. ASSUME NEW e \in net',
                 e.kind = "response" /\ e.id = req' /\ e.addr # None
          PROVE  e.addr \in measured'
      <3>1. CASE e \in net
        BY <1>7, <2>1, <3>1 DEF Observe
      <3>2. CASE e = [kind |-> "response", id |-> d.id, addr |-> attr]
        BY <1>7, <2>1, <3>2 DEF Observe
      <3> QED
        BY <1>7, <3>1, <3>2 DEF Observe
    <2>2. upc' = "send" => found' \in measured' /\ req' = None
      BY <1>7 DEF Observe
    <2> QED
      BY <2>1, <2>2
  <1>8. CASE SendOk
    BY <1>8 DEF SendOk
  <1>9. CASE SendErr
    BY <1>9 DEF SendErr
  <1>10. CASE Remap
    BY <1>10 DEF Remap
  <1>11. CASE CalmDown
    BY <1>11 DEF CalmDown
  <1>12. CASE Take
    BY <1>12 DEF Take
  <1>13. CASE Close
    BY <1>13 DEF Close
  <1>14. CASE MapperGone
    BY <1>14 DEF MapperGone
  <1>15. CASE UNCHANGED vars
    BY <1>15 DEF vars
  <1> QED
    BY <1>1, <1>2, <1>3, <1>4, <1>5, <1>6, <1>7, <1>8, <1>9, <1>10, <1>11,
       <1>12, <1>13, <1>14, <1>15 DEF Next

(***************************************************************************)
(* The inductive invariant holds in every reachable state.                 *)
(***************************************************************************)
THEOREM Invariance == Spec => []IInv
  <1>1. IInv /\ [Next]_vars => IInv'
    BY TypeStep, EpochStep DEF IInv
  <1> QED
    BY InitIInv, <1>1, PTL DEF Spec

(***************************************************************************)
(* Type correctness of the client and of the network.                      *)
(***************************************************************************)
THEOREM TypeCorrect == Spec => []TypeOK
  <1>1. IInv => TypeOK
    BY DEF IInv
  <1> QED
    BY Invariance, <1>1, PTL

(***************************************************************************)
(* A step of the client is a step of AddressFeed or leaves it unchanged.   *)
(***************************************************************************)
LEMMA FeedStep == IInv /\ [Next]_vars => [Feed!Next]_(Feed!vars)
  <1> SUFFICES ASSUME IInv, [Next]_vars PROVE Feed!Next \/ UNCHANGED Feed!vars
    OBVIOUS
  <1> USE UdpAssumption DEF IInv, TypeOK, EpochInv, world, Feed!Next, Feed!vars
  <1>1. CASE TickOk
    <2>1. Feed!Begin
      BY <1>1 DEF TickOk, Feed!Begin
    <2> QED
      BY <2>1
  <1>2. CASE TickErr
    BY <1>2 DEF TickErr
  <1>3. ASSUME NEW d \in net, Outdated(d) PROVE UNCHANGED Feed!vars
    BY <1>3 DEF Outdated, Arrives
  <1>4. ASSUME NEW d \in net, NoAddress(d) PROVE Feed!GiveUp
    BY <1>4 DEF NoAddress, Arrives, Feed!GiveUp
  <1>5. ASSUME NEW d \in net, Answer(d) PROVE UNCHANGED Feed!vars
    <2>1. req # None
      BY <1>5 DEF Answer, Arrives, Request, Response
    <2> QED
      BY <1>5, <2>1 DEF Answer, Arrives
  <1>6. ASSUME NEW d \in net, Lose(d) PROVE UNCHANGED Feed!vars
    BY <1>6 DEF Lose
  <1>7. ASSUME NEW d \in net, NEW attr \in Addrs \cup {None}, Observe(d, attr)
        PROVE  Feed!Measure \/ UNCHANGED Feed!vars
    <2>1. CASE d.id = req /\ attr # None
      BY <1>7, <2>1 DEF Observe, Feed!Measure
    <2>2. CASE ~(d.id = req /\ attr # None)
      BY <1>7, <2>2 DEF Observe
    <2> QED
      BY <2>1, <2>2
  <1>8. CASE SendOk
    <2>1. Feed!Report
      BY <1>8 DEF SendOk, Feed!Report
    <2> QED
      BY <2>1
  <1>9. CASE SendErr
    <2>1. Feed!GiveUp
      BY <1>9 DEF SendErr, Feed!GiveUp
    <2> QED
      BY <2>1
  <1>10. CASE Remap
    BY <1>10 DEF Remap
  <1>11. CASE CalmDown
    BY <1>11 DEF CalmDown
  <1>12. CASE Take
    <2>1. Feed!Take
      BY <1>12 DEF Take, Feed!Take
    <2> QED
      BY <2>1
  <1>13. CASE Close
    <2>1. CASE upc = "send"
      <3>1. Feed!GiveUp
        BY <1>13, <2>1 DEF Close, Feed!GiveUp
      <3> QED
        BY <3>1
    <2>2. CASE upc # "send"
      BY <1>13, <2>2 DEF Close
    <2> QED
      BY <2>1, <2>2
  <1>14. CASE MapperGone
    BY <1>14 DEF MapperGone
  <1>15. CASE UNCHANGED vars
    BY <1>15 DEF vars
  <1> QED
    BY <1>1, <1>2, <1>3, <1>4, <1>5, <1>6, <1>7, <1>8, <1>9, <1>10, <1>11,
       <1>12, <1>13, <1>14, <1>15 DEF Next

(***************************************************************************)
(* The UDP client implements AddressFeed: it reports an address only if it *)
(* was observed of the request last sent, and once per request.            *)
(***************************************************************************)
THEOREM Refinement == Spec => ImplementsFeed
  <1>1. Init => Feed!Init
    BY DEF Init, Feed!Init
  <1> QED
    BY <1>1, Invariance, FeedStep, PTL DEF Spec, ImplementsFeed, Feed!Spec
-----------------------------------------------------------------------------
(***************************************************************************)
(* Once on track, no step leaves it: outdated responses are told by their  *)
(* id, and what a server observes from now on is right.                    *)
(***************************************************************************)
LEMMA TrackStep == IInv /\ [Next]_vars => (OnTrack => OnTrack')
  <1> SUFFICES ASSUME IInv, [Next]_vars, OnTrack PROVE OnTrack'
    OBVIOUS
  <1> USE UdpAssumption DEF IInv, TypeOK, OnTrack, world
  <1>1. CASE TickOk
    <2>1. PICK id \in Ids :
             /\ Fresh(id)
             /\ req' = id
             /\ net' = net \cup {[kind |-> "request", id |-> id]}
      BY <1>1 DEF TickOk
    <2>2. \A d \in net' : d.kind = "response" => d.id # req'
      BY <2>1 DEF Fresh
    <2> QED
      BY <1>1, <2>2 DEF TickOk
  <1>2. CASE TickErr \/ Remap \/ CalmDown
    BY <1>2 DEF TickErr, Remap, CalmDown
  <1>3. ASSUME NEW d \in net, Outdated(d) PROVE OnTrack'
    BY <1>3 DEF Outdated, Arrives
  <1>4. ASSUME NEW d \in net, NoAddress(d) PROVE OnTrack'
    <2>1. \A e \in net' : e \in net /\ e.id # req'
      BY <1>4 DEF NoAddress, Arrives, Request, Response
    <2> QED
      BY <1>4, <2>1 DEF NoAddress
  <1>5. ASSUME NEW d \in net, Answer(d) PROVE OnTrack'
    <2>1. \A e \in net' : e \in net /\ e.id # req'
      BY <1>5 DEF Answer, Arrives, Request, Response
    <2>2. d.addr = nat
      BY <1>5 DEF Answer, Arrives
    <2> QED
      BY <1>5, <2>1, <2>2 DEF Answer
  <1>6. ASSUME NEW d \in net, Lose(d) PROVE OnTrack'
    BY <1>6 DEF Lose
  <1>7. ASSUME NEW d \in net, NEW attr \in Addrs \cup {None}, Observe(d, attr)
        PROVE  OnTrack'
    <2>1. attr = nat
      BY <1>7 DEF Observe
    <2>2. ASSUME NEW e \in net', e.kind = "response", e.id = req'
          PROVE  e.addr \in {nat', None}
      <3>1. CASE e \in net
        BY <1>7, <2>2, <3>1 DEF Observe
      <3>2. CASE e = [kind |-> "response", id |-> d.id, addr |-> attr]
        BY <1>7, <2>1, <3>2 DEF Observe
      <3> QED
        BY <1>7, <3>1, <3>2 DEF Observe
    <2> QED
      BY <1>7, <2>2 DEF Observe
  <1>8. CASE SendOk
    BY <1>8 DEF SendOk
  <1>9. CASE SendErr \/ Close \/ MapperGone
    BY <1>9 DEF SendErr, Close, MapperGone
  <1>10. CASE Take
    BY <1>10 DEF Take
  <1>11. CASE UNCHANGED vars
    BY <1>11 DEF vars
  <1> QED
    BY <1>1, <1>2, <1>3, <1>4, <1>5, <1>6, <1>7, <1>8, <1>9, <1>10, <1>11 DEF Next

(***************************************************************************)
(* A client whose last report is right in a calm network stays right for   *)
(* ever; that it gets there is TracksNat, which TLC checks.                *)
(***************************************************************************)
THEOREM TrackIsKept == Spec => StaysOnTrack
  <1>1. IInv /\ [Next]_vars => [OnTrack => OnTrack']_vars
    BY TrackStep
  <1> QED
    BY <1>1, Invariance, PTL DEF Spec, StaysOnTrack
=============================================================================
