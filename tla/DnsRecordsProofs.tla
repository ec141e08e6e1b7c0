-------------------------- MODULE DnsRecordsProofs --------------------------
(***************************************************************************)
(* Records stay bounded, Ok means published, and an updater alone on its   *)
(* records implements Publisher, for any finite sets of updaters and       *)
(* record ids and any values.                                              *)
(***************************************************************************)
EXTENDS DnsRecords, FiniteSetTheorems, TLAPS

(***************************************************************************)
(* An exchange about a record is the one the updater's metadata calls for, *)
(* a new_address in progress has an address, and only active updaters have *)
(* one, or a rid.                                                          *)
(***************************************************************************)
CallInv ==
    \A u \in Updaters :
        /\ call[u] \in {"lookup", "create"} => rid[u] = None
        /\ call[u] # "idle" => addr[u] \in Addrs
        /\ rid[u] # None => found[u] \in {None, rid[u]}
        /\ result[u] = "ok" => call[u] = "idle"
        /\ u \notin active => call[u] = "idle" /\ rid[u] = None

(***************************************************************************)
(* The updaters about to create a record: their lookup found none, and the *)
(* provider has not served their creation.  RecordsBounded is not          *)
(* inductive: each of them takes up room for a record already.             *)
(***************************************************************************)
Pending ==
    {u \in Creators :
        \/ call[u] = "lookup" /\ request[u] = "served" /\ found[u] = None
        \/ call[u] = "create" /\ request[u] = "sent"}

RoomInv == Cardinality(Unpinned) + Cardinality(Pending) <= Cardinality(Creators)

(***************************************************************************)
(* From the moment the provider has served its update or creation, an      *)
(* updater's own records hold its address.                                 *)
(***************************************************************************)
Published(u) ==
    \/ result[u] = "ok"
    \/ call[u] \in {"update", "create"} /\ request[u] = "served"

PublishedInv ==
    \A u \in Updaters :
        Exclusive(u) /\ Published(u) => \A r \in Own(u) : records[r] = addr[u]

IInv == TypeOK /\ CallInv /\ RoomInv /\ PublishedInv
-----------------------------------------------------------------------------
(***************************************************************************)
(* Every set that is counted is finite, and a smaller one counts less.     *)
(***************************************************************************)
LEMMA Finite ==
  /\ IsFiniteSet(Unpinned) /\ IsFiniteSet(Pending) /\ IsFiniteSet(Creators)
  /\ Cardinality(Unpinned) \in Nat
  /\ Cardinality(Pending) \in Nat
  /\ Cardinality(Creators) \in Nat
  /\ Cardinality(Pending) <= Cardinality(Creators)
  <1>1. Unpinned \in SUBSET Ids /\ Creators \in SUBSET Updaters
    BY DEF Unpinned, Present, Creators
  <1>2. Pending \in SUBSET Creators
    BY DEF Pending
  <1>3. IsFiniteSet(Unpinned) /\ IsFiniteSet(Creators)
    BY <1>1, FS_Subset, DnsAssumption
  <1>4. IsFiniteSet(Pending) /\ Cardinality(Pending) <= Cardinality(Creators)
    BY <1>2, <1>3, FS_Subset
  <1> QED
    BY <1>3, <1>4, FS_CardinalityType

(***************************************************************************)
(* The same of the next state.                                             *)
(***************************************************************************)
LEMMA FiniteNext ==
  /\ IsFiniteSet(Unpinned') /\ IsFiniteSet(Pending') /\ IsFiniteSet(Creators')
  /\ Cardinality(Unpinned') \in Nat
  /\ Cardinality(Pending') \in Nat
  /\ Cardinality(Creators') \in Nat
  /\ Cardinality(Pending') <= Cardinality(Creators')
  <1>1. Unpinned' \in SUBSET Ids /\ Creators' \in SUBSET Updaters
    BY DEF Unpinned, Present, Creators
  <1>2. Pending' \in SUBSET Creators'
    BY DEF Pending
  <1>3. IsFiniteSet(Unpinned') /\ IsFiniteSet(Creators')
    BY <1>1, FS_Subset, DnsAssumption
  <1>4. IsFiniteSet(Pending') /\ Cardinality(Pending') <= Cardinality(Creators')
    BY <1>2, <1>3, FS_Subset
  <1> QED
    BY <1>3, <1>4, FS_CardinalityType

(***************************************************************************)
(* The initial states satisfy the invariant.                               *)
(***************************************************************************)
LEMMA InitIInv == Init => IInv
  <1> SUFFICES ASSUME Init PROVE IInv
    OBVIOUS
  <1>1. TypeOK
    BY DnsAssumption DEF Init, TypeOK
  <1>2. CallInv
    BY DEF Init, CallInv
  <1>3. RoomInv
    <2>1. Pending = {}
      BY DEF Init, Pending, Creators
    <2> QED
      BY <2>1, Finite, FS_EmptySet DEF Init, RoomInv
  <1>4. PublishedInv
    BY DEF Init, PublishedInv, Published
  <1> QED
    BY <1>1, <1>2, <1>3, <1>4 DEF IInv

(***************************************************************************)
(* The exchange new_address starts with, or goes on to, is one of an       *)
(* updater with the rid it needs.                                          *)
(***************************************************************************)
LEMMA ExchangeType ==
  ASSUME NEW u \in Updaters
  PROVE  /\ RecordExchange(u) \in {"lookup", "update"}
         /\ RecordExchange(u) = "lookup" => rid[u] = None
  BY DEF RecordExchange

(***************************************************************************)
(* Every variable keeps its type.                                          *)
(***************************************************************************)
LEMMA TypeStep == TypeOK /\ [Next]_vars => TypeOK'
  <1> SUFFICES ASSUME TypeOK, [Next]_vars PROVE TypeOK'
    OBVIOUS
  <1> USE DEF TypeOK, config
  <1>1. ASSUME NEW u \in Updaters, NEW a \in Addrs, NewAddress(u, a) PROVE TypeOK'
    BY <1>1, ExchangeType DEF NewAddress, Ask
  <1>2. ASSUME NEW u \in Updaters, ZoneOk(u) PROVE TypeOK'
    BY <1>2, ExchangeType DEF ZoneOk, Ask
  <1>3. ASSUME NEW u \in Updaters, LookupOk(u) PROVE TypeOK'
    BY <1>3 DEF LookupOk, Ask
  <1>4. ASSUME NEW u \in Updaters, WriteOk(u) PROVE TypeOK'
    BY <1>4 DEF WriteOk, Return
  <1>5. ASSUME NEW u \in Updaters, Err(u) PROVE TypeOK'
    BY <1>5 DEF Err, Return
  <1>6. ASSUME NEW u \in Updaters, Serve(u) PROVE TypeOK'
    <2> USE <1>6 DEF Serve
    <2>1. CASE call[u] = "zone"
      BY <2>1
    <2>2. CASE call[u] = "lookup"
      BY <2>2 DEF List, Present
    <2>3. CASE call[u] = "update"
      BY <2>3 DEF Update, Present
    <2>4. CASE call[u] = "create"
      BY <2>4 DEF Create, NewId, Present
    <2> QED
      BY <2>1, <2>2, <2>3, <2>4
  <1>7. ASSUME NEW r \in Ids, Delete(r) PROVE TypeOK'
    BY <1>7 DEF Delete
  <1>8. CASE UNCHANGED vars
    BY <1>8 DEF vars
  <1> QED
    BY <1>1, <1>2, <1>3, <1>4, <1>5, <1>6, <1>7, <1>8 DEF Next

(***************************************************************************)
(* CallInv is kept.                                                        *)
(***************************************************************************)
LEMMA CallStep == TypeOK /\ CallInv /\ [Next]_vars => CallInv'
  <1> SUFFICES ASSUME TypeOK, CallInv, [Next]_vars PROVE CallInv'
    OBVIOUS
  <1> USE DEF TypeOK, CallInv, config
  <1>1. ASSUME NEW u \in Updaters, NEW a \in Addrs, NewAddress(u, a) PROVE CallInv'
    BY <1>1, ExchangeType DEF NewAddress, Ask
  <1>2. ASSUME NEW u \in Updaters, ZoneOk(u) PROVE CallInv'
    BY <1>2, ExchangeType DEF ZoneOk, Ask, Answered
  <1>3. ASSUME NEW u \in Updaters, LookupOk(u) PROVE CallInv'
    BY <1>3 DEF LookupOk, Ask, Answered
  <1>4. ASSUME NEW u \in Updaters, WriteOk(u) PROVE CallInv'
    BY <1>4 DEF WriteOk, Return
  <1>5. ASSUME NEW u \in Updaters, Err(u) PROVE CallInv'
    BY <1>5 DEF Err, Return
  <1>6. ASSUME NEW u \in Updaters, Serve(u) PROVE CallInv'
    BY <1>6 DEF Serve, List, Update, Create
  <1>7. ASSUME NEW r \in Ids, Delete(r) PROVE CallInv'
    BY <1>7 DEF Delete
  <1>8. CASE UNCHANGED vars
    BY <1>8 DEF vars
  <1> QED
    BY <1>1, <1>2, <1>3, <1>4, <1>5, <1>6, <1>7, <1>8 DEF Next

(***************************************************************************)
(* A step that adds neither a record nor an updater about to create one    *)
(* takes up no room.                                                       *)
(***************************************************************************)
LEMMA RoomKept ==
  ASSUME RoomInv, UNCHANGED config, Unpinned' \subseteq Unpinned, Pending' \subseteq Pending
  PROVE  RoomInv'
  <1>1. Cardinality(Unpinned') <= Cardinality(Unpinned)
    BY Finite, FS_Subset
  <1>2. Cardinality(Pending') <= Cardinality(Pending)
    BY Finite, FS_Subset
  <1>3. Creators' = Creators
    BY DEF Creators, config
  <1> QED
    BY <1>1, <1>2, <1>3, Finite, FiniteNext DEF RoomInv

(***************************************************************************)
(* A step that adds one record and takes one updater off those about to    *)
(* create one takes up no room either.                                     *)
(***************************************************************************)
LEMMA RoomFilled ==
  ASSUME RoomInv, UNCHANGED config,
         NEW u \in Pending, Pending' \subseteq Pending \ {u},
         NEW r, Unpinned' \subseteq Unpinned \cup {r}
  PROVE  RoomInv'
  <1>1. /\ IsFiniteSet(Pending \ {u})
        /\ Cardinality(Pending \ {u}) = Cardinality(Pending) - 1
    BY Finite, FS_RemoveElement
  <1>2. Cardinality(Pending') <= Cardinality(Pending) - 1
    BY <1>1, FS_Subset
  <1>3. /\ IsFiniteSet(Unpinned \cup {r})
        /\ \/ Cardinality(Unpinned \cup {r}) = Cardinality(Unpinned)
           \/ Cardinality(Unpinned \cup {r}) = Cardinality(Unpinned) + 1
    BY Finite, FS_AddElement
  <1>4. Cardinality(Unpinned') <= Cardinality(Unpinned \cup {r})
    BY <1>3, FS_Subset
  <1>5. Cardinality(Unpinned') <= Cardinality(Unpinned) + 1
    BY <1>3, <1>4, Finite, FiniteNext
  <1>6. Creators' = Creators
    BY DEF Creators, config
  <1> QED
    BY <1>2, <1>5, <1>6, Finite, FiniteNext DEF RoomInv

(***************************************************************************)
(* RoomInv is kept: a lookup that finds nothing leaves all the room to the *)
(* creators, and a creation fills the place its updater has taken up.      *)
(***************************************************************************)
LEMMA RoomStep == TypeOK /\ CallInv /\ RoomInv /\ [Next]_vars => RoomInv'
  <1> SUFFICES ASSUME TypeOK, CallInv, RoomInv, [Next]_vars PROVE RoomInv'
    OBVIOUS
  <1> USE DEF TypeOK, config, Unpinned, Present, Creators, Pending
  <1>1. ASSUME NEW u \in Updaters, NEW a \in Addrs, NewAddress(u, a) PROVE RoomInv'
    <2>1. Pending' \subseteq Pending
      BY <1>1, ExchangeType DEF NewAddress, Ask
    <2> QED
      BY <1>1, <2>1, RoomKept DEF NewAddress
  <1>2. ASSUME NEW u \in Updaters, ZoneOk(u) PROVE RoomInv'
    <2>1. Pending' \subseteq Pending
      BY <1>2, ExchangeType DEF ZoneOk, Ask
    <2> QED
      BY <1>2, <2>1, RoomKept DEF ZoneOk
  <1>3. ASSUME NEW u \in Updaters, LookupOk(u) PROVE RoomInv'
    <2>1. Pending' \subseteq Pending
      BY <1>3 DEF LookupOk, Ask, Answered
    <2> QED
      BY <1>3, <2>1, RoomKept DEF LookupOk
  <1>4. ASSUME NEW u \in Updaters, WriteOk(u) PROVE RoomInv'
    <2>1. Pending' \subseteq Pending
      BY <1>4 DEF WriteOk, Return
    <2> QED
      BY <1>4, <2>1, RoomKept DEF WriteOk
  <1>5. ASSUME NEW u \in Updaters, Err(u) PROVE RoomInv'
    <2>1. Pending' \subseteq Pending
      BY <1>5 DEF Err, Return
    <2> QED
      BY <1>5, <2>1, RoomKept DEF Err
  <1>6. ASSUME NEW u \in Updaters, Serve(u) PROVE RoomInv'
    <2> USE <1>6 DEF Serve
    <2>1. CASE call[u] = "zone"
      <3>1. Pending' \subseteq Pending /\ Unpinned' = Unpinned
        BY <2>1
      <3> QED
        BY <3>1, RoomKept
    <2>2. CASE call[u] = "lookup" /\ Present = {}
      <3>1. Unpinned' = {} /\ Creators' = Creators
        BY <2>2 DEF List
      <3>2. Cardinality(Unpinned') = 0
        BY <3>1, FS_EmptySet
      <3> QED
        BY <3>1, <3>2, FiniteNext DEF RoomInv
    <2>3. CASE call[u] = "lookup" /\ Present # {}
      <3>1. PICK r \in Present : found' = [found EXCEPT ![u] = r]
        BY <2>3 DEF List
      <3>2. r # None
        BY DnsAssumption
      <3>3. Pending' \subseteq Pending
        BY <2>3, <3>1, <3>2
      <3>4. Unpinned' = Unpinned
        BY <2>3 DEF List
      <3> QED
        BY <3>3, <3>4, RoomKept
    <2>4. CASE call[u] = "update"
      <3>1. Pending' \subseteq Pending
        BY <2>4 DEF Update
      <3>2. Unpinned' \subseteq Unpinned
        BY <2>4 DEF Update
      <3> QED
        BY <3>1, <3>2, RoomKept
    <2>5. CASE call[u] = "create"
      <3>1. PICK r \in Ids : NewId(r) /\ records' = [records EXCEPT ![r] = addr[u]]
        BY <2>5 DEF Create
      <3>2. Pending' = Pending \ {u} /\ u \in Pending
        BY <2>5 DEF Create, CallInv
      <3>3. Unpinned' \subseteq Unpinned \cup {r}
        BY <2>5, <3>1
      <3> QED
        BY <3>2, <3>3, <2>5, RoomFilled
    <2> QED
      BY <2>1, <2>2, <2>3, <2>4, <2>5
  <1>7. ASSUME NEW r \in Ids, Delete(r) PROVE RoomInv'
    <2>1. Pending' \subseteq Pending /\ Unpinned' \subseteq Unpinned
      BY <1>7 DEF Delete
    <2> QED
      BY <1>7, <2>1, RoomKept DEF Delete
  <1>8. CASE UNCHANGED vars
    BY <1>8, RoomKept DEF vars
  <1> QED
    BY <1>1, <1>2, <1>3, <1>4, <1>5, <1>6, <1>7, <1>8 DEF Next

(***************************************************************************)
(* An updater that is exclusive shares no record with another one: what it *)
(* updates is its own, and nobody else updates that or creates one beside  *)
(* it.                                                                     *)
(***************************************************************************)
LEMMA Apart ==
  ASSUME TypeOK, CallInv,
         NEW u \in Updaters, NEW v \in active \ {u}, Exclusive(u)
  PROVE  /\ rid[u] # None /\ rid[v] # None /\ rid[v] # rid[u]
         /\ found[v] # rid[u]
         /\ call[v] \notin {"lookup", "create"}
  BY DEF TypeOK, CallInv, Exclusive

(***************************************************************************)
(* A lone updater without a rid counts at most one record.                 *)
(***************************************************************************)
LEMMA AtMostOne ==
  ASSUME CallInv, RoomInv, NEW u \in Updaters, rid[u] = None, Exclusive(u)
  PROVE  /\ Unpinned = Present
         /\ \A r, s \in Present : r = s
         /\ u \in Pending => Present = {}
  <1>1. \A v \in Updaters : rid[v] = None
    BY DEF Exclusive, CallInv
  <1>2. Creators \in SUBSET {u} /\ Unpinned = Present
    BY <1>1, DnsAssumption DEF Exclusive, Creators, Unpinned, Present
  <1>3. Cardinality(Creators) <= 1
    <2>1. IsFiniteSet({u}) /\ Cardinality({u}) = 1
      BY FS_Singleton
    <2> QED
      BY <1>2, <2>1, FS_Subset
  <1>4. ASSUME NEW r \in Present, NEW s \in Present, r # s PROVE FALSE
    <2>1. {r, s} \in SUBSET Unpinned
      BY <1>2
    <2>2. Cardinality({r, s}) = 2
      <3>1. IsFiniteSet({r}) /\ Cardinality({r}) = 1
        BY FS_Singleton
      <3>2. Cardinality({r} \cup {s}) = Cardinality({r}) + 1
        BY <3>1, <1>4, FS_AddElement
      <3>3. {r} \cup {s} = {r, s}
        OBVIOUS
      <3> QED
        BY <3>1, <3>2, <3>3
    <2>3. Cardinality({r, s}) <= Cardinality(Unpinned)
      BY <2>1, Finite, FS_Subset
    <2> QED
      BY <1>3, <2>2, <2>3, Finite DEF RoomInv
  <1>5. ASSUME u \in Pending, Present # {} PROVE FALSE
    <2>1. Cardinality(Pending) # 0 /\ Cardinality(Unpinned) # 0
      BY <1>2, <1>5, Finite, FS_EmptySet
    <2> QED
      BY <1>3, <2>1, Finite DEF RoomInv
  <1> QED
    BY <1>2, <1>4, <1>5

(***************************************************************************)
(* The provider serves another updater: the exclusive one's records stay.  *)
(***************************************************************************)
LEMMA ServeOther ==
  ASSUME TypeOK, CallInv,
         NEW w \in Updaters, NEW u \in Updaters \ {w}, Exclusive(w), Serve(u)
  PROVE  \A r \in Own(w)' : r \in Own(w) /\ records'[r] = records[r]
  <1>1. /\ rid[w] # None
        /\ found[u] # rid[w]
        /\ call[u] \notin {"lookup", "create"}
    <2>1. u \in active
      BY DEF Serve, TypeOK, CallInv
    <2> QED
      BY <2>1, Apart
  <1>2. rid' = rid
    BY DEF Serve, config
  <1>3. CASE UNCHANGED records
    BY <1>2, <1>3 DEF Own, Present
  <1>4. CASE Update(u)
    BY <1>1, <1>2, <1>4 DEF Update, Own, Present, TypeOK
  <1> QED
    BY <1>1, <1>3, <1>4 DEF Serve

(***************************************************************************)
(* The provider serves an exclusive updater's update or creation: its      *)
(* records hold the address from then on.                                  *)
(***************************************************************************)
LEMMA ServeOwn ==
  ASSUME TypeOK, CallInv, RoomInv,
         NEW w \in Updaters, Exclusive(w), Serve(w), call[w] \in {"update", "create"}
  PROVE  \A r \in Own(w)' : records'[r] = addr[w]
  <1>1. rid' = rid
    BY DEF Serve, config
  <1>2. CASE call[w] = "update"
    <2>1. found[w] \in Present /\ records' = [records EXCEPT ![found[w]] = addr[w]]
      BY <1>2 DEF Serve, Update
    <2>2. records'[found[w]] = addr[w] /\ Present' \subseteq Present
      BY <2>1 DEF TypeOK, Present
    <2>3. CASE rid[w] = None
      <3>1. \A r \in Present : r = found[w]
        BY <2>1, <2>3, AtMostOne
      <3> QED
        BY <1>1, <2>2, <2>3, <3>1 DEF Own
    <2>4. CASE rid[w] # None
      <3>1. found[w] = rid[w]
        BY <2>1, <2>4, DnsAssumption DEF CallInv, Present
      <3> QED
        BY <1>1, <2>2, <2>4, <3>1 DEF Own
    <2> QED
      BY <2>3, <2>4
  <1>3. CASE call[w] = "create"
    <2>1. rid[w] = None
      BY <1>3 DEF CallInv
    <2>2. w \in Pending
      BY <1>3, <2>1 DEF Serve, CallInv, Pending, Creators
    <2>3. Present = {}
      BY <2>1, <2>2, AtMostOne
    <2>4. PICK r \in Ids : records' = [records EXCEPT ![r] = addr[w]]
      BY <1>3 DEF Serve, Create
    <2>5. \A q \in Ids : records[q] = None
      BY <2>3 DEF Present
    <2>6. \A q \in Present' : q = r
      BY <2>4, <2>5 DEF Present, TypeOK
    <2>7. records'[r] = addr[w]
      BY <2>4 DEF TypeOK
    <2>8. rid'[w] = None
      BY <1>1, <2>1
    <2> QED
      BY <2>6, <2>7, <2>8 DEF Own
  <1> QED
    BY <1>2, <1>3

(***************************************************************************)
(* PublishedInv is kept.                                                   *)
(***************************************************************************)
LEMMA PublishedStep == IInv /\ [Next]_vars => PublishedInv'
  <1> SUFFICES ASSUME IInv, [Next]_vars,
                      NEW w \in Updaters, Exclusive(w)', Published(w)'
               PROVE  (\A r \in Own(w) : records[r] = addr[w])'
    BY DEF PublishedInv
  <1>1. TypeOK /\ CallInv /\ RoomInv /\ PublishedInv
    BY DEF IInv
  <1>2. active' = active /\ rid' = rid
    BY DEF Next, vars, config, NewAddress, ZoneOk, LookupOk, WriteOk, Err, Serve, Delete
  <1>3. Exclusive(w)
    BY <1>2 DEF Exclusive
  <1>4. Published(w) => \A r \in Own(w) : records[r] = addr[w]
    BY <1>1, <1>3 DEF PublishedInv
  <1>5. ASSUME records' = records, addr'[w] = addr[w], Published(w)
        PROVE  (\A r \in Own(w) : records[r] = addr[w])'
    BY <1>2, <1>4, <1>5 DEF Own, Present
  <1> USE DEF Published
  <1>6. ASSUME NEW u \in Updaters, NEW a \in Addrs, NewAddress(u, a)
        PROVE  (\A r \in Own(w) : records[r] = addr[w])'
    <2>1. u # w
      BY <1>1, <1>6, ExchangeType DEF NewAddress, Ask, TypeOK
    <2> QED
      BY <1>1, <1>5, <1>6, <2>1 DEF NewAddress, Ask, TypeOK
  <1>7. ASSUME NEW u \in Updaters, ZoneOk(u) \/ LookupOk(u)
        PROVE  (\A r \in Own(w) : records[r] = addr[w])'
    <2>1. u # w
      BY <1>1, <1>7 DEF ZoneOk, LookupOk, Ask, Answered, TypeOK, CallInv
    <2> QED
      BY <1>1, <1>5, <1>7, <2>1 DEF ZoneOk, LookupOk, Ask, TypeOK
  <1>8. ASSUME NEW u \in Updaters, WriteOk(u)
        PROVE  (\A r \in Own(w) : records[r] = addr[w])'
    <2>1. records' = records /\ addr' = addr
      BY <1>8 DEF WriteOk
    <2>2. Published(w)
      BY <1>1, <1>8 DEF WriteOk, Return, Answered, TypeOK
    <2> QED
      BY <1>5, <2>1, <2>2
  <1>9. ASSUME NEW u \in Updaters, Err(u)
        PROVE  (\A r \in Own(w) : records[r] = addr[w])'
    <2>1. records' = records /\ addr' = addr
      BY <1>9 DEF Err
    <2>2. Published(w)
      BY <1>1, <1>9 DEF Err, Return, TypeOK
    <2> QED
      BY <1>5, <2>1, <2>2
  <1>10. ASSUME NEW u \in Updaters, Serve(u)
         PROVE  (\A r \in Own(w) : records[r] = addr[w])'
    <2>1. addr' = addr /\ call' = call /\ result' = result
      BY <1>10 DEF Serve
    <2>2. CASE u = w
      <3>1. call[w] # "idle"
        BY <1>1, <1>10, <2>2 DEF Serve, TypeOK
      <3>2. call[w] \in {"update", "create"}
        BY <1>1, <2>1, <3>1 DEF CallInv
      <3> QED
        BY <1>1, <1>3, <1>10, <2>1, <2>2, <3>2, ServeOwn
    <2>3. CASE u # w
      <3>1. Published(w)
        BY <1>1, <1>10, <2>1, <2>3 DEF Serve, TypeOK
      <3>2. \A r \in Own(w)' : r \in Own(w) /\ records'[r] = records[r]
        BY <1>1, <1>3, <1>10, <2>3, ServeOther
      <3> QED
        BY <1>4, <2>1, <3>1, <3>2
    <2> QED
      BY <2>2, <2>3
  <1>11. ASSUME NEW d \in Ids, Delete(d)
         PROVE  (\A r \in Own(w) : records[r] = addr[w])'
    <2>1. Published(w) /\ addr' = addr
      BY <1>11 DEF Delete
    <2>2. \A r \in Own(w)' : r \in Own(w) /\ records'[r] = records[r]
      BY <1>1, <1>2, <1>11 DEF Delete, Own, Present, TypeOK
    <2> QED
      BY <1>4, <2>1, <2>2
  <1>12. CASE UNCHANGED vars
    BY <1>5, <1>12 DEF vars
  <1> QED
    BY <1>6, <1>7, <1>8, <1>9, <1>10, <1>11, <1>12 DEF Next

(***************************************************************************)
(* The invariant holds in every reachable state.                           *)
(***************************************************************************)
THEOREM Invariance == Spec => []IInv
  <1>1. IInv /\ [Next]_vars => IInv'
    BY TypeStep, CallStep, RoomStep, PublishedStep DEF IInv
  <1> QED
    BY <1>1, InitIInv, PTL DEF Spec

(***************************************************************************)
(* The variables have the types declared for them.                         *)
(***************************************************************************)
THEOREM TypeCorrect == Spec => []TypeOK
  <1>1. IInv => TypeOK
    BY DEF IInv
  <1> QED
    BY <1>1, Invariance, PTL

(***************************************************************************)
(* Racing updaters never leave more records than there are updaters that   *)
(* may create one, for any numbers of them (get_record_id, create_record). *)
(***************************************************************************)
THEOREM RecordsAreBounded == Spec => []RecordsBounded
  <1>1. IInv => RecordsBounded
    BY Finite DEF IInv, RoomInv, RecordsBounded
  <1> QED
    BY <1>1, Invariance, PTL

(***************************************************************************)
(* After an Ok of new_address, the records of an updater that shares them  *)
(* with nobody hold its address.                                           *)
(***************************************************************************)
THEOREM PublishedWhenOk == Spec => []OkIsPublished
  <1>1. IInv => OkIsPublished
    BY DEF IInv, PublishedInv, Published, OkIsPublished
  <1> QED
    BY <1>1, Invariance, PTL
-----------------------------------------------------------------------------
(***************************************************************************)
(* What an exclusive updater shows depends on its own records only, of     *)
(* which there is one at most.                                             *)
(***************************************************************************)
LEMMA OwnOne ==
  ASSUME IInv, NEW w \in Updaters, Exclusive(w)
  PROVE  \A r, s \in Own(w) : r = s
  <1>1. CASE rid[w] = None
    BY <1>1, AtMostOne DEF IInv, Own
  <1>2. CASE rid[w] # None
    BY <1>2 DEF Own
  <1> QED
    BY <1>1, <1>2

(***************************************************************************)
(* It shows the same as long as they do, and what they all hold.           *)
(***************************************************************************)
LEMMA ShownKept ==
  ASSUME NEW w \in Updaters, Own(w)' = Own(w), \A r \in Own(w) : records'[r] = records[r]
  PROVE  Shown(w)' = Shown(w)
  BY DEF Shown

LEMMA ShownBecomes ==
  ASSUME NEW w \in Updaters, NEW a, Own(w)' # {}, \A r \in Own(w)' : records'[r] = a
  PROVE  Shown(w)' = a
  BY DEF Shown

(***************************************************************************)
(* The step of one updater is that of its own Publisher, or none.          *)
(***************************************************************************)
LEMMA OwnStep ==
  ASSUME IInv, NEW w \in Updaters, Exclusive(w),
         \/ \E a \in Addrs : NewAddress(w, a)
         \/ ZoneOk(w) \/ LookupOk(w) \/ WriteOk(w) \/ Err(w) \/ Serve(w)
  PROVE  [Watcher(w)!Next]_(Watcher(w)!vars)
  <1> USE DEF IInv, TypeOK, config, Answered, Watcher!Next, Watcher!vars
  <1>1. ASSUME records' = records, rid' = rid PROVE Shown(w)' = Shown(w)
    <2>1. Own(w)' = Own(w)
      BY <1>1 DEF Own, Present
    <2> QED
      BY <1>1, <2>1, ShownKept
  <1>2. ASSUME NEW a \in Addrs, NewAddress(w, a) PROVE Watcher(w)!Call
    <2>1. Shown(w)' = Shown(w)
      BY <1>1, <1>2 DEF NewAddress
    <2>2. call'[w] # "idle" /\ request'[w] = "sent" /\ request[w] = "none"
      BY <1>2, ExchangeType DEF NewAddress, Ask
    <2> QED
      BY <1>2, <2>1, <2>2 DEF NewAddress, Watcher!Call
  <1>3. ASSUME ZoneOk(w) \/ LookupOk(w) PROVE UNCHANGED Watcher(w)!vars
    <2>1. Shown(w)' = Shown(w)
      BY <1>1, <1>3 DEF ZoneOk, LookupOk
    <2>2. /\ call'[w] # "idle" /\ request'[w] = "sent"
          /\ call[w] \in {"zone", "lookup"}
      BY <1>3, ExchangeType DEF ZoneOk, LookupOk, Ask
    <2>3. addr'[w] = addr[w] /\ result'[w] = result[w]
      BY <1>3 DEF ZoneOk, LookupOk
    <2> QED
      BY <2>1, <2>2, <2>3
  <1>4. ASSUME WriteOk(w) PROVE Watcher(w)!Ok
    <2>1. Shown(w)' = Shown(w)
      BY <1>1, <1>4 DEF WriteOk
    <2> QED
      BY <1>4, <2>1 DEF WriteOk, Return, Watcher!Ok, Watcher!Return
  <1>5. ASSUME Err(w) PROVE Watcher(w)!Err
    <2>1. Shown(w)' = Shown(w)
      BY <1>1, <1>5 DEF Err
    <2> QED
      BY <1>5, <2>1 DEF Err, Return, Watcher!Err, Watcher!Return
  <1>6. ASSUME Serve(w), call[w] \in {"zone", "lookup"} PROVE UNCHANGED Watcher(w)!vars
    <2>1. Shown(w)' = Shown(w)
      BY <1>1, <1>6 DEF Serve, List
    <2> QED
      BY <1>6, <2>1 DEF Serve
  <1>7. ASSUME Serve(w), call[w] \in {"update", "create"} PROVE Watcher(w)!Store
    <2>1. \A r \in Own(w)' : records'[r] = addr[w]
      BY <1>7, ServeOwn
    <2>2. addr[w] # None
      BY <1>7, DnsAssumption DEF CallInv
    <2>3. Own(w)' # {}
      <3>1. rid' = rid
        BY <1>7 DEF Serve
      <3>2. CASE call[w] = "update"
        <4>1. found[w] \in Present /\ records' = [records EXCEPT ![found[w]] = addr[w]]
          BY <1>7, <3>2 DEF Serve, Update
        <4>2. found[w] \in Present'
          BY <4>1, <2>2 DEF Present
        <4>3. rid[w] \in {None, found[w]}
          BY <4>1, DnsAssumption DEF CallInv, Present
        <4> QED
          BY <3>1, <4>2, <4>3 DEF Own
      <3>3. CASE call[w] = "create"
        <4>1. PICK r \in Ids : records' = [records EXCEPT ![r] = addr[w]]
          BY <1>7, <3>3 DEF Serve, Create
        <4>2. r \in Present'
          BY <4>1, <2>2 DEF Present
        <4>3. rid[w] = None
          BY <3>3 DEF CallInv
        <4> QED
          BY <3>1, <4>2, <4>3 DEF Own
      <3> QED
        BY <1>7, <3>2, <3>3
    <2>4. Shown(w)' = addr[w]
      BY <2>1, <2>3, ShownBecomes
    <2> QED
      BY <1>7, <2>4 DEF Serve, Watcher!Store
  <1>8. ASSUME Serve(w) PROVE call[w] \in {"zone", "lookup", "update", "create"}
    BY <1>8 DEF Serve
  <1> QED
    BY <1>2, <1>3, <1>4, <1>5, <1>6, <1>7, <1>8

(***************************************************************************)
(* A step of another updater changes nothing that an exclusive one shows.  *)
(***************************************************************************)
LEMMA OtherStep ==
  ASSUME IInv, NEW w \in Updaters, Exclusive(w), NEW u \in Updaters \ {w},
         \/ \E a \in Addrs : NewAddress(u, a)
         \/ ZoneOk(u) \/ LookupOk(u) \/ WriteOk(u) \/ Err(u) \/ Serve(u)
  PROVE  UNCHANGED Watcher(w)!vars
  <1> USE DEF IInv, TypeOK, config
  <1>1. /\ call'[w] = call[w] /\ request'[w] = request[w]
        /\ addr'[w] = addr[w] /\ result'[w] = result[w]
        /\ rid' = rid
    BY DEF NewAddress, ZoneOk, LookupOk, WriteOk, Err, Serve, Ask, Return
  <1>2. CASE records' = records
    <2>1. Own(w)' = Own(w)
      BY <1>1, <1>2 DEF Own, Present
    <2>2. Shown(w)' = Shown(w)
      BY <1>2, <2>1, ShownKept
    <2> QED
      BY <1>1, <2>2 DEF Watcher!vars, Answered
  <1>3. CASE Serve(u) /\ Update(u)
    <2>1. rid[w] # None /\ found[u] # rid[w]
      <3>1. u \in active
        BY <1>3 DEF Serve, CallInv
      <3> QED
        BY <3>1, Apart
    <2>2. /\ records'[rid[w]] = records[rid[w]]
          /\ Own(w)' = Own(w)
          /\ \A r \in Own(w) : records'[r] = records[r]
      BY <1>1, <1>3, <2>1 DEF Update, Own, Present
    <2>3. Shown(w)' = Shown(w)
      BY <2>2, ShownKept
    <2> QED
      BY <1>1, <2>3 DEF Watcher!vars, Answered
  <1>4. ASSUME Serve(u) PROVE records' = records \/ Update(u)
    <2>1. u \in active
      BY <1>4 DEF Serve, CallInv
    <2>2. call[u] # "create"
      BY <2>1, Apart
    <2> QED
      BY <1>4, <2>2 DEF Serve, List
  <1> QED
    BY <1>2, <1>3, <1>4 DEF NewAddress, ZoneOk, LookupOk, WriteOk, Err

(***************************************************************************)
(* Every step is one of the Publisher of each exclusive updater, or none   *)
(* of its own.                                                             *)
(***************************************************************************)
LEMMA PublisherStep ==
  ASSUME IInv, [Next]_vars, NEW w \in Updaters, Exclusive(w)
  PROVE  [Watcher(w)!Next]_(Watcher(w)!vars)
  <1>1. ASSUME NEW u \in Updaters,
               \/ \E a \in Addrs : NewAddress(u, a)
               \/ ZoneOk(u) \/ LookupOk(u) \/ WriteOk(u) \/ Err(u) \/ Serve(u)
        PROVE  [Watcher(w)!Next]_(Watcher(w)!vars)
    <2>1. CASE u = w
      BY <1>1, <2>1, OwnStep
    <2>2. CASE u # w
      BY <1>1, <2>2, OtherStep
    <2> QED
      BY <2>1, <2>2
  <1>2. ASSUME NEW d \in Ids, Delete(d)
        PROVE  [Watcher(w)!Next]_(Watcher(w)!vars)
    <2>1. /\ UNCHANGED <<call, request, addr, result, rid>>
          /\ Own(w)' = Own(w) \ {d}
          /\ \A r \in Own(w)' : records'[r] = records[r]
      BY <1>2 DEF Delete, Own, Present, config, IInv, TypeOK
    <2>2. CASE d \in Own(w)
      <3>1. Own(w)' = {}
        BY <2>1, <2>2, OwnOne
      <3>2. Shown(w)' = None
        BY <3>1 DEF Shown
      <3>3. Watcher(w)!Delete
        BY <2>1, <3>2 DEF Watcher!Delete, Answered
      <3> QED
        BY <3>3 DEF Watcher!Next
    <2>3. CASE d \notin Own(w)
      <3>1. Own(w)' = Own(w)
        BY <2>1, <2>3
      <3>2. Shown(w)' = Shown(w)
        BY <2>1, <3>1, ShownKept
      <3> QED
        BY <2>1, <3>2 DEF Watcher!vars, Answered
    <2> QED
      BY <2>2, <2>3
  <1>3. CASE UNCHANGED vars
    <2>1. Own(w)' = Own(w) /\ records' = records
      BY <1>3 DEF vars, config, Own, Present
    <2>2. Shown(w)' = Shown(w)
      BY <2>1, ShownKept
    <2> QED
      BY <1>3, <2>2 DEF vars, Watcher!vars, Answered
  <1> QED
    BY <1>1, <1>2, <1>3 DEF Next

(***************************************************************************)
(* Whatever record there is at the start, it shows an address, or none.    *)
(***************************************************************************)
LEMMA InitPublisher ==
  ASSUME Init, NEW w \in Updaters
  PROVE  Watcher(w)!Init
  <1>1. Shown(w) \in Addrs \cup {None}
    BY DEF Init, Shown, Own, Present
  <1> QED
    BY <1>1 DEF Init, Watcher!Init, Answered

(***************************************************************************)
(* An updater that shares its records with nobody implements Publisher,    *)
(* for any numbers of updaters and records: no failed exchange and no      *)
(* repeated call stores an address twice or beside an earlier one          *)
(* (new_address of the DNS watchers).                                      *)
(***************************************************************************)
THEOREM Refinement == Spec => ImplementsPublisher
  <1>1. Init => \A u \in Updaters : Exclusive(u) => Watcher(u)!Init
    BY InitPublisher
  <1>2. IInv /\ [Next]_vars
          => [\A u \in Updaters :
                Exclusive(u) => [Watcher(u)!Next]_(Watcher(u)!vars)]_vars
    BY PublisherStep
  <1> QED
    BY <1>1, <1>2, Invariance, PTL DEF Spec, ImplementsPublisher
=============================================================================
