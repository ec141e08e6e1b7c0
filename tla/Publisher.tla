------------------------------ MODULE Publisher ------------------------------
(***************************************************************************)
(* What a watcher promises the mapper task that calls its new_address      *)
(* (Watcher in src/watcher/mod.rs), if nobody else writes its record: a    *)
(* call stores the address it was made with, once at most, and the record  *)
(* changes at no other time.  Ok means that it was stored, an error says   *)
(* nothing.  Somebody may delete the record by hand.                       *)
(***************************************************************************)
CONSTANTS
    Addrs,  \* values of the record, one per mapped address
    None    \* no address; no record

VARIABLES
    busy,   \* is new_address running?
    addr,   \* the address it was last called with
    stored, \* has this call stored it?
    shown,  \* what the record holds
    result  \* how the last call ended

vars == <<busy, addr, stored, shown, result>>

Init ==
    /\ busy = FALSE /\ addr = None
    /\ stored = FALSE /\ shown \in Addrs \cup {None}
    /\ result = "none"

Call ==
    /\ ~busy
    /\ busy' = TRUE
    /\ addr' \in Addrs
    /\ result' = "none"
    /\ UNCHANGED <<stored, shown>>

Store ==
    /\ busy /\ ~stored
    /\ stored' = TRUE
    /\ shown' = addr
    /\ UNCHANGED <<busy, addr, result>>

Return(outcome) ==
    /\ busy
    /\ busy' = FALSE /\ stored' = FALSE
    /\ result' = outcome
    /\ UNCHANGED <<addr, shown>>

Ok == stored /\ Return("ok")
Err == Return("error")

Delete ==
    /\ shown' = None
    /\ UNCHANGED <<busy, addr, stored, result>>

Next == Call \/ Store \/ Ok \/ Err \/ Delete

Spec == Init /\ [][Next]_vars
=============================================================================
