---------------------------- MODULE AddressFeed ----------------------------
(***************************************************************************)
(* What a NAT client (src/client/mod.rs) promises the mapper that owns the *)
(* other end of its callback channel.  The client works in epochs: a       *)
(* keep-alive connection of the TCP client, a binding request of the UDP   *)
(* client.  In an epoch it reports at most one address, and only one that  *)
(* a STUN server observed in that same epoch: never a left-over of an      *)
(* earlier connection or request, whose NAT mapping may be gone.           *)
(***************************************************************************)
CONSTANTS
    Addrs,  \* mapped addresses
    None    \* no address

VARIABLES
    measured,   \* the addresses STUN servers observed in this epoch
    said,       \* has this epoch's one report been made, or given up?
    inbox       \* the callback channel, of capacity 1

vars == <<measured, said, inbox>>

Init ==
    /\ measured = {}
    /\ said \in BOOLEAN
    /\ inbox = None

Begin ==
    /\ measured' = {}
    /\ said' = FALSE
    /\ UNCHANGED inbox

Measure ==
    /\ \E a \in Addrs : measured' = measured \cup {a}
    /\ UNCHANGED <<said, inbox>>

Report ==
    /\ ~said
    /\ inbox = None
    /\ inbox' \in measured
    /\ said' = TRUE
    /\ UNCHANGED measured

GiveUp ==
    /\ said' = TRUE
    /\ UNCHANGED <<measured, inbox>>

\* The mapper receives the report.
Take ==
    /\ inbox' = None
    /\ UNCHANGED <<measured, said>>

Next == Begin \/ Measure \/ Report \/ GiveUp \/ Take

Spec == Init /\ [][Next]_vars
=============================================================================
