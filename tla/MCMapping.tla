----------------------------- MODULE MCMapping -----------------------------
(***************************************************************************)
(* A report every unit, one unit to handle it and at most one failed       *)
(* renewal: three units from one renewal to the next, the tightest gap     *)
(* that a lease of 12 units admits.  One watcher and two addresses, so     *)
(* that a report can bring an address that is new, known or pending.       *)
(***************************************************************************)
EXTENDS Mapping
=============================================================================
