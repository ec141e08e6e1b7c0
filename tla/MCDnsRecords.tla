---------------------------- MODULE MCDnsRecords ----------------------------
(***************************************************************************)
(* Two updaters that race, or one that is alone: the other is not active   *)
(* then.  Ids has one for every record two creations can make and one to   *)
(* spare.                                                                  *)
(***************************************************************************)
EXTENDS DnsRecords
=============================================================================
