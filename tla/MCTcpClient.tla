---------------------------- MODULE MCTcpClient ----------------------------
(***************************************************************************)
(* Two addresses, so that the NAT can remap the port between two           *)
(* measurements, and two servers, so that there is a turn to take.         *)
(***************************************************************************)
EXTENDS TcpClient
=============================================================================
