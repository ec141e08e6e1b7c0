---------------------------- MODULE MCUdpClient ----------------------------
(***************************************************************************)
(* Two addresses for the NAT to alternate between, two servers, and two    *)
(* ids: the current request's and that of an outdated one, whose datagrams *)
(* may still be in the network.                                            *)
(***************************************************************************)
EXTENDS UdpClient
=============================================================================
