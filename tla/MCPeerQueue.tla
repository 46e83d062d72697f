---------------------------- MODULE MCPeerQueue ----------------------------
(***************************************************************************)
(* The peers queue: rows that are overwritten.                             *)
(***************************************************************************)
EXTENDS PeerQueue
=============================================================================
