----------------------------- MODULE MCWsSession -----------------------------
(* Instances of WsSession for TLC. *)
EXTENDS WsSession
=============================================================================
