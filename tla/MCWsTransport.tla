---------------------------- MODULE MCWsTransport ----------------------------
(* TLC instances of WsTransport: everything is finite by its bounds. *)
EXTENDS WsTransport
=============================================================================
