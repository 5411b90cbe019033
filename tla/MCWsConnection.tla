--------------------------- MODULE MCWsConnection ---------------------------
(* TLC instances of WsConnection. *)
EXTENDS WsConnection, TLC

Interchangeable == Permutations(Subs)
=============================================================================
