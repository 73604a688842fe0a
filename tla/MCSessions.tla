----------------------------- MODULE MCSessions -----------------------------
(* Sessions on a small instance. *)
EXTENDS Sessions
MCSessionIds == 1 .. 1
MCTokens == 1 .. 3
=============================================================================
