----------------------------- MODULE MCBatching -----------------------------
(* An instance of Batching for TLC: three streams whose frames alternate,   *)
(* and passes of two, so that a request can wait while a pass is under way. *)
EXTENDS Batching

CONSTANTS a, b, c, f, g
=============================================================================
