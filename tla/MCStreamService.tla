-------------------------- MODULE MCStreamService --------------------------
(* Instances of StreamService for TLC: the lives of one stream id, two      *)
(* threads that stop it and the one that shuts the service down.            *)
EXTENDS StreamService, TLC

CONSTANTS a, k1, k2, boss
=============================================================================
