----------------------------- MODULE MCEventFeed -----------------------------
(* A small instance of EventFeed for TLC: two threads, one socket, and a    *)
(* stream id that is started twice.                                        *)
EXTENDS EventFeed
=============================================================================
