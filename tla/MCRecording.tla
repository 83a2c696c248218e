------------------------------ MODULE MCRecording ------------------------------
(* A small instance of Recording for TLC.                                  *)
EXTENDS Recording
=============================================================================
