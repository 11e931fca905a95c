----------------------------- MODULE MCWorkers -----------------------------
(* Instance of Workers for TLC. *)
EXTENDS Workers
=============================================================================
