---------------------------- MODULE MCHotReload ----------------------------
(* Instance of HotReload for TLC. *)
EXTENDS HotReload
=============================================================================
