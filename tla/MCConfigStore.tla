---------------------------- MODULE MCConfigStore ----------------------------
(* Instance of ConfigStore for TLC. *)
EXTENDS ConfigStore, TLC

Alike == Permutations(Commands)
=============================================================================
