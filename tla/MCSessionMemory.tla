-------------------------- MODULE MCSessionMemory --------------------------
(* Instance of SessionMemory for TLC. *)
EXTENDS SessionMemory, TLC

Alike == Permutations(Exchanges)
=============================================================================
