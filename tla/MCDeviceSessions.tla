-------------------------- MODULE MCDeviceSessions --------------------------
(* Instance of DeviceSessions for TLC. *)
EXTENDS DeviceSessions, TLC

Symmetry == Permutations(Devices) \cup Permutations(Conns)
=============================================================================
