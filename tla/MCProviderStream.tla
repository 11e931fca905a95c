-------------------------- MODULE MCProviderStream --------------------------
(* Instance of ProviderStream for TLC. *)
EXTENDS ProviderStream
=============================================================================
