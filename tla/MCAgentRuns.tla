----------------------------- MODULE MCAgentRuns -----------------------------
(* Instance of AgentRuns for TLC. *)
EXTENDS AgentRuns
=============================================================================
