--------------------------- MODULE ConversationLog ---------------------------
(***************************************************************************)
(* What the gateway promises of the conversations it keeps, one per device: *)
(* a log that only grows, where a run says its user turn once and its       *)
(* answer once, after it; a durable copy that is always some past state of  *)
(* the log; and a restart that goes back to the durable copy.               *)
(***************************************************************************)
EXTENDS Naturals, Sequences, SequencesExt

CONSTANTS Devices,   \* devices, each with one conversation
          Runs       \* agent runs, each with at most one exchange

VARIABLES log,       \* the conversation in memory
          durable    \* the conversation on disk

vars == <<log, durable>>

Turns == {"user", "assistant"} \X Runs

Init ==
  /\ durable \in [Devices -> Seq(Turns)]
  /\ log = durable

Says(d, turn) ==
  /\ turn \notin Range(log[d])
  /\ log' = [log EXCEPT ![d] = Append(@, turn)]
  /\ UNCHANGED durable

Ask(d, r) == Says(d, <<"user", r>>)

Answer(d, r) == <<"user", r>> \in Range(log[d]) /\ Says(d, <<"assistant", r>>)

Persist(d) ==
  /\ \E n \in 0 .. Len(log[d]) : durable' = [durable EXCEPT ![d] = SubSeq(log[d], 1, n)]
  /\ UNCHANGED log

Restart == log' = durable /\ UNCHANGED durable

Next ==
  \/ \E d \in Devices : Persist(d) \/ \E r \in Runs : Ask(d, r) \/ Answer(d, r)
  \/ Restart

Spec == Init /\ [][Next]_vars
=============================================================================
