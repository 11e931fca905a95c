---------------------------- MODULE SessionMemory ----------------------------
(***************************************************************************)
(* The memory of a device (agent/memory): every exchange of its conversation *)
(* starts a memory agent, which counts the turns, and at every interval'th   *)
(* one gives the last exchanges and the memory file to a model, and replaces *)
(* the file with what it answers.  Agents of one device do not exclude each  *)
(* other, nor the exchanges that come next.                                 *)
(*                                                                         *)
(* An exchange holds a fact or none, and the model merges faithfully; how it *)
(* words the memory, and the cut at max_words, are left out.                *)
(***************************************************************************)
EXTENDS Naturals, Sequences, FiniteSets, SequencesExt

CONSTANTS Exchanges,  \* agent runs of the device that answer
          Intervals,  \* values turn_interval may have
          MaxAtOnce   \* bound: exchanges in progress with their agents

ASSUME MemoryAssumption == Intervals \subseteq Nat /\ MaxAtOnce \in Nat

VARIABLES
  interval, \* turn_interval
  facts,    \* the exchanges with something to remember
  log,      \* the turns of the conversation
  pc,       \* control state of an exchange and of its memory agent
  window,   \* the exchanges an agent shows to its model
  base,     \* the memory an agent read
  memory,   \* the memory file
  overlap,  \* whether an agent or an exchange overtook another
  failed    \* whether an agent failed or missed the file

vars == <<interval, facts, log, pc, window, base, memory, overlap, failed>>
-----------------------------------------------------------------------------
Turn(role, e) == [role |-> role, of |-> e]

TypeOK ==
  /\ interval \in Intervals
  /\ facts \in SUBSET Exchanges
  /\ log \in Seq([role : {"user", "assistant"}, of : Exchanges])
  /\ pc \in [Exchanges -> {"run", "answer", "spawned", "due", "load", "merge", "done"}]
  /\ window \in [Exchanges -> SUBSET Exchanges]
  /\ base \in [Exchanges -> SUBSET Exchanges]
  /\ memory \in SUBSET Exchanges
  /\ overlap \in BOOLEAN
  /\ failed \in BOOLEAN

Init ==
  /\ interval \in Intervals
  /\ facts \in SUBSET Exchanges
  /\ log = <<>>
  /\ pc = [e \in Exchanges |-> "run"]
  /\ window = [e \in Exchanges |-> {}]
  /\ base = [e \in Exchanges |-> {}]
  /\ memory = {}
  /\ overlap = FALSE
  /\ failed = FALSE

Goto(e, to) == pc' = [pc EXCEPT ![e] = to]
Leave(e) == Goto(e, "done") /\ window' = [window EXCEPT ![e] = {}] /\ base' = [base EXCEPT ![e] = {}]
Another(e, stages) == \E o \in Exchanges \ {e} : pc[o] \in stages

\* The two turns of an exchange are recorded one after the other.
RecordUser(e) ==
  /\ pc[e] = "run"
  /\ Cardinality({o \in Exchanges : pc[o] \notin {"run", "done"}}) < MaxAtOnce
  /\ log' = Append(log, Turn("user", e))
  /\ Goto(e, "answer")
  /\ overlap' = (overlap \/ Another(e, {"answer", "spawned", "due"}))
  /\ UNCHANGED <<interval, facts, window, base, memory, failed>>

RecordAnswer(e) ==
  /\ pc[e] = "answer"
  /\ log' = Append(log, Turn("assistant", e))
  /\ Goto(e, "spawned")
  /\ UNCHANGED <<interval, facts, window, base, memory, overlap, failed>>

\* The places of the user's turns among the first n.
UserTurns(n) == {k \in 1 .. n : log[k].role = "user"}
TurnCount == Cardinality(UserTurns(Len(log)))

\* The agent counts when it comes to run.
Check(e) ==
  /\ pc[e] = "spawned"
  /\ Goto(e, IF TurnCount = 0 \/ interval = 0 THEN "done"
             ELSE IF TurnCount % interval # 0 THEN "done" ELSE "due")
  /\ UNCHANGED <<interval, facts, log, window, base, memory, overlap, failed>>

\* Mutant: as many messages as the interval has turns.
HalfWindow == {t.of : t \in Range(SubSeq(log, 1 + (IF Len(log) > interval THEN Len(log) - interval ELSE 0),
                                         Len(log)))}

Recent == {t.of : t \in Range(SubSeq(log, 1 + (IF Len(log) > 2 * interval THEN Len(log) - 2 * interval ELSE 0),
                                     Len(log)))}

ReadHistory(e) ==
  /\ pc[e] = "due"
  /\ window' = [window EXCEPT ![e] = Recent]
  /\ Goto(e, "load")
  /\ UNCHANGED <<interval, facts, log, base, memory, overlap, failed>>

ReadMemory(e) ==
  /\ pc[e] = "load"
  /\ base' = [base EXCEPT ![e] = memory]
  /\ Goto(e, "merge")
  /\ overlap' = (overlap \/ Another(e, {"load", "merge"}))
  /\ UNCHANGED <<interval, facts, log, window, memory, failed>>

\* The whole file is replaced, or left alone if there is nothing to remember.
Write(e) ==
  /\ pc[e] = "merge"
  /\ memory' = IF window[e] \cap facts = {} THEN memory ELSE base[e] \cup (window[e] \cap facts)
  /\ Leave(e)
  /\ UNCHANGED <<interval, facts, log, overlap, failed>>

\* The file cannot be read: the agent goes on as if there were no memory, and
\* its write replaces what there is.
MissMemory(e) ==
  /\ pc[e] = "load"
  /\ base' = [base EXCEPT ![e] = {}]
  /\ Goto(e, "merge")
  /\ failed' = TRUE
  /\ UNCHANGED <<interval, facts, log, window, memory, overlap>>

\* No model, a failed call or write, or the end of the process, which may come
\* between the two turns of an exchange.
Fail(e) ==
  /\ pc[e] \in {"answer", "spawned", "due", "load", "merge"}
  /\ Leave(e)
  /\ failed' = TRUE
  /\ UNCHANGED <<interval, facts, log, memory, overlap>>

Next == \E e \in Exchanges :
  \/ RecordUser(e) \/ RecordAnswer(e)
  \/ Check(e) \/ ReadHistory(e) \/ ReadMemory(e) \/ MissMemory(e) \/ Write(e) \/ Fail(e)

Spec == Init /\ [][Next]_vars
-----------------------------------------------------------------------------
\* When no agent is at work, the memory has the facts of all exchanges up to
\* the last interval, provided that no agent failed and that none was overtaken:
\* a trigger may be missed when two exchanges are counted as one, and of two
\* agents that merge at once the first one's work is lost (agent/memory.rs).
MemoryCovers ==
  (\A e \in Exchanges : pc[e] \in {"run", "done"}) /\ ~overlap /\ ~failed /\ interval > 0 =>
    \A k \in UserTurns(Len(log)) :
      Cardinality(UserTurns(k)) <= interval * (TurnCount \div interval) /\ log[k].of \in facts
        => log[k].of \in memory
=============================================================================
