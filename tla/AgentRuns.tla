------------------------------ MODULE AgentRuns ------------------------------
(***************************************************************************)
(* The agent requests of the gateway (agent/runner.rs) and the conversation *)
(* they are recorded in (agent/session.rs).  A request is acknowledged,     *)
(* claims its idempotency key, takes its context out of the history, streams*)
(* the model's answer, records the exchange as two turns, each saved to     *)
(* disk, answers the client and frees the key.                              *)
(*                                                                         *)
(* Requests run concurrently: the streams are tasks of their own, and a     *)
(* device may have several connections.  A turn is <<role, request>>.       *)
(***************************************************************************)
EXTENDS Integers, Sequences, FiniteSets, SequencesExt

CONSTANTS Requests,    \* agent requests
          Earlier,     \* requests served before the gateway last started
          Devices,     \* device tokens
          None,        \* no token: a loopback session
          Keys,        \* idempotency keys
          Budget,      \* context_tokens, one token a message
          MaxCrashes   \* bound: crashes of the gateway

ASSUME RunAssumption ==
  /\ None \notin Devices /\ Earlier \cap Requests = {}
  /\ Budget \in Nat \ {0}
  /\ MaxCrashes \in Nat

VARIABLES
  device,    \* device_token of each request
  key,       \* idempotency_key of each request
  pc,        \* control state of handle_agent and stream_agent_response
  gone,      \* requests whose connection has closed
  res,       \* `res` frames queued for each request
  active,    \* GatewayState.active_requests
  prompt,    \* messages sent to the model for each request
  history,   \* SessionManager.sessions
  copy,      \* the session cloned by record_message and not yet saved
  disk,      \* conversation.enc
  crashes,   \* crashes so far
  known      \* history: requests answered before this one was acknowledged
             \* (and since the last crash)

inputs == <<device, key>>
talk == <<history, copy, disk>>
vars == <<inputs, pc, gone, res, active, prompt, talk, crashes, known>>
-----------------------------------------------------------------------------
Turns == {"user", "assistant"} \X (Requests \cup Earlier)
Tokens == Devices \cup {None}

\* Control states in which a run holds its key.
InFlight == {"resolve", "prepare", "stream", "user", "saveUser", "assistant",
             "saveAssistant", "reply", "error", "release"}
PC == InFlight \cup {"new", "claim", "refuse", "panicked", "duplicate", "lost", "done"}

\* Mutants: the key is not paired with the device.
UnscopedKey(r) == <<None, key[r]>>
BareKey(r) == key[r]

DedupKey(r) == <<device[r], key[r]>>

TypeOK ==
  /\ device \in [Requests -> Tokens] /\ key \in [Requests -> Keys]
  /\ pc \in [Requests -> PC]
  /\ gone \subseteq Requests
  /\ res \in [Requests -> Seq({"accepted", "ok", "error"})]
  /\ active \subseteq Tokens \X Keys
  /\ prompt \in [Requests -> Seq(Turns)]
  /\ history \in [Devices -> Seq(Turns)] /\ disk \in [Devices -> Seq(Turns)]
  /\ copy \in [Requests -> Seq(Turns)]
  /\ crashes \in 0 .. MaxCrashes
  /\ known \in [Requests -> SUBSET Requests]

\* What an earlier run of the gateway may have left in a conversation: an
\* exchange, or the part of it a crash let through.
Loaded == {<< >>} \cup {<<<<"user", e>>>> : e \in Earlier}
                  \cup {<<<<"user", e>>, <<"assistant", e>>>> : e \in Earlier}

Init ==
  /\ device \in [Requests -> Tokens] /\ key \in [Requests -> Keys]
  /\ pc = [r \in Requests |-> "new"]
  /\ gone = {} /\ active = {}
  /\ res = [r \in Requests |-> << >>]
  /\ prompt = [r \in Requests |-> << >>] /\ copy = [r \in Requests |-> << >>]
  /\ history \in [Devices -> Loaded] /\ disk = history
  /\ crashes = 0
  /\ known = [r \in Requests |-> {}]
-----------------------------------------------------------------------------
Goto(r, s) == pc' = [pc EXCEPT ![r] = s]

\* A `res` is queued; the result of the send is ignored.
Respond(r, status) ==
  res' = IF r \in gone THEN res ELSE [res EXCEPT ![r] = Append(@, status)]

\* The run's task ends: its key is removed.
Free(r) == active' = active \ {DedupKey(r)}

Answered == {q \in Requests : \E i \in DOMAIN res[q] : res[q][i] = "ok"}

\* Invalid parameters or an empty message.
Reject(r) ==
  /\ pc[r] = "new"
  /\ Respond(r, "error")
  /\ Goto(r, "done")
  /\ UNCHANGED <<inputs, gone, active, prompt, talk, crashes, known>>

\* The request is acknowledged first: should that fail, nothing is claimed.
Accept(r) ==
  /\ pc[r] = "new"
  /\ Respond(r, "accepted")
  /\ Goto(r, IF r \in gone THEN "lost" ELSE "claim")
  /\ known' = [known EXCEPT ![r] = {q \in Answered : pc[q] # "lost"}]
  /\ UNCHANGED <<inputs, gone, active, prompt, talk, crashes>>

\* Mutant: the result of the insertion is ignored.
ClaimAnyway(r) ==
  /\ pc[r] = "claim"
  /\ active' = active \cup {DedupKey(r)}
  /\ Goto(r, "resolve")
  /\ UNCHANGED <<inputs, gone, res, prompt, talk, crashes, known>>

Claim(r) ==
  /\ pc[r] = "claim"
  /\ active' = active \cup {DedupKey(r)}
  /\ Goto(r, IF DedupKey(r) \in active THEN "duplicate" ELSE "resolve")
  /\ UNCHANGED <<inputs, gone, res, prompt, talk, crashes, known>>

\* resolve_agent_model
Resolve(r) ==
  /\ pc[r] = "resolve"
  /\ Goto(r, "prepare")
  /\ UNCHANGED <<inputs, gone, res, active, prompt, talk, crashes, known>>

\* Mutant: the early return forgets the key.
NoModelKeepsKey(r) ==
  /\ pc[r] = "resolve"
  /\ Goto(r, "refuse")
  /\ UNCHANGED <<inputs, gone, res, active, prompt, talk, crashes, known>>

NoModel(r) ==
  /\ pc[r] = "resolve"
  /\ Free(r)
  /\ Goto(r, "refuse")
  /\ UNCHANGED <<inputs, gone, res, prompt, talk, crashes, known>>

Refuse(r) ==
  /\ pc[r] = "refuse"
  /\ Respond(r, "error")
  /\ Goto(r, "done")
  /\ UNCHANGED <<inputs, gone, active, prompt, talk, crashes, known>>

\* Mutant: one pair too many.
DroppedPairsTooMany(n) == IF n <= Budget THEN 0 ELSE (n - 1) \div 2

\* trim_pairs_to_budget: whole pairs go from the front, never the last message.
DroppedPairs(n) ==
  LET needed == IF n <= Budget THEN 0 ELSE (n - Budget + 1) \div 2
      most == (n - 1) \div 2
  IN  IF needed <= most THEN needed ELSE most

Trimmed(messages) ==
  SubSeq(messages, 2 * DroppedPairs(Len(messages)) + 1, Len(messages))

History(r) == IF device[r] = None THEN << >> ELSE history[device[r]]

\* The history is read, the user's message appended, the whole cut to budget
\* and the stream spawned.
Prepare(r) ==
  /\ pc[r] = "prepare"
  /\ prompt' = [prompt EXCEPT ![r] = Trimmed(Append(History(r), <<"user", r>>))]
  /\ Goto(r, "stream")
  /\ UNCHANGED <<inputs, gone, res, active, talk, crashes, known>>
-----------------------------------------------------------------------------
(* stream_agent_response                                                   *)

\* StreamChunk::Done.  A loopback session records nothing.
Done(r) ==
  /\ pc[r] = "stream"
  /\ Goto(r, IF device[r] = None THEN "reply" ELSE "user")
  /\ UNCHANGED <<inputs, gone, res, active, prompt, talk, crashes, known>>

\* The answer holds two adjacent dispatch blocks: strip_task_markers panics
\* and takes the task with it.
StripPanics(r) ==
  /\ pc[r] = "stream"
  /\ Goto(r, "panicked")
  /\ UNCHANGED <<inputs, gone, res, active, prompt, talk, crashes, known>>

\* Mutant: the error is only logged.
StreamFailsSilently(r) ==
  /\ pc[r] = "stream"
  /\ Goto(r, "release")
  /\ UNCHANGED <<inputs, gone, res, active, prompt, talk, crashes, known>>

\* StreamChunk::Error, or chat_stream fails.
StreamFails(r) ==
  /\ pc[r] = "stream"
  /\ Goto(r, "error")
  /\ UNCHANGED <<inputs, gone, res, active, prompt, talk, crashes, known>>

\* Mutant: the error arm falls through to the answer.
EmitErrorAndReply(r) ==
  /\ pc[r] = "error"
  /\ Respond(r, "error")
  /\ Goto(r, "reply")
  /\ UNCHANGED <<inputs, gone, active, prompt, talk, crashes, known>>

EmitError(r) ==
  /\ pc[r] = "error"
  /\ Respond(r, "error")
  /\ Goto(r, "release")
  /\ UNCHANGED <<inputs, gone, active, prompt, talk, crashes, known>>

\* Mutant: the session is pruned as it is recorded.
PrunedTurn(h, turn) == Trimmed(Append(h, turn))

\* record_message, under the write lock: the turn is added to the session in
\* memory and the session is cloned.
WithTurn(h, turn) == Append(h, turn)

Record(r, role) ==
  LET new == WithTurn(history[device[r]], <<role, r>>)
  IN  /\ history' = [history EXCEPT ![device[r]] = new]
      /\ copy' = [copy EXCEPT ![r] = new]
      /\ UNCHANGED disk

\* record_message, the lock released: the clone replaces the file, or the
\* write fails and is only logged.
Save(r) ==
  /\ disk' \in {disk, [disk EXCEPT ![device[r]] = copy[r]]}
  /\ UNCHANGED <<history, copy>>

RecordUser(r) ==
  /\ pc[r] = "user" /\ Record(r, "user") /\ Goto(r, "saveUser")
  /\ UNCHANGED <<inputs, gone, res, active, prompt, crashes, known>>

SaveUser(r) ==
  /\ pc[r] = "saveUser" /\ Save(r) /\ Goto(r, "assistant")
  /\ UNCHANGED <<inputs, gone, res, active, prompt, crashes, known>>

RecordAssistant(r) ==
  /\ pc[r] = "assistant" /\ Record(r, "assistant") /\ Goto(r, "saveAssistant")
  /\ UNCHANGED <<inputs, gone, res, active, prompt, crashes, known>>

SaveAssistant(r) ==
  /\ pc[r] = "saveAssistant" /\ Save(r) /\ Goto(r, "reply")
  /\ UNCHANGED <<inputs, gone, res, active, prompt, crashes, known>>

\* emit_stream_done, after the answer's dispatches have been started.
Reply(r) ==
  /\ pc[r] = "reply"
  /\ Respond(r, "ok")
  /\ Goto(r, "release")
  /\ UNCHANGED <<inputs, gone, active, prompt, talk, crashes, known>>

Release(r) ==
  /\ pc[r] = "release"
  /\ Free(r)
  /\ Goto(r, "done")
  /\ UNCHANGED <<inputs, gone, res, prompt, talk, crashes, known>>
-----------------------------------------------------------------------------
\* Environment: the connection of a request closes and its channel with it.
Disconnect(r) ==
  /\ r \notin gone
  /\ gone' = gone \cup {r}
  /\ UNCHANGED <<inputs, pc, res, active, prompt, talk, crashes, known>>

\* The gateway stops, losing what is in memory, and starts again: the sessions
\* are loaded from disk, the connections are gone.
Crash ==
  /\ crashes < MaxCrashes
  /\ crashes' = crashes + 1
  /\ pc' = [r \in Requests |-> IF pc[r] = "new" THEN "new" ELSE "lost"]
  /\ gone' = {r \in Requests : pc[r] # "new"}
  /\ active' = {}
  /\ history' = disk
  /\ copy' = [r \in Requests |-> << >>]
  /\ UNCHANGED <<inputs, res, prompt, disk, known>>

Handler(r) ==
  \/ Accept(r) \/ Claim(r) \/ Resolve(r) \/ NoModel(r) \/ Refuse(r) \/ Prepare(r)

Stream(r) ==
  \/ Done(r) \/ StripPanics(r) \/ StreamFails(r) \/ EmitError(r)
  \/ RecordUser(r) \/ SaveUser(r) \/ RecordAssistant(r) \/ SaveAssistant(r)
  \/ Reply(r) \/ Release(r)

Next ==
  \/ \E r \in Requests : Reject(r) \/ Handler(r) \/ Stream(r) \/ Disconnect(r)
  \/ Crash

Spec == Init /\ [][Next]_vars

\* The scheduler runs every task, a provider ends its stream, and a client
\* that stays connected keeps reading (its channel always drains).
FairSpec == Spec /\ \A r \in Requests : WF_vars(Handler(r) \/ Stream(r))
-----------------------------------------------------------------------------
SameKey(q, r) == device[q] = device[r] /\ key[q] = key[r]

\* Requests of one device with one idempotency key never run at once, however
\* their acknowledgements, early returns and error paths interleave.
OneRunPerKey ==
  \A q, r \in Requests :
    q # r /\ pc[q] \in InFlight /\ pc[r] \in InFlight => ~SameKey(q, r)

\* A request is turned away as a duplicate only while a run of its own device
\* and key is in flight, or after one has panicked: "two devices cannot
\* collide on a key", and a key is free again once its run has ended.
DuplicateHasARun ==
  [][\A r \in Requests :
       pc[r] # "duplicate" /\ pc'[r] = "duplicate" =>
         \E q \in Requests \ {r} : SameKey(q, r) /\ pc[q] \in InFlight \cup {"panicked"}]_vars

\* A key stays claimed only for a run in flight, or for good by a run whose
\* task panicked: no error path forgets it.
OnlyPanicsLeakKeys ==
  \A k \in active : \E r \in Requests : DedupKey(r) = k /\ pc[r] \in InFlight \cup {"panicked"}

\* A request is sent at most one final `res`, and only after it has been
\* acknowledged unless it is refused outright.
OneTerminalRes ==
  \A r \in Requests :
    \/ Len(res[r]) <= 1 /\ res[r] # <<"ok">>
    \/ Len(res[r]) = 2 /\ res[r][1] = "accepted" /\ res[r][2] # "accepted"

\* A client that asks after an answer talks to a model that knows it: the
\* exchange is in the prompt, unless the budget is full of newer turns.
PromptSeesAnswered ==
  \A r \in Requests : \A q \in known[r] :
    prompt[r] # << >> /\ device[q] = device[r] /\ device[r] # None =>
      \/ {<<"user", q>>, <<"assistant", q>>} \subseteq Range(prompt[r])
      \/ /\ Len(prompt[r]) >= Budget - 1
         /\ \A turn \in Range(prompt[r]) : turn[2] \notin Earlier

\* Every request that is acknowledged and not a duplicate gets its final
\* `res`, unless its connection closes or its run panics.
EveryRunIsAnswered ==
  \A r \in Requests :
    pc[r] = "resolve" ~> (Len(res[r]) = 2 \/ r \in gone \/ pc[r] = "panicked")

\* The conversations are those the abstract log allows: turns are added at the
\* end, each once, an answer after its question, and the file always holds a
\* past state of the conversation.
Conversation == INSTANCE ConversationLog
                  WITH Runs <- Requests \cup Earlier, log <- history, durable <- disk
ConversationSpec == Conversation!Spec
=============================================================================
