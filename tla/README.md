# Formal model of rabb1tClaw

TLA+ modules, TLC configurations and TLAPS proofs for the rabb1tClaw gateway: a
single-process tokio server that voice devices reach over WebSockets, that talks
to LLM providers and that runs background agents.  Paths below are relative to
the repository's `src/`.

## Inventory

| Component | State it keeps | Operations | Hard behaviour | What makes it correct |
|---|---|---|---|---|
| Connections (`connection/handler.rs`, `auth.rs`) | per connection: identity, `connected`, shutdown flag, a channel of 100 frames, a writer task, tick tasks | accept, connect, request, tick, close, clean up | five kinds of task share the channel; the cleanup awaits the writer | a session is tracked while it lives; a closed or cut session ends |
| Gateway state (`state.rs`) | device store, registry of connections, task ids | register, unregister, reload configuration and devices, disconnect revoked devices | file read, diff, swap, snapshot and signal are separate steps | revoked devices are cut, others are not |
| Agent requests (`agent/runner.rs`, `events.rs`) | in-flight keys, one task per run | acknowledge, claim key, build context, stream, record, answer, free key | retries, early returns, failed streams, panics, closed connections | one run per key, one final `res`, no key leaks |
| Conversations (`agent/session.rs`) | turns per device, encrypted file per device | record (memory under lock, then disk), read, load | four `record_message` calls of two runs interleave; saves land out of order or fail; crashes | the log only grows, the file is a past state of it |
| Background tasks (`agent/tracker.rs`, `runner.rs`, `advanced`, `code`, `search`) | lists of tracked items, pending questions | register, update, complete, ask, answer, time out | capacity against reloads, answers against timeouts | slots bounded and given back, no lost wake-up |
| Task log (`agent/tasklog.rs`) | `tasks.md` per device | append, read | read, truncate, write without a lock | events are not lost |
| Answer text (`agent/stream.rs`, `markers.rs`) | think buffer, filter position | push a chunk, flush, strip, parse | chunks cut anywhere | heard = stored = answer without blocks |
| Worker loops (`agent/advanced/agent.rs`, `code/agent.rs`, `search/agent.rs`) | dialog of a code task, merged results of a search, context and step of an orchestration | ask a model, run a script, retry, verify; plan, collect, assemble; follow a directive, compress | a plan, a script or a verdict may be anything; subtasks inline; a user who never answers | what a model is sent is a conversation it accepts and fits its budget; every task ends |
| Session memory (`agent/memory.rs`) | memory file per device | count, read the last turns, merge, replace | agents overlap with each other and with the next exchange | no exchange of a finished interval is forgotten |
| Hot reload, pid (`config/reload.rs`, `pid.rs`, `cli/server.rs`) | modification times, pid file, the files in memory | start, poll, SIGHUP, stop, interrupt | a change between load and first poll, a torn file, a second server | memory follows the files; the pid file finds the server |
| Configuration, CLI (`config/native.rs`, `config/devices.rs`, `cli/`) | two YAML files | load, edit, save | two commands at once, an editor that tears a file, dangling references | references resolve, a revocation stays |
| Providers (`provider/`) | SSE line buffer, a channel of chunks | request, receive, cut into lines, parse, send, collect | chunks cut at any byte, a body that ends early or in an error | the caller hears what arrived, once, in order, and an end |

They interact as follows.  A connection task hands an `agent` request to
`handle_agent`, which spawns the run's task; the run sends its events through a
clone of the connection's channel, reads and writes the conversations, and at its
end spawns background tasks from the blocks of its answer.  Background tasks meet
the runs only through the trackers, the question list and `tasks.md`; their loops
talk to providers through the same stream as a run.  An exchange that was recorded
starts a memory agent.  Commands and the server share nothing but the two files, the
pid file and signals: the watcher of `config/reload.rs` notices a file and the reload
task swaps the store and reaches into the registry of connections.

`PROJECT.json` lists every hazard with its line and the properties about it.

## Modules

| Module | What it is |
|---|---|
| `DeviceSessions` | connections, authorisation, registry, device reload |
| `DeviceSessionsProofs` | its theorems |
| `ConversationLog` | abstract: what the gateway promises of a conversation |
| `AgentRuns` | agent requests and conversations; refines `ConversationLog` |
| `AgentRunsProofs` | its theorems, the refinement among them |
| `BackgroundTasks` | tracker, life of a task, questions, task log |
| `BackgroundTasksProofs` | its theorems |
| `DispatchBlocks` | the text of an answer: think check, filter, strip, parser |
| `DispatchBlocksProofs` | its theorems |
| `ConfigStore` | the two YAML files and every command that edits one |
| `HotReload` | server processes over the files of `ConfigStore`, which it extends |
| `HotReloadProofs` | theorems of the store and of the servers, and the refinement between them |
| `AnswerStream` | abstract: what a caller of a provider is promised |
| `ProviderStream` | the reader of one answer, its channel and its caller; refines `AnswerStream` |
| `ProviderStreamProofs` | its theorems |
| `CodeLoop` | the self-healing loop of code tasks |
| `SearchPipeline` | the pipeline of search tasks |
| `Workers` | composes the two with the orchestration loop of advanced tasks |
| `WorkersProofs` | theorems about the three kinds of worker |
| `SessionMemory` | the memory agents of one device |
| `SessionMemoryProofs` | its theorem |
| `MC*` | instances for TLC |

An action is what the code does between two awaits, or under one lock; where a
lock is dropped and taken again there are two actions.  Operators named in a
comment `Mutant` are plausible bugs: each is the body of one mapped definition
with a change that makes the property it is listed with fail.

### DeviceSessions

`pc[c]` is where `handle_socket` stands: `loop` is the `select!`, `register`,
`hello`, `refuse`, `reject`, `expel` and `reply` are points where it waits for a
lock or for room in the channel, `cleanup` is `send_task.await`.  `queue[c]` and
`writer[c]` are the channel and the send task; the registry, the tick tasks, the
runs and the targets of a reload hold clones of `tx`, and the writer sees the
channel closed only when `HasSender` is false.  A reload goes through `reload.phase`:
file read and compared, store swapped, registry snapshot, and per target the flag
and the close frame.  A device stands for its token: `onboard` mints a token for
a new id and nothing else in the program changes one, so a token edited by hand
under the same id is outside the model.  `late` is a history variable.

### AgentRuns

One `pc` per request, from its acknowledgement to the removal of its key; the
request's task and the spawned stream are one thread of control.  `device` is
`None` for a loopback session, which records nothing.  A crash loses memory and
connections and restarts from `disk`.  `Save` may fail (it is only logged), and
writes the clone taken under the lock, which may be older than the file.
`StripPanics` is the panic shown by `blocks_left`.  Tokens are counted one per
message.  Timestamps, system prompt and memory text are left out.

### BackgroundTasks

The tracker and the questions of one device and one kind of task; two kinds share
only the id counter and `tasks.md`.  `tracked` with `rank` is the list in order.
A configuration holds `max_concurrent` and `task_log_max_entries`, which the
dispatcher uses both as the length of the log and as the number of finished tasks
to keep.  A task that logs an event is in the control state of that name and goes
through `AppendRead`, `AppendTruncate`, `AppendWrite`.  Code and search tasks are
those that never ask.

### DispatchBlocks

A text is a sequence over eight characters, of which `@` is `@@`, `d` is
`dispatch`, `e` is `end`, `t` is `think>` and `/` is `/think>`: enough for every
way the tags overlap (the newline that opens a block and closes one, a newline
before and after, a tag cut in two).  White space is the newline.  The provider
produces pieces, and any number of pieces makes a chunk.  `Visible` is a reference
definition, place by place, of the text without the parser's blocks.  A stream that
ends in an error is not here: it records and flushes nothing.

### ConfigStore and HotReload

`Results(op, c)` is the set of files a command may save out of the file `c` it
loaded: each of its operators is one subcommand, including the choice `keys().next()`
makes among the keys of a hash map.  `cmd[p]` is a process between `Load` and `Save`;
a save replaces the file whatever it has become since, and `clobbered` remembers when
that happened.  A command reports what it revoked after its save, except `--revoke-all`,
which prints a line per device and saves at the end: `Announce` is one of these lines,
and `unsaved` are the devices told so whose removal is not in the file yet, and never
will be if the save fails or the command is killed.  `write_secure` renames a temporary file over the old one and is one
step; an editor's write is two (`Tear`, `Mend`).  A version stands for a modification
time: times of two writes differ.

A server of `HotReload` loads, writes the pid file (`Claim`), reads the modification
times and spawns the task that installs its SIGHUP handler (`Watch`), and binds, which may
fail because the address is taken or for any other reason.  The watcher compares the
two files in turn, with the time read before the file.  SIGHUP kills a process that has
no handler; behind `Watch` it wakes the watcher or kills, since nothing says when the
spawned task has run.  SIGTERM kills, and leaves the pid file.  `blind`, `alone`,
`clobbered`, `reported` and `unsaved` are history variables.  What a swap of the device store
does to connections is `DeviceSessions`, whose `reload.phase` starts there.

### ProviderStream

A line is two bytes and a newline, so that a network chunk can end inside a line and
inside a character of it; a byte is its line and its place, `Parse` accepts the bytes of
one whole line and what it says depends on the API.  `AnswerStream` is told the texts
that arrived whole and lets the caller hear them one by one.

### CodeLoop, SearchPipeline, Workers

A message of a code dialog is its role and what it is for; an answer of the search
service is the entries it gives, each a link told by its URL or a marker that a knowledge
graph or "people also ask" is there; a message of an advanced task's context is its role and the steps it is about.
`Workers` runs one worker of one of the three kinds; in an advanced one `StartCode` and
`StartSearch` begin a subtask and `CodeReturns` and `SearchReturns` take its result.
Timeouts are the nondeterministic ends of a wait.  Answers of the search service are
merged in the order of the requests, as `join_all` returns them.

### SessionMemory

The two turns of an exchange, then its agent: count, read the history, read the file,
merge and replace.  The model is assumed to merge faithfully; `overlap` remembers that
an exchange or an agent was overtaken, `failed` that an agent failed, that it could not
read the file and so began an empty one, or that the process ended between the two turns.

## Runs

| Run | Shows | Instance |
|---|---|---|
| `sessions` | sessions stay tracked; a reload cuts the sessions of revoked devices and only those; only a handshake that overlaps it escapes | 2 devices, 2 connections, channel of 1, symmetric |
| `session_liveness` | a closed socket or a close frame leads to the end of the cleanup | 1 connection, 2 devices, 2 connects, a request and a run |
| `agent_runs` | keys, final answers, context, refinement of `ConversationLog` | 2 requests, 2 keys, 1 device and loopback, 1 earlier exchange, 1 crash |
| `background_tasks` | slots, list, questions, release of slots | 3 tasks, one asks, one answer, limits 0 and 1 |
| `dispatch_blocks` | what is heard and what is stored, the exceptions named | every answer of up to 5 of 9 pieces, every chunking |
| `blocks_left` | finding | every answer of up to 5 of 5 pieces (the tags, a newline, another character) |
| `cut_session` | finding | 1 connection, channel of 2 |
| `configuration` | references resolve; a revocation that was reported and saved stays, but for a stale save | 2 providers, 2 models, 2 devices, 2 processes, 3 writes, symmetric |
| `hot_reload` | memory follows the files, the pid file finds the server, a revocation that was reported and saved arrives | 2 servers, 1 process, 1 device, 3 writes, no providers |
| `provider_stream` | refinement of `AnswerStream`, nothing behind the end | every body of up to 3 lines of both APIs, cut anywhere, channel of 2 |
| `workers` | context and dialogs are sound, the search context is the longest that fits, every task ends | 3 iterations, 6 steps, 2 queries, 2 links, budgets of 2 and 4 tokens |
| `session_memory` | an agent that is not overtaken and does not fail misses nothing | 4 exchanges, 2 at once, intervals 0 to 2, symmetric |

### Bounds

`MaxConnects`, `MaxRequests`, `MaxRuns`, `MaxEdits` bound what clients and editors
do; `MaxCrashes` the crashes; `MaxAsks` the questions; `MaxPieces` the answer.  Two
connections are enough for the registry's per-token lists and for a reload that
meets one session and spares another; one edit is enough for a reload, and with two
connects in `session_liveness` an identity can change.  A channel of one or two makes
"full" a common case; the code's 100 differs only in how long it takes.  Two requests
exhibit every interleaving of two runs, which is all the exclusion and the order of
turns speak of.  Three tasks fill a slot, hold a second dispatch and leave one
finished task to drop; the limits keep no finished task and no log line, so the
order in which several finished tasks go is not exercised.  Five pieces hold two
blocks one newline apart, an empty block with text behind it, and reasoning in
front of a block.  The pieces of `blocks_left` are those its counterexample takes.

`MaxWrites` of 3 lets a command load, a second one save, and the first undo it, or an
editor tear and mend a file around a save.  A save of a copy older than the file is
a case of `configuration`, with its two processes; `hot_reload` has one, too
few to undo a revocation that way.  It leaves out providers and models, which no server
looks at, and has two servers for the pid file and the address.  Three
lines hold a text, an end and a text behind it, and with three bytes a line every kind of
cut; a channel of two can be full and hold a text in front of the end.  Two queries make
up to six answers to merge, with two URLs that collide; entries of one and three tokens
against budgets of 2 and 4 stop the context at, before and behind the limit, and at its
first entry when that alone is too large.  `MaxSteps` of 6 reaches a compression; `KeepRecent` is 3 and not the
code's 4 because with 4 the number of messages between pinned and recent is always odd
and the adjustment in `CompressEnd` never acts.  Four exchanges with an interval of two
are two triggers, and two at once are enough to overtake.

Deadlock checking is off everywhere: each run ends when its clients have done what
the bounds let them.

### Fairness

Weak fairness of every task stands for the tokio scheduler.  Strong fairness of
`SeeShutdown` is the `select!` that picks a ready branch at random, that of
`TickSend` the first-come-first-served queue of a channel's waiting senders.
`FairSpec` also assumes that a client which has not closed keeps reading and that a
provider ends its stream; the code has no timeout of its own there.  Strong fairness
of `End` is `max_steps` and the total timeout of an advanced task, and the bounded
number of iterations of a code task, whose turns end under the same assumption.
Nobody is assumed to answer a question: in `Workers`, `Answer` has no fairness.  A
panicking worker ends `SlotIsFreed` and `WorkerEnds`, which name it as an exception.
In `HotReload` only the watcher is fair: it polls every two seconds for as long as the
process lives; that a server starts, or a torn file is mended, is not assumed.  In
`ProviderStream` and `Workers` the network delivers or breaks; the HTTP clients of the
code set no timeout, so a silent provider is outside every liveness property.

## What the checks found

Two runs end in a counterexample:

* `cut_session`: cleanup awaits the writer, the writer awaits the last sender, the
  registry's sender goes only after the cleanup.  Ordinarily the next tick frees it
  (`ClosedSessionEnds`), or the close frame (`CloseFrameEndsSession`); a session cut
  while its channel was full has neither.
* `blocks_left`: one property that follows from either of two claims, so that its
  counterexample refutes both.  The live text: the device "never sees" the
  blocks (`README.md:22`), they "never reach the device" (`agent/stream.rs:61`), they "must never reach the device"
  (`regression.rs:28`).  The stored text: `strip_task_markers` will "remove all
  @@dispatch...@@end blocks" (`agent/markers.rs:58`).  The answer of the trace begins with
  an unclosed `<think>`, so that it is never told from reasoning and `runner.rs` lets it
  go at its end without draining it, and has two blocks one newline apart, which make
  the strip slice backwards and panic: the device has heard the blocks, gets no final
  `res`, and the key stays claimed.

Others are exceptions a property names, or behaviours of the models no statement of the
repository forbids:

* `handle_connect` reads the store, drops the lock and registers; a reload in between
  overlooks the session, although `README.md:194` says a revoked device's sessions are
  ended.  `OnlyLateSessionsEscape`, checked and proved, says this is the only hole.
* Two runs of one device interleave their turns (`runner.rs:421`); of concurrent appends
  to `tasks.md` one loses its line (`tasklog.rs:43`).
* An empty block ends at once for the live filter, but not for the parser and the strip,
  although the two are said to "never disagree on where a block is"
  (`agent/markers.rs:13`): what the parser still counts as the block is heard.
* A file that changes between its load and the watcher's first look stays unnoticed
  until the next write (`blind`).  A second server on the same address takes over the
  pid file and removes it on its way out, so that the first is no longer found
  (`alone`).  SIGHUP before the handler is installed kills the server.
* A command that saves a copy older than the file undoes a reported revocation
  (`clobbered`); nothing detects it.  `--revoke-all` reports each device before its only
  save (`cli/devices.rs:107`, `:112`): if that fails, or the command is killed, devices
  reported as revoked stay active (`unsaved`).
* A body that ends early, and one that reports an error in an event, pass for a
  complete answer: `AnswerStream` can only promise the texts that arrived.
* A search plan with a `}` before its only `{` panics the worker and keeps its slot.
* A first entry above the token budget leaves the search context empty, and the model is
  asked all the same; without a model a search ends in an error, while
  `docs/workflow.md:574` describes a fallback.
* After a rejected verification two assistant messages follow each other in the dialog
  of a code task (`DialogAlternates` names the exception).
* The memory agent counts turns when it comes to run: two exchanges counted as one miss
  their interval, and of two agents that merge at once the first one's work is lost
  (`overlap`).
* `docs/workflow.md:378` says "Timeout clock paused during wait".  It is not
  (`advanced/agent.rs:542`), and lines 263 and 313 of the same document say so: the end of
  the total timeout is what `SlotIsFreed` and `WorkerEnds` rest on if nobody answers.

`dispatch_blocks` shows that these are all the ways the texts part: but for an empty block,
and for a block in an answer that is never told from reasoning, the device hears exactly
the visible text; but for blocks one newline apart the strip gives it.

## Proofs

Assumed are only the named assumptions on the constants.  Each argument is an
inductive invariant, proved action by action.

* `DeviceSessionsProofs`: type correctness; `SessionIsTracked` needs that from
  `register` on the claimed token is listed and that nothing but the cleanup
  unlists; `OnlyLateSessionsEscape` needs an invariant for each phase of the reload:
  what has to be cut is in `reload.cut`, then in `targets`, until it is signalled.
  `OnlyRevokedAreCut` is the converse: the tokens to cut are not active in the new
  store, and a target of the reload was listed under one of them and has kept that
  identity (`TargetInv`).  `GoneIsUnlisted` is inductive with the types; it
  speaks of the last identity of a connection, and an entry it had under an earlier one,
  before it connected again with another token, stays listed (`handler.rs:110`).
* `AgentRunsProofs`: a run in flight owns its key in `active`, and so at most one
  does (`OneRunPerKey`, `OnlyPanicsLeakKeys`), from which the action property
  `DuplicateHasARun` follows.  `ConversationSpec` is a refinement: the invariant says
  which turns of a run are in the history at each control state, and that each clone
  is a prefix of the history, so that every step maps to a step of the log or to a
  stutter.  `OneTerminalRes` needs `ResponseInv`: a run between its acknowledgement
  and its last `res` (`Owing`) has been sent `accepted` and nothing else.
  `PromptSeesAnswered` needs `SeenInv`: the exchange of a run that has been answered,
  and so of every one a later request may know, is in the history, which only a crash
  shortens, and the turns of earlier runs of the gateway come first in it.  The lemma
  `TailSees` is the arithmetic of the cut: what `trim_pairs_to_budget` drops is a
  prefix, and it drops nothing unless what is left fills the budget but for one.
* `BackgroundTasksProofs`: `WorkersHoldSlots` is inductive together with the fact that
  only actors with an event to log are inside an append; `SlotsAreBounded` then
  follows from the capacity check and the insertion being one step.
  `QuestionsMatchWaits` needs `QuestionInv`: a listed question is one its task waits
  for, and an answerer that has taken one off the list is the only one that has it.
  `ListIsBounded` is an argument on places: tracked tasks have distinct ones
  (`RankInv`), and of finished tasks with fewer than n others above them there are at
  most n, since the lowest of them has all the others above it (`FewAreKept`).
* `HotReloadProofs`, of the store: `ConfigResolves` needs `StoreInv`, that every copy a process
  holds resolves too, since it may be what the file becomes; `RevocationSticks` needs
  `RevokedInv`, that a copy read at the file's present version has every
  revocation that was reported and saved (`Kept`), so that only a stale one can undo it.
* `HotReloadProofs`, of the servers: `ServersAreReaders` maps every step of servers, commands and
  signals to a step of the store or a stutter, so that the two theorems above hold
  beside any servers.  `ServerIsCurrent` needs `WatchInv`: the cached time and the one
  just read are never newer than the file, and if the cached one equals the file's, the
  contents are the file's, but for a write in the gap of the start.  `PidFindsServer`
  needs `PidInv`: while a server is alone no other one is alive that could touch the
  file.
* `ProviderStreamProofs`: `TypeOK`; `NothingAfterTheEnd`, which needs that a chunk which
  is sent is a text, the end or an error, and that a result means an empty channel and an
  ended reader; and `HeardIsSaid`, the safety part of what `AnswerSpec` says, for bodies,
  cuts and channels of any size.  For it, `BufferInv` says that the buffer holds the bytes
  behind the whole lines taken, `FlowInv` that every text taken is held, queued or heard,
  and `OrderInv` that these follow each other in the order of the body.
* `WorkersProofs`: `ContextIsSound`, for any number of steps and of messages kept.
  `CtxInv` says at each point of the orchestration loop what the context is: odd in length
  before a call and behind feedback, even behind an answer, its first two messages the
  task and the plan, only its third possibly a summary, and together about every step so
  far.  The lemma `CompressedIsSound` shows that replacing an odd number of messages by a
  summary keeps all of that, which is what the adjustment in `CompressEnd` is for.
  `DialogInv` does the same for the dialog of a code task.  `ContextFitsBudget`, for any
  number of entries and any budget, is an argument on the pipeline: `TakingIsLongest` says
  that the recursive function which `assemble_context` is takes the longest front of its
  entries that fits, and `SearchInv` that what a context was cut from are the merged
  entries of its own plan, in which no link stands twice (`Merging`).
* `SessionMemoryProofs`: `MemoryCovers`, for any number of exchanges and any intervals.
  `OrderInv` says that while nobody overtakes, exchanges, their agents and their merges
  are one after another, and `CoverInv` that each exchange of a finished interval is in
  the memory, in the window of the agent at work or before an agent that has yet to count;
  that its window reaches back far enough is arithmetic on the turns counted
  (`DueStep`, `TurnsAreCounted`).

* `DispatchBlocksProofs`: all five invariants, for any pieces over the eight characters
  and any number of them.  First the scans are told without recursion: each is a function
  on the places of a text whose equation holds, since every round moves its place on
  (`Recursion`, `Below`), and each takes the text one block at a time.  `Rest(text, keep,
  from)` is that step by step form of the visible text; `StripPrints` and
  `VisibleIsRest` say that the strip and the reference definition both give it.
  The filter looks for a close one character earlier than the parser, which makes a
  difference only at an empty block (`RestIsVisible`), and an answer without a block loses
  nothing if it is never drained.  The invariant (`IInv`) is about every
  text the response can still become: of each of them the filter will let through all
  that is visible, given what it has let through, what it has committed and whether it
  eats (`Faithful`).  That a longer text changes nothing in what is already let through
  is `safe_emit_end` holding back every end of the text that may become an opening
  (`SafeForever`).  `Deciding` says of the think check that the response is the content
  of a decided beginning of the answer and what followed it.

Every type invariant and every safety invariant the passing runs check is a theorem.
Of the files of `ConfigStore`, the types are a theorem of its own (`FilesAreTyped`), which
the type invariant of `HotReload` (`TypeCorrect`) goes on from.

The provers have no induction over data, whose theorems take an operator as a parameter.
Where a proof needs one it is over a number: a set of naturals that is not empty has a
least element (`LeastElement`, from the well-foundedness of `<`), so that a set which
holds 0, and with every number its successor, holds all (`Upwards`), and one which holds
whatever it holds all below of, by a measure, holds all (`Below`).  A recursive function
is shown to satisfy its equation by constructing it one argument after another
(`Recursion`); in the modules proved about, recursion is written that way and never with
`RECURSIVE`.

Only model-checked: liveness and the refinement that states fairness
(`ClosedSessionEnds`, `CloseFrameEndsSession`, `EveryRunIsAnswered`, `SlotIsFreed`,
`WorkerEnds`, `RevocationArrives`, `AnswerSpec`), which the provers do not reach; the
safety part of `AnswerSpec` is a theorem.

## Not modelled, and the plan

Left out, with the reason:

* the overrides `agents.*.model` of the configuration, which no command edits and
  which may dangle; a run then resolves no model, which is `NoModel` in `AgentRuns`;
* the cut of the memory file at `max_words`, the skipping of sessions of revoked
  devices at load, and the ids of tasks, which start at 1 again after a restart while
  `tasks.md` persists: no other state depends on them;
* a change of `turn_interval` by a reload, which `MemoryCovers` would have to leave out;
* listings, prompts, the QR code and the parameters of models in `cli/`;
* the wildcard bind address, which overlaps every other one;
* encryption, request bodies, prompts, formatting, the sandbox process and the HTTP
  upgrade, which hold no state another part depends on.

Still to be done: an abstract `SlotPool` that `BackgroundTasks` refines, and a run of it
with finished tasks to keep.
