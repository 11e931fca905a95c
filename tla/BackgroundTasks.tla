--------------------------- MODULE BackgroundTasks ---------------------------
(***************************************************************************)
(* The background agents of one device and one kind: the tracker that caps  *)
(* and remembers them (agent/tracker.rs), their dispatch out of an answer   *)
(* (agent/runner.rs), the life of a task and the questions it asks the user *)
(* (agent/advanced), and the task log their events go to                    *)
(* (agent/tasklog.rs).  Code and search tasks are tasks that never ask.     *)
(*                                                                         *)
(* A task stands for its id, which next_id never gives twice.  An event is  *)
(* <<name, task>>; an actor logs one while its control state has its name.  *)
(***************************************************************************)
EXTENDS Naturals, Sequences, FiniteSets, Functions

CONSTANTS Tasks,     \* tasks the model dispatches
          Answerers, \* runs whose answer relays the user's answer to a task
          Configs,   \* configurations: records of max_concurrent and of
                      \* task_log_max_entries, as concurrent and entries
          NoTask,    \* an answerer that has found no question yet
          Askers,    \* bound: tasks that ask questions (none of code and search)
          MaxAsks    \* bound: questions such a task asks

ASSUME TaskAssumption ==
  /\ IsFiniteSet(Tasks) /\ NoTask \notin Tasks
  /\ Tasks \cap Answerers = {} /\ Askers \subseteq Tasks
  /\ Configs \subseteq [concurrent : Nat, entries : Nat]
  /\ Configs # {}
  /\ MaxAsks \in Nat

VARIABLES
  config,     \* the limits in gateway_config
  limits,     \* the limits each dispatch has read
  pc,         \* control state of the tasks and the answerers
  tracked,    \* tasks in the tracker's list
  rank,       \* their places in it
  status,     \* their status
  questions,  \* GatewayState.advanced_questions, as <<task, number>>
  asks,       \* questions each task has asked
  answered,   \* tasks whose current answer channel holds an answer
  picked,     \* the question each answerer has taken
  log,        \* tasks.md
  draft,      \* lines an actor is about to write to tasks.md
  io          \* how far an actor's append has come

Actors == Tasks \cup Answerers
trackerVars == <<tracked, rank, status>>
questionVars == <<questions, asks, answered, picked>>
logVars == <<log, draft, io>>
vars == <<config, limits, pc, trackerVars, questionVars, logVars>>
-----------------------------------------------------------------------------
\* Mutant: a task that waits for input is not running.
RunningOnly == {"running"}

\* is_running
Running == {"running", "needs input"}
Finished == {"completed", "failed"}

\* Control states in which an actor appends the event of that name, and what
\* follows the append.
Events == {"dispatched", "asking", "completed", "failed", "answered"}
AfterEvent == [dispatched |-> "turn", asking |-> "push", completed |-> "cleanup",
               failed |-> "cleanup", answered |-> "done"]

\* Control states between the registration of a task and its completion; there
\* is none behind a panic.
Working == {"dispatched", "turn", "working", "asking", "push", "waiting", "panicked"}
PC == Events \cup Working \cup {"idle", "ready", "dropped", "cleanup", "done", "send"}
Lines == Events \X Tasks
Places == Tasks \X (0 .. MaxAsks)

TypeOK ==
  /\ config \in Configs /\ limits \in [Tasks -> Configs]
  /\ pc \in [Actors -> PC]
  /\ tracked \subseteq Tasks
  /\ rank \in [Tasks -> Nat]
  /\ status \in [Tasks -> Running \cup Finished]
  /\ questions \subseteq Places
  /\ asks \in [Tasks -> 0 .. MaxAsks]
  /\ answered \subseteq Tasks
  /\ picked \in [Answerers -> Places \cup {<<NoTask, 0>>}]
  /\ log \in Seq(Lines) /\ draft \in [Actors -> Seq(Lines)]
  /\ io \in [Actors -> {"idle", "drafted", "truncated"}]

Init ==
  /\ config \in Configs /\ limits = [t \in Tasks |-> config]
  /\ pc = [a \in Actors |-> "idle"]
  /\ tracked = {}
  /\ rank = [t \in Tasks |-> 0]
  /\ status = [t \in Tasks |-> "running"]
  /\ questions = {} /\ answered = {}
  /\ asks = [t \in Tasks |-> 0]
  /\ picked = [a \in Answerers |-> <<NoTask, 0>>]
  /\ log = << >> /\ draft = [a \in Actors |-> << >>]
  /\ io = [a \in Actors |-> "idle"]
-----------------------------------------------------------------------------
(* The tracker.                                                            *)

Goto(a, s) == pc' = [pc EXCEPT ![a] = s]

Live == {t \in tracked : status[t] \in Running}
Ended == {t \in tracked : status[t] \in Finished}

\* Mutant: finished tasks are never dropped.
NoSurplus(n) == {}

\* The finished tasks that go when a list is to keep at most n: the oldest.
Surplus(n) ==
  {t \in Ended : Cardinality({u \in Ended : rank[u] > rank[t]}) >= n}

\* The configuration is reloaded.
Reconfigure(c) ==
  /\ c # config
  /\ config' = c
  /\ UNCHANGED <<limits, pc, trackerVars, questionVars, logVars>>

\* dispatch_background_agents reads the limits and takes an id ...
Dispatch(t) ==
  /\ pc[t] = "idle"
  /\ limits' = [limits EXCEPT ![t] = config]
  /\ Goto(t, "ready")
  /\ UNCHANGED <<config, trackerVars, questionVars, logVars>>

\* Mutant: the capacity check is off by one.
RegisterOneMore(t) ==
  /\ pc[t] = "ready"
  /\ Cardinality(Live) <= limits[t].concurrent
  /\ tracked' = (tracked \ Surplus(limits[t].entries)) \cup {t}
  /\ rank' = [rank EXCEPT ![t] = 1 + Cardinality({u \in Tasks : rank[u] > 0})]
  /\ status' = [status EXCEPT ![t] = "running"]
  /\ Goto(t, "dispatched")
  /\ UNCHANGED <<config, limits, questionVars, logVars>>

\* ... and registers the task, which is dropped when the tracker is full.
Register(t) ==
  /\ pc[t] = "ready"
  /\ Cardinality(Live) < limits[t].concurrent
  /\ tracked' = (tracked \ Surplus(limits[t].entries)) \cup {t}
  /\ rank' = [rank EXCEPT ![t] = 1 + Cardinality({u \in Tasks : rank[u] > 0})]
  /\ status' = [status EXCEPT ![t] = "running"]
  /\ Goto(t, "dispatched")
  /\ UNCHANGED <<config, limits, questionVars, logVars>>

AtCapacity(t) ==
  /\ pc[t] = "ready"
  /\ Cardinality(Live) >= limits[t].concurrent
  /\ Goto(t, "dropped")
  /\ UNCHANGED <<config, limits, trackerVars, questionVars, logVars>>

\* update_status and complete: an item that is no longer listed is passed over.
SetStatus(t, s) ==
  /\ status' = IF t \in tracked THEN [status EXCEPT ![t] = s] ELSE status
  /\ UNCHANGED <<tracked, rank>>
-----------------------------------------------------------------------------
(* tasklog::append reads the file, trims the lines to the limit and writes  *)
(* them with fs::write, which truncates the file first.                     *)

Subject(a) == IF a \in Tasks THEN a ELSE picked[a][1]

Trimmed(lines, n) ==
  IF Len(lines) > n THEN SubSeq(lines, Len(lines) - n + 1, Len(lines)) ELSE lines

\* The limit is that of some configuration the actor has read.
AppendRead(a) ==
  /\ pc[a] \in Events /\ io[a] = "idle"
  /\ \E n \in {c.entries : c \in Configs} :
       draft' = [draft EXCEPT ![a] = Trimmed(Append(log, <<pc[a], Subject(a)>>), n)]
  /\ io' = [io EXCEPT ![a] = "drafted"]
  /\ UNCHANGED <<config, limits, pc, trackerVars, questionVars, log>>

AppendTruncate(a) ==
  /\ io[a] = "drafted"
  /\ log' = << >>
  /\ io' = [io EXCEPT ![a] = "truncated"]
  /\ UNCHANGED <<config, limits, pc, trackerVars, questionVars, draft>>

AppendWrite(a) ==
  /\ io[a] = "truncated"
  /\ log' = draft[a]
  /\ draft' = [draft EXCEPT ![a] = << >>]
  /\ io' = [io EXCEPT ![a] = "idle"]
  /\ Goto(a, AfterEvent[pc[a]])
  /\ UNCHANGED <<config, limits, trackerVars, questionVars>>
-----------------------------------------------------------------------------
(* The life of a task: run_advanced_task and run_inner.                    *)

\* The next turn of the loop.
Turn(t) ==
  /\ pc[t] = "turn"
  /\ SetStatus(t, "running")
  /\ Goto(t, "working")
  /\ UNCHANGED <<config, limits, questionVars, logVars>>

\* A turn ends without a question: on to the next.
Continue(t) ==
  /\ pc[t] = "working"
  /\ Goto(t, "turn")
  /\ UNCHANGED <<config, limits, trackerVars, questionVars, logVars>>

\* A panic in a turn, as on the plan of a search (extract_json), ends the task
\* unseen: nobody joins it, and the tracker is not told.
Panic(t) ==
  /\ pc[t] = "working"
  /\ Goto(t, "panicked")
  /\ UNCHANGED <<config, limits, trackerVars, questionVars, logVars>>

\* A question directive: the status shows it, the log tells of it, and then
\* it is made answerable and waited for.
Ask(t) ==
  /\ pc[t] = "working" /\ t \in Askers /\ asks[t] < MaxAsks
  /\ SetStatus(t, "needs input")
  /\ Goto(t, "asking")
  /\ UNCHANGED <<config, limits, questionVars, logVars>>

Push(t) ==
  /\ pc[t] = "push"
  /\ asks' = [asks EXCEPT ![t] = @ + 1]
  /\ questions' = questions \cup {<<t, asks[t] + 1>>}
  /\ Goto(t, "waiting")
  /\ UNCHANGED <<config, limits, trackerVars, answered, picked, logVars>>

Receive(t) ==
  /\ pc[t] = "waiting" /\ t \in answered
  /\ answered' = answered \ {t}
  /\ Goto(t, "turn")
  /\ UNCHANGED <<config, limits, trackerVars, questions, asks, picked, logVars>>

\* The task ends, and the tracker is told.
Complete(t, verdict) ==
  /\ SetStatus(t, verdict)
  /\ Goto(t, verdict)
  /\ UNCHANGED <<config, limits, questionVars, logVars>>

\* Done, an error, the last step or the total timeout.
End(t) == pc[t] \in {"turn", "working"} /\ \E verdict \in Finished : Complete(t, verdict)

\* Mutant: the wait for an answer has no bound.
NoTimeOut(t) == FALSE /\ pc[t] = "waiting" /\ Complete(t, "failed")

\* No answer in the time that was left.
TimeOut(t) == pc[t] = "waiting" /\ t \notin answered /\ Complete(t, "failed")

\* Mutant: pending questions are left behind.
CleanUpNothing(t) ==
  /\ pc[t] = "cleanup"
  /\ Goto(t, "done")
  /\ UNCHANGED <<config, limits, trackerVars, questionVars, logVars>>

\* Whatever the task still has pending is withdrawn.
CleanUp(t) ==
  /\ pc[t] = "cleanup"
  /\ questions' = {q \in questions : q[1] # t}
  /\ Goto(t, "done")
  /\ UNCHANGED <<config, limits, trackerVars, asks, answered, picked, logVars>>
-----------------------------------------------------------------------------
(* answer_pending_question: the question is taken off the list, then its    *)
(* answer sent, which fails unnoticed when the task has given up.           *)

Take(a, q) ==
  /\ pc[a] = "idle" /\ q \in questions
  /\ questions' = questions \ {q}
  /\ picked' = [picked EXCEPT ![a] = q]
  /\ Goto(a, "send")
  /\ UNCHANGED <<config, limits, trackerVars, asks, answered, logVars>>

NoQuestion(a) ==
  /\ pc[a] = "idle"
  /\ \E t \in Tasks : \A q \in questions : q[1] # t
  /\ Goto(a, "done")
  /\ UNCHANGED <<config, limits, trackerVars, questionVars, logVars>>

\* Mutant: the answer is filed under the question.
AnswerQuestion(a) ==
  LET t == picked[a][1]
  IN  /\ pc[a] = "send"
      /\ answered' = IF pc[t] = "waiting" THEN answered \cup {picked[a]} ELSE answered
      /\ Goto(a, "answered")
      /\ UNCHANGED <<config, limits, trackerVars, questions, asks, picked, logVars>>

SendAnswer(a) ==
  LET t == picked[a][1]
  IN  /\ pc[a] = "send"
      /\ answered' = IF pc[t] = "waiting" THEN answered \cup {t} ELSE answered
      /\ Goto(a, "answered")
      /\ UNCHANGED <<config, limits, trackerVars, questions, asks, picked, logVars>>
-----------------------------------------------------------------------------
AppendStep(a) == AppendRead(a) \/ AppendTruncate(a) \/ AppendWrite(a)

Start(t) == Dispatch(t) \/ Register(t) \/ AtCapacity(t)

Task(t) ==
  \/ Turn(t) \/ Push(t) \/ Receive(t) \/ TimeOut(t) \/ CleanUp(t)

Answerer(a) ==
  \/ \E q \in questions : Take(a, q)
  \/ NoQuestion(a) \/ SendAnswer(a)

Next ==
  \/ \E c \in Configs : Reconfigure(c)
  \/ \E t \in Tasks : Start(t) \/ Task(t) \/ Continue(t) \/ Ask(t) \/ End(t) \/ Panic(t)
  \/ \E a \in Answerers : Answerer(a)
  \/ \E a \in Actors : AppendStep(a)

Spec == Init /\ [][Next]_vars

\* The scheduler runs every task; each turn of a task ends, and max_steps and
\* the total timeout end the task; timers fire.  Nobody need answer.
FairSpec ==
  /\ Spec
  /\ \A t \in Tasks : WF_vars(Task(t) \/ AppendStep(t)) /\ SF_vars(End(t))
  /\ \A a \in Answerers : WF_vars(SendAnswer(a) \/ AppendStep(a))
-----------------------------------------------------------------------------
\* Concurrent dispatches, on limits that may since have been reloaded, never
\* put more tasks to work than some configuration allows.
SlotsAreBounded ==
  \E c \in Configs : Cardinality(Live) <= c.concurrent

\* The list never outgrows the slots plus the finished tasks to keep, which
\* are as many as the lines of the task log.
ListIsBounded ==
  \E c, d \in Configs : Cardinality(tracked) <= c.concurrent + d.entries

\* A task at work is in the list, and its slot is taken: nothing evicts it,
\* and a task that waits for an answer, or has panicked, holds its slot.
WorkersHoldSlots ==
  \A t \in Tasks : pc[t] \in Working <=> t \in Live

\* A question can be answered exactly while a task waits for it (or has given
\* up and not yet withdrawn it); a waiting task has its question listed, in
\* the hands of one answerer, or answered: no wake-up is lost.
QuestionsMatchWaits ==
  /\ \A q \in questions :
       /\ pc[q[1]] \in {"waiting", "failed", "cleanup"} /\ q[2] = asks[q[1]]
       /\ q[1] \notin answered
  /\ \A t \in Tasks : pc[t] = "waiting" =>
       \/ <<t, asks[t]>> \in questions
       \/ t \in answered
       \/ \E a \in Answerers : pc[a] = "send" /\ picked[a] = <<t, asks[t]>>

\* A slot that is taken is given back, though the user never answers: "an
\* unbounded wait would hold the device's only advanced slot forever".  Only a
\* task that panics keeps it for good.
SlotIsFreed == \A t \in Tasks : t \in Live ~> (t \notin Live \/ pc[t] = "panicked")
=============================================================================
