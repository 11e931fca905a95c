------------------------ MODULE BackgroundTasksProofs ------------------------
(* Proofs about the tracker of the background agents: the tasks at work are  *)
(* the tasks that hold a slot, and the slots are bounded.                    *)
EXTENDS BackgroundTasks, FiniteSetTheorems, WellFoundedInduction, NaturalsInduction, TLAPS

\* The part of the state the tracker and the control of the actors are.
Shape ==
  /\ config \in Configs /\ limits \in [Tasks -> Configs]
  /\ pc \in [Actors -> PC]
  /\ tracked \subseteq Tasks
  /\ status \in [Tasks -> Running \cup Finished]
  /\ io \in [Actors -> {"idle", "drafted", "truncated"}]

\* Only an actor with an event to log is in the middle of an append.
AppendsAreEvents == \A a \in Actors : io[a] # "idle" => pc[a] \in Events

SlotInv == Shape /\ AppendsAreEvents /\ WorkersHoldSlots

LEMMA InitSlots == Init => SlotInv
BY DEF Init, SlotInv, Shape, AppendsAreEvents, WorkersHoldSlots, Live, Running,
       Working, PC, Events, Actors

LEMMA Control ==
  /\ Events \subseteq PC
  /\ \A e \in Events : AfterEvent[e] \in PC
  /\ \A e \in Events : AfterEvent[e] \in Working <=> e \in Working
  /\ Running \cap Finished = {}
BY DEF Events, PC, AfterEvent, Working, Running, Finished

\* Registering puts the task among the live ones and takes none away.
LEMMA RegisterLive ==
  ASSUME Shape, NEW t \in Tasks, Register(t)
  PROVE  Live' = Live \cup {t}
<1>1. Surplus(limits[t].entries) \subseteq Ended
  BY DEF Surplus
<1>2. Ended \cap Live = {}
  BY Control DEF Ended, Live
<1>3. status' = [status EXCEPT ![t] = "running"] /\ "running" \in Running
  BY DEF Register, Running
<1>4. tracked' = (tracked \ Surplus(limits[t].entries)) \cup {t}
  BY DEF Register
<1>5. \A u \in tracked' : u \in Live' <=> status'[u] \in Running
  BY DEF Live
<1> QED BY <1>1, <1>2, <1>3, <1>4 DEF Live, Ended, Shape

\* A status update of a listed task decides whether it is live.
LEMMA StatusLive ==
  ASSUME Shape, NEW t \in Live, NEW s \in Running \cup Finished, SetStatus(t, s)
  PROVE  /\ s \in Running => Live' = Live
         /\ s \in Finished => Live' = Live \ {t}
         /\ status' \in [Tasks -> Running \cup Finished]
<1>1. t \in tracked /\ t \in Tasks BY DEF Live, Shape
<1>2. status' = [status EXCEPT ![t] = s] /\ tracked' = tracked
  BY <1>1 DEF SetStatus
<1> QED BY <1>1, <1>2, Control DEF Live, Shape

LEMMA SlotStep == SlotInv /\ [Next]_vars => SlotInv'
<1> SUFFICES ASSUME SlotInv, [Next]_vars PROVE SlotInv'
  OBVIOUS
<1> USE DEF SlotInv
<1>a. Tasks \subseteq Actors BY DEF Actors
<1>b. ASSUME NEW u \in Tasks, NEW s \in PC, pc[u] \notin Events, Goto(u, s),
             s \in Working <=> u \in Live', Live' \ {u} = Live \ {u},
             UNCHANGED <<config, limits, tracked, io>>,
             status' \in [Tasks -> Running \cup Finished]
      PROVE  SlotInv'
  <2>1. pc' = [pc EXCEPT ![u] = s] BY <1>b DEF Goto
  <2>2. Shape' BY <1>b, <2>1 DEF Shape
  <2>3. AppendsAreEvents' BY <1>a, <1>b, <2>1 DEF Shape, AppendsAreEvents
  <2>4. WorkersHoldSlots' BY <1>a, <1>b, <2>1 DEF Shape, WorkersHoldSlots
  <2> QED BY <2>2, <2>3, <2>4
<1>c. ASSUME NEW a \in Actors, NEW s \in PC, Goto(a, s),
             a \in Tasks => (s \in Working <=> pc[a] \in Working),
             io[a] = "idle", UNCHANGED <<config, limits, tracked, status, io>>
      PROVE  SlotInv'
  <2>1. pc' = [pc EXCEPT ![a] = s] BY <1>c DEF Goto
  <2>2. Shape' BY <1>c, <2>1 DEF Shape
  <2>3. AppendsAreEvents' BY <1>c, <2>1 DEF Shape, AppendsAreEvents
  <2>4. Live' = Live BY <1>c DEF Live
  <2>5. WorkersHoldSlots' BY <1>a, <1>c, <2>1, <2>4 DEF Shape, WorkersHoldSlots
  <2> QED BY <2>2, <2>3, <2>5
<1>d. ASSUME NEW a \in Actors, pc[a] \notin Events PROVE io[a] = "idle"
  BY <1>d DEF AppendsAreEvents
<1>1. ASSUME NEW c \in Configs, Reconfigure(c) PROVE SlotInv'
  BY <1>1 DEF Reconfigure, Shape, AppendsAreEvents, WorkersHoldSlots, Live,
              trackerVars, logVars
<1>2. ASSUME NEW t \in Tasks, Dispatch(t) PROVE SlotInv'
  <2>1. pc' = [pc EXCEPT ![t] = "ready"] /\ pc[t] = "idle"
    BY <1>2 DEF Dispatch, Goto
  <2>2. Shape'
    BY <1>2, <2>1 DEF Dispatch, Shape, PC, trackerVars, logVars
  <2>3. AppendsAreEvents'
    BY <1>2, <1>a, <2>1 DEF Dispatch, Shape, AppendsAreEvents, logVars, Events
  <2>4. Live' = Live BY <1>2 DEF Dispatch, trackerVars, Live
  <2>5. WorkersHoldSlots'
    BY <1>a, <2>1, <2>4 DEF Shape, WorkersHoldSlots, Working
  <2> QED BY <2>2, <2>3, <2>5
<1>3. ASSUME NEW t \in Tasks, Register(t) PROVE SlotInv'
  <2>1. Live' = Live \cup {t} BY <1>3, RegisterLive
  <2>2. pc[t] = "ready" /\ pc' = [pc EXCEPT ![t] = "dispatched"]
    BY <1>3 DEF Register, Goto
  <2>3. Shape'
    BY <1>3, <2>2 DEF Register, Shape, PC, Events, Running, logVars
  <2>4. AppendsAreEvents'
    BY <1>3, <1>a, <2>2 DEF Register, Shape, AppendsAreEvents, logVars, Events
  <2>5. WorkersHoldSlots'
    BY <1>a, <2>1, <2>2 DEF Shape, WorkersHoldSlots, Working
  <2> QED BY <2>3, <2>4, <2>5
<1>4. ASSUME NEW t \in Tasks, AtCapacity(t) PROVE SlotInv'
  <2>1. pc[t] = "ready" /\ Goto(t, "dropped")
        /\ UNCHANGED <<config, limits, tracked, status, io>>
    BY <1>4 DEF AtCapacity, trackerVars, logVars
  <2>2. "dropped" \in PC /\ "dropped" \notin Working /\ "ready" \notin Working
        /\ "ready" \notin Events
    BY DEF PC, Working, Events
  <2> QED BY <1>a, <1>c, <1>d, <2>1, <2>2
<1>5. ASSUME NEW t \in Tasks, Turn(t) PROVE SlotInv'
  <2>1. pc[t] = "turn" /\ Goto(t, "working") /\ SetStatus(t, "running")
        /\ UNCHANGED <<config, limits, io>>
    BY <1>5 DEF Turn, logVars
  <2>2. "turn" \in Working /\ "working" \in Working /\ "working" \in PC
        /\ "turn" \notin Events /\ "running" \in Running
    BY DEF PC, Working, Events, Running
  <2>3. t \in Live BY <2>1, <2>2 DEF WorkersHoldSlots
  <2>4. Live' = Live /\ status' \in [Tasks -> Running \cup Finished]
    BY <2>1, <2>2, <2>3, StatusLive
  <2>5. UNCHANGED tracked BY <2>1 DEF SetStatus
  <2> QED BY <1>b, <2>1, <2>2, <2>3, <2>4, <2>5
<1>6. ASSUME NEW t \in Tasks, Push(t) \/ Continue(t) \/ Panic(t) \/ Receive(t) \/ CleanUp(t)
      PROVE  SlotInv'
  <2>1. PICK s \in {"turn", "waiting", "done", "panicked"} :
             /\ Goto(t, s) /\ pc[t] \notin Events
             /\ s \in Working <=> pc[t] \in Working
             /\ UNCHANGED <<config, limits, tracked, status, io>>
    BY <1>6 DEF Push, Continue, Panic, Receive, CleanUp, trackerVars, logVars, Working,
                Events
  <2>2. s \in PC BY DEF PC, Working
  <2> QED BY <1>a, <1>c, <1>d, <2>1, <2>2
<1>7. ASSUME NEW t \in Tasks, Ask(t) PROVE SlotInv'
  <2>1. pc[t] = "working" /\ Goto(t, "asking") /\ SetStatus(t, "needs input")
        /\ UNCHANGED <<config, limits, io>>
    BY <1>7 DEF Ask, logVars
  <2>2. "working" \in Working /\ "asking" \in Working /\ "asking" \in PC
        /\ "working" \notin Events /\ "needs input" \in Running
    BY DEF PC, Working, Events, Running
  <2>3. t \in Live BY <2>1, <2>2 DEF WorkersHoldSlots
  <2>4. Live' = Live /\ status' \in [Tasks -> Running \cup Finished]
    BY <2>1, <2>2, <2>3, StatusLive
  <2>5. UNCHANGED tracked BY <2>1 DEF SetStatus
  <2> QED BY <1>b, <2>1, <2>2, <2>3, <2>4, <2>5
<1>8. ASSUME NEW t \in Tasks, End(t) \/ TimeOut(t) PROVE SlotInv'
  <2>1. pc[t] \in Working /\ pc[t] \notin Events
    BY <1>8 DEF End, TimeOut, Working, Events
  <2>2. PICK v \in Finished : Complete(t, v)
    BY <1>8 DEF End, TimeOut, Finished
  <2>3. Goto(t, v) /\ SetStatus(t, v) /\ UNCHANGED <<config, limits, io>>
    BY <2>2 DEF Complete, logVars
  <2>4. v \in PC /\ v \notin Working
    BY DEF PC, Working, Events, Finished
  <2>5. t \in Live BY <2>1 DEF WorkersHoldSlots
  <2>6. Live' = Live \ {t} /\ status' \in [Tasks -> Running \cup Finished]
    BY <2>3, <2>5, StatusLive
  <2>7. UNCHANGED tracked BY <2>3 DEF SetStatus
  <2> QED BY <1>b, <2>1, <2>3, <2>4, <2>6, <2>7
<1>9. ASSUME NEW a \in Answerers, Answerer(a) PROVE SlotInv'
  <2>1. a \in Actors /\ a \notin Tasks
    BY TaskAssumption DEF Actors
  <2>2. PICK s \in {"send", "done", "answered"} :
             /\ Goto(a, s) /\ pc[a] \notin Events
             /\ UNCHANGED <<config, limits, tracked, status, io>>
    BY <1>9 DEF Answerer, Take, NoQuestion, SendAnswer, trackerVars, logVars, Events
  <2>3. s \in PC BY DEF PC, Events
  <2> QED BY <1>c, <1>d, <2>1, <2>2, <2>3
<1>10. ASSUME NEW a \in Actors, AppendRead(a) \/ AppendTruncate(a) PROVE SlotInv'
  <2>1. /\ UNCHANGED <<config, limits, pc, tracked, status>>
        /\ pc[a] \in Events
        /\ \E x \in {"drafted", "truncated"} : io' = [io EXCEPT ![a] = x]
    BY <1>10 DEF AppendRead, AppendTruncate, trackerVars, AppendsAreEvents
  <2>2. Live' = Live BY <2>1 DEF Live
  <2> QED BY <2>1, <2>2 DEF Shape, AppendsAreEvents, WorkersHoldSlots
<1>11. ASSUME NEW a \in Actors, AppendWrite(a) PROVE SlotInv'
  <2>1. /\ UNCHANGED <<config, limits, tracked, status>> /\ io[a] = "truncated"
        /\ io' = [io EXCEPT ![a] = "idle"]
        /\ pc' = [pc EXCEPT ![a] = AfterEvent[pc[a]]]
    BY <1>11 DEF AppendWrite, trackerVars, Goto
  <2>2. pc[a] \in Events BY <2>1 DEF AppendsAreEvents
  <2>3. Shape' BY <2>1, <2>2, Control DEF Shape
  <2>4. AppendsAreEvents' BY <2>1 DEF Shape, AppendsAreEvents
  <2>5. Live' = Live BY <2>1 DEF Live
  <2>6. WorkersHoldSlots'
    BY <1>a, <2>1, <2>2, <2>5, Control DEF Shape, WorkersHoldSlots
  <2> QED BY <2>3, <2>4, <2>6
<1>12. ASSUME UNCHANGED vars PROVE SlotInv'
  BY <1>12 DEF vars, trackerVars, logVars, Shape, AppendsAreEvents,
               WorkersHoldSlots, Live
<1> QED
  BY <1>1, <1>2, <1>3, <1>4, <1>5, <1>6, <1>7, <1>8, <1>9, <1>10, <1>11, <1>12
     DEF Next, Start, Task, AppendStep

LEMMA SlotsInvariant == Spec => []SlotInv
BY InitSlots, SlotStep, PTL DEF Spec

\* A task at work is in the list and its slot is taken: the retention of
\* TaskTracker::register evicts finished tasks only.
THEOREM WorkersAreTracked == Spec => []WorkersHoldSlots
<1>1. SlotInv => WorkersHoldSlots BY DEF SlotInv
<1> QED BY <1>1, SlotsInvariant, PTL

-----------------------------------------------------------------------------
LEMMA LiveIsFinite ==
  ASSUME Shape
  PROVE  IsFiniteSet(Live) /\ Cardinality(Live) \in Nat
<1>1. Live \subseteq Tasks /\ IsFiniteSet(Tasks)
  BY TaskAssumption DEF Live, Shape
<1> QED BY <1>1, FS_Subset, FS_CardinalityType

LEMMA InitBounded == Init => SlotsAreBounded
<1> SUFFICES ASSUME Init PROVE SlotsAreBounded
  OBVIOUS
<1>1. Live = {} BY DEF Init, Live
<1>2. Cardinality(Live) = 0 BY <1>1, FS_EmptySet
<1>3. \A c \in Configs : c.concurrent \in Nat BY TaskAssumption
<1> QED BY <1>2, <1>3, TaskAssumption DEF SlotsAreBounded

\* Every other step keeps the live tasks or drops one.
LEMMA LiveGrowsByRegister ==
  ASSUME SlotInv, [Next]_vars, \A t \in Tasks : ~Register(t)
  PROVE  Live' \subseteq Live
<1> USE DEF SlotInv
<1>1. ASSUME UNCHANGED <<tracked, status>> PROVE Live' \subseteq Live
  BY <1>1 DEF Live
<1>2. ASSUME NEW t \in Tasks, NEW s \in Running \cup Finished, SetStatus(t, s),
             pc[t] \in Working
      PROVE  Live' \subseteq Live
  <2>1. t \in Live BY <1>2 DEF WorkersHoldSlots
  <2> QED BY <1>2, <2>1, StatusLive
<1>3. ASSUME NEW t \in Tasks, Turn(t) \/ Ask(t) \/ End(t) \/ TimeOut(t)
      PROVE  Live' \subseteq Live
  <2>1. pc[t] \in Working
    BY <1>3 DEF Turn, Ask, End, TimeOut, Working
  <2>2. \E s \in Running \cup Finished : SetStatus(t, s)
    BY <1>3 DEF Turn, Ask, End, TimeOut, Complete, Running, Finished
  <2> QED BY <1>2, <2>1, <2>2
<1>4. ASSUME NEW c \in Configs, Reconfigure(c) PROVE Live' \subseteq Live
  BY <1>1, <1>4 DEF Reconfigure, trackerVars
<1>5. ASSUME NEW t \in Tasks, \/ Dispatch(t) \/ AtCapacity(t) \/ Push(t)
                              \/ Continue(t) \/ Panic(t) \/ Receive(t) \/ CleanUp(t)
      PROVE  Live' \subseteq Live
  BY <1>1, <1>5 DEF Dispatch, AtCapacity, Push, Continue, Panic, Receive, CleanUp,
                    trackerVars
<1>6. ASSUME NEW a \in Answerers, Answerer(a) PROVE Live' \subseteq Live
  BY <1>1, <1>6 DEF Answerer, Take, NoQuestion, SendAnswer, trackerVars
<1>7. ASSUME NEW a \in Actors, AppendStep(a) PROVE Live' \subseteq Live
  BY <1>1, <1>7 DEF AppendStep, AppendRead, AppendTruncate, AppendWrite, trackerVars
<1>8. ASSUME UNCHANGED vars PROVE Live' \subseteq Live
  BY <1>1, <1>8 DEF vars, trackerVars
<1> QED BY <1>3, <1>4, <1>5, <1>6, <1>7, <1>8 DEF Next, Start, Task

LEMMA BoundedStep ==
  ASSUME SlotInv, SlotsAreBounded, [Next]_vars
  PROVE  SlotsAreBounded'
<1>1. IsFiniteSet(Live) /\ Cardinality(Live) \in Nat
  BY LiveIsFinite DEF SlotInv
<1>2. CASE \E t \in Tasks : Register(t)
  <2>1. PICK t \in Tasks : Register(t) BY <1>2
  <2>2. Live' = Live \cup {t} BY <2>1, RegisterLive DEF SlotInv
  <2>3. t \notin Live
    BY <2>1 DEF SlotInv, WorkersHoldSlots, Register, Working
  <2>4. Cardinality(Live') = Cardinality(Live) + 1
    BY <1>1, <2>2, <2>3, FS_AddElement
  <2>5. limits[t] \in Configs /\ limits[t].concurrent \in Nat
    BY TaskAssumption DEF SlotInv, Shape
  <2>6. Cardinality(Live) < limits[t].concurrent BY <2>1 DEF Register
  <2>7. Cardinality(Live') <= limits[t].concurrent BY <1>1, <2>4, <2>5, <2>6
  <2> QED BY <2>5, <2>7 DEF SlotsAreBounded
<1>3. CASE \A t \in Tasks : ~Register(t)
  <2>1. Live' \subseteq Live BY <1>3, LiveGrowsByRegister
  <2>2. Cardinality(Live') \in Nat /\ Cardinality(Live') <= Cardinality(Live)
    BY <1>1, <2>1, FS_Subset, FS_CardinalityType
  <2>3. PICK c \in Configs : Cardinality(Live) <= c.concurrent
    BY DEF SlotsAreBounded
  <2>4. c.concurrent \in Nat BY TaskAssumption
  <2>5. Cardinality(Live') <= c.concurrent BY <1>1, <2>2, <2>3, <2>4
  <2> QED BY <2>5 DEF SlotsAreBounded
<1> QED BY <1>2, <1>3

\* Whatever dispatches interleave and reloads happen, no more tasks are at work
\* than some configuration allows: check and insertion are one step under the
\* tracker's lock.
THEOREM SlotsNeverOverflow == Spec => []SlotsAreBounded
<1>1. SlotInv /\ SlotsAreBounded /\ [Next]_vars => SlotsAreBounded'
  BY BoundedStep
<1> QED BY <1>1, InitBounded, SlotsInvariant, PTL DEF Spec

-----------------------------------------------------------------------------
(* Questions and answers.                                                    *)

\* The question an answerer has taken, while it has not sent the answer: its
\* task waits for it or has given up.
InHand(a) ==
  /\ picked[a][1] \in Tasks
  /\ pc[picked[a][1]] \in {"waiting", "failed", "cleanup", "done"}
  /\ picked[a][2] = asks[picked[a][1]]
  /\ picked[a][1] \notin answered
  /\ \A q \in questions : q[1] # picked[a][1]

Listed(q) ==
  pc[q[1]] \in {"waiting", "failed", "cleanup"} /\ q[2] = asks[q[1]] /\ q[1] \notin answered

Heeded(t) ==
  \/ \E q \in questions : q[1] = t
  \/ t \in answered
  \/ \E a \in Answerers : pc[a] = "send" /\ picked[a][1] = t

QuestionShape ==
  /\ questions \subseteq Tasks \X Nat
  /\ asks \in [Tasks -> Nat]
  /\ picked \in [Answerers -> (Tasks \cup {NoTask}) \X Nat]

QuestionInv ==
  /\ QuestionShape
  /\ \A t \in answered : t \in Tasks /\ pc[t] = "waiting"
  /\ \A q \in questions : Listed(q)
  /\ \A a \in Answerers : pc[a] = "send" => InHand(a)
  /\ \A a, b \in Answerers :
       a # b /\ pc[a] = "send" /\ pc[b] = "send" => picked[a][1] # picked[b][1]
  /\ \A t \in Tasks : pc[t] = "waiting" => Heeded(t)

LEMMA QuestionInit == Init => QuestionInv
<1> SUFFICES ASSUME Init PROVE QuestionInv OBVIOUS
<1>1. QuestionShape
  BY DEF Init, QuestionShape
<1>2. \A a \in Actors : pc[a] = "idle" BY DEF Init
<1>3. questions = {} /\ answered = {} BY DEF Init
<1> QED BY <1>1, <1>2, <1>3 DEF QuestionInv, Actors

LEMMA QuestionStill ==
  ASSUME QuestionInv, UNCHANGED <<pc, questionVars>>
  PROVE  QuestionInv'
BY DEF QuestionInv, QuestionShape, Listed, InHand, Heeded, questionVars

\* A task that neither waits nor has a question left goes on.
LEMMA TaskMoves ==
  ASSUME Shape, QuestionInv, NEW u \in Tasks, NEW s, Goto(u, s), UNCHANGED questionVars,
         pc[u] = "waiting" => s = "failed" /\ u \notin answered,
         pc[u] = "failed" => s = "cleanup",
         pc[u] \notin {"cleanup", "done"}, s # "waiting"
  PROVE  QuestionInv'
<1>1. /\ pc'[u] = s /\ \A a \in Answerers : pc'[a] = pc[a]
      /\ \A t \in Tasks \ {u} : pc'[t] = pc[t]
  BY TaskAssumption DEF Goto, Shape, Actors
<1>2. UNCHANGED <<questions, asks, answered, picked>> BY DEF questionVars
<1>3. QuestionShape' BY <1>2 DEF QuestionInv, QuestionShape
<1>4. \A t \in answered' : t \in Tasks /\ pc'[t] = "waiting"
  BY <1>1, <1>2 DEF QuestionInv
<1>5. ASSUME NEW q \in questions' PROVE Listed(q)'
  <2>1. Listed(q) /\ q[1] \in Tasks BY <1>2 DEF QuestionInv, QuestionShape
  <2> QED BY <1>1, <1>2, <2>1 DEF Listed
<1>6. ASSUME NEW a \in Answerers, pc'[a] = "send" PROVE InHand(a)'
  <2>1. InHand(a) BY <1>1, <1>6 DEF QuestionInv
  <2> QED BY <1>1, <1>2, <2>1 DEF InHand
<1>7. \A a, b \in Answerers :
        a # b /\ pc'[a] = "send" /\ pc'[b] = "send" => picked'[a][1] # picked'[b][1]
  BY <1>1, <1>2 DEF QuestionInv
<1>8. ASSUME NEW t \in Tasks, pc'[t] = "waiting" PROVE Heeded(t)'
  <2>1. Heeded(t) BY <1>1, <1>8 DEF QuestionInv
  <2> QED BY <1>1, <1>2, <2>1 DEF Heeded
<1> QED BY <1>3, <1>4, <1>5, <1>6, <1>7, <1>8 DEF QuestionInv

LEMMA PushKeeps ==
  ASSUME Shape, QuestionInv, NEW u \in Tasks, Push(u)
  PROVE  QuestionInv'
<1>1. /\ pc[u] = "push" /\ pc'[u] = "waiting" /\ \A a \in Answerers : pc'[a] = pc[a]
      /\ \A t \in Tasks \ {u} : pc'[t] = pc[t]
  BY TaskAssumption DEF Push, Goto, Shape, Actors
<1>2. /\ asks' = [asks EXCEPT ![u] = @ + 1]
      /\ questions' = questions \cup {<<u, asks[u] + 1>>}
      /\ UNCHANGED <<answered, picked>>
  BY DEF Push
<1>3. asks[u] \in Nat /\ asks[u] + 1 \in Nat /\ asks'[u] = asks[u] + 1
      /\ \A t \in Tasks \ {u} : asks'[t] = asks[t]
  BY <1>2 DEF QuestionInv, QuestionShape
<1>4. QuestionShape' BY <1>2, <1>3 DEF QuestionInv, QuestionShape
<1>5. \A q \in questions : q[1] \in Tasks /\ q[1] # u
  BY <1>1 DEF QuestionInv, Listed, QuestionShape
<1>6. u \notin answered BY <1>1 DEF QuestionInv
<1>7. \A t \in answered' : t \in Tasks /\ pc'[t] = "waiting"
  BY <1>1, <1>2 DEF QuestionInv
<1>8. ASSUME NEW q \in questions' PROVE Listed(q)'
  <2>1. CASE q \in questions
    <3>1. Listed(q) BY <2>1 DEF QuestionInv
    <3> QED BY <1>1, <1>2, <1>3, <1>5, <2>1, <3>1 DEF Listed
  <2>2. CASE q = <<u, asks[u] + 1>>
    BY <1>1, <1>2, <1>3, <1>6, <2>2 DEF Listed
  <2> QED BY <1>2, <2>1, <2>2
<1>9. ASSUME NEW a \in Answerers, pc'[a] = "send" PROVE InHand(a)'
  <2>1. InHand(a) BY <1>1, <1>9 DEF QuestionInv
  <2>2. picked[a][1] # u BY <1>1, <2>1 DEF InHand
  <2> QED BY <1>1, <1>2, <1>3, <2>1, <2>2 DEF InHand
<1>10. \A a, b \in Answerers :
         a # b /\ pc'[a] = "send" /\ pc'[b] = "send" => picked'[a][1] # picked'[b][1]
  BY <1>1, <1>2 DEF QuestionInv
<1>11. ASSUME NEW t \in Tasks, pc'[t] = "waiting" PROVE Heeded(t)'
  <2>1. CASE t = u
    <3>1. <<u, asks[u] + 1>> \in questions' /\ <<u, asks[u] + 1>>[1] = u BY <1>2
    <3>2. \E q \in questions' : q[1] = u BY <3>1, Zenon
    <3> QED BY <2>1, <3>2 DEF Heeded
  <2>2. CASE t # u
    <3>1. Heeded(t) BY <1>1, <1>11, <2>2 DEF QuestionInv
    <3> QED BY <1>1, <1>2, <3>1 DEF Heeded
  <2> QED BY <2>1, <2>2
<1> QED BY <1>4, <1>7, <1>8, <1>9, <1>10, <1>11 DEF QuestionInv

\* The task takes its answer, or withdraws what it still has pending.
LEMMA ReceiveKeeps ==
  ASSUME Shape, QuestionInv, NEW u \in Tasks, Receive(u) \/ CleanUp(u)
  PROVE  QuestionInv'
<1>1. /\ Receive(u) => pc[u] = "waiting" /\ u \in answered /\ pc'[u] = "turn"
      /\ CleanUp(u) => pc[u] = "cleanup" /\ pc'[u] = "done"
      /\ \A a \in Answerers : pc'[a] = pc[a]
      /\ \A t \in Tasks \ {u} : pc'[t] = pc[t]
  BY TaskAssumption DEF Receive, CleanUp, Goto, Shape, Actors
<1>2. /\ UNCHANGED <<asks, picked>>
      /\ questions' \subseteq questions
      /\ answered' \subseteq answered
      /\ CleanUp(u) => \A q \in questions' : q[1] # u
      /\ u \notin answered' \/ ~Receive(u)
      /\ \A q \in questions : q[1] # u => q \in questions'
      /\ \A t \in answered : t # u => t \in answered'
  BY DEF Receive, CleanUp
<1>3. QuestionShape' BY <1>2 DEF QuestionInv, QuestionShape
<1>4. u \in answered => pc[u] = "waiting" BY DEF QuestionInv
<1>5. ASSUME NEW t \in answered' PROVE t \in Tasks /\ pc'[t] = "waiting"
  <2>1. t \in answered /\ t \in Tasks /\ pc[t] = "waiting" BY <1>2, <1>5 DEF QuestionInv
  <2>2. t # u BY <1>1, <1>2, <1>5, <2>1
  <2> QED BY <1>1, <2>1, <2>2
<1>6. ASSUME NEW q \in questions' PROVE Listed(q)'
  <2>1. q \in questions /\ Listed(q) /\ q[1] \in Tasks
    BY <1>2, <1>6 DEF QuestionInv, QuestionShape
  <2>2. q[1] # u BY <1>1, <1>2, <1>6, <2>1 DEF Listed
  <2> QED BY <1>1, <1>2, <2>1, <2>2 DEF Listed
<1>7. ASSUME NEW a \in Answerers, pc'[a] = "send" PROVE InHand(a)'
  <2>1. InHand(a) BY <1>1, <1>7 DEF QuestionInv
  <2>2. picked[a][1] = u => pc'[u] = "done" BY <1>1, <2>1 DEF InHand
  <2> QED BY <1>1, <1>2, <2>1, <2>2 DEF InHand
<1>8. \A a, b \in Answerers :
        a # b /\ pc'[a] = "send" /\ pc'[b] = "send" => picked'[a][1] # picked'[b][1]
  BY <1>1, <1>2 DEF QuestionInv
<1>9. ASSUME NEW t \in Tasks, pc'[t] = "waiting" PROVE Heeded(t)'
  <2>1. t # u BY <1>1, <1>9
  <2>2. Heeded(t) BY <1>1, <1>9, <2>1 DEF QuestionInv
  <2> QED BY <1>1, <1>2, <2>1, <2>2 DEF Heeded
<1> QED BY <1>3, <1>5, <1>6, <1>7, <1>8, <1>9 DEF QuestionInv

LEMMA TakeKeeps ==
  ASSUME Shape, QuestionInv, NEW b \in Answerers, NEW p \in questions, Take(b, p)
  PROVE  QuestionInv'
<1>1. /\ pc[b] = "idle" /\ pc'[b] = "send"
      /\ \A t \in Tasks : pc'[t] = pc[t]
      /\ \A a \in Answerers \ {b} : pc'[a] = pc[a]
  BY TaskAssumption DEF Take, Goto, Shape, Actors
<1>2. /\ questions' = questions \ {p} /\ UNCHANGED <<asks, answered>>
      /\ picked' = [picked EXCEPT ![b] = p]
  BY DEF Take
<1>3. p \in Tasks \X Nat /\ p[1] \in Tasks /\ Listed(p)
  BY DEF QuestionInv, QuestionShape
<1>4. picked'[b] = p /\ \A a \in Answerers \ {b} : picked'[a] = picked[a]
  BY <1>2 DEF QuestionInv, QuestionShape
<1>5. QuestionShape' BY <1>2, <1>3 DEF QuestionInv, QuestionShape
<1>6. \A q \in questions' : q[1] # p[1]
  <2>1. ASSUME NEW q \in questions, q[1] = p[1] PROVE q = p
    <3>1. q \in Tasks \X Nat /\ Listed(q) BY DEF QuestionInv, QuestionShape
    <3>2. q[2] = p[2] BY <1>3, <2>1, <3>1 DEF Listed
    <3> QED BY <1>3, <2>1, <3>1, <3>2
  <2> QED BY <1>2, <2>1
<1>7. \A t \in answered' : t \in Tasks /\ pc'[t] = "waiting"
  BY <1>1, <1>2 DEF QuestionInv
<1>8. ASSUME NEW q \in questions' PROVE Listed(q)'
  <2>1. Listed(q) /\ q[1] \in Tasks BY <1>2 DEF QuestionInv, QuestionShape
  <2> QED BY <1>1, <1>2, <2>1 DEF Listed
<1>9. ASSUME NEW a \in Answerers, pc'[a] = "send" PROVE InHand(a)'
  <2>1. CASE a = b
    BY <1>1, <1>2, <1>3, <1>4, <1>6, <2>1 DEF InHand, Listed
  <2>2. CASE a # b
    <3>1. InHand(a) BY <1>1, <1>9, <2>2 DEF QuestionInv
    <3> QED BY <1>1, <1>2, <1>4, <2>2, <3>1 DEF InHand
  <2> QED BY <2>1, <2>2
<1>10. ASSUME NEW a \in Answerers, NEW c \in Answerers, a # c, pc'[a] = "send", pc'[c] = "send"
       PROVE  picked'[a][1] # picked'[c][1]
  <2>1. \A d \in Answerers \ {b} : pc[d] = "send" => picked[d][1] # p[1]
    BY DEF QuestionInv, InHand
  <2> QED BY <1>1, <1>4, <1>10, <2>1 DEF QuestionInv
<1>11. ASSUME NEW t \in Tasks, pc'[t] = "waiting" PROVE Heeded(t)'
  <2>1. Heeded(t) BY <1>1, <1>11 DEF QuestionInv
  <2>2. CASE t = p[1] BY <1>1, <1>4, <2>2 DEF Heeded
  <2>3. CASE t # p[1] BY <1>1, <1>2, <1>4, <2>1, <2>3 DEF Heeded
  <2> QED BY <2>2, <2>3
<1> QED BY <1>5, <1>7, <1>8, <1>9, <1>10, <1>11 DEF QuestionInv

\* An answerer sends what it has, or has nothing in hand and goes on.
LEMMA AnswererKeeps ==
  ASSUME Shape, QuestionInv, NEW b \in Answerers, NEW s, Goto(b, s), s # "send",
         UNCHANGED <<questions, asks, picked>>,
         \/ UNCHANGED answered /\ pc[b] # "send"
         \/ /\ pc[b] = "send"
            /\ answered' = IF pc[picked[b][1]] = "waiting" THEN answered \cup {picked[b][1]}
                           ELSE answered
  PROVE  QuestionInv'
<1>1. /\ pc'[b] = s /\ \A t \in Tasks : pc'[t] = pc[t]
      /\ \A a \in Answerers \ {b} : pc'[a] = pc[a]
  BY TaskAssumption DEF Goto, Shape, Actors
<1>2. QuestionShape' BY DEF QuestionInv, QuestionShape
<1>3. /\ \A t \in answered : t \in answered'
      /\ \A t \in answered' : t \in answered \/ (pc[b] = "send" /\ t = picked[b][1] /\ pc[t] = "waiting")
  OBVIOUS
<1>4. pc[b] = "send" => InHand(b) BY DEF QuestionInv
<1>5. ASSUME NEW t \in answered' PROVE t \in Tasks /\ pc'[t] = "waiting"
  BY <1>1, <1>3, <1>4, <1>5 DEF QuestionInv, InHand
<1>6. ASSUME NEW q \in questions' PROVE Listed(q)'
  <2>1. Listed(q) /\ q[1] \in Tasks BY DEF QuestionInv, QuestionShape
  <2>2. q[1] \notin answered' BY <1>3, <1>4, <1>6, <2>1 DEF Listed, InHand
  <2> QED BY <1>1, <2>1, <2>2 DEF Listed
<1>7. ASSUME NEW a \in Answerers, pc'[a] = "send" PROVE InHand(a)'
  <2>1. a # b /\ pc[a] = "send" /\ InHand(a) BY <1>1, <1>7 DEF QuestionInv
  <2>2. pc[b] = "send" => picked[a][1] # picked[b][1] BY <2>1 DEF QuestionInv
  <2>3. picked[a][1] \notin answered' BY <1>3, <2>1, <2>2 DEF InHand
  <2> QED BY <1>1, <2>1, <2>3 DEF InHand
<1>8. \A a, c \in Answerers :
        a # c /\ pc'[a] = "send" /\ pc'[c] = "send" => picked'[a][1] # picked'[c][1]
  BY <1>1 DEF QuestionInv
<1>9. ASSUME NEW t \in Tasks, pc'[t] = "waiting" PROVE Heeded(t)'
  <2>1. Heeded(t) BY <1>1, <1>9 DEF QuestionInv
  <2>2. CASE pc[b] = "send" /\ picked[b][1] = t
    <3>1. t \in answered' BY <1>1, <1>9, <2>2
    <3> QED BY <3>1 DEF Heeded
  <2>3. CASE ~(pc[b] = "send" /\ picked[b][1] = t)
    BY <1>1, <1>3, <2>1, <2>3 DEF Heeded
  <2> QED BY <2>2, <2>3
<1> QED BY <1>2, <1>5, <1>6, <1>7, <1>8, <1>9 DEF QuestionInv

LEMMA QuestionStep == SlotInv /\ QuestionInv /\ [Next]_vars => QuestionInv'
<1> SUFFICES ASSUME SlotInv, QuestionInv, [Next]_vars PROVE QuestionInv'
  OBVIOUS
<1>a. Shape /\ AppendsAreEvents BY DEF SlotInv
<1>1. ASSUME NEW c \in Configs, Reconfigure(c) PROVE QuestionInv'
  BY <1>1, QuestionStill DEF Reconfigure
<1>2. ASSUME NEW t \in Tasks, Start(t) \/ Turn(t) \/ Continue(t) \/ Panic(t) \/ Ask(t) \/ End(t)
                             \/ TimeOut(t)
      PROVE  QuestionInv'
  <2>1. PICK s \in {"ready", "dispatched", "dropped", "working", "turn", "panicked", "asking"}
                    \cup Finished :
          /\ Goto(t, s) /\ UNCHANGED questionVars
          /\ pc[t] \in {"idle", "ready", "turn", "working", "waiting"}
          /\ pc[t] = "waiting" => s = "failed" /\ t \notin answered
    BY <1>2 DEF Start, Dispatch, Register, AtCapacity, Turn, Continue, Panic, Ask, End, TimeOut,
                Complete, Finished
  <2> QED BY <1>a, <2>1, TaskMoves DEF Finished
<1>3. ASSUME NEW t \in Tasks, Push(t) PROVE QuestionInv'
  BY <1>a, <1>3, PushKeeps
<1>4. ASSUME NEW t \in Tasks, Receive(t) \/ CleanUp(t) PROVE QuestionInv'
  BY <1>a, <1>4, ReceiveKeeps
<1>5. ASSUME NEW a \in Answerers, NEW q \in questions, Take(a, q) PROVE QuestionInv'
  BY <1>a, <1>5, TakeKeeps
<1>6. ASSUME NEW a \in Answerers, NoQuestion(a) \/ SendAnswer(a) PROVE QuestionInv'
  <2>1. CASE NoQuestion(a)
    BY <1>a, <2>1, AnswererKeeps DEF NoQuestion, questionVars
  <2>2. CASE SendAnswer(a)
    BY <1>a, <2>2, AnswererKeeps DEF SendAnswer
  <2> QED BY <1>6, <2>1, <2>2
<1>7. ASSUME NEW a \in Actors, AppendRead(a) \/ AppendTruncate(a) PROVE QuestionInv'
  BY <1>7, QuestionStill DEF AppendRead, AppendTruncate
<1>8. ASSUME NEW a \in Actors, AppendWrite(a) PROVE QuestionInv'
  <2>1. Goto(a, AfterEvent[pc[a]]) /\ UNCHANGED questionVars /\ pc[a] \in Events
    BY <1>a, <1>8 DEF AppendWrite, AppendsAreEvents
  <2>2. /\ AfterEvent[pc[a]] \notin {"waiting", "send"}
        /\ pc[a] = "failed" => AfterEvent[pc[a]] = "cleanup"
        /\ pc[a] \notin {"waiting", "send", "cleanup", "done"}
    BY <2>1 DEF Events, AfterEvent
  <2>3. CASE a \in Tasks
    BY <1>a, <2>1, <2>2, <2>3, TaskMoves
  <2>4. CASE a \in Answerers
    BY <1>a, <2>1, <2>2, <2>4, AnswererKeeps DEF questionVars
  <2> QED BY <2>3, <2>4 DEF Actors
<1>9. ASSUME UNCHANGED vars PROVE QuestionInv'
  BY <1>9, QuestionStill DEF vars
<1> QED BY <1>1, <1>2, <1>3, <1>4, <1>5, <1>6, <1>7, <1>8, <1>9 DEF Next, Task, Answerer, AppendStep

\* No wake-up is lost: a task that waits has its question listed, in the hands
\* of an answerer, or answered, and no question outlives its task's wait but
\* until the cleanup (agent/advanced/mod.rs, agent.rs).
THEOREM NoWakeUpIsLost == Spec => []QuestionsMatchWaits
<1>1. QuestionInv => QuestionsMatchWaits
  <2> SUFFICES ASSUME QuestionInv PROVE QuestionsMatchWaits OBVIOUS
  <2>1. \A q \in questions : Listed(q) /\ q \in Tasks \X Nat
    BY DEF QuestionInv, QuestionShape
  <2>2. ASSUME NEW t \in Tasks, pc[t] = "waiting"
        PROVE  \/ <<t, asks[t]>> \in questions
               \/ t \in answered
               \/ \E a \in Answerers : pc[a] = "send" /\ picked[a] = <<t, asks[t]>>
    <3>1. CASE \E q \in questions : q[1] = t
      BY <2>1, <3>1 DEF Listed
    <3>2. ASSUME NEW a \in Answerers, pc[a] = "send", picked[a][1] = t
          PROVE  picked[a] = <<t, asks[t]>>
      <4>1. picked[a] \in (Tasks \cup {NoTask}) \X Nat /\ picked[a][2] = asks[t]
        BY <3>2 DEF QuestionInv, QuestionShape, InHand
      <4> QED BY <3>2, <4>1
    <3> QED BY <2>2, <3>1, <3>2 DEF QuestionInv, Heeded
  <2> QED BY <2>1, <2>2 DEF QuestionsMatchWaits, Listed
<1> QED BY <1>1, QuestionInit, QuestionStep, SlotsInvariant, PTL DEF Spec
-----------------------------------------------------------------------------
(* The length of the list.                                                   *)

Above(E, r, t) == {u \in E : r[u] > r[t]}

\* Of any set of naturals one is the least.
LEMMA LeastElement ==
  ASSUME NEW S \in SUBSET Nat, S # {}
  PROVE  \E x \in S : \A y \in S : x <= y
<1> DEFINE Less == {ss \in Nat \X Nat : ss[1] < ss[2]}
<1>1. IsWellFoundedOn(Less, Nat)
  BY NatLessThanWellFounded, Zenon DEF OpToRel
<1>2. \A a, b \in Nat : a < b => <<a, b>> \in Less
  OBVIOUS
<1> HIDE DEF Less
<1>3. PICK x \in S : \A y \in S : <<y, x>> \notin Less
  BY <1>1, WFMin, Zenon
<1>4. \A y \in S : x \in Nat /\ y \in Nat /\ ~ (y < x)
  BY <1>2, <1>3
<1> QED BY <1>4

\* With distinct ranks, at most n have fewer than n above them.
LEMMA FewAreKept ==
  ASSUME NEW E, IsFiniteSet(E), NEW r \in [Tasks -> Nat], E \subseteq Tasks,
         \A t, u \in E : r[t] = r[u] => t = u, NEW n \in Nat,
         NEW K, K \subseteq E, \A t \in K : ~ (Cardinality(Above(E, r, t)) >= n)
  PROVE  IsFiniteSet(K) /\ Cardinality(K) \in Nat /\ Cardinality(K) <= n
<1>1. IsFiniteSet(K) /\ Cardinality(K) \in Nat
  BY FS_Subset, FS_CardinalityType
<1>2. CASE K = {}
  BY <1>1, <1>2, FS_EmptySet
<1>3. CASE K # {}
  <2> DEFINE S == {r[t] : t \in K}
  <2>1. S \in SUBSET Nat /\ S # {}
    BY <1>3
  <2>2. PICK x \in S : \A y \in S : x <= y
    BY <2>1, LeastElement
  <2>3. PICK t \in K : \A u \in K : r[t] <= r[u]
    BY <2>2
  <2>4. K \ {t} \subseteq Above(E, r, t)
    <3>1. ASSUME NEW u \in K, u # t PROVE r[u] > r[t]
      <4>1. r[u] \in Nat /\ r[t] \in Nat /\ r[u] # r[t] /\ r[t] <= r[u]
        BY <2>3, <3>1
      <4> QED BY <4>1
    <3> QED BY <3>1 DEF Above
  <2>5. IsFiniteSet(Above(E, r, t)) /\ Cardinality(Above(E, r, t)) \in Nat
    <3>1. Above(E, r, t) \in SUBSET E BY DEF Above
    <3> QED BY <3>1, FS_Subset, FS_CardinalityType
  <2>6. Cardinality(K \ {t}) <= Cardinality(Above(E, r, t))
    BY <2>4, <2>5, FS_Subset
  <2>7. Cardinality(K \ {t}) = Cardinality(K) - 1
    BY <1>1, FS_RemoveElement
  <2>8. ~ (Cardinality(Above(E, r, t)) >= n)
    OBVIOUS
  <2> QED BY <1>1, <2>5, <2>6, <2>7, <2>8
<1> QED BY <1>2, <1>3

Ranked == {t \in Tasks : rank[t] > 0}

\* Places in the list are given once, in the order of registration.
RankInv ==
  /\ rank \in [Tasks -> Nat]
  /\ \A t, u \in Tasks : rank[t] > 0 /\ rank[t] = rank[u] => t = u
  /\ \A t \in Tasks : rank[t] <= Cardinality(Ranked)
  /\ \A t \in tracked : rank[t] > 0
  /\ \A t \in Tasks : pc[t] \in {"idle", "ready"} => rank[t] = 0

LEMMA RankedIsFinite == IsFiniteSet(Ranked) /\ Cardinality(Ranked) \in Nat
<1>1. Ranked \in SUBSET Tasks BY DEF Ranked
<1> QED BY <1>1, TaskAssumption, FS_Subset, FS_CardinalityType

LEMMA RankInit == Init => RankInv
<1> SUFFICES ASSUME Init PROVE RankInv OBVIOUS
<1>1. rank \in [Tasks -> Nat] /\ \A t \in Tasks : rank[t] = 0
  BY DEF Init
<1>2. tracked = {} BY DEF Init
<1> QED BY <1>1, <1>2, RankedIsFinite DEF RankInv

LEMMA RankRegister ==
  ASSUME Shape, RankInv, NEW t \in Tasks, Register(t)
  PROVE  RankInv'
<1> DEFINE n == Cardinality(Ranked)
<1>1. /\ rank' = [rank EXCEPT ![t] = 1 + n] /\ pc[t] = "ready"
      /\ pc' = [pc EXCEPT ![t] = "dispatched"]
      /\ tracked' \subseteq tracked \cup {t}
  BY DEF Register, Goto, Ranked
<1>2. n \in Nat /\ IsFiniteSet(Ranked)
  BY RankedIsFinite
<1>3. /\ rank \in [Tasks -> Nat] /\ rank[t] = 0
      /\ \A u, w \in Tasks : rank[u] > 0 /\ rank[u] = rank[w] => u = w
      /\ \A u \in Tasks : rank[u] <= n
  BY <1>1 DEF RankInv
<1>4. n + 1 \in Nat /\ n + 1 > 0
  BY <1>2
<1>5. Ranked' = Ranked \cup {t} /\ t \notin Ranked
  <2>1. rank'[t] > 0 /\ \A u \in Tasks : u # t => rank'[u] = rank[u]
    BY <1>1, <1>2, <1>3, <1>4
  <2>2. ~ (rank[t] > 0)
    BY <1>3
  <2> QED BY <2>1, <2>2 DEF Ranked
<1>6. Cardinality(Ranked') = n + 1
  BY <1>2, <1>5, FS_AddElement
<1> HIDE DEF n
<1>7. /\ rank' \in [Tasks -> Nat] /\ rank'[t] = 1 + n
      /\ \A u \in Tasks : u # t => rank'[u] = rank[u] /\ rank[u] <= n
  BY <1>1, <1>2, <1>3, <1>4
<1>8. ASSUME NEW u \in Tasks, NEW w \in Tasks, rank'[u] > 0, rank'[u] = rank'[w]
      PROVE  u = w
  <2>1. \A v \in Tasks : rank[v] \in Nat
    BY <1>3
  <2>2. CASE u = t \/ w = t
    BY <1>2, <1>7, <1>8, <2>1, <2>2
  <2>3. CASE u # t /\ w # t
    BY <1>3, <1>7, <1>8, <2>3
  <2> QED BY <2>2, <2>3
<1>9. \A u \in Tasks : rank'[u] <= n + 1
  BY <1>2, <1>3, <1>7
<1>10. \A u \in tracked' : rank'[u] > 0
  BY <1>1, <1>2, <1>7 DEF RankInv, Shape
<1>11. \A u \in Tasks : pc'[u] \in {"idle", "ready"} => rank'[u] = 0
  BY <1>1, <1>7 DEF RankInv, Shape, Actors
<1> QED BY <1>6, <1>7, <1>8, <1>9, <1>10, <1>11 DEF RankInv

\* Every other step leaves the list and the places as they are, and brings no
\* task back to where it was not yet registered.
LEMMA OthersLeaveTheList ==
  ASSUME SlotInv, [Next]_vars, \A t \in Tasks : ~Register(t)
  PROVE  /\ UNCHANGED <<tracked, rank>>
         /\ \A t \in Tasks : pc'[t] \in {"idle", "ready"} => pc[t] \in {"idle", "ready"}
<1> USE DEF SlotInv
<1>1. ASSUME NEW a \in Actors, NEW s, Goto(a, s), s \notin {"idle", "ready"} \/ pc[a] = "idle"
      PROVE  \A t \in Tasks : pc'[t] \in {"idle", "ready"} => pc[t] \in {"idle", "ready"}
  BY <1>1 DEF Goto, Shape, Actors
<1>2. CASE \E c \in Configs : Reconfigure(c)
  BY <1>2 DEF Reconfigure, trackerVars
<1>3. ASSUME NEW t \in Tasks, Start(t) \/ Task(t) \/ Continue(t) \/ Ask(t) \/ End(t) \/ Panic(t)
      PROVE  /\ UNCHANGED <<tracked, rank>>
             /\ \A u \in Tasks : pc'[u] \in {"idle", "ready"} => pc[u] \in {"idle", "ready"}
  <2>1. t \in Actors BY DEF Actors
  <2>2. UNCHANGED <<tracked, rank>>
    BY <1>3 DEF Start, Task, Dispatch, AtCapacity, Turn, Push, Receive, TimeOut, CleanUp,
                Continue, Ask, End, Panic, Complete, SetStatus, trackerVars
  <2>3. CASE Dispatch(t)
    BY <1>1, <2>1, <2>2, <2>3 DEF Dispatch
  <2>4. CASE End(t) \/ TimeOut(t)
    <3>1. PICK v \in {"completed", "failed"} : Goto(t, v)
      BY <2>4 DEF End, TimeOut, Complete, Finished
    <3> QED BY <1>1, <2>1, <2>2, <3>1
  <2>5. CASE AtCapacity(t) \/ Turn(t) \/ Push(t) \/ Receive(t) \/ CleanUp(t)
    <3>1. PICK s \in {"dropped", "working", "waiting", "turn", "done"} : Goto(t, s)
      BY <2>5 DEF AtCapacity, Turn, Push, Receive, CleanUp
    <3> QED BY <1>1, <2>1, <2>2, <3>1
  <2>6. CASE Continue(t) \/ Ask(t) \/ Panic(t)
    <3>1. PICK s \in {"turn", "asking", "panicked"} : Goto(t, s)
      BY <2>6 DEF Continue, Ask, Panic
    <3> QED BY <1>1, <2>1, <2>2, <3>1
  <2> QED BY <1>3, <2>3, <2>4, <2>5, <2>6 DEF Start, Task
<1>4. ASSUME NEW a \in Answerers, Answerer(a)
      PROVE  /\ UNCHANGED <<tracked, rank>>
             /\ \A u \in Tasks : pc'[u] \in {"idle", "ready"} => pc[u] \in {"idle", "ready"}
  <2>1. a \in Actors BY DEF Actors
  <2>2. UNCHANGED <<tracked, rank>>
    BY <1>4 DEF Answerer, Take, NoQuestion, SendAnswer, trackerVars
  <2>3. \E s : Goto(a, s) /\ s \notin {"idle", "ready"}
    BY <1>4 DEF Answerer, Take, NoQuestion, SendAnswer
  <2> QED BY <1>1, <2>1, <2>2, <2>3
<1>5. ASSUME NEW a \in Actors, AppendStep(a)
      PROVE  /\ UNCHANGED <<tracked, rank>>
             /\ \A u \in Tasks : pc'[u] \in {"idle", "ready"} => pc[u] \in {"idle", "ready"}
  <2>1. UNCHANGED <<tracked, rank>>
    BY <1>5 DEF AppendStep, AppendRead, AppendTruncate, AppendWrite, trackerVars
  <2>2. CASE AppendRead(a) \/ AppendTruncate(a)
    BY <2>1, <2>2 DEF AppendRead, AppendTruncate
  <2>3. CASE AppendWrite(a)
    <3>1. Goto(a, AfterEvent[pc[a]]) /\ pc[a] \in Events
      BY <2>3 DEF AppendWrite, AppendsAreEvents
    <3>2. AfterEvent[pc[a]] \notin {"idle", "ready"}
      BY <3>1 DEF AfterEvent, Events
    <3> QED BY <1>1, <2>1, <3>1, <3>2
  <2> QED BY <1>5, <2>2, <2>3 DEF AppendStep
<1>6. CASE UNCHANGED vars
  BY <1>6 DEF vars, trackerVars
<1> QED BY <1>2, <1>3, <1>4, <1>5, <1>6 DEF Next

LEMMA RankStep ==
  ASSUME SlotInv, RankInv, [Next]_vars
  PROVE  RankInv'
<1>1. CASE \E t \in Tasks : Register(t)
  BY <1>1, RankRegister DEF SlotInv
<1>2. CASE \A t \in Tasks : ~Register(t)
  <2>1. /\ UNCHANGED <<tracked, rank>>
        /\ \A t \in Tasks : pc'[t] \in {"idle", "ready"} => pc[t] \in {"idle", "ready"}
    BY <1>2, OthersLeaveTheList
  <2>2. Ranked' = Ranked BY <2>1 DEF Ranked
  <2> QED BY <2>1, <2>2 DEF RankInv
<1> QED BY <1>1, <1>2

\* After a registration, the list is the live tasks and the finished ones kept.
LEMMA RegisterBounds ==
  ASSUME SlotInv, RankInv, NEW t \in Tasks, Register(t)
  PROVE  ListIsBounded'
<1> DEFINE n == limits[t].entries
<1> DEFINE m == limits[t].concurrent
<1> DEFINE K == Ended \ Surplus(n)
<1>1. limits[t] \in Configs /\ n \in Nat /\ m \in Nat
  BY TaskAssumption DEF SlotInv, Shape
<1>2. IsFiniteSet(Live) /\ Cardinality(Live) \in Nat /\ Cardinality(Live) < m
  BY LiveIsFinite DEF SlotInv, Register
<1>3. IsFiniteSet(Ended) /\ Ended \subseteq Tasks
  BY TaskAssumption, FS_Subset DEF Ended, SlotInv, Shape
<1>4. \A u, w \in Ended : rank[u] = rank[w] => u = w
  BY DEF Ended, RankInv, SlotInv, Shape
<1>5. \A u \in K : ~ (Cardinality(Above(Ended, rank, u)) >= n)
  BY DEF Surplus, Above
<1>6. tracked' = (tracked \ Surplus(n)) \cup {t}
  BY DEF Register
<1>7. tracked \subseteq Live \cup Ended
  BY DEF SlotInv, Shape, Live, Ended
<1>8. K \subseteq Ended
  OBVIOUS
<1>9. tracked' \subseteq (Live \cup K) \cup {t}
  BY <1>6, <1>7
<1> HIDE DEF n, m, K
<1>10. IsFiniteSet(K) /\ Cardinality(K) \in Nat /\ Cardinality(K) <= n
  <2>1. rank \in [Tasks -> Nat] BY DEF RankInv
  <2> QED BY <1>1, <1>3, <1>4, <1>5, <1>8, <2>1, FewAreKept
<1>11. IsFiniteSet(Live \cup K) /\ Cardinality(Live \cup K) \in Nat
       /\ Cardinality(Live \cup K) <= Cardinality(Live) + Cardinality(K)
  <2>1. IsFiniteSet(Live \cup K) BY <1>2, <1>10, FS_Union
  <2>2. Cardinality(Live \cup K) = Cardinality(Live) + Cardinality(K) - Cardinality(Live \cap K)
    BY <1>2, <1>10, FS_Union
  <2>3. IsFiniteSet(Live \cap K) /\ Cardinality(Live \cap K) \in Nat
    BY <1>2, FS_Intersection, FS_CardinalityType
  <2> QED BY <1>2, <1>10, <2>1, <2>2, <2>3, FS_CardinalityType
<1> DEFINE A == Live \cup K
<1> DEFINE B == A \cup {t}
<1>12. IsFiniteSet(B) /\ Cardinality(B) \in Nat /\ Cardinality(B) <= Cardinality(A) + 1
  <2>1. IsFiniteSet(A) /\ Cardinality(A) \in Nat BY <1>11
  <2> HIDE DEF A
  <2>2. IsFiniteSet(B) /\ (Cardinality(B) = Cardinality(A) \/ Cardinality(B) = Cardinality(A) + 1)
    BY <2>1, FS_AddElement
  <2> QED BY <2>1, <2>2
<1>13. Cardinality(tracked') \in Nat /\ Cardinality(tracked') <= Cardinality(B)
  BY <1>9, <1>12, FS_Subset, FS_CardinalityType
<1> HIDE DEF B
<1>14. Cardinality(tracked') <= m + n
  BY <1>1, <1>2, <1>10, <1>11, <1>12, <1>13
<1> QED BY <1>1, <1>14 DEF ListIsBounded, n, m

LEMMA ListStep ==
  ASSUME SlotInv, RankInv, ListIsBounded, [Next]_vars
  PROVE  ListIsBounded'
<1>1. CASE \E t \in Tasks : Register(t)
  BY <1>1, RegisterBounds
<1>2. CASE \A t \in Tasks : ~Register(t)
  BY <1>2, OthersLeaveTheList DEF ListIsBounded
<1> QED BY <1>1, <1>2

LEMMA ListInit == Init => ListIsBounded
<1> SUFFICES ASSUME Init PROVE ListIsBounded OBVIOUS
<1>1. Cardinality(tracked) = 0 BY FS_EmptySet DEF Init
<1>2. PICK c \in Configs : TRUE BY TaskAssumption
<1>3. c.concurrent \in Nat /\ c.entries \in Nat BY TaskAssumption
<1> QED BY <1>1, <1>3 DEF ListIsBounded

\* The list of a tracker never outgrows what a configuration lets work and
\* keep, in whatever order tasks end: the oldest finished ones go, and no two
\* have the same place (TaskTracker::register).
THEOREM TheListIsBounded == Spec => []ListIsBounded
<1>1. SlotInv /\ RankInv /\ [Next]_vars => RankInv'
  BY RankStep
<1>2. SlotInv /\ RankInv /\ ListIsBounded /\ [Next]_vars => ListIsBounded'
  BY ListStep
<1> QED BY <1>1, <1>2, RankInit, ListInit, SlotsInvariant, PTL DEF Spec
-----------------------------------------------------------------------------
(* Type correctness.                                                         *)

\* A task that is about to ask has a question left; an answerer that has an
\* answer to send or to log has a question to send it for.
Holding ==
  /\ \A t \in Tasks : pc[t] \in {"asking", "push"} => asks[t] < MaxAsks
  /\ \A a \in Answerers : pc[a] \in {"send"} \cup Events => picked[a] \in Places

QuestionType ==
  /\ questions \subseteq Places
  /\ asks \in [Tasks -> 0 .. MaxAsks]
  /\ answered \subseteq Tasks
  /\ picked \in [Answerers -> Places \cup {<<NoTask, 0>>}]

LogType == log \in Seq(Lines) /\ draft \in [Actors -> Seq(Lines)]

\* What a step does to the control state, by the actor that takes it.
LEMMA ControlStep ==
  ASSUME SlotInv, [Next]_vars, NEW b \in Actors, pc'[b] # pc[b]
  PROVE  \/ b \in Tasks /\ (Start(b) \/ Task(b) \/ Continue(b) \/ Ask(b) \/ End(b) \/ Panic(b))
         \/ b \in Answerers /\ Answerer(b)
         \/ AppendWrite(b)
<1> USE DEF SlotInv, Shape
<1>1. ASSUME NEW c \in Configs, Reconfigure(c) PROVE FALSE
  BY <1>1 DEF Reconfigure
<1>2. ASSUME NEW t \in Tasks, Start(t) \/ Task(t) \/ Continue(t) \/ Ask(t) \/ End(t) \/ Panic(t)
      PROVE  b = t
  <2>1. \E s : Goto(t, s)
    BY <1>2 DEF Start, Task, Dispatch, Register, AtCapacity, Turn, Push, Receive, TimeOut,
                CleanUp, Continue, Ask, End, Panic, Complete
  <2> QED BY <2>1 DEF Goto
<1>3. ASSUME NEW a \in Answerers, Answerer(a) PROVE b = a
  <2>1. \E s : Goto(a, s)
    BY <1>3 DEF Answerer, Take, NoQuestion, SendAnswer
  <2> QED BY <2>1 DEF Goto
<1>4. ASSUME NEW a \in Actors, AppendStep(a) PROVE b = a /\ AppendWrite(a)
  BY <1>4 DEF AppendStep, AppendRead, AppendTruncate, AppendWrite, Goto
<1>5. ~ UNCHANGED vars
  BY DEF vars
<1> QED BY <1>1, <1>2, <1>3, <1>4, <1>5 DEF Next

LEMMA QuestionTypeStep ==
  ASSUME SlotInv, QuestionType, Holding, [Next]_vars
  PROVE  QuestionType'
<1> USE DEF QuestionType, questionVars
<1>1. ASSUME NEW t \in Tasks, Push(t) PROVE QuestionType'
  <2>1. asks[t] < MaxAsks /\ asks[t] \in 0 .. MaxAsks /\ MaxAsks \in Nat
    BY <1>1, TaskAssumption DEF Push, Holding
  <2>2. asks[t] + 1 \in 0 .. MaxAsks
    BY <2>1
  <2>3. <<t, asks[t] + 1>> \in Places /\ asks' \in [Tasks -> 0 .. MaxAsks]
    BY <1>1, <2>2 DEF Push, Places
  <2> QED BY <1>1, <2>3 DEF Push
<1>2. ASSUME NEW t \in Tasks, Receive(t) \/ CleanUp(t) PROVE QuestionType'
  BY <1>2 DEF Receive, CleanUp
<1>3. ASSUME NEW a \in Answerers, NEW q \in questions, Take(a, q) PROVE QuestionType'
  BY <1>3 DEF Take
<1>4. ASSUME NEW a \in Answerers, SendAnswer(a) PROVE QuestionType'
  <2>1. picked[a] \in Places
    BY <1>4 DEF SendAnswer, Holding
  <2>2. picked[a][1] \in Tasks
    BY <2>1 DEF Places
  <2> QED BY <1>4, <2>2 DEF SendAnswer
<1>5. CASE UNCHANGED questionVars
  BY <1>5
<1> QED BY <1>1, <1>2, <1>3, <1>4, <1>5
        DEF Next, Start, Task, Answerer, AppendStep, Reconfigure, Dispatch, Register,
            AtCapacity, Turn, Continue, Panic, Ask, Complete, End, TimeOut, NoQuestion,
            AppendRead, AppendTruncate, AppendWrite, vars

LEMMA HoldingStep ==
  ASSUME SlotInv, QuestionType, Holding, [Next]_vars
  PROVE  Holding'
<1> USE DEF SlotInv, Shape
<1>1. ASSUME NEW t \in Tasks, pc'[t] \in {"asking", "push"} PROVE asks'[t] < MaxAsks
  <2>1. t \in Actors /\ t \notin Answerers BY TaskAssumption DEF Actors
  <2>2. CASE pc'[t] = pc[t]
    <3>1. asks' = asks \/ \E u \in Tasks : Push(u)
      BY DEF Next, Start, Task, Answerer, AppendStep, Reconfigure, Dispatch, Register,
             AtCapacity, Turn, Continue, Panic, Ask, Complete, End, TimeOut, NoQuestion, Take,
             SendAnswer, Receive, CleanUp, AppendRead, AppendTruncate, AppendWrite, vars,
             questionVars
    <3>2. ASSUME NEW u \in Tasks, Push(u) PROVE asks'[t] = asks[t]
      <4>1. pc'[u] = "waiting" /\ pc[u] = "push" /\ asks' = [asks EXCEPT ![u] = @ + 1]
        BY <3>2 DEF Push, Goto, Actors
      <4> QED BY <1>1, <2>2, <4>1 DEF QuestionType
    <3> QED BY <1>1, <2>2, <3>1, <3>2 DEF Holding
  <2>3. CASE pc'[t] # pc[t]
    <3>1. Ask(t) \/ AppendWrite(t)
      <4>1. \/ Start(t) \/ Task(t) \/ Continue(t) \/ Ask(t) \/ End(t) \/ Panic(t)
            \/ AppendWrite(t)
        BY <2>1, <2>3, ControlStep
      <4>2. ASSUME Start(t) \/ Task(t) \/ Continue(t) \/ Panic(t) PROVE FALSE
        BY <1>1, <2>1, <4>2 DEF Start, Task, Dispatch, Register, AtCapacity, Turn, Push,
              Receive, TimeOut, CleanUp, Continue, Panic, Complete, Goto
      <4>3. ASSUME End(t) PROVE FALSE
        BY <1>1, <2>1, <4>3 DEF End, Complete, Finished, Goto
      <4> QED BY <4>1, <4>2, <4>3
    <3>2. CASE Ask(t)
      BY <3>2 DEF Ask, questionVars
    <3>3. CASE AppendWrite(t)
      <4>1. pc'[t] = AfterEvent[pc[t]] /\ pc[t] \in Events /\ asks' = asks
        BY <2>1, <3>3 DEF AppendWrite, Goto, AppendsAreEvents, questionVars
      <4>2. pc[t] = "asking"
        BY <1>1, <4>1 DEF AfterEvent, Events
      <4> QED BY <4>1, <4>2 DEF Holding
    <3> QED BY <3>1, <3>2, <3>3
  <2> QED BY <2>2, <2>3
<1>2. ASSUME NEW a \in Answerers, pc'[a] \in {"send"} \cup Events PROVE picked'[a] \in Places
  <2>1. a \in Actors /\ a \notin Tasks BY TaskAssumption DEF Actors
  <2>2. picked' = picked \/ \E b \in Answerers, q \in questions : Take(b, q)
    BY DEF Next, Start, Task, Answerer, AppendStep, Reconfigure, Dispatch, Register,
           AtCapacity, Turn, Continue, Panic, Ask, Complete, End, TimeOut, NoQuestion, Push,
           SendAnswer, Receive, CleanUp, AppendRead, AppendTruncate, AppendWrite, vars,
           questionVars
  <2>3. ASSUME NEW b \in Answerers, NEW q \in questions, Take(b, q) PROVE picked'[a] \in Places
    <3>1. picked' = [picked EXCEPT ![b] = q] /\ q \in Places /\ pc' = [pc EXCEPT ![b] = "send"]
      BY <2>3 DEF Take, Goto, QuestionType
    <3>2. CASE a = b
      BY <3>1, <3>2 DEF QuestionType
    <3>3. CASE a # b
      <4>1. pc'[a] = pc[a] /\ picked'[a] = picked[a]
        BY <3>1, <3>3 DEF QuestionType
      <4> QED BY <1>2, <4>1 DEF Holding
    <3> QED BY <3>2, <3>3
  <2>4. CASE picked' = picked
    <3>1. pc[a] \in {"send"} \cup Events \/ \E q \in questions : Take(a, q)
      <4>1. CASE pc'[a] # pc[a]
        <5>1. Answerer(a) \/ AppendWrite(a)
          BY <2>1, <4>1, ControlStep
        <5>2. CASE AppendWrite(a)
          BY <2>1, <5>2 DEF AppendWrite, AppendsAreEvents
        <5>3. CASE SendAnswer(a)
          BY <5>3 DEF SendAnswer
        <5>4. ASSUME NoQuestion(a) PROVE FALSE
          BY <1>2, <2>1, <5>4 DEF NoQuestion, Goto, Events
        <5> QED BY <5>1, <5>2, <5>3, <5>4 DEF Answerer
      <4> QED BY <1>2, <4>1
    <3> QED BY <2>3, <2>4, <3>1 DEF Holding
  <2> QED BY <2>2, <2>3, <2>4
<1> QED BY <1>1, <1>2 DEF Holding

LEMMA LogStep ==
  ASSUME SlotInv, QuestionType, Holding, LogType, [Next]_vars
  PROVE  LogType'
<1> USE DEF LogType
<1>1. ASSUME NEW a \in Actors, AppendRead(a) PROVE LogType'
  <2>1. PICK n \in {c.entries : c \in Configs} :
          draft' = [draft EXCEPT ![a] = Trimmed(Append(log, <<pc[a], Subject(a)>>), n)]
    BY <1>1 DEF AppendRead
  <2>2. n \in Nat
    BY TaskAssumption
  <2>3. Subject(a) \in Tasks /\ pc[a] \in Events
    <3>1. pc[a] \in Events BY <1>1 DEF AppendRead
    <3>2. CASE a \in Tasks
      BY <3>1, <3>2 DEF Subject
    <3>3. CASE a \notin Tasks
      <4>1. a \in Answerers /\ picked[a] \in Places
        BY <3>1, <3>3 DEF Actors, Holding
      <4> QED BY <3>1, <3>3, <4>1 DEF Subject, Places
    <3> QED BY <3>2, <3>3
  <2> DEFINE line == <<pc[a], Subject(a)>>
  <2>4. line \in Lines
    BY <2>3 DEF Lines
  <2> HIDE DEF line
  <2> DEFINE lines == Append(log, line)
  <2>5. lines \in Seq(Lines) /\ Len(lines) \in Nat
    BY <2>4
  <2> HIDE DEF lines
  <2>6. Trimmed(lines, n) \in Seq(Lines)
    <3>1. CASE Len(lines) > n
      <4>1. Len(lines) - n + 1 \in Int /\ Len(lines) - n + 1 >= 1
        BY <2>2, <2>5, <3>1
      <4> QED BY <2>2, <2>5, <3>1, <4>1 DEF Trimmed
    <3>2. CASE ~ (Len(lines) > n)
      BY <2>5, <3>2 DEF Trimmed
    <3> QED BY <3>1, <3>2
  <2>7. draft' \in [Actors -> Seq(Lines)]
    BY <2>1, <2>6 DEF lines, line
  <2> QED BY <1>1, <2>7 DEF AppendRead
<1>2. ASSUME NEW a \in Actors, AppendTruncate(a) PROVE LogType'
  BY <1>2 DEF AppendTruncate
<1>3. ASSUME NEW a \in Actors, AppendWrite(a) PROVE LogType'
  BY <1>3 DEF AppendWrite
<1>4. CASE UNCHANGED <<log, draft>>
  BY <1>4
<1> QED BY <1>1, <1>2, <1>3, <1>4
        DEF Next, Start, Task, Answerer, AppendStep, Reconfigure, Dispatch, Register,
            AtCapacity, Turn, Continue, Panic, Ask, Complete, End, TimeOut, NoQuestion, Push,
            Take, SendAnswer, Receive, CleanUp, vars, logVars

TypeInv == QuestionType /\ Holding /\ LogType

LEMMA TypeInit == Init => TypeInv
<1> SUFFICES ASSUME Init PROVE TypeInv OBVIOUS
<1>1. \A a \in Actors : pc[a] = "idle"
  BY DEF Init
<1>2. QuestionType
  BY TaskAssumption DEF Init, QuestionType
<1>3. Holding
  BY <1>1 DEF Holding, Events, Actors
<1>4. LogType
  BY DEF Init, LogType
<1> QED BY <1>2, <1>3, <1>4 DEF TypeInv

\* Every variable keeps its type, for any tasks, answerers and configurations:
\* no task asks more than it may, and the log tells of tasks only.
THEOREM TypeCorrect == Spec => []TypeOK
<1>1. SlotInv /\ TypeInv /\ [Next]_vars => TypeInv'
  BY QuestionTypeStep, HoldingStep, LogStep DEF TypeInv
<1>2. SlotInv /\ RankInv /\ [Next]_vars => RankInv'
  BY RankStep
<1>3. SlotInv /\ RankInv /\ TypeInv => TypeOK
  BY DEF SlotInv, Shape, RankInv, TypeInv, QuestionType, LogType, TypeOK
<1> QED BY <1>1, <1>2, <1>3, RankInit, TypeInit, SlotsInvariant, PTL DEF Spec
=============================================================================
