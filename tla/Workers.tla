------------------------------ MODULE Workers ------------------------------
(***************************************************************************)
(* A background worker from its start to its result: a code task, a search   *)
(* task, or an advanced task, whose orchestration loop (run_inner,           *)
(* agent/advanced) runs code and search tasks inline, asks the user, and     *)
(* compresses its context.                                                 *)
(*                                                                         *)
(* A message of the context is its role and the steps it is about, 0 for the *)
(* task itself; a summary is about several.                                 *)
(***************************************************************************)
EXTENDS CodeLoop, SearchPipeline

CONSTANTS MaxSteps,   \* max_steps
          KeepRecent  \* CONTEXT_KEEP_RECENT

ASSUME WorkersAssumption == MaxSteps \in Nat /\ KeepRecent \in Nat \ {0}

VARIABLES
  kind,    \* the worker's kind
  advPc,   \* control state of the orchestration loop
  step,    \* the step it is in
  ctx,     \* its messages
  pinned,  \* pinned_count
  advResult \* what it returned

advVars == <<advPc, step, ctx, pinned, advResult>>
vars == <<kind, advVars, codeVars, searchVars>>
-----------------------------------------------------------------------------
About(role, steps) == [role |-> role, about |-> steps]

TypeOK ==
  /\ kind \in {"code", "search", "advanced"}
  /\ advPc \in {"off", "ask", "direct", "code", "search", "question", "compress", "done"}
  /\ step \in 0 .. MaxSteps
  /\ ctx \in Seq([role : {"user", "assistant"}, about : SUBSET (0 .. MaxSteps)])
  /\ pinned \in 1 .. 2
  /\ advResult \in {"none", "ok", "error"}
  /\ CodeTypeOK
  /\ SearchTypeOK

Init ==
  /\ kind \in {"code", "search", "advanced"}
  /\ advPc = "off" /\ step = 0 /\ ctx = <<>> /\ pinned = 1 /\ advResult = "none"
  /\ CodeOff(kind = "code")
  /\ SearchOff

Still == UNCHANGED <<codeVars, searchVars>>
Finish(result) == advPc' = "done" /\ advResult' = result /\ UNCHANGED step

\* Mutant: the loop makes a step more.
NextStepMore ==
  IF step > MaxSteps
  THEN Finish("error")
  ELSE advPc' = "ask" /\ step' = step + 1 /\ UNCHANGED advResult

NextStep ==
  IF step = MaxSteps
  THEN Finish("error")
  ELSE advPc' = "ask" /\ step' = step + 1 /\ UNCHANGED advResult

\* Without a model there is no first step.
StartAdvanced ==
  /\ kind = "advanced" /\ advPc = "off"
  /\ ctx' = <<About("user", {0})>>
  /\ Finish("error") \/ NextStep
  /\ UNCHANGED pinned /\ Still

\* The total timeout has passed, or the model call fails.
AskFails == advPc = "ask" /\ Finish("error") /\ UNCHANGED <<ctx, pinned>> /\ Still

\* The response; the first one is the plan, and stays.
Ask ==
  /\ advPc = "ask"
  /\ ctx' = Append(ctx, About("assistant", {step}))
  /\ pinned' = IF step = 1 THEN 2 ELSE pinned
  /\ advPc' = "direct"
  /\ UNCHANGED <<step, advResult>> /\ Still

\* Feedback from the user's side of the conversation on this step.
Feedback == ctx' = Append(ctx, About("user", {step})) /\ UNCHANGED pinned

\* No directive uses up a step and skips the compression.
NoDirective == advPc = "direct" /\ Feedback /\ NextStep /\ Still

Done == advPc = "direct" /\ Finish("ok") /\ UNCHANGED <<ctx, pinned>> /\ Still

Directed(to) == advPc = "direct" /\ advPc' = to /\ UNCHANGED <<step, ctx, pinned, advResult>>

DirectCode == Directed("code") /\ StartCode(FALSE) /\ UNCHANGED searchVars
DirectSearch == Directed("search") /\ StartSearch /\ UNCHANGED codeVars
Question == Directed("question") /\ Still

\* The result of a subtask, good or bad, is feedback.
Resume == Feedback /\ advPc' = "compress" /\ UNCHANGED <<step, advResult>>

CodeReturns ==
  /\ advPc = "code" /\ codePc = "done"
  /\ Resume
  /\ codePc' = "off" /\ iteration' = 0 /\ dialog' = <<>> /\ codeResult' = "none"
  /\ UNCHANGED <<verify, searchVars>>

SearchReturns ==
  /\ advPc = "search" /\ searchPc = "done"
  /\ Resume
  /\ searchPc' = "off" /\ hasModel' = FALSE /\ depth' = "thorough" /\ requests' = 0
  /\ results' = <<>> /\ tokens' = <<>> /\ context' = <<>> /\ found' = "none"
  /\ UNCHANGED codeVars

\* The user's answer, routed from a chat.
Answer == advPc = "question" /\ Resume /\ Still

\* Mutant: the wait for an answer has no bound.
WaitForever == FALSE

\* What is left of the total timeout has passed.
Unanswered == advPc = "question" /\ Finish("error") /\ UNCHANGED <<ctx, pinned>> /\ Still

\* Mutant: the number of messages is taken as it comes.
CompressAll == Len(ctx) - KeepRecent

\* The last message compressed, so that an odd number of them is.
CompressEnd ==
  LET last == Len(ctx) - KeepRecent
  IN  IF (last - pinned) % 2 = 0 THEN last - 1 ELSE last

\* The context is long, and the model summarizes what is neither pinned nor recent.
Compress ==
  /\ advPc = "compress"
  /\ Len(ctx) - pinned > KeepRecent + 2
  /\ LET middle == {ctx[k].about : k \in pinned + 1 .. CompressEnd}
     IN  ctx' = SubSeq(ctx, 1, pinned) \o <<About("user", UNION middle)>>
                  \o SubSeq(ctx, CompressEnd + 1, Len(ctx))
  /\ NextStep
  /\ UNCHANGED pinned /\ Still

\* It is short, or there is no summary.
KeepContext == advPc = "compress" /\ NextStep /\ UNCHANGED <<ctx, pinned>> /\ Still

StartTask ==
  /\ \/ kind = "code" /\ StartCode(TRUE) /\ UNCHANGED searchVars
     \/ kind = "search" /\ StartSearch /\ UNCHANGED codeVars
  /\ UNCHANGED advVars

SubtaskStep ==
  /\ \/ CodeStep /\ UNCHANGED searchVars
     \/ SearchStep /\ UNCHANGED codeVars
  /\ UNCHANGED advVars

Work ==
  /\ \/ StartTask \/ SubtaskStep
     \/ StartAdvanced \/ AskFails \/ Ask \/ NoDirective \/ Done \/ DirectCode \/ DirectSearch
     \/ Question \/ CodeReturns \/ SearchReturns \/ Unanswered \/ Compress \/ KeepContext
  /\ UNCHANGED kind

Next == Work \/ (Answer /\ UNCHANGED kind)

Spec == Init /\ [][Next]_vars

\* Models, pages, scripts and timers end; the user need not answer.
FairSpec == Spec /\ WF_vars(Work)
-----------------------------------------------------------------------------
\* What the model is sent is a conversation it accepts, user and assistant in
\* turn and the user last; the task, the plan and the recent messages are in
\* it word for word, and every step so far is in it at least in a summary
\* (compress_context, run_inner).  A code task's dialog alternates, too, but
\* behind a rejected result.
ContextIsSound ==
  /\ \A k \in 1 .. Len(ctx) : ctx[k].role = (IF k % 2 = 1 THEN "user" ELSE "assistant")
  /\ advPc = "ask" =>
       /\ ctx[Len(ctx)].role = "user"
       /\ ctx[1].about = {0}
       /\ step > 1 => ctx[2] = About("assistant", {1})
       /\ \A k \in 1 .. Len(ctx) : k > Len(ctx) - KeepRecent => Cardinality(ctx[k].about) = 1
       /\ UNION {ctx[k].about : k \in 1 .. Len(ctx)} = 0 .. step - 1
  /\ DialogAlternates

\* A worker ends with a result, also when the user never answers, but when it
\* panicked over the plan of a search (run_inner, run_code_loop, run_search_inner).
Ended ==
  \/ advResult # "none"
  \/ kind = "code" /\ codeResult # "none"
  \/ kind = "search" /\ found # "none"
  \/ searchPc = "panicked"
WorkerEnds == <>Ended
=============================================================================
