------------------------------ MODULE CodeLoop ------------------------------
(***************************************************************************)
(* The self-healing loop of the code agent (run_code_loop, agent/code): ask  *)
(* the model for a script, install what it imports, run it in the sandbox,   *)
(* and give errors back to the model.  The code agent has its results        *)
(* verified by the model; the advanced agent runs the loop without.          *)
(*                                                                         *)
(* A message is its role and what it says; models, pip and the sandbox may   *)
(* answer anything.                                                          *)
(***************************************************************************)
EXTENDS Naturals, Sequences

CONSTANT MaxIterations  \* max_iterations

ASSUME CodeAssumption == MaxIterations \in Nat

VARIABLES
  codePc,    \* control state of the loop
  verify,    \* whether results are verified
  iteration, \* the iteration it is in
  dialog,    \* its messages
  codeResult \* what it returned

codeVars == <<codePc, verify, iteration, dialog, codeResult>>
-----------------------------------------------------------------------------
Message(role, says) == [role |-> role, says |-> says]
Sayings == {"task", "script", "error", "verify", "verdict"}

CodeTypeOK ==
  /\ codePc \in {"off", "call", "install", "extract", "run", "verify", "done"}
  /\ verify \in BOOLEAN
  /\ iteration \in 0 .. MaxIterations
  /\ dialog \in Seq([role : {"user", "assistant"}, says : Sayings])
  /\ codeResult \in {"none", "ok", "error"}

CodeOff(v) ==
  /\ codePc = "off" /\ verify = v /\ iteration = 0
  /\ dialog = <<>> /\ codeResult = "none"

Return(result) == codePc' = "done" /\ codeResult' = result

\* Model, workspace and environment; without an iteration the loop only fails.
Begin ==
  /\ iteration' = IF MaxIterations = 0 THEN 0 ELSE 1
  /\ dialog' = <<Message("user", "task")>>
  /\ \/ MaxIterations > 0 /\ codePc' = "call" /\ UNCHANGED codeResult
     \/ Return("error")

\* The loop of a code agent starts by itself, that of an advanced task with v.
StartCode(v) == codePc = "off" /\ verify' = v /\ Begin

Goto(pc) == codePc' = pc /\ UNCHANGED <<codeResult, iteration, dialog>>
Fail == Return("error") /\ UNCHANGED <<iteration, dialog>>
Succeed == Return("ok") /\ UNCHANGED <<iteration, dialog>>

\* The next iteration, or the end of the loop with the last error.
Again ==
  IF iteration = MaxIterations
  THEN Return("error") /\ UNCHANGED iteration
  ELSE codePc' = "call" /\ iteration' = iteration + 1 /\ UNCHANGED codeResult

\* The response and what is wrong with it go back to the model.
Retry ==
  /\ dialog' = dialog \o <<Message("assistant", "script"), Message("user", "error")>>
  /\ Again

CallModel == codePc = "call" /\ (Goto("install") \/ Fail)

\* pip may not run at all, or refuse; most responses need nothing installed.
Install == codePc = "install" /\ (Goto("extract") \/ Retry \/ Fail)

\* No code in the response, a script that cannot be written, or one that can.
Extract == codePc = "extract" /\ (Goto("run") \/ Retry \/ Fail)

\* A result counts at once without verification, and in the last iteration.
Accept == ~verify \/ iteration = MaxIterations

AskToVerify ==
  /\ dialog' = dialog \o <<Message("assistant", "script"), Message("user", "verify")>>
  /\ codePc' = "verify"
  /\ UNCHANGED <<codeResult, iteration>>

Execute ==
  /\ codePc = "run"
  /\ \/ IF Accept THEN Succeed ELSE AskToVerify
     \/ Retry
     \/ Fail

\* Without a verdict, with LGTM, or with a fix in the verdict that runs, there
\* is a result; a rejection is noted without a question and the loop goes on.
Verify ==
  /\ codePc = "verify"
  /\ \/ Succeed
     \/ dialog' = Append(dialog, Message("assistant", "verdict")) /\ Again

CodeStep == (CallModel \/ Install \/ Extract \/ Execute \/ Verify) /\ UNCHANGED verify
-----------------------------------------------------------------------------
\* Messages of user and assistant alternate, but behind a rejection.
DialogAlternates ==
  \A k \in 1 .. Len(dialog) - 1 :
    dialog[k].role = dialog[k + 1].role => dialog[k].says = "verdict"
=============================================================================
