---------------------------- MODULE AnswerStream ----------------------------
(***************************************************************************)
(* What a caller of a provider is promised: it hears the texts that reached  *)
(* the gateway in whole lines, one by one and in order, and then that the    *)
(* answer is over; or, at any point, that it failed.                         *)
(***************************************************************************)
EXTENDS Naturals, Sequences

VARIABLES said,   \* the texts that reached the gateway
          heard,  \* the texts the caller has
          result  \* "pending", "ok" or "error"

vars == <<said, heard, result>>

Init == said \in Seq(Nat) /\ heard = <<>> /\ result = "pending"

Hear ==
  /\ result = "pending"
  /\ Len(heard) < Len(said)
  /\ heard' = SubSeq(said, 1, Len(heard) + 1)
  /\ UNCHANGED <<said, result>>

Complete == result = "pending" /\ heard = said /\ result' = "ok" /\ UNCHANGED <<said, heard>>

Fail == result = "pending" /\ result' = "error" /\ UNCHANGED <<said, heard>>

Next == Hear \/ Complete \/ Fail

Spec == Init /\ [][Next]_vars /\ WF_vars(Next)
=============================================================================
