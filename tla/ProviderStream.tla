--------------------------- MODULE ProviderStream ---------------------------
(***************************************************************************)
(* One answer of a provider (provider/mod.rs, openai.rs, anthropic.rs): the  *)
(* task that reads the response body in network chunks, cuts it into lines   *)
(* of server-sent events and sends what they say through a bounded channel,  *)
(* and the caller that collects it (agent/stream.rs).                        *)
(*                                                                         *)
(* A line is two bytes of content and a newline, so that a chunk may end     *)
(* inside a line, a character included; only what a line says is kept.  The  *)
(* body may end anywhere, in the middle of a line, too.  Requests have no    *)
(* timeout: that the network delivers or breaks is assumed, not enforced.    *)
(***************************************************************************)
EXTENDS Naturals, Sequences, FiniteSets, FiniteSetsExt

CONSTANTS Capacity, \* STREAM_CHANNEL_CAPACITY
          MaxLines  \* bound: lines of a body

ASSUME StreamAssumption == Capacity \in Nat \ {0} /\ MaxLines \in Nat

VARIABLES
  api,      \* the provider's API
  lines,    \* the lines its server writes
  cut,      \* how many bytes of them it sends
  arrived,  \* how many have arrived
  buffer,   \* those not yet parsed
  pc,       \* control state of the reading task
  pending,  \* the chunk it sends
  chan,     \* the channel
  heard,    \* the texts the caller has collected
  result    \* what collect_stream returns

vars == <<api, lines, cut, arrived, buffer, pc, pending, chan, heard, result>>
-----------------------------------------------------------------------------
\* What a line may say: some text; reasoning, an empty text or a thinking
\* block; the ends of the two APIs; an event, a comment, an error or no event.
Kinds == {"text", "reasoning", "[DONE]", "message_stop", "other"}

Done == <<"done", 0>>
Error == <<"error", 0>>
Chunks == {"text"} \X (1 .. MaxLines) \cup {Done, Error}
NoChunk == <<"none", 0>>

\* The parse of the data of line i, if its bytes are complete.
OpenAi(kind, i) ==
  CASE kind = "[DONE]" -> Done [] kind = "text" -> <<"text", i>> [] OTHER -> NoChunk

Anthropic(kind, i) ==
  CASE kind = "message_stop" -> Done [] kind = "text" -> <<"text", i>> [] OTHER -> NoChunk

\* Byte j of the body: its line, and 0 if it is the newline.
Byte(j) == <<(j + 2) \div 3, j % 3>>

\* The chunk a line gives; bytes that are not those of one whole line decode
\* to something no parser takes.
Parse(bytes) ==
  IF Len(bytes) = 2 /\ bytes[1][2] = 1 /\ bytes[2] = <<bytes[1][1], 2>>
  THEN LET i == bytes[1][1] IN
       IF api = "openai" THEN OpenAi(lines[i], i) ELSE Anthropic(lines[i], i)
  ELSE NoChunk

TypeOK ==
  /\ api \in {"openai", "anthropic"}
  /\ lines \in Seq(Kinds) /\ Len(lines) <= MaxLines
  /\ cut \in 0 .. 3 * Len(lines) /\ arrived \in 0 .. cut
  /\ buffer \in Seq((1 .. MaxLines) \X (0 .. 2))
  /\ pc \in {"request", "reading", "lines", "sending", "ended"}
  /\ pending \in Chunks \cup {NoChunk}
  /\ chan \in Seq(Chunks) /\ Len(chan) <= Capacity
  /\ heard \in Seq(1 .. MaxLines)
  /\ result \in {"pending", "ok", "error"}

Init ==
  /\ api \in {"openai", "anthropic"}
  /\ lines \in UNION {[1 .. n -> Kinds] : n \in 0 .. MaxLines}
  /\ cut \in 0 .. 3 * Len(lines)
  /\ arrived = 0
  /\ buffer = <<>>
  /\ pc = "request"
  /\ pending = NoChunk
  /\ chan = <<>>
  /\ heard = <<>>
  /\ result = "pending"
-----------------------------------------------------------------------------
(* The reading task.                                                         *)

Emit(chunk) == pc' = "sending" /\ pending' = chunk

\* send_and_stream: the request fails or has another status than success.
Request ==
  /\ pc = "request"
  /\ \/ Emit(Error)
     \/ pc' = "reading" /\ UNCHANGED pending
  /\ UNCHANGED <<api, lines, cut, arrived, buffer, chan, heard, result>>

\* The next network chunk, cut anywhere.
Receive ==
  /\ pc = "reading"
  /\ \E n \in 1 .. (cut - arrived) :
       /\ arrived' = arrived + n
       /\ buffer' = buffer \o [k \in 1 .. n |-> Byte(arrived + k)]
  /\ pc' = "lines"
  /\ UNCHANGED <<api, lines, cut, pending, chan, heard, result>>

\* The body ends, properly or not, or the transport reports an error.
EndOfBody ==
  /\ pc = "reading"
  /\ \/ arrived = cut /\ Emit(Done)
     \/ Emit(Error)
  /\ UNCHANGED <<api, lines, cut, arrived, buffer, chan, heard, result>>

Newlines == {k \in 1 .. Len(buffer) : buffer[k][2] = 0}

\* Mutant: what stands behind the last newline is drained, too.
DrainAll == buffer' = <<>>

\* The buffer keeps the line that is not complete.
Drain == UNCHANGED buffer

\* The first line of the buffer; a blank, a comment or an event nobody needs
\* is skipped.  Without a whole line the task reads on.
NextLine ==
  /\ pc = "lines"
  /\ IF Newlines = {}
     THEN pc' = "reading" /\ Drain /\ UNCHANGED pending
     ELSE LET end == Min(Newlines)
              chunk == Parse(SubSeq(buffer, 1, end - 1))
          IN  /\ buffer' = SubSeq(buffer, end + 1, Len(buffer))
              /\ IF chunk = NoChunk THEN UNCHANGED <<pc, pending>> ELSE Emit(chunk)
  /\ UNCHANGED <<api, lines, cut, arrived, chan, heard, result>>

\* Mutant: the task reads on behind the end of the answer.
ReadOn == IF pending = Error THEN "ended" ELSE "lines"

AfterSend == IF pending \in {Done, Error} THEN "ended" ELSE "lines"

\* Mutant: nobody waits for room in the channel.
SendAnyway ==
  /\ pc = "sending"
  /\ chan' = Append(chan, pending)
  /\ pc' = AfterSend
  /\ UNCHANGED <<api, lines, cut, arrived, buffer, pending, heard, result>>

\* tx.send, which waits while the channel is full.
SendChunk ==
  /\ pc = "sending"
  /\ Len(chan) < Capacity
  /\ chan' = Append(chan, pending)
  /\ pc' = AfterSend
  /\ UNCHANGED <<api, lines, cut, arrived, buffer, pending, heard, result>>

Reader == Request \/ Receive \/ EndOfBody \/ NextLine \/ SendChunk
-----------------------------------------------------------------------------
\* collect_stream: texts are put together until a chunk that ends the answer.
Collect ==
  /\ result = "pending"
  /\ chan # <<>>
  /\ chan' = Tail(chan)
  /\ LET chunk == Head(chan) IN
       IF chunk[1] = "text"
       THEN heard' = Append(heard, chunk[2]) /\ UNCHANGED result
       ELSE result' = (IF chunk = Done THEN "ok" ELSE "error") /\ UNCHANGED heard
  /\ UNCHANGED <<api, lines, cut, arrived, buffer, pc, pending>>

Next == Reader \/ Collect

Spec == Init /\ [][Next]_vars

\* The reader and its caller run, and the network delivers or breaks.
FairSpec == Spec /\ WF_vars(Reader) /\ WF_vars(Collect)
-----------------------------------------------------------------------------
\* A chunk that ends the answer is the last of its stream: nothing follows it in
\* the channel, nothing is read or sent behind it (provider/mod.rs).
NothingAfterTheEnd ==
  \A k \in 1 .. Len(chan) :
    chan[k] \in {Done, Error} => k = Len(chan) /\ pc = "ended" /\ result = "pending"

\* The texts of the lines that arrive whole before the end the API has, told
\* from the lines themselves.
Stop == IF api = "openai" THEN "[DONE]" ELSE "message_stop"
Said ==
  SelectSeq([i \in 1 .. Len(lines) |-> i],
            LAMBDA i : /\ lines[i] = "text" /\ 3 * i <= cut
                       /\ \A h \in 1 .. i - 1 : lines[h] # Stop)

\* However the network cuts the body, the caller hears these texts once and in
\* order, is told that the answer is complete only when it has all of them, and
\* is told so or of a failure in the end (provider/mod.rs, agent/stream.rs).  A
\* body that ends early, or in an error event, passes for a complete answer.
Promised == INSTANCE AnswerStream WITH said <- Said
AnswerSpec == Promised!Spec
=============================================================================
