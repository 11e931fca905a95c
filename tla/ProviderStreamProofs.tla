------------------------ MODULE ProviderStreamProofs ------------------------
(***************************************************************************)
(* Theorems about ProviderStream, for any capacity of the channel and any    *)
(* length of a body: types, and that the end of an answer is the last of it.  *)
(***************************************************************************)
EXTENDS ProviderStream, TLAPS, SequenceTheorems, WellFoundedInduction

Bytes == (1 .. MaxLines) \X (0 .. 2)

LEMMA LeastExists ==
  ASSUME NEW S \in SUBSET Nat, S # {}
  PROVE  Min(S) \in S /\ \A x \in S : Min(S) <= x
<1> DEFINE Less == {ss \in Nat \X Nat : ss[1] < ss[2]}
<1>1. IsWellFoundedOn(Less, Nat)
  BY NatLessThanWellFounded, Zenon DEF OpToRel
<1>a. ASSUME NEW a \in Nat, NEW b \in Nat, a < b PROVE <<a, b>> \in Less
  BY <1>a
<1> HIDE DEF Less
<1>2. PICK x \in S : \A y \in S : <<y, x>> \notin Less
  BY <1>1, WFMin, Zenon
<1>3. ASSUME NEW y \in S PROVE x <= y
  <2>1. <<y, x>> \notin Less BY <1>2, Zenon
  <2>2. x \in Nat /\ y \in Nat OBVIOUS
  <2>3. ~ (y < x) BY <1>a, <2>1, <2>2, Zenon
  <2> QED BY <2>2, <2>3
<1>4. \E z \in S : \A y \in S : z <= y
  BY <1>3
<1> QED BY <1>4, Zenon DEF Min

LEMMA ByteType ==
  ASSUME NEW n \in Nat, n <= MaxLines, NEW j \in 1 .. 3 * n
  PROVE  Byte(j) \in Bytes
BY StreamAssumption DEF Byte, Bytes

LEMMA ParseType ==
  ASSUME NEW bytes \in Seq(Bytes) PROVE Parse(bytes) \in Chunks \cup {NoChunk}
<1>1. Len(bytes) = 2 => bytes[1][1] \in 1 .. MaxLines
  BY DEF Bytes
<1> QED BY <1>1 DEF Parse, OpenAi, Anthropic, Chunks, NoChunk, Done, Error
-----------------------------------------------------------------------------
(* Types.                                                                    *)

LEMMA ChunkText ==
  ASSUME NEW chunk \in Chunks
  PROVE  /\ chunk[1] = "text" => chunk[2] \in 1 .. MaxLines
         /\ chunk[1] # "text" => chunk \in {Done, Error}
<1>1. CASE chunk \in {"text"} \X (1 .. MaxLines)
  BY <1>1
<1>2. CASE chunk \in {Done, Error}
  BY <1>2 DEF Done, Error
<1> QED BY <1>1, <1>2 DEF Chunks

LEMMA InitType == Init => TypeOK
<1> SUFFICES ASSUME Init PROVE TypeOK
  OBVIOUS
<1>1. PICK n \in 0 .. MaxLines : lines \in [1 .. n -> Kinds]
  BY DEF Init
<1>2. lines \in Seq(Kinds) /\ Len(lines) = n
  BY <1>1, StreamAssumption, SeqDef
<1>3. cut \in 0 .. 3 * Len(lines) /\ 0 \in 0 .. cut
  BY <1>2 DEF Init
<1> QED BY <1>1, <1>2, <1>3, StreamAssumption DEF Init, TypeOK, Kinds

LEMMA ReceiveType == TypeOK /\ Receive => TypeOK'
<1> SUFFICES ASSUME TypeOK, Receive PROVE TypeOK'
  OBVIOUS
<1>1. PICK n \in 1 .. (cut - arrived) :
        /\ arrived' = arrived + n
        /\ buffer' = buffer \o [k \in 1 .. n |-> Byte(arrived + k)]
  BY DEF Receive
<1>2. cut \in Nat /\ arrived \in Nat /\ n \in Nat /\ arrived + n <= cut
  BY DEF TypeOK
<1>3. \A k \in 1 .. n : Byte(arrived + k) \in Bytes
  <2>1. ASSUME NEW k \in 1 .. n PROVE Byte(arrived + k) \in Bytes
    <3>1. arrived + k \in 1 .. 3 * Len(lines)
      BY <1>2, <2>1 DEF TypeOK
    <3>2. Len(lines) \in Nat /\ Len(lines) <= MaxLines
      BY DEF TypeOK
    <3> QED BY <3>1, <3>2, ByteType
  <2> QED BY <2>1
<1>4. [k \in 1 .. n |-> Byte(arrived + k)] \in Seq(Bytes)
  BY <1>2, <1>3, SeqDef
<1>5. buffer' \in Seq(Bytes)
  BY <1>1, <1>4 DEF TypeOK, Bytes
<1>6. arrived' \in 0 .. cut
  BY <1>1, <1>2
<1> QED BY <1>5, <1>6 DEF TypeOK, Receive, Bytes

LEMMA NextLineType == TypeOK /\ NextLine => TypeOK'
<1> SUFFICES ASSUME TypeOK, NextLine PROVE TypeOK'
  OBVIOUS
<1>1. CASE Newlines = {}
  BY <1>1 DEF TypeOK, NextLine, Drain
<1>2. CASE Newlines # {}
  <2> DEFINE end == Min(Newlines)
  <2> DEFINE chunk == Parse(SubSeq(buffer, 1, end - 1))
  <2>1. buffer \in Seq(Bytes)
    BY DEF TypeOK, Bytes
  <2>2. end \in 1 .. Len(buffer)
    <3>1. Newlines \subseteq 1 .. Len(buffer) /\ Newlines \subseteq Nat
      BY <2>1 DEF Newlines
    <3> QED BY <1>2, <3>1, LeastExists
  <2>3. /\ buffer' = SubSeq(buffer, end + 1, Len(buffer))
        /\ \/ UNCHANGED <<pc, pending>>
           \/ chunk # NoChunk /\ Emit(chunk)
    BY <1>2 DEF NextLine
  <2> HIDE DEF end
  <2>4. SubSeq(buffer, 1, end - 1) \in Seq(Bytes)
    BY <2>1, <2>2
  <2>5. chunk \in Chunks \cup {NoChunk}
    BY <2>4, ParseType
  <2> HIDE DEF chunk
  <2>6. buffer' \in Seq(Bytes)
    BY <2>1, <2>2, <2>3
  <2>7. pc' \in {"request", "reading", "lines", "sending", "ended"} /\ pending' \in Chunks \cup {NoChunk}
    BY <2>3, <2>5 DEF TypeOK, Emit
  <2> QED BY <2>6, <2>7 DEF TypeOK, NextLine, Bytes
<1> QED BY <1>1, <1>2

\* What is sent is a text, the end or an error.
LEMMA SendType == TypeOK /\ pending # NoChunk /\ SendChunk => TypeOK'
<1> SUFFICES ASSUME TypeOK, pending # NoChunk, SendChunk PROVE TypeOK'
  OBVIOUS
<1>1. pending \in Chunks /\ chan \in Seq(Chunks) /\ Len(chan) < Capacity
  BY DEF TypeOK, SendChunk
<1>2. chan' \in Seq(Chunks) /\ Len(chan') = Len(chan) + 1
  BY <1>1 DEF SendChunk
<1>3. Len(chan') <= Capacity
  BY <1>1, <1>2, StreamAssumption
<1>4. pc' \in {"lines", "ended"}
  BY DEF SendChunk, AfterSend
<1> QED BY <1>2, <1>3, <1>4 DEF TypeOK, SendChunk

LEMMA CollectType == TypeOK /\ Collect => TypeOK'
<1> SUFFICES ASSUME TypeOK, Collect PROVE TypeOK'
  OBVIOUS
<1>1. chan \in Seq(Chunks) /\ chan # <<>> /\ Len(chan) <= Capacity
  BY DEF TypeOK, Collect
<1>2. Head(chan) \in Chunks /\ chan' \in Seq(Chunks) /\ Len(chan') = Len(chan) - 1
  BY <1>1 DEF Collect
<1>3. Len(chan') <= Capacity
  BY <1>1, <1>2, StreamAssumption
<1>4. Head(chan)[1] = "text" => Head(chan)[2] \in 1 .. MaxLines
  BY <1>2, ChunkText
<1>5. heard' \in Seq(1 .. MaxLines)
  <2>1. heard \in Seq(1 .. MaxLines)
    BY DEF TypeOK
  <2>2. CASE Head(chan)[1] = "text"
    <3>1. heard' = Append(heard, Head(chan)[2])
      BY <2>2 DEF Collect
    <3> QED BY <1>4, <2>1, <2>2, <3>1
  <2>3. CASE Head(chan)[1] # "text"
    BY <2>1, <2>3 DEF Collect
  <2> QED BY <2>2, <2>3
<1>6. result' \in {"pending", "ok", "error"}
  BY DEF TypeOK, Collect
<1> QED BY <1>2, <1>3, <1>5, <1>6 DEF TypeOK, Collect
-----------------------------------------------------------------------------
(* The end.                                                                  *)

Ends == {Done, Error}

\* Nothing is empty that is sent, an end in the channel is its last chunk and
\* the reader's last, and with a result the channel is empty.
EndInv ==
  /\ pc = "sending" => pending # NoChunk
  /\ \A k \in 1 .. Len(chan) : chan[k] \in Ends => k = Len(chan) /\ pc = "ended"
  /\ result # "pending" => pc = "ended" /\ chan = <<>>

-----------------------------------------------------------------------------
(* What is heard.                                                            *)

\* The lines taken out of the buffer.
Taken == (arrived - Len(buffer)) \div 3

\* The buffer has the bytes behind them.
BufferInv ==
  /\ Len(buffer) <= arrived
  /\ arrived - Len(buffer) = 3 * Taken
  /\ \A k \in 1 .. Len(buffer) : buffer[k] = Byte(3 * Taken + k)
  /\ pc = "request" => arrived = 0
  /\ pc = "reading" => Len(buffer) < 3

\* A text that arrives whole, before the end the API has.
SaidLine(i) ==
  /\ i \in 1 .. Len(lines)
  /\ lines[i] = "text" /\ 3 * i <= cut
  /\ \A h \in 1 .. i - 1 : lines[h] # Stop

Ending == pc = "ended" \/ (pc = "sending" /\ pending \in Ends)
Over == result = "ok" \/ (\E k \in 1 .. Len(chan) : chan[k] = Done) \/ (pc = "sending" /\ pending = Done)

Held(i) == pc = "sending" /\ pending = <<"text", i>>
Queued(i) == \E k \in 1 .. Len(chan) : chan[k] = <<"text", i>>
Heard(i) == \E k \in 1 .. Len(heard) : heard[k] = i

\* Every text taken out of the buffer is in the reader's hand, in the channel
\* or heard, and the other way round; what is farther has come earlier.
FlowInv ==
  /\ \A h \in 1 .. Taken : ~Ending => lines[h] # Stop
  /\ Over => \A i \in Nat : SaidLine(i) => i <= Taken
  /\ \A i \in Nat : Held(i) \/ Queued(i) \/ Heard(i) <=> SaidLine(i) /\ i <= Taken

OrderInv ==
  /\ \A j, k \in 1 .. Len(heard) : j < k => heard[j] < heard[k]
  /\ \A j, k \in 1 .. Len(chan) : j < k /\ chan[k][1] = "text" => chan[j][2] < chan[k][2]
  /\ \A i, k \in Nat : Heard(i) /\ Queued(k) => i < k
  /\ \A i, k \in Nat : (Heard(i) \/ Queued(i)) /\ Held(k) => i < k

\* The texts heard are the first ones that arrived, each once and in order, and
\* all of them when the answer is said to be complete.
HeardIsSaid ==
  /\ \A j, k \in 1 .. Len(heard) : j < k => heard[j] < heard[k]
  /\ \A k \in 1 .. Len(heard) : SaidLine(heard[k])
  /\ \A i \in 1 .. Len(lines) : \A k \in 1 .. Len(heard) :
       SaidLine(i) /\ i < heard[k] => \E j \in 1 .. k : heard[j] = i
  /\ result = "ok" => \A i \in 1 .. Len(lines) : SaidLine(i) => Heard(i)

LEMMA ByteAt ==
  ASSUME NEW m \in Nat
  PROVE  Byte(3 * m + 1) = <<m + 1, 1>> /\ Byte(3 * m + 2) = <<m + 1, 2>> /\ Byte(3 * m + 3) = <<m + 1, 0>>
BY DEF Byte

LEMMA NewlineAt ==
  ASSUME NEW m \in Nat, NEW k \in Nat, Byte(3 * m + k)[2] = 0
  PROVE  k % 3 = 0
<1>1. (3 * m + k) % 3 = 0
  BY DEF Byte
<1> QED BY <1>1

LEMMA BufferNumbers ==
  ASSUME TypeOK, BufferInv
  PROVE  /\ Taken \in Nat /\ Len(buffer) \in Nat /\ arrived \in Nat /\ cut \in Nat
         /\ arrived = 3 * Taken + Len(buffer) /\ arrived <= cut /\ cut <= 3 * Len(lines)
         /\ buffer \in Seq(Bytes) /\ lines \in Seq(Kinds) /\ Len(lines) \in Nat
<1>1. /\ arrived \in Nat /\ cut \in Nat /\ arrived <= cut /\ cut <= 3 * Len(lines)
      /\ buffer \in Seq(Bytes) /\ lines \in Seq(Kinds)
  BY DEF TypeOK, Bytes
<1>2. Len(buffer) \in Nat /\ Len(lines) \in Nat
  BY <1>1
<1>3. Len(buffer) <= arrived /\ arrived - Len(buffer) = 3 * Taken
  BY DEF BufferInv
<1>4. Taken \in Nat
  BY <1>1, <1>2, <1>3 DEF Taken
<1> QED BY <1>1, <1>2, <1>3, <1>4

\* The first newline of the buffer ends its first line.
LEMMA FirstNewline ==
  ASSUME TypeOK, BufferInv
  PROVE  IF Len(buffer) < 3 THEN Newlines = {} ELSE Newlines # {} /\ Min(Newlines) = 3
<1>a. /\ Taken \in Nat /\ Len(buffer) \in Nat
      /\ \A k \in 1 .. Len(buffer) : buffer[k] = Byte(3 * Taken + k)
  BY BufferNumbers DEF BufferInv
<1>1. \A k \in Newlines : k \in Nat /\ k >= 1 /\ k <= Len(buffer) /\ k % 3 = 0
  <2>1. ASSUME NEW k \in Newlines PROVE k \in Nat /\ k >= 1 /\ k <= Len(buffer) /\ k % 3 = 0
    <3>1. k \in 1 .. Len(buffer) /\ buffer[k][2] = 0
      BY DEF Newlines
    <3>2. k \in Nat /\ Byte(3 * Taken + k)[2] = 0
      BY <1>a, <3>1
    <3>3. k % 3 = 0
      BY <1>a, <3>2, NewlineAt
    <3> QED BY <1>a, <3>1, <3>3
  <2> QED BY <2>1
<1>2. CASE Len(buffer) < 3
  BY <1>a, <1>1, <1>2
<1>3. CASE Len(buffer) >= 3
  <2>1. buffer[3] = <<Taken + 1, 0>>
    BY <1>a, <1>3, ByteAt
  <2>2. 3 \in Newlines
    BY <1>a, <1>3, <2>1 DEF Newlines
  <2>3. Newlines \in SUBSET Nat
    BY <1>1
  <2>4. Min(Newlines) \in Newlines /\ Min(Newlines) <= 3
    BY <2>2, <2>3, LeastExists
  <2>5. Min(Newlines) \in Nat /\ Min(Newlines) >= 1 /\ Min(Newlines) % 3 = 0
    BY <1>1, <2>4
  <2>6. Min(Newlines) = 3
    BY <2>4, <2>5
  <2> QED BY <1>a, <1>3, <2>2, <2>6
<1> QED BY <1>a, <1>2, <1>3

\* Its chunk is what the line says.
LEMMA FirstChunk ==
  ASSUME TypeOK, BufferInv, Len(buffer) >= 3, NEW i, i = Taken + 1
  PROVE  /\ i \in 1 .. Len(lines) /\ 3 * i <= cut
         /\ Parse(SubSeq(buffer, 1, 2)) =
              IF lines[i] = "text" THEN <<"text", i>> ELSE IF lines[i] = Stop THEN Done ELSE NoChunk
<1>a. /\ Taken \in Nat /\ Len(buffer) \in Nat /\ Len(lines) \in Nat
      /\ arrived = 3 * Taken + Len(buffer) /\ arrived <= cut /\ cut <= 3 * Len(lines)
      /\ cut \in Nat /\ buffer \in Seq(Bytes)
      /\ \A k \in 1 .. Len(buffer) : buffer[k] = Byte(3 * Taken + k)
  BY BufferNumbers DEF BufferInv
<1>1. 3 * i <= cut /\ i \in 1 .. Len(lines)
  BY <1>a
<1>2. buffer[1] = <<i, 1>> /\ buffer[2] = <<i, 2>>
  <2>1. buffer[1] = Byte(3 * Taken + 1) /\ buffer[2] = Byte(3 * Taken + 2)
    BY <1>a
  <2>2. Byte(3 * Taken + 1) = <<Taken + 1, 1>> /\ Byte(3 * Taken + 2) = <<Taken + 1, 2>>
    BY <1>a, ByteAt
  <2> QED BY <2>1, <2>2
<1> DEFINE bytes == SubSeq(buffer, 1, 2)
<1>3. Len(bytes) = 2 /\ bytes[1] = <<i, 1>> /\ bytes[2] = <<i, 2>>
  BY <1>a, <1>2
<1> HIDE DEF bytes
<1>4. Parse(bytes) = IF api = "openai" THEN OpenAi(lines[i], i) ELSE Anthropic(lines[i], i)
  BY <1>3 DEF Parse
<1>5. Parse(bytes) =
        IF lines[i] = "text" THEN <<"text", i>> ELSE IF lines[i] = Stop THEN Done ELSE NoChunk
  <2>1. CASE api = "openai"
    BY <1>4, <2>1 DEF OpenAi, Stop
  <2>2. CASE api # "openai"
    BY <1>4, <2>2 DEF Anthropic, Stop
  <2> QED BY <2>1, <2>2
<1> QED BY <1>1, <1>5 DEF bytes

LEMMA DropThree ==
  ASSUME NEW S, NEW s \in Seq(S), Len(s) >= 3, NEW t, t = SubSeq(s, 4, Len(s))
  PROVE  Len(t) = Len(s) - 3 /\ \A k \in 1 .. Len(s) - 3 : t[k] = s[k + 3]
<1> DEFINE n == Len(s)
<1>1. n \in Nat /\ n \in Int /\ 4 \in Int
  OBVIOUS
<1>2. \A k \in 4 .. n : s[k] \in S
  OBVIOUS
<1>3. /\ Len(SubSeq(s, 4, n)) = IF 4 <= n THEN n - 4 + 1 ELSE 0
      /\ \A k \in 1 .. n - 4 + 1 : SubSeq(s, 4, n)[k] = s[4 + k - 1]
  BY <1>1, <1>2, SubSeqProperties
<1>4. n - 4 + 1 = n - 3
  BY <1>1
<1>5. Len(t) = n - 3
  BY <1>1, <1>3, <1>4
<1>6. ASSUME NEW k \in 1 .. n - 3 PROVE t[k] = s[k + 3]
  <2>1. t[k] = s[4 + k - 1]
    BY <1>3, <1>4, <1>6
  <2>2. 4 + k - 1 = k + 3
    BY <1>1, <1>6
  <2> QED BY <2>1, <2>2
<1> QED BY <1>5, <1>6

\* A step of the reader on its buffer: nothing to take, or the next line.
TakesLine(i) ==
  /\ i \in 1 .. Len(lines) /\ 3 * i <= cut
  /\ \/ lines[i] = "text" /\ Emit(<<"text", i>>)
     \/ lines[i] = Stop /\ Emit(Done)
     \/ lines[i] \notin {"text", Stop} /\ UNCHANGED <<pc, pending>>

LEMMA NextLineEffect ==
  ASSUME TypeOK, BufferInv, NextLine
  PROVE  /\ BufferInv'
         /\ \/ Taken' = Taken /\ pc' = "reading" /\ UNCHANGED pending
            \/ Taken' = Taken + 1 /\ TakesLine(Taken + 1)
<1>a. /\ Taken \in Nat /\ Len(buffer) \in Nat /\ buffer \in Seq(Bytes)
      /\ arrived \in Nat /\ arrived = 3 * Taken + Len(buffer)
      /\ \A k \in 1 .. Len(buffer) : buffer[k] = Byte(3 * Taken + k)
  BY BufferNumbers DEF BufferInv
<1>1. CASE Len(buffer) < 3
  <2>1. pc' = "reading" /\ UNCHANGED <<pending, buffer, arrived>>
    BY <1>1, FirstNewline DEF NextLine, Drain
  <2>2. Taken' = Taken
    BY <2>1 DEF Taken
  <2> QED BY <1>1, <2>1, <2>2 DEF BufferInv
<1>2. CASE Len(buffer) >= 3
  <2>1. Newlines # {} /\ Min(Newlines) = 3
    BY <1>a, <1>2, FirstNewline
  <2> DEFINE chunk == Parse(SubSeq(buffer, 1, 2))
  <2>2. /\ buffer' = SubSeq(buffer, 4, Len(buffer))
        /\ IF chunk = NoChunk THEN UNCHANGED <<pc, pending>> ELSE Emit(chunk)
        /\ pc = "lines" /\ UNCHANGED <<arrived, lines, api, cut>>
    BY <2>1 DEF NextLine
  <2> DEFINE i == Taken + 1
  <2>3. /\ i \in 1 .. Len(lines) /\ 3 * i <= cut
        /\ chunk = IF lines[i] = "text" THEN <<"text", i>> ELSE IF lines[i] = Stop THEN Done ELSE NoChunk
    BY <1>2, FirstChunk
  <2> HIDE DEF chunk
  <2>4. TakesLine(i)
    BY <2>2, <2>3 DEF TakesLine, Done, NoChunk
  <2>5. /\ Len(buffer') = Len(buffer) - 3
        /\ \A k \in 1 .. Len(buffer) - 3 : buffer'[k] = buffer[k + 3]
    BY <1>a, <1>2, <2>2, DropThree
  <2>6. arrived' - Len(buffer') = 3 * (Taken + 1)
    <3>1. arrived' = arrived
      BY <2>2
    <3> QED BY <1>a, <2>5, <3>1
  <2>7. Taken' = Taken + 1
    BY <1>a, <2>6 DEF Taken
  <2>8. \A k \in 1 .. Len(buffer') : buffer'[k] = Byte(3 * Taken' + k)
    <3>1. ASSUME NEW k \in 1 .. Len(buffer') PROVE buffer'[k] = Byte(3 * Taken' + k)
      <4>1. k + 3 \in 1 .. Len(buffer) /\ buffer'[k] = buffer[k + 3]
        BY <1>a, <1>2, <2>5, <3>1
      <4>2. buffer[k + 3] = Byte(3 * Taken + (k + 3))
        BY <1>a, <4>1
      <4>3. 3 * Taken + (k + 3) = 3 * Taken' + k
        BY <1>a, <2>7, <4>1
      <4> QED BY <4>1, <4>2, <4>3
    <3> QED BY <3>1
  <2>9. pc' # "request" /\ pc' # "reading"
    BY <2>2 DEF Emit
  <2>10. Len(buffer') <= arrived'
    BY <1>a, <1>2, <2>2, <2>5
  <2> QED BY <2>4, <2>6, <2>7, <2>8, <2>9, <2>10 DEF BufferInv
<1> QED BY <1>a, <1>1, <1>2

LEMMA ReceiveEffect ==
  ASSUME TypeOK, BufferInv, Receive PROVE BufferInv' /\ Taken' = Taken
<1>a. /\ Taken \in Nat /\ Len(buffer) \in Nat /\ buffer \in Seq(Bytes)
      /\ arrived \in Nat /\ arrived = 3 * Taken + Len(buffer)
      /\ \A k \in 1 .. Len(buffer) : buffer[k] = Byte(3 * Taken + k)
  BY BufferNumbers DEF BufferInv
<1>1. PICK n \in 1 .. (cut - arrived) :
        /\ arrived' = arrived + n
        /\ buffer' = buffer \o [k \in 1 .. n |-> Byte(arrived + k)]
  BY DEF Receive
<1>2. n \in Nat /\ n >= 1
  BY BufferNumbers
<1> DEFINE more == [k \in 1 .. n |-> Byte(arrived + k)]
<1>3. buffer' \in Seq(Bytes)
  BY ReceiveType DEF TypeOK, Bytes
<1>4. Len(more) = n /\ \A k \in 1 .. n : more[k] = Byte(arrived + k)
  BY <1>2
<1> HIDE DEF more
<1>5. /\ Len(buffer') = Len(buffer) + n
      /\ \A k \in 1 .. Len(buffer) : buffer'[k] = buffer[k]
      /\ \A k \in 1 .. n : buffer'[Len(buffer) + k] = more[k]
  BY <1>a, <1>1, <1>2, <1>4 DEF more
<1>6. Taken' = Taken
  BY <1>a, <1>1, <1>2, <1>5 DEF Taken
<1>7. \A k \in 1 .. Len(buffer') : buffer'[k] = Byte(3 * Taken' + k)
  <2>1. ASSUME NEW k \in 1 .. Len(buffer'), k <= Len(buffer) PROVE buffer'[k] = Byte(3 * Taken' + k)
    BY <1>a, <1>5, <1>6, <2>1
  <2>2. ASSUME NEW k \in 1 .. Len(buffer'), ~ (k <= Len(buffer)) PROVE buffer'[k] = Byte(3 * Taken' + k)
    <3>1. PICK j \in 1 .. n : k = Len(buffer) + j
      <4>1. k - Len(buffer) \in 1 .. n /\ k = Len(buffer) + (k - Len(buffer))
        BY <1>a, <1>2, <1>5, <2>2
      <4> QED BY <4>1
    <3>2. buffer'[k] = Byte(arrived + j)
      BY <1>4, <1>5, <3>1
    <3>3. arrived + j = 3 * Taken' + k
      BY <1>a, <1>6, <3>1
    <3> QED BY <3>2, <3>3
  <2> QED BY <2>1, <2>2
<1>8. Len(buffer') <= arrived' /\ arrived' - Len(buffer') = 3 * Taken'
  BY <1>a, <1>1, <1>2, <1>5, <1>6
<1>9. pc' = "lines"
  BY DEF Receive
<1> QED BY <1>6, <1>7, <1>8, <1>9 DEF BufferInv

-----------------------------------------------------------------------------
(* Every step keeps the invariant.                                           *)

StreamInv == TypeOK /\ EndInv /\ BufferInv /\ FlowInv /\ OrderInv

\* What is in a channel after a send, and after a receive.
LEMMA InAppended ==
  ASSUME NEW s \in Seq(Chunks), NEW c \in Chunks, NEW t, t = Append(s, c)
  PROVE  /\ Len(t) = Len(s) + 1 /\ t[Len(t)] = c
         /\ \A k \in 1 .. Len(s) : t[k] = s[k]
         /\ \A v : (\E k \in 1 .. Len(t) : t[k] = v) <=> v = c \/ \E k \in 1 .. Len(s) : s[k] = v
<1>1. /\ Len(s) \in Nat /\ Len(t) = Len(s) + 1 /\ t[Len(t)] = c
      /\ \A k \in 1 .. Len(s) : t[k] = s[k]
  OBVIOUS
<1>2. \A k \in 1 .. Len(t) : k = Len(t) \/ k \in 1 .. Len(s)
  BY <1>1
<1>3. \A k \in 1 .. Len(s) : k \in 1 .. Len(t)
  BY <1>1
<1>4. Len(t) \in 1 .. Len(t)
  BY <1>1
<1> QED BY <1>1, <1>2, <1>3, <1>4

LEMMA InTail ==
  ASSUME NEW s \in Seq(Chunks), s # <<>>, NEW t, t = Tail(s)
  PROVE  /\ Len(t) = Len(s) - 1 /\ s[1] = Head(s) /\ Head(s) \in Chunks /\ Len(s) \in Nat \ {0}
         /\ \A k \in 1 .. Len(t) : t[k] = s[k + 1] /\ k + 1 \in 1 .. Len(s)
BY HeadTailProperties

LEMMA InTailValue ==
  ASSUME NEW s \in Seq(Chunks), s # <<>>, NEW t, t = Tail(s), NEW v
  PROVE  (\E k \in 1 .. Len(s) : s[k] = v) <=> v = Head(s) \/ \E k \in 1 .. Len(t) : t[k] = v
<1>1. /\ Len(s) \in Nat \ {0} /\ Len(t) = Len(s) - 1 /\ s[1] = Head(s)
      /\ \A k \in 1 .. Len(t) : t[k] = s[k + 1] /\ k + 1 \in 1 .. Len(s)
  BY InTail
<1>2. ASSUME NEW k \in 1 .. Len(s), k # 1 PROVE k - 1 \in 1 .. Len(t) /\ t[k - 1] = s[k]
  <2>1. k - 1 \in 1 .. Len(t) /\ (k - 1) + 1 = k
    BY <1>1, <1>2
  <2> QED BY <1>1, <2>1
<1>3. ASSUME NEW k \in 1 .. Len(s), s[k] = v
      PROVE  v = Head(s) \/ \E j \in 1 .. Len(t) : t[j] = v
  BY <1>1, <1>2, <1>3
<1>4. ASSUME v = Head(s) \/ \E j \in 1 .. Len(t) : t[j] = v
      PROVE  \E k \in 1 .. Len(s) : s[k] = v
  <2>1. 1 \in 1 .. Len(s)
    BY <1>1
  <2> QED BY <1>1, <1>4, <2>1
<1> QED BY <1>3, <1>4

LEMMA StreamInit == Init => StreamInv
<1> SUFFICES ASSUME Init PROVE StreamInv
  OBVIOUS
<1>1. arrived = 0 /\ buffer = <<>> /\ pc = "request" /\ chan = <<>> /\ heard = <<>> /\ result = "pending"
  BY DEF Init
<1>2. Len(buffer) = 0 /\ Len(chan) = 0 /\ Len(heard) = 0
  BY <1>1
<1>3. Taken = 0
  BY <1>1, <1>2 DEF Taken
<1>4. EndInv /\ BufferInv
  <2>1. EndInv
    BY <1>1, <1>2 DEF EndInv
  <2>2. \A k \in 1 .. Len(buffer) : FALSE
    BY <1>2
  <2>3. arrived - Len(buffer) = 3 * Taken /\ Len(buffer) <= arrived
    <3>1. arrived = 0
      BY <1>1
    <3>2. arrived - Len(buffer) = 0 /\ Len(buffer) <= arrived
      BY <1>2, <3>1
    <3>3. 3 * Taken = 0
      BY <1>3
    <3> QED BY <3>2, <3>3
  <2>4. Len(buffer) < 3
    BY <1>2
  <2> QED BY <1>1, <2>1, <2>2, <2>3, <2>4 DEF BufferInv
<1>5. FlowInv
  <2>1. \A i \in Nat : SaidLine(i) => i >= 1
    BY DEF SaidLine
  <2> QED BY <1>1, <1>2, <1>3, <2>1 DEF FlowInv, Over, Held, Queued, Heard
<1>6. OrderInv
  BY <1>1, <1>2 DEF OrderInv, Held, Queued, Heard
<1> QED BY InitType, <1>4, <1>5, <1>6 DEF StreamInv

\* The reader goes on to send an end, or reads on, with what it has taken.
LEMMA ReaderStep ==
  ASSUME StreamInv, TypeOK', BufferInv', Taken' = Taken, pc # "ended", pc # "sending",
         UNCHANGED <<api, lines, cut, chan, heard, result>>,
         \/ pc' # "sending" /\ pc' # "ended"
         \/ pc' = "sending" /\ pending' = Error
         \/ pc' = "sending" /\ pending' = Done /\ pc = "reading" /\ arrived = cut
  PROVE  StreamInv'
<1>a. TypeOK /\ EndInv /\ BufferInv /\ FlowInv /\ OrderInv
  BY DEF StreamInv
<1>1. EndInv'
  BY <1>a DEF EndInv, Ends, Done, Error, NoChunk
<1>2. /\ \A i : Heard(i)' <=> Heard(i)
      /\ \A i : Queued(i)' <=> Queued(i)
      /\ \A i : SaidLine(i)' <=> SaidLine(i)
      /\ \A i : ~Held(i) /\ ~Held(i)'
  BY DEF Heard, Queued, SaidLine, Stop, Held, Done, Error
<1>3. OrderInv'
  BY <1>a, <1>2 DEF OrderInv
<1>4. FlowInv'
  <2>1. \A h \in 1 .. Taken' : ~Ending' => lines'[h] # Stop'
    BY <1>a DEF FlowInv, Ending, Stop
  <2>2. Over' => \A i \in Nat : SaidLine(i)' => i <= Taken'
    <3>1. CASE Over
      BY <1>a, <1>2, <3>1 DEF FlowInv
    <3>2. CASE ~Over /\ Over'
      <4>1. pc = "reading" /\ arrived = cut
        BY <3>2 DEF Over, Done, Error
      <4>2. Len(buffer) < 3 /\ arrived = 3 * Taken + Len(buffer) /\ Taken \in Nat /\ Len(buffer) \in Nat
        BY <1>a, <4>1, BufferNumbers DEF BufferInv
      <4>3. \A i \in Nat : SaidLine(i) => 3 * i <= cut
        BY DEF SaidLine
      <4> QED BY <1>2, <4>1, <4>2, <4>3
    <3> QED BY <3>1, <3>2
  <2>3. \A i \in Nat : (Held(i) \/ Queued(i) \/ Heard(i) <=> SaidLine(i) /\ i <= Taken)'
    BY <1>a, <1>2 DEF FlowInv
  <2> QED BY <2>1, <2>2, <2>3 DEF FlowInv
<1> QED BY <1>1, <1>3, <1>4 DEF StreamInv

LEMMA RequestStep == StreamInv /\ Request => StreamInv'
<1> SUFFICES ASSUME StreamInv, Request PROVE StreamInv'
  OBVIOUS
<1>1. TypeOK'
  BY DEF StreamInv, TypeOK, Request, Emit, Chunks, Done, Error
<1>2. UNCHANGED <<arrived, buffer>>
  BY DEF Request
<1>3. Taken' = Taken
  BY <1>2 DEF Taken
<1>4. Len(buffer) < 3
  <2>1. arrived = 0 /\ arrived = 3 * Taken + Len(buffer) /\ Taken \in Nat /\ Len(buffer) \in Nat
    BY BufferNumbers DEF StreamInv, BufferInv, Request
  <2> QED BY <2>1
<1>5. BufferInv'
  BY <1>2, <1>3, <1>4 DEF StreamInv, BufferInv, Request, Emit
<1> QED BY <1>1, <1>3, <1>5, ReaderStep DEF Request, Emit

LEMMA ReceiveStep == StreamInv /\ Receive => StreamInv'
<1> SUFFICES ASSUME StreamInv, Receive PROVE StreamInv'
  OBVIOUS
<1>1. TypeOK' /\ BufferInv' /\ Taken' = Taken
  BY ReceiveType, ReceiveEffect DEF StreamInv
<1> QED BY <1>1, ReaderStep DEF Receive

LEMMA EndOfBodyStep == StreamInv /\ EndOfBody => StreamInv'
<1> SUFFICES ASSUME StreamInv, EndOfBody PROVE StreamInv'
  OBVIOUS
<1>1. TypeOK'
  BY DEF StreamInv, TypeOK, EndOfBody, Emit, Chunks, Done, Error
<1>2. UNCHANGED <<arrived, buffer>>
  BY DEF EndOfBody
<1>3. Taken' = Taken
  BY <1>2 DEF Taken
<1>4. BufferInv'
  BY <1>2, <1>3 DEF StreamInv, BufferInv, EndOfBody, Emit
<1> QED BY <1>1, <1>3, <1>4, ReaderStep DEF EndOfBody, Emit

LEMMA NextLineStep == StreamInv /\ NextLine => StreamInv'
<1> SUFFICES ASSUME StreamInv, NextLine PROVE StreamInv'
  OBVIOUS
<1>a. TypeOK /\ EndInv /\ BufferInv /\ FlowInv /\ OrderInv
  BY DEF StreamInv
<1>b. pc = "lines" /\ UNCHANGED <<api, lines, cut, arrived, chan, heard, result>>
  BY DEF NextLine
<1>1. TypeOK' /\ BufferInv'
  BY <1>a, NextLineType, NextLineEffect
<1>2. CASE Taken' = Taken /\ pc' = "reading" /\ UNCHANGED pending
  BY <1>b, <1>1, <1>2, ReaderStep
<1>3. CASE Taken' = Taken + 1 /\ TakesLine(Taken + 1)
  <2> DEFINE i == Taken + 1
  <2>1. Taken \in Nat /\ i \in Nat /\ Taken' = i
    BY <1>a, <1>3, BufferNumbers
  <2>2. /\ i \in 1 .. Len(lines) /\ 3 * i <= cut
        /\ \/ lines[i] = "text" /\ pc' = "sending" /\ pending' = <<"text", i>>
           \/ lines[i] = Stop /\ pc' = "sending" /\ pending' = Done
           \/ lines[i] # "text" /\ lines[i] # Stop /\ UNCHANGED <<pc, pending>>
    BY <1>3 DEF TakesLine, Emit
  <2> HIDE DEF i
  <2>3. EndInv'
    BY <1>a, <1>b, <2>2 DEF EndInv, Ends, Done, Error, NoChunk
  <2>4. ~Ending /\ \A h \in 1 .. Taken : lines[h] # Stop
    BY <1>a, <1>b DEF FlowInv, Ending
  <2>5. /\ \A j : Heard(j)' <=> Heard(j)
        /\ \A j : Queued(j)' <=> Queued(j)
        /\ \A j : SaidLine(j)' <=> SaidLine(j)
        /\ \A j : ~Held(j)
        /\ Stop' = Stop
    BY <1>b DEF Heard, Queued, SaidLine, Stop, Held
  <2>6. Stop # "text"
    BY DEF Stop
  <2>7. \A j : Held(j)' <=> lines[i] = "text" /\ j = i
    BY <1>b, <2>2, <2>6 DEF Held, Done
  <2>8. SaidLine(i) <=> lines[i] = "text"
    <3>1. \A h \in 1 .. i - 1 : lines[h] # Stop
      BY <2>1, <2>4 DEF i
    <3> QED BY <2>2, <3>1 DEF SaidLine
  <2>9. \A j \in Nat : SaidLine(j) /\ j <= i <=> (SaidLine(j) /\ j <= Taken) \/ (j = i /\ lines[i] = "text")
    <3>1. \A j \in Nat : j <= i <=> j <= Taken \/ j = i
      BY <2>1 DEF i
    <3> QED BY <2>8, <3>1
  <2>10. \A j \in Nat : (Held(j) \/ Queued(j) \/ Heard(j) <=> SaidLine(j) /\ j <= Taken)'
    BY <1>a, <2>1, <2>5, <2>7, <2>9 DEF FlowInv
  <2>11. Over' => \A j \in Nat : SaidLine(j)' => j <= Taken'
    <3>1. CASE Over
      <4>1. \A j \in Nat : SaidLine(j) => j <= Taken
        BY <1>a, <3>1 DEF FlowInv
      <4>2. \A j \in Nat : j <= Taken => j <= i
        BY <2>1 DEF i
      <4> QED BY <2>1, <2>5, <4>1, <4>2
    <3>2. CASE ~Over /\ Over'
      <4>1. lines[i] = Stop
        BY <1>b, <2>2, <3>2 DEF Over, Done
      <4>2. \A j \in Nat : j <= i \/ i \in 1 .. j - 1
        BY <2>1, <2>2
      <4>3. \A j \in Nat : SaidLine(j) => j <= i
        BY <4>1, <4>2 DEF SaidLine
      <4> QED BY <2>1, <2>5, <4>3
    <3> QED BY <3>1, <3>2
  <2>12. \A h \in 1 .. Taken' : ~Ending' => lines'[h] # Stop'
    <3>1. ~Ending' => lines[i] # Stop
      BY <1>b, <2>2, <2>6 DEF Ending, Ends, Done
    <3>2. \A h \in 1 .. Taken' : h \in 1 .. Taken \/ h = i
      BY <2>1 DEF i
    <3> QED BY <1>b, <2>4, <2>5, <3>1, <3>2
  <2>13. FlowInv'
    BY <2>10, <2>11, <2>12 DEF FlowInv
  <2>14. OrderInv'
    <3>1. \A j \in Nat : Heard(j) \/ Queued(j) => j < i
      <4>1. \A j \in Nat : j <= Taken => j < i
        BY <2>1 DEF i
      <4> QED BY <1>a, <4>1 DEF FlowInv
    <3> QED BY <1>a, <1>b, <2>5, <2>7, <3>1 DEF OrderInv
  <2> QED BY <1>1, <2>3, <2>13, <2>14 DEF StreamInv
<1> QED BY <1>a, <1>2, <1>3, NextLineEffect

LEMMA SendStep == StreamInv /\ SendChunk => StreamInv'
<1> SUFFICES ASSUME StreamInv, SendChunk PROVE StreamInv'
  OBVIOUS
<1>a. TypeOK /\ EndInv /\ BufferInv /\ FlowInv /\ OrderInv
  BY DEF StreamInv
<1>b. /\ pc = "sending" /\ chan' = Append(chan, pending) /\ pc' = AfterSend
      /\ UNCHANGED <<api, lines, cut, arrived, buffer, pending, heard, result>>
  BY DEF SendChunk
<1>1. pending \in Chunks /\ chan \in Seq(Chunks) /\ Len(chan) \in Nat
  BY <1>a, <1>b DEF TypeOK, EndInv
<1>2. /\ Len(chan') = Len(chan) + 1 /\ chan'[Len(chan')] = pending
      /\ \A k \in 1 .. Len(chan) : chan'[k] = chan[k]
      /\ \A v : (\E k \in 1 .. Len(chan') : chan'[k] = v)
                 <=> v = pending \/ \E k \in 1 .. Len(chan) : chan[k] = v
  BY <1>1, <1>b, InAppended
<1>3. \A k \in 1 .. Len(chan') : k = Len(chan') \/ k \in 1 .. Len(chan)
  BY <1>1, <1>2
<1>4. TypeOK'
  BY <1>a, SendType, <1>b DEF EndInv
<1>5. BufferInv' /\ Taken' = Taken
  <2>1. Taken' = Taken
    BY <1>b DEF Taken
  <2>2. pc' # "request" /\ pc' # "reading"
    BY <1>b DEF AfterSend
  <2> QED BY <1>a, <1>b, <2>1, <2>2 DEF BufferInv
<1>6. EndInv'
  <2>1. \A k \in 1 .. Len(chan) : chan[k] \notin Ends
    BY <1>a, <1>b DEF EndInv
  <2>2. result = "pending"
    BY <1>a, <1>b DEF EndInv
  <2>3. pending \in Ends => pc' = "ended"
    BY <1>b DEF AfterSend, Ends
  <2>4. pc' # "sending"
    BY <1>b DEF AfterSend
  <2> QED BY <1>b, <1>2, <1>3, <2>1, <2>2, <2>3, <2>4 DEF EndInv
<1>7. /\ \A i : Heard(i)' <=> Heard(i)
      /\ \A i : SaidLine(i)' <=> SaidLine(i)
      /\ \A i : Queued(i)' <=> Queued(i) \/ Held(i)
      /\ \A i : ~Held(i)'
      /\ Stop' = Stop
  <2>1. pc' # "sending"
    BY <1>b DEF AfterSend
  <2>2. \A i : Queued(i)' <=> Queued(i) \/ Held(i)
    BY <1>b, <1>2 DEF Queued, Held
  <2> QED BY <1>b, <2>1, <2>2 DEF Heard, SaidLine, Stop, Held
<1>8. Over' <=> Over
  BY <1>b, <1>2 DEF Over, AfterSend
<1>9. Ending' <=> Ending
  BY <1>b DEF Ending, AfterSend, Ends
<1>10. FlowInv'
  <2>1. \A h \in 1 .. Taken' : ~Ending' => lines'[h] # Stop'
    BY <1>a, <1>b, <1>5, <1>7, <1>9 DEF FlowInv
  <2>2. Over' => \A i \in Nat : SaidLine(i)' => i <= Taken'
    BY <1>a, <1>5, <1>7, <1>8 DEF FlowInv
  <2>3. \A i \in Nat : (Held(i) \/ Queued(i) \/ Heard(i) <=> SaidLine(i) /\ i <= Taken)'
    BY <1>a, <1>5, <1>7 DEF FlowInv
  <2> QED BY <2>1, <2>2, <2>3 DEF FlowInv
<1>11. OrderInv'
  <2>1. \A j, k \in 1 .. Len(chan') : j < k /\ chan'[k][1] = "text" => chan'[j][2] < chan'[k][2]
    <3>1. ASSUME NEW j \in 1 .. Len(chan'), NEW k \in 1 .. Len(chan'), j < k, chan'[k][1] = "text"
          PROVE  chan'[j][2] < chan'[k][2]
      <4>1. j \in 1 .. Len(chan) /\ chan'[j] = chan[j]
        BY <1>1, <1>2, <1>3, <3>1
      <4>2. CASE k \in 1 .. Len(chan)
        BY <1>a, <1>2, <3>1, <4>1, <4>2 DEF OrderInv
      <4>3. CASE k = Len(chan')
        <5>1. chan'[k] = pending /\ pending = <<"text", pending[2]>> /\ pending[2] \in Nat
          <6>1. pending \in {"text"} \X (1 .. MaxLines)
            BY <1>1, <1>2, <3>1, <4>3 DEF Chunks, Done, Error
          <6> QED BY <1>2, <4>3, <6>1
        <5>2. chan[j] = <<"text", chan[j][2]>> /\ chan[j][2] \in Nat
          <6>1. chan[j] \in Chunks /\ chan[j] \notin Ends
            BY <1>a, <1>b, <1>1, <4>1 DEF EndInv
          <6>2. chan[j] \in {"text"} \X (1 .. MaxLines)
            BY <6>1 DEF Chunks, Ends
          <6> QED BY <6>2
        <5>3. Queued(chan[j][2]) /\ Held(pending[2])
          BY <1>b, <4>1, <5>1, <5>2 DEF Queued, Held
        <5>4. chan[j][2] < pending[2]
          BY <1>a, <5>1, <5>2, <5>3 DEF OrderInv
        <5> QED BY <4>1, <5>1, <5>4
      <4> QED BY <1>3, <4>2, <4>3
    <3> QED BY <3>1
  <2>2. \A i, k \in Nat : (Heard(i) /\ Queued(k) => i < k)'
    BY <1>a, <1>7 DEF OrderInv
  <2>3. \A i, k \in Nat : ((Heard(i) \/ Queued(i)) /\ Held(k) => i < k)'
    BY <1>7
  <2>4. \A j, k \in 1 .. Len(heard') : j < k => heard'[j] < heard'[k]
    BY <1>a, <1>b DEF OrderInv
  <2> QED BY <2>1, <2>2, <2>3, <2>4 DEF OrderInv
<1> QED BY <1>4, <1>5, <1>6, <1>10, <1>11 DEF StreamInv

LEMMA HeardNumber ==
  ASSUME heard \in Seq(1 .. MaxLines), NEW k \in 1 .. Len(heard)
  PROVE  heard[k] \in Nat /\ Heard(heard[k])
<1>1. heard[k] \in 1 .. MaxLines
  BY ElementOfSeq
<1>2. Heard(heard[k])
  BY Zenon DEF Heard
<1> QED BY <1>1, <1>2

\* A text goes from the channel to the end of what is heard.
LEMMA HearStep ==
  ASSUME StreamInv, Collect, TypeOK', BufferInv', Taken' = Taken, Head(chan)[1] = "text"
  PROVE  StreamInv'
<1>a. TypeOK /\ EndInv /\ BufferInv /\ FlowInv /\ OrderInv
  BY DEF StreamInv
<1> DEFINE x == Head(chan)[2]
<1>b. /\ result = "pending" /\ chan # <<>> /\ chan' = Tail(chan) /\ heard' = Append(heard, x)
      /\ UNCHANGED <<api, lines, cut, arrived, buffer, pc, pending, result>>
  BY DEF Collect
<1>1. /\ Len(chan') = Len(chan) - 1 /\ chan[1] = Head(chan) /\ Head(chan) \in Chunks
      /\ Len(chan) \in Nat \ {0}
      /\ \A k \in 1 .. Len(chan') : chan'[k] = chan[k + 1] /\ k + 1 \in 1 .. Len(chan)
      /\ \A v : (\E k \in 1 .. Len(chan) : chan[k] = v)
                 <=> v = Head(chan) \/ \E k \in 1 .. Len(chan') : chan'[k] = v
  <2>1. chan \in Seq(Chunks) /\ chan # <<>> /\ chan' = Tail(chan)
    BY <1>a, <1>b DEF TypeOK
  <2>2. /\ Len(chan') = Len(chan) - 1 /\ chan[1] = Head(chan) /\ Head(chan) \in Chunks
        /\ Len(chan) \in Nat \ {0}
        /\ \A k \in 1 .. Len(chan') : chan'[k] = chan[k + 1] /\ k + 1 \in 1 .. Len(chan)
    BY <2>1, InTail
  <2>3. \A v : (\E k \in 1 .. Len(chan) : chan[k] = v)
                <=> v = Head(chan) \/ \E k \in 1 .. Len(chan') : chan'[k] = v
    <3>1. ASSUME NEW v
          PROVE  (\E k \in 1 .. Len(chan) : chan[k] = v)
                   <=> v = Head(chan) \/ \E k \in 1 .. Len(chan') : chan'[k] = v
      BY <2>1, InTailValue
    <3> QED BY <3>1
  <2> QED BY <2>2, <2>3
<1>2. Head(chan) = <<"text", x>> /\ x \in 1 .. MaxLines /\ x \in Nat
  <2>1. Head(chan) \in {"text"} \X (1 .. MaxLines)
    BY <1>1 DEF Chunks, Done, Error
  <2> QED BY <2>1
<1> HIDE DEF x
<1>3. /\ heard \in Seq(1 .. MaxLines) /\ Len(heard) \in Nat
      /\ Len(heard') = Len(heard) + 1 /\ heard'[Len(heard')] = x
      /\ \A k \in 1 .. Len(heard) : heard'[k] = heard[k]
  BY <1>a, <1>b, <1>2 DEF TypeOK
<1>4. \A k \in 1 .. Len(heard') : k = Len(heard') \/ k \in 1 .. Len(heard)
  BY <1>3
<1>5. \A k \in 1 .. Len(heard) : k \in 1 .. Len(heard')
  BY <1>3
<1>6. EndInv'
  <2>1. ASSUME NEW k \in 1 .. Len(chan'), chan'[k] \in Ends PROVE k = Len(chan') /\ pc' = "ended"
    <3>1. chan[k + 1] \in Ends /\ k + 1 \in 1 .. Len(chan)
      BY <1>1, <2>1
    <3>2. k + 1 = Len(chan) /\ pc = "ended"
      BY <1>a, <3>1 DEF EndInv
    <3>3. k = Len(chan')
      BY <1>1, <3>2
    <3> QED BY <1>b, <3>2, <3>3
  <2>2. (pc = "sending" => pending # NoChunk)'
    BY <1>a, <1>b DEF EndInv
  <2> QED BY <1>b, <2>1, <2>2 DEF EndInv
<1>7. /\ \A i : SaidLine(i)' <=> SaidLine(i)
      /\ \A i : Held(i)' <=> Held(i)
      /\ Stop' = Stop /\ (Ending' <=> Ending)
  BY <1>b DEF SaidLine, Held, Stop, Ending
<1>8. \A i : Queued(i) <=> i = x \/ Queued(i)'
  <2>1. \A i : <<"text", i>> = Head(chan) <=> i = x
    BY <1>2
  <2> QED BY <1>1, <2>1 DEF Queued
<1>9. \A i : Heard(i)' <=> Heard(i) \/ i = x
  <2>1. Len(heard') \in 1 .. Len(heard')
    BY <1>3
  <2> QED BY <1>3, <1>4, <1>5, <2>1 DEF Heard
<1>10. Over' => Over
  BY <1>b, <1>1 DEF Over
<1>11. FlowInv'
  <2>1. \A h \in 1 .. Taken' : ~Ending' => lines'[h] # Stop'
    BY <1>a, <1>b, <1>7 DEF FlowInv
  <2>2. Over' => \A i \in Nat : SaidLine(i)' => i <= Taken'
    BY <1>a, <1>7, <1>10 DEF FlowInv
  <2>3. \A i \in Nat : (Held(i) \/ Queued(i) \/ Heard(i) <=> SaidLine(i) /\ i <= Taken)'
    BY <1>a, <1>7, <1>8, <1>9 DEF FlowInv
  <2> QED BY <2>1, <2>2, <2>3 DEF FlowInv
<1>12. Queued(x)
  BY <1>8
<1>13. OrderInv'
  <2>1. \A j, k \in 1 .. Len(heard') : j < k => heard'[j] < heard'[k]
    <3>1. ASSUME NEW j \in 1 .. Len(heard'), NEW k \in 1 .. Len(heard'), j < k
          PROVE  heard'[j] < heard'[k]
      <4>1. j \in 1 .. Len(heard) /\ heard'[j] = heard[j]
        BY <1>3, <1>4, <3>1
      <4>2. CASE k \in 1 .. Len(heard)
        BY <1>a, <1>3, <3>1, <4>1, <4>2 DEF OrderInv
      <4>3. CASE k = Len(heard')
        <5>1. heard[j] \in Nat /\ Heard(heard[j])
          BY <1>3, <4>1, HeardNumber
        <5>2. heard[j] < x
          BY <1>a, <1>2, <1>12, <5>1 DEF OrderInv
        <5> QED BY <1>3, <4>1, <4>3, <5>2
      <4> QED BY <1>4, <4>2, <4>3
    <3> QED BY <3>1
  <2>2. \A j, k \in 1 .. Len(chan') : j < k /\ chan'[k][1] = "text" => chan'[j][2] < chan'[k][2]
    <3>1. ASSUME NEW j \in 1 .. Len(chan'), NEW k \in 1 .. Len(chan'), j < k, chan'[k][1] = "text"
          PROVE  chan'[j][2] < chan'[k][2]
      <4>1. j + 1 \in 1 .. Len(chan) /\ k + 1 \in 1 .. Len(chan) /\ j + 1 < k + 1
        BY <1>1, <3>1
      <4>2. chan'[j] = chan[j + 1] /\ chan'[k] = chan[k + 1]
        BY <1>1
      <4> QED BY <1>a, <3>1, <4>1, <4>2 DEF OrderInv
    <3> QED BY <3>1
  <2>3. \A k \in Nat : Queued(k)' => x < k
    <3>1. ASSUME NEW k \in Nat, Queued(k)' PROVE x < k
      <4>1. PICK j \in 1 .. Len(chan') : chan'[j] = <<"text", k>>
        BY <3>1 DEF Queued
      <4>2. chan[j + 1] = <<"text", k>> /\ j + 1 \in 1 .. Len(chan) /\ 1 \in 1 .. Len(chan) /\ 1 < j + 1
        BY <1>1, <4>1
      <4>3. chan[1][2] < chan[j + 1][2]
        BY <1>a, <4>2 DEF OrderInv
      <4> QED BY <1>1, <1>2, <4>2, <4>3
    <3> QED BY <3>1
  <2>4. \A i, k \in Nat : (Heard(i) /\ Queued(k) => i < k)'
    BY <1>a, <1>8, <1>9, <2>3 DEF OrderInv
  <2>5. \A i, k \in Nat : ((Heard(i) \/ Queued(i)) /\ Held(k) => i < k)'
    BY <1>a, <1>2, <1>7, <1>8, <1>9, <1>12 DEF OrderInv
  <2> QED BY <2>1, <2>2, <2>4, <2>5 DEF OrderInv
<1> QED BY <1>6, <1>11, <1>13 DEF StreamInv

\* An end leaves the channel empty.
LEMMA FinishStep ==
  ASSUME StreamInv, Collect, TypeOK', BufferInv', Taken' = Taken, Head(chan)[1] # "text"
  PROVE  StreamInv'
<1>a. TypeOK /\ EndInv /\ BufferInv /\ FlowInv /\ OrderInv
  BY DEF StreamInv
<1>b. /\ result = "pending" /\ chan # <<>> /\ chan' = Tail(chan)
      /\ result' = IF Head(chan) = Done THEN "ok" ELSE "error"
      /\ UNCHANGED <<api, lines, cut, arrived, buffer, pc, pending, heard>>
  BY DEF Collect
<1>1. /\ Len(chan') = Len(chan) - 1 /\ chan[1] = Head(chan) /\ Head(chan) \in Chunks
      /\ Len(chan) \in Nat \ {0} /\ chan' \in Seq(Chunks)
  BY <1>a, <1>b, InTail DEF TypeOK
<1>2. Head(chan) \in Ends
  BY <1>1, ChunkText DEF Ends
<1>3. Len(chan) = 1 /\ pc = "ended"
  <2>1. 1 \in 1 .. Len(chan) /\ chan[1] \in Ends
    BY <1>1, <1>2
  <2> QED BY <1>a, <2>1 DEF EndInv
<1>4. chan' = <<>> /\ Len(chan') = 0
  BY <1>1, <1>3
<1>5. EndInv'
  <2>1. pc' = "ended"
    BY <1>b, <1>3
  <2>2. \A k \in 1 .. Len(chan') : FALSE
    BY <1>4
  <2> QED BY <1>4, <2>1, <2>2 DEF EndInv
<1>6. /\ \A i : SaidLine(i)' <=> SaidLine(i)
      /\ \A i : Heard(i)' <=> Heard(i)
      /\ \A i : ~Held(i) /\ ~Held(i)'
      /\ \A i : ~Queued(i)'
      /\ Ending'
  BY <1>b, <1>3, <1>4 DEF SaidLine, Heard, Held, Queued, Stop, Ending
<1>7. \A i : ~Queued(i)
  <2>1. ASSUME NEW i, Queued(i) PROVE FALSE
    <3>1. chan[1] = <<"text", i>>
      BY <1>3, <2>1 DEF Queued
    <3> QED BY <1>1, <3>1
  <2> QED BY <2>1
<1>8. Over' => Over
  <2>1. 1 \in 1 .. Len(chan) /\ pc' # "sending"
    BY <1>b, <1>3
  <2>a. \A k \in 1 .. Len(chan') : FALSE
    BY <1>4
  <2>2. Over' => result' = "ok"
    BY <2>1, <2>a DEF Over
  <2>3. result' = "ok" => chan[1] = Done
    BY <1>b, <1>1
  <2> QED BY <2>1, <2>2, <2>3 DEF Over
<1>9. FlowInv'
  <2>1. Over' => \A i \in Nat : SaidLine(i)' => i <= Taken'
    BY <1>a, <1>6, <1>8 DEF FlowInv
  <2>2. \A i \in Nat : (Held(i) \/ Queued(i) \/ Heard(i) <=> SaidLine(i) /\ i <= Taken)'
    BY <1>a, <1>6, <1>7 DEF FlowInv
  <2> QED BY <1>6, <2>1, <2>2 DEF FlowInv
<1>10. OrderInv'
  BY <1>a, <1>b, <1>4, <1>6 DEF OrderInv
<1> QED BY <1>5, <1>9, <1>10 DEF StreamInv

LEMMA CollectStep == StreamInv /\ Collect => StreamInv'
<1> SUFFICES ASSUME StreamInv, Collect PROVE StreamInv'
  OBVIOUS
<1>1. TypeOK'
  BY CollectType DEF StreamInv
<1>2. UNCHANGED <<arrived, buffer, pc>>
  BY DEF Collect
<1>3. Taken' = Taken
  BY <1>2 DEF Taken
<1>4. BufferInv'
  BY <1>2, <1>3 DEF StreamInv, BufferInv
<1> QED BY <1>1, <1>3, <1>4, HearStep, FinishStep

LEMMA StreamStuttering == StreamInv /\ UNCHANGED vars => StreamInv'
<1> SUFFICES ASSUME StreamInv, UNCHANGED vars PROVE StreamInv'
  OBVIOUS
<1> USE DEF vars, StreamInv
<1>1. TypeOK' /\ EndInv'
  BY DEF TypeOK, EndInv
<1>2. BufferInv' /\ Taken' = Taken
  BY DEF BufferInv, Taken
<1>3. /\ \A i : SaidLine(i)' <=> SaidLine(i)
      /\ \A i : Heard(i)' <=> Heard(i)
      /\ \A i : Held(i)' <=> Held(i)
      /\ \A i : Queued(i)' <=> Queued(i)
      /\ Stop' = Stop /\ (Ending' <=> Ending) /\ (Over' <=> Over)
  BY DEF SaidLine, Heard, Held, Queued, Stop, Ending, Over
<1>4. FlowInv'
  BY <1>2, <1>3 DEF FlowInv
<1>5. OrderInv'
  BY <1>3 DEF OrderInv
<1> QED BY <1>1, <1>2, <1>4, <1>5

LEMMA StreamInductive == Spec => []StreamInv
<1>1. StreamInv /\ [Next]_vars => StreamInv'
  BY RequestStep, ReceiveStep, EndOfBodyStep, NextLineStep, SendStep, CollectStep, StreamStuttering
     DEF Next, Reader
<1> QED BY <1>1, StreamInit, PTL DEF Spec

-----------------------------------------------------------------------------
\* Every variable keeps its type; the channel never holds more than it may.
THEOREM TypeCorrect == Spec => []TypeOK
<1>1. StreamInv => TypeOK
  BY DEF StreamInv
<1> QED BY <1>1, StreamInductive, PTL

\* Nothing follows a chunk that ends the answer (provider/mod.rs).
THEOREM EndsAreLast == Spec => []NothingAfterTheEnd
<1>1. StreamInv => NothingAfterTheEnd
  <2>1. ASSUME EndInv, TypeOK PROVE NothingAfterTheEnd
    <3>1. chan = <<>> => \A k \in 1 .. Len(chan) : FALSE
      OBVIOUS
    <3> QED BY <2>1, <3>1 DEF EndInv, NothingAfterTheEnd, Ends
  <2> QED BY <2>1 DEF StreamInv
<1> QED BY <1>1, StreamInductive, PTL

\* However the network cuts the body, the caller hears the texts that arrived
\* in whole lines, once and in order, and all of them when it is told that the
\* answer is complete (provider/mod.rs, agent/stream.rs).
THEOREM CallerHearsWhatArrived == Spec => []HeardIsSaid
<1>1. StreamInv => HeardIsSaid
  <2> SUFFICES ASSUME StreamInv PROVE HeardIsSaid
    OBVIOUS
  <2>a. TypeOK /\ EndInv /\ FlowInv /\ OrderInv
    BY DEF StreamInv
  <2>1. heard \in Seq(1 .. MaxLines) /\ Len(heard) \in Nat
    BY <2>a DEF TypeOK
  <2>2. \A k \in 1 .. Len(heard) : heard[k] \in Nat /\ Heard(heard[k])
    BY <2>1, HeardNumber
  <2>3. \A k \in 1 .. Len(heard) : SaidLine(heard[k]) /\ heard[k] <= Taken
    BY <2>a, <2>2 DEF FlowInv
  <2>4. ASSUME NEW i \in 1 .. Len(lines), NEW k \in 1 .. Len(heard), SaidLine(i), i < heard[k]
        PROVE  \E j \in 1 .. k : heard[j] = i
    <3>1. i \in Nat /\ i <= Taken
      BY <2>2, <2>3, <2>4, BufferNumbers DEF StreamInv
    <3>2. Held(i) \/ Queued(i) \/ Heard(i)
      BY <2>a, <2>4, <3>1 DEF FlowInv
    <3>3. heard[k] \in Nat /\ Heard(heard[k]) /\ ~ (heard[k] < i)
      BY <2>2, <2>4, <3>1
    <3>4. Heard(i)
      BY <2>a, <3>1, <3>2, <3>3 DEF OrderInv
    <3>5. PICK j \in 1 .. Len(heard) : heard[j] = i
      BY <3>4 DEF Heard
    <3>6. ~ (k < j)
      BY <2>a, <2>4, <3>1, <3>3, <3>5 DEF OrderInv
    <3>7. j \in 1 .. k
      BY <2>1, <3>6
    <3> QED BY <3>5, <3>7
  <2>5. ASSUME result = "ok", NEW i \in 1 .. Len(lines), SaidLine(i) PROVE Heard(i)
    <3>1. i \in Nat /\ Over
      BY <2>5 DEF Over
    <3>2. i <= Taken
      BY <2>a, <2>5, <3>1 DEF FlowInv
    <3>3. Held(i) \/ Queued(i) \/ Heard(i)
      BY <2>a, <2>5, <3>1, <3>2 DEF FlowInv
    <3>4. pc = "ended" /\ chan = <<>>
      BY <2>a, <2>5 DEF EndInv
    <3>5. ~Held(i) /\ ~Queued(i)
      BY <3>4 DEF Held, Queued
    <3> QED BY <3>3, <3>5
  <2> QED BY <2>a, <2>3, <2>4, <2>5 DEF HeardIsSaid, OrderInv
<1> QED BY <1>1, StreamInductive, PTL
=============================================================================
