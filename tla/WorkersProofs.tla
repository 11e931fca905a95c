---------------------------- MODULE WorkersProofs ----------------------------
(***************************************************************************)
(* Theorems about Workers, for any number of steps and iterations and any    *)
(* number of recent messages kept: what a model is sent is a sound dialog.    *)
(***************************************************************************)
EXTENDS Workers, SequenceTheorems, FiniteSetTheorems, WellFoundedInduction, NaturalsInduction,
        TLAPS

-----------------------------------------------------------------------------
(* The context as a sequence: what an append and a compression keep.         *)

Messages == [role : {"user", "assistant"}, about : SUBSET Nat]
Contexts == Seq(Messages)

RoleAt(k) == IF k % 2 = 1 THEN "user" ELSE "assistant"
Alternates(c) == \A k \in 1 .. Len(c) : c[k].role = RoleAt(k)

Single(m) == \E n \in Nat : m.about = {n}

\* Only the third message is a summary, and then as many follow as are kept.
Plain(c) ==
  \A k \in 1 .. Len(c) : (k = 3 /\ Len(c) >= 3 + KeepRecent) \/ Single(c[k])

\* The messages are about all the steps up to n, and no others.
Covers(c, n) ==
  /\ \A k \in 1 .. Len(c) : c[k].about \subseteq 0 .. n
  /\ \A i \in 0 .. n : \E k \in 1 .. Len(c) : i \in c[k].about

Sound(c, n) == c \in Contexts /\ Alternates(c) /\ Plain(c) /\ Covers(c, n)

LEMMA Appending ==
  ASSUME NEW R, NEW s \in Seq(R), NEW m \in R, NEW d, d = Append(s, m)
  PROVE  /\ d \in Seq(R) /\ Len(d) = Len(s) + 1 /\ d[Len(s) + 1] = m /\ Len(s) \in Nat
         /\ \A k \in 1 .. Len(s) : d[k] = s[k]
OBVIOUS

\* A message in the place of the elements 3 .. e.
Spliced(c, e, m) == (SubSeq(c, 1, 2) \o <<m>>) \o SubSeq(c, e + 1, Len(c))

IsSpliced(d, c, N, e, m) ==
  /\ d \in Contexts /\ Len(d) = 3 + (N - e)
  /\ d[1] = c[1] /\ d[2] = c[2] /\ d[3] = m
  /\ \A k \in 1 .. N - e : d[3 + k] = c[e + k]

LEMMA Splicing ==
  ASSUME NEW c \in Contexts, NEW N \in Nat, N = Len(c), NEW e \in Nat, 3 <= e, e < N,
         NEW m \in Messages
  PROVE  IsSpliced(Spliced(c, e, m), c, N, e, m)
<1> DEFINE d == Spliced(c, e, m)
<1> DEFINE front == SubSeq(c, 1, 2)
<1> DEFINE back == SubSeq(c, e + 1, N)
<1> DEFINE head == front \o <<m>>
<1>1. N \in Nat /\ N >= 4 /\ c \in Seq(Messages) /\ \A k \in 1 .. N : c[k] \in Messages
  BY ElementOfSeq DEF Contexts
<1>2. front \in Seq(Messages) /\ Len(front) = 2 /\ front[1] = c[1] /\ front[2] = c[2]
  BY <1>1
<1>3. /\ back \in Seq(Messages) /\ Len(back) = N - e
      /\ \A k \in 1 .. N - e : back[k] = c[e + k]
  BY <1>1
<1>4. <<m>> \in Seq(Messages) /\ Len(<<m>>) = 1 /\ <<m>>[1] = m
  OBVIOUS
<1> HIDE DEF front, back
<1>5. head \in Seq(Messages) /\ Len(head) = 3 /\ head[1] = c[1] /\ head[2] = c[2] /\ head[3] = m
  <2>1. /\ head \in Seq(Messages) /\ Len(head) = Len(front) + Len(<<m>>)
        /\ \A k \in 1 .. Len(front) + Len(<<m>>) :
             head[k] = IF k <= Len(front) THEN front[k] ELSE <<m>>[k - Len(front)]
    BY <1>2, <1>4, ConcatProperties, Zenon
  <2>2. Len(head) = 3 /\ \A k \in 1 .. 3 : head[k] = IF k <= 2 THEN front[k] ELSE <<m>>[k - 2]
    BY <1>2, <1>4, <2>1
  <2>3. head[1] = front[1] /\ head[2] = front[2] /\ head[3] = <<m>>[1]
    BY <2>2
  <2> QED BY <1>2, <1>4, <2>1, <2>2, <2>3
<1>6. d = head \o back
  BY DEF front, back, Spliced
<1> HIDE DEF head, back, d
<1>7. /\ d \in Seq(Messages) /\ Len(d) = 3 + (N - e)
      /\ \A k \in 1 .. 3 : d[k] = head[k]
      /\ \A k \in 1 .. N - e : d[3 + k] = back[k]
  <2>1. /\ head \o back \in Seq(Messages) /\ Len(head \o back) = Len(head) + Len(back)
        /\ \A k \in 1 .. Len(head) + Len(back) :
             (head \o back)[k] = IF k <= Len(head) THEN head[k] ELSE back[k - Len(head)]
    BY <1>3, <1>5, ConcatProperties, Zenon
  <2>2. /\ d \in Seq(Messages) /\ Len(d) = 3 + (N - e)
        /\ \A k \in 1 .. 3 + (N - e) : d[k] = IF k <= 3 THEN head[k] ELSE back[k - 3]
    BY <1>3, <1>5, <1>6, <2>1
  <2>3. ASSUME NEW k \in 1 .. N - e PROVE d[3 + k] = back[k]
    <3>1. 3 + k \in 1 .. 3 + (N - e) /\ ~ (3 + k <= 3) /\ (3 + k) - 3 = k
      BY <1>1
    <3> QED BY <2>2, <3>1
  <2>4. ASSUME NEW k \in 1 .. 3 PROVE d[k] = head[k]
    <3>1. k \in 1 .. 3 + (N - e) /\ k <= 3
      BY <1>1
    <3> QED BY <2>2, <3>1
  <2> QED BY <2>2, <2>3, <2>4
<1>8. IsSpliced(d, c, N, e, m)
  <2>1. d \in Contexts /\ Len(d) = 3 + (N - e)
    BY <1>7 DEF Contexts
  <2>2. 1 \in 1 .. 3 /\ 2 \in 1 .. 3 /\ 3 \in 1 .. 3
    OBVIOUS
  <2>3. d[1] = c[1] /\ d[2] = c[2] /\ d[3] = m
    BY <1>5, <1>7, <2>2
  <2>4. \A k \in 1 .. N - e : d[3 + k] = c[e + k]
    BY <1>3, <1>7, Zenon
  <2> QED BY <2>1, <2>3, <2>4 DEF IsSpliced
<1> QED BY <1>8 DEF d

\* The last message compressed is an odd one, and as many stay as are kept.
LEMMA EndIsOdd ==
  ASSUME NEW N \in Nat, N % 2 = 1, NEW r \in Nat \ {0}, N - 2 > r + 2,
         NEW e, e = IF ((N - r) - 2) % 2 = 0 THEN (N - r) - 1 ELSE N - r
  PROVE  e \in Nat /\ e >= 4 /\ e < N /\ N - e >= r /\ e % 2 = 1
OBVIOUS

LEMMA AppendedIsSound ==
  ASSUME NEW c, NEW n \in Nat, Sound(c, n) \/ (n > 0 /\ Sound(c, n - 1)),
         NEW d, d = Append(c, About(RoleAt(Len(c) + 1), {n}))
  PROVE  Sound(d, n) /\ Len(d) = Len(c) + 1 /\ \A k \in 1 .. Len(c) : d[k] = c[k]
<1> DEFINE last == Len(c) + 1
<1> DEFINE m == About(RoleAt(last), {n})
<1>1. c \in Contexts /\ Alternates(c) /\ Plain(c)
  BY DEF Sound
<1>2. m \in Messages /\ m.role = RoleAt(last) /\ m.about = {n}
  BY DEF About, RoleAt, Messages
<1> HIDE DEF m
<1>3. /\ d \in Contexts /\ Len(d) = last /\ d[last] = m /\ Len(c) \in Nat
      /\ \A k \in 1 .. Len(c) : d[k] = c[k]
  <2>1. d = Append(c, m)
    BY DEF m
  <2>2. c \in Seq(Messages) /\ m \in Messages
    BY <1>1, <1>2 DEF Contexts
  <2>3. /\ d \in Seq(Messages) /\ Len(d) = Len(c) + 1 /\ d[Len(c) + 1] = m /\ Len(c) \in Nat
        /\ \A k \in 1 .. Len(c) : d[k] = c[k]
    BY <2>1, <2>2, Appending
  <2> QED BY <2>3 DEF Contexts
<1>4. /\ \A k \in 1 .. Len(d) : k \in 1 .. Len(c) \/ k = last
      /\ \A k \in 1 .. Len(c) : k \in 1 .. Len(d)
      /\ last \in 1 .. Len(d)
  BY <1>3
<1>5. Alternates(d)
  BY <1>1, <1>2, <1>3, <1>4 DEF Alternates
<1>6. Plain(d)
  <2>1. Len(c) >= 3 + KeepRecent => Len(d) >= 3 + KeepRecent
    BY <1>3, WorkersAssumption
  <2>2. Single(m)
    BY <1>2 DEF Single
  <2> QED BY <1>1, <1>3, <1>4, <2>1, <2>2 DEF Plain
<1>7. Covers(d, n)
  <2>1. /\ \A k \in 1 .. Len(c) : c[k].about \subseteq 0 .. n
        /\ \A i \in 0 .. n : i = n \/ \E k \in 1 .. Len(c) : i \in c[k].about
    <3>1. CASE Covers(c, n)
      BY <3>1 DEF Covers
    <3>2. CASE n > 0 /\ Covers(c, n - 1)
      <4>1. 0 .. n - 1 \subseteq 0 .. n /\ \A i \in 0 .. n : i = n \/ i \in 0 .. n - 1
        BY <3>2
      <4> QED BY <3>2, <4>1 DEF Covers
    <3> QED BY <3>1, <3>2 DEF Sound
  <2>2. {n} \subseteq 0 .. n
    OBVIOUS
  <2>3. \A k \in 1 .. Len(d) : d[k].about \subseteq 0 .. n
    BY <1>2, <1>3, <1>4, <2>1, <2>2
  <2>4. \A i \in 0 .. n : \E k \in 1 .. Len(d) : i \in d[k].about
    BY <1>2, <1>3, <1>4, <2>1
  <2> QED BY <2>3, <2>4 DEF Covers
<1> QED BY <1>3, <1>5, <1>6, <1>7 DEF Sound

\* Of N messages, those up to e are compressed; what is left behind them.
Cuts(N, e) ==
  N % 2 = 1 /\ e >= 4 /\ e < N /\ N - e >= KeepRecent /\ e % 2 = 1

IsSummary(m, c, e) ==
  m.role = "user" /\ \A i : i \in m.about <=> \E k \in 3 .. e : i \in c[k].about

\* The summary takes the place of the messages 3 .. e.
LEMMA CompressedIsSound ==
  ASSUME NEW c, NEW n \in Nat, Sound(c, n), NEW N \in Nat, N = Len(c),
         NEW e \in Nat, Cuts(N, e), NEW m, IsSummary(m, c, e),
         NEW d, IsSpliced(d, c, N, e, m)
  PROVE  Sound(d, n) /\ Len(d) \in Nat /\ Len(d) >= 3 /\ Len(d) % 2 = 1
<1> USE DEF Cuts, IsSummary, IsSpliced
<1>1. Alternates(c) /\ Plain(c) /\ Covers(c, n)
  BY DEF Sound
<1>2. KeepRecent \in Nat
  BY WorkersAssumption
\* The places of the new context, and those of the old.
<1>3. \A k \in 1 .. Len(d) : k = 1 \/ k = 2 \/ k = 3 \/ \E j \in 1 .. N - e : k = 3 + j
  <2>1. ASSUME NEW k \in 1 .. Len(d), k > 3 PROVE k - 3 \in 1 .. N - e /\ k = 3 + (k - 3)
    BY <1>2, <2>1
  <2> QED BY <2>1
<1>4. \A k \in 1 .. N : k = 1 \/ k = 2 \/ k \in 3 .. e \/ \E j \in 1 .. N - e : k = e + j
  <2>1. ASSUME NEW k \in 1 .. N, k > e PROVE k - e \in 1 .. N - e /\ k = e + (k - e)
    BY <2>1
  <2>2. ASSUME NEW k \in 1 .. N, ~ (k > e) PROVE k = 1 \/ k = 2 \/ k \in 3 .. e
    BY <2>2
  <2> QED BY <2>1, <2>2
<1>5. /\ 1 \in 1 .. Len(d) /\ 2 \in 1 .. Len(d) /\ 3 \in 1 .. Len(d)
       /\ \A j \in 1 .. N - e : 3 + j \in 1 .. Len(d) /\ e + j \in 1 .. N
       /\ 1 \in 1 .. N /\ 2 \in 1 .. N
  BY <1>2
<1>6. Alternates(d)
  <2>1. \A j \in 1 .. N - e : RoleAt(3 + j) = RoleAt(e + j)
    <3>1. ASSUME NEW j \in 1 .. N - e PROVE (3 + j) % 2 = (e + j) % 2
      BY <1>2, <3>1
    <3> QED BY <3>1 DEF RoleAt
  <2>2. RoleAt(3) = "user"
    BY DEF RoleAt
  <2>3. ASSUME NEW k \in 1 .. Len(d) PROVE d[k].role = RoleAt(k)
    <3>1. CASE k = 1 \/ k = 2
      BY <1>1, <1>5, <3>1 DEF Alternates
    <3>2. CASE k = 3
      BY <2>2, <3>2
    <3>3. CASE \E j \in 1 .. N - e : k = 3 + j
      BY <1>1, <1>5, <2>1, <3>3 DEF Alternates
    <3> QED BY <1>3, <3>1, <3>2, <3>3
  <2> QED BY <2>3 DEF Alternates
<1>7. Plain(d)
  <2>1. Len(d) >= 3 + KeepRecent
    BY <1>2
  <2>2. \A j \in 1 .. N - e : e + j # 3
    BY <1>2
  <2>3. \A k \in 1 .. N : k # 3 => Single(c[k])
    BY <1>1 DEF Plain
  <2>4. ASSUME NEW k \in 1 .. Len(d), k # 3 PROVE Single(d[k])
    <3>1. CASE k = 1 \/ k = 2
      BY <1>5, <2>3, <3>1
    <3>2. CASE \E j \in 1 .. N - e : k = 3 + j
      BY <1>5, <2>2, <2>3, <3>2
    <3> QED BY <1>3, <2>4, <3>1, <3>2
  <2> QED BY <2>1, <2>4 DEF Plain
<1>8. Covers(d, n)
  <2>0. \A k \in 1 .. N : c[k].about \subseteq 0 .. n
    BY <1>1 DEF Covers
  <2>1. \A k \in 3 .. e : k \in 1 .. N
    BY <1>2
  <2>2. m.about \subseteq 0 .. n
    BY <1>1, <2>1 DEF Covers
  <2>3. \A k \in 1 .. Len(d) : d[k].about \subseteq 0 .. n
    <3>1. ASSUME NEW k \in 1 .. Len(d) PROVE d[k].about \subseteq 0 .. n
      <4>1. CASE k = 1 \/ k = 2
        <5>1. d[1].about \subseteq 0 .. n /\ d[2].about \subseteq 0 .. n
          BY <1>5, <2>0
        <5> QED BY <4>1, <5>1
      <4>2. CASE k = 3
        BY <2>2, <4>2
      <4>3. CASE \E j \in 1 .. N - e : k = 3 + j
        BY <1>5, <2>0, <4>3
      <4> QED BY <1>3, <4>1, <4>2, <4>3
    <3> QED BY <3>1
  <2>4. ASSUME NEW i \in 0 .. n PROVE \E k \in 1 .. Len(d) : i \in d[k].about
    <3>1. PICK k \in 1 .. N : i \in c[k].about
      BY <1>1 DEF Covers
    <3>2. CASE k \in 3 .. e
      <4>1. i \in m.about
        BY <3>1, <3>2
      <4> QED BY <1>5, <4>1
    <3>3. CASE k = 1 \/ k = 2
      BY <1>5, <3>1, <3>3
    <3>4. CASE \E j \in 1 .. N - e : k = e + j
      BY <1>5, <3>1, <3>4
    <3> QED BY <1>4, <3>2, <3>3, <3>4
  <2> QED BY <2>3, <2>4 DEF Covers
<1>9. Len(d) \in Nat /\ Len(d) >= 3 /\ Len(d) % 2 = 1
  BY <1>2
<1> QED BY <1>6, <1>7, <1>8, <1>9 DEF Sound
-----------------------------------------------------------------------------
(* What the context is before a call, behind an answer and behind feedback.  *)

Pins(c, n) ==
  /\ Len(c) >= 1 /\ c[1] = About("user", {0})
  /\ n > 1 => Len(c) >= 2 /\ c[2] = About("assistant", {1})

Asks(c, n) == Sound(c, n - 1) /\ Pins(c, n) /\ Len(c) % 2 = 1 /\ (n = 1 => Len(c) = 1)
Answers(c, n) == Sound(c, n) /\ Pins(c, 2) /\ Len(c) % 2 = 0
Feeds(c, n) == Sound(c, n) /\ Pins(c, 2) /\ Len(c) % 2 = 1

LEMMA SoundHasLength ==
  ASSUME NEW c, NEW n, Sound(c, n) PROVE Len(c) \in Nat
BY DEF Sound, Contexts

LEMMA TaskIsAsked == Asks(<<About("user", {0})>>, 1)
<1> DEFINE c == <<About("user", {0})>>
<1>1. c \in Contexts /\ Len(c) = 1 /\ c[1] = About("user", {0})
  <2>1. About("user", {0}) \in Messages
    BY DEF About, Messages
  <2> QED BY <2>1 DEF Contexts
<1>2. About("user", {0}).role = "user" /\ About("user", {0}).about = {0}
  BY DEF About
<1> HIDE DEF c
<1>3. \A k \in 1 .. Len(c) : k = 1
  BY <1>1
<1>4. Alternates(c)
  BY <1>1, <1>2, <1>3 DEF Alternates, RoleAt
<1>5. Plain(c)
  BY <1>1, <1>2, <1>3 DEF Plain, Single
<1>6. Covers(c, 0)
  <2>1. {0} \subseteq 0 .. 0 /\ \A i \in 0 .. 0 : i \in {0}
    OBVIOUS
  <2>2. 1 \in 1 .. Len(c)
    BY <1>1
  <2> QED BY <1>1, <1>2, <1>3, <2>1, <2>2 DEF Covers
<1>7. Asks(c, 1)
  BY <1>1, <1>4, <1>5, <1>6 DEF Asks, Sound, Pins
<1> QED BY <1>7 DEF c

LEMMA AskIsAnswered ==
  ASSUME NEW c, NEW n \in Nat, n > 0, Asks(c, n)
  PROVE  Answers(Append(c, About("assistant", {n})), n)
<1> DEFINE d == Append(c, About("assistant", {n}))
<1>1. Sound(c, n - 1) /\ Len(c) \in Nat
  BY SoundHasLength DEF Asks
<1>2. RoleAt(Len(c) + 1) = "assistant"
  BY <1>1 DEF Asks, RoleAt
<1>3. Sound(d, n) /\ Len(d) = Len(c) + 1 /\ \A k \in 1 .. Len(c) : d[k] = c[k]
  BY <1>1, <1>2, AppendedIsSound
<1>4. n = 1 => d[2] = About("assistant", {1})
  <2>1. ASSUME n = 1 PROVE d = Append(c, About("assistant", {1})) /\ Len(c) = 1 /\ c \in Contexts
    BY <2>1, <1>1 DEF Asks, Sound
  <2>2. About("assistant", {1}) \in Messages
    BY DEF About, Messages
  <2> HIDE DEF d
  <2> QED BY <2>1, <2>2, Appending DEF Contexts
<1> HIDE DEF d
<1>5. Pins(d, 2) /\ Len(d) % 2 = 0
  <2>1. n = 1 \/ n > 1
    OBVIOUS
  <2>2. Len(c) >= 1 /\ Len(c) % 2 = 1 /\ c[1] = About("user", {0})
    BY DEF Asks, Pins
  <2>3. d[1] = c[1] /\ Len(d) >= 2 /\ Len(d) % 2 = 0
    BY <1>1, <1>3, <2>2
  <2>4. n > 1 => d[2] = About("assistant", {1})
    BY <1>1, <1>3 DEF Asks, Pins
  <2> QED BY <1>4, <2>1, <2>2, <2>3, <2>4 DEF Pins
<1> QED BY <1>3, <1>5 DEF Answers, d

LEMMA AnswerIsFedBack ==
  ASSUME NEW c, NEW n \in Nat, Answers(c, n)
  PROVE  Feeds(Append(c, About("user", {n})), n)
<1> DEFINE d == Append(c, About("user", {n}))
<1>1. Sound(c, n) /\ Len(c) \in Nat
  BY SoundHasLength DEF Answers
<1>2. RoleAt(Len(c) + 1) = "user"
  BY <1>1 DEF Answers, RoleAt
<1>3. Sound(d, n) /\ Len(d) = Len(c) + 1 /\ \A k \in 1 .. Len(c) : d[k] = c[k]
  BY <1>1, <1>2, AppendedIsSound
<1> HIDE DEF d
<1>4. Pins(d, 2) /\ Len(d) % 2 = 1
  BY <1>1, <1>3 DEF Answers, Pins
<1> QED BY <1>3, <1>4 DEF Feeds, d

LEMMA FeedbackIsAsked ==
  ASSUME NEW c, NEW n \in Nat, n > 0, Feeds(c, n)
  PROVE  Asks(c, n + 1)
<1>1. (n + 1) - 1 = n /\ n + 1 > 1 /\ n + 1 # 1
  OBVIOUS
<1> QED BY <1>1 DEF Feeds, Asks, Pins

Summary(c, e) == About("user", UNION {c[k].about : k \in 3 .. e})

LEMMA CompressedIsFedBack ==
  ASSUME NEW c, NEW n \in Nat, Feeds(c, n), NEW N \in Nat, N = Len(c),
         NEW e \in Nat, Cuts(N, e), NEW m, m = Summary(c, e), NEW d, d = Spliced(c, e, m)
  PROVE  Feeds(d, n)
<1>1. Sound(c, n) /\ Pins(c, 2) /\ c \in Contexts
  BY DEF Feeds, Sound
<1>2. 3 <= e /\ e < N
  BY DEF Cuts
<1>3. IsSummary(m, c, e)
  BY DEF About, Summary, IsSummary
<1>4. m \in Messages
  <2>1. \A k \in 3 .. e : k \in 1 .. Len(c)
    BY <1>2
  <2>2. \A k \in 1 .. Len(c) : c[k] \in Messages
    BY <1>1, ElementOfSeq DEF Contexts
  <2>3. \A k \in 3 .. e : c[k].about \subseteq Nat
    BY <2>1, <2>2 DEF Messages
  <2>4. UNION {c[k].about : k \in 3 .. e} \subseteq Nat
    BY <2>3
  <2> QED BY <2>4 DEF About, Summary, Messages
<1>5. IsSpliced(d, c, N, e, m)
  BY <1>1, <1>2, <1>4, Splicing
<1>6. Sound(d, n) /\ Len(d) \in Nat /\ Len(d) >= 3 /\ Len(d) % 2 = 1
  BY <1>1, <1>3, <1>5, CompressedIsSound
<1>7. Pins(d, 2)
  BY <1>1, <1>5, <1>6 DEF Pins, IsSpliced
<1> QED BY <1>6, <1>7 DEF Feeds
-----------------------------------------------------------------------------
(* The dialog of a code task.                                                *)

Turns(s) == \A k \in 1 .. Len(s) - 1 : s[k].role = s[k + 1].role => s[k].says = "verdict"

CodeMessages == [role : {"user", "assistant"}, says : Sayings]

\* A model may be asked: the last word is the user's, or a rejection.
MayAsk(s) == s # <<>> /\ (s[Len(s)].role = "user" \/ s[Len(s)].says = "verdict")

DialogInv ==
  /\ dialog \in Seq(CodeMessages) /\ Turns(dialog)
  /\ codePc \in {"call", "install", "extract", "run"} => MayAsk(dialog)
  /\ codePc = "verify" => dialog # <<>> /\ dialog[Len(dialog)].role = "user"

LEMMA SayingMore ==
  ASSUME NEW s \in Seq(CodeMessages), Turns(s), NEW m \in CodeMessages,
         s # <<>> => s[Len(s)].role # m.role \/ s[Len(s)].says = "verdict"
  PROVE  /\ Append(s, m) \in Seq(CodeMessages) /\ Turns(Append(s, m)) /\ Append(s, m) # <<>>
         /\ Append(s, m)[Len(Append(s, m))] = m
<1> DEFINE d == Append(s, m)
<1>1. d = Append(s, m)
  OBVIOUS
<1> HIDE DEF d
<1>2. /\ d \in Seq(CodeMessages) /\ Len(d) = Len(s) + 1 /\ d[Len(s) + 1] = m /\ Len(s) \in Nat
      /\ \A k \in 1 .. Len(s) : d[k] = s[k]
  BY <1>1, Appending
<1>3. d # <<>> /\ d[Len(d)] = m
  BY <1>2
<1>4. ASSUME NEW k \in 1 .. Len(d) - 1, d[k].role = d[k + 1].role
      PROVE  d[k].says = "verdict"
  <2>1. k \in 1 .. Len(s)
    BY <1>2
  <2>2. CASE k = Len(s)
    <3>1. s # <<>> /\ d[k] = s[Len(s)] /\ d[k + 1] = m
      BY <1>2, <2>1, <2>2
    <3> QED BY <1>4, <3>1
  <2>3. CASE k # Len(s)
    <3>1. k \in 1 .. Len(s) - 1 /\ k + 1 \in 1 .. Len(s)
      BY <1>2, <2>1, <2>3
    <3> QED BY <1>2, <1>4, <2>1, <3>1 DEF Turns
  <2> QED BY <2>2, <2>3
<1>5. Turns(d)
  BY <1>4 DEF Turns
<1> QED BY <1>2, <1>3, <1>5 DEF d

\* A script and what is said about it.
LEMMA SayingTwice ==
  ASSUME NEW s \in Seq(CodeMessages), Turns(s), MayAsk(s), NEW says \in Sayings,
         NEW d, d = s \o <<Message("assistant", "script"), Message("user", says)>>
  PROVE  d \in Seq(CodeMessages) /\ Turns(d) /\ MayAsk(d) /\ d[Len(d)].role = "user"
<1> DEFINE a == Message("assistant", "script")
<1> DEFINE b == Message("user", says)
<1>1. /\ a \in CodeMessages /\ a.role = "assistant"
      /\ b \in CodeMessages /\ b.role = "user"
  BY DEF Message, CodeMessages, Sayings
<1>2. d = s \o <<a, b>>
  OBVIOUS
<1> HIDE DEF a, b
<1>3. d = Append(Append(s, a), b)
  BY <1>1, <1>2
<1> DEFINE c == Append(s, a)
<1>4. c \in Seq(CodeMessages) /\ Turns(c) /\ c[Len(c)] = a
  <2>1. s # <<>> => s[Len(s)].role # a.role \/ s[Len(s)].says = "verdict"
    BY <1>1 DEF MayAsk
  <2> QED BY <1>1, <2>1, SayingMore
<1>5. d = Append(c, b)
  BY <1>3
<1> HIDE DEF c
<1>6. Append(c, b) \in Seq(CodeMessages) /\ Turns(Append(c, b)) /\ Append(c, b) # <<>>
      /\ Append(c, b)[Len(Append(c, b))] = b
  <2>1. c # <<>> => c[Len(c)].role # b.role \/ c[Len(c)].says = "verdict"
    BY <1>1, <1>4
  <2> QED BY <1>1, <1>4, <2>1, SayingMore
<1> QED BY <1>1, <1>5, <1>6 DEF MayAsk

LEMMA DialogBegins ==
  ASSUME NEW v, StartCode(v)
  PROVE  DialogInv'
<1> DEFINE m == Message("user", "task")
<1>1. m \in CodeMessages /\ m.role = "user"
  BY DEF Message, CodeMessages, Sayings
<1>2. dialog' = <<m>> /\ codePc' # "verify"
  BY DEF StartCode, Begin, Return
<1> HIDE DEF m
<1>3. dialog' \in Seq(CodeMessages) /\ Len(dialog') = 1 /\ dialog'[1] = m /\ dialog' # <<>>
  BY <1>1, <1>2
<1>4. Turns(dialog)'
  BY <1>3 DEF Turns
<1>5. MayAsk(dialog)'
  BY <1>1, <1>3 DEF MayAsk
<1> QED BY <1>2, <1>3, <1>4, <1>5 DEF DialogInv

LEMMA DialogGoesOn ==
  ASSUME DialogInv, CodeStep
  PROVE  DialogInv'
<1>1. dialog \in Seq(CodeMessages) /\ Turns(dialog)
  BY DEF DialogInv
<1>2. ASSUME codePc \in {"call", "install", "extract", "run"}, UNCHANGED dialog,
             codePc' \in {"install", "extract", "run", "done"}
      PROVE  DialogInv'
  BY <1>2 DEF DialogInv, Turns, MayAsk
<1>3. ASSUME codePc \in {"install", "extract", "run"}, Retry
      PROVE  DialogInv'
  <2>1. dialog' = dialog \o <<Message("assistant", "script"), Message("user", "error")>>
    BY <1>3 DEF Retry
  <2>2. codePc' \in {"done", "call"}
    BY <1>3 DEF Retry, Again, Return
  <2>3. MayAsk(dialog) /\ "error" \in Sayings
    BY <1>3 DEF DialogInv, Sayings
  <2>4. dialog' \in Seq(CodeMessages) /\ Turns(dialog') /\ MayAsk(dialog')
    BY <1>1, <2>1, <2>3, SayingTwice
  <2> QED BY <2>2, <2>4 DEF DialogInv
<1>4. CASE CallModel
  BY <1>2, <1>4 DEF CallModel, Goto, Fail, Return
<1>5. CASE Install
  BY <1>2, <1>3, <1>5 DEF Install, Goto, Fail, Return
<1>6. CASE Extract
  BY <1>2, <1>3, <1>6 DEF Extract, Goto, Fail, Return
<1>7. CASE Execute
  <2>1. CASE AskToVerify
    <3>1. dialog' = dialog \o <<Message("assistant", "script"), Message("user", "verify")>>
      BY <2>1 DEF AskToVerify
    <3>2. codePc' = "verify"
      BY <2>1 DEF AskToVerify
    <3>3. MayAsk(dialog) /\ "verify" \in Sayings
      BY <1>7 DEF Execute, DialogInv, Sayings
    <3>4. dialog' \in Seq(CodeMessages) /\ Turns(dialog') /\ MayAsk(dialog')
          /\ dialog'[Len(dialog')].role = "user"
      BY <1>1, <3>1, <3>3, SayingTwice
    <3> QED BY <3>2, <3>4 DEF DialogInv, MayAsk
  <2>2. CASE Retry
    BY <1>3, <1>7, <2>2 DEF Execute
  <2>3. CASE Succeed \/ Fail
    BY <1>2, <1>7, <2>3 DEF Execute, Succeed, Fail, Return
  <2> QED BY <1>7, <2>1, <2>2, <2>3 DEF Execute
<1>8. CASE Verify
  <2>1. CASE Succeed
    BY <2>1 DEF Succeed, Return, DialogInv, Turns
  <2>2. CASE dialog' = Append(dialog, Message("assistant", "verdict")) /\ Again
    <3> DEFINE m == Message("assistant", "verdict")
    <3>1. m \in CodeMessages /\ m.role = "assistant" /\ m.says = "verdict"
      BY DEF Message, CodeMessages, Sayings
    <3>2. dialog # <<>> /\ dialog[Len(dialog)].role = "user"
      BY <1>8 DEF Verify, DialogInv
    <3>3. dialog' = Append(dialog, m)
      BY <2>2
    <3>4. codePc' \in {"done", "call"}
      BY <2>2 DEF Again, Return
    <3> HIDE DEF m
    <3>5. /\ dialog' \in Seq(CodeMessages) /\ Turns(dialog') /\ dialog' # <<>>
          /\ dialog'[Len(dialog')] = m
      <4>1. dialog # <<>> => dialog[Len(dialog)].role # m.role \/ dialog[Len(dialog)].says = "verdict"
        BY <3>1, <3>2
      <4> QED BY <1>1, <3>1, <3>3, <4>1, SayingMore
    <3> QED BY <3>1, <3>4, <3>5 DEF DialogInv, MayAsk
  <2> QED BY <1>8, <2>1, <2>2 DEF Verify
<1> QED BY <1>4, <1>5, <1>6, <1>7, <1>8 DEF CodeStep
-----------------------------------------------------------------------------
(* The invariant of the orchestration, and the theorem.                      *)

CtxInv ==
  /\ step \in Nat /\ ctx \in Contexts /\ Alternates(ctx)
  /\ advPc = "off" => step = 0 /\ pinned = 1
  /\ advPc = "ask" => step > 0 /\ Asks(ctx, step) /\ (step = 1 \/ pinned = 2)
  /\ advPc \in {"direct", "code", "search", "question"} =>
       step > 0 /\ Answers(ctx, step) /\ pinned = 2
  /\ advPc = "compress" => step > 0 /\ Feeds(ctx, step) /\ pinned = 2

SoundInv == CtxInv /\ DialogInv

\* With an answer fed back, the next step asks.
LEMMA NewStep ==
  ASSUME CtxInv, step > 0, Feeds(ctx', step), NextStep, pinned' = 2
  PROVE  CtxInv'
<1>1. step \in Nat /\ ctx' \in Contexts /\ Alternates(ctx')
  BY DEF CtxInv, Feeds, Sound
<1>2. CASE Finish("error")
  BY <1>1, <1>2 DEF Finish, CtxInv
<1>3. CASE advPc' = "ask" /\ step' = step + 1
  <2>1. Asks(ctx', step + 1) /\ step + 1 > 0 /\ step + 1 \in Nat
    BY <1>1, FeedbackIsAsked
  <2> QED BY <1>1, <1>3, <2>1 DEF CtxInv
<1> QED BY <1>2, <1>3 DEF NextStep

\* A context that stays is sound whatever the loop does.
LEMMA Ending ==
  ASSUME CtxInv, ctx' \in Contexts, Alternates(ctx'), Finish("error") \/ Finish("ok")
  PROVE  CtxInv'
BY DEF CtxInv, Finish

LEMMA Fed ==
  ASSUME CtxInv, advPc \in {"direct", "code", "search", "question"}, Feedback
  PROVE  step \in Nat /\ step > 0 /\ Feeds(ctx', step) /\ pinned' = 2
<1>1. step \in Nat /\ step > 0 /\ Answers(ctx, step) /\ pinned = 2
  BY DEF CtxInv
<1>2. ctx' = Append(ctx, About("user", {step})) /\ pinned' = pinned
  BY DEF Feedback
<1> QED BY <1>1, <1>2, AnswerIsFedBack

LEMMA Resumed ==
  ASSUME CtxInv, advPc \in {"direct", "code", "search", "question"}, Resume
  PROVE  CtxInv'
<1>1. step \in Nat /\ step > 0 /\ Feeds(ctx', step) /\ pinned' = 2
  BY Fed DEF Resume
<1>2. ctx' \in Contexts /\ Alternates(ctx')
  BY <1>1 DEF Feeds, Sound
<1>3. advPc' = "compress" /\ step' = step
  BY DEF Resume
<1> QED BY <1>1, <1>2, <1>3 DEF CtxInv

LEMMA CtxKept ==
  ASSUME CtxInv, advVars' = advVars
  PROVE  CtxInv'
BY DEF CtxInv, advVars

LEMMA DialogKept ==
  ASSUME DialogInv, codeVars' = codeVars
  PROVE  DialogInv'
BY DEF DialogInv, codeVars

LEMMA InvInit == Init => SoundInv
<1> SUFFICES ASSUME Init PROVE SoundInv
  OBVIOUS
<1>1. <<>> \in Seq(Messages) /\ <<>> \in Seq(CodeMessages) /\ Len(<<>>) = 0
  OBVIOUS
<1>2. CtxInv
  BY <1>1 DEF Init, CtxInv, Contexts, Alternates
<1>3. DialogInv
  BY <1>1 DEF Init, CodeOff, DialogInv, Turns
<1> QED BY <1>2, <1>3 DEF SoundInv

LEMMA CompressStep ==
  ASSUME CtxInv, Compress
  PROVE  CtxInv'
<1> DEFINE N == Len(ctx)
<1> DEFINE e == CompressEnd
<1>1. step \in Nat /\ step > 0 /\ Feeds(ctx, step) /\ pinned = 2 /\ ctx \in Contexts
  BY DEF CtxInv, Compress
<1>2. N \in Nat /\ N % 2 = 1 /\ N - 2 > KeepRecent + 2
  BY <1>1, SoundHasLength DEF Feeds, Compress
<1>3. e = IF ((N - KeepRecent) - 2) % 2 = 0 THEN (N - KeepRecent) - 1 ELSE N - KeepRecent
  BY <1>1 DEF CompressEnd
<1>4. KeepRecent \in Nat \ {0}
  BY WorkersAssumption
<1>5. ctx' = Spliced(ctx, e, Summary(ctx, e))
  <2>1. pinned + 1 = 3
    BY <1>1
  <2> HIDE DEF e
  <2>2. ctx' = SubSeq(ctx, 1, pinned)
                 \o <<About("user", UNION {ctx[k].about : k \in pinned + 1 .. e})>>
                 \o SubSeq(ctx, e + 1, Len(ctx))
    BY Zenon DEF Compress, e
  <2> QED BY <1>1, <2>1, <2>2 DEF Spliced, Summary
<1> HIDE DEF N, e
<1>6. e \in Nat /\ Cuts(N, e)
  BY <1>2, <1>3, <1>4, EndIsOdd DEF Cuts
<1>7. Feeds(ctx', step)
  <2>1. N = Len(ctx)
    BY DEF N
  <2> QED BY <1>1, <1>2, <1>5, <1>6, <2>1, CompressedIsFedBack
<1>8. NextStep /\ pinned' = 2
  BY <1>1 DEF Compress
<1> QED BY <1>1, <1>7, <1>8, NewStep

LEMMA CtxStep ==
  ASSUME CtxInv,
         \/ StartAdvanced \/ AskFails \/ Ask \/ NoDirective \/ Done \/ DirectCode \/ DirectSearch
         \/ Question \/ CodeReturns \/ SearchReturns \/ Unanswered \/ KeepContext \/ Answer
  PROVE  CtxInv'
<1>0. step \in Nat /\ ctx \in Contexts /\ Alternates(ctx)
  BY DEF CtxInv
<1>1. CASE StartAdvanced
  <2>1. step = 0 /\ pinned' = 1 /\ ctx' = <<About("user", {0})>> /\ Asks(ctx', 1)
    BY <1>1, TaskIsAsked DEF StartAdvanced, CtxInv
  <2>2. ctx' \in Contexts /\ Alternates(ctx')
    BY <2>1 DEF Asks, Sound
  <2>3. CASE Finish("error")
    BY <1>0, <2>2, <2>3, Ending
  <2>4. CASE advPc' = "ask" /\ step' = 1
    BY <2>1, <2>2, <2>4 DEF CtxInv
  <2> QED BY <1>1, <2>1, <2>3, <2>4 DEF StartAdvanced, NextStep
<1>2. CASE AskFails \/ Done \/ Unanswered
  <2>1. ctx' = ctx /\ (Finish("error") \/ Finish("ok"))
    BY <1>2 DEF AskFails, Done, Unanswered
  <2> QED BY <1>0, <2>1, Ending
<1>3. CASE Ask
  <2>1. step > 0 /\ Asks(ctx, step) /\ (step = 1 \/ pinned = 2)
    BY <1>3 DEF Ask, CtxInv
  <2>2. /\ ctx' = Append(ctx, About("assistant", {step})) /\ pinned' = 2
        /\ advPc' = "direct" /\ step' = step
    BY <1>3, <2>1 DEF Ask
  <2>3. Answers(ctx', step)
    BY <1>0, <2>1, <2>2, AskIsAnswered
  <2>4. ctx' \in Contexts /\ Alternates(ctx')
    BY <2>3 DEF Answers, Sound
  <2> QED BY <1>0, <2>1, <2>2, <2>3, <2>4 DEF CtxInv
<1>4. CASE NoDirective
  <2>1. step > 0 /\ Feeds(ctx', step) /\ pinned' = 2
    BY <1>4, Fed DEF NoDirective
  <2> QED BY <1>4, <2>1, NewStep DEF NoDirective
<1>5. CASE DirectCode \/ DirectSearch \/ Question
  BY <1>5 DEF DirectCode, DirectSearch, Question, Directed, CtxInv
<1>6. CASE CodeReturns \/ SearchReturns \/ Answer
  BY <1>6, Resumed DEF CodeReturns, SearchReturns, Answer
<1>7. CASE KeepContext
  <2>1. step > 0 /\ Feeds(ctx', step) /\ pinned' = 2
    BY <1>7 DEF KeepContext, CtxInv
  <2> QED BY <1>7, <2>1, NewStep DEF KeepContext
<1> QED BY <1>1, <1>2, <1>3, <1>4, <1>5, <1>6, <1>7

LEMMA InvStep == SoundInv /\ [Next]_vars => SoundInv'
<1> SUFFICES ASSUME SoundInv, [Next]_vars PROVE SoundInv'
  OBVIOUS
<1>1. CtxInv /\ DialogInv
  BY DEF SoundInv
<1>2. CASE StartTask
  <2>1. advVars' = advVars
    BY <1>2 DEF StartTask
  <2>2. CASE StartCode(TRUE)
    BY <1>1, <2>1, <2>2, CtxKept, DialogBegins DEF SoundInv
  <2>3. CASE UNCHANGED codeVars
    BY <1>1, <2>1, <2>3, CtxKept, DialogKept DEF SoundInv
  <2> QED BY <1>2, <2>2, <2>3 DEF StartTask
<1>3. CASE SubtaskStep
  <2>1. advVars' = advVars
    BY <1>3 DEF SubtaskStep
  <2>2. CASE CodeStep
    BY <1>1, <2>1, <2>2, CtxKept, DialogGoesOn DEF SoundInv
  <2>3. CASE UNCHANGED codeVars
    BY <1>1, <2>1, <2>3, CtxKept, DialogKept DEF SoundInv
  <2> QED BY <1>3, <2>2, <2>3 DEF SubtaskStep
<1>4. CASE DirectCode
  <2>1. CtxInv'
    BY <1>1, <1>4, CtxStep
  <2>2. DialogInv'
    BY <1>4, DialogBegins DEF DirectCode
  <2> QED BY <2>1, <2>2 DEF SoundInv
<1>5. CASE CodeReturns
  <2>1. CtxInv'
    BY <1>1, <1>5, CtxStep
  <2>2. dialog' = <<>> /\ codePc' = "off"
    BY <1>5 DEF CodeReturns
  <2>3. DialogInv'
    BY <2>2 DEF DialogInv, Turns
  <2> QED BY <2>1, <2>3 DEF SoundInv
<1>6. CASE Compress
  <2>1. codeVars' = codeVars
    BY <1>6 DEF Compress, Still
  <2> QED BY <1>1, <1>6, <2>1, CompressStep, DialogKept DEF SoundInv
<1>7. CASE \/ StartAdvanced \/ AskFails \/ Ask \/ NoDirective \/ Done \/ DirectSearch
           \/ Question \/ SearchReturns \/ Unanswered \/ KeepContext \/ Answer
  <2>1. codeVars' = codeVars
    BY <1>7 DEF StartAdvanced, AskFails, Ask, NoDirective, Done, DirectSearch, Question,
                SearchReturns, Unanswered, KeepContext, Answer, Still
  <2>2. CtxInv'
    BY <1>1, <1>7, CtxStep
  <2> QED BY <1>1, <2>1, <2>2, DialogKept DEF SoundInv
<1>8. CASE UNCHANGED vars
  BY <1>1, <1>8, CtxKept, DialogKept DEF SoundInv, vars
<1> QED BY <1>2, <1>3, <1>4, <1>5, <1>6, <1>7, <1>8 DEF Next, Work

LEMMA InvImplies == SoundInv => ContextIsSound
<1> SUFFICES ASSUME SoundInv PROVE ContextIsSound
  OBVIOUS
<1>1. CtxInv /\ DialogInv
  BY DEF SoundInv
<1>2. \A k \in 1 .. Len(ctx) : ctx[k].role = (IF k % 2 = 1 THEN "user" ELSE "assistant")
  BY <1>1 DEF CtxInv, Alternates, RoleAt
<1>3. DialogAlternates
  BY <1>1 DEF DialogInv, Turns, DialogAlternates
<1>4. ASSUME advPc = "ask"
      PROVE  /\ ctx[Len(ctx)].role = "user"
             /\ ctx[1].about = {0}
             /\ step > 1 => ctx[2] = About("assistant", {1})
             /\ \A k \in 1 .. Len(ctx) : k > Len(ctx) - KeepRecent => Cardinality(ctx[k].about) = 1
             /\ UNION {ctx[k].about : k \in 1 .. Len(ctx)} = 0 .. step - 1
  <2>1. step \in Nat /\ step > 0 /\ Asks(ctx, step)
    BY <1>1, <1>4 DEF CtxInv
  <2>2. Sound(ctx, step - 1) /\ Pins(ctx, step) /\ Len(ctx) % 2 = 1 /\ Len(ctx) \in Nat
    BY <2>1, SoundHasLength DEF Asks
  <2>3. ctx[Len(ctx)].role = "user"
    <3>1. Len(ctx) \in 1 .. Len(ctx)
      BY <2>2 DEF Pins
    <3> QED BY <1>2, <2>2, <3>1
  <2>4. ctx[1].about = {0} /\ (step > 1 => ctx[2] = About("assistant", {1}))
    BY <2>2 DEF Pins, About
  <2>5. ASSUME NEW k \in 1 .. Len(ctx), k > Len(ctx) - KeepRecent
        PROVE  Cardinality(ctx[k].about) = 1
    <3>1. ~ (k = 3 /\ Len(ctx) >= 3 + KeepRecent)
      BY <2>2, <2>5, WorkersAssumption
    <3>2. Single(ctx[k])
      BY <2>2, <3>1 DEF Sound, Plain
    <3> QED BY <3>2, FS_Singleton DEF Single
  <2>6. UNION {ctx[k].about : k \in 1 .. Len(ctx)} = 0 .. step - 1
    <3>1. Covers(ctx, step - 1)
      BY <2>2 DEF Sound
    <3> QED BY <3>1 DEF Covers
  <2> QED BY <2>3, <2>4, <2>5, <2>6
<1> QED BY <1>2, <1>3, <1>4 DEF ContextIsSound

\* Every conversation that is sent to a model is one it accepts, with the task,
\* the plan and the recent messages in it word for word and no step left out,
\* however often the context was compressed (compress_context, run_inner); the
\* dialog of a code task alternates (run_code_loop).
THEOREM ConversationsAreSound == Spec => []ContextIsSound
<1>1. Init => SoundInv
  BY InvInit
<1>2. SoundInv /\ [Next]_vars => SoundInv'
  BY InvStep
<1>3. SoundInv => ContextIsSound
  BY InvImplies
<1> QED BY <1>1, <1>2, <1>3, PTL DEF Spec
-----------------------------------------------------------------------------
(* Recursion over the naturals: a set of them that holds 0 and the successor  *)
(* of each holds all, and a function over 0 .. n is determined by its steps.  *)

LEMMA Upwards ==
  ASSUME NEW P, NEW n \in Nat, 0 \in P, \A k \in 1 .. n : k - 1 \in P => k \in P
  PROVE  \A k \in 0 .. n : k \in P
<1> DEFINE Less == {ss \in Nat \X Nat : ss[1] < ss[2]}
<1> DEFINE Missed == {k \in 0 .. n : k \notin P}
<1>1. IsWellFoundedOn(Less, Nat)
  BY NatLessThanWellFounded, Zenon DEF OpToRel
<1>2. \A a, b \in Nat : a < b => <<a, b>> \in Less
  OBVIOUS
<1> HIDE DEF Less
<1>3. SUFFICES ASSUME Missed # {} PROVE FALSE
  OBVIOUS
<1>4. Missed \in SUBSET Nat
  OBVIOUS
<1>5. PICK x \in Missed : \A y \in Missed : <<y, x>> \notin Less
  BY <1>1, <1>3, <1>4, WFMin, Zenon
<1>6. x \in 1 .. n /\ x - 1 \in Nat /\ x - 1 < x /\ x \in Nat
  BY <1>5
<1>7. x - 1 \notin Missed
  BY <1>2, <1>5, <1>6
<1> QED BY <1>5, <1>6, <1>7

\* f is the sequence of values g takes from b, up to the m-th.
Follows(f, m, S, b, g) ==
  f \in [0 .. m -> S] /\ f[0] = b /\ \A k \in 1 .. m : f[k] = g[k][f[k - 1]]

LEMMA Recursion ==
  ASSUME NEW S, NEW n \in Nat, NEW b \in S, NEW g \in [1 .. n -> [S -> S]]
  PROVE  \E f : Follows(f, n, S, b, g)
<1> DEFINE P == {m \in 0 .. n : \E f : Follows(f, m, S, b, g)}
<1>1. 0 \in P
  <2> DEFINE f == [k \in 0 .. 0 |-> b]
  <2>1. f \in [0 .. 0 -> S] /\ f[0] = b
    OBVIOUS
  <2> HIDE DEF f
  <2>2. Follows(f, 0, S, b, g)
    BY <2>1 DEF Follows
  <2>3. 0 \in 0 .. n
    OBVIOUS
  <2> QED BY <2>2, <2>3, Zenon
<1>2. ASSUME NEW m \in 1 .. n, m - 1 \in P
      PROVE  m \in P
  <2>1. PICK f : Follows(f, m - 1, S, b, g)
    BY <1>2
  <2> DEFINE h == [k \in 0 .. m |-> IF k = m THEN g[m][f[m - 1]] ELSE f[k]]
  <2>2. f[m - 1] \in S /\ g[m] \in [S -> S] /\ g[m][f[m - 1]] \in S
    <3>1. f \in [0 .. m - 1 -> S] /\ m - 1 \in 0 .. m - 1
      BY <2>1 DEF Follows
    <3>2. f[m - 1] \in S /\ g[m] \in [S -> S]
      BY <3>1
    <3> QED BY <3>2
  <2>3. h \in [0 .. m -> S]
    <3>1. \A k \in 0 .. m : k # m => k \in 0 .. m - 1
      OBVIOUS
    <3>2. f \in [0 .. m - 1 -> S]
      BY <2>1 DEF Follows
    <3> QED BY <2>2, <3>1, <3>2
  <2>4. h[0] = b /\ h[m] = g[m][f[m - 1]] /\ \A k \in 0 .. m - 1 : h[k] = f[k]
    BY <2>1 DEF Follows
  <2>5. \A k \in 1 .. m : h[k] = g[k][h[k - 1]]
    <3>1. ASSUME NEW k \in 1 .. m PROVE h[k] = g[k][h[k - 1]]
      <4>1. k - 1 \in 0 .. m - 1 /\ h[k - 1] = f[k - 1]
        BY <2>4
      <4>2. CASE k = m
        BY <2>4, <4>1, <4>2
      <4>3. CASE k # m
        BY <2>1, <2>4, <4>1, <4>3 DEF Follows
      <4> QED BY <4>2, <4>3
    <3> QED BY <3>1
  <2> HIDE DEF h
  <2>6. Follows(h, m, S, b, g)
    BY <2>3, <2>4, <2>5 DEF Follows
  <2>7. m \in 0 .. n
    OBVIOUS
  <2> QED BY <2>6, <2>7, Zenon
<1>3. n \in P
  <2> HIDE DEF P
  <2>1. n \in 0 .. n
    OBVIOUS
  <2> QED BY <1>1, <1>2, <2>1, Upwards
<1> QED BY <1>3
-----------------------------------------------------------------------------
(* Merging answers: no link twice, and few questions.                        *)

NoLinkTwice(rs) ==
  \A i, j \in 1 .. Len(rs) : i # j /\ rs[i] = rs[j] => rs[i] = PeopleAlsoAsk

LEMMA EntriesDiffer ==
  /\ KnowledgeGraph # PeopleAlsoAsk
  /\ \A url : Link(url) # PeopleAlsoAsk /\ Link(url) # KnowledgeGraph
<1>1. Len(KnowledgeGraph) = 1 /\ Len(PeopleAlsoAsk) = 1 /\ \A url : Len(Link(url)) = 2
  BY DEF KnowledgeGraph, PeopleAlsoAsk, Link
<1>2. KnowledgeGraph[1] # PeopleAlsoAsk[1]
  BY DEF KnowledgeGraph, PeopleAlsoAsk
<1> QED BY <1>1, <1>2

LEMMA AskedIsNat ==
  ASSUME NEW rs \in Seq(Entries)
  PROVE  /\ IsFiniteSet({k \in 1 .. Len(rs) : rs[k] = PeopleAlsoAsk})
         /\ Asked(rs) \in Nat
<1>1. {k \in 1 .. Len(rs) : rs[k] = PeopleAlsoAsk} \in SUBSET (1 .. Len(rs))
      /\ IsFiniteSet(1 .. Len(rs))
  BY FS_Interval
<1> QED BY <1>1, FS_Subset, FS_CardinalityType DEF Asked

\* An entry that is new and no question.
LEMMA AddingOne ==
  ASSUME NEW rs \in Seq(Entries), NoLinkTwice(rs), NEW e \in Entries, e # PeopleAlsoAsk,
         ~ Contains(rs, e), NEW d, d = Append(rs, e)
  PROVE  d \in Seq(Entries) /\ NoLinkTwice(d) /\ Asked(d) = Asked(rs)
<1>1. /\ d \in Seq(Entries) /\ Len(d) = Len(rs) + 1 /\ d[Len(rs) + 1] = e /\ Len(rs) \in Nat
      /\ \A k \in 1 .. Len(rs) : d[k] = rs[k] /\ rs[k] # e
  BY DEF Contains
<1>2. \A k \in 1 .. Len(d) : k \in 1 .. Len(rs) \/ k = Len(rs) + 1
  BY <1>1
<1>3. NoLinkTwice(d)
  BY <1>1, <1>2 DEF NoLinkTwice
<1>4. {k \in 1 .. Len(d) : d[k] = PeopleAlsoAsk} = {k \in 1 .. Len(rs) : rs[k] = PeopleAlsoAsk}
  <2>1. \A k \in 1 .. Len(rs) : k \in 1 .. Len(d)
    BY <1>1
  <2> QED BY <1>1, <1>2, <2>1
<1> QED BY <1>1, <1>3, <1>4 DEF Asked

LEMMA AddingLinks ==
  ASSUME NEW rs \in Seq(Entries), NoLinkTwice(rs), NEW n \in Nat, NEW links \in [1 .. n -> Urls],
         NEW d, d = AddLinks(rs, links)
  PROVE  d \in Seq(Entries) /\ NoLinkTwice(d) /\ Asked(d) = Asked(rs)
<1> DEFINE S == {s \in Seq(Entries) : NoLinkTwice(s) /\ Asked(s) = Asked(rs)}
<1> DEFINE More(s, k) == IF Contains(s, Link(links[k])) THEN s ELSE Append(s, Link(links[k]))
<1> DEFINE g == [k \in 1 .. n |-> [s \in S |-> More(s, k)]]
<1> DEFINE IsAdded(f) == f = [k \in 0 .. n |-> IF k = 0 THEN rs ELSE More(f[k - 1], k)]
<1> DEFINE added == CHOOSE f : IsAdded(f)
<1>1. ASSUME NEW s \in S, NEW k \in 1 .. n
      PROVE  More(s, k) \in S
  <2>1. Link(links[k]) \in Entries /\ Link(links[k]) # PeopleAlsoAsk
    BY EntriesDiffer DEF Entries
  <2>2. CASE Contains(s, Link(links[k]))
    BY <2>2
  <2>3. CASE ~ Contains(s, Link(links[k]))
    BY <2>1, <2>3, AddingOne
  <2> QED BY <2>2, <2>3
<1>2. rs \in S
  OBVIOUS
<1> HIDE DEF S, More
<1>3. \E f : IsAdded(f)
  <2>1. g \in [1 .. n -> [S -> S]]
    BY <1>1
  <2>2. \A k \in 1 .. n : \A s \in S : g[k][s] = More(s, k)
    OBVIOUS
  <2> HIDE DEF g
  <2>3. PICK f : Follows(f, n, S, rs, g)
    BY <1>2, <2>1, Recursion
  <2>4. f \in [0 .. n -> S] /\ f[0] = rs /\ \A k \in 1 .. n : f[k] = g[k][f[k - 1]]
    BY <2>3 DEF Follows
  <2>5. \A k \in 0 .. n : f[k] = IF k = 0 THEN rs ELSE More(f[k - 1], k)
    <3>1. \A k \in 0 .. n : k = 0 \/ (k \in 1 .. n /\ k - 1 \in 0 .. n)
      OBVIOUS
    <3> QED BY <2>2, <2>4, <3>1
  <2>6. IsAdded(f)
    BY <2>4, <2>5
  <2> QED BY <2>6
<1>4. IsAdded(added)
  BY <1>3, Zenon
<1>5. Len(links) = n
  OBVIOUS
<1>6. d = added[n]
  BY <1>5, Zenon DEF AddLinks, More
<1> HIDE DEF added
<1>7. added[0] = rs /\ \A k \in 1 .. n : added[k] = More(added[k - 1], k)
  BY <1>4
<1>8. added[n] \in S
  <2> DEFINE P == {k \in 0 .. n : added[k] \in S}
  <2>1. 0 \in P
    BY <1>2, <1>7
  <2>2. \A k \in 1 .. n : k - 1 \in P => k \in P
    BY <1>1, <1>7
  <2> HIDE DEF P
  <2>3. n \in 0 .. n
    OBVIOUS
  <2>4. n \in P
    BY <2>1, <2>2, <2>3, Upwards
  <2> QED BY <2>4 DEF P
<1> QED BY <1>6, <1>8 DEF S

\* Questions are added behind everything else.
LEMMA AddingQuestions ==
  ASSUME NEW rs \in Seq(Entries), NoLinkTwice(rs), NEW n \in Nat, Asked(rs) + n <= MaxPaa,
         NEW qs, qs = [k \in 1 .. n |-> PeopleAlsoAsk], NEW d, d = rs \o qs
  PROVE  d \in Seq(Entries) /\ NoLinkTwice(d) /\ Asked(d) <= MaxPaa
<1> DEFINE N == Len(rs)
<1> DEFINE old == {k \in 1 .. N : rs[k] = PeopleAlsoAsk}
<1>1. N \in Nat /\ MaxPaa \in Nat /\ Asked(rs) \in Nat
  <2>1. MaxPaa \in Nat
    BY SearchAssumption
  <2>2. N \in Nat
    OBVIOUS
  <2>3. Asked(rs) \in Nat
    BY AskedIsNat, Zenon
  <2> QED BY <2>1, <2>2, <2>3
<1>2. PeopleAlsoAsk \in Entries
  BY DEF Entries
<1>3. qs \in Seq(Entries) /\ Len(qs) = n /\ \A k \in 1 .. n : qs[k] = PeopleAlsoAsk
  BY <1>2
<1>4. /\ d \in Seq(Entries) /\ Len(d) = N + n
      /\ \A k \in 1 .. N : d[k] = rs[k]
      /\ \A k \in N + 1 .. N + n : d[k] = PeopleAlsoAsk
  <2>1. /\ rs \o qs \in Seq(Entries) /\ Len(rs \o qs) = Len(rs) + Len(qs)
        /\ \A k \in 1 .. Len(rs) + Len(qs) :
             (rs \o qs)[k] = IF k <= Len(rs) THEN rs[k] ELSE qs[k - Len(rs)]
    BY <1>3, ConcatProperties, Zenon
  <2>2. \A k \in 1 .. N : k \in 1 .. N + n /\ k <= N
    BY <1>1
  <2>3. \A k \in N + 1 .. N + n : k \in 1 .. N + n /\ ~ (k <= N) /\ k - N \in 1 .. n
    BY <1>1
  <2> QED BY <1>3, <2>1, <2>2, <2>3
<1>5. \A k \in 1 .. Len(d) : k \in 1 .. N \/ k \in N + 1 .. N + n
  BY <1>1, <1>4
<1>6. NoLinkTwice(d)
  BY <1>4, <1>5 DEF NoLinkTwice
<1>7. Asked(d) <= MaxPaa
  <2> DEFINE all == {k \in 1 .. Len(d) : d[k] = PeopleAlsoAsk}
  <2> DEFINE late == N + 1 .. N + n
  <2>1. all \subseteq old \cup late
    BY <1>4, <1>5
  <2>2. IsFiniteSet(old) /\ Cardinality(old) = Asked(rs)
    BY AskedIsNat DEF Asked
  <2>3. IsFiniteSet(late) /\ Cardinality(late) = n
    BY <1>1, FS_Interval
  <2>4. Cardinality(all) = Asked(d)
    BY DEF Asked
  <2> HIDE DEF all, late, old
  <2>5. /\ IsFiniteSet(old \cup late) /\ IsFiniteSet(old \cap late)
        /\ Cardinality(old \cup late)
             = Cardinality(old) + Cardinality(late) - Cardinality(old \cap late)
    BY <2>2, <2>3, FS_Union, FS_Intersection
  <2>6. Cardinality(old \cap late) \in Nat
    BY <2>5, FS_CardinalityType
  <2>7. IsFiniteSet(all) /\ Cardinality(all) <= Cardinality(old \cup late)
    BY <2>1, <2>5, FS_Subset
  <2>8. Cardinality(all) \in Nat /\ Cardinality(old \cup late) \in Nat
    BY <2>5, <2>7, FS_CardinalityType
  <2> QED BY <1>1, <2>2, <2>3, <2>4, <2>5, <2>6, <2>7, <2>8
<1> QED BY <1>4, <1>6, <1>7

LEMMA Merging ==
  ASSUME NEW rs \in Seq(Entries), NoLinkTwice(rs), Asked(rs) <= MaxPaa, NEW graph \in BOOLEAN,
         NEW n \in Nat, NEW links \in [1 .. n -> Urls], NEW questions \in Nat,
         NEW d, d = Merge(rs, graph, links, questions)
  PROVE  d \in Seq(Entries) /\ NoLinkTwice(d) /\ Asked(d) <= MaxPaa
<1> DEFINE top == IF graph /\ ~Contains(rs, KnowledgeGraph) THEN <<KnowledgeGraph>> ELSE <<>>
<1> DEFINE more == AddLinks(rs \o top, links)
<1> DEFINE room == MaxPaa - Asked(more)
<1> DEFINE m == IF questions < room THEN questions ELSE room
<1>1. rs \o top \in Seq(Entries) /\ NoLinkTwice(rs \o top) /\ Asked(rs \o top) = Asked(rs)
  <2>1. CASE graph /\ ~Contains(rs, KnowledgeGraph)
    <3>1. rs \o top = Append(rs, KnowledgeGraph)
      BY <2>1
    <3>2. KnowledgeGraph \in Entries /\ KnowledgeGraph # PeopleAlsoAsk
      BY EntriesDiffer DEF Entries
    <3> QED BY <2>1, <3>1, <3>2, AddingOne
  <2>2. CASE ~ (graph /\ ~Contains(rs, KnowledgeGraph))
    <3>1. rs \o top = rs
      BY <2>2
    <3> QED BY <3>1
  <2> QED BY <2>1, <2>2
<1>2. more \in Seq(Entries) /\ NoLinkTwice(more) /\ Asked(more) = Asked(rs)
  <2> HIDE DEF top
  <2> QED BY <1>1, AddingLinks
<1>3. d = more \o [k \in 1 .. m |-> PeopleAlsoAsk]
  BY Zenon DEF Merge
<1> HIDE DEF more
<1>4. m \in Nat /\ Asked(more) + m <= MaxPaa
  <2>1. Asked(more) \in Nat /\ MaxPaa \in Nat /\ Asked(more) <= MaxPaa
    BY <1>2, AskedIsNat, SearchAssumption
  <2> QED BY <2>1
<1> HIDE DEF m
<1> QED BY <1>2, <1>3, <1>4, AddingQuestions
-----------------------------------------------------------------------------
(* The budget: the entries taken are the longest run that fits.              *)

LEMMA TotalSteps ==
  ASSUME NEW ts \in Seq(Nat)
  PROVE  /\ Total(ts, 0) = 0
         /\ \A k \in 1 .. Len(ts) : Total(ts, k) = Total(ts, k - 1) + ts[k]
         /\ \A k \in 0 .. Len(ts) : Total(ts, k) \in Nat
<1> DEFINE n == Len(ts)
<1> DEFINE g == [k \in 1 .. n |-> [a \in Nat |-> a + ts[k]]]
<1> DEFINE IsSum(f) == f = [k \in 0 .. n |-> IF k = 0 THEN 0 ELSE f[k - 1] + ts[k]]
<1> DEFINE sum == CHOOSE f : IsSum(f)
<1>1. n \in Nat /\ \A k \in 1 .. n : ts[k] \in Nat
  OBVIOUS
<1>2. \E f : IsSum(f)
  <2>1. g \in [1 .. n -> [Nat -> Nat]]
    BY <1>1
  <2>2. \A k \in 1 .. n : \A a \in Nat : g[k][a] = a + ts[k]
    OBVIOUS
  <2> HIDE DEF g
  <2>3. PICK f : Follows(f, n, Nat, 0, g)
    BY <1>1, <2>1, Recursion
  <2>4. f \in [0 .. n -> Nat] /\ f[0] = 0 /\ \A k \in 1 .. n : f[k] = g[k][f[k - 1]]
    BY <2>3 DEF Follows
  <2> HIDE DEF n
  <2>5. \A k \in 0 .. n : f[k] = IF k = 0 THEN 0 ELSE f[k - 1] + ts[k]
    <3>1. \A k \in 0 .. n : k = 0 \/ (k \in 1 .. n /\ k - 1 \in 0 .. n)
      BY <1>1
    <3> QED BY <2>2, <2>4, <3>1
  <2>6. IsSum(f)
    BY <2>4, <2>5
  <2> QED BY <2>6
<1>3. IsSum(sum)
  BY <1>2, Zenon
<1>4. \A k : Total(ts, k) = sum[k]
  BY Zenon DEF Total
<1> HIDE DEF sum
<1>5. sum[0] = 0 /\ \A k \in 1 .. n : sum[k] = sum[k - 1] + ts[k]
  BY <1>1, <1>3
<1>6. \A k \in 0 .. n : sum[k] \in Nat
  <2> DEFINE P == {k \in 0 .. n : sum[k] \in Nat}
  <2>1. 0 \in P /\ \A k \in 1 .. n : k - 1 \in P => k \in P
    BY <1>1, <1>5
  <2> HIDE DEF P
  <2>2. \A k \in 0 .. n : k \in P
    BY <1>1, <2>1, Upwards
  <2> QED BY <2>2 DEF P
<1> QED BY <1>4, <1>5, <1>6

\* Entries 1 .. n are taken of the first m, because no more fit.
Taken(acc, m, n, ts, budget) ==
  /\ n \in 0 .. m /\ acc.taken = [k \in 1 .. n |-> k]
  /\ acc.total = Total(ts, n) /\ Total(ts, n) <= budget
  /\ IF acc.full THEN n < m /\ Total(ts, n + 1) > budget ELSE n = m

\* What create_context takes: the longest run that fits.
Longest(c, ts, budget) ==
  \E n \in 0 .. Len(ts) :
    /\ c = [k \in 1 .. n |-> k]
    /\ Total(ts, n) <= budget
    /\ n < Len(ts) => Total(ts, n + 1) > budget

Taking == [total : Nat, taken : Seq(Nat), full : BOOLEAN]

LEMMA TakingIsLongest ==
  ASSUME NEW ts \in Seq(Nat), NEW budget \in Nat, NEW c, c = Take(ts, budget)
  PROVE  c \in Seq(Nat) /\ Longest(c, ts, budget)
<1> DEFINE n == Len(ts)
<1> DEFINE first == [total |-> 0, taken |-> <<>>, full |-> FALSE]
<1> DEFINE On(a, k) ==
      IF a.full \/ a.total + ts[k] > budget
      THEN [a EXCEPT !.full = TRUE]
      ELSE [total |-> a.total + ts[k], taken |-> Append(a.taken, k), full |-> FALSE]
<1> DEFINE g == [k \in 1 .. n |-> [a \in Taking |-> On(a, k)]]
<1> DEFINE IsAfter(f) == f = [k \in 0 .. n |-> IF k = 0 THEN first ELSE On(f[k - 1], k)]
<1> DEFINE after == CHOOSE f : IsAfter(f)
<1>1. n \in Nat /\ \A k \in 1 .. n : ts[k] \in Nat /\ k \in Nat
  OBVIOUS
<1>2. first \in Taking
  BY DEF Taking
<1>3. ASSUME NEW a \in Taking, NEW k \in 1 .. n
      PROVE  On(a, k) \in Taking
  <2>1. /\ a.total \in Nat /\ a.taken \in Seq(Nat)
        /\ a.total + ts[k] \in Nat /\ Append(a.taken, k) \in Seq(Nat)
    BY <1>1 DEF Taking
  <2>2. [a EXCEPT !.full = TRUE] \in Taking
    BY DEF Taking
  <2>3. [total |-> a.total + ts[k], taken |-> Append(a.taken, k), full |-> FALSE] \in Taking
    BY <2>1 DEF Taking
  <2> QED BY <2>2, <2>3
<1>4. \E f : IsAfter(f)
  <2> HIDE DEF On, first
  <2>1. g \in [1 .. n -> [Taking -> Taking]]
    BY <1>3
  <2>2. \A k \in 1 .. n : \A a \in Taking : g[k][a] = On(a, k)
    OBVIOUS
  <2> HIDE DEF g
  <2>3. PICK f : Follows(f, n, Taking, first, g)
    BY <1>1, <1>2, <2>1, Recursion
  <2>4. f \in [0 .. n -> Taking] /\ f[0] = first /\ \A k \in 1 .. n : f[k] = g[k][f[k - 1]]
    BY <2>3 DEF Follows
  <2> HIDE DEF n
  <2>5. \A k \in 0 .. n : f[k] = IF k = 0 THEN first ELSE On(f[k - 1], k)
    <3>1. \A k \in 0 .. n : k = 0 \/ (k \in 1 .. n /\ k - 1 \in 0 .. n)
      BY <1>1
    <3> QED BY <2>2, <2>4, <3>1
  <2>6. IsAfter(f)
    BY <2>4, <2>5
  <2> QED BY <2>6
<1>5. c = after[n].taken
  BY Zenon DEF Take
<1>6. after[0] = first /\ \A k \in 1 .. n : after[k] = On(after[k - 1], k)
  <2> HIDE DEF On, first
  <2>1. IsAfter(after)
    BY <1>4, Zenon
  <2> HIDE DEF after
  <2> QED BY <1>1, <2>1
<1> HIDE DEF after
<1>7. /\ Total(ts, 0) = 0
      /\ \A k \in 1 .. n : Total(ts, k) = Total(ts, k - 1) + ts[k]
      /\ \A k \in 0 .. n : Total(ts, k) \in Nat
  BY TotalSteps
<1> DEFINE P == {k \in 0 .. n : after[k] \in Taking /\ \E j : Taken(after[k], k, j, ts, budget)}
<1>8. 0 \in P
  <2>1. first.total = 0 /\ first.taken = <<>> /\ first.full = FALSE
    OBVIOUS
  <2>2. [k \in 1 .. 0 |-> k] = <<>>
    OBVIOUS
  <2>3. Taken(first, 0, 0, ts, budget)
    BY <1>7, <2>1, <2>2 DEF Taken
  <2> QED BY <1>1, <1>2, <1>6, <2>3
<1>9. ASSUME NEW k \in 1 .. n, k - 1 \in P
      PROVE  k \in P
  <2> DEFINE a == after[k - 1]
  <2> DEFINE d == after[k]
  <2>1. a \in Taking /\ d = On(a, k)
    BY <1>6, <1>9
  <2>2. PICK j : Taken(a, k - 1, j, ts, budget)
    BY <1>9
  <2> HIDE DEF P, a, d
  <2>3. d \in Taking
    BY <1>3, <2>1
  <2>4. k \in 1 .. n /\ ts[k] \in Nat /\ j \in Nat /\ k \in Nat
    BY <1>1, <2>2 DEF Taken
  <2>5. CASE a.full
    <3>1. d = [a EXCEPT !.full = TRUE]
      BY <2>1, <2>5
    <3>2. d.full = TRUE /\ d.total = a.total /\ d.taken = a.taken
      BY <2>1, <3>1 DEF Taking
    <3>3. Taken(d, k, j, ts, budget)
      BY <2>2, <2>4, <2>5, <3>2 DEF Taken
    <3> QED BY <2>3, <3>3 DEF P, d
  <2>6. CASE ~ a.full /\ a.total + ts[k] > budget
    <3>1. d = [a EXCEPT !.full = TRUE]
      BY <2>1, <2>6
    <3>2. d.full = TRUE /\ d.total = a.total /\ d.taken = a.taken
      BY <2>1, <3>1 DEF Taking
    <3>3. j = k - 1 /\ Total(ts, k) = a.total + ts[k]
      BY <1>7, <2>2, <2>4, <2>6 DEF Taken
    <3>4. Taken(d, k, j, ts, budget)
      BY <2>2, <2>4, <2>6, <3>2, <3>3 DEF Taken
    <3> QED BY <2>3, <3>4 DEF P, d
  <2>7. CASE ~ a.full /\ ~ (a.total + ts[k] > budget)
    <3>1. d = [total |-> a.total + ts[k], taken |-> Append(a.taken, k), full |-> FALSE]
      BY <2>1, <2>7
    <3>2. d.full = FALSE /\ d.total = a.total + ts[k] /\ d.taken = Append(a.taken, k)
      BY <3>1
    <3>3. j = k - 1 /\ Total(ts, k) = a.total + ts[k]
      BY <1>7, <2>2, <2>4, <2>7 DEF Taken
    <3>4. d.taken = [i \in 1 .. k |-> i]
      <4>1. a.taken = [i \in 1 .. k - 1 |-> i]
        BY <2>2, <3>3 DEF Taken
      <4>2. Append([i \in 1 .. k - 1 |-> i], k) = [i \in 1 .. k |-> i]
        BY <2>4
      <4> QED BY <3>2, <4>1, <4>2
    <3>5. a.total \in Nat /\ budget \in Nat
      BY <2>1 DEF Taking
    <3>6. Taken(d, k, k, ts, budget)
      BY <2>4, <2>7, <3>2, <3>3, <3>4, <3>5 DEF Taken
    <3> QED BY <2>3, <3>6 DEF P, d
  <2> QED BY <2>5, <2>6, <2>7
<1>10. n \in P
  <2> HIDE DEF P, n
  <2>1. \A k \in 0 .. n : k \in P
    BY <1>1, <1>8, <1>9, Upwards
  <2> QED BY <1>1, <2>1
<1>11. PICK j : Taken(after[n], n, j, ts, budget)
  BY <1>10
<1>12. Longest(c, ts, budget)
  BY <1>1, <1>5, <1>11 DEF Taken, Longest
<1>13. c \in Seq(Nat)
  BY <1>5, <1>10 DEF Taking
<1> QED BY <1>12, <1>13
-----------------------------------------------------------------------------
(* The invariant of the pipeline.                                            *)

SearchInv ==
  /\ SearchTypeOK
  /\ searchPc \in {"off", "plan", "collect", "enrich"} => tokens = <<>>
  /\ NoLinkTwice(results) /\ Asked(results) <= MaxPaa
  /\ searchPc \in {"synthesize", "done"} /\ tokens # <<>> => Longest(context, tokens, Budget)

\* Nothing found yet.
LEMMA NothingFound ==
  /\ <<>> \in Seq(Entries) /\ <<>> \in Seq(EntryTokens) /\ <<>> \in Seq(Nat)
  /\ NoLinkTwice(<<>>) /\ Asked(<<>>) <= MaxPaa
<1>1. {k \in 1 .. Len(<<>>) : <<>>[k] = PeopleAlsoAsk} = {}
  OBVIOUS
<1>2. Asked(<<>>) = 0
  BY <1>1, FS_EmptySet DEF Asked
<1>3. MaxPaa \in Nat
  BY SearchAssumption
<1>4. NoLinkTwice(<<>>)
  BY DEF NoLinkTwice
<1> QED BY <1>2, <1>3, <1>4

LEMMA SearchIsOff == SearchOff => SearchInv
<1> SUFFICES ASSUME SearchOff PROVE SearchInv
  OBVIOUS
<1>1. 0 \in 0 .. 3 * MaxQueries
  BY SearchAssumption
<1>2. SearchTypeOK
  BY <1>1, NothingFound DEF SearchOff, SearchTypeOK
<1>3. NoLinkTwice(results) /\ Asked(results) <= MaxPaa
  BY NothingFound DEF SearchOff
<1> QED BY <1>2, <1>3 DEF SearchOff, SearchInv

LEMMA SearchIsOver ==
  ASSUME SearchInv,
         searchPc' = "off" /\ hasModel' = FALSE /\ depth' = "thorough" /\ requests' = 0,
         results' = <<>> /\ tokens' = <<>> /\ context' = <<>> /\ found' = "none"
  PROVE  SearchInv'
<1>1. 0 \in 0 .. 3 * MaxQueries
  BY SearchAssumption
<1>2. SearchTypeOK'
  BY <1>1, NothingFound DEF SearchTypeOK
<1>3. NoLinkTwice(results') /\ Asked(results') <= MaxPaa
  BY NothingFound
<1> QED BY <1>2, <1>3 DEF SearchInv

LEMMA SearchStarts == SearchInv /\ StartSearch => SearchInv'
BY NothingFound DEF SearchInv, SearchTypeOK, StartSearch, Found

LEMMA SearchKept == SearchInv /\ searchVars' = searchVars => SearchInv'
BY DEF SearchInv, SearchTypeOK, searchVars, Budget

LEMMA SearchGoesOn ==
  ASSUME SearchInv, SearchStep
  PROVE  SearchInv'
<1>1. /\ SearchTypeOK /\ NoLinkTwice(results) /\ Asked(results) <= MaxPaa
      /\ MaxQueries \in Nat /\ MaxPaa \in Nat /\ EntryTokens \subseteq Nat
  BY SearchAssumption DEF SearchInv
<1>2. CASE Plan
  <2>1. PICK d \in {"quick", "thorough"}, n \in 1 .. MaxQueries :
          depth' = d /\ requests' = Variants(d, n)
    BY <1>2 DEF Plan
  <2>2. requests' \in 0 .. 3 * MaxQueries
    BY <1>1, <2>1 DEF Variants
  <2>3. depth' \in {"quick", "thorough"}
    BY <2>1
  <2> QED BY <1>2, <2>2, <2>3 DEF Plan, SearchInv, SearchTypeOK
<1>3. CASE PlanPanics
  BY <1>3 DEF PlanPanics, SearchInv, SearchTypeOK
<1>4. CASE Collect
  <2>1. /\ searchPc = "collect" /\ requests > 0 /\ requests' = requests - 1
        /\ UNCHANGED <<searchPc, hasModel, depth, tokens, context, found>>
    BY <1>4 DEF Collect
  <2>2. requests' \in 0 .. 3 * MaxQueries
    BY <1>1, <2>1 DEF SearchTypeOK
  <2>3. results' \in Seq(Entries) /\ NoLinkTwice(results') /\ Asked(results') <= MaxPaa
    <3>1. CASE UNCHANGED results
      BY <1>1, <3>1 DEF SearchTypeOK
    <3>2. CASE \E graph \in BOOLEAN, n \in 0 .. MaxLinks, questions \in 0 .. 1 :
                 \E links \in [1 .. n -> Urls] : results' = Merge(results, graph, links, questions)
      <4>1. PICK graph \in BOOLEAN, n \in 0 .. MaxLinks, questions \in 0 .. 1 :
                   \E links \in [1 .. n -> Urls] : results' = Merge(results, graph, links, questions)
        BY <3>2
      <4>2. PICK links \in [1 .. n -> Urls] : results' = Merge(results, graph, links, questions)
        BY <4>1
      <4>3. n \in Nat /\ questions \in Nat /\ results \in Seq(Entries)
        BY <1>1 DEF SearchTypeOK
      <4>4. ASSUME NEW d, d = Merge(results, graph, links, questions)
            PROVE  d \in Seq(Entries) /\ NoLinkTwice(d) /\ Asked(d) <= MaxPaa
        BY <1>1, <4>3, <4>4, Merging
      <4> QED BY <4>2, <4>4
    <3> QED BY <1>4, <3>1, <3>2 DEF Collect
  <2> QED BY <1>1, <2>1, <2>2, <2>3 DEF SearchInv, SearchTypeOK
<1>5. CASE Collected
  BY <1>5 DEF Collected, Found, SearchInv, SearchTypeOK
<1>6. CASE Enrich
  <2>1. tokens' \in Seq(EntryTokens)
    <3>1. Len(results) \in Nat /\ tokens' \in [1 .. Len(results) -> EntryTokens]
      BY <1>1, <1>6 DEF Enrich, SearchTypeOK
    <3> QED BY <3>1
  <2> QED BY <1>6, <2>1 DEF Enrich, SearchInv, SearchTypeOK
<1>7. CASE Assemble
  <2>1. tokens \in Seq(Nat) /\ Budget \in Nat
    <3>1. Budget \in Nat
      BY SearchAssumption DEF Budget
    <3>2. tokens \in Seq(EntryTokens)
      BY <1>1 DEF SearchTypeOK
    <3>3. tokens \in Seq(Nat)
      <4>1. /\ Len(tokens) \in Nat /\ DOMAIN tokens = 1 .. Len(tokens)
            /\ tokens \in [1 .. Len(tokens) -> EntryTokens]
        BY <3>2, LenProperties
      <4>2. tokens \in [1 .. Len(tokens) -> Nat]
        BY <1>1, <4>1
      <4> QED BY <4>1, <4>2
    <3> QED BY <3>1, <3>3
  <2>2. context' \in Seq(Nat) /\ Longest(context', tokens, Budget)
    BY <1>7, <2>1, TakingIsLongest DEF Assemble
  <2>3. Budget' = Budget /\ tokens' = tokens
    BY <1>7 DEF Assemble, Budget
  <2> HIDE DEF Budget
  <2> QED BY <1>7, <2>2, <2>3 DEF Assemble, SearchInv, SearchTypeOK
<1>8. CASE Synthesize
  <2>1. Budget' = Budget /\ tokens' = tokens
    BY <1>8 DEF Synthesize, Budget
  <2> QED BY <1>8, <2>1 DEF Synthesize, Found, SearchInv, SearchTypeOK
<1> QED BY <1>2, <1>3, <1>4, <1>5, <1>6, <1>7, <1>8 DEF SearchStep

LEMMA SearchFits == SearchInv => ContextFitsBudget
BY DEF SearchInv, ContextFitsBudget, Longest, NoLinkTwice
-----------------------------------------------------------------------------
(* Types, and the theorems about the pipeline and the types.                 *)

Coding == [role : {"user", "assistant"}, says : Sayings]

LEMMA CodeStarts ==
  ASSUME CodeTypeOK, NEW v \in BOOLEAN, StartCode(v)
  PROVE  CodeTypeOK'
<1>1. Message("user", "task") \in Coding
  BY DEF Message, Coding, Sayings
<1>2. dialog' \in Seq(Coding)
  BY <1>1 DEF StartCode, Begin
<1>3. iteration' \in 0 .. MaxIterations
  BY CodeAssumption DEF StartCode, Begin
<1> QED BY <1>2, <1>3 DEF StartCode, Begin, Return, CodeTypeOK, Coding

LEMMA CodeGoesOn ==
  ASSUME CodeTypeOK, CodeStep
  PROVE  CodeTypeOK'
<1>1. MaxIterations \in Nat
  BY CodeAssumption
<1>2. /\ Message("assistant", "script") \in Coding /\ Message("user", "error") \in Coding
      /\ Message("user", "verify") \in Coding /\ Message("assistant", "verdict") \in Coding
  BY DEF Message, Coding, Sayings
<1>3. dialog \in Seq(Coding)
  BY DEF CodeTypeOK, Coding
<1>4. ASSUME Again
      PROVE  /\ codePc' \in {"done", "call"} /\ iteration' \in 0 .. MaxIterations
             /\ codeResult' \in {"none", "ok", "error"}
  BY <1>1, <1>4 DEF Again, Return, CodeTypeOK
<1>5. ASSUME Retry, UNCHANGED verify PROVE CodeTypeOK'
  <2>1. dialog' \in Seq(Coding)
    BY <1>2, <1>3, <1>5 DEF Retry
  <2>2. /\ codePc' \in {"done", "call"} /\ iteration' \in 0 .. MaxIterations
        /\ codeResult' \in {"none", "ok", "error"}
    BY <1>4, <1>5 DEF Retry
  <2> QED BY <1>5, <2>1, <2>2 DEF CodeTypeOK, Coding
<1>6. ASSUME Fail \/ Succeed \/ Goto("install") \/ Goto("extract") \/ Goto("run"), UNCHANGED verify
      PROVE  CodeTypeOK'
  BY <1>6 DEF Fail, Succeed, Goto, Return, CodeTypeOK
<1>7. CASE CallModel \/ Install \/ Extract
  BY <1>5, <1>6, <1>7 DEF CallModel, Install, Extract, CodeStep
<1>8. CASE Execute
  <2>1. CASE AskToVerify
    <3>1. dialog' \in Seq(Coding)
      BY <1>2, <1>3, <2>1 DEF AskToVerify
    <3> QED BY <2>1, <3>1 DEF AskToVerify, CodeTypeOK, Coding, CodeStep
  <2> QED BY <1>5, <1>6, <1>8, <2>1 DEF Execute, CodeStep
<1>9. CASE Verify
  <2>1. CASE dialog' = Append(dialog, Message("assistant", "verdict")) /\ Again
    <3>1. dialog' \in Seq(Coding)
      BY <1>2, <1>3, <2>1
    <3> QED BY <1>4, <2>1, <3>1 DEF CodeTypeOK, Coding, CodeStep
  <2> QED BY <1>6, <1>9, <2>1 DEF Verify, CodeStep
<1> QED BY <1>7, <1>8, <1>9 DEF CodeStep

Limited == [role : {"user", "assistant"}, about : SUBSET (0 .. MaxSteps)]

AdvTypeOK ==
  /\ advPc \in {"off", "ask", "direct", "code", "search", "question", "compress", "done"}
  /\ step \in 0 .. MaxSteps /\ ctx \in Seq(Limited) /\ pinned \in 1 .. 2
  /\ advResult \in {"none", "ok", "error"}

LEMMA Limits ==
  ASSUME AdvTypeOK, NEW role \in {"user", "assistant"}
  PROVE  About(role, {step}) \in Limited /\ Append(ctx, About(role, {step})) \in Seq(Limited)
<1>1. About(role, {step}) \in Limited
  BY DEF AdvTypeOK, About, Limited
<1> QED BY <1>1 DEF AdvTypeOK

LEMMA NextStepType ==
  ASSUME AdvTypeOK, NextStep \/ Finish("error") \/ Finish("ok"),
         ctx' \in Seq(Limited), pinned' = pinned
  PROVE  AdvTypeOK'
<1>1. MaxSteps \in Nat
  BY WorkersAssumption
<1>2. CASE Finish("error") \/ Finish("ok")
  BY <1>2 DEF Finish, AdvTypeOK
<1>3. CASE NextStep
  BY <1>1, <1>3 DEF NextStep, Finish, AdvTypeOK
<1> QED BY <1>2, <1>3

LEMMA CompressType ==
  ASSUME AdvTypeOK, Compress
  PROVE  ctx' \in Seq(Limited)
<1> DEFINE N == Len(ctx)
<1> DEFINE e == CompressEnd
<1> DEFINE all == UNION {ctx[k].about : k \in pinned + 1 .. e}
<1>1. ctx \in Seq(Limited) /\ N \in Nat /\ pinned \in 1 .. 2 /\ KeepRecent \in Nat \ {0}
      /\ N - pinned > KeepRecent + 2 /\ \A k \in 1 .. N : ctx[k] \in Limited
  BY WorkersAssumption, ElementOfSeq DEF AdvTypeOK, Compress
<1>2. e \in Nat /\ e < N
  BY <1>1 DEF CompressEnd
<1>3. ctx' = SubSeq(ctx, 1, pinned) \o <<About("user", all)>> \o SubSeq(ctx, e + 1, N)
  BY Zenon DEF Compress
<1> HIDE DEF e, N
<1>4. all \in SUBSET (0 .. MaxSteps)
  <2>1. \A k \in pinned + 1 .. e : k \in 1 .. N
    BY <1>1, <1>2
  <2>2. \A k \in pinned + 1 .. e : ctx[k].about \subseteq 0 .. MaxSteps
    BY <1>1, <2>1 DEF Limited
  <2> QED BY <2>2
<1> HIDE DEF all
<1>5. <<About("user", all)>> \in Seq(Limited)
  <2>1. About("user", all) \in Limited
    BY <1>4 DEF About, Limited
  <2> QED BY <2>1
<1>6. SubSeq(ctx, 1, pinned) \in Seq(Limited) /\ SubSeq(ctx, e + 1, N) \in Seq(Limited)
  <2>1. N = Len(ctx)
    BY DEF N
  <2> QED BY <1>1, <1>2, <2>1
<1> QED BY <1>3, <1>5, <1>6, ConcatProperties

LEMMA AdvGoesOn ==
  ASSUME AdvTypeOK,
         \/ StartAdvanced \/ AskFails \/ Ask \/ NoDirective \/ Done \/ DirectCode \/ DirectSearch
         \/ Question \/ CodeReturns \/ SearchReturns \/ Unanswered \/ Compress \/ KeepContext
         \/ Answer
  PROVE  AdvTypeOK'
<1>0. ctx \in Seq(Limited)
  BY DEF AdvTypeOK
<1>1. CASE StartAdvanced
  <2>1. About("user", {0}) \in Limited
    BY WorkersAssumption DEF About, Limited
  <2>2. ctx' \in Seq(Limited)
    BY <1>1, <2>1 DEF StartAdvanced
  <2> QED BY <1>1, <2>2, NextStepType DEF StartAdvanced
<1>2. CASE AskFails \/ Done \/ Unanswered \/ KeepContext
  BY <1>0, <1>2, NextStepType DEF AskFails, Done, Unanswered, KeepContext
<1>3. CASE Ask
  <2>1. ctx' \in Seq(Limited)
    BY <1>3, Limits DEF Ask
  <2> QED BY <1>3, <2>1 DEF Ask, AdvTypeOK
<1>4. ASSUME Feedback PROVE ctx' \in Seq(Limited) /\ pinned' = pinned
  BY <1>4, Limits DEF Feedback
<1>5. CASE NoDirective
  BY <1>4, <1>5, NextStepType DEF NoDirective
<1>6. CASE DirectCode \/ DirectSearch \/ Question
  BY <1>6 DEF DirectCode, DirectSearch, Question, Directed, AdvTypeOK
<1>7. CASE CodeReturns \/ SearchReturns \/ Answer
  <2>1. Resume
    BY <1>7 DEF CodeReturns, SearchReturns, Answer
  <2> QED BY <1>4, <2>1 DEF Resume, AdvTypeOK
<1>8. CASE Compress
  <2>1. ctx' \in Seq(Limited)
    BY <1>8, CompressType
  <2> QED BY <1>8, <2>1, NextStepType DEF Compress
<1> QED BY <1>1, <1>2, <1>3, <1>5, <1>6, <1>7, <1>8

TypeInv ==
  kind \in {"code", "search", "advanced"} /\ AdvTypeOK /\ CodeTypeOK /\ SearchInv

LEMMA TypesInit == Init => TypeInv
<1> SUFFICES ASSUME Init PROVE TypeInv
  OBVIOUS
<1>1. AdvTypeOK
  BY WorkersAssumption DEF Init, AdvTypeOK
<1>2. CodeTypeOK
  <2>1. 0 \in 0 .. MaxIterations /\ (kind = "code") \in BOOLEAN
    BY CodeAssumption
  <2> QED BY <2>1 DEF Init, CodeOff, CodeTypeOK
<1>3. SearchInv
  BY SearchIsOff DEF Init
<1> QED BY <1>1, <1>2, <1>3 DEF Init, TypeInv

LEMMA AdvKept == AdvTypeOK /\ advVars' = advVars => AdvTypeOK'
BY DEF AdvTypeOK, advVars

LEMMA CodeKept == CodeTypeOK /\ codeVars' = codeVars => CodeTypeOK'
BY DEF CodeTypeOK, codeVars

LEMMA TypesStep == TypeInv /\ [Next]_vars => TypeInv'
<1> SUFFICES ASSUME TypeInv, [Next]_vars PROVE TypeInv'
  OBVIOUS
<1>1. AdvTypeOK /\ CodeTypeOK /\ SearchInv /\ kind \in {"code", "search", "advanced"}
  BY DEF TypeInv
<1>2. kind' = kind
  BY DEF Next, Work, vars
<1>3. CASE StartTask \/ SubtaskStep
  <2>1. AdvTypeOK'
    BY <1>1, <1>3, AdvKept DEF StartTask, SubtaskStep
  <2>2. CodeTypeOK'
    BY <1>1, <1>3, CodeStarts, CodeGoesOn, CodeKept DEF StartTask, SubtaskStep
  <2>3. SearchInv'
    BY <1>1, <1>3, SearchStarts, SearchGoesOn, SearchKept DEF StartTask, SubtaskStep
  <2> QED BY <1>1, <1>2, <2>1, <2>2, <2>3 DEF TypeInv
<1>4. CASE DirectCode
  BY <1>1, <1>2, <1>4, AdvGoesOn, CodeStarts, SearchKept DEF DirectCode, TypeInv
<1>5. CASE DirectSearch
  BY <1>1, <1>2, <1>5, AdvGoesOn, CodeKept, SearchStarts DEF DirectSearch, TypeInv
<1>6. CASE CodeReturns
  <2>1. CodeTypeOK'
    BY <1>1, <1>6, CodeAssumption DEF CodeReturns, CodeTypeOK
  <2>2. searchVars' = searchVars
    BY <1>6 DEF CodeReturns
  <2> QED BY <1>1, <1>2, <1>6, <2>1, <2>2, AdvGoesOn, SearchKept DEF TypeInv
<1>7. CASE SearchReturns
  <2>1. SearchInv'
    BY <1>1, <1>7, SearchIsOver DEF SearchReturns
  <2>2. codeVars' = codeVars
    BY <1>7 DEF SearchReturns
  <2> QED BY <1>1, <1>2, <1>7, <2>1, <2>2, AdvGoesOn, CodeKept DEF TypeInv
<1>8. CASE \/ StartAdvanced \/ AskFails \/ Ask \/ NoDirective \/ Done \/ Question
           \/ Unanswered \/ Compress \/ KeepContext \/ Answer
  <2>1. codeVars' = codeVars /\ searchVars' = searchVars
    BY <1>8 DEF StartAdvanced, AskFails, Ask, NoDirective, Done, Question, Unanswered, Compress,
                KeepContext, Answer, Still
  <2> QED BY <1>1, <1>2, <1>8, <2>1, AdvGoesOn, CodeKept, SearchKept DEF TypeInv
<1>9. CASE UNCHANGED vars
  <2>1. advVars' = advVars /\ codeVars' = codeVars /\ searchVars' = searchVars
    BY <1>9 DEF vars
  <2> QED BY <1>1, <1>2, <2>1, AdvKept, CodeKept, SearchKept DEF TypeInv
<1> QED BY <1>3, <1>4, <1>5, <1>6, <1>7, <1>8, <1>9 DEF Next, Work

\* Every variable of a worker keeps its type: no step and no iteration is beyond
\* its limit, and no message is about a step beyond it (run_inner,
\* run_code_loop, run_search_inner).
THEOREM TypeCorrect == Spec => []TypeOK
<1>1. TypeInv => TypeOK
  BY DEF TypeInv, TypeOK, AdvTypeOK, Limited, SearchInv
<1> QED BY <1>1, TypesInit, TypesStep, PTL DEF Spec

\* For any results, numbers of tokens and budgets, the model of a search is given
\* the longest run of results that fits, and they hold no link twice, one
\* knowledge graph and no more questions than the limit (collect_and_dedup,
\* create_context).
THEOREM BudgetIsUsed == Spec => []ContextFitsBudget
<1>1. TypeInv => ContextFitsBudget
  BY SearchFits DEF TypeInv
<1> QED BY <1>1, TypesInit, TypesStep, PTL DEF Spec
=============================================================================
