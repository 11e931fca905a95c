------------------------- MODULE SessionMemoryProofs -------------------------
(***************************************************************************)
(* Theorems about SessionMemory, for any exchanges and intervals: while no   *)
(* agent fails and none is overtaken, the memory misses no fact of a         *)
(* finished interval.                                                       *)
(***************************************************************************)
EXTENDS SessionMemory, WellFoundedInduction, NaturalsInduction, FiniteSetTheorems, TLAPS

(* Arithmetic.                                                             *)

\* Of any set of naturals one is the least.
LEMMA LeastElement ==
  ASSUME NEW S \in SUBSET Nat, S # {}
  PROVE  \E x \in S : \A y \in S : x <= y
<1> DEFINE Less == {ss \in Nat \X Nat : ss[1] < ss[2]}
<1>1. IsWellFoundedOn(Less, Nat)
  BY NatLessThanWellFounded, Zenon DEF OpToRel
<1>2. \A a, b \in Nat : a < b => <<a, b>> \in Less
  OBVIOUS
<1> HIDE DEF Less
<1>3. PICK x \in S : \A y \in S : <<y, x>> \notin Less
  BY <1>1, WFMin, Zenon
<1>4. \A y \in S : x \in Nat /\ y \in Nat /\ ~ (y < x)
  BY <1>2, <1>3
<1> QED BY <1>4


\* The turns of the intervals that are over after n turns.
Due(i, n) == i * (n \div i)

LEMMA DueBounds ==
  ASSUME NEW i \in Nat, i > 0, NEW n \in Nat
  PROVE  /\ Due(i, n) \in Nat /\ Due(i, n) + (n % i) = n /\ n % i \in 0 .. i - 1
  BY DEF Due
LEMMA DueStep ==
  ASSUME NEW i \in Nat, i > 0, NEW n \in Nat
  PROVE  \/ Due(i, n + 1) = Due(i, n)
         \/ Due(i, n + 1) = n + 1 /\ Due(i, n) = n + 1 - i
<1> DEFINE q == n \div i
<1> DEFINE p == (n + 1) \div i
<1>1. q \in Nat /\ p \in Nat /\ i * q \in Nat /\ i * p \in Nat
    OBVIOUS
<1>2. i * q <= n /\ n < i * q + i
    OBVIOUS
<1>3. i * p <= n + 1 /\ n + 1 < i * p + i
    OBVIOUS
<1> HIDE DEF p, q
<1>4. i * p = i * q \/ i * p = i * q + i
    <2>1. i * (p - q) = i * p - i * q /\ p - q \in Int
      BY <1>1
    <2>2. CASE p - q >= 2
      <3>1. i * (p - q) >= i + i
        BY <2>1, <2>2
      <3> QED BY <1>1, <1>2, <1>3, <2>1, <3>1
    <2>3. CASE p - q <= -1
      <3>1. i * (p - q) <= -i
        BY <2>1, <2>3
      <3> QED BY <1>1, <1>2, <1>3, <2>1, <3>1
    <2>4. CASE p - q = 0 \/ p - q = 1
      BY <1>1, <2>1, <2>4
    <2> QED BY <2>1, <2>2, <2>3, <2>4
<1>5. i * p = i * q + i => i * p = n + 1
    BY <1>1, <1>2, <1>3
<1> QED BY <1>1, <1>4, <1>5 DEF Due, p, q

-----------------------------------------------------------------------------
(* Types.                                                                  *)

Turns == [role : {"user", "assistant"}, of : Exchanges]

LEMMA TypeInit == Init => TypeOK
<1> SUFFICES ASSUME Init PROVE TypeOK
  OBVIOUS
<1>1. log \in Seq(Turns)
  BY DEF Init
<1>2. pc \in [Exchanges -> {"run", "answer", "spawned", "due", "load", "merge", "done"}]
  BY DEF Init
<1> QED BY <1>1, <1>2 DEF Init, TypeOK, Turns

\* The window of an agent holds the exchanges of the last 2 * interval turns.
LEMMA RecentTurns ==
  ASSUME log \in Seq(Turns), interval \in Nat
  PROVE  /\ Recent \in SUBSET Exchanges
         /\ \A k \in 1 .. Len(log) : k > Len(log) - 2 * interval => log[k].of \in Recent
<1> DEFINE a == 1 + (IF Len(log) > 2 * interval THEN Len(log) - 2 * interval ELSE 0)
<1> DEFINE s == SubSeq(log, a, Len(log))
<1>1. Len(log) \in Nat /\ a \in 1 .. Len(log) + 1 /\ a > Len(log) - 2 * interval
      /\ \A k \in 1 .. Len(log) : k > Len(log) - 2 * interval => k >= a
  OBVIOUS
<1>2. Recent = {t.of : t \in Range(s)}
  BY DEF Recent
<1> HIDE DEF a
<1>3. /\ Len(s) = Len(log) - a + 1
      /\ \A k \in 1 .. Len(s) : s[k] = log[a + k - 1]
  BY <1>1
<1>4. s \in Seq(Turns)
  BY <1>1
<1> HIDE DEF s
<1>5. Range(s) \subseteq Turns
  BY <1>4 DEF Range
<1>6. Recent \in SUBSET Exchanges
  BY <1>2, <1>5 DEF Turns
<1>7. ASSUME NEW k \in 1 .. Len(log), k > Len(log) - 2 * interval PROVE log[k].of \in Recent
  <2>1. k - a + 1 \in 1 .. Len(s) /\ a + (k - a + 1) - 1 = k
    BY <1>1, <1>3, <1>7
  <2>2. s[k - a + 1] = log[k] /\ k - a + 1 \in DOMAIN s
    BY <1>3, <1>4, <2>1
  <2> QED BY <1>2, <2>2 DEF Range
<1> QED BY <1>6, <1>7

LEMMA TypeStep == TypeOK /\ [Next]_vars => TypeOK'
<1> SUFFICES ASSUME TypeOK, [Next]_vars PROVE TypeOK'
  OBVIOUS
<1> USE DEF TypeOK, Goto, Leave
<1>1. ASSUME NEW e \in Exchanges, RecordUser(e) \/ RecordAnswer(e) PROVE TypeOK'
  <2>1. log' = Append(log, Turn("user", e)) \/ log' = Append(log, Turn("assistant", e))
    BY <1>1 DEF RecordUser, RecordAnswer
  <2>2. log \in Seq(Turns) /\ Turn("user", e) \in Turns /\ Turn("assistant", e) \in Turns
    BY DEF Turn, Turns
  <2>3. log' \in Seq(Turns)
    BY <2>1, <2>2
  <2>4. log' \in Seq([role : {"user", "assistant"}, of : Exchanges])
    BY <2>3 DEF Turns
  <2> QED BY <1>1, <2>4 DEF RecordUser, RecordAnswer
<1>2. ASSUME NEW e \in Exchanges, Check(e) PROVE TypeOK'
  BY <1>2 DEF Check
<1>3. ASSUME NEW e \in Exchanges, ReadHistory(e) PROVE TypeOK'
  <2>1. Recent \in SUBSET Exchanges
    BY MemoryAssumption, RecentTurns DEF Turns
  <2> QED BY <1>3, <2>1 DEF ReadHistory
<1>4. ASSUME NEW e \in Exchanges, ReadMemory(e) PROVE TypeOK'
  BY <1>4 DEF ReadMemory
<1>5. ASSUME NEW e \in Exchanges, Write(e) PROVE TypeOK'
  BY <1>5 DEF Write
<1>6. ASSUME NEW e \in Exchanges, MissMemory(e) \/ Fail(e) PROVE TypeOK'
  BY <1>6 DEF MissMemory, Fail
<1>7. CASE UNCHANGED vars
  BY <1>7 DEF vars
<1> QED BY <1>1, <1>2, <1>3, <1>4, <1>5, <1>6, <1>7 DEF Next
-----------------------------------------------------------------------------
(* While none is overtaken, exchanges are recorded one after the other, and   *)
(* memory agents read and write the file one after the other.                *)

Busy == {"answer", "spawned", "due"}

Alternates ==
  \A k \in 1 .. Len(log) : log[k].role = IF k % 2 = 1 THEN "user" ELSE "assistant"

OrderInv ==
  /\ \A e, f \in Exchanges : pc[e] \in Busy /\ pc[f] \in Busy => e = f
  /\ \A e, f \in Exchanges : pc[e] = "merge" /\ pc[f] = "merge" => e = f
  /\ Alternates
  /\ Len(log) % 2 = 1 <=> \E e \in Exchanges : pc[e] = "answer"
  /\ \A e \in Exchanges : pc[e] = "merge" => base[e] = memory

\* The k-th exchange is remembered, shown to an agent at work, or one of the
\* interval whose agent is about to look.
Remembered(n, k) ==
  \/ log[2 * k - 1].of \in memory
  \/ \E e \in Exchanges : pc[e] \in {"load", "merge"} /\ log[2 * k - 1].of \in window[e]
  \/ n = Due(interval, n) /\ k > n - interval /\ \E e \in Exchanges : pc[e] \in Busy

CoverInv ==
  LET n == (Len(log) + 1) \div 2
  IN  \A k \in 1 .. Due(interval, n) : log[2 * k - 1].of \in facts => Remembered(n, k)

MemoryInv ==
  ~overlap /\ ~failed => OrderInv /\ (interval > 0 => CoverInv)

\* Every other turn is a user's.
LEMMA TurnsAreCounted ==
  ASSUME log \in Seq(Turns), Alternates, NEW n \in 0 .. Len(log)
  PROVE  IsFiniteSet(UserTurns(n)) /\ Cardinality(UserTurns(n)) = (n + 1) \div 2
<1> DEFINE Counted(k) == IsFiniteSet(UserTurns(k)) /\ Cardinality(UserTurns(k)) = (k + 1) \div 2
<1> DEFINE S == {k \in 0 .. Len(log) : ~ Counted(k)}
<1>1. Len(log) \in Nat /\ S \in SUBSET Nat
  OBVIOUS
<1>2. Counted(0)
  <2>1. UserTurns(0) = {}
    BY DEF UserTurns
  <2> QED BY <2>1, FS_EmptySet
<1>3. ASSUME NEW k \in 0 .. Len(log), k # 0, Counted(k - 1) PROVE Counted(k)
  <2>1. log[k].role = IF k % 2 = 1 THEN "user" ELSE "assistant"
    BY <1>1, <1>3 DEF Alternates
  <2>2. CASE k % 2 = 1
    <3>1. UserTurns(k) = UserTurns(k - 1) \cup {k}
      BY <1>1, <1>3, <2>1, <2>2 DEF UserTurns
    <3>2. k \notin UserTurns(k - 1)
      BY <1>1, <1>3 DEF UserTurns
    <3>3. IsFiniteSet(UserTurns(k)) /\ Cardinality(UserTurns(k)) = ((k - 1 + 1) \div 2) + 1
      BY <1>3, <3>1, <3>2, FS_AddElement
    <3>4. ((k - 1 + 1) \div 2) + 1 = (k + 1) \div 2
      BY <1>1, <1>3, <2>2
    <3> QED BY <3>3, <3>4
  <2>3. CASE k % 2 # 1
    <3>1. UserTurns(k) = UserTurns(k - 1)
      BY <1>1, <1>3, <2>1, <2>3 DEF UserTurns
    <3>2. (k - 1 + 1) \div 2 = (k + 1) \div 2
      BY <1>1, <1>3, <2>3
    <3> QED BY <1>3, <3>1, <3>2
  <2> QED BY <2>2, <2>3
<1> HIDE DEF Counted
<1>4. ASSUME S # {} PROVE FALSE
  <2>1. PICK x \in S : \A y \in S : x <= y
    BY <1>1, <1>4, LeastElement
  <2>2. x \in 0 .. Len(log) /\ x # 0 /\ ~ Counted(x)
    BY <1>2, <2>1
  <2>3. x - 1 \in 0 .. Len(log) /\ x - 1 \notin S
    BY <1>1, <2>1, <2>2
  <2>4. Counted(x - 1)
    BY <2>3
  <2> QED BY <1>3, <2>2, <2>4
<1>5. Counted(n)
  BY <1>4
<1> QED BY <1>5 DEF Counted

LEMMA OrderInit == Init => OrderInv
BY DEF Init, OrderInv, Alternates, Busy

LEMMA OrderStep ==
  ASSUME TypeOK, OrderInv, [Next]_vars, ~overlap', ~failed'
  PROVE  OrderInv'
<1> USE DEF TypeOK, Goto, Leave, Busy
<1>a. log \in Seq(Turns) /\ Len(log) \in Nat
  BY DEF Turns
<1>1. ASSUME NEW e \in Exchanges, RecordUser(e) PROVE OrderInv'
  <2>1. /\ ~ Another(e, {"answer", "spawned", "due"}) /\ pc[e] = "run"
        /\ pc' = [pc EXCEPT ![e] = "answer"] /\ log' = Append(log, Turn("user", e))
        /\ UNCHANGED <<base, memory>>
    BY <1>1 DEF RecordUser
  <2>2. \A f \in Exchanges : pc[f] \notin Busy
    BY <2>1 DEF Another
  <2>3. Len(log) % 2 = 0
    BY <1>a, <2>2 DEF OrderInv
  <2>4. Alternates'
    <3>1. Turn("user", e).role = "user" /\ Turn("user", e) \in Turns
      BY DEF Turn, Turns
    <3> HIDE DEF TypeOK
    <3>2. \A k \in 1 .. Len(log) + 1 :
            log'[k].role = IF k % 2 = 1 THEN "user" ELSE "assistant"
      BY <1>a, <2>1, <2>3, <3>1 DEF OrderInv, Alternates
    <3>3. Len(log') = Len(log) + 1
      BY <1>a, <2>1, <3>1
    <3> QED BY <3>2, <3>3 DEF Alternates
  <2>5. Len(log') % 2 = 1
    <3>1. Len(log') = Len(log) + 1
      BY <1>a, <2>1 DEF Turn, Turns
    <3> QED BY <1>a, <2>3, <3>1
  <2>6. pc'[e] = "answer" /\ \A f \in Exchanges \ {e} : pc'[f] = pc[f]
    BY <2>1
  <2> HIDE DEF TypeOK
  <2> QED BY <2>1, <2>2, <2>4, <2>5, <2>6 DEF OrderInv
<1>2. ASSUME NEW e \in Exchanges, RecordAnswer(e) PROVE OrderInv'
  <2>1. /\ pc[e] = "answer" /\ pc' = [pc EXCEPT ![e] = "spawned"]
        /\ log' = Append(log, Turn("assistant", e)) /\ UNCHANGED <<base, memory>>
    BY <1>2 DEF RecordAnswer
  <2>2. Len(log) % 2 = 1
    BY <2>1 DEF OrderInv
  <2>4. Alternates'
    <3>1. Turn("assistant", e).role = "assistant" /\ Turn("assistant", e) \in Turns
      BY DEF Turn, Turns
    <3> HIDE DEF TypeOK
    <3>2. \A k \in 1 .. Len(log) + 1 :
            log'[k].role = IF k % 2 = 1 THEN "user" ELSE "assistant"
      BY <1>a, <2>1, <2>2, <3>1 DEF OrderInv, Alternates
    <3>3. Len(log') = Len(log) + 1
      BY <1>a, <2>1, <3>1
    <3> QED BY <3>2, <3>3 DEF Alternates
  <2>5. Len(log') % 2 = 0
    <3>1. Len(log') = Len(log) + 1
      BY <1>a, <2>1 DEF Turn, Turns
    <3> QED BY <1>a, <2>2, <3>1
  <2>6. pc'[e] = "spawned" /\ \A f \in Exchanges \ {e} : pc'[f] = pc[f]
    BY <2>1
  <2>7. \A f \in Exchanges \ {e} : pc[f] \notin Busy
    BY <2>1 DEF OrderInv
  <2> HIDE DEF TypeOK
  <2> QED BY <2>1, <2>4, <2>5, <2>6, <2>7 DEF OrderInv
<1>3. ASSUME NEW e \in Exchanges, NEW s \in {"done", "due", "load"}, Goto(e, s),
             pc[e] \in {"spawned", "due"}, UNCHANGED <<log, base, memory>>, s # "due" \/ pc[e] = "spawned"
      PROVE  OrderInv'
  <2>1. pc'[e] = s /\ \A f \in Exchanges \ {e} : pc'[f] = pc[f]
    BY <1>3
  <2> HIDE DEF TypeOK
  <2> QED BY <1>3, <2>1 DEF OrderInv, Alternates
<1>4. ASSUME NEW e \in Exchanges, Check(e) \/ ReadHistory(e) PROVE OrderInv'
  BY <1>3, <1>4 DEF Check, ReadHistory
<1>5. ASSUME NEW e \in Exchanges, ReadMemory(e) PROVE OrderInv'
  <2>1. /\ ~ Another(e, {"load", "merge"}) /\ pc[e] = "load"
        /\ pc'[e] = "merge" /\ base'[e] = memory /\ UNCHANGED <<log, memory>>
        /\ \A f \in Exchanges \ {e} : pc'[f] = pc[f] /\ base'[f] = base[f]
    BY <1>5 DEF ReadMemory
  <2> HIDE DEF TypeOK
  <2> QED BY <2>1 DEF OrderInv, Alternates, Another
<1>6. ASSUME NEW e \in Exchanges, Write(e) PROVE OrderInv'
  <2>1. /\ pc[e] = "merge" /\ pc'[e] = "done" /\ UNCHANGED log
        /\ \A f \in Exchanges \ {e} : pc'[f] = pc[f] /\ base'[f] = base[f]
    BY <1>6 DEF Write
  <2> HIDE DEF TypeOK
  <2> QED BY <2>1 DEF OrderInv, Alternates
<1>7. CASE UNCHANGED vars
  BY <1>7 DEF vars, OrderInv, Alternates
<1>8. ASSUME NEW e \in Exchanges, MissMemory(e) \/ Fail(e) PROVE FALSE
  BY <1>8 DEF MissMemory, Fail
<1> QED BY <1>1, <1>2, <1>4, <1>5, <1>6, <1>7, <1>8 DEF Next

\* What the number of turns says of the number of exchanges.
LEMMA ExchangesAreTurns ==
  ASSUME NEW l \in Nat, NEW n, n = (l + 1) \div 2
  PROVE  /\ n \in Nat
         /\ l % 2 = 0 => l = 2 * n /\ (l + 1 + 1) \div 2 = n + 1
         /\ l % 2 = 1 => l = 2 * n - 1 /\ (l + 1 + 1) \div 2 = n
         /\ \A k \in 1 .. n : 2 * k - 1 \in 1 .. l
OBVIOUS

LEMMA CoverInit == Init /\ interval > 0 => CoverInv
<1> SUFFICES ASSUME Init, interval > 0 PROVE CoverInv
  OBVIOUS
<1>1. (Len(log) + 1) \div 2 = 0
  BY DEF Init
<1>2. interval \in Nat
  BY MemoryAssumption DEF Init
<1>3. Due(interval, 0) = 0
  BY <1>2, DueBounds
<1> QED BY <1>1, <1>3 DEF CoverInv

\* What is remembered stays so, unless an agent leaves without having written.
LEMMA RememberedKept ==
  ASSUME NEW n \in Nat, NEW k \in Nat, Remembered(n, k), UNCHANGED <<interval, facts>>,
         log'[2 * k - 1] = log[2 * k - 1], log[2 * k - 1].of \in facts,
         memory \cap facts \subseteq memory',
         \A e \in Exchanges : pc[e] \in {"load", "merge"} =>
           \/ pc'[e] \in {"load", "merge"} /\ window'[e] = window[e]
           \/ window[e] \cap facts \subseteq memory',
         \A e \in Exchanges : pc[e] \in Busy /\ n = Due(interval, n) /\ k > n - interval =>
           \/ pc'[e] \in Busy
           \/ pc'[e] \in {"load", "merge"} /\ log[2 * k - 1].of \in window'[e]
  PROVE  Remembered(n, k)'
<1> DEFINE x == log[2 * k - 1].of
<1>1. x = log'[2 * k - 1].of /\ x \in facts
  OBVIOUS
<1>2. CASE x \in memory
  BY <1>1, <1>2 DEF Remembered
<1>3. ASSUME NEW e \in Exchanges, pc[e] \in {"load", "merge"}, x \in window[e]
      PROVE  Remembered(n, k)'
  <2>1. x \in memory' \/ (pc'[e] \in {"load", "merge"} /\ x \in window'[e])
    BY <1>1, <1>3
  <2> QED BY <1>1, <2>1 DEF Remembered
<1>4. ASSUME NEW e \in Exchanges, pc[e] \in Busy, n = Due(interval, n), k > n - interval
      PROVE  Remembered(n, k)'
  <2>1. pc'[e] \in Busy \/ (pc'[e] \in {"load", "merge"} /\ x \in window'[e])
    BY <1>4
  <2> QED BY <1>1, <1>4, <2>1 DEF Remembered
<1> QED BY <1>2, <1>3, <1>4 DEF Remembered

CoverPre == TypeOK /\ OrderInv /\ CoverInv /\ interval > 0

LEMMA CoverFacts ==
  ASSUME CoverPre, NEW n, n = (Len(log) + 1) \div 2
  PROVE  /\ log \in Seq(Turns) /\ Len(log) \in Nat /\ interval \in Nat /\ n \in Nat
         /\ Due(interval, n) \in Nat /\ Due(interval, n) + (n % interval) = n
         /\ n % interval \in 0 .. interval - 1
         /\ \A k \in 1 .. Due(interval, n) :
              k \in Nat /\ k <= n /\ 2 * k - 1 \in 1 .. Len(log)
              /\ (log[2 * k - 1].of \in facts => Remembered(n, k))
         /\ TurnCount = n
<1>1. /\ log \in Seq(Turns) /\ Len(log) \in Nat /\ interval \in Nat /\ interval > 0
  BY MemoryAssumption DEF CoverPre, TypeOK, Turns
<1>2. n \in Nat /\ \A k \in 1 .. n : 2 * k - 1 \in 1 .. Len(log)
  BY <1>1, ExchangesAreTurns
<1>3. /\ Due(interval, n) \in Nat /\ Due(interval, n) + (n % interval) = n
      /\ n % interval \in 0 .. interval - 1
  BY <1>1, <1>2, DueBounds
<1>4. \A k \in 1 .. Due(interval, n) : k \in 1 .. n
  BY <1>2, <1>3
<1>5. \A k \in 1 .. Due(interval, n) : log[2 * k - 1].of \in facts => Remembered(n, k)
  BY DEF CoverPre, CoverInv
<1>6. TurnCount = n
  BY <1>1, TurnsAreCounted DEF CoverPre, OrderInv, TurnCount
<1> QED BY <1>1, <1>2, <1>3, <1>4, <1>5, <1>6

LEMMA CoverRecordUser ==
  ASSUME CoverPre, NEW e \in Exchanges, RecordUser(e), ~overlap',
         NEW n, n = (Len(log) + 1) \div 2, NEW m, m = n + 1
  PROVE  CoverInv'
<1>1. /\ ~ Another(e, {"answer", "spawned", "due"}) /\ pc[e] = "run"
      /\ pc' = [pc EXCEPT ![e] = "answer"] /\ log' = Append(log, Turn("user", e))
      /\ UNCHANGED <<interval, facts, memory, window>>
  BY DEF RecordUser, Goto
<1>2. \A f \in Exchanges : pc[f] \notin Busy
  BY <1>1 DEF Another, Busy
<1>3. pc'[e] \in Busy /\ \A f \in Exchanges : pc[f] \in {"load", "merge"} => pc'[f] = pc[f]
  BY <1>1 DEF CoverPre, TypeOK, Busy
<1>4. Len(log) % 2 = 0
  <2>1. Len(log) \in Nat
    BY CoverFacts
  <2>2. Len(log) % 2 # 1
    BY <1>2 DEF CoverPre, OrderInv, Busy
  <2> QED BY <2>1, <2>2
<1>5. Len(log') = Len(log) + 1 /\ \A j \in 1 .. Len(log) : log'[j] = log[j]
  BY <1>1, CoverFacts DEF Turn, Turns
<1>6. n \in Nat /\ Len(log) = 2 * n /\ (Len(log') + 1) \div 2 = m
  BY <1>4, <1>5, CoverFacts, ExchangesAreTurns
<1>7. ASSUME NEW k \in 1 .. Due(interval, m), log'[2 * k - 1].of \in facts
      PROVE  Remembered(m, k)'
  <2>1. CASE k \in 1 .. Due(interval, n)
    <3>1. 2 * k - 1 \in 1 .. Len(log) /\ Remembered(n, k)
      BY <1>5, <1>7, <2>1, CoverFacts
    <3>2. \/ log[2 * k - 1].of \in memory
          \/ \E f \in Exchanges : pc[f] \in {"load", "merge"} /\ log[2 * k - 1].of \in window[f]
      BY <1>2, <3>1 DEF Remembered
    <3> QED BY <1>1, <1>3, <1>5, <3>1, <3>2 DEF Remembered
  <2>2. CASE k \notin 1 .. Due(interval, n)
    <3>1. interval \in Nat /\ interval > 0 /\ Due(interval, n) \in Nat
      BY CoverFacts DEF CoverPre
    <3>2. Due(interval, m) = m /\ Due(interval, n) = m - interval
      BY <1>6, <1>7, <2>2, <3>1, DueStep
    <3>3. k > m - interval
      BY <1>6, <1>7, <2>2, <3>1, <3>2
    <3>4. interval' = interval /\ pc'[e] \in Busy
      BY <1>1, <1>3
    <3> QED BY <3>2, <3>3, <3>4 DEF Remembered
  <2> QED BY <2>1, <2>2
<1>8. interval' = interval /\ facts' = facts
  BY <1>1
<1> QED BY <1>6, <1>7, <1>8 DEF CoverInv

LEMMA CoverRecordAnswer ==
  ASSUME CoverPre, NEW e \in Exchanges, RecordAnswer(e),
         NEW n, n = (Len(log) + 1) \div 2
  PROVE  CoverInv'
<1>1. /\ pc[e] = "answer" /\ pc' = [pc EXCEPT ![e] = "spawned"]
      /\ log' = Append(log, Turn("assistant", e))
      /\ UNCHANGED <<interval, facts, memory, window>>
  BY DEF RecordAnswer, Goto
<1>2. \A f \in Exchanges : /\ pc[f] \in {"load", "merge"} => pc'[f] = pc[f]
                           /\ pc[f] \in Busy => pc'[f] \in Busy
  BY <1>1 DEF CoverPre, TypeOK, Busy
<1>3. Len(log) % 2 = 1
  BY <1>1 DEF CoverPre, OrderInv
<1>4. Len(log') = Len(log) + 1 /\ \A j \in 1 .. Len(log) : log'[j] = log[j]
  BY <1>1, CoverFacts DEF Turn, Turns
<1>5. n \in Nat /\ (Len(log') + 1) \div 2 = n
  BY <1>3, <1>4, CoverFacts, ExchangesAreTurns
<1>6. ASSUME NEW k \in 1 .. Due(interval, n), log'[2 * k - 1].of \in facts
      PROVE  Remembered(n, k)'
  <2>1. k \in Nat /\ log'[2 * k - 1] = log[2 * k - 1] /\ Remembered(n, k)
    BY <1>4, <1>6, CoverFacts
  <2> QED BY <1>1, <1>2, <1>5, <1>6, <2>1, RememberedKept
<1>7. interval' = interval /\ facts' = facts
  BY <1>1
<1> QED BY <1>5, <1>6, <1>7 DEF CoverInv

\* A memory agent's step.
LEMMA CoverAgent ==
  ASSUME CoverPre, NEW e \in Exchanges,
         Check(e) \/ ReadHistory(e) \/ ReadMemory(e) \/ Write(e),
         NEW n, n = (Len(log) + 1) \div 2
  PROVE  CoverInv'
<1>1. UNCHANGED <<interval, facts, log>>
  BY DEF Check, ReadHistory, ReadMemory, Write
<1>a. /\ DOMAIN pc = Exchanges /\ DOMAIN window = Exchanges
      /\ window[e] \subseteq Exchanges
  BY DEF CoverPre, TypeOK
<1>2. memory \cap facts \subseteq memory'
  <2>1. CASE Write(e)
    <3>1. base[e] = memory
      BY <2>1 DEF CoverPre, OrderInv, Write
    <3> QED BY <2>1, <3>1 DEF Write
  <2> QED BY <2>1 DEF Check, ReadHistory, ReadMemory
<1>3. ASSUME NEW f \in Exchanges, pc[f] \in {"load", "merge"}
      PROVE  \/ pc'[f] \in {"load", "merge"} /\ window'[f] = window[f]
             \/ window[f] \cap facts \subseteq memory'
  <2>1. CASE f # e
    BY <1>a, <1>3, <2>1 DEF Check, ReadHistory, ReadMemory, Write, Goto, Leave
  <2>2. CASE f = e /\ Write(e)
    BY <1>3, <2>2 DEF Write
  <2>3. CASE f = e /\ ReadMemory(e)
    BY <1>a, <1>3, <2>3 DEF ReadMemory, Goto
  <2> QED BY <1>3, <2>1, <2>2, <2>3 DEF Check, ReadHistory
<1>4. ASSUME NEW f \in Exchanges, pc[f] \in Busy, n = Due(interval, n), NEW k \in 1 .. Due(interval, n),
             k > n - interval
      PROVE  \/ pc'[f] \in Busy
             \/ pc'[f] \in {"load", "merge"} /\ log[2 * k - 1].of \in window'[f]
  <2>1. CASE f # e
    BY <1>a, <1>4, <2>1 DEF Check, ReadHistory, ReadMemory, Write, Goto, Leave
  <2>2. CASE f = e /\ Check(e)
    <3>0. /\ n \in Nat /\ interval \in Nat /\ Due(interval, n) + (n % interval) = n
          /\ n % interval \in 0 .. interval - 1
      BY CoverFacts
    <3>1. n % interval = 0 /\ n # 0 /\ interval # 0
      BY <1>4, <3>0 DEF CoverPre
    <3>2. pc'[e] = "due"
      BY <1>a, <2>2, <3>1, CoverFacts DEF Check, Goto
    <3> QED BY <2>2, <3>2 DEF Busy
  <2>3. CASE f = e /\ ReadHistory(e)
    <3>1. pc'[e] = "load" /\ window'[e] = Recent /\ pc[e] = "due"
      BY <1>a, <2>3 DEF ReadHistory, Goto
    <3>2. \A g \in Exchanges : pc[g] # "answer"
      BY <3>1 DEF CoverPre, OrderInv, Busy
    <3>3. Len(log) \in Nat /\ interval \in Nat /\ log \in Seq(Turns) /\ 2 * k - 1 \in 1 .. Len(log)
          /\ k \in Nat
      BY <1>4, CoverFacts
    <3>4. Len(log) % 2 # 1
      BY <3>2 DEF CoverPre, OrderInv
    <3>5. Len(log) % 2 = 0
      BY <3>3, <3>4
    <3>7. Len(log) = 2 * n /\ n \in Nat
      BY <3>3, <3>5, ExchangesAreTurns
    <3>6. 2 * k - 1 > Len(log) - 2 * interval
      BY <1>4, <3>3, <3>7
    <3> QED BY <2>3, <3>1, <3>3, <3>6, RecentTurns
  <2>4. CASE f = e /\ (ReadMemory(e) \/ Write(e))
    BY <1>4, <2>4 DEF ReadMemory, Write, Busy
  <2> QED BY <2>1, <2>2, <2>3, <2>4
<1>5. ASSUME NEW k \in 1 .. Due(interval, n), log[2 * k - 1].of \in facts
      PROVE  Remembered(n, k)'
  <2>1. k \in Nat /\ n \in Nat /\ Remembered(n, k)
    BY <1>5, CoverFacts
  <2> QED BY <1>1, <1>2, <1>3, <1>4, <1>5, <2>1, RememberedKept
<1> QED BY <1>1, <1>5 DEF CoverInv

LEMMA MemoryStep ==
  ASSUME TypeOK, MemoryInv, [Next]_vars
  PROVE  MemoryInv'
<1> SUFFICES ASSUME ~overlap', ~failed' PROVE OrderInv' /\ (interval' > 0 => CoverInv')
  BY DEF MemoryInv
<1>1. /\ overlap' = overlap \/ overlap' = TRUE
      /\ failed' = failed \/ failed' = TRUE
      /\ interval' = interval
  BY DEF Next, vars, RecordUser, RecordAnswer, Check, ReadHistory, ReadMemory, MissMemory, Write, Fail, TypeOK
<1>2. ~overlap /\ ~failed /\ interval' = interval
  BY <1>1
<1>3. OrderInv /\ OrderInv'
  BY <1>2, OrderStep DEF MemoryInv
<1>4. ASSUME interval' > 0 PROVE CoverInv'
  <2>2. CoverPre
    BY <1>2, <1>4 DEF MemoryInv, CoverPre
  <2>3. ASSUME NEW e \in Exchanges, MissMemory(e) \/ Fail(e) PROVE FALSE
    BY <2>3 DEF MissMemory, Fail
  <2>4. CASE UNCHANGED vars
    BY <2>2, <2>4 DEF CoverPre, CoverInv, Remembered, vars
  <2>5. PICK n, m : n = (Len(log) + 1) \div 2 /\ m = n + 1
    OBVIOUS
  <2> QED BY <1>2, <2>2, <2>3, <2>4, <2>5, CoverRecordUser, CoverRecordAnswer, CoverAgent DEF Next
<1> QED BY <1>3, <1>4

LEMMA MemoryInvariant == Spec => [](TypeOK /\ MemoryInv)
<1>1. Init => TypeOK /\ MemoryInv
  BY TypeInit, OrderInit, CoverInit DEF MemoryInv
<1>2. TypeOK /\ MemoryInv /\ [Next]_vars => (TypeOK /\ MemoryInv)'
  BY TypeStep, MemoryStep
<1> QED BY <1>1, <1>2, PTL DEF Spec

\* With no agent at work, and none that failed or was overtaken, the memory has
\* the facts of every finished interval, for any interval and any number of
\* exchanges (agent/memory.rs).
THEOREM IntervalsAreRemembered == Spec => []MemoryCovers
<1>1. TypeOK /\ MemoryInv => MemoryCovers
  <2> SUFFICES ASSUME TypeOK, MemoryInv, \A e \in Exchanges : pc[e] \in {"run", "done"},
                      ~overlap, ~failed, interval > 0, NEW j \in UserTurns(Len(log)),
                      Cardinality(UserTurns(j)) <= interval * (TurnCount \div interval),
                      log[j].of \in facts
               PROVE  log[j].of \in memory
    BY DEF MemoryCovers
  <2>0. PICK n : n = (Len(log) + 1) \div 2
    OBVIOUS
  <2>1. CoverPre
    BY DEF MemoryInv, CoverPre
  <2>2. /\ log \in Seq(Turns) /\ Len(log) \in Nat /\ TurnCount = n /\ j \in 1 .. Len(log)
        /\ log[j].role = "user"
    BY <2>0, <2>1, CoverFacts DEF UserTurns
  <2>3. j % 2 = 1
    BY <2>1, <2>2 DEF CoverPre, OrderInv, Alternates
  <2>4. Cardinality(UserTurns(j)) = (j + 1) \div 2
    BY <2>1, <2>2, TurnsAreCounted DEF CoverPre, OrderInv
  <2>10. (j + 1) \div 2 \in Nat /\ (j + 1) \div 2 > 0 /\ j = 2 * ((j + 1) \div 2) - 1
    BY <2>2, <2>3
  <2>5. PICK k \in Nat : k > 0 /\ j = 2 * k - 1 /\ (j + 1) \div 2 = k
    BY <2>10
  <2>6. k <= Due(interval, n)
    BY <2>2, <2>4, <2>5 DEF Due
  <2>7. Due(interval, n) \in Nat
    BY <2>0, <2>1, CoverFacts
  <2>8. k \in 1 .. Due(interval, n)
    BY <2>5, <2>6, <2>7
  <2>9. Remembered(n, k)
    BY <2>0, <2>1, <2>5, <2>8, CoverFacts
  <2> QED BY <2>5, <2>9 DEF Remembered, Busy
<1> QED BY <1>1, MemoryInvariant, PTL
=============================================================================
