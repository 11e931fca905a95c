------------------------ MODULE DispatchBlocksProofs ------------------------
(***************************************************************************)
(* Theorems about DispatchBlocks, for any pieces and any number of them: what *)
(* the device hears, and what is stored, is the answer without its reasoning  *)
(* and without its blocks, however it came in chunks, but for the answers the *)
(* properties name: an empty block, a block in an answer never told from      *)
(* reasoning, two blocks one newline apart.                                  *)
(*                                                                         *)
(* The scans of the text are recursive functions; that they are defined, and *)
(* what they compute, is proved by recursion and induction along a measure,   *)
(* which the first lemmas give in terms of sets.                             *)
(***************************************************************************)
EXTENDS DispatchBlocks, SequenceTheorems, WellFoundedInduction, NaturalsInduction, TLAPS

-----------------------------------------------------------------------------
(* Induction over sets of naturals, and recursion along a measure.           *)

\* A set of naturals that is not empty has a least element.
LEMMA LeastElement ==
  ASSUME NEW S \in SUBSET Nat, S # {}
  PROVE  \E x \in S : \A y \in S : x <= y
<1> DEFINE Less == {ss \in Nat \X Nat : ss[1] < ss[2]}
<1>1. IsWellFoundedOn(Less, Nat)
  BY NatLessThanWellFounded, Zenon DEF OpToRel
<1>2. \A a, b \in Nat : a < b => <<a, b>> \in Less
  OBVIOUS
<1> HIDE DEF Less
<1>3. PICK x \in S : \A y \in S : <<y, x>> \notin Less
  BY <1>1, WFMin, Zenon
<1>4. \A y \in S : x \in Nat /\ y \in Nat /\ ~ (y < x)
  BY <1>2, <1>3
<1> QED BY <1>4

\* A set that holds 0, and each number after one it holds, holds them all.
LEMMA Upwards ==
  ASSUME NEW P, NEW n \in Nat, 0 \in P, \A k \in 1 .. n : k - 1 \in P => k \in P
  PROVE  \A k \in 0 .. n : k \in P
<1> DEFINE Missed == {k \in 0 .. n : k \notin P}
<1>1. SUFFICES ASSUME Missed # {} PROVE FALSE
  OBVIOUS
<1>2. Missed \in SUBSET Nat
  OBVIOUS
<1>3. PICK x \in Missed : \A y \in Missed : x <= y
  BY <1>1, <1>2, LeastElement
<1>4. x \in 1 .. n /\ x - 1 \in 0 .. n /\ ~ (x <= x - 1)
  BY <1>3
<1>5. x - 1 \notin Missed
  BY <1>3, <1>4
<1> QED BY <1>3, <1>4, <1>5

\* P holds an element if it holds all that are below it.
Inductive(P, D, m) == \A x \in D : (\A y \in D : m[y] < m[x] => y \in P) => x \in P

\* Induction along a measure.
LEMMA Below ==
  ASSUME NEW D, NEW n \in Nat, NEW m \in [D -> 0 .. n], NEW P, Inductive(P, D, m)
  PROVE  \A x \in D : x \in P
<1> DEFINE Missed == {k \in 0 .. n : \E x \in D : x \notin P /\ m[x] = k}
<1>1. SUFFICES ASSUME NEW a \in D, a \notin P PROVE FALSE
  OBVIOUS
<1>2. Missed \in SUBSET Nat /\ m[a] \in Missed
  BY <1>1
<1>3. PICK k \in Missed : \A j \in Missed : k <= j
  BY <1>2, LeastElement
<1>4. PICK x \in D : x \notin P /\ m[x] = k
  BY <1>3
<1>5. ASSUME NEW y \in D, m[y] < m[x] PROVE y \in P
  <2>1. y \notin P => m[y] \in Missed
    OBVIOUS
  <2>2. m[y] \in 0 .. n /\ m[x] \in 0 .. n
    OBVIOUS
  <2> QED BY <1>3, <1>4, <1>5, <2>1, <2>2
<1> QED BY <1>4, <1>5 DEF Inductive

\* f is defined by going from each x to next[x], as long as goes[x]: at least
\* where the measure m is less than k.
Follows(f, k, D, S, m, goes, next, step, base) ==
  /\ f \in [D -> S]
  /\ \A x \in D : m[x] < k => f[x] = IF goes[x] THEN step[x][f[next[x]]] ELSE base[x]

\* Everywhere.
Solution(f, D, goes, next, step, base) ==
  \A x \in D : f[x] = IF goes[x] THEN step[x][f[next[x]]] ELSE base[x]

Descends(D, m, goes, next) == \A x \in D : goes[x] => m[next[x]] < m[x]

\* Recursion along a measure: what is defined by handing on to a lesser x is defined.
LEMMA Recursion ==
  ASSUME NEW D, NEW S, NEW n \in Nat, NEW m \in [D -> 0 .. n], NEW goes \in [D -> BOOLEAN],
         NEW next \in [D -> D], NEW step \in [D -> [S -> S]], NEW base \in [D -> S],
         Descends(D, m, goes, next)
  PROVE  \E f \in [D -> S] : Solution(f, D, goes, next, step, base)
<1> DEFINE P == {k \in 0 .. n + 1 : \E f : Follows(f, k, D, S, m, goes, next, step, base)}
<1>1. 0 \in P
  <2>1. base \in [D -> S] /\ \A x \in D : ~ (m[x] < 0)
    OBVIOUS
  <2>2. Follows(base, 0, D, S, m, goes, next, step, base)
    BY <2>1 DEF Follows
  <2>3. 0 \in 0 .. n + 1
    OBVIOUS
  <2> QED BY <2>2, <2>3, Zenon
<1>2. ASSUME NEW k \in 1 .. n + 1, k - 1 \in P
      PROVE  k \in P
  <2>1. PICK f : Follows(f, k - 1, D, S, m, goes, next, step, base)
    BY <1>2
  <2> DEFINE h == [x \in D |-> IF goes[x] THEN step[x][f[next[x]]] ELSE base[x]]
  <2>2. f \in [D -> S]
    BY <2>1 DEF Follows
  <2>3. h \in [D -> S] /\ \A x \in D : h[x] = IF goes[x] THEN step[x][f[next[x]]] ELSE base[x]
    BY <2>2
  <2> HIDE DEF h, P
  <2>4. \A x \in D : m[x] < k - 1 => f[x] = h[x]
    BY <2>1, <2>3 DEF Follows
  <2>5. \A x \in D : m[x] < k /\ goes[x] => f[next[x]] = h[next[x]]
    <3>1. \A x \in D : next[x] \in D /\ m[x] \in 0 .. n /\ m[next[x]] \in 0 .. n
      OBVIOUS
    <3> QED BY <2>4, <3>1 DEF Descends
  <2>6. Follows(h, k, D, S, m, goes, next, step, base)
    BY <2>3, <2>5 DEF Follows
  <2>7. k \in 0 .. n + 1
    OBVIOUS
  <2> QED BY <2>6, <2>7, Zenon DEF P
<1>3. n + 1 \in P
  <2> HIDE DEF P
  <2>1. n + 1 \in Nat /\ n + 1 \in 0 .. n + 1
    OBVIOUS
  <2> QED BY <1>1, <1>2, <2>1, Upwards
<1>4. PICK f : Follows(f, n + 1, D, S, m, goes, next, step, base)
  BY <1>3
<1>5. \A x \in D : m[x] < n + 1
  OBVIOUS
<1> QED BY <1>4, <1>5 DEF Follows, Solution

\* f has its values in S where it stops, and hands them on.
Stays(f, S, D, goes, next) ==
  \A x \in D : (goes[x] => f[next[x]] \in S) => f[x] \in S

\* A function defined that way has its values where each handing on keeps them.
LEMMA Descending ==
  ASSUME NEW D, NEW S, NEW n \in Nat, NEW m \in [D -> 0 .. n], NEW goes, NEW next \in [D -> D],
         Descends(D, m, goes, next), NEW f, Stays(f, S, D, goes, next)
  PROVE  \A x \in D : f[x] \in S
<1> DEFINE P == {x \in D : f[x] \in S}
<1>1. ASSUME NEW x \in D, \A y \in D : m[y] < m[x] => y \in P
      PROVE  x \in P
  <2>1. next[x] \in D
    OBVIOUS
  <2>2. goes[x] => f[next[x]] \in S
    BY <1>1, <2>1 DEF Descends
  <2> QED BY <2>1, <2>2 DEF Stays
<1> HIDE DEF P
<1>2. Inductive(P, D, m)
  BY <1>1 DEF Inductive
<1>3. \A x \in D : x \in P
  BY <1>2, Below, Zenon
<1> QED BY <1>3 DEF P

-----------------------------------------------------------------------------
(* Places: where a pattern stands in a text, and the first place it does.     *)

Texts == Seq(Chars)

\* A pattern stands at a place if its characters do.
LEMMA AtPlaces ==
  ASSUME NEW text \in Texts, NEW pattern \in Seq(Chars), NEW i \in Nat \ {0}
  PROVE  At(text, pattern, i) <=>
           /\ i + Len(pattern) <= Len(text) + 1
           /\ \A k \in 1 .. Len(pattern) : text[i + k - 1] = pattern[k]
<1> DEFINE n == Len(pattern)
<1>1. n \in Nat /\ Len(text) \in Nat
  BY DEF Texts
<1>2. ASSUME i + n <= Len(text) + 1
      PROVE  (SubSeq(text, i, i + n - 1) = pattern)
               <=> \A k \in 1 .. n : text[i + k - 1] = pattern[k]
  <2> DEFINE sub == SubSeq(text, i, i + n - 1)
  <2>1. sub \in Seq(Chars) /\ Len(sub) = n /\ \A k \in 1 .. n : sub[k] = text[i + k - 1]
    BY <1>1, <1>2 DEF Texts
  <2> HIDE DEF sub
  <2>2. (sub = pattern) <=> \A k \in 1 .. n : sub[k] = pattern[k]
    BY <2>1, SeqEqual
  <2> QED BY <2>1, <2>2 DEF sub
<1> QED BY <1>1, <1>2 DEF At

\* So for a pattern of two characters,
LEMMA AtTwo ==
  ASSUME NEW text \in Texts, NEW pattern \in Seq(Chars), Len(pattern) = 2, NEW i \in Nat \ {0}
  PROVE  At(text, pattern, i) <=>
           i + 1 <= Len(text) /\ text[i] = pattern[1] /\ text[i + 1] = pattern[2]
<1>1. At(text, pattern, i) <=>
        i + 2 <= Len(text) + 1 /\ \A k \in {1, 2} : text[i + k - 1] = pattern[k]
  <2>1. 1 .. Len(pattern) = {1, 2}
    BY SMT
  <2>2. At(text, pattern, i) <=>
          /\ i + Len(pattern) <= Len(text) + 1
          /\ \A k \in 1 .. Len(pattern) : text[i + k - 1] = pattern[k]
    BY AtPlaces, Zenon
  <2> QED BY <2>1, <2>2, Zenon
<1>2. i + 1 - 1 = i /\ i + 2 - 1 = i + 1 /\ Len(text) \in Nat
  BY DEF Texts
<1>3. (i + 2 <= Len(text) + 1) <=> (i + 1 <= Len(text))
  BY <1>2
<1> QED BY <1>1, <1>2, <1>3

\* of three,
LEMMA AtThree ==
  ASSUME NEW text \in Texts, NEW pattern \in Seq(Chars), Len(pattern) = 3, NEW i \in Nat \ {0}
  PROVE  At(text, pattern, i) <=>
           /\ i + 2 <= Len(text)
           /\ text[i] = pattern[1] /\ text[i + 1] = pattern[2] /\ text[i + 2] = pattern[3]
<1>1. At(text, pattern, i) <=>
        i + 3 <= Len(text) + 1 /\ \A k \in {1, 2, 3} : text[i + k - 1] = pattern[k]
  <2>1. 1 .. Len(pattern) = {1, 2, 3}
    BY SMT
  <2>2. At(text, pattern, i) <=>
          /\ i + Len(pattern) <= Len(text) + 1
          /\ \A k \in 1 .. Len(pattern) : text[i + k - 1] = pattern[k]
    BY AtPlaces, Zenon
  <2> QED BY <2>1, <2>2, Zenon
<1>2. i + 1 - 1 = i /\ i + 2 - 1 = i + 1 /\ i + 3 - 1 = i + 2 /\ Len(text) \in Nat
  BY DEF Texts
<1>3. (i + 3 <= Len(text) + 1) <=> (i + 2 <= Len(text))
  BY <1>2
<1> QED BY <1>1, <1>2, <1>3

\* What the tags are made of.
LEMMA Tags ==
  /\ DISPATCH_OPEN \in Seq(Chars) /\ Len(DISPATCH_OPEN) = 3
  /\ BLOCK_CLOSE \in Seq(Chars) /\ Len(BLOCK_CLOSE) = 3
  /\ THINK \in Seq(Chars) /\ Len(THINK) = 2 /\ UNTHINK \in Seq(Chars) /\ Len(UNTHINK) = 2
  /\ DISPATCH_OPEN[1] = "@" /\ DISPATCH_OPEN[2] = "d" /\ DISPATCH_OPEN[3] = "n"
  /\ BLOCK_CLOSE[1] = "n" /\ BLOCK_CLOSE[2] = "@" /\ BLOCK_CLOSE[3] = "e"
  /\ THINK[1] = "<" /\ THINK[2] = "t" /\ UNTHINK[1] = "<" /\ UNTHINK[2] = "/"
  BY DEF DISPATCH_OPEN, BLOCK_CLOSE, THINK, UNTHINK, Chars

\* Where the tags stand, character by character.
LEMMA AtTags ==
  ASSUME NEW text \in Texts, NEW i \in Nat \ {0}
  PROVE  /\ At(text, DISPATCH_OPEN, i) <=>
              i + 2 <= Len(text) /\ text[i] = "@" /\ text[i + 1] = "d" /\ text[i + 2] = "n"
         /\ At(text, BLOCK_CLOSE, i) <=>
              i + 2 <= Len(text) /\ text[i] = "n" /\ text[i + 1] = "@" /\ text[i + 2] = "e"
         /\ At(text, THINK, i) <=> i + 1 <= Len(text) /\ text[i] = "<" /\ text[i + 1] = "t"
         /\ At(text, UNTHINK, i) <=> i + 1 <= Len(text) /\ text[i] = "<" /\ text[i + 1] = "/"
<1>1. /\ At(text, DISPATCH_OPEN, i) <=>
           i + 2 <= Len(text) /\ text[i] = DISPATCH_OPEN[1] /\ text[i + 1] = DISPATCH_OPEN[2]
           /\ text[i + 2] = DISPATCH_OPEN[3]
      /\ At(text, BLOCK_CLOSE, i) <=>
           i + 2 <= Len(text) /\ text[i] = BLOCK_CLOSE[1] /\ text[i + 1] = BLOCK_CLOSE[2]
           /\ text[i + 2] = BLOCK_CLOSE[3]
  BY Tags, AtThree, Zenon
<1>2. /\ At(text, THINK, i) <=> i + 1 <= Len(text) /\ text[i] = THINK[1] /\ text[i + 1] = THINK[2]
      /\ At(text, UNTHINK, i) <=>
           i + 1 <= Len(text) /\ text[i] = UNTHINK[1] /\ text[i + 1] = UNTHINK[2]
  BY Tags, AtTwo, Zenon
<1> QED BY <1>1, <1>2, Tags

NewlineOpen == <<"n">> \o DISPATCH_OPEN
EmptyBlock == DISPATCH_OPEN \o <<"@", "e">>

\* What an opening with its newline, and an empty block, are made of.
LEMMA LongTags ==
  /\ NewlineOpen \in Seq(Chars) /\ Len(NewlineOpen) = 4
  /\ NewlineOpen[1] = "n" /\ NewlineOpen[2] = "@" /\ NewlineOpen[3] = "d" /\ NewlineOpen[4] = "n"
  /\ EmptyBlock \in Seq(Chars) /\ Len(EmptyBlock) = 5
  /\ EmptyBlock[1] = "@" /\ EmptyBlock[2] = "d" /\ EmptyBlock[3] = "n" /\ EmptyBlock[4] = "@"
  /\ EmptyBlock[5] = "e"
  BY DEF DISPATCH_OPEN, NewlineOpen, EmptyBlock, Chars

\* An opening with its newline is a newline and an opening.
LEMMA AtNewlineOpen ==
  ASSUME NEW text \in Texts, NEW i \in Nat \ {0}
  PROVE  At(text, NewlineOpen, i) <=> text[i] = "n" /\ At(text, DISPATCH_OPEN, i + 1)
<1>1. At(text, NewlineOpen, i) <=>
        i + 4 <= Len(text) + 1 /\ \A k \in {1, 2, 3, 4} : text[i + k - 1] = NewlineOpen[k]
  <2>1. 1 .. Len(NewlineOpen) = {1, 2, 3, 4}
    BY LongTags
  <2>2. At(text, NewlineOpen, i) <=>
          /\ i + Len(NewlineOpen) <= Len(text) + 1
          /\ \A k \in 1 .. Len(NewlineOpen) : text[i + k - 1] = NewlineOpen[k]
    BY AtPlaces, LongTags, Zenon
  <2> QED BY <2>1, <2>2, LongTags, Zenon
<1>2. i + 1 - 1 = i /\ i + 2 - 1 = i + 1 /\ i + 3 - 1 = i + 2 /\ i + 4 - 1 = i + 3 /\ Len(text) \in Nat
      /\ i + 1 \in Nat \ {0} /\ (i + 1) + 1 = i + 2 /\ (i + 1) + 2 = i + 3
  BY DEF Texts
<1>3. (i + 4 <= Len(text) + 1) <=> (i + 3 <= Len(text))
  BY <1>2
<1>4. At(text, DISPATCH_OPEN, i + 1) <=>
        i + 3 <= Len(text) /\ text[i + 1] = "@" /\ text[i + 2] = "d" /\ text[i + 3] = "n"
  <2>1. At(text, DISPATCH_OPEN, i + 1) <=>
          /\ (i + 1) + 2 <= Len(text) /\ text[i + 1] = "@" /\ text[(i + 1) + 1] = "d"
          /\ text[(i + 1) + 2] = "n"
    BY <1>2, AtTags, Zenon
  <2> QED BY <1>2, <2>1
<1> QED BY <1>1, <1>2, <1>3, <1>4, LongTags

\* An empty block is an opening whose newline begins a close.
LEMMA AtEmptyBlock ==
  ASSUME NEW text \in Texts, NEW i \in Nat \ {0}
  PROVE  At(text, EmptyBlock, i) <=> At(text, DISPATCH_OPEN, i) /\ At(text, BLOCK_CLOSE, i + 2)
<1>1. At(text, EmptyBlock, i) <=>
        i + 5 <= Len(text) + 1 /\ \A k \in {1, 2, 3, 4, 5} : text[i + k - 1] = EmptyBlock[k]
  <2>1. 1 .. Len(EmptyBlock) = {1, 2, 3, 4, 5}
    BY LongTags
  <2>2. At(text, EmptyBlock, i) <=>
          /\ i + Len(EmptyBlock) <= Len(text) + 1
          /\ \A k \in 1 .. Len(EmptyBlock) : text[i + k - 1] = EmptyBlock[k]
    BY AtPlaces, LongTags, Zenon
  <2> QED BY <2>1, <2>2, LongTags, Zenon
<1>2. i + 1 - 1 = i /\ i + 2 - 1 = i + 1 /\ i + 3 - 1 = i + 2 /\ i + 4 - 1 = i + 3
      /\ i + 5 - 1 = i + 4 /\ Len(text) \in Nat
      /\ i + 2 \in Nat \ {0} /\ (i + 2) + 1 = i + 3 /\ (i + 2) + 2 = i + 4
  BY DEF Texts
<1>3. /\ (i + 5 <= Len(text) + 1) <=> (i + 4 <= Len(text))
      /\ i + 4 <= Len(text) => i + 2 <= Len(text)
  BY <1>2
<1>4. At(text, BLOCK_CLOSE, i + 2) <=>
        i + 4 <= Len(text) /\ text[i + 2] = "n" /\ text[i + 3] = "@" /\ text[i + 4] = "e"
  <2>1. At(text, BLOCK_CLOSE, i + 2) <=>
          /\ (i + 2) + 2 <= Len(text) /\ text[i + 2] = "n" /\ text[(i + 2) + 1] = "@"
          /\ text[(i + 2) + 2] = "e"
    BY <1>2, AtTags, Zenon
  <2> QED BY <1>2, <2>1
<1> QED BY <1>1, <1>2, <1>3, <1>4, LongTags, AtTags

\* What str::find finds is there, and nothing before it is.
LEMMA Finding ==
  ASSUME NEW text \in Texts, NEW pattern, NEW from \in Nat \ {0}, NEW r, r = Find(text, pattern, from)
  PROVE  /\ r = 0 => \A i \in from .. Len(text) : ~ At(text, pattern, i)
         /\ r # 0 => /\ r \in from .. Len(text) /\ At(text, pattern, r)
                     /\ \A i \in from .. r - 1 : ~ At(text, pattern, i)
<1> DEFINE found == {i \in from .. Len(text) : At(text, pattern, i)}
<1>1. found \in SUBSET Nat
  OBVIOUS
<1>2. CASE found = {}
  <2>1. r = 0
    BY <1>2 DEF Find
  <2> QED BY <1>2, <2>1
<1>3. CASE found # {}
  <2>1. \E x \in found : \A y \in found : x <= y
    BY <1>1, <1>3, LeastElement
  <2>2. r = Min(found)
    BY <1>3, Zenon DEF Find
  <2>3. r \in found /\ \A y \in found : r <= y
    BY <2>1, <2>2 DEF Min
  <2> QED BY <2>3 DEF Texts
<1> QED BY <1>2, <1>3

\* The first place of a pattern is what str::find finds.
LEMMA FindIs ==
  ASSUME NEW text \in Texts, NEW pattern, NEW from \in Nat \ {0}, NEW r \in from .. Len(text),
         At(text, pattern, r), \A i \in from .. r - 1 : ~ At(text, pattern, i)
  PROVE  Find(text, pattern, from) = r
<1> DEFINE f == Find(text, pattern, from)
<1>1. /\ f = 0 => \A i \in from .. Len(text) : ~ At(text, pattern, i)
      /\ f # 0 => /\ f \in from .. Len(text) /\ At(text, pattern, f)
                  /\ \A i \in from .. f - 1 : ~ At(text, pattern, i)
  BY Finding
<1> HIDE DEF f
<1>2. f # 0
  BY <1>1
<1>3. f \in from .. Len(text) /\ Len(text) \in Nat
  BY <1>1, <1>2 DEF Texts
<1>4. ~ (f < r)
  <2>1. f < r => f \in from .. r - 1
    BY <1>3
  <2> QED BY <1>1, <1>2, <2>1
<1>5. ~ (r < f)
  <2>1. r < f => r \in from .. f - 1
    BY <1>3
  <2> QED BY <1>1, <1>2, <2>1
<1>6. f = r
  BY <1>3, <1>4, <1>5
<1> QED BY <1>6 DEF f

\* It finds nothing if the pattern is nowhere.
LEMMA FindNothing ==
  ASSUME NEW text \in Texts, NEW pattern, NEW from \in Nat \ {0},
         \A i \in from .. Len(text) : ~ At(text, pattern, i)
  PROVE  Find(text, pattern, from) = 0
  BY DEF Find

\* A search may begin behind places where the pattern is not.
LEMMA FindLater ==
  ASSUME NEW text \in Texts, NEW pattern, NEW from \in Nat \ {0}, NEW to \in Nat, from <= to,
         \A i \in from .. to - 1 : ~ At(text, pattern, i)
  PROVE  Find(text, pattern, from) = Find(text, pattern, to)
<1> DEFINE r == Find(text, pattern, to)
<1>1. /\ r = 0 => \A i \in to .. Len(text) : ~ At(text, pattern, i)
      /\ r # 0 => /\ r \in to .. Len(text) /\ At(text, pattern, r)
                  /\ \A i \in to .. r - 1 : ~ At(text, pattern, i)
  BY Finding
<1> HIDE DEF r
<1>2. CASE r = 0
  <2>1. \A i \in from .. Len(text) : i \in from .. to - 1 \/ i \in to .. Len(text)
    BY DEF Texts
  <2>2. Find(text, pattern, from) = 0
    BY <1>1, <1>2, <2>1, FindNothing
  <2> QED BY <1>2, <2>2 DEF r
<1>3. CASE r # 0
  <2>1. Len(text) \in Nat /\ r \in Nat
    BY <1>1, <1>3 DEF Texts
  <2>2. r \in from .. Len(text)
    BY <1>1, <1>3, <2>1
  <2>3. \A i \in from .. r - 1 : i \in from .. to - 1 \/ i \in to .. r - 1
    BY <2>1
  <2>4. Find(text, pattern, from) = r
    BY <1>1, <1>3, <2>2, <2>3, FindIs
  <2> QED BY <2>4 DEF r
<1> QED BY <1>2, <1>3

\* A text that has grown.
Extends(long, text) ==
  /\ long \in Texts /\ Len(text) <= Len(long)
  /\ \A i \in 1 .. Len(text) : long[i] = text[i]

\* A pattern that fits into a text is in a longer one where it is in that text,
LEMMA AtExtends ==
  ASSUME NEW text \in Texts, NEW long, Extends(long, text), NEW pattern \in Seq(Chars),
         NEW i \in Nat \ {0}, i + Len(pattern) <= Len(text) + 1
  PROVE  At(long, pattern, i) <=> At(text, pattern, i)
<1>1. Len(text) \in Nat /\ Len(long) \in Nat /\ long \in Texts /\ Len(pattern) \in Nat
  BY DEF Texts, Extends
<1>2. \A k \in 1 .. Len(pattern) : i + k - 1 \in 1 .. Len(text)
  BY <1>1
<1>3. \A k \in 1 .. Len(pattern) : long[i + k - 1] = text[i + k - 1]
  BY <1>2 DEF Extends
<1>4. i + Len(pattern) <= Len(long) + 1
  BY <1>1 DEF Extends
<1>5. At(long, pattern, i) <=>
        /\ i + Len(pattern) <= Len(long) + 1
        /\ \A k \in 1 .. Len(pattern) : long[i + k - 1] = pattern[k]
  BY <1>1, AtPlaces, Zenon
<1>6. At(text, pattern, i) <=>
        /\ i + Len(pattern) <= Len(text) + 1
        /\ \A k \in 1 .. Len(pattern) : text[i + k - 1] = pattern[k]
  BY AtPlaces, Zenon
<1> QED BY <1>3, <1>4, <1>5, <1>6

\* so that what was found is found again when the text has grown.
LEMMA FindExtends ==
  ASSUME NEW text \in Texts, NEW long, Extends(long, text), NEW pattern \in Seq(Chars),
         NEW from \in Nat \ {0}, NEW r, r = Find(text, pattern, from), r # 0
  PROVE  Find(long, pattern, from) = r
<1>1. /\ r \in from .. Len(text) /\ At(text, pattern, r)
      /\ \A i \in from .. r - 1 : ~ At(text, pattern, i)
  BY Finding
<1>2. /\ Len(text) \in Nat /\ Len(long) \in Nat /\ long \in Texts /\ Len(pattern) \in Nat
      /\ Len(text) <= Len(long)
  BY DEF Texts, Extends
<1>3. r + Len(pattern) <= Len(text) + 1
  BY <1>1 DEF At
<1>4. At(long, pattern, r)
  BY <1>1, <1>3, AtExtends
<1>5. ASSUME NEW i \in from .. r - 1 PROVE ~ At(long, pattern, i)
  <2>1. i \in Nat \ {0} /\ i + Len(pattern) <= Len(text) + 1
    BY <1>1, <1>2, <1>3
  <2> QED BY <1>1, <2>1, AtExtends
<1>6. r \in from .. Len(long)
  BY <1>1, <1>2
<1> QED BY <1>2, <1>4, <1>5, <1>6, FindIs

-----------------------------------------------------------------------------
(* Slices.                                                                   *)

\* What a slice is made of.
LEMMA Slice ==
  ASSUME NEW text \in Texts, NEW a \in Nat \ {0}, NEW b \in Nat, b <= Len(text)
  PROVE  /\ SubSeq(text, a, b) \in Texts
         /\ Len(SubSeq(text, a, b)) = IF a <= b THEN b - a + 1 ELSE 0
         /\ \A i \in 1 .. b - a + 1 : SubSeq(text, a, b)[i] = text[a + i - 1]
<1>1. \A i \in a .. b : text[i] \in Chars
  BY DEF Texts
<1>2. a \in Int /\ b \in Int
  OBVIOUS
<1> QED BY <1>1, <1>2, SubSeqProperties DEF Texts

\* Two slices that meet are one.
LEMMA Cut ==
  ASSUME NEW text \in Texts, NEW a \in Nat \ {0}, NEW k \in Nat, NEW b \in Nat,
         a <= k + 1, k <= b, b <= Len(text)
  PROVE  SubSeq(text, a, k) \o SubSeq(text, k + 1, b) = SubSeq(text, a, b)
<1>1. Len(text) \in Nat /\ a \in 1 .. Len(text) + 1 /\ k \in a - 1 .. Len(text) /\ b \in k .. Len(text)
  BY DEF Texts
<1> QED BY <1>1, ConcatAdjacentSubSeq DEF Texts

\* A slice that ends before it begins is empty.
LEMMA NoSlice ==
  ASSUME NEW text, NEW a \in Nat, NEW b \in Int, b < a
  PROVE  SubSeq(text, a, b) = << >>
  BY SubSeqEmpty

-----------------------------------------------------------------------------
(* The places of a block.                                                    *)

\* Where a block opens, and where what is shown before it ends.
LEMMA BlockPlaces ==
  ASSUME NEW text \in Texts, NEW p \in 1 .. Len(text) + 1,
         NEW open, open = Find(text, DISPATCH_OPEN, p), open # 0,
         NEW start, start = StartOf(text, open, p)
  PROVE  /\ open \in Nat /\ p <= open /\ open + 2 <= Len(text)
         /\ text[open] = "@" /\ text[open + 1] = "d" /\ text[open + 2] = "n"
         /\ At(text, DISPATCH_OPEN, open)
         /\ \A i \in p .. open - 1 : ~ At(text, DISPATCH_OPEN, i)
         /\ start \in Nat /\ p <= start /\ start <= open /\ open <= start + 1
         /\ start = open - 1 => text[start] = "n"
         /\ start = open => open = p \/ text[open - 1] # "n"
<1>1. /\ open \in p .. Len(text) /\ At(text, DISPATCH_OPEN, open)
      /\ \A i \in p .. open - 1 : ~ At(text, DISPATCH_OPEN, i)
  BY Finding
<1>2. Len(text) \in Nat /\ p \in Nat \ {0} /\ open \in Nat \ {0}
  BY <1>1 DEF Texts
<1>3. open + 2 <= Len(text) /\ text[open] = "@" /\ text[open + 1] = "d" /\ text[open + 2] = "n"
  BY <1>1, <1>2, AtTags
<1> QED BY <1>1, <1>2, <1>3 DEF StartOf

\* Where a block closes, and where the text goes on behind it.
LEMMA ClosePlaces ==
  ASSUME NEW text \in Texts, NEW q \in Nat \ {0}, NEW close, close = Find(text, BLOCK_CLOSE, q),
         close # 0, NEW next, next = Past(text, close + 3)
  PROVE  /\ close \in Nat /\ q <= close /\ close + 2 <= Len(text)
         /\ text[close] = "n" /\ text[close + 1] = "@" /\ text[close + 2] = "e"
         /\ next \in Nat /\ close + 3 <= next /\ next <= close + 4 /\ next <= Len(text) + 1
         /\ next = close + 4 => text[close + 3] = "n"
         /\ next = close + 3 => close + 3 > Len(text) \/ text[close + 3] # "n"
<1>1. close \in q .. Len(text) /\ At(text, BLOCK_CLOSE, close)
  BY Finding
<1>2. Len(text) \in Nat /\ close \in Nat \ {0}
  BY <1>1 DEF Texts
<1>3. close + 2 <= Len(text) /\ text[close] = "n" /\ text[close + 1] = "@" /\ text[close + 2] = "e"
  BY <1>1, <1>2, AtTags
<1>4. CASE close + 3 <= Len(text) /\ text[close + 3] = "n"
  <2>1. next = (close + 3) + 1
    BY <1>4 DEF Past
  <2> QED BY <1>1, <1>2, <1>3, <1>4, <2>1
<1>5. CASE ~ (close + 3 <= Len(text) /\ text[close + 3] = "n")
  <2>1. next = close + 3
    BY <1>5 DEF Past
  <2>2. close + 3 > Len(text) \/ text[close + 3] # "n"
    BY <1>2, <1>5
  <2>3. /\ close \in Nat /\ q <= close /\ next \in Nat /\ close + 3 <= next /\ next <= close + 4
        /\ next <= Len(text) + 1 /\ next # close + 4
    BY <1>1, <1>2, <1>3, <2>1
  <2> QED BY <1>3, <2>2, <2>3
<1> QED BY <1>4, <1>5

\* A block is not opened by a newline, so that where one ends with a newline
\* behind it the next can be looked for on either side of that.
LEMMA PastNewline ==
  ASSUME NEW text \in Texts, NEW q \in Nat \ {0}, NEW next, next = Past(text, q)
  PROVE  Find(text, DISPATCH_OPEN, q) = Find(text, DISPATCH_OPEN, next)
<1>1. CASE q <= Len(text) /\ text[q] = "n"
  <2>1. next = q + 1
    BY <1>1 DEF Past
  <2>2. \A i \in q .. next - 1 : i = q
    BY <2>1
  <2>3. ~ At(text, DISPATCH_OPEN, q)
    BY <1>1, AtTags
  <2>4. next \in Nat /\ q <= next
    BY <2>1
  <2> QED BY <2>2, <2>3, <2>4, FindLater
<1>2. CASE ~ (q <= Len(text) /\ text[q] = "n")
  <2>1. next = q
    BY <1>2 DEF Past
  <2> QED BY <2>1
<1> QED BY <1>1, <1>2

Forward(D, goes, next) == \A p \in D : goes[p] => p < next[p]

\* The places of a text of length n, and the one behind it.
IsPlaces(D, n) == D = 1 .. n + 1

\* To go forward in a text is to come nearer to its end:
LEMMA ForwardDescends ==
  ASSUME NEW n \in Nat, NEW D, IsPlaces(D, n), NEW goes \in [D -> BOOLEAN], NEW next \in [D -> D],
         Forward(D, goes, next)
  PROVE  \E m \in [D -> 0 .. n] : Descends(D, m, goes, next)
<1> DEFINE m == [p \in D |-> n + 1 - p]
<1>1. m \in [D -> 0 .. n] /\ \A p \in D : m[p] = n + 1 - p
  BY DEF IsPlaces
<1>2. \A p \in D : next[p] \in D
  OBVIOUS
<1> HIDE DEF m
<1>3. Descends(D, m, goes, next)
  BY <1>1, <1>2 DEF Descends, Forward, IsPlaces
<1> QED BY <1>1, <1>3

\* a scan that goes forward is defined,
LEMMA Scanning ==
  ASSUME NEW n \in Nat, NEW S, NEW D, IsPlaces(D, n), NEW goes \in [D -> BOOLEAN],
         NEW next \in [D -> D], NEW step \in [D -> [S -> S]], NEW base \in [D -> S],
         Forward(D, goes, next)
  PROVE  \E f \in [D -> S] : Solution(f, D, goes, next, step, base)
<1>1. PICK m \in [D -> 0 .. n] : Descends(D, m, goes, next)
  BY ForwardDescends
<1> QED BY <1>1, Recursion, Zenon

\* and its values are where each step keeps them.
LEMMA Staying ==
  ASSUME NEW n \in Nat, NEW S, NEW D, IsPlaces(D, n), NEW goes \in [D -> BOOLEAN], NEW next \in [D -> D],
         Forward(D, goes, next), NEW f, Stays(f, S, D, goes, next)
  PROVE  \A p \in D : f[p] \in S
<1>1. PICK m \in [D -> 0 .. n] : Descends(D, m, goes, next)
  BY ForwardDescends
<1> QED BY <1>1, Descending, Zenon

\* P holds a place if it holds all that are behind it.
InductiveBack(P, n) == \A p \in 1 .. n + 1 : (\A q \in p + 1 .. n + 1 : q \in P) => p \in P

\* Induction from the end of a text to its beginning.
LEMMA Backwards ==
  ASSUME NEW n \in Nat, NEW P, InductiveBack(P, n)
  PROVE  \A p \in 1 .. n + 1 : p \in P
<1> DEFINE D == 1 .. n + 1
<1> DEFINE m == [p \in D |-> n + 1 - p]
<1>1. m \in [D -> 0 .. n] /\ \A p \in D : m[p] = n + 1 - p
  OBVIOUS
<1> HIDE DEF m
<1>2. ASSUME NEW p \in D, \A q \in D : m[q] < m[p] => q \in P PROVE p \in P
  <2>1. \A q \in p + 1 .. n + 1 : q \in D /\ m[q] < m[p]
    BY <1>1
  <2> QED BY <1>2, <2>1 DEF InductiveBack
<1>3. Inductive(P, D, m)
  BY <1>2 DEF Inductive
<1> HIDE DEF D
<1>4. \A p \in D : p \in P
  BY <1>1, <1>3, Below, Zenon
<1> QED BY <1>4 DEF D

-----------------------------------------------------------------------------
(* The scans, one block at a time.  The close of a block is looked for k      *)
(* places behind the beginning of its opening.                               *)

OpenOf(text, p) == Find(text, DISPATCH_OPEN, p)
CloseOf(text, p, k) == Find(text, BLOCK_CLOSE, OpenOf(text, p) + k)
StartAt(text, p) == StartOf(text, OpenOf(text, p), p)
NextOf(text, p, k) == Past(text, CloseOf(text, p, k) + 3)
HasBlock(text, p, k) == OpenOf(text, p) # 0 /\ CloseOf(text, p, k) # 0

\* The opening that is found from a place.
LEMMA OpenFacts ==
  ASSUME NEW text \in Texts, NEW p \in 1 .. Len(text) + 1, NEW open, open = OpenOf(text, p), open # 0,
         NEW start, start = StartAt(text, p)
  PROVE  /\ open \in Nat /\ p <= open /\ open + 2 <= Len(text)
         /\ text[open] = "@" /\ text[open + 1] = "d" /\ text[open + 2] = "n"
         /\ At(text, DISPATCH_OPEN, open)
         /\ \A i \in p .. open - 1 : ~ At(text, DISPATCH_OPEN, i)
         /\ start \in Nat /\ p <= start /\ start <= open /\ open <= start + 1
         /\ start = open - 1 => text[start] = "n"
         /\ start = open => open = p \/ text[open - 1] # "n"
<1>1. open = Find(text, DISPATCH_OPEN, p) /\ start = StartOf(text, open, p)
  BY Zenon DEF OpenOf, StartAt
<1> QED BY <1>1, BlockPlaces

\* The close of a block that is found from a place.
LEMMA CloseFacts ==
  ASSUME NEW text \in Texts, NEW p \in 1 .. Len(text) + 1, NEW k \in {2, 3}, HasBlock(text, p, k),
         NEW close, close = CloseOf(text, p, k), NEW next, next = NextOf(text, p, k)
  PROVE  /\ close \in Nat /\ OpenOf(text, p) + k <= close /\ close + 2 <= Len(text) /\ p < close
         /\ text[close] = "n" /\ text[close + 1] = "@" /\ text[close + 2] = "e"
         /\ next \in Nat /\ close + 3 <= next /\ next <= close + 4 /\ next <= Len(text) + 1
         /\ next = close + 4 => text[close + 3] = "n"
         /\ next = close + 3 => close + 3 > Len(text) \/ text[close + 3] # "n"
         /\ next \in p + 1 .. Len(text) + 1 /\ close + 3 \in p + 1 .. Len(text) + 1
         /\ Find(text, DISPATCH_OPEN, close + 3) = Find(text, DISPATCH_OPEN, next)
<1> DEFINE open == OpenOf(text, p)
<1>1. open \in Nat /\ p <= open /\ open + 2 <= Len(text) /\ Len(text) \in Nat /\ p \in Nat \ {0}
  BY OpenFacts DEF HasBlock, Texts
<1> HIDE DEF open
<1>2. close = Find(text, BLOCK_CLOSE, open + k) /\ next = Past(text, close + 3) /\ close # 0
  BY Zenon DEF CloseOf, NextOf, HasBlock, open
<1>3. open + k \in Nat \ {0}
  BY <1>1
<1>4. /\ close \in Nat /\ open + k <= close /\ close + 2 <= Len(text)
      /\ text[close] = "n" /\ text[close + 1] = "@" /\ text[close + 2] = "e"
      /\ next \in Nat /\ close + 3 <= next /\ next <= close + 4 /\ next <= Len(text) + 1
      /\ next = close + 4 => text[close + 3] = "n"
      /\ next = close + 3 => close + 3 > Len(text) \/ text[close + 3] # "n"
  BY <1>2, <1>3, ClosePlaces
<1>0. close \in Nat /\ open + k <= close /\ close + 2 <= Len(text) /\ next \in Nat
      /\ close + 3 <= next /\ next <= Len(text) + 1 /\ k \in Nat
  BY <1>4
<1>5. p < close /\ next \in p + 1 .. Len(text) + 1 /\ close + 3 \in p + 1 .. Len(text) + 1
      /\ close + 3 \in Nat \ {0}
  BY <1>0, <1>1
<1>6. Find(text, DISPATCH_OPEN, close + 3) = Find(text, DISPATCH_OPEN, next)
  BY <1>2, <1>5, PastNewline
<1> QED BY <1>4, <1>5, <1>6 DEF open

Extent == [open : Nat, end : Nat]

BlockOf(text, p) == [open |-> OpenOf(text, p), end |-> CloseOf(text, p, 3) + 3]

\* The blocks found from a place are the first one and those found from its end.
LEMMA BlocksGoOn ==
  ASSUME NEW text \in Texts, NEW p \in 1 .. Len(text) + 1
  PROVE  /\ BlocksFrom(text, p) \in SUBSET Extent
         /\ BlocksFrom(text, p) = IF HasBlock(text, p, 3)
                                  THEN {BlockOf(text, p)} \cup BlocksFrom(text, CloseOf(text, p, 3) + 3)
                                  ELSE {}
<1> DEFINE n == Len(text)
<1> DEFINE D == 1 .. n + 1
<1> DEFINE S == SUBSET Extent
<1> DEFINE goes == [q \in D |-> HasBlock(text, q, 3)]
<1> DEFINE next == [q \in D |-> IF HasBlock(text, q, 3) THEN CloseOf(text, q, 3) + 3 ELSE q]
<1> DEFINE step == [q \in D |-> [s \in S |-> IF HasBlock(text, q, 3) THEN {BlockOf(text, q)} \cup s ELSE s]]
<1> DEFINE base == [q \in D |-> {}]
<1> DEFINE IsScan(f) == f = [q \in 1 .. Len(text) + 1 |->
        LET open == Find(text, DISPATCH_OPEN, q)
            close == Find(text, BLOCK_CLOSE, open + Len(DISPATCH_OPEN))
            end == close + Len(BLOCK_CLOSE)
        IN  IF open = 0 \/ close = 0 THEN {}
            ELSE {[open |-> open, end |-> end]} \cup f[end]]
<1> DEFINE Scans(f) == \A q \in D : f[q] = IF HasBlock(text, q, 3)
                                     THEN {BlockOf(text, q)} \cup f[CloseOf(text, q, 3) + 3] ELSE {}
<1> DEFINE scan == CHOOSE f : IsScan(f)
<1>1. n \in Nat /\ Len(DISPATCH_OPEN) = 3 /\ Len(BLOCK_CLOSE) = 3
  BY Tags DEF Texts
<1>2. ASSUME NEW q \in D, HasBlock(text, q, 3)
      PROVE  CloseOf(text, q, 3) + 3 \in q + 1 .. n + 1 /\ BlockOf(text, q) \in Extent
  <2>1. OpenOf(text, q) \in Nat /\ CloseOf(text, q, 3) \in Nat /\ CloseOf(text, q, 3) + 3 \in q + 1 .. n + 1
    BY <1>2, OpenFacts, CloseFacts DEF HasBlock
  <2> QED BY <2>1 DEF BlockOf, Extent
<1>3. ASSUME NEW f PROVE IsScan(f) <=> f = [q \in D |-> IF HasBlock(text, q, 3)
                                     THEN {BlockOf(text, q)} \cup f[CloseOf(text, q, 3) + 3] ELSE {}]
  <2>1. IsScan(f) <=> f = [q \in D |->
            IF OpenOf(text, q) = 0 \/ CloseOf(text, q, 3) = 0 THEN {}
            ELSE {[open |-> OpenOf(text, q), end |-> CloseOf(text, q, 3) + 3]}
                   \cup f[CloseOf(text, q, 3) + 3]]
    BY <1>1 DEF OpenOf, CloseOf
  <2> QED BY <2>1 DEF HasBlock, BlockOf
<1>4. /\ goes \in [D -> BOOLEAN] /\ next \in [D -> D] /\ step \in [D -> [S -> S]]
      /\ base \in [D -> S] /\ Forward(D, goes, next)
  <2>1. goes \in [D -> BOOLEAN] /\ base \in [D -> S]
    BY DEF HasBlock
  <2>2. next \in [D -> D] /\ Forward(D, goes, next)
    BY <1>1, <1>2 DEF Forward
  <2>3. step \in [D -> [S -> S]]
    BY <1>2
  <2> QED BY <2>1, <2>2, <2>3
<1>11. IsPlaces(D, n)
  BY DEF IsPlaces
<1> HIDE DEF n, D, S, goes, next, step, base, IsScan
<1>5. \E f : IsScan(f)
  <2>1. PICK f \in [D -> S] : Solution(f, D, goes, next, step, base)
    BY <1>1, <1>4, <1>11, Scanning, Zenon
  <2>2. ASSUME NEW q \in D
        PROVE  f[q] = IF HasBlock(text, q, 3) THEN {BlockOf(text, q)} \cup f[CloseOf(text, q, 3) + 3] ELSE {}
    <3>1. next[q] \in D
      BY <1>4
    <3>2. f[next[q]] \in S
      BY <3>1
    <3>3. f[q] = IF goes[q] THEN step[q][f[next[q]]] ELSE base[q]
      BY <2>1 DEF Solution
    <3>4. HasBlock(text, q, 3) => next[q] = CloseOf(text, q, 3) + 3
      BY DEF next
    <3> QED BY <3>2, <3>3, <3>4 DEF goes, step, base
  <2>3. f = [q \in D |-> IF HasBlock(text, q, 3)
                         THEN {BlockOf(text, q)} \cup f[CloseOf(text, q, 3) + 3] ELSE {}]
    BY <2>2
  <2> QED BY <1>3, <2>3, Zenon
<1>6. IsScan(scan)
  BY <1>5, Zenon
<1>7. \A q : BlocksFrom(text, q) = scan[q]
  BY Zenon DEF BlocksFrom, scan, IsScan
<1> HIDE DEF scan
<1>8. scan = [q \in D |-> IF HasBlock(text, q, 3)
                         THEN {BlockOf(text, q)} \cup scan[CloseOf(text, q, 3) + 3] ELSE {}]
  BY <1>3, <1>6, Zenon
<1>9. Stays(scan, S, D, goes, next)
  <2>1. \A q \in D : HasBlock(text, q, 3) => next[q] = CloseOf(text, q, 3) + 3 /\ BlockOf(text, q) \in Extent
    BY <1>2 DEF next
  <2> QED BY <1>8, <2>1 DEF Stays, S, goes
<1>10. \A q \in D : scan[q] \in S
  BY <1>1, <1>4, <1>9, <1>11, Staying, Zenon
<1> QED BY <1>7, <1>8, <1>10 DEF D, S, n

-----------------------------------------------------------------------------
(* The text behind a place, without the blocks that are looked for from there. *)

ShownTo(text, p) == SubSeq(text, p, StartAt(text, p) - 1)

Rest(text, k, from) ==
  LET rest[p \in 1 .. Len(text) + 1] ==
        LET open == Find(text, DISPATCH_OPEN, p)
            close == Find(text, BLOCK_CLOSE, open + k)
            shown == SubSeq(text, p, StartOf(text, open, p) - 1)
        IN  IF open = 0 THEN From(text, p)
            ELSE IF close = 0 THEN shown
            ELSE shown \o rest[Past(text, close + 3)]
  IN  rest[from]

\* What is shown before a block is a text,
LEMMA ShownFacts ==
  ASSUME NEW text \in Texts, NEW p \in 1 .. Len(text) + 1, OpenOf(text, p) # 0
  PROVE  ShownTo(text, p) \in Texts
<1> DEFINE start == StartAt(text, p)
<1>1. start \in Nat /\ p <= start /\ start <= OpenOf(text, p) /\ OpenOf(text, p) \in Nat
      /\ OpenOf(text, p) + 2 <= Len(text)
  BY OpenFacts
<1> HIDE DEF start
<1>2. p \in Nat \ {0} /\ start - 1 \in Nat /\ start - 1 <= Len(text)
  BY <1>1 DEF Texts
<1> QED BY <1>2, Slice DEF ShownTo, start

\* and so is what is behind a place.
LEMMA FromFacts ==
  ASSUME NEW text \in Texts, NEW p \in 1 .. Len(text) + 1
  PROVE  /\ From(text, p) \in Texts /\ Len(From(text, p)) = Len(text) + 1 - p
         /\ \A i \in 1 .. Len(text) + 1 - p : From(text, p)[i] = text[p + i - 1]
<1>1. p \in Nat \ {0} /\ Len(text) \in Nat /\ Len(text) <= Len(text)
  BY DEF Texts
<1>2. /\ SubSeq(text, p, Len(text)) \in Texts
      /\ Len(SubSeq(text, p, Len(text))) = IF p <= Len(text) THEN Len(text) - p + 1 ELSE 0
      /\ \A i \in 1 .. Len(text) - p + 1 : SubSeq(text, p, Len(text))[i] = text[p + i - 1]
  BY <1>1, Slice
<1>3. (IF p <= Len(text) THEN Len(text) - p + 1 ELSE 0) = Len(text) + 1 - p
  BY <1>1
<1>4. Len(text) - p + 1 = Len(text) + 1 - p
  BY <1>1
<1> QED BY <1>2, <1>3, <1>4 DEF From

\* The rest is what is shown before the first block, and the rest behind it.
LEMMA RestGoesOn ==
  ASSUME NEW text \in Texts, NEW k \in {2, 3}, NEW p \in 1 .. Len(text) + 1
  PROVE  /\ Rest(text, k, p) \in Texts
         /\ Rest(text, k, p) = IF HasBlock(text, p, k)
                               THEN ShownTo(text, p) \o Rest(text, k, NextOf(text, p, k))
                               ELSE IF OpenOf(text, p) = 0 THEN From(text, p) ELSE ShownTo(text, p)
<1> DEFINE n == Len(text)
<1> DEFINE D == 1 .. n + 1
<1> DEFINE S == Texts
<1> DEFINE Goes(q) == HasBlock(text, q, k)
<1> DEFINE To(q) == NextOf(text, q, k)
<1> DEFINE Plain(f, q) == IF Goes(q) THEN ShownTo(text, q) \o f[To(q)]
                          ELSE IF OpenOf(text, q) = 0 THEN From(text, q) ELSE ShownTo(text, q)
<1> DEFINE goes == [q \in D |-> Goes(q)]
<1> DEFINE next == [q \in D |-> IF Goes(q) THEN To(q) ELSE q]
<1> DEFINE step == [q \in D |-> [s \in S |-> IF Goes(q) THEN ShownTo(text, q) \o s ELSE s]]
<1> DEFINE base == [q \in D |-> IF Goes(q) THEN << >> ELSE IF OpenOf(text, q) = 0 THEN From(text, q) ELSE ShownTo(text, q)]
<1> DEFINE IsScan(f) == f = [q \in 1 .. Len(text) + 1 |->
        LET open == Find(text, DISPATCH_OPEN, q)
            close == Find(text, BLOCK_CLOSE, open + k)
            shown == SubSeq(text, q, StartOf(text, open, q) - 1)
        IN  IF open = 0 THEN From(text, q)
            ELSE IF close = 0 THEN shown
            ELSE shown \o f[Past(text, close + 3)]]
<1> DEFINE scan == CHOOSE f : IsScan(f)
<1>1. n \in Nat /\ Len(DISPATCH_OPEN) = 3 /\ Len(BLOCK_CLOSE) = 3
  BY Tags DEF Texts
<1>2. ASSUME NEW q \in D
      PROVE  /\ Goes(q) => To(q) \in D /\ q < To(q)
             /\ Goes(q) => ShownTo(text, q) \in S /\ \A s \in S : ShownTo(text, q) \o s \in S
             /\ ~ Goes(q) => (IF OpenOf(text, q) = 0 THEN From(text, q) ELSE ShownTo(text, q)) \in S
             /\ << >> \in S
  <2>1. Goes(q) => NextOf(text, q, k) \in q + 1 .. Len(text) + 1
    BY CloseFacts
  <2>2. OpenOf(text, q) # 0 => ShownTo(text, q) \in Texts
    BY ShownFacts
  <2>3. From(text, q) \in Texts
    BY FromFacts
  <2>4. OpenOf(text, q) # 0 => \A s \in S : ShownTo(text, q) \o s \in S
    BY <2>2, ConcatProperties, Zenon DEF Texts
  <2>5. << >> \in S
    BY DEF Texts
  <2> QED BY <1>1, <2>1, <2>2, <2>3, <2>4, <2>5 DEF HasBlock
<1>3. ASSUME NEW f PROVE IsScan(f) <=> f = [q \in D |-> Plain(f, q)]
  <2>1. IsScan(f) <=> f = [q \in D |->
            IF OpenOf(text, q) = 0 THEN From(text, q)
            ELSE IF CloseOf(text, q, k) = 0 THEN ShownTo(text, q)
            ELSE ShownTo(text, q) \o f[NextOf(text, q, k)]]
    BY Zenon DEF OpenOf, CloseOf, NextOf, ShownTo, StartAt
  <2>2. \A q \in D : Plain(f, q) =
            IF OpenOf(text, q) = 0 THEN From(text, q)
            ELSE IF CloseOf(text, q, k) = 0 THEN ShownTo(text, q)
            ELSE ShownTo(text, q) \o f[NextOf(text, q, k)]
    BY DEF HasBlock
  <2> QED BY <2>1, <2>2
<1>4. /\ goes \in [D -> BOOLEAN] /\ next \in [D -> D] /\ step \in [D -> [S -> S]]
      /\ base \in [D -> S] /\ Forward(D, goes, next)
  <2>1. goes \in [D -> BOOLEAN]
    BY DEF HasBlock
  <2>2. next \in [D -> D] /\ Forward(D, goes, next)
    BY <1>1, <1>2 DEF Forward
  <2>3. step \in [D -> [S -> S]] /\ base \in [D -> S]
    BY <1>2
  <2> QED BY <2>1, <2>2, <2>3
<1>11. IsPlaces(D, n)
  BY DEF IsPlaces
<1> HIDE DEF n, D, S, goes, next, step, base, IsScan
<1>5. \E f : IsScan(f)
  <2>1. PICK f \in [D -> S] : Solution(f, D, goes, next, step, base)
    BY <1>1, <1>4, <1>11, Scanning, Zenon
  <2>2. ASSUME NEW q \in D
        PROVE  f[q] = Plain(f, q)
    <3>1. next[q] \in D
      BY <1>4
    <3>2. f[next[q]] \in S
      BY <3>1
    <3>3. f[q] = IF goes[q] THEN step[q][f[next[q]]] ELSE base[q]
      BY <2>1 DEF Solution
    <3>4. Goes(q) => next[q] = To(q)
      BY DEF next
    <3> QED BY <3>2, <3>3, <3>4 DEF goes, step, base
  <2>3. f = [q \in D |-> Plain(f, q)]
    BY <2>2
  <2> QED BY <1>3, <2>3, Zenon
<1>6. IsScan(scan)
  BY <1>5, Zenon
<1>7. \A q : Rest(text, k, q) = scan[q]
  BY Zenon DEF Rest, scan, IsScan
<1> HIDE DEF scan
<1>8. scan = [q \in D |-> Plain(scan, q)]
  BY <1>3, <1>6, Zenon
<1>9. Stays(scan, S, D, goes, next)
  <2>1. ASSUME NEW q \in D, goes[q] => scan[next[q]] \in S PROVE scan[q] \in S
    <3>1. scan[q] = Plain(scan, q)
      BY <1>8
    <3>2. CASE Goes(q)
      <4>1. scan[To(q)] \in S
        BY <2>1, <3>2 DEF next, goes
      <4> QED BY <1>2, <3>1, <3>2, <4>1
    <3>3. CASE ~ Goes(q)
      BY <1>2, <3>1, <3>3
    <3> QED BY <3>2, <3>3
  <2> QED BY <2>1 DEF Stays
<1>10. \A q \in D : scan[q] \in S
  BY <1>1, <1>4, <1>9, <1>11, Staying, Zenon
<1> QED BY <1>7, <1>8, <1>10 DEF D, S, n

\* What the strip prints; its place where a block begins does not look at what
\* is already printed.
Printed == Seq(Chars \cup {"panic"})

StripStart(text, p) == StartOf(text, OpenOf(text, p), 1)

\* strip_task_markers, one block at a time.
LEMMA StripGoesOn ==
  ASSUME NEW text \in Texts, NEW p \in 1 .. Len(text) + 1
  PROVE  /\ StripFrom(text, p) \in Printed
         /\ StripFrom(text, p) =
              IF OpenOf(text, p) = 0 THEN From(text, p)
              ELSE IF StripStart(text, p) < p THEN <<"panic">>
              ELSE IF CloseOf(text, p, 3) = 0 THEN SubSeq(text, p, StripStart(text, p) - 1)
              ELSE SubSeq(text, p, StripStart(text, p) - 1) \o StripFrom(text, NextOf(text, p, 3))
<1> DEFINE n == Len(text)
<1> DEFINE D == 1 .. n + 1
<1> DEFINE S == Printed
<1> DEFINE Goes(q) == HasBlock(text, q, 3) /\ q <= StripStart(text, q)
<1> DEFINE To(q) == NextOf(text, q, 3)
<1> DEFINE Still(q) == IF OpenOf(text, q) = 0 THEN From(text, q)
                    ELSE IF StripStart(text, q) < q THEN <<"panic">>
                    ELSE SubSeq(text, q, StripStart(text, q) - 1)
<1> DEFINE Plain(f, q) == IF Goes(q) THEN SubSeq(text, q, StripStart(text, q) - 1) \o f[To(q)] ELSE Still(q)
<1> DEFINE goes == [q \in D |-> Goes(q)]
<1> DEFINE next == [q \in D |-> IF Goes(q) THEN To(q) ELSE q]
<1> DEFINE step == [q \in D |-> [s \in S |-> IF Goes(q) THEN SubSeq(text, q, StripStart(text, q) - 1) \o s ELSE s]]
<1> DEFINE base == [q \in D |-> IF Goes(q) THEN << >> ELSE Still(q)]
<1> DEFINE IsScan(f) == f = [q \in 1 .. Len(text) + 1 |->
        LET open == Find(text, DISPATCH_OPEN, q)
            start == StartOf(text, open, 1)
            close == Find(text, BLOCK_CLOSE, open + Len(DISPATCH_OPEN))
            shown == SubSeq(text, q, start - 1)
        IN  IF open = 0 THEN From(text, q)
            ELSE IF start < q THEN <<"panic">>
            ELSE IF close = 0 THEN shown
            ELSE shown \o f[Past(text, close + Len(BLOCK_CLOSE))]]
<1> DEFINE scan == CHOOSE f : IsScan(f)
<1>1. n \in Nat /\ Len(DISPATCH_OPEN) = 3 /\ Len(BLOCK_CLOSE) = 3
  BY Tags DEF Texts
<1>2. ASSUME NEW q \in D
      PROVE  /\ Goes(q) => To(q) \in D /\ q < To(q) /\ OpenOf(text, q) # 0
             /\ OpenOf(text, q) # 0 => StripStart(text, q) \in Nat
             /\ OpenOf(text, q) # 0 => SubSeq(text, q, StripStart(text, q) - 1) \in S
             /\ OpenOf(text, q) # 0 => \A s \in S : SubSeq(text, q, StripStart(text, q) - 1) \o s \in S
             /\ From(text, q) \in S /\ << >> \in S /\ <<"panic">> \in S
             /\ Still(q) \in S
  <2>1. HasBlock(text, q, 3) => NextOf(text, q, 3) \in q + 1 .. Len(text) + 1
    BY CloseFacts
  <2>2. OpenOf(text, q) # 0 => StripStart(text, q) \in Nat /\ SubSeq(text, q, StripStart(text, q) - 1) \in Texts
    <3>1. SUFFICES ASSUME OpenOf(text, q) # 0
                   PROVE  StripStart(text, q) \in Nat /\ SubSeq(text, q, StripStart(text, q) - 1) \in Texts
      OBVIOUS
    <3>2. OpenOf(text, q) \in Nat /\ q <= OpenOf(text, q) /\ OpenOf(text, q) + 2 <= Len(text) /\ q \in Nat \ {0}
      BY <3>1, OpenFacts
    <3>3. StripStart(text, q) \in Nat \ {0} /\ StripStart(text, q) <= OpenOf(text, q)
      BY <3>2 DEF StripStart, StartOf
    <3>4. StripStart(text, q) - 1 \in Nat /\ StripStart(text, q) - 1 <= Len(text)
      BY <1>1, <3>2, <3>3
    <3> QED BY <3>2, <3>3, <3>4, Slice
  <2>3. From(text, q) \in Texts
    BY FromFacts
  <2>4. Texts \subseteq S
    BY SeqMonotonic DEF Texts, Printed
  <2>5. << >> \in S /\ <<"panic">> \in S
    BY DEF Printed
  <2>6. \A t, s \in S : t \o s \in S
    BY ConcatProperties, Zenon DEF Printed
  <2> HIDE DEF S
  <2> QED BY <1>1, <2>1, <2>2, <2>3, <2>4, <2>5, <2>6 DEF HasBlock
<1>12. ASSUME NEW f, NEW q \in D
       PROVE  Plain(f, q) =
            IF OpenOf(text, q) = 0 THEN From(text, q)
            ELSE IF StripStart(text, q) < q THEN <<"panic">>
            ELSE IF CloseOf(text, q, 3) = 0 THEN SubSeq(text, q, StripStart(text, q) - 1)
            ELSE SubSeq(text, q, StripStart(text, q) - 1) \o f[NextOf(text, q, 3)]
  <2>2. OpenOf(text, q) # 0 => StripStart(text, q) \in Nat
    BY <1>2
  <2>3. q \in Nat
    BY <1>1
  <2> QED BY <2>2, <2>3 DEF HasBlock
<1>3. ASSUME NEW f PROVE IsScan(f) <=> f = [q \in D |-> Plain(f, q)]
  <2>1. IsScan(f) <=> f = [q \in D |->
            IF OpenOf(text, q) = 0 THEN From(text, q)
            ELSE IF StripStart(text, q) < q THEN <<"panic">>
            ELSE IF CloseOf(text, q, 3) = 0 THEN SubSeq(text, q, StripStart(text, q) - 1)
            ELSE SubSeq(text, q, StripStart(text, q) - 1) \o f[NextOf(text, q, 3)]]
    BY <1>1 DEF OpenOf, CloseOf, NextOf, StripStart
  <2> QED BY <2>1, <1>12
<1>4. /\ goes \in [D -> BOOLEAN] /\ next \in [D -> D] /\ step \in [D -> [S -> S]]
      /\ base \in [D -> S] /\ Forward(D, goes, next)
  <2>1. goes \in [D -> BOOLEAN]
    BY DEF HasBlock
  <2>2. next \in [D -> D] /\ Forward(D, goes, next)
    BY <1>1, <1>2 DEF Forward
  <2>3. step \in [D -> [S -> S]] /\ base \in [D -> S]
    <3> HIDE DEF S, Goes, Still
    <3> QED BY <1>2
  <2> QED BY <2>1, <2>2, <2>3
<1>11. IsPlaces(D, n)
  BY DEF IsPlaces
<1> HIDE DEF Still, n, D, S, goes, next, step, base, IsScan
<1>5. \E f : IsScan(f)
  <2>1. PICK f \in [D -> S] : Solution(f, D, goes, next, step, base)
    BY <1>1, <1>4, <1>11, Scanning, Zenon
  <2>2. ASSUME NEW q \in D
        PROVE  f[q] = Plain(f, q)
    <3>1. next[q] \in D
      BY <1>4
    <3>2. f[next[q]] \in S
      BY <3>1
    <3>3. f[q] = IF goes[q] THEN step[q][f[next[q]]] ELSE base[q]
      BY <2>1 DEF Solution
    <3>4. Goes(q) => next[q] = To(q)
      BY DEF next
    <3> QED BY <3>2, <3>3, <3>4 DEF goes, step, base
  <2>3. f = [q \in D |-> Plain(f, q)]
    BY <2>2
  <2> QED BY <1>3, <2>3, Zenon
<1>6. IsScan(scan)
  BY <1>5, Zenon
<1>7. \A q : StripFrom(text, q) = scan[q]
  BY Zenon DEF StripFrom, scan, IsScan
<1> HIDE DEF scan
<1>8. scan = [q \in D |-> Plain(scan, q)]
  BY <1>3, <1>6, Zenon
<1>9. Stays(scan, S, D, goes, next)
  <2>1. ASSUME NEW q \in D, goes[q] => scan[next[q]] \in S PROVE scan[q] \in S
    <3>1. scan[q] = Plain(scan, q)
      BY <1>8
    <3>2. CASE Goes(q)
      <4>1. scan[To(q)] \in S
        BY <2>1, <3>2 DEF next, goes
      <4> HIDE DEF Goes
      <4> QED BY <1>2, <3>1, <3>2, <4>1
    <3>3. CASE ~ Goes(q)
      BY <1>2, <3>1, <3>3
    <3> QED BY <3>2, <3>3
  <2> QED BY <2>1 DEF Stays
<1>10. \A q \in D : scan[q] \in S
  BY <1>1, <1>4, <1>9, <1>11, Staying, Zenon
<1>13. scan[p] = Plain(scan, p) /\ p \in D
  BY <1>8 DEF D, n
<1>14. /\ StripFrom(text, p) = scan[p]
       /\ StripFrom(text, NextOf(text, p, 3)) = scan[NextOf(text, p, 3)]
  BY <1>7, Zenon
<1>15. scan[p] \in Printed
  BY <1>10, <1>13 DEF S
<1> QED BY <1>12, <1>13, <1>14, <1>15

\* Texts are joined in any grouping.
LEMMA Joins ==
  ASSUME NEW s \in Texts, NEW t \in Texts, NEW u \in Texts
  PROVE  (s \o t) \o u = s \o (t \o u) /\ s \o t \in Texts
<1>1. s \in Seq(Chars) /\ t \in Seq(Chars) /\ u \in Seq(Chars)
  BY DEF Texts
<1>2. (s \o t) \o u = s \o (t \o u)
  BY <1>1, ConcatAssociative
<1>3. s \o t \in Seq(Chars)
  BY <1>1, ConcatProperties, Zenon
<1> QED BY <1>2, <1>3 DEF Texts

-----------------------------------------------------------------------------
(* What is visible is what is left when the blocks are taken out one by one.  *)

\* v is what is visible up to each place.
Telling(v, text) ==
  /\ v[0] = << >>
  /\ \A i \in 1 .. Len(text) : v[i] = IF Shown(text, i) THEN Append(v[i - 1], text[i]) ELSE v[i - 1]
  /\ \A i \in 0 .. Len(text) : v[i] \in Texts

\* The visible text is told place by place.
LEMMA VisibleIsTold ==
  ASSUME NEW text \in Texts
  PROVE  \E v : Telling(v, text) /\ Visible(text) = v[Len(text)]
<1> DEFINE n == Len(text)
<1> DEFINE D == 0 .. n
<1> DEFINE S == Texts
<1> DEFINE m == [i \in D |-> i]
<1> DEFINE goes == [i \in D |-> i # 0]
<1> DEFINE next == [i \in D |-> IF i = 0 THEN 0 ELSE i - 1]
<1> DEFINE More(s, i) == IF Shown(text, i) THEN Append(s, text[i]) ELSE s
<1> DEFINE step == [i \in D |-> [s \in S |-> IF i = 0 THEN s ELSE More(s, i)]]
<1> DEFINE base == [i \in D |-> << >>]
<1> DEFINE IsTold(f) == f = [i \in 0 .. Len(text) |->
        IF i = 0 THEN << >>
        ELSE IF Shown(text, i) THEN Append(f[i - 1], text[i]) ELSE f[i - 1]]
<1> DEFINE told == CHOOSE f : IsTold(f)
<1>1. n \in Nat /\ << >> \in S
  BY DEF Texts
<1>2. \A i \in 1 .. n : \A s \in S : More(s, i) \in S
  <2>1. \A i \in 1 .. n : text[i] \in Chars
    BY DEF Texts
  <2> QED BY <2>1 DEF Texts
<1>3. ASSUME NEW f PROVE IsTold(f) <=> f = [i \in D |-> IF i = 0 THEN << >> ELSE More(f[i - 1], i)]
  BY Zenon
<1> HIDE DEF S, More, n, IsTold
<1>4. /\ m \in [D -> 0 .. n] /\ goes \in [D -> BOOLEAN] /\ next \in [D -> D]
      /\ step \in [D -> [S -> S]] /\ base \in [D -> S] /\ Descends(D, m, goes, next)
  <2>1. m \in [D -> 0 .. n] /\ goes \in [D -> BOOLEAN] /\ next \in [D -> D]
    BY <1>1
  <2>2. base \in [D -> S] /\ Descends(D, m, goes, next)
    BY <1>1 DEF Descends
  <2>3. \A i \in D : i # 0 => i \in 1 .. n
    BY <1>1
  <2>4. step \in [D -> [S -> S]]
    <3> HIDE DEF D
    <3> QED BY <1>2, <2>3
  <2> QED BY <2>1, <2>2, <2>4
<1>5. \E f : IsTold(f)
  <2>1. PICK f \in [D -> S] : Solution(f, D, goes, next, step, base)
    <3> HIDE DEF D, m, goes, next, step, base
    <3> QED BY <1>1, <1>4, Recursion, Zenon
  <2>2. ASSUME NEW i \in D PROVE f[i] = IF i = 0 THEN << >> ELSE More(f[i - 1], i)
    <3>1. next[i] \in D /\ (i # 0 => next[i] = i - 1)
      BY <1>1
    <3> HIDE DEF next
    <3>2. f[next[i]] \in S
      BY <3>1
    <3>3. f[i] = IF goes[i] THEN step[i][f[next[i]]] ELSE base[i]
      BY <2>1 DEF Solution
    <3> QED BY <3>1, <3>2, <3>3
  <2>3. f = [i \in D |-> IF i = 0 THEN << >> ELSE More(f[i - 1], i)]
    BY <2>2
  <2> QED BY <1>3, <2>3, Zenon
<1>6. IsTold(told)
  BY <1>5, Zenon
<1>7. Visible(text) = told[n]
  BY Zenon DEF Visible, told, IsTold, n
<1> HIDE DEF told
<1>8. told = [i \in D |-> IF i = 0 THEN << >> ELSE More(told[i - 1], i)]
  BY <1>3, <1>6, Zenon
<1>9. told[0] = << >> /\ \A i \in 1 .. n : told[i] = More(told[i - 1], i)
  BY <1>1, <1>8
<1>10. \A i \in 0 .. n : told[i] \in S
  <2> DEFINE P == {i \in 0 .. n : told[i] \in S}
  <2>1. 0 \in P /\ \A i \in 1 .. n : i - 1 \in P => i \in P
    BY <1>1, <1>2, <1>9
  <2> HIDE DEF P
  <2>2. \A i \in 0 .. n : i \in P
    BY <1>1, <2>1, Upwards
  <2> QED BY <2>2 DEF P
<1>11. Telling(told, text)
  BY <1>9, <1>10 DEF Telling, n, S, More
<1> QED BY <1>7, <1>11 DEF n

\* A stretch that is shown is told as it is, one that is hidden not at all.
LEMMA Showing ==
  ASSUME NEW text \in Texts, NEW v, Telling(v, text), NEW a \in Nat \ {0}, NEW b \in Nat,
         a <= b + 1, b <= Len(text), \A i \in a .. b : Shown(text, i)
  PROVE  v[b] = v[a - 1] \o SubSeq(text, a, b)
<1> DEFINE n == b + 1 - a
<1> DEFINE P == {k \in 0 .. n : v[a - 1 + k] = v[a - 1] \o SubSeq(text, a, a - 1 + k)}
<1>1. n \in Nat /\ a - 1 \in 0 .. Len(text) /\ Len(text) \in Nat /\ v[a - 1] \in Texts
  BY DEF Texts, Telling
<1>2. 0 \in P
  <2>1. SubSeq(text, a, a - 1) = << >>
    BY NoSlice
  <2>2. v[a - 1] \o << >> = v[a - 1]
    BY <1>1, ConcatEmptySeq DEF Texts
  <2>3. \A j : j = a - 1 => v[j] = v[a - 1] \o SubSeq(text, a, j)
    BY <2>1, <2>2
  <2>4. v[a - 1 + 0] = v[a - 1] \o SubSeq(text, a, a - 1 + 0)
    <3>1. a - 1 + 0 = a - 1
      OBVIOUS
    <3> QED BY <2>3, <3>1, Zenon
  <2>5. 0 \in 0 .. n
    BY <1>1
  <2> QED BY <2>4, <2>5
<1>3. ASSUME NEW k \in 1 .. n, k - 1 \in P PROVE k \in P
  <2> DEFINE i == a - 1 + k
  <2>1. i \in 1 .. Len(text) /\ i \in a .. b /\ i - 1 = a - 1 + (k - 1) /\ i - 1 \in Nat
        /\ a <= i /\ i - 1 <= Len(text)
    BY <1>1
  <2>2. v[i - 1] = v[a - 1] \o SubSeq(text, a, i - 1)
    BY <1>3, <2>1
  <2>3. v[i] = Append(v[i - 1], text[i])
    BY <2>1 DEF Telling
  <2>4. SubSeq(text, a, i) = SubSeq(text, a, i - 1) \o <<text[i]>> /\ text[i] \in Chars
    BY <1>1, <2>1, SubSeqRecursiveSecond DEF Texts
  <2>5. SubSeq(text, a, i - 1) \in Texts
    BY <2>1, Slice
  <2>9. v[i - 1] \in Seq(Chars) /\ v[a - 1] \in Seq(Chars) /\ SubSeq(text, a, i - 1) \in Seq(Chars)
        /\ text[i] \in Chars /\ <<text[i]>> \in Seq(Chars)
    <3>1. i - 1 \in 0 .. Len(text)
      BY <1>1, <2>1
    <3>2. v[i - 1] \in Seq(Chars) /\ v[a - 1] \in Seq(Chars)
      BY <1>1, <3>1 DEF Telling, Texts
    <3>3. text[i] \in Chars /\ SubSeq(text, a, i - 1) \in Seq(Chars)
      BY <2>4, <2>5 DEF Texts
    <3> HIDE DEF i
    <3> QED BY <3>2, <3>3
  <2> HIDE DEF i
  <2>6. Append(v[i - 1], text[i]) = v[i - 1] \o <<text[i]>>
    BY <2>9, AppendIsConcat, Zenon
  <2>7. (v[a - 1] \o SubSeq(text, a, i - 1)) \o <<text[i]>>
           = v[a - 1] \o (SubSeq(text, a, i - 1) \o <<text[i]>>)
    <3>1. v[a - 1] \in Texts /\ SubSeq(text, a, i - 1) \in Texts /\ <<text[i]>> \in Texts
      BY <2>9 DEF Texts
    <3>2. \A x, y, z \in Texts : (x \o y) \o z = x \o (y \o z)
      BY Joins
    <3> QED BY <3>1, <3>2
  <2>8. v[i] = v[a - 1] \o SubSeq(text, a, i)
    <3>1. v[i] = (v[a - 1] \o SubSeq(text, a, i - 1)) \o <<text[i]>>
      BY <2>2, <2>3, <2>6, Zenon
    <3> QED BY <2>4, <2>7, <3>1, Zenon
  <2>10. k \in 0 .. n
    BY <1>1
  <2> QED BY <2>8, <2>10 DEF i
<1> HIDE DEF P, n
<1>4. \A k \in 0 .. n : k \in P
  BY <1>1, <1>2, <1>3, Upwards
<1>5. n \in P /\ a - 1 + n = b
  BY <1>1, <1>4 DEF n
<1> QED BY <1>5 DEF P

\* A stretch that is hidden is not told at all.
LEMMA Hiding ==
  ASSUME NEW text \in Texts, NEW v, Telling(v, text), NEW a \in Nat \ {0}, NEW b \in Nat,
         a <= b + 1, b <= Len(text), \A i \in a .. b : ~ Shown(text, i)
  PROVE  v[b] = v[a - 1]
<1> DEFINE n == b + 1 - a
<1> DEFINE P == {k \in 0 .. n : v[a - 1 + k] = v[a - 1]}
<1>1. n \in Nat /\ Len(text) \in Nat
  BY DEF Texts
<1>2. 0 \in P
  BY <1>1
<1>3. ASSUME NEW k \in 1 .. n, k - 1 \in P PROVE k \in P
  <2> DEFINE i == a - 1 + k
  <2>1. i \in 1 .. Len(text) /\ i \in a .. b /\ i - 1 = a - 1 + (k - 1)
    BY <1>1
  <2>2. v[i] = v[i - 1]
    BY <2>1 DEF Telling
  <2>3. v[i - 1] = v[a - 1]
    BY <1>3, <2>1
  <2> QED BY <2>2, <2>3
<1> HIDE DEF P, n
<1>4. \A k \in 0 .. n : k \in P
  BY <1>1, <1>2, <1>3, Upwards
<1>5. n \in P /\ a - 1 + n = b
  BY <1>1, <1>4 DEF n
<1> QED BY <1>5 DEF P

\* Max of a bounded set is in it and bounds it.
LEMMA Greatest ==
  ASSUME NEW n \in Nat, NEW S \in SUBSET (0 .. n), S # {}
  PROVE  Max(S) \in S /\ \A y \in S : y <= Max(S)
<1> DEFINE T == {n - x : x \in S}
<1>0. \A x \in S : x \in Nat /\ n - x \in Nat
  OBVIOUS
<1>1. T \in SUBSET Nat /\ T # {}
  BY <1>0
<1>2. PICK t \in T : \A u \in T : t <= u
  BY <1>1, LeastElement
<1>3. PICK x \in S : t = n - x
  BY <1>2
<1>4. \A y \in S : x >= y
  BY <1>0, <1>2, <1>3
<1>5. Max(S) \in S /\ \A y \in S : Max(S) >= y
  BY <1>4 DEF Max
<1> QED BY <1>0, <1>5

\* The extents of the blocks behind a place.
ExtentsFrom(text, p) ==
  LET blocks == BlocksFrom(text, p)
      open == Find(text, DISPATCH_OPEN, Max({p} \cup {b.end : b \in blocks}))
  IN  blocks \cup IF open = 0 THEN {} ELSE {[open |-> open, end |-> Len(text) + 1]}

Within(b, from, to) ==
  /\ b.open \in Nat /\ b.end \in Nat
  /\ from <= b.open /\ b.open < b.end /\ b.end <= to

\* The blocks found from a place lie behind it and within the text.
LEMMA BlocksBounded ==
  ASSUME NEW text \in Texts
  PROVE  \A p \in 1 .. Len(text) + 1 : \A b \in BlocksFrom(text, p) : Within(b, p, Len(text) + 1)
<1> DEFINE n == Len(text)
<1> DEFINE P == {p \in 1 .. n + 1 : \A b \in BlocksFrom(text, p) : Within(b, p, n + 1)}
<1>1. n \in Nat
  BY DEF Texts
<1>2. ASSUME NEW p \in 1 .. n + 1, \A q \in p + 1 .. n + 1 : q \in P PROVE p \in P
  <2>1. CASE ~ HasBlock(text, p, 3)
    <3>1. BlocksFrom(text, p) = {}
      BY <2>1, BlocksGoOn
    <3> QED BY <3>1
  <2>2. CASE HasBlock(text, p, 3)
    <3> DEFINE e == CloseOf(text, p, 3) + 3
    <3>1. BlocksFrom(text, p) = {BlockOf(text, p)} \cup BlocksFrom(text, e)
      BY <2>2, BlocksGoOn
    <3>2. e \in p + 1 .. n + 1 /\ CloseOf(text, p, 3) \in Nat /\ OpenOf(text, p) + 3 <= CloseOf(text, p, 3)
      BY <2>2, CloseFacts
    <3>3. OpenOf(text, p) \in Nat /\ p <= OpenOf(text, p)
      BY <2>2, OpenFacts DEF HasBlock
    <3>4. Within(BlockOf(text, p), p, n + 1)
      BY <1>1, <3>2, <3>3 DEF Within, BlockOf
    <3>5. \A b \in BlocksFrom(text, e) : Within(b, e, n + 1)
      BY <1>2, <3>2
    <3>6. \A b \in BlocksFrom(text, e) : Within(b, p, n + 1)
      <4> HIDE DEF e
      <4> QED BY <1>1, <3>2, <3>5 DEF Within
    <3> QED BY <3>1, <3>4, <3>6
  <2> QED BY <2>1, <2>2
<1> HIDE DEF P
<1>3. InductiveBack(P, n)
  BY <1>2 DEF InductiveBack
<1>4. \A p \in 1 .. n + 1 : p \in P
  BY <1>1, <1>3, Backwards, Zenon
<1> QED BY <1>4 DEF P

\* The extents found from a place are the first one and those found from its end,
LEMMA ExtentsGoOn ==
  ASSUME NEW text \in Texts, NEW p \in 1 .. Len(text) + 1
  PROVE  ExtentsFrom(text, p) =
           IF HasBlock(text, p, 3)
           THEN {BlockOf(text, p)} \cup ExtentsFrom(text, CloseOf(text, p, 3) + 3)
           ELSE IF OpenOf(text, p) = 0 THEN {}
           ELSE {[open |-> OpenOf(text, p), end |-> Len(text) + 1]}
<1> DEFINE n == Len(text)
<1> DEFINE Ends(q) == {b.end : b \in BlocksFrom(text, q)}
<1>1. n \in Nat /\ p \in Nat \ {0} /\ p <= n + 1
  BY DEF Texts
<1>2. ASSUME NEW q \in 1 .. n + 1 PROVE Ends(q) \in SUBSET (q .. n + 1)
  <2>1. \A b \in BlocksFrom(text, q) : b.end \in q .. n + 1
    BY <1>1, <1>2, BlocksBounded DEF Within
  <2> QED BY <2>1
<1>3. CASE HasBlock(text, p, 3)
  <2> DEFINE e == CloseOf(text, p, 3) + 3
  <2>1. e \in p + 1 .. n + 1 /\ e \in 1 .. n + 1
    BY <1>1, <1>3, CloseFacts
  <2>2. BlocksFrom(text, p) = {BlockOf(text, p)} \cup BlocksFrom(text, e) /\ BlockOf(text, p).end = e
    BY <1>3, BlocksGoOn DEF BlockOf
  <2>3. Ends(p) = {e} \cup Ends(e)
    BY <2>2
  <2>4. Ends(e) \in SUBSET (e .. n + 1)
    BY <1>2, <2>1
  <2> HIDE DEF Ends, e, n
  <2> DEFINE A == {p} \cup Ends(p)
  <2> DEFINE C == {e} \cup Ends(e)
  <2>5. A \in SUBSET (0 .. n + 1) /\ C \in SUBSET (0 .. n + 1) /\ A # {} /\ C # {} /\ n + 1 \in Nat
        /\ A = {p} \cup C /\ e \in C
    BY <1>1, <2>1, <2>3, <2>4
  <2> HIDE DEF A, C
  <2>6. Max(A) \in A /\ (\A y \in A : y <= Max(A)) /\ Max(C) \in C /\ \A y \in C : y <= Max(C)
    BY <2>5, Greatest
  <2>7. Max(A) = Max(C)
    <3>1. e <= Max(A) /\ e <= Max(C) /\ Max(C) <= Max(A)
      BY <2>5, <2>6
    <3>2. Max(A) # p
      BY <1>1, <2>1, <3>1
    <3>3. Max(A) \in C
      BY <2>5, <2>6, <3>2
    <3>4. Max(A) <= Max(C)
      BY <2>6, <3>3
    <3>5. Max(A) \in Nat /\ Max(C) \in Nat
      <4>1. \A y \in 0 .. n + 1 : y \in Nat
        BY <2>5
      <4> QED BY <2>5, <2>6, <4>1
    <3> QED BY <3>1, <3>4, <3>5
  <2>8. ExtentsFrom(text, p) = {BlockOf(text, p)} \cup ExtentsFrom(text, e)
    BY <2>2, <2>7 DEF ExtentsFrom, A, C, Ends
  <2> QED BY <1>3, <2>8 DEF e
<1>4. CASE ~ HasBlock(text, p, 3)
  <2>1. BlocksFrom(text, p) = {}
    BY <1>4, BlocksGoOn
  <2>2. {p} \cup {b.end : b \in BlocksFrom(text, p)} = {p}
    BY <2>1
  <2>3. Max({p}) = p
    <3>1. {p} \in SUBSET (0 .. p) /\ {p} # {} /\ p \in Nat
      BY <1>1
    <3>2. Max({p}) \in {p}
      BY <3>1, Greatest
    <3> QED BY <3>2
  <2>4. ExtentsFrom(text, p) = IF OpenOf(text, p) = 0 THEN {}
                               ELSE {[open |-> OpenOf(text, p), end |-> Len(text) + 1]}
    BY <2>1, <2>2, <2>3 DEF ExtentsFrom, OpenOf
  <2> QED BY <1>4, <2>4
<1> QED BY <1>3, <1>4

\* or from behind the newline after it,
LEMMA ExtentsPast ==
  ASSUME NEW text \in Texts, NEW p \in 1 .. Len(text) + 1, HasBlock(text, p, 3)
  PROVE  ExtentsFrom(text, p) = {BlockOf(text, p)} \cup ExtentsFrom(text, NextOf(text, p, 3))
<1> DEFINE e == CloseOf(text, p, 3) + 3
<1> DEFINE q == NextOf(text, p, 3)
<1>1. e \in 1 .. Len(text) + 1 /\ q \in 1 .. Len(text) + 1
      /\ Find(text, DISPATCH_OPEN, e) = Find(text, DISPATCH_OPEN, q)
  <2>1. e \in p + 1 .. Len(text) + 1 /\ q \in p + 1 .. Len(text) + 1
        /\ Find(text, DISPATCH_OPEN, e) = Find(text, DISPATCH_OPEN, q)
    BY CloseFacts
  <2> QED BY <2>1
<1>2. ExtentsFrom(text, p) = {BlockOf(text, p)} \cup ExtentsFrom(text, e)
  BY ExtentsGoOn
<1> HIDE DEF e, q
<1>3. OpenOf(text, e) = OpenOf(text, q) /\ CloseOf(text, e, 3) = CloseOf(text, q, 3)
      /\ (HasBlock(text, e, 3) <=> HasBlock(text, q, 3)) /\ BlockOf(text, e) = BlockOf(text, q)
  BY <1>1 DEF OpenOf, CloseOf, HasBlock, BlockOf
<1>4. ExtentsFrom(text, e) = ExtentsFrom(text, q)
  BY <1>1, <1>3, ExtentsGoOn
<1> QED BY <1>2, <1>4 DEF q

\* and lie behind the place, within the text.
LEMMA ExtentsBounded ==
  ASSUME NEW text \in Texts, NEW p \in 1 .. Len(text) + 1
  PROVE  \A b \in ExtentsFrom(text, p) : Within(b, p, Len(text) + 1)
<1> DEFINE n == Len(text)
<1> DEFINE P == {q \in 1 .. n + 1 : \A b \in ExtentsFrom(text, q) : Within(b, q, n + 1)}
<1>1. n \in Nat
  BY DEF Texts
<1>2. ASSUME NEW q \in 1 .. n + 1, \A r \in q + 1 .. n + 1 : r \in P PROVE q \in P
  <2>1. CASE HasBlock(text, q, 3)
    <3> DEFINE e == CloseOf(text, q, 3) + 3
    <3>1. ExtentsFrom(text, q) = {BlockOf(text, q)} \cup ExtentsFrom(text, e)
      BY <2>1, ExtentsGoOn
    <3>2. e \in q + 1 .. n + 1 /\ CloseOf(text, q, 3) \in Nat /\ OpenOf(text, q) + 3 <= CloseOf(text, q, 3)
      BY <2>1, CloseFacts
    <3>3. OpenOf(text, q) \in Nat /\ q <= OpenOf(text, q)
      BY <2>1, OpenFacts DEF HasBlock
    <3>4. Within(BlockOf(text, q), q, n + 1)
      BY <1>1, <3>2, <3>3 DEF Within, BlockOf
    <3>5. \A b \in ExtentsFrom(text, e) : Within(b, e, n + 1)
      BY <1>2, <3>2
    <3>6. \A b \in ExtentsFrom(text, e) : Within(b, q, n + 1)
      <4> HIDE DEF e
      <4> QED BY <1>1, <3>2, <3>5 DEF Within
    <3> QED BY <3>1, <3>4, <3>6
  <2>2. CASE ~ HasBlock(text, q, 3) /\ OpenOf(text, q) # 0
    <3>1. OpenOf(text, q) \in Nat /\ q <= OpenOf(text, q) /\ OpenOf(text, q) + 2 <= n
      BY <2>2, OpenFacts
    <3>2. ExtentsFrom(text, q) = {[open |-> OpenOf(text, q), end |-> n + 1]}
      BY <2>2, ExtentsGoOn
    <3> QED BY <1>1, <3>1, <3>2 DEF Within
  <2>3. CASE ~ HasBlock(text, q, 3) /\ OpenOf(text, q) = 0
    <3>1. ExtentsFrom(text, q) = {}
      BY <2>3, ExtentsGoOn
    <3> QED BY <3>1
  <2> QED BY <2>1, <2>2, <2>3
<1> HIDE DEF P
<1>3. InductiveBack(P, n)
  BY <1>2 DEF InductiveBack
<1>4. \A q \in 1 .. n + 1 : q \in P
  BY <1>1, <1>3, Backwards, Zenon
<1> QED BY <1>4 DEF P

-----------------------------------------------------------------------------
(* The visible text is what is left when the parser's blocks are taken out.   *)

\* The text is cut at p: the blocks before it are B, and none of them hides it.
CutAt(text, p, B) ==
  /\ Extents(text) = B \cup ExtentsFrom(text, p)
  /\ \A b \in B : Within(b, 1, p) /\ (b.end = p => p > Len(text) \/ text[p] # "n")

\* What is before all extents, and is no newline before one, is shown.
LEMMA ShownBefore ==
  ASSUME NEW text \in Texts, NEW p \in 1 .. Len(text) + 1, NEW B, CutAt(text, p, B),
         NEW i \in p .. Len(text),
         \A b \in ExtentsFrom(text, p) : i < b.open /\ (text[i] = "n" => i + 1 # b.open)
  PROVE  Shown(text, i)
<1>1. Len(text) \in Nat /\ p \in Nat /\ i \in Nat /\ p <= i /\ i <= Len(text)
  BY DEF Texts
<1>2. ASSUME NEW b \in B
      PROVE  (i < b.open \/ i >= b.end) /\ (text[i] = "n" => i + 1 # b.open /\ i # b.end)
  <2>1. b.open \in Nat /\ b.end \in Nat /\ b.open < b.end /\ b.end <= p
    <3>1. Within(b, 1, p)
      BY Zenon DEF CutAt
    <3> QED BY <3>1 DEF Within
  <2>2. b.end = p => p > Len(text) \/ text[p] # "n"
    BY Zenon DEF CutAt
  <2>3. i >= b.end /\ i + 1 # b.open
    BY <1>1, <2>1
  <2>4. i = b.end => i = p
    BY <1>1, <2>1
  <2> QED BY <1>1, <2>2, <2>3, <2>4
<1>3. ASSUME NEW b \in ExtentsFrom(text, p)
      PROVE  (i < b.open \/ i >= b.end) /\ (text[i] = "n" => i + 1 # b.open /\ i # b.end)
  <2>1. b.open \in Nat /\ b.end \in Nat /\ b.open < b.end
    BY ExtentsBounded DEF Within
  <2>2. i < b.open
    OBVIOUS
  <2>3. i # b.end
    BY <1>1, <2>1, <2>2
  <2> QED BY <2>2, <2>3
<1> QED BY <1>2, <1>3 DEF Shown, CutAt

\* What is in an extent, or a newline next to one, is hidden.
LEMMA HiddenBy ==
  ASSUME NEW text \in Texts, NEW i \in 1 .. Len(text), NEW b \in Extents(text),
         \/ b.open <= i /\ i < b.end
         \/ text[i] = "n" /\ (i + 1 = b.open \/ i = b.end),
         b.open \in Nat, b.end \in Nat
  PROVE  ~ Shown(text, i)
  BY DEF Shown

\* What is told from a place on is the rest from there, if it is from every later one.
LEMMA VisibleStep ==
  ASSUME NEW text \in Texts, NEW v, Telling(v, text), NEW p \in 1 .. Len(text) + 1,
         NEW B, CutAt(text, p, B),
         \A q \in p + 1 .. Len(text) + 1 : \A C : CutAt(text, q, C) =>
            v[Len(text)] = v[q - 1] \o Rest(text, 3, q)
  PROVE  v[Len(text)] = v[p - 1] \o Rest(text, 3, p)
<1> DEFINE n == Len(text)
<1>1. n \in Nat /\ p \in Nat \ {0} /\ p <= n + 1 /\ n <= Len(text)
  BY DEF Texts
<1>2. CASE OpenOf(text, p) = 0
  <2>1. ExtentsFrom(text, p) = {}
    BY <1>2, ExtentsGoOn DEF HasBlock
  <2>2. \A i \in p .. n : Shown(text, i)
    BY <2>1, ShownBefore
  <2>3. v[n] = v[p - 1] \o SubSeq(text, p, n)
    BY <1>1, <2>2, Showing
  <2>4. Rest(text, 3, p) = SubSeq(text, p, n)
    BY <1>2, RestGoesOn DEF HasBlock, From
  <2> QED BY <2>3, <2>4
<1>3. CASE OpenOf(text, p) # 0
  <2> DEFINE open == OpenOf(text, p)
  <2> DEFINE start == StartAt(text, p)
  <2>1. /\ open \in Nat /\ p <= open /\ open + 2 <= n
        /\ start \in Nat /\ p <= start /\ start <= open /\ open <= start + 1
        /\ start = open - 1 => text[start] = "n"
        /\ start = open => open = p \/ text[open - 1] # "n"
    BY <1>3, OpenFacts
  <2>2. PICK b \in ExtentsFrom(text, p) :
          /\ b.open = open
          /\ HasBlock(text, p, 3) => b = BlockOf(text, p)
          /\ ~ HasBlock(text, p, 3) => b.end = n + 1 /\ ExtentsFrom(text, p) = {b}
    <3>1. CASE HasBlock(text, p, 3)
      <4>1. BlockOf(text, p) \in ExtentsFrom(text, p) /\ BlockOf(text, p).open = open
        BY <3>1, ExtentsGoOn DEF BlockOf
      <4> QED BY <3>1, <4>1
    <3>2. CASE ~ HasBlock(text, p, 3)
      <4> DEFINE d == [open |-> open, end |-> n + 1]
      <4>1. ExtentsFrom(text, p) = {d}
        BY <1>3, <3>2, ExtentsGoOn
      <4>2. d.open = open /\ d.end = n + 1
        OBVIOUS
      <4> HIDE DEF d
      <4> QED BY <3>2, <4>1, <4>2
    <3> QED BY <3>1, <3>2
  <2>3. b \in Extents(text) /\ Within(b, p, n + 1)
    BY ExtentsBounded DEF CutAt
  <2> HIDE DEF open, start
  <2>4. \A c \in ExtentsFrom(text, p) : c = b \/ open < c.open
    <3>1. CASE HasBlock(text, p, 3)
      <4>1. ExtentsFrom(text, p) = {b} \cup ExtentsFrom(text, NextOf(text, p, 3))
        BY <2>2, <3>1, ExtentsPast
      <4>2. NextOf(text, p, 3) \in 1 .. n + 1 /\ open < NextOf(text, p, 3) /\ NextOf(text, p, 3) \in Nat
        <5>1. /\ CloseOf(text, p, 3) \in Nat /\ OpenOf(text, p) + 3 <= CloseOf(text, p, 3)
              /\ NextOf(text, p, 3) \in Nat /\ CloseOf(text, p, 3) + 3 <= NextOf(text, p, 3)
              /\ NextOf(text, p, 3) <= n + 1
          BY <3>1, CloseFacts
        <5> QED BY <1>1, <2>1, <5>1 DEF open
      <4>3. \A c \in ExtentsFrom(text, NextOf(text, p, 3)) : Within(c, NextOf(text, p, 3), n + 1)
        BY <4>2, ExtentsBounded
      <4>4. \A c \in ExtentsFrom(text, NextOf(text, p, 3)) : open < c.open
        BY <2>1, <4>2, <4>3 DEF Within
      <4> QED BY <4>1, <4>4
    <3>2. CASE ~ HasBlock(text, p, 3)
      BY <2>2, <3>2
    <3> QED BY <3>1, <3>2
  <2>5. \A i \in p .. start - 1 : Shown(text, i)
    <3>1. SUFFICES ASSUME NEW i \in p .. start - 1 PROVE Shown(text, i)
      OBVIOUS
    <3>2. i \in p .. Len(text) /\ i < open /\ i \in Nat
      BY <1>1, <2>1
    <3>3. text[i] = "n" => i + 1 # open
      <4>1. SUFFICES ASSUME i + 1 = open PROVE text[i] # "n"
        OBVIOUS
      <4>2. start = open /\ i = open - 1 /\ open # p
        BY <2>1, <3>2, <4>1
      <4> QED BY <2>1, <4>2
    <3>4. ASSUME NEW c \in ExtentsFrom(text, p) PROVE i < c.open /\ (text[i] = "n" => i + 1 # c.open)
      <4>1. c.open \in Nat
        BY ExtentsBounded DEF Within
      <4>2. CASE c = b
        BY <2>2, <3>2, <3>3, <4>2
      <4>3. CASE open < c.open
        BY <2>1, <3>2, <4>1, <4>3
      <4> QED BY <2>4, <4>2, <4>3
    <3> QED BY <3>2, <3>4, ShownBefore
  <2>6. v[start - 1] = v[p - 1] \o ShownTo(text, p)
    <3>1. start - 1 \in Nat /\ p <= (start - 1) + 1 /\ start - 1 <= Len(text)
      BY <1>1, <2>1
    <3>2. v[start - 1] = v[p - 1] \o SubSeq(text, p, start - 1)
      BY <1>1, <2>5, <3>1, Showing
    <3> QED BY <3>2 DEF ShownTo, start
  <2>7. CASE ~ HasBlock(text, p, 3)
    <3>1. \A i \in start .. n : ~ Shown(text, i)
      <4>1. SUFFICES ASSUME NEW i \in start .. n PROVE ~ Shown(text, i)
        OBVIOUS
      <4>2. i \in 1 .. Len(text) /\ b.open \in Nat /\ b.end \in Nat /\ b.open = open /\ b.end = n + 1
        BY <1>1, <2>1, <2>2, <2>3, <2>7 DEF Within
      <4>3. (b.open <= i /\ i < b.end) \/ (text[i] = "n" /\ i + 1 = b.open)
        BY <1>1, <2>1, <4>2
      <4> QED BY <2>3, <4>2, <4>3, HiddenBy
    <3>2. v[n] = v[start - 1]
      <4>1. start \in Nat \ {0} /\ start <= n + 1
        BY <1>1, <2>1
      <4> QED BY <1>1, <3>1, <4>1, Hiding
    <3>3. Rest(text, 3, p) = ShownTo(text, p)
      BY <1>3, <2>7, RestGoesOn
    <3> QED BY <2>6, <3>2, <3>3
  <2>8. CASE HasBlock(text, p, 3)
    <3> DEFINE close == CloseOf(text, p, 3)
    <3> DEFINE q == NextOf(text, p, 3)
    <3>1. /\ close \in Nat /\ open + 3 <= close /\ close + 2 <= n
          /\ q \in Nat /\ close + 3 <= q /\ q <= close + 4 /\ q <= n + 1
          /\ q = close + 4 => text[close + 3] = "n"
          /\ q = close + 3 => close + 3 > n \/ text[close + 3] # "n"
          /\ q \in p + 1 .. n + 1
      BY <2>8, CloseFacts DEF open
    <3>2. b.open = open /\ b.end = close + 3
      BY <2>2, <2>8 DEF BlockOf
    <3>3. ExtentsFrom(text, p) = {b} \cup ExtentsFrom(text, q)
      BY <2>2, <2>8, ExtentsPast
    <3>4. v[start - 1] \in Texts /\ v[p - 1] \in Texts /\ ShownTo(text, p) \in Texts
          /\ Rest(text, 3, q) \in Texts
      <4>1. start - 1 \in 0 .. n /\ p - 1 \in 0 .. n /\ q \in 1 .. n + 1
        BY <1>1, <2>1, <3>1
      <4>2. v[start - 1] \in Texts /\ v[p - 1] \in Texts
        BY <4>1 DEF Telling
      <4>3. ShownTo(text, p) \in Texts
        BY <1>3, ShownFacts
      <4>4. Rest(text, 3, q) \in Texts
        <5> HIDE DEF q
        <5> QED BY <4>1, RestGoesOn
      <4> QED BY <4>2, <4>3, <4>4
    <3>9. Rest(text, 3, p) = ShownTo(text, p) \o Rest(text, 3, q)
      BY <2>8, RestGoesOn
    <3> HIDE DEF close, q
    <3>5. \A i \in start .. q - 1 : ~ Shown(text, i)
      <4>1. SUFFICES ASSUME NEW i \in start .. q - 1 PROVE ~ Shown(text, i)
        OBVIOUS
      <4>2. i \in 1 .. Len(text) /\ b.open \in Nat /\ b.end \in Nat
        BY <1>1, <2>1, <2>3, <3>1 DEF Within
      <4>3. \/ b.open <= i /\ i < b.end
            \/ text[i] = "n" /\ (i + 1 = b.open \/ i = b.end)
        <5>1. i < open \/ (open <= i /\ i < close + 3) \/ i >= close + 3
          BY <2>1, <3>1
        <5>2. i < open => i = start /\ start = open - 1 /\ i + 1 = open
          BY <2>1, <4>2
        <5>3. i >= close + 3 => i = close + 3 /\ q = close + 4
          BY <3>1, <4>2
        <5> QED BY <2>1, <3>1, <3>2, <5>1, <5>2, <5>3
      <4> QED BY <2>3, <4>2, <4>3, HiddenBy
    <3>6. v[q - 1] = v[start - 1]
      <4>1. start \in Nat \ {0} /\ start <= (q - 1) + 1 /\ q - 1 \in Nat /\ q - 1 <= Len(text)
        BY <1>1, <2>1, <3>1
      <4> QED BY <3>5, <4>1, Hiding
    <3>7. CutAt(text, q, B \cup {b})
      <4>1. Extents(text) = (B \cup {b}) \cup ExtentsFrom(text, q)
        BY <3>3 DEF CutAt
      <4>2. \A c \in B : Within(c, 1, q) /\ c.end # q
        <5>1. \A c \in B : Within(c, 1, p)
          BY Zenon DEF CutAt
        <5>2. p < q /\ q \in Nat
          BY <1>1, <3>1
        <5> QED BY <1>1, <5>1, <5>2 DEF Within
      <4>3. Within(b, 1, q) /\ (b.end = q => q > Len(text) \/ text[q] # "n")
        BY <1>1, <2>1, <3>1, <3>2 DEF Within
      <4> QED BY <4>1, <4>2, <4>3 DEF CutAt
    <3>8. v[n] = v[q - 1] \o Rest(text, 3, q)
      BY <3>1, <3>7
    <3>10. (v[p - 1] \o ShownTo(text, p)) \o Rest(text, 3, q)
             = v[p - 1] \o (ShownTo(text, p) \o Rest(text, 3, q))
      <4>1. \A x, y, z \in Texts : (x \o y) \o z = x \o (y \o z)
        BY Joins
      <4> QED BY <3>4, <4>1
    <3> QED BY <2>6, <3>6, <3>8, <3>9, <3>10, Zenon
  <2> QED BY <2>7, <2>8
<1> QED BY <1>2, <1>3

\* The visible text is the rest from its beginning, with the closes of the parser.
LEMMA VisibleIsRest ==
  ASSUME NEW text \in Texts
  PROVE  Visible(text) = Rest(text, 3, 1)
<1> DEFINE n == Len(text)
<1>1. PICK v : Telling(v, text) /\ Visible(text) = v[n]
  BY VisibleIsTold
<1> DEFINE P == {p \in 1 .. n + 1 : \A B : CutAt(text, p, B) => v[n] = v[p - 1] \o Rest(text, 3, p)}
<1>2. n \in Nat /\ 1 \in 1 .. n + 1
  BY DEF Texts
<1>3. ASSUME NEW p \in 1 .. n + 1, \A q \in p + 1 .. n + 1 : q \in P PROVE p \in P
  <2>1. \A q \in p + 1 .. n + 1 : \A C : CutAt(text, q, C) => v[n] = v[q - 1] \o Rest(text, 3, q)
    BY <1>3
  <2>2. \A B : CutAt(text, p, B) => v[n] = v[p - 1] \o Rest(text, 3, p)
    BY <1>1, <2>1, VisibleStep
  <2> QED BY <2>2
<1> HIDE DEF P
<1>4. InductiveBack(P, n)
  BY <1>3 DEF InductiveBack
<1>5. \A p \in 1 .. n + 1 : p \in P
  BY <1>2, <1>4, Backwards, Zenon
<1>6. CutAt(text, 1, {})
  <2>1. {1} \cup {b.end : b \in Blocks(text)} = {1} \cup {b.end : b \in BlocksFrom(text, 1)}
    BY DEF Blocks
  <2>2. Extents(text) = ExtentsFrom(text, 1)
    BY DEF Extents, ExtentsFrom, Blocks
  <2> QED BY <2>2 DEF CutAt
<1>7. v[n] = v[1 - 1] \o Rest(text, 3, 1)
  BY <1>2, <1>5, <1>6 DEF P
<1>8. v[1 - 1] = << >>
  BY <1>1 DEF Telling
<1>9. Rest(text, 3, 1) \in Texts
  BY <1>2, RestGoesOn
<1>10. << >> \o Rest(text, 3, 1) = Rest(text, 3, 1)
  BY <1>9, ConcatEmptySeq DEF Texts
<1> QED BY <1>1, <1>7, <1>8, <1>10

-----------------------------------------------------------------------------
(* The strip prints the visible text, unless it slices backwards.            *)

\* The blocks found behind a block may be looked for behind the newline after it.
LEMMA BlocksPast ==
  ASSUME NEW text \in Texts, NEW p \in 1 .. Len(text) + 1, HasBlock(text, p, 3)
  PROVE  BlocksFrom(text, p) = {BlockOf(text, p)} \cup BlocksFrom(text, NextOf(text, p, 3))
<1> DEFINE e == CloseOf(text, p, 3) + 3
<1> DEFINE q == NextOf(text, p, 3)
<1>1. e \in 1 .. Len(text) + 1 /\ q \in 1 .. Len(text) + 1
      /\ Find(text, DISPATCH_OPEN, e) = Find(text, DISPATCH_OPEN, q)
  <2>1. e \in p + 1 .. Len(text) + 1 /\ q \in p + 1 .. Len(text) + 1
        /\ Find(text, DISPATCH_OPEN, e) = Find(text, DISPATCH_OPEN, q)
    BY CloseFacts
  <2> QED BY <2>1
<1>2. BlocksFrom(text, p) = {BlockOf(text, p)} \cup BlocksFrom(text, e)
  BY BlocksGoOn
<1> HIDE DEF e, q
<1>3. OpenOf(text, e) = OpenOf(text, q) /\ CloseOf(text, e, 3) = CloseOf(text, q, 3)
      /\ (HasBlock(text, e, 3) <=> HasBlock(text, q, 3)) /\ BlockOf(text, e) = BlockOf(text, q)
  BY <1>1 DEF OpenOf, CloseOf, HasBlock, BlockOf
<1>4. BlocksFrom(text, e) = BlocksFrom(text, q)
  BY <1>1, <1>3, BlocksGoOn
<1> QED BY <1>2, <1>4 DEF q

\* The newline before the block at p is already printed.
Overlaps(text, p) == p > 1 /\ text[p - 1] = "n" /\ At(text, DISPATCH_OPEN, p)

\* None is from p on.
Apart(text, p) ==
  ~ Overlaps(text, p) /\ \A b \in BlocksFrom(text, p) : ~ At(text, NewlineOpen, b.end)

Panics(s) == s # << >> /\ Last(s) = "panic"

StripsAt(text, p) ==
  IF Apart(text, p) THEN StripFrom(text, p) = Rest(text, 3, p) ELSE Panics(StripFrom(text, p))

\* A text printed in parts panics if its last part does.
LEMMA PanicsOn ==
  ASSUME NEW s \in Printed, NEW t \in Printed, Panics(t)
  PROVE  Panics(s \o t)
<1>1. Len(s) \in Nat /\ Len(t) \in Nat /\ Len(t) > 0
  BY DEF Panics, Printed
<1>2. /\ s \o t \in Printed /\ Len(s \o t) = Len(s) + Len(t)
      /\ \A i \in 1 .. Len(s) + Len(t) : (s \o t)[i] = IF i <= Len(s) THEN s[i] ELSE t[i - Len(s)]
  BY ConcatProperties DEF Printed
<1>3. (s \o t)[Len(s) + Len(t)] = t[Len(t)]
  <2>1. Len(s) + Len(t) \in 1 .. Len(s) + Len(t) /\ ~ (Len(s) + Len(t) <= Len(s))
        /\ Len(s) + Len(t) - Len(s) = Len(t)
    BY <1>1
  <2> QED BY <1>2, <2>1
<1>4. Last(s \o t) = "panic"
  BY <1>2, <1>3 DEF Last, Panics
<1>5. s \o t # << >>
  <2>1. Len(s \o t) # 0
    BY <1>1, <1>2
  <2> QED BY <2>1
<1> QED BY <1>4, <1>5 DEF Panics

\* The strip prints the rest from a place if it does from every later one.
LEMMA StripStep ==
  ASSUME NEW text \in Texts, NEW p \in 1 .. Len(text) + 1,
         \A q \in p + 1 .. Len(text) + 1 : StripsAt(text, q)
  PROVE  StripsAt(text, p)
<1> DEFINE n == Len(text)
<1> DEFINE open == OpenOf(text, p)
<1>1. n \in Nat /\ p \in Nat \ {0} /\ p <= n + 1
  BY DEF Texts
<1>2. CASE open = 0
  <2>1. ~ At(text, DISPATCH_OPEN, p)
    <3>1. \A i \in p .. n : ~ At(text, DISPATCH_OPEN, i)
      BY <1>1, <1>2, Finding DEF OpenOf
    <3>2. At(text, DISPATCH_OPEN, p) => p \in p .. n
      BY <1>1, AtTags
    <3> QED BY <3>1, <3>2
  <2>2. BlocksFrom(text, p) = {}
    BY <1>2, BlocksGoOn DEF HasBlock
  <2>3. Apart(text, p)
    BY <2>1, <2>2 DEF Apart, Overlaps
  <2>4. StripFrom(text, p) = From(text, p) /\ Rest(text, 3, p) = From(text, p)
    BY <1>2, StripGoesOn, RestGoesOn DEF HasBlock
  <2> QED BY <2>3, <2>4 DEF StripsAt
<1>3. CASE open # 0
  <2> DEFINE start == StripStart(text, p)
  <2>1. /\ open \in Nat /\ p <= open /\ open + 2 <= n /\ At(text, DISPATCH_OPEN, open)
        /\ \A i \in p .. open - 1 : ~ At(text, DISPATCH_OPEN, i)
    BY <1>3, OpenFacts
  <2> HIDE DEF open
  <2>2. /\ start \in Nat
        /\ start = IF open > 1 /\ text[open - 1] = "n" THEN open - 1 ELSE open
    BY <1>1, <2>1 DEF StripStart, StartOf, open
  <2>3. Overlaps(text, p) <=> start < p
    <3>1. ASSUME Overlaps(text, p) PROVE start < p
      <4>1. open = p
        <5>1. p \in p .. open - 1 \/ open = p
          BY <1>1, <2>1
        <5> QED BY <2>1, <3>1, <5>1 DEF Overlaps
      <4> QED BY <1>1, <2>2, <3>1, <4>1 DEF Overlaps
    <3>2. ASSUME start < p PROVE Overlaps(text, p)
      <4>1. open = p /\ open > 1 /\ text[open - 1] = "n"
        BY <1>1, <2>1, <2>2, <3>2
      <4> QED BY <2>1, <4>1 DEF Overlaps
    <3> QED BY <3>1, <3>2
  <2>4. ~ Overlaps(text, p) => start = StartAt(text, p)
    <3>1. SUFFICES ASSUME ~ (start < p) PROVE start = StartAt(text, p)
      BY <2>3
    <3>2. StartAt(text, p) = IF open > p /\ text[open - 1] = "n" THEN open - 1 ELSE open
      BY DEF StartAt, StartOf, open
    <3>3. CASE open > p
      <4>1. open > 1
        BY <1>1, <2>1, <3>3
      <4> QED BY <2>2, <3>2, <3>3, <4>1
    <3>4. CASE ~ (open > p)
      <4>1. open = p /\ StartAt(text, p) = open
        BY <1>1, <2>1, <3>2, <3>4
      <4>2. start = open
        BY <1>1, <2>1, <2>2, <3>1, <4>1
      <4> QED BY <4>1, <4>2
    <3> QED BY <3>3, <3>4
  <2>5. CASE Overlaps(text, p)
    <3>1. StripFrom(text, p) = <<"panic">>
      BY <1>3, <2>3, <2>5, StripGoesOn DEF open
    <3>2. Panics(<<"panic">>)
      BY DEF Panics, Last
    <3> QED BY <2>5, <3>1, <3>2 DEF StripsAt, Apart
  <2>6. CASE ~ Overlaps(text, p) /\ ~ HasBlock(text, p, 3)
    <3>1. CloseOf(text, p, 3) = 0
      BY <1>3, <2>6 DEF HasBlock, open
    <3>2. StripFrom(text, p) = ShownTo(text, p)
      BY <1>3, <2>3, <2>4, <2>6, <3>1, StripGoesOn DEF open, ShownTo
    <3>3. Rest(text, 3, p) = ShownTo(text, p)
      BY <1>3, <2>6, RestGoesOn DEF open
    <3>4. Apart(text, p)
      <4>1. BlocksFrom(text, p) = {}
        BY <2>6, BlocksGoOn
      <4> QED BY <2>6, <4>1 DEF Apart
    <3> QED BY <3>2, <3>3, <3>4 DEF StripsAt
  <2>7. CASE ~ Overlaps(text, p) /\ HasBlock(text, p, 3)
    <3> DEFINE close == CloseOf(text, p, 3)
    <3> DEFINE e == close + 3
    <3> DEFINE q == NextOf(text, p, 3)
    <3>1. /\ close \in Nat /\ p < close /\ close + 2 <= n /\ text[close + 2] = "e"
          /\ q \in Nat /\ e <= q /\ q <= close + 4 /\ q <= n + 1
          /\ q = close + 4 => text[e] = "n"
          /\ q = e => e > n \/ text[e] # "n"
          /\ q \in p + 1 .. n + 1
      BY <2>7, CloseFacts
    <3>2. StripFrom(text, p) = ShownTo(text, p) \o StripFrom(text, q)
      <4>1. CloseOf(text, p, 3) # 0
        BY <2>7 DEF HasBlock
      <4> QED BY <1>3, <2>3, <2>4, <2>7, <4>1, StripGoesOn DEF open, ShownTo
    <3>3. Rest(text, 3, p) = ShownTo(text, p) \o Rest(text, 3, q)
      BY <2>7, RestGoesOn
    <3>4. BlocksFrom(text, p) = {BlockOf(text, p)} \cup BlocksFrom(text, q) /\ BlockOf(text, p).end = e
      BY <2>7, BlocksPast DEF BlockOf
    <3>5. ShownTo(text, p) \in Printed /\ StripFrom(text, q) \in Printed
      <4>1. ShownTo(text, p) \in Texts
        BY <1>3, ShownFacts DEF open
      <4>2. q \in 1 .. n + 1
        BY <1>1, <3>1
      <4> HIDE DEF q
      <4>3. StripFrom(text, q) \in Printed
        BY <4>2, StripGoesOn
      <4>4. Texts \subseteq Printed
        BY SeqMonotonic DEF Texts, Printed
      <4> QED BY <4>1, <4>3, <4>4
    <3> HIDE DEF close, q
    <3>6. Overlaps(text, q) <=> At(text, NewlineOpen, e)
      <4>1. e \in Nat \ {0}
        BY <3>1
      <4>2. At(text, NewlineOpen, e) <=> text[e] = "n" /\ At(text, DISPATCH_OPEN, e + 1)
        BY <4>1, AtNewlineOpen
      <4>3. CASE q = close + 4
        <5>1. q = e + 1 /\ q - 1 = e /\ q > 1
          BY <3>1, <4>3
        <5> QED BY <3>1, <4>2, <4>3, <5>1 DEF Overlaps
      <4>4. CASE q = e
        <5>1. q - 1 = close + 2
          BY <3>1, <4>4
        <5>2. ~ Overlaps(text, q)
          BY <3>1, <5>1 DEF Overlaps
        <5>3. At(text, DISPATCH_OPEN, e + 1) => e <= n
          <6>1. e + 1 \in Nat \ {0}
            BY <4>1
          <6>2. At(text, DISPATCH_OPEN, e + 1) => (e + 1) + 2 <= n
            BY <6>1, AtTags
          <6> QED BY <1>1, <4>1, <6>2
        <5>4. e <= n => text[e] # "n"
          BY <1>1, <3>1, <4>1, <4>4
        <5> QED BY <4>2, <5>2, <5>3, <5>4
      <4>5. q = close + 4 \/ q = e
        BY <3>1
      <4> QED BY <4>3, <4>4, <4>5
    <3>7. Apart(text, p) <=> Apart(text, q)
      BY <2>7, <3>4, <3>6 DEF Apart
    <3>8. StripsAt(text, q)
      BY <3>1
    <3>9. CASE Apart(text, q)
      BY <3>2, <3>3, <3>7, <3>8, <3>9 DEF StripsAt
    <3>10. CASE ~ Apart(text, q)
      BY <3>2, <3>5, <3>7, <3>8, <3>10, PanicsOn DEF StripsAt
    <3> QED BY <3>9, <3>10
  <2> QED BY <2>5, <2>6, <2>7
<1> QED BY <1>2, <1>3

\* The strip prints what is visible; it panics exactly at adjacent blocks.
LEMMA StripPrints ==
  ASSUME NEW text \in Texts
  PROVE  IF HasAdjacentBlocks(text) THEN Last(Strip(text)) = "panic" ELSE Strip(text) = Visible(text)
<1> DEFINE n == Len(text)
<1> DEFINE P == {p \in 1 .. n + 1 : StripsAt(text, p)}
<1>1. n \in Nat /\ 1 \in 1 .. n + 1
  BY DEF Texts
<1>2. ASSUME NEW p \in 1 .. n + 1, \A q \in p + 1 .. n + 1 : q \in P PROVE p \in P
  BY <1>2, StripStep
<1> HIDE DEF P
<1>3. InductiveBack(P, n)
  BY <1>2 DEF InductiveBack
<1>4. \A p \in 1 .. n + 1 : p \in P
  BY <1>1, <1>3, Backwards, Zenon
<1>5. StripsAt(text, 1)
  BY <1>1, <1>4 DEF P
<1>6. Apart(text, 1) <=> ~ HasAdjacentBlocks(text)
  BY DEF Apart, Overlaps, HasAdjacentBlocks, Blocks, NewlineOpen
<1> QED BY <1>5, <1>6, VisibleIsRest DEF StripsAt, Panics, Strip

-----------------------------------------------------------------------------
(* Without empty blocks, the filter and the parser close them at one place.   *)

HasEmptyFrom(text, p) == \E b \in ExtentsFrom(text, p) : At(text, EmptyBlock, b.open)

RestsAgree(text, p) == ~ HasEmptyFrom(text, p) => Rest(text, 2, p) = Rest(text, 3, p)

\* The rests agree from a place if they do from every later one.
LEMMA AgreeStep ==
  ASSUME NEW text \in Texts, NEW p \in 1 .. Len(text) + 1,
         \A q \in p + 1 .. Len(text) + 1 : RestsAgree(text, q)
  PROVE  RestsAgree(text, p)
<1> DEFINE n == Len(text)
<1> DEFINE open == OpenOf(text, p)
<1>1. SUFFICES ASSUME ~ HasEmptyFrom(text, p) PROVE Rest(text, 2, p) = Rest(text, 3, p)
  BY DEF RestsAgree
<1>2. CASE open = 0
  BY <1>2, RestGoesOn DEF HasBlock
<1>3. CASE open # 0
  <2>1. open \in Nat /\ p <= open /\ At(text, DISPATCH_OPEN, open) /\ p \in Nat \ {0}
    BY <1>3, OpenFacts
  <2>2. \E b \in ExtentsFrom(text, p) : b.open = open
    <3>1. CASE HasBlock(text, p, 3)
      <4>1. BlockOf(text, p) \in ExtentsFrom(text, p) /\ BlockOf(text, p).open = open
        BY <3>1, ExtentsGoOn DEF BlockOf
      <4> QED BY <4>1
    <3>2. CASE ~ HasBlock(text, p, 3)
      <4> DEFINE d == [open |-> open, end |-> n + 1]
      <4>1. d \in ExtentsFrom(text, p)
        BY <1>3, <3>2, ExtentsGoOn
      <4> QED BY <4>1
    <3> QED BY <3>1, <3>2
  <2> HIDE DEF open
  <2>3. ~ At(text, BLOCK_CLOSE, open + 2)
    <3>1. open \in Nat \ {0}
      BY <2>1
    <3>2. ~ At(text, EmptyBlock, open)
      BY <1>1, <2>2 DEF HasEmptyFrom
    <3> QED BY <2>1, <3>1, <3>2, AtEmptyBlock
  <2>4. CloseOf(text, p, 2) = CloseOf(text, p, 3)
    <3> DEFINE a == open + 2
    <3> DEFINE b == open + 3
    <3>1. a \in Nat \ {0} /\ b \in Nat /\ a <= b /\ \A i \in a .. b - 1 : i = a
      BY <2>1
    <3>2. ~ At(text, BLOCK_CLOSE, a)
      BY <2>3
    <3> HIDE DEF a, b
    <3>3. \A i \in a .. b - 1 : ~ At(text, BLOCK_CLOSE, i)
      BY <3>1, <3>2
    <3>4. Find(text, BLOCK_CLOSE, a) = Find(text, BLOCK_CLOSE, b)
      BY <3>1, <3>3, FindLater
    <3> QED BY <3>4 DEF CloseOf, open, a, b
  <2>5. (HasBlock(text, p, 2) <=> HasBlock(text, p, 3)) /\ NextOf(text, p, 2) = NextOf(text, p, 3)
    BY <2>4 DEF HasBlock, NextOf
  <2>6. CASE ~ HasBlock(text, p, 3)
    BY <1>3, <2>5, <2>6, RestGoesOn DEF open
  <2>7. CASE HasBlock(text, p, 3)
    <3> DEFINE q == NextOf(text, p, 3)
    <3>1. q \in p + 1 .. n + 1
      BY <2>7, CloseFacts
    <3>2. ExtentsFrom(text, q) \subseteq ExtentsFrom(text, p)
      BY <2>7, ExtentsPast
    <3>3. ~ HasEmptyFrom(text, q)
      BY <1>1, <3>2 DEF HasEmptyFrom
    <3>4. Rest(text, 2, q) = Rest(text, 3, q)
      BY <3>1, <3>3 DEF RestsAgree
    <3>5. Rest(text, 3, p) = ShownTo(text, p) \o Rest(text, 3, q)
      BY <2>7, RestGoesOn
    <3>6. Rest(text, 2, p) = ShownTo(text, p) \o Rest(text, 2, q)
      BY <2>5, <2>7, RestGoesOn
    <3> QED BY <3>4, <3>5, <3>6
  <2> QED BY <2>6, <2>7
<1> QED BY <1>2, <1>3

\* Without empty blocks, what the filter lets through is the visible text.
LEMMA RestIsVisible ==
  ASSUME NEW text \in Texts, ~ HasEmptyBlock(text)
  PROVE  Rest(text, 2, 1) = Visible(text)
<1> DEFINE n == Len(text)
<1> DEFINE P == {p \in 1 .. n + 1 : RestsAgree(text, p)}
<1>1. n \in Nat /\ 1 \in 1 .. n + 1
  BY DEF Texts
<1>2. ASSUME NEW p \in 1 .. n + 1, \A q \in p + 1 .. n + 1 : q \in P PROVE p \in P
  BY <1>2, AgreeStep
<1> HIDE DEF P
<1>3. InductiveBack(P, n)
  BY <1>2 DEF InductiveBack
<1>4. \A p \in 1 .. n + 1 : p \in P
  BY <1>1, <1>3, Backwards, Zenon
<1>5. RestsAgree(text, 1)
  BY <1>1, <1>4 DEF P
<1>6. Extents(text) = ExtentsFrom(text, 1)
  BY DEF Extents, ExtentsFrom, Blocks
<1>7. ~ HasEmptyFrom(text, 1)
  BY <1>6 DEF HasEmptyFrom, HasEmptyBlock, EmptyBlock
<1> QED BY <1>5, <1>7, VisibleIsRest DEF RestsAgree

-----------------------------------------------------------------------------
(* What the filter may let through.                                          *)

\* A text is the beginning of another if its characters are.
LEMMA PrefixPlaces ==
  ASSUME NEW s \in Texts, NEW t \in Texts
  PROVE  IsPrefix(s, t) <=> Len(s) <= Len(t) /\ \A i \in 1 .. Len(s) : s[i] = t[i]
<1>1. Len(s) \in Nat /\ Len(t) \in Nat
  BY DEF Texts
<1>2. CASE Len(s) <= Len(t)
  <2> DEFINE a == SubSeq(s, 1, Len(s))
  <2> DEFINE b == SubSeq(t, 1, Len(s))
  <2>1. a \in Texts /\ Len(a) = Len(s) /\ \A i \in 1 .. Len(s) : a[i] = s[i]
    BY <1>1 DEF Texts
  <2>2. b \in Texts /\ Len(b) = Len(s) /\ \A i \in 1 .. Len(s) : b[i] = t[i]
    BY <1>1, <1>2 DEF Texts
  <2> HIDE DEF a, b
  <2>3. (a = b) <=> \A i \in 1 .. Len(s) : a[i] = b[i]
    BY <2>1, <2>2, SeqEqual DEF Texts
  <2>4. (a = b) <=> \A i \in 1 .. Len(s) : s[i] = t[i]
    BY <2>1, <2>2, <2>3
  <2> QED BY <1>2, <2>4 DEF IsPrefix, a, b
<1>3. CASE ~ (Len(s) <= Len(t))
  BY <1>3 DEF IsPrefix
<1> QED BY <1>2, <1>3

\* From place i to its end the text could begin a marker.
Begins(text, marker, i) ==
  /\ Len(text) + 1 - i <= Len(marker)
  /\ \A j \in 1 .. Len(text) + 1 - i : text[i + j - 1] = marker[j]

\* What is held back begins the marker, and everything that does is held back.
LEMMA HeldBegins ==
  ASSUME NEW text \in Texts, NEW marker \in Texts, NEW from \in 1 .. Len(text) + 1,
         NEW h, h = Held(From(text, from), marker)
  PROVE  /\ h \in Nat /\ h <= Len(marker) /\ h <= Len(text) + 1 - from
         /\ h > 0 => Begins(text, marker, Len(text) + 1 - h)
         /\ \A i \in from .. Len(text) : Begins(text, marker, i) => Len(text) + 1 - i <= h
<1> DEFINE s == From(text, from)
<1> DEFINE n == Len(text)
<1> DEFINE l == n + 1 - from
<1>1. s \in Texts /\ Len(s) = l /\ \A i \in 1 .. l : s[i] = text[from + i - 1]
  BY FromFacts
<1>2. n \in Nat /\ l \in Nat /\ Len(marker) \in Nat /\ from \in Nat \ {0}
  BY DEF Texts
<1> DEFINE M == {k \in 1 .. Len(marker) : k <= l /\ Begins(text, marker, n + 1 - k)}
<1>3. ASSUME NEW k \in 1 .. Len(marker), k <= l
      PROVE  IsPrefix(From(s, l - k + 1), marker) <=> Begins(text, marker, n + 1 - k)
  <2> DEFINE t == From(s, l - k + 1)
  <2> DEFINE i == n + 1 - k
  <2>1. l - k + 1 \in 1 .. Len(s) + 1 /\ Len(s) + 1 - (l - k + 1) = k /\ n + 1 - i = k /\ k \in Nat
    BY <1>1, <1>2, <1>3
  <2>2. t \in Texts /\ Len(t) = k /\ \A j \in 1 .. k : t[j] = s[l - k + 1 + j - 1]
    <3> DEFINE p == l - k + 1
    <3>1. p \in 1 .. Len(s) + 1 /\ Len(s) + 1 - p = k
      BY <2>1
    <3> HIDE DEF p, s
    <3>2. /\ From(s, p) \in Texts /\ Len(From(s, p)) = Len(s) + 1 - p
          /\ \A j \in 1 .. Len(s) + 1 - p : From(s, p)[j] = s[p + j - 1]
      BY <1>1, <3>1, FromFacts
    <3>3. /\ From(s, p) \in Texts /\ Len(From(s, p)) = k
          /\ \A j \in 1 .. k : From(s, p)[j] = s[p + j - 1]
      BY <3>1, <3>2
    <3> QED BY <3>3 DEF p
  <2>3. \A j \in 1 .. k : t[j] = text[i + j - 1]
    <3>1. SUFFICES ASSUME NEW j \in 1 .. k PROVE t[j] = text[i + j - 1]
      OBVIOUS
    <3>2. l - k + 1 + j - 1 \in 1 .. l /\ from + (l - k + 1 + j - 1) - 1 = i + j - 1
      BY <1>2, <1>3
    <3>3. t[j] = s[l - k + 1 + j - 1]
      BY <2>2
    <3> HIDE DEF t, s, l, i
    <3> QED BY <1>1, <3>2, <3>3
  <2> HIDE DEF t, i
  <2>4. IsPrefix(t, marker) <=> Len(t) <= Len(marker) /\ \A j \in 1 .. Len(t) : t[j] = marker[j]
    BY <2>2, PrefixPlaces
  <2>5. IsPrefix(t, marker) <=> k <= Len(marker) /\ \A j \in 1 .. k : text[i + j - 1] = marker[j]
    BY <2>2, <2>3, <2>4
  <2>6. Begins(text, marker, i) <=> k <= Len(marker) /\ \A j \in 1 .. k : text[i + j - 1] = marker[j]
    BY <2>1 DEF Begins
  <2> QED BY <2>5, <2>6 DEF t, i
<1>4. h = Max({0} \cup M)
  <2>1. {k \in 1 .. Len(marker) : k <= Len(s) /\ IsPrefix(From(s, Len(s) - k + 1), marker)} = M
    BY <1>1, <1>3
  <2> QED BY <2>1 DEF Held
<1>5. {0} \cup M \in SUBSET (0 .. Len(marker)) /\ {0} \cup M # {}
  BY <1>2
<1>6. h \in {0} \cup M /\ \A k \in {0} \cup M : k <= h
  BY <1>2, <1>4, <1>5, Greatest
<1>7. ASSUME NEW i \in from .. n, Begins(text, marker, i) PROVE n + 1 - i <= h
  <2> DEFINE k == n + 1 - i
  <2>1. k \in Nat /\ k >= 1 /\ k <= l /\ n + 1 - k = i
    BY <1>2
  <2>2. k <= Len(marker)
    BY <1>7 DEF Begins
  <2>3. k \in M
    <3>1. k \in 1 .. Len(marker)
      BY <1>2, <2>1, <2>2
    <3> QED BY <1>7, <2>1, <3>1
  <2> QED BY <1>6, <2>3
<1>8. h = 0 \/ h \in M
  BY <1>6
<1>9. h \in Nat /\ h <= Len(marker) /\ h <= l
  BY <1>2, <1>8
<1>10. h > 0 => Begins(text, marker, n + 1 - h)
  BY <1>8
<1> QED BY <1>7, <1>9, <1>10

\* A text that begins an opening, or one with its newline, character by character.
LEMMA BeginsOpen ==
  ASSUME NEW text \in Texts, NEW i \in 1 .. Len(text)
  PROVE  /\ Begins(text, DISPATCH_OPEN, i) <=>
              /\ i + 2 >= Len(text) /\ text[i] = "@"
              /\ i + 1 <= Len(text) => text[i + 1] = "d"
              /\ i + 2 <= Len(text) => text[i + 2] = "n"
         /\ Begins(text, NewlineOpen, i) <=>
              /\ i + 3 >= Len(text) /\ text[i] = "n"
              /\ i + 1 <= Len(text) => text[i + 1] = "@"
              /\ i + 2 <= Len(text) => text[i + 2] = "d"
              /\ i + 3 <= Len(text) => text[i + 3] = "n"
<1> DEFINE n == Len(text)
<1>1. n \in Nat /\ i \in Nat \ {0} /\ i <= n
  BY DEF Texts
<1>2. i + 1 - 1 = i /\ i + 2 - 1 = i + 1 /\ i + 3 - 1 = i + 2 /\ i + 4 - 1 = i + 3
  BY <1>1
<1>3. /\ 1 \in 1 .. n + 1 - i /\ (2 \in 1 .. n + 1 - i <=> i + 1 <= n)
      /\ (3 \in 1 .. n + 1 - i <=> i + 2 <= n) /\ (4 \in 1 .. n + 1 - i <=> i + 3 <= n)
      /\ (n + 1 - i <= 3 <=> i + 2 >= n) /\ (n + 1 - i <= 4 <=> i + 3 >= n)
  BY <1>1
<1>4. \A j \in 1 .. n + 1 - i : n + 1 - i <= 4 => j \in {1, 2, 3, 4}
  BY <1>1
<1>5. \A j \in 1 .. n + 1 - i : n + 1 - i <= 3 => j \in {1, 2, 3}
  BY <1>1
<1>6. Begins(text, DISPATCH_OPEN, i) <=>
        n + 1 - i <= 3 /\ \A j \in 1 .. n + 1 - i : text[i + j - 1] = DISPATCH_OPEN[j]
  BY Tags DEF Begins
<1>7. Begins(text, NewlineOpen, i) <=>
        n + 1 - i <= 4 /\ \A j \in 1 .. n + 1 - i : text[i + j - 1] = NewlineOpen[j]
  BY LongTags DEF Begins
<1> HIDE DEF n
<1>8. Begins(text, DISPATCH_OPEN, i) <=>
        /\ i + 2 >= n /\ text[i] = "@"
        /\ i + 1 <= n => text[i + 1] = "d"
        /\ i + 2 <= n => text[i + 2] = "n"
  <2>1. ASSUME n + 1 - i <= 3
        PROVE  (\A j \in 1 .. n + 1 - i : text[i + j - 1] = DISPATCH_OPEN[j]) <=>
                 /\ text[i] = "@"
                 /\ i + 1 <= n => text[i + 1] = "d"
                 /\ i + 2 <= n => text[i + 2] = "n"
    BY <1>2, <1>3, <1>5, <2>1, Tags
  <2> QED BY <1>3, <1>6, <2>1
<1>9. Begins(text, NewlineOpen, i) <=>
        /\ i + 3 >= n /\ text[i] = "n"
        /\ i + 1 <= n => text[i + 1] = "@"
        /\ i + 2 <= n => text[i + 2] = "d"
        /\ i + 3 <= n => text[i + 3] = "n"
  <2>1. ASSUME n + 1 - i <= 4
        PROVE  (\A j \in 1 .. n + 1 - i : text[i + j - 1] = NewlineOpen[j]) <=>
                 /\ text[i] = "n"
                 /\ i + 1 <= n => text[i + 1] = "@"
                 /\ i + 2 <= n => text[i + 2] = "d"
                 /\ i + 3 <= n => text[i + 3] = "n"
    BY <1>2, <1>3, <1>4, <2>1, LongTags
  <2> QED BY <1>3, <1>7, <2>1
<1> QED BY <1>8, <1>9 DEF n

\* Where safe_emit_end cuts a text without openings: nothing before the cut
\* could become one.
LEMMA SafeEnd ==
  ASSUME NEW text \in Texts, NEW from \in 1 .. Len(text) + 1,
         Find(text, DISPATCH_OPEN, from) = 0,
         NEW e, e = from - 1 + SafeEmitEnd(From(text, from))
  PROVE  /\ e \in Nat /\ from - 1 <= e /\ e <= Len(text) /\ Len(text) <= e + 3
         /\ \A i \in from .. e : ~ Begins(text, DISPATCH_OPEN, i) /\ ~ Begins(text, NewlineOpen, i)
<1> DEFINE n == Len(text)
<1> DEFINE s == From(text, from)
<1> DEFINE h == Held(s, NewlineOpen)
<1> DEFINE g == Held(s, DISPATCH_OPEN)
<1>1. n \in Nat /\ from \in Nat \ {0} /\ from <= n + 1
  BY DEF Texts
<1>2. NewlineOpen \in Texts /\ Len(NewlineOpen) = 4 /\ DISPATCH_OPEN \in Texts /\ Len(DISPATCH_OPEN) = 3
  BY Tags, LongTags DEF Texts
<1>3. /\ h \in Nat /\ h <= 4 /\ h <= n + 1 - from
      /\ h > 0 => Begins(text, NewlineOpen, n + 1 - h)
      /\ \A i \in from .. n : Begins(text, NewlineOpen, i) => n + 1 - i <= h
  BY <1>2, HeldBegins
<1>4. /\ g \in Nat /\ g <= 3 /\ g <= n + 1 - from
      /\ g > 0 => Begins(text, DISPATCH_OPEN, n + 1 - g)
      /\ \A i \in from .. n : Begins(text, DISPATCH_OPEN, i) => n + 1 - i <= g
  BY <1>2, HeldBegins
<1>5. SafeEmitEnd(s) = (n + 1 - from) - IF h > 0 THEN h ELSE g
  BY FromFacts DEF SafeEmitEnd, NewlineOpen
<1> HIDE DEF h, g, s, n
<1>6. e = n - IF h > 0 THEN h ELSE g
  BY <1>1, <1>3, <1>4, <1>5 DEF s
<1>7. \A i \in from .. n : ~ At(text, DISPATCH_OPEN, i)
  BY <1>1, Finding DEF n
<1>8. h # 4
  <2>1. SUFFICES ASSUME h = 4 PROVE FALSE
    OBVIOUS
  <2> DEFINE i == n - 3
  <2>2. i \in 1 .. n /\ i + 1 \in from .. n /\ i + 3 = n /\ n + 1 - h = i /\ i + 1 \in Nat \ {0}
        /\ (i + 1) + 1 = i + 2 /\ (i + 1) + 2 = i + 3 /\ i + 3 <= n /\ i + 1 <= n /\ i + 2 <= n
    BY <1>1, <1>3, <2>1
  <2>3. Begins(text, NewlineOpen, i)
    BY <1>3, <2>1, <2>2
  <2> HIDE DEF i
  <2>4. text[i + 1] = "@" /\ text[i + 2] = "d" /\ text[i + 3] = "n"
    BY <2>2, <2>3, BeginsOpen DEF n
  <2>5. At(text, DISPATCH_OPEN, i + 1)
    <3>1. At(text, DISPATCH_OPEN, i + 1) <=>
            (i + 1) + 2 <= Len(text) /\ text[i + 1] = "@" /\ text[(i + 1) + 1] = "d" /\ text[(i + 1) + 2] = "n"
      BY <2>2, AtTags
    <3> QED BY <2>2, <2>4, <3>1 DEF n
  <2> QED BY <1>7, <2>2, <2>5
<1>9. e \in Nat /\ from - 1 <= e /\ e <= n /\ n <= e + 3
  BY <1>1, <1>3, <1>4, <1>6, <1>8
<1>10. ASSUME NEW i \in from .. e
       PROVE  ~ Begins(text, DISPATCH_OPEN, i) /\ ~ Begins(text, NewlineOpen, i)
  <2>1. i \in Nat /\ i \in from .. n /\ i \in 1 .. n /\ i <= e
    BY <1>1, <1>9
  <2>2. ~ Begins(text, NewlineOpen, i)
    <3>1. SUFFICES ASSUME Begins(text, NewlineOpen, i) PROVE FALSE
      OBVIOUS
    <3>2. n + 1 - i <= h
      BY <1>3, <2>1, <3>1
    <3> QED BY <1>1, <1>3, <1>6, <2>1, <3>2
  <2>3. ~ Begins(text, DISPATCH_OPEN, i)
    <3>1. SUFFICES ASSUME Begins(text, DISPATCH_OPEN, i) PROVE FALSE
      OBVIOUS
    <3>2. n + 1 - i <= g
      BY <1>4, <2>1, <3>1
    <3>3. h > 0 /\ e = n - h /\ h < n + 1 - i
      BY <1>1, <1>3, <1>4, <1>6, <2>1, <3>2
    <3>4. /\ text[i] = "@" /\ (i + 1 <= n => text[i + 1] = "d") /\ (i + 2 <= n => text[i + 2] = "n")
          /\ i + 2 >= n
      BY <2>1, <3>1, BeginsOpen DEF n
    <3>5. CASE i + 2 = n
      <4>1. At(text, DISPATCH_OPEN, i)
        <5>1. i \in Nat \ {0} /\ i + 2 <= Len(text) /\ i + 1 <= n /\ i + 2 <= n
          BY <1>1, <2>1, <3>5 DEF n
        <5> QED BY <3>4, <5>1, AtTags
      <4> QED BY <1>7, <2>1, <4>1
    <3>6. CASE i + 1 = n
      <4>1. h = 1 /\ n + 1 - h = n /\ n \in 1 .. n
        BY <1>1, <1>3, <2>1, <3>3, <3>6
      <4>2. Begins(text, NewlineOpen, n)
        BY <1>3, <3>3, <4>1
      <4>3. text[n] = "n"
        BY <4>1, <4>2, BeginsOpen DEF n
      <4>4. text[n] = "d"
        BY <1>1, <3>4, <3>6
      <4> QED BY <4>3, <4>4
    <3>7. CASE i = n
      BY <1>1, <1>3, <3>3, <3>7
    <3> QED BY <1>1, <2>1, <3>4, <3>5, <3>6, <3>7
  <2> QED BY <2>2, <2>3
<1> QED BY <1>9, <1>10 DEF n

\* A slice of a text is the same slice when the text has grown.
LEMMA SliceExtends ==
  ASSUME NEW text \in Texts, NEW long, Extends(long, text), NEW a \in Nat \ {0}, NEW b \in Nat,
         b <= Len(text)
  PROVE  SubSeq(long, a, b) = SubSeq(text, a, b)
<1> DEFINE s == SubSeq(long, a, b)
<1> DEFINE t == SubSeq(text, a, b)
<1> DEFINE l == IF a <= b THEN b - a + 1 ELSE 0
<1>1. long \in Texts /\ Len(text) \in Nat /\ Len(long) \in Nat /\ b <= Len(long)
  BY DEF Extends, Texts
<1>2. s \in Texts /\ Len(s) = l /\ \A i \in 1 .. b - a + 1 : s[i] = long[a + i - 1]
  BY <1>1, Slice
<1>3. t \in Texts /\ Len(t) = l /\ \A i \in 1 .. b - a + 1 : t[i] = text[a + i - 1]
  BY Slice
<1>4. \A i \in 1 .. l : i \in 1 .. b - a + 1 /\ a + i - 1 \in 1 .. Len(text)
  BY <1>1
<1>5. \A i \in 1 .. l : s[i] = t[i]
  <2> HIDE DEF s, t, l
  <2>1. \A i \in 1 .. Len(text) : long[i] = text[i]
    BY DEF Extends
  <2> QED BY <1>2, <1>3, <1>4, <2>1
<1> HIDE DEF s, t, l
<1>6. s = t
  BY <1>2, <1>3, <1>5, SeqEqual DEF Texts
<1> QED BY <1>6 DEF s, t

\* A text whose beginning opens nothing is that beginning and the rest of it.
LEMMA RestLater ==
  ASSUME NEW text \in Texts, NEW p \in 1 .. Len(text) + 1, NEW q \in 1 .. Len(text) + 1, p <= q,
         \A i \in p .. q - 1 : ~ At(text, DISPATCH_OPEN, i) /\ ~ At(text, NewlineOpen, i)
  PROVE  Rest(text, 2, p) = SubSeq(text, p, q - 1) \o Rest(text, 2, q)
<1> DEFINE n == Len(text)
<1> DEFINE open == OpenOf(text, q)
<1>1. n \in Nat /\ p \in Nat \ {0} /\ q \in Nat \ {0} /\ q - 1 \in Nat /\ q <= n + 1 /\ n <= n
      /\ (q - 1) + 1 = q /\ p <= (q - 1) + 1 /\ q - 1 <= n
  BY DEF Texts
<1>2. OpenOf(text, p) = open
  BY <1>1, FindLater DEF OpenOf
<1>3. \A b \in Nat : q - 1 <= b /\ b <= n => SubSeq(text, p, q - 1) \o SubSeq(text, q, b) = SubSeq(text, p, b)
  <2>1. SUFFICES ASSUME NEW b \in Nat, q - 1 <= b, b <= n
                 PROVE  SubSeq(text, p, q - 1) \o SubSeq(text, q, b) = SubSeq(text, p, b)
    OBVIOUS
  <2>2. SubSeq(text, p, q - 1) \o SubSeq(text, (q - 1) + 1, b) = SubSeq(text, p, b)
    BY <1>1, <2>1, Cut
  <2> QED BY <1>1, <2>2
<1>4. CASE open = 0
  <2>1. Rest(text, 2, p) = From(text, p) /\ Rest(text, 2, q) = From(text, q)
    BY <1>2, <1>4, RestGoesOn DEF HasBlock
  <2>2. q - 1 <= n
    BY <1>1
  <2> QED BY <1>1, <1>3, <2>1, <2>2 DEF From
<1>5. CASE open # 0
  <2> DEFINE start == StartAt(text, q)
  <2>1. open \in Nat /\ q <= open /\ open + 2 <= n /\ start \in Nat /\ q <= start /\ start <= open
        /\ At(text, DISPATCH_OPEN, open)
    BY <1>5, OpenFacts
  <2>2. StartAt(text, p) = start
    <3>1. start = StartOf(text, open, q) /\ StartAt(text, p) = StartOf(text, open, p)
      BY <1>2 DEF StartAt
    <3>2. CASE open > q
      BY <1>1, <2>1, <3>1, <3>2 DEF StartOf
    <3>3. CASE open = q /\ q = p
      BY <3>1, <3>3
    <3>4. CASE open = q /\ q > p
      <4> DEFINE i == q - 1
      <4>1. i \in p .. q - 1 /\ i \in Nat \ {0} /\ i + 1 = q
        BY <1>1, <3>4
      <4> HIDE DEF i
      <4>2. ~ At(text, NewlineOpen, i) /\ At(text, DISPATCH_OPEN, i + 1)
        BY <2>1, <3>4, <4>1
      <4>3. text[i] # "n"
        BY <4>1, <4>2, AtNewlineOpen
      <4>4. StartOf(text, open, p) = open /\ StartOf(text, open, q) = open
        BY <1>1, <3>4, <4>3 DEF StartOf, i
      <4> QED BY <3>1, <4>4
    <3> QED BY <1>1, <2>1, <3>2, <3>3, <3>4
  <2>3. CloseOf(text, p, 2) = CloseOf(text, q, 2) /\ NextOf(text, p, 2) = NextOf(text, q, 2)
        /\ (HasBlock(text, p, 2) <=> HasBlock(text, q, 2))
    BY <1>2 DEF CloseOf, NextOf, HasBlock
  <2>4. ShownTo(text, p) = SubSeq(text, p, q - 1) \o ShownTo(text, q)
    <3>1. start - 1 \in Nat /\ q - 1 <= start - 1 /\ start - 1 <= n
      BY <1>1, <2>1
    <3> HIDE DEF start
    <3> QED BY <1>3, <2>2, <3>1 DEF ShownTo, start
  <2>5. CASE ~ HasBlock(text, q, 2)
    <3>1. Rest(text, 2, p) = ShownTo(text, p) /\ Rest(text, 2, q) = ShownTo(text, q)
      BY <1>2, <1>5, <2>3, <2>5, RestGoesOn
    <3> QED BY <2>4, <3>1
  <2>6. CASE HasBlock(text, q, 2)
    <3> DEFINE t == NextOf(text, q, 2)
    <3>1. Rest(text, 2, p) = ShownTo(text, p) \o Rest(text, 2, t)
      BY <2>3, <2>6, RestGoesOn
    <3>2. Rest(text, 2, q) = ShownTo(text, q) \o Rest(text, 2, t)
      BY <2>6, RestGoesOn
    <3>3. t \in 1 .. n + 1
      BY <1>1, <2>6, CloseFacts
    <3> HIDE DEF t
    <3>4. Rest(text, 2, t) \in Texts /\ ShownTo(text, q) \in Texts /\ SubSeq(text, p, q - 1) \in Texts
      <4>1. Rest(text, 2, t) \in Texts
        BY <3>3, RestGoesOn
      <4>2. ShownTo(text, q) \in Texts
        BY <1>5, ShownFacts
      <4>3. SubSeq(text, p, q - 1) \in Texts
        BY <1>1, Slice
      <4> QED BY <4>1, <4>2, <4>3
    <3>5. \A x, y, z \in Texts : (x \o y) \o z = x \o (y \o z)
      BY Joins
    <3>6. (SubSeq(text, p, q - 1) \o ShownTo(text, q)) \o Rest(text, 2, t)
            = SubSeq(text, p, q - 1) \o (ShownTo(text, q) \o Rest(text, 2, t))
      BY <3>4, <3>5, Zenon
    <3> QED BY <2>4, <3>1, <3>2, <3>6
  <2> QED BY <2>5, <2>6
<1> QED BY <1>4, <1>5

\* What safe_emit_end lets through is let through of every longer text, too.
LEMMA SafeForever ==
  ASSUME NEW text \in Texts, NEW long, Extends(long, text), NEW from \in 1 .. Len(text) + 1,
         Find(text, DISPATCH_OPEN, from) = 0,
         NEW e, e = from - 1 + SafeEmitEnd(From(text, from))
  PROVE  Rest(long, 2, from) = SubSeq(text, from, e) \o Rest(long, 2, e + 1)
<1> DEFINE n == Len(text)
<1>1. /\ e \in Nat /\ from - 1 <= e /\ e <= n /\ n <= e + 3
      /\ \A i \in from .. e : ~ Begins(text, DISPATCH_OPEN, i) /\ ~ Begins(text, NewlineOpen, i)
  BY SafeEnd
<1>2. n \in Nat /\ Len(long) \in Nat /\ n <= Len(long) /\ long \in Texts /\ from \in Nat \ {0}
      /\ from <= n + 1 /\ \A i \in 1 .. n : long[i] = text[i]
  BY DEF Texts, Extends
<1>3. ASSUME NEW i \in from .. e PROVE ~ At(long, DISPATCH_OPEN, i)
  <2>1. SUFFICES ASSUME At(long, DISPATCH_OPEN, i) PROVE FALSE
    OBVIOUS
  <2>2. i \in Nat \ {0} /\ i \in 1 .. n /\ i \in from .. n
    BY <1>1, <1>2
  <2>3. long[i] = "@" /\ long[i + 1] = "d" /\ long[i + 2] = "n" /\ i + 2 <= Len(long)
    BY <1>2, <2>1, <2>2, AtTags
  <2>4. CASE i + 2 <= n
    <3>1. i + Len(DISPATCH_OPEN) <= Len(text) + 1 /\ DISPATCH_OPEN \in Seq(Chars)
      BY <1>2, <2>2, <2>4, Tags
    <3>2. At(text, DISPATCH_OPEN, i)
      BY <2>1, <2>2, <3>1, AtExtends
    <3> QED BY <1>2, <2>2, <3>2, Finding
  <2>5. CASE ~ (i + 2 <= n)
    <3>1. text[i] = "@" /\ (i + 1 <= n => text[i + 1] = "d")
      <4>1. i + 1 <= n => i + 1 \in 1 .. n
        BY <2>2
      <4> QED BY <1>2, <2>2, <2>3, <4>1
    <3>2. i + 2 >= n
      BY <1>2, <2>2, <2>5
    <3>3. Begins(text, DISPATCH_OPEN, i)
      BY <2>2, <2>5, <3>1, <3>2, BeginsOpen
    <3> QED BY <1>1, <3>3
  <2> QED BY <2>4, <2>5
<1>4. ASSUME NEW i \in from .. e PROVE ~ At(long, NewlineOpen, i)
  <2>1. SUFFICES ASSUME At(long, NewlineOpen, i) PROVE FALSE
    OBVIOUS
  <2>2. i \in Nat \ {0} /\ i \in 1 .. n /\ i \in from .. n /\ i + 1 \in Nat \ {0}
        /\ (i + 1) + 1 = i + 2 /\ (i + 1) + 2 = i + 3
    BY <1>1, <1>2
  <2>3. long[i] = "n" /\ At(long, DISPATCH_OPEN, i + 1)
    BY <1>2, <2>1, <2>2, AtNewlineOpen
  <2>4. long[i + 1] = "@" /\ long[i + 2] = "d" /\ long[i + 3] = "n"
    BY <1>2, <2>2, <2>3, AtTags
  <2>5. CASE i + 3 <= n
    <3>1. (i + 1) + Len(DISPATCH_OPEN) <= Len(text) + 1 /\ DISPATCH_OPEN \in Seq(Chars)
      BY <1>2, <2>2, <2>5, Tags
    <3>2. At(text, DISPATCH_OPEN, i + 1)
      BY <2>2, <2>3, <3>1, AtExtends
    <3>3. i + 1 \in from .. n
      BY <1>2, <2>2, <2>5
    <3> QED BY <1>2, <3>2, <3>3, Finding
  <2>6. CASE ~ (i + 3 <= n)
    <3>1. text[i] = "n" /\ (i + 1 <= n => text[i + 1] = "@") /\ (i + 2 <= n => text[i + 2] = "d")
      <4>1. (i + 1 <= n => i + 1 \in 1 .. n) /\ (i + 2 <= n => i + 2 \in 1 .. n)
        BY <2>2
      <4> QED BY <1>2, <2>2, <2>3, <2>4, <4>1
    <3>2. i + 3 >= n
      BY <1>2, <2>2, <2>6
    <3>3. Begins(text, NewlineOpen, i)
      BY <2>2, <2>6, <3>1, <3>2, BeginsOpen
    <3> QED BY <1>1, <3>3
  <2> QED BY <2>5, <2>6
<1>5. Rest(long, 2, from) = SubSeq(long, from, e) \o Rest(long, 2, e + 1)
  <2> DEFINE q == e + 1
  <2>1. from \in 1 .. Len(long) + 1 /\ q \in 1 .. Len(long) + 1 /\ from <= q /\ q - 1 = e
    BY <1>1, <1>2
  <2>2. \A i \in from .. q - 1 : ~ At(long, DISPATCH_OPEN, i) /\ ~ At(long, NewlineOpen, i)
    BY <1>3, <1>4, <2>1
  <2> HIDE DEF q
  <2>3. Rest(long, 2, from) = SubSeq(long, from, q - 1) \o Rest(long, 2, q)
    BY <1>2, <2>1, <2>2, RestLater
  <2> QED BY <2>1, <2>3 DEF q
<1>6. SubSeq(long, from, e) = SubSeq(text, from, e)
  BY <1>1, <1>2, SliceExtends
<1> QED BY <1>5, <1>6

\* What follows a block that began before c.
Behind(text, c) ==
  LET close == Find(text, BLOCK_CLOSE, c)
  IN  IF close = 0 THEN << >> ELSE Rest(text, 2, Past(text, close + 3))

\* What is behind a block is a text.
LEMMA BehindIsText ==
  ASSUME NEW text \in Texts, NEW c \in Nat \ {0}
  PROVE  Behind(text, c) \in Texts
<1> DEFINE close == Find(text, BLOCK_CLOSE, c)
<1>1. CASE close = 0
  BY <1>1 DEF Behind, Texts
<1>2. CASE close # 0
  <2> DEFINE next == Past(text, close + 3)
  <2>1. next \in Nat /\ close + 3 <= next /\ next <= Len(text) + 1 /\ close \in Nat
    BY <1>2, ClosePlaces
  <2>2. next \in 1 .. Len(text) + 1
    BY <2>1 DEF Texts
  <2> HIDE DEF next
  <2>3. Rest(text, 2, next) \in Texts
    BY <2>2, RestGoesOn
  <2> QED BY <1>2, <2>3 DEF Behind, next
<1> QED BY <1>1, <1>2

\* A text that opens a block is what is before it and what is behind it.
LEMMA RestOpens ==
  ASSUME NEW text \in Texts, NEW p \in 1 .. Len(text) + 1, OpenOf(text, p) # 0
  PROVE  Rest(text, 2, p) = ShownTo(text, p) \o Behind(text, StartAt(text, p))
<1> DEFINE open == OpenOf(text, p)
<1> DEFINE start == StartAt(text, p)
<1>1. /\ open \in Nat /\ p <= open /\ open + 2 <= Len(text) /\ start \in Nat /\ p <= start
      /\ start <= open /\ open <= start + 1 /\ text[open] = "@" /\ text[open + 1] = "d"
  BY OpenFacts
<1> HIDE DEF open, start
<1>2. Find(text, BLOCK_CLOSE, start) = CloseOf(text, p, 2)
  <2> DEFINE q == open + 2
  <2>1. start \in Nat \ {0} /\ q \in Nat /\ start <= q
    BY <1>1
  <2>2. \A i \in start .. q - 1 : ~ At(text, BLOCK_CLOSE, i)
    <3>1. SUFFICES ASSUME NEW i \in start .. q - 1, At(text, BLOCK_CLOSE, i) PROVE FALSE
      OBVIOUS
    <3>2. i \in Nat \ {0} /\ (i + 1 = open \/ i = open \/ i = open + 1)
      BY <1>1, <3>1
    <3>3. text[i] = "n" /\ text[i + 1] = "@" /\ text[i + 2] = "e"
      BY <3>1, <3>2, AtTags
    <3>4. i + 1 = open => i + 2 = open + 1
      BY <1>1, <3>2
    <3> QED BY <1>1, <3>2, <3>3, <3>4
  <2> HIDE DEF q
  <2>3. Find(text, BLOCK_CLOSE, start) = Find(text, BLOCK_CLOSE, q)
    BY <2>1, <2>2, FindLater
  <2> QED BY <2>3 DEF CloseOf, q, open
<1>3. CASE HasBlock(text, p, 2)
  <2>1. Behind(text, start) = Rest(text, 2, NextOf(text, p, 2))
    BY <1>2, <1>3 DEF Behind, HasBlock, NextOf
  <2> QED BY <1>3, <2>1, RestGoesOn DEF start
<1>4. CASE ~ HasBlock(text, p, 2)
  <2>1. Behind(text, start) = << >>
    BY <1>2, <1>4 DEF Behind, HasBlock
  <2>2. ShownTo(text, p) \o << >> = ShownTo(text, p)
    BY ShownFacts, ConcatEmptySeq DEF Texts
  <2>3. Rest(text, 2, p) = ShownTo(text, p)
    BY <1>4, RestGoesOn
  <2> QED BY <2>1, <2>2, <2>3 DEF start
<1> QED BY <1>3, <1>4

-----------------------------------------------------------------------------
(* drain, one round at a time.                                               *)

Ends(text, f) == Find(text, BLOCK_CLOSE, f.committed + 1)

Resumes(text, f) == f.eating /\ Ends(text, f) # 0 /\ Ends(text, f) + 3 <= Len(text)
Resumed(text, f) == [f EXCEPT !.committed = Past(text, Ends(text, f) + 3) - 1, !.eating = FALSE]

Starts(text, f) == ~ f.eating /\ OpenOf(text, f.committed + 1) # 0
Started(text, f) ==
  [LetThrough(f, text, StartAt(text, f.committed + 1) - 1) EXCEPT !.eating = TRUE]

SafeTo(text, f) == f.committed + SafeEmitEnd(From(text, f.committed + 1))
Rested(text, f) == IF f.eating THEN f ELSE LetThrough(f, text, SafeTo(text, f))

Rounds(text, f) == Resumes(text, f) \/ Starts(text, f)
Round(text, f) == IF Resumes(text, f) THEN Resumed(text, f) ELSE Started(text, f)

\* How much is left to do.
Work(text, f) == 2 * (Len(text) - f.committed) + IF f.eating THEN 0 ELSE 1

\* What a filter is made of.
LEMMA FilterFacts ==
  ASSUME NEW text \in Texts, NEW f \in Filters(text)
  PROVE  /\ f.committed \in 0 .. Len(text) /\ f.committed \in Nat /\ f.committed <= Len(text)
         /\ f.eating \in BOOLEAN /\ f.emitted \in Texts
         /\ f.committed + 1 \in 1 .. Len(text) + 1 /\ f.committed + 1 \in Nat \ {0}
         /\ Len(text) \in Nat
  BY DEF Filters, Texts

\* Letting text through keeps it a filter.
LEMMA LetThroughFacts ==
  ASSUME NEW text \in Texts, NEW f \in Filters(text), NEW to \in 0 .. Len(text)
  PROVE  /\ LetThrough(f, text, to) \in Filters(text)
         /\ LetThrough(f, text, to).committed = to
         /\ LetThrough(f, text, to).eating = f.eating
         /\ LetThrough(f, text, to).emitted = f.emitted \o SubSeq(text, f.committed + 1, to)
<1> DEFINE more == SubSeq(text, f.committed + 1, to)
<1>1. f.committed + 1 \in Nat \ {0} /\ to \in Nat /\ to <= Len(text) /\ f.emitted \in Texts
      /\ f.eating \in BOOLEAN
  BY FilterFacts
<1>2. more \in Texts
  BY <1>1, Slice
<1> HIDE DEF more
<1>3. f.emitted \o more \in Seq(Chars)
  BY <1>1, <1>2, Joins DEF Texts
<1>4. LetThrough(f, text, to) = [committed |-> to, eating |-> f.eating, emitted |-> f.emitted \o more]
  <2>1. LetThrough(f, text, to) = [f EXCEPT !.committed = to, !.emitted = f.emitted \o more]
    BY DEF LetThrough, more
  <2>2. f = [committed |-> f.committed, eating |-> f.eating, emitted |-> f.emitted]
    BY DEF Filters
  <2> QED BY <2>1, <2>2
<1>5. LetThrough(f, text, to) \in Filters(text)
  <2> DEFINE emitted == f.emitted \o more
  <2>1. emitted \in Seq(Chars)
    BY <1>3
  <2>2. LetThrough(f, text, to) = [committed |-> to, eating |-> f.eating, emitted |-> emitted]
    BY <1>4
  <2> HIDE DEF emitted
  <2> QED BY <1>1, <2>1, <2>2 DEF Filters
<1>6. /\ LetThrough(f, text, to).committed = to /\ LetThrough(f, text, to).eating = f.eating
      /\ LetThrough(f, text, to).emitted = f.emitted \o more
  <2> DEFINE emitted == f.emitted \o more
  <2>1. LetThrough(f, text, to) = [committed |-> to, eating |-> f.eating, emitted |-> emitted]
    BY <1>4
  <2> HIDE DEF emitted
  <2>2. /\ LetThrough(f, text, to).committed = to /\ LetThrough(f, text, to).eating = f.eating
        /\ LetThrough(f, text, to).emitted = emitted
    BY <2>1
  <2> QED BY <2>2 DEF emitted
<1> QED BY <1>5, <1>6 DEF more

\* So does the end of a block,
LEMMA ResumedFacts ==
  ASSUME NEW text \in Texts, NEW f \in Filters(text), Resumes(text, f),
         NEW g, g = Resumed(text, f)
  PROVE  /\ g \in Filters(text) /\ ~ g.eating /\ g.emitted = f.emitted
         /\ g.committed + 1 = Past(text, Ends(text, f) + 3)
         /\ f.committed < g.committed
<1> DEFINE close == Ends(text, f)
<1> DEFINE next == Past(text, close + 3)
<1>1. f.committed + 1 \in Nat \ {0} /\ f.committed \in Nat /\ f.emitted \in Texts /\ Len(text) \in Nat
  BY FilterFacts
<1>2. close \in Nat /\ f.committed + 1 <= close /\ next \in Nat /\ close + 3 <= next /\ next <= Len(text) + 1
  <2>1. close = Find(text, BLOCK_CLOSE, f.committed + 1) /\ close # 0
    BY DEF Ends, Resumes
  <2> HIDE DEF close
  <2> QED BY <1>1, <2>1, ClosePlaces
<1> HIDE DEF close, next
<1>3. next - 1 \in 0 .. Len(text) /\ (next - 1) + 1 = next /\ f.committed < next - 1
  BY <1>1, <1>2
<1>4. g = [committed |-> next - 1, eating |-> FALSE, emitted |-> f.emitted]
  BY DEF Resumed, Filters, next, close
<1>5. g \in Filters(text)
  BY <1>1, <1>3, <1>4 DEF Filters, Texts
<1> QED BY <1>3, <1>4, <1>5 DEF next, close

\* so does the opening of one,
LEMMA StartedFacts ==
  ASSUME NEW text \in Texts, NEW f \in Filters(text), Starts(text, f),
         NEW g, g = Started(text, f)
  PROVE  /\ g \in Filters(text) /\ g.eating
         /\ g.emitted = f.emitted \o ShownTo(text, f.committed + 1)
         /\ g.committed + 1 = StartAt(text, f.committed + 1)
         /\ f.committed <= g.committed
<1> DEFINE p == f.committed + 1
<1> DEFINE start == StartAt(text, p)
<1>1. p \in 1 .. Len(text) + 1 /\ f.committed \in Nat /\ f.emitted \in Texts /\ Len(text) \in Nat
  BY FilterFacts
<1>2. /\ OpenOf(text, p) \in Nat /\ OpenOf(text, p) + 2 <= Len(text)
      /\ start \in Nat /\ p <= start /\ start <= OpenOf(text, p)
  <2>1. OpenOf(text, p) # 0
    BY DEF Starts
  <2> HIDE DEF p
  <2> QED BY <1>1, <2>1, OpenFacts
<1>3. start - 1 \in 0 .. Len(text) /\ (start - 1) + 1 = start /\ f.committed <= start - 1
  BY <1>1, <1>2
<1> DEFINE l == LetThrough(f, text, start - 1)
<1>4. l \in Filters(text) /\ l.committed = start - 1 /\ l.emitted = f.emitted \o SubSeq(text, f.committed + 1, start - 1)
  <2> HIDE DEF start
  <2> QED BY <1>3, LetThroughFacts
<1> HIDE DEF l
<1>5. g = [l EXCEPT !.eating = TRUE]
  BY DEF Started, l
<1>6. g = [committed |-> l.committed, eating |-> TRUE, emitted |-> l.emitted]
  BY <1>4, <1>5 DEF Filters
<1>7. g \in Filters(text)
  <2>1. l.committed \in 0 .. Len(text) /\ l.emitted \in Seq(Chars)
    BY <1>4 DEF Filters
  <2> QED BY <1>6, <2>1 DEF Filters
<1>8. g.eating /\ g.emitted = l.emitted /\ g.committed = l.committed
  BY <1>6
<1>9. g.emitted = f.emitted \o ShownTo(text, f.committed + 1)
  BY <1>4, <1>8 DEF ShownTo
<1> QED BY <1>3, <1>4, <1>7, <1>8, <1>9

\* and so does stopping where nothing is left to find.
LEMMA RestedFacts ==
  ASSUME NEW text \in Texts, NEW f \in Filters(text), ~ Rounds(text, f), ~ f.eating,
         NEW g, g = Rested(text, f), NEW e, e = SafeTo(text, f)
  PROVE  /\ g \in Filters(text) /\ ~ g.eating
         /\ g.emitted = f.emitted \o SubSeq(text, f.committed + 1, e)
         /\ g.committed = e /\ f.committed <= e /\ Len(text) <= e + 3
<1> DEFINE p == f.committed + 1
<1>1. p \in 1 .. Len(text) + 1 /\ f.committed \in Nat /\ p - 1 = f.committed
  BY FilterFacts
<1>2. Find(text, DISPATCH_OPEN, p) = 0
  BY DEF Rounds, Starts, OpenOf
<1>3. e = p - 1 + SafeEmitEnd(From(text, p))
  BY <1>1 DEF SafeTo
<1>4. e \in Nat /\ p - 1 <= e /\ e <= Len(text) /\ Len(text) <= e + 3
  <2> HIDE DEF p
  <2> QED BY <1>1, <1>2, <1>3, SafeEnd
<1>5. e \in 0 .. Len(text)
  BY <1>4, FilterFacts
<1>6. g = LetThrough(f, text, e)
  BY DEF Rested
<1>7. g \in Filters(text) /\ g.committed = e /\ g.eating = f.eating
      /\ g.emitted = f.emitted \o SubSeq(text, f.committed + 1, e)
  <2> DEFINE l == LetThrough(f, text, e)
  <2>0. \A to \in 0 .. Len(text) :
          /\ LetThrough(f, text, to) \in Filters(text)
          /\ LetThrough(f, text, to).committed = to
          /\ LetThrough(f, text, to).eating = f.eating
          /\ LetThrough(f, text, to).emitted = f.emitted \o SubSeq(text, f.committed + 1, to)
    BY LetThroughFacts
  <2>1. l \in Filters(text) /\ l.committed = e /\ l.eating = f.eating
        /\ l.emitted = f.emitted \o SubSeq(text, f.committed + 1, e)
    BY <1>5, <2>0, Zenon
  <2> HIDE DEF l
  <2>2. g = l
    BY <1>6 DEF l
  <2> QED BY <2>1, <2>2
<1> HIDE DEF p
<1> QED BY <1>1, <1>4, <1>7

\* Each round of the loop leaves less to do.
LEMMA RoundFacts ==
  ASSUME NEW text \in Texts, NEW f \in Filters(text)
  PROVE  /\ Work(text, f) \in 0 .. 2 * Len(text) + 1
         /\ Rounds(text, f) => /\ Round(text, f) \in Filters(text)
                               /\ Work(text, Round(text, f)) < Work(text, f)
         /\ ~ Rounds(text, f) => Rested(text, f) \in Filters(text)
<1> DEFINE n == Len(text)
<1>1. n \in Nat /\ f.committed \in Nat /\ f.committed <= n
  BY FilterFacts
<1>2. Work(text, f) \in 0 .. 2 * n + 1
  BY <1>1 DEF Work
<1>3. ASSUME Resumes(text, f)
      PROVE  Round(text, f) \in Filters(text) /\ Work(text, Round(text, f)) < Work(text, f)
  <2> DEFINE g == Resumed(text, f)
  <2>1. g \in Filters(text) /\ ~ g.eating /\ f.committed < g.committed /\ f.eating
    BY <1>3, ResumedFacts DEF Resumes
  <2>2. g = Round(text, f)
    BY <1>3 DEF Round
  <2> HIDE DEF g
  <2>3. g.committed \in Nat /\ g.committed <= n
    BY <2>1, FilterFacts
  <2>4. 2 * (n - g.committed) + 1 < 2 * (n - f.committed) + 0
    BY <1>1, <2>1, <2>3
  <2> QED BY <2>1, <2>2, <2>4 DEF Work
<1>4. ASSUME Starts(text, f), ~ Resumes(text, f)
      PROVE  Round(text, f) \in Filters(text) /\ Work(text, Round(text, f)) < Work(text, f)
  <2> DEFINE g == Started(text, f)
  <2>1. g \in Filters(text) /\ g.eating /\ f.committed <= g.committed /\ ~ f.eating
    BY <1>4, StartedFacts DEF Starts
  <2>2. g = Round(text, f)
    BY <1>4 DEF Round
  <2> HIDE DEF g
  <2>3. g.committed \in Nat /\ g.committed <= n
    BY <2>1, FilterFacts
  <2>4. 2 * (n - g.committed) + 0 < 2 * (n - f.committed) + 1
    BY <1>1, <2>1, <2>3
  <2> QED BY <2>1, <2>2, <2>4 DEF Work
<1>5. ASSUME ~ Rounds(text, f) PROVE Rested(text, f) \in Filters(text)
  <2>1. CASE f.eating
    BY <2>1 DEF Rested
  <2>2. CASE ~ f.eating
    BY <1>5, <2>2, RestedFacts
  <2> QED BY <2>1, <2>2
<1> QED BY <1>2, <1>3, <1>4, <1>5 DEF Rounds

\* drain, one round at a time; it ends, as each round leaves less to do.
LEMMA DrainGoesOn ==
  ASSUME NEW text \in Texts, NEW f \in Filters(text)
  PROVE  Drain(text, f) = IF Rounds(text, f) THEN Drain(text, Round(text, f)) ELSE Rested(text, f)
<1> DEFINE n == 2 * Len(text) + 1
<1> DEFINE D == Filters(text)
<1> DEFINE m == [g \in D |-> Work(text, g)]
<1> DEFINE goes == [g \in D |-> Rounds(text, g)]
<1> DEFINE next == [g \in D |-> IF Rounds(text, g) THEN Round(text, g) ELSE g]
<1> DEFINE step == [g \in D |-> [s \in D |-> s]]
<1> DEFINE base == [g \in D |-> IF Rounds(text, g) THEN g ELSE Rested(text, g)]
<1> DEFINE Plain(h, g) == IF Rounds(text, g) THEN h[Round(text, g)] ELSE Rested(text, g)
<1> DEFINE IsScan(h) == h = [g \in Filters(text) |->
        LET from == g.committed + 1
            open == Find(text, DISPATCH_OPEN, from)
            start == StartOf(text, open, from)
            close == Find(text, BLOCK_CLOSE, from)
            end == close + Len(BLOCK_CLOSE)
        IN  IF g.eating
            THEN IF close = 0 \/ ~IsOver(text, end) THEN g
                 ELSE h[[g EXCEPT !.committed = Past(text, end) - 1, !.eating = FALSE]]
            ELSE IF open # 0
                 THEN h[[LetThrough(g, text, start - 1) EXCEPT !.eating = TRUE]]
                 ELSE LetThrough(g, text, g.committed + SafeEmitEnd(From(text, from)))]
<1> DEFINE scan == CHOOSE h : IsScan(h)
<1>1. n \in Nat /\ Len(BLOCK_CLOSE) = 3
  <2>1. Len(text) \in Nat
    BY DEF Texts
  <2> QED BY <2>1, Tags
<1>2. ASSUME NEW g \in D
      PROVE  /\ Work(text, g) \in 0 .. n
             /\ Rounds(text, g) => Round(text, g) \in D /\ Work(text, Round(text, g)) < Work(text, g)
             /\ ~ Rounds(text, g) => Rested(text, g) \in D
  BY RoundFacts
<1>3. ASSUME NEW h PROVE IsScan(h) <=> h = [g \in D |-> Plain(h, g)]
  <2>1. IsScan(h) <=> h = [g \in D |->
          IF g.eating
          THEN IF Ends(text, g) = 0 \/ ~ IsOver(text, Ends(text, g) + 3) THEN g
               ELSE h[Resumed(text, g)]
          ELSE IF OpenOf(text, g.committed + 1) # 0 THEN h[Started(text, g)]
               ELSE LetThrough(g, text, SafeTo(text, g))]
    BY <1>1 DEF Ends, OpenOf, Resumed, Started, SafeTo, StartAt
  <2>2. ASSUME NEW g \in D
        PROVE  Plain(h, g) =
          IF g.eating
          THEN IF Ends(text, g) = 0 \/ ~ IsOver(text, Ends(text, g) + 3) THEN g
               ELSE h[Resumed(text, g)]
          ELSE IF OpenOf(text, g.committed + 1) # 0 THEN h[Started(text, g)]
               ELSE LetThrough(g, text, SafeTo(text, g))
    BY Zenon DEF Rounds, Round, Resumes, Starts, Rested, IsOver
  <2> HIDE DEF IsScan, Plain
  <2> QED BY <2>1, <2>2
<1>4. /\ m \in [D -> 0 .. n] /\ goes \in [D -> BOOLEAN] /\ next \in [D -> D]
      /\ step \in [D -> [D -> D]] /\ base \in [D -> D] /\ Descends(D, m, goes, next)
  <2>1. goes \in [D -> BOOLEAN] /\ step \in [D -> [D -> D]]
    BY DEF Rounds, Starts
  <2> HIDE DEF D, n
  <2>2. m \in [D -> 0 .. n] /\ next \in [D -> D] /\ base \in [D -> D]
    BY <1>2
  <2>3. Descends(D, m, goes, next)
    BY <1>2 DEF Descends
  <2> QED BY <2>1, <2>2, <2>3
<1> HIDE DEF n, D, m, goes, next, step, base, IsScan
<1>5. \E h : IsScan(h)
  <2>1. PICK h \in [D -> D] : Solution(h, D, goes, next, step, base)
    BY <1>1, <1>4, Recursion, Zenon
  <2>2. ASSUME NEW g \in D PROVE h[g] = Plain(h, g)
    <3>1. next[g] \in D
      BY <1>4
    <3>2. h[next[g]] \in D
      BY <3>1
    <3>3. h[g] = IF goes[g] THEN step[g][h[next[g]]] ELSE base[g]
      BY <2>1 DEF Solution
    <3>4. Rounds(text, g) => next[g] = Round(text, g)
      BY DEF next
    <3> QED BY <3>2, <3>3, <3>4 DEF goes, step, base
  <2>3. h = [g \in D |-> Plain(h, g)]
    BY <2>2
  <2> QED BY <1>3, <2>3, Zenon
<1>6. IsScan(scan)
  BY <1>5, Zenon
<1>7. \A g : Drain(text, g) = scan[g]
  BY Zenon DEF Drain, scan, IsScan
<1> HIDE DEF scan
<1>8. scan = [g \in D |-> Plain(scan, g)]
  BY <1>3, <1>6, Zenon
<1>9. f \in D
  BY DEF D
<1>10. scan[f] = Plain(scan, f)
  BY <1>8, <1>9
<1> QED BY <1>7, <1>10

\* What a filter has let through, and will let through of a text.
Out(text, f) ==
  f.emitted \o IF f.eating THEN Behind(text, f.committed + 1) ELSE Rest(text, 2, f.committed + 1)

\* A filter that has gone as far as it can.
Drained(text, f) ==
  /\ ~ Rounds(text, f)
  /\ ~ f.eating => Len(text) <= f.committed + 3

\* A filter that eats stands at an opening.
Opened(text, f) ==
  f.eating => \/ At(text, DISPATCH_OPEN, f.committed + 1)
              \/ At(text, NewlineOpen, f.committed + 1)

\* The end of a block changes nothing about what a longer text will have let through,
LEMMA ResumedKeeps ==
  ASSUME NEW text \in Texts, NEW f \in Filters(text), Resumes(text, f),
         NEW long, Extends(long, text)
  PROVE  Out(long, Resumed(text, f)) = Out(long, f)
<1> DEFINE g == Resumed(text, f)
<1> DEFINE p == f.committed + 1
<1> DEFINE close == Ends(text, f)
<1>1. ~ g.eating /\ g.emitted = f.emitted /\ g.committed + 1 = Past(text, close + 3)
  BY ResumedFacts
<1>2. f.eating /\ close # 0 /\ close + 3 <= Len(text) /\ close = Find(text, BLOCK_CLOSE, p)
      /\ p \in Nat \ {0}
  BY FilterFacts DEF Resumes, Ends
<1> HIDE DEF g, p, close
<1>3. Find(long, BLOCK_CLOSE, p) = close
  BY <1>2, Tags, FindExtends
<1>4. Past(long, close + 3) = Past(text, close + 3)
  <2>1. close \in Nat /\ Len(text) \in Nat /\ Len(long) \in Nat /\ Len(text) <= Len(long)
    <3>1. close \in p .. Len(text)
      BY <1>2, Finding
    <3> QED BY <1>2, <3>1 DEF Extends, Texts
  <2>2. close + 3 \in 1 .. Len(text) /\ close + 3 <= Len(long)
    BY <1>2, <2>1
  <2>3. long[close + 3] = text[close + 3]
    BY <2>2 DEF Extends
  <2> QED BY <1>2, <2>2, <2>3 DEF Past
<1>5. Behind(long, p) = Rest(long, 2, g.committed + 1)
  BY <1>1, <1>2, <1>3, <1>4 DEF Behind
<1>6. Out(long, g) = g.emitted \o Rest(long, 2, g.committed + 1)
  BY <1>1 DEF Out
<1>7. Out(long, f) = f.emitted \o Behind(long, p)
  BY <1>2 DEF Out, p
<1> QED BY <1>1, <1>5, <1>6, <1>7 DEF g

\* nor does the opening of one,
LEMMA StartedKeeps ==
  ASSUME NEW text \in Texts, NEW f \in Filters(text), Starts(text, f),
         NEW long, Extends(long, text)
  PROVE  Out(long, Started(text, f)) = Out(long, f)
<1> DEFINE g == Started(text, f)
<1> DEFINE p == f.committed + 1
<1> DEFINE open == OpenOf(text, p)
<1> DEFINE start == StartAt(text, p)
<1>1. g.eating /\ g.emitted = f.emitted \o ShownTo(text, p) /\ g.committed + 1 = start
  BY StartedFacts
<1>2. ~ f.eating /\ open # 0 /\ p \in 1 .. Len(text) + 1 /\ p \in Nat \ {0} /\ f.emitted \in Texts
  BY FilterFacts DEF Starts
<1>3. Len(text) \in Nat /\ Len(long) \in Nat /\ Len(text) <= Len(long) /\ long \in Texts
      /\ p \in 1 .. Len(long) + 1
  <2>1. Len(text) \in Nat /\ Len(long) \in Nat /\ Len(text) <= Len(long) /\ long \in Texts
    BY DEF Extends, Texts
  <2> QED BY <1>2, <2>1
<1>10. Out(long, f) = f.emitted \o Rest(long, 2, p)
  BY <1>2 DEF Out
<1> HIDE DEF g, p
<1>4. OpenOf(long, p) = open
  BY <1>2, Tags, FindExtends DEF OpenOf
<1>5. /\ open \in Nat /\ p <= open /\ open + 2 <= Len(text) /\ start \in Nat /\ p <= start
      /\ start <= open
  BY <1>2, OpenFacts
<1> HIDE DEF open
<1>6. StartAt(long, p) = start
  <2>1. StartAt(long, p) = StartOf(long, open, p) /\ start = StartOf(text, open, p)
    BY <1>4 DEF StartAt, open
  <2>2. open > p => open - 1 \in 1 .. Len(text)
    BY <1>2, <1>3, <1>5
  <2>3. open > p => long[open - 1] = text[open - 1]
    BY <2>2 DEF Extends
  <2> QED BY <2>1, <2>3 DEF StartOf
<1> HIDE DEF start
<1>7. ShownTo(long, p) = ShownTo(text, p)
  <2>1. start - 1 \in Nat /\ start - 1 <= Len(text)
    BY <1>2, <1>3, <1>5
  <2>2. SubSeq(long, p, start - 1) = SubSeq(text, p, start - 1)
    BY <1>2, <2>1, SliceExtends
  <2> QED BY <1>6, <2>2 DEF ShownTo, start
<1>8. Rest(long, 2, p) = ShownTo(text, p) \o Behind(long, start)
  <2>1. OpenOf(long, p) # 0
    BY <1>2, <1>4 DEF open
  <2>2. Rest(long, 2, p) = ShownTo(long, p) \o Behind(long, StartAt(long, p))
    BY <1>3, <2>1, RestOpens
  <2> QED BY <1>6, <1>7, <2>2
<1>9. Out(long, g) = (f.emitted \o ShownTo(text, p)) \o Behind(long, start)
  BY <1>1 DEF Out
<1>11. (f.emitted \o ShownTo(text, p)) \o Behind(long, start)
         = f.emitted \o (ShownTo(text, p) \o Behind(long, start))
  <2>1. ShownTo(text, p) \in Texts
    BY <1>2, ShownFacts DEF open
  <2>2. Behind(long, start) \in Texts
    <3>1. start \in Nat \ {0}
      BY <1>2, <1>5
    <3> QED BY <1>3, <3>1, BehindIsText
  <2>3. \A x, y, z \in Texts : (x \o y) \o z = x \o (y \o z)
    BY Joins
  <2> QED BY <1>2, <2>1, <2>2, <2>3, Zenon
<1> QED BY <1>8, <1>9, <1>10, <1>11 DEF g

\* nor does letting through what is safe, after which there is nothing left to find.
LEMMA RestedKeeps ==
  ASSUME NEW text \in Texts, NEW f \in Filters(text), ~ Rounds(text, f),
         NEW long, Extends(long, text)
  PROVE  /\ Out(long, Rested(text, f)) = Out(long, f)
         /\ Drained(text, Rested(text, f))
<1> DEFINE g == Rested(text, f)
<1>1. CASE f.eating
  <2>1. g = f
    BY <1>1 DEF Rested
  <2> QED BY <1>1, <2>1 DEF Drained
<1>2. CASE ~ f.eating
  <2> DEFINE p == f.committed + 1
  <2> DEFINE e == SafeTo(text, f)
  <2>1. /\ g \in Filters(text) /\ ~ g.eating /\ g.committed = e /\ f.committed <= e
        /\ Len(text) <= e + 3 /\ g.emitted = f.emitted \o SubSeq(text, p, e)
    BY <1>2, RestedFacts
  <2>2. /\ p \in 1 .. Len(text) + 1 /\ p \in Nat \ {0} /\ f.emitted \in Texts
        /\ p - 1 = f.committed /\ f.committed \in Nat
    BY FilterFacts
  <2>3. e \in Nat /\ e <= Len(text) /\ e + 1 \in 1 .. Len(text) + 1 /\ p <= e + 1
    <3>1. g.committed \in 0 .. Len(text)
      BY <2>1, FilterFacts
    <3> HIDE DEF g, e, p
    <3>2. f.committed + 1 <= e + 1
      BY <2>1, <2>2, <3>1
    <3> QED BY <2>1, <2>2, <3>1, <3>2 DEF p
  <2>4. Find(text, DISPATCH_OPEN, p) = 0
    BY <1>2 DEF Rounds, Starts, OpenOf
  <2>5. e = p - 1 + SafeEmitEnd(From(text, p))
    BY <2>2 DEF SafeTo
  <2>9. Out(long, f) = f.emitted \o Rest(long, 2, p)
    BY <1>2 DEF Out
  <2> HIDE DEF e, p, g
  <2>6. Rest(long, 2, p) = SubSeq(text, p, e) \o Rest(long, 2, e + 1)
    <3>1. \A q \in 1 .. Len(text) + 1 : \A d :
            Find(text, DISPATCH_OPEN, q) = 0 /\ d = q - 1 + SafeEmitEnd(From(text, q)) =>
            Rest(long, 2, q) = SubSeq(text, q, d) \o Rest(long, 2, d + 1)
      BY SafeForever
    <3> QED BY <2>2, <2>4, <2>5, <3>1, Zenon
  <2>7. Out(long, g) = (f.emitted \o SubSeq(text, p, e)) \o Rest(long, 2, e + 1)
    BY <2>1 DEF Out
  <2>8. (f.emitted \o SubSeq(text, p, e)) \o Rest(long, 2, e + 1)
          = f.emitted \o (SubSeq(text, p, e) \o Rest(long, 2, e + 1))
    <3>1. SubSeq(text, p, e) \in Texts
      BY <2>2, <2>3, Slice
    <3>2. Rest(long, 2, e + 1) \in Texts
      <4>1. long \in Texts /\ e + 1 \in 1 .. Len(long) + 1
        <5>1. Len(text) \in Nat /\ Len(long) \in Nat /\ Len(text) <= Len(long) /\ long \in Texts
          BY DEF Extends, Texts
        <5> QED BY <2>3, <5>1
      <4> QED BY <4>1, RestGoesOn
    <3>3. \A x, y, z \in Texts : (x \o y) \o z = x \o (y \o z)
      BY Joins
    <3> QED BY <2>2, <3>1, <3>2, <3>3, Zenon
  <2>10. ~ Rounds(text, g)
    <3> DEFINE q == e + 1
    <3>1. q \in Nat \ {0} /\ \A i \in q .. Len(text) : i \in p .. Len(text)
      BY <2>2, <2>3
    <3>2. \A i \in p .. Len(text) : ~ At(text, DISPATCH_OPEN, i)
      BY <2>2, <2>4, Finding
    <3>3. Find(text, DISPATCH_OPEN, q) = 0
      BY <3>1, <3>2, FindNothing
    <3> QED BY <2>1, <3>3 DEF Rounds, Resumes, Starts, OpenOf
  <2>11. Drained(text, g)
    BY <2>1, <2>10 DEF Drained
  <2> QED BY <2>6, <2>7, <2>8, <2>9, <2>11 DEF g
<1> QED BY <1>1, <1>2

\* A round changes nothing about it, and a filter that begins to eat stands at an opening.
LEMMA RoundKeeps ==
  ASSUME NEW text \in Texts, NEW f \in Filters(text), Rounds(text, f)
  PROVE  /\ Opened(text, Round(text, f))
         /\ \A long : Extends(long, text) => Out(long, Round(text, f)) = Out(long, f)
<1>1. CASE Resumes(text, f)
  <2>1. Round(text, f) = Resumed(text, f)
    BY <1>1 DEF Round
  <2>2. ~ Resumed(text, f).eating
    BY <1>1, ResumedFacts
  <2> QED BY <1>1, <2>1, <2>2, ResumedKeeps DEF Opened
<1>2. CASE ~ Resumes(text, f)
  <2>1. Round(text, f) = Started(text, f) /\ Starts(text, f)
    BY <1>2 DEF Round, Rounds
  <2>2. Opened(text, Started(text, f))
    <3> DEFINE p == f.committed + 1
    <3> DEFINE open == OpenOf(text, p)
    <3> DEFINE start == StartAt(text, p)
    <3>1. p \in 1 .. Len(text) + 1 /\ open # 0 /\ p \in Nat \ {0}
      BY <2>1, FilterFacts DEF Starts
    <3>2. Started(text, f).committed + 1 = start
      BY <2>1, StartedFacts
    <3> HIDE DEF p
    <3>3. /\ open \in Nat /\ start \in Nat /\ p <= start /\ start <= open /\ open <= start + 1
          /\ At(text, DISPATCH_OPEN, open) /\ (start = open - 1 => text[start] = "n")
      BY <3>1, OpenFacts
    <3> HIDE DEF open, start
    <3>4. CASE start = open
      BY <3>2, <3>3, <3>4 DEF Opened
    <3>5. CASE start + 1 = open
      <4>1. start \in Nat \ {0} /\ text[start] = "n" /\ At(text, DISPATCH_OPEN, start + 1)
        BY <3>1, <3>3, <3>5
      <4>2. At(text, NewlineOpen, start)
        BY <4>1, AtNewlineOpen
      <4> QED BY <3>2, <4>2 DEF Opened
    <3>6. start = open \/ start + 1 = open
      BY <3>3
    <3> QED BY <3>4, <3>5, <3>6
  <2> QED BY <2>1, <2>2, StartedKeeps
<1> QED BY <1>1, <1>2

\* What drain makes of a filter.
DrainsTo(text, f, g) ==
  /\ g \in Filters(text) /\ Drained(text, g) /\ Opened(text, g)
  /\ \A long : Extends(long, text) => Out(long, g) = Out(long, f)

\* So drain does not, and it goes as far as it can.
LEMMA DrainKeeps ==
  ASSUME NEW text \in Texts
  PROVE  \A f \in Filters(text) : Opened(text, f) => DrainsTo(text, f, Drain(text, f))
<1> DEFINE n == 2 * Len(text) + 1
<1> DEFINE D == Filters(text)
<1> DEFINE m == [f \in D |-> Work(text, f)]
<1> DEFINE P == {f \in D : Opened(text, f) => DrainsTo(text, f, Drain(text, f))}
<1>1. n \in Nat
  BY DEF Texts
<1>2. m \in [D -> 0 .. n] /\ \A f \in D : m[f] = Work(text, f)
  <2> HIDE DEF D
  <2>1. \A f \in D : Work(text, f) \in 0 .. n
    BY RoundFacts DEF D
  <2> QED BY <2>1
<1> HIDE DEF m, n
<1>3. ASSUME NEW f \in D, \A g \in D : m[g] < m[f] => g \in P PROVE f \in P
  <2>1. SUFFICES ASSUME Opened(text, f) PROVE DrainsTo(text, f, Drain(text, f))
    OBVIOUS
  <2>2. CASE Rounds(text, f)
    <3> DEFINE g == Round(text, f)
    <3>1. g \in D /\ m[g] < m[f]
      BY <1>2, <2>2, RoundFacts
    <3>2. Opened(text, g) /\ \A long : Extends(long, text) => Out(long, g) = Out(long, f)
      BY <2>2, RoundKeeps
    <3>3. Drain(text, f) = Drain(text, g)
      BY <2>2, DrainGoesOn
    <3> HIDE DEF g
    <3>4. DrainsTo(text, g, Drain(text, g))
      BY <1>3, <3>1, <3>2
    <3> QED BY <3>2, <3>3, <3>4 DEF DrainsTo
  <2>3. CASE ~ Rounds(text, f)
    <3> DEFINE g == Rested(text, f)
    <3>1. Drain(text, f) = g /\ g \in D
      BY <2>3, DrainGoesOn, RoundFacts
    <3>2. \A long : Extends(long, text) => Out(long, g) = Out(long, f) /\ Drained(text, g)
      BY <2>3, RestedKeeps
    <3>3. Extends(text, text)
      BY DEF Extends, Texts
    <3>4. Opened(text, g)
      <4>1. CASE f.eating
        BY <2>1, <4>1 DEF Rested
      <4>2. CASE ~ f.eating
        <5>1. ~ g.eating
          BY <2>3, <4>2, RestedFacts
        <5> QED BY <5>1 DEF Opened
      <4> QED BY <4>1, <4>2
    <3> HIDE DEF g
    <3> QED BY <3>1, <3>2, <3>3, <3>4 DEF DrainsTo
  <2> QED BY <2>2, <2>3
<1> HIDE DEF P
<1>4. Inductive(P, D, m)
  <2> HIDE DEF D
  <2> QED BY <1>3 DEF Inductive
<1>5. \A f \in D : f \in P
  <2> HIDE DEF D
  <2> QED BY <1>1, <1>2, <1>4, Below, Zenon
<1> QED BY <1>5 DEF P

-----------------------------------------------------------------------------
(* Reasoning at the front of a text.                                         *)

\* The place of the first character that is not blank.
FirstOf(text) == Min({i \in 1 .. Len(text) + 1 : i > Len(text) \/ text[i] # "n"})

\* trim_start begins at the first character that is not blank.
LEMMA FirstFacts ==
  ASSUME NEW text \in Texts, NEW k, k = FirstOf(text)
  PROVE  /\ k \in 1 .. Len(text) + 1 /\ (k <= Len(text) => text[k] # "n")
         /\ \A j \in 1 .. k - 1 : text[j] = "n"
         /\ TrimStart(text) = From(text, k)
<1> DEFINE S == {i \in 1 .. Len(text) + 1 : i > Len(text) \/ text[i] # "n"}
<1>1. Len(text) \in Nat
  BY DEF Texts
<1>2. S \in SUBSET Nat /\ Len(text) + 1 \in S
  BY <1>1
<1>3. \E x \in S : \A y \in S : x <= y
  BY <1>2, LeastElement
<1>4. k = Min(S) /\ TrimStart(text) = From(text, k)
  BY DEF FirstOf, TrimStart
<1>5. k \in S /\ \A y \in S : k <= y
  <2> HIDE DEF S
  <2> QED BY <1>3, <1>4 DEF Min
<1>6. ASSUME NEW j \in 1 .. k - 1 PROVE text[j] = "n"
  <2>1. j \notin S /\ j \in 1 .. Len(text) + 1 /\ ~ (j > Len(text))
    BY <1>1, <1>5
  <2> QED BY <2>1
<1> QED BY <1>1, <1>4, <1>5, <1>6

\* That place is the only one with blanks alone before it and none at it.
LEMMA FirstIs ==
  ASSUME NEW text \in Texts, NEW k \in 1 .. Len(text) + 1, k <= Len(text) => text[k] # "n",
         \A j \in 1 .. k - 1 : text[j] = "n"
  PROVE  FirstOf(text) = k
<1> DEFINE f == FirstOf(text)
<1>1. /\ f \in 1 .. Len(text) + 1 /\ (f <= Len(text) => text[f] # "n")
      /\ \A j \in 1 .. f - 1 : text[j] = "n"
  BY FirstFacts
<1>2. Len(text) \in Nat
  BY DEF Texts
<1> HIDE DEF f
<1>3. ~ (f < k)
  <2>1. f < k => f \in 1 .. k - 1 /\ f <= Len(text)
    BY <1>1, <1>2
  <2> QED BY <1>1, <2>1
<1>4. ~ (k < f)
  <2>1. k < f => k \in 1 .. f - 1 /\ k <= Len(text)
    BY <1>1, <1>2
  <2> QED BY <1>1, <2>1
<1>5. f = k
  BY <1>1, <1>3, <1>4
<1> QED BY <1>5 DEF f

\* What is behind a place of what is behind a place.
LEMMA FromFrom ==
  ASSUME NEW text \in Texts, NEW i \in 1 .. Len(text) + 1, NEW s, s = From(text, i),
         NEW j \in 1 .. Len(s) + 1
  PROVE  From(s, j) = From(text, i + j - 1) /\ i + j - 1 \in 1 .. Len(text) + 1
<1> DEFINE k == i + j - 1
<1> DEFINE a == From(s, j)
<1> DEFINE b == From(text, k)
<1> DEFINE l == Len(text) + 1 - k
<1>1. s \in Texts /\ Len(s) = Len(text) + 1 - i /\ \A x \in 1 .. Len(text) + 1 - i : s[x] = text[i + x - 1]
  BY FromFacts
<1>2. Len(text) \in Nat /\ i \in Nat /\ j \in Nat
  BY DEF Texts
<1>3. k \in 1 .. Len(text) + 1 /\ Len(s) + 1 - j = l
  BY <1>1, <1>2
<1>4. a \in Texts /\ Len(a) = Len(s) + 1 - j /\ \A x \in 1 .. Len(s) + 1 - j : a[x] = s[j + x - 1]
  BY <1>1, FromFacts
<1>5. b \in Texts /\ Len(b) = l /\ \A x \in 1 .. l : b[x] = text[k + x - 1]
  <2> HIDE DEF k
  <2> QED BY <1>3, FromFacts
<1>6. \A x \in 1 .. l : j + x - 1 \in 1 .. Len(text) + 1 - i /\ i + (j + x - 1) - 1 = k + x - 1
  BY <1>1, <1>2
<1> HIDE DEF a, b, k, l
<1>7. \A x \in 1 .. l : a[x] = b[x]
  BY <1>1, <1>3, <1>4, <1>5, <1>6
<1>8. a = b
  BY <1>3, <1>4, <1>5, <1>7, SeqEqual DEF Texts
<1> QED BY <1>3, <1>8 DEF a, b, k

\* Blanks that are cut off a text do not matter to trim_start.
LEMMA TrimOfFrom ==
  ASSUME NEW text \in Texts, NEW i \in 1 .. Len(text) + 1, \A j \in 1 .. i - 1 : text[j] = "n"
  PROVE  TrimStart(From(text, i)) = TrimStart(text)
<1> DEFINE k == FirstOf(text)
<1> DEFINE s == From(text, i)
<1> DEFINE j == k - i + 1
<1>1. /\ k \in 1 .. Len(text) + 1 /\ (k <= Len(text) => text[k] # "n")
      /\ \A x \in 1 .. k - 1 : text[x] = "n"
      /\ TrimStart(text) = From(text, k)
  BY FirstFacts
<1>2. s \in Texts /\ Len(s) = Len(text) + 1 - i /\ \A x \in 1 .. Len(text) + 1 - i : s[x] = text[i + x - 1]
  BY FromFacts
<1>3. Len(text) \in Nat /\ i \in Nat /\ k \in Nat
  BY <1>1 DEF Texts
<1> HIDE DEF s, k
<1>4. i <= k
  <2>1. k < i => k \in 1 .. i - 1 /\ k <= Len(text)
    BY <1>1, <1>3
  <2> QED BY <1>1, <1>3, <2>1
<1>5. j \in 1 .. Len(s) + 1 /\ i + j - 1 = k
  BY <1>1, <1>2, <1>3, <1>4
<1>6. j <= Len(s) => s[j] # "n"
  <2>1. j <= Len(s) => j \in 1 .. Len(text) + 1 - i /\ k <= Len(text)
    BY <1>2, <1>3, <1>5
  <2> HIDE DEF j
  <2> QED BY <1>1, <1>2, <1>5, <2>1
<1>7. \A x \in 1 .. j - 1 : s[x] = "n"
  <2>1. \A x \in 1 .. j - 1 : x \in 1 .. Len(text) + 1 - i /\ i + x - 1 \in 1 .. k - 1
    BY <1>1, <1>2, <1>3, <1>5
  <2> HIDE DEF j
  <2> QED BY <1>1, <1>2, <2>1
<1> HIDE DEF j
<1>8. FirstOf(s) = j
  BY <1>2, <1>5, <1>6, <1>7, FirstIs
<1>9. TrimStart(s) = From(s, j)
  BY <1>2, <1>8, FirstFacts
<1>10. From(s, j) = From(text, k)
  BY <1>5, FromFrom DEF s
<1> QED BY <1>1, <1>9, <1>10 DEF s

\* What is behind a place begins with a tag if the tag stands there.
LEMMA TagAt ==
  ASSUME NEW text \in Texts, NEW tag \in Texts, NEW k \in 1 .. Len(text) + 1
  PROVE  IsPrefix(tag, From(text, k)) <=> At(text, tag, k)
<1> DEFINE s == From(text, k)
<1>1. s \in Texts /\ Len(s) = Len(text) + 1 - k /\ \A x \in 1 .. Len(text) + 1 - k : s[x] = text[k + x - 1]
  BY FromFacts
<1>2. Len(text) \in Nat /\ Len(tag) \in Nat /\ k \in Nat \ {0}
  BY DEF Texts
<1> HIDE DEF s
<1>3. IsPrefix(tag, s) <=> Len(tag) <= Len(s) /\ \A x \in 1 .. Len(tag) : tag[x] = s[x]
  BY <1>1, PrefixPlaces
<1>4. At(text, tag, k) <=>
        k + Len(tag) <= Len(text) + 1 /\ \A x \in 1 .. Len(tag) : text[k + x - 1] = tag[x]
  BY <1>2, AtPlaces DEF Texts
<1>5. (Len(tag) <= Len(s)) <=> (k + Len(tag) <= Len(text) + 1)
  BY <1>1, <1>2
<1>6. Len(tag) <= Len(s) => \A x \in 1 .. Len(tag) : s[x] = text[k + x - 1]
  <2>1. Len(tag) <= Len(s) => \A x \in 1 .. Len(tag) : x \in 1 .. Len(text) + 1 - k
    BY <1>1, <1>2
  <2> QED BY <1>1, <2>1
<1>7. IsPrefix(tag, s) <=> At(text, tag, k)
  BY <1>3, <1>4, <1>5, <1>6
<1> QED BY <1>7 DEF s

\* Reasoning stands at a place behind blanks.
FrontedAt(text, i) ==
  /\ \A j \in 1 .. i - 1 : text[j] = "n"
  /\ At(text, THINK, i) \/ At(text, UNTHINK, i)
Fronted(text) == \E i \in 1 .. Len(text) : FrontedAt(text, i)

\* Reasoning stands at the first character that is not blank.
LEMMA FrontedPlaces ==
  ASSUME NEW text \in Texts, NEW i \in 1 .. Len(text), FrontedAt(text, i)
  PROVE  /\ FirstOf(text) = i /\ i + 1 <= Len(text) /\ text[i] = "<"
         /\ text[i + 1] = "t" \/ text[i + 1] = "/"
<1>1. i \in Nat \ {0} /\ i \in 1 .. Len(text) + 1
  BY DEF Texts
<1>2. i + 1 <= Len(text) /\ text[i] = "<" /\ (text[i + 1] = "t" \/ text[i + 1] = "/")
  BY <1>1, AtTags DEF FrontedAt
<1>3. FirstOf(text) = i
  BY <1>1, <1>2, FirstIs DEF FrontedAt
<1> QED BY <1>2, <1>3

\* So that check_think_block sees the tag exactly if one is at the front.
LEMMA StartsAt ==
  ASSUME NEW text \in Texts
  PROVE  /\ StartsThink(text) <=> At(text, THINK, FirstOf(text))
         /\ StartsUnthink(text) <=> At(text, UNTHINK, FirstOf(text))
         /\ (StartsThink(text) \/ StartsUnthink(text)) <=> Fronted(text)
<1> DEFINE k == FirstOf(text)
<1>1. /\ k \in 1 .. Len(text) + 1 /\ (\A j \in 1 .. k - 1 : text[j] = "n")
      /\ TrimStart(text) = From(text, k)
  BY FirstFacts
<1>2. THINK \in Texts /\ UNTHINK \in Texts
  BY Tags DEF Texts
<1>3. k \in Nat \ {0} /\ Len(text) \in Nat
  BY <1>1 DEF Texts
<1> HIDE DEF k
<1>4. /\ StartsThink(text) <=> At(text, THINK, k)
      /\ StartsUnthink(text) <=> At(text, UNTHINK, k)
  BY <1>1, <1>2, TagAt DEF StartsThink, StartsUnthink
<1>5. ASSUME At(text, THINK, k) \/ At(text, UNTHINK, k) PROVE Fronted(text)
  <2>1. k + 1 <= Len(text)
    BY <1>3, <1>5, AtTags
  <2>2. k \in 1 .. Len(text)
    BY <1>3, <2>1
  <2> QED BY <1>1, <1>5, <2>2 DEF Fronted, FrontedAt
<1>6. ASSUME Fronted(text) PROVE At(text, THINK, k) \/ At(text, UNTHINK, k)
  <2>1. PICK i \in 1 .. Len(text) : FrontedAt(text, i)
    BY <1>6 DEF Fronted
  <2>2. k = i
    BY <2>1, FrontedPlaces DEF k
  <2> QED BY <2>1, <2>2 DEF FrontedAt
<1> QED BY <1>4, <1>5, <1>6 DEF k

\* Whether a decided text has reasoning at its front is decided for every longer one.
LEMMA FrontedExtends ==
  ASSUME NEW text \in Texts, NEW long, Extends(long, text)
  PROVE  /\ Fronted(text) => Fronted(long)
         /\ Fronted(long) /\ ~ IsPending(text) => Fronted(text)
<1>1. /\ Len(text) \in Nat /\ Len(long) \in Nat /\ Len(text) <= Len(long) /\ long \in Texts
      /\ \A i \in 1 .. Len(text) : long[i] = text[i]
  BY DEF Extends, Texts
<1>2. ASSUME NEW i \in 1 .. Len(text), i + 1 <= Len(text)
      PROVE  FrontedAt(long, i) <=> FrontedAt(text, i)
  <2>1. i \in Nat \ {0} /\ i + 2 <= Len(text) + 1
    BY <1>1, <1>2
  <2>2. /\ At(long, THINK, i) <=> At(text, THINK, i)
        /\ At(long, UNTHINK, i) <=> At(text, UNTHINK, i)
    BY <2>1, Tags, AtExtends
  <2>3. \A j \in 1 .. i - 1 : long[j] = text[j]
    <3>1. \A j \in 1 .. i - 1 : j \in 1 .. Len(text)
      BY <1>1
    <3> QED BY <1>1, <3>1
  <2> QED BY <2>2, <2>3 DEF FrontedAt
<1>3. ASSUME Fronted(text) PROVE Fronted(long)
  <2>1. PICK i \in 1 .. Len(text) : FrontedAt(text, i)
    BY <1>3 DEF Fronted
  <2>2. i + 1 <= Len(text)
    BY <2>1, FrontedPlaces
  <2>3. i \in 1 .. Len(long)
    BY <1>1
  <2> QED BY <1>2, <2>1, <2>2, <2>3 DEF Fronted
<1>4. ASSUME Fronted(long), ~ IsPending(text) PROVE Fronted(text)
  <2>1. PICK i \in 1 .. Len(long) : FrontedAt(long, i)
    BY <1>4 DEF Fronted
  <2>2. FirstOf(long) = i /\ i + 1 <= Len(long) /\ long[i] = "<"
    BY <1>1, <2>1, FrontedPlaces
  <2> DEFINE k == FirstOf(text)
  <2>3. /\ k \in 1 .. Len(text) + 1 /\ (k <= Len(text) => text[k] # "n")
        /\ (\A j \in 1 .. k - 1 : text[j] = "n")
        /\ TrimStart(text) = From(text, k)
    BY FirstFacts
  <2>4. From(text, k) \in Texts /\ Len(From(text, k)) = Len(text) + 1 - k
        /\ \A j \in 1 .. Len(text) + 1 - k : From(text, k)[j] = text[k + j - 1]
    BY <2>3, FromFacts
  <2> HIDE DEF k
  <2>5. From(text, k) # << >> /\ From(text, k) # <<"<">>
    BY <1>4, <2>3 DEF IsPending
  <2>6. k <= Len(text)
    <3>1. k = Len(text) + 1 => Len(From(text, k)) = 0
      BY <1>1, <2>4
    <3>2. k # Len(text) + 1
      BY <2>4, <2>5, <3>1, EmptySeq DEF Texts
    <3> QED BY <1>1, <2>3, <3>2
  <2>7. k = i
    <3>1. k \in 1 .. Len(long) + 1 /\ k \in 1 .. Len(text)
      BY <1>1, <2>3, <2>6
    <3>2. long[k] # "n"
      BY <1>1, <2>3, <2>6, <3>1
    <3>3. \A j \in 1 .. k - 1 : long[j] = "n"
      <4>1. \A j \in 1 .. k - 1 : j \in 1 .. Len(text)
        BY <1>1, <2>3
      <4> QED BY <1>1, <2>3, <4>1
    <3>4. FirstOf(long) = k
      BY <1>1, <3>1, <3>2, <3>3, FirstIs
    <3> QED BY <2>2, <3>4
  <2>8. k + 1 <= Len(text)
    <3>1. SUFFICES ASSUME k = Len(text) PROVE FALSE
      BY <1>1, <2>3, <2>6
    <3> DEFINE s == From(text, k)
    <3>2. s \in Seq(Chars) /\ Len(s) = 1 /\ s[1] = text[k + 1 - 1]
      BY <1>1, <2>4, <3>1 DEF Texts
    <3>3. s[1] = "<"
      <4>1. k + 1 - 1 = k /\ k \in 1 .. Len(text)
        BY <1>1, <2>3, <2>6
      <4>2. text[k] = "<"
        BY <1>1, <2>2, <2>7, <4>1
      <4> QED BY <3>2, <4>1, <4>2
    <3> HIDE DEF s
    <3>4. s = <<"<">>
      <4>1. <<"<">> \in Seq(Chars) /\ Len(<<"<">>) = 1 /\ <<"<">>[1] = "<"
        BY DEF Chars
      <4>2. \A j \in 1 .. 1 : s[j] = <<"<">>[j]
        BY <3>3, <4>1
      <4> QED BY <3>2, <4>1, <4>2, SeqEqual
    <3> QED BY <2>5, <3>4 DEF s
  <2>9. k \in 1 .. Len(text)
    BY <1>1, <2>3, <2>6
  <2> QED BY <1>2, <2>1, <2>7, <2>8, <2>9 DEF Fronted
<1> QED BY <1>3, <1>4

\* What is content of a decided text: what is behind the reasoning and blanks.
LEMMA ContentFacts ==
  ASSUME NEW text \in Texts, ~ IsPending(text), NEW cut, cut = Find(text, UNTHINK, 1)
  PROVE  IF Fronted(text)
         THEN /\ cut # 0 /\ cut \in Nat /\ cut + 1 <= Len(text)
              /\ \E i \in cut + 2 .. Len(text) + 1 :
                   /\ \A j \in cut + 2 .. i - 1 : text[j] = "n"
                   /\ Content(text) = From(text, i)
         ELSE Content(text) = text
<1>1. CASE ~ Fronted(text)
  BY <1>1, StartsAt DEF Content
<1>2. CASE Fronted(text)
  <2>1. StartsThink(text) \/ StartsUnthink(text)
    BY <1>2, StartsAt
  <2>2. cut # 0
    <3>1. CASE StartsThink(text)
      BY <3>1 DEF IsPending
    <3>2. CASE StartsUnthink(text)
      <4> DEFINE k == FirstOf(text)
      <4>1. At(text, UNTHINK, k) /\ k \in 1 .. Len(text) + 1
        BY <3>2, StartsAt, FirstFacts
      <4> HIDE DEF k
      <4>2. k \in Nat \ {0} /\ Len(text) \in Nat
        BY <4>1 DEF Texts
      <4>3. k \in 1 .. Len(text)
        BY <4>1, <4>2, AtTags
      <4>4. 1 \in Nat \ {0}
        OBVIOUS
      <4> QED BY <4>1, <4>3, <4>4, Finding
    <3> QED BY <2>1, <3>1, <3>2
  <2>3. cut \in 1 .. Len(text) /\ At(text, UNTHINK, cut)
    <3>1. 1 \in Nat \ {0}
      OBVIOUS
    <3> QED BY <2>2, <3>1, Finding
  <2>4. cut \in Nat \ {0} /\ Len(text) \in Nat
    BY <2>3 DEF Texts
  <2>5. cut + 1 <= Len(text)
    BY <2>3, <2>4, AtTags
  <2> DEFINE q == cut + 2
  <2> DEFINE s == From(text, q)
  <2> DEFINE k == FirstOf(s)
  <2>6. q \in 1 .. Len(text) + 1 /\ q \in Nat
    BY <2>4, <2>5
  <2>7. Content(text) = TrimStart(s)
    BY <2>1, Tags DEF Content
  <2> HIDE DEF q
  <2>8. s \in Texts /\ Len(s) = Len(text) + 1 - q /\ \A x \in 1 .. Len(text) + 1 - q : s[x] = text[q + x - 1]
    BY <2>6, FromFacts
  <2>9. k \in 1 .. Len(s) + 1 /\ (\A j \in 1 .. k - 1 : s[j] = "n") /\ TrimStart(s) = From(s, k)
    BY <2>8, FirstFacts
  <2> DEFINE i == q + k - 1
  <2>10. From(s, k) = From(text, i)
    BY <2>6, <2>9, FromFrom
  <2> HIDE DEF s, k
  <2>11. i \in q .. Len(text) + 1
    BY <2>4, <2>6, <2>8, <2>9
  <2>12. ASSUME NEW j \in q .. i - 1 PROVE text[j] = "n"
    <3> DEFINE x == j - q + 1
    <3>1. x \in 1 .. k - 1 /\ x \in 1 .. Len(text) + 1 - q /\ q + x - 1 = j
      BY <2>4, <2>6, <2>8, <2>9
    <3> HIDE DEF x
    <3> QED BY <2>8, <2>9, <3>1
  <2> HIDE DEF i
  <2>13. Content(text) = From(text, i)
    BY <2>7, <2>9, <2>10
  <2> QED BY <1>2, <2>2, <2>4, <2>5, <2>11, <2>12, <2>13 DEF q
<1> QED BY <1>1, <1>2

\* The content of a decided text is a text.
LEMMA ContentIsText ==
  ASSUME NEW text \in Texts, ~ IsPending(text)
  PROVE  Content(text) \in Texts
<1> DEFINE cut == Find(text, UNTHINK, 1)
<1>1. IF Fronted(text)
      THEN /\ cut # 0 /\ cut \in Nat /\ cut + 1 <= Len(text)
           /\ \E i \in cut + 2 .. Len(text) + 1 :
                /\ \A j \in cut + 2 .. i - 1 : text[j] = "n"
                /\ Content(text) = From(text, i)
      ELSE Content(text) = text
  BY ContentFacts
<1>2. CASE Fronted(text)
  <2>1. PICK i \in cut + 2 .. Len(text) + 1 : Content(text) = From(text, i)
    BY <1>1, <1>2
  <2>2. i \in 1 .. Len(text) + 1
    <3> HIDE DEF cut
    <3>1. Len(text) \in Nat /\ cut \in Nat
      BY <1>1, <1>2 DEF Texts
    <3> QED BY <3>1
  <2> QED BY <2>1, <2>2, FromFacts
<1>3. CASE ~ Fronted(text)
  BY <1>1, <1>3
<1> QED BY <1>2, <1>3

\* f is a text without the reasoning at its front.
IsCut(text, f) ==
  LET cut == Find(text, UNTHINK, 1)
      rest == From(text, cut + Len(UNTHINK))
  IN  IF cut # 0 /\ Fronted(text)
      THEN (\E i \in 1 .. Len(rest) + 1 : f = From(rest, i)) /\ TrimStart(f) = TrimStart(rest)
      ELSE f = text

\* A text of which the beginning t is decided, and the rest comes as it is.
LEMMA DecidedIsCut ==
  ASSUME NEW text \in Texts, NEW t \in Texts, Extends(text, t), ~ IsPending(t),
         NEW f, f = Content(t) \o SubSeq(text, Len(t) + 1, Len(text))
  PROVE  IsCut(text, f)
<1> DEFINE n == Len(text)
<1> DEFINE r == Len(t)
<1>1. n \in Nat /\ r \in Nat /\ r <= n /\ n <= n /\ r <= r
  BY DEF Extends, Texts
<1>2. \A a \in Nat \ {0} : a <= r + 1 => From(t, a) \o SubSeq(text, r + 1, n) = From(text, a)
  <2>1. SUFFICES ASSUME NEW a \in Nat \ {0}, a <= r + 1
                 PROVE  From(t, a) \o SubSeq(text, r + 1, n) = From(text, a)
    OBVIOUS
  <2>2. SubSeq(text, a, r) = SubSeq(t, a, r)
    BY <1>1, SliceExtends
  <2>3. SubSeq(text, a, r) \o SubSeq(text, r + 1, n) = SubSeq(text, a, n)
    BY <1>1, <2>1, Cut
  <2> QED BY <2>2, <2>3 DEF From
<1>3. CASE ~ Fronted(t)
  <2>1. Content(t) = t /\ ~ Fronted(text)
    BY <1>3, ContentFacts, FrontedExtends
  <2>2. t = From(t, 1)
    <3>1. SubSeq(t, 1, Len(t)) = t
      BY SubSeqFull DEF Texts
    <3> QED BY <3>1 DEF From
  <2>3. text = From(text, 1)
    <3>1. SubSeq(text, 1, Len(text)) = text
      BY SubSeqFull DEF Texts
    <3> QED BY <3>1 DEF From
  <2>4. 1 \in Nat \ {0} /\ 1 <= r + 1
    BY <1>1
  <2>5. From(t, 1) \o SubSeq(text, r + 1, n) = From(text, 1)
    BY <1>2, <2>4
  <2>6. f = text
    BY <2>1, <2>2, <2>3, <2>5
  <2> QED BY <2>1, <2>6 DEF IsCut
<1>4. CASE Fronted(t)
  <2> DEFINE cut == Find(t, UNTHINK, 1)
  <2>1. /\ cut # 0 /\ cut \in Nat /\ cut + 1 <= r
        /\ \E i \in cut + 2 .. r + 1 :
             /\ \A j \in cut + 2 .. i - 1 : t[j] = "n"
             /\ Content(t) = From(t, i)
    BY <1>4, ContentFacts
  <2>2. Find(text, UNTHINK, 1) = cut
    <3>1. 1 \in Nat \ {0}
      OBVIOUS
    <3> QED BY <2>1, <3>1, Tags, FindExtends
  <2> HIDE DEF cut
  <2>3. PICK i \in cut + 2 .. r + 1 :
             /\ \A j \in cut + 2 .. i - 1 : t[j] = "n"
             /\ Content(t) = From(t, i)
    BY <2>1
  <2> DEFINE q == cut + 2
  <2> DEFINE rest == From(text, q)
  <2> DEFINE k == i - q + 1
  <2>4. q \in 1 .. n + 1 /\ q \in Nat /\ i \in Nat \ {0} /\ i <= r + 1 /\ i \in q .. r + 1
    BY <1>1, <2>1
  <2>5. f = From(text, i)
    BY <1>2, <2>3, <2>4
  <2> HIDE DEF q
  <2>6. rest \in Texts /\ Len(rest) = n + 1 - q /\ \A x \in 1 .. n + 1 - q : rest[x] = text[q + x - 1]
    BY <2>4, FromFacts
  <2> HIDE DEF rest
  <2>7. k \in 1 .. Len(rest) + 1 /\ q + k - 1 = i
    BY <1>1, <2>4, <2>6
  <2>8. f = From(rest, k)
    <3> HIDE DEF k
    <3>1. From(rest, k) = From(text, q + k - 1)
      BY <2>4, <2>7, FromFrom DEF rest
    <3> QED BY <2>5, <2>7, <3>1
  <2>9. \A x \in 1 .. k - 1 : rest[x] = "n"
    <3>1. SUFFICES ASSUME NEW x \in 1 .. k - 1 PROVE rest[x] = "n"
      OBVIOUS
    <3>2. x \in 1 .. n + 1 - q /\ q + x - 1 \in q .. i - 1 /\ q + x - 1 \in 1 .. r
      BY <1>1, <2>4, <2>6, <2>7
    <3>3. t[q + x - 1] = "n"
      BY <2>3, <3>2 DEF q
    <3>4. text[q + x - 1] = t[q + x - 1]
      BY <3>2 DEF Extends
    <3> HIDE DEF k
    <3> QED BY <2>6, <3>2, <3>3, <3>4
  <2> HIDE DEF k
  <2>10. TrimStart(f) = TrimStart(rest)
    BY <2>6, <2>7, <2>8, <2>9, TrimOfFrom
  <2>11. Fronted(text)
    BY <1>4, FrontedExtends
  <2>12. rest = From(text, Find(text, UNTHINK, 1) + Len(UNTHINK)) /\ Find(text, UNTHINK, 1) # 0
    BY <2>1, <2>2, Tags DEF rest, q
  <2> QED BY <2>7, <2>8, <2>10, <2>11, <2>12 DEF IsCut
<1> QED BY <1>3, <1>4

\* A text that is pending to its end has no reasoning that ends.
LEMMA PendingIsCut ==
  ASSUME NEW text \in Texts, IsPending(text)
  PROVE  IsCut(text, text)
<1> DEFINE cut == Find(text, UNTHINK, 1)
<1>1. SUFFICES ASSUME cut # 0, Fronted(text) PROVE FALSE
  BY DEF IsCut
<1>2. PICK i \in 1 .. Len(text) : FrontedAt(text, i)
  BY <1>1 DEF Fronted
<1>3. FirstOf(text) = i /\ i + 1 <= Len(text)
  BY <1>2, FrontedPlaces
<1>4. TrimStart(text) = From(text, i) /\ i \in 1 .. Len(text) + 1
  BY <1>3, FirstFacts
<1>5. Len(From(text, i)) = Len(text) + 1 - i /\ Len(text) \in Nat
  BY <1>4, FromFacts DEF Texts
<1>6. Len(From(text, i)) \in Nat /\ Len(From(text, i)) >= 2
  BY <1>3, <1>5
<1>7. Len(<< >>) = 0 /\ Len(<<"<">>) = 1
  OBVIOUS
<1>8. From(text, i) # << >> /\ From(text, i) # <<"<">>
  <2> DEFINE s == From(text, i)
  <2>1. Len(s) \in Nat /\ Len(s) >= 2
    BY <1>6
  <2> HIDE DEF s
  <2>2. (s = << >> => Len(s) = 0) /\ (s = <<"<">> => Len(s) = 1)
    BY <1>7, Zenon
  <2>0. \A l \in Nat : l >= 2 => l # 0 /\ l # 1
    OBVIOUS
  <2>3. Len(s) # 0 /\ Len(s) # 1
    BY <2>0, <2>1, Zenon
  <2>4. s # << >> /\ s # <<"<">>
    BY <2>2, <2>3, Zenon
  <2> QED BY <2>4 DEF s
<1> QED BY <1>1, <1>4, <1>8 DEF IsPending

-----------------------------------------------------------------------------
(* The invariant.                                                            *)

\* A filter that has not begun.
Fresh == [committed |-> 0, eating |-> FALSE, emitted |-> << >>]

\* What a filter has let through is what it will let through of every longer text.
Faithful(text, f) ==
  Drained(text, f) /\ \A long : Extends(long, text) => Out(long, f) = Rest(long, 2, 1)

Filtering ==
  ~ finished => Faithful(full, filter) /\ (~ thinkDone => full = << >> /\ filter = Fresh)

\* t is the content of a decided beginning of a text, and what came after it
\* until n characters had arrived.
Decided(text, n, t) ==
  \E r \in 0 .. n : /\ ~ IsPending(SubSeq(text, 1, r))
                    /\ t = Content(SubSeq(text, 1, r)) \o SubSeq(text, r + 1, n)

Deciding ==
  /\ finished => received = Len(answer)
  /\ thinkDone => Decided(answer, received, full)
  /\ ~ thinkDone => IsPending(SubSeq(answer, 1, received)) /\ (finished => full = answer)

IInv == TypeOK /\ Filtering /\ Deciding /\ LiveHidesBlocks

\* The beginning of a text is a text that grows into it.
LEMMA ArrivedFacts ==
  ASSUME NEW text \in Texts, NEW r \in 0 .. Len(text)
  PROVE  SubSeq(text, 1, r) \in Texts /\ Len(SubSeq(text, 1, r)) = r /\ Extends(text, SubSeq(text, 1, r))
<1> DEFINE s == SubSeq(text, 1, r)
<1>1. 1 \in Nat \ {0} /\ r \in Nat /\ r <= Len(text) /\ Len(text) \in Nat
  BY DEF Texts
<1>2. s \in Texts /\ Len(s) = (IF 1 <= r THEN r - 1 + 1 ELSE 0) /\ \A i \in 1 .. r - 1 + 1 : s[i] = text[1 + i - 1]
  BY <1>1, Slice
<1>3. Len(s) = r
  BY <1>1, <1>2
<1>4. \A i \in 1 .. r : s[i] = text[i]
  <2>1. \A i \in 1 .. r : i \in 1 .. r - 1 + 1 /\ 1 + i - 1 = i
    BY <1>1
  <2> HIDE DEF s
  <2> QED BY <1>2, <2>1
<1> HIDE DEF s
<1>5. Extends(text, s)
  BY <1>1, <1>3, <1>4 DEF Extends
<1> QED BY <1>2, <1>3, <1>5 DEF s

\* A text grows by what is joined to it.
LEMMA ConcatExtends ==
  ASSUME NEW s \in Texts, NEW t \in Texts
  PROVE  Extends(s \o t, s) /\ s \o t \in Texts /\ Len(s \o t) = Len(s) + Len(t)
<1>1. s \o t \in Seq(Chars) /\ Len(s \o t) = Len(s) + Len(t) /\ \A i \in 1 .. Len(s) : (s \o t)[i] = s[i]
  BY ConcatProperties DEF Texts
<1>2. Len(s) \in Nat /\ Len(t) \in Nat
  BY DEF Texts
<1> QED BY <1>1, <1>2 DEF Extends, Texts

\* The type invariant, in the words of these lemmas.
LEMMA OpenedType ==
  TypeOK <=> /\ answer \in Texts /\ received \in 0 .. Len(answer)
             /\ thinkDone \in BOOLEAN /\ finished \in BOOLEAN
             /\ full \in Texts /\ filter \in Filters(full) /\ Opened(full, filter)
             /\ pieces \in 0 .. MaxPieces
  BY DEF TypeOK, Texts, Opened, NewlineOpen

\* A filter that has not begun fits every text, and will let through all of its rest.
LEMMA FreshFacts ==
  /\ << >> \in Texts /\ Fresh \in Filters(<< >>) /\ Opened(<< >>, Fresh) /\ Drained(<< >>, Fresh)
  /\ \A long \in Texts : Out(long, Fresh) = Rest(long, 2, 1)
  /\ \A text \in Texts : Fresh \in Filters(text) /\ Opened(text, Fresh)
<1>1. ~ Fresh.eating /\ Fresh.committed = 0 /\ Fresh.emitted = << >>
  BY DEF Fresh
<1>2. << >> \in Texts /\ Len(<< >>) = 0
  BY DEF Texts
<1>3. ASSUME NEW text \in Texts PROVE Fresh \in Filters(text) /\ Opened(text, Fresh)
  <2>1. 0 \in 0 .. Len(text) /\ << >> \in Seq(Chars)
    BY DEF Texts
  <2> QED BY <1>1, <2>1 DEF Opened, Filters, Fresh
<1>4. Drained(<< >>, Fresh)
  <2>1. Find(<< >>, DISPATCH_OPEN, 1) = 0
    BY <1>2, FindNothing
  <2>2. 0 + 1 = 1 /\ 0 <= 0 + 3
    OBVIOUS
  <2> QED BY <1>1, <1>2, <2>1, <2>2 DEF Drained, Rounds, Resumes, Starts, OpenOf
<1>5. ASSUME NEW long \in Texts PROVE Out(long, Fresh) = Rest(long, 2, 1)
  <2>1. 1 \in 1 .. Len(long) + 1 /\ 0 + 1 = 1
    BY DEF Texts
  <2>2. Rest(long, 2, 1) \in Texts
    BY <2>1, RestGoesOn
  <2>3. << >> \o Rest(long, 2, 1) = Rest(long, 2, 1)
    BY <2>2, ConcatEmptySeq DEF Texts
  <2> QED BY <1>1, <2>1, <2>3 DEF Out
<1> QED BY <1>2, <1>3, <1>4, <1>5

\* A text that has grown twice has grown.
LEMMA ExtendsChain ==
  ASSUME NEW text \in Texts, NEW long, Extends(long, text), NEW longer, Extends(longer, long)
  PROVE  Extends(longer, text)
<1>1. Len(text) \in Nat /\ Len(long) \in Nat /\ Len(longer) \in Nat
  BY DEF Extends, Texts
<1>2. \A i \in 1 .. Len(text) : i \in 1 .. Len(long)
  BY <1>1 DEF Extends
<1> QED BY <1>1, <1>2 DEF Extends

\* A filter of a text is one of every longer text.
LEMMA FilterExtends ==
  ASSUME NEW text \in Texts, NEW long, Extends(long, text), NEW f \in Filters(text), Opened(text, f)
  PROVE  f \in Filters(long) /\ Opened(long, f)
<1>1. Len(text) \in Nat /\ Len(long) \in Nat /\ Len(text) <= Len(long)
  BY DEF Extends, Texts
<1>2. f \in Filters(long)
  BY <1>1 DEF Filters
<1> DEFINE p == f.committed + 1
<1>3. p \in Nat \ {0}
  BY FilterFacts
<1> HIDE DEF p
<1>4. \A pattern \in Seq(Chars) : At(text, pattern, p) => At(long, pattern, p)
  <2>1. SUFFICES ASSUME NEW pattern \in Seq(Chars), At(text, pattern, p) PROVE At(long, pattern, p)
    OBVIOUS
  <2>2. p + Len(pattern) <= Len(text) + 1
    BY <2>1 DEF At
  <2> QED BY <1>3, <2>1, <2>2, AtExtends
<1>5. Opened(long, f)
  BY <1>4, Tags, LongTags DEF Opened, p
<1> QED BY <1>2, <1>5

\* What flush lets through.
LEMMA FlushFacts ==
  ASSUME NEW text \in Texts, NEW f \in Filters(text), Opened(text, f), NEW g, g = Flush(text, f)
  PROVE  /\ g \in Filters(text) /\ Opened(text, g)
         /\ f.eating => g = f
         /\ ~ f.eating => g.emitted = f.emitted \o From(text, f.committed + 1)
<1>1. CASE f.eating
  BY <1>1 DEF Flush
<1>2. CASE ~ f.eating
  <2>1. Len(text) \in 0 .. Len(text)
    BY DEF Texts
  <2>2. g = LetThrough(f, text, Len(text))
    BY <1>2 DEF Flush
  <2>3. \A to \in 0 .. Len(text) :
          /\ LetThrough(f, text, to) \in Filters(text)
          /\ LetThrough(f, text, to).eating = f.eating
          /\ LetThrough(f, text, to).emitted = f.emitted \o SubSeq(text, f.committed + 1, to)
    BY LetThroughFacts
  <2>4. g \in Filters(text) /\ g.eating = f.eating /\ g.emitted = f.emitted \o From(text, f.committed + 1)
    BY <2>1, <2>2, <2>3 DEF From
  <2> QED BY <1>2, <2>4 DEF Opened
<1> QED BY <1>1, <1>2

\* What a drained filter holds back is short, and flush knows what becomes of it.
LEMMA DrainedFacts ==
  ASSUME NEW text \in Texts, NEW f \in Filters(text), Faithful(text, f)
  PROVE  /\ f.eating => Rest(text, 2, 1) = f.emitted
         /\ ~ f.eating => /\ Rest(text, 2, 1) = f.emitted \o From(text, f.committed + 1)
                          /\ Len(From(text, f.committed + 1)) <= 3
<1> DEFINE p == f.committed + 1
<1> DEFINE n == Len(text)
<1>1. p \in 1 .. n + 1 /\ p \in Nat \ {0} /\ f.emitted \in Texts /\ n \in Nat /\ f.committed \in Nat
  BY FilterFacts
<1>2. Out(text, f) = Rest(text, 2, 1)
  <2>1. Extends(text, text)
    BY DEF Extends, Texts
  <2> QED BY <2>1 DEF Faithful
<1>3. ASSUME f.eating PROVE Rest(text, 2, 1) = f.emitted
  <2>1. Behind(text, p) = << >>
    <3> DEFINE close == Find(text, BLOCK_CLOSE, p)
    <3>1. CASE close = 0
      BY <3>1 DEF Behind
    <3>2. CASE close # 0
      <4>1. ~ (close + 3 <= n)
        BY <1>3, <3>2 DEF Faithful, Drained, Rounds, Resumes, Ends
      <4> HIDE DEF p
      <4> DEFINE next == Past(text, close + 3)
      <4>2. close \in Nat /\ close + 3 <= next /\ next <= n + 1 /\ next \in Nat
        BY <1>1, <3>2, ClosePlaces
      <4> HIDE DEF close, next
      <4>3. next = n + 1 /\ n + 1 \in 1 .. n + 1
        BY <1>1, <4>1, <4>2
      <4>4. Rest(text, 2, n + 1) = << >>
        <5>1. \A i \in n + 1 .. n : ~ At(text, DISPATCH_OPEN, i)
          BY <1>1
        <5>2. Find(text, DISPATCH_OPEN, n + 1) = 0
          BY <1>1, <5>1, FindNothing
        <5>3. Rest(text, 2, n + 1) = From(text, n + 1)
          BY <4>3, <5>2, RestGoesOn DEF HasBlock, OpenOf
        <5>4. From(text, n + 1) = << >>
          BY <1>1, NoSlice DEF From
        <5> QED BY <5>3, <5>4
      <4> QED BY <3>2, <4>3, <4>4 DEF Behind, close, next
    <3> QED BY <3>1, <3>2
  <2>2. Out(text, f) = f.emitted \o << >>
    BY <1>3, <2>1 DEF Out
  <2>3. f.emitted \o << >> = f.emitted
    BY <1>1, ConcatEmptySeq DEF Texts
  <2> QED BY <1>2, <2>2, <2>3
<1>4. ASSUME ~ f.eating
      PROVE  Rest(text, 2, 1) = f.emitted \o From(text, p) /\ Len(From(text, p)) <= 3
  <2>1. OpenOf(text, p) = 0 /\ n <= f.committed + 3
    BY <1>4 DEF Faithful, Drained, Rounds, Starts
  <2>2. Out(text, f) = f.emitted \o Rest(text, 2, p)
    BY <1>4 DEF Out
  <2> HIDE DEF p
  <2>3. Rest(text, 2, p) = From(text, p)
    BY <1>1, <2>1, RestGoesOn DEF HasBlock
  <2>4. Len(From(text, p)) = n + 1 - p
    BY <1>1, FromFacts
  <2>5. Len(From(text, p)) <= 3
    BY <1>1, <2>1, <2>4 DEF p
  <2> QED BY <1>2, <2>2, <2>3, <2>5
<1> QED BY <1>3, <1>4

\* What is decided stays so when the provider goes on,
LEMMA DecidedGrows ==
  ASSUME NEW text \in Texts, NEW n \in 0 .. Len(text), NEW t, Decided(text, n, t),
         NEW long, Extends(long, text)
  PROVE  Decided(long, n, t)
<1>1. PICK r \in 0 .. n : /\ ~ IsPending(SubSeq(text, 1, r))
                          /\ t = Content(SubSeq(text, 1, r)) \o SubSeq(text, r + 1, n)
  BY DEF Decided
<1>2. r \in Nat /\ n \in Nat /\ r <= Len(text) /\ n <= Len(text) /\ 1 \in Nat \ {0} /\ r + 1 \in Nat \ {0}
  BY DEF Texts
<1>3. SubSeq(long, 1, r) = SubSeq(text, 1, r) /\ SubSeq(long, r + 1, n) = SubSeq(text, r + 1, n)
  BY <1>2, SliceExtends
<1> QED BY <1>1, <1>3 DEF Decided

\* and when more of it arrives.
LEMMA DecidedGoesOn ==
  ASSUME NEW text \in Texts, NEW n \in 0 .. Len(text), NEW t, Decided(text, n, t)
  PROVE  Decided(text, Len(text), t \o From(text, n + 1))
<1>1. PICK r \in 0 .. n : /\ ~ IsPending(SubSeq(text, 1, r))
                          /\ t = Content(SubSeq(text, 1, r)) \o SubSeq(text, r + 1, n)
  BY DEF Decided
<1>2. /\ r \in Nat /\ n \in Nat /\ r <= Len(text) /\ n <= Len(text) /\ Len(text) \in Nat
      /\ r + 1 \in Nat \ {0} /\ n + 1 \in Nat \ {0} /\ r + 1 <= n + 1 /\ r \in 0 .. Len(text)
      /\ Len(text) <= Len(text)
  BY DEF Texts
<1> DEFINE c == Content(SubSeq(text, 1, r))
<1> DEFINE s == SubSeq(text, r + 1, n)
<1> DEFINE u == SubSeq(text, n + 1, Len(text))
<1>3. s \o u = SubSeq(text, r + 1, Len(text))
  BY <1>2, Cut
<1>4. c \in Texts
  BY <1>1, <1>2, ArrivedFacts, ContentIsText
<1>5. s \in Texts /\ u \in Texts
  BY <1>2, Slice
<1>6. t = c \o s
  BY <1>1
<1>7. ~ IsPending(SubSeq(text, 1, r))
  BY <1>1
<1> HIDE DEF s, u
<1>8. (c \o s) \o u = c \o (s \o u)
  <2> HIDE DEF c
  <2>1. \A x, y, z \in Texts : (x \o y) \o z = x \o (y \o z)
    BY Joins
  <2> QED BY <1>4, <1>5, <2>1, Zenon
<1>9. t \o From(text, n + 1) = c \o SubSeq(text, r + 1, Len(text))
  <2>1. From(text, n + 1) = u
    BY DEF From, u
  <2> QED BY <1>3, <1>6, <1>8, <2>1
<1> QED BY <1>2, <1>7, <1>9 DEF Decided

\* The invariant holds at first,
LEMMA InvInit == Init => IInv
<1> SUFFICES ASSUME Init PROVE IInv
  OBVIOUS
<1> USE DEF Init
<1>1. /\ answer = << >> /\ received = 0 /\ pieces = 0 /\ thinkDone = FALSE /\ full = << >>
      /\ finished = FALSE /\ filter = Fresh
  BY DEF Fresh
<1>2. TypeOK
  <2>1. 0 \in 0 .. Len(<< >>) /\ 0 \in 0 .. MaxPieces
    BY PiecesAssumption
  <2>2. /\ answer \in Texts /\ received \in 0 .. Len(answer)
        /\ thinkDone \in BOOLEAN /\ finished \in BOOLEAN
        /\ full \in Texts /\ filter \in Filters(full) /\ Opened(full, filter)
        /\ pieces \in 0 .. MaxPieces
    BY <1>1, <2>1, FreshFacts
  <2> QED BY <2>2, OpenedType
<1>3. Filtering
  <2>1. Faithful(<< >>, Fresh)
    BY FreshFacts DEF Faithful, Extends
  <2> QED BY <1>1, <2>1 DEF Filtering
<1>4. Deciding
  <2>1. SubSeq(<< >>, 1, 0) = << >>
    OBVIOUS
  <2>2. TrimStart(<< >>) = << >>
    <3>1. << >> \in Texts /\ Len(<< >>) = 0
      BY DEF Texts
    <3> DEFINE k == FirstOf(<< >>)
    <3>2. k \in 1 .. Len(<< >>) + 1 /\ TrimStart(<< >>) = From(<< >>, k)
      BY <3>1, FirstFacts
    <3>3. k = 1
      BY <3>1, <3>2
    <3> HIDE DEF k
    <3>4. From(<< >>, 1) = << >>
      BY <3>1, NoSlice DEF From
    <3> QED BY <3>2, <3>3, <3>4
  <2>3. IsPending(SubSeq(<< >>, 1, 0))
    BY <2>1, <2>2 DEF IsPending
  <2> QED BY <1>1, <2>3 DEF Deciding
<1>5. LiveHidesBlocks
  BY <1>1 DEF LiveHidesBlocks
<1> QED BY <1>2, <1>3, <1>4, <1>5 DEF IInv

\* when the provider produces a piece,
LEMMA ProduceKeeps ==
  ASSUME IInv, NEW p \in Pieces, Produce(p)
  PROVE  IInv'
<1>1. /\ answer \in Texts /\ received \in 0 .. Len(answer)
      /\ thinkDone \in BOOLEAN /\ finished \in BOOLEAN
      /\ full \in Texts /\ filter \in Filters(full) /\ Opened(full, filter)
      /\ pieces \in 0 .. MaxPieces
  BY OpenedType DEF IInv
<1>2. /\ ~ finished /\ pieces < MaxPieces /\ answer' = answer \o p /\ pieces' = pieces + 1
      /\ received' = received /\ thinkDone' = thinkDone /\ full' = full /\ filter' = filter
      /\ finished' = finished
  BY DEF Produce
<1>3. p \in Texts
  BY PiecesAssumption DEF Texts
<1>4. /\ answer' \in Texts /\ Len(answer') = Len(answer) + Len(p) /\ Extends(answer', answer)
  BY <1>1, <1>2, <1>3, ConcatExtends
<1>5. Len(answer) \in Nat /\ Len(p) \in Nat /\ MaxPieces \in Nat /\ received \in Nat
      /\ received <= Len(answer)
  BY <1>1, <1>3, PiecesAssumption DEF Texts
<1>6. TypeOK'
  <2>1. received' \in 0 .. Len(answer') /\ pieces' \in 0 .. MaxPieces
    BY <1>1, <1>2, <1>4, <1>5
  <2>2. /\ answer' \in Texts /\ received' \in 0 .. Len(answer')
        /\ thinkDone' \in BOOLEAN /\ finished' \in BOOLEAN
        /\ full' \in Texts /\ filter' \in Filters(full') /\ Opened(full', filter')
        /\ pieces' \in 0 .. MaxPieces
    BY <1>1, <1>2, <1>4, <2>1
  <2> QED BY <2>2 DEF TypeOK, Texts, Opened, NewlineOpen
<1>7. Filtering'
  BY <1>2 DEF IInv, Filtering
<1>8. Deciding'
  <2>1. thinkDone => Decided(answer', received, full)
    BY <1>1, <1>4, DecidedGrows DEF IInv, Deciding
  <2>2. SubSeq(answer', 1, received) = SubSeq(answer, 1, received)
    <3>1. 1 \in Nat \ {0}
      OBVIOUS
    <3> QED BY <1>1, <1>4, <1>5, <3>1, SliceExtends
  <2>3. ~ thinkDone => IsPending(SubSeq(answer', 1, received))
    BY <2>2 DEF IInv, Deciding
  <2> QED BY <1>2, <2>1, <2>3 DEF Deciding
<1>9. LiveHidesBlocks'
  BY <1>2 DEF LiveHidesBlocks
<1> QED BY <1>6, <1>7, <1>8, <1>9 DEF IInv

\* when a chunk does not decide,
LEMMA UndecidedKeeps ==
  ASSUME IInv, Undecided
  PROVE  IInv'
<1>1. /\ answer \in Texts /\ received \in 0 .. Len(answer)
      /\ thinkDone \in BOOLEAN /\ finished \in BOOLEAN
      /\ full \in Texts /\ filter \in Filters(full) /\ Opened(full, filter)
      /\ pieces \in 0 .. MaxPieces
  BY OpenedType DEF IInv
<1>2. /\ ~ finished /\ ~ thinkDone /\ IsPending(answer) /\ received' = Len(answer)
      /\ answer' = answer /\ pieces' = pieces
      /\ thinkDone' = thinkDone /\ full' = full /\ filter' = filter /\ finished' = finished
  BY DEF Undecided
<1>3. TypeOK'
  <2>1. received' \in 0 .. Len(answer')
    BY <1>1, <1>2 DEF Texts
  <2>2. /\ answer' \in Texts /\ received' \in 0 .. Len(answer')
        /\ thinkDone' \in BOOLEAN /\ finished' \in BOOLEAN
        /\ full' \in Texts /\ filter' \in Filters(full') /\ Opened(full', filter')
        /\ pieces' \in 0 .. MaxPieces
    BY <1>1, <1>2, <2>1
  <2> QED BY <2>2 DEF TypeOK, Texts, Opened, NewlineOpen
<1>4. Filtering'
  BY <1>2 DEF IInv, Filtering
<1>5. Deciding'
  <2>1. SubSeq(answer, 1, Len(answer)) = answer
    BY <1>1, SubSeqFull DEF Texts
  <2> QED BY <1>2, <2>1 DEF Deciding
<1>6. LiveHidesBlocks'
  BY <1>2 DEF LiveHidesBlocks
<1> QED BY <1>3, <1>4, <1>5, <1>6 DEF IInv

\* when a chunk is let through the filter,
LEMMA TextKeeps ==
  ASSUME IInv, Text
  PROVE  IInv'
<1>1. /\ answer \in Texts /\ received \in 0 .. Len(answer)
      /\ thinkDone \in BOOLEAN /\ finished \in BOOLEAN
      /\ full \in Texts /\ filter \in Filters(full) /\ Opened(full, filter)
      /\ pieces \in 0 .. MaxPieces
  BY OpenedType DEF IInv
<1>2. /\ ~ finished /\ (thinkDone \/ ~ IsPending(answer)) /\ received' = Len(answer)
      /\ thinkDone' = TRUE /\ answer' = answer /\ pieces' = pieces /\ finished' = finished
      /\ full' = IF thinkDone THEN full \o Chunk ELSE Content(answer)
      /\ filter' = Drain(full', filter)
  BY DEF Text
<1>3. Chunk = From(answer, received + 1) /\ received + 1 \in 1 .. Len(answer) + 1 /\ Len(answer) \in Nat
  BY <1>1 DEF Chunk, Texts
<1>4. full' \in Texts /\ Extends(full', full)
  <2>1. CASE thinkDone
    <3>1. Chunk \in Texts
      BY <1>1, <1>3, FromFacts
    <3> QED BY <1>1, <1>2, <2>1, <3>1, ConcatExtends
  <2>2. CASE ~ thinkDone
    <3>1. full' \in Texts
      BY <1>1, <1>2, <2>2, ContentIsText
    <3>2. full = << >>
      BY <1>2, <2>2 DEF IInv, Filtering
    <3>3. Len(full') \in Nat /\ Len(<< >>) = 0
      BY <3>1 DEF Texts
    <3> QED BY <3>1, <3>2, <3>3 DEF Extends
  <2> QED BY <2>1, <2>2
<1>5. DrainsTo(full', filter, filter')
  <2>1. filter \in Filters(full') /\ Opened(full', filter)
    BY <1>1, <1>4, FilterExtends
  <2> QED BY <1>2, <1>4, <2>1, DrainKeeps
<1>6. Faithful(full', filter')
  <2>1. ASSUME NEW long, Extends(long, full') PROVE Out(long, filter') = Rest(long, 2, 1)
    <3>1. Extends(long, full)
      BY <1>1, <1>4, <2>1, ExtendsChain
    <3>2. Out(long, filter) = Rest(long, 2, 1)
      BY <1>2, <3>1 DEF IInv, Filtering, Faithful
    <3> QED BY <1>5, <2>1, <3>2 DEF DrainsTo
  <2> QED BY <1>5, <2>1 DEF DrainsTo, Faithful
<1>7. TypeOK'
  <2>1. received' \in 0 .. Len(answer')
    BY <1>2, <1>3
  <2>2. /\ answer' \in Texts /\ received' \in 0 .. Len(answer')
        /\ thinkDone' \in BOOLEAN /\ finished' \in BOOLEAN
        /\ full' \in Texts /\ filter' \in Filters(full') /\ Opened(full', filter')
        /\ pieces' \in 0 .. MaxPieces
    BY <1>1, <1>2, <1>4, <1>5, <2>1 DEF DrainsTo
  <2> QED BY <2>2 DEF TypeOK, Texts, Opened, NewlineOpen
<1>8. Filtering'
  BY <1>2, <1>6 DEF Filtering
<1>9. Decided(answer, Len(answer), full')
  <2>1. CASE thinkDone
    <3>1. Decided(answer, received, full)
      BY <2>1 DEF IInv, Deciding
    <3>2. full' = full \o From(answer, received + 1)
      BY <1>2, <1>3, <2>1
    <3> QED BY <1>1, <3>1, <3>2, DecidedGoesOn
  <2>2. CASE ~ thinkDone
    <3> DEFINE n == Len(answer)
    <3>1. ~ IsPending(answer) /\ full' = Content(answer) /\ full' \in Texts
      BY <1>2, <1>4, <2>2
    <3>2. SubSeq(answer, 1, n) = answer
      BY <1>1, SubSeqFull DEF Texts
    <3>3. SubSeq(answer, n + 1, n) = << >>
      BY <1>3, NoSlice
    <3>4. Content(answer) \o << >> = Content(answer)
      BY <3>1, ConcatEmptySeq DEF Texts
    <3>5. n \in 0 .. n
      BY <1>3
    <3> HIDE DEF n
    <3>6. Decided(answer, n, full')
      BY <3>1, <3>2, <3>3, <3>4, <3>5 DEF Decided
    <3> QED BY <3>6 DEF n
  <2> QED BY <2>1, <2>2
<1>10. Deciding'
  BY <1>2, <1>9 DEF Deciding
<1>11. LiveHidesBlocks'
  BY <1>2 DEF LiveHidesBlocks
<1> QED BY <1>7, <1>8, <1>10, <1>11 DEF IInv

\* at the end of the answer,
LEMMA DoneKeeps ==
  ASSUME IInv, Done
  PROVE  IInv'
<1>1. /\ answer \in Texts /\ received \in 0 .. Len(answer)
      /\ thinkDone \in BOOLEAN /\ finished \in BOOLEAN
      /\ full \in Texts /\ filter \in Filters(full) /\ Opened(full, filter)
      /\ pieces \in 0 .. MaxPieces
  BY OpenedType DEF IInv
<1>2. /\ ~ finished /\ Chunk = << >> /\ finished' = TRUE
      /\ full' = IF thinkDone THEN full ELSE answer
      /\ filter' = Flush(full', filter)
      /\ answer' = answer /\ received' = received /\ thinkDone' = thinkDone /\ pieces' = pieces
  BY DEF Done
<1>3. received = Len(answer)
  <2>1. received + 1 \in 1 .. Len(answer) + 1 /\ received \in Nat /\ Len(answer) \in Nat
    BY <1>1 DEF Texts
  <2>2. Len(From(answer, received + 1)) = Len(answer) + 1 - (received + 1)
    BY <1>1, <2>1, FromFacts
  <2>3. Len(Chunk) = 0
    BY <1>2
  <2> QED BY <2>1, <2>2, <2>3 DEF Chunk
<1>4. full' \in Texts /\ filter \in Filters(full') /\ Opened(full', filter)
  <2>1. CASE thinkDone
    BY <1>1, <1>2, <2>1
  <2>2. CASE ~ thinkDone
    <3>1. filter = Fresh
      BY <1>2, <2>2 DEF IInv, Filtering
    <3> QED BY <1>1, <1>2, <2>2, <3>1, FreshFacts
  <2> QED BY <2>1, <2>2
<1>5. /\ filter' \in Filters(full') /\ Opened(full', filter')
      /\ filter.eating => filter' = filter
      /\ ~ filter.eating => filter'.emitted = filter.emitted \o From(full', filter.committed + 1)
  BY <1>2, <1>4, FlushFacts
<1>6. TypeOK'
  <2>1. /\ answer' \in Texts /\ received' \in 0 .. Len(answer')
        /\ thinkDone' \in BOOLEAN /\ finished' \in BOOLEAN
        /\ full' \in Texts /\ filter' \in Filters(full') /\ Opened(full', filter')
        /\ pieces' \in 0 .. MaxPieces
    BY <1>1, <1>2, <1>4, <1>5
  <2> QED BY <2>1 DEF TypeOK, Texts, Opened, NewlineOpen
<1>7. Filtering'
  BY <1>2 DEF Filtering
<1>8. Deciding'
  BY <1>2, <1>3 DEF IInv, Deciding
<1>9. LiveHidesBlocks'
  <2>1. CASE thinkDone
    <3>1. full' = full /\ Faithful(full, filter)
      BY <1>2, <2>1 DEF IInv, Filtering
    <3>2. filter'.emitted = Rest(full, 2, 1)
      BY <1>1, <1>5, <3>1, DrainedFacts
    <3>3. ~ HasEmptyBlock(full) => Rest(full, 2, 1) = Visible(full)
      BY <1>1, RestIsVisible
    <3> QED BY <1>2, <2>1, <3>1, <3>2, <3>3 DEF LiveHidesBlocks
  <2>2. CASE ~ thinkDone
    <3>1. filter = Fresh /\ full' = answer
      BY <1>2, <2>2 DEF IInv, Filtering
    <3>2. ~ filter.eating /\ filter.emitted = << >> /\ filter.committed + 1 = 1
      BY <3>1 DEF Fresh
    <3>3. filter'.emitted = << >> \o From(answer, 1)
      BY <1>5, <3>1, <3>2
    <3>4. From(answer, 1) = answer
      BY <1>1, SubSeqFull DEF Texts, From
    <3>5. << >> \o answer = answer
      BY <1>1, ConcatEmptySeq DEF Texts
    <3>6. ASSUME Find(answer, DISPATCH_OPEN, 1) = 0, ~ HasEmptyBlock(answer)
          PROVE  answer = Visible(answer)
      <4>1. Rest(answer, 2, 1) = Visible(answer)
        BY <1>1, <3>6, RestIsVisible
      <4>2. OpenOf(answer, 1) = 0
        BY <3>6 DEF OpenOf
      <4>3. 1 \in 1 .. Len(answer) + 1
        BY <1>1 DEF Texts
      <4>4. Rest(answer, 2, 1) = From(answer, 1)
        BY <1>1, <4>2, <4>3, RestGoesOn DEF HasBlock
      <4> QED BY <3>4, <4>1, <4>4
    <3> QED BY <1>2, <2>2, <3>1, <3>3, <3>4, <3>5, <3>6 DEF LiveHidesBlocks, NeverDrained
  <2> QED BY <2>1, <2>2
<1> QED BY <1>6, <1>7, <1>8, <1>9 DEF IInv

\* and so in every step.
LEMMA InvStep == IInv /\ [Next]_vars => IInv'
<1> SUFFICES ASSUME IInv, [Next]_vars PROVE IInv'
  OBVIOUS
<1>1. CASE \E p \in Pieces : Produce(p)
  BY <1>1, ProduceKeeps
<1>2. CASE Undecided
  BY <1>2, UndecidedKeeps
<1>3. CASE Text
  BY <1>3, TextKeeps
<1>4. CASE Done
  BY <1>4, DoneKeeps
<1>5. CASE UNCHANGED vars
  BY <1>5 DEF IInv, vars, TypeOK, Filtering, Deciding, LiveHidesBlocks, NeverDrained
<1> QED BY <1>1, <1>2, <1>3, <1>4, <1>5 DEF Next

\* The invariant: at every moment the filter will, of every text that the
\* response can still become, let through all that is not in a block.
THEOREM FilterInvariant == Spec => []IInv
<1> QED BY InvInit, InvStep, PTL DEF Spec

\* Every variable of the stream loop has its type; a filter that eats stands at
\* an opening.
THEOREM TypeCorrect == Spec => []TypeOK
<1>1. IInv => TypeOK
  BY DEF IInv
<1> QED BY <1>1, FilterInvariant, PTL

\* However an answer was cut into chunks, what the device has heard at its end
\* is the answer without its blocks, and nothing less: of every answer but one
\* with an empty block, in which the filter and the parser do not agree on where
\* a block ends, and one with a block that is never told from reasoning, which is
\* let go without being drained (agent/runner.rs, agent/stream.rs).
THEOREM BlocksAreHidden == Spec => []LiveHidesBlocks
<1>1. IInv => LiveHidesBlocks
  BY DEF IInv
<1> QED BY <1>1, FilterInvariant, PTL

\* While an answer comes in, what was let through is a beginning of the visible
\* text, behind by no more than an unfinished opening.
THEOREM DeltasKeepUp == Spec => []LiveKeepsUp
<1>1. IInv => LiveKeepsUp
  <2> SUFFICES ASSUME IInv, ~ finished, ~ HasEmptyBlock(full)
               PROVE  /\ IsPrefix(filter.emitted, Visible(full))
                      /\ Len(Visible(full)) - Len(filter.emitted) <= Len(DISPATCH_OPEN)
    BY DEF LiveKeepsUp
  <2>1. full \in Texts /\ filter \in Filters(full) /\ Faithful(full, filter)
    BY OpenedType DEF IInv, Filtering
  <2>2. filter.emitted \in Texts /\ filter.committed + 1 \in 1 .. Len(full) + 1
    BY <2>1, FilterFacts
  <2> DEFINE held == IF filter.eating THEN << >> ELSE From(full, filter.committed + 1)
  <2>3. held \in Texts /\ Len(held) <= 3
    <3>1. << >> \in Texts /\ Len(<< >>) = 0
      BY DEF Texts
    <3>2. From(full, filter.committed + 1) \in Texts
      BY <2>1, <2>2, FromFacts
    <3>3. ~ filter.eating => Len(From(full, filter.committed + 1)) <= 3
      BY <2>1, DrainedFacts
    <3> QED BY <3>1, <3>2, <3>3
  <2>4. Visible(full) = filter.emitted \o held
    <3>1. Visible(full) = Rest(full, 2, 1)
      BY <2>1, RestIsVisible
    <3>2. CASE filter.eating
      <4>1. Rest(full, 2, 1) = filter.emitted
        BY <2>1, <3>2, DrainedFacts
      <4>2. filter.emitted \o << >> = filter.emitted
        BY <2>2, ConcatEmptySeq DEF Texts
      <4> QED BY <3>1, <3>2, <4>1, <4>2
    <3>3. CASE ~ filter.eating
      <4>1. Rest(full, 2, 1) = filter.emitted \o From(full, filter.committed + 1)
        BY <2>1, <3>3, DrainedFacts
      <4> QED BY <3>1, <3>3, <4>1
    <3> QED BY <3>2, <3>3
  <2> HIDE DEF held
  <2>5. /\ Visible(full) \in Texts /\ Len(Visible(full)) = Len(filter.emitted) + Len(held)
        /\ Extends(Visible(full), filter.emitted)
    BY <2>2, <2>3, <2>4, ConcatExtends
  <2>6. Len(filter.emitted) \in Nat /\ Len(held) \in Nat
    BY <2>2, <2>3 DEF Texts
  <2>7. IsPrefix(filter.emitted, Visible(full))
    <3>1. \A i \in 1 .. Len(filter.emitted) : filter.emitted[i] = Visible(full)[i]
      BY <2>5 DEF Extends
    <3>2. Len(filter.emitted) <= Len(Visible(full))
      BY <2>5, <2>6
    <3> QED BY <2>2, <2>5, <3>1, <3>2, PrefixPlaces
  <2>8. Len(Visible(full)) - Len(filter.emitted) <= Len(DISPATCH_OPEN)
    BY <2>3, <2>5, <2>6, Tags
  <2> QED BY <2>7, <2>8
<1> QED BY <1>1, FilterInvariant, PTL

\* strip_task_markers gives the visible text, and panics exactly if two blocks
\* are one newline apart.
THEOREM StoredIsWhatIsHeard == Spec => []StripHidesBlocks
<1>1. IInv => StripHidesBlocks
  BY StripPrints, OpenedType DEF IInv, StripHidesBlocks
<1> QED BY <1>1, FilterInvariant, PTL

\* Reasoning at the front of an answer is cut off with its tags, however it is
\* chunked, and nothing else is lost.
THEOREM ReasoningIsCutOff == Spec => []ReasoningIsCut
<1>1. IInv => ReasoningIsCut
  <2> SUFFICES ASSUME IInv, finished PROVE IsCut(answer, full)
    BY DEF ReasoningIsCut, IsCut, Fronted, FrontedAt
  <2>1. answer \in Texts /\ received = Len(answer)
    BY OpenedType DEF IInv, Deciding
  <2>2. CASE thinkDone
    <3>1. PICK r \in 0 .. Len(answer) :
              /\ ~ IsPending(SubSeq(answer, 1, r))
              /\ full = Content(SubSeq(answer, 1, r)) \o SubSeq(answer, r + 1, Len(answer))
      BY <2>1, <2>2 DEF IInv, Deciding, Decided
    <3> DEFINE t == SubSeq(answer, 1, r)
    <3>2. t \in Texts /\ Len(t) = r /\ Extends(answer, t)
      BY <2>1, ArrivedFacts
    <3>3. full = Content(t) \o SubSeq(answer, Len(t) + 1, Len(answer)) /\ ~ IsPending(t)
      BY <3>1, <3>2
    <3> HIDE DEF t
    <3> QED BY <2>1, <3>2, <3>3, DecidedIsCut
  <2>3. CASE ~ thinkDone
    <3>1. SubSeq(answer, 1, Len(answer)) = answer
      BY <2>1, SubSeqFull DEF Texts
    <3>2. IsPending(answer) /\ full = answer
      BY <2>1, <2>3, <3>1 DEF IInv, Deciding
    <3> QED BY <2>1, <3>2, PendingIsCut
  <2> QED BY <2>2, <2>3
<1> QED BY <1>1, FilterInvariant, PTL
=============================================================================
