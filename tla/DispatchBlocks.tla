---------------------------- MODULE DispatchBlocks ----------------------------
(***************************************************************************)
(* What becomes of the text of an answer: the stream loop of                *)
(* agent/runner.rs cuts the reasoning off its front (check_think_block) and *)
(* hides the dispatch blocks from the live deltas (MarkerFilter), both as   *)
(* chunks arrive, and at the end strip_task_markers takes the blocks out of *)
(* the text it stores and parse_task_markers reads them.                    *)
(*                                                                         *)
(* A text is a sequence of characters: "@" is @@, "d" dispatch, "e" end,    *)
(* "n" a newline, "<" a <, "t" think>, "/" /think>, "x" anything else.      *)
(* Places in a text count from 1.                                           *)
(***************************************************************************)
EXTENDS Naturals, Sequences, SequencesExt

CONSTANTS Pieces,    \* what a provider sends, in chunks of one or several pieces
          MaxPieces  \* bound: pieces of an answer

VARIABLES
  answer,    \* the text the provider has produced
  received,  \* how much of it has arrived
  thinkDone, \* think_done
  full,      \* full_response
  filter,    \* the MarkerFilter, and the text of the deltas it has let through
  pieces,    \* pieces produced so far
  finished   \* StreamChunk::Done has been handled

vars == <<answer, received, thinkDone, full, filter, pieces, finished>>
-----------------------------------------------------------------------------
Chars == {"@", "d", "e", "n", "<", "t", "/", "x"}
DISPATCH_OPEN == <<"@", "d", "n">>
BLOCK_CLOSE == <<"n", "@", "e">>
THINK == <<"<", "t">>
UNTHINK == <<"<", "/">>

ASSUME PiecesAssumption == Pieces \subseteq Seq(Chars) /\ MaxPieces \in Nat

At(text, pattern, i) ==
  i + Len(pattern) <= Len(text) + 1 /\ SubSeq(text, i, i + Len(pattern) - 1) = pattern

\* str::find from a place on; 0 is None.
Find(text, pattern, from) ==
  LET found == {i \in from .. Len(text) : At(text, pattern, i)}
  IN  IF found = {} THEN 0 ELSE Min(found)

From(text, i) == SubSeq(text, i, Len(text))

\* A newline just before a block is hidden with it, but for one before `from`.
StartOf(text, open, from) ==
  IF open > from /\ text[open - 1] = "n" THEN open - 1 ELSE open

\* So is a newline just after it: where the text goes on.
Past(text, end) == IF end <= Len(text) /\ text[end] = "n" THEN end + 1 ELSE end
-----------------------------------------------------------------------------
(* agent/markers.rs, on the whole text.                                    *)

\* The blocks whose markers are dispatched, each from its opening to the place
\* past its close, by a search that goes on from a place.
BlocksFrom(text, from) ==
  LET blocks[p \in 1 .. Len(text) + 1] ==
        LET open == Find(text, DISPATCH_OPEN, p)
            close == Find(text, BLOCK_CLOSE, open + Len(DISPATCH_OPEN))
            end == close + Len(BLOCK_CLOSE)
        IN  IF open = 0 \/ close = 0 THEN {}
            ELSE {[open |-> open, end |-> end]} \cup blocks[end]
  IN  blocks[from]

\* parse_task_markers
Blocks(text) == BlocksFrom(text, 1)

\* strip_task_markers; "panic" ends a text whose slice has its start past its end.
StripFrom(text, from) ==
  LET strip[p \in 1 .. Len(text) + 1] ==
        LET open == Find(text, DISPATCH_OPEN, p)
            start == StartOf(text, open, 1)
            close == Find(text, BLOCK_CLOSE, open + Len(DISPATCH_OPEN))
            shown == SubSeq(text, p, start - 1)
        IN  IF open = 0 THEN From(text, p)
            ELSE IF start < p THEN <<"panic">>
            ELSE IF close = 0 THEN shown
            ELSE shown \o strip[Past(text, close + Len(BLOCK_CLOSE))]
  IN  strip[from]

\* Mutant: the stored text keeps an unclosed block.
StripOnlyClosed(text) ==
  IF Blocks(text) = {} THEN text ELSE StripFrom(text, 1)

Strip(text) == StripFrom(text, 1)
-----------------------------------------------------------------------------
(* MarkerFilter, on the text so far: a record of how much is committed,     *)
(* whether a block is being eaten, and what has been let through.           *)

\* The length of the longest end of a text that could begin a marker.
Held(text, marker) ==
  Max({0} \cup {n \in 1 .. Len(marker) :
                  n <= Len(text) /\ IsPrefix(From(text, Len(text) - n + 1), marker)})

\* Mutant: a text that must be held back in part is held back whole.
AllOrNothing(text) ==
  IF Held(text, <<"n">> \o DISPATCH_OPEN) + Held(text, DISPATCH_OPEN) > 0 THEN 0
  ELSE Len(text)

\* safe_emit_end
SafeEmitEnd(text) ==
  LET held == Held(text, <<"n">> \o DISPATCH_OPEN)
  IN  Len(text) - IF held > 0 THEN held ELSE Held(text, DISPATCH_OPEN)

LetThrough(f, text, to) ==
  [f EXCEPT !.committed = to, !.emitted = @ \o SubSeq(text, f.committed + 1, to)]

\* Mutant: a block is over as soon as its close has arrived.
EndsEarly(text, end) == TRUE

\* A block is over once the character after its close is known.
IsOver(text, end) == end <= Len(text)

Filters(text) == [committed : 0 .. Len(text), eating : BOOLEAN, emitted : Seq(Chars)]

\* MarkerFilter::drain
Drain(text, filtered) ==
  LET drain[f \in Filters(text)] ==
        LET from == f.committed + 1
            open == Find(text, DISPATCH_OPEN, from)
            start == StartOf(text, open, from)
            close == Find(text, BLOCK_CLOSE, from)
            end == close + Len(BLOCK_CLOSE)
        IN  IF f.eating
            THEN IF close = 0 \/ ~IsOver(text, end) THEN f
                 ELSE drain[[f EXCEPT !.committed = Past(text, end) - 1, !.eating = FALSE]]
            ELSE IF open # 0
                 THEN drain[[LetThrough(f, text, start - 1) EXCEPT !.eating = TRUE]]
                 ELSE LetThrough(f, text, f.committed + SafeEmitEnd(From(text, from)))
  IN  drain[filtered]

\* Mutant: an unclosed block is let go at the end.
FlushAll(text, f) == LetThrough(f, text, Len(text))

\* flush: an unclosed block is dropped.
Flush(text, f) == IF f.eating THEN f ELSE LetThrough(f, text, Len(text))
-----------------------------------------------------------------------------
(* check_think_block on the text received while it has not decided.         *)

TrimStart(text) ==
  From(text, Min({i \in 1 .. Len(text) + 1 : i > Len(text) \/ text[i] # "n"}))

\* Mutant: blanks before the tag count.
StartsThinkUntrimmed(text) == IsPrefix(THINK, text)

StartsThink(text) == IsPrefix(THINK, TrimStart(text))
StartsUnthink(text) == IsPrefix(UNTHINK, TrimStart(text))

IsPending(text) ==
  \/ StartsThink(text) /\ Find(text, UNTHINK, 1) = 0
  \/ TrimStart(text) \in {<< >>, <<"<">>}

\* The content of a text that is decided.
Content(text) ==
  IF StartsThink(text) \/ StartsUnthink(text)
  THEN TrimStart(From(text, Find(text, UNTHINK, 1) + Len(UNTHINK)))
  ELSE text
-----------------------------------------------------------------------------
TypeOK ==
  /\ answer \in Seq(Chars)
  /\ received \in 0 .. Len(answer)
  /\ thinkDone \in BOOLEAN /\ finished \in BOOLEAN
  /\ full \in Seq(Chars)
  /\ filter \in Filters(full)
  /\ filter.eating => At(full, DISPATCH_OPEN, filter.committed + 1)
                   \/ At(full, <<"n">> \o DISPATCH_OPEN, filter.committed + 1)
  /\ pieces \in 0 .. MaxPieces

Init ==
  /\ answer = << >> /\ received = 0 /\ pieces = 0
  /\ thinkDone = FALSE /\ full = << >> /\ finished = FALSE
  /\ filter = [committed |-> 0, eating |-> FALSE, emitted |-> << >>]

\* The provider produces a piece, for this chunk or a later one.
Produce(p) ==
  /\ ~finished /\ pieces < MaxPieces
  /\ answer' = answer \o p
  /\ pieces' = pieces + 1
  /\ UNCHANGED <<received, thinkDone, full, filter, finished>>

Chunk == From(answer, received + 1)

\* StreamChunk::Text: the chunk joins the response, or the text that has not
\* yet been told from reasoning, and what is safe is let through.
Undecided ==
  /\ ~finished /\ Chunk # << >> /\ ~thinkDone /\ IsPending(answer)
  /\ received' = Len(answer)
  /\ UNCHANGED <<answer, thinkDone, full, filter, pieces, finished>>

Text ==
  /\ ~finished /\ Chunk # << >>
  /\ thinkDone \/ ~IsPending(answer)
  /\ received' = Len(answer)
  /\ thinkDone' = TRUE
  /\ full' = IF thinkDone THEN full \o Chunk ELSE Content(answer)
  /\ filter' = Drain(full', filter)
  /\ UNCHANGED <<answer, pieces, finished>>

\* StreamChunk::Done: text that was never told from reasoning is content, and
\* what the filter holds back is let go.
Done ==
  /\ ~finished /\ Chunk = << >>
  /\ finished' = TRUE
  /\ full' = IF thinkDone THEN full ELSE answer
  /\ filter' = Flush(full', filter)
  /\ UNCHANGED <<answer, received, thinkDone, pieces>>

Next == (\E p \in Pieces : Produce(p)) \/ Undecided \/ Text \/ Done

Spec == Init /\ [][Next]_vars
-----------------------------------------------------------------------------
\* The extents the parser gives the blocks, an unclosed one running to the end.
Extents(text) ==
  LET blocks == Blocks(text)
      open == Find(text, DISPATCH_OPEN, Max({1} \cup {b.end : b \in blocks}))
  IN  blocks \cup IF open = 0 THEN {} ELSE {[open |-> open, end |-> Len(text) + 1]}

\* A place is shown if no block covers it, nor a newline next to one.
Shown(text, i) ==
  \A b \in Extents(text) :
    /\ i < b.open \/ i >= b.end
    /\ text[i] = "n" => i + 1 # b.open /\ i # b.end

\* The text without its blocks, told place by place.
Visible(text) ==
  LET visible[i \in 0 .. Len(text)] ==
        IF i = 0 THEN << >>
        ELSE IF Shown(text, i) THEN Append(visible[i - 1], text[i]) ELSE visible[i - 1]
  IN  visible[Len(text)]

\* A block whose opening newline also begins "\n@@end": the parser reads on.
HasEmptyBlock(text) ==
  \E b \in Extents(text) : At(text, DISPATCH_OPEN \o <<"@", "e">>, b.open)

\* A block that ends one newline before the next opens.
HasAdjacentBlocks(text) ==
  \E b \in Blocks(text) : At(text, <<"n">> \o DISPATCH_OPEN, b.end)

\* An answer with a block that is never told from reasoning: agent/runner.rs
\* lets it go at the end without having drained it.
NeverDrained(text) == ~thinkDone /\ Find(text, DISPATCH_OPEN, 1) # 0

\* However the answer was cut into chunks, the device hears it without the
\* blocks that are dispatched, and nothing less.  Two kinds of answers are left
\* out, those in which the filter and the parser do not agree on where a block
\* ends and those that are never drained: their blocks may be heard.
LiveHidesBlocks ==
  finished /\ ~HasEmptyBlock(full) /\ ~NeverDrained(full) => filter.emitted = Visible(full)

\* While the answer comes in, the deltas are behind the visible text by no
\* more than an unfinished opening: what was let through is never regretted.
LiveKeepsUp ==
  ~finished /\ ~HasEmptyBlock(full) =>
    /\ IsPrefix(filter.emitted, Visible(full))
    /\ Len(Visible(full)) - Len(filter.emitted) <= Len(DISPATCH_OPEN)

\* The stored text is the one the device hears; exactly adjacent blocks make
\* the strip panic.
StripHidesBlocks ==
  finished =>
    IF HasAdjacentBlocks(full) THEN Last(Strip(full)) = "panic"
    ELSE Strip(full) = Visible(full)

\* Reasoning at the front of an answer is cut off, with its tags, however it
\* is chunked; blanks that follow it may stay; nothing else is lost.
ReasoningIsCut ==
  LET fronted == \E i \in 1 .. Len(answer) :
        /\ \A j \in 1 .. i - 1 : answer[j] = "n"
        /\ At(answer, THINK, i) \/ At(answer, UNTHINK, i)
      cut == Find(answer, UNTHINK, 1)
      rest == From(answer, cut + Len(UNTHINK))
  IN  finished =>
        IF cut # 0 /\ fronted
        THEN (\E i \in 1 .. Len(rest) + 1 : full = From(rest, i)) /\ TrimStart(full) = TrimStart(rest)
        ELSE full = answer

\* What the repository says of every answer, of the live deltas that the blocks
\* "never reach the device" and of the stored text that the strip will "remove
\* all @@dispatch\n...\n@@end blocks from a response", in a form that follows
\* from either: a block is kept from at least one of the two.
BlocksAreRemoved == finished => Visible(full) \in {filter.emitted, Strip(full)}
=============================================================================
