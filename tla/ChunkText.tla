------------------------------ MODULE ChunkText ------------------------------
(***************************************************************************)
(* chunk_text (adapters/ai_adapter.hpp), which splits a document into      *)
(* prompts, one turn of its loop per step, and prompt_chunk_for_cursor     *)
(* (adapters/anthropic.cpp), which hands out the chunk a cursor names.     *)
(*                                                                         *)
(* A text is its size, the offsets of its spaces and those of its sentence *)
(* ends, the occurrences of ". ".  A chunk is the pair of offsets between  *)
(* which it lies, the second one excluded.                                 *)
(***************************************************************************)
EXTENDS Integers, Sequences

CONSTANTS MaxSize,  \* bound: characters of a text
          Limits    \* values of max_chars

ASSUME ChunkAssumption == MaxSize \in Nat /\ Limits \subseteq Nat

VARIABLES text, maxChars, pos, chunks
chunkVars == <<text, maxChars, pos, chunks>>

Offsets(n) == {i \in 0..MaxSize : i < n}
Texts == {t \in [size : 0..MaxSize, spaces : SUBSET Offsets(MaxSize), stops : SUBSET Offsets(MaxSize)] :
            /\ t.spaces \subseteq Offsets(t.size)
            /\ \A i \in t.stops : i \notin t.spaces /\ i + 1 \in t.spaces}

ChunkInit ==
  /\ text \in Texts /\ maxChars \in Limits
  /\ pos = 0 /\ chunks = <<>>

-----------------------------------------------------------------------------
Running == text.size # 0 /\ maxChars # 0 /\ pos < text.size

End == IF pos + maxChars < text.size THEN pos + maxChars ELSE text.size

\* What rfind(_, end) finds, when it lies beyond pos.
Mut_LastBreak(i, S) == i \in S /\ pos < i /\ \A j \in S : j <= i
LastBreak(i, S) == i \in S /\ pos < i /\ i <= End /\ \A j \in S : j <= End => j <= i

Mut_NoBreak(S) == \A i \in S : ~(pos < i /\ i < End)
NoBreak(S) == \A i \in S : ~(pos < i /\ i <= End)

Mut_Chunk(end) == <<pos, end - 1>>
Chunk(end) == <<pos, end>>

Push(end) ==
  /\ chunks' = Append(chunks, Chunk(end)) /\ pos' = end
  /\ UNCHANGED <<text, maxChars>>

LastChunk == Running /\ End = text.size /\ Push(End)

\* The break stays with the chunk it ends.
SentenceEnd(i) == i + 2

SentenceChunk ==
  /\ Running /\ End < text.size
  /\ \E i \in text.stops : LastBreak(i, text.stops) /\ Push(SentenceEnd(i))

Mut_WordEnd(i) == i
WordEnd(i) == i + 1

WordChunk ==
  /\ Running /\ End < text.size /\ NoBreak(text.stops)
  /\ \E i \in text.spaces : LastBreak(i, text.spaces) /\ Push(WordEnd(i))

HardChunk ==
  /\ Running /\ End < text.size /\ NoBreak(text.stops) /\ NoBreak(text.spaces)
  /\ Push(End)

ChunkDone == ~Running /\ UNCHANGED chunkVars

ChunkNext == LastChunk \/ SentenceChunk \/ WordChunk \/ HardChunk \/ ChunkDone

ChunkSpec == ChunkInit /\ [][ChunkNext]_chunkVars

-----------------------------------------------------------------------------
Empty == <<0, 0>>

\* prompt_chunk_for_cursor, for the index in the page token.
PromptChunk(idx) == IF idx < Len(chunks) THEN chunks[idx + 1] ELSE Empty

\* The types of chunk_text's locals.
ChunkTypeOK ==
  /\ text \in Texts /\ maxChars \in Limits /\ pos \in 0..MaxSize
  /\ chunks \in Seq(Nat \X Nat)

\* The chunks asked for with the cursors 0, 1, 2, ... are the text from its
\* first character to pos, nothing dropped, repeated or reordered, and the
\* empty chunk comes after the last one and nowhere before.  As each holds a
\* character the loop ends.
Covers ==
  /\ chunks # <<>> => PromptChunk(0)[1] = 0
  /\ \A k \in 0..(Len(chunks) - 1) :
       /\ PromptChunk(k)[1] < PromptChunk(k)[2]
       /\ PromptChunk(k)[2] = IF k + 1 < Len(chunks) THEN PromptChunk(k + 1)[1] ELSE pos
  /\ chunks = <<>> => pos = 0
  /\ pos <= text.size

\* A chunk may be longer than max_chars, which the search for a break does not
\* count the break itself in, by two characters and never by more.
ChunkBound ==
  \A k \in 1..Len(chunks) : chunks[k][2] - chunks[k][1] <= maxChars + 2

\* A chunk ends in the middle of a word only where there is no choice: the
\* piece is max_chars long and holds no space but perhaps its first character.
WordsStayWhole ==
  \A k \in 1..Len(chunks) :
    LET from == chunks[k][1]  to == chunks[k][2] IN
    to < text.size /\ to - 1 \notin text.spaces =>
      /\ to - from = maxChars
      /\ \A i \in text.spaces : ~(from < i /\ i <= to)

\* A sentence end within reach is where the chunk ends, unless it is the last.
SentencesStayWhole ==
  \A k \in 1..Len(chunks) :
    \A i \in text.stops :
      chunks[k][1] < i /\ i <= chunks[k][1] + maxChars /\ chunks[k][2] < text.size =>
        i + 2 <= chunks[k][2]

=============================================================================
