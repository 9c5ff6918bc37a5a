------------------------- MODULE PromptAdapters_proofs -------------------------
(***************************************************************************)
(* Theorems about the two sides of the prompt adapters: which prompts they *)
(* send (PromptPages), for every number of prompts, every usage a response *)
(* may report, every budget and number of retries; and how they split a    *)
(* text into prompts (ChunkText), for texts and limits of any size.        *)
(***************************************************************************)
EXTENDS PromptPages, ChunkText, TLAPS

USE DEF cycleState, adapterState

\* The cursor, the prompts and the account, with what makes them inductive:
\* a request in flight is for the cursor's prompt, and a page is left to ask
\* for until the flag is set.
PromptInv ==
  /\ page \in Nat /\ cost \in Nat /\ lastTotalTokens \in Nat /\ reported \in Nat
  /\ asked \in Nat /\ answered \in Seq(Nat)
  /\ page <= (IF Prompts = 0 THEN 1 ELSE Prompts)
  /\ fpc \in {"loop", "execute", "handle", "sleep"} => ~Exhausted
  /\ fpc \in {"execute", "handle"} => asked = PromptAt(page)
  /\ CursorAgrees /\ PromptsInOrder /\ CostIsReported

LEMMA InitPromptInv == Init => PromptInv
  BY PromptAssumption
  DEF Init, FetchInit, PromptInv, CursorAgrees, PromptsInOrder, CostIsReported, Exhausted

\* A step that moves neither the cursor nor the account keeps the invariant.
LEMMA Kept ==
  ASSUME PromptInv, UNCHANGED <<page, cost, adapterState>>,
         fpc' \in {"loop", "execute", "handle", "sleep"} => ~Exhausted,
         fpc' \in {"execute", "handle"} => asked = PromptAt(page),
         fpc' # "cost", fpc # "cost"
  PROVE  PromptInv'
  BY DEF PromptInv, CursorAgrees, PromptsInOrder, CostIsReported, Exhausted, PromptAt

\* build_request asks for the prompt after the pages the cursor moved past.
LEMMA SendInv == PromptInv /\ Send => PromptInv'
<1> SUFFICES ASSUME PromptInv, Send PROVE PromptInv'
  OBVIOUS
<1>1. /\ UNCHANGED <<page, cost, pageToken, exhausted, lastTotalTokens, answered, reported>>
      /\ fpc' = "execute" /\ fpc = "loop" /\ asked' = PromptAt(pageToken)
  BY DEF Send, FetchSend, cursor
<1>2. asked' = PromptAt(page) /\ asked' \in Nat
  BY <1>1, PromptAssumption DEF PromptInv, CursorAgrees, PromptAt
<1> QED
  BY <1>1, <1>2
  DEF PromptInv, CursorAgrees, PromptsInOrder, CostIsReported, Exhausted, PromptAt

\* The answer to the cursor's prompt moves it to the next one.
LEMMA TakeInv ==
  ASSUME PromptInv, NEW u \in Usages, Take(u)
  PROVE  PromptInv'
<1> DEFINE pages == IF Prompts = 0 THEN 1 ELSE Prompts
<1>1. Prompts \in Nat /\ u \in Nat /\ page \in Nat /\ page < pages /\ pages \in Nat
  BY PromptAssumption DEF PromptInv, Take, FetchAdvance, Exhausted
<1>2. /\ page' = page + 1 /\ fpc' = "cost" /\ fpc = "handle" /\ cost' = cost
      /\ lastTotalTokens' = u /\ reported' = reported + u /\ asked' = asked
      /\ answered' = Append(answered, asked) /\ asked = PromptAt(page)
  BY DEF Take, FetchAdvance, TokensOf, PromptInv
<1>3. pageToken = page
  BY <1>1 DEF PromptInv, CursorAgrees, Exhausted
<1>4. CursorAgrees'
  <2>1. exhausted' <=> page + 1 >= Prompts
    BY <1>3 DEF Take, LastPrompt
  <2>2. ~(page + 1 >= Prompts) => pageToken' = page + 1
    BY <1>3 DEF Take, LastPrompt
  <2>3. Exhausted' <=> page + 1 = pages
    BY <1>2 DEF Exhausted
  <2>4. page + 1 = pages <=> page + 1 >= Prompts
    BY <1>1
  <2> QED BY <1>2, <2>1, <2>2, <2>3, <2>4 DEF CursorAgrees
<1>5. Len(answered') = page + 1 /\ answered' \in Seq(Nat)
  BY <1>2 DEF PromptInv, PromptsInOrder
<1>6. ASSUME NEW i \in 1..(page + 1)
      PROVE  answered'[i] = IF Prompts = 0 THEN 0 ELSE i
  <2>1. CASE i = page + 1
    BY <1>1, <1>2, <2>1 DEF PromptInv, PromptsInOrder, PromptAt
  <2>2. CASE i \in 1..page
    BY <1>1, <1>2, <2>2 DEF PromptInv, PromptsInOrder
  <2> QED BY <1>1, <2>1, <2>2
<1>7. PromptsInOrder'
  BY <1>2, <1>5, <1>6 DEF PromptsInOrder
<1>8. CostIsReported'
  BY <1>1, <1>2 DEF PromptInv, CostIsReported
<1> QED BY <1>1, <1>2, <1>4, <1>5, <1>7, <1>8 DEF PromptInv

LEMMA ChargeInv == PromptInv /\ Charge => PromptInv'
<1> SUFFICES ASSUME PromptInv, Charge PROVE PromptInv'
  OBVIOUS
<1>1. /\ UNCHANGED <<page, adapterState>>
      /\ fpc = "cost" /\ fpc' = "finish" /\ cost' = cost + lastTotalTokens
  BY DEF Charge, FetchCost, cursor
<1> QED
  BY <1>1 DEF PromptInv, CursorAgrees, PromptsInOrder, CostIsReported, Exhausted

LEMMA RejectInv == PromptInv /\ Reject => PromptInv'
<1> SUFFICES ASSUME PromptInv, Reject PROVE PromptInv'
  OBVIOUS
<1>1. /\ UNCHANGED <<page, cost, pageToken, exhausted, asked, answered, reported>>
      /\ fpc = "handle" /\ fpc' = "done" /\ lastTotalTokens' \in {lastTotalTokens, 0}
  BY DEF Reject, HandleTerminal, MayRetry, FetchReturn, cursor
<1> QED
  BY <1>1 DEF PromptInv, CursorAgrees, PromptsInOrder, CostIsReported, Exhausted

LEMMA OtherInv == PromptInv /\ OtherStep => PromptInv'
<1> SUFFICES ASSUME PromptInv, OtherStep PROVE PromptInv'
  OBVIOUS
<1> USE Kept DEF PromptInv
<1>1. CASE FetchExhausted \/ FetchCancelled \/ FetchOverBudget
  BY <1>1 DEF OtherStep, FetchExhausted, FetchCancelled, FetchOverBudget, FetchReturn, cursor
<1>2. CASE FetchStart
  BY <1>2 DEF OtherStep, FetchStart, cursor
<1>3. CASE \E r \in Responses : FetchReceive(r)
  BY <1>3 DEF OtherStep, FetchReceive, cursor
<1>4. CASE HandleAborted
  BY <1>4 DEF OtherStep, HandleAborted, FetchReturn, cursor
<1>5. CASE HandleRateLimit
  BY <1>5 DEF OtherStep, HandleRateLimit, cursor
<1>6. CASE HandleRetry
  BY <1>6 DEF OtherStep, HandleRetry, MayRetry, cursor
<1>7. CASE FetchWake
  BY <1>7 DEF OtherStep, FetchWake, cursor
<1>8. CASE FetchFinish
  BY <1>8 DEF OtherStep, FetchFinish, cursor
<1> QED BY <1>1, <1>2, <1>3, <1>4, <1>5, <1>6, <1>7, <1>8 DEF OtherStep

LEMMA NextPromptInv == PromptInv /\ [Next]_vars => PromptInv'
<1> SUFFICES ASSUME PromptInv, [Next]_vars PROVE PromptInv'
  OBVIOUS
<1>1. CASE Activate
  BY <1>1, Kept DEF Activate
<1>2. CASE HandOver
  BY <1>2, Kept DEF HandOver
<1>3. CASE Cancel
  BY <1>3 DEF Cancel, PromptInv, CursorAgrees, PromptsInOrder, CostIsReported, Exhausted
<1>4. CASE Done \/ UNCHANGED vars
  BY <1>4 DEF Done, vars, PromptInv, CursorAgrees, PromptsInOrder, CostIsReported, Exhausted
<1> QED BY <1>1, <1>2, <1>3, <1>4, SendInv, TakeInv, RejectInv, ChargeInv, OtherInv DEF Next

LEMMA PromptAlways == Spec => []PromptInv
  BY InitPromptInv, NextPromptInv, PTL DEF Spec

\* next_cursor of the prompt adapters is what FetchCycle takes a cursor to be.
THEOREM CursorRefines == Spec => []CursorAgrees
<1>1. PromptInv => CursorAgrees
  BY DEF PromptInv
<1> QED BY <1>1, PromptAlways, PTL

\* Retries, rejected bodies and cancellation skip no prompt and repeat none.
THEOREM PromptOrder == Spec => []PromptsInOrder
<1>1. PromptInv => PromptsInOrder
  BY DEF PromptInv
<1> QED BY <1>1, PromptAlways, PTL

\* Every answer is charged once, with its own usage.
THEOREM CostExact == Spec => []CostIsReported
<1>1. PromptInv => CostIsReported
  BY DEF PromptInv
<1> QED BY <1>1, PromptAlways, PTL

-----------------------------------------------------------------------------
(* chunk_text: every turn of the loop pushes one chunk, and LoopTurn says  *)
(* where it may end; what was pushed before stays as it is.                *)

\* What the end of the chunk pushed at pos must satisfy.
GoodEnd(e) ==
  /\ pos < e /\ e <= text.size /\ e - pos <= maxChars + 2
  /\ e < text.size /\ e - 1 \notin text.spaces =>
       /\ e - pos = maxChars
       /\ \A i \in text.spaces : ~(pos < i /\ i <= e)
  /\ \A i \in text.stops :
       pos < i /\ i <= pos + maxChars /\ e < text.size => i + 2 <= e

ChunkInv == ChunkTypeOK /\ Covers /\ ChunkBound /\ WordsStayWhole /\ SentencesStayWhole

LEMMA TextFacts ==
  ASSUME ChunkTypeOK
  PROVE  /\ text.size \in 0..MaxSize /\ maxChars \in Nat /\ pos \in Nat
         /\ \A i \in text.spaces : i \in Nat /\ i < text.size
         /\ \A i \in text.stops : i \in Nat /\ i + 1 < text.size /\ i + 1 \in text.spaces
BY ChunkAssumption DEF ChunkTypeOK, Texts, Offsets

LEMMA LoopTurn ==
  ASSUME ChunkTypeOK, ChunkNext
  PROVE  UNCHANGED chunkVars \/ \E e \in Nat : GoodEnd(e) /\ Push(e)
<1> USE TextFacts, ChunkAssumption
<1>1. CASE LastChunk
  BY <1>1 DEF LastChunk, Running, End, GoodEnd
<1>2. CASE SentenceChunk
  <2>1. PICK i \in text.stops : LastBreak(i, text.stops) /\ Push(i + 2)
    BY <1>2 DEF SentenceChunk, SentenceEnd
  <2>2. GoodEnd(i + 2)
    BY <1>2, <2>1 DEF SentenceChunk, Running, End, LastBreak, GoodEnd
  <2> QED BY <2>1, <2>2
<1>3. CASE WordChunk
  <2>1. PICK i \in text.spaces : LastBreak(i, text.spaces) /\ Push(i + 1)
    BY <1>3 DEF WordChunk, WordEnd
  <2>2. GoodEnd(i + 1)
    BY <1>3, <2>1 DEF WordChunk, Running, End, LastBreak, NoBreak, GoodEnd
  <2> QED BY <2>1, <2>2
<1>4. CASE HardChunk
  BY <1>4 DEF HardChunk, Running, End, NoBreak, GoodEnd
<1>5. CASE ChunkDone
  BY <1>5 DEF ChunkDone
<1> QED BY <1>1, <1>2, <1>3, <1>4, <1>5 DEF ChunkNext

\* The sequence after a push.
LEMMA PushFacts ==
  ASSUME ChunkTypeOK, NEW e \in Nat, GoodEnd(e), Push(e)
  PROVE  /\ ChunkTypeOK'
         /\ text' = text /\ maxChars' = maxChars /\ pos' = e
         /\ Len(chunks') = Len(chunks) + 1 /\ Len(chunks) \in Nat
         /\ \A k \in 1..Len(chunks) : chunks'[k] = chunks[k]
         /\ \A k \in 1..Len(chunks) : chunks[k] \in Nat \X Nat
         /\ chunks'[Len(chunks) + 1] = Chunk(e)
         /\ Chunk(e)[1] = pos /\ Chunk(e)[2] = e
<1> USE TextFacts, ChunkAssumption
<1>1. chunks \in Seq(Nat \X Nat) /\ Chunk(e) \in Nat \X Nat
  BY DEF ChunkTypeOK, Chunk
<1>2. chunks' = Append(chunks, Chunk(e)) /\ text' = text /\ maxChars' = maxChars /\ pos' = e
  BY DEF Push
<1>3. chunks' \in Seq(Nat \X Nat)
  BY <1>1, <1>2
<1>4. e \in 0..MaxSize
  BY DEF GoodEnd
<1>5. ChunkTypeOK'
  BY <1>2, <1>3, <1>4 DEF ChunkTypeOK
<1>6. Chunk(e)[1] = pos /\ Chunk(e)[2] = e
  BY DEF Chunk
<1> QED BY <1>1, <1>2, <1>5, <1>6

LEMMA CoversStep ==
  ASSUME ChunkInv, NEW e \in Nat, GoodEnd(e), Push(e)
  PROVE  Covers'
<1>0. /\ text' = text /\ maxChars' = maxChars /\ pos' = e
      /\ Len(chunks') = Len(chunks) + 1 /\ Len(chunks) \in Nat
      /\ \A k \in 1..Len(chunks) : chunks'[k] = chunks[k]
      /\ \A k \in 1..Len(chunks) : chunks[k] \in Nat \X Nat
      /\ chunks'[Len(chunks) + 1] = Chunk(e)
      /\ Chunk(e)[1] = pos /\ Chunk(e)[2] = e
  BY PushFacts DEF ChunkInv
<1> USE <1>0, TextFacts DEF ChunkInv
<1>1. chunks' # <<>> /\ pos' <= text'.size
  BY DEF GoodEnd
<1>2. PromptChunk(0)'[1] = 0
  <2>1. CASE Len(chunks) = 0
    <3>1. chunks = <<>> /\ pos = 0
      BY <2>1 DEF ChunkTypeOK, Covers
    <3>2. PromptChunk(0)' = Chunk(e)
      BY <2>1 DEF PromptChunk
    <3> QED BY <3>1, <3>2
  <2>2. CASE Len(chunks) # 0
    <3>1. chunks # <<>> /\ 1 \in 1..Len(chunks)
      BY <2>2
    <3>2. PromptChunk(0)' = PromptChunk(0)
      BY <2>2, <3>1 DEF PromptChunk
    <3> QED BY <3>1, <3>2 DEF Covers
  <2> QED BY <2>1, <2>2
<1>3. ASSUME NEW k \in 0..(Len(chunks') - 1)
      PROVE  /\ PromptChunk(k)'[1] < PromptChunk(k)'[2]
             /\ PromptChunk(k)'[2] =
                  IF k + 1 < Len(chunks') THEN PromptChunk(k + 1)'[1] ELSE pos'
  <2>1. CASE k = Len(chunks)
    <3>1. PromptChunk(k)' = Chunk(e) /\ ~(k + 1 < Len(chunks'))
      BY <2>1 DEF PromptChunk
    <3> QED BY <3>1 DEF GoodEnd
  <2>2. CASE k + 1 = Len(chunks)
    <3>1. k \in 0..(Len(chunks) - 1) /\ k + 1 \in 1..Len(chunks)
      BY <2>2
    <3>2. PromptChunk(k)' = PromptChunk(k) /\ PromptChunk(k + 1)' = Chunk(e)
      BY <2>2, <3>1 DEF PromptChunk
    <3>3. PromptChunk(k)[1] < PromptChunk(k)[2] /\ PromptChunk(k)[2] = pos
      BY <2>2, <3>1 DEF Covers
    <3> QED BY <2>2, <3>2, <3>3
  <2>3. CASE k + 1 < Len(chunks)
    <3>1. k \in 0..(Len(chunks) - 1) /\ k + 1 \in 1..Len(chunks) /\ k + 2 \in 1..Len(chunks)
      BY <2>3
    <3>2. PromptChunk(k)' = PromptChunk(k) /\ PromptChunk(k + 1)' = PromptChunk(k + 1)
      BY <2>3, <3>1 DEF PromptChunk
    <3>3. /\ PromptChunk(k)[1] < PromptChunk(k)[2]
          /\ PromptChunk(k)[2] = PromptChunk(k + 1)[1]
      BY <2>3, <3>1 DEF Covers
    <3> QED BY <2>3, <3>2, <3>3
  <2> QED BY <2>1, <2>2, <2>3
<1> QED BY <1>1, <1>2, <1>3 DEF Covers

LEMMA EachStep ==
  ASSUME ChunkInv, NEW e \in Nat, GoodEnd(e), Push(e)
  PROVE  ChunkBound' /\ WordsStayWhole' /\ SentencesStayWhole'
<1>0. /\ text' = text /\ maxChars' = maxChars /\ pos' = e
      /\ Len(chunks') = Len(chunks) + 1 /\ Len(chunks) \in Nat
      /\ \A k \in 1..Len(chunks) : chunks'[k] = chunks[k]
      /\ \A k \in 1..Len(chunks) : chunks[k] \in Nat \X Nat
      /\ chunks'[Len(chunks) + 1] = Chunk(e)
      /\ Chunk(e)[1] = pos /\ Chunk(e)[2] = e
  BY PushFacts DEF ChunkInv
<1>1. text.size \in 0..MaxSize /\ maxChars \in Nat /\ pos \in Nat
  BY TextFacts DEF ChunkInv
<1>2. ASSUME NEW k \in 1..Len(chunks')
      PROVE  (k \in 1..Len(chunks) /\ chunks'[k] = chunks[k]) \/ chunks'[k] = Chunk(e)
  <2>1. k \in 1..Len(chunks) \/ k = Len(chunks) + 1
    BY <1>0
  <2> QED BY <2>1, <1>0
<1>3. ASSUME NEW k \in 1..Len(chunks')
      PROVE  chunks'[k][2] - chunks'[k][1] <= maxChars' + 2
  <2>1. CASE k \in 1..Len(chunks) /\ chunks'[k] = chunks[k]
    BY <2>1, <1>0 DEF ChunkInv, ChunkBound
  <2>2. CASE chunks'[k] = Chunk(e)
    BY <2>2, <1>0 DEF GoodEnd
  <2> QED BY <1>2, <2>1, <2>2
<1>4. ASSUME NEW k \in 1..Len(chunks'), chunks'[k][2] < text'.size,
             chunks'[k][2] - 1 \notin text'.spaces
      PROVE  /\ chunks'[k][2] - chunks'[k][1] = maxChars'
             /\ \A i \in text'.spaces : ~(chunks'[k][1] < i /\ i <= chunks'[k][2])
  <2>1. CASE k \in 1..Len(chunks) /\ chunks'[k] = chunks[k]
    BY <2>1, <1>0, <1>4 DEF ChunkInv, WordsStayWhole
  <2>2. CASE chunks'[k] = Chunk(e)
    BY <2>2, <1>0, <1>4 DEF GoodEnd
  <2> QED BY <1>2, <2>1, <2>2
<1>5. ASSUME NEW k \in 1..Len(chunks'), NEW i \in text'.stops,
             chunks'[k][1] < i, i <= chunks'[k][1] + maxChars', chunks'[k][2] < text'.size
      PROVE  i + 2 <= chunks'[k][2]
  <2>1. CASE k \in 1..Len(chunks) /\ chunks'[k] = chunks[k]
    BY <2>1, <1>0, <1>5 DEF ChunkInv, SentencesStayWhole
  <2>2. CASE chunks'[k] = Chunk(e)
    BY <2>2, <1>0, <1>5 DEF GoodEnd
  <2> QED BY <1>2, <2>1, <2>2
<1>6. ChunkBound'
  BY <1>3 DEF ChunkBound
<1>7. WordsStayWhole'
  BY <1>4 DEF WordsStayWhole
<1>8. SentencesStayWhole'
  BY <1>5 DEF SentencesStayWhole
<1> QED BY <1>6, <1>7, <1>8

THEOREM ChunksAlways == ChunkSpec => []ChunkInv
<1>1. ChunkInit => ChunkInv
  BY ChunkAssumption
  DEF ChunkInit, ChunkInv, ChunkTypeOK, Covers, ChunkBound, WordsStayWhole, SentencesStayWhole, Texts
<1>2. ChunkInv /\ [ChunkNext]_chunkVars => ChunkInv'
  <2> SUFFICES ASSUME ChunkInv, [ChunkNext]_chunkVars PROVE ChunkInv'
    OBVIOUS
  <2>1. CASE UNCHANGED chunkVars
    BY <2>1 DEF chunkVars, ChunkInv, ChunkTypeOK, Covers, PromptChunk, ChunkBound, WordsStayWhole,
                SentencesStayWhole
  <2>2. ASSUME NEW e \in Nat, GoodEnd(e), Push(e) PROVE ChunkInv'
    BY <2>2, PushFacts, CoversStep, EachStep DEF ChunkInv
  <2> QED BY <2>1, <2>2, LoopTurn DEF ChunkInv
<1> QED BY <1>1, <1>2, PTL DEF ChunkSpec

-----------------------------------------------------------------------------
\* The locals of chunk_text keep their types: every chunk is a pair of offsets
\* into the text (ai_adapter.hpp 48-77).
THEOREM ChunkTypes == ChunkSpec => []ChunkTypeOK
BY ChunksAlways, PTL DEF ChunkInv

\* chunk_text never drops, repeats or reorders a character, every chunk holds
\* one, so its loop makes progress, and the first empty chunk is the end.
THEOREM ChunksCover == ChunkSpec => []Covers
BY ChunksAlways, PTL DEF ChunkInv

\* No chunk exceeds max_chars by more than the two characters of a break.
THEOREM ChunksBounded == ChunkSpec => []ChunkBound
BY ChunksAlways, PTL DEF ChunkInv

\* A word is cut only when it does not fit into a chunk.
THEOREM WordsWhole == ChunkSpec => []WordsStayWhole
BY ChunksAlways, PTL DEF ChunkInv

\* A chunk that is not the last runs to the last sentence end within reach.
THEOREM SentencesWhole == ChunkSpec => []SentencesStayWhole
BY ChunksAlways, PTL DEF ChunkInv

=============================================================================
