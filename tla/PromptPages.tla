----------------------------- MODULE PromptPages -----------------------------
(***************************************************************************)
(* Which prompt each request of a stream over the OpenAI or the Anthropic  *)
(* adapter sends, and what its answer costs: FetchCycle with next_cursor,  *)
(* parse_response and response_cost of openai.cpp, which anthropic.cpp     *)
(* repeats, and CostAwarePolicy's account.                                 *)
(*                                                                         *)
(* The page token is the decimal index of a prompt; the empty token, which *)
(* stands for index 0, is 0 here.  A list without prompts is asked for one *)
(* empty prompt.  The names are openai.cpp's.                              *)
(***************************************************************************)
EXTENDS Integers, Sequences

CONSTANTS Prompts,   \* the number of prompts configured
          Usages,    \* token counts a response may report, 0 when it has none
          MaxRetries, Budget,
          MaxCalls   \* bound: activations of fetch_one

ASSUME PromptAssumption ==
  /\ Prompts \in Nat /\ MaxRetries \in Nat /\ Budget \in Nat /\ MaxCalls \in Nat
  /\ Usages \subseteq Nat /\ 0 \in Usages

VARIABLES cancelFlag, streamDone, page, window, cost, metrics, fpc, resp, retries,
          sawLimit, fres, cycleWindow, aborted, lateRequests,
          pageToken,        \* cursor_.page_token
          exhausted,        \* cursor_.exhausted
          lastTotalTokens,  \* last_total_tokens_
          asked,            \* the prompt in the last request, 0 for the empty one
          calls,            \* history: activations so far
          answered,         \* history: the prompts answered, in order
          reported          \* history: what their answers reported, added up

INSTANCE FetchCycle WITH
  NPages <- IF Prompts = 0 THEN 1 ELSE Prompts,
  Costs <- Usages, Windows <- {0}, InitWindow <- 0,
  Grow <- [w \in {0} |-> w], Shrink <- [w \in {0} |-> w], NextWindow <- [w \in {0} |-> w]

cycleState == <<cancelFlag, streamDone, page, window, cost, metrics, resp, retries,
                sawLimit, fres, cycleWindow, aborted, lateRequests>>
adapterState == <<pageToken, exhausted, lastTotalTokens, asked, answered, reported>>
vars == <<cycleState, fpc, calls, adapterState>>

-----------------------------------------------------------------------------
Init ==
  /\ FetchInit /\ fpc = "idle" /\ calls = 0
  /\ pageToken = 0 /\ exhausted = FALSE
  /\ lastTotalTokens = 0 /\ asked = 0
  /\ answered = <<>> /\ reported = 0

\* next_batch without prefetch.
Activate ==
  /\ fpc = "idle" /\ calls < MaxCalls
  /\ fpc' = "enter" /\ calls' = calls + 1
  /\ UNCHANGED <<cycleState, adapterState>>

HandOver ==
  /\ fpc = "done" /\ fpc' = "idle"
  /\ UNCHANGED <<cycleState, calls, adapterState>>

\* build_request.
PromptAt(i) == IF i < Prompts THEN i + 1 ELSE 0

Send ==
  /\ FetchSend
  /\ asked' = PromptAt(pageToken)
  /\ UNCHANGED <<calls, pageToken, exhausted, lastTotalTokens, answered, reported>>

\* parse_response finds choices and what they cost.
Mut_TokensOf(u) == IF u = 0 THEN lastTotalTokens ELSE u
TokensOf(u) == u

\* next_cursor.
Mut_LastPrompt(i) == i > Prompts
LastPrompt(i) == i >= Prompts

Take(u) ==
  /\ FetchAdvance
  /\ lastTotalTokens' = TokensOf(u)
  /\ exhausted' = LastPrompt(pageToken + 1)
  /\ pageToken' = IF LastPrompt(pageToken + 1) THEN 0 ELSE pageToken + 1
  /\ answered' = Append(answered, asked) /\ reported' = reported + u
  /\ UNCHANGED <<calls, asked>>

\* A body that does not parse leaves last_total_tokens_ alone, or reset when
\* it is the usage that is malformed.
Mut_Reject ==
  /\ HandleTerminal
  /\ pageToken' = IF resp = "garbled" THEN pageToken + 1 ELSE pageToken
  /\ UNCHANGED <<calls, lastTotalTokens, exhausted, asked, answered, reported>>

Reject ==
  /\ HandleTerminal
  /\ lastTotalTokens' = lastTotalTokens \/ (resp = "garbled" /\ lastTotalTokens' = 0)
  /\ UNCHANGED <<calls, pageToken, exhausted, asked, answered, reported>>

\* response_cost and record_cost.
Charge ==
  /\ FetchCost(lastTotalTokens)
  /\ UNCHANGED <<calls, adapterState>>

OtherStep ==
  /\ \/ FetchExhausted \/ FetchCancelled \/ FetchOverBudget \/ FetchStart
     \/ \E r \in Responses : FetchReceive(r)
     \/ HandleAborted \/ HandleRateLimit \/ HandleRetry \/ FetchWake \/ FetchFinish
  /\ UNCHANGED <<calls, adapterState>>

\* cancel(), whose two stores Engine tells apart.
Cancel ==
  /\ ~cancelFlag
  /\ cancelFlag' = TRUE /\ streamDone' = TRUE
  /\ UNCHANGED <<page, window, cost, metrics, fpc, resp, retries, sawLimit, fres,
                 cycleWindow, aborted, lateRequests, calls, adapterState>>

Done == fpc = "idle" /\ calls = MaxCalls /\ UNCHANGED vars

Next == Activate \/ HandOver \/ Send \/ (\E u \in Usages : Take(u)) \/ Reject \/ Charge
          \/ OtherStep \/ Cancel \/ Done

Spec == Init /\ [][Next]_vars

-----------------------------------------------------------------------------
\* The types of the adapter's state.
TypeOK ==
  /\ FetchTypeOK
  /\ pageToken \in 0..Prompts /\ exhausted \in BOOLEAN
  /\ lastTotalTokens \in Usages /\ asked \in 0..Prompts
  /\ calls \in 0..MaxCalls /\ answered \in Seq(0..Prompts) /\ reported \in Nat

\* The adapter's cursor is the one FetchCycle and Engine count: the flag is
\* set on the last page and the token names the next.
CursorAgrees ==
  /\ exhausted <=> Exhausted
  /\ ~exhausted => pageToken = page

\* Whatever failed and was sent again, the prompts answered are the first ones
\* of the list, each once, in order.
PromptsInOrder ==
  /\ Len(answered) = page
  /\ \A i \in 1..page : answered[i] = IF Prompts = 0 THEN 0 ELSE i

\* The account holds what the answers reported, neither the usage of a body
\* that was rejected nor that of an earlier answer again.
CostIsReported ==
  cost + (IF fpc = "cost" THEN lastTotalTokens ELSE 0) = reported


=============================================================================
