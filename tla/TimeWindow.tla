------------------------------ MODULE TimeWindow ------------------------------
(***************************************************************************)
(* Which seconds of history a stream over the Datadog adapter fetches:     *)
(* FetchCycle with next_cursor of datadog_metrics.cpp and adjust of        *)
(* default_policy.cpp in place of its abstract functions.                  *)
(*                                                                         *)
(* The adapter advances the start of the window by window_ms per page, so  *)
(* the start is page * WindowMs, and sets the width to window_ms; then the *)
(* engine lets the policy change the width.  The first cursor is (0, 0),   *)
(* which is no window, and build_request puts window_ms in its place.      *)
(* Cancellation and budgets, which touch no window, are Engine's.          *)
(***************************************************************************)
EXTENDS DefaultPolicy

CONSTANTS NPages, MaxRetries,
          WindowMs,       \* config_.window_ms
          MS_PER_SECOND,
          MaxCalls        \* bound: activations of fetch_one

ASSUME WindowAssumption ==
  /\ NPages \in Nat /\ MaxRetries \in Nat /\ MaxCalls \in Nat
  /\ WindowMs \in Nat \ {0} /\ MS_PER_SECOND \in Nat \ {0}

VARIABLES cancelFlag, streamDone, page, window, cost, metrics, fpc, resp, retries,
          sawLimit, fres, cycleWindow, aborted, lateRequests,
          from, to,    \* the range of the last request, in seconds
          calls,       \* history: activations so far
          fetched,     \* history: the seconds asked for by requests that succeeded
          limited      \* history: a 429 has been seen

Widths == 0..Most(WindowMs, MaxWindow)

\* next_cursor's width.
Mut_NextWidth(w) == IF w = 0 THEN WindowMs ELSE w
NextWidth(w) == WindowMs

INSTANCE FetchCycle WITH
  Budget <- 0, Costs <- {0}, Windows <- Widths, InitWindow <- 0,
  Grow <- [w \in Widths |-> Grown(w)],
  Shrink <- [w \in Widths |-> Shrunk(w)],
  NextWindow <- [w \in Widths |-> NextWidth(w)]

cycleState == <<cancelFlag, streamDone, page, window, cost, metrics, resp, retries,
                sawLimit, fres, cycleWindow, aborted, lateRequests>>
ranges == <<from, to, fetched, limited>>
vars == <<cycleState, fpc, calls, ranges>>

-----------------------------------------------------------------------------
Start == page * WindowMs

\* The width build_request asks for when the cursor's is w.
RequestWidth(w) == IF page = 0 /\ w = 0 THEN WindowMs ELSE w

Mut_ToSecond == Start \div MS_PER_SECOND + RequestWidth(window) \div MS_PER_SECOND
FromSecond == Start \div MS_PER_SECOND
ToSecond == (Start + RequestWidth(window)) \div MS_PER_SECOND

Init ==
  /\ FetchInit /\ fpc = "idle"
  /\ from = 0 /\ to = 0 /\ calls = 0
  /\ fetched = {} /\ limited = FALSE

\* next_batch without prefetch: fetch_one on the caller's thread.
Activate ==
  /\ fpc = "idle" /\ calls < MaxCalls
  /\ fpc' = "enter" /\ calls' = calls + 1
  /\ UNCHANGED <<cycleState, ranges>>

HandOver ==
  /\ fpc = "done" /\ fpc' = "idle"
  /\ UNCHANGED <<cycleState, calls, ranges>>

\* build_request, from the cursor as it is at this try.
Mut_Send ==
  /\ FetchSend
  /\ IF retries = 0 THEN from' = FromSecond /\ to' = ToSecond ELSE UNCHANGED <<from, to>>
  /\ UNCHANGED <<calls, fetched, limited>>

Send ==
  /\ FetchSend
  /\ from' = FromSecond /\ to' = ToSecond
  /\ UNCHANGED <<calls, fetched, limited>>

\* The first 429 of the activation.
Limit ==
  /\ HandleRateLimit
  /\ limited' = TRUE
  /\ UNCHANGED <<calls, from, to, fetched>>

\* The response parses; its points are those of the range asked for.
Take ==
  /\ FetchAdvance
  /\ fetched' = fetched \cup (from..(to - 1))
  /\ UNCHANGED <<calls, from, to, limited>>

OtherStep ==
  /\ \/ FetchExhausted \/ FetchStart
     \/ \E r \in Responses : FetchReceive(r)
     \/ HandleRetry \/ FetchWake \/ HandleTerminal
     \/ FetchCost(0) \/ FetchFinish
  /\ UNCHANGED <<calls, ranges>>

Done == fpc = "idle" /\ calls = MaxCalls /\ UNCHANGED vars

Next == Activate \/ HandOver \/ Send \/ Limit \/ Take \/ OtherStep \/ Done

Spec == Init /\ [][Next]_vars

-----------------------------------------------------------------------------
\* The types of the cursor, the request and the history.
TypeOK ==
  /\ FetchTypeOK
  /\ from \in Nat /\ to \in Nat /\ calls \in 0..MaxCalls
  /\ fetched \in SUBSET Nat /\ limited \in BOOLEAN

\* The response that is taken answers the range the cursor names: a window
\* that shrinks while a response is in hand is asked for again.
TakesWhatItAsked ==
  fpc = "handle" /\ resp = "good" => from = FromSecond /\ to = ToSecond

\* As long as no 429 is seen, every second before the window has been
\* fetched, whatever the widths and however milliseconds round to seconds.
\* It needs a configured window within max_window_ms: adjust(_, true) cuts a
\* wider one down while next_cursor still advances by all of it.
NoGapUnlessLimited ==
  WindowMs <= MaxWindow /\ ~limited =>
    \A s \in 0..(FromSecond - 1) : s \in fetched

\* next_cursor starts every page at window_ms, so growth never compounds.
GrowthDoesNotCompound ==
  window <= Most(Most(WindowMs, Grown(WindowMs)), MinWindow)

\* Nor does a storm of 429s over many activations starve a page: a window is
\* never narrower than min_window_ms, or window_ms when that is less.
WindowNeverStarves == page > 0 => window >= Least(MinWindow, WindowMs)

\* What makes them inductive: the cursor has no window until a page is taken,
\* a window narrower than window_ms has met a 429, and the request in flight
\* is the cursor's.
WindowInv ==
  /\ page \in Nat /\ window \in Widths
  /\ from \in Nat /\ to \in Nat
  /\ page = 0 => window = 0
  /\ sawLimit => limited
  /\ page > 0 /\ WindowMs <= MaxWindow /\ ~limited => window >= WindowMs
  /\ fpc = "execute" \/ (fpc = "handle" /\ resp # "limited") =>
       from = FromSecond /\ to = ToSecond
  /\ NoGapUnlessLimited /\ GrowthDoesNotCompound /\ WindowNeverStarves

=============================================================================
