----------------------------- MODULE FetchCycle -----------------------------
(***************************************************************************)
(* One activation of ExecutionEngine::fetch_one (core/engine.hpp) together *)
(* with handle_error, the state both write, and cancel(), which any thread *)
(* may run beside them.  The module has no Next of its own: Engine decides *)
(* which thread runs the activation, the consumer's or the prefetch one.   *)
(*                                                                         *)
(* A response is abstracted to what handle_error and parse_response tell   *)
(* apart.  The server holds NPages pages; the cursor is the number of      *)
(* pages it has moved past, and next_cursor marks it exhausted on the last *)
(* one, as every adapter of the repository does.  Grow, Shrink and         *)
(* NextWindow are what policy->adjust(_, true), policy->adjust(_, false)   *)
(* and next_cursor do to the width of the cursor's time window.            *)
(***************************************************************************)
EXTENDS Integers

CONSTANTS NPages,      \* pages the server has
          MaxRetries,  \* policy->max_retries()
          Budget,      \* CostConfig::budget_tokens, 0 for no budget
          Costs,       \* what response_cost may return, 0 when nullopt
          Windows, InitWindow, Grow, Shrink, NextWindow

ASSUME FetchAssumption ==
  /\ NPages \in Nat /\ MaxRetries \in Nat /\ Budget \in Nat
  /\ Costs \subseteq Nat /\ Costs # {}
  /\ InitWindow \in Windows
  /\ Grow \in [Windows -> Windows]
  /\ Shrink \in [Windows -> Windows]
  /\ NextWindow \in [Windows -> Windows]

VARIABLES
  cancelFlag,   \* cancel_flag_
  streamDone,   \* stream_done_
  page,         \* cursor_: pages it has moved past
  window,       \* cursor_: time_window_end - time_window_start
  cost,         \* CostAwarePolicy::cumulative_tokens_
  metrics,      \* Metrics: the counters
  fpc,          \* where the activation of fetch_one is; "idle" for none
  resp,         \* the response in hand
  retries,      \* retry_count
  sawLimit,     \* saw_rate_limit
  fres,         \* the FetchResult being returned
  cycleWindow,  \* history: the window when the activation entered its loop
  aborted,      \* history: responses dropped because cancel() had been called
  lateRequests  \* history: requests that completed after cancel_flag_ was set

flags == <<cancelFlag, streamDone>>
cursor == <<page, window>>
locals == <<resp, retries, sawLimit, cycleWindow>>
history == <<aborted, lateRequests>>
fetchVars == <<flags, cursor, cost, metrics, fpc, fres, locals, history>>

-----------------------------------------------------------------------------
\* StreamErrorCode, without INVALID_ARG, which the engine never returns.
FetchErrors == {"RATE_LIMIT", "SERVER", "CLIENT", "PARSE", "NETWORK"}
Codes == FetchErrors \cup {"OK", "EXHAUSTED", "CANCELLED", "BUDGET_EXHAUSTED"}

\* Status 0, 4xx other than 429, 429, 5xx; any other status, 2xx and 3xx
\* alike, is handed to parse_response, which takes it or does not.
Retryable == {"limited", "server"}
Responses == Retryable \cup {"network", "client", "good", "garbled"}

Counters == {"request", "retry", "success", "records", "rate_limit", "server",
             "client", "network", "parse"}
Counted(cs) == metrics' = [c \in Counters |-> IF c \in cs THEN metrics[c] + 1 ELSE metrics[c]]

Results == [err : Codes, page : 0..NPages]
Result(e) == [err |-> e, page |-> 0]

Exhausted == page = NPages

\* A definition named Mut_X is a mistake X could contain; the runs name it to
\* show that a property would notice.
Mut_BudgetExceeded == Budget > 0 /\ cost > Budget
BudgetExceeded == Budget > 0 /\ cost >= Budget

FetchInit ==
  /\ page = 0 /\ cancelFlag = FALSE /\ streamDone = Exhausted
  /\ window = InitWindow /\ cost = 0
  /\ metrics = [c \in Counters |-> 0]
  /\ resp = "network" /\ retries = 0 /\ sawLimit = FALSE
  /\ fres = Result("OK") /\ cycleWindow = InitWindow
  /\ aborted = 0 /\ lateRequests = 0

-----------------------------------------------------------------------------
FetchReturn(e) == fpc' = "done" /\ fres' = Result(e)

FetchExhausted ==
  /\ fpc = "enter" /\ Exhausted
  /\ streamDone' = TRUE
  /\ FetchReturn("EXHAUSTED")
  /\ UNCHANGED <<cancelFlag, cursor, cost, metrics, locals, history>>

\* is_cancelled() at the head of every turn of the retry loop.
Mut_LoopCancelled == FALSE
LoopCancelled == cancelFlag

FetchCancelled ==
  /\ (fpc = "enter" /\ ~Exhausted /\ cancelFlag) \/ (fpc = "loop" /\ LoopCancelled)
  /\ FetchReturn("CANCELLED")
  /\ UNCHANGED <<flags, cursor, cost, metrics, locals, history>>

FetchOverBudget ==
  /\ fpc = "enter" /\ ~Exhausted /\ ~cancelFlag /\ BudgetExceeded
  /\ streamDone' = TRUE
  /\ FetchReturn("BUDGET_EXHAUSTED")
  /\ UNCHANGED <<cancelFlag, cursor, cost, metrics, locals, history>>

FetchStart ==
  /\ fpc = "enter" /\ ~Exhausted /\ ~cancelFlag /\ ~BudgetExceeded
  /\ fpc' = "loop" /\ retries' = 0 /\ sawLimit' = FALSE /\ cycleWindow' = window
  /\ UNCHANGED <<flags, cursor, cost, metrics, resp, fres, history>>

\* build_request: the request for page + 1 leaves.
FetchSend ==
  /\ fpc = "loop" /\ ~LoopCancelled
  /\ fpc' = "execute"
  /\ UNCHANGED <<flags, cursor, cost, metrics, locals, fres, history>>

\* transport_->execute returns.  A cancelled transfer is a status 0, but a
\* response may have arrived before the transport looked at the flag.
FetchReceive(r) ==
  /\ fpc = "execute"
  /\ resp' = r /\ fpc' = "handle"
  /\ Counted({"request"})
  /\ lateRequests' = lateRequests + (IF cancelFlag THEN 1 ELSE 0)
  /\ UNCHANGED <<flags, cursor, cost, retries, sawLimit, fres, cycleWindow, aborted>>

-----------------------------------------------------------------------------
\* handle_error, on a status 0 once cancelled.
HandleAborted ==
  /\ fpc = "handle" /\ resp = "network" /\ cancelFlag
  /\ FetchReturn("CANCELLED")
  /\ aborted' = aborted + 1
  /\ UNCHANGED <<flags, cursor, cost, metrics, locals, lateRequests>>

\* handle_error, on the first 429 of the activation: the window shrinks.
HandleRateLimit ==
  /\ fpc = "handle" /\ resp = "limited" /\ ~sawLimit
  /\ window' = Shrink[window] /\ sawLimit' = TRUE
  /\ UNCHANGED <<flags, page, cost, metrics, fpc, resp, retries, fres, cycleWindow, history>>

\* What is left of handle_error once a 429 has shrunk the window.
MayRetry ==
  /\ fpc = "handle"
  /\ \/ resp = "network" /\ ~cancelFlag
     \/ resp = "server"
     \/ resp = "limited" /\ sawLimit

Mut_RetriesLeft == retries <= MaxRetries
RetriesLeft == retries < MaxRetries

\* The retry is counted before the sleep.
HandleRetry ==
  /\ MayRetry /\ RetriesLeft
  /\ Counted({"retry"})
  /\ fpc' = "sleep"
  /\ UNCHANGED <<flags, cursor, cost, locals, fres, history>>

\* sleep_for: cancel() does not cut it short.
FetchWake ==
  /\ fpc = "sleep"
  /\ retries' = retries + 1 /\ fpc' = "loop"
  /\ UNCHANGED <<flags, cursor, cost, metrics, resp, sawLimit, fres, cycleWindow, history>>

ErrorOf(r) == CASE r = "network" -> "NETWORK" [] r = "client" -> "CLIENT"
                [] r = "limited" -> "RATE_LIMIT" [] r = "server" -> "SERVER"
                [] OTHER -> "PARSE"
Mut_CounterOf(e) == CASE e = "NETWORK" -> "network" [] e = "CLIENT" -> "client"
                      [] e = "RATE_LIMIT" -> "rate_limit" [] e = "SERVER" -> "server"
                      [] OTHER -> "none"
CounterOf(e) == CASE e = "NETWORK" -> "network" [] e = "CLIENT" -> "client"
                  [] e = "RATE_LIMIT" -> "rate_limit" [] e = "SERVER" -> "server"
                  [] OTHER -> "parse"

\* The terminal branches: retries exhausted, a client error, a body that
\* parse_response rejects.
HandleTerminal ==
  /\ \/ MayRetry /\ ~RetriesLeft
     \/ fpc = "handle" /\ resp \in {"client", "garbled"}
  /\ FetchReturn(ErrorOf(resp))
  /\ Counted({CounterOf(ErrorOf(resp))})
  /\ UNCHANGED <<flags, cursor, cost, locals, history>>

\* next_cursor and, unless a 429 was seen, adjust(_, true).
Mut_AdvancedWindow == Grow[NextWindow[window]]
AdvancedWindow == IF sawLimit THEN NextWindow[window] ELSE Grow[NextWindow[window]]

\* The body parses: the cursor moves under cursor_mutex_.
FetchAdvance ==
  /\ fpc = "handle" /\ resp = "good"
  /\ page' = page + 1
  /\ window' = AdvancedWindow
  /\ fpc' = "cost"
  /\ UNCHANGED <<flags, cost, metrics, locals, fres, history>>

FetchCost(c) ==
  /\ fpc = "cost"
  /\ cost' = cost + c
  /\ fpc' = "finish"
  /\ UNCHANGED <<flags, cursor, metrics, locals, fres, history>>

\* The batch, whatever cancel() has done since the cursor moved.
Mut_Fetched == IF cancelFlag THEN Result("CANCELLED") ELSE [err |-> "OK", page |-> page]
Fetched == [err |-> "OK", page |-> page]

FinishCounters == {"success", "records"}

FetchFinish ==
  /\ fpc = "finish"
  /\ streamDone' = (streamDone \/ Exhausted)
  /\ Counted(FinishCounters)
  /\ fres' = Fetched /\ fpc' = "done"
  /\ UNCHANGED <<cancelFlag, cursor, cost, locals, history>>

FetchStep ==
  \/ FetchExhausted \/ FetchCancelled \/ FetchOverBudget \/ FetchStart \/ FetchSend
  \/ \E r \in Responses : FetchReceive(r)
  \/ HandleAborted \/ HandleRateLimit \/ HandleRetry \/ FetchWake \/ HandleTerminal
  \/ FetchAdvance
  \/ \E c \in Costs : FetchCost(c)
  \/ FetchFinish

\* The types of what fetch_one reads and writes.
FetchTypeOK ==
  /\ cancelFlag \in BOOLEAN /\ streamDone \in BOOLEAN
  /\ page \in 0..NPages /\ window \in Windows /\ cost \in Nat
  /\ metrics \in [Counters -> Nat]
  /\ fpc \in {"idle", "enter", "loop", "execute", "handle", "sleep", "cost", "finish", "done"}
  /\ resp \in Responses /\ retries \in 0..MaxRetries /\ sawLimit \in BOOLEAN
  /\ fres \in Results /\ cycleWindow \in Windows
  /\ aborted \in Nat /\ lateRequests \in Nat

=============================================================================
