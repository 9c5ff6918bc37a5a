------------------------------ MODULE TimedFetch ------------------------------
(***************************************************************************)
(* fetch_one over CurlTransport, with time: how long an activation and a   *)
(* cancellation may take, and what a server's Retry-After gets it.         *)
(*                                                                         *)
(* Time passes in two places only, inside curl_easy_perform and in         *)
(* sleep_for; what the threads compute takes none.  It is counted in units *)
(* and the code's milliseconds and seconds are multiples of one unit.      *)
(***************************************************************************)
EXTENDS CurlTransport

CONSTANTS NPages, MaxRetries,
          BaseBackoff,    \* base_backoff_ms
          MaxBackoff,     \* MAX_TIMEOUT_MS
          MaxRetryAfter,  \* MAX_RETRY_AFTER_SECS
          MaxCalls        \* bound: activations of fetch_one

VARIABLES
  cancelFlag, streamDone, page, window, cost, metrics, fpc, resp, retries, sawLimit, fres,
  cycleWindow, aborted, lateRequests,
  nap,        \* units left of sleep_for
  calls,      \* history: activations so far
  age,        \* history: units since the activation began
  gap,        \* history: units since the last response
  cancelAge   \* history: units since cancel() was called

\* Without a budget and without a window.
INSTANCE FetchCycle WITH
  Budget <- 0, Costs <- {0}, Windows <- {0}, InitWindow <- 0,
  Grow <- [w \in {0} |-> w], Shrink <- [w \in {0} |-> w], NextWindow <- [w \in {0} |-> w]

ASSUME TimeAssumption ==
  /\ NPages \in Nat /\ MaxRetries \in Nat /\ MaxCalls \in Nat
  /\ BaseBackoff \in Nat \ {0} /\ MaxBackoff \in Nat /\ MaxRetryAfter \in Nat
  /\ Kinds = Responses \ {"network"}

cycleState == <<cancelFlag, streamDone, page, window, cost, metrics, resp, retries, sawLimit,
                fres, cycleWindow, aborted, lateRequests>>
clocks == <<nap, age, gap, cancelAge>>
vars == <<cycleState, fpc, transport, calls, clocks>>

-----------------------------------------------------------------------------
Shorter(a, b) == IF a <= b THEN a ELSE b

\* DefaultPolicy::backoff: the jitter is a quarter either way.
Delay(k) == Shorter(BaseBackoff * 2^k, MaxBackoff)
Backoff(k) == {s \in 0..((5 * Delay(k)) \div 4) : s >= (3 * Delay(k)) \div 4}

\* The adapters' retry_after, nullopt as 0.
RetryAfter(h) == IF h > MaxRetryAfter THEN 0 ELSE h

\* What handle_error sleeps.  The clamp never bites: see RetryAfter.
Sleeps(r, h, k) ==
  IF r \in Retryable /\ RetryAfter(h) > 0 THEN {Shorter(RetryAfter(h), MaxRetryAfter)}
  ELSE Backoff(k)

MaxSleep == IF MaxRetryAfter >= (5 * MaxBackoff) \div 4 THEN MaxRetryAfter
            ELSE (5 * MaxBackoff) \div 4

-----------------------------------------------------------------------------
Init ==
  /\ FetchInit /\ fpc = "idle" /\ TransportInit
  /\ nap = 0 /\ calls = 0 /\ age = 0 /\ gap = 0 /\ cancelAge = 0

\* next_batch without prefetch, while has_next answers true.
Activate ==
  /\ fpc = "idle" /\ calls < MaxCalls /\ ~streamDone
  /\ fpc' = "enter" /\ calls' = calls + 1 /\ age' = 0
  /\ UNCHANGED <<cycleState, transport, nap, gap, cancelAge>>

HandOver ==
  /\ fpc = "done" /\ fpc' = "idle"
  /\ UNCHANGED <<cycleState, transport, calls, clocks>>

Send ==
  /\ FetchSend
  /\ \E m \in Methods, hasHeaders \in BOOLEAN : Execute(m, hasHeaders)
  /\ UNCHANGED <<calls, clocks>>

Transfer == TransferStep(cancelFlag) /\ UNCHANGED <<cycleState, fpc, calls, clocks>>

Receive ==
  /\ FetchReceive(StatusKind) /\ ExecuteReturns
  /\ gap' = 0
  /\ UNCHANGED <<calls, nap, age, cancelAge>>

Retry ==
  /\ HandleRetry
  /\ nap' \in Sleeps(resp, header, retries)
  /\ UNCHANGED <<transport, calls, age, gap, cancelAge>>

Wake ==
  /\ FetchWake /\ nap = 0
  /\ UNCHANGED <<transport, calls, clocks>>

OtherStep ==
  /\ \/ FetchCancelled \/ FetchStart
     \/ HandleAborted \/ HandleRateLimit \/ HandleTerminal
     \/ FetchAdvance \/ FetchCost(0) \/ FetchFinish
  /\ UNCHANGED <<transport, calls, clocks>>

\* cancel(), whose two stores Engine tells apart.
Cancel ==
  /\ ~cancelFlag
  /\ cancelFlag' = TRUE /\ streamDone' = TRUE /\ cancelAge' = 0
  /\ UNCHANGED <<page, window, cost, metrics, fpc, resp, retries, sawLimit, fres, cycleWindow,
                 aborted, lateRequests, transport, calls, nap, age, gap>>

\* One unit of time; cancel() does not wake a sleeper.
Tick ==
  /\ \/ fpc = "execute" /\ TransferTick(cancelFlag) /\ UNCHANGED nap
     \/ fpc = "sleep" /\ nap > 0 /\ nap' = nap - 1 /\ UNCHANGED transport
  /\ age' = age + 1 /\ gap' = gap + 1
  /\ cancelAge' = cancelAge + (IF cancelFlag THEN 1 ELSE 0)
  /\ UNCHANGED <<cycleState, fpc, calls>>

Done == fpc = "idle" /\ (calls = MaxCalls \/ streamDone) /\ UNCHANGED vars

Next == Activate \/ HandOver \/ Send \/ Transfer \/ Receive \/ Retry \/ Wake \/ OtherStep
          \/ Cancel \/ Tick \/ Done

Spec == Init /\ [][Next]_vars

-----------------------------------------------------------------------------
\* The types of the fetch, the transfer and the clocks.
TypeOK ==
  /\ FetchTypeOK /\ TransportTypeOK
  /\ nap \in 0..MaxSleep /\ calls \in 0..MaxCalls
  /\ age \in Nat /\ gap \in Nat /\ cancelAge \in Nat

\* The handle outlives every request, and libcurl follows the pointers it was
\* given: during a transfer none of them belongs to an earlier request, and a
\* GET does not turn into the POST that went before it.
NoStaleOption ==
  Active =>
    /\ \A o \in OptionNames : options[o] # "stale"
    /\ options["POSTFIELDS"] = "this" <=> method = "POST"

\* A response with a status is a whole one: an answer that was cut short, by
\* the size limit, a time limit, the network or cancel(), is never parsed.
\* Without a handle no response has a status.
WholeOrNothing ==
  fpc = "handle" /\ resp # "network" =>
    /\ handle
    /\ resp = answer.kind /\ body = answer.size /\ body <= BodyLimit

\* A request is sent again no earlier than the final answer asked for, when
\* that is at most MAX_RETRY_AFTER_SECS, whatever the header blocks before it
\* said.
RetryAfterHonoured ==
  fpc = "loop" /\ retries > 0 /\ resp \in Retryable /\ answer.after \in 1..MaxRetryAfter =>
    gap >= answer.after

\* An activation takes at most max_retries + 1 requests and max_retries sleeps,
\* each of which is bounded.
LongestActivation == (MaxRetries + 1) * RequestTimeout + MaxRetries * MaxSleep
ActivationBounded == fpc # "idle" => age <= LongestActivation

\* cancel() ends the transfer within one call of progress_cb, but a 429 or 5xx
\* that came in just then still gets its sleep, up to an hour for Retry-After.
CancelLatency ==
  fpc # "idle" /\ cancelFlag => cancelAge <= ProgressInterval + MaxSleep

=============================================================================
