------------------------------- MODULE Engine -------------------------------
(***************************************************************************)
(* ExecutionEngine (core/engine.hpp): one consumer thread that constructs  *)
(* the engine, calls next_batch and finally destroys it; the prefetch      *)
(* thread, when the policy asks for one; and any thread that calls         *)
(* cancel().  fetch_one is FetchCycle's activation, run by the consumer    *)
(* without prefetch and by the prefetch thread with it.                    *)
(*                                                                         *)
(* The double buffer is a std::thread object (thread), a slot, a ready     *)
(* flag under prefetch_mutex_ and the in-flight flag.  collect_prefetch    *)
(* waits at most ten minutes; a fetch with retries and Retry-After sleeps  *)
(* may take longer, so the wait may time out whenever nothing is ready.    *)
(***************************************************************************)
EXTENDS FetchCycle

CONSTANTS PrefetchEnabled,  \* prefetch_enabled_
          MaxCalls          \* bound: calls of next_batch

ASSUME EngineAssumption == PrefetchEnabled \in BOOLEAN /\ MaxCalls \in Nat

kMaxPrefetchRetries == 1

VARIABLES
  cpc,          \* where the consumer thread is; "idle" between two calls
  thread,       \* prefetch_thread_: "none" is not joinable
  inFlight,     \* prefetch_in_flight_
  ready,        \* prefetch_ready_
  slot,         \* prefetch_result_
  failures,     \* prefetch_consecutive_failures_
  result,       \* the result next_batch is about to return
  canceller,    \* a thread inside cancel(), between its two stores
  calls,        \* history: calls of next_batch so far
  delivered,    \* history: batches returned to the consumer
  outcome,      \* history: the last code returned, "none" at first
  phase,        \* history: "flowing", then "failed" or "stopped"
  lateCalls,    \* history: calls that began with cancel_flag_ set
  lateOks,      \* history: those of them that returned a batch
  timedOut      \* history: collect_prefetch has timed out

prefetch == <<thread, inFlight, ready, slot, failures>>
ledger == <<delivered, outcome, phase, lateOks>>
consumerVars == <<cpc, prefetch, result, calls, ledger, lateCalls, timedOut>>
engineVars == <<consumerVars, canceller>>
vars == <<fetchVars, engineVars>>

-----------------------------------------------------------------------------
\* join_prefetch returns.
Mut_ThreadDone == TRUE
ThreadDone == thread \in {"none", "exited"}

\* has_next(), read by the consumer between two calls.
Mut_HasNext == ~streamDone /\ ~cancelFlag
Mut_HasNext_ready == ready \/ (~streamDone /\ ~cancelFlag)
HasNext == inFlight \/ (~streamDone /\ ~cancelFlag)

\* The constructor starts the first fetch unless the cursor is exhausted.
Init ==
  LET started == PrefetchEnabled /\ ~Exhausted IN
  /\ FetchInit
  /\ fpc = (IF started THEN "enter" ELSE "idle")
  /\ thread = (IF started THEN "fetching" ELSE "none")
  /\ inFlight = started /\ ready = FALSE
  /\ slot = Result("OK") /\ failures = 0
  /\ cpc = "idle" /\ result = Result("OK") /\ canceller = "idle"
  /\ calls = 0 /\ delivered = 0 /\ outcome = "none" /\ phase = "flowing"
  /\ lateCalls = 0 /\ lateOks = 0 /\ timedOut = FALSE

-----------------------------------------------------------------------------
\* fetch_one, on whichever thread runs it.
Fetch == FetchStep /\ UNCHANGED engineVars

\* The prefetch thread stores its result under prefetch_mutex_.
Mut_Publish ==
  /\ thread = "fetching" /\ fpc = "done"
  /\ slot' = fres /\ UNCHANGED ready
  /\ thread' = "notifying" /\ fpc' = "idle"
  /\ UNCHANGED <<flags, cursor, cost, metrics, fres, locals, history, cpc, inFlight,
                 failures, result, calls, ledger, lateCalls, timedOut, canceller>>

Publish ==
  /\ thread = "fetching" /\ fpc = "done"
  /\ slot' = fres /\ ready' = TRUE
  /\ thread' = "notifying" /\ fpc' = "idle"
  /\ UNCHANGED <<flags, cursor, cost, metrics, fres, locals, history, cpc, inFlight,
                 failures, result, calls, ledger, lateCalls, timedOut, canceller>>

\* It notifies the consumer, which may be running already, and ends.
Exit ==
  /\ thread = "notifying"
  /\ thread' = "exited"
  /\ UNCHANGED <<fetchVars, cpc, inFlight, ready, slot, failures, result, calls, ledger,
                 lateCalls, timedOut, canceller>>

-----------------------------------------------------------------------------
Calling ==
  /\ cpc = "idle" /\ calls < MaxCalls
  /\ calls' = calls + 1
  /\ lateCalls' = lateCalls + (IF cancelFlag THEN 1 ELSE 0)

\* next_batch without prefetch: fetch_one on the consumer's thread.
NextBatchDirect ==
  /\ ~PrefetchEnabled /\ Calling
  /\ cpc' = "fetching" /\ fpc' = "enter"
  /\ UNCHANGED <<flags, cursor, cost, metrics, fres, locals, history, prefetch, result,
                 ledger, timedOut, canceller>>

FetchDirectReturns ==
  /\ cpc = "fetching" /\ fpc = "done"
  /\ result' = fres
  /\ cpc' = "return" /\ fpc' = "idle"
  /\ UNCHANGED <<flags, cursor, cost, metrics, fres, locals, history, prefetch, calls,
                 ledger, lateCalls, timedOut, canceller>>

\* next_batch_prefetch with a fetch in flight.
NextBatchCollect ==
  /\ PrefetchEnabled /\ inFlight /\ Calling
  /\ cpc' = "collect"
  /\ UNCHANGED <<fetchVars, prefetch, result, ledger, timedOut, canceller>>

\* next_batch_prefetch with none.
Mut_NothingLeft == "EXHAUSTED"
NothingLeft == IF cancelFlag THEN "CANCELLED" ELSE "EXHAUSTED"

NextBatchNothing ==
  /\ PrefetchEnabled /\ ~inFlight /\ Calling
  /\ result' = Result(NothingLeft)
  /\ cpc' = "return"
  /\ UNCHANGED <<fetchVars, prefetch, ledger, timedOut, canceller>>

\* collect_prefetch: the result is moved out, leaving its error code behind.
Collect ==
  /\ cpc = "collect" /\ ready
  /\ result' = slot /\ slot' = Result(slot.err)
  /\ cpc' = "settle"
  /\ UNCHANGED <<fetchVars, thread, inFlight, ready, failures, calls, ledger, lateCalls,
                 timedOut, canceller>>

CollectTimeout ==
  /\ cpc = "collect" /\ ~ready
  /\ cancelFlag' = TRUE /\ timedOut' = TRUE
  /\ result' = Result("NETWORK")
  /\ cpc' = "settle"
  /\ UNCHANGED <<streamDone, cursor, cost, metrics, fpc, fres, locals, history, prefetch,
                 calls, ledger, lateCalls, canceller>>

-----------------------------------------------------------------------------
\* The rest of next_batch_prefetch: after a batch, and once after a failure,
\* the next fetch starts; otherwise the stream is done.
Mut_Retried == result.err # "OK" /\ failures < kMaxPrefetchRetries
Retried == result.err # "OK" /\ ~cancelFlag /\ failures < kMaxPrefetchRetries

SettleAgain ==
  /\ cpc = "settle" /\ ~Exhausted
  /\ result.err = "OK" \/ Retried
  /\ failures' = IF result.err = "OK" THEN 0 ELSE failures + 1
  /\ inFlight' = FALSE
  /\ cpc' = "join"
  /\ UNCHANGED <<fetchVars, thread, ready, slot, result, calls, ledger, lateCalls,
                 timedOut, canceller>>

SettleDone ==
  /\ cpc = "settle"
  /\ Exhausted \/ (result.err # "OK" /\ ~Retried)
  /\ failures' = IF result.err = "OK" THEN 0 ELSE failures
  /\ inFlight' = FALSE /\ streamDone' = TRUE
  /\ cpc' = "return"
  /\ UNCHANGED <<cancelFlag, cursor, cost, metrics, fpc, fres, locals, history, thread,
                 ready, slot, result, calls, ledger, lateCalls, timedOut, canceller>>

\* start_prefetch: join_prefetch, ready reset, then the new thread.
Mut_StartJoin ==
  /\ cpc = "join" /\ ThreadDone
  /\ thread' = "none"
  /\ cpc' = "spawn"
  /\ UNCHANGED <<fetchVars, inFlight, ready, slot, failures, result, calls, ledger,
                 lateCalls, timedOut, canceller>>

StartJoin ==
  /\ cpc = "join" /\ ThreadDone
  /\ thread' = "none" /\ ready' = FALSE
  /\ cpc' = "spawn"
  /\ UNCHANGED <<fetchVars, inFlight, slot, failures, result, calls, ledger, lateCalls,
                 timedOut, canceller>>

StartSpawn ==
  /\ cpc = "spawn"
  /\ inFlight' = TRUE
  /\ thread' = "fetching" /\ fpc' = "enter"
  /\ cpc' = "return"
  /\ UNCHANGED <<flags, cursor, cost, metrics, fres, locals, history, ready, slot, failures,
                 result, calls, ledger, lateCalls, timedOut, canceller>>

Stopping == {"EXHAUSTED", "CANCELLED", "BUDGET_EXHAUSTED"}

\* The call returns.
Return ==
  /\ cpc = "return"
  /\ cpc' = "idle" /\ outcome' = result.err
  /\ delivered' = delivered + (IF result.err = "OK" THEN 1 ELSE 0)
  /\ phase' = IF result.err \in Stopping \/ phase = "stopped" THEN "stopped"
              ELSE IF result.err = "OK" THEN phase ELSE "failed"
  /\ lateOks' = lateOks + (IF result.err = "OK" /\ lateCalls > 0 THEN 1 ELSE 0)
  /\ UNCHANGED <<fetchVars, prefetch, result, calls, lateCalls, timedOut, canceller>>

-----------------------------------------------------------------------------
\* cancel(): two stores, on any thread, while the engine exists.
CancelFlag ==
  /\ canceller = "idle" /\ cpc \notin {"dtor", "destroyed"} /\ ~(cancelFlag /\ streamDone)
  /\ cancelFlag' = TRUE /\ canceller' = "stored"
  /\ UNCHANGED <<streamDone, cursor, cost, metrics, fpc, fres, locals, history, consumerVars>>

CancelDone ==
  /\ canceller = "stored"
  /\ streamDone' = TRUE /\ canceller' = "idle"
  /\ UNCHANGED <<cancelFlag, cursor, cost, metrics, fpc, fres, locals, history, consumerVars>>

\* ~ExecutionEngine: cancel, then join.  No other call may be in progress.
Destroy ==
  /\ cpc = "idle" /\ canceller = "idle"
  /\ cancelFlag' = TRUE /\ streamDone' = TRUE
  /\ cpc' = "dtor"
  /\ UNCHANGED <<cursor, cost, metrics, fpc, fres, locals, history, prefetch, result, calls,
                 ledger, lateCalls, timedOut, canceller>>

DestroyJoin ==
  /\ cpc = "dtor" /\ ThreadDone
  /\ thread' = "none" /\ cpc' = "destroyed"
  /\ UNCHANGED <<fetchVars, inFlight, ready, slot, failures, result, calls, ledger,
                 lateCalls, timedOut, canceller>>

Destroyed == cpc = "destroyed" /\ UNCHANGED vars

-----------------------------------------------------------------------------
NextBatch == NextBatchDirect \/ NextBatchCollect \/ NextBatchNothing
Working == FetchDirectReturns \/ Collect \/ SettleAgain \/ SettleDone \/ StartJoin
             \/ StartSpawn
Finishing == Working \/ Return \/ DestroyJoin
Cancel == CancelFlag \/ CancelDone

Next == \/ Fetch \/ Publish \/ Exit
        \/ NextBatch \/ CollectTimeout \/ Finishing
        \/ Cancel \/ Destroy \/ Destroyed

Spec == Init /\ [][Next]_vars

-----------------------------------------------------------------------------
\* The types of the state: engine.hpp 417-447.
TypeOK ==
  /\ FetchTypeOK
  /\ cpc \in {"idle", "fetching", "collect", "settle", "join", "spawn", "return", "dtor",
              "destroyed"}
  /\ thread \in {"none", "fetching", "notifying", "exited"}
  /\ inFlight \in BOOLEAN /\ ready \in BOOLEAN /\ slot \in Results
  /\ failures \in 0..kMaxPrefetchRetries /\ result \in Results
  /\ canceller \in {"idle", "stored"}
  /\ calls \in Nat /\ delivered \in Nat /\ outcome \in Codes \cup {"none"}
  /\ phase \in {"flowing", "failed", "stopped"}
  /\ lateCalls \in Nat /\ lateOks \in Nat /\ timedOut \in BOOLEAN

\* A batch that next_batch is about to return is the page after the last one
\* returned, whatever failed, timed out or was cancelled in between: none is
\* skipped and the moved-from slot is never handed out again.
InOrder == cpc = "return" /\ result.err = "OK" => result.page = delivered + 1

InFetch == fpc \in {"cost", "finish"} \/ (fpc = "done" /\ fres.page # 0)
InSlot == slot.page # 0
InResult == cpc \in {"settle", "join", "spawn", "return"} /\ result.page # 0
One(b) == IF b THEN 1 ELSE 0

\* The cursor runs ahead of the consumer by exactly the batches the engine
\* still holds.  Only a timed-out collect_prefetch may drop one.
NothingLost ==
  ~timedOut => page = delivered + One(InFetch) + One(InSlot) + One(InResult)

\* start_prefetch never assigns to a joinable std::thread (which terminates
\* the process), and at most one thread at a time is inside fetch_one.
SingleFetcher ==
  /\ cpc = "spawn" => thread = "none"
  /\ fpc # "idle" => (thread = "fetching") # (cpc = "fetching")

\* Every request the transport executed is accounted for exactly once: by a
\* retry, by a success, by a terminal error, by a cancellation, or by the
\* activation still handling it.
RequestsAccountedFor ==
  metrics["request"] =
    metrics["retry"] + metrics["success"] + metrics["rate_limit"] + metrics["server"]
      + metrics["client"] + metrics["network"] + metrics["parse"] + aborted
      + One(fpc \in {"handle", "cost", "finish"})

\* successes_total and records_total count the pages the cursor moved past.
SuccessesCountPages ==
  /\ metrics["success"] = metrics["records"]
  /\ page = metrics["success"] + One(fpc \in {"cost", "finish"})

\* The budget is overshot by less than one response, and no request leaves
\* while it is exceeded: it is read once, on entry, while retries go on.
BudgetRespected ==
  Budget > 0 =>
    /\ \E c \in Costs : cost < Budget + c
    /\ fpc \in {"loop", "execute", "handle", "sleep", "cost"} => cost < Budget

\* After cancel_flag_ is set at most one more request completes, and at most
\* one call that began later still returns a batch: the prefetched one.
CancelIsPrompt == lateRequests <= 1 /\ lateOks <= 1

\* Two calls after the cancellation has_next is false.
CancelSettles == cpc = "idle" /\ lateCalls >= 2 => ~HasNext

\* One activation shrinks the window once, on its first 429, and grows it
\* once, at the end, if it saw none.
WindowMovesOncePerCycle ==
  /\ fpc \in {"loop", "execute", "handle", "sleep"} =>
       window = IF sawLimit THEN Shrink[cycleWindow] ELSE cycleWindow
  /\ fpc \in {"cost", "finish"} =>
       window = IF sawLimit THEN NextWindow[Shrink[cycleWindow]]
                            ELSE Grow[NextWindow[cycleWindow]]

\* has_next turns false by itself only when everything was delivered, or
\* after a call that failed or hit the budget.
EndIsHonest ==
  cpc = "idle" /\ ~HasNext /\ ~cancelFlag /\ phase = "flowing" => delivered = NPages

\* Once has_next has answered false it never answers true again.
EndIsFinal == [](cpc = "idle" /\ ~HasNext => [](cpc = "idle" => ~HasNext))

\* What the consumer sees is BatchStream's promise, prefetch or not.
Stream == INSTANCE BatchStream
StreamPromise == Stream!StreamSpec

=============================================================================
