-------------------------- MODULE EngineInvariants --------------------------
(***************************************************************************)
(* The inductive invariants behind the theorems of Engine_proofs: what     *)
(* must hold between the threads' steps for the properties of Engine to be *)
(* preserved by every step.                                                *)
(***************************************************************************)
EXTENDS Engine

InLoop == {"loop", "execute", "handle", "sleep"}

\* A request leaves only while pages are left, a sleep is entered only while
\* retries are.
FetchType ==
  /\ FetchTypeOK
  /\ fpc \in InLoop => page < NPages
  /\ fpc = "sleep" => retries < MaxRetries

TypeInv == TypeOK /\ FetchType

\* Who runs fetch_one, and which steps of next_batch belong to which mode.
ThreadInv ==
  /\ fpc # "idle" <=> thread = "fetching" \/ cpc = "fetching"
  /\ PrefetchEnabled => cpc # "fetching"
  /\ ~PrefetchEnabled => /\ thread = "none" /\ ~inFlight
                         /\ cpc \notin {"collect", "settle", "join", "spawn"}
  /\ cpc = "spawn" => thread = "none"

Held == {"settle", "join", "spawn", "return"}

\* A result carries a page exactly when it is OK, and then it is the last page
\* the cursor moved past; the slot is fresh whenever it may be collected.
FreshInv ==
  /\ fpc \in {"cost", "finish"} => page > 0
  /\ fpc = "done" => /\ fres.err = "OK" <=> fres.page # 0
                     /\ fres.page # 0 => fres.page = page
  /\ slot.page # 0 => slot.page = page /\ ready /\ slot.err = "OK"
  /\ ready => PrefetchEnabled /\ thread # "fetching"
  /\ ready /\ inFlight /\ cpc # "settle" => (slot.err = "OK" <=> slot.page # 0)
  /\ cpc = "collect" => inFlight
  /\ cpc \in {"join", "spawn"} => ~inFlight
  /\ cpc \in {"settle", "join", "spawn"} /\ ~timedOut => slot.page = 0 /\ thread # "fetching"
  /\ cpc = "spawn" => ~ready
  /\ cpc \in Held => (result.err = "OK" <=> result.page # 0)

\* After a timeout the flag is set, nothing more is collected or spawned, and
\* no batch is on its way to the consumer.
TimeoutInv ==
  timedOut => /\ cancelFlag /\ PrefetchEnabled
              /\ cpc \in {"settle", "return", "idle", "dtor", "destroyed"}
              /\ cpc # "settle" => ~inFlight
              /\ cpc \in {"settle", "return"} => result.err # "OK"

PipelineInv ==
  /\ ThreadInv /\ FreshInv /\ TimeoutInv /\ NothingLost
  /\ cpc \in Held /\ result.err = "OK" => result.page = delivered + 1
-----------------------------------------------------------------------------
(* What the consumer was last told, and why it stays true.                 *)

Busy == InLoop \cup {"cost", "finish"}
Ended == {"EXHAUSTED", "CANCELLED"}

\* Without prefetch each of the stopping codes has a cause that lasts.
Cause(e) == /\ e = "EXHAUSTED" => Exhausted
            /\ e = "CANCELLED" => ~Exhausted /\ cancelFlag
            /\ e = "BUDGET_EXHAUSTED" => ~Exhausted /\ BudgetExceeded

\* What e, returned after outcome, may be without breaking the promise.
Follows(e) == /\ outcome \in Stopping => e \in Stopping
              /\ outcome \in Ended => e \in Ended
              /\ outcome = "CANCELLED" => e = "CANCELLED"

DirectInv ==
  ~PrefetchEnabled =>
    /\ fpc = "done" => Cause(fres.err) /\ Follows(fres.err)
    /\ cpc = "return" => Cause(result.err) /\ Follows(result.err)
    /\ phase = "stopped" => outcome \in Stopping
    /\ outcome \in Stopping => Cause(outcome) /\ fpc \notin Busy

\* With prefetch, a fetch is spawned only while pages are left and the flag is
\* down, and an end leaves nothing in flight.
Fresh == ready /\ inFlight /\ cpc # "settle"
PrefetchCause(e) == /\ e # "EXHAUSTED"
                    /\ e = "CANCELLED" => cancelFlag
                    /\ e = "BUDGET_EXHAUSTED" => BudgetExceeded

PrefetchInv ==
  PrefetchEnabled =>
    /\ fpc = "enter" \/ cpc \in {"join", "spawn"} => ~Exhausted
    /\ fpc = "done" => PrefetchCause(fres.err)
    /\ Fresh => PrefetchCause(slot.err)
    /\ cpc \in {"settle", "join", "spawn"} => PrefetchCause(result.err)
    /\ cpc \in {"join", "spawn"} => result.err # "CANCELLED"
    /\ cpc = "settle" /\ result.err = "OK" => result.page = page
    /\ cpc = "return" => /\ result.err = "CANCELLED" => cancelFlag
                         /\ result.err = "BUDGET_EXHAUSTED" => BudgetExceeded
                         /\ result.err \in Ended => ~inFlight
    /\ outcome \in Ended =>
         /\ ~inFlight /\ cpc \in {"idle", "return", "dtor", "destroyed"}
         /\ cpc = "return" => Follows(result.err)
    /\ outcome = "CANCELLED" => cancelFlag

\* Once the budget has stopped the stream no batch is on its way.
NoBatchComing ==
  /\ BudgetExceeded /\ fpc \notin Busy
  /\ fpc = "done" => fres.err # "OK"
  /\ Fresh => slot.err # "OK"
  /\ cpc \in Held => result.err # "OK"

BudgetStopInv ==
  PrefetchEnabled =>
    /\ phase = "stopped" => NoBatchComing \/ outcome \in Ended
    /\ cpc \in Held /\ result.err = "BUDGET_EXHAUSTED" => NoBatchComing

\* Nothing in flight means that all was delivered or that a call has failed.
EndInv ==
  PrefetchEnabled /\ ~inFlight =>
    /\ cpc = "idle" => phase # "flowing" \/ delivered = NPages
    /\ cpc = "return" => /\ result.err = "OK" => delivered + 1 = NPages
                         /\ result.err = "EXHAUSTED" => phase # "flowing" \/ delivered = NPages

PromiseInv ==
  /\ outcome \in Stopping => phase = "stopped"
  /\ DirectInv /\ PrefetchInv /\ BudgetStopInv /\ EndInv

-----------------------------------------------------------------------------
(* Cancellation, and what stream_done_ means without prefetch.             *)

\* A fetch that was not past its checks when cancel_flag_ was set.
NoLateBatch ==
  /\ fpc \notin Busy
  /\ fpc = "done" => fres.err # "OK"
  /\ Fresh => slot.err # "OK"

CancelInv ==
  /\ lateRequests \in {0, 1}
  /\ lateRequests = 1 => cancelFlag /\ fpc # "execute"
  /\ lateCalls > 0 => cancelFlag
  /\ lateOks \in {0, 1}
  /\ lateCalls = 0 \/ (lateCalls = 1 /\ cpc \in Held \cup {"collect", "fetching"})
       => lateOks = 0
  /\ lateCalls > 0 /\ ~PrefetchEnabled =>
       /\ cpc \in {"fetching", "return"} => NoLateBatch
       /\ cpc = "return" => result.err # "OK"
  /\ lateCalls > 0 /\ PrefetchEnabled =>
       /\ cpc \in {"join", "spawn"} => lateCalls = 1
       /\ cpc = "return" /\ inFlight => lateCalls = 1 /\ NoLateBatch
       /\ cpc = "idle" /\ inFlight => lateCalls = 1 /\ NoLateBatch
       /\ cpc = "collect" /\ lateCalls > 1 => NoLateBatch
       /\ cpc \in Held /\ lateCalls > 1 => result.err # "OK"

DoneInv ==
  /\ canceller = "stored" => cancelFlag
  /\ ~PrefetchEnabled /\ streamDone =>
       \/ cancelFlag \/ Exhausted \/ phase = "stopped"
       \/ fpc = "done" /\ fres.err = "BUDGET_EXHAUSTED"
       \/ cpc = "return" /\ result.err = "BUDGET_EXHAUSTED"

-----------------------------------------------------------------------------
(* Waiting, and what a call may cost.                                      *)

\* The consumer waits in collect_prefetch only for a result that is there or
\* that a thread inside fetch_one is going to publish: its wait cannot miss the
\* one notification there is.
NoLostWakeup ==
  /\ cpc = "collect" => ready \/ thread = "fetching"
  /\ thread = "fetching" => fpc # "idle"

\* A fetch in flight is running or has left its result.
FlightInv == inFlight => ready \/ thread = "fetching"

\* Activations of fetch_one that may have begun: the constructor starts one
\* and every call one more, with prefetch at its end.
Activations ==
  IF PrefetchEnabled THEN calls + One(cpc \notin {"collect", "settle", "join", "spawn"})
                     ELSE calls

\* Requests the activation in progress has made at most.
Tried == IF fpc = "enter" THEN 0
         ELSE IF fpc \in {"loop", "execute"} THEN retries ELSE retries + 1

\* The loop's retries, the prefetch that is started once more after a failure
\* and the caller who calls again do not multiply: n calls cause no more than
\* (max_retries + 1) (n + 1) requests.
Tries == MaxRetries + 1
RequestsBounded == metrics["request"] <= Tries * (calls + 1)

CostInv ==
  /\ fpc # "idle" => Activations > 0 /\ metrics["request"] <= Tries * (Activations - 1) + Tried
  /\ fpc = "idle" => metrics["request"] <= Tries * Activations

=============================================================================
