--------------------------- MODULE Engine_proofs ----------------------------
(***************************************************************************)
(* Theorems about Engine, for every number of pages, retries, calls, every *)
(* budget, every set of costs and every policy on the time window, with    *)
(* prefetch and without.                                                   *)
(***************************************************************************)
EXTENDS EngineInvariants, TLAPS

USE DEF flags, cursor, locals, history

-----------------------------------------------------------------------------
(* Type correctness.                                                       *)

\* Counting adds one to some counters, which stay natural numbers.
LEMMA CountedType ==
  ASSUME metrics \in [Counters -> Nat], NEW cs, Counted(cs)
  PROVE  metrics' \in [Counters -> Nat]
  BY DEF Counted

\* A failed fetch is a result without a page.
LEMMA ResultType ==
  ASSUME NEW e \in Codes
  PROVE  Result(e) \in Results
  BY FetchAssumption DEF Result, Results

LEMMA ErrorOfType == \A r \in Responses : ErrorOf(r) \in FetchErrors
  BY DEF Responses, Retryable, ErrorOf, FetchErrors

LEMMA InitType == Init => TypeInv
<1> SUFFICES ASSUME Init PROVE TypeInv
  OBVIOUS
<1>1. Result("OK") \in Results
  BY ResultType DEF Codes
<1>2. inFlight \in BOOLEAN /\ streamDone \in BOOLEAN
  BY DEF Init, FetchInit, Exhausted
<1>3. fpc \in {"enter", "idle"} /\ thread \in {"fetching", "none"}
  BY DEF Init
<1>4. metrics \in [Counters -> Nat]
  BY DEF Init, FetchInit
<1>5. FetchTypeOK
  <2>1. FetchInit
    BY DEF Init
  <2>2. cancelFlag \in BOOLEAN /\ sawLimit \in BOOLEAN /\ resp \in Responses
    BY <2>1 DEF FetchInit, Responses
  <2>3. page \in 0..NPages /\ retries \in 0..MaxRetries
    BY <2>1, FetchAssumption DEF FetchInit
  <2>4. window \in Windows /\ cycleWindow \in Windows /\ fres \in Results
    BY <2>1, <1>1, FetchAssumption DEF FetchInit
  <2>5. cost \in Nat /\ aborted \in Nat /\ lateRequests \in Nat
    BY <2>1 DEF FetchInit
  <2> QED
    BY <1>2, <1>3, <1>4, <2>2, <2>3, <2>4, <2>5 DEF FetchTypeOK
<1>6. TypeOK
  <2>1. /\ ready \in BOOLEAN /\ timedOut \in BOOLEAN /\ slot = Result("OK")
        /\ failures = 0 /\ cpc = "idle" /\ result = Result("OK") /\ canceller = "idle"
    BY DEF Init
  <2>2. /\ calls = 0 /\ delivered = 0 /\ outcome = "none" /\ phase = "flowing"
        /\ lateCalls = 0 /\ lateOks = 0
    BY DEF Init
  <2> QED
    BY <1>1, <1>2, <1>3, <1>5, <2>1, <2>2 DEF TypeOK, kMaxPrefetchRetries
<1> QED
  BY <1>3, <1>5, <1>6 DEF TypeInv, FetchType, InLoop

LEMMA FetchStepType == FetchType /\ FetchStep => FetchType'
<1> SUFFICES ASSUME FetchType, FetchStep PROVE FetchType'
  OBVIOUS
<1> USE FetchAssumption DEF FetchType, FetchTypeOK, InLoop
<1>0. \A e \in Codes : Result(e) \in Results
  BY ResultType
<1>1. CASE FetchExhausted
  BY <1>1, <1>0 DEF FetchExhausted, FetchReturn, Codes
<1>2. CASE FetchCancelled
  BY <1>2, <1>0 DEF FetchCancelled, FetchReturn, Codes
<1>3. CASE FetchOverBudget
  BY <1>3, <1>0 DEF FetchOverBudget, FetchReturn, Codes
<1>4. CASE FetchStart
  <2>1. page' = page /\ page < NPages
    BY <1>4 DEF FetchStart, Exhausted
  <2>2. retries' \in 0..MaxRetries /\ cycleWindow' \in Windows
    BY <1>4 DEF FetchStart
  <2> QED
    BY <1>4, <2>1, <2>2 DEF FetchStart
<1>5. CASE FetchSend
  BY <1>5 DEF FetchSend
<1>6. ASSUME NEW r \in Responses, FetchReceive(r) PROVE FetchType'
  <2>1. metrics' \in [Counters -> Nat]
    BY <1>6, CountedType DEF FetchReceive
  <2> QED
    BY <1>6, <2>1 DEF FetchReceive
<1>7. CASE HandleAborted
  BY <1>7, <1>0 DEF HandleAborted, FetchReturn, Codes
<1>8. CASE HandleRateLimit
  BY <1>8 DEF HandleRateLimit
<1>9. CASE HandleRetry
  <2>1. metrics' \in [Counters -> Nat]
    BY <1>9, CountedType DEF HandleRetry
  <2> QED
    BY <1>9, <2>1 DEF HandleRetry, MayRetry, RetriesLeft
<1>10. CASE FetchWake
  BY <1>10 DEF FetchWake
<1>11. CASE HandleTerminal
  <2>1. metrics' \in [Counters -> Nat]
    BY <1>11, CountedType DEF HandleTerminal
  <2>2. Result(ErrorOf(resp)) \in Results
    BY <1>0, ErrorOfType DEF Codes
  <2> QED
    BY <1>11, <2>1, <2>2 DEF HandleTerminal, FetchReturn
<1>12. CASE FetchAdvance
  <2>1. window' \in Windows
    BY <1>12 DEF FetchAdvance, AdvancedWindow
  <2> QED
    BY <1>12, <2>1 DEF FetchAdvance
<1>13. ASSUME NEW c \in Costs, FetchCost(c) PROVE FetchType'
  BY <1>13 DEF FetchCost
<1>14. CASE FetchFinish
  <2>1. metrics' \in [Counters -> Nat]
    BY <1>14, CountedType DEF FetchFinish
  <2>2. fres' \in Results
    BY <1>14 DEF FetchFinish, Fetched, Results, Codes
  <2> QED
    BY <1>14, <2>1, <2>2 DEF FetchFinish, Exhausted
<1> QED
  BY <1>1, <1>2, <1>3, <1>4, <1>5, <1>6, <1>7, <1>8, <1>9, <1>10, <1>11, <1>12, <1>13, <1>14
  DEF FetchStep

\* Every step of every thread keeps the types.
LEMMA NextType == TypeInv /\ [Next]_vars => TypeInv'
<1> SUFFICES ASSUME TypeInv, [Next]_vars PROVE TypeInv'
  OBVIOUS
<1> USE DEF TypeInv, InLoop
<1>0. /\ \A e \in Codes : Result(e) \in Results
      /\ slot.err \in Codes /\ result.err \in Codes
  BY ResultType DEF TypeOK, Results
<1>1. CASE Fetch
  <2>1. FetchType'
    BY <1>1, FetchStepType DEF Fetch
  <2> QED
    BY <1>1, <2>1 DEF Fetch, engineVars, consumerVars, prefetch, ledger, FetchType, TypeOK
<1> USE DEF prefetch, ledger, FetchType
<1>2. CASE Publish
  BY <1>2 DEF Publish, TypeOK, FetchTypeOK
<1>3. CASE Exit
  BY <1>3 DEF Exit, fetchVars, TypeOK, FetchTypeOK
<1>4. CASE NextBatchDirect
  BY <1>4 DEF NextBatchDirect, Calling, TypeOK, FetchTypeOK
<1>5. CASE NextBatchCollect
  BY <1>5 DEF NextBatchCollect, Calling, fetchVars, TypeOK, FetchTypeOK
<1>6. CASE NextBatchNothing
  <2>1. result' \in Results
    BY <1>0, <1>6 DEF NextBatchNothing, NothingLeft, Codes
  <2> QED
    BY <1>6, <2>1 DEF NextBatchNothing, Calling, fetchVars, TypeOK, FetchTypeOK
<1>7. CASE CollectTimeout
  <2>1. result' \in Results
    BY <1>0, <1>7 DEF CollectTimeout, Codes, FetchErrors
  <2> QED
    BY <1>7, <2>1 DEF CollectTimeout, TypeOK, FetchTypeOK
<1>8. CASE FetchDirectReturns
  BY <1>8 DEF FetchDirectReturns, TypeOK, FetchTypeOK
<1>9. CASE Collect
  BY <1>0, <1>9 DEF Collect, fetchVars, TypeOK, FetchTypeOK
<1>10. CASE SettleAgain
  <2>1. failures' \in 0..kMaxPrefetchRetries
    BY <1>10 DEF SettleAgain, Retried, TypeOK, kMaxPrefetchRetries
  <2>2. FetchType'
    BY <1>10 DEF SettleAgain, fetchVars, TypeOK, FetchTypeOK
  <2> QED
    BY <1>10, <2>1, <2>2 DEF SettleAgain, TypeOK
<1>11. CASE SettleDone
  <2>1. failures' \in 0..kMaxPrefetchRetries
    BY <1>11 DEF SettleDone, TypeOK, kMaxPrefetchRetries
  <2>2. FetchType'
    BY <1>11 DEF SettleDone, TypeOK, FetchTypeOK
  <2> QED
    BY <1>11, <2>1, <2>2 DEF SettleDone, TypeOK
<1>12. CASE StartJoin
  <2>1. ready' \in BOOLEAN
    BY <1>12 DEF StartJoin
  <2> QED
    BY <1>12, <2>1 DEF StartJoin, fetchVars, TypeOK, FetchTypeOK
<1>13. CASE StartSpawn
  BY <1>13 DEF StartSpawn, TypeOK, FetchTypeOK
<1>14. CASE Return
  <2>1. phase' \in {"flowing", "failed", "stopped"} /\ outcome' \in Codes
    BY <1>0, <1>14 DEF Return, TypeOK
  <2>2. delivered' \in Nat /\ lateOks' \in Nat
    BY <1>14 DEF Return, TypeOK
  <2> QED
    BY <1>14, <2>1, <2>2 DEF Return, fetchVars, TypeOK, FetchTypeOK
<1>15. CASE DestroyJoin
  BY <1>15 DEF DestroyJoin, fetchVars, TypeOK, FetchTypeOK
<1>16. CASE CancelFlag
  BY <1>16 DEF CancelFlag, consumerVars, TypeOK, FetchTypeOK
<1>17. CASE CancelDone
  BY <1>17 DEF CancelDone, consumerVars, TypeOK, FetchTypeOK
<1>18. CASE Destroy
  BY <1>18 DEF Destroy, TypeOK, FetchTypeOK
<1>19. CASE UNCHANGED vars
  BY <1>19 DEF vars, fetchVars, engineVars, consumerVars, TypeOK, FetchTypeOK
<1> QED
  BY <1>1, <1>2, <1>3, <1>4, <1>5, <1>6, <1>7, <1>8, <1>9, <1>10, <1>11, <1>12, <1>13,
     <1>14, <1>15, <1>16, <1>17, <1>18, <1>19
  DEF Next, NextBatch, Finishing, Working, Cancel, Destroyed

LEMMA TypeAlways == Spec => []TypeInv
  BY InitType, NextType, PTL DEF Spec

\* The state of the engine is well typed in every reachable state; in
\* particular the cursor never moves past the last page, no activation makes
\* more than max_retries retries, and at most kMaxPrefetchRetries failures
\* in a row are followed by another prefetch.
THEOREM TypeCorrect == Spec => []TypeOK
  BY TypeAlways, PTL DEF TypeInv

-----------------------------------------------------------------------------
(* One fetch at a time.                                                    *)

LEMMA InitThread == Init => ThreadInv
<1> SUFFICES ASSUME Init PROVE ThreadInv
  OBVIOUS
<1>1. CASE PrefetchEnabled /\ ~Exhausted
  BY <1>1 DEF Init, ThreadInv
<1>2. CASE ~(PrefetchEnabled /\ ~Exhausted)
  BY <1>2 DEF Init, ThreadInv
<1> QED
  BY <1>1, <1>2

\* A step of fetch_one begins and ends inside an activation.
LEMMA FetchStepBusy == FetchStep => fpc # "idle" /\ fpc' # "idle"
  BY DEF FetchStep, FetchExhausted, FetchCancelled, FetchOverBudget, FetchStart, FetchSend,
     FetchReceive, HandleAborted, HandleRateLimit, HandleRetry, FetchWake, HandleTerminal,
     FetchAdvance, FetchCost, FetchFinish, FetchReturn, MayRetry

LEMMA NextThread == TypeInv /\ ThreadInv /\ [Next]_vars => ThreadInv'
<1> SUFFICES ASSUME TypeInv, ThreadInv, [Next]_vars PROVE ThreadInv'
  OBVIOUS
<1> USE DEF ThreadInv, prefetch, ledger
<1>1. CASE Fetch
  BY <1>1, FetchStepBusy DEF Fetch, engineVars, consumerVars
<1>2. CASE Publish
  BY <1>2 DEF Publish
<1>3. CASE Exit
  BY <1>3 DEF Exit, fetchVars
<1>4. CASE NextBatchDirect
  BY <1>4 DEF NextBatchDirect, Calling
<1>5. CASE NextBatchCollect
  BY <1>5 DEF NextBatchCollect, Calling, fetchVars
<1>6. CASE NextBatchNothing
  BY <1>6 DEF NextBatchNothing, Calling, fetchVars
<1>7. CASE CollectTimeout
  BY <1>7 DEF CollectTimeout
<1>8. CASE FetchDirectReturns
  BY <1>8 DEF FetchDirectReturns
<1>9. CASE Collect
  BY <1>9 DEF Collect, fetchVars
<1>10. CASE SettleAgain
  BY <1>10 DEF SettleAgain, fetchVars
<1>11. CASE SettleDone
  BY <1>11 DEF SettleDone
<1>12. CASE StartJoin
  BY <1>12 DEF StartJoin, ThreadDone, fetchVars
<1>13. CASE StartSpawn
  BY <1>13 DEF StartSpawn
<1>14. CASE Return
  BY <1>14 DEF Return, fetchVars
<1>15. CASE DestroyJoin
  BY <1>15 DEF DestroyJoin, ThreadDone, fetchVars
<1>16. CASE CancelFlag
  BY <1>16 DEF CancelFlag, consumerVars
<1>17. CASE CancelDone
  BY <1>17 DEF CancelDone, consumerVars
<1>18. CASE Destroy
  BY <1>18 DEF Destroy
<1>19. CASE UNCHANGED vars
  BY <1>19 DEF vars, fetchVars, engineVars, consumerVars
<1> QED
  BY <1>1, <1>2, <1>3, <1>4, <1>5, <1>6, <1>7, <1>8, <1>9, <1>10, <1>11, <1>12, <1>13,
     <1>14, <1>15, <1>16, <1>17, <1>18, <1>19
  DEF Next, NextBatch, Finishing, Working, Cancel, Destroyed

LEMMA ThreadAlways == Spec => []ThreadInv
  BY InitThread, NextThread, TypeAlways, PTL
  DEF Spec

\* start_prefetch never assigns to a joinable thread, and fetch_one never runs
\* on two threads at once.
THEOREM OneFetcher == Spec => []SingleFetcher
<1>1. ThreadInv /\ TypeInv => SingleFetcher
  BY DEF ThreadInv, TypeInv, TypeOK, SingleFetcher
<1> QED
  BY <1>1, ThreadAlways, TypeAlways, PTL

-----------------------------------------------------------------------------
(* What one activation of fetch_one keeps, the other steps leave alone.    *)

LEMMA OtherSteps ==
  ASSUME ThreadInv, [Next]_vars, ~Fetch
  PROVE  /\ UNCHANGED <<page, window, cost, metrics, sawLimit, cycleWindow, aborted,
                        lateRequests>>
         /\ fpc' = fpc \/ (fpc \notin Busy /\ fpc' \notin Busy)
<1> USE DEF Busy, InLoop
<1>1. CASE Publish
  BY <1>1 DEF Publish
<1>2. CASE Exit
  BY <1>2 DEF Exit, fetchVars
<1>3. CASE NextBatchDirect
  BY <1>3 DEF NextBatchDirect, Calling, ThreadInv
<1>4. CASE NextBatchCollect \/ NextBatchNothing
  BY <1>4 DEF NextBatchCollect, NextBatchNothing, fetchVars
<1>5. CASE CollectTimeout
  BY <1>5 DEF CollectTimeout
<1>6. CASE FetchDirectReturns
  BY <1>6 DEF FetchDirectReturns
<1>7. CASE Collect \/ SettleAgain \/ StartJoin \/ Return \/ DestroyJoin
  BY <1>7 DEF Collect, SettleAgain, StartJoin, Return, DestroyJoin, fetchVars
<1>8. CASE SettleDone
  BY <1>8 DEF SettleDone
<1>9. CASE StartSpawn
  BY <1>9 DEF StartSpawn, ThreadInv
<1>10. CASE CancelFlag \/ CancelDone
  BY <1>10 DEF CancelFlag, CancelDone
<1>11. CASE Destroy
  BY <1>11 DEF Destroy
<1>12. CASE UNCHANGED vars
  BY <1>12 DEF vars, fetchVars
<1> QED
  BY <1>1, <1>2, <1>3, <1>4, <1>5, <1>6, <1>7, <1>8, <1>9, <1>10, <1>11, <1>12
  DEF Next, NextBatch, Finishing, Working, Cancel, Destroyed

AccountInv == RequestsAccountedFor /\ SuccessesCountPages

LEMMA InitAccount == Init => AccountInv
  BY DEF Init, FetchInit, AccountInv, RequestsAccountedFor, SuccessesCountPages, Counters, One

LEMMA FetchAccount == TypeInv /\ AccountInv /\ FetchStep => AccountInv'
<1> SUFFICES ASSUME TypeInv, AccountInv, FetchStep PROVE AccountInv'
  OBVIOUS
<1>0. \A c \in Counters : metrics[c] \in Nat
  BY DEF TypeInv, FetchType, FetchTypeOK
<1>00. aborted \in Nat /\ page \in Nat /\ resp \in Responses
  BY FetchAssumption DEF TypeInv, FetchType, FetchTypeOK
<1> USE <1>0, <1>00 DEF AccountInv, RequestsAccountedFor, SuccessesCountPages, One, Counters
<1>1. CASE FetchExhausted \/ FetchOverBudget \/ FetchCancelled
  BY <1>1 DEF FetchExhausted, FetchOverBudget, FetchCancelled, FetchReturn
<1>2. CASE FetchStart \/ FetchSend
  BY <1>2 DEF FetchStart, FetchSend
<1>3. ASSUME NEW r \in Responses, FetchReceive(r) PROVE AccountInv'
  BY <1>3 DEF FetchReceive, Counted
<1>4. CASE HandleAborted
  BY <1>4 DEF HandleAborted, FetchReturn
<1>5. CASE HandleRateLimit
  BY <1>5 DEF HandleRateLimit
<1>6. CASE HandleRetry
  BY <1>6 DEF HandleRetry, MayRetry, Counted
<1>7. CASE FetchWake
  BY <1>7 DEF FetchWake
<1>8. CASE HandleTerminal
  <2>1. CounterOf(ErrorOf(resp)) \in {"rate_limit", "server", "client", "network", "parse"}
    BY DEF CounterOf, ErrorOf, Responses, Retryable
  <2> QED
    BY <1>8, <2>1 DEF HandleTerminal, MayRetry, FetchReturn, Counted
<1>9. CASE FetchAdvance
  BY <1>9 DEF FetchAdvance
<1>10. ASSUME NEW c \in Costs, FetchCost(c) PROVE AccountInv'
  BY <1>10 DEF FetchCost
<1>11. CASE FetchFinish
  BY <1>11 DEF FetchFinish, FinishCounters, Counted
<1> QED
  BY <1>1, <1>2, <1>3, <1>4, <1>5, <1>6, <1>7, <1>8, <1>9, <1>10, <1>11 DEF FetchStep

LEMMA NextAccount ==
  TypeInv /\ ThreadInv /\ AccountInv /\ [Next]_vars => AccountInv'
<1> SUFFICES ASSUME TypeInv, ThreadInv, AccountInv, [Next]_vars PROVE AccountInv'
  OBVIOUS
<1>1. CASE Fetch
  BY <1>1, FetchAccount DEF Fetch
<1>2. CASE ~Fetch
  BY <1>2, OtherSteps
  DEF AccountInv, RequestsAccountedFor, SuccessesCountPages, One, Busy, InLoop
<1> QED
  BY <1>1, <1>2

\* The counters of METRICS.md add up in every reachable state: no request of
\* the transport is lost or counted twice, whichever thread fetches.
THEOREM RequestAccounting == Spec => []RequestsAccountedFor
  BY InitAccount, NextAccount, TypeAlways, ThreadAlways, PTL DEF Spec, AccountInv

\* Successes are the pages the cursor moved past.
THEOREM SuccessAccounting == Spec => []SuccessesCountPages
  BY InitAccount, NextAccount, TypeAlways, ThreadAlways, PTL DEF Spec, AccountInv

-----------------------------------------------------------------------------
(* The budget and the time window.                                         *)

LEMMA FetchBudget == TypeInv /\ BudgetRespected /\ FetchStep => BudgetRespected'
<1> SUFFICES ASSUME TypeInv, BudgetRespected, FetchStep, Budget > 0 PROVE BudgetRespected'
  BY DEF BudgetRespected
<1>0. cost \in Nat /\ Budget \in Nat /\ Costs \subseteq Nat
  BY FetchAssumption DEF TypeInv, FetchType, FetchTypeOK
<1> USE <1>0 DEF BudgetRespected
<1>1. CASE FetchStart
  BY <1>1 DEF FetchStart, BudgetExceeded
<1>2. ASSUME NEW c \in Costs, FetchCost(c) PROVE BudgetRespected'
  BY <1>2 DEF FetchCost
<1>3. CASE FetchExhausted \/ FetchOverBudget \/ FetchCancelled
  BY <1>3 DEF FetchExhausted, FetchOverBudget, FetchCancelled, FetchReturn
<1>4. CASE FetchSend \/ HandleRateLimit \/ FetchWake \/ FetchAdvance
  BY <1>4 DEF FetchSend, HandleRateLimit, FetchWake, FetchAdvance
<1>5. ASSUME NEW r \in Responses, FetchReceive(r) PROVE BudgetRespected'
  BY <1>5 DEF FetchReceive
<1>6. CASE HandleAborted \/ HandleTerminal
  BY <1>6 DEF HandleAborted, HandleTerminal, FetchReturn
<1>7. CASE HandleRetry \/ FetchFinish
  BY <1>7 DEF HandleRetry, MayRetry, FetchFinish
<1> QED
  BY <1>1, <1>2, <1>3, <1>4, <1>5, <1>6, <1>7 DEF FetchStep

\* A budget is overshot by less than the cost of one response, and no request
\* leaves once it is reached, although it is read once per activation.
THEOREM BudgetSafe == Spec => []BudgetRespected
<1>1. Init => BudgetRespected
  <2> SUFFICES ASSUME Init, Budget > 0 PROVE BudgetRespected
    BY DEF BudgetRespected
  <2>1. cost = 0 /\ fpc \in {"enter", "idle"}
    BY DEF Init, FetchInit
  <2>2. PICK c \in Costs : c \in Nat
    BY FetchAssumption
  <2> QED
    BY <2>1, <2>2, FetchAssumption DEF BudgetRespected
<1>2. TypeInv /\ ThreadInv /\ BudgetRespected /\ [Next]_vars => BudgetRespected'
  <2> SUFFICES ASSUME TypeInv, ThreadInv, BudgetRespected, [Next]_vars PROVE BudgetRespected'
    OBVIOUS
  <2>1. CASE Fetch
    BY <2>1, FetchBudget DEF Fetch
  <2>2. CASE ~Fetch
    BY <2>2, OtherSteps DEF BudgetRespected, Busy, InLoop
  <2> QED
    BY <2>1, <2>2
<1> QED
  BY <1>1, <1>2, TypeAlways, ThreadAlways, PTL DEF Spec

\* An activation shrinks the window at most once and grows it at most once,
\* and never both, for every policy.
THEOREM WindowSafe == Spec => []WindowMovesOncePerCycle
<1> USE DEF WindowMovesOncePerCycle
<1>1. Init => WindowMovesOncePerCycle
  BY DEF Init, FetchInit
<1>2. TypeInv /\ WindowMovesOncePerCycle /\ FetchStep => WindowMovesOncePerCycle'
  <2> SUFFICES ASSUME TypeInv, WindowMovesOncePerCycle, FetchStep
               PROVE  WindowMovesOncePerCycle'
    OBVIOUS
  <2>1. CASE FetchExhausted \/ FetchOverBudget \/ FetchCancelled \/ HandleAborted
             \/ HandleTerminal \/ FetchFinish
    BY <2>1 DEF FetchExhausted, FetchOverBudget, FetchCancelled, HandleAborted,
                HandleTerminal, FetchFinish, FetchReturn
  <2>2. CASE FetchStart \/ FetchSend \/ FetchWake \/ HandleRetry
    BY <2>2 DEF FetchStart, FetchSend, FetchWake, HandleRetry, MayRetry
  <2>3. ASSUME NEW r \in Responses, FetchReceive(r) PROVE WindowMovesOncePerCycle'
    BY <2>3 DEF FetchReceive
  <2>4. CASE HandleRateLimit
    BY <2>4 DEF HandleRateLimit
  <2>5. CASE FetchAdvance
    BY <2>5 DEF FetchAdvance, AdvancedWindow
  <2>6. ASSUME NEW c \in Costs, FetchCost(c) PROVE WindowMovesOncePerCycle'
    BY <2>6 DEF FetchCost
  <2> QED
    BY <2>1, <2>2, <2>3, <2>4, <2>5, <2>6 DEF FetchStep
<1>3. TypeInv /\ ThreadInv /\ WindowMovesOncePerCycle /\ [Next]_vars
        => WindowMovesOncePerCycle'
  <2> SUFFICES ASSUME TypeInv, ThreadInv, WindowMovesOncePerCycle, [Next]_vars
               PROVE  WindowMovesOncePerCycle'
    OBVIOUS
  <2>1. CASE Fetch
    BY <2>1, <1>2 DEF Fetch
  <2>2. CASE ~Fetch
    BY <2>2, OtherSteps DEF Busy, InLoop
  <2> QED
    BY <2>1, <2>2
<1> QED
  BY <1>1, <1>3, TypeAlways, ThreadAlways, PTL DEF Spec

-----------------------------------------------------------------------------
(* The pipeline: from the cursor through the slot to the consumer.         *)

LEMMA InitPipeline == Init => PipelineInv
<1> SUFFICES ASSUME Init PROVE PipelineInv
  OBVIOUS
<1>1. /\ page = 0 /\ delivered = 0 /\ ready = FALSE /\ cpc = "idle" /\ timedOut = FALSE
      /\ slot = Result("OK") /\ fpc \in {"enter", "idle"}
  BY DEF Init, FetchInit
<1> QED
  BY <1>1, InitThread
  DEF PipelineInv, FreshInv, TimeoutInv, NothingLost, InFetch, InSlot, InResult, One, Held,
      Result

LEMMA ResultFields ==
  ASSUME TypeInv
  PROVE  /\ page \in Nat /\ delivered \in Nat
         /\ slot.page \in Nat /\ fres.page \in Nat /\ result.page \in Nat
         /\ resp \in Responses
  BY FetchAssumption DEF TypeInv, TypeOK, FetchType, FetchTypeOK, Results

LEMMA FetchPipeline == TypeInv /\ PipelineInv /\ Fetch => PipelineInv'
<1> SUFFICES ASSUME TypeInv, PipelineInv, Fetch PROVE PipelineInv'
  OBVIOUS
<1>1. ThreadInv'
  BY NextThread DEF PipelineInv, Next
<1>2. UNCHANGED <<cpc, thread, inFlight, ready, slot, result, delivered, timedOut>>
  BY DEF Fetch, engineVars, consumerVars, prefetch, ledger
<1>3. cancelFlag' = cancelFlag
  BY DEF Fetch, FetchStep, FetchExhausted, FetchCancelled, FetchOverBudget, FetchStart,
     FetchSend, FetchReceive, HandleAborted, HandleRateLimit, HandleRetry, FetchWake,
     HandleTerminal, FetchAdvance, FetchCost, FetchFinish
<1>4. TimeoutInv'
  BY <1>2, <1>3 DEF PipelineInv, TimeoutInv
<1>5. ~ready /\ slot.page = 0 /\ fpc # "idle"
  BY FetchStepBusy DEF Fetch, PipelineInv, ThreadInv, FreshInv
<1>6. FreshInv' /\ NothingLost'
  <2> USE ResultFields, <1>2, <1>5
      DEF PipelineInv, FreshInv, NothingLost, InFetch, InSlot, InResult, One, Held
  <2>1. CASE FetchExhausted \/ FetchCancelled \/ FetchOverBudget \/ HandleAborted
    BY <2>1 DEF FetchExhausted, FetchCancelled, FetchOverBudget, HandleAborted, FetchReturn,
       Result
  <2>2. CASE FetchStart \/ FetchSend \/ HandleRateLimit \/ HandleRetry \/ FetchWake
    BY <2>2 DEF FetchStart, FetchSend, HandleRateLimit, HandleRetry, FetchWake, MayRetry
  <2>3. ASSUME NEW r \in Responses, FetchReceive(r) PROVE FreshInv' /\ NothingLost'
    BY <2>3 DEF FetchReceive
  <2>4. CASE HandleTerminal
    <3>1. ErrorOf(resp) # "OK"
      BY ErrorOfType DEF FetchErrors
    <3> QED
      BY <2>4, <3>1 DEF HandleTerminal, FetchReturn, Result, MayRetry
  <2>5. CASE FetchAdvance
    BY <2>5 DEF FetchAdvance
  <2>6. ASSUME NEW c \in Costs, FetchCost(c) PROVE FreshInv' /\ NothingLost'
    BY <2>6 DEF FetchCost
  <2>7. CASE FetchFinish
    BY <2>7 DEF FetchFinish, Fetched
  <2> QED
    BY <2>1, <2>2, <2>3, <2>4, <2>5, <2>6, <2>7 DEF Fetch, FetchStep
<1>7. cpc' \in Held /\ result'.err = "OK" => result'.page = delivered' + 1
  BY <1>2 DEF PipelineInv
<1> QED
  BY <1>1, <1>4, <1>6, <1>7 DEF PipelineInv

LEMMA NextPipeline == TypeInv /\ PipelineInv /\ [Next]_vars => PipelineInv'
<1> SUFFICES ASSUME TypeInv, PipelineInv, [Next]_vars PROVE PipelineInv'
  OBVIOUS
<1>0. ThreadInv'
  BY NextThread DEF PipelineInv
<1>00. CASE Fetch
  BY <1>00, FetchPipeline
<1> USE ResultFields, <1>0
    DEF PipelineInv, ThreadInv, FreshInv, TimeoutInv, NothingLost, InFetch, InSlot, InResult,
        One, Held, prefetch, ledger
<1>1. CASE Publish
  BY <1>1 DEF Publish
<1>2. CASE Exit
  BY <1>2 DEF Exit, fetchVars
<1>3. CASE NextBatchDirect
  BY <1>3 DEF NextBatchDirect, Calling
<1>4. CASE NextBatchCollect
  BY <1>4 DEF NextBatchCollect, Calling, fetchVars
<1>5. CASE NextBatchNothing
  BY <1>5 DEF NextBatchNothing, Calling, fetchVars, NothingLeft, Result
<1>6. CASE CollectTimeout
  BY <1>6 DEF CollectTimeout, Result
<1>7. CASE FetchDirectReturns
  BY <1>7 DEF FetchDirectReturns
<1>8. CASE Collect
  BY <1>8 DEF Collect, fetchVars, Result
<1>9. CASE SettleAgain
  BY <1>9 DEF SettleAgain, Retried, fetchVars
<1>10. CASE SettleDone
  BY <1>10 DEF SettleDone
<1>11. CASE StartJoin
  BY <1>11 DEF StartJoin, ThreadDone, fetchVars
<1>12. CASE StartSpawn
  BY <1>12 DEF StartSpawn
<1>13. CASE Return
  BY <1>13 DEF Return, fetchVars
<1>14. CASE DestroyJoin
  BY <1>14 DEF DestroyJoin, ThreadDone, fetchVars
<1>15. CASE CancelFlag
  BY <1>15 DEF CancelFlag, consumerVars
<1>16. CASE CancelDone
  BY <1>16 DEF CancelDone, consumerVars
<1>17. CASE Destroy
  BY <1>17 DEF Destroy
<1>18. CASE UNCHANGED vars
  BY <1>18 DEF vars, fetchVars, engineVars, consumerVars
<1> QED
  BY <1>00, <1>1, <1>2, <1>3, <1>4, <1>5, <1>6, <1>7, <1>8, <1>9, <1>10, <1>11, <1>12,
     <1>13, <1>14, <1>15, <1>16, <1>17, <1>18
  DEF Next, NextBatch, Finishing, Working, Cancel, Destroyed

LEMMA PipelineAlways == Spec => []PipelineInv
  BY InitPipeline, NextPipeline, TypeAlways, PTL DEF Spec

\* Batches are returned in the order of the server's pages, none skipped and
\* none twice, through retries, failures, timeouts and cancellations.
THEOREM BatchesInOrder == Spec => []InOrder
<1>1. PipelineInv => InOrder
  BY DEF PipelineInv, InOrder, Held
<1> QED
  BY <1>1, PipelineAlways, PTL

\* Unless collect_prefetch has timed out, every page the cursor has moved past
\* is either delivered or still held by the engine.
THEOREM NoPageLost == Spec => []NothingLost
<1>1. PipelineInv => NothingLost
  BY DEF PipelineInv
<1> QED
  BY <1>1, PipelineAlways, PTL

-----------------------------------------------------------------------------
(* Engine implements BatchStream.                                          *)

LEMMA InitPromise == Init => PromiseInv
<1> SUFFICES ASSUME Init PROVE PromiseInv
  OBVIOUS
<1>1. /\ page = 0 /\ delivered = 0 /\ ready = FALSE /\ cpc = "idle" /\ outcome = "none"
      /\ phase = "flowing" /\ fpc \in {"enter", "idle"} /\ result = Result("OK")
  BY DEF Init, FetchInit
<1>2. PrefetchEnabled => (inFlight <=> ~Exhausted) /\ (fpc = "enter" => ~Exhausted)
  BY DEF Init
<1> QED
  BY <1>1, <1>2
  DEF PromiseInv, DirectInv, PrefetchInv, BudgetStopInv, EndInv, Fresh, Stopping, Ended, Held,
      Exhausted

LEMMA Fields ==
  ASSUME TypeInv
  PROVE  /\ page \in Nat /\ delivered \in Nat /\ cost \in Nat /\ Budget \in Nat
         /\ Costs \subseteq Nat /\ resp \in Responses
         /\ fres.err \in Codes /\ slot.err \in Codes /\ result.err \in Codes
         /\ fres.page \in Nat /\ slot.page \in Nat /\ result.page \in Nat
  BY FetchAssumption DEF TypeInv, TypeOK, FetchType, FetchTypeOK, Results

\* A step of fetch_one moves the cursor and the cost only inside an activation
\* that passed the checks on entry, and returns an end only with its cause.
LEMMA FetchEffect ==
  ASSUME TypeInv, FetchStep
  PROVE  /\ cancelFlag' = cancelFlag
         /\ BudgetExceeded => BudgetExceeded'
         /\ fpc \notin Busy => UNCHANGED <<page, cost>>
         /\ fpc # "handle" => UNCHANGED page
         /\ fpc' = "done" => UNCHANGED <<page, cost>>
         /\ fpc' # "enter" /\ fpc' # "idle" /\ fpc # "done" /\ fpc # "idle"
         /\ fpc' = "done" => /\ fres'.err = "EXHAUSTED" => Exhausted /\ fpc = "enter"
                             /\ fres'.err = "CANCELLED" => ~Exhausted /\ cancelFlag
                             /\ fres'.err = "BUDGET_EXHAUSTED" =>
                                  ~Exhausted /\ ~cancelFlag /\ BudgetExceeded
                             /\ fpc \notin Busy => fres'.err \in Stopping
         /\ fpc \notin Busy /\ fpc' \in Busy => ~Exhausted /\ ~cancelFlag /\ ~BudgetExceeded
<1> USE Fields DEF Busy, InLoop, Exhausted, BudgetExceeded
<1>1. CASE FetchExhausted
  BY <1>1 DEF FetchExhausted, FetchReturn, Result, Stopping
<1>2. CASE FetchCancelled
  BY <1>2 DEF FetchCancelled, LoopCancelled, FetchReturn, Result, Stopping, TypeInv, FetchType
<1>3. CASE FetchOverBudget
  BY <1>3 DEF FetchOverBudget, FetchReturn, Result, Stopping
<1>4. CASE FetchStart
  BY <1>4 DEF FetchStart
<1>5. CASE FetchSend \/ HandleRateLimit \/ FetchWake \/ HandleRetry
  BY <1>5 DEF FetchSend, HandleRateLimit, FetchWake, HandleRetry, MayRetry
<1>6. ASSUME NEW r \in Responses, FetchReceive(r) PROVE fpc = "execute" /\ fpc' = "handle" /\ UNCHANGED <<page, cost, cancelFlag>>
  BY <1>6 DEF FetchReceive
<1>7. CASE HandleAborted
  BY <1>7 DEF HandleAborted, FetchReturn, Result, TypeInv, FetchType
<1>8. CASE HandleTerminal
  <2>1. ErrorOf(resp) \in FetchErrors
    BY ErrorOfType
  <2>2. fres'.err = ErrorOf(resp) /\ fpc' = "done" /\ fpc = "handle"
        /\ UNCHANGED <<page, cost, cancelFlag>>
    BY <1>8 DEF HandleTerminal, FetchReturn, Result, MayRetry
  <2> QED
    BY <2>1, <2>2 DEF FetchErrors
<1>9. CASE FetchAdvance
  BY <1>9 DEF FetchAdvance
<1>10. ASSUME NEW c \in Costs, FetchCost(c)
       PROVE  /\ fpc = "cost" /\ fpc' = "finish" /\ UNCHANGED <<page, cancelFlag>>
              /\ BudgetExceeded => BudgetExceeded'
  BY <1>10 DEF FetchCost
<1>11. CASE FetchFinish
  BY <1>11 DEF FetchFinish, Fetched
<1> QED
  BY <1>1, <1>2, <1>3, <1>4, <1>5, <1>6, <1>7, <1>8, <1>9, <1>10, <1>11 DEF FetchStep

LEMMA FetchPromise == TypeInv /\ PipelineInv /\ PromiseInv /\ Fetch => PromiseInv'
<1> SUFFICES ASSUME TypeInv, PipelineInv, PromiseInv, Fetch PROVE PromiseInv'
  OBVIOUS
<1>1. UNCHANGED <<cpc, thread, inFlight, ready, slot, result, delivered, outcome, phase>>
  BY DEF Fetch, engineVars, consumerVars, prefetch, ledger
<1>2. ~ready /\ fpc # "idle" /\ fpc' # "idle"
  BY FetchStepBusy DEF Fetch, PipelineInv, ThreadInv, FreshInv
<1>3. ~PrefetchEnabled => cpc = "fetching"
  BY <1>2 DEF PipelineInv, ThreadInv
<1>4. PrefetchEnabled => thread = "fetching"
  BY <1>2 DEF PipelineInv, ThreadInv
<1>5. cpc \in {"settle", "join", "spawn"} => timedOut \/ ~PrefetchEnabled
  BY <1>4 DEF PipelineInv, FreshInv
<1>6. timedOut => cpc \notin {"join", "spawn"} /\ (cpc = "settle" => result.err # "OK")
  BY DEF PipelineInv, TimeoutInv
<1> USE Fields, FetchEffect, <1>1, <1>2, <1>3, <1>4, <1>5, <1>6
    DEF Fetch, PromiseInv, Busy, InLoop, Held, Ended, Stopping, Fresh
<1>7. DirectInv'
  BY DEF DirectInv, Cause, Follows, Exhausted
<1>8. PrefetchInv'
  BY DEF PrefetchInv, PrefetchCause, Follows, Exhausted
<1>9. BudgetStopInv'
  BY DEF BudgetStopInv, NoBatchComing
<1>10. EndInv'
  BY DEF EndInv
<1> QED
  BY <1>7, <1>8, <1>9, <1>10

LEMMA NextPromise == TypeInv /\ PipelineInv /\ PromiseInv /\ [Next]_vars => PromiseInv'
<1> SUFFICES ASSUME TypeInv, PipelineInv, PromiseInv, [Next]_vars PROVE PromiseInv'
  OBVIOUS
<1>0. CASE Fetch
  BY <1>0, FetchPromise
<1> USE Fields
    DEF PipelineInv, ThreadInv, FreshInv, TimeoutInv, NothingLost, InFetch, InSlot, InResult,
        One, PromiseInv, DirectInv, Cause, Follows, PrefetchInv, PrefetchCause, BudgetStopInv,
        NoBatchComing, EndInv, Busy, InLoop, Held, Ended, Stopping, Fresh, Exhausted,
        BudgetExceeded, prefetch, ledger
<1>1. CASE Publish
  BY <1>1 DEF Publish
<1>2. CASE Exit
  BY <1>2 DEF Exit, fetchVars
<1>3. CASE NextBatchDirect
  BY <1>3 DEF NextBatchDirect, Calling
<1>4. CASE NextBatchCollect
  BY <1>4 DEF NextBatchCollect, Calling, fetchVars
<1>5. CASE NextBatchNothing
  BY <1>5 DEF NextBatchNothing, Calling, fetchVars, NothingLeft, Result
<1>6. CASE CollectTimeout
  BY <1>6 DEF CollectTimeout, Result
<1>7. CASE FetchDirectReturns
  BY <1>7 DEF FetchDirectReturns
<1>8. CASE Collect
  BY <1>8 DEF Collect, fetchVars, Result
<1>9. CASE SettleAgain
  BY <1>9 DEF SettleAgain, Retried, fetchVars
<1>10. CASE SettleDone
  BY <1>10 DEF SettleDone, Retried
<1>11. CASE StartJoin
  BY <1>11 DEF StartJoin, ThreadDone, fetchVars
<1>12. CASE StartSpawn
  BY <1>12 DEF StartSpawn
<1>13. CASE Return
  BY <1>13 DEF Return, fetchVars
<1>14. CASE DestroyJoin
  BY <1>14 DEF DestroyJoin, ThreadDone, fetchVars
<1>15. CASE CancelFlag
  BY <1>15 DEF CancelFlag, consumerVars
<1>16. CASE CancelDone
  BY <1>16 DEF CancelDone, consumerVars
<1>17. CASE Destroy
  BY <1>17 DEF Destroy
<1>18. CASE UNCHANGED vars
  BY <1>18 DEF vars, fetchVars, engineVars, consumerVars
<1> QED
  BY <1>0, <1>1, <1>2, <1>3, <1>4, <1>5, <1>6, <1>7, <1>8, <1>9, <1>10, <1>11, <1>12,
     <1>13, <1>14, <1>15, <1>16, <1>17, <1>18
  DEF Next, NextBatch, Finishing, Working, Cancel, Destroyed

LEMMA PromiseAlways == Spec => []PromiseInv
  BY InitPromise, NextPromise, TypeAlways, PipelineAlways, PTL DEF Spec

\* Only the return of a call changes what the consumer has seen.
LEMMA OnlyReturn ==
  ASSUME [Next]_vars, ~Return
  PROVE  UNCHANGED <<delivered, outcome, phase>>
  BY DEF Next, Fetch, Publish, Exit, NextBatch, NextBatchDirect, NextBatchCollect,
     NextBatchNothing, Calling, CollectTimeout, Finishing, Working, FetchDirectReturns, Collect,
     SettleAgain, SettleDone, StartJoin, StartSpawn, DestroyJoin, Cancel, CancelFlag,
     CancelDone, Destroy, Destroyed, vars, engineVars, consumerVars, ledger

\* The engine implements BatchStream, with prefetch and without: what next_batch
\* returns, over any sequence of calls, is the pages in order, each once, mixed
\* with errors; EXHAUSTED is honest until a call fails, and an end is final.
THEOREM StreamRefinement == Spec => StreamPromise
<1>1. Init => Stream!StreamInit
  BY DEF Init, Stream!StreamInit
<1>2. TypeInv /\ PipelineInv /\ PromiseInv /\ [Next]_vars
        => [Stream!StreamNext]_Stream!streamVars
  <2> SUFFICES ASSUME TypeInv, PipelineInv, PromiseInv, [Next]_vars
               PROVE  [Stream!StreamNext]_Stream!streamVars
    OBVIOUS
  <2>1. CASE ~Return
    BY <2>1, OnlyReturn DEF Stream!streamVars
  <2>2. CASE Return
    <3> USE <2>2, Fields DEF Return
    <3>1. CASE result.err = "OK"
      <4>1. phase # "stopped"
        BY <3>1 DEF PromiseInv, DirectInv, PrefetchInv, BudgetStopInv, NoBatchComing, Follows,
           Stopping, Ended, Held
      <4>2. result.page = delivered + 1 /\ result.page <= NPages
        BY <3>1, FetchAssumption DEF PipelineInv, Held, TypeInv, TypeOK, Results
      <4> QED
        BY <3>1, <4>1, <4>2, FetchAssumption DEF Stream!StreamNext, Stream!Deliver, Stopping
    <3>2. CASE result.err \in Stopping
      <4>1. result.err = "EXHAUSTED" => delivered = NPages \/ phase # "flowing"
        <5>1. CASE PrefetchEnabled
          BY <5>1 DEF PromiseInv, PrefetchInv, EndInv, Ended
        <5>2. CASE ~PrefetchEnabled
          BY <5>2 DEF PromiseInv, DirectInv, Cause, Exhausted, PipelineInv, ThreadInv,
             TimeoutInv, FreshInv, NothingLost, InFetch, InSlot, InResult, One, Held
        <5> QED
          BY <5>1, <5>2
      <4>2. Follows(result.err) \/ outcome \notin Ended
        BY DEF PromiseInv, DirectInv, PrefetchInv
      <4>3. Stream!Stop(result.err)
        BY <3>2, <4>1, <4>2 DEF Stream!Stop, Follows, Stopping, Ended
      <4> QED
        BY <3>2, <4>3 DEF Stream!StreamNext, Stopping
    <3>3. CASE result.err \in FetchErrors
      <4>1. outcome \notin Ended
        BY <3>3 DEF PromiseInv, DirectInv, PrefetchInv, Follows, Ended, Stopping, FetchErrors
      <4>2. Stream!Fail(result.err)
        BY <3>3, <4>1 DEF Stream!Fail, Ended, Stopping, FetchErrors
      <4> QED
        BY <3>3, <4>2 DEF Stream!StreamNext
    <3> QED
      BY <3>1, <3>2, <3>3 DEF Codes, Stopping
  <2> QED
    BY <2>1, <2>2
<1> QED
  BY <1>1, <1>2, TypeAlways, PipelineAlways, PromiseAlways, PTL
  DEF Spec, StreamPromise, Stream!StreamSpec

-----------------------------------------------------------------------------
(* Cancellation.                                                           *)

LEMMA InitCancel == Init => CancelInv /\ DoneInv
<1> SUFFICES ASSUME Init PROVE CancelInv /\ DoneInv
  OBVIOUS
<1>1. /\ cpc = "idle" /\ canceller = "idle" /\ lateCalls = 0 /\ lateOks = 0
      /\ lateRequests = 0 /\ (streamDone => Exhausted)
  BY DEF Init, FetchInit
<1> QED
  BY <1>1 DEF CancelInv, DoneInv

\* The transport is entered only while the flag is down.
LEMMA FetchLate ==
  ASSUME TypeInv, FetchStep
  PROVE  /\ fpc' = "execute" => ~cancelFlag
         /\ \/ UNCHANGED lateRequests
            \/ fpc = "execute" /\ fpc' = "handle" /\ ~cancelFlag /\ UNCHANGED lateRequests
            \/ fpc = "execute" /\ fpc' = "handle" /\ cancelFlag
               /\ lateRequests' = lateRequests + 1
         /\ streamDone' = streamDone \/ Exhausted
              \/ (fpc' = "done" /\ fres'.err = "BUDGET_EXHAUSTED")
<1> USE DEF TypeInv, FetchType, FetchTypeOK
<1>1. CASE FetchExhausted \/ FetchCancelled \/ FetchOverBudget \/ HandleAborted
  BY <1>1 DEF FetchExhausted, FetchCancelled, FetchOverBudget, HandleAborted, FetchReturn,
     Result
<1>2. CASE FetchStart \/ FetchSend \/ HandleRateLimit \/ HandleRetry \/ FetchWake
  BY <1>2 DEF FetchStart, FetchSend, HandleRateLimit, HandleRetry, FetchWake, MayRetry,
     LoopCancelled
<1>3. ASSUME NEW r \in Responses, FetchReceive(r)
      PROVE  /\ fpc = "execute" /\ fpc' = "handle" /\ UNCHANGED <<streamDone, cancelFlag>>
             /\ lateRequests' = IF cancelFlag THEN lateRequests + 1 ELSE lateRequests
  BY <1>3 DEF FetchReceive
<1>4. CASE HandleTerminal \/ FetchAdvance \/ FetchFinish
  BY <1>4 DEF HandleTerminal, FetchAdvance, FetchFinish, FetchReturn
<1>5. ASSUME NEW c \in Costs, FetchCost(c)
      PROVE  fpc' = "finish" /\ UNCHANGED <<streamDone, lateRequests>>
  BY <1>5 DEF FetchCost
<1> QED
  BY <1>1, <1>2, <1>3, <1>4, <1>5 DEF FetchStep

LEMMA FetchCancel ==
  TypeInv /\ PipelineInv /\ CancelInv /\ DoneInv /\ Fetch => CancelInv' /\ DoneInv'
<1> SUFFICES ASSUME TypeInv, PipelineInv, CancelInv, DoneInv, Fetch
             PROVE  CancelInv' /\ DoneInv'
  OBVIOUS
<1>1. UNCHANGED <<cpc, thread, inFlight, ready, slot, result, phase, lateCalls, lateOks,
                  canceller>>
  BY DEF Fetch, engineVars, consumerVars, prefetch, ledger
<1>2. ~ready /\ fpc # "idle"
  BY FetchStepBusy DEF Fetch, PipelineInv, ThreadInv, FreshInv
<1>3. CancelInv'
  BY Fields, FetchEffect, FetchLate, <1>1, <1>2
  DEF Fetch, CancelInv, NoLateBatch, Fresh, Busy, InLoop, Held, Stopping
<1>4. Exhausted => Exhausted'
  BY FetchEffect, Fields DEF Fetch, Exhausted, InLoop, TypeInv, FetchType
<1>5. DoneInv'
  BY FetchEffect, FetchLate, <1>1, <1>2, <1>4 DEF Fetch, DoneInv
<1> QED
  BY <1>3, <1>5

LEMMA NextCancel ==
  TypeInv /\ PipelineInv /\ CancelInv /\ DoneInv /\ [Next]_vars => CancelInv' /\ DoneInv'
<1> SUFFICES ASSUME TypeInv, PipelineInv, CancelInv, DoneInv, [Next]_vars
             PROVE  CancelInv' /\ DoneInv'
  OBVIOUS
<1>0. CASE Fetch
  BY <1>0, FetchCancel
<1>00. lateCalls \in Nat /\ lateOks \in Nat /\ lateRequests \in Nat
  BY DEF TypeInv, TypeOK, FetchTypeOK
<1> USE Fields, <1>00
    DEF PipelineInv, ThreadInv, FreshInv, TimeoutInv, CancelInv, DoneInv, NoLateBatch, Busy,
        InLoop, Held, Fresh, Exhausted, Stopping, prefetch, ledger
<1>1. CASE Publish
  BY <1>1 DEF Publish
<1>2. CASE Exit
  BY <1>2 DEF Exit, fetchVars
<1>3. CASE NextBatchDirect
  BY <1>3 DEF NextBatchDirect, Calling
<1>4. CASE NextBatchCollect
  BY <1>4 DEF NextBatchCollect, Calling, fetchVars
<1>5. CASE NextBatchNothing
  BY <1>5 DEF NextBatchNothing, Calling, fetchVars, NothingLeft, Result
<1>6. CASE CollectTimeout
  BY <1>6 DEF CollectTimeout, Result
<1>7. CASE FetchDirectReturns
  BY <1>7 DEF FetchDirectReturns
<1>8. CASE Collect
  BY <1>8 DEF Collect, fetchVars, Result
<1>9. CASE SettleAgain
  BY <1>9 DEF SettleAgain, Retried, fetchVars
<1>10. CASE SettleDone
  BY <1>10 DEF SettleDone, Retried
<1>11. CASE StartJoin
  BY <1>11 DEF StartJoin, ThreadDone, fetchVars
<1>12. CASE StartSpawn
  BY <1>12 DEF StartSpawn
<1>13. CASE Return
  BY <1>13 DEF Return, fetchVars
<1>14. CASE DestroyJoin
  BY <1>14 DEF DestroyJoin, ThreadDone, fetchVars
<1>15. CASE CancelFlag
  BY <1>15 DEF CancelFlag, consumerVars
<1>16. CASE CancelDone
  BY <1>16 DEF CancelDone, consumerVars
<1>17. CASE Destroy
  BY <1>17 DEF Destroy
<1>18. CASE UNCHANGED vars
  BY <1>18 DEF vars, fetchVars, engineVars, consumerVars
<1> QED
  BY <1>0, <1>1, <1>2, <1>3, <1>4, <1>5, <1>6, <1>7, <1>8, <1>9, <1>10, <1>11, <1>12,
     <1>13, <1>14, <1>15, <1>16, <1>17, <1>18
  DEF Next, NextBatch, Finishing, Working, Cancel, Destroyed

LEMMA CancelAlways == Spec => [](CancelInv /\ DoneInv)
  BY InitCancel, NextCancel, TypeAlways, PipelineAlways, PTL DEF Spec

\* After cancel() at most one more request completes and at most one call that
\* began later returns a batch.
THEOREM CancelPrompt == Spec => []CancelIsPrompt
<1>1. CancelInv => CancelIsPrompt
  BY DEF CancelInv, CancelIsPrompt
<1> QED
  BY <1>1, CancelAlways, PTL

\* Two calls after cancel() has_next is false, and stays so.
THEOREM CancelDrains == Spec => []CancelSettles
<1>1. TypeInv /\ PipelineInv /\ CancelInv => CancelSettles
  BY DEF TypeInv, TypeOK, PipelineInv, ThreadInv, CancelInv, CancelSettles, HasNext
<1> QED
  BY <1>1, CancelAlways, TypeAlways, PipelineAlways, PTL

\* has_next turns false by itself only after everything was delivered or after
\* a call that failed or hit the budget.
THEOREM HonestEnd == Spec => []EndIsHonest
<1>1. TypeInv /\ PipelineInv /\ PromiseInv /\ DoneInv => EndIsHonest
  <2> SUFFICES ASSUME TypeInv, PipelineInv, PromiseInv, DoneInv, cpc = "idle", ~HasNext, ~cancelFlag,
                      phase = "flowing"
               PROVE  delivered = NPages
    BY DEF EndIsHonest
  <2>1. CASE PrefetchEnabled
    BY <2>1 DEF PromiseInv, EndInv, HasNext
  <2>2. CASE ~PrefetchEnabled
    <3>1. fpc = "idle" /\ ~timedOut /\ ~ready
      BY <2>2 DEF PipelineInv, ThreadInv, TimeoutInv, FreshInv
    <3>2. Exhausted
      BY <2>2, <3>1 DEF DoneInv, HasNext
    <3> QED
      BY <2>2, <3>1, <3>2, Fields
      DEF PipelineInv, FreshInv, NothingLost, InFetch, InSlot, InResult, One, Exhausted
  <2> QED
    BY <2>1, <2>2
<1> QED
  BY <1>1, CancelAlways, TypeAlways, PipelineAlways, PromiseAlways, PTL

\* The answer EXHAUSTED is honest until a call has failed.
LEMMA ExhaustedIsHonest ==
  ASSUME TypeInv, PipelineInv, PromiseInv, cpc = "return", result.err = "EXHAUSTED", phase = "flowing"
  PROVE  delivered = NPages
<1>1. CASE PrefetchEnabled
  BY <1>1 DEF PromiseInv, PrefetchInv, EndInv, Ended
<1>2. CASE ~PrefetchEnabled
  <2>1. page = NPages
    BY <1>2 DEF PromiseInv, DirectInv, Cause, Exhausted
  <2>2. fpc = "idle" /\ slot.page = 0 /\ result.page = 0
    BY <1>2 DEF PipelineInv, ThreadInv, FreshInv, Held
  <2>3. page = delivered
    BY <1>2, <2>2 DEF PipelineInv, TimeoutInv, NothingLost, InFetch, InSlot, InResult,
                      One, TypeInv, TypeOK
  <2> QED BY <2>1, <2>3
<1> QED BY <1>1, <1>2

-----------------------------------------------------------------------------
(* The end is final.                                                       *)

\* has_next is false and no step inside next_batch is left that could start
\* another fetch.
Closed ==
  /\ ~inFlight /\ (streamDone \/ cancelFlag)
  /\ cpc \notin {"collect", "settle", "join", "spawn"}

\* No step takes back one of the two flags.
LEMMA FlagsStay ==
  [Next]_vars => /\ cancelFlag => cancelFlag'
                 /\ streamDone => streamDone'
<1> SUFFICES ASSUME [Next]_vars
             PROVE  (cancelFlag => cancelFlag') /\ (streamDone => streamDone')
  OBVIOUS
<1>1. CASE Fetch
  <2>0. CASE FetchFinish
    <3>1. cancelFlag' = cancelFlag /\ streamDone' = (streamDone \/ Exhausted)
      BY <2>0 DEF FetchFinish
    <3>2. ASSUME streamDone PROVE streamDone' = TRUE
      BY <3>1, <3>2
    <3> QED BY <3>1, <3>2
  <2>1. CASE FetchExhausted \/ FetchOverBudget
    BY <2>1 DEF FetchExhausted, FetchOverBudget
  <2>2. CASE FetchCancelled \/ FetchStart \/ FetchSend \/ (\E r \in Responses : FetchReceive(r))
    BY <2>2 DEF FetchCancelled, FetchStart, FetchSend, FetchReceive
  <2>3. CASE HandleAborted \/ HandleRateLimit \/ HandleRetry \/ FetchWake \/ HandleTerminal
    BY <2>3 DEF HandleAborted, HandleRateLimit, HandleRetry, FetchWake, HandleTerminal
  <2>4. CASE FetchAdvance \/ (\E c \in Costs : FetchCost(c))
    BY <2>4 DEF FetchAdvance, FetchCost
  <2> QED BY <1>1, <2>0, <2>1, <2>2, <2>3, <2>4 DEF Fetch, FetchStep
<1>2. CASE ~Fetch
  BY <1>2 DEF Next, Publish, Exit, NextBatch, NextBatchDirect, NextBatchCollect, NextBatchNothing,
              CollectTimeout, Finishing, Working, FetchDirectReturns, Collect, SettleAgain,
              SettleDone, StartJoin, StartSpawn, Return, DestroyJoin, Cancel, CancelFlag,
              CancelDone, Destroy, Destroyed, fetchVars, vars
<1> QED BY <1>1, <1>2

LEMMA ClosedStays == Closed /\ [Next]_vars => Closed'
<1> SUFFICES ASSUME Closed, [Next]_vars PROVE Closed'
  OBVIOUS
<1>1. streamDone' \/ cancelFlag'
  BY FlagsStay DEF Closed
<1>2. ~inFlight' /\ cpc' \notin {"collect", "settle", "join", "spawn"}
  BY DEF Closed, Next, Fetch, Publish, Exit, NextBatch, NextBatchDirect, NextBatchCollect,
         NextBatchNothing, CollectTimeout, Finishing, Working, FetchDirectReturns, Collect,
         SettleAgain, SettleDone, StartJoin, StartSpawn, Return, DestroyJoin, Cancel, CancelFlag,
         CancelDone, Destroy, Destroyed, engineVars, consumerVars, prefetch, vars
<1> QED BY <1>1, <1>2 DEF Closed

\* Once has_next has answered false it never answers true again, whatever is
\* called, fails or is cancelled after that (engine.hpp 77-92).
THEOREM FinalEnd == Spec => EndIsFinal
<1>1. cpc = "idle" /\ ~HasNext => Closed
  BY DEF HasNext, Closed
<1>2. Closed => (cpc = "idle" => ~HasNext)
  BY DEF HasNext, Closed
<1> QED BY <1>1, <1>2, ClosedStays, PTL DEF Spec, EndIsFinal

-----------------------------------------------------------------------------
(* Waiting, and what a call may cost.                                      *)

LEMMA NextFlight == TypeInv /\ PipelineInv /\ FlightInv /\ [Next]_vars => FlightInv'
<1> SUFFICES ASSUME TypeInv, PipelineInv, FlightInv, [Next]_vars PROVE FlightInv'
  OBVIOUS
<1> USE DEF FlightInv, prefetch
<1>1. CASE Fetch \/ NextBatchDirect \/ UNCHANGED vars
  BY <1>1 DEF Fetch, NextBatchDirect, vars, engineVars, consumerVars
<1>2. CASE Publish \/ Exit
  BY <1>2 DEF Publish, Exit
<1>3. CASE NextBatchCollect \/ NextBatchNothing \/ CollectTimeout \/ FetchDirectReturns
  BY <1>3 DEF NextBatchCollect, NextBatchNothing, CollectTimeout, FetchDirectReturns
<1>4. CASE Collect \/ SettleAgain \/ SettleDone \/ StartSpawn \/ Return
  BY <1>4 DEF Collect, SettleAgain, SettleDone, StartSpawn, Return
<1>5. CASE StartJoin
  BY <1>5 DEF StartJoin, PipelineInv, FreshInv
<1>6. CASE DestroyJoin
  BY <1>6 DEF DestroyJoin, ThreadDone
<1>7. CASE CancelFlag \/ CancelDone \/ Destroy
  BY <1>7 DEF CancelFlag, CancelDone, Destroy, consumerVars
<1> QED
  BY <1>1, <1>2, <1>3, <1>4, <1>5, <1>6, <1>7
  DEF Next, NextBatch, Finishing, Working, Cancel, Destroyed

\* Whenever the consumer waits in collect_prefetch its result is there already
\* or a thread inside fetch_one is going to publish it: no interleaving, failure
\* or cancellation makes it sleep for a thread that has gone (engine.hpp 205-221).
THEOREM WakeupsReachTheWaiter == Spec => []NoLostWakeup
<1>1. Init => FlightInv
  BY DEF Init, FlightInv
<1>2. PipelineInv /\ FlightInv => NoLostWakeup
  BY DEF PipelineInv, ThreadInv, FreshInv, FlightInv, NoLostWakeup
<1> QED BY <1>1, <1>2, NextFlight, TypeAlways, PipelineAlways, PTL DEF Spec

\* A step of fetch_one makes a request or does not, and counts its tries.
LEMMA FetchTried ==
  ASSUME TypeInv, FetchStep
  PROVE  metrics'["request"] + Tried <= metrics["request"] + Tried'
<1>0. /\ \A c \in Counters : metrics[c] \in Nat
      /\ retries \in Nat
  BY FetchAssumption DEF TypeInv, FetchType, FetchTypeOK
<1> USE <1>0 DEF Tried, Counters
<1>1. CASE FetchExhausted \/ FetchOverBudget \/ FetchCancelled \/ HandleAborted
  BY <1>1 DEF FetchExhausted, FetchOverBudget, FetchCancelled, HandleAborted, FetchReturn
<1>2. CASE FetchStart \/ FetchSend \/ HandleRateLimit \/ FetchWake
  BY <1>2 DEF FetchStart, FetchSend, HandleRateLimit, FetchWake
<1>3. ASSUME NEW r \in Responses, FetchReceive(r)
      PROVE  metrics'["request"] + Tried <= metrics["request"] + Tried'
  BY <1>3 DEF FetchReceive, Counted
<1>4. CASE HandleRetry
  BY <1>4 DEF HandleRetry, MayRetry, Counted
<1>5. CASE HandleTerminal
  <2>1. CounterOf(ErrorOf(resp)) # "request"
    BY DEF CounterOf
  <2> QED BY <1>5, <2>1 DEF HandleTerminal, MayRetry, FetchReturn, Counted
<1>6. CASE FetchAdvance
  BY <1>6 DEF FetchAdvance
<1>7. ASSUME NEW c \in Costs, FetchCost(c)
      PROVE  metrics'["request"] + Tried <= metrics["request"] + Tried'
  BY <1>7 DEF FetchCost
<1>8. CASE FetchFinish
  BY <1>8 DEF FetchFinish, FinishCounters, Counted
<1> QED BY <1>1, <1>2, <1>3, <1>4, <1>5, <1>6, <1>7, <1>8 DEF FetchStep

\* Every activation that begins is one a call may make, or the constructor's.
LEMMA ActivationSteps ==
  ASSUME TypeInv, ThreadInv, [Next]_vars, ~Fetch
  PROVE  /\ Activations \in Nat
         /\ \/ fpc' = fpc /\ retries' = retries /\ Activations' \in {Activations, Activations + 1}
            \/ fpc = "done" /\ fpc' = "idle" /\ Activations' = Activations
            \/ fpc = "idle" /\ fpc' = "enter" /\ Activations' = Activations + 1
<1>0. calls \in Nat /\ Activations \in Nat
  BY DEF TypeInv, TypeOK, Activations, One
<1> USE <1>0 DEF Activations, One, ThreadInv
<1>1. CASE Publish \/ FetchDirectReturns
  BY <1>1 DEF Publish, FetchDirectReturns
<1>2. CASE Exit
  BY <1>2 DEF Exit, fetchVars
<1>3. CASE NextBatchDirect
  BY <1>3 DEF NextBatchDirect, Calling
<1>4. CASE NextBatchCollect \/ NextBatchNothing
  BY <1>4 DEF NextBatchCollect, NextBatchNothing, Calling, fetchVars
<1>5. CASE CollectTimeout \/ Collect
  BY <1>5 DEF CollectTimeout, Collect, fetchVars
<1>6. CASE SettleAgain \/ SettleDone
  BY <1>6 DEF SettleAgain, SettleDone, fetchVars
<1>7. CASE StartJoin \/ Return \/ DestroyJoin
  BY <1>7 DEF StartJoin, Return, DestroyJoin, fetchVars
<1>8. CASE StartSpawn
  BY <1>8 DEF StartSpawn
<1>9. CASE CancelFlag \/ CancelDone \/ Destroy
  BY <1>9 DEF CancelFlag, CancelDone, Destroy, consumerVars
<1>10. CASE UNCHANGED vars
  BY <1>10 DEF vars, fetchVars, engineVars, consumerVars
<1> QED
  BY <1>1, <1>2, <1>3, <1>4, <1>5, <1>6, <1>7, <1>8, <1>9, <1>10
  DEF Next, NextBatch, Finishing, Working, Cancel, Destroyed

LEMMA NextCost == TypeInv /\ ThreadInv /\ CostInv /\ [Next]_vars => CostInv'
<1> SUFFICES ASSUME TypeInv, ThreadInv, CostInv, [Next]_vars PROVE CostInv'
  OBVIOUS
<1> DEFINE done == metrics["request"]
           a == Activations
<1>0. done \in Nat /\ retries \in 0..MaxRetries /\ MaxRetries \in Nat
  BY FetchAssumption DEF TypeInv, FetchType, FetchTypeOK, Counters
<1>1. Tries \in Nat /\ \A n \in Int : Tries * (n + 1) = Tries * n + Tries
  BY <1>0 DEF Tries
<1>2. CASE Fetch
  <2>1. a' = a /\ fpc # "idle" /\ fpc' # "idle"
    BY <1>2, FetchStepBusy DEF Fetch, Activations, engineVars, consumerVars
  <2>2. done' + Tried <= done + Tried'
    BY <1>2, FetchTried DEF Fetch
  <2>3. retries' \in Nat /\ metrics["request"]' \in Nat
    BY <1>2, FetchStepType DEF Fetch, TypeInv, FetchType, FetchTypeOK, Counters
  <2>4. Tried \in Nat /\ Tried' \in Nat
    <3>1. Tried \in Nat
      BY <1>0 DEF Tried
    <3>2. retries' \in Nat
      BY <2>3
    <3>3. \A n \in Nat : n + 1 \in Nat
      OBVIOUS
    <3>4. Tried' \in Nat
      BY <3>2, <3>3, Zenon DEF Tried
    <3> QED BY <3>1, <3>4
  <2>5. a \in Nat /\ Tries * (a - 1) \in Int
    BY <1>1 DEF TypeInv, TypeOK, Activations, One
  <2> HIDE DEF a, done
  <2> QED BY <1>0, <2>1, <2>2, <2>3, <2>4, <2>5 DEF CostInv, a, done
<1>3. CASE ~Fetch
  <2>1. done' = done
    BY <1>3, OtherSteps
  <2>2. a \in Nat
    BY <1>3, ActivationSteps
  <2>3. Tries * a \in Nat /\ Tries * (a - 1) \in Int /\ Tries * (a - 1) + Tries = Tries * a
        /\ Tries * (a + 1) = Tries * a + Tries
    BY <1>1, <2>2
  <2>4. CASE fpc' = fpc /\ retries' = retries /\ a' \in {a, a + 1}
    BY <1>0, <1>1, <2>1, <2>2, <2>3, <2>4 DEF CostInv, Tried
  <2>5. CASE fpc = "done" /\ fpc' = "idle" /\ a' = a
    <3>1. done <= Tries * (a - 1) + Tries
      BY <1>0, <1>1, <2>3, <2>5 DEF CostInv, Tried, Tries
    <3> QED BY <2>1, <2>3, <2>5, <3>1 DEF CostInv
  <2>6. CASE fpc = "idle" /\ fpc' = "enter" /\ a' = a + 1
    <3>1. done <= Tries * a
      BY <2>6 DEF CostInv
    <3>2. Tried' = 0 /\ a' > 0 /\ a' - 1 = a
      BY <2>2, <2>6 DEF Tried
    <3>3. done' <= Tries * (a' - 1) + Tried'
      BY <1>0, <2>1, <2>3, <3>1, <3>2
    <3> QED BY <2>6, <3>2, <3>3 DEF CostInv
  <2> QED BY <1>3, <2>4, <2>5, <2>6, ActivationSteps
<1> QED BY <1>2, <1>3

\* For any number of failures at any place: n calls of next_batch cause at most
\* (max_retries + 1) (n + 1) requests (engine.hpp 163-200, 268-330).
THEOREM RequestsPerCall == Spec => []RequestsBounded
<1>1. Init => CostInv
  <2> SUFFICES ASSUME Init PROVE CostInv
    OBVIOUS
  <2>1. metrics["request"] = 0 /\ calls = 0 /\ cpc = "idle"
    BY DEF Init, FetchInit, Counters
  <2>2. (fpc = "enter" /\ PrefetchEnabled) \/ fpc = "idle"
    BY DEF Init
  <2>3. Tries * 0 = 0 /\ Tries * 1 = Tries /\ Tries \in Nat
    BY FetchAssumption DEF Tries
  <2> QED BY <2>1, <2>2, <2>3 DEF CostInv, Activations, One, Tried
<1>2. TypeInv /\ ThreadInv /\ CostInv => RequestsBounded
  <2> SUFFICES ASSUME TypeInv, ThreadInv, CostInv PROVE RequestsBounded
    OBVIOUS
  <2>1. /\ metrics["request"] \in Nat /\ calls \in Nat /\ retries \in 0..MaxRetries
        /\ MaxRetries \in Nat
    BY FetchAssumption DEF TypeInv, TypeOK, FetchType, FetchTypeOK, Counters
  <2>2. /\ Tries \in Nat /\ Tries * (calls + 1) = Tries * calls + Tries
        /\ Tries * calls \in Nat /\ Tries * (calls - 1) + Tries = Tries * calls
    BY <2>1 DEF Tries
  <2>3. Tried \in 0..Tries
    BY <2>1 DEF Tried, Tries
  <2>4. Activations = calls \/ Activations = calls + 1
    BY <2>1 DEF Activations, One
  <2> QED BY <2>1, <2>2, <2>3, <2>4 DEF CostInv, RequestsBounded
<1> QED BY <1>1, <1>2, NextCost, TypeAlways, ThreadAlways, PTL DEF Spec

=============================================================================
