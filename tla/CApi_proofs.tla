----------------------------- MODULE CApi_proofs -----------------------------
(***************************************************************************)
(* Theorems about CApi, for every number of pages and of records in them,  *)
(* every buffer and every policy: the C API uses the engine as Engine      *)
(* allows, so that Engine's theorems hold of it, and between the engine    *)
(* and the caller no batch and no record is lost.                          *)
(***************************************************************************)
EXTENDS CApi, Engine_proofs

USE DEF cache, heard, call

-----------------------------------------------------------------------------
(* The C API's use of the engine.                                          *)

\* A step of the API leaves the engine alone or is a step of the engine.
LEMMA ApiStep == [ApiNext]_<<vars, apiVars>> => [Next]_vars
<1> SUFFICES ASSUME ApiNext PROVE [Next]_vars
  BY DEF apiVars
<1>1. CASE (\E n \in BufLens : CallNext(n)) \/ CallTs \/ CallForeach
  BY <1>1 DEF CallNext, CallTs, CallForeach
<1>2. CASE Ensure
  BY <1>2 DEF Ensure, EnsureCached, EnsureFetch, EnsureFails, EnsureFills, Stamp, Next,
              Finishing
<1>3. CASE Serve \/ Callback
  BY <1>3 DEF Serve, Callback, ServeTs, ServeTooSmall, ServeBatch, ForeachPageDone,
              CallbackGoesOn, CallbackStops
<1>4. CASE EngineStep
  BY <1>4 DEF EngineStep, Next, Finishing
<1>5. CASE StreamDestroy
  BY <1>5 DEF StreamDestroy, Next, Finishing
<1>6. CASE Terminated
  BY <1>6 DEF Terminated, Next
<1> QED BY <1>1, <1>2, <1>3, <1>4, <1>5, <1>6 DEF ApiNext

\* Whatever is called of the C API, what the engine under it does is a
\* behaviour of Engine: next_batch is never called while another call of it is
\* in progress, nor after the destructor.
THEOREM ApiUsesEngine == ApiSpec => Spec
<1>1. ApiInit => Init
  BY DEF ApiInit
<1> QED BY <1>1, ApiStep, PTL DEF ApiSpec, Spec

\* What holds of the engine in every state of the API.
EngineInv == TypeOK /\ InOrder

\* What holds of it besides.
EngineDepth == TypeInv /\ PipelineInv /\ PromiseInv

LEMMA EngineAlways == ApiSpec => []EngineInv
  BY ApiUsesEngine, TypeCorrect, BatchesInOrder, PTL DEF EngineInv

LEMMA EngineDepthAlways == ApiSpec => []EngineDepth
  BY ApiUsesEngine, TypeAlways, PipelineAlways, PromiseAlways, PTL DEF EngineDepth

-----------------------------------------------------------------------------
(* The cache.                                                              *)

\* The invariant the handle keeps.
ApiInv == HandleTypeOK /\ HandleInv

LEMMA InitHandle == ApiInit => ApiInv
<1> SUFFICES ASSUME ApiInit PROVE ApiInv
  OBVIOUS
<1>1. /\ seen = [p \in 1..NPages |-> [k \in Page(p) |-> 0]]
      /\ stops = [p \in 1..NPages |-> 0]
  BY DEF ApiInit
<1>2. /\ DOMAIN seen = 1..NPages /\ \A p \in 1..NPages : seen[p] \in [Page(p) -> Nat]
      /\ stops \in [1..NPages -> Nat]
  BY <1>1
<1>3. HandleTypeOK
  <2>1. hasCache \in BOOLEAN /\ troubled \in BOOLEAN /\ rc \in Codes
    BY DEF ApiInit, Codes
  <2> QED BY <1>2, <2>1, FetchAssumption DEF HandleTypeOK, ApiInit
<1>4. CacheInv
  BY DEF ApiInit, Init, CacheInv, NoBatchDropped
<1>5. RecordInv
  BY <1>1, FetchAssumption DEF ApiInit, RecordInv, RecordInvAt, Given, One, Page
<1> QED BY <1>3, <1>4, <1>5 DEF ApiInv, HandleInv

LEMMA NextApiType ==
  EngineInv /\ ApiInv /\ [ApiNext]_<<vars, apiVars>> => HandleTypeOK'
<1> SUFFICES ASSUME EngineInv, ApiInv, ApiNext PROVE HandleTypeOK'
  BY DEF ApiInv, apiVars, HandleTypeOK, Page
<1> USE DEF ApiInv, HandleTypeOK
<1>0. /\ result.err \in Codes /\ result.page \in 0..NPages /\ page \in 0..NPages
      /\ NPages \in Nat /\ BufLens \subseteq Int
  BY FetchAssumption, CApiAssumption DEF EngineInv, TypeOK, FetchTypeOK, Results
<1>1. CASE (\E n \in BufLens : CallNext(n)) \/ CallTs \/ CallForeach
  <2>1. CASE \E n \in BufLens : CallNext(n)
    BY <2>1 DEF CallNext, Call
  <2>2. CASE CallTs
    BY <2>2 DEF CallTs, Call
  <2>3. CASE CallForeach
    BY <2>3 DEF CallForeach, Call
  <2> QED BY <1>1, <2>1, <2>2, <2>3
<1>2. CASE EnsureCached \/ EnsureFetch
  BY <1>2 DEF EnsureCached, EnsureFetch
<1>3. CASE EnsureFails
  <2>1. CodeOf(result.err) \in Codes
    BY <1>0 DEF CodeOf, Codes
  <2>2. rc' \in Codes /\ troubled' \in BOOLEAN
    BY <1>3, <2>1 DEF EnsureFails, Answer
  <2> QED BY <1>3, <2>2 DEF EnsureFails, Answer
<1>4. CASE EnsureFills \/ Stamp
  BY <1>4, <1>0 DEF EnsureFills, Stamp
<1>5. CASE ServeTs \/ ServeTooSmall
  BY <1>5 DEF ServeTs, ServeTooSmall, Answer, Codes, FetchErrors
<1>6. CASE ServeBatch
  <2>1. /\ cachedPage \in 1..NPages
        /\ seen' = [seen EXCEPT ![cachedPage] = [k \in Page(cachedPage) |-> @[k] + 1]]
    BY <1>6 DEF ServeBatch, HandleInv, CacheInv
  <2>2. [k \in Page(cachedPage) |-> seen[cachedPage][k] + 1] \in [Page(cachedPage) -> Nat]
    BY <2>1
  <2>3. DOMAIN seen' = 1..NPages /\ \A p \in 1..NPages : seen'[p] \in [Page(p) -> Nat]
    BY <2>1, <2>2
  <2>4. hasCache' \in BOOLEAN /\ rc' \in Codes
    BY <1>6 DEF ServeBatch, Answer, Consume, Codes
  <2> QED BY <1>6, <1>0, <2>3, <2>4 DEF ServeBatch, Answer, Consume
<1>7. CASE Callback
  <2>1. /\ cachedPage \in 1..NPages /\ index + 1 \in Page(cachedPage)
        /\ seen' = [seen EXCEPT ![cachedPage][index + 1] = @ + 1]
    BY <1>7, CApiAssumption
    DEF Callback, CallbackGoesOn, CallbackStops, Give, HandleInv, CacheInv, Page
  <2>2. /\ DOMAIN seen' = 1..NPages
        /\ \A p \in 1..NPages : seen'[p] \in [Page(p) -> Nat]
    BY <2>1
  <2>3. CASE CallbackGoesOn
    BY <2>2, <2>3 DEF CallbackGoesOn, Page
  <2>4. CASE CallbackStops
    <3>1. stops' \in [1..NPages -> Nat]
      BY <2>1, <2>4 DEF CallbackStops
    <3> QED BY <2>2, <2>4, <3>1 DEF CallbackStops, Answer, Page
  <2> QED BY <1>7, <2>3, <2>4 DEF Callback
<1>8. CASE ForeachPageDone
  <2>1. hasCache' \in BOOLEAN
    BY <1>8 DEF ForeachPageDone, Consume
  <2> QED BY <1>8, <1>0, <2>1 DEF ForeachPageDone, Consume
<1>9. CASE EngineStep \/ StreamDestroy \/ Terminated
  BY <1>9 DEF EngineStep, StreamDestroy, Terminated, apiVars
<1> QED BY <1>1, <1>2, <1>3, <1>4, <1>5, <1>6, <1>7, <1>8, <1>9 DEF ApiNext, Serve, Ensure

\* Only a call of next_batch that returns changes what has been delivered, and
\* what the engine has told its consumer.
LEMMA DeliveredSteps ==
  ApiNext => (delivered' = delivered /\ phase' = phase) \/ EnsureFails \/ EnsureFills
<1> SUFFICES ASSUME ApiNext, ~EnsureFails, ~EnsureFills
             PROVE  delivered' = delivered /\ phase' = phase
  OBVIOUS
<1>1. CASE UNCHANGED vars
  BY <1>1 DEF vars, engineVars, consumerVars, ledger
<1>2. CASE EnsureFetch
  BY <1>2 DEF EnsureFetch, NextBatch, NextBatchDirect, NextBatchCollect, NextBatchNothing,
              ledger
<1>3. CASE EngineStep \/ StreamDestroy \/ Terminated
  BY <1>1, <1>3
  DEF EngineStep, StreamDestroy, Terminated, Destroyed, Fetch, Publish, Exit, Working,
      FetchDirectReturns, Collect, SettleAgain, SettleDone, StartJoin, StartSpawn,
      CollectTimeout, Cancel, CancelFlag, CancelDone, Destroy, DestroyJoin, engineVars,
      consumerVars, ledger
<1>4. UNCHANGED vars \/ EnsureFetch \/ EngineStep \/ StreamDestroy \/ Terminated
  BY DEF ApiNext, CallNext, CallTs, CallForeach, Ensure, EnsureCached, Stamp, Serve, Callback,
         ServeTs, ServeTooSmall, ServeBatch, ForeachPageDone, CallbackGoesOn, CallbackStops
<1> QED BY <1>1, <1>2, <1>3, <1>4

LEMMA NextCache ==
  EngineInv /\ ApiInv /\ [ApiNext]_<<vars, apiVars>> => CacheInv'
<1> SUFFICES ASSUME EngineInv, ApiInv, ApiNext PROVE CacheInv'
  BY DEF ApiInv, HandleInv, CacheInv, NoBatchDropped, apiVars, vars, engineVars, consumerVars,
         ledger
<1> USE DEF ApiInv, HandleInv, CacheInv, NoBatchDropped, HandleTypeOK
<1>0. delivered \in Nat
  BY DEF EngineInv, TypeOK
<1>1. CASE EnsureFails
  BY <1>0, <1>1 DEF EnsureFails, Return, Answer
<1>2. CASE EnsureFills
  BY <1>0, <1>2 DEF EnsureFills, Return, EngineInv, InOrder
<1> SUFFICES ASSUME delivered' = delivered PROVE CacheInv'
  BY <1>1, <1>2, DeliveredSteps
<1>3. CASE (\E n \in BufLens : CallNext(n)) \/ CallTs \/ CallForeach
  BY <1>3 DEF CallNext, CallTs, CallForeach, Call
<1>4. CASE EnsureCached \/ EnsureFetch \/ Stamp
  BY <1>4 DEF EnsureCached, EnsureFetch, Stamp
<1>5. CASE Serve
  BY <1>5 DEF Serve, ServeTs, ServeTooSmall, ServeBatch, ForeachPageDone, Consume, Answer
<1>6. CASE Callback
  BY <1>6 DEF Callback, CallbackGoesOn, CallbackStops, Answer, Give
<1>7. CASE EngineStep \/ StreamDestroy \/ Terminated
  BY <1>7 DEF EngineStep, StreamDestroy, Terminated, apiVars
<1> QED BY <1>1, <1>2, <1>3, <1>4, <1>5, <1>6, <1>7 DEF ApiNext, Ensure

LEMMA NextRecords ==
  EngineInv /\ ApiInv /\ [ApiNext]_<<vars, apiVars>> => RecordInv'
<1> SUFFICES ASSUME EngineInv, ApiInv, ApiNext PROVE RecordInv'
  BY DEF ApiInv, HandleInv, RecordInv, RecordInvAt, Given, One, Page, apiVars
<1> USE DEF ApiInv, HandleInv, RecordInv, RecordInvAt, HandleTypeOK, Given, One
<1>0. \A p \in 1..NPages : Page(p) \subseteq Nat \ {0} /\ stops[p] \in Nat
  BY CApiAssumption DEF Page
<1>1. CASE (\E n \in BufLens : CallNext(n)) \/ CallTs \/ CallForeach
  <2>1. index = 0 /\ index' = 0
    BY <1>1 DEF CallNext, CallTs, CallForeach, Call
  <2> QED BY <1>1, <2>1 DEF CallNext, CallTs, CallForeach
<1>2. CASE EnsureCached \/ EnsureFetch \/ Stamp
  BY <1>2 DEF EnsureCached, EnsureFetch, Stamp
<1>3. CASE EnsureFails
  BY <1>3 DEF EnsureFails, Answer
<1>4. CASE EnsureFills
  <2>1. /\ index = 0 /\ index' = 0 /\ cachedPage = 0 /\ cachedPage' = consumed + 1
        /\ UNCHANGED <<seen, stops, consumed>>
    BY <1>4 DEF EnsureFills, Return, EngineInv, InOrder, CacheInv, NoBatchDropped
  <2>2. cachedPage' \in 0..NPages
    BY <1>4 DEF EnsureFills, EngineInv, TypeOK, Results
  <2>3. cachedPage' \in 1..NPages /\ Records[cachedPage'] \in Nat
    BY <2>1, <2>2, CApiAssumption
  <2>4. \A p \in 1..NPages : \A k \in Page(p) : p > consumed => seen[p][k] = 0
    BY <2>1
  <2> QED BY <1>0, <2>1, <2>3, <2>4
<1>5. CASE ServeTs \/ ServeTooSmall
  BY <1>5 DEF ServeTs, ServeTooSmall, Answer
<1>6. CASE ServeBatch
  <2> DEFINE q == cachedPage
  <2>1. /\ q \in 1..NPages /\ q = consumed + 1 /\ index = 0
        /\ cachedPage' = 0 /\ consumed' = q /\ UNCHANGED <<stops, index>>
        /\ seen' = [seen EXCEPT ![q] = [k \in Page(q) |-> @[k] + 1]]
    BY <1>6 DEF ServeBatch, Consume, CacheInv, NoBatchDropped
  <2>2. \A k \in Page(q) : seen'[q][k] = seen[q][k] + 1
    BY <2>1
  <2>3. \A p \in 1..NPages : p # q => seen'[p] = seen[p]
    BY <2>1
  <2>4. \A k \in Page(q) : seen[q][k] \in Nat
    BY <2>1
  <2> QED BY <1>0, <2>1, <2>2, <2>3, <2>4
<1>7. CASE Callback
  <2> DEFINE q == cachedPage
  <2>1. /\ q \in 1..NPages /\ q = consumed + 1 /\ index + 1 \in Page(q)
        /\ UNCHANGED <<cachedPage, consumed>>
        /\ seen' = [seen EXCEPT ![q][index + 1] = @ + 1]
    BY <1>7, CApiAssumption
    DEF Callback, CallbackGoesOn, CallbackStops, Give, CacheInv, NoBatchDropped, Page
  <2>2. \A p \in 1..NPages : p # q => seen'[p] = seen[p]
    BY <2>1
  <2>3. \A k \in Page(q) : seen'[q][k] = seen[q][k] + One(k = index + 1)
    BY <2>1
  <2>4. \A k \in Page(q) : seen[q][k] \in Nat
    BY <2>1
  <2>5. index \in Nat /\ Records[q] \in Nat /\ index + 1 <= Records[q]
    BY <2>1, CApiAssumption DEF Page
  <2>6. CASE CallbackGoesOn
    BY <1>0, <2>1, <2>2, <2>3, <2>4, <2>5, <2>6 DEF CallbackGoesOn, Give
  <2>7. CASE CallbackStops
    <3>1. /\ stops'[q] = stops[q] + 1 /\ index' = 0
          /\ \A p \in 1..NPages : p # q => stops'[p] = stops[p]
      BY <2>1, <2>7 DEF CallbackStops
    <3>2. index' # 0 => apc' = "serve" /\ op' = "foreach"
      BY <3>1
    <3>3. cachedPage' # 0 => index' <= Records[cachedPage]
      BY <2>5, <3>1
    <3>4. ASSUME NEW k \in Page(q) PROVE RecordInvAt(q, k)'
      <4>1. k \in Nat \ {0} /\ stops[q] \in Nat /\ seen[q][k] \in Nat
        BY <1>0, <2>1, <2>4
      <4>2. ~Given(q, k)' /\ q > consumed'
        BY <2>1, <3>1, <4>1
      <4>3. seen'[q][k] <= stops[q] + 1
        <5>1. RecordInvAt(q, k) /\ q > consumed
          BY <2>1
        <5>2. Given(q, k) => k # index + 1
          BY <2>5, <4>1
        <5> QED BY <2>3, <4>1, <5>1, <5>2
      <4> QED BY <2>1, <3>1, <4>1, <4>2, <4>3
    <3>5. ASSUME NEW p \in 1..NPages, NEW k \in Page(p), p # q PROVE RecordInvAt(p, k)'
      <4>1. seen'[p] = seen[p] /\ stops'[p] = stops[p] /\ RecordInvAt(p, k)
        BY <2>2, <3>1, <3>5
      <4> QED BY <2>1, <3>5, <4>1
    <3> QED BY <2>1, <3>2, <3>3, <3>4, <3>5
  <2> QED BY <1>7, <2>6, <2>7 DEF Callback
<1>8. CASE ForeachPageDone
  <2>1. /\ cachedPage \in 1..NPages /\ cachedPage = consumed + 1
        /\ consumed' = cachedPage /\ cachedPage' = 0 /\ index' = 0
        /\ \A k \in Page(cachedPage) : Given(cachedPage, k)
        /\ UNCHANGED <<seen, stops>>
    BY <1>8, CApiAssumption DEF ForeachPageDone, Consume, CacheInv, NoBatchDropped, Page
  <2> QED BY <1>0, <2>1
<1>9. CASE EngineStep \/ StreamDestroy \/ Terminated
  BY <1>9 DEF EngineStep, StreamDestroy, Terminated, apiVars
<1> QED BY <1>1, <1>2, <1>3, <1>4, <1>5, <1>6, <1>7, <1>8, <1>9 DEF ApiNext, Serve, Ensure

LEMMA ApiAlways == ApiSpec => []ApiInv
<1>1. EngineInv /\ ApiInv /\ [ApiNext]_<<vars, apiVars>> => ApiInv'
  BY NextApiType, NextCache, NextRecords DEF ApiInv, HandleInv
<1> QED BY <1>1, InitHandle, EngineAlways, PTL DEF ApiSpec

\* The handle's fields keep their types; in particular the cache never names
\* a page the server does not have.
THEOREM ApiTypeCorrect == ApiSpec => []ApiTypeOK
  BY ApiAlways, EngineAlways, PTL DEF ApiInv, EngineInv, ApiTypeOK

\* The batch in the cache is neither dropped nor overwritten.
THEOREM CacheSafe == ApiSpec => []NoBatchDropped
  BY ApiAlways, PTL DEF ApiInv, HandleInv, CacheInv

\* Each record of a consumed page was handed over at least once, and at most
\* once more than callbacks stopped in the page.
THEOREM RecordsSafe == ApiSpec => []RecordsOnce
<1>1. ApiInv => RecordsOnce
  <2> SUFFICES ASSUME ApiInv, NEW p \in 1..NPages, NEW k \in Page(p)
               PROVE  /\ seen[p][k] <= stops[p] + 1
                      /\ p <= consumed => seen[p][k] >= 1
                      /\ p > consumed + 1 => seen[p][k] = 0
    BY DEF RecordsOnce
  <2>1. seen[p][k] \in Nat /\ stops[p] \in Nat /\ consumed \in Nat
    BY DEF ApiInv, HandleTypeOK
  <2>2. cachedPage # 0 => cachedPage = consumed + 1
    BY DEF ApiInv, HandleInv, CacheInv, NoBatchDropped
  <2> QED BY <2>1, <2>2 DEF ApiInv, HandleInv, RecordInv, RecordInvAt, One
<1> QED BY <1>1, ApiAlways, PTL

-----------------------------------------------------------------------------
(* What OK of stream_foreach_v1 says.                                      *)

AllConsumed == consumed = NPages

\* Without trouble an end of the engine is its honest one; it is the only one
\* stream_foreach_v1 answers with OK, and by then the cache is empty.
ForeachInv ==
  /\ ~troubled => phase = "flowing" \/ delivered = NPages
  /\ apc = "idle" /\ op = "foreach" /\ rc = "OK" /\ ~troubled => AllConsumed

LEMMA NextForeach ==
  EngineDepth /\ EngineInv /\ ApiInv /\ ForeachInv /\ [ApiNext]_<<vars, apiVars>> => ForeachInv'
<1> SUFFICES ASSUME EngineDepth, EngineInv, ApiInv, ForeachInv, [ApiNext]_<<vars, apiVars>>
             PROVE  ForeachInv'
  OBVIOUS
<1>0. troubled \in BOOLEAN /\ delivered \in Nat
  BY DEF ApiInv, HandleTypeOK, EngineInv, TypeOK
<1>1. CASE EnsureFails
  <2>0. /\ Return /\ result.err # "OK" /\ apc = "engine" /\ UNCHANGED <<op, consumed>>
        /\ troubled' = (troubled \/ result.err # "EXHAUSTED")
    <3>1. Answer(CodeOf(result.err)) /\ UNCHANGED <<cache, index, heard, consumed>>
      BY <1>1, Zenon DEF EnsureFails
    <3>2. UNCHANGED <<op, consumed>>
      BY <3>1 DEF Answer
    <3> QED BY <1>1, <3>2, Zenon DEF EnsureFails
  <2>1. cpc = "return" /\ delivered' = delivered
    BY <1>0, <2>0 DEF Return
  <2>2. ~troubled' => ~troubled /\ result.err = "EXHAUSTED"
    BY <2>0
  <2>3. ~troubled' => delivered = NPages
    BY <2>1, <2>2, ExhaustedIsHonest DEF ForeachInv, EngineDepth
  <2>4. consumed = delivered
    BY <2>0 DEF ApiInv, HandleInv, CacheInv, NoBatchDropped
  <2> QED BY <2>0, <2>1, <2>3, <2>4 DEF ForeachInv, AllConsumed
<1>2. CASE EnsureFills
  <2>1. /\ result.err = "OK" /\ Return /\ apc' = "stamp" /\ troubled' = troubled
    BY <1>2 DEF EnsureFills
  <2>2. delivered # NPages
    BY <2>1, FetchAssumption
    DEF Return, EngineInv, InOrder, TypeOK, Results, EngineDepth, PipelineInv, FreshInv, Held
  <2>3. ~troubled' => phase' = "flowing"
    BY <2>1, <2>2 DEF Return, Stopping, ForeachInv
  <2> QED BY <2>1, <2>3 DEF ForeachInv
<1>3. CASE ~EnsureFails /\ ~EnsureFills
  <2>1. delivered' = delivered /\ phase' = phase
    BY <1>3, DeliveredSteps DEF vars, engineVars, consumerVars, ledger
  <2>2. troubled' = troubled
    BY <1>3 DEF ApiNext, CallNext, CallTs, CallForeach, Ensure, EnsureCached, EnsureFetch, Stamp,
         Serve, Callback, ServeTs, ServeTooSmall, ServeBatch, ForeachPageDone, CallbackGoesOn,
         CallbackStops, EngineStep, StreamDestroy, Terminated, apiVars
  <2>3. apc' = "idle" /\ op' = "foreach" /\ rc' = "OK" =>
          apc = "idle" /\ op = "foreach" /\ rc = "OK" /\ consumed' = consumed
    <3>1. CASE UNCHANGED <<vars, apiVars>> \/ EngineStep \/ StreamDestroy \/ Terminated
      BY <3>1 DEF EngineStep, StreamDestroy, Terminated, apiVars
    <3>2. CASE (\E n \in BufLens : CallNext(n)) \/ CallTs \/ CallForeach
      BY <3>2 DEF CallNext, CallTs, CallForeach, Call
    <3>3. CASE EnsureCached \/ EnsureFetch \/ Stamp
      BY <3>3 DEF EnsureCached, EnsureFetch, Stamp
    <3>4. CASE Serve \/ Callback
      BY <3>4 DEF Serve, Callback, ServeTs, ServeTooSmall, ServeBatch, ForeachPageDone,
                  CallbackGoesOn, CallbackStops, Give, Answer
    <3> QED BY <1>3, <3>1, <3>2, <3>3, <3>4 DEF ApiNext, Ensure
  <2> QED BY <2>1, <2>2, <2>3 DEF ForeachInv, AllConsumed
<1> QED BY <1>1, <1>2, <1>3

LEMMA ForeachAlways == ApiSpec => []ForeachInv
<1>1. ApiInit => ForeachInv
  BY DEF ApiInit, Init, ForeachInv
<1> QED BY <1>1, NextForeach, ApiAlways, EngineAlways, EngineDepthAlways, PTL DEF ApiSpec

\* stream_foreach_v1 says OK only when every record has been handed over, by
\* it or by the calls before it, or when one of those had failed.
ForeachIsComplete ==
  apc = "idle" /\ op = "foreach" /\ rc = "OK" /\ ~troubled =>
    \A p \in 1..NPages : \A k \in Page(p) : seen[p][k] >= 1

\* stream_foreach_v1 answers OK, until a call has failed, only when every
\* record has been handed to the caller.
THEOREM ForeachComplete == ApiSpec => []ForeachIsComplete
<1>1. ApiInv /\ ForeachInv => ForeachIsComplete
  <2> SUFFICES ASSUME ApiInv, ForeachInv, apc = "idle", op = "foreach", rc = "OK", ~troubled,
                      NEW p \in 1..NPages, NEW k \in Page(p)
               PROVE  seen[p][k] >= 1
    BY DEF ForeachIsComplete
  <2>1. consumed = NPages
    BY DEF ForeachInv, AllConsumed
  <2> QED BY <2>1, FetchAssumption DEF ApiInv, HandleInv, RecordInv, RecordInvAt
<1> QED BY <1>1, ForeachAlways, ApiAlways, PTL

-----------------------------------------------------------------------------
(* The C API implements RecordFlow.                                        *)

USE DEF Flow!flowVars, Flow!Open, Flow!Page

\* Nothing is given and no batch is finished: the reader is left as it was, is
\* told of the end, or asks again.
LEMMA QuietFlow ==
  ASSUME UNCHANGED <<consumed, index, seen>>, Told' => Told \/ consumed = NPages
  PROVE  [Flow!FlowNext]_Flow!flowVars
<1>1. (Told = TRUE \/ Told = FALSE) /\ (Told' = TRUE \/ Told' = FALSE)
  BY Zenon DEF Told
<1>2. CASE Told' = Told
  BY <1>2
<1>3. CASE Told = TRUE /\ Told' = FALSE
  BY <1>3, Zenon DEF Flow!FlowNext, Flow!CallAgain
<1>4. CASE Told = FALSE /\ Told' = TRUE
  <2>1. ~Told /\ Told' /\ consumed = NPages
    BY <1>4, Zenon
  <2> QED BY <1>4, <2>1, Zenon DEF Flow!FlowNext, Flow!Report
<1>5. Told' = Told \/ (Told = TRUE /\ Told' = FALSE) \/ (Told = FALSE /\ Told' = TRUE)
  BY <1>1, Zenon
<1> QED BY <1>2, <1>3, <1>4, <1>5, Zenon

\* No call reports an end while it is serving a batch.
LEMMA NotToldServing ==
  ASSUME apc = "serve", apc' # "idle" \/ (op' = "foreach" => rc' # "OK")
  PROVE  Told' = Told
<1>1. ~Told /\ ~Told'
  BY DEF Told
<1>2. (Told = TRUE \/ Told = FALSE) /\ (Told' = TRUE \/ Told' = FALSE)
  BY Zenon DEF Told
<1> QED BY <1>1, <1>2, Zenon

LEMMA FlowStep ==
  EngineInv /\ ApiInv /\ ForeachInv' /\ [ApiNext]_<<vars, apiVars>>
    => [Flow!FlowNext]_Flow!flowVars
<1> SUFFICES ASSUME EngineInv, ApiInv, ForeachInv', [ApiNext]_<<vars, apiVars>>
             PROVE  [Flow!FlowNext]_Flow!flowVars
  OBVIOUS
<1>0. Told' => consumed' = NPages
  BY DEF Told, ForeachInv, AllConsumed
<1>1. CASE UNCHANGED <<vars, apiVars>> \/ EngineStep \/ StreamDestroy \/ Terminated
  <2>1. UNCHANGED <<consumed, index, seen>>
    BY <1>1 DEF EngineStep, StreamDestroy, Terminated, apiVars
  <2> QED BY <1>0, <2>1, QuietFlow
<1>2. CASE (\E n \in BufLens : CallNext(n)) \/ CallTs \/ CallForeach
  <2>1. UNCHANGED <<consumed, index, seen>>
    BY <1>2 DEF CallNext, CallTs, CallForeach
  <2> QED BY <1>0, <2>1, QuietFlow
<1>3. CASE Ensure
  <2>1. UNCHANGED <<consumed, index, seen>>
    BY <1>3 DEF Ensure, EnsureCached, EnsureFetch, EnsureFails, EnsureFills, Stamp
  <2> QED BY <1>0, <2>1, QuietFlow
<1>4. CASE ServeTs \/ ServeTooSmall
  <2>1. UNCHANGED <<consumed, index, seen>>
    BY <1>4 DEF ServeTs, ServeTooSmall
  <2> QED BY <1>0, <2>1, QuietFlow
<1> DEFINE q == cachedPage
<1>5. apc = "serve" => /\ q = consumed + 1 /\ q \in 1..NPages /\ consumed \in Nat
                       /\ Records[q] \in Nat /\ index \in Nat
  BY CApiAssumption DEF ApiInv, HandleTypeOK, HandleInv, CacheInv, NoBatchDropped
<1>6. apc = "serve" => consumed < NPages
  BY <1>5, FetchAssumption
<1>7. CASE ServeBatch
  <2>1. /\ apc = "serve" /\ op = "next" /\ op' = op /\ consumed' = q /\ index' = index
        /\ seen' = [seen EXCEPT ![q] = [k \in Page(q) |-> @[k] + 1]]
    BY <1>7 DEF ServeBatch, Answer, Consume
  <2>2. index = 0
    BY <2>1 DEF ApiInv, HandleInv, RecordInv
  <2>3. Told' = Told
    BY <2>1, NotToldServing
  <2> QED BY <1>5, <1>6, <2>1, <2>2, <2>3 DEF Flow!FlowNext, Flow!GiveWhole, Page
<1>8. CASE ForeachPageDone
  <2>1. /\ apc = "serve" /\ apc' = "ensure" /\ index = Records[q] /\ consumed' = q
        /\ index' = 0 /\ seen' = seen
    BY <1>8 DEF ForeachPageDone, Consume
  <2>2. Told' = Told
    BY <2>1, NotToldServing
  <2> QED BY <1>5, <1>6, <2>1, <2>2 DEF Flow!FlowNext, Flow!Finish
<1>9. CASE Callback
  <2>1. /\ apc = "serve" /\ index < Records[q] /\ consumed' = consumed
        /\ seen' = [seen EXCEPT ![q][index + 1] = @ + 1]
    BY <1>9 DEF Callback, CallbackGoesOn, CallbackStops, Give
  <2>2. apc' = "serve" \/ rc' = "STOPPED"
    BY <1>9 DEF Callback, CallbackGoesOn, CallbackStops, Give, Answer
  <2>3. Told' = Told
    BY <2>1, <2>2, NotToldServing
  <2>4. Flow!GiveNext
    BY <1>5, <1>6, <2>1, <2>3 DEF Flow!GiveNext
  <2>5. CASE CallbackGoesOn
    BY <2>1, <2>4, <2>5 DEF CallbackGoesOn, Flow!FlowNext, Flow!GoOn
  <2>6. CASE CallbackStops
    BY <2>1, <2>4, <2>6 DEF CallbackStops, Flow!FlowNext, Flow!Stop
  <2> QED BY <1>9, <2>5, <2>6 DEF Callback
<1> QED BY <1>1, <1>2, <1>3, <1>4, <1>7, <1>8, <1>9 DEF ApiNext, Serve

\* The C API, whichever of its calls are mixed, implements RecordFlow: the
\* records in order, a batch in which the callback stopped given again, and the
\* end reported truthfully until a call has failed (c_api.cpp 39-76, 231-253).
THEOREM ApiImplementsFlow == ApiSpec => ApiFlows
<1>1. ApiInit => Flow!FlowInit
  <2> SUFFICES ASSUME ApiInit PROVE Flow!FlowInit
    OBVIOUS
  <2>1. /\ consumed = 0 /\ index = 0 /\ op = "none"
        /\ seen = [p \in 1..NPages |-> [k \in Page(p) |-> 0]]
    BY DEF ApiInit
  <2>2. Told = FALSE
    BY <2>1 DEF Told
  <2> QED BY <2>1, <2>2 DEF Flow!FlowInit, Page
<1> QED BY <1>1, FlowStep, ForeachAlways, ApiAlways, EngineAlways, PTL
        DEF ApiSpec, ApiFlows, Flow!FlowSpec

-----------------------------------------------------------------------------
(* What the time stamp names.                                              *)

\* Between the return of a batch and the read of its stamp nothing times out, so
\* that the cursor is at most the one fetch ahead that may have begun.
StampInv ==
  /\ apc # "engine" => cpc \in {"idle", "dtor", "destroyed"}
  /\ apc = "stamp" => ~timedOut
  /\ hasCache => cachedTs - cachedPage \in {0, 1}

LEMMA NextStamp ==
  EngineDepth /\ EngineInv /\ ApiInv /\ StampInv /\ [ApiNext]_<<vars, apiVars>> => StampInv'
<1> SUFFICES ASSUME EngineDepth, EngineInv, ApiInv, StampInv, [ApiNext]_<<vars, apiVars>>
             PROVE  StampInv'
  OBVIOUS
<1> USE DEF StampInv
<1>1. CASE UNCHANGED <<vars, apiVars>> \/ Terminated
  BY <1>1 DEF Terminated, Destroyed, vars, apiVars, engineVars, consumerVars
<1>2. CASE (\E n \in BufLens : CallNext(n)) \/ CallTs \/ CallForeach
  BY <1>2 DEF CallNext, CallTs, CallForeach, Call, vars, engineVars, consumerVars
<1>3. CASE EnsureCached
  BY <1>3 DEF EnsureCached, vars, engineVars, consumerVars
<1>4. CASE EnsureFetch
  BY <1>4 DEF EnsureFetch
<1>5. CASE EnsureFails
  BY <1>5 DEF EnsureFails, Return, Answer
<1>6. CASE EnsureFills
  <2>1. ~timedOut /\ ~timedOut'
    BY <1>6 DEF EnsureFills, Return, EngineDepth, PipelineInv, TimeoutInv
  <2>2. ~hasCache /\ ~hasCache'
    BY <1>6 DEF EnsureFills, ApiInv, HandleInv, CacheInv
  <2> QED BY <1>6, <2>1, <2>2 DEF EnsureFills, Return
<1>7. CASE Stamp
  <2>1. cachedPage = delivered /\ ~timedOut /\ cpc \in {"idle", "dtor", "destroyed"}
    BY <1>7 DEF Stamp, ApiInv, HandleInv, CacheInv
  <2>2. page = delivered + One(InFetch) + One(InSlot)
    BY <2>1 DEF EngineDepth, PipelineInv, NothingLost, InResult, One, EngineInv, TypeOK, FetchTypeOK
  <2>3. ~(InFetch /\ InSlot)
    BY <2>1 DEF EngineDepth, PipelineInv, ThreadInv, FreshInv, InFetch, InSlot
  <2>4. page - cachedPage \in {0, 1}
    BY <2>1, <2>2, <2>3 DEF One, EngineInv, TypeOK
  <2> QED BY <1>7, <2>4 DEF Stamp, vars, engineVars, consumerVars
<1>8. CASE Serve
  BY <1>8 DEF Serve, ServeTs, ServeTooSmall, ServeBatch, ForeachPageDone, Consume, Answer, vars,
              engineVars, consumerVars
<1>9. CASE Callback
  BY <1>9 DEF Callback, CallbackGoesOn, CallbackStops, Answer, Give, vars, engineVars,
              consumerVars
<1>10. CASE EngineStep
  <2>1. UNCHANGED apiVars
    BY <1>10 DEF EngineStep
  <2>2. cpc \in {"idle", "dtor", "destroyed"} => cpc' = cpc /\ timedOut' = timedOut
    BY <1>10 DEF EngineStep, Fetch, Publish, Exit, Working, FetchDirectReturns, Collect,
                 SettleAgain, SettleDone, StartJoin, StartSpawn, CollectTimeout, Cancel,
                 CancelFlag, CancelDone, engineVars, consumerVars, prefetch
  <2> QED BY <2>1, <2>2 DEF apiVars
<1>11. CASE StreamDestroy
  BY <1>11 DEF StreamDestroy, Destroy, DestroyJoin, apiVars, engineVars, consumerVars, prefetch
<1> QED BY <1>1, <1>2, <1>3, <1>4, <1>5, <1>6, <1>7, <1>8, <1>9, <1>10, <1>11 DEF ApiNext, Ensure

\* That StampIsTheRecords is violated is no accident of an instance: whatever
\* is called, no stamp lies before the end of its batch's window, while every
\* record of the batch does, but for one on the end itself (c_api.cpp 63,
\* c_api.h 102).
THEOREM StampIsLate == ApiSpec => [](hasCache => cachedPage <= cachedTs)
<1>1. ApiInit => StampInv
  BY DEF ApiInit, Init, StampInv
<1>2. ApiInv /\ StampInv => (hasCache => cachedPage <= cachedTs)
  BY FetchAssumption DEF StampInv, ApiInv, ApiTypeOK, HandleTypeOK
<1> QED BY <1>1, <1>2, NextStamp, ApiAlways, EngineAlways, EngineDepthAlways, PTL DEF ApiSpec

=============================================================================
