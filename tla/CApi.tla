--------------------------------- MODULE CApi ---------------------------------
(***************************************************************************)
(* The C API (c_api/c_api.cpp) over Engine: a StreamHandle holds at most   *)
(* one batch in its cache, and stream_next_batch_v1, stream_next_v2_ts,    *)
(* stream_next_v2_sc and stream_foreach_v1, called one at a time by one    *)
(* thread, share it.  stream_cancel, on any thread and also from inside a  *)
(* callback, is Engine's Cancel.                                           *)
(*                                                                         *)
(* Page p holds Records[p] records and its JSON, terminator included, is   *)
(* JsonSize[p] long.  Start times are counted in pages: a cursor that has  *)
(* moved past n pages names the window that starts at n.                   *)
(***************************************************************************)
EXTENDS Engine

CONSTANTS Records, JsonSize,
          BufLens,   \* buffer lengths a caller passes
          MaxOps     \* bound: calls of the API

\* Each of the NPages batches may let a foreach go on; any other answer of
\* next_batch ends the call, so MaxCalls is never met.
ASSUME CApiAssumption ==
  /\ Records \in [1..NPages -> Nat] /\ JsonSize \in [1..NPages -> Nat]
  /\ BufLens \subseteq Int /\ MaxOps \in Nat
  /\ MaxCalls >= MaxOps + NPages

VARIABLES
  apc,         \* where the call is; "idle" between two calls
  op, bufLen,  \* the call and the length of its buffer
  hasCache,    \* has_cached_result
  cachedPage,  \* the page in cached_json and cached_record_jsons, 0 for none
  cachedTs,    \* cached_ts_ms
  index,       \* records of the page the callback has been given
  rc,          \* what the last call returned
  ops,         \* history: calls so far
  seen,        \* history: how often each record has been handed to the caller
  stops,       \* history: how often a callback stopped inside each page
  consumed,    \* history: the last page whose cache was consumed
  troubled     \* history: a call has returned an engine error other than EXHAUSTED

cache == <<hasCache, cachedPage, cachedTs>>
heard == <<seen, stops>>
call == <<op, bufLen, ops>>
apiVars == <<apc, call, cache, index, rc, heard, consumed, troubled>>

Page(p) == 1..Records[p]

ApiInit ==
  /\ Init
  /\ apc = "idle" /\ op = "none" /\ bufLen = 0 /\ rc = "OK" /\ ops = 0 /\ index = 0
  /\ hasCache = FALSE /\ cachedPage = 0 /\ cachedTs = 0
  /\ seen = [p \in 1..NPages |-> [k \in Page(p) |-> 0]]
  /\ stops = [p \in 1..NPages |-> 0]
  /\ consumed = 0 /\ troubled = FALSE

-----------------------------------------------------------------------------
Call(o, n) ==
  /\ apc = "idle" /\ cpc = "idle" /\ ops < MaxOps
  /\ op' = o /\ bufLen' = n /\ ops' = ops + 1

\* stream_next_batch_v1 and stream_next_v2_sc, which do the same to the
\* handle, check the buffer length first.
CallNext(n) ==
  /\ IF n <= 0 THEN Call("next", 0) /\ rc' = "INVALID_ARG" /\ UNCHANGED apc
               ELSE Call("next", n) /\ apc' = "ensure" /\ UNCHANGED rc
  /\ UNCHANGED <<vars, cache, index, heard, consumed, troubled>>

CallTs ==
  /\ Call("ts", 0) /\ apc' = "ensure"
  /\ UNCHANGED <<vars, cache, index, rc, heard, consumed, troubled>>

CallForeach ==
  /\ Call("foreach", 0) /\ apc' = "ensure"
  /\ UNCHANGED <<vars, cache, index, rc, heard, consumed, troubled>>

\* The call returns; bufLen is of no more use.
Answer(code) == rc' = code /\ apc' = "idle" /\ bufLen' = 0 /\ UNCHANGED <<op, ops>>

-----------------------------------------------------------------------------
\* ensure_fetched: the cache, or next_batch.
EnsureCached ==
  /\ apc = "ensure" /\ hasCache
  /\ apc' = "serve"
  /\ UNCHANGED <<vars, call, cache, index, rc, heard, consumed, troubled>>

Mut_EnsureFetch ==
  /\ apc = "ensure" /\ (~hasCache \/ op = "foreach")
  /\ NextBatch
  /\ apc' = "engine"
  /\ UNCHANGED <<call, cache, index, rc, heard, consumed, troubled>>

EnsureFetch ==
  /\ apc = "ensure" /\ ~hasCache
  /\ NextBatch
  /\ apc' = "engine"
  /\ UNCHANGED <<call, cache, index, rc, heard, consumed, troubled>>

\* stream_foreach_v1 answers EXHAUSTED with OK.
CodeOf(e) == IF op = "foreach" /\ e = "EXHAUSTED" THEN "OK" ELSE e

EnsureFails ==
  /\ apc = "engine" /\ result.err # "OK"
  /\ Return
  /\ Answer(CodeOf(result.err))
  /\ troubled' = (troubled \/ result.err # "EXHAUSTED")
  /\ UNCHANGED <<cache, index, heard, consumed>>

EnsureFills ==
  /\ apc = "engine" /\ result.err = "OK"
  /\ Return
  /\ cachedPage' = result.page
  /\ apc' = "stamp"
  /\ UNCHANGED <<call, hasCache, cachedTs, index, rc, heard, consumed, troubled>>

\* The time stamp is read from the engine's cursor, which the prefetch
\* thread started by next_batch may be moving.
Stamp ==
  /\ apc = "stamp"
  /\ cachedTs' = page /\ hasCache' = TRUE
  /\ apc' = "serve"
  /\ UNCHANGED <<vars, call, cachedPage, index, rc, heard, consumed, troubled>>

-----------------------------------------------------------------------------
\* consume_cache.
Consume ==
  /\ hasCache' = FALSE /\ cachedPage' = 0 /\ cachedTs' = 0
  /\ consumed' = cachedPage

\* The time stamp only peeks at the batch.
ServeTs ==
  /\ apc = "serve" /\ op = "ts"
  /\ Answer("OK")
  /\ UNCHANGED <<vars, cache, index, heard, consumed, troubled>>

\* A buffer that is too small leaves the batch for another try.
Mut_ServeTooSmall ==
  /\ apc = "serve" /\ op = "next" /\ JsonSize[cachedPage] > bufLen
  /\ Answer("CLIENT")
  /\ Consume
  /\ UNCHANGED <<vars, index, heard, troubled>>

ServeTooSmall ==
  /\ apc = "serve" /\ op = "next" /\ JsonSize[cachedPage] > bufLen
  /\ Answer("CLIENT")
  /\ UNCHANGED <<vars, cache, index, heard, consumed, troubled>>

ServeBatch ==
  /\ apc = "serve" /\ op = "next" /\ JsonSize[cachedPage] <= bufLen
  /\ Answer("OK")
  /\ seen' = [seen EXCEPT ![cachedPage] = [k \in Page(cachedPage) |-> @[k] + 1]]
  /\ Consume
  /\ UNCHANGED <<vars, index, stops, troubled>>

\* stream_foreach_v1: one record to the callback, which goes on or stops.
Give ==
  /\ apc = "serve" /\ op = "foreach" /\ index < Records[cachedPage]
  /\ seen' = [seen EXCEPT ![cachedPage][index + 1] = @ + 1]

CallbackGoesOn ==
  /\ Give
  /\ index' = index + 1
  /\ UNCHANGED <<vars, apc, call, cache, rc, stops, consumed, troubled>>

\* A callback that stops leaves the whole page in the cache.
Mut_CallbackStops ==
  /\ Give
  /\ stops' = [stops EXCEPT ![cachedPage] = @ + 1]
  /\ Answer("STOPPED") /\ index' = 0
  /\ Consume
  /\ UNCHANGED <<vars, troubled>>

CallbackStops ==
  /\ Give
  /\ stops' = [stops EXCEPT ![cachedPage] = @ + 1]
  /\ Answer("STOPPED") /\ index' = 0
  /\ UNCHANGED <<vars, cache, consumed, troubled>>

ForeachPageDone ==
  /\ apc = "serve" /\ op = "foreach" /\ index = Records[cachedPage]
  /\ Consume
  /\ apc' = "ensure" /\ index' = 0
  /\ UNCHANGED <<vars, call, rc, heard, troubled>>

-----------------------------------------------------------------------------
\* The engine's own threads, and stream_cancel on any thread.
EngineStep ==
  /\ Fetch \/ Publish \/ Exit \/ Working \/ CollectTimeout \/ Cancel
  /\ UNCHANGED apiVars

\* stream_destroy, between two calls.
StreamDestroy ==
  /\ (apc = "idle" /\ Destroy) \/ DestroyJoin
  /\ UNCHANGED apiVars

Terminated == Destroyed /\ UNCHANGED apiVars

Ensure == EnsureCached \/ EnsureFetch \/ EnsureFails \/ EnsureFills \/ Stamp
Serve == ServeTs \/ ServeTooSmall \/ ServeBatch \/ ForeachPageDone
Callback == CallbackGoesOn \/ CallbackStops

ApiNext ==
  \/ \E n \in BufLens : CallNext(n)
  \/ CallTs \/ CallForeach
  \/ Ensure \/ Serve \/ Callback
  \/ EngineStep \/ StreamDestroy \/ Terminated

ApiSpec == ApiInit /\ [][ApiNext]_<<vars, apiVars>>

\* The engine's threads run on, and so does a call in progress; a callback
\* returns.
ApiFairSpec ==
  /\ ApiSpec
  /\ WF_<<vars, apiVars>>(Fetch /\ UNCHANGED apiVars)
  /\ WF_<<vars, apiVars>>((Publish \/ Exit) /\ UNCHANGED apiVars)
  /\ WF_<<vars, apiVars>>((Working \/ CancelDone) /\ UNCHANGED apiVars)
  /\ WF_<<vars, apiVars>>(Ensure \/ Serve \/ Callback)

-----------------------------------------------------------------------------
\* The types of the handle's fields.
HandleTypeOK ==
  /\ apc \in {"idle", "ensure", "engine", "stamp", "serve"}
  /\ op \in {"none", "next", "ts", "foreach"} /\ bufLen \in BufLens \cup {0}
  /\ hasCache \in BOOLEAN /\ cachedPage \in 0..NPages /\ cachedTs \in 0..NPages
  /\ index \in Nat /\ rc \in Codes \cup {"INVALID_ARG", "STOPPED"} /\ ops \in Nat
  /\ DOMAIN seen = 1..NPages /\ \A p \in 1..NPages : seen[p] \in [Page(p) -> Nat]
  /\ stops \in [1..NPages -> Nat]
  /\ consumed \in 0..NPages /\ troubled \in BOOLEAN

ApiTypeOK == TypeOK /\ HandleTypeOK

\* The handle neither drops nor overwrites a batch the engine gave it, over
\* any mix of calls, buffers that are too small and callbacks that stop.
NoBatchDropped ==
  delivered = IF cachedPage = 0 THEN consumed ELSE consumed + 1

\* The records of a page that has been consumed were each handed over, once
\* more than callbacks stopped in the page at the most; no record of a later
\* page has been.
RecordsOnce ==
  \A p \in 1..NPages : \A k \in Page(p) :
    /\ seen[p][k] <= stops[p] + 1
    /\ p <= consumed => seen[p][k] >= 1
    /\ p > consumed + 1 => seen[p][k] = 0

\* The cache is empty or holds the last batch the engine returned, and has its
\* flag set but while it is being filled.
CacheInv ==
  /\ NoBatchDropped
  /\ cachedPage # 0 => cachedPage = delivered
  /\ hasCache <=> cachedPage # 0 /\ apc # "stamp"
  /\ apc = "engine" => cachedPage = 0
  /\ apc \in {"stamp", "serve"} => cachedPage # 0

\* Records the running foreach has given to its callback.
Given(p, k) == p = cachedPage /\ k <= index

\* RecordsOnce for record k of page p, sharpened to what holds in the middle of
\* a foreach.
RecordInvAt(p, k) ==
  /\ p <= consumed => seen[p][k] >= 1 /\ seen[p][k] <= stops[p] + 1
  /\ p > consumed => seen[p][k] <= stops[p] + One(Given(p, k))
  /\ Given(p, k) => seen[p][k] >= 1
  /\ p > (IF cachedPage = 0 THEN consumed ELSE cachedPage) => seen[p][k] = 0

\* The invariant the code keeps, of which RecordsOnce is a consequence.
RecordInv ==
  /\ index # 0 => apc = "serve" /\ op = "foreach"
  /\ cachedPage # 0 => index <= Records[cachedPage]
  /\ \A p \in 1..NPages : \A k \in Page(p) : RecordInvAt(p, k)

HandleInv == CacheInv /\ RecordInv

\* RecordFlow, seen through the handle: a batch is done with once its cache has
\* been consumed.
Told == apc = "idle" /\ op = "foreach" /\ rc = "OK" /\ ~troubled

Flow == INSTANCE RecordFlow WITH
  Resumes <- TRUE, finished <- consumed, read <- index, handed <- seen, told <- Told

\* Over any mix of calls the C API is RecordFlow: records in order, a batch
\* handed over whole or one record at a time, one in which the callback stopped
\* given again from its start, and stream_foreach_v1 answers OK, until a call
\* has failed, only when every record has been handed over.
ApiFlows == Flow!FlowSpec

\* Every call of the API returns, however often a foreach has to fetch.
ApiCallsReturn == apc # "idle" ~> apc = "idle"

-----------------------------------------------------------------------------
\* What c_api.h says and the code does not do.

\* c_api.h:143: stream_foreach_v1 returns OK when the stream is exhausted.
ForeachOkIsExhausted ==
  apc = "idle" /\ op = "foreach" /\ rc = "OK" => consumed = NPages

\* c_api.h:102: out_ts_ms is set to the record's epoch timestamp.  The records
\* of batch p are those of the window from p - 1 to p, both ends included.
StampIsTheRecords ==
  apc = "idle" /\ op = "ts" /\ rc = "OK" /\ Records[cachedPage] > 0 =>
    cachedPage - 1 <= cachedTs /\ cachedTs <= cachedPage

=============================================================================
