# TLA+ models of apiexec

apiexec is a C++ library that streams paginated data from HTTP APIs. An
`ExecutionEngine` asks a vendor adapter for requests, runs them on a transport,
retries what a policy lets it retry, and hands one batch per page to a single
consumer, usually one page ahead of it on a background thread. A C API puts a
one-batch cache over the engine, and bindings in Go, Rust, Python, JavaScript
and Java call the C API.

This directory holds TLA+ modules of its core logic, TLC configurations that
check them on small instances, and proofs for TLAPS of what matters most. Paths
below are relative to `src/source/` unless they say otherwise.

## Inventory

| Component | State | Operations | What makes it correct |
|---|---|---|---|
| `core/engine.hpp` ExecutionEngine | cursor, two atomic flags, the prefetch thread with its slot, ready and in-flight flags, a failure counter | constructor, `has_next`, `next_batch`, `cancel`, `stream`, destructor; `fetch_one` and `handle_error` inside | pages in order, none lost or twice; one fetch at a time; cancellation and destruction end; `has_next` is honest |
| `core/metrics.hpp` | counters and gauges | `inc_*`, snapshot, OpenMetrics text | every request is accounted for once |
| `core/cursor.hpp` | time window, page token, exhausted flag, extra map | moved by adapters and policies | moves forward one page per success |
| `policy/default_policy*`, `policy/cost_aware_policy.hpp` | limits; accumulated cost | `adjust`, `backoff`, `record_cost`, `budget_exceeded`, `from_json` | windows stay within limits, the budget is respected |
| `adapters/datadog_metrics.cpp` | window length, last document | `build_request`, `parse_response`, `next_cursor` | no second of history is skipped |
| `adapters/generic_rest.cpp` | last document | the same | follows the server's links and stops where they do |
| `adapters/openai.cpp`, `anthropic.cpp`, `ai_adapter.hpp` | prompts, last document, last usage | the same, `response_cost`, `chunk_text` | each prompt once, in order, charged once; the chunks are the text |
| `adapters/registry.cpp` | name to factory | `register_adapter`, `find` | filled before `main` |
| `transport/curl_transport.cpp` | a curl handle | `execute` and its three callbacks | bounded bodies and times, prompt cancellation, nothing of an earlier request left on the handle |
| `c_api/c_api.cpp` StreamHandle | the engine, one cached batch | `stream_create`, `stream_has_next`, `stream_next_*`, `stream_foreach_v1`, `stream_cancel`, `stream_destroy`, `stream_cost_info_v1` | no batch dropped between engine and caller; a failed create leaves nothing behind |
| `src/bindings/` | a handle (Go: and a mutex) | one wrapper per C function | any goroutine may call any method, close once |
| `core/logging.hpp`, `main.cpp`, `examples/` | none | text output | nothing to model |

The consumer calls the engine directly or through the C API. The engine owns the
adapter, the policy and the transport. With prefetch, `fetch_one` runs on the
prefetch thread and the consumer waits for it on a condition variable, at most
ten minutes; without, it runs on the consumer. `cancel()` may come from any
thread; it is two atomic stores that the transport's progress callback and the
loops of `fetch_one` look at. The hard parts are these: the order of those
threads' steps, a cancellation between any two of them, a wait that times out
while its fetch still runs, failures that are retried by three mechanisms (the
retry loop, the prefetch that is started once more, the caller), a cursor that
is a page ahead of what the consumer has, and state that outlives the response
it came from. `PROJECT.json` lists them, each at its line, under `hazards`.

## Modules

| Module | What it models |
|---|---|
| `FetchCycle` | one activation of `fetch_one` with `handle_error`: one action per branch |
| `Engine` | the engine's threads around FetchCycle; its properties |
| `BatchStream` | what a consumer of batches may rely on: the abstract specification Engine implements |
| `RecordFlow` | what a reader of records may rely on: the abstract specification RecordStream and CApi implement |
| `EngineInvariants` | the inductive invariants behind Engine's theorems |
| `Engine_proofs` | the theorems about Engine |
| `DefaultPolicy` | `adjust`: growing and shrinking a width, in fractions |
| `TimeWindow`, `TimeWindow_proofs` | the Datadog adapter under that policy, over FetchCycle |
| `PromptPages` | the OpenAI and Anthropic adapters, over FetchCycle |
| `RestPages`, `RestPages_proofs` | the generic REST adapter against any server |
| `RecordStream`, `RecordStream_proofs` | `stream()`, over Engine |
| `CApi`, `CApi_proofs` | the C API's handle, over Engine |
| `CurlTransport` | `execute` and libcurl's callbacks |
| `TimedFetch`, `TimedFetch_proofs` | FetchCycle over CurlTransport, with time |
| `ChunkText` | `chunk_text` and `prompt_chunk_for_cursor` |
| `PromptAdapters_proofs` | the theorems about PromptPages and ChunkText |
| `StreamCreate` | `stream_create` and `stream_destroy`, with a failure at every step |
| `GoStream`, `GoStream_proofs` | the Go binding's Stream, over StreamCreate |
| `MCEngine`, `MCRecordStream`, `MCCApi` | constants of the instances for TLC |
| `MCEngineModes` | Engine with prefetch or without, in one run |

**FetchCycle.** `fpc` is the place in `fetch_one`: `enter` (the three early
returns), `loop` (cancelled?), `execute` (the transport), `handle`
(`handle_error` and `parse_response`), `sleep`, `cost`, `finish`, `done`. A
response is one of six classes: status 0, 4xx, 429, 5xx, a body that parses and
a body that does not; what it holds is not modelled. A page is a number: the
cursor is the number of pages it has moved past, and is exhausted when that is
`NPages`. The policy's and the adapter's effect on the width of the time window
are constant functions (`Grow`, `Shrink`, `NextWindow`), which TimeWindow
replaces with the real ones. `aborted`, `lateRequests` and `cycleWindow` are
history. The module has no Next: Engine says which thread runs it.

**Engine.** `cpc` is where the consumer is, `thread` the `std::thread` object.
`Publish` is the critical section at the end of the prefetch thread, `Exit` its
notification; `Collect` and `CollectTimeout` are the two ends of `wait_for`;
`SettleAgain`, `SettleDone`, `StartJoin` and `StartSpawn` are
`next_batch_prefetch` and `start_prefetch` after it; `CancelFlag` and
`CancelDone` are the two stores of `cancel()`; `Destroy` and `DestroyJoin` the
destructor. A method that runs under one lock, or touches state of its own
thread only, is one step; two stores another thread can tell apart are two. The
ten-minute wait may time out whenever nothing is ready: six requests of 120 s
with their sleeps, or one Retry-After of an hour, take longer.

**TimeWindow.** The start of a window is `page * WindowMs`, since `next_cursor`
adds `window_ms` per page from 0. `Send` is `build_request`, from the cursor as
it is at that try; `Limit` the shrink on a 429; `Take` a response that parses:
the seconds asked for have been fetched. Without prefetch and cancellation,
which touch no window.

**PromptPages.** The page token is the index of a prompt, the empty token index
0. `Take` is `parse_response` with `next_cursor`, `Reject` a terminal error,
which may reset the last usage before it fails, `Charge` is `response_cost` with
`record_cost`. The Anthropic adapter does the same to its cursor and adds two
numbers for the usage; the count it leaves in `Cursor::extra` is read by nothing.

**RestPages.** The server is any function from tokens to pages, each naming a
next token (the empty one included), none (a missing field or null), or a value
of another type, and each with or without data. `FailStored` is the body that
replaces `last_parsed_` before it is rejected; `NextCursorThrows` the
`get<std::string>()` that throws.

**RecordFlow.** Batches done with, records given of the one after them, how often
each record was given, and whether the last call has reported the end. A batch
is given record by record or whole; a callback that stops ends its batch or, when
`Resumes`, rewinds it. RecordStream maps to it without `Resumes`: `stream()` drops
what is left of a batch. CApi maps to it with: the cache stays, and the next call
gives the batch again. In both, `told` is an OK of `stream()` or
`stream_foreach_v1` before any call has failed; OK after a failure promises
nothing, as the findings show.

**CApi.** `apc` is where the call is: in `ensure_fetched`, in the engine, at the
read of the cursor's time stamp, or serving. The engine's own actions interleave
with all of it, and so does cancellation, which is also what a callback may call.
`stream_next_batch_v1` and `stream_next_v2_sc` do the same to the handle and are
one operation, `next`. A JSON text is its length, a start time the number of the
window.

**RecordStream.** `spc` is where `stream()` is: at `has_next` (`test`), about to
call `next_batch` (`next`), in it (`call`), in the loop over the records
(`page`), past the loop with `is_cancelled` not yet read (`ended`). The callback
goes on or stops at every record. The consumer may call `stream()` again after
any return, and `next_batch` in between; the engine's threads and `cancel()`
interleave with all of it.

**CurlTransport.** `options` says, for each option of the handle that outlives
the requests, whether the data it refers to belongs to the present request
(`this`) or to an earlier one (`stale`). `BodyPiece` is `write_cb`, `InterimHeaders`
and `FinalHeaders` are `header_cb`, `TransferAborts` is `progress_cb`. What
libcurl does by itself follows from the options `execute` sets, and is marked
external where no line of `src/` stands for it. `Retry-After` is the one header
`fetch_one` looks at.

**TimedFetch.** FetchCycle as an instance, its `execute` being a transfer. `Tick`
is a unit of time in `curl_easy_perform` or `sleep_for`, the two places where
time passes. `Sleeps` is what `handle_error` waits: the adapter's `retry_after`,
which is 0 when the header asks for more than an hour, or else
`DefaultPolicy::backoff` with its jitter. It is the caller's activation, without
a prefetch thread, whose `fetch_one` is the same.

**ChunkText.** A text is its size, the places of its spaces and those of its
sentence ends; a chunk is a pair of offsets. One action per way the loop ends a
chunk: at the end, at a sentence, at a word, at the limit.

**StreamCreate.** `live` is the set of objects that exist. Each step of
`stream_create` may fail; `CreateThrows` and `Unwound` are the unwinding, which
cancels and joins an engine that was complete. The engine is reduced to whether
its thread runs, since Engine says the rest. The copies of the two texts before the
try block (`c_api.cpp:99`) are not taken to fail: there is nothing to unwind yet,
and a `bad_alloc` would cross the C boundary.

**GoStream.** `mu` is the Stream's mutex. `Call` is a goroutine at the door, `Lock`
the mutex and the test for nil, `Unlock` the deferred unlock. `Drop` is the loss
of the last reference, after which only the finalizer's Close is called.

## Runs

| Run | Shows | Instance |
|---|---|---|
| `engine` | order, no page lost, one fetcher, prompt cancellation, an honest end, the budget overshot by less than one response, requests bounded per call, counters add up, one window move per activation, BatchStream | with prefetch and without; 3 pages of cost 1 or 2, budget 2, 1 retry, 3 widths, 4 calls |
| `record_stream` | every record once, RecordFlow without `Resumes`, calls and destructor return, `has_next` stays false | fairness, 2 pages (2 records, 1), 2 calls, no retry |
| `time_window` | what is asked is taken, no gap before a 429, widths bounded | window 6, 4 units a second, growth 7/6, shrink 1/2, limits 2 and 8 |
| `prompt_pages` | the cursor is Engine's, prompts in order, cost exact | 3 prompts that cost 0 or 2, budget 3 |
| `rest_pages` | the walk follows the links, ends where they end | all 1000 servers on 2 tokens, 4 requests |
| `c_api_prefetch` | no batch dropped, records once, RecordFlow with `Resumes`, every call returns | fairness, 2 pages (2 records, none), 2 calls |
| `timed_fetch` | options fresh, answers whole, Retry-After honoured, activation and cancellation bounded | 2 tries, time limits 1 and 2, backoff 2, Retry-After 0 to 3 of which 3 is too long, bodies 1 and 3 against a limit of 2 |
| `chunk_text` | the chunks are the text, bounded, broken where they may be | all texts of up to 8 characters, limits 0, 1, 2, 3, 5 |
| `go_stream` | nothing used after it is destroyed, nothing left over, methods return | fairness, 3 goroutines, 4 calls |

Why the bounds are enough: the pipeline holds at most two pages (one in the slot
or the fetch, one with the consumer), so two pages and an exhausted cursor meet
every combination, and three let a page be lost with another after it; one
retry separates the first try, a retry and retries exhausted, and lets a second
429 follow a first that has shrunk the window, whose three widths tell one move
from two; a budget of 2 with pages of cost 1 or 2 is met exactly by one page or
by two, or overshot by the second; `MCEngineModes` runs Engine twice side by
side, with prefetch and without, under the same invariants; four
calls are two failures (after which the engine stops its prefetch) and two more, before or after a cancellation. The two runs with
fairness have no retry, since `TimedFetch` shows that the retry loop ends. In
`record_stream` two calls of `stream()` are one that stops, fails or is
cancelled and one after it, each of up to three calls of `next_batch`; in
`c_api_prefetch` two are a first that leaves a batch in the cache and a second
that finds it there. In both `MaxCalls` is more than the calls of `next_batch`
that these make, so it cuts nothing off. One buffer of `c_api_prefetch` is too
small, one is enough, one has length 0. In `time_window` neither the window nor
its half is a whole number of seconds, the window is below `max_window_ms`, and
one growth is less than a second. In `timed_fetch` every time is the smallest
that differs from those it is compared with. In `chunk_text` eight characters
hold two chunks of each kind and a rest. In `go_stream` one goroutine may hold
the mutex while two wait. The proofs leave the bounds out.

`c_api_doc_foreach`, `c_api_doc_stamp` and `rest_pages_throws` each check a sentence of
`c_api/c_api.h` that the code does not keep; TLC finds the behaviour, and
`findings` in PROJECT.json quotes the sentence:

- `c_api_doc_foreach`: EXHAUSTED is also the engine's answer after two failures,
  with pages left, and `stream_foreach_v1` turns it into OK;
- `c_api_doc_stamp`: `stream_next_v2_ts` is to give "the record's epoch timestamp"
  (`c_api.h:102`); it gives the start of the window the engine's cursor is at, which
  has moved past the batch (`c_api.cpp:63`): the end of the batch's window, or of
  the one after it when the prefetch thread was quick. The run shows the second,
  as a record may lie on the end of its window; `StampIsLate` proves that no stamp
  is earlier than that end;
- `rest_pages_throws`: a next token that is not a string throws across the C
  boundary, or on the prefetch thread.

Also seen in the code while it was translated. What a property states as it is:

- after `cancel()` one call may return the prefetched batch before the
  CANCELLED of `c_api.h:170` (`CancelIsPrompt`);
- `stream()` returns OK, "if fully exhausted" by `engine.hpp:119`, after two failures
  with pages left too (`StreamFlows` takes OK for the end only until a call has failed);
- `cancel()` does not wake a sleeper, and a 429 or 5xx that has just come in gets
  its sleep, up to an hour for a Retry-After (`CancelLatency`);
- a chunk may be two characters longer than `max_chars` (`ChunkBound`).

And checked by no run:

- six requests of 120 s are longer than the ten minutes of `collect_prefetch` (`engine.hpp:209`),
  which therefore may time out without any Retry-After;
- a timed-out wait answers NETWORK without counting a network error
  (`engine.hpp:214`);
- the clamp of a Retry-After to an hour never bites, as the adapters drop
  larger values first (`engine.hpp:360`, `openai.cpp:135`);
- `records_total` counts records when fetched, not when delivered
  (`engine.hpp:308`); a snapshot of the metrics is read counter by counter and
  may mix two moments;
- after a 429 the Datadog adapter leaves a gap that no later request fills
  (`datadog_metrics.cpp:100`), and neither the first request nor one at
  `min_window_ms` gets narrower (`default_policy.cpp:36`); one below it gets wider;
- a server that names the empty token starts the generic REST stream over
  (`generic_rest.cpp:45`): `FollowsLinks` takes that token for a link, as the code does.

Each property of a passing run has a mutant (`Mut_` definitions, used by nothing
but PROJECT.json's `mutants`): a plausible slip in the code under which TLC finds
the property violated.

## Fairness

`RecordFairSpec` and `ApiFairSpec` ask for weak fairness of what runs by itself:
the activation of `fetch_one`, the prefetch thread's last two steps, the consumer
inside a call, the second store of `cancel()`, and callbacks, which return. The
code justifies it: the transport has a connect and a request timeout, sleeps
end (`ActivationBounded` gives the sum), mutexes are held for single assignments.
Nobody has to call anything, and no wait has to time out. `CallsReturn` and
`ApiCallsReturn` show that the loops, the wait and the joins all end.

`FairSpec` of GoStream asks for weak fairness of the goroutines' steps, of
`stream_create` and of the fetching thread, and for strong fairness of `Lock`:
`sync.Mutex` hands itself to a goroutine that has waited for a millisecond, so
nobody is overtaken for ever.

## Proofs

TLAPS proves the following for every value of the constants the ASSUMEs admit:
any number of pages, retries, calls and records, any budget and costs, any
factors and limits `from_json` accepts, any server, any times and any text. TLC
evaluates the ASSUMEs on the instances.

- `Engine_proofs`. The inductive invariant is EngineInvariants' `PipelineInv`
  with the type invariant. `ThreadInv` says who runs `fetch_one`; `FreshInv` when
  slot and result carry a page and that it is the newest one; `TimeoutInv` that
  after a timeout nothing more is collected; then the position of the cursor
  against what was delivered. Safety of single steps (`InOrder`) does not follow
  from itself: whether the slot is fresh depends on where the thread and the
  consumer are. From it come order, no loss, one fetcher, the accounts of
  requests, budget and window, cancellation, the honest end, and that Engine
  implements `BatchStream` (`StreamRefinement`). `FinalEnd`: neither
  flag is ever taken back, and with one set and nothing in flight no step starts
  another fetch (`Closed`).
  `WakeupsReachTheWaiter`: by `FlightInv` a fetch in flight runs or has published,
  so nobody waits for a thread that has gone. `RequestsPerCall`: `CostInv` charges
  every activation with `max_retries + 1` requests and every call with one
  activation, so the retry loop, the prefetch that is started once more and the
  caller's repeated calls add up and do not multiply.
- `RecordStream_proofs`. Every step of `stream()` is a step of Engine or leaves it
  alone (`StreamUsesEngine`), so Engine's theorems hold of it, with prefetch and
  without. `RecordInv` ties the records given to the batches delivered, but for
  the batch in hand; with Engine's `InOrder` it is inductive. `OkInv` adds that
  an untroubled stream is one in Engine's phase "flowing", where
  `EndIsHonest` says that `has_next` is false at the end only. With both, each
  step is a step of RecordFlow or a stutter (`StreamImplementsFlow`).
- `CApi_proofs`. The same (`ApiUsesEngine`); with Engine's `InOrder`, `CacheInv` and
  `RecordInv` give that no batch is dropped and no record skipped. `ForeachInv`
  adds, as `OkInv` does, that a foreach meets the end only when all is
  delivered; with them each step is one of RecordFlow or a stutter
  (`ApiImplementsFlow`). `StampInv`: the stamp is read when the cursor has moved
  past the batch, hence `StampIsLate`.
- `TimeWindow_proofs`. Lemmas about scaling by a fraction and truncating, then
  `WindowInv`: the request in flight is the cursor's, a window narrower than
  `window_ms` has met a 429. From it: no gap before the first 429, bounds on
  growth and shrinking.
- `PromptAdapters_proofs`. `PromptInv`: the token is the number of answered
  prompts, the request in flight asks for the next one. `ChunkInv`: the chunks so
  far are not empty, adjoin, end at the loop's position and satisfy the bounds; a
  chunk is judged when it is pushed and never touched again.
- `RestPages_proofs`. `WalkInv`: the parsed document is the page under the
  cursor's token.
- `TimedFetch_proofs`. `WholeInv`: what the body, the options and the answer are
  at each place of a transfer. `AgeInv`: an activation's age is at most what its
  earlier tries, the time spent in this one and the part of the nap slept make;
  `CancelInv` the same from the cancellation, after which the loop sends
  nothing. `RetryInv`: the time since the response and the rest of the nap make up
  what the answer asked for.
- `GoStream_proofs`. `MutexInv`: the goroutine inside C is the one that holds the
  mutex. `PlaceInv`: the handle is there until Close is back from C, and what is
  being destroyed is being destroyed by the only goroutine inside C. `LiveInv`:
  which objects exist at each place of `stream_create` and `stream_destroy`, and that
  no thread outlives its engine. None of the three is inductive without the
  others. From them: no use after destruction, and nothing left over.

Only model-checked: liveness (`CallsReturn`, `ApiCallsReturn`, `GoCallsReturn`),
which depends on fairness and is out of the provers' reach. Only proved:
`NoLostWakeup` and `StampIsLate`; what the refinements of RecordFlow
rest on (`OkIsComplete`, `ForeachIsComplete`); `stream()` and the C API without
prefetch, with retries and with a budget, which the runs leave out. The types of
TimeWindow and PromptPages are not proved as such: their invariants hold
those that the arguments need.

## Not modelled

- Text: JSON, URLs, logs, the OpenMetrics format, the contents of requests and
  answers; `from_json` beyond the ranges it lets through. Nothing above depends on
  it.
- Gauges, the metrics callback and snapshots, `remaining_budget`: they report and
  steer nothing.
- The Python, Rust, JavaScript and Java bindings forward each call; where they
  lock nothing (`apiexec.py:138`) the outcome is undefined, and GoStream shows what
  the lock is for.
- Adapters that throw inside Engine: on the prefetch thread the process ends
  (`rest_pages_throws` stops there). Thread start and memory that fail after
  creation.
- Callbacks of the engine set after its constructor: a data race on a
  `std::function` whose outcomes cannot be enumerated.
- TLS options, moves of CurlTransport (nothing uses them), registration before
  `main`, `main.cpp` and the examples.
- What the documentation rules out: two consumers of one engine, use after
  `stream_destroy` from C.

## Plan

1. `stream_next_batch_v1` called from a foreach callback, which clears the vector
   that is being walked (`c_api.cpp:245`).
2. The Python binding beside GoStream, as it is without a lock.
3. Prefetch in `TimedFetch`: which policies let the ten-minute wait time out.
4. Proofs: what a behaviour of RecordFlow promises, once and for both of its
   implementations; the types of TimeWindow and PromptPages.
