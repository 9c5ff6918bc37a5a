----------------------------- MODULE RecordStream -----------------------------
(***************************************************************************)
(* ExecutionEngine::stream (core/engine.hpp) over Engine: a loop of        *)
(* has_next and next_batch that gives the records of every batch to a      *)
(* callback.  It may be called again, by the same thread, after any        *)
(* return, and mixed with calls of next_batch; cancel() comes from any     *)
(* thread, the callback included.                                          *)
(*                                                                         *)
(* Page p holds Records[p] records.                                        *)
(***************************************************************************)
EXTENDS Engine

CONSTANTS Records,
          MaxStreams   \* bound: calls of stream() and, by the consumer, of next_batch()

\* Each of the NPages batches may let a loop go on; any other answer of
\* next_batch ends the call, so MaxCalls is never met.
ASSUME RecordAssumption ==
  /\ Records \in [1..NPages -> Nat] /\ MaxStreams \in Nat
  /\ MaxCalls >= MaxStreams + NPages

VARIABLES
  spc,       \* where stream() is; "out" between two calls, "direct" in next_batch
  index,     \* records of the batch the callback has been given
  code,      \* what the last call returned, "none" after next_batch
  streams,   \* history: calls so far
  given,     \* history: how many records of each page the consumer was given
  stopped,   \* history: pages in which the callback stopped
  troubled   \* history: a call has failed, hit the budget or been cancelled

streamVars == <<spc, index, code, streams, given, stopped, troubled>>

\* A moved-from result has page 0 and no records.
Count(p) == IF p = 0 THEN 0 ELSE Records[p]

StreamInit ==
  /\ Init
  /\ spc = "out" /\ index = 0 /\ code = "none" /\ streams = 0
  /\ given = [p \in 1..NPages |-> 0] /\ stopped = {} /\ troubled = FALSE

-----------------------------------------------------------------------------
StreamReturn(c) ==
  /\ spc' = "out" /\ code' = c
  /\ troubled' = (troubled \/ c # "OK")

StreamCall ==
  /\ spc = "out" /\ cpc = "idle" /\ streams < MaxStreams
  /\ spc' = "test" /\ streams' = streams + 1
  /\ UNCHANGED <<vars, index, code, given, stopped, troubled>>

\* has_next.
StreamTest ==
  /\ spc = "test"
  /\ spc' = IF HasNext THEN "next" ELSE "ended"
  /\ UNCHANGED <<vars, index, code, streams, given, stopped, troubled>>

StreamNext ==
  /\ spc = "next" /\ NextBatch
  /\ spc' = "call"
  /\ UNCHANGED <<index, code, streams, given, stopped, troubled>>

\* next_batch returns: a batch, the end, or an error.
Mut_StreamBatch ==
  /\ spc = "call" /\ result.err = "OK" /\ Return
  /\ spc' = (IF HasNext THEN "page" ELSE "ended") /\ index' = 0
  /\ UNCHANGED <<code, streams, given, stopped, troubled>>

StreamBatch ==
  /\ spc = "call" /\ result.err = "OK" /\ Return
  /\ spc' = "page" /\ index' = 0
  /\ UNCHANGED <<code, streams, given, stopped, troubled>>

Mut_CodeOf(e) == IF e \in {"EXHAUSTED", "CANCELLED"} THEN "OK" ELSE e
CodeOf(e) == IF e = "EXHAUSTED" THEN "OK" ELSE e

StreamNoBatch ==
  /\ spc = "call" /\ result.err # "OK" /\ Return
  /\ StreamReturn(CodeOf(result.err))
  /\ UNCHANGED <<index, streams, given, stopped>>

\* The callback is given the next record; it goes on or stops.
Give ==
  /\ spc = "page" /\ index < Count(result.page)
  /\ given' = [given EXCEPT ![result.page] = @ + 1]
  /\ UNCHANGED <<vars, streams>>

GoesOn ==
  /\ Give /\ index' = index + 1
  /\ UNCHANGED <<spc, code, stopped, troubled>>

Stops ==
  /\ Give
  /\ spc' = "out" /\ code' = "CANCELLED"
  /\ stopped' = stopped \cup {result.page}
  /\ UNCHANGED <<index, troubled>>

StreamPageDone ==
  /\ spc = "page" /\ index = Count(result.page)
  /\ spc' = "test"
  /\ UNCHANGED <<vars, index, code, streams, given, stopped, troubled>>

\* has_next was false; is_cancelled is read after it.
EndCode == IF cancelFlag THEN "CANCELLED" ELSE "OK"

StreamEnd ==
  /\ spc = "ended" /\ StreamReturn(EndCode)
  /\ UNCHANGED <<vars, index, streams, given, stopped>>

-----------------------------------------------------------------------------
\* The consumer calls next_batch itself and takes all its records.
DirectCall ==
  /\ spc = "out" /\ streams < MaxStreams /\ NextBatch
  /\ spc' = "direct" /\ streams' = streams + 1
  /\ UNCHANGED <<index, code, given, stopped, troubled>>

DirectReturn ==
  /\ spc = "direct" /\ Return
  /\ spc' = "out" /\ code' = "none"
  /\ given' = IF result.page = 0 THEN given
              ELSE [given EXCEPT ![result.page] = @ + Records[result.page]]
  /\ troubled' = (troubled \/ result.err \notin {"OK", "EXHAUSTED"})
  /\ UNCHANGED <<index, streams, stopped>>

-----------------------------------------------------------------------------
Looping == StreamTest \/ StreamNext \/ StreamBatch \/ StreamNoBatch \/ GoesOn \/ Stops
             \/ StreamPageDone \/ StreamEnd

\* The engine's own threads, and cancel() on any thread.
EngineStep ==
  /\ Fetch \/ Publish \/ Exit \/ Working \/ CollectTimeout \/ Cancel
  /\ UNCHANGED streamVars

\* The destructor, between two calls.
StreamDestroy ==
  /\ (spc = "out" /\ Destroy) \/ DestroyJoin
  /\ UNCHANGED streamVars

Terminated == Destroyed /\ UNCHANGED streamVars

RecordNext == StreamCall \/ DirectCall \/ DirectReturn \/ Looping
                \/ EngineStep \/ StreamDestroy \/ Terminated

RecordSpec == StreamInit /\ [][RecordNext]_<<vars, streamVars>>

\* The engine's threads run on: the transport returns (it has a connect and a
\* request timeout) and every sleep ends.  So does a call in progress, and a
\* callback returns.  Nobody has to call stream, cancel or the destructor, and
\* no wait has to time out.
RecordFairSpec ==
  /\ RecordSpec
  /\ WF_<<vars, streamVars>>(Fetch /\ UNCHANGED streamVars)
  /\ WF_<<vars, streamVars>>((Publish \/ Exit) /\ UNCHANGED streamVars)
  /\ WF_<<vars, streamVars>>((Working \/ DestroyJoin) /\ UNCHANGED streamVars)
  /\ WF_<<vars, streamVars>>(CancelDone /\ UNCHANGED streamVars)
  /\ WF_<<vars, streamVars>>(Looping \/ DirectReturn)

-----------------------------------------------------------------------------
\* The types of what stream() keeps.
StreamTypeOK ==
  /\ spc \in {"out", "direct", "test", "next", "call", "page", "ended"}
  /\ index \in Nat /\ code \in Codes \cup {"none"} /\ streams \in Nat
  /\ given \in [1..NPages -> Nat] /\ stopped \subseteq 1..NPages /\ troubled \in BOOLEAN

Current(p) == spc = "page" /\ p = result.page

\* Over any number of calls, failures in between and cancellation at any point,
\* the records of every batch returned are given once each, but for what is
\* left of a batch when the callback stops in it, and no others are.
EveryRecordOnce ==
  \A p \in 1..NPages :
    /\ given[p] <= Records[p]
    /\ p > delivered => given[p] = 0
    /\ p <= delivered /\ ~Current(p) /\ p \notin stopped => given[p] = Records[p]

\* RecordFlow, seen through stream(): a batch is done with once it has been
\* returned and its records are not being given, however many of them were.
Finished == IF spc = "page" THEN delivered - 1 ELSE delivered
InHand == IF spc = "page" THEN index ELSE 0
HandedOut == [p \in 1..NPages |-> [k \in 1..Records[p] |-> IF k <= given[p] THEN 1 ELSE 0]]
Told == spc = "out" /\ code = "OK" /\ ~troubled

Flow == INSTANCE RecordFlow WITH
  Resumes <- FALSE, finished <- Finished, read <- InHand, handed <- HandedOut, told <- Told

\* Over any mix of calls stream() is RecordFlow: records in order, a batch in
\* which the callback stopped is never reopened, and OK reports the end of
\* everything until a call has failed or been cancelled, even when cancel() has
\* made one of its two stores only (engine.hpp:117-130).
StreamFlows == Flow!FlowSpec

\* Every call of stream() and of next_batch returns, whatever fails, times out
\* or is cancelled on the way, and so does the destructor.
CallsReturn == spc # "out" \/ cpc = "dtor" ~> spc = "out" /\ cpc \in {"idle", "destroyed"}

=============================================================================
