-------------------------- MODULE RecordStream_proofs --------------------------
(***************************************************************************)
(* Theorems about RecordStream, for every number of pages and records and  *)
(* every policy, with and without prefetch: stream() uses the engine as    *)
(* Engine allows, so that Engine's theorems hold of it.                    *)
(***************************************************************************)
EXTENDS RecordStream, Engine_proofs

USE DEF streamVars

\* A step of stream() leaves the engine alone or is a step of the engine.
LEMMA RecordStep == [RecordNext]_<<vars, streamVars>> => [Next]_vars
<1> SUFFICES ASSUME RecordNext PROVE [Next]_vars
  BY DEF streamVars
<1>1. CASE StreamCall
  BY <1>1 DEF StreamCall
<1>2. CASE DirectCall \/ DirectReturn
  BY <1>2 DEF DirectCall, DirectReturn, Next, Finishing
<1>3. CASE Looping
  BY <1>3 DEF Looping, StreamTest, StreamNext, StreamBatch, StreamNoBatch, Give, GoesOn, Stops,
              StreamPageDone, StreamEnd, Next, Finishing
<1>4. CASE EngineStep
  BY <1>4 DEF EngineStep, Next, Finishing
<1>5. CASE StreamDestroy \/ Terminated
  BY <1>5 DEF StreamDestroy, Terminated, Next, Finishing
<1> QED BY <1>1, <1>2, <1>3, <1>4, <1>5 DEF RecordNext

\* Whatever mix of stream() and next_batch is called, what the engine does is a
\* behaviour of Engine (engine.hpp 117-130).
THEOREM StreamUsesEngine == RecordSpec => Spec
<1>1. StreamInit => Init
  BY DEF StreamInit
<1> QED BY <1>1, RecordStep, PTL DEF RecordSpec, Spec

\* What holds of the engine in every state, and what is needed of it here.
EngineInv == TypeInv /\ PipelineInv /\ PromiseInv /\ EndIsHonest

LEMMA EngineAlways == RecordSpec => []EngineInv
BY StreamUsesEngine, TypeAlways, PipelineAlways, PromiseAlways, HonestEnd, PTL DEF EngineInv

-----------------------------------------------------------------------------
\* The consumer is in the engine only when stream() or next_batch is; the batch
\* being given is the last one returned.
RecordInv ==
  /\ given \in [1..NPages -> Nat] /\ index \in Nat
  /\ spc \in {"out", "direct", "test", "next", "call", "page", "ended"}
  /\ spc = "out" => cpc \in {"idle", "dtor", "destroyed"}
  /\ spc \in {"test", "next", "page", "ended"} => cpc = "idle"
  /\ spc \in {"call", "direct"} => cpc \notin {"idle", "dtor", "destroyed"}
  /\ spc = "page" => /\ result.page = delivered /\ delivered \in 1..NPages
                     /\ index = given[delivered] /\ index <= Records[delivered]
  /\ EveryRecordOnce

\* What a call of next_batch that returns has found.
LEMMA ReturnFacts ==
  ASSUME EngineInv, Return
  PROVE  /\ cpc = "return" /\ cpc' = "idle" /\ result' = result
         /\ delivered \in Nat /\ NPages \in Nat
         /\ result.err = "OK" => /\ delivered' = delivered + 1 /\ result.page = delivered + 1
                                 /\ result.page \in 1..NPages
         /\ result.err # "OK" => delivered' = delivered /\ result.page = 0
<1>1. cpc = "return" /\ cpc' = "idle" /\ result' = result
  BY DEF Return
<1>2. delivered \in Nat /\ result \in Results /\ NPages \in Nat
  BY FetchAssumption DEF EngineInv, TypeInv, TypeOK
<1>3. result.err = "OK" <=> result.page # 0
  BY <1>1 DEF EngineInv, PipelineInv, FreshInv, Held
<1>4. result.err = "OK" => result.page = delivered + 1
  BY <1>1 DEF EngineInv, PipelineInv, Held
<1>5. result.page \in 0..NPages
  BY <1>2 DEF Results
<1> QED BY <1>1, <1>2, <1>3, <1>4, <1>5 DEF Return

\* The engine's own steps between two calls leave the last result alone.
LEMMA QuietFacts ==
  ASSUME EngineStep
  PROVE  /\ UNCHANGED <<delivered, streamVars>>
         /\ cpc = "idle" => cpc' = "idle" /\ result' = result
         /\ cpc \in {"dtor", "destroyed"} => cpc' = cpc
         /\ cpc \notin {"idle", "dtor", "destroyed"} => cpc' \notin {"idle", "dtor", "destroyed"}
BY DEF EngineStep, Fetch, Publish, Exit, Working, FetchDirectReturns, Collect, SettleAgain,
       SettleDone, StartJoin, StartSpawn, CollectTimeout, Cancel, CancelFlag, CancelDone,
       engineVars, consumerVars, prefetch, ledger, fetchVars

LEMMA InitRecords == StreamInit => RecordInv
<1> SUFFICES ASSUME StreamInit PROVE RecordInv
  OBVIOUS
<1>1. given = [p \in 1..NPages |-> 0] /\ delivered = 0 /\ spc = "out" /\ index = 0 /\ cpc = "idle"
  BY DEF StreamInit, Init
<1>2. EveryRecordOnce
  BY <1>1, RecordAssumption DEF EveryRecordOnce
<1> QED BY <1>1, <1>2 DEF RecordInv

\* A step that moves only stream()'s place, and not to or from a page.
LEMMA SamePlace ==
  ASSUME RecordInv, UNCHANGED <<given, stopped, delivered>>, spc # "page", spc' # "page"
  PROVE  EveryRecordOnce'
BY DEF RecordInv, EveryRecordOnce, Current

LEMMA NextRecords == EngineInv /\ RecordInv /\ [RecordNext]_<<vars, streamVars>> => RecordInv'
<1> SUFFICES ASSUME EngineInv, RecordInv, [RecordNext]_<<vars, streamVars>> PROVE RecordInv'
  OBVIOUS
<1>1. CASE UNCHANGED <<vars, streamVars>>
  BY <1>1 DEF RecordInv, EveryRecordOnce, Current, vars, engineVars, consumerVars, ledger
<1>2. CASE StreamCall \/ StreamTest \/ StreamEnd
  <2>1. /\ UNCHANGED <<given, stopped, delivered, cpc, result, index>>
        /\ spc # "page" /\ spc' \in {"out", "test", "next", "ended"} /\ cpc = "idle"
    BY <1>2 DEF RecordInv, StreamCall, StreamTest, StreamEnd, StreamReturn, vars, engineVars,
                consumerVars, ledger
  <2> QED BY <2>1, SamePlace DEF RecordInv
<1>3. CASE StreamNext \/ DirectCall
  <2>1. /\ UNCHANGED <<given, stopped, delivered, index>>
        /\ spc # "page" /\ spc' \in {"call", "direct"} /\ cpc' \notin {"idle", "dtor", "destroyed"}
    BY <1>3 DEF StreamNext, DirectCall, NextBatch, NextBatchDirect, NextBatchCollect,
                NextBatchNothing, ledger
  <2> QED BY <2>1, SamePlace DEF RecordInv
<1>4. CASE StreamNoBatch
  <2>1. /\ UNCHANGED <<given, stopped, delivered, index>>
        /\ spc # "page" /\ spc' = "out" /\ cpc' = "idle"
    BY <1>4, ReturnFacts DEF StreamNoBatch, StreamReturn
  <2> QED BY <2>1, SamePlace DEF RecordInv
<1>5. CASE StreamBatch
  <2>1. /\ spc = "call" /\ spc' = "page" /\ cpc' = "idle" /\ result' = result /\ index' = 0
        /\ given' = given /\ stopped' = stopped
        /\ delivered' = delivered + 1 /\ result.page = delivered + 1 /\ result.page \in 1..NPages
    BY <1>5, ReturnFacts DEF StreamBatch
  <2>2. given[delivered'] = 0 /\ Records[delivered'] \in Nat
    BY <2>1, ReturnFacts, <1>5, RecordAssumption DEF StreamBatch, RecordInv, EveryRecordOnce
  <2>3. EveryRecordOnce'
    BY <2>1, <1>5, ReturnFacts DEF StreamBatch, RecordInv, EveryRecordOnce, Current
  <2> QED BY <2>1, <2>2, <2>3 DEF RecordInv
<1>6. CASE GoesOn \/ Stops
  <2> DEFINE d == delivered
  <2>1. /\ spc = "page" /\ result.page = d /\ d \in 1..NPages /\ index = given[d]
        /\ index \in Nat /\ index < Records[d] /\ cpc = "idle"
        /\ given' = [given EXCEPT ![d] = @ + 1]
        /\ UNCHANGED <<delivered, result, cpc>>
    BY <1>6 DEF GoesOn, Stops, Give, Count, RecordInv, vars, engineVars, consumerVars, ledger
  <2>2. given' \in [1..NPages -> Nat] /\ given'[d] = index + 1
        /\ \A p \in 1..NPages : p # d => given'[p] = given[p]
    BY <2>1 DEF RecordInv
  <2>3. Records[d] \in Nat
    BY <2>1, RecordAssumption
  <2>4. CASE GoesOn
    <3>1. spc' = "page" /\ index' = index + 1 /\ stopped' = stopped
      BY <2>1, <2>4 DEF GoesOn
    <3>2. EveryRecordOnce'
      BY <2>1, <2>2, <2>3, <3>1 DEF RecordInv, EveryRecordOnce, Current
    <3> QED BY <2>1, <2>2, <2>3, <3>1, <3>2 DEF RecordInv
  <2>5. CASE Stops
    <3>1. spc' = "out" /\ index' = index /\ stopped' = stopped \cup {d}
      BY <2>1, <2>5 DEF Stops
    <3>2. EveryRecordOnce'
      BY <2>1, <2>2, <2>3, <3>1 DEF RecordInv, EveryRecordOnce, Current
    <3> QED BY <2>1, <2>2, <3>1, <3>2 DEF RecordInv
  <2> QED BY <1>6, <2>4, <2>5
<1>7. CASE StreamPageDone
  <2>1. /\ spc = "page" /\ spc' = "test" /\ cpc = "idle" /\ delivered \in 1..NPages
        /\ result.page = delivered /\ given[delivered] = Records[delivered]
        /\ UNCHANGED <<given, stopped, delivered, cpc, index>>
    BY <1>7 DEF StreamPageDone, Count, RecordInv, vars, engineVars, consumerVars, ledger
  <2>2. EveryRecordOnce'
    BY <2>1 DEF RecordInv, EveryRecordOnce, Current
  <2> QED BY <2>1, <2>2 DEF RecordInv
<1>8. CASE DirectReturn
  <2>1. /\ spc = "direct" /\ spc' = "out" /\ cpc' = "idle" /\ Return
        /\ UNCHANGED <<stopped, index>>
    BY <1>8, ReturnFacts DEF DirectReturn
  <2>2. CASE result.err # "OK"
    <3>1. UNCHANGED <<given, delivered>>
      BY <1>8, <2>1, <2>2, ReturnFacts DEF DirectReturn
    <3> QED BY <2>1, <3>1, SamePlace DEF RecordInv
  <2>3. CASE result.err = "OK"
    <3> DEFINE d == delivered + 1
    <3>1. delivered' = d /\ result.page = d /\ d \in 1..NPages /\ delivered \in Nat
      BY <2>1, <2>3, ReturnFacts
    <3>2. Records[d] \in Nat /\ given[d] = 0
      BY <3>1, RecordAssumption DEF RecordInv, EveryRecordOnce
    <3>3. given' = [given EXCEPT ![d] = @ + Records[d]]
      BY <1>8, <3>1 DEF DirectReturn
    <3>4. given' \in [1..NPages -> Nat] /\ given'[d] = Records[d]
          /\ \A p \in 1..NPages : p # d => given'[p] = given[p]
      BY <3>1, <3>2, <3>3 DEF RecordInv
    <3>5. EveryRecordOnce'
      BY <2>1, <3>1, <3>2, <3>4 DEF RecordInv, EveryRecordOnce, Current
    <3> QED BY <2>1, <3>4, <3>5 DEF RecordInv
  <2> QED BY <2>2, <2>3
<1>9. CASE EngineStep
  <2>1. UNCHANGED <<delivered, streamVars>>
    BY <1>9, QuietFacts
  <2>2. spc = "page" => result' = result
    BY <1>9, QuietFacts DEF RecordInv
  <2>3. EveryRecordOnce'
    BY <2>1, <2>2 DEF RecordInv, EveryRecordOnce, Current
  <2> QED BY <1>9, <2>1, <2>2, <2>3, QuietFacts DEF RecordInv
<1>10. CASE StreamDestroy \/ Terminated
  <2>1. /\ UNCHANGED <<delivered, streamVars, result>>
        /\ cpc' \in {"dtor", "destroyed"} /\ (spc = "out" \/ cpc \in {"dtor", "destroyed"})
    BY <1>10 DEF StreamDestroy, Terminated, Destroy, DestroyJoin, Destroyed, vars, engineVars,
                 consumerVars, ledger
  <2>2. spc = "out"
    BY <2>1 DEF RecordInv
  <2> QED BY <2>1, <2>2, SamePlace DEF RecordInv
<1> QED BY <1>1, <1>2, <1>3, <1>4, <1>5, <1>6, <1>7, <1>8, <1>9, <1>10 DEF RecordNext, Looping

LEMMA RecordAlways == RecordSpec => []RecordInv
BY InitRecords, NextRecords, EngineAlways, PTL DEF RecordSpec

\* The locals and the history of stream() keep their types; RecordInv has the
\* rest of them.
LEMMA NextStreamTypes ==
  ASSUME EngineInv, RecordInv, StreamTypeOK, [RecordNext]_<<vars, streamVars>>
  PROVE  /\ code' \in Codes \cup {"none"} /\ streams' \in Nat
         /\ stopped' \subseteq 1..NPages /\ troubled' \in BOOLEAN
<1>0. /\ code \in Codes \cup {"none"} /\ streams \in Nat /\ stopped \subseteq 1..NPages
      /\ troubled \in BOOLEAN /\ result.err \in Codes
  BY DEF StreamTypeOK, EngineInv, TypeInv, TypeOK, Results
<1>1. CASE UNCHANGED <<vars, streamVars>> \/ EngineStep \/ StreamDestroy \/ Terminated
  BY <1>0, <1>1 DEF EngineStep, StreamDestroy, Terminated
<1>2. CASE StreamCall \/ StreamTest \/ StreamNext \/ StreamBatch \/ DirectCall \/ StreamPageDone
  <2>1. UNCHANGED <<code, stopped, troubled>>
    BY <1>2 DEF StreamCall, StreamTest, StreamNext, StreamBatch, DirectCall, StreamPageDone
  <2>2. streams' = streams \/ streams' = streams + 1
    BY <1>2 DEF StreamCall, StreamTest, StreamNext, StreamBatch, DirectCall, StreamPageDone
  <2>3. streams' \in Nat
    BY <1>0, <2>2
  <2> QED BY <1>0, <2>1, <2>3
<1>3. CASE GoesOn \/ Stops
  <2>1. result.page \in 1..NPages /\ UNCHANGED <<streams, troubled>>
    BY <1>3 DEF GoesOn, Stops, Give, RecordInv
  <2> QED BY <1>0, <1>3, <2>1 DEF GoesOn, Stops, Codes
<1>4. CASE StreamNoBatch \/ StreamEnd
  <2>1. /\ code' \in Codes /\ UNCHANGED <<streams, stopped>>
        /\ troubled' = (troubled \/ code' # "OK")
    BY <1>0, <1>4 DEF StreamNoBatch, StreamEnd, StreamReturn, CodeOf, EndCode, Codes
  <2>2. troubled' \in BOOLEAN
    BY <2>1
  <2> QED BY <1>0, <2>1, <2>2
<1>5. CASE DirectReturn
  <2>1. code' = "none" /\ UNCHANGED <<streams, stopped>>
    BY <1>5 DEF DirectReturn
  <2>2. troubled' \in BOOLEAN
    BY <1>5 DEF DirectReturn
  <2> QED BY <1>0, <2>1, <2>2
<1> QED BY <1>1, <1>2, <1>3, <1>4, <1>5 DEF RecordNext, Looping

\* What stream() and its ledger keep has its type (engine.hpp 117-130).
THEOREM StreamTypeCorrect == RecordSpec => []StreamTypeOK
<1>1. StreamInit /\ RecordInv => StreamTypeOK
  BY DEF StreamInit, RecordInv, StreamTypeOK
<1>2. EngineInv /\ RecordInv /\ RecordInv' /\ StreamTypeOK /\ [RecordNext]_<<vars, streamVars>>
        => StreamTypeOK'
  <2> SUFFICES ASSUME EngineInv, RecordInv, RecordInv', StreamTypeOK,
                      [RecordNext]_<<vars, streamVars>>
               PROVE  StreamTypeOK'
    OBVIOUS
  <2> QED BY NextStreamTypes DEF StreamTypeOK, RecordInv
<1> QED BY <1>1, <1>2, EngineAlways, RecordAlways, PTL DEF RecordSpec

\* The records of every batch are given once each, but for what is left of a
\* batch in which the callback stopped (engine.hpp 124-126).
THEOREM EveryRecordGiven == RecordSpec => []EveryRecordOnce
<1>1. RecordInv => EveryRecordOnce
  BY DEF RecordInv
<1> QED BY <1>1, RecordAlways, PTL

-----------------------------------------------------------------------------
Complete == delivered = NPages

\* Until a call has failed or been cancelled, OK means that every batch has been
\* returned; EveryRecordOnce says what became of the records.
OkIsComplete ==
  spc = "out" /\ code = "OK" /\ ~troubled => delivered = NPages

\* Without trouble the engine has been left at a batch or at its honest end,
\* and a loop that has_next ended either delivered all or finds the flag set.
OkInv ==
  /\ troubled \in BOOLEAN
  /\ ~troubled => phase = "flowing" \/ Complete
  /\ spc = "ended" /\ ~troubled => cancelFlag \/ Complete
  /\ OkIsComplete

\* What a call of next_batch leaves behind.
LEMMA ReturnKeeps ==
  ASSUME EngineInv, Return, phase = "flowing" \/ Complete
  PROVE  /\ Complete => Complete' /\ result.err # "OK"
         /\ result.err = "OK" => phase' = "flowing" \/ Complete'
         /\ result.err = "EXHAUSTED" => Complete'
<1>1. Complete => result.err # "OK" /\ Complete'
  BY ReturnFacts DEF Complete
<1>2. result.err = "OK" => phase' = "flowing"
  BY <1>1 DEF Return, Stopping
<1>3. result.err = "EXHAUSTED" => Complete'
  <2> SUFFICES ASSUME result.err = "EXHAUSTED" PROVE Complete'
    OBVIOUS
  <2>1. Complete
    BY ExhaustedIsHonest, ReturnFacts DEF Complete, EngineInv
  <2> QED BY <1>1, <2>1
<1> QED BY <1>1, <1>2, <1>3

\* cancel_flag_ is never taken back.
LEMMA FlagStays == EngineInv /\ EngineStep /\ cancelFlag => cancelFlag'
<1> SUFFICES ASSUME EngineInv, EngineStep, cancelFlag PROVE cancelFlag'
  OBVIOUS
<1>1. CASE Fetch
  BY <1>1, FetchEffect DEF Fetch, EngineInv
<1>2. CASE ~Fetch
  BY <1>2 DEF EngineStep, Publish, Exit, Working, FetchDirectReturns, Collect, SettleAgain,
              SettleDone, StartJoin, StartSpawn, CollectTimeout, Cancel, CancelFlag, CancelDone,
              fetchVars, flags
<1> QED BY <1>1, <1>2

LEMMA NextOk ==
  EngineInv /\ RecordInv /\ OkInv /\ [RecordNext]_<<vars, streamVars>> => OkInv'
<1> SUFFICES ASSUME EngineInv, RecordInv, OkInv, [RecordNext]_<<vars, streamVars>>
             PROVE  OkInv'
  OBVIOUS
<1>0. troubled \in BOOLEAN
  BY DEF OkInv
<1>1. CASE UNCHANGED <<vars, streamVars>>
  BY <1>1 DEF OkInv, OkIsComplete, Complete, vars, engineVars, consumerVars, ledger, fetchVars, flags
<1>2. CASE StreamCall \/ StreamPageDone \/ GoesOn \/ Stops
  <2>1. UNCHANGED <<delivered, phase, troubled, cancelFlag>> /\ spc' # "ended"
    BY <1>2 DEF StreamCall, StreamPageDone, GoesOn, Stops, Give, vars, engineVars, consumerVars,
                ledger, fetchVars, flags
  <2>2. spc' = "out" => code' = "CANCELLED"
    BY <1>2 DEF StreamCall, StreamPageDone, GoesOn, Stops, RecordInv, Give
  <2> QED BY <2>1, <2>2 DEF OkInv, OkIsComplete, Complete
<1>3. CASE StreamTest
  <2>1. /\ UNCHANGED <<delivered, phase, troubled, cancelFlag>> /\ spc' # "out"
        /\ spc' = "ended" => ~HasNext
        /\ cpc = "idle"
    BY <1>3 DEF StreamTest, RecordInv, vars, engineVars, consumerVars, ledger, fetchVars, flags
  <2>2. spc' = "ended" /\ ~troubled /\ ~cancelFlag => Complete
    BY <2>1 DEF OkInv, EngineInv, EndIsHonest, Complete
  <2> QED BY <2>1, <2>2 DEF OkInv, OkIsComplete, Complete
<1>4. CASE StreamNext \/ DirectCall
  <2>1. /\ UNCHANGED <<delivered, phase, troubled>> /\ spc' \in {"call", "direct"}
    BY <1>4 DEF StreamNext, DirectCall, NextBatch, NextBatchDirect, NextBatchCollect,
                NextBatchNothing, ledger
  <2> QED BY <2>1 DEF OkInv, OkIsComplete, Complete
<1>5. CASE StreamBatch
  <2>1. Return /\ result.err = "OK" /\ troubled' = troubled /\ spc' = "page"
    BY <1>5 DEF StreamBatch
  <2>2. ~troubled => phase' = "flowing" \/ Complete'
    BY <2>1, ReturnKeeps DEF OkInv
  <2> QED BY <2>1, <2>2 DEF OkInv, OkIsComplete
<1>6. CASE StreamNoBatch
  <2>1. /\ Return /\ result.err # "OK" /\ spc' = "out" /\ code' = CodeOf(result.err)
        /\ troubled' = (troubled \/ code' # "OK")
    BY <1>6 DEF StreamNoBatch, StreamReturn
  <2>2. ~troubled' => ~troubled /\ result.err = "EXHAUSTED"
    BY <2>1 DEF CodeOf
  <2>3. ~troubled' => Complete'
    BY <2>1, <2>2, ReturnKeeps DEF OkInv
  <2>4. troubled' \in BOOLEAN
    BY <1>0, <2>1
  <2> QED BY <2>1, <2>3, <2>4 DEF OkInv, OkIsComplete, Complete
<1>7. CASE StreamEnd
  <2>1. /\ UNCHANGED <<delivered, phase>> /\ spc = "ended" /\ spc' = "out" /\ code' = EndCode
        /\ troubled' = (troubled \/ code' # "OK")
    BY <1>7 DEF StreamEnd, StreamReturn, vars, engineVars, consumerVars, ledger
  <2>2. ~troubled' => ~troubled /\ ~cancelFlag
    BY <2>1 DEF EndCode
  <2>3. ~troubled' => Complete /\ Complete'
    BY <2>1, <2>2 DEF OkInv, Complete
  <2>4. troubled' \in BOOLEAN
    BY <1>0, <2>1
  <2> QED BY <2>1, <2>3, <2>4 DEF OkInv, OkIsComplete, Complete
<1>8. CASE DirectReturn
  <2>1. /\ Return /\ spc' = "out" /\ code' = "none"
        /\ troubled' = (troubled \/ result.err \notin {"OK", "EXHAUSTED"})
    BY <1>8 DEF DirectReturn
  <2>2. ~troubled' => ~troubled /\ result.err \in {"OK", "EXHAUSTED"}
    BY <2>1
  <2>3. ~troubled' => phase' = "flowing" \/ Complete'
    BY <2>1, <2>2, ReturnKeeps DEF OkInv
  <2>4. troubled' \in BOOLEAN
    BY <1>0, <2>1
  <2> QED BY <2>1, <2>3, <2>4 DEF OkInv, OkIsComplete
<1>9. CASE EngineStep
  <2>1. UNCHANGED <<delivered, spc, code, troubled>>
    BY <1>9, QuietFacts
  <2>2. phase' = phase
    BY <1>9 DEF EngineStep, Fetch, Publish, Exit, Working, FetchDirectReturns, Collect,
                SettleAgain, SettleDone, StartJoin, StartSpawn, CollectTimeout, Cancel,
                CancelFlag, CancelDone, engineVars, consumerVars, prefetch, ledger
  <2> QED BY <1>9, <2>1, <2>2, FlagStays DEF OkInv, OkIsComplete, Complete
<1>10. CASE StreamDestroy \/ Terminated
  <2>1. UNCHANGED <<delivered, phase, spc, code, troubled>> /\ (cancelFlag => cancelFlag')
    BY <1>10 DEF StreamDestroy, Terminated, Destroy, DestroyJoin, Destroyed, vars, engineVars,
                 consumerVars, ledger, fetchVars, flags
  <2> QED BY <2>1 DEF OkInv, OkIsComplete, Complete
<1> QED BY <1>1, <1>2, <1>3, <1>4, <1>5, <1>6, <1>7, <1>8, <1>9, <1>10 DEF RecordNext, Looping

LEMMA OkAlways == RecordSpec => []OkInv
<1>1. StreamInit => OkInv
  <2> SUFFICES ASSUME StreamInit PROVE OkInv
    OBVIOUS
  <2>1. phase = "flowing" /\ spc = "out" /\ code = "none"
    BY DEF StreamInit, Init
  <2>2. troubled \in BOOLEAN
    BY Zenon DEF StreamInit
  <2> QED BY <2>1, <2>2 DEF OkInv, OkIsComplete
<1> QED BY <1>1, NextOk, RecordAlways, EngineAlways, PTL DEF RecordSpec

\* Until a call has failed or been cancelled, stream() answers OK only when
\* everything has been delivered, wherever cancel() falls between its reads
\* (engine.hpp 117-130).
THEOREM StreamOkIsHonest == RecordSpec => []OkIsComplete
<1>1. OkInv => OkIsComplete
  BY DEF OkInv
<1> QED BY <1>1, OkAlways, PTL

-----------------------------------------------------------------------------
(* stream() implements RecordFlow.                                         *)

USE DEF Flow!flowVars, Flow!Open, Flow!Page

\* Nothing is given and no batch is finished: the reader is left as it was, is
\* told of the end, or asks again.
LEMMA QuietFlow ==
  ASSUME OkIsComplete', UNCHANGED <<given, Finished, InHand>>
  PROVE  [Flow!FlowNext]_Flow!flowVars
<1>1. HandedOut' = HandedOut
  BY DEF HandedOut
<1>2. Told \in BOOLEAN /\ Told' \in BOOLEAN
  BY DEF Told
<1>3. Told' => Finished = NPages
  BY DEF Told, OkIsComplete, Finished
<1>4. CASE Told' = Told
  BY <1>1, <1>4
<1>5. CASE Told = TRUE /\ Told' = FALSE
  BY <1>1, <1>5 DEF Flow!FlowNext, Flow!CallAgain
<1>6. CASE Told = FALSE /\ Told' = TRUE
  <2>1. ~Told /\ Told' /\ Finished = NPages
    BY <1>3, <1>6, Zenon
  <2> QED BY <1>1, <1>6, <2>1, Zenon DEF Flow!FlowNext, Flow!Report
<1>7. Told' = Told \/ (Told = TRUE /\ Told' = FALSE) \/ (Told = FALSE /\ Told' = TRUE)
  BY <1>2, Zenon
<1> QED BY <1>4, <1>5, <1>6, <1>7, Zenon

\* Records given to the consumer are records handed out in RecordFlow.
LEMMA HandOut ==
  ASSUME given \in [1..NPages -> Nat], NEW d \in 1..NPages, Records[d] \in Nat
  PROVE  /\ given' = [given EXCEPT ![d] = @ + 1] /\ given[d] < Records[d] =>
              HandedOut' = [HandedOut EXCEPT ![d][given[d] + 1] = @ + 1]
         /\ given' = [given EXCEPT ![d] = @ + Records[d]] /\ given[d] = 0 =>
              HandedOut' = [HandedOut EXCEPT ![d] = [k \in 1..Records[d] |-> @[k] + 1]]
<1> DEFINE To(g, p) == [k \in 1..Records[p] |-> IF k <= g THEN 1 ELSE 0]
<1>1. HandedOut = [p \in 1..NPages |-> To(given[p], p)]
  BY DEF HandedOut
<1>2. HandedOut' = [p \in 1..NPages |-> To(given'[p], p)]
  BY DEF HandedOut
<1>3. ASSUME given' = [given EXCEPT ![d] = @ + 1], given[d] < Records[d]
      PROVE  HandedOut' = [HandedOut EXCEPT ![d][given[d] + 1] = @ + 1]
  <2>1. given[d] \in Nat /\ given[d] < Records[d]
    BY <1>3
  <2>2. ASSUME NEW g \in Nat, g < Records[d]
        PROVE  To(g + 1, d) = [To(g, d) EXCEPT ![g + 1] = @ + 1]
    <3>1. To(g, d)[g + 1] + 1 = 1 /\ g + 1 \in 1..Records[d]
      BY <2>2
    <3>2. ASSUME NEW k \in 1..Records[d]
          PROVE  To(g + 1, d)[k] = IF k = g + 1 THEN 1 ELSE To(g, d)[k]
      BY <2>2
    <3>3. [To(g, d) EXCEPT ![g + 1] = @ + 1]
            = [k \in 1..Records[d] |-> IF k = g + 1 THEN 1 ELSE To(g, d)[k]]
      BY <3>1
    <3>4. To(g + 1, d) = [k \in 1..Records[d] |-> To(g + 1, d)[k]]
      OBVIOUS
    <3> HIDE DEF To
    <3> QED BY <3>2, <3>3, <3>4
  <2>3. given' = [given EXCEPT ![d] = given[d] + 1]
    BY <1>3
  <2> HIDE DEF To
  <2> QED BY <1>1, <1>2, <2>1, <2>2, <2>3
<1>4. ASSUME given' = [given EXCEPT ![d] = @ + Records[d]], given[d] = 0
      PROVE  HandedOut' = [HandedOut EXCEPT ![d] = [k \in 1..Records[d] |-> @[k] + 1]]
  <2>1. To(Records[d], d) = [k \in 1..Records[d] |-> To(0, d)[k] + 1]
    OBVIOUS
  <2>2. given'[d] = Records[d] /\ \A p \in 1..NPages : p # d => given'[p] = given[p]
    BY <1>4
  <2> HIDE DEF To
  <2>3. HandedOut[d] = To(0, d)
    BY <1>1, <1>4
  <2> QED BY <1>1, <1>2, <2>1, <2>2, <2>3
<1> QED BY <1>3, <1>4

LEMMA FlowStep ==
  EngineInv /\ RecordInv /\ OkInv' /\ [RecordNext]_<<vars, streamVars>>
    => [Flow!FlowNext]_Flow!flowVars
<1> SUFFICES ASSUME EngineInv, RecordInv, OkIsComplete', [RecordNext]_<<vars, streamVars>>
             PROVE  [Flow!FlowNext]_Flow!flowVars
  BY DEF OkInv
<1> USE DEF Finished, InHand
<1>1. CASE UNCHANGED <<vars, streamVars>> \/ StreamCall \/ StreamTest \/ StreamEnd
  <2>1. UNCHANGED <<given, delivered, index>> /\ (spc' = spc \/ (spc # "page" /\ spc' # "page"))
    BY <1>1 DEF StreamCall, StreamTest, StreamEnd, StreamReturn, vars, engineVars, consumerVars,
                ledger
  <2> QED BY <2>1, QuietFlow
<1>2. CASE StreamNext \/ DirectCall
  <2>1. UNCHANGED <<given, delivered>> /\ spc # "page" /\ spc' # "page"
    BY <1>2 DEF StreamNext, DirectCall, NextBatch, NextBatchDirect, NextBatchCollect,
                NextBatchNothing, ledger
  <2> QED BY <2>1, QuietFlow
<1>3. CASE StreamNoBatch \/ (DirectReturn /\ result.err # "OK")
  <2>1. UNCHANGED <<given, delivered>> /\ spc # "page" /\ spc' # "page"
    BY <1>3, ReturnFacts DEF StreamNoBatch, StreamReturn, DirectReturn
  <2> QED BY <2>1, QuietFlow
<1>4. CASE StreamBatch
  <2>1. /\ given' = given /\ spc = "call" /\ spc' = "page" /\ index' = 0
        /\ delivered \in Nat /\ delivered' = delivered + 1
    BY <1>4, ReturnFacts DEF StreamBatch
  <2> QED BY <2>1, QuietFlow
<1>5. CASE EngineStep
  BY <1>5, QuietFacts, QuietFlow
<1>6. CASE StreamDestroy \/ Terminated
  <2>1. UNCHANGED <<given, delivered, index, spc>>
    BY <1>6 DEF StreamDestroy, Terminated, Destroy, DestroyJoin, Destroyed, vars, engineVars,
                consumerVars, ledger
  <2> QED BY <2>1, QuietFlow
<1>7. CASE GoesOn \/ Stops
  <2> DEFINE d == delivered
  <2>1. /\ spc = "page" /\ d \in 1..NPages /\ index = given[d] /\ index < Records[d]
        /\ given' = [given EXCEPT ![d] = @ + 1] /\ delivered' = delivered
        /\ given \in [1..NPages -> Nat] /\ Records[d] \in Nat
    BY <1>7, RecordAssumption
    DEF GoesOn, Stops, Give, Count, RecordInv, vars, engineVars, consumerVars, ledger
  <2>2. d - 1 < NPages /\ (d - 1) + 1 = d /\ NPages \in Nat
    BY <2>1, FetchAssumption
  <2>3. ~Told /\ ~Told'
    BY <1>7, <2>1 DEF GoesOn, Stops, Give, Told
  <2>4. HandedOut' = [HandedOut EXCEPT ![d][index + 1] = @ + 1]
    BY <2>1, HandOut
  <2>5. Flow!GiveNext
    BY <2>1, <2>2, <2>3, <2>4 DEF Flow!GiveNext, Told
  <2>6. CASE GoesOn
    BY <2>1, <2>5, <2>6 DEF GoesOn, Flow!FlowNext, Flow!GoOn
  <2>7. CASE Stops
    BY <2>1, <2>2, <2>5, <2>7 DEF Stops, Flow!FlowNext, Flow!Stop
  <2> QED BY <1>7, <2>6, <2>7
<1>8. CASE StreamPageDone
  <2>1. /\ spc = "page" /\ spc' = "test" /\ delivered \in 1..NPages
        /\ index = Records[delivered] /\ UNCHANGED <<given, delivered>>
    BY <1>8 DEF StreamPageDone, Count, RecordInv, vars, engineVars, consumerVars, ledger
  <2>2. HandedOut' = HandedOut /\ Told' = Told
    BY <2>1 DEF HandedOut, Told
  <2>3. delivered - 1 < NPages /\ (delivered - 1) + 1 = delivered
    BY <2>1, FetchAssumption
  <2> QED BY <2>1, <2>2, <2>3 DEF Flow!FlowNext, Flow!Finish
<1>9. CASE DirectReturn /\ result.err = "OK"
  <2> DEFINE d == delivered + 1
  <2>1. /\ spc = "direct" /\ spc' = "out" /\ code' = "none" /\ delivered' = d
        /\ delivered \in Nat /\ result.page = d /\ d \in 1..NPages
    BY <1>9, ReturnFacts DEF DirectReturn
  <2>2. /\ Records[d] \in Nat /\ given[d] = 0 /\ given \in [1..NPages -> Nat]
        /\ given' = [given EXCEPT ![d] = @ + Records[d]]
    BY <1>9, <2>1, RecordAssumption DEF RecordInv, EveryRecordOnce, DirectReturn
  <2>3. HandedOut' = [HandedOut EXCEPT ![d] = [k \in 1..Records[d] |-> @[k] + 1]]
    BY <2>1, <2>2, HandOut
  <2>4. Told' = Told
    BY <2>1 DEF Told
  <2> QED BY <2>1, <2>3, <2>4, FetchAssumption DEF Flow!FlowNext, Flow!GiveWhole
<1> QED BY <1>1, <1>2, <1>3, <1>4, <1>5, <1>6, <1>7, <1>8, <1>9 DEF RecordNext, Looping

\* stream(), mixed with calls of next_batch, implements RecordFlow: the records
\* in order, a batch in which the callback stopped never reopened, and the end
\* reported truthfully (engine.hpp 117-130).
THEOREM StreamImplementsFlow == RecordSpec => StreamFlows
<1>1. StreamInit => Flow!FlowInit
  <2> SUFFICES ASSUME StreamInit PROVE Flow!FlowInit
    OBVIOUS
  <2>1. delivered = 0 /\ spc = "out" /\ code = "none" /\ given = [p \in 1..NPages |-> 0]
    BY DEF StreamInit, Init
  <2>2. HandedOut = [p \in 1..NPages |-> [k \in 1..Records[p] |-> 0]]
    BY <2>1, RecordAssumption DEF HandedOut
  <2>3. Told = FALSE
    BY <2>1 DEF Told
  <2> QED BY <2>1, <2>2, <2>3 DEF Flow!FlowInit, Finished, InHand
<1> QED BY <1>1, FlowStep, OkAlways, RecordAlways, EngineAlways, PTL
        DEF RecordSpec, StreamFlows, Flow!FlowSpec

=============================================================================
