-------------------------- MODULE TimedFetch_proofs --------------------------
(***************************************************************************)
(* Theorems about TimedFetch, for every timeout, backoff, Retry-After, size *)
(* limit and number of retries.  Typed relates the two program counters,   *)
(* fetch_one's and the transfer's; each theorem then has an invariant of   *)
(* its own, which is inductive relative to Typed.                          *)
(***************************************************************************)
EXTENDS TimedFetch, TLAPS

USE DEF cycleState, transport, received, timers, clocks

\* What HandleRetry leaves alone, but for the counters.
cycleVars == <<cancelFlag, streamDone, resp, retries>>

Typed ==
  /\ fpc \in {"idle", "enter", "loop", "execute", "handle", "sleep", "cost", "finish", "done"}
  /\ retries \in 0..MaxRetries /\ resp \in Responses
  /\ cancelFlag \in BOOLEAN /\ (cancelFlag => streamDone)
  /\ transfer \in {"idle", "connecting", "headers", "body", "done", "failed"}
  /\ nap \in 0..MaxSleep /\ age \in Nat /\ gap \in Nat /\ cancelAge \in Nat
  /\ spent \in 0..RequestTimeout /\ (transfer = "connecting" => spent <= ConnectTimeout)
  /\ unseen \in Nat /\ body \in Nat /\ arrived \in Nat
  /\ header \in Nat /\ answer.size \in Nat /\ answer.after \in Nat
  /\ answer.kind \in Kinds \cup {"network"}
  /\ fpc = "execute" <=> transfer # "idle"
  /\ fpc = "sleep" => retries < MaxRetries

LEMMA SleepFacts ==
  /\ MaxSleep \in Nat
  /\ \A r \in Responses, h \in Nat, k \in Nat : Sleeps(r, h, k) \subseteq 0..MaxSleep
<1>1. ASSUME NEW k \in Nat
      PROVE  Delay(k) \in Int /\ Delay(k) <= MaxBackoff
  <2>1. 2^k \in Int
    OBVIOUS
  <2>2. BaseBackoff * 2^k \in Int
    BY <2>1, TimeAssumption
  <2> QED BY <2>2, TimeAssumption DEF Delay, Shorter
<1>2. (5 * MaxBackoff) \div 4 \in Nat /\ MaxRetryAfter \in Nat /\ MaxBackoff \in Nat
  BY TimeAssumption
<1>3. MaxSleep \in Nat /\ MaxRetryAfter <= MaxSleep /\ (5 * MaxBackoff) \div 4 <= MaxSleep
  BY <1>2 DEF MaxSleep
<1>4. ASSUME NEW k \in Nat, NEW s \in Backoff(k)
      PROVE  s \in 0..MaxSleep
  <2>1. Delay(k) \in Int /\ Delay(k) <= MaxBackoff
    BY <1>1
  <2>2. (5 * Delay(k)) \div 4 <= (5 * MaxBackoff) \div 4
    BY <2>1, <1>2
  <2>3. s \in 0..((5 * Delay(k)) \div 4)
    BY DEF Backoff
  <2> QED BY <2>1, <2>2, <2>3, <1>2, <1>3
<1>5. ASSUME NEW r \in Responses, NEW h \in Nat, NEW k \in Nat, NEW s \in Sleeps(r, h, k)
      PROVE  s \in 0..MaxSleep
  <2>1. CASE r \in Retryable /\ RetryAfter(h) > 0
    BY <2>1, <1>2, <1>3 DEF Sleeps, RetryAfter, Shorter
  <2>2. CASE ~(r \in Retryable /\ RetryAfter(h) > 0)
    BY <2>2, <1>4 DEF Sleeps
  <2> QED BY <2>1, <2>2
<1> QED BY <1>3, <1>5

-----------------------------------------------------------------------------
LEMMA TypedInit == Init => Typed
<1> SUFFICES ASSUME Init PROVE Typed
  OBVIOUS
<1> USE SleepFacts, TransportAssumption, TimeAssumption DEF Init, FetchInit, TransportInit
<1>1. resp \in Responses /\ retries \in 0..MaxRetries
  BY DEF Responses, Retryable
<1>2. cancelFlag \in BOOLEAN /\ ~cancelFlag
  BY Zenon
<1>3. answer.size \in Nat /\ answer.after \in Nat /\ answer.kind = "network"
  BY DEF NoAnswer
<1> QED BY <1>1, <1>2, <1>3 DEF Typed

LEMMA TypedTransfer == Typed /\ Transfer => Typed'
<1> SUFFICES ASSUME Typed, Transfer PROVE Typed'
  OBVIOUS
<1> USE TransportAssumption DEF Typed, Transfer
<1>1. CASE Connected
  BY <1>1 DEF Connected
<1>2. CASE \E v \in RetryAfters : InterimHeaders(v)
  BY <1>2 DEF InterimHeaders, Stored
<1>3. CASE \E a \in Answers : FinalHeaders(a)
  <2>1. PICK a \in Answers : FinalHeaders(a)
    BY <1>3
  <2>2. a.size \in Nat /\ a.after \in Nat /\ a.kind \in Kinds
    BY DEF Answers
  <2>3. header' \in Nat /\ answer' = a /\ transfer' = "body"
    BY <2>1, <2>2 DEF FinalHeaders, Stored
  <2> QED BY <2>1, <2>2, <2>3 DEF FinalHeaders
<1>4. CASE \E n \in BodySizes \ {0} : BodyPiece(n)
  BY <1>4 DEF BodyPiece, TooLong
<1>5. CASE Complete
  BY <1>5 DEF Complete
<1>6. CASE TransferAborts(cancelFlag) \/ TransferFails \/ TransferTimesOut
  BY <1>6 DEF TransferAborts, TransferFails, TransferTimesOut, Break, Active
<1> QED BY <1>1, <1>2, <1>3, <1>4, <1>5, <1>6 DEF TransferStep

LEMMA TypedSend == Typed /\ Send => Typed'
BY TransportAssumption DEF Typed, Send, FetchSend, Execute, NoAnswer, flags, cursor, locals, history

LEMMA TypedReceive == Typed /\ Receive => Typed'
<1> SUFFICES ASSUME Typed, Receive PROVE Typed'
  OBVIOUS
<1>1. /\ fpc' = "handle" /\ fpc = "execute" /\ transfer' = "idle" /\ gap' = 0
      /\ resp' = StatusKind
      /\ UNCHANGED <<retries, cancelFlag, streamDone, nap, age, cancelAge, spent, unseen, body,
                     arrived, header, answer>>
  BY DEF Receive, FetchReceive, ExecuteReturns, flags, cursor
<1>2. StatusKind \in Responses
  BY TimeAssumption DEF Typed, StatusKind, Responses
<1> QED BY <1>1, <1>2 DEF Typed

LEMMA TypedOther ==
  Typed /\ (Activate \/ HandOver \/ Retry \/ Wake \/ OtherStep \/ Cancel \/ Tick) => Typed'
<1> SUFFICES ASSUME Typed PROVE (Activate \/ HandOver \/ Retry \/ Wake \/ OtherStep \/ Cancel \/ Tick) => Typed'
  OBVIOUS
<1> USE TimeAssumption, TransportAssumption DEF flags, cursor, locals, history
<1>1. CASE Activate \/ HandOver \/ Cancel
  BY <1>1 DEF Typed, Activate, HandOver, Cancel
<1>2. CASE Retry
  <2>1. nap' \in 0..MaxSleep
    BY <1>2, SleepFacts DEF Typed, Retry
  <2> QED BY <1>2, <2>1 DEF Typed, Retry, HandleRetry, MayRetry, RetriesLeft
<1>3. CASE Wake
  BY <1>3 DEF Typed, Wake, FetchWake
<1>4. CASE OtherStep
  <2> USE DEF Typed, OtherStep
  <2>1. CASE FetchCancelled \/ HandleAborted
    BY <1>4, <2>1 DEF FetchCancelled, HandleAborted, FetchReturn
  <2>2. CASE FetchStart
    BY <1>4, <2>2 DEF FetchStart
  <2>3. CASE HandleRateLimit
    BY <1>4, <2>3 DEF HandleRateLimit
  <2>4. CASE HandleTerminal
    BY <1>4, <2>4 DEF HandleTerminal, FetchReturn, MayRetry
  <2>5. CASE FetchAdvance \/ FetchCost(0)
    BY <1>4, <2>5 DEF FetchAdvance, FetchCost
  <2>6. CASE FetchFinish
    BY <1>4, <2>6 DEF FetchFinish
  <2> QED BY <1>4, <2>1, <2>2, <2>3, <2>4, <2>5, <2>6
<1>5. CASE Tick
  <2>1. CASE fpc = "execute" /\ TransferTick(cancelFlag) /\ UNCHANGED nap
    BY <1>5, <2>1 DEF Typed, Tick, TransferTick, Active, Deadline
  <2>2. CASE fpc = "sleep" /\ nap > 0 /\ nap' = nap - 1 /\ UNCHANGED transport
    BY <1>5, <2>2, SleepFacts DEF Typed, Tick
  <2> QED BY <1>5, <2>1, <2>2 DEF Tick
<1> QED BY <1>1, <1>2, <1>3, <1>4, <1>5

THEOREM TypedSafe == Spec => []Typed
<1>1. Typed /\ [Next]_vars => Typed'
  <2>1. Typed /\ UNCHANGED vars => Typed'
    BY DEF Typed, vars
  <2> QED BY <2>1, TypedTransfer, TypedSend, TypedReceive, TypedOther DEF Next, Done
<1> QED BY TypedInit, <1>1, PTL DEF Spec

-----------------------------------------------------------------------------
\* What the steps that neither send, receive, sleep nor let time pass do to
\* the variables the invariants below are about.
LEMMA OtherFacts ==
  ASSUME OtherStep
  PROVE  /\ UNCHANGED <<cancelFlag, transport, calls, clocks, resp>>
         /\ \/ fpc \in {"enter", "loop"} /\ fpc' = "done" /\ retries' = retries
            \/ fpc = "enter" /\ fpc' = "loop" /\ retries' = 0
            \/ fpc = "handle" /\ fpc' \in {"handle", "cost", "done"} /\ retries' = retries
            \/ fpc = "cost" /\ fpc' = "finish" /\ retries' = retries
            \/ fpc = "finish" /\ fpc' = "done" /\ retries' = retries
<1> USE DEF OtherStep, flags, cursor, locals, history
<1>1. CASE FetchCancelled \/ HandleAborted
  BY <1>1 DEF FetchCancelled, HandleAborted, FetchReturn
<1>2. CASE FetchStart
  BY <1>2 DEF FetchStart
<1>3. CASE HandleRateLimit
  BY <1>3 DEF HandleRateLimit
<1>4. CASE HandleTerminal
  BY <1>4 DEF HandleTerminal, FetchReturn, MayRetry
<1>5. CASE FetchAdvance \/ FetchCost(0) \/ FetchFinish
  BY <1>5 DEF FetchAdvance, FetchCost, FetchFinish
<1> QED BY <1>1, <1>2, <1>3, <1>4, <1>5

LEMMA TransferFacts ==
  ASSUME Transfer
  PROVE  /\ UNCHANGED <<cycleState, fpc, calls, clocks, handle, method, options, timers>>
         /\ transfer' # "idle" /\ transfer # "idle"
BY DEF Transfer, TransferStep, Connected, InterimHeaders, FinalHeaders, BodyPiece, Complete,
       TransferAborts, TransferFails, TransferTimesOut, Break, Active

LEMMA SendFacts ==
  ASSUME Send
  PROVE  /\ fpc = "loop" /\ fpc' = "execute" /\ ~cancelFlag
         /\ UNCHANGED <<cycleState, calls, clocks, handle>>
         /\ transfer' \in {"connecting", "failed"} /\ (transfer' = "connecting" => handle)
         /\ answer' = NoAnswer /\ header' = 0 /\ body' = 0 /\ arrived' = 0
         /\ spent' = 0 /\ unseen' = 0
BY DEF Send, FetchSend, LoopCancelled, Execute, flags, cursor, locals, history

LEMMA ReceiveFacts ==
  ASSUME Receive
  PROVE  /\ fpc = "execute" /\ fpc' = "handle" /\ resp' = StatusKind
         /\ transfer \in {"done", "failed"} /\ transfer' = "idle" /\ gap' = 0
         /\ UNCHANGED <<cancelFlag, retries, nap, age, cancelAge, handle, method, received, timers>>
BY DEF Receive, FetchReceive, ExecuteReturns, Ended, flags, cursor

LEMMA RetryFacts ==
  ASSUME Typed, Retry
  PROVE  /\ fpc = "handle" /\ fpc' = "sleep" /\ retries < MaxRetries
         /\ nap' \in Sleeps(resp, header, retries) /\ nap' \in 0..MaxSleep
         /\ UNCHANGED <<cycleVars, transport, age, gap, cancelAge>>
<1>1. nap' \in 0..MaxSleep
  BY SleepFacts DEF Typed, Retry
<1> QED BY <1>1 DEF Retry, HandleRetry, MayRetry, RetriesLeft, flags, cursor, locals, history,
                    cycleVars

LEMMA WakeFacts ==
  ASSUME Wake
  PROVE  /\ fpc = "sleep" /\ fpc' = "loop" /\ nap = 0 /\ retries' = retries + 1
         /\ UNCHANGED <<cancelFlag, resp, transport, clocks>>
BY DEF Wake, FetchWake, flags, cursor

LEMMA TickFacts ==
  ASSUME Typed, Tick
  PROVE  /\ UNCHANGED <<cycleState, fpc, calls, handle, method, options, transfer, received>>
         /\ age' = age + 1 /\ gap' = gap + 1
         /\ cancelAge' = cancelAge + (IF cancelFlag THEN 1 ELSE 0)
         /\ \/ /\ fpc = "execute" /\ nap' = nap /\ spent < RequestTimeout /\ spent' = spent + 1
               /\ cancelFlag => unseen < ProgressInterval
               /\ unseen' = unseen + (IF cancelFlag THEN 1 ELSE 0)
            \/ fpc = "sleep" /\ nap > 0 /\ nap' = nap - 1 /\ UNCHANGED timers
BY TransportAssumption
   DEF Typed, Tick, TransferTick, Active, Deadline, ProgressCb

-----------------------------------------------------------------------------
\* The age of an activation, by where it is: a turn of the retry loop takes at
\* most one request and one sleep.
Turn == RequestTimeout + MaxSleep

AgeInv ==
  /\ fpc = "enter" => age = 0
  /\ fpc = "loop" => age <= retries * Turn
  /\ fpc = "execute" => age <= retries * Turn + spent
  /\ fpc \in {"handle", "cost", "finish"} => age <= retries * Turn + RequestTimeout
  /\ fpc = "sleep" => age + nap <= retries * Turn + Turn
  /\ fpc = "done" => age <= LongestActivation

LEMMA TurnFacts ==
  ASSUME Typed
  PROVE  /\ Turn \in Nat /\ retries * Turn \in Nat /\ RequestTimeout \in Nat
         /\ (retries + 1) * Turn = retries * Turn + Turn /\ 0 * Turn = 0
         /\ retries * Turn + RequestTimeout <= LongestActivation
<1> USE DEF Typed
<1>1. Turn \in Nat /\ RequestTimeout \in Nat /\ MaxSleep \in Nat /\ MaxRetries \in Nat
  BY SleepFacts, TransportAssumption, TimeAssumption DEF Turn
<1>2. \A a, b, t \in Nat : a <= b => a * t <= b * t
  OBVIOUS
<1>3. retries * Turn <= MaxRetries * Turn
  BY <1>1, <1>2
<1>4. LongestActivation = MaxRetries * Turn + RequestTimeout
  BY <1>1 DEF LongestActivation, Turn
<1>5. retries * Turn \in Nat /\ MaxRetries * Turn \in Nat
  BY <1>1
<1>6. (retries + 1) * Turn = retries * Turn + Turn /\ 0 * Turn = 0
  BY <1>1
<1> QED BY <1>1, <1>3, <1>4, <1>5, <1>6

LEMMA LongestFacts == LongestActivation \in Nat
BY SleepFacts, TransportAssumption, TimeAssumption DEF LongestActivation

LEMMA AgeStep == Typed /\ AgeInv /\ Next => AgeInv'
<1> SUFFICES ASSUME Typed, AgeInv, Next PROVE AgeInv'
  OBVIOUS
<1>1. UNCHANGED <<RequestTimeout, Turn, LongestActivation>>
  BY DEF Turn, LongestActivation, MaxSleep
<1>2. CASE Activate \/ HandOver \/ Cancel \/ Done
  BY <1>1, <1>2 DEF AgeInv, Activate, HandOver, Cancel, Done, vars
<1>3. CASE Send
  BY <1>1, <1>3, SendFacts, TurnFacts DEF AgeInv, Typed
<1>4. CASE Transfer
  BY <1>1, <1>4, TransferFacts DEF AgeInv
<1>5. CASE Receive
  BY <1>1, <1>5, ReceiveFacts, TurnFacts DEF AgeInv, Typed
<1>6. CASE Retry
  <2>1. nap' \in 0..MaxSleep /\ MaxSleep \in Nat
    BY <1>6, RetryFacts, SleepFacts
  <2>2. fpc = "handle" /\ fpc' = "sleep" /\ retries' = retries /\ age' = age
    BY <1>6, RetryFacts DEF cycleVars
  <2>3. age + nap' <= retries * Turn + RequestTimeout + MaxSleep
    BY <2>1, <2>2, TurnFacts DEF AgeInv, Typed
  <2>4. age + nap' <= retries * Turn + Turn
    BY <2>1, <2>3, TurnFacts DEF Turn, Typed
  <2> QED BY <1>1, <2>2, <2>4 DEF AgeInv
<1>7. CASE Wake
  BY <1>1, <1>7, WakeFacts, TurnFacts DEF AgeInv, Typed
<1>8. CASE OtherStep
  <2>1. age' = age /\ nap' = nap /\ spent' = spent
    BY <1>8, OtherFacts
  <2>2. CASE fpc' = "done" /\ retries' = retries
    <3>1. fpc \in {"enter", "loop", "handle", "finish"}
      BY <1>8, <2>2, OtherFacts
    <3>2. age <= retries * Turn + RequestTimeout
      BY <3>1, TurnFacts DEF AgeInv, Typed
    <3>3. age <= LongestActivation
      BY <3>2, TurnFacts, LongestFacts DEF Typed
    <3> QED BY <1>1, <2>1, <2>2, <3>3 DEF AgeInv
  <2>3. CASE fpc = "enter" /\ fpc' = "loop" /\ retries' = 0
    BY <1>1, <2>1, <2>3, TurnFacts DEF AgeInv, Typed
  <2>4. CASE fpc \in {"handle", "cost"} /\ fpc' \in {"handle", "cost", "finish"} /\ retries' = retries
    BY <1>1, <2>1, <2>4 DEF AgeInv
  <2> QED BY <1>8, <2>2, <2>3, <2>4, OtherFacts
<1>9. CASE Tick
  BY <1>1, <1>9, TickFacts, TurnFacts DEF AgeInv, Typed
<1> QED BY <1>2, <1>3, <1>4, <1>5, <1>6, <1>7, <1>8, <1>9 DEF Next

\* An activation of fetch_one takes at most max_retries + 1 requests and
\* max_retries sleeps (engine.hpp 214-260, 331-371).
THEOREM ActivationsAreBounded == Spec => []ActivationBounded
<1>1. Init => AgeInv
  BY DEF Init, AgeInv
<1>2. Typed /\ AgeInv /\ [Next]_vars => AgeInv'
  <2>1. Typed /\ AgeInv /\ UNCHANGED vars => AgeInv'
    BY DEF AgeInv, vars, Turn, LongestActivation, MaxSleep
  <2> QED BY <2>1, AgeStep
<1>3. Typed /\ AgeInv => ActivationBounded
  <2> SUFFICES ASSUME Typed, AgeInv PROVE ActivationBounded
    OBVIOUS
  <2>1. CASE fpc \in {"enter", "loop", "handle", "cost", "finish", "done", "execute"}
    <3>1. CASE fpc = "done"
      BY <3>1 DEF AgeInv, ActivationBounded
    <3>2. CASE fpc # "done"
      <4>1. age <= retries * Turn + RequestTimeout
        BY <2>1, <3>2, TurnFacts DEF Typed, AgeInv
      <4> QED BY <4>1, TurnFacts, LongestFacts DEF Typed, ActivationBounded
    <3> QED BY <3>1, <3>2
  <2>2. CASE fpc = "sleep"
    <3>1. \A a, b, t \in Nat : a <= b => a * t <= b * t
      OBVIOUS
    <3>2. (retries + 1) * Turn <= MaxRetries * Turn /\ MaxRetries * Turn \in Nat
      BY <2>2, <3>1, TurnFacts, TimeAssumption DEF Typed
    <3>3. LongestActivation = MaxRetries * Turn + RequestTimeout /\ RequestTimeout \in Nat
      BY SleepFacts, TransportAssumption, TimeAssumption DEF LongestActivation, Turn
    <3> QED BY <2>2, <3>2, <3>3, TurnFacts DEF Typed, AgeInv, ActivationBounded
  <2>3. CASE fpc = "idle"
    BY <2>3 DEF ActivationBounded
  <2> QED BY <2>1, <2>2, <2>3 DEF Typed
<1> QED BY <1>1, <1>2, <1>3, TypedSafe, PTL DEF Spec

-----------------------------------------------------------------------------
\* What cancel() still waits for, by where the fetching thread is.
CancelBound == ProgressInterval + MaxSleep

CancelInv ==
  /\ fpc = "enter" /\ cancelFlag => cancelAge = 0
  /\ fpc = "execute" /\ ~cancelFlag => unseen = 0
  /\ fpc = "execute" /\ cancelFlag => cancelAge = unseen /\ unseen <= ProgressInterval
  /\ fpc \in {"handle", "cost", "finish"} /\ cancelFlag => cancelAge <= ProgressInterval
  /\ fpc = "sleep" /\ cancelFlag => cancelAge + nap <= CancelBound
  /\ fpc \in {"loop", "done"} /\ cancelFlag => cancelAge <= CancelBound

LEMMA CancelStep == Typed /\ CancelInv /\ Next => CancelInv'
<1> SUFFICES ASSUME Typed, CancelInv, Next PROVE CancelInv'
  OBVIOUS
<1>1. /\ UNCHANGED <<ProgressInterval, CancelBound>>
      /\ MaxSleep \in Nat /\ ProgressInterval \in Nat /\ CancelBound = ProgressInterval + MaxSleep
  BY SleepFacts, TransportAssumption DEF CancelBound, MaxSleep
<1>2. CASE Activate
  <2>1. ~cancelFlag /\ UNCHANGED cancelFlag
    BY <1>2 DEF Activate, Typed
  <2> QED BY <1>2, <2>1 DEF CancelInv, Activate
<1>3. CASE HandOver \/ Done
  BY <1>1, <1>3 DEF CancelInv, HandOver, Done, vars
<1>4. CASE Cancel
  <2>1. nap \in 0..MaxSleep
    BY DEF Typed
  <2> QED BY <1>1, <1>4, <2>1 DEF CancelInv, Cancel
<1>5. CASE Send
  BY <1>1, <1>5, SendFacts DEF CancelInv
<1>6. CASE Transfer
  BY <1>1, <1>6, TransferFacts DEF CancelInv
<1>7. CASE Receive
  BY <1>1, <1>7, ReceiveFacts DEF CancelInv
<1>8. CASE Retry
  BY <1>1, <1>8, RetryFacts DEF CancelInv, cycleVars, Typed
<1>9. CASE Wake
  BY <1>1, <1>9, WakeFacts DEF CancelInv, Typed
<1>10. CASE OtherStep
  BY <1>1, <1>10, OtherFacts DEF CancelInv, Typed
<1>11. CASE Tick
  BY <1>1, <1>11, TickFacts DEF CancelInv, Typed
<1> QED BY <1>2, <1>3, <1>4, <1>5, <1>6, <1>7, <1>8, <1>9, <1>10, <1>11 DEF Next

\* cancel() ends an activation within one call of progress_cb and one sleep
\* (curl_transport.cpp 64-68, engine.hpp 140-143, 356-371).
THEOREM CancelIsBounded == Spec => []CancelLatency
<1>1. Init => CancelInv
  BY DEF Init, CancelInv
<1>2. Typed /\ CancelInv /\ [Next]_vars => CancelInv'
  <2>1. Typed /\ CancelInv /\ UNCHANGED vars => CancelInv'
    BY DEF CancelInv, vars, CancelBound, MaxSleep
  <2> QED BY <2>1, CancelStep
<1>3. Typed /\ CancelInv => CancelLatency
  <2> SUFFICES ASSUME Typed, CancelInv, fpc # "idle", cancelFlag
               PROVE  cancelAge <= CancelBound
    BY DEF CancelLatency, CancelBound
  <2>1. MaxSleep \in Nat /\ ProgressInterval \in Nat /\ CancelBound = ProgressInterval + MaxSleep
    BY SleepFacts, TransportAssumption DEF CancelBound
  <2> QED BY <2>1 DEF CancelInv, Typed
<1> QED BY <1>1, <1>2, <1>3, TypedSafe, PTL DEF Spec

-----------------------------------------------------------------------------
\* The last header block is the answer's, and its Retry-After, if it has one,
\* is what is in the map; the sleep was chosen from it.
RetryInv ==
  /\ transfer \in {"connecting", "headers"} => answer.after = 0
  /\ answer.after > 0 => header = answer.after
  /\ fpc = "sleep" /\ resp \in Retryable /\ answer.after \in 1..MaxRetryAfter =>
       gap + nap >= answer.after
  /\ RetryAfterHonoured

LEMMA RetryStep == Typed /\ RetryInv /\ Next => RetryInv'
<1> SUFFICES ASSUME Typed, RetryInv, Next PROVE RetryInv'
  OBVIOUS
<1>1. CASE Activate \/ HandOver \/ Cancel \/ Done
  BY <1>1 DEF RetryInv, RetryAfterHonoured, Activate, HandOver, Cancel, Done, vars
<1>2. CASE Send
  BY <1>2, SendFacts DEF RetryInv, RetryAfterHonoured, NoAnswer
<1>3. CASE Transfer
  <2>1. fpc' \notin {"sleep", "loop"}
    BY <1>3, TransferFacts DEF Typed
  <2>2. /\ transfer' \in {"connecting", "headers"} => answer'.after = 0
        /\ answer'.after > 0 => header' = answer'.after
    <3> USE TransportAssumption DEF RetryInv, Typed
    <3>1. CASE \E v \in RetryAfters : InterimHeaders(v)
      BY <3>1 DEF InterimHeaders
    <3>2. CASE \E a \in Answers : FinalHeaders(a)
      <4>1. PICK a \in Answers : FinalHeaders(a)
        BY <3>2
      <4>2. a.after \in Nat /\ answer' = a /\ header' = Stored(header, a.after) /\ transfer' = "body"
        BY <4>1 DEF Answers, FinalHeaders
      <4> QED BY <4>2 DEF Stored
    <3>3. CASE Connected \/ Complete
      BY <3>3 DEF Connected, Complete
    <3>4. CASE \E n \in BodySizes \ {0} : BodyPiece(n)
      BY <3>4 DEF BodyPiece
    <3>5. CASE TransferAborts(cancelFlag) \/ TransferFails \/ TransferTimesOut
      BY <3>5 DEF TransferAborts, TransferFails, TransferTimesOut, Break
    <3> QED BY <1>3, <3>1, <3>2, <3>3, <3>4, <3>5 DEF Transfer, TransferStep
  <2> QED BY <2>1, <2>2 DEF RetryInv, RetryAfterHonoured
<1>4. CASE Receive
  BY <1>4, ReceiveFacts DEF RetryInv, RetryAfterHonoured
<1>5. CASE Retry
  <2>1. /\ nap' \in Sleeps(resp, header, retries) /\ fpc' = "sleep"
        /\ UNCHANGED <<transfer, answer, header, resp, gap>>
    BY <1>5, RetryFacts DEF cycleVars
  <2>2. resp \in Retryable /\ answer.after \in 1..MaxRetryAfter => nap' = answer.after
    BY <2>1, TimeAssumption DEF RetryInv, Sleeps, RetryAfter, Shorter, Typed
  <2> QED BY <2>1, <2>2 DEF RetryInv, RetryAfterHonoured, Typed
<1>6. CASE Wake
  BY <1>6, WakeFacts DEF RetryInv, RetryAfterHonoured, Typed
<1>7. CASE OtherStep
  BY <1>7, OtherFacts DEF RetryInv, RetryAfterHonoured
<1>8. CASE Tick
  BY <1>8, TickFacts, TimeAssumption DEF RetryInv, RetryAfterHonoured, Typed
<1> QED BY <1>1, <1>2, <1>3, <1>4, <1>5, <1>6, <1>7, <1>8 DEF Next

\* A request is sent again no earlier than the answer's Retry-After, when the
\* adapter takes it (openai.cpp 129-140, engine.hpp 356-366).
THEOREM RetriesWait == Spec => []RetryAfterHonoured
<1>1. Init => RetryInv
  BY DEF Init, FetchInit, TransportInit, NoAnswer, RetryInv, RetryAfterHonoured
<1>2. Typed /\ RetryInv /\ [Next]_vars => RetryInv'
  <2>1. Typed /\ RetryInv /\ UNCHANGED vars => RetryInv'
    BY DEF RetryInv, RetryAfterHonoured, vars
  <2> QED BY <2>1, RetryStep
<1>3. RetryInv => RetryAfterHonoured
  BY DEF RetryInv
<1> QED BY <1>1, <1>2, <1>3, TypedSafe, PTL DEF Spec

-----------------------------------------------------------------------------
\* What is in the body buffer, by where the transfer is.
WholeInv ==
  /\ Active \/ transfer = "done" => handle
  /\ transfer \in {"connecting", "headers"} => body = 0 /\ arrived = 0
  /\ transfer = "body" => body = arrived /\ body <= BodyLimit
  /\ transfer = "done" => body = answer.size /\ body <= BodyLimit
  /\ WholeOrNothing

LEMMA WholeStep == Typed /\ WholeInv /\ Next => WholeInv'
<1> SUFFICES ASSUME Typed, WholeInv, Next PROVE WholeInv'
  OBVIOUS
<1>1. CASE Activate \/ HandOver \/ Cancel \/ Done
  BY <1>1 DEF WholeInv, WholeOrNothing, Active, Activate, HandOver, Cancel, Done, vars
<1>2. CASE Send
  BY <1>2, SendFacts DEF WholeInv, WholeOrNothing, Active
<1>3. CASE Transfer
  <2>1. fpc' # "handle" /\ transfer # "idle" /\ handle' = handle
    BY <1>3, TransferFacts DEF Typed
  <2>2. WholeOrNothing'
    BY <2>1 DEF WholeOrNothing
  <2> USE TransportAssumption DEF WholeInv, Typed, Active
  <2>3. CASE Connected \/ \E v \in RetryAfters : InterimHeaders(v)
    BY <2>1, <2>2, <2>3 DEF Connected, InterimHeaders
  <2>4. CASE \E a \in Answers : FinalHeaders(a)
    BY <2>1, <2>2, <2>4 DEF FinalHeaders
  <2>5. CASE \E n \in BodySizes \ {0} : BodyPiece(n)
    BY <2>1, <2>2, <2>5 DEF BodyPiece, TooLong
  <2>6. CASE Complete
    BY <2>1, <2>2, <2>6 DEF Complete
  <2>7. CASE TransferAborts(cancelFlag) \/ TransferFails \/ TransferTimesOut
    BY <2>1, <2>2, <2>7 DEF TransferAborts, TransferFails, TransferTimesOut, Break
  <2> QED BY <1>3, <2>3, <2>4, <2>5, <2>6, <2>7 DEF Transfer, TransferStep
<1>4. CASE Receive
  BY <1>4, ReceiveFacts DEF WholeInv, WholeOrNothing, Active, StatusKind
<1>5. CASE Retry \/ Wake
  BY <1>5, RetryFacts, WakeFacts DEF WholeInv, WholeOrNothing, Active
<1>6. CASE OtherStep
  BY <1>6, OtherFacts DEF WholeInv, WholeOrNothing, Active
<1>7. CASE Tick
  BY <1>7, TickFacts DEF WholeInv, WholeOrNothing, Active
<1> QED BY <1>1, <1>2, <1>3, <1>4, <1>5, <1>6, <1>7 DEF Next

\* No answer that was cut short is parsed (curl_transport.cpp 22-30, 155-171).
THEOREM AnswersAreWhole == Spec => []WholeOrNothing
<1>1. Init => WholeInv
  BY DEF Init, FetchInit, TransportInit, WholeInv, WholeOrNothing, Active
<1>2. Typed /\ WholeInv /\ [Next]_vars => WholeInv'
  <2>1. Typed /\ WholeInv /\ UNCHANGED vars => WholeInv'
    BY DEF WholeInv, WholeOrNothing, Active, vars
  <2> QED BY <2>1, WholeStep
<1>3. WholeInv => WholeOrNothing
  BY DEF WholeInv
<1> QED BY <1>1, <1>2, <1>3, TypedSafe, PTL DEF Spec

-----------------------------------------------------------------------------
LEMMA ExecuteOptions ==
  ASSUME Execute("GET", TRUE) \/ Execute("GET", FALSE) \/ Execute("POST", TRUE)
           \/ Execute("POST", FALSE)
  PROVE  NoStaleOption'
BY DEF Execute, NoStaleOption, Active, SetOptions, Reset, OptionNames

\* A transfer refers to nothing of an earlier request: execute starts from
\* curl_easy_reset (curl_transport.cpp 94-152).
THEOREM OptionsAreFresh == Spec => []NoStaleOption
<1>1. Init => NoStaleOption
  BY DEF Init, TransportInit, NoStaleOption, Active
<1>2. Typed /\ NoStaleOption /\ [Next]_vars => NoStaleOption'
  <2> SUFFICES ASSUME Typed, NoStaleOption, [Next]_vars PROVE NoStaleOption'
    OBVIOUS
  <2>1. CASE Activate \/ HandOver \/ Cancel \/ Done \/ UNCHANGED vars
    BY <2>1 DEF NoStaleOption, Active, Activate, HandOver, Cancel, Done, vars
  <2>2. CASE Send
    BY <2>2, ExecuteOptions DEF Send, Methods
  <2>3. CASE Transfer
    <3>1. Active /\ UNCHANGED <<method, options>>
      BY <2>3 DEF Transfer, TransferStep, Connected, InterimHeaders, FinalHeaders, BodyPiece,
                  Complete, TransferAborts, TransferFails, TransferTimesOut, Break, Active
    <3> QED BY <3>1 DEF NoStaleOption
  <2>4. CASE Receive
    BY <2>4, ReceiveFacts DEF NoStaleOption, Active
  <2>5. CASE Retry \/ Wake
    BY <2>5, RetryFacts, WakeFacts DEF NoStaleOption, Active
  <2>6. CASE OtherStep
    BY <2>6, OtherFacts DEF NoStaleOption, Active
  <2>7. CASE Tick
    BY <2>7, TickFacts DEF NoStaleOption, Active
  <2> QED BY <2>1, <2>2, <2>3, <2>4, <2>5, <2>6, <2>7 DEF Next
<1> QED BY <1>1, <1>2, TypedSafe, PTL DEF Spec

=============================================================================
