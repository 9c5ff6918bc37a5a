---------------------------- MODULE BatchStream -----------------------------
(***************************************************************************)
(* What the consumer of an ExecutionEngine is promised, call by call, with *)
(* no threads, retries or buffers: the pages of the server in order, each  *)
(* once, mixed with error codes, and an end that is an end.                *)
(***************************************************************************)
EXTENDS Integers

CONSTANTS NPages, FetchErrors

VARIABLES
  delivered,  \* batches handed over
  outcome,    \* code of the last call, "none" before the first
  phase       \* "flowing", "failed" once a call failed, "stopped" at the end

streamVars == <<delivered, outcome, phase>>

StreamInit == delivered = 0 /\ outcome = "none" /\ phase = "flowing"

\* A batch: always the next page, and never after the end.
Deliver ==
  /\ phase # "stopped" /\ delivered < NPages
  /\ delivered' = delivered + 1 /\ outcome' = "OK"
  /\ UNCHANGED phase

\* A failure loses nothing: the next call may still deliver the same page.
Fail(e) ==
  /\ outcome \notin {"EXHAUSTED", "CANCELLED"}
  /\ outcome' = e
  /\ phase' = IF phase = "stopped" THEN "stopped" ELSE "failed"
  /\ UNCHANGED delivered

\* The end.  EXHAUSTED claims that nothing is left, unless a call has failed
\* or the budget has stopped the stream; CANCELLED is for good.
Stop(e) ==
  /\ e = "EXHAUSTED" => delivered = NPages \/ phase # "flowing"
  /\ outcome = "CANCELLED" => e = "CANCELLED"
  /\ outcome = "EXHAUSTED" => e # "BUDGET_EXHAUSTED"
  /\ outcome' = e /\ phase' = "stopped"
  /\ UNCHANGED delivered

StreamNext == \/ Deliver
              \/ \E e \in FetchErrors : Fail(e)
              \/ \E e \in {"EXHAUSTED", "CANCELLED", "BUDGET_EXHAUSTED"} : Stop(e)

StreamSpec == StreamInit /\ [][StreamNext]_streamVars

=============================================================================
