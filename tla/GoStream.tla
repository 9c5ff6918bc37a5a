------------------------------- MODULE GoStream -------------------------------
(***************************************************************************)
(* The Go binding (src/bindings/go/apiexec/apiexec.go) over StreamCreate:  *)
(* every method of a Stream holds its mutex from beginning to end, the     *)
(* calls into C included, so that any goroutine may call any of them.      *)
(* ForEach is a sequence of HasNext and NextBatch, between which it holds  *)
(* nothing: the function it calls may call any method.                     *)
(*                                                                         *)
(* The finalizer is Close, called by a goroutine of the runtime's once no  *)
(* other goroutine has the Stream.                                         *)
(***************************************************************************)
EXTENDS StreamCreate

CONSTANTS Goroutines,
          MaxCalls   \* bound: calls of methods

ASSUME GoAssumption == MaxCalls \in Nat /\ Goroutines # {} /\ "free" \notin Goroutines

VARIABLES
  mu,        \* the goroutine that holds s.mu, or "free"
  handle,    \* s.handle is not nil
  at,        \* where each goroutine is in its call
  method,    \* which method it calls
  dropped,   \* nobody has the Stream any more
  calls      \* history: calls so far

goVars == <<mu, handle, at, method, dropped, calls>>
vars == <<cVars, goVars>>

\* HasNext stands for every method that only looks: NextTimestamp and
\* NextString fetch as NextBatch does, CostInfo looks.
Methods == {"HasNext", "NextBatch", "Cancel", "Close"}

Init ==
  /\ CreateInit
  /\ mu = "free" /\ handle = FALSE /\ dropped = FALSE /\ calls = 0
  /\ at = [g \in Goroutines |-> "idle"] /\ method = [g \in Goroutines |-> "HasNext"]

-----------------------------------------------------------------------------
\* NewStream.
Creates == Create /\ handle' = (place' = "created") /\ UNCHANGED <<mu, at, method, dropped, calls>>

Goes(g, here, there) == at[g] = here /\ at' = [at EXCEPT ![g] = there]

Call(g, m) ==
  /\ place \in {"created", "destroying", "destroyed"} /\ calls < MaxCalls
  /\ Goes(g, "idle", "lock")
  /\ dropped => m = "Close" /\ handle
  /\ method' = [method EXCEPT ![g] = m] /\ calls' = calls + 1
  /\ UNCHANGED <<cVars, mu, handle, dropped>>

\* s.mu.Lock(), then the test for nil.
Mut_MayEnter(g) == mu = "free" \/ method[g] = "Cancel"
MayEnter(g) == mu = "free"

Lock(g) ==
  /\ MayEnter(g)
  /\ Goes(g, "lock", IF handle THEN "C" ELSE "unlock")
  /\ mu' = g
  /\ UNCHANGED <<cVars, handle, method, dropped, calls>>

-----------------------------------------------------------------------------
\* The call into C returns.
Returns(g) == Goes(g, "C", "unlock") /\ UNCHANGED <<mu, handle, method, dropped, calls>>

HasNext(g) == method[g] = "HasNext" /\ Returns(g) /\ UNCHANGED cVars
NextOf(g) == method[g] = "NextBatch" /\ Returns(g) /\ NextBatch
Cancel(g) == method[g] = "Cancel" /\ Returns(g) /\ StreamCancel

CloseBegin(g) ==
  /\ method[g] = "Close" /\ at[g] = "C" /\ DestroyBegin
  /\ UNCHANGED goVars

CloseEnd(g) ==
  /\ method[g] = "Close" /\ DestroyEnd
  /\ Goes(g, "C", "unlock") /\ handle' = FALSE
  /\ UNCHANGED <<mu, method, dropped, calls>>

\* The deferred Unlock, on every way out.
Mut_Unlocks(g) == IF handle THEN "free" ELSE mu
Unlocks(g) == "free"

Unlock(g) ==
  /\ Goes(g, "unlock", "idle")
  /\ mu' = Unlocks(g)
  /\ UNCHANGED <<cVars, handle, method, dropped, calls>>

\* The last reference to the Stream goes.
Drop ==
  /\ place = "created" /\ ~dropped /\ \A g \in Goroutines : at[g] = "idle"
  /\ dropped' = TRUE
  /\ UNCHANGED <<cVars, mu, handle, at, method, calls>>

Thread == ThreadEnds /\ UNCHANGED goVars

Step(g) == Lock(g) \/ HasNext(g) \/ NextOf(g) \/ Cancel(g) \/ CloseBegin(g) \/ CloseEnd(g) \/ Unlock(g)

Done ==
  /\ \A g \in Goroutines : at[g] = "idle"
  /\ place = "null" \/ calls = MaxCalls \/ dropped
  /\ UNCHANGED vars

Next == Creates \/ (\E g \in Goroutines, m \in Methods : Call(g, m))
          \/ (\E g \in Goroutines : Step(g)) \/ Thread \/ Drop \/ Done

Spec == Init /\ [][Next]_vars

\* A goroutine inside a method runs on, a thread ends (TimedFetch bounds its
\* activation), and stream_create goes on.  sync.Mutex hands itself to a
\* goroutine that has waited for a millisecond, so that nobody waits for ever.
FairSpec ==
  /\ Spec
  /\ WF_vars(Thread) /\ WF_vars(Creates)
  /\ \A g \in Goroutines : WF_vars(Step(g)) /\ SF_vars(Lock(g))

-----------------------------------------------------------------------------
\* The types of the state.
TypeOK ==
  /\ CreateTypeOK
  /\ mu \in Goroutines \cup {"free"} /\ handle \in BOOLEAN /\ dropped \in BOOLEAN
  /\ at \in [Goroutines -> {"idle", "lock", "C", "unlock"}]
  /\ method \in [Goroutines -> Methods] /\ calls \in 0..MaxCalls

\* No call into C finds the handle destroyed, or being destroyed by another
\* goroutine, and no fetching thread outlives what it fetches with, on the way
\* out of a failed stream_create as after Close.
NothingUsedAfterDestroy ==
  /\ "thread" \in live => Parts \cup {"engine"} \subseteq live
  /\ \A g \in Goroutines :
       at[g] = "C" => /\ place = "created" \/ (place = "destroying" /\ method[g] = "Close")
                      /\ Parts \cup {"engine", "handle"} \subseteq live

\* A stream_create that fails at any step leaves nothing behind, no thread
\* either, and so does Close, called any number of times.
NothingLeaks == place \in {"null", "destroyed"} => live = {}

\* Every call of a method returns: nobody who holds the mutex waits for it.
GoCallsReturn == \A g \in Goroutines : at[g] # "idle" ~> at[g] = "idle"

=============================================================================
