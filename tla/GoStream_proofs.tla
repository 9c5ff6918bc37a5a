---------------------------- MODULE GoStream_proofs ----------------------------
(***************************************************************************)
(* The safety of the Go binding's Stream, for any number of goroutines and *)
(* calls: who is inside the C library holds the mutex, and what exists is  *)
(* what the place of stream_create and stream_destroy says.                *)
(***************************************************************************)
EXTENDS GoStream, TLAPS

USE DEF cVars, goVars

\* The mutex is held from its Lock to its Unlock, by one goroutine.
MutexInv ==
  \A g \in Goroutines : at[g] \in {"C", "unlock"} <=> mu = g

\* Methods are called on a Stream that was created; the handle is there until
\* Close has returned from C, and only the goroutine in Close destroys it.
Creating == {"find", "policy", "transport", "engine", "handle", "unwind", "null"}
Alive == {"created", "destroying"}

PlaceInv ==
  /\ handle <=> place \in Alive
  /\ place = "destroying" => \E g \in Goroutines : at[g] = "C" /\ method[g] = "Close"
  /\ \A g \in Goroutines :
       /\ at[g] # "idle" => place \notin Creating
       /\ at[g] = "C" => /\ place \in Alive
                         /\ place = "destroying" => method[g] = "Close"

\* The objects that exist at each place.  An engine without its parts is never
\* seen, and neither is a thread without its engine.
LiveInv ==
  /\ live \subseteq Objects
  /\ "thread" \in live => Parts \cup {"engine"} \subseteq live
  /\ place \in {"null", "destroyed"} => live = {}
  /\ place = "transport" => {"adapter", "policy"} \subseteq live
  /\ place = "policy" => "adapter" \in live
  /\ place = "engine" => Parts \subseteq live
  /\ place = "handle" => Parts \cup {"engine"} \subseteq live
  /\ place = "find" => live = {}
  /\ place \in Alive => Parts \cup {"engine", "handle"} \subseteq live

IInv == TypeOK /\ MutexInv /\ PlaceInv /\ LiveInv

-----------------------------------------------------------------------------
\* A goroutine that moves: only its place in its call changes.
LEMMA Moves ==
  ASSUME TypeOK, NEW g \in Goroutines, NEW here, NEW there \in {"idle", "lock", "C", "unlock"},
         Goes(g, here, there)
  PROVE  /\ at[g] = here /\ at' \in [Goroutines -> {"idle", "lock", "C", "unlock"}]
         /\ at'[g] = there /\ \A h \in Goroutines \ {g} : at'[h] = at[h]
BY DEF Goes, TypeOK

LEMMA TypeStep == TypeOK /\ LiveInv /\ [Next]_vars => TypeOK'
<1> SUFFICES ASSUME TypeOK, LiveInv, [Next]_vars PROVE TypeOK'
  OBVIOUS
<1> USE GoAssumption DEF TypeOK, CreateTypeOK
<1>1. CASE Creates
  <2>1. /\ place' \in {"find", "policy", "transport", "engine", "handle", "unwind", "null", "created"}
        /\ live' \subseteq Objects /\ UNCHANGED <<depth, mu, at, method, dropped, calls>>
    BY <1>1 DEF Creates, Create, CreateRejects, CreateAdapter, CreatePolicy, CreateTransport,
                CreateEngine, CreateHandle, CreateThrows, Unwound, Objects, Parts
  <2>2. cancelled' = cancelled \/ cancelled' = ("engine" \in live)
    BY <1>1 DEF Creates, Create, CreateRejects, CreateAdapter, CreatePolicy, CreateTransport,
                CreateEngine, CreateHandle, CreateThrows, Unwound
  <2>3. handle' = (place' = "created")
    BY <1>1 DEF Creates
  <2>4. cancelled' \in BOOLEAN
    <3>1. CASE cancelled' = cancelled
      BY <3>1
    <3>2. CASE cancelled' = ("engine" \in live)
      <4>1. CASE "engine" \in live
        BY <3>2, <4>1
      <4>2. CASE "engine" \notin live
        BY <3>2, <4>2
      <4> QED BY <4>1, <4>2
    <3> QED BY <2>2, <3>1, <3>2
  <2>5. handle' \in BOOLEAN
    BY <2>3, Zenon
  <2> QED BY <2>1, <2>4, <2>5
<1>2. ASSUME NEW g \in Goroutines, NEW m \in Methods, Call(g, m) PROVE TypeOK'
  BY <1>2, Moves DEF Call
<1>3. ASSUME NEW g \in Goroutines, Lock(g) PROVE TypeOK'
  BY <1>3, Moves DEF Lock
<1>4. ASSUME NEW g \in Goroutines, HasNext(g) \/ NextOf(g) \/ Cancel(g) PROVE TypeOK'
  BY <1>4, Moves DEF HasNext, NextOf, Cancel, Returns, NextBatch, StreamCancel, Objects
<1>5. ASSUME NEW g \in Goroutines, CloseBegin(g) \/ CloseEnd(g) PROVE TypeOK'
  BY <1>5, Moves DEF CloseBegin, CloseEnd, DestroyBegin, DestroyEnd
<1>6. ASSUME NEW g \in Goroutines, Unlock(g) PROVE TypeOK'
  BY <1>6, Moves DEF Unlock, Unlocks
<1>7. CASE Thread \/ Drop \/ Done \/ UNCHANGED vars
  BY <1>7 DEF Thread, ThreadEnds, Drop, Done, vars
<1> QED BY <1>1, <1>2, <1>3, <1>4, <1>5, <1>6, <1>7 DEF Next, Step

\* Only Lock takes the mutex, when it is free, and only Unlock gives it back.
LEMMA MutexStep == TypeOK /\ MutexInv /\ [Next]_vars => MutexInv'
<1> SUFFICES ASSUME TypeOK, MutexInv, [Next]_vars PROVE MutexInv'
  OBVIOUS
<1> USE GoAssumption DEF MutexInv
<1>1. CASE Creates \/ Thread \/ Drop \/ Done \/ UNCHANGED vars
  BY <1>1 DEF Creates, Thread, Drop, Done, vars
<1>2. ASSUME NEW g \in Goroutines, NEW m \in Methods, Call(g, m) PROVE MutexInv'
  BY <1>2, Moves DEF Call
<1>3. ASSUME NEW g \in Goroutines, Lock(g) PROVE MutexInv'
  BY <1>3, Moves DEF Lock, MayEnter
<1>4. ASSUME NEW g \in Goroutines, HasNext(g) \/ NextOf(g) \/ Cancel(g) PROVE MutexInv'
  BY <1>4, Moves DEF HasNext, NextOf, Cancel, Returns
<1>5. ASSUME NEW g \in Goroutines, CloseBegin(g) \/ CloseEnd(g) PROVE MutexInv'
  BY <1>5, Moves DEF CloseBegin, CloseEnd
<1>6. ASSUME NEW g \in Goroutines, Unlock(g) PROVE MutexInv'
  BY <1>6, Moves DEF Unlock, Unlocks
<1> QED BY <1>1, <1>2, <1>3, <1>4, <1>5, <1>6 DEF Next, Step

\* Who is in C is alone there, so that Close finds nobody when it destroys the
\* handle, and nobody enters after it.
LEMMA PlaceStep == TypeOK /\ MutexInv /\ PlaceInv /\ [Next]_vars => PlaceInv'
<1> SUFFICES ASSUME TypeOK, MutexInv, PlaceInv, [Next]_vars PROVE PlaceInv'
  OBVIOUS
<1> USE DEF PlaceInv, Creating, Alive
<1>1. CASE Creates
  BY <1>1 DEF Creates, Create, CreateRejects, CreateAdapter, CreatePolicy, CreateTransport,
              CreateEngine, CreateHandle, CreateThrows, Unwound
<1>2. ASSUME NEW g \in Goroutines, NEW m \in Methods, Call(g, m) PROVE PlaceInv'
  <2>1. /\ at[g] = "idle" /\ at'[g] = "lock" /\ \A h \in Goroutines \ {g} : at'[h] = at[h]
        /\ \A h \in Goroutines \ {g} : method'[h] = method[h]
        /\ place \in {"created", "destroying", "destroyed"} /\ UNCHANGED <<place, handle>>
    BY <1>2, Moves DEF Call, TypeOK
  <2> QED BY <2>1
<1>3. ASSUME NEW g \in Goroutines, Lock(g) PROVE PlaceInv'
  <2>1. /\ at[g] = "lock" /\ at'[g] = (IF handle THEN "C" ELSE "unlock")
        /\ \A h \in Goroutines \ {g} : at'[h] = at[h]
        /\ UNCHANGED <<place, handle, method>>
    BY <1>3, Moves DEF Lock
  <2>2. \A h \in Goroutines : at[h] # "C"
    BY <1>3, GoAssumption DEF Lock, MayEnter, MutexInv
  <2>3. place # "destroying" /\ (handle => place = "created")
    BY <2>2
  <2>4. place \notin Creating
    BY <2>1
  <2> QED BY <2>1, <2>2, <2>3, <2>4
<1>4. ASSUME NEW g \in Goroutines, HasNext(g) \/ NextOf(g) \/ Cancel(g) PROVE PlaceInv'
  <2>1. /\ at'[g] = "unlock" /\ at[g] = "C" /\ method[g] # "Close" /\ \A h \in Goroutines \ {g} : at'[h] = at[h]
        /\ UNCHANGED <<place, handle, method>>
    BY <1>4, Moves DEF HasNext, NextOf, Cancel, Returns, NextBatch, StreamCancel
  <2> QED BY <2>1
<1>5. ASSUME NEW g \in Goroutines, CloseBegin(g) PROVE PlaceInv'
  <2>1. \A h \in Goroutines \ {g} : at[h] # "C"
    BY <1>5 DEF CloseBegin, MutexInv
  <2> QED BY <1>5, <2>1 DEF CloseBegin, DestroyBegin
<1>6. ASSUME NEW g \in Goroutines, CloseEnd(g) PROVE PlaceInv'
  <2>1. /\ at[g] = "C" /\ at'[g] = "unlock" /\ \A h \in Goroutines \ {g} : at'[h] = at[h]
        /\ place' = "destroyed" /\ ~handle'
    BY <1>6, Moves DEF CloseEnd, DestroyEnd
  <2>2. \A h \in Goroutines \ {g} : at[h] # "C"
    BY <2>1 DEF MutexInv
  <2> QED BY <2>1, <2>2
<1>7. ASSUME NEW g \in Goroutines, Unlock(g) PROVE PlaceInv'
  <2>1. /\ at[g] = "unlock" /\ at'[g] = "idle" /\ \A h \in Goroutines \ {g} : at'[h] = at[h]
        /\ UNCHANGED <<place, handle, method>>
    BY <1>7, Moves DEF Unlock
  <2> QED BY <2>1
<1>8. CASE Thread \/ Drop \/ Done \/ UNCHANGED vars
  BY <1>8 DEF Thread, ThreadEnds, Drop, Done, vars
<1> QED BY <1>1, <1>2, <1>3, <1>4, <1>5, <1>6, <1>7, <1>8 DEF Next, Step

\* Objects come in their order, a thread only with its engine, and they go
\* together when the thread has been joined.
LEMMA LiveStep == PlaceInv /\ LiveInv /\ [Next]_vars => LiveInv'
<1> SUFFICES ASSUME PlaceInv, LiveInv, [Next]_vars PROVE LiveInv'
  OBVIOUS
<1> USE DEF LiveInv, Objects, Parts, Alive
<1>1. CASE Creates
  <2>1. CASE CreateRejects \/ CreateAdapter \/ CreatePolicy \/ CreateTransport
    BY <2>1 DEF CreateRejects, CreateAdapter, CreatePolicy, CreateTransport
  <2>2. CASE CreateEngine \/ CreateHandle
    BY <2>2 DEF CreateEngine, CreateHandle
  <2>3. CASE CreateThrows \/ Unwound
    BY <2>3 DEF CreateThrows, Unwound, Joined
  <2> QED BY <1>1, <2>1, <2>2, <2>3 DEF Creates, Create
<1>2. ASSUME NEW g \in Goroutines, NextOf(g) PROVE LiveInv'
  <2>1. place' = place /\ place \in Alive /\ live' \in {live, live \cup {"thread"}}
    BY <1>2 DEF NextOf, Returns, Goes, NextBatch, PlaceInv
  <2> QED BY <2>1
<1>3. ASSUME NEW g \in Goroutines, CloseBegin(g) \/ CloseEnd(g) PROVE LiveInv'
  BY <1>3 DEF CloseBegin, CloseEnd, DestroyBegin, DestroyEnd, Joined
<1>4. CASE Thread
  BY <1>4 DEF Thread, ThreadEnds
<1>5. CASE UNCHANGED <<place, live>>
  BY <1>5
<1>6. \/ Creates \/ Thread \/ UNCHANGED <<place, live>>
      \/ \E g \in Goroutines : NextOf(g) \/ CloseBegin(g) \/ CloseEnd(g)
  BY DEF Next, Step, Call, Lock, HasNext, Returns, Cancel, StreamCancel, Unlock, Drop, Done, vars
<1> QED BY <1>1, <1>2, <1>3, <1>4, <1>5, <1>6

LEMMA GoAlways == Spec => []IInv
<1>1. Init => IInv
  <2> SUFFICES ASSUME Init PROVE IInv
    OBVIOUS
  <2>1. TypeOK
    <3>1. depth \in BOOLEAN /\ cancelled \in BOOLEAN /\ handle \in BOOLEAN /\ dropped \in BOOLEAN
      BY Zenon DEF Init, CreateInit
    <3> QED BY <3>1, GoAssumption DEF Init, CreateInit, TypeOK, CreateTypeOK, Methods
  <2>2. MutexInv /\ PlaceInv /\ LiveInv
    BY GoAssumption DEF Init, CreateInit, MutexInv, PlaceInv, LiveInv, Creating, Alive
  <2> QED BY <2>1, <2>2 DEF IInv
<1>2. IInv /\ [Next]_vars => IInv'
  BY TypeStep, MutexStep, PlaceStep, LiveStep DEF IInv
<1> QED BY <1>1, <1>2, PTL DEF Spec

-----------------------------------------------------------------------------
\* The Stream's variables keep their types (apiexec.go 69-72).
THEOREM GoTypeCorrect == Spec => []TypeOK
BY GoAlways, PTL DEF IInv

\* Whatever goroutines call, the finalizer among them, nothing that was
\* destroyed is used, nor by a fetching thread (apiexec.go 99-246, c_api.cpp
\* 99-148).
THEOREM GoUsesTheLiving == Spec => []NothingUsedAfterDestroy
<1>1. IInv => NothingUsedAfterDestroy
  BY DEF IInv, PlaceInv, LiveInv, NothingUsedAfterDestroy, Alive
<1> QED BY <1>1, GoAlways, PTL

\* A stream_create that fails at any step and a Close leave no object and no
\* thread behind.
THEOREM GoLeaksNothing == Spec => []NothingLeaks
<1>1. IInv => NothingLeaks
  BY DEF IInv, LiveInv, NothingLeaks
<1> QED BY <1>1, GoAlways, PTL

=============================================================================
