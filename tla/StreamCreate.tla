----------------------------- MODULE StreamCreate -----------------------------
(***************************************************************************)
(* stream_create and stream_destroy (c_api/c_api.cpp): the objects behind  *)
(* a StreamHandle, from the factory that makes the adapter to the thread   *)
(* the engine's constructor starts, with a failure or an exception at any  *)
(* step, and the destructors, which wait for the thread.  The module has   *)
(* no Next: GoStream's goroutines drive it.                                *)
(*                                                                         *)
(* What the engine does between is Engine's matter: here a thread fetches, *)
(* and ends by itself.                                                     *)
(***************************************************************************)
EXTENDS Integers

VARIABLES
  place,      \* where stream_create is, then "created" or "null"; "destroyed" at the end
  live,       \* the objects that exist
  depth,      \* the policy's prefetch_depth is at least 1
  cancelled   \* cancel_flag_

cVars == <<place, live, depth, cancelled>>

\* What an engine owns, and what its destructor and its thread need.
Parts == {"adapter", "policy", "transport"}
Objects == Parts \cup {"engine", "thread", "handle"}

CreateInit == place = "find" /\ live = {} /\ depth \in BOOLEAN /\ cancelled = FALSE

-----------------------------------------------------------------------------
\* Arguments that are null or too long, and a name the registry does not have.
CreateRejects ==
  /\ place = "find"
  /\ place' = "null"
  /\ UNCHANGED <<live, depth, cancelled>>

\* The registry's factory turns every exception of from_json into a null.
CreateAdapter ==
  /\ place = "find"
  /\ \/ place' = "policy" /\ live' = live \cup {"adapter"}
     \/ place' = "null" /\ UNCHANGED live
  /\ UNCHANGED <<depth, cancelled>>

CreatePolicy ==
  /\ place = "policy"
  /\ place' = "transport" /\ live' = live \cup {"policy"}
  /\ UNCHANGED <<depth, cancelled>>

CreateTransport ==
  /\ place = "transport"
  /\ place' = "engine" /\ live' = live \cup {"transport"}
  /\ UNCHANGED <<depth, cancelled>>

\* The constructor's members, then its thread.
CreateEngine ==
  /\ place = "engine"
  /\ place' = "handle"
  /\ live' = live \cup {"engine"} \cup (IF depth THEN {"thread"} ELSE {})
  /\ UNCHANGED <<depth, cancelled>>

CreateHandle ==
  /\ place = "handle"
  /\ place' = "created" /\ live' = live \cup {"handle"}
  /\ UNCHANGED <<depth, cancelled>>

\* A policy text that is too long, from_json, an allocation or the constructor
\* of std::thread: the unwinding destroys what there is.  An engine that was
\* complete is cancelled first, and its thread waited for.
CreateThrows ==
  /\ place \in {"policy", "transport", "engine", "handle"}
  /\ place' = "unwind"
  /\ cancelled' = ("engine" \in live)
  /\ UNCHANGED <<live, depth>>

\* ~ExecutionEngine joins before any member is destroyed.
Mut_Joined == TRUE
Joined == "thread" \notin live

Unwound ==
  /\ place = "unwind" /\ Joined
  /\ place' = "null" /\ live' = live \ (Objects \ {"thread"})
  /\ UNCHANGED <<depth, cancelled>>

Create == CreateRejects \/ CreateAdapter \/ CreatePolicy \/ CreateTransport \/ CreateEngine
            \/ CreateHandle \/ CreateThrows \/ Unwound

-----------------------------------------------------------------------------
\* The fetching thread ends.
ThreadEnds ==
  /\ "thread" \in live
  /\ live' = live \ {"thread"}
  /\ UNCHANGED <<place, depth, cancelled>>

\* next_batch returns.  With prefetch it has waited for the thread, and may have
\* started the next one; or it has waited for ten minutes, cancelled, and left
\* the thread running.
NextBatch ==
  /\ \/ "thread" \notin live /\ UNCHANGED <<live, cancelled>>
     \/ /\ depth /\ "thread" \notin live
        /\ live' = live \cup {"thread"} /\ UNCHANGED cancelled
     \/ "thread" \in live /\ cancelled' = TRUE /\ UNCHANGED live
  /\ UNCHANGED <<place, depth>>

StreamCancel == cancelled' = TRUE /\ UNCHANGED <<place, live, depth>>

\* stream_destroy: the engine's destructor cancels, joins, and everything goes.
DestroyBegin ==
  /\ place = "created"
  /\ place' = "destroying" /\ cancelled' = TRUE
  /\ UNCHANGED <<live, depth>>

DestroyEnd ==
  /\ place = "destroying" /\ Joined
  /\ place' = "destroyed" /\ live' = live \ (Objects \ {"thread"})
  /\ UNCHANGED <<depth, cancelled>>

CreateTypeOK ==
  /\ place \in {"find", "policy", "transport", "engine", "handle", "unwind", "null", "created",
                "destroying", "destroyed"}
  /\ live \subseteq Objects /\ depth \in BOOLEAN /\ cancelled \in BOOLEAN

=============================================================================
