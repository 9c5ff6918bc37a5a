---------------------------- MODULE MCEngineModes ----------------------------
(***************************************************************************)
(* An engine whose policy asks for prefetch, or one whose policy does not: *)
(* the constructor reads prefetch_depth once, and a run checks either.     *)
(* PrefetchEnabled is that of the first.                                   *)
(***************************************************************************)
EXTENDS MCEngine

VARIABLE depth

Sequential == INSTANCE Engine WITH PrefetchEnabled <- FALSE

MCInit == \/ depth = 1 /\ Init
          \/ depth = 0 /\ Sequential!Init

MCNext == \/ depth = 1 /\ UNCHANGED depth /\ Next
          \/ depth = 0 /\ UNCHANGED depth /\ Sequential!Next

MCSpec == MCInit /\ [][MCNext]_<<vars, depth>>
=============================================================================
