---------------------------- MODULE MCRecordStream ----------------------------
(***************************************************************************)
(* Instances of RecordStream for TLC: a page of two records and one of one. *)
(***************************************************************************)
EXTENDS RecordStream, MCEngine

MCRecords == [p \in 1..NPages |-> IF p = 1 THEN 2 ELSE 1]
=============================================================================
