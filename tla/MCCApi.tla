-------------------------------- MODULE MCCApi --------------------------------
(***************************************************************************)
(* Instances of CApi for TLC: two pages, of two records and of none, whose *)
(* JSON fits the larger of the two buffers a caller may pass.              *)
(***************************************************************************)
EXTENDS CApi

MCWindow == {1}
MCStill == [w \in MCWindow |-> 1]
MCNoCost == {0}
MCRecords == [p \in 1..NPages |-> IF p = 1 THEN 2 ELSE 0]
MCJsonSize == [p \in 1..NPages |-> IF p = 1 THEN 3 ELSE 2]
MCBufLens == {0, 2, 3}
=============================================================================
