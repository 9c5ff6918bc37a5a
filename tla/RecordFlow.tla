----------------------------- MODULE RecordFlow ------------------------------
(***************************************************************************)
(* What a reader of records is promised, by ExecutionEngine::stream and by *)
(* the C API alike: the records of the batches in order, one after the     *)
(* other or a batch at a time, no batch reopened once it is finished, and  *)
(* a report of the end only when every batch is.  The two differ in what   *)
(* becomes of a batch in which the callback stops: stream() drops what is  *)
(* left of it (engine.hpp:125), the C API gives it again from its first    *)
(* record (c_api.cpp:248).                                                 *)
(***************************************************************************)
EXTENDS Integers

CONSTANTS NPages, Records,
          Resumes   \* whether a batch left by the callback is given again

VARIABLES
  finished,  \* batches done with
  read,      \* records given of the batch after them, in this pass over it
  handed,    \* how often each record has been given
  told       \* the last call has reported the end

flowVars == <<finished, read, handed, told>>

Open == finished + 1
Page(p) == 1..Records[p]

FlowInit ==
  /\ finished = 0 /\ read = 0 /\ told = FALSE
  /\ handed = [p \in 1..NPages |-> [k \in Page(p) |-> 0]]

\* The next record of the batch that is open.
GiveNext ==
  /\ finished < NPages /\ read < Records[Open]
  /\ handed' = [handed EXCEPT ![Open][read + 1] = @ + 1]
  /\ UNCHANGED told

GoOn == GiveNext /\ read' = read + 1 /\ UNCHANGED finished

\* The callback is given a record and stops.
Stop ==
  /\ GiveNext
  /\ read' = 0
  /\ finished' = IF Resumes THEN finished ELSE Open

\* Every record of the batch has been given.
Finish ==
  /\ finished < NPages /\ read = Records[Open]
  /\ finished' = Open /\ read' = 0
  /\ UNCHANGED <<handed, told>>

\* A batch handed over at one go.
GiveWhole ==
  /\ finished < NPages /\ read = 0
  /\ handed' = [handed EXCEPT ![Open] = [k \in Page(Open) |-> @[k] + 1]]
  /\ finished' = Open
  /\ UNCHANGED <<read, told>>

\* A call reports the end; a later call is a new question.
Report ==
  /\ ~told /\ finished = NPages
  /\ told' = TRUE /\ UNCHANGED <<finished, read, handed>>

CallAgain == told /\ told' = FALSE /\ UNCHANGED <<finished, read, handed>>

FlowNext == GoOn \/ Stop \/ Finish \/ GiveWhole \/ Report \/ CallAgain

FlowSpec == FlowInit /\ [][FlowNext]_flowVars

=============================================================================
