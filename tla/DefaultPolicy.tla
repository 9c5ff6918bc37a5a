---------------------------- MODULE DefaultPolicy ----------------------------
(***************************************************************************)
(* The arithmetic of DefaultPolicy: how adjust changes the width of a time *)
(* window.  The factors, doubles in the code, are fractions here; the code *)
(* truncates the product to a whole number of milliseconds.                *)
(***************************************************************************)
EXTENDS Integers

CONSTANTS GrowNum, GrowDen,      \* window_grow_factor
          ShrinkNum, ShrinkDen,  \* window_shrink_factor
          MinWindow, MaxWindow   \* min_window_ms, max_window_ms

\* What from_json accepts.
ASSUME PolicyAssumption ==
  /\ GrowNum \in Nat /\ GrowDen \in Nat \ {0} /\ GrowNum > GrowDen
  /\ ShrinkNum \in Nat \ {0} /\ ShrinkDen \in Nat /\ ShrinkNum < ShrinkDen
  /\ MinWindow \in Nat \ {0} /\ MaxWindow \in Nat /\ MaxWindow >= MinWindow

Least(a, b) == IF a <= b THEN a ELSE b
Most(a, b) == IF a >= b THEN a ELSE b

\* adjust(cursor, true) and adjust(cursor, false), on the width w; a cursor
\* without a window has width 0 and keeps it.
Grown(w) == IF w <= 0 THEN w ELSE Least((w * GrowNum) \div GrowDen, MaxWindow)

Mut_Shrunk(w) == IF w <= 0 THEN w ELSE Least((w * ShrinkNum) \div ShrinkDen, MinWindow)
Shrunk(w) == IF w <= 0 THEN w ELSE Most((w * ShrinkNum) \div ShrinkDen, MinWindow)

=============================================================================
