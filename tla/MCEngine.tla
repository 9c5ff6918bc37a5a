------------------------------ MODULE MCEngine ------------------------------
(***************************************************************************)
(* Instances of Engine for TLC: a few pages, one retry, three widths of    *)
(* the time window that grow and shrink one step at a time.                *)
(***************************************************************************)
EXTENDS EngineInvariants

MCWindows == 1..3
MCGrow == [w \in MCWindows |-> IF w < 3 THEN w + 1 ELSE 3]
MCShrink == [w \in MCWindows |-> IF w > 1 THEN w - 1 ELSE 1]
MCSame == [w \in MCWindows |-> w]

\* One width that stays, where no property looks at it.
MCWindow == {1}
MCStill == [w \in MCWindow |-> w]

MCCosts == {1, 2}
MCNoCost == {0}
=============================================================================
