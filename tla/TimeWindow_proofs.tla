--------------------------- MODULE TimeWindow_proofs ---------------------------
(***************************************************************************)
(* Theorems about TimeWindow, for every window_ms, every growth and shrink *)
(* factor and every pair of limits that from_json accepts.                 *)
(***************************************************************************)
EXTENDS TimeWindow, TLAPS

-----------------------------------------------------------------------------
(* Truncating division and the policy's arithmetic.                        *)

LEMMA DivMonotone ==
  ASSUME NEW a \in Nat, NEW b \in Nat, NEW d \in Nat \ {0}, a <= b
  PROVE  a \div d \in Nat /\ a \div d <= b \div d
  BY SMT

\* A factor of at least one does not make a width smaller.
LEMMA ScaleUp ==
  ASSUME NEW w \in Nat, NEW n \in Nat, NEW d \in Nat \ {0}, n >= d
  PROVE  (w * n) \div d \in Nat /\ (w * n) \div d >= w
<1>1. w * n \in Nat /\ w * d \in Nat /\ w * n >= w * d
  BY SMT
<1>2. (w * d) \div d = w
  BY SMT
<1> QED
  BY <1>1, <1>2, DivMonotone

\* A factor of at most one does not make it larger.
LEMMA ScaleDown ==
  ASSUME NEW w \in Nat, NEW n \in Nat, NEW d \in Nat \ {0}, n <= d
  PROVE  (w * n) \div d \in Nat /\ (w * n) \div d <= w
<1>1. w * n \in Nat /\ w * d \in Nat /\ w * n <= w * d
  BY SMT
<1>2. (w * d) \div d = w
  BY SMT
<1> QED
  BY <1>1, <1>2, DivMonotone

\* adjust(_, true) keeps a width within max_window_ms, and grows it up to there.
LEMMA GrownBounds ==
  ASSUME NEW w \in Nat
  PROVE  /\ Grown(w) \in Nat
         /\ w > 0 => Grown(w) >= Least(w, MaxWindow) /\ Grown(w) <= MaxWindow
<1>1. (w * GrowNum) \div GrowDen \in Nat /\ (w * GrowNum) \div GrowDen >= w
  BY ScaleUp, PolicyAssumption
<1> QED
  BY <1>1, PolicyAssumption DEF Grown, Least

\* adjust(_, false) keeps a width at min_window_ms or above, and shrinks it
\* unless it is below: then it is widened to min_window_ms.
LEMMA ShrunkBounds ==
  ASSUME NEW w \in Nat
  PROVE  /\ Shrunk(w) \in Nat /\ Shrunk(w) <= Most(w, MinWindow)
         /\ w > 0 => Shrunk(w) >= MinWindow
         /\ w = 0 => Shrunk(w) = 0
<1>1. (w * ShrinkNum) \div ShrinkDen \in Nat /\ (w * ShrinkNum) \div ShrinkDen <= w
  BY ScaleDown, PolicyAssumption
<1> QED
  BY <1>1, PolicyAssumption DEF Shrunk, Most

-----------------------------------------------------------------------------
(* The invariant.                                                          *)

USE DEF flags, cursor, locals, history, cycleState, ranges

LEMMA InitWindowInv == Init => WindowInv
<1> SUFFICES ASSUME Init PROVE WindowInv
  OBVIOUS
<1> USE WindowAssumption, PolicyAssumption
<1>1. page = 0 /\ window = 0 /\ sawLimit = FALSE /\ fpc = "idle" /\ from = 0 /\ to = 0
  BY DEF Init, FetchInit
<1>2. FromSecond = 0
  BY <1>1 DEF FromSecond, Start
<1>3. 0 \in Widths
  BY DEF Widths, Most
<1>4. Most(Most(WindowMs, Grown(WindowMs)), MinWindow) >= 0
  BY GrownBounds DEF Most
<1> QED
  BY <1>1, <1>2, <1>3, <1>4
  DEF WindowInv, NoGapUnlessLimited, GrowthDoesNotCompound, WindowNeverStarves

\* What a step leaves alone when it moves neither the cursor nor the request.
LEMMA Unmoved ==
  ASSUME WindowInv,
         page' = page, window' = window, sawLimit' \in {sawLimit, FALSE},
         UNCHANGED ranges,
         fpc' = "execute" \/ (fpc' = "handle" /\ resp' # "limited") =>
           fpc = "execute" \/ (fpc = "handle" /\ resp # "limited")
  PROVE  WindowInv'
<1>1. FromSecond' = FromSecond /\ ToSecond' = ToSecond
  BY DEF FromSecond, ToSecond, Start, RequestWidth
<1>2. NoGapUnlessLimited' /\ GrowthDoesNotCompound' /\ WindowNeverStarves'
  BY <1>1 DEF WindowInv, NoGapUnlessLimited, GrowthDoesNotCompound, WindowNeverStarves
<1>3. sawLimit' => limited'
  BY DEF WindowInv
<1> QED
  BY <1>1, <1>2, <1>3 DEF WindowInv

LEMMA StartType ==
  ASSUME NEW p \in Nat
  PROVE  p * WindowMs \in Nat /\ (p + 1) * WindowMs = p * WindowMs + WindowMs
  BY WindowAssumption, SMT

LEMMA SendInv == WindowInv /\ Send => WindowInv'
<1> SUFFICES ASSUME WindowInv, Send PROVE WindowInv'
  OBVIOUS
<1> USE WindowAssumption
<1>1. /\ page' = page /\ window' = window /\ limited' = limited /\ fetched' = fetched
      /\ sawLimit' = sawLimit /\ from' = FromSecond /\ to' = ToSecond
  BY DEF Send, FetchSend
<1>2. RequestWidth(window) \in Nat /\ Start \in Nat
  <2>1. page \in Nat /\ window \in Nat
    BY DEF WindowInv, Widths
  <2> QED
    BY <2>1, StartType DEF RequestWidth, Start
<1>3. FromSecond \in Nat /\ ToSecond \in Nat
  BY <1>2, DivMonotone DEF FromSecond, ToSecond
<1>4. FromSecond' = FromSecond /\ ToSecond' = ToSecond
  BY <1>1 DEF FromSecond, ToSecond, Start, RequestWidth
<1> QED
  BY <1>1, <1>3, <1>4
  DEF WindowInv, NoGapUnlessLimited, GrowthDoesNotCompound, WindowNeverStarves

LEMMA LimitInv == WindowInv /\ Limit => WindowInv'
<1> SUFFICES ASSUME WindowInv, Limit PROVE WindowInv'
  OBVIOUS
<1> USE WindowAssumption, PolicyAssumption
<1>1. /\ page' = page /\ fpc' = fpc /\ resp' = resp /\ resp = "limited"
      /\ fpc = "handle" /\ limited' = TRUE /\ from' = from /\ to' = to
  BY DEF Limit, HandleRateLimit
<1>2. window \in Widths /\ window \in Nat /\ page \in Nat
  BY DEF WindowInv, Widths
<1>3. window' = Shrunk(window)
  BY <1>2 DEF Limit, HandleRateLimit
<1>4. window' \in Nat /\ window' <= Most(window, MinWindow)
  BY <1>2, <1>3, ShrunkBounds
<1>5. window' \in Widths
  BY <1>2, <1>4 DEF Widths, Most
<1>6. GrowthDoesNotCompound'
  BY <1>2, <1>4, GrownBounds DEF WindowInv, GrowthDoesNotCompound, Most
<1>7. page' > 0 => window' >= Least(MinWindow, WindowMs)
  BY <1>1, <1>2, <1>3, ShrunkBounds DEF WindowInv, WindowNeverStarves, Least
<1>8. page' = 0 => window' = 0
  BY <1>1, <1>2, <1>3, ShrunkBounds DEF WindowInv
<1> QED
  BY <1>1, <1>2, <1>5, <1>6, <1>7, <1>8 DEF WindowInv, NoGapUnlessLimited, WindowNeverStarves

\* The page that is taken fills the seconds up to the next window's start.
LEMMA TakeInv == WindowInv /\ Take => WindowInv'
<1> SUFFICES ASSUME WindowInv, Take PROVE WindowInv'
  OBVIOUS
<1> USE WindowAssumption, PolicyAssumption
<1>1. /\ page' = page + 1 /\ fpc' = "cost" /\ sawLimit' = sawLimit /\ limited' = limited
      /\ from' = from /\ to' = to /\ fetched' = fetched \cup (from..(to - 1))
      /\ from = FromSecond /\ to = ToSecond
  BY DEF Take, FetchAdvance, WindowInv
<1>2. window \in Widths /\ window \in Nat /\ page \in Nat
  BY DEF WindowInv, Widths
<1>3. WindowMs \in Widths /\ MaxWindow \in Widths
  BY DEF Widths, Most
<1>4. window' = IF sawLimit THEN WindowMs ELSE Grown(WindowMs)
  BY <1>2, <1>3 DEF Take, FetchAdvance, AdvancedWindow, NextWidth
<1>5. Grown(WindowMs) \in Nat /\ Grown(WindowMs) <= MaxWindow
        /\ Grown(WindowMs) >= Least(WindowMs, MaxWindow)
  BY GrownBounds
<1>6. window' \in Widths
  BY <1>4, <1>5 DEF Widths, Most
<1>7. GrowthDoesNotCompound'
  BY <1>4, <1>5 DEF GrowthDoesNotCompound, Most
<1>8. window' >= Least(MinWindow, WindowMs)
  BY <1>4, <1>5 DEF Least
<1>9. WindowMs <= MaxWindow => window' >= WindowMs
  BY <1>4, <1>5 DEF Least
<1>10. NoGapUnlessLimited'
  <2> DEFINE next == (Start + WindowMs) \div MS_PER_SECOND
  <2>1. Start \in Nat /\ Start' = Start + WindowMs
    BY <1>1, <1>2, StartType DEF Start
  <2>2. FromSecond' = next
    BY <2>1 DEF FromSecond
  <2> SUFFICES ASSUME WindowMs <= MaxWindow, ~limited, NEW s \in 0..(next - 1)
               PROVE  s \in fetched'
    BY <1>1, <2>2 DEF NoGapUnlessLimited
  <2>3. RequestWidth(window) \in Nat /\ RequestWidth(window) >= WindowMs
    BY <1>2 DEF WindowInv, RequestWidth
  <2>4. Start + WindowMs \in Nat /\ Start + RequestWidth(window) \in Nat
          /\ Start + WindowMs <= Start + RequestWidth(window)
    BY <2>1, <2>3
  <2>5. next \in Nat /\ ToSecond \in Nat /\ FromSecond \in Nat /\ next <= ToSecond
    BY <2>1, <2>4, DivMonotone DEF ToSecond, FromSecond
  <2> HIDE DEF next
  <2>6. CASE s < FromSecond
    <3>1. s \in 0..(FromSecond - 1)
      BY <2>5, <2>6
    <3> QED
      BY <3>1, <1>1 DEF WindowInv, NoGapUnlessLimited
  <2>7. CASE s >= FromSecond
    <3>1. s \in FromSecond..(ToSecond - 1)
      BY <2>5, <2>7
    <3> QED
      BY <3>1, <1>1
  <2> QED
    BY <2>5, <2>6, <2>7
<1> QED
  BY <1>1, <1>2, <1>6, <1>7, <1>8, <1>9, <1>10 DEF WindowInv, WindowNeverStarves

LEMMA NextWindowInv == WindowInv /\ [Next]_vars => WindowInv'
<1> SUFFICES ASSUME WindowInv, [Next]_vars PROVE WindowInv'
  OBVIOUS
<1>1. CASE Activate
  BY <1>1, Unmoved DEF Activate
<1>2. CASE HandOver
  BY <1>2, Unmoved DEF HandOver
<1>3. CASE OtherStep
  <2>1. CASE FetchExhausted
    BY <1>3, <2>1, Unmoved DEF OtherStep, FetchExhausted, FetchReturn
  <2>2. CASE FetchStart
    BY <1>3, <2>2, Unmoved DEF OtherStep, FetchStart
  <2>3. CASE \E r \in Responses : FetchReceive(r)
    BY <1>3, <2>3, Unmoved DEF OtherStep, FetchReceive
  <2>4. CASE HandleRetry
    BY <1>3, <2>4, Unmoved DEF OtherStep, HandleRetry
  <2>5. CASE FetchWake
    BY <1>3, <2>5, Unmoved DEF OtherStep, FetchWake
  <2>6. CASE HandleTerminal
    BY <1>3, <2>6, Unmoved DEF OtherStep, HandleTerminal, FetchReturn
  <2>7. CASE FetchCost(0)
    BY <1>3, <2>7, Unmoved DEF OtherStep, FetchCost
  <2>8. CASE FetchFinish
    BY <1>3, <2>8, Unmoved DEF OtherStep, FetchFinish
  <2> QED
    BY <1>3, <2>1, <2>2, <2>3, <2>4, <2>5, <2>6, <2>7, <2>8 DEF OtherStep
<1>4. CASE Done \/ UNCHANGED vars
  BY <1>4, Unmoved DEF Done, vars
<1> QED
  BY <1>1, <1>2, <1>3, <1>4, SendInv, LimitInv, TakeInv DEF Next

LEMMA WindowAlways == Spec => []WindowInv
  BY InitWindowInv, NextWindowInv, PTL DEF Spec

\* Without a 429 nothing before the window is left unfetched.
THEOREM NoGap == Spec => []NoGapUnlessLimited
<1>1. WindowInv => NoGapUnlessLimited
  BY DEF WindowInv
<1> QED
  BY <1>1, WindowAlways, PTL

\* A page is at most one growth wider than window_ms.
THEOREM GrowthBounded == Spec => []GrowthDoesNotCompound
<1>1. WindowInv => GrowthDoesNotCompound
  BY DEF WindowInv
<1> QED
  BY <1>1, WindowAlways, PTL

\* A storm of 429s leaves a window to ask for.
THEOREM ShrinkBounded == Spec => []WindowNeverStarves
<1>1. WindowInv => WindowNeverStarves
  BY DEF WindowInv
<1> QED
  BY <1>1, WindowAlways, PTL

\* A response is never taken for a range it does not answer.
THEOREM RangeMatches == Spec => []TakesWhatItAsked
<1>1. WindowInv => TakesWhatItAsked
  BY DEF WindowInv, TakesWhatItAsked
<1> QED
  BY <1>1, WindowAlways, PTL

=============================================================================
