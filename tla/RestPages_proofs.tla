--------------------------- MODULE RestPages_proofs ---------------------------
(***************************************************************************)
(* Theorems about RestPages, for every set of tokens and every server.     *)
(***************************************************************************)
EXTENDS RestPages, TLAPS

\* What makes the walk inductive: a page is parsed, and was asked for, only
\* while the stream goes on, and is the one under the cursor's token.
WalkInv ==
  /\ TypeOK
  /\ rpc \in {"sent", "parsed"} => ~exhausted
  /\ rpc = "parsed" => lastParsed = server[pageToken]
  /\ FollowsLinks /\ EndsWhereTheServerDoes

LEMMA InitWalk == Init => WalkInv
<1> SUFFICES ASSUME Init PROVE WalkInv
  OBVIOUS
<1>1. exhausted \in BOOLEAN /\ ~exhausted
  BY DEF Init
<1>2. TypeOK
  BY <1>1, RestAssumption DEF Init, TypeOK, Keys
<1>3. walk = <<>> /\ Len(walk) = 0 /\ pageToken = None
  BY DEF Init
<1> QED
  BY <1>1, <1>2, <1>3 DEF Init, WalkInv, FollowsLinks, EndsWhereTheServerDoes

\* One more page, the one the last page's link names.
LEMMA NextCursorWalk == WalkInv /\ NextCursor => WalkInv'
<1> SUFFICES ASSUME WalkInv, NextCursor PROVE WalkInv'
  OBVIOUS
<1> DEFINE n == Len(walk)
<1>1. /\ walk \in Seq(Keys) /\ pageToken \in Keys /\ server \in [Keys -> Pages]
      /\ ~exhausted /\ lastParsed = server[pageToken] /\ n \in Nat
  BY DEF WalkInv, TypeOK, NextCursor
<1>2. /\ walk' = Append(walk, pageToken) /\ rpc' = "idle"
      /\ server' = server /\ lastParsed' = lastParsed /\ tries' = tries
      /\ exhausted' = Ends(lastParsed)
      /\ pageToken' = (IF lastParsed.next = Null THEN None ELSE lastParsed.next)
      /\ lastParsed.next # Other
  BY DEF NextCursor
<1>3. /\ walk' \in Seq(Keys) /\ Len(walk') = n + 1 /\ walk'[n + 1] = pageToken
      /\ \A i \in 1..n : walk'[i] = walk[i]
  BY <1>1, <1>2
<1>4. server[pageToken] \in Pages
  BY <1>1
<1>5. pageToken' \in Keys
  BY <1>1, <1>2, <1>4 DEF Pages, Keys
<1>6. exhausted' \in BOOLEAN
  BY <1>1, <1>2, <1>4 DEF Ends, Pages
<1>7. TypeOK'
  BY <1>2, <1>3, <1>5, <1>6 DEF WalkInv, TypeOK
<1>8. n # 0 => /\ pageToken = server[walk[n]].next /\ server[walk[n]].data
               /\ walk[1] = None /\ n \in 1..n /\ 1 \in 1..n
  BY <1>1 DEF WalkInv, EndsWhereTheServerDoes, FollowsLinks, Last
<1>9. n = 0 => pageToken = None
  BY <1>1 DEF WalkInv, EndsWhereTheServerDoes
<1>10. FollowsLinks'
  <2>1. walk'[1] = None
    BY <1>1, <1>3, <1>8, <1>9
  <2>2. ASSUME NEW i \in 1..n PROVE walk'[i + 1] = server[walk'[i]].next
    <3>1. CASE i = n
      BY <1>1, <1>3, <1>8, <3>1
    <3>2. CASE i \in 1..(n - 1)
      <4>1. i + 1 \in 1..n
        BY <1>1, <3>2
      <4> QED BY <1>1, <1>3, <3>2, <4>1 DEF WalkInv, FollowsLinks
    <3> QED BY <1>1, <3>1, <3>2
  <2> QED BY <1>1, <1>2, <1>3, <2>1, <2>2 DEF FollowsLinks
<1>11. EndsWhereTheServerDoes'
  <2>1. walk' # <<>> /\ Last' = pageToken
    BY <1>1, <1>3 DEF Last
  <2>2. exhausted' <=> server[pageToken].next = Null \/ ~server[pageToken].data
    BY <1>1, <1>2 DEF Ends
  <2>3. ~exhausted' => pageToken' = server[pageToken].next
    BY <1>1, <1>2, <2>2
  <2>4. \A i \in 1..n : server[walk'[i]].data
    BY <1>1, <1>3, <1>8 DEF WalkInv, EndsWhereTheServerDoes
  <2> QED BY <1>1, <1>2, <1>3, <2>1, <2>2, <2>3, <2>4 DEF EndsWhereTheServerDoes
<1> QED BY <1>2, <1>7, <1>10, <1>11 DEF WalkInv

LEMMA NextWalk == WalkInv /\ [Next]_vars => WalkInv'
<1> SUFFICES ASSUME WalkInv, [Next]_vars PROVE WalkInv'
  OBVIOUS
<1> USE DEF WalkInv, TypeOK, FollowsLinks, EndsWhereTheServerDoes, Last
<1>1. CASE Send
  BY <1>1, RestAssumption DEF Send
<1>2. CASE Fail
  BY <1>2 DEF Fail
<1>3. CASE FailStored
  BY <1>3 DEF FailStored
<1>4. CASE Parse
  BY <1>4 DEF Parse
<1>5. CASE NextCursorThrows
  BY <1>5 DEF NextCursorThrows
<1>6. CASE Done \/ UNCHANGED vars
  BY <1>6 DEF Done, vars
<1> QED BY <1>1, <1>2, <1>3, <1>4, <1>5, <1>6, NextCursorWalk DEF Next

LEMMA WalkAlways == Spec => []WalkInv
  BY InitWalk, NextWalk, PTL DEF Spec

\* The cursor and the document it is computed from keep their types.
THEOREM RestTypeCorrect == Spec => []TypeOK
<1>1. WalkInv => TypeOK
  BY DEF WalkInv
<1> QED BY <1>1, WalkAlways, PTL

\* However many bodies are rejected in between, the pages taken are those the
\* server links, in its order.
THEOREM WalkSafe == Spec => []FollowsLinks
<1>1. WalkInv => FollowsLinks
  BY DEF WalkInv
<1> QED BY <1>1, WalkAlways, PTL

\* The stream ends where the server ends it.
THEOREM EndSafe == Spec => []EndsWhereTheServerDoes
<1>1. WalkInv => EndsWhereTheServerDoes
  BY DEF WalkInv
<1> QED BY <1>1, WalkAlways, PTL

=============================================================================
