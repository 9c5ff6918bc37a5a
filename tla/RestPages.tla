------------------------------ MODULE RestPages ------------------------------
(***************************************************************************)
(* How a stream over GenericRestAdapter (adapters/generic_rest.cpp) walks  *)
(* the pages of a server it knows nothing of: each page names the token of *)
(* the next one, or does not.  fetch_one is reduced to what moves the      *)
(* cursor: a request, an answer that fails in one of three ways or parses, *)
(* and next_cursor.  What the caller does about a failure is Engine's; it  *)
(* asks again here.                                                        *)
(***************************************************************************)
EXTENDS Naturals, Sequences

CONSTANTS Tokens,       \* the tokens a server may name
          None,         \* the empty token, with which the first page is asked for
          Null, Other,  \* no next-token field, or null; a field of another type
          NoPage,       \* any document that is no page
          MaxTries      \* bound: requests

Pages == [next : Tokens \cup {None, Null, Other}, data : BOOLEAN]

ASSUME RestAssumption ==
  /\ None \notin Tokens /\ Null \notin Tokens /\ Other \notin Tokens
  /\ None # Null /\ None # Other /\ Null # Other /\ MaxTries \in Nat /\ NoPage \notin Pages

VARIABLES
  server,      \* the page under each token: what it names next, and whether it has data
  pageToken,   \* cursor_.page_token
  exhausted,   \* cursor_.exhausted
  lastParsed,  \* last_parsed_: a page, or a document that is none
  rpc,         \* "idle", "sent", "parsed", or "terminated" by an uncaught exception
  tries,       \* history: requests so far
  walk         \* history: the tokens of the pages taken

vars == <<server, pageToken, exhausted, lastParsed, rpc, tries, walk>>

Keys == Tokens \cup {None}

Init ==
  /\ server \in [Keys -> Pages]
  /\ pageToken = None /\ exhausted = FALSE /\ lastParsed = NoPage
  /\ rpc = "idle" /\ tries = 0 /\ walk = <<>>

-----------------------------------------------------------------------------
\* fetch_one checks exhausted; build_request sends the token, if any.
Send ==
  /\ rpc = "idle" /\ ~exhausted /\ tries < MaxTries
  /\ rpc' = "sent" /\ tries' = tries + 1
  /\ UNCHANGED <<server, pageToken, exhausted, lastParsed, walk>>

\* An error status, or a body that is no JSON, leaves last_parsed_ as it was.
Fail ==
  /\ rpc = "sent"
  /\ rpc' = "idle"
  /\ UNCHANGED <<server, pageToken, exhausted, lastParsed, tries, walk>>

\* JSON without the data array is stored before it is rejected.
FailStored ==
  /\ rpc = "sent"
  /\ lastParsed' = NoPage /\ rpc' = "idle"
  /\ UNCHANGED <<server, pageToken, exhausted, tries, walk>>

Mut_Parse ==
  /\ rpc = "sent"
  /\ lastParsed' = (IF lastParsed = NoPage THEN server[pageToken] ELSE lastParsed)
  /\ rpc' = "parsed"
  /\ UNCHANGED <<server, pageToken, exhausted, tries, walk>>

Parse ==
  /\ rpc = "sent"
  /\ lastParsed' = server[pageToken] /\ rpc' = "parsed"
  /\ UNCHANGED <<server, pageToken, exhausted, tries, walk>>

\* next_cursor.
Mut_Ends(p) == p.next = Null
Ends(p) == p.next = Null \/ ~p.data

NextCursor ==
  /\ rpc = "parsed" /\ lastParsed.next # Other
  /\ pageToken' = (IF lastParsed.next = Null THEN None ELSE lastParsed.next)
  /\ exhausted' = Ends(lastParsed)
  /\ walk' = Append(walk, pageToken)
  /\ rpc' = "idle"
  /\ UNCHANGED <<server, lastParsed, tries>>

\* get<std::string>() on a token of another type throws; nothing catches it.
NextCursorThrows ==
  /\ rpc = "parsed" /\ lastParsed.next = Other
  /\ rpc' = "terminated"
  /\ UNCHANGED <<server, pageToken, exhausted, lastParsed, tries, walk>>

Done ==
  /\ rpc = "terminated" \/ (rpc = "idle" /\ (exhausted \/ tries = MaxTries))
  /\ UNCHANGED vars

Next == Send \/ Fail \/ FailStored \/ Parse \/ NextCursor \/ NextCursorThrows \/ Done

Spec == Init /\ [][Next]_vars

-----------------------------------------------------------------------------
\* The types of the cursor and the history.
TypeOK ==
  /\ server \in [Keys -> Pages]
  /\ pageToken \in Keys /\ exhausted \in BOOLEAN
  /\ lastParsed \in Pages \cup {NoPage}
  /\ rpc \in {"idle", "sent", "parsed", "terminated"}
  /\ tries \in 0..MaxTries /\ walk \in Seq(Keys)

Last == walk[Len(walk)]

\* Across rejected bodies and requests that are sent again, the pages taken are
\* those the server's links lead through from the first: none is left out.
FollowsLinks ==
  /\ walk # <<>> => walk[1] = None
  /\ \A i \in 1..(Len(walk) - 1) : walk[i + 1] = server[walk[i]].next

\* The stream ends on the page that names no other or has no data, and on no
\* other page.
EndsWhereTheServerDoes ==
  IF walk = <<>> THEN pageToken = None /\ ~exhausted
  ELSE /\ exhausted <=> server[Last].next = Null \/ ~server[Last].data
       /\ ~exhausted => pageToken = server[Last].next
       /\ \A i \in 1..(Len(walk) - 1) : server[walk[i]].data

-----------------------------------------------------------------------------
\* c_api.h:5: no exceptions cross the boundary of the C API.
NothingThrows == rpc # "terminated"

=============================================================================
