---------------------------- MODULE CurlTransport ----------------------------
(***************************************************************************)
(* CurlTransport::execute (transport/curl_transport.cpp): one easy handle, *)
(* kept from one request to the next, on which options are set, and the    *)
(* callbacks libcurl runs during a transfer.  The module has no Next: the  *)
(* thread inside fetch_one drives it (TimedFetch).                         *)
(*                                                                         *)
(* What libcurl does by itself is modelled from what the options ask of    *)
(* it: it may report any number of header blocks before the final one      *)
(* (bounded by MaxInterim), delivers the body in pieces, fails at any      *)
(* time, and ends a transfer whose time is up.  Time is counted in units.  *)
(* A header is the one fetch_one looks at, Retry-After; 0 is its absence.  *)
(***************************************************************************)
EXTENDS Integers

CONSTANTS Kinds,            \* what the status of an answer can be
          BodySizes,        \* sizes of the bodies of the server's answers
          BodyLimit,        \* MAX_RESPONSE_BODY_SIZE
          RetryAfters,      \* values of the Retry-After header, 0 for none
          MaxInterim,       \* bound: header blocks before the final one
          ConnectTimeout,   \* CONNECT_TIMEOUT_SECS
          RequestTimeout,   \* REQUEST_TIMEOUT_SECS
          ProgressInterval  \* the longest libcurl waits between two calls of progress_cb

ASSUME TransportAssumption ==
  /\ BodySizes \subseteq Nat /\ BodyLimit \in Nat
  /\ RetryAfters \subseteq Nat /\ 0 \in RetryAfters /\ MaxInterim \in Nat
  /\ ConnectTimeout \in Nat \ {0} /\ RequestTimeout \in Nat /\ ConnectTimeout <= RequestTimeout
  /\ ProgressInterval \in Nat

VARIABLES
  handle,    \* curl_handle_ is not null
  method,    \* req.method
  options,   \* the options of the handle: whose data each one refers to
  transfer,  \* where the transfer is; "idle" outside execute
  interim,   \* header blocks received before the final one
  header,    \* resp.headers["retry-after"]
  body,      \* resp.body.size()
  arrived,   \* bytes of the body that libcurl has received
  answer,    \* the server's final answer
  spent,     \* units since curl_easy_perform began
  unseen     \* units of them in which cancel_flag was set

transport == <<handle, method, options, transfer, interim, header, body, arrived, answer, spent, unseen>>
received == <<interim, header, body, arrived, answer>>
timers == <<spent, unseen>>

Methods == {"GET", "POST"}
OptionNames == {"URL", "POSTFIELDS", "HTTPHEADER", "SINKS"}
Options == [OptionNames -> {"unset", "this", "stale"}]
Answers == [kind : Kinds, size : BodySizes, after : RetryAfters]
NoAnswer == [kind |-> "network", size |-> 0, after |-> 0]

Active == transfer \in {"connecting", "headers", "body"}
Ended == transfer \in {"done", "failed"}

TransportInit ==
  /\ handle \in BOOLEAN /\ method = "GET"
  /\ options = [o \in OptionNames |-> "unset"]
  /\ transfer = "idle" /\ interim = 0 /\ header = 0 /\ body = 0 /\ arrived = 0
  /\ answer = NoAnswer /\ spent = 0 /\ unseen = 0

-----------------------------------------------------------------------------
\* curl_easy_reset.
Mut_Reset(o) == o
Reset(o) == [n \in OptionNames |-> "unset"]

\* The options execute sets: POSTFIELDS for a POST only, HTTPHEADER when the
\* request has headers, the callbacks and their data always.
SetOptions(o, m, hasHeaders) ==
  [n \in OptionNames |->
     IF n \in {"URL", "SINKS"} \/ (n = "POSTFIELDS" /\ m = "POST") \/ (n = "HTTPHEADER" /\ hasHeaders)
     THEN "this" ELSE o[n]]

\* Everything up to curl_easy_perform; without a handle nothing is done.
Execute(m, hasHeaders) ==
  /\ transfer = "idle"
  /\ method' = m
  /\ options' = IF handle THEN SetOptions(Reset(options), m, hasHeaders) ELSE options
  /\ transfer' = IF handle THEN "connecting" ELSE "failed"
  /\ interim' = 0 /\ header' = 0 /\ body' = 0 /\ arrived' = 0 /\ answer' = NoAnswer
  /\ spent' = 0 /\ unseen' = 0
  /\ UNCHANGED handle

Connected ==
  /\ transfer = "connecting"
  /\ transfer' = "headers"
  /\ UNCHANGED <<handle, method, options, received, timers>>

\* header_cb keeps the last value of a key, over all header blocks.
Mut_Stored(old, new) == IF old = 0 THEN new ELSE old
Stored(old, new) == IF new = 0 THEN old ELSE new

InterimHeaders(v) ==
  /\ transfer = "headers" /\ interim < MaxInterim
  /\ interim' = interim + 1 /\ header' = Stored(header, v)
  /\ UNCHANGED <<handle, method, options, transfer, body, arrived, answer, timers>>

FinalHeaders(a) ==
  /\ transfer = "headers"
  /\ answer' = a /\ header' = Stored(header, a.after)
  /\ transfer' = "body"
  /\ UNCHANGED <<handle, method, options, interim, body, arrived, timers>>

\* write_cb: a piece of n bytes that would exceed the limit ends the transfer.
Mut_TooLong(n) == body > BodyLimit
TooLong(n) == body + n > BodyLimit

BodyPiece(n) ==
  /\ transfer = "body" /\ arrived + n <= answer.size
  /\ arrived' = arrived + n
  /\ IF TooLong(n) THEN transfer' = "failed" /\ UNCHANGED body
                   ELSE body' = body + n /\ UNCHANGED transfer
  /\ UNCHANGED <<handle, method, options, interim, header, answer, timers>>

Complete ==
  /\ transfer = "body" /\ arrived = answer.size
  /\ transfer' = "done"
  /\ UNCHANGED <<handle, method, options, received, timers>>

\* progress_cb sees the flag; the network fails; CONNECTTIMEOUT or TIMEOUT is
\* over.  All of them end in status 0.
Mut_ProgressCb(cancelled) == FALSE
ProgressCb(cancelled) == cancelled
Deadline == IF transfer = "connecting" THEN ConnectTimeout ELSE RequestTimeout

Break ==
  /\ transfer' = "failed"
  /\ UNCHANGED <<handle, method, options, received, timers>>

TransferAborts(cancelled) == Active /\ ProgressCb(cancelled) /\ Break
TransferFails == Active /\ spent < Deadline /\ Break
TransferTimesOut == Active /\ spent = Deadline /\ Break

TransferStep(cancelled) ==
  \/ Connected \/ \E v \in RetryAfters : InterimHeaders(v)
  \/ \E a \in Answers : FinalHeaders(a)
  \/ \E n \in BodySizes \ {0} : BodyPiece(n)
  \/ Complete
  \/ TransferAborts(cancelled) \/ TransferFails \/ TransferTimesOut

\* A unit of time passes inside curl_easy_perform, which calls progress_cb
\* every so often.
TransferTick(cancelled) ==
  /\ Active /\ spent < Deadline
  /\ ProgressCb(cancelled) => unseen < ProgressInterval
  /\ spent' = spent + 1 /\ unseen' = unseen + (IF cancelled THEN 1 ELSE 0)
  /\ UNCHANGED <<handle, method, options, transfer, received>>

\* resp.status_code.
StatusKind == IF transfer = "done" THEN answer.kind ELSE "network"

\* execute returns: the request, the response and the header list it referred
\* to are gone.
ExecuteReturns ==
  /\ Ended
  /\ transfer' = "idle"
  /\ options' = [n \in OptionNames |-> IF options[n] = "unset" THEN "unset" ELSE "stale"]
  /\ UNCHANGED <<handle, method, received, timers>>

TransportTypeOK ==
  /\ handle \in BOOLEAN /\ method \in Methods /\ options \in Options
  /\ transfer \in {"idle", "connecting", "headers", "body", "done", "failed"}
  /\ interim \in 0..MaxInterim /\ header \in RetryAfters
  /\ body \in 0..BodyLimit /\ arrived \in Nat
  /\ answer \in Answers \cup {NoAnswer}
  /\ spent \in 0..RequestTimeout /\ unseen \in 0..RequestTimeout

=============================================================================
