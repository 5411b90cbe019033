----------------------------- MODULE HttpExchange -----------------------------
(***************************************************************************)
(* One request over an HttpLink: the coroutine Send (connect, write, wait,  *)
(* shut down) and the coroutine Read it starts, which share the timer       *)
(* "done" and the application's observer, both in the frame of Send.        *)
(* Every action but those of the application and the network is what one   *)
(* coroutine does between two suspensions, on the Asio thread.  No time     *)
(* limit applies to any of it.                                             *)
(***************************************************************************)
EXTENDS Naturals, Sequences, SseParser

CONSTANTS
  SseReplies,   \* what servers answer a subscription: status, framing and body
  PlainReplies  \* what they answer a query or mutation

\* A framed body has a length or ends in a last chunk; one that is not framed
\* ends with the connection.
ASSUME ReplyAssumption ==
  \A r \in SseReplies \cup PlainReplies :
    /\ r.status \in {"success", "failure"}
    /\ r.framed \in BOOLEAN
    /\ r.body \in Seq([kind : {"event", "data", "return", "newline"},
                       is : STRING, spaced : BOOLEAN])

VARIABLES
  request,    \* is it a subscription, and is the stream an HttpsStream?
  sender,     \* where the coroutine Send stands
  done,       \* its timer: "none", "armed" or "cancelled"
  reader,     \* where the coroutine Read stands
  link,       \* the connection as the client would find it
  reply,      \* what the server answers
  got,        \* how much of the body was read
  payload,    \* local of OnSseResponse
  listening,  \* is the application's observer neither terminated nor disposed?
  seen,       \* the values the application saw ...
  ending      \* ... and how the observable ended for it

senderVars == <<sender, done>>
readerVars == <<request, reader, reply, got, payload>>
appVars == <<listening, seen, ending>>
vars == <<senderVars, readerVars, link, appVars>>

IsSse == request.sse
Tls == request.tls
Replies == IF IsSse THEN SseReplies ELSE PlainReplies

NoReply == [status |-> "none", framed |-> FALSE, body |-> <<>>]

\* (The texts in payload and seen are as the parser makes them.)
TypeOK ==
  /\ request \in [sse : BOOLEAN, tls : BOOLEAN]
  /\ sender \in {"new", "connecting", "securing", "writing", "waiting",
                 "closing", "ended"}
  /\ done \in {"none", "armed", "cancelled"}
  /\ reader \in {"none", "header", "body", "ended"}
  /\ link \in {"none", "up", "closed", "reset"}
  /\ reply \in SseReplies \cup PlainReplies \cup {NoReply}
  /\ got \in Nat
  /\ listening \in BOOLEAN
  /\ ending \in {"none", "completed", "error"}

Init ==
  /\ request \in [sse : BOOLEAN, tls : BOOLEAN]
  /\ sender = "new" /\ done = "none"
  /\ reader = "none" /\ reply = NoReply /\ got = 0 /\ payload = <<>>
  /\ link = "none"
  /\ listening = TRUE /\ seen = <<>> /\ ending = "none"

-----------------------------------------------------------------------------
(* The application's observer: nothing reaches it once it is terminated or     *)
(* disposed.                                                                   *)
OnNext(values) == seen' = IF listening THEN seen \o values ELSE seen

Terminate(kind) ==
  /\ ending' = IF listening THEN kind ELSE ending
  /\ listening' = FALSE

\* The reader's own observer: a terminal call ends it, passes on to the
\* application and cancels "done", which wakes the sender if it is waiting.
ForgetsDone(kind) == Terminate(kind) /\ UNCHANGED done   \* mutant
ReaderTerminates(kind) ==
  /\ Terminate(kind)
  /\ done' = IF sender = "waiting" THEN "cancelled" ELSE done

\* A framed body is complete when the mark of its end is read, too.
BodyEnd == IF reply.framed THEN Len(reply.body) + 1 ELSE Len(reply.body)
IsDone(n) == n = Len(reply.body) + 1

\* The values of a chunk reach the observer one by one; on_completed follows in
\* the same run of the coroutine, or on_error if the chunk could not be parsed.
Deliver(values) == OnNext(values) /\ UNCHANGED <<listening, ending, done>>
EndWith(values, kind) == OnNext(values) /\ ReaderTerminates(kind) /\ reader' = "ended"

-----------------------------------------------------------------------------
(* The application *)

\* HttpLink::Execute subscribed to: a URL that cannot be parsed is an error at
\* once, any other starts the coroutine Send.
Subscribe ==
  /\ sender = "new" /\ sender' = "connecting"
  /\ UNCHANGED <<done, readerVars, link, appVars>>

SubscribeBadUrl ==
  /\ sender = "new" /\ sender' = "ended"
  /\ Terminate("error")
  /\ UNCHANGED <<done, readerVars, link, seen>>

\* The observer is disposed, and nothing else: the inner subscription lives on.
Unsubscribe ==
  /\ sender # "new" /\ listening
  /\ listening' = FALSE
  /\ UNCHANGED <<senderVars, readerVars, link, seen, ending>>

-----------------------------------------------------------------------------
(* The coroutine Send *)

OnConnected ==
  /\ sender = "connecting"
  /\ sender' = IF Tls THEN "securing" ELSE "writing"
  /\ link' = "up"
  /\ UNCHANGED <<done, readerVars, appVars>>

OnSecured ==
  /\ sender = "securing" /\ link = "up"
  /\ sender' = "writing"
  /\ UNCHANGED <<done, readerVars, link, appVars>>

\* The request is written: the timer is made, Read is started and suspends in
\* async_read_header, and Send waits for the timer.
OnWritten ==
  /\ sender = "writing" /\ link # "reset"
  /\ sender' = "waiting" /\ done' = "armed"
  /\ reader' = "header"
  /\ UNCHANGED <<request, reply, got, payload, link, appVars>>

SwallowError == UNCHANGED <<listening, ending>>   \* mutant: catch (...) {}
FailSend == Terminate("error")

\* Connecting or writing threw: the exception reaches the observer and the
\* coroutine is over.
OnSendFailed ==
  /\ \/ sender \in {"connecting", "securing"}
     \/ sender = "writing" /\ link # "up"
  /\ sender' = "ended"
  /\ FailSend
  /\ UNCHANGED <<done, readerVars, link, seen>>

\* HttpStream shuts its socket down and is done; HttpsStream waits for the
\* server's answer.
OnDone ==
  /\ sender = "waiting" /\ done = "cancelled"
  /\ sender' = IF Tls THEN "closing" ELSE "ended"
  /\ UNCHANGED <<done, readerVars, link, appVars>>

OnShutdown ==
  /\ sender = "closing" /\ sender' = "ended"
  /\ UNCHANGED <<done, readerVars, link, appVars>>

-----------------------------------------------------------------------------
(* The coroutine Read *)

\* Nothing left to read after the header.  A subscription that gets no text has
\* no value; an empty body is not JSON.
EndOfEmptyBody == EndWith(<<>>, IF IsSse THEN "completed" ELSE "error")

OnHeader ==
  /\ reader = "header" /\ link = "up"
  /\ \E r \in Replies :
       /\ r.status = "success" /\ reply' = r
       /\ IF r.framed /\ r.body = <<>>
          THEN got' = 1 /\ EndOfEmptyBody
          ELSE reader' = "body" /\ UNCHANGED got /\ Deliver(<<>>)
  /\ UNCHANGED <<request, sender, payload, link>>

\* A status of 400 or more is a value, and IsPositiveReply ends the coroutine.
ReadsErrorBody ==     \* mutant: goes on to the body
  OnNext(<<"failure">>) /\ ReaderTerminates("completed") /\ reader' = "body"
EndOnErrorStatus == EndWith(<<"failure">>, "completed")

OnErrorStatus ==
  /\ reader = "header" /\ link = "up"
  /\ \E r \in Replies : r.status = "failure" /\ reply' = r
  /\ EndOnErrorStatus
  /\ UNCHANGED <<request, sender, got, payload, link>>

\* The connection was closed in front of the header: end_of_stream, which is
\* caught and completes the observer.
OnNoReply ==
  /\ reader = "header" /\ link = "closed"
  /\ EndWith(<<>>, "completed")
  /\ UNCHANGED <<request, sender, reply, got, payload, link>>

\* It was closed inside the header, or reset.
OnHeaderLost ==
  /\ reader = "header" /\ link \in {"closed", "reset"}
  /\ EndWith(<<>>, "error")
  /\ UNCHANGED <<request, sender, reply, got, payload, link>>

\* What lies between two places of the body; the last place, the mark of its end,
\* is no text.
Text(from, to) ==
  SubSeq(reply.body, from + 1, IF to > Len(reply.body) THEN Len(reply.body) ELSE to)

\* OnSseResponse: the next n units of the body.
Chunk(n) == Text(got, got + n)

OnSseChunk ==
  /\ IsSse /\ reader = "body" /\ link = "up"
  /\ \E n \in 1..(Len(reply.body) + 1) :
       /\ got + n <= BodyEnd
       /\ got' = got + n
       /\ UNCHANGED reply
       /\ LET text == payload \o Chunk(n)
              parsed == IF Chunk(n) = <<>>  \* no text: not parsed
                        THEN [results |-> <<>>, remaining |-> payload,
                              completed |-> FALSE, threw |-> FALSE]
                        ELSE ParseSseEvents(text)
          IN /\ payload' = parsed.remaining
             /\ IF parsed.threw THEN EndWith(<<>>, "error")
                ELSE IF parsed.completed \/ IsDone(got + n)
                THEN EndWith(parsed.results, "completed")
                ELSE Deliver(parsed.results) /\ UNCHANGED reader
  /\ UNCHANGED <<request, sender, link>>

\* OnResponse: the body is parsed when it is complete.  Only the whole of a
\* body is JSON.
JsonValue(n) ==
  IF n >= Len(reply.body) /\ reply.body # <<>> /\ reply.body # <<Data(Junk)>>
  THEN <<"answer">> ELSE <<>>
CompleteAnyway(n) == EndWith(JsonValue(n), "completed")  \* mutant: no on_error
EndWithJson(n) ==
  EndWith(JsonValue(n), IF JsonValue(n) = <<>> THEN "error" ELSE "completed")

OnBodyChunk ==
  /\ ~IsSse /\ reader = "body" /\ link = "up"
  /\ \E n \in 1..(Len(reply.body) + 1) :
       /\ got + n <= BodyEnd
       /\ got' = got + n
       /\ UNCHANGED reply
       /\ IF IsDone(got + n) THEN EndWithJson(got + n)
          ELSE Deliver(<<>>) /\ UNCHANGED reader
  /\ UNCHANGED <<request, sender, payload, link>>

\* The connection ends inside the body: that completes a body without framing,
\* and is an error (partial_message) otherwise.
IgnoresTruncation == EndWith(<<>>, "completed")   \* mutant: takes it for the end
OnTruncated == EndWith(<<>>, "error")

OnEof ==
  /\ reader = "body" /\ link = "closed"
  /\ IF reply.framed THEN OnTruncated
     ELSE IF IsSse THEN EndWith(<<>>, "completed")
     ELSE EndWithJson(got)
  /\ UNCHANGED <<request, sender, reply, got, payload, link>>

OnReset ==
  /\ reader = "body" /\ link = "reset"
  /\ EndWith(<<>>, "error")
  /\ UNCHANGED <<request, sender, reply, got, payload, link>>

-----------------------------------------------------------------------------
(* The network: the server closes the connection, or it breaks. *)

LinkEnds(how) ==
  /\ link = "up" /\ link' = how
  /\ UNCHANGED <<senderVars, readerVars, appVars>>

PeerCloses == LinkEnds("closed")
LinkBreaks == LinkEnds("reset")

-----------------------------------------------------------------------------
Application == Subscribe \/ SubscribeBadUrl \/ Unsubscribe
SendSteps == OnConnected \/ OnSecured \/ OnWritten \/ OnSendFailed \/ OnDone
             \/ OnShutdown
ReadSteps == OnHeader \/ OnErrorStatus \/ OnNoReply \/ OnHeaderLost
             \/ OnSseChunk \/ OnBodyChunk \/ OnEof \/ OnReset
Network == PeerCloses \/ LinkBreaks

Next == Application \/ SendSteps \/ ReadSteps \/ Network

Spec == Init /\ [][Next]_vars

\* While the connection stands, both coroutines may wait for the server: for its
\* side of the TLS handshake, for it to take the request, for its reply, and for
\* its answer to a TLS shutdown.  No time limit applies, so nothing is assumed of
\* these waits.  What waits for nobody, or for a connection that is gone, runs.
AwaitsServer ==
  link = "up" /\ (sender \in {"securing", "writing", "closing"} \/ reader \in {"header", "body"})

FairSpec ==
  /\ Spec
  /\ WF_vars(~AwaitsServer /\ SendSteps)
  /\ WF_vars(OnNoReply \/ OnHeaderLost \/ OnEof \/ OnReset)

-----------------------------------------------------------------------------
(* Properties *)

\* The reader's callbacks hold references to "done" and to the observer, which
\* live in the frame of Send: as long as the reader runs, Send waits, and its
\* timer was not cancelled yet.
FrameOutlivesReader ==
  reader \in {"header", "body"} => sender = "waiting" /\ done = "armed"

\* No lost wake-up: when the reader has ended, a sender that waits is about to
\* be woken.
SenderWakes == sender = "waiting" /\ reader = "ended" => done = "cancelled"

\* However the text is cut into chunks, the application has seen what one call of
\* ParseSseEvents makes of all the text so far; after an error it has seen a
\* part of that.
ReadSoFar == ParseSseEvents(Text(0, got))
Uncut ==
  IF reply.status = "success" THEN ReadSoFar.results ELSE seen
ChunksDoNotMatter ==
  IsSse => /\ Len(seen) <= Len(Uncut) /\ seen = SubSeq(Uncut, 1, Len(seen))
           /\ listening \/ ending = "completed" => seen = Uncut

\* What completion means: the reply was over and the observer was shown all of it,
\* the failure of an error status, the answer of a whole body, or the values of an
\* event stream up to its last chunk, its "complete" event or, if nothing frames it,
\* the end of its connection.  A body that was cut short never looks like that.
\* One completion means nothing: the server closed the connection without a reply.
BodyEnded ==
  \/ IsDone(got)
  \/ ~reply.framed /\ link = "closed"
  \/ IsSse /\ ReadSoFar.completed
EndIsGenuine ==
  ending = "completed" =>
    \/ reply = NoReply /\ link = "closed" /\ seen = <<>>
    \/ reply.status = "failure" /\ seen = <<"failure">>
    \/ /\ reply.status = "success" /\ BodyEnded
       /\ IF IsSse THEN seen = ReadSoFar.results
          ELSE seen = <<"answer">> /\ got >= Len(reply.body)

\* A query or mutation that completes has had its one answer, unless the server
\* closed the connection without any.
OneAnswer ==
  ~IsSse => /\ Len(seen) <= 1
            /\ ending = "completed" /\ reply # NoReply => Len(seen) = 1

\* Nothing but a server that stays silent on a standing connection keeps the
\* exchange from ending, and its observer, if it still listens, from hearing of it.
ExchangeEnds == []<>~AwaitsServer => (sender = "connecting" ~> sender = "ended")
ObserverSettles == []<>~AwaitsServer => (sender = "connecting" ~> ~listening)

\* What the documentation says of transport errors: the application learns of
\* them through on_error, so that completion means there was a response.
CompletionNeedsReply == ending = "completed" => reply # NoReply

\* What the documentation says of Unsubscribe(): it cancels the subscription.
\* The reader's loop tests for that and should end with the chunk it is at.
UnsubscribeEndsStream ==
  [][IsSse /\ ~listening /\ OnSseChunk => reader' = "ended"]_vars
=============================================================================
