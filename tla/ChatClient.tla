----------------------------- MODULE ChatClient -----------------------------
(***************************************************************************)
(* The chat page of the frontend and its retries.  A message is sent with  *)
(* an Idempotency-Key, over a stream or as one JSON exchange; what comes   *)
(* back decides whether the page offers a retry and with which key.  The   *)
(* loops that read streams share one stream state, one retry and one error *)
(* of the page, and several may be at work: an answered message no longer  *)
(* keeps the page busy, while its loop still loads an action or waits for  *)
(* the end of its stream.                                                  *)
(*                                                                         *)
(* The server is what ChatRun and ChatStream say of it: a key is executed  *)
(* once and its retries get its state; a stream that ends by itself has    *)
(* delivered its result, a detached one ends without it.  Exchanges are    *)
(* numbered in the order in which the page begins them; a key, and the     *)
(* message of the user, have the number of their first exchange.           *)
(***************************************************************************)
EXTENDS Naturals, FiniteSets

CONSTANTS MaxExchanges  \* bound of the model

ASSUME ExchangesAssumption == MaxExchanges \in Nat \ {0}

VARIABLES
  exchange,   \* of each exchange: transport, message, key, its loop, and the
              \* exchange whose response was shown as its answer
  begun,      \* how many exchanges there have been
  stream,     \* the shared StreamState: status, the exchange of its response,
              \* and the one whose event has set lastSequence
  retry,      \* lastRetryMessage: message, key and retryState
  error,      \* whether the page shows an error, and so the retry button
  abortable,  \* the exchange whose AbortController the page holds, or 0
  answered,   \* keys for whose message the page has shown an answer
  overlapped, \* history: exchanges whose loop was at work with another one
  run,        \* state of the run of each key
  reply,      \* what the server has decided to reply to an exchange
  wire        \* what the page can read next

page == <<exchange, begun, stream, retry, error, abortable, answered, overlapped>>
server == <<run, reply>>
vars == <<exchange, begun, stream, retry, error, abortable, answered, overlapped, run, reply,
          wire>>

-----------------------------------------------------------------------------
Exchanges == 1 .. MaxExchanges
Transports == {"stream", "json"}
Outcomes == {"completed", "confirmation_required", "failed", "cancelled"}

StreamStatuses == {"idle", "connecting", "running", "awaiting_confirmation",
                   "in_progress", "succeeded", "failed", "cancelled", "detached"}

NoExchange == [transport |-> "none", message |-> 0, key |-> 0, loop |-> "none",
               shown |-> 0]
Idle == [status |-> "idle", response |-> 0, last |-> 0]
NoRetry == [message |-> 0, key |-> 0, state |-> "none"]

Key(n) == exchange[n].key
Reading(n) == exchange[n].loop = "reading"
AtWork(n) == exchange[n].loop \in {"reading", "loading"}
Responded(n) == exchange[n].shown # 0
IsStream(n) == exchange[n].transport = "stream"

streamBusy == stream.status \in {"connecting", "running"}
Busy == streamBusy \/ \E n \in Exchanges : Reading(n) /\ ~IsStream(n)

Init ==
  /\ exchange = [n \in Exchanges |-> NoExchange]
  /\ begun = 0
  /\ stream = Idle
  /\ retry = NoRetry
  /\ error = FALSE
  /\ abortable = 0
  /\ answered = {}
  /\ overlapped = {}
  /\ run = [k \in Exchanges |-> "none"]
  /\ reply = [n \in Exchanges |-> "none"]
  /\ wire = [n \in Exchanges |-> "none"]

-----------------------------------------------------------------------------
\* Sending a message, for the first time or again.
Send(message, key, transport) ==
  LET n == begun + 1
      others == {m \in Exchanges : AtWork(m)}
  IN  /\ begun' = n
      /\ overlapped' = overlapped \cup others \cup (IF others = {} THEN {} ELSE {n})
      /\ exchange' = [exchange EXCEPT ![n] =
           [transport |-> transport, message |-> message, key |-> key,
            loop |-> "reading", shown |-> 0]]
      /\ wire' = [wire EXCEPT ![n] = "waiting"]
      /\ IF transport = "stream"
           THEN stream' = [Idle EXCEPT !.status = "connecting"] /\ abortable' = n
           ELSE UNCHANGED <<stream, abortable>>

SubmitMessage ==
  /\ ~Busy
  /\ begun < MaxExchanges
  /\ \E transport \in Transports : Send(begun + 1, begun + 1, transport)
  /\ retry' = NoRetry
  /\ error' = FALSE
  /\ UNCHANGED <<answered, run, reply>>

\* Faulty: every retry is sent with a new key.
NeverReused == FALSE

\* The key is kept while the outcome of the message is open.
KeyReused == retry.state = "interrupted"

RetryLastMessage ==
  /\ ~Busy
  /\ error /\ retry # NoRetry
  /\ begun < MaxExchanges
  /\ LET key == IF KeyReused THEN retry.key ELSE begun + 1
     IN  /\ \E transport \in Transports : Send(retry.message, key, transport)
         /\ retry' = [retry EXCEPT !.key = key, !.state = "pending"]
  /\ error' = FALSE
  /\ UNCHANGED <<answered, run, reply>>

-----------------------------------------------------------------------------
\* The server.  A request may reach it after its client has given up.
Served(n) ==
  /\ n <= begun /\ reply[n] = "none"
  /\ UNCHANGED <<page, wire>>

Execute(n) ==
  /\ Served(n)
  /\ run[Key(n)] = "none"
  /\ run' = [run EXCEPT ![Key(n)] = "running"]
  /\ reply' = [reply EXCEPT ![n] = "executing"]

\* A request that fails before its run has begun.
FailBeforeRun(n) ==
  /\ Served(n)
  /\ run[Key(n)] = "none"
  /\ reply' = [reply EXCEPT ![n] = "failed"]
  /\ UNCHANGED run

Replay(n) ==
  /\ Served(n)
  /\ run[Key(n)] # "none"
  /\ reply' = [reply EXCEPT ![n] =
       IF run[Key(n)] \in {"running", "lost"} THEN "in_progress" ELSE run[Key(n)]]
  /\ UNCHANGED run

Executing(n) == reply[n] = "executing"

FinishRun(n) ==
  /\ Executing(n)
  /\ \E outcome \in Outcomes :
       /\ run' = [run EXCEPT ![Key(n)] = outcome]
       /\ reply' = [reply EXCEPT ![n] = outcome]
  /\ UNCHANGED <<page, wire>>

\* The result cannot be stored, or the process dies: the key stays in progress.
LoseRun(n) ==
  /\ Executing(n)
  /\ run' = [run EXCEPT ![Key(n)] = "lost"]
  /\ \/ /\ reply' = [reply EXCEPT ![n] = "in_progress"]
        /\ UNCHANGED wire
     \/ /\ reply' = [reply EXCEPT ![n] = "lost"]
        /\ wire' = [wire EXCEPT ![n] = IF @ \in {"cut", "aborted"} THEN @ ELSE "broken"]
  /\ UNCHANGED page

\* What the page may read of an exchange.
OnWire(n, before, after) ==
  /\ wire[n] \in before
  /\ wire' = [wire EXCEPT ![n] = after]
  /\ UNCHANGED <<page, server>>

SendEvent(n) == IsStream(n) /\ Executing(n) /\ OnWire(n, {"waiting"}, "event")

SendResult(n) ==
  reply[n] \in Outcomes \cup {"in_progress"} /\ OnWire(n, {"waiting"}, "result")

EndStream(n) == IsStream(n) /\ OnWire(n, {"answered"}, "closed")

\* The event buffer of a stream is full: it ends without its result, and its run
\* goes on.  The page reads the same end.
DetachDelivery(n) ==
  /\ IsStream(n)
  /\ Executing(n) \/ run[Key(n)] = reply[n]
  /\ OnWire(n, {"waiting", "event"}, "cut")

\* The connection fails, or the request is refused.
BreakConnection(n) == OnWire(n, {"waiting", "event", "answered", "result"}, "broken")

-----------------------------------------------------------------------------
\* The page.
Keeps(n, state) == [message |-> exchange[n].message, key |-> Key(n), state |-> state]

StatusOf(outcome) ==
  CASE outcome = "completed" -> "succeeded"
    [] outcome = "confirmation_required" -> "awaiting_confirmation"
    [] OTHER -> outcome

\* The reducer: an event whose number another stream has passed is ignored.
Accepted(n, item) ==
  IF item = "result"
    THEN [status |-> StatusOf(reply[n]), response |-> n, last |-> n]
    ELSE [stream EXCEPT !.status = "running", !.last = n]

Reduced(n, item) ==
  {Accepted(n, item)} \cup (IF stream.last \in {0, n} THEN {} ELSE {stream})

\* handleAssistantResponse, as far as it goes before it loads an action.
HandleResponse(n, outcome) ==
  IF outcome = "in_progress"
    THEN /\ retry' = Keeps(n, "interrupted")
         /\ UNCHANGED answered
    ELSE /\ retry' = IF outcome \in {"failed", "cancelled"}
                       THEN Keeps(n, "terminal") ELSE NoRetry
         /\ answered' = answered \cup {Key(n)}

\* The loop of a stream shows the response it finds in the shared state.
ShowResponse(n, source) ==
  /\ HandleResponse(n, reply[source])
  /\ error' = (error \/ reply[source] = "in_progress")
  /\ exchange' = [exchange EXCEPT
       ![n].shown = source,
       ![n].loop = IF reply[source] = "confirmation_required" THEN "loading" ELSE @]

ReadItem(n) ==
  /\ Reading(n) /\ IsStream(n)
  /\ wire[n] \in {"event", "result"}
  /\ wire' = [wire EXCEPT ![n] = IF @ = "event" THEN "waiting" ELSE "answered"]
  /\ stream' \in Reduced(n, wire[n])
  /\ IF stream'.response # 0 /\ ~Responded(n)
       THEN ShowResponse(n, stream'.response)
       ELSE UNCHANGED <<exchange, retry, error, answered>>
  /\ UNCHANGED <<begun, abortable, overlapped, run, reply>>

ActionLoaded(n) ==
  /\ exchange[n].loop = "loading"
  /\ exchange' = [exchange EXCEPT ![n].loop = "reading"]
  /\ UNCHANGED <<begun, stream, retry, error, abortable, answered, overlapped, run, reply, wire>>

LoopEnds(n) ==
  /\ exchange' = [exchange EXCEPT ![n].loop = "over"]
  /\ abortable' = 0

\* The end of a stream without a result counts as a failure of the run.
AfterEnd ==
  IF streamBusy THEN [stream EXCEPT !.status = "failed", !.response = 0] ELSE stream

ReadEnd(n) ==
  /\ Reading(n) /\ IsStream(n)
  /\ wire[n] \in {"closed", "cut"}
  /\ stream' = AfterEnd
  /\ CASE AfterEnd.status = "in_progress" ->
            retry' = Keeps(n, "interrupted") /\ error' = TRUE
       [] AfterEnd.status = "failed" /\ ~Responded(n) ->
            retry' = Keeps(n, "terminal") /\ error' = TRUE
       [] AfterEnd.status = "detached" -> UNCHANGED <<retry, error>>
       [] OTHER -> error' = FALSE /\ UNCHANGED retry
  /\ LoopEnds(n)
  /\ UNCHANGED <<begun, answered, overlapped, run, reply, wire>>

\* Faulty: a broken connection counts as the end of the run.
GivesUp(n) == Keeps(n, "terminal")

Interrupted(n) == Keeps(n, "interrupted")

ReadError(n) ==
  /\ Reading(n) /\ IsStream(n)
  /\ wire[n] = "broken"
  /\ stream' = [stream EXCEPT !.status = "failed", !.response = 0]
  /\ retry' = Interrupted(n)
  /\ error' = TRUE
  /\ LoopEnds(n)
  /\ UNCHANGED <<begun, answered, overlapped, run, reply, wire>>

\* The user stops receiving; the loop notices when it reads again.
CancelStream(n) ==
  /\ streamBusy
  /\ abortable = n /\ AtWork(n)
  /\ wire' = [wire EXCEPT ![n] = "aborted"]
  /\ UNCHANGED <<page, server>>

ReadAborted(n) ==
  /\ Reading(n)
  /\ wire[n] = "aborted"
  /\ stream' = [stream EXCEPT !.status = "detached", !.response = 0]
  /\ retry' = Interrupted(n)
  /\ error' = TRUE
  /\ LoopEnds(n)
  /\ UNCHANGED <<begun, answered, overlapped, run, reply, wire>>

\* The JSON exchange ends with its response or its error.
JsonSucceeds(n) ==
  /\ Reading(n) /\ ~IsStream(n)
  /\ wire[n] = "result"
  /\ HandleResponse(n, reply[n])
  /\ error' = (reply[n] \in {"in_progress", "failed"})
  /\ exchange' = [exchange EXCEPT ![n].loop = "over", ![n].shown = n]
  /\ UNCHANGED <<begun, stream, abortable, overlapped, run, reply, wire>>

JsonFails(n) ==
  /\ Reading(n) /\ ~IsStream(n)
  /\ wire[n] = "broken"
  /\ retry' = Interrupted(n)
  /\ error' = TRUE
  /\ exchange' = [exchange EXCEPT ![n].loop = "over"]
  /\ UNCHANGED <<begun, stream, abortable, answered, overlapped, run, reply, wire>>

-----------------------------------------------------------------------------
Next ==
  \/ SubmitMessage \/ RetryLastMessage
  \/ \E n \in Exchanges :
       \/ Execute(n) \/ FailBeforeRun(n) \/ Replay(n) \/ FinishRun(n) \/ LoseRun(n)
       \/ SendEvent(n) \/ SendResult(n) \/ EndStream(n)
       \/ DetachDelivery(n) \/ BreakConnection(n)
       \/ ReadItem(n) \/ ActionLoaded(n) \/ ReadEnd(n)
       \/ ReadError(n) \/ CancelStream(n) \/ ReadAborted(n)
       \/ JsonSucceeds(n) \/ JsonFails(n)

Spec == Init /\ [][Next]_vars

-----------------------------------------------------------------------------
\* The values each variable takes; what the page keeps of a message belongs to
\* an exchange it has begun (LogicalUserMessage, StreamState).
TypeOK ==
  /\ begun \in 0 .. MaxExchanges
  /\ exchange \in [Exchanges ->
       [transport : Transports, message : Exchanges, key : Exchanges,
        loop : {"reading", "loading", "over"}, shown : 0 .. MaxExchanges] \cup {NoExchange}]
  /\ \A n \in Exchanges : exchange[n] = NoExchange <=> n > begun
  /\ stream \in [status : StreamStatuses, response : 0 .. MaxExchanges,
                 last : 0 .. MaxExchanges]
  /\ retry \in [message : Exchanges, key : Exchanges,
                state : {"pending", "interrupted", "terminal"}] \cup {NoRetry}
  /\ error \in BOOLEAN
  /\ abortable \in 0 .. MaxExchanges
  /\ answered \subseteq Exchanges /\ overlapped \subseteq Exchanges
  /\ run \in [Exchanges -> {"none", "running", "lost"} \cup Outcomes]
  /\ reply \in [Exchanges -> {"none", "executing", "in_progress", "lost"} \cup Outcomes]
  /\ wire \in [Exchanges -> {"none", "waiting", "event", "result", "answered",
                             "closed", "cut", "broken", "aborted"}]

\* The first exchange of a key has its number.
Keys == {k \in Exchanges : Key(k) = k}
MessageOf(k) == exchange[k].message

\* The page has shown a final answer for an exchange, or its loop has found the
\* stream at its end without having shown any.
Concluded(n) ==
  IF Responded(n) THEN reply[exchange[n].shown] # "in_progress"
                  ELSE exchange[n].loop = "over" /\ wire[n] \in {"closed", "cut"}

\* It was what the server had sent for this exchange: the answer to its key, or
\* a stream that was cut off before its result.
ByServer(n) ==
  IF Responded(n) THEN Key(exchange[n].shown) = Key(n) ELSE wire[n] = "cut"

\* However the loops, aborts and retries of the page mix, a message gets a new
\* key only after an exchange with one of its earlier keys has been concluded: a
\* connection that breaks, an abort or a reply "in progress" never gives it one.
\* And an exchange whose loop had the page to itself has been concluded by the
\* answer to its own key, or by a stream that the server had cut off
\* (retryLastMessage, runStream).
NewKeyExplained ==
  \A k \in Keys : k # MessageOf(k) =>
    \E n \in Exchanges :
      /\ Key(n) < k /\ exchange[n].message = MessageOf(k)
      /\ Concluded(n)
      /\ ByServer(n) \/ n \in overlapped

-----------------------------------------------------------------------------
(* What the page does not guarantee.                                       *)

\* "SHALL reuse that key for transport retries until the authoritative result is
\* terminal" (chat-retry-idempotency/spec.md:11): a new key comes after the answer
\* to an earlier key, or after a stream that was cut off.  Where loops overlap it
\* need not: the result of a stream is ignored if the event of another one has a
\* higher number, and the end of the stream then counts as a failed run
\* (streamReducer, runStream).
NewKeyAfterOwnOutcome ==
  \A k \in Keys : k # MessageOf(k) =>
    \E n \in Exchanges :
      Key(n) < k /\ exchange[n].message = MessageOf(k) /\ Concluded(n) /\ ByServer(n)

\* A message is not executed again while its first run goes on or after it has
\* succeeded.  It is when a stream was cut off (runStream).
NoReplacement ==
  \A j, k \in Keys :
    /\ j < k /\ MessageOf(j) = MessageOf(k)
    /\ run[j] # "none" /\ run[k] # "none"
    => run[j] \in {"failed", "cancelled"}

\* A message whose answer has been shown is not offered as interrupted.  It is
\* when the connection fails between the result and the end (runStream).
AnsweredIsNotInterrupted == retry.state = "interrupted" => retry.key \notin answered

\* A message is shown the answer to itself.  It is shown another's when the end
\* of an answered stream lets the user send a message while one is under way
\* (streamReducer, runStream).
AnswersOwnMessage ==
  \A n \in Exchanges : Responded(n) => Key(exchange[n].shown) = Key(n)

\* When nothing is under way, the last message has its answer or can be sent
\* again.  It cannot when the loop of the message before it ends after its own
\* (runStream).
LastMessageRecoverable ==
  begun > 0 /\ (\A n \in 1 .. begun : exchange[n].loop = "over") =>
    Key(begun) \in answered \/ (error /\ retry.key = Key(begun))
=============================================================================
