------------------------------- MODULE StatusStream -------------------------------
(*****************************************************************************)
(* Waiting for one transaction: the server-sent event streams of the backend *)
(* (routes/events.ts, the two event buses, the shutdown of index.ts) and the *)
(* hook that watches a transaction in the browser                            *)
(* (hooks/useTransactionStatus.ts), which falls back to polling              *)
(* GET /transactions/:txHash.                                                *)
(*                                                                           *)
(* A stream is a server side response.  The hook holds at most one of them;  *)
(* the others belong to clients that come and go.  Heartbeats change nothing *)
(* and are left out.                                                         *)
(*****************************************************************************)
EXTENDS Naturals, FiniteSets

CONSTANTS
  Hashes,            \* transaction hashes
  NoHash,            \* null
  Streams,           \* identities of responses
  MaxGlobal,         \* MAX_GLOBAL_SSE_CONNECTIONS
  MaxPerHash,        \* MAX_LISTENERS_PER_TXHASH
  MaxPollAttempts,   \* MAX_POLL_ATTEMPTS
  MaxChanges,        \* bound: transactions the hook watches
  MaxOpens           \* bound: streams other clients open

VARIABLES
  server,            \* "up", "draining", "closing", "exited"
  stream,            \* each response: its route, its hash and whether it is open
  subscribed,        \* activeSubscriptions: hash -> responses of GET /events
  saved,             \* the transactions table: hash -> status, "none" without a row
  hook,              \* the watcher
  stray,             \* hashes of cancelled polls whose body is still being read
  changes, opens     \* counters of the bounds

vars == <<server, stream, subscribed, saved, hook, stray, changes, opens>>

Closed == [route |-> "none", hash |-> NoHash, state |-> "closed"]

\* activeSseResponses: a response leaves it in its close handler.
Active == {s \in Streams : stream[s].state # "closed"}

isShuttingDown == server # "up"

-----------------------------------------------------------------------------
(* The streams of the backend.                                               *)

Accepted(s, route, h) ==
  /\ stream[s].state = "closed"
  /\ stream' = [stream EXCEPT ![s] = [route |-> route, hash |-> h, state |-> "open"]]

\* GET /events?txHash: three refusals, then the subscription and its listener.
handleEventStream(s, h) ==
  /\ opens < MaxOpens /\ opens' = opens + 1
  /\ ~isShuttingDown
  /\ Cardinality(Active) < MaxGlobal
  /\ Cardinality(subscribed[h]) < MaxPerHash
  /\ Accepted(s, "events", h)
  /\ subscribed' = [subscribed EXCEPT ![h] = @ \union {s}]
  /\ UNCHANGED <<server, saved, hook, stray, changes>>

\* Faulty variant: the path based stream is accepted during shutdown.
AdmitsTransactionAlways(s, h) == Accepted(s, "transactions", h)

\* GET /events/transactions/:txHash: refused during shutdown only.
AdmitsTransaction(s, h) == ~isShuttingDown /\ Accepted(s, "transactions", h)

\* The stream of another client.
handleTransactionStream(s, h) ==
  /\ opens < MaxOpens /\ opens' = opens + 1
  /\ AdmitsTransaction(s, h)
  /\ UNCHANGED <<server, subscribed, saved, hook, stray, changes>>

\* Faulty variant: the close handler keeps the subscription.
UnsubscribedNever(s) == subscribed

\* subscription.cleanup
Unsubscribed(s) == [h \in Hashes |-> subscribed[h] \ {s}]

\* Another client disconnects: its response is over.
ClientLeaves(s) ==
  /\ stream[s].state = "open" /\ s # hook.source
  /\ stream' = [stream EXCEPT ![s].state = "ended"]
  /\ UNCHANGED <<server, subscribed, saved, hook, stray, changes, opens>>

\* The close event of a response that ended, on either side.
CloseHandler(s) ==
  /\ stream[s].state = "ended"
  /\ stream' = [stream EXCEPT ![s] = Closed]
  /\ subscribed' = Unsubscribed(s)
  /\ UNCHANGED <<server, saved, hook, stray, changes, opens>>

\* EventListenerService commits a record and publishes it on both buses; the
\* frame the hook's own stream carries is a named one,
\* `event: transaction:confirmed'.
Publish(h) ==
  /\ server = "up" /\ saved[h] = "none"
  /\ \E status \in {"completed", "failed"} : saved' = [saved EXCEPT ![h] = status]
  /\ hook' = IF hook.source \in Streams /\ stream[hook.source] = [route |-> "transactions", hash |-> h, state |-> "open"]
             THEN [hook EXCEPT !.frames = {"transaction:confirmed"}] ELSE hook
  /\ UNCHANGED <<server, stream, subscribed, stray, changes, opens>>

\* SIGTERM: readiness first, then every open stream is ended, in one turn.
Shutdown ==
  /\ server = "up"
  /\ server' = "draining"
  /\ stream' = [s \in Streams |->
                  IF stream[s].state = "open" THEN [stream[s] EXCEPT !.state = "ended"] ELSE stream[s]]
  /\ UNCHANGED <<subscribed, saved, hook, stray, changes, opens>>

\* closeDatabase has answered and server.close is called.
DatabaseClosed ==
  /\ server = "draining"
  /\ server' = "closing"
  /\ UNCHANGED <<stream, subscribed, saved, hook, stray, changes, opens>>

\* server.close calls back once no connection is left, or the force timer fires.
Exit ==
  /\ server = "closing"
  /\ server' = "exited"
  /\ stream' = [s \in Streams |-> Closed]
  /\ subscribed' = [h \in Hashes |-> {}]
  /\ UNCHANGED <<saved, hook, stray, changes, opens>>

-----------------------------------------------------------------------------
(* The hook.                                                                 *)

NoSource == "none"
Idle == [hash |-> NoHash, status |-> "null", record |-> NoHash, source |-> NoSource,
         frames |-> {}, poll |-> "idle", attempt |-> 0]

\* The effect's cleanup: the stream is closed, the timer cleared, the poll
\* cancelled.  A poll that already has its response reads its body to the end.
CleanedUp ==
  /\ stream' = [s \in Streams |->
                  IF s = hook.source /\ stream[s].state = "open" THEN [stream[s] EXCEPT !.state = "ended"]
                  ELSE stream[s]]
  /\ stray' = IF hook.poll = "json" THEN stray \union {hook.hash} ELSE stray

\* The effect runs for another hash: status pending and a new EventSource.
Watch(h) ==
  /\ changes < MaxChanges /\ changes' = changes + 1
  /\ h # hook.hash
  /\ CleanedUp
  /\ hook' = [Idle EXCEPT !.hash = h, !.status = "pending", !.source = "connecting"]
  /\ UNCHANGED <<server, subscribed, saved, opens>>

\* A browser without EventSource polls at once (and keeps the old record).
WatchWithoutStream(h) ==
  /\ changes < MaxChanges /\ changes' = changes + 1
  /\ h # hook.hash
  /\ CleanedUp
  /\ hook' = [Idle EXCEPT !.hash = h, !.status = "pending", !.poll = "fetch", !.record = hook.record]
  /\ UNCHANGED <<server, subscribed, saved, opens>>

\* No hash, or not enabled.
Unwatch ==
  /\ hook.hash # NoHash
  /\ CleanedUp
  /\ hook' = Idle
  /\ UNCHANGED <<server, subscribed, saved, changes, opens>>

Connected(s) ==
  /\ hook.source = "connecting"
  /\ AdmitsTransaction(s, hook.hash)
  /\ hook' = [hook EXCEPT !.source = s]
  /\ UNCHANGED <<server, subscribed, saved, stray, changes, opens>>

\* EventSource.onmessage: the browser calls it for unnamed frames only, so the
\* named frame of this route passes by.
onmessage ==
  /\ hook.frames # {}
  /\ hook' = [hook EXCEPT !.frames = {}]
  /\ UNCHANGED <<server, stream, subscribed, saved, stray, changes, opens>>

\* EventSource.onerror: refused, ended by the server or cut.  The hook closes
\* the source and starts polling.
onerror ==
  /\ hook.source # NoSource
  /\ hook' = [hook EXCEPT !.source = NoSource, !.frames = {}, !.poll = "fetch", !.attempt = 0]
  /\ stream' = [s \in Streams |->
                  IF s = hook.source /\ stream[s].state = "open" THEN [stream[s] EXCEPT !.state = "ended"]
                  ELSE stream[s]]
  /\ UNCHANGED <<server, subscribed, saved, stray, changes, opens>>

\* Faulty variant: the attempt is not counted.
RetryForever(k) == [k EXCEPT !.poll = "timer"]

\* The end of a poll without a verdict: another attempt, or the timeout.
Retry(k) ==
  IF k.attempt >= MaxPollAttempts
  THEN [k EXCEPT !.poll = "idle", !.status = "timeout"]
  ELSE [k EXCEPT !.poll = "timer", !.attempt = @ + 1]

\* pollForStatus: the response.  A transaction that has no row is a 404.
PollAnswers ==
  /\ hook.poll = "fetch"
  /\ hook' = IF saved[hook.hash] = "none" THEN Retry(hook) ELSE [hook EXCEPT !.poll = "json"]
  /\ UNCHANGED <<server, stream, subscribed, saved, stray, changes, opens>>

PollFails ==
  /\ hook.poll \in {"fetch", "json"}
  /\ hook' = Retry(hook)
  /\ UNCHANGED <<server, stream, subscribed, saved, stray, changes, opens>>

\* What a body says of its transaction.
Verdict(k, h) ==
  IF saved[h] = "completed" THEN [k EXCEPT !.status = "completed", !.record = h]
  ELSE [k EXCEPT !.status = "error"]

PollRead ==
  /\ hook.poll = "json"
  /\ hook' = Verdict([hook EXCEPT !.poll = "idle"], hook.hash)
  /\ UNCHANGED <<server, stream, subscribed, saved, stray, changes, opens>>

\* The body of a cancelled poll: `cancelled' was checked before it was read.
StrayRead(h) ==
  /\ h \in stray
  /\ stray' = stray \ {h}
  /\ hook' = Verdict(hook, h)
  /\ UNCHANGED <<server, stream, subscribed, saved, changes, opens>>

PollTimer ==
  /\ hook.poll = "timer"
  /\ hook' = [hook EXCEPT !.poll = "fetch"]
  /\ UNCHANGED <<server, stream, subscribed, saved, stray, changes, opens>>

-----------------------------------------------------------------------------
Init ==
  /\ server = "up"
  /\ stream = [s \in Streams |-> Closed]
  /\ subscribed = [h \in Hashes |-> {}]
  /\ saved = [h \in Hashes |-> "none"]
  /\ hook = Idle
  /\ stray = {}
  /\ changes = 0
  /\ opens = 0

Polling == PollAnswers \/ PollFails \/ PollRead \/ PollTimer

Next ==
  \/ \E s \in Streams : \E h \in Hashes : handleEventStream(s, h) \/ handleTransactionStream(s, h)
  \/ \E s \in Streams : ClientLeaves(s) \/ CloseHandler(s) \/ Connected(s)
  \/ \E h \in Hashes : Publish(h) \/ Watch(h) \/ WatchWithoutStream(h) \/ StrayRead(h)
  \/ Shutdown \/ DatabaseClosed \/ Exit
  \/ Unwatch \/ onmessage \/ onerror \/ Polling

\* A socket that ended is reported, frames that were sent arrive, and a poll
\* that was started goes on: requests end and timers fire.  Nothing obliges
\* anybody to connect, to leave, to publish or to shut down.
Fairness ==
  /\ \A s \in Streams : WF_vars(CloseHandler(s))
  /\ WF_vars(onmessage)
  /\ WF_vars(Polling)

Spec == Init /\ [][Next]_vars /\ Fairness

-----------------------------------------------------------------------------
(* Properties.                                                               *)

\* The limit of listeners of one transaction holds whichever streams come and
\* go, and a response that is gone counts no more: the subscriptions are
\* exactly the responses of GET /events that are still active.
SubscriptionsBounded ==
  \A h \in Hashes :
    /\ Cardinality(subscribed[h]) <= MaxPerHash
    /\ subscribed[h] = {s \in Active : stream[s].route = "events" /\ stream[s].hash = h}

\* Once shutdown has begun every stream comes to its end without any client
\* having to leave (routes/events.ts, issue 1094: the process must not be held
\* until the force timer by a stream that slipped in).
ShutdownDrains == isShuttingDown ~> Active = {}

\* Polling never goes on for ever: a hook that polls for a transaction leaves
\* "pending", or is given another one.
PollingEnds ==
  \A h \in Hashes :
    hook.hash = h /\ hook.poll # "idle" ~> hook.status # "pending" \/ hook.hash # h

\* "Observe a single transaction until it's confirmed (SSE)" (openapi.ts): a
\* record published while the hook's stream is open reaches the hook.
\* Does not hold: the frame is a named event, and onmessage is called for
\* unnamed ones only; polling begins when the stream fails.
ConfirmedIsNoticed ==
  \A h \in Hashes :
    hook.hash = h /\ hook.frames # {} ~> hook.status # "pending" \/ hook.hash # h
=============================================================================
