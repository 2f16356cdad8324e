----------------------------- MODULE Idempotency -----------------------------
(***************************************************************************)
(* Idempotency keys of mutating routes (backend/src/middleware/            *)
(* idempotency.ts over backend/src/services/idempotency.ts), for the       *)
(* requests that carry one key on one route.                               *)
(*                                                                         *)
(* A request runs through the middleware in one step; if it is new, its    *)
(* handler runs until it calls res.json, which the middleware wraps.       *)
(* Before that the client may hang up (Node then emits "close" on the      *)
(* response), or the request timeout may answer 504 through the wrapped    *)
(* res.json; in both cases the handler goes on.  A response body is the    *)
(* request that produced it.                                               *)
(***************************************************************************)
EXTENDS Integers, FiniteSets

CONSTANTS
  Requests,     \* attempts of clients with the same Idempotency-Key
  Hash,         \* request -> hash of its method, url and body
  MaxEarlyEnds  \* bound on disconnects and timeouts before the answer

NoBody == "none"

NoEntry == [status |-> "none"]   \* the store has no entry

VARIABLES
  entry,     \* the store's entry for the key: [status, hash, body]
  state,     \* where each request is
  replay,    \* request -> the body it was replayed, or NoBody
  earlyEnds, \* history: number of disconnects and timeouts
  succeeded  \* history: 2xx answers since the key was last forgotten

vars == <<entry, state, replay, earlyEnds, succeeded>>

Hashes == {Hash[r] : r \in Requests}

\* "running", "gone", "timedout": in its handler, the last two after its client
\* left or was answered 504; the others have not come or have their answer.
TypeOK ==
  /\ \/ entry = NoEntry
     \/ entry \in [status : {"in_progress", "completed"}, hash : Hashes,
                   body : Requests \cup {NoBody}]
  /\ state \in [Requests -> {"new", "running", "gone", "timedout", "done",
                             "failed", "conflict", "in_progress", "replayed"}]
  /\ replay \in [Requests -> Requests \cup {NoBody}]
  /\ earlyEnds \in 0..MaxEarlyEnds
  /\ succeeded \in SUBSET Requests

Init ==
  /\ entry = NoEntry
  /\ state = [r \in Requests |-> "new"]
  /\ replay = [r \in Requests |-> NoBody]
  /\ earlyEnds = 0 /\ succeeded = {}

Becomes(r, s) == state' = [state EXCEPT ![r] = s]

\* Faulty variant: only a completed entry stops a retry.
AcceptInProgress(r) ==
  /\ state[r] = "new" /\ entry.status # "completed"
  /\ entry' = [status |-> "in_progress", hash |-> Hash[r], body |-> NoBody]
  /\ Becomes(r, "running")
  /\ UNCHANGED <<replay, earlyEnds, succeeded>>

\* The key is new: markInProgress, and the handler starts.
Accept(r) ==
  /\ state[r] = "new" /\ entry = NoEntry
  /\ entry' = [status |-> "in_progress", hash |-> Hash[r], body |-> NoBody]
  /\ Becomes(r, "running")
  /\ UNCHANGED <<replay, earlyEnds, succeeded>>

\* 409: the key was used with another payload.
RejectMismatch(r) ==
  /\ state[r] = "new" /\ entry # NoEntry
  /\ entry.hash # Hash[r]
  /\ Becomes(r, "conflict")
  /\ UNCHANGED <<entry, replay, earlyEnds, succeeded>>

\* 409: the first attempt is still being processed.
RejectInFlight(r) ==
  /\ state[r] = "new" /\ entry # NoEntry
  /\ entry.hash = Hash[r] /\ entry.status = "in_progress"
  /\ Becomes(r, "in_progress")
  /\ UNCHANGED <<entry, replay, earlyEnds, succeeded>>

\* Faulty variant: the payload is not compared.
ReplayAnyPayload(r) ==
  /\ state[r] = "new" /\ entry # NoEntry
  /\ entry.status = "completed"
  /\ replay' = [replay EXCEPT ![r] = entry.body]
  /\ Becomes(r, "replayed")
  /\ UNCHANGED <<entry, earlyEnds, succeeded>>

\* The stored answer is sent again.
Replay(r) ==
  /\ state[r] = "new" /\ entry # NoEntry
  /\ entry.hash = Hash[r] /\ entry.status = "completed"
  /\ replay' = [replay EXCEPT ![r] = entry.body]
  /\ Becomes(r, "replayed")
  /\ UNCHANGED <<entry, earlyEnds, succeeded>>

InHandler(r) == state[r] \in {"running", "gone", "timedout"}

\* Faulty variant: the key is dropped after a success too.
AnswerOkForgotten(r) ==
  /\ InHandler(r)
  /\ entry' = NoEntry
  /\ succeeded' = succeeded \cup {r}
  /\ Becomes(r, "done")
  /\ UNCHANGED <<replay, earlyEnds>>

\* The handler answers 2xx: complete.
AnswerOk(r) ==
  /\ InHandler(r)
  /\ entry' = [status |-> "completed", hash |-> Hash[r], body |-> r]
  /\ succeeded' = succeeded \cup {r}
  /\ Becomes(r, "done")
  /\ UNCHANGED <<replay, earlyEnds>>

\* Faulty variant: an error keeps the key.
AnswerErrorKept(r) ==
  /\ InHandler(r)
  /\ Becomes(r, "failed")
  /\ UNCHANGED <<entry, replay, earlyEnds, succeeded>>

\* The handler, or the error middleware, answers anything else: remove.  The
\* error middleware leaves a response alone that was already sent.
AnswerError(r) ==
  /\ InHandler(r)
  /\ \/ entry' = NoEntry
     \/ state[r] = "timedout" /\ UNCHANGED entry
  /\ Becomes(r, "failed")
  /\ UNCHANGED <<replay, earlyEnds, succeeded>>

EndsEarly(r) ==
  /\ state[r] = "running" /\ earlyEnds < MaxEarlyEnds
  /\ earlyEnds' = earlyEnds + 1
  /\ entry' = NoEntry
  /\ UNCHANGED <<replay, succeeded>>

\* The client disconnects: "close" with nothing settled removes the key.
HangUp(r) == EndsEarly(r) /\ Becomes(r, "gone")

\* requestTimeout answers 504, which is not a success.
TimeOut(r) == EndsEarly(r) /\ Becomes(r, "timedout")

\* A completed entry reaches its expiresAt, and get drops it.
Expire ==
  /\ entry.status = "completed"
  /\ entry' = NoEntry
  /\ succeeded' = {}
  /\ UNCHANGED <<state, replay, earlyEnds>>

\* The process restarts: the store is in memory.
Restart ==
  /\ \E r \in Requests : InHandler(r)
  /\ entry' = NoEntry
  /\ succeeded' = {}
  /\ state' = [r \in Requests |-> IF InHandler(r) THEN "failed" ELSE state[r]]
  /\ UNCHANGED <<replay, earlyEnds>>

Next ==
  \/ \E r \in Requests :
       \/ Accept(r) \/ RejectMismatch(r) \/ RejectInFlight(r) \/ Replay(r)
       \/ AnswerOk(r) \/ AnswerError(r) \/ HangUp(r) \/ TimeOut(r)
  \/ Expire
  \/ Restart

\* A handler answers in the end.
Spec ==
  /\ Init /\ [][Next]_vars
  /\ \A r \in Requests : WF_vars(AnswerOk(r) \/ AnswerError(r))
-----------------------------------------------------------------------------
\* "Same key while the original request is still in flight: rejected ... so a
\* concurrent retry can't race the first attempt": never two handlers of a key.
OneHandlerAtATime ==
  \A r, s \in Requests : InHandler(r) /\ InHandler(s) => r = s

\* A replayed answer was given with 2xx to a request with the same payload, also
\* when attempts overlap because a client hung up or a request timed out.
ReplayIsOriginal ==
  \A r \in Requests : state[r] = "replayed" =>
    /\ replay[r] # NoBody
    /\ Hash[replay[r]] = Hash[r] /\ state[replay[r]] = "done"

\* A disconnect or a timeout frees the key while its handler runs, and lets one
\* more handler run beside the others; nothing else does, neither late answers
\* that drop the key of another attempt, nor expiry or restarts.
OverlapBounded == Cardinality({r \in Requests : InHandler(r)}) <= 1 + earlyEnds

\* "already completed: the cached response is replayed verbatim without
\* re-running the handler": until the key is forgotten one attempt succeeds, and
\* at most one more for each disconnect or timeout.
SuccessesBounded == Cardinality(succeeded) <= 1 + earlyEnds

\* A key does not stay in progress when nobody works on it: an attempt that
\* failed or was abandoned lets the client try again.
KeyReleased == (entry.status = "in_progress") ~> (entry.status # "in_progress")
=============================================================================
