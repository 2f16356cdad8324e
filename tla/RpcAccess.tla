------------------------------ MODULE RpcAccess ------------------------------
(***************************************************************************)
(* How the backend talks to Soroban RPC: executeWithRetry (stellar.ts)     *)
(* around SDK calls whose HTTP client validates responses                  *)
(* (rpc-response-validation.ts) and chooses providers                      *)
(* (rpc-provider-health.ts).                                               *)
(*                                                                         *)
(* An attempt that times out abandons its request without cancelling it:   *)
(* the answer still comes and still counts for the provider's health.      *)
(* Times are kept as what is left of them: a timer's `due', a quarantine's *)
(* `unhealthyFor' (unhealthyUntil - now), and run down as time passes.     *)
(***************************************************************************)
EXTENDS Sums, SequencesExt, FiniteSetsExt

CONSTANTS
  Configured,   \* primary and backup URLs, in order, as configured
  Callers,      \* calls of executeWithRetry at the same time
  Requested,    \* values of maxRetries that callers ask for; -1: not a number
  RPC_RETRY_BUDGET_MAX_RETRIES, DEFAULT_RPC_MAX_RETRIES,
  InitialDelay, DelayCap, AttemptTimeout, FailureThreshold, CooldownTime,
  MaxCallsMade  \* calls in a behaviour

\* The constructor of the policy rounds both up to 1.
ASSUME RpcAssumption ==
  /\ Configured \in Seq(STRING)
  /\ Requested \subseteq Nat \cup {-1} /\ MaxCallsMade \in Nat
  /\ {RPC_RETRY_BUDGET_MAX_RETRIES, DEFAULT_RPC_MAX_RETRIES, InitialDelay, DelayCap,
      AttemptTimeout} \subseteq Nat
  /\ FailureThreshold \in Nat \ {0} /\ CooldownTime \in Nat \ {0}

VARIABLES
  health,    \* provider -> [consecutiveFailures, unhealthyFor]
  calls,     \* caller -> its executeWithRetry
  wire,      \* HTTP requests without an answer: [by, id, kind, attempt, url]
  sequence,  \* number of calls made
  outcome,   \* caller -> outcomes recorded for its sequence (recordRpcRetryOutcome)
  lastAnswer \* history: provider -> [streak, age]: the transport failures since its
             \* last valid answer, and the time since the newest of these answers

rpcVars == <<health, calls, wire, sequence, outcome, lastAnswer>>

\* parseRpcProviderUrls and the constructor of the policy: without duplicates.
parseRpcProviderUrls(urls) ==
  Dropping(urls, {i \in DOMAIN urls : \E j \in 1..i - 1 : urls[j] = urls[i]})

Providers == parseRpcProviderUrls(Configured)
Quiet == [step |-> "idle"]

RpcInit ==
  /\ sequence = 0 /\ wire = {}
  /\ health = [u \in Range(Providers) |-> [consecutiveFailures |-> 0, unhealthyFor |-> 0]]
  /\ calls = [c \in Callers |-> Quiet]
  /\ outcome = [c \in Callers |-> <<>>]
  /\ lastAnswer = [u \in Range(Providers) |-> [streak |-> 0, age |-> 0]]
----------------------------------------------------------------------------
(* Provider health.                                                        *)

Eligible == {i \in DOMAIN Providers : health[Providers[i]].unhealthyFor = 0}

\* Faulty variant: when every provider is quarantined the primary is asked anyway.
nextOrPrimary == IF Eligible = {} THEN Providers[1] ELSE Providers[Min(Eligible)]

next == IF Eligible = {} THEN "none" ELSE Providers[Min(Eligible)]

recordSuccess(u) == [health EXCEPT ![u] = [consecutiveFailures |-> 0, unhealthyFor |-> 0]]

recordFailure(u) ==
  LET n == health[u].consecutiveFailures + 1
  IN  [health EXCEPT ![u] = [consecutiveFailures |-> n,
                             unhealthyFor |-> IF n >= FailureThreshold THEN CooldownTime
                                              ELSE @.unhealthyFor]]

\* validateJsonRpcResponse, in the order of its checks.
Bodies == [object : BOOLEAN, envelope : BOOLEAN, id : BOOLEAN, error : {"none", "shaped", "malformed"},
           result : {"none", "null", "bad", "terminal", "good"}]

validateJsonRpcResponse(b) ==
  IF ~b.object \/ ~b.envelope \/ ~b.id THEN "invalid"
  ELSE IF b.error # "none" THEN IF b.result = "none" /\ b.error = "shaped" THEN "rpcError" ELSE "invalid"
  ELSE IF b.result = "good" THEN "success"
  ELSE IF b.result = "terminal" THEN "terminal" ELSE "invalid"

\* The answers of an HTTP request: a transport failure (no status, 429, 5xx),
\* another HTTP error, or a body.
Verdicts == {"transport", "refused"} \cup {validateJsonRpcResponse(b) : b \in Bodies}

\* The interceptors: validation runs first, so only valid bodies heal.
HealthAfter(u, verdict) ==
  CASE verdict \in {"success", "terminal"} -> recordSuccess(u)
    [] verdict = "transport" -> recordFailure(u)
    [] OTHER -> health
----------------------------------------------------------------------------
(* executeWithRetry.                                                       *)

boundRetryBudget(requested) ==
  IF requested = -1 THEN DEFAULT_RPC_MAX_RETRIES ELSE Min({requested, RPC_RETRY_BUDGET_MAX_RETRIES})

Backoff(attempt) == Min({InitialDelay * 2^attempt, DelayCap})

\* kind "read" is one call; "probe" is checkSorobanReachability, whose second
\* call follows the success of the first.
Begin(c, kind, requested) ==
  /\ calls[c] = Quiet /\ sequence < MaxCallsMade
  /\ sequence' = sequence + 1
  /\ calls' = [calls EXCEPT ![c] =
       [step |-> "send", kind |-> kind, max |-> boundRetryBudget(IF kind = "read" THEN requested ELSE 1),
        attempt |-> 0, due |-> 0, id |-> sequence + 1]]
  /\ outcome' = [outcome EXCEPT ![c] = <<>>]
  /\ UNCHANGED <<health, wire, lastAnswer>>

checkSorobanReachability(call, result) ==
  IF result = "success" /\ call.kind = "probe"
  THEN [call EXCEPT !.step = "send", !.kind = "simulate", !.attempt = 0]
  ELSE Quiet

Returns(c, result) ==
  /\ outcome' = [outcome EXCEPT ![c] = Append(@, result)]
  /\ calls' = [calls EXCEPT ![c] = checkSorobanReachability(@, result)]

\* A rejection of the transaction itself, found in the error or in its causes.
isTerminalTransactionError(error) == error = "terminal"

\* Faulty variant: a timed-out attempt is counted as an outcome and then retried.
FailedTwice(c, error) ==
  IF isTerminalTransactionError(error) THEN Returns(c, "validation_error")
  ELSE IF calls[c].attempt < calls[c].max
       THEN /\ calls' = [calls EXCEPT ![c] = [@ EXCEPT !.step = "sleep", !.due = Backoff(calls[c].attempt)]]
            /\ outcome' = IF error = "timeout" THEN [outcome EXCEPT ![c] = Append(@, "timeout")] ELSE outcome
       ELSE Returns(c, IF error = "timeout" THEN "timeout" ELSE "exhausted")

\* An attempt failed with a kind of error: terminal ones end the sequence, the
\* others are retried after a delay until the budget is spent.
Failed(c, error) ==
  IF isTerminalTransactionError(error) THEN Returns(c, "validation_error")
  ELSE IF calls[c].attempt < calls[c].max
       THEN /\ calls' = [calls EXCEPT ![c] = [@ EXCEPT !.step = "sleep", !.due = Backoff(calls[c].attempt)]]
            /\ UNCHANGED outcome
       ELSE Returns(c, IF error = "timeout" THEN "timeout" ELSE "exhausted")

Sent(c, u) ==
  /\ wire' = wire \cup {[by |-> c, id |-> calls[c].id, kind |-> calls[c].kind,
                         attempt |-> calls[c].attempt, url |-> u]}
  /\ calls' = [calls EXCEPT ![c] = [@ EXCEPT !.step = "wait", !.due = AttemptTimeout]]

\* The request interceptor: without an eligible provider the attempt fails.
Send(c) ==
  /\ calls[c].step = "send"
  /\ IF next = "none" THEN Failed(c, "unavailable") /\ UNCHANGED wire
     ELSE Sent(c, next) /\ UNCHANGED outcome
  /\ UNCHANGED <<health, sequence, lastAnswer>>

\* The race of an attempt listens to its own request only.
Awaited(r) ==
  LET c == calls[r.by] IN c.step = "wait" /\ <<c.id, c.kind, c.attempt>> = <<r.id, r.kind, r.attempt>>

Answer(r, verdict) ==
  /\ r \in wire /\ wire' = wire \ {r}
  /\ health' = HealthAfter(r.url, verdict)
  /\ lastAnswer' = [lastAnswer EXCEPT ![r.url] =
       CASE verdict \in {"success", "terminal"} -> [streak |-> 0, age |-> 0]
         [] verdict = "transport" -> [streak |-> @.streak + 1, age |-> 0]
         [] OTHER -> @]
  /\ IF ~Awaited(r) THEN UNCHANGED <<calls, outcome>>
     ELSE IF verdict = "success" THEN Returns(r.by, "success") ELSE Failed(r.by, verdict)
  /\ UNCHANGED sequence

\* Faulty variant: no timer is armed for the last attempt.
LastAttemptUntimed(c) ==
  /\ calls[c].step = "wait" /\ calls[c].due = 0 /\ calls[c].attempt < calls[c].max
  /\ Failed(c, "timeout")
  /\ UNCHANGED <<health, wire, sequence, lastAnswer>>

AttemptTimesOut(c) ==
  /\ calls[c].step = "wait" /\ calls[c].due = 0
  /\ Failed(c, "timeout")
  /\ UNCHANGED <<health, wire, sequence, lastAnswer>>

Wake(c) ==
  /\ calls[c].step = "sleep" /\ calls[c].due = 0
  /\ calls' = [calls EXCEPT ![c].step = "send", ![c].attempt = @ + 1]
  /\ UNCHANGED <<health, wire, sequence, outcome, lastAnswer>>

\* Time does not pass over a timer that is due.
Passes ==
  /\ \A c \in Callers : calls[c].step = "idle" \/ (calls[c].step \in {"wait", "sleep"} /\ calls[c].due > 0)
  /\ calls' = [c \in Callers |-> IF calls[c].step = "idle" THEN calls[c] ELSE [calls[c] EXCEPT !.due = @ - 1]]
  /\ health' = [u \in DOMAIN health |-> [health[u] EXCEPT !.unhealthyFor = Max({@ - 1, 0})]]
  /\ lastAnswer' = [u \in DOMAIN lastAnswer |-> [lastAnswer[u] EXCEPT !.age = Min({@ + 1, CooldownTime})]]
  /\ UNCHANGED <<wire, sequence, outcome>>

RpcNext ==
  \/ \E c \in Callers :
       \/ \E kind \in {"read", "probe"}, n \in Requested : Begin(c, kind, n)
       \/ Send(c) \/ AttemptTimesOut(c) \/ Wake(c)
  \/ \E r \in wire, v \in Verdicts : Answer(r, v)
  \/ Passes

RpcSpec ==
  /\ RpcInit /\ [][RpcNext]_rpcVars
  /\ \A c \in Callers : WF_rpcVars(Send(c)) /\ WF_rpcVars(AttemptTimesOut(c)) /\ WF_rpcVars(Wake(c))
  /\ WF_rpcVars(Passes)
----------------------------------------------------------------------------
\* A quarantine holds against everything but a valid answer: no request goes to
\* a provider that failed as often as the threshold says, without a valid answer
\* in between, until a cooldown has passed since the last of these failures: not
\* for want of another provider and not because of a malformed body.
QuarantineRespected ==
  \A r \in wire' \ wire :
    lastAnswer[r.url].streak >= FailureThreshold => lastAnswer[r.url].age >= CooldownTime
QuarantineHolds == [][QuarantineRespected]_rpcVars

\* The outcome of a sequence is recorded once, though answers of its abandoned
\* attempts come in later, and a sequence in progress has none yet.
OutcomeOnce ==
  \A c \in Callers : LET done == outcome[c] IN
    /\ calls[c].step # "idle" => Len(done) = (IF calls[c].kind = "simulate" THEN 1 ELSE 0)
    /\ Len(done) <= 2 /\ (Len(done) = 2 => done[1] = "success")

\* Every call comes back: whatever the providers do, silence included, the
\* timeouts and the bounded budget end it.
EveryCallEnds == \A c \in Callers : calls[c].step # "idle" ~> calls[c].step = "idle"

\* What RpcProviderHealthPolicy.next() relies on when it throws: the caller's
\* retry budget lasts until a cooldown has expired, so that the last attempt
\* finds a provider.
\* Does not hold: the delays of a whole budget are shorter than a cooldown,
\* so the last attempt may find every provider in quarantine.
LastAttemptFindsProvider ==
  \A c \in Callers : calls[c].step = "send" /\ calls[c].attempt = calls[c].max /\ calls[c].max > 1
    => Eligible # {}

=============================================================================
