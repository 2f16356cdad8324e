----------------------------- MODULE CallsProofs -----------------------------
(***************************************************************************)
(* Proofs about calls whose other side may stay silent or answer late, for *)
(* every value of the constants.                                           *)
(*                                                                         *)
(* Providers: what a quarantine has left and the time since the failure    *)
(* that imposed it add up to a cooldown; HealthInv.  A call that is under  *)
(* way has no outcome but that of the probe before it; CallsInv.           *)
(*                                                                         *)
(* Streams: the subscriptions of a transaction are its open responses;     *)
(* StreamInv.                                                              *)
(***************************************************************************)
EXTENDS MCCalls, SumsProofs

-----------------------------------------------------------------------------
(* Outcomes of a call *)

Steps == {"send", "wait", "sleep"}
Outcomes == {"success", "validation_error", "timeout", "exhausted"}

\* The calls under way.
Running ==
  [step : Steps, kind : {"read", "probe", "simulate"}, max : Int, attempt : Nat,
   due : Int, id : Nat]

\* What a caller has been told: nothing while its first call is under way, that
\* the first succeeded while the second is, and one outcome of each in the end.
OutcomeOk(call, done) ==
  \/ /\ call = Quiet /\ done \in Seq(Outcomes) /\ Len(done) <= 2
     /\ Len(done) = 2 => done[1] = "success"
  \/ call \in Running /\ call.kind # "simulate" /\ done = <<>>
  \/ call \in Running /\ call.kind = "simulate" /\ done = <<"success">>

\* The inductive invariant of the calls.
CallsInv ==
  /\ sequence \in Nat
  /\ calls \in [Callers -> Running \cup {Quiet}]
  /\ outcome \in [Callers -> Seq(Outcomes)]
  /\ \A c \in Callers : OutcomeOk(calls[c], outcome[c])
  /\ \A r \in wire : r.by \in Callers

\* A minimum of two numbers is one of them.
LEMMA MinOfTwo ==
  ASSUME NEW x \in Int, NEW y \in Int
  PROVE  Min({x, y}) = IF x <= y THEN x ELSE y
<1> DEFINE m == IF x <= y THEN x ELSE y
<1>1. m \in {x, y} /\ \A z \in {x, y} : m <= z
  OBVIOUS
<1>2. \A n \in {x, y} : (\A z \in {x, y} : n <= z) => n = m
  OBVIOUS
<1> HIDE DEF m
<1>3. Min({x, y}) = m
  BY <1>1, <1>2 DEF Min
<1> QED BY <1>3 DEF m

\* So is a maximum.
LEMMA MaxOfTwo ==
  ASSUME NEW x \in Int, NEW y \in Int
  PROVE  Max({x, y}) = IF x >= y THEN x ELSE y
<1> DEFINE m == IF x >= y THEN x ELSE y
<1>1. m \in {x, y} /\ \A z \in {x, y} : m >= z
  OBVIOUS
<1>2. \A n \in {x, y} : (\A z \in {x, y} : n >= z) => n = m
  OBVIOUS
<1> HIDE DEF m
<1>3. Max({x, y}) = m
  BY <1>1, <1>2 DEF Max
<1> QED BY <1>3 DEF m

\* Budgets and delays are numbers.
LEMMA Budgets ==
  /\ \A n \in Requested \cup {1} : boundRetryBudget(n) \in Int
  /\ \A n \in Nat : Backoff(n) \in Int
<1>0. /\ Requested \subseteq Nat \cup {-1} /\ RPC_RETRY_BUDGET_MAX_RETRIES \in Nat
      /\ DEFAULT_RPC_MAX_RETRIES \in Nat /\ InitialDelay \in Nat /\ DelayCap \in Nat
  BY RpcAssumption
<1>1. ASSUME NEW n \in Requested \cup {1} PROVE boundRetryBudget(n) \in Int
  <2>1. n \in Int
    BY <1>0
  <2> QED BY <1>0, <2>1, MinOfTwo DEF boundRetryBudget
<1>2. ASSUME NEW n \in Nat PROVE Backoff(n) \in Int
  <2>1. 2^n \in Int
    OBVIOUS
  <2>2. InitialDelay * 2^n \in Int
    BY <1>0, <2>1
  <2> QED BY <1>0, <2>2, MinOfTwo DEF Backoff
<1> QED BY <1>1, <1>2

\* A call that comes back with a result.
LEMMA ReturnsOk ==
  ASSUME NEW call \in Running, NEW done, OutcomeOk(call, done), NEW result \in Outcomes
  PROVE  OutcomeOk(checkSorobanReachability(call, result), Append(done, result))
<1>1. call # Quiet
  BY DEF Running, Quiet, Steps
<1>2. CASE result = "success" /\ call.kind = "probe"
  <2>1. done = <<>>
    BY <1>1, <1>2 DEF OutcomeOk
  <2>2. Append(done, result) = <<"success">>
    BY <1>2, <2>1
  <2>3. /\ checkSorobanReachability(call, result) \in Running
        /\ checkSorobanReachability(call, result).kind = "simulate"
    BY <1>2 DEF checkSorobanReachability, Running, Steps
  <2> QED BY <2>2, <2>3 DEF OutcomeOk
<1>3. CASE ~(result = "success" /\ call.kind = "probe")
  <2>1. checkSorobanReachability(call, result) = Quiet
    BY <1>3 DEF checkSorobanReachability
  <2>2. done = <<>> \/ done = <<"success">>
    BY <1>1 DEF OutcomeOk
  <2>3. CASE done = <<>>
    <3>1. Append(done, result) = <<result>>
      BY <2>3
    <3>2. <<result>> \in Seq(Outcomes) /\ Len(<<result>>) = 1
      OBVIOUS
    <3> QED BY <2>1, <3>1, <3>2 DEF OutcomeOk
  <2>4. CASE done = <<"success">>
    <3>1. done \in Seq(Outcomes) /\ Len(done) = 1 /\ done[1] = "success"
      BY <2>4 DEF Outcomes
    <3>2. /\ Append(done, result) \in Seq(Outcomes) /\ Len(Append(done, result)) = 2
          /\ Append(done, result)[1] = "success"
      <4>1. \A s \in Seq(Outcomes), e \in Outcomes :
              /\ Append(s, e) \in Seq(Outcomes) /\ Len(Append(s, e)) = Len(s) + 1
              /\ \A i \in 1..Len(s) : Append(s, e)[i] = s[i]
        OBVIOUS
      <4>2. 1 \in 1..Len(done) /\ result \in Outcomes
        BY <3>1
      <4>3. /\ Append(done, result) \in Seq(Outcomes) /\ Len(Append(done, result)) = Len(done) + 1
            /\ Append(done, result)[1] = done[1]
        BY ONLY <3>1, <4>1, <4>2
      <4> QED BY ONLY <3>1, <4>3
    <3> QED BY <2>1, <3>2 DEF OutcomeOk
  <2> QED BY <2>2, <2>3, <2>4
<1> QED BY <1>2, <1>3

\* What a caller was told is a list of outcomes, and its call is one.
LEMMA OutcomeTypes ==
  ASSUME NEW call, NEW done, OutcomeOk(call, done)
  PROVE  call \in Running \cup {Quiet} /\ done \in Seq(Outcomes)
<1>1. <<>> \in Seq(Outcomes) /\ <<"success">> \in Seq(Outcomes)
  BY DEF Outcomes
<1> QED BY <1>1 DEF OutcomeOk

\* One caller's call and outcomes change to what is sound.
LEMMA CallerMoves ==
  ASSUME CallsInv, NEW c \in Callers, NEW call, NEW done,
         calls' = [calls EXCEPT ![c] = call], outcome' = [outcome EXCEPT ![c] = done],
         OutcomeOk(call, done), \A r \in wire' : r.by \in Callers, sequence' \in Nat
  PROVE  CallsInv'
<1>1. call \in Running \cup {Quiet} /\ done \in Seq(Outcomes)
  BY OutcomeTypes
<1>2. calls' \in [Callers -> Running \cup {Quiet}] /\ outcome' \in [Callers -> Seq(Outcomes)]
  BY <1>1 DEF CallsInv
<1>3. ASSUME NEW e \in Callers PROVE OutcomeOk(calls'[e], outcome'[e])
  BY DEF CallsInv
<1> QED BY <1>2, <1>3 DEF CallsInv

\* An attempt that failed is retried or ends the call.
LEMMA FailedKeeps ==
  ASSUME CallsInv, NEW c \in Callers, calls[c] \in Running, NEW error,
         Failed(c, error), \A r \in wire' : r.by \in Callers, sequence' \in Nat
  PROVE  CallsInv'
<1>0. OutcomeOk(calls[c], outcome[c]) /\ calls[c] # Quiet
  BY DEF CallsInv, Running, Quiet, Steps
<1>1. ASSUME NEW result \in Outcomes, Returns(c, result) PROVE CallsInv'
  <2>1. /\ calls' = [calls EXCEPT ![c] = checkSorobanReachability(calls[c], result)]
        /\ outcome' = [outcome EXCEPT ![c] = Append(outcome[c], result)]
    BY <1>1 DEF Returns, CallsInv
  <2>2. OutcomeOk(checkSorobanReachability(calls[c], result), Append(outcome[c], result))
    BY <1>0, ReturnsOk
  <2> QED BY <2>1, <2>2, CallerMoves
<1>2. CASE isTerminalTransactionError(error)
  BY <1>1, <1>2 DEF Failed, Outcomes
<1>3. CASE ~isTerminalTransactionError(error) /\ calls[c].attempt < calls[c].max
  <2> DEFINE call == [calls[c] EXCEPT !.step = "sleep", !.due = Backoff(calls[c].attempt)]
  <2>1. calls' = [calls EXCEPT ![c] = call] /\ outcome' = outcome
    BY <1>3 DEF Failed, CallsInv
  <2>2. Backoff(calls[c].attempt) \in Int
    BY Budgets DEF Running
  <2>3. call \in Running /\ call.kind = calls[c].kind
    BY <2>2 DEF Running, Steps
  <2>4. OutcomeOk(call, outcome[c])
    <3> HIDE DEF call
    <3> QED BY <1>0, <2>3 DEF OutcomeOk
  <2>5. outcome' = [outcome EXCEPT ![c] = outcome[c]]
    BY <2>1 DEF CallsInv
  <2> HIDE DEF call
  <2> QED BY <2>1, <2>4, <2>5, CallerMoves
<1>4. CASE ~isTerminalTransactionError(error) /\ ~(calls[c].attempt < calls[c].max)
  BY <1>1, <1>4 DEF Failed, Outcomes
<1> QED BY <1>2, <1>3, <1>4

\* The calls begin idle, and every step of the providers and callers keeps what
\* was told in step with what is under way.
LEMMA CallsStart == RpcInit => CallsInv
<1>1. <<>> \in Seq(Outcomes) /\ Len(<<>>) = 0
  OBVIOUS
<1> QED BY <1>1 DEF RpcInit, CallsInv, OutcomeOk

\* A call that moves on without an outcome.
LEMMA CallMoves ==
  ASSUME CallsInv, NEW c \in Callers, calls[c] \in Running, NEW call \in Running,
         calls' = [calls EXCEPT ![c] = call], outcome' = outcome, call.kind = calls[c].kind,
         \A r \in wire' : r.by \in Callers, sequence' \in Nat
  PROVE  CallsInv'
<1>1. OutcomeOk(calls[c], outcome[c]) /\ calls[c] # Quiet
  BY DEF CallsInv, Running, Quiet, Steps
<1>2. OutcomeOk(call, outcome[c])
  BY <1>1 DEF OutcomeOk
<1>3. outcome' = [outcome EXCEPT ![c] = outcome[c]]
  BY DEF CallsInv
<1> QED BY <1>2, <1>3, CallerMoves

\* Every step of the calls keeps what they were told in step with where they are.
LEMMA CallsKept == ASSUME CallsInv, [RpcNext]_rpcVars PROVE CallsInv'
<1>0. ASSUME NEW c \in Callers, calls[c].step \in Steps PROVE calls[c] \in Running
  BY <1>0 DEF CallsInv, Quiet, Steps
<1>1. CASE UNCHANGED rpcVars
  BY <1>1 DEF rpcVars, CallsInv
<1>2. ASSUME NEW c \in Callers, NEW kind \in {"read", "probe"}, NEW n \in Requested,
             Begin(c, kind, n)
      PROVE  CallsInv'
  <2> DEFINE call == [step |-> "send", kind |-> kind,
                      max |-> boundRetryBudget(IF kind = "read" THEN n ELSE 1),
                      attempt |-> 0, due |-> 0, id |-> sequence + 1]
  <2>1. /\ calls' = [calls EXCEPT ![c] = call] /\ outcome' = [outcome EXCEPT ![c] = <<>>]
        /\ wire' = wire /\ sequence' = sequence + 1
    BY <1>2 DEF Begin
  <2>2. boundRetryBudget(IF kind = "read" THEN n ELSE 1) \in Int
    BY Budgets
  <2>3. call \in Running /\ call.kind # "simulate"
    BY <2>2 DEF Running, Steps, CallsInv
  <2>4. OutcomeOk(call, <<>>)
    BY <2>3 DEF OutcomeOk
  <2>5. sequence' \in Nat /\ \A r \in wire' : r.by \in Callers
    BY <2>1 DEF CallsInv
  <2> HIDE DEF call
  <2> QED BY <2>1, <2>4, <2>5, CallerMoves
<1>3. ASSUME NEW c \in Callers, Send(c) PROVE CallsInv'
  <2>1. calls[c] \in Running /\ sequence' \in Nat
    BY <1>0, <1>3 DEF Send, Steps, CallsInv
  <2>2. CASE next = "none"
    BY <1>3, <2>1, <2>2, FailedKeeps DEF Send, CallsInv
  <2>3. CASE next # "none"
    <3> DEFINE call == [calls[c] EXCEPT !.step = "wait", !.due = AttemptTimeout]
    <3>1. Sent(c, next) /\ outcome' = outcome
      BY <1>3, <2>3 DEF Send
    <3>2. calls' = [calls EXCEPT ![c] = call]
      BY <3>1 DEF Sent, CallsInv
    <3>3. call \in Running /\ call.kind = calls[c].kind
      <4>1. AttemptTimeout \in Int
        BY RpcAssumption
      <4> QED BY <2>1, <4>1 DEF Running, Steps
    <3>4. \A r \in wire' : r.by \in Callers
      BY <3>1 DEF Sent, CallsInv
    <3> HIDE DEF call
    <3> QED BY <2>1, <3>1, <3>2, <3>3, <3>4, CallMoves
  <2> QED BY <2>2, <2>3
<1>4. ASSUME NEW c \in Callers, AttemptTimesOut(c) PROVE CallsInv'
  <2>1. calls[c] \in Running /\ sequence' \in Nat /\ wire' = wire
    BY <1>0, <1>4 DEF AttemptTimesOut, Steps, CallsInv
  <2> QED BY <1>4, <2>1, FailedKeeps DEF AttemptTimesOut, CallsInv
<1>5. ASSUME NEW c \in Callers, Wake(c) PROVE CallsInv'
  <2> DEFINE call == [calls[c] EXCEPT !.step = "send", !.attempt = calls[c].attempt + 1]
  <2>1. calls[c] \in Running /\ sequence' \in Nat /\ wire' = wire /\ outcome' = outcome
    BY <1>0, <1>5 DEF Wake, Steps, CallsInv
  <2>2. calls' = [calls EXCEPT ![c] = call]
    BY <1>5, <2>1 DEF Wake, CallsInv
  <2>3. call \in Running /\ call.kind = calls[c].kind
    <3>1. calls[c].attempt + 1 \in Nat
      BY <2>1 DEF Running
    <3> QED BY <2>1, <3>1 DEF Running, Steps
  <2> HIDE DEF call
  <2> QED BY <2>1, <2>2, <2>3, CallMoves DEF CallsInv
<1>6. ASSUME NEW r \in wire, NEW v \in Verdicts, Answer(r, v) PROVE CallsInv'
  <2>1. r.by \in Callers /\ sequence' \in Nat /\ \A q \in wire' : q.by \in Callers
    BY <1>6 DEF Answer, CallsInv
  <2>2. CASE ~Awaited(r)
    BY <1>6, <2>1, <2>2 DEF Answer, CallsInv
  <2>3. CASE Awaited(r)
    <3>1. calls[r.by] \in Running
      BY <1>0, <2>1, <2>3 DEF Awaited, Steps
    <3>2. CASE v = "success"
      <4>1. Returns(r.by, "success")
        BY <1>6, <2>3, <3>2 DEF Answer
      <4>2. OutcomeOk(calls[r.by], outcome[r.by]) /\ "success" \in Outcomes
        BY <2>1 DEF CallsInv, Outcomes
      <4>3. OutcomeOk(checkSorobanReachability(calls[r.by], "success"), Append(outcome[r.by], "success"))
        BY <3>1, <4>2, ReturnsOk
      <4>4. /\ calls' = [calls EXCEPT ![r.by] = checkSorobanReachability(calls[r.by], "success")]
            /\ outcome' = [outcome EXCEPT ![r.by] = Append(outcome[r.by], "success")]
        BY <2>1, <4>1 DEF Returns, CallsInv
      <4> QED BY <2>1, <4>3, <4>4, CallerMoves
    <3>3. CASE v # "success"
      <4>1. Failed(r.by, v)
        BY <1>6, <2>3, <3>3 DEF Answer
      <4> QED BY <2>1, <3>1, <4>1, FailedKeeps
    <3> QED BY <3>2, <3>3
  <2> QED BY <2>2, <2>3
<1>7. CASE Passes
  <2>1. /\ calls' = [c \in Callers |-> IF calls[c].step = "idle" THEN calls[c]
                                       ELSE [calls[c] EXCEPT !.due = @ - 1]]
        /\ wire' = wire /\ sequence' = sequence /\ outcome' = outcome
    BY <1>7 DEF Passes
  <2>2. ASSUME NEW c \in Callers PROVE OutcomeOk(calls'[c], outcome[c])
    <3>1. CASE calls[c].step = "idle"
      BY <2>1, <3>1 DEF CallsInv
    <3>2. CASE calls[c].step # "idle"
      <4> DEFINE call == [calls[c] EXCEPT !.due = calls[c].due - 1]
      <4>1. calls[c] \in Running /\ calls[c] # Quiet
        BY <3>2 DEF CallsInv, Quiet
      <4>2. call \in Running /\ call.kind = calls[c].kind
        BY <4>1 DEF Running
      <4>3. OutcomeOk(calls[c], outcome[c])
        BY DEF CallsInv
      <4>4. calls'[c] = call
        BY <2>1, <3>2
      <4> HIDE DEF call
      <4> QED BY <4>1, <4>2, <4>3, <4>4 DEF OutcomeOk
    <3> QED BY <3>1, <3>2
  <2>3. calls' \in [Callers -> Running \cup {Quiet}]
    <3>1. \A c \in Callers : calls'[c] \in Running \cup {Quiet}
      BY <2>2, OutcomeTypes
    <3> QED BY <2>1, <3>1
  <2> QED BY <2>1, <2>2, <2>3 DEF CallsInv
<1> QED BY <1>1, <1>2, <1>3, <1>4, <1>5, <1>6, <1>7 DEF RpcNext

\* The invariant implies what is promised.
LEMMA OutcomesAreOnce == CallsInv => OutcomeOnce
<1> SUFFICES ASSUME CallsInv, NEW c \in Callers
             PROVE  /\ calls[c].step # "idle" =>
                         Len(outcome[c]) = (IF calls[c].kind = "simulate" THEN 1 ELSE 0)
                    /\ Len(outcome[c]) <= 2 /\ (Len(outcome[c]) = 2 => outcome[c][1] = "success")
  BY DEF OutcomeOnce
<1>1. OutcomeOk(calls[c], outcome[c])
  BY DEF CallsInv
<1>2. Len(<<>>) = 0 /\ Len(<<"success">>) = 1
  OBVIOUS
<1>3. CASE calls[c] = Quiet /\ calls[c] \notin Running
  BY <1>1, <1>3 DEF OutcomeOk, Quiet
<1>4. CASE calls[c] \in Running /\ calls[c] # Quiet /\ calls[c].kind = "simulate"
  <2>1. outcome[c] = <<"success">>
    BY <1>1, <1>4 DEF OutcomeOk
  <2> QED BY <1>2, <1>4, <2>1
<1>5. CASE calls[c] \in Running /\ calls[c] # Quiet /\ calls[c].kind # "simulate"
  <2>1. outcome[c] = <<>>
    BY <1>1, <1>5 DEF OutcomeOk
  <2> QED BY <1>2, <1>5, <2>1
<1>6. calls[c] \in Running => calls[c] # Quiet
  BY DEF Running, Quiet, Steps
<1>7. calls[c] \in Running \/ calls[c] = Quiet
  BY DEF CallsInv
<1> QED BY <1>3, <1>4, <1>5, <1>6, <1>7

-----------------------------------------------------------------------------
(* Provider health *)

Urls == Range(Providers)

\* The inductive invariant of the quarantines.
HealthInv ==
  /\ health \in [Urls -> [consecutiveFailures : Nat, unhealthyFor : Nat]]
  /\ lastAnswer \in [Urls -> [streak : Nat, age : Nat]]
  /\ \A u \in Urls : /\ lastAnswer[u].streak = health[u].consecutiveFailures
                     /\ lastAnswer[u].streak >= FailureThreshold =>
                          health[u].unhealthyFor + lastAnswer[u].age >= CooldownTime
  /\ \A r \in wire : r.url \in Urls

\* The providers are a list.
LEMMA ProvidersListed == Providers \in Seq(STRING)
BY RpcAssumption, DroppingKeeps DEF Providers, parseRpcProviderUrls

\* The provider a request goes to is not in quarantine.
LEMMA NextIsEligible ==
  ASSUME next # "none"
  PROVE  next \in Urls /\ health[next].unhealthyFor = 0
<1>1. Eligible # {} /\ next = Providers[Min(Eligible)]
  BY DEF next
<1>2. Eligible \in SUBSET Nat
  BY ProvidersListed DEF Eligible
<1>3. Min(Eligible) \in Eligible
  BY <1>1, <1>2, LeastNat DEF Min
<1> QED BY <1>1, <1>3 DEF Eligible, Urls, Range

\* No quarantine at first.
LEMMA HealthStarts == RpcInit => HealthInv
BY RpcAssumption DEF RpcInit, HealthInv, Urls

\* A step that leaves the health of the providers alone.
LEMMA HealthUntouched ==
  ASSUME HealthInv, UNCHANGED <<health, lastAnswer>>, \A r \in wire' : r.url \in Urls
  PROVE  HealthInv'
BY DEF HealthInv, Urls

\* Every step of the calls keeps what the health of a provider says of its answers.
LEMMA HealthKept == ASSUME HealthInv, [RpcNext]_rpcVars PROVE HealthInv'
<1>0. FailureThreshold \in Nat \ {0} /\ CooldownTime \in Nat
  BY RpcAssumption
<1>1. CASE UNCHANGED rpcVars
  BY <1>1, HealthUntouched DEF rpcVars, HealthInv
<1>2. ASSUME NEW c \in Callers, NEW kind \in {"read", "probe"}, NEW n \in Requested,
             Begin(c, kind, n)
      PROVE  HealthInv'
  BY <1>2, HealthUntouched DEF Begin, HealthInv
<1>3. ASSUME NEW c \in Callers, Send(c) PROVE HealthInv'
  <2>1. CASE next = "none"
    BY <1>3, <2>1, HealthUntouched DEF Send, HealthInv
  <2>2. CASE next # "none"
    <3>1. \A r \in wire' : r.url \in Urls
      BY <1>3, <2>2, NextIsEligible DEF Send, Sent, HealthInv
    <3> QED BY <1>3, <3>1, HealthUntouched DEF Send
  <2> QED BY <2>1, <2>2
<1>4. ASSUME NEW c \in Callers, AttemptTimesOut(c) \/ Wake(c) PROVE HealthInv'
  BY <1>4, HealthUntouched DEF AttemptTimesOut, Wake, HealthInv
<1>5. ASSUME NEW r \in wire, NEW v \in Verdicts, Answer(r, v) PROVE HealthInv'
  <2> DEFINE u == r.url
  <2>1. u \in Urls /\ \A q \in wire' : q.url \in Urls
    BY <1>5 DEF Answer, HealthInv
  <2> HIDE DEF u
  <2>2. health' = HealthAfter(u, v)
    BY <1>5 DEF Answer, u
  <2>3. CASE v \in {"success", "terminal"}
    <3>1. lastAnswer' = [lastAnswer EXCEPT ![u] = [streak |-> 0, age |-> 0]]
      BY <1>5, <2>3 DEF Answer, u
    <3>2. health' = [health EXCEPT ![u] = [consecutiveFailures |-> 0, unhealthyFor |-> 0]]
      BY <2>2, <2>3 DEF HealthAfter, recordSuccess
    <3> QED BY <1>0, <2>1, <3>1, <3>2 DEF HealthInv
  <2>4. CASE v = "transport"
    <3> DEFINE n == health[u].consecutiveFailures + 1
               away == IF n >= FailureThreshold THEN CooldownTime ELSE health[u].unhealthyFor
    <3>1. lastAnswer' = [lastAnswer EXCEPT ![u] = [streak |-> lastAnswer[u].streak + 1, age |-> 0]]
      BY <1>5, <2>1, <2>4 DEF Answer, HealthInv, u
    <3>2. health' = [health EXCEPT ![u] = [consecutiveFailures |-> n, unhealthyFor |-> away]]
      BY <2>1, <2>2, <2>4 DEF HealthAfter, recordFailure, HealthInv
    <3>3. n \in Nat /\ away \in Nat /\ lastAnswer[u].streak + 1 = n /\ (n >= FailureThreshold => away = CooldownTime)
      BY <1>0, <2>1 DEF HealthInv
    <3> HIDE DEF n, away
    <3>4. ASSUME NEW w \in Urls
          PROVE  /\ lastAnswer'[w].streak = health'[w].consecutiveFailures
                 /\ lastAnswer'[w].streak >= FailureThreshold =>
                      health'[w].unhealthyFor + lastAnswer'[w].age >= CooldownTime
      <4>1. CASE w = u
        <5>1. /\ lastAnswer'[w].streak = n /\ lastAnswer'[w].age = 0
              /\ health'[w].consecutiveFailures = n /\ health'[w].unhealthyFor = away
          BY <2>1, <3>1, <3>2, <3>3, <4>1 DEF HealthInv
        <5> QED BY <1>0, <3>3, <5>1
      <4>2. CASE w # u
        BY <3>1, <3>2, <4>2 DEF HealthInv
      <4> QED BY <4>1, <4>2
    <3>5. /\ health' \in [Urls -> [consecutiveFailures : Nat, unhealthyFor : Nat]]
          /\ lastAnswer' \in [Urls -> [streak : Nat, age : Nat]]
      BY <2>1, <3>1, <3>2, <3>3 DEF HealthInv
    <3> QED BY <2>1, <3>4, <3>5 DEF HealthInv, Urls
  <2>5. CASE v \notin {"success", "terminal", "transport"}
    <3>1. lastAnswer' = lastAnswer
      BY <1>5, <2>1, <2>5 DEF Answer, HealthInv, u
    <3>2. health' = health
      BY <2>2, <2>5 DEF HealthAfter
    <3> QED BY <2>1, <3>1, <3>2, HealthUntouched
  <2> QED BY <2>3, <2>4, <2>5
<1>6. CASE Passes
  <2>0. /\ wire' = wire
        /\ health' = [w \in Urls |-> [health[w] EXCEPT !.unhealthyFor = Max({health[w].unhealthyFor - 1, 0})]]
        /\ lastAnswer' = [w \in Urls |-> [lastAnswer[w] EXCEPT !.age = Min({lastAnswer[w].age + 1, CooldownTime})]]
    BY <1>6 DEF Passes, HealthInv
  <2>1. ASSUME NEW w \in Urls
        PROVE  LET rest == Max({health[w].unhealthyFor - 1, 0})
                   age == Min({lastAnswer[w].age + 1, CooldownTime})
               IN  /\ rest \in Nat /\ age \in Nat
                   /\ health[w].unhealthyFor + lastAnswer[w].age >= CooldownTime => rest + age >= CooldownTime
    <3>1. health[w].unhealthyFor \in Nat /\ lastAnswer[w].age \in Nat
      BY DEF HealthInv
    <3>2. Max({health[w].unhealthyFor - 1, 0}) = IF health[w].unhealthyFor - 1 >= 0 THEN health[w].unhealthyFor - 1 ELSE 0
      BY <3>1, MaxOfTwo
    <3>3. Min({lastAnswer[w].age + 1, CooldownTime}) = IF lastAnswer[w].age + 1 <= CooldownTime THEN lastAnswer[w].age + 1 ELSE CooldownTime
      BY <1>0, <3>1, MinOfTwo
    <3> QED BY <1>0, <3>1, <3>2, <3>3
  <2>2. ASSUME NEW w \in Urls
        PROVE  /\ health'[w] \in [consecutiveFailures : Nat, unhealthyFor : Nat]
               /\ lastAnswer'[w] \in [streak : Nat, age : Nat]
               /\ lastAnswer'[w].streak = health'[w].consecutiveFailures
               /\ lastAnswer'[w].streak >= FailureThreshold =>
                    health'[w].unhealthyFor + lastAnswer'[w].age >= CooldownTime
    <3> DEFINE rest == Max({health[w].unhealthyFor - 1, 0})
               age == Min({lastAnswer[w].age + 1, CooldownTime})
    <3>1. /\ rest \in Nat /\ age \in Nat
          /\ health[w].unhealthyFor + lastAnswer[w].age >= CooldownTime => rest + age >= CooldownTime
      BY <2>1
    <3>2. health'[w] = [health[w] EXCEPT !.unhealthyFor = rest] /\ lastAnswer'[w] = [lastAnswer[w] EXCEPT !.age = age]
      BY <2>0
    <3> HIDE DEF rest, age
    <3>3. /\ health[w] \in [consecutiveFailures : Nat, unhealthyFor : Nat]
          /\ lastAnswer[w] \in [streak : Nat, age : Nat]
          /\ lastAnswer[w].streak = health[w].consecutiveFailures
          /\ lastAnswer[w].streak >= FailureThreshold =>
               health[w].unhealthyFor + lastAnswer[w].age >= CooldownTime
      BY DEF HealthInv
    <3> QED BY <3>1, <3>2, <3>3
  <2>3. /\ health' \in [Urls -> [consecutiveFailures : Nat, unhealthyFor : Nat]]
        /\ lastAnswer' \in [Urls -> [streak : Nat, age : Nat]]
    BY <2>0, <2>2
  <2>4. \A r \in wire' : r.url \in Urls
    BY <2>0 DEF HealthInv
  <2> QED BY <2>2, <2>3, <2>4 DEF HealthInv, Urls
<1> QED BY <1>1, <1>2, <1>3, <1>4, <1>5, <1>6 DEF RpcNext

\* A request goes to a provider whose quarantine is over.
LEMMA RequestsRespect == ASSUME HealthInv, [RpcNext]_rpcVars PROVE QuarantineRespected
<1>0. FailureThreshold \in Nat \ {0} /\ CooldownTime \in Nat
  BY RpcAssumption
<1> SUFFICES ASSUME NEW r \in wire' \ wire, lastAnswer[r.url].streak >= FailureThreshold
             PROVE  lastAnswer[r.url].age >= CooldownTime
  BY DEF QuarantineRespected
<1>1. PICK c \in Callers : Send(c) /\ wire' # wire
  BY DEF RpcNext, rpcVars, Begin, AttemptTimesOut, Wake, Answer, Passes
<1>2. next # "none" /\ r.url = next
  BY <1>1 DEF Send, Sent
<1>3. next \in Urls /\ health[next].unhealthyFor = 0
  BY <1>2, NextIsEligible
<1>4. health[next].unhealthyFor + lastAnswer[next].age >= CooldownTime /\ lastAnswer[next].age \in Nat
  BY <1>2, <1>3 DEF HealthInv
<1> QED BY <1>0, <1>2, <1>3, <1>4
-----------------------------------------------------------------------------
(* Status streams *)

\* What a response is, and what the hook of the page is.
Responses == [route : {"none", "events", "transactions"}, hash : Hashes \cup {NoHash},
              state : {"closed", "open", "ended"}]
Hooks == [hash : Hashes \cup {NoHash}, status : {"null", "pending", "timeout", "completed", "error"},
          record : Hashes \cup {NoHash}, source : Streams \cup {"none", "connecting"},
          frames : SUBSET {"transaction:confirmed"}, poll : {"idle", "fetch", "json", "timer"},
          attempt : Nat]

\* The inductive invariant of the streams: types and the bound itself.
StreamInv ==
  /\ DOMAIN subscribed = Hashes
  /\ stream \in [Streams -> Responses]
  /\ hook \in Hooks /\ stray \in SUBSET (Hashes \cup {NoHash})
  /\ Stream!SubscriptionsBounded

\* The number of elements is the same in both modules.
LEMMA SameCardinality == \A S : Stream!Cardinality(S) = Cardinality(S)
BY DEF Stream!Cardinality, Cardinality

\* No stream is open at first.
LEMMA StreamStarts == Stream!Init => StreamInv
<1> SUFFICES ASSUME Stream!Init PROVE StreamInv
  OBVIOUS
<1>1. /\ stream = [s \in Streams |-> Stream!Closed] /\ subscribed = [h \in Hashes |-> {}]
      /\ Cardinality({}) = 0 /\ MaxPerHash \in Nat
  BY StreamAssumption, FS_EmptySet DEF Stream!Init
<1>2. stream \in [Streams -> Responses]
  BY <1>1 DEF Stream!Closed, Responses
<1>3. hook \in Hooks /\ stray = {}
  BY DEF Stream!Init, Stream!Idle, Stream!NoSource, Hooks
<1>4. Stream!Active = {}
  BY <1>1 DEF Stream!Active, Stream!Closed
<1>5. ASSUME NEW h \in Hashes
      PROVE  /\ Cardinality(subscribed[h]) <= MaxPerHash
             /\ subscribed[h] = {s \in Stream!Active : stream[s].route = "events" /\ stream[s].hash = h}
  <2>1. subscribed[h] = {}
    BY <1>1
  <2>2. {s \in Stream!Active : stream[s].route = "events" /\ stream[s].hash = h} = {}
    BY <1>4
  <2>3. Cardinality(subscribed[h]) <= MaxPerHash
    BY <1>1, <2>1
  <2> QED BY <2>1, <2>2, <2>3
<1>6. Stream!SubscriptionsBounded
  BY <1>5, SameCardinality DEF Stream!SubscriptionsBounded
<1> QED BY <1>1, <1>2, <1>3, <1>6 DEF StreamInv

\* A step that leaves the streams of GET /events alone.
LEMMA StreamsAside ==
  ASSUME StreamInv, subscribed' = subscribed, stream' \in [Streams -> Responses],
         hook' \in Hooks, stray' \in SUBSET (Hashes \cup {NoHash}),
         \A s \in Streams :
           \/ stream'[s].state # "closed" /\ stream[s].state # "closed"
              /\ stream'[s].route = stream[s].route /\ stream'[s].hash = stream[s].hash
           \/ stream[s].state = "closed" /\ (stream'[s].state = "closed" \/ stream'[s].route # "events")
  PROVE  StreamInv'
<1>1. ASSUME NEW h \in Hashes
      PROVE  subscribed[h] = {s \in Stream!Active' : stream'[s].route = "events" /\ stream'[s].hash = h}
  BY DEF StreamInv, Stream!SubscriptionsBounded, Stream!Active
<1> QED BY <1>1 DEF StreamInv, Stream!SubscriptionsBounded

\* A step of the hook or of the database.
LEMMA StreamsUnmoved ==
  ASSUME StreamInv, UNCHANGED <<stream, subscribed>>,
         hook' \in Hooks, stray' \in SUBSET (Hashes \cup {NoHash})
  PROVE  StreamInv'
BY StreamsAside DEF StreamInv

\* Ending responses that are open changes neither their route nor their hash.
LEMMA StreamsEnded ==
  ASSUME StreamInv, subscribed' = subscribed, NEW gone \in SUBSET Streams,
         stream' = [s \in Streams |-> IF s \in gone /\ stream[s].state = "open"
                                      THEN [stream[s] EXCEPT !.state = "ended"] ELSE stream[s]],
         hook' \in Hooks, stray' \in SUBSET (Hashes \cup {NoHash})
  PROVE  StreamInv'
<1>1. stream' \in [Streams -> Responses]
  BY DEF StreamInv, Responses
<1>2. \A s \in Streams : /\ stream'[s].route = stream[s].route /\ stream'[s].hash = stream[s].hash
                         /\ stream'[s].state = "closed" <=> stream[s].state = "closed"
  BY DEF StreamInv, Responses
<1> QED BY <1>1, <1>2, StreamsAside

\* The effect's cleanup ends the hook's own response.
LEMMA CleanupKeeps ==
  ASSUME StreamInv, subscribed' = subscribed, Stream!CleanedUp, hook' \in Hooks
  PROVE  StreamInv'
<1>1. stray' \in SUBSET (Hashes \cup {NoHash})
  BY DEF Stream!CleanedUp, StreamInv, Hooks
<1>2. stream' = [s \in Streams |-> IF s \in {t \in Streams : t = hook.source} /\ stream[s].state = "open"
                                   THEN [stream[s] EXCEPT !.state = "ended"] ELSE stream[s]]
  BY DEF Stream!CleanedUp
<1> QED BY <1>1, <1>2, StreamsEnded

\* The end of a poll leaves a hook.
LEMMA RetryIsHook == ASSUME NEW k \in Hooks PROVE Stream!Retry(k) \in Hooks
<1>1. k.attempt + 1 \in Nat
  BY DEF Hooks
<1>2. [k EXCEPT !.poll = "idle", !.status = "timeout"] \in Hooks
  BY DEF Hooks
<1>3. [k EXCEPT !.poll = "timer", !.attempt = @ + 1] \in Hooks
  BY <1>1 DEF Hooks
<1> QED BY <1>2, <1>3 DEF Stream!Retry

\* So does the reading of a body.
LEMMA VerdictIsHook == ASSUME NEW k \in Hooks, NEW h \in Hashes \cup {NoHash} PROVE Stream!Verdict(k, h) \in Hooks
BY DEF Stream!Verdict, Hooks

\* A listener is admitted below the limit only, and leaves with its response.
LEMMA StreamKept == ASSUME StreamInv, [Stream!Next]_streamVars PROVE StreamInv'
<1>0. /\ MaxPerHash \in Nat /\ IsFiniteSet(Streams)
      /\ hook \in Hooks /\ stray \in SUBSET (Hashes \cup {NoHash}) /\ stream \in [Streams -> Responses]
      /\ DOMAIN subscribed = Hashes
  BY StreamAssumption DEF StreamInv
<1>a. \A h \in Hashes : /\ subscribed[h] \in SUBSET Streams /\ IsFiniteSet(subscribed[h])
                        /\ Cardinality(subscribed[h]) \in Nat /\ Cardinality(subscribed[h]) <= MaxPerHash
  <2>1. ASSUME NEW h \in Hashes
        PROVE  subscribed[h] \in SUBSET Streams /\ Cardinality(subscribed[h]) <= MaxPerHash
    <3>1. /\ Cardinality(subscribed[h]) <= MaxPerHash
          /\ subscribed[h] = {s \in Stream!Active : stream[s].route = "events" /\ stream[s].hash = h}
      BY SameCardinality DEF StreamInv, Stream!SubscriptionsBounded
    <3> QED BY <3>1 DEF Stream!Active
  <2> QED BY <1>0, <2>1, FS_Subset, FS_CardinalityType
<1>b. \A h \in Hashes : \A t : t \in subscribed[h] <=>
         t \in Streams /\ stream[t].state # "closed" /\ stream[t].route = "events" /\ stream[t].hash = h
  BY DEF StreamInv, Stream!SubscriptionsBounded, Stream!Active
<1>1. CASE UNCHANGED streamVars
  BY <1>0, <1>1, StreamsUnmoved DEF streamVars
<1>2. ASSUME NEW s \in Streams, NEW h \in Hashes, Stream!handleEventStream(s, h) PROVE StreamInv'
  <2>1. /\ stream[s].state = "closed" /\ Cardinality(subscribed[h]) < MaxPerHash
        /\ stream' = [stream EXCEPT ![s] = [route |-> "events", hash |-> h, state |-> "open"]]
        /\ subscribed' = [subscribed EXCEPT ![h] = subscribed[h] \cup {s}] /\ hook' = hook /\ stray' = stray
    BY <1>2, SameCardinality DEF Stream!handleEventStream, Stream!Accepted
  <2>2. stream' \in [Streams -> Responses] /\ DOMAIN subscribed' = Hashes
    BY <1>0, <2>1 DEF Responses
  <2>3. s \notin subscribed[h]
    BY <1>b, <2>1
  <2>4. Cardinality(subscribed'[h]) <= MaxPerHash
    <3>1. Cardinality(subscribed[h] \cup {s}) = Cardinality(subscribed[h]) + 1
      BY <1>a, <2>3, FS_AddElement
    <3>2. subscribed'[h] = subscribed[h] \cup {s}
      BY <1>0, <2>1
    <3> QED BY <1>0, <1>a, <2>1, <3>1, <3>2
  <2>5. ASSUME NEW g \in Hashes
        PROVE  /\ Cardinality(subscribed'[g]) <= MaxPerHash
               /\ \A t : t \in subscribed'[g] <=>
                    t \in Streams /\ stream'[t].state # "closed" /\ stream'[t].route = "events" /\ stream'[t].hash = g
    <3>1. CASE g = h
      <4>1. subscribed'[g] = subscribed[g] \cup {s}
        BY <1>0, <2>1, <3>1
      <4> QED BY <1>0, <1>b, <2>1, <2>4, <3>1, <4>1
    <3>2. CASE g # h
      <4>1. subscribed'[g] = subscribed[g]
        BY <1>0, <2>1, <3>2
      <4> QED BY <1>0, <1>a, <1>b, <2>1, <3>2, <4>1
    <3> QED BY <3>1, <3>2
  <2>6. Stream!SubscriptionsBounded'
    <3>1. ASSUME NEW g \in Hashes
          PROVE  subscribed'[g] = {t \in Stream!Active' : stream'[t].route = "events" /\ stream'[t].hash = g}
      BY <2>5 DEF Stream!Active
    <3> QED BY <2>5, <3>1, SameCardinality DEF Stream!SubscriptionsBounded
  <2> QED BY <1>0, <2>1, <2>2, <2>6 DEF StreamInv
<1>3. ASSUME NEW s \in Streams, NEW h \in Hashes \cup {NoHash}, Stream!AdmitsTransaction(s, h),
             subscribed' = subscribed, hook' \in Hooks, stray' = stray
      PROVE  StreamInv'
  <2>1. /\ stream[s].state = "closed"
        /\ stream' = [stream EXCEPT ![s] = [route |-> "transactions", hash |-> h, state |-> "open"]]
    BY <1>3 DEF Stream!AdmitsTransaction, Stream!Accepted
  <2>2. stream' \in [Streams -> Responses]
    BY <1>0, <2>1 DEF Responses
  <2>3. ASSUME NEW t \in Streams
        PROVE  \/ stream'[t].state # "closed" /\ stream[t].state # "closed"
                  /\ stream'[t].route = stream[t].route /\ stream'[t].hash = stream[t].hash
               \/ stream[t].state = "closed" /\ (stream'[t].state = "closed" \/ stream'[t].route # "events")
    BY <1>0, <2>1
  <2> QED BY <1>0, <1>3, <2>2, <2>3, StreamsAside
<1>4. ASSUME NEW s \in Streams, NEW h \in Hashes, Stream!handleTransactionStream(s, h) PROVE StreamInv'
  BY <1>0, <1>3, <1>4 DEF Stream!handleTransactionStream
<1>5. ASSUME NEW s \in Streams, Stream!ClientLeaves(s) PROVE StreamInv'
  <2>1. stream' = [t \in Streams |-> IF t \in {s} /\ stream[t].state = "open"
                                     THEN [stream[t] EXCEPT !.state = "ended"] ELSE stream[t]]
    BY <1>0, <1>5 DEF Stream!ClientLeaves
  <2>2. {s} \in SUBSET Streams /\ subscribed' = subscribed /\ hook' = hook /\ stray' = stray
    BY <1>5 DEF Stream!ClientLeaves
  <2> QED BY <1>0, <2>1, <2>2, StreamsEnded
<1>6. ASSUME NEW s \in Streams, Stream!CloseHandler(s) PROVE StreamInv'
  <2>1. /\ stream' = [stream EXCEPT ![s] = Stream!Closed]
        /\ subscribed' = [h \in Hashes |-> subscribed[h] \ {s}] /\ hook' = hook /\ stray' = stray
    BY <1>6 DEF Stream!CloseHandler, Stream!Unsubscribed
  <2>2. stream' \in [Streams -> Responses] /\ DOMAIN subscribed' = Hashes
    BY <1>0, <2>1 DEF Responses, Stream!Closed
  <2>3. ASSUME NEW g \in Hashes
        PROVE  /\ Cardinality(subscribed'[g]) <= MaxPerHash
               /\ \A t : t \in subscribed'[g] <=>
                    t \in Streams /\ stream'[t].state # "closed" /\ stream'[t].route = "events" /\ stream'[t].hash = g
    <3>1. subscribed'[g] = subscribed[g] \ {s}
      BY <2>1
    <3>2. Cardinality(subscribed'[g]) <= Cardinality(subscribed[g]) /\ Cardinality(subscribed'[g]) \in Nat
      BY <1>a, <3>1, FS_Subset, FS_CardinalityType
    <3>3. Cardinality(subscribed'[g]) <= MaxPerHash
      BY <1>0, <1>a, <3>2
    <3> QED BY <1>0, <1>b, <2>1, <3>1, <3>3 DEF Stream!Closed
  <2>4. Stream!SubscriptionsBounded'
    <3>1. ASSUME NEW g \in Hashes
          PROVE  subscribed'[g] = {t \in Stream!Active' : stream'[t].route = "events" /\ stream'[t].hash = g}
      BY <2>3 DEF Stream!Active
    <3> QED BY <2>3, <3>1, SameCardinality DEF Stream!SubscriptionsBounded
  <2> QED BY <1>0, <2>1, <2>2, <2>4 DEF StreamInv
<1>7. ASSUME NEW s \in Streams, Stream!Connected(s) PROVE StreamInv'
  <2>1. hook.hash \in Hashes \cup {NoHash} /\ hook' \in Hooks
    BY <1>0, <1>7 DEF Stream!Connected, Hooks
  <2> QED BY <1>3, <1>7, <2>1 DEF Stream!Connected
<1>8. ASSUME NEW h \in Hashes, Stream!Publish(h) PROVE StreamInv'
  <2>1. hook' \in Hooks
    BY <1>0, <1>8 DEF Stream!Publish, Hooks
  <2> QED BY <1>0, <1>8, <2>1, StreamsUnmoved DEF Stream!Publish
<1>9. ASSUME NEW h \in Hashes, Stream!Watch(h) \/ Stream!WatchWithoutStream(h) PROVE StreamInv'
  <2>1. hook' \in Hooks
    <3>1. hook.record \in Hashes \cup {NoHash}
      BY <1>0 DEF Hooks
    <3>2. \A rec \in Hashes \cup {NoHash}, src \in {"none", "connecting"}, p \in {"idle", "fetch"} :
            [hash |-> h, status |-> "pending", record |-> rec, source |-> src, frames |-> {}, poll |-> p, attempt |-> 0] \in Hooks
      BY DEF Hooks
    <3>3. \/ hook' = [hash |-> h, status |-> "pending", record |-> NoHash, source |-> "connecting",
                      frames |-> {}, poll |-> "idle", attempt |-> 0]
          \/ hook' = [hash |-> h, status |-> "pending", record |-> hook.record, source |-> "none",
                      frames |-> {}, poll |-> "fetch", attempt |-> 0]
      BY <1>9 DEF Stream!Watch, Stream!WatchWithoutStream, Stream!Idle, Stream!NoSource
    <3> QED BY <3>1, <3>2, <3>3
  <2> QED BY <1>9, <2>1, CleanupKeeps DEF Stream!Watch, Stream!WatchWithoutStream
<1>10. ASSUME NEW h \in Hashes, Stream!StrayRead(h) PROVE StreamInv'
  BY <1>0, <1>10, VerdictIsHook, StreamsUnmoved DEF Stream!StrayRead
<1>11. CASE Stream!Shutdown
  <2>1. stream' = [t \in Streams |-> IF t \in Streams /\ stream[t].state = "open"
                                     THEN [stream[t] EXCEPT !.state = "ended"] ELSE stream[t]]
    BY <1>11 DEF Stream!Shutdown
  <2> QED BY <1>0, <1>11, <2>1, StreamsEnded DEF Stream!Shutdown
<1>12. CASE Stream!Exit
  <2>1. /\ stream' = [s \in Streams |-> Stream!Closed] /\ subscribed' = [h \in Hashes |-> {}]
        /\ Cardinality({}) = 0 /\ hook' = hook /\ stray' = stray
    BY <1>12, FS_EmptySet DEF Stream!Exit
  <2>2. stream' \in [Streams -> Responses]
    BY <2>1 DEF Stream!Closed, Responses
  <2>3. Stream!Active' = {}
    BY <2>1 DEF Stream!Active, Stream!Closed
  <2>4. ASSUME NEW h \in Hashes
        PROVE  /\ Cardinality(subscribed'[h]) <= MaxPerHash
               /\ subscribed'[h] = {s \in Stream!Active' : stream'[s].route = "events" /\ stream'[s].hash = h}
    <3>1. subscribed'[h] = {}
      BY <2>1
    <3>2. {s \in Stream!Active' : stream'[s].route = "events" /\ stream'[s].hash = h} = {}
      BY <2>3
    <3>3. Cardinality(subscribed'[h]) <= MaxPerHash
      BY <1>0, <2>1, <3>1
    <3> QED BY <3>1, <3>2, <3>3
  <2>5. Stream!SubscriptionsBounded'
    BY <2>4, SameCardinality DEF Stream!SubscriptionsBounded
  <2> QED BY <1>0, <2>1, <2>2, <2>5 DEF StreamInv
<1>13. CASE Stream!Unwatch
  <2>1. hook' \in Hooks
    BY <1>13 DEF Stream!Unwatch, Stream!Idle, Stream!NoSource, Hooks
  <2> QED BY <1>13, <2>1, CleanupKeeps DEF Stream!Unwatch
<1>14. CASE Stream!onerror
  <2>1. hook' \in Hooks
    BY <1>0, <1>14 DEF Stream!onerror, Stream!NoSource, Hooks
  <2>2. stream' = [s \in Streams |-> IF s \in {t \in Streams : t = hook.source} /\ stream[s].state = "open"
                                     THEN [stream[s] EXCEPT !.state = "ended"] ELSE stream[s]]
    BY <1>14 DEF Stream!onerror
  <2>3. {t \in Streams : t = hook.source} \in SUBSET Streams /\ subscribed' = subscribed /\ stray' = stray
    BY <1>14 DEF Stream!onerror
  <2> QED BY <1>0, <2>1, <2>2, <2>3, StreamsEnded
<1>15. CASE Stream!DatabaseClosed \/ Stream!onmessage \/ Stream!PollTimer
  <2>1. hook' \in Hooks
    BY <1>0, <1>15 DEF Stream!DatabaseClosed, Stream!onmessage, Stream!PollTimer, Hooks
  <2> QED BY <1>0, <1>15, <2>1, StreamsUnmoved DEF Stream!DatabaseClosed, Stream!onmessage, Stream!PollTimer
<1>16. CASE Stream!PollAnswers \/ Stream!PollFails
  <2>1. hook' \in Hooks
    <3>1. [hook EXCEPT !.poll = "json"] \in Hooks
      BY <1>0 DEF Hooks
    <3> QED BY <1>0, <1>16, <3>1, RetryIsHook DEF Stream!PollAnswers, Stream!PollFails
  <2> QED BY <1>0, <1>16, <2>1, StreamsUnmoved DEF Stream!PollAnswers, Stream!PollFails
<1>17. CASE Stream!PollRead
  <2>1. [hook EXCEPT !.poll = "idle"] \in Hooks /\ hook.hash \in Hashes \cup {NoHash}
    BY <1>0 DEF Hooks
  <2> QED BY <1>0, <1>17, <2>1, VerdictIsHook, StreamsUnmoved DEF Stream!PollRead
<1> QED
  BY <1>1, <1>2, <1>4, <1>5, <1>6, <1>7, <1>8, <1>9, <1>10, <1>11, <1>12, <1>13, <1>14, <1>15, <1>16, <1>17
  DEF Stream!Next, Stream!Polling, Stream!vars, streamVars

-----------------------------------------------------------------------------
(* All parts *)

\* The invariants of the parts together.
AllInv == CallsInv /\ HealthInv /\ (part = "stream" => StreamInv)

\* Every step of the composition is a step, or a stutter, of each part.
LEMMA StepOfParts ==
  ASSUME [MCNext]_mcVars
  PROVE  [RpcNext]_rpcVars /\ (part' = part) /\ (part = "stream" => [Stream!Next]_streamVars)
BY DEF MCNext, mcVars, StreamStep, WalletStep, AuthStep

\* The invariants of the parts hold throughout.
LEMMA AllInvariant == MCSpec => []AllInv
<1>1. MCInit => AllInv
  BY CallsStart, HealthStarts, StreamStarts DEF MCInit, StreamInit, AllInv
<1>2. AllInv /\ [MCNext]_mcVars => AllInv'
  BY StepOfParts, CallsKept, HealthKept, StreamKept DEF AllInv
<1> QED BY <1>1, <1>2, PTL DEF MCSpec

\* The listeners of a transaction are the open responses of GET /events, within
\* the limit (events.ts), and a call has one outcome though attempts it has given
\* up answer late (stellar.ts): for any number of streams, callers and providers.
THEOREM CountsAlwaysTrue == MCSpec => []CountsTrue
<1>1. AllInv => CountsTrue
  BY OutcomesAreOnce DEF AllInv, CountsTrue, StreamInv
<1> QED BY <1>1, AllInvariant, PTL

\* A provider that failed as often as the threshold in a row is sent no request
\* before its cooldown is over (stellar.ts), whatever answers come late.
THEOREM QuarantineAlwaysHolds == MCSpec => QuarantineHolds
<1>1. AllInv /\ [MCNext]_mcVars => [QuarantineRespected]_rpcVars
  BY StepOfParts, RequestsRespect DEF AllInv
<1> QED BY <1>1, AllInvariant, PTL DEF MCSpec, QuarantineHolds
=============================================================================
