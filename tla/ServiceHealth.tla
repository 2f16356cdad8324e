------------------------------- MODULE ServiceHealth -------------------------------
(*****************************************************************************)
(* The life of the backend process around its database pool: start and       *)
(* shutdown (index.ts), transactions with deadlock retries                   *)
(* (services/database.ts) and the readiness endpoint (routes/health.ts).     *)
(*                                                                           *)
(* Connections are counted.  A caller of withTransaction holds one from      *)
(* connect() to release(); the readiness query holds one too, and goes on    *)
(* holding it when the endpoint stops waiting.  Latencies are "fast" or      *)
(* "slow", a dependency that hangs never answers within its timeout.         *)
(*****************************************************************************)
EXTENDS Naturals, FiniteSets

CONSTANTS
  Callers,         \* requests that run a transaction
  PoolMax,         \* DATABASE_POOL_MAX
  MaxRetries,      \* DEADLOCK_MAX_RETRIES
  MaxProbes        \* bound: readiness requests

VARIABLES
  phase,           \* "starting", "up", "stopping"
  dataSource,      \* AppDataSource: "none", "initializing", "ready"
  pool,            \* whether the pool exists: it outlives its registration
  free,            \* connections in the pool
  tx,              \* each caller's transaction
  probe,           \* the readiness request
  hung,            \* readiness queries given up and still holding a connection
  probes           \* counter of the bound

vars == <<phase, dataSource, pool, free, tx, probe, hung, probes>>

NoTx == [pc |-> "idle", attempt |-> 0, error |-> "none", applied |-> 0, outcome |-> "none"]
Deps == {"db", "rpc", "contract"}
NoProbe == [pc |-> "idle", status |-> [d \in Deps |-> "unknown"], code |-> 0]

-----------------------------------------------------------------------------
(* Start and shutdown.                                                       *)

\* initDatabase: one initialisation at a time; a failure leaves no data source.
\* Before the start is complete it ends the process.
initDatabase ==
  /\ phase = "starting" /\ dataSource = "none"
  /\ dataSource' = "initializing"
  /\ UNCHANGED <<phase, pool, free, tx, probe, hung, probes>>

\* initialize() succeeds, the listener starts and markStartupComplete follows.
Started ==
  /\ dataSource = "initializing"
  /\ dataSource' = "ready" /\ pool' = TRUE /\ free' = PoolMax /\ phase' = "up"
  /\ UNCHANGED <<tx, probe, hung, probes>>

\* SIGTERM: markShuttingDown, then closeDatabase unregisters the data source
\* before it destroys the pool.
Shutdown ==
  /\ phase = "up"
  /\ phase' = "stopping" /\ dataSource' = "none" /\ pool' = FALSE
  /\ UNCHANGED <<free, tx, probe, hung, probes>>

-----------------------------------------------------------------------------
(* withTransaction.                                                          *)

\* getDataSource throws while none is registered.
withTransaction(c) ==
  /\ tx[c].pc = "idle"
  /\ tx' = [tx EXCEPT ![c] = IF dataSource = "ready" THEN [NoTx EXCEPT !.pc = "connect"]
                             ELSE [NoTx EXCEPT !.pc = "ended", !.outcome = "failed"]]
  /\ UNCHANGED <<phase, dataSource, pool, free, probe, hung, probes>>

\* connect() takes a connection of the pool.
Connect(c) ==
  /\ tx[c].pc = "connect" /\ pool /\ free > 0
  /\ free' = free - 1
  /\ tx' = [tx EXCEPT ![c].pc = "begin"]
  /\ UNCHANGED <<phase, dataSource, pool, probe, hung, probes>>

\* connect() fails: no connection in time, or a pool that is being destroyed.
ConnectFails(c) ==
  /\ tx[c].pc = "connect"
  /\ tx' = [tx EXCEPT ![c].pc = "ended", ![c].outcome = "failed"]
  /\ UNCHANGED <<phase, dataSource, pool, free, probe, hung, probes>>

Holding == {"begin", "work", "commit", "rollback", "sleep", "release", "again"}

startTransaction(c) ==
  /\ tx[c].pc = "begin"
  /\ tx' = [tx EXCEPT ![c].pc = "work"]
  /\ UNCHANGED <<phase, dataSource, pool, free, probe, hung, probes>>

\* Faulty variant: a transaction that cannot start keeps its connection.
StartFailsHolding(c) ==
  /\ tx[c].pc = "begin"
  /\ tx' = [tx EXCEPT ![c].pc = "ended", ![c].outcome = "failed"]
  /\ UNCHANGED <<phase, dataSource, pool, free, probe, hung, probes>>

\* startTransaction fails: the runner is released and the error thrown.
StartFails(c) ==
  /\ tx[c].pc = "begin"
  /\ tx' = [tx EXCEPT ![c].pc = "release", ![c].outcome = "failed"]
  /\ UNCHANGED <<phase, dataSource, pool, free, probe, hung, probes>>

Callback(c) ==
  /\ tx[c].pc = "work"
  /\ \/ tx' = [tx EXCEPT ![c].pc = "commit"]
     \/ \E e \in {"deadlock", "other"} : tx' = [tx EXCEPT ![c].pc = "rollback", ![c].error = e]
  /\ UNCHANGED <<phase, dataSource, pool, free, probe, hung, probes>>

\* The commit succeeds, deadlocks, or loses its connection before or after it
\* took effect.
Commit(c) ==
  /\ tx[c].pc = "commit"
  /\ \/ tx' = [tx EXCEPT ![c].pc = "release", ![c].applied = @ + 1, ![c].outcome = "done"]
     \/ tx' = [tx EXCEPT ![c].pc = "rollback", ![c].error = "deadlock"]
     \/ \E n \in {0, 1} : tx' = [tx EXCEPT ![c].pc = "rollback", ![c].error = "other", ![c].applied = @ + n]
  /\ UNCHANGED <<phase, dataSource, pool, free, probe, hung, probes>>

\* Faulty variant: every error is retried.
RetriesAlways(c) == tx[c].attempt < MaxRetries - 1

\* Only a deadlock is, and so often.
Retries(c) == tx[c].error = "deadlock" /\ tx[c].attempt < MaxRetries - 1

\* rollbackPreservingError, whose own failure is only logged, then the retry
\* decision.  The pause before the retry still holds the connection.
Rollback(c) ==
  /\ tx[c].pc = "rollback"
  /\ \/ Retries(c) /\ tx' = [tx EXCEPT ![c].pc = "sleep", ![c].attempt = @ + 1]
     \/ ~Retries(c) /\ tx' = [tx EXCEPT ![c].pc = "release", ![c].outcome = "failed"]
  /\ UNCHANGED <<phase, dataSource, pool, free, probe, hung, probes>>

Sleep(c) ==
  /\ tx[c].pc = "sleep"
  /\ tx' = [tx EXCEPT ![c].pc = "again"]
  /\ UNCHANGED <<phase, dataSource, pool, free, probe, hung, probes>>

\* releaseSafely, whose failure drops the connection from the pool's books too.
Release(c) ==
  /\ tx[c].pc \in {"release", "again"}
  /\ free' = free + 1
  /\ tx' = [tx EXCEPT ![c].pc = IF @ = "again" THEN "connect" ELSE "ended"]
  /\ UNCHANGED <<phase, dataSource, pool, probe, hung, probes>>

-----------------------------------------------------------------------------
(* GET /health/ready.                                                        *)

\* The gates: shutting down, not started, invalid environment, no data source.
handleReadiness ==
  /\ probe.pc \in {"idle", "replied"} /\ probes < MaxProbes
  /\ probes' = probes + 1
  /\ probe' \in IF phase # "up" THEN {[NoProbe EXCEPT !.pc = "replied", !.code = 503]}
                ELSE {[NoProbe EXCEPT !.pc = "db"], [NoProbe EXCEPT !.pc = "replied", !.code = 503]}
  /\ UNCHANGED <<phase, dataSource, pool, free, tx, hung>>

\* SELECT 1 is given a connection.
ProbeDatabase ==
  /\ probe.pc = "db" /\ pool /\ free > 0
  /\ free' = free - 1
  /\ probe' = [probe EXCEPT !.pc = "query"]
  /\ UNCHANGED <<phase, dataSource, pool, tx, hung, probes>>

Observed(d, status, pc) ==
  [probe EXCEPT !.status[d] = status, !.pc = pc]

DatabaseAnswers ==
  /\ probe.pc = "query"
  /\ free' = free + 1
  /\ \E s \in {"up", "degraded"} : probe' = Observed("db", s, "account")
  /\ UNCHANGED <<phase, dataSource, pool, tx, hung, probes>>

DatabaseErrors ==
  /\ probe.pc \in {"db", "query"}
  /\ free' = IF probe.pc = "query" THEN free + 1 ELSE free
  /\ probe' = [probe EXCEPT !.status["db"] = "down", !.pc = "replied", !.code = 503]
  /\ UNCHANGED <<phase, dataSource, pool, tx, hung, probes>>

\* Faulty variant: the query is waited for without a limit.
DatabaseTimesOutNever == FALSE /\ UNCHANGED vars

\* withTimeout: the endpoint stops waiting, the query does not stop.
DatabaseTimesOut ==
  /\ probe.pc \in {"db", "query"}
  /\ hung' = IF probe.pc = "query" THEN hung + 1 ELSE hung
  /\ probe' = [probe EXCEPT !.status["db"] = "down", !.pc = "replied", !.code = 503]
  /\ UNCHANGED <<phase, dataSource, pool, free, tx, probes>>

HungQueryEnds ==
  /\ hung > 0
  /\ hung' = hung - 1 /\ free' = free + 1
  /\ UNCHANGED <<phase, dataSource, pool, tx, probe, probes>>

\* checkSorobanReachability: the account lookup, then the simulation.
AccountAnswers ==
  /\ probe.pc = "account"
  /\ \E s \in {"up", "degraded"} : probe' = Observed("rpc", s, "simulate")
  /\ UNCHANGED <<phase, dataSource, pool, free, tx, hung, probes>>

\* No account: both are reported down, the simulation as skipped.
AccountFails ==
  /\ probe.pc = "account"
  /\ probe' = [probe EXCEPT !.status["rpc"] = "down", !.status["contract"] = "down", !.pc = "replied", !.code = 503]
  /\ UNCHANGED <<phase, dataSource, pool, free, tx, hung, probes>>

\* Every dependency has answered; slow ones, or the listener, make it degraded.
SimulationAnswers ==
  /\ probe.pc = "simulate"
  /\ \E s \in {"up", "degraded"} : probe' = [Observed("contract", s, "replied") EXCEPT !.code = 200]
  /\ UNCHANGED <<phase, dataSource, pool, free, tx, hung, probes>>

SimulationFails ==
  /\ probe.pc = "simulate"
  /\ probe' = [probe EXCEPT !.status["contract"] = "down", !.pc = "replied", !.code = 503]
  /\ UNCHANGED <<phase, dataSource, pool, free, tx, hung, probes>>

\* One timeout spans both calls; it reports the RPC node down whichever of
\* them hangs, and the contract as not checked.
SorobanTimesOut ==
  /\ probe.pc \in {"account", "simulate"}
  /\ probe' = [probe EXCEPT !.status["rpc"] = "down", !.status["contract"] = "unknown",
                            !.pc = "replied", !.code = 503]
  /\ UNCHANGED <<phase, dataSource, pool, free, tx, hung, probes>>

-----------------------------------------------------------------------------
Init ==
  /\ phase = "starting" /\ dataSource = "none" /\ pool = FALSE
  /\ free = PoolMax
  /\ tx = [c \in Callers |-> NoTx]
  /\ probe = NoProbe
  /\ hung = 0
  /\ probes = 0

Step(c) ==
  \/ Connect(c) \/ ConnectFails(c) \/ startTransaction(c) \/ StartFails(c)
  \/ Callback(c) \/ Commit(c) \/ Rollback(c) \/ Sleep(c) \/ Release(c)

Timers == DatabaseTimesOut \/ SorobanTimesOut

Next ==
  \/ initDatabase \/ Started \/ Shutdown
  \/ \E c \in Callers : withTransaction(c) \/ Step(c)
  \/ handleReadiness \/ ProbeDatabase \/ DatabaseAnswers \/ DatabaseErrors \/ HungQueryEnds
  \/ AccountAnswers \/ AccountFails \/ SimulationAnswers \/ SimulationFails
  \/ Timers

\* Statements of a transaction end one way or the other, and timers fire; a
\* dependency may stay silent.
Fairness == WF_vars(Timers) /\ \A c \in Callers : WF_vars(Step(c))

Spec == Init /\ [][Next]_vars /\ Fairness

-----------------------------------------------------------------------------
(* Properties.                                                               *)

\* The write of a request takes effect at most once, however often deadlocks
\* make it start again, and a request told it succeeded has had it.
AppliedOnce ==
  \A c \in Callers : tx[c].applied <= 1 /\ (tx[c].outcome = "done" => tx[c].applied = 1)

\* No connection is lost or given back twice: failed starts, rollbacks, retries
\* and abandoned readiness queries all return what they took.
PoolAccounted ==
  free + hung + (IF probe.pc = "query" THEN 1 ELSE 0)
    + Cardinality({c \in Callers : tx[c].pc \in Holding}) = PoolMax

\* A readiness request is always answered, however long a dependency hangs.
ReadinessAnswers == probe.pc # "idle" ~> probe.pc = "replied"

=============================================================================
