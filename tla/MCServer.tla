------------------------------ MODULE MCServer -------------------------------
(***************************************************************************)
(* What the backend must not leave undone, one part per behaviour: the     *)
(* event listener, idempotency keys, and database and readiness.           *)
(***************************************************************************)
EXTENDS EventListener

CONSTANTS
  Requests, Hash, MaxEarlyEnds,            \* of the idempotency keys
  Callers, PoolMax, MaxRetries, MaxProbes  \* of the database and readiness

\* The instance: a different request with the same key.
HashOf == [r \in Requests |-> IF r = "r4" THEN "b" ELSE "a"]

VARIABLE part   \* the part a behaviour belongs to

Unused == "unused"   \* the variables of the other parts

-----------------------------------------------------------------------------
(* Idempotency keys.                                                       *)

VARIABLES entry, state, replay, earlyEnds, succeeded

idemVars == <<entry, state, replay, earlyEnds, succeeded>>

Idem == INSTANCE Idempotency

ASSUME RequestsAssumption ==
  /\ IsFiniteSet(Requests) /\ DOMAIN Hash = Requests
  /\ "none" \notin Requests   \* NoBody
  /\ MaxEarlyEnds \in Nat

IdemInit ==
  \/ part = "idempotency" /\ Idem!Init
  \/ /\ part # "idempotency"
     /\ entry = Unused /\ state = Unused /\ replay = Unused
     /\ earlyEnds = Unused /\ succeeded = Unused

IdemStep == part = "idempotency" /\ Idem!Next

-----------------------------------------------------------------------------
(* Database and readiness.                                                 *)

VARIABLES phase, dataSource, pool, free, tx, probe, hung, probes

healthVars == <<phase, dataSource, pool, free, tx, probe, hung, probes>>

Health == INSTANCE ServiceHealth

ASSUME HealthAssumption ==
  /\ IsFiniteSet(Callers)
  /\ PoolMax \in Nat \ {0} /\ MaxRetries \in Nat /\ MaxProbes \in Nat

HealthInit ==
  \/ part = "health" /\ Health!Init
  \/ /\ part # "health"
     /\ phase = Unused /\ dataSource = Unused /\ pool = Unused
     /\ free = Unused /\ tx = Unused /\ probe = Unused /\ hung = Unused
     /\ probes = Unused

HealthStep == part = "health" /\ Health!Next

-----------------------------------------------------------------------------
MCInit ==
  /\ part \in {"listener", "idempotency", "health"}
  /\ Init
  /\ IdemInit /\ HealthInit

\* One part moves.
MCNext ==
  \/ part = "listener" /\ Next /\ UNCHANGED <<part, idemVars, healthVars>>
  \/ IdemStep /\ UNCHANGED <<part, vars, healthVars>>
  \/ HealthStep /\ UNCHANGED <<part, vars, idemVars>>

mcVars == <<part, vars, idemVars, healthVars>>

\* The fairness of each part, for the behaviours that are its own.
ListenerFair ==
  /\ WF_vars(part = "listener" /\ Boot)
  /\ WF_vars(part = "listener" /\ PollFetch)
  /\ WF_vars(part = "listener" /\ (LookupEvent \/ LookupFails))
  /\ WF_vars(part = "listener" /\ (Commit \/ CommitFails))
  /\ WF_vars(part = "listener" /\ Publish)
  /\ WF_vars(part = "listener" /\ CloseDatabase)
  /\ WF_vars(part = "listener" /\ Exit)
IdemFair ==
  \A r \in Requests :
    WF_idemVars(part = "idempotency" /\ (Idem!AnswerOk(r) \/ Idem!AnswerError(r)))
HealthFair ==
  /\ WF_healthVars(part = "health" /\ Health!Timers)
  /\ \A c \in Callers : WF_healthVars(part = "health" /\ Health!Step(c))
MCFairness == ListenerFair /\ IdemFair /\ HealthFair

MCSpec == MCInit /\ [][MCNext]_mcVars /\ MCFairness
-----------------------------------------------------------------------------
\* What is tried again has its effect once: a replayed answer is the one that
\* was given to the same payload, and one attempt succeeds, or one more for each
\* connection that ended early (idempotency.ts); a transaction that is tried
\* again writes once, and gives back every connection it took
\* (withTransaction, database.ts).
EffectsOnce ==
  /\ part = "idempotency" =>
       Idem!ReplayIsOriginal /\ Idem!OverlapBounded /\ Idem!SuccessesBounded
  /\ part = "health" => Health!AppliedOnce /\ Health!PoolAccounted

\* Nobody waits for ever: a key in progress is released (idempotency.ts), and a
\* readiness request is answered, however long a dependency hangs (health.ts).
\* KeyReleased and ReadinessAnswers of the two parts as one formula.
Waits ==
  \/ part = "idempotency" /\ entry.status = "in_progress"
  \/ part = "health" /\ probe.pc # "idle"
Over ==
  \/ part = "idempotency" /\ entry.status # "in_progress"
  \/ part = "health" /\ probe.pc = "replied"
ServerWaitsEnd == Waits ~> Over

\* The behaviours of the idempotency keys alone.
IdempotencySpec == part = "idempotency" /\ MCSpec

\* A retry cannot race the first attempt (middleware/idempotency.ts).  Does not
\* hold: a client that hangs up frees the key while the handler goes on.
OneHandlerAtATime == part = "idempotency" => Idem!OneHandlerAtATime
=============================================================================
