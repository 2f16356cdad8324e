----------------------------- MODULE ServerProofs -----------------------------
(***************************************************************************)
(* Proofs about what the backend must do once: idempotency keys, database  *)
(* transactions and their connections, and the payouts of the event        *)
(* listener, for any number of requests, connections, retries, events and  *)
(* failures.                                                               *)
(***************************************************************************)
EXTENDS MCServer, FiniteSetTheorems, SequenceTheorems, TLAPS

-----------------------------------------------------------------------------
(* Idempotency keys.  A client that leaves frees the key, so attempts do   *)
(* overlap; what holds is a budget.  A key in progress stands for one      *)
(* handler, every early end for one more, and a success spends what its    *)
(* handler held.                                                           *)

Handlers == {r \in Requests : Idem!InHandler(r)}

\* The answer a completed entry keeps was given to the payload it names.
EntryIsAnswer ==
  entry.status = "completed" =>
    entry.body \in Requests /\ state[entry.body] = "done" /\ Hash[entry.body] = entry.hash

\* Handlers beyond the early ends belong to a key in progress, and handlers and
\* successes beyond them to a key that is not forgotten.
Budget ==
  /\ Cardinality(Handlers) <= earlyEnds + (IF entry.status = "in_progress" THEN 1 ELSE 0)
  /\ Cardinality(succeeded) + Cardinality(Handlers) <=
       earlyEnds + (IF entry.status = "none" THEN 0 ELSE 1)

\* The inductive invariant of the idempotency keys.
IdemInv == Idem!TypeOK /\ EntryIsAnswer /\ Idem!ReplayIsOriginal /\ Budget

\* The instances count as the module does.
LEMMA SameCount ==
  ASSUME NEW S
  PROVE  Idem!Cardinality(S) = Cardinality(S) /\ Health!Cardinality(S) = Cardinality(S)
BY DEF Idem!Cardinality, Health!Cardinality, Cardinality

\* The entry has one of three statuses, and the missing one has only that.
LEMMA EntryStatus ==
  ASSUME Idem!TypeOK
  PROVE  /\ entry.status \in {"none", "in_progress", "completed"}
         /\ entry = Idem!NoEntry <=> entry.status = "none"
BY DEF Idem!TypeOK, Idem!NoEntry

\* Both sets that are counted are finite, and their sizes numbers.
LEMMA Counted ==
  ASSUME Idem!TypeOK
  PROVE  /\ IsFiniteSet(Handlers) /\ IsFiniteSet(succeeded)
         /\ Cardinality(Handlers) \in Nat /\ Cardinality(succeeded) \in Nat
<1>1. IsFiniteSet(Requests)
  BY RequestsAssumption
<1>2. Handlers \in SUBSET Requests /\ succeeded \in SUBSET Requests
  BY DEF Idem!TypeOK, Handlers
<1>3. IsFiniteSet(Handlers) /\ IsFiniteSet(succeeded)
  BY <1>1, <1>2, FS_Subset
<1> QED BY <1>3, FS_CardinalityType

\* A request that changes its state enters the handlers, leaves them, or neither.
LEMMA HandlersMove ==
  ASSUME Idem!TypeOK, NEW r \in Requests, NEW s, Idem!Becomes(r, s)
  PROVE  /\ s \in {"running", "gone", "timedout"} /\ r \notin Handlers =>
              Cardinality(Handlers') = Cardinality(Handlers) + 1
         /\ s \in {"running", "gone", "timedout"} /\ r \in Handlers =>
              Cardinality(Handlers') = Cardinality(Handlers)
         /\ s \notin {"running", "gone", "timedout"} /\ r \in Handlers =>
              Cardinality(Handlers') = Cardinality(Handlers) - 1
         /\ s \notin {"running", "gone", "timedout"} /\ r \notin Handlers =>
              Cardinality(Handlers') = Cardinality(Handlers)
<1>1. IsFiniteSet(Handlers)
  BY Counted
<1>2. state' = [state EXCEPT ![r] = s] /\ DOMAIN state = Requests
  BY DEF Idem!Becomes, Idem!TypeOK
<1>3. CASE s \in {"running", "gone", "timedout"}
  <2>1. Handlers' = Handlers \cup {r}
    BY <1>2, <1>3 DEF Handlers, Idem!InHandler
  <2> QED BY <1>1, <1>3, <2>1, FS_AddElement
<1>4. CASE s \notin {"running", "gone", "timedout"}
  <2>1. Handlers' = Handlers \ {r}
    BY <1>2, <1>4 DEF Handlers, Idem!InHandler
  <2> QED BY <1>1, <1>4, <2>1, FS_RemoveElement
<1> QED BY <1>3, <1>4

\* Types and answers: a step keeps the types, and nothing that was answered is
\* taken back.
LEMMA IdemAnswers ==
  ASSUME IdemInv, Idem!Next
  PROVE  (Idem!TypeOK /\ EntryIsAnswer /\ Idem!ReplayIsOriginal)'
<1>1. /\ Idem!TypeOK /\ EntryIsAnswer /\ Idem!ReplayIsOriginal
      /\ entry.status \in {"none", "in_progress", "completed"}
      /\ entry = Idem!NoEntry <=> entry.status = "none"
  BY EntryStatus DEF IdemInv
<1>2. "none" \notin Requests /\ \A r \in Requests : Hash[r] \in Idem!Hashes
  BY RequestsAssumption DEF Idem!Hashes
<1> USE DEF Idem!TypeOK, EntryIsAnswer, Idem!ReplayIsOriginal, Idem!Becomes,
            Idem!NoEntry, Idem!NoBody
<1>3. ASSUME NEW r \in Requests, Idem!Accept(r) PROVE (Idem!TypeOK /\ EntryIsAnswer /\ Idem!ReplayIsOriginal)'
  BY <1>1, <1>2, <1>3 DEF Idem!Accept
<1>4. ASSUME NEW r \in Requests, Idem!RejectMismatch(r) \/ Idem!RejectInFlight(r)
      PROVE  (Idem!TypeOK /\ EntryIsAnswer /\ Idem!ReplayIsOriginal)'
  BY <1>1, <1>2, <1>4 DEF Idem!RejectMismatch, Idem!RejectInFlight
<1>5. ASSUME NEW r \in Requests, Idem!Replay(r) PROVE (Idem!TypeOK /\ EntryIsAnswer /\ Idem!ReplayIsOriginal)'
  BY <1>1, <1>2, <1>5 DEF Idem!Replay
<1>6. ASSUME NEW r \in Requests, Idem!AnswerOk(r) PROVE (Idem!TypeOK /\ EntryIsAnswer /\ Idem!ReplayIsOriginal)'
  BY <1>1, <1>2, <1>6 DEF Idem!AnswerOk, Idem!InHandler
<1>7. ASSUME NEW r \in Requests, Idem!AnswerError(r) PROVE (Idem!TypeOK /\ EntryIsAnswer /\ Idem!ReplayIsOriginal)'
  BY <1>1, <1>2, <1>7 DEF Idem!AnswerError, Idem!InHandler
<1>8. ASSUME NEW r \in Requests, Idem!HangUp(r) \/ Idem!TimeOut(r)
      PROVE  (Idem!TypeOK /\ EntryIsAnswer /\ Idem!ReplayIsOriginal)'
  BY <1>1, <1>2, <1>8, RequestsAssumption DEF Idem!HangUp, Idem!TimeOut, Idem!EndsEarly
<1>9. ASSUME Idem!Expire PROVE (Idem!TypeOK /\ EntryIsAnswer /\ Idem!ReplayIsOriginal)'
  BY <1>1, <1>2, <1>9 DEF Idem!Expire
<1>10. ASSUME Idem!Restart PROVE (Idem!TypeOK /\ EntryIsAnswer /\ Idem!ReplayIsOriginal)'
  BY <1>1, <1>2, <1>10 DEF Idem!Restart, Idem!InHandler
<1> QED BY <1>3, <1>4, <1>5, <1>6, <1>7, <1>8, <1>9, <1>10 DEF Idem!Next

\* No step overdraws the budget.
LEMMA IdemBudget ==
  ASSUME IdemInv, Idem!Next
  PROVE  Budget'
<1> DEFINE h == Cardinality(Handlers)
           s == Cardinality(succeeded)
<1>1. /\ Idem!TypeOK /\ earlyEnds \in Nat /\ h \in Nat /\ s \in Nat
      /\ entry.status \in {"none", "in_progress", "completed"}
      /\ entry = Idem!NoEntry <=> entry.status = "none"
  BY EntryStatus, Counted, RequestsAssumption DEF IdemInv, Idem!TypeOK
<1>2. /\ h <= earlyEnds + (IF entry.status = "in_progress" THEN 1 ELSE 0)
      /\ s + h <= earlyEnds + (IF entry.status = "none" THEN 0 ELSE 1)
  BY DEF IdemInv, Budget
<1>3. \A r \in Requests : r \in Handlers <=> Idem!InHandler(r)
  BY DEF Handlers
<1>4. ASSUME NEW r \in Requests, Idem!Accept(r) PROVE Budget'
  <2>1. h' = h + 1 /\ s' = s /\ earlyEnds' = earlyEnds
    BY <1>1, <1>3, <1>4, HandlersMove DEF Idem!Accept, Idem!InHandler
  <2>2. entry.status = "none" /\ entry'.status = "in_progress"
    BY <1>1, <1>4 DEF Idem!Accept
  <2> QED BY <1>1, <1>2, <2>1, <2>2 DEF Budget
<1>5. ASSUME NEW r \in Requests,
             Idem!RejectMismatch(r) \/ Idem!RejectInFlight(r) \/ Idem!Replay(r)
      PROVE  Budget'
  <2>1. h' = h
    BY <1>1, <1>3, <1>5, HandlersMove
    DEF Idem!RejectMismatch, Idem!RejectInFlight, Idem!Replay, Idem!InHandler
  <2>2. UNCHANGED <<entry, earlyEnds, succeeded>>
    BY <1>5 DEF Idem!RejectMismatch, Idem!RejectInFlight, Idem!Replay
  <2> QED BY <1>1, <1>2, <2>1, <2>2 DEF Budget
<1>6. ASSUME NEW r \in Requests, Idem!AnswerOk(r) PROVE Budget'
  <2>1. h' = h - 1 /\ earlyEnds' = earlyEnds
    BY <1>1, <1>3, <1>6, HandlersMove DEF Idem!AnswerOk
  <2>2. Cardinality(succeeded') \in {s, s + 1}
    <3>1. succeeded' = succeeded \cup {r} /\ IsFiniteSet(succeeded)
      BY <1>1, <1>6, Counted DEF Idem!AnswerOk
    <3>2. Cardinality(succeeded \cup {r}) = IF r \in succeeded THEN s ELSE s + 1
      BY <3>1, FS_AddElement
    <3> QED BY <3>1, <3>2
  <2>3. entry'.status = "completed"
    BY <1>6 DEF Idem!AnswerOk
  <2> QED BY <1>1, <1>2, <2>1, <2>2, <2>3 DEF Budget
<1>7. ASSUME NEW r \in Requests, Idem!AnswerError(r) PROVE Budget'
  <2>1. h' = h - 1 /\ s' = s /\ earlyEnds' = earlyEnds
    BY <1>1, <1>3, <1>7, HandlersMove DEF Idem!AnswerError
  <2>2. entry'.status = "none" \/ entry' = entry
    BY <1>7 DEF Idem!AnswerError, Idem!NoEntry
  <2> QED BY <1>1, <1>2, <2>1, <2>2 DEF Budget
<1>8. ASSUME NEW r \in Requests, Idem!HangUp(r) \/ Idem!TimeOut(r) PROVE Budget'
  <2>1. h' = h /\ s' = s /\ earlyEnds' = earlyEnds + 1
    BY <1>1, <1>3, <1>8, HandlersMove
    DEF Idem!HangUp, Idem!TimeOut, Idem!EndsEarly, Idem!InHandler
  <2>2. entry'.status = "none"
    BY <1>8 DEF Idem!HangUp, Idem!TimeOut, Idem!EndsEarly, Idem!NoEntry
  <2> QED BY <1>1, <1>2, <2>1, <2>2 DEF Budget
<1>9. ASSUME Idem!Expire PROVE Budget'
  <2>1. h' = h /\ earlyEnds' = earlyEnds /\ s' = 0
    BY <1>9, FS_EmptySet DEF Idem!Expire, Handlers, Idem!InHandler
  <2>2. entry.status = "completed" /\ entry'.status = "none"
    BY <1>9 DEF Idem!Expire, Idem!NoEntry
  <2> QED BY <1>1, <1>2, <2>1, <2>2 DEF Budget
<1>10. ASSUME Idem!Restart PROVE Budget'
  <2>1. Handlers' = {}
    BY <1>1, <1>10 DEF Idem!Restart, Handlers, Idem!InHandler, Idem!TypeOK
  <2>2. h' = 0 /\ earlyEnds' = earlyEnds /\ s' = 0
    BY <1>10, <2>1, FS_EmptySet DEF Idem!Restart
  <2>3. entry'.status = "none"
    BY <1>10 DEF Idem!Restart, Idem!NoEntry
  <2> QED BY <1>1, <2>2, <2>3 DEF Budget
<1> QED BY <1>4, <1>5, <1>6, <1>7, <1>8, <1>9, <1>10 DEF Idem!Next

\* The keys keep their invariant.
LEMMA IdemKept ==
  ASSUME IdemInv, [Idem!Next]_idemVars
  PROVE  IdemInv'
<1>1. CASE Idem!Next
  BY <1>1, IdemAnswers, IdemBudget DEF IdemInv
<1>2. CASE UNCHANGED idemVars
  BY <1>2 DEF idemVars, IdemInv, Idem!TypeOK, EntryIsAnswer, Idem!ReplayIsOriginal,
              Budget, Handlers, Idem!InHandler
<1> QED BY <1>1, <1>2

LEMMA IdemStart == Idem!Init => IdemInv
<1> SUFFICES ASSUME Idem!Init PROVE IdemInv
  OBVIOUS
<1>1. Idem!TypeOK /\ EntryIsAnswer /\ Idem!ReplayIsOriginal
  BY RequestsAssumption
  DEF Idem!Init, Idem!TypeOK, EntryIsAnswer, Idem!ReplayIsOriginal, Idem!NoEntry
<1>2. Handlers = {} /\ succeeded = {} /\ earlyEnds = 0 /\ entry.status = "none"
  BY DEF Idem!Init, Handlers, Idem!InHandler, Idem!NoEntry
<1>3. Budget
  BY <1>2, FS_EmptySet DEF Budget
<1> QED BY <1>1, <1>3 DEF IdemInv

\* The three promises of the keys follow.
LEMMA IdemPromises ==
  IdemInv => Idem!ReplayIsOriginal /\ Idem!OverlapBounded /\ Idem!SuccessesBounded
<1> SUFFICES ASSUME IdemInv
             PROVE  Idem!ReplayIsOriginal /\ Idem!OverlapBounded /\ Idem!SuccessesBounded
  OBVIOUS
<1>1. earlyEnds \in Nat
  BY RequestsAssumption DEF IdemInv, Idem!TypeOK
<1>2. Cardinality(Handlers) \in Nat /\ Cardinality(succeeded) \in Nat
  BY Counted DEF IdemInv
<1>3. Budget
  BY DEF IdemInv
<1>4. Cardinality(Handlers) <= 1 + earlyEnds /\ Cardinality(succeeded) <= 1 + earlyEnds
  <2>1. Cardinality(Handlers) <= earlyEnds \/ Cardinality(Handlers) <= earlyEnds + 1
    BY <1>1, <1>2, <1>3 DEF Budget
  <2>2. \/ Cardinality(succeeded) + Cardinality(Handlers) <= earlyEnds + 0
        \/ Cardinality(succeeded) + Cardinality(Handlers) <= earlyEnds + 1
    BY <1>3, Zenon DEF Budget
  <2> QED BY <1>1, <1>2, <2>1, <2>2
<1>5. Idem!OverlapBounded /\ Idem!SuccessesBounded
  BY <1>4, SameCount DEF Idem!OverlapBounded, Idem!SuccessesBounded, Handlers
<1> QED BY <1>5 DEF IdemInv
-----------------------------------------------------------------------------
(* Database transactions.  Only a deadlock is tried again, and a deadlock  *)
(* has written nothing; a connection is in the pool, with a caller, with   *)
(* the readiness query, or with a query nobody waits for any more.         *)

TxPcs == {"idle", "connect", "begin", "work", "commit", "rollback", "sleep",
          "release", "again", "ended"}
TxFields == {"pc", "attempt", "error", "applied", "outcome"}

\* What a transaction has written and answered, by where it stands.
TxParts(pc, error, applied, outcome) ==
  /\ pc \in {"idle", "connect", "begin", "work", "commit", "sleep", "again"} =>
       applied = 0 /\ outcome = "none"
  /\ pc = "rollback" =>
       /\ outcome = "none" /\ applied <= 1
       /\ error = "deadlock" => applied = 0
  /\ pc \in {"release", "ended"} =>
       applied <= 1 /\ (outcome = "done" => applied = 1)

TxOk(t) ==
  /\ TxFields \subseteq DOMAIN t /\ t.pc \in TxPcs /\ t.applied \in Nat
  /\ TxParts(t.pc, t.error, t.applied, t.outcome)

TxsOk == DOMAIN tx = Callers /\ \A c \in Callers : TxOk(tx[c])

ProbeOk ==
  /\ {"pc", "status", "code"} \subseteq DOMAIN probe
  /\ probe.pc \in {"idle", "db", "query", "account", "simulate", "replied"}
  /\ hung \in Nat /\ free \in Int

Holders == {c \in Callers : tx[c].pc \in Health!Holding}

\* Before the start is complete nobody has a connection.
NotYet ==
  /\ phase \in {"starting", "up", "stopping"}
  /\ dataSource = "ready" => phase = "up"
  /\ dataSource = "initializing" => phase = "starting"
  /\ phase = "starting" =>
       Holders = {} /\ hung = 0 /\ probe.pc \in {"idle", "replied"}
       /\ \A c \in Callers : tx[c].pc \in {"idle", "ended"}

\* The inductive invariant of transactions and connections.
HealthInv == TxsOk /\ ProbeOk /\ NotYet /\ Health!PoolAccounted

\* A caller that moves takes a connection, gives one back, or neither.
LEMMA HoldersMove ==
  ASSUME NEW c \in Callers, \A d \in Callers : d # c => tx'[d] = tx[d]
  PROVE  /\ IsFiniteSet(Holders) /\ Cardinality(Holders) \in Nat
         /\ tx'[c].pc \in Health!Holding /\ tx[c].pc \notin Health!Holding =>
              Cardinality(Holders') = Cardinality(Holders) + 1
         /\ tx'[c].pc \notin Health!Holding /\ tx[c].pc \in Health!Holding =>
              Cardinality(Holders') = Cardinality(Holders) - 1
         /\ (tx'[c].pc \in Health!Holding <=> tx[c].pc \in Health!Holding) =>
              Holders' = Holders
<1>1. IsFiniteSet(Callers) /\ Holders \in SUBSET Callers
  BY HealthAssumption DEF Holders
<1>2. IsFiniteSet(Holders) /\ Cardinality(Holders) \in Nat
  BY <1>1, FS_Subset, FS_CardinalityType
<1>3. tx'[c].pc \in Health!Holding => Holders' = Holders \cup {c}
  BY DEF Holders
<1>4. tx'[c].pc \notin Health!Holding => Holders' = Holders \ {c}
  BY DEF Holders
<1>5. c \in Holders <=> tx[c].pc \in Health!Holding
  BY DEF Holders
<1>6. tx'[c].pc \in Health!Holding => 
        Cardinality(Holders') = IF c \in Holders THEN Cardinality(Holders) ELSE Cardinality(Holders) + 1
  BY <1>2, <1>3, FS_AddElement
<1>7. tx'[c].pc \notin Health!Holding => 
        Cardinality(Holders') = IF c \in Holders THEN Cardinality(Holders) - 1 ELSE Cardinality(Holders)
  BY <1>2, <1>4, FS_RemoveElement
<1>8. (tx'[c].pc \in Health!Holding <=> tx[c].pc \in Health!Holding) => Holders' = Holders
  BY <1>3, <1>4, <1>5
<1> QED BY <1>2, <1>5, <1>6, <1>7, <1>8

\* A step of a transaction writes as its pc says, and touches no other one.
LEMMA TxMoves ==
  ASSUME TxsOk, NEW c \in Callers, Health!withTransaction(c) \/ Health!Step(c)
  PROVE  TxsOk' /\ \A d \in Callers : d # c => tx'[d] = tx[d]
<1> DEFINE e == tx[c].error
           n == tx[c].applied
           o == tx[c].outcome
           Becomes(q, f, i, u) ==
             /\ TxFields \subseteq DOMAIN tx'[c]
             /\ tx'[c].pc = q /\ tx'[c].error = f /\ tx'[c].applied = i /\ tx'[c].outcome = u
<1>1. /\ DOMAIN tx = Callers /\ TxFields \subseteq DOMAIN tx[c] /\ n \in Nat
      /\ tx[c].pc \in TxPcs /\ TxParts(tx[c].pc, e, n, o)
  BY DEF TxsOk, TxOk
<1>2. DOMAIN tx' = Callers /\ \A d \in Callers : d # c => tx'[d] = tx[d]
  BY <1>1 DEF Health!withTransaction, Health!Step, Health!Connect, Health!ConnectFails,
              Health!startTransaction, Health!StartFails, Health!Callback, Health!Commit,
              Health!Rollback, Health!Sleep, Health!Release
<1>3. TxOk(tx'[c]) => TxsOk'
  BY <1>1, <1>2 DEF TxsOk
<1>4. CASE Health!withTransaction(c)
  <2>1. \/ Becomes("connect", "none", 0, "none")
        \/ Becomes("ended", "none", 0, "failed")
    BY <1>1, <1>4 DEF Health!withTransaction, Health!NoTx, TxFields
  <2>3. TxOk(tx'[c])
    BY <1>1, <2>1 DEF TxOk, TxParts, TxPcs
  <2> QED BY <1>2, <1>3, <2>3
<1>5. CASE Health!Connect(c)
  <2>1. Becomes("begin", e, n, o)
    BY <1>1, <1>5 DEF Health!Connect, TxFields
  <2>2. tx[c].pc = "connect"
    BY <1>5 DEF Health!Connect
  <2>3. TxOk(tx'[c])
    BY <1>1, <2>1, <2>2 DEF TxOk, TxParts, TxPcs
  <2> QED BY <1>2, <1>3, <2>3
<1>6. CASE Health!ConnectFails(c)
  <2>1. Becomes("ended", e, n, "failed")
    BY <1>1, <1>6 DEF Health!ConnectFails, TxFields
  <2>2. tx[c].pc = "connect"
    BY <1>6 DEF Health!ConnectFails
  <2>3. TxOk(tx'[c])
    BY <1>1, <2>1, <2>2 DEF TxOk, TxParts, TxPcs
  <2> QED BY <1>2, <1>3, <2>3
<1>7. CASE Health!startTransaction(c)
  <2>1. Becomes("work", e, n, o)
    BY <1>1, <1>7 DEF Health!startTransaction, TxFields
  <2>2. tx[c].pc = "begin"
    BY <1>7 DEF Health!startTransaction
  <2>3. TxOk(tx'[c])
    BY <1>1, <2>1, <2>2 DEF TxOk, TxParts, TxPcs
  <2> QED BY <1>2, <1>3, <2>3
<1>8. CASE Health!StartFails(c)
  <2>1. Becomes("release", e, n, "failed")
    BY <1>1, <1>8 DEF Health!StartFails, TxFields
  <2>2. tx[c].pc = "begin"
    BY <1>8 DEF Health!StartFails
  <2>3. TxOk(tx'[c])
    BY <1>1, <2>1, <2>2 DEF TxOk, TxParts, TxPcs
  <2> QED BY <1>2, <1>3, <2>3
<1>9. CASE Health!Callback(c)
  <2>1. \/ Becomes("commit", e, n, o)
        \/ Becomes("rollback", "deadlock", n, o)
        \/ Becomes("rollback", "other", n, o)
    BY <1>1, <1>9 DEF Health!Callback, TxFields
  <2>2. tx[c].pc = "work"
    BY <1>9 DEF Health!Callback
  <2>3. TxOk(tx'[c])
    BY <1>1, <2>1, <2>2 DEF TxOk, TxParts, TxPcs
  <2> QED BY <1>2, <1>3, <2>3
<1>10. CASE Health!Commit(c)
  <2>1. \/ Becomes("release", e, n + 1, "done")
        \/ Becomes("rollback", "deadlock", n, o)
        \/ Becomes("rollback", "other", n + 0, o)
        \/ Becomes("rollback", "other", n + 1, o)
    BY <1>1, <1>10 DEF Health!Commit, TxFields
  <2>2. tx[c].pc = "commit"
    BY <1>10 DEF Health!Commit
  <2>3. TxOk(tx'[c])
    BY <1>1, <2>1, <2>2 DEF TxOk, TxParts, TxPcs
  <2> QED BY <1>2, <1>3, <2>3
<1>11. CASE Health!Rollback(c)
  <2>1. \/ e = "deadlock" /\ Becomes("sleep", e, n, o)
        \/ Becomes("release", e, n, "failed")
    BY <1>1, <1>11 DEF Health!Rollback, Health!Retries, TxFields
  <2>2. tx[c].pc = "rollback"
    BY <1>11 DEF Health!Rollback
  <2>3. TxOk(tx'[c])
    BY <1>1, <2>1, <2>2 DEF TxOk, TxParts, TxPcs
  <2> QED BY <1>2, <1>3, <2>3
<1>12. CASE Health!Sleep(c)
  <2>1. Becomes("again", e, n, o)
    BY <1>1, <1>12 DEF Health!Sleep, TxFields
  <2>2. tx[c].pc = "sleep"
    BY <1>12 DEF Health!Sleep
  <2>3. TxOk(tx'[c])
    BY <1>1, <2>1, <2>2 DEF TxOk, TxParts, TxPcs
  <2> QED BY <1>2, <1>3, <2>3
<1>13. CASE Health!Release(c)
  <2>1. \/ tx[c].pc = "again" /\ Becomes("connect", e, n, o)
        \/ tx[c].pc = "release" /\ Becomes("ended", e, n, o)
    BY <1>1, <1>13 DEF Health!Release, TxFields
  <2>3. TxOk(tx'[c])
    BY <1>1, <2>1 DEF TxOk, TxParts, TxPcs
  <2> QED BY <1>2, <1>3, <2>3
<1> QED BY <1>2, <1>4, <1>5, <1>6, <1>7, <1>8, <1>9, <1>10, <1>11, <1>12, <1>13 DEF Health!Step

\* A step of a transaction takes from the pool what it holds afterwards.
LEMMA TxConnections ==
  ASSUME HealthInv, NEW c \in Callers, Health!withTransaction(c) \/ Health!Step(c)
  PROVE  /\ free' + Cardinality(Holders') = free + Cardinality(Holders) /\ free' \in Int
         /\ UNCHANGED <<phase, dataSource, pool, probe, hung, probes>>
         /\ phase = "starting" => Holders' = Holders /\ tx'[c].pc \in {"idle", "ended"}
<1>1. "pc" \in DOMAIN tx[c] /\ DOMAIN tx = Callers /\ free \in Int
  BY DEF HealthInv, TxsOk, TxOk, TxFields, ProbeOk
<1>2. /\ IsFiniteSet(Holders) /\ Cardinality(Holders) \in Nat
      /\ tx'[c].pc \in Health!Holding /\ tx[c].pc \notin Health!Holding =>
           Cardinality(Holders') = Cardinality(Holders) + 1
      /\ tx'[c].pc \notin Health!Holding /\ tx[c].pc \in Health!Holding =>
           Cardinality(Holders') = Cardinality(Holders) - 1
      /\ (tx'[c].pc \in Health!Holding <=> tx[c].pc \in Health!Holding) => Holders' = Holders
  <2>1. \A d \in Callers : d # c => tx'[d] = tx[d]
    BY TxMoves DEF HealthInv
  <2> QED BY <2>1, HoldersMove
<1>3. phase = "starting" => dataSource # "ready" /\ tx[c].pc \in {"idle", "ended"}
  BY DEF HealthInv, NotYet
<1>4. UNCHANGED <<phase, dataSource, pool, probe, hung, probes>>
  BY DEF Health!withTransaction, Health!Step, Health!Connect, Health!ConnectFails,
         Health!startTransaction, Health!StartFails, Health!Callback, Health!Commit,
         Health!Rollback, Health!Sleep, Health!Release
<1>5. CASE Health!Connect(c)
  <2>1. free' = free - 1 /\ tx[c].pc = "connect" /\ tx'[c].pc = "begin"
    BY <1>1, <1>5 DEF Health!Connect
  <2> QED BY <1>1, <1>2, <1>3, <1>4, <2>1 DEF Health!Holding
<1>6. CASE Health!Release(c)
  <2>1. free' = free + 1 /\ tx[c].pc \in {"release", "again"} /\ tx'[c].pc \in {"connect", "ended"}
    BY <1>1, <1>6 DEF Health!Release
  <2> QED BY <1>1, <1>2, <1>3, <1>4, <2>1 DEF Health!Holding
<1>7. CASE Health!withTransaction(c) \/ Health!ConnectFails(c)
  <2>1. /\ free' = free /\ tx[c].pc \in {"idle", "connect"} /\ tx'[c].pc \in {"connect", "ended"}
        /\ tx'[c].pc = "connect" => dataSource = "ready"
    BY <1>1, <1>7 DEF Health!withTransaction, Health!ConnectFails, Health!NoTx
  <2>2. Holders' = Holders
    BY <1>2, <2>1 DEF Health!Holding
  <2> QED BY <1>1, <1>2, <1>3, <1>4, <2>1, <2>2
<1>8. CASE \/ Health!startTransaction(c) \/ Health!StartFails(c) \/ Health!Callback(c)
           \/ Health!Commit(c) \/ Health!Rollback(c) \/ Health!Sleep(c)
  <2>1. /\ free' = free /\ tx[c].pc \in {"begin", "work", "commit", "rollback", "sleep"}
    BY <1>8 DEF Health!startTransaction, Health!StartFails, Health!Callback,
                Health!Commit, Health!Rollback, Health!Sleep
  <2>2. tx'[c].pc \in {"work", "commit", "rollback", "sleep", "release", "again"}
    <3>1. CASE Health!startTransaction(c) \/ Health!Sleep(c)
      BY <1>1, <3>1 DEF Health!startTransaction, Health!Sleep
    <3>2. CASE Health!StartFails(c)
      BY <1>1, <3>2 DEF Health!StartFails
    <3>3. CASE Health!Callback(c)
      BY <1>1, <3>3 DEF Health!Callback
    <3>4. CASE Health!Commit(c)
      BY <1>1, <3>4 DEF Health!Commit
    <3>5. CASE Health!Rollback(c)
      BY <1>1, <3>5 DEF Health!Rollback
    <3> QED BY <1>8, <3>1, <3>2, <3>3, <3>4, <3>5
  <2>3. Holders' = Holders
    BY <1>2, <2>1, <2>2 DEF Health!Holding
  <2> QED BY <1>1, <1>2, <1>3, <1>4, <2>1, <2>3
<1> QED BY <1>5, <1>6, <1>7, <1>8 DEF Health!Step

\* The same books, read off the set of holders.
Querying == IF probe.pc = "query" THEN 1 ELSE 0
LEMMA PoolBooks ==
  /\ Health!PoolAccounted <=> free + hung + Querying + Cardinality(Holders) = PoolMax
  /\ Health!PoolAccounted' <=> free' + hung' + Querying' + Cardinality(Holders') = PoolMax
BY SameCount DEF Health!PoolAccounted, Querying, Holders

LEMMA HoldersCounted == IsFiniteSet(Holders) /\ Cardinality(Holders) \in Nat
<1>1. IsFiniteSet(Callers) /\ Holders \in SUBSET Callers
  BY HealthAssumption DEF Holders
<1> QED BY <1>1, FS_Subset, FS_CardinalityType

\* A transaction leaves the books of the pool in order.
LEMMA HealthTx ==
  ASSUME HealthInv, NEW c \in Callers, Health!withTransaction(c) \/ Health!Step(c)
  PROVE  HealthInv'
<1>1. /\ TxsOk /\ ProbeOk /\ NotYet /\ Health!PoolAccounted
      /\ hung \in Nat /\ free \in Int /\ Cardinality(Holders) \in Nat
  BY HoldersCounted DEF HealthInv, ProbeOk
<1>2. TxsOk' /\ \A d \in Callers : d # c => tx'[d] = tx[d]
  BY <1>1, TxMoves
<1>3. /\ free' + Cardinality(Holders') = free + Cardinality(Holders) /\ free' \in Int
      /\ UNCHANGED <<phase, dataSource, pool, probe, hung, probes>>
      /\ phase = "starting" => Holders' = Holders /\ tx'[c].pc \in {"idle", "ended"}
  BY TxConnections
<1>4. ProbeOk'
  BY <1>1, <1>3 DEF ProbeOk
<1>5. NotYet'
  BY <1>1, <1>2, <1>3 DEF NotYet
<1>6. Health!PoolAccounted'
  <2>1. Querying' = Querying /\ Querying \in Nat /\ hung' = hung
    BY <1>3 DEF Querying
  <2>2. Cardinality(Holders') \in Nat
    <3>1. IsFiniteSet(Callers) /\ Holders' \in SUBSET Callers
      BY HealthAssumption DEF Holders
    <3> QED BY <3>1, FS_Subset, FS_CardinalityType
  <2>3. free + hung + Querying + Cardinality(Holders) = PoolMax
    BY <1>1, PoolBooks
  <2>4. free' + hung' + Querying' + Cardinality(Holders') = PoolMax
    BY <1>1, <1>3, <2>1, <2>2, <2>3
  <2> QED BY <2>4, PoolBooks
<1> QED BY <1>2, <1>4, <1>5, <1>6 DEF HealthInv

\* So do the start and the shutdown, ...
LEMMA HealthLife ==
  ASSUME HealthInv, Health!initDatabase \/ Health!Started \/ Health!Shutdown
  PROVE  HealthInv'
<1>1. TxsOk /\ ProbeOk /\ NotYet /\ Health!PoolAccounted /\ free \in Int
  BY DEF HealthInv, ProbeOk
<1>2. UNCHANGED <<tx, probe, hung, Holders, Querying>>
  BY DEF Health!initDatabase, Health!Started, Health!Shutdown, Holders, Querying
<1>3. TxsOk' /\ ProbeOk'
  BY <1>1, <1>2, HealthAssumption
  DEF TxsOk, ProbeOk, Health!initDatabase, Health!Started, Health!Shutdown
<1>4. NotYet'
  BY <1>1, <1>2 DEF NotYet, Health!initDatabase, Health!Started, Health!Shutdown
<1>5. CASE Health!Started
  <2>1. Holders = {} /\ hung = 0 /\ probe.pc # "query" /\ free' = PoolMax
    BY <1>1, <1>5 DEF NotYet, Health!Started
  <2>2. Cardinality(Holders') = 0 /\ hung' = 0 /\ Querying' = 0
    BY <1>2, <2>1, FS_EmptySet DEF Querying
  <2>3. free' + hung' + Querying' + Cardinality(Holders') = PoolMax
    BY <2>1, <2>2, HealthAssumption
  <2> QED BY <1>3, <1>4, <2>3, PoolBooks DEF HealthInv
<1>6. CASE Health!initDatabase \/ Health!Shutdown
  <2>1. free' = free
    BY <1>6 DEF Health!initDatabase, Health!Shutdown
  <2>2. free' + hung' + Querying' + Cardinality(Holders') = PoolMax
    BY <1>1, <1>2, <2>1, PoolBooks
  <2> QED BY <1>3, <1>4, <2>2, PoolBooks DEF HealthInv
<1> QED BY <1>5, <1>6

\* ... and the readiness query, also when nobody waits for it any more.
LEMMA HealthProbe ==
  ASSUME HealthInv,
         \/ Health!handleReadiness \/ Health!ProbeDatabase \/ Health!DatabaseAnswers
         \/ Health!DatabaseErrors \/ Health!DatabaseTimesOut \/ Health!HungQueryEnds
         \/ Health!AccountAnswers \/ Health!AccountFails \/ Health!SimulationAnswers
         \/ Health!SimulationFails \/ Health!SorobanTimesOut
  PROVE  HealthInv'
<1>1. /\ TxsOk /\ ProbeOk /\ NotYet /\ Health!PoolAccounted /\ free \in Int /\ hung \in Nat
      /\ "pc" \in DOMAIN probe /\ "status" \in DOMAIN probe /\ "code" \in DOMAIN probe
  BY DEF HealthInv, ProbeOk
<1>2. UNCHANGED <<tx, Holders, phase, dataSource>>
  BY DEF Health!handleReadiness, Health!ProbeDatabase, Health!DatabaseAnswers,
         Health!DatabaseErrors, Health!DatabaseTimesOut, Health!HungQueryEnds,
         Health!AccountAnswers, Health!AccountFails, Health!SimulationAnswers,
         Health!SimulationFails, Health!SorobanTimesOut, Holders
<1>3. ASSUME /\ ProbeOk' /\ free' + hung' + Querying' = free + hung + Querying
             /\ phase = "starting" => hung' = 0 /\ probe'.pc \in {"idle", "replied"}
      PROVE  HealthInv'
  <2>1. TxsOk' /\ NotYet'
    BY <1>1, <1>2, <1>3 DEF TxsOk, NotYet
  <2>2. free' + hung' + Querying' + Cardinality(Holders') = PoolMax
    BY <1>1, <1>2, <1>3, PoolBooks
  <2> QED BY <1>3, <2>1, <2>2, PoolBooks DEF HealthInv
<1>4. CASE Health!handleReadiness
  <2>1. UNCHANGED <<free, hung>> /\ probe.pc # "query"
    BY <1>4 DEF Health!handleReadiness
  <2>2. /\ {"pc", "status", "code"} \subseteq DOMAIN probe' /\ probe'.pc \in {"db", "replied"}
        /\ phase # "up" => probe'.pc = "replied"
    <3>1. {"pc", "status", "code"} \subseteq DOMAIN Health!NoProbe
      BY DEF Health!NoProbe
    <3> DEFINE refused == [Health!NoProbe EXCEPT !.pc = "replied", !.code = 503]
               asks    == [Health!NoProbe EXCEPT !.pc = "db"]
    <3>2. /\ {"pc", "status", "code"} \subseteq DOMAIN refused /\ refused.pc = "replied"
          /\ {"pc", "status", "code"} \subseteq DOMAIN asks /\ asks.pc = "db"
      BY <3>1
    <3>3. probe' = refused \/ (phase = "up" /\ probe' = asks)
      BY <1>4 DEF Health!handleReadiness
    <3> HIDE DEF refused, asks
    <3> QED BY <3>2, <3>3
  <2>3. ProbeOk' /\ probe'.pc \in {"db", "replied"}
    BY <1>1, <2>1, <2>2 DEF ProbeOk
  <2> QED BY <1>1, <1>3, <2>1, <2>2, <2>3 DEF Querying, NotYet
<1>5. CASE Health!ProbeDatabase
  <2>1. /\ free' = free - 1 /\ hung' = hung /\ probe.pc = "db" /\ probe'.pc = "query"
    BY <1>1, <1>5 DEF Health!ProbeDatabase
  <2>2. ProbeOk'
    BY <1>1, <1>5, <2>1 DEF ProbeOk, Health!ProbeDatabase
  <2> QED BY <1>1, <1>3, <2>1, <2>2 DEF Querying, NotYet
<1>6. CASE Health!DatabaseAnswers
  <2>1. /\ free' = free + 1 /\ hung' = hung /\ probe.pc = "query" /\ probe'.pc = "account"
    BY <1>1, <1>6 DEF Health!DatabaseAnswers, Health!Observed
  <2>2. ProbeOk'
    BY <1>1, <1>6, <2>1 DEF ProbeOk, Health!DatabaseAnswers, Health!Observed
  <2> QED BY <1>1, <1>3, <2>1, <2>2 DEF Querying, NotYet
<1>7. CASE Health!DatabaseErrors
  <2>1. /\ free' = (IF probe.pc = "query" THEN free + 1 ELSE free) /\ hung' = hung
        /\ probe'.pc = "replied" /\ probe.pc \in {"db", "query"}
    BY <1>1, <1>7 DEF Health!DatabaseErrors
  <2>2. ProbeOk'
    BY <1>1, <1>7, <2>1 DEF ProbeOk, Health!DatabaseErrors
  <2> QED BY <1>1, <1>3, <2>1, <2>2 DEF Querying, NotYet
<1>8. CASE Health!DatabaseTimesOut
  <2>1. /\ hung' = (IF probe.pc = "query" THEN hung + 1 ELSE hung) /\ free' = free
        /\ probe'.pc = "replied" /\ probe.pc \in {"db", "query"}
    BY <1>1, <1>8 DEF Health!DatabaseTimesOut
  <2>2. ProbeOk'
    BY <1>1, <1>8, <2>1 DEF ProbeOk, Health!DatabaseTimesOut
  <2> QED BY <1>1, <1>3, <2>1, <2>2 DEF Querying, NotYet
<1>9. CASE Health!HungQueryEnds
  <2>1. hung > 0 /\ hung' = hung - 1 /\ free' = free + 1 /\ probe' = probe
    BY <1>9 DEF Health!HungQueryEnds
  <2>2. ProbeOk'
    BY <1>1, <2>1 DEF ProbeOk
  <2> QED BY <1>1, <1>3, <2>1, <2>2 DEF Querying, NotYet
<1>10. CASE \/ Health!AccountAnswers \/ Health!AccountFails \/ Health!SimulationAnswers
            \/ Health!SimulationFails \/ Health!SorobanTimesOut
  <2>1. /\ UNCHANGED <<free, hung>> /\ probe.pc \in {"account", "simulate"}
        /\ probe'.pc \in {"simulate", "replied"}
    BY <1>1, <1>10 DEF Health!AccountAnswers, Health!AccountFails, Health!SimulationAnswers,
       Health!SimulationFails, Health!SorobanTimesOut, Health!Observed
  <2>2. ProbeOk'
    BY <1>1, <1>10, <2>1 DEF ProbeOk, Health!AccountAnswers, Health!AccountFails,
       Health!SimulationAnswers, Health!SimulationFails, Health!SorobanTimesOut, Health!Observed
  <2> QED BY <1>1, <1>3, <2>1, <2>2 DEF Querying, NotYet
<1> QED BY <1>4, <1>5, <1>6, <1>7, <1>8, <1>9, <1>10

LEMMA HealthKept ==
  ASSUME HealthInv, [Health!Next]_healthVars
  PROVE  HealthInv'
<1>1. CASE UNCHANGED healthVars
  BY <1>1, PoolBooks DEF healthVars, HealthInv, TxsOk, ProbeOk, NotYet, Holders, Querying
<1>2. CASE Health!Next
  BY <1>2, HealthTx, HealthLife, HealthProbe DEF Health!Next, Health!Timers
<1> QED BY <1>1, <1>2

LEMMA HealthStart == Health!Init => HealthInv
<1> SUFFICES ASSUME Health!Init PROVE HealthInv
  OBVIOUS
<1>1. \A c \in Callers : TxOk(Health!NoTx) /\ tx[c] = Health!NoTx /\ Health!NoTx.pc = "idle"
  BY DEF Health!Init, Health!NoTx, TxOk, TxFields, TxPcs, TxParts
<1>2. /\ {"pc", "status", "code"} \subseteq DOMAIN probe /\ probe.pc = "idle"
      /\ free = PoolMax /\ PoolMax \in Nat /\ hung = 0 /\ DOMAIN tx = Callers
      /\ phase = "starting" /\ dataSource = "none"
  BY HealthAssumption DEF Health!Init, Health!NoProbe
<1>3. Holders = {}
  BY <1>1 DEF Holders, Health!Holding
<1>4. free + hung + Querying + Cardinality(Holders) = PoolMax
  BY <1>2, <1>3, FS_EmptySet DEF Querying
<1>5. TxsOk /\ ProbeOk /\ NotYet
  BY <1>1, <1>2, <1>3 DEF TxsOk, ProbeOk, NotYet
<1> QED BY <1>4, <1>5, PoolBooks DEF HealthInv

LEMMA HealthPromises == HealthInv => Health!AppliedOnce /\ Health!PoolAccounted
<1>1. TxsOk => Health!AppliedOnce
  BY DEF TxsOk, TxOk, TxParts, TxPcs, Health!AppliedOnce
<1> QED BY <1>1 DEF HealthInv
-----------------------------------------------------------------------------
\* What is tried again has its effect once, in either part: see EffectsOnce.
\* A connection in use is one a transaction or the readiness query will return.
THEOREM EffectsAlwaysOnce == MCSpec => []EffectsOnce
<1> DEFINE Parts == /\ part = "idempotency" => IdemInv
                    /\ part = "health" => HealthInv
<1>1. MCInit => Parts
  BY IdemStart, HealthStart DEF MCInit, IdemInit, HealthInit
<1>2. Parts /\ [MCNext]_mcVars => Parts'
  <2> SUFFICES ASSUME Parts, [MCNext]_mcVars PROVE Parts'
    OBVIOUS
  <2>1. part' = part
    BY DEF MCNext, IdemStep, HealthStep, mcVars
  <2>2. part = "idempotency" => [Idem!Next]_idemVars
    BY DEF MCNext, IdemStep, HealthStep, mcVars, idemVars
  <2>3. part = "health" => [Health!Next]_healthVars
    BY DEF MCNext, IdemStep, HealthStep, mcVars, healthVars
  <2> QED BY <2>1, <2>2, <2>3, IdemKept, HealthKept
<1>3. Parts => EffectsOnce
  BY IdemPromises, HealthPromises DEF EffectsOnce
<1> QED BY <1>1, <1>2, <1>3, PTL DEF MCSpec

-----------------------------------------------------------------------------
(* The event listener.  A page that is being looked up knows, of every     *)
(* payout up to where it stands, that it is fresh, that its transaction is *)
(* indexed already, or that its lookup failed; the commit makes rows of    *)
(* the fresh ones and moves the cursor over all of them in one step.       *)

ChainOk == chain \in Seq(Nat)

RowsOk == \A t \in DOMAIN rows : rows[t] \in 1..Tip /\ chain[rows[t]] = t

\* A position to poll from is the persisted one, or has yet to follow it; the
\* process may also have none.
CursorsOk ==
  /\ cursor \in (0..Tip) \cup {None}
  /\ dbCursor \in (0..Tip) \cup {None} /\ base \in (0..Tip) \cup {None}
  /\ base = None <=> dbCursor = None
  /\ proc = "down" => ~armed /\ poll.pc = "idle"
  /\ cursor # None /\ dbCursor # None /\ poll.pc # "publish" => cursor = dbCursor

\* Every transaction with a payout behind the cursor has a row.
NoTransactionSkipped ==
  dbCursor # None => \A e \in (base + 1)..dbCursor : chain[e] \in DOMAIN rows \/ e \in lost

\* The last position of the page that was looked up.
LookedUp == poll.next - Len(poll.todo)

PageOk ==
  /\ {"pc", "from", "next", "todo", "fresh", "failed"} \subseteq DOMAIN poll
  /\ poll.from \in 0..Tip /\ poll.next \in poll.from..Tip
  /\ poll.todo \in Seq(Int) /\ Len(poll.todo) <= poll.next - poll.from
  /\ \A i \in 1..Len(poll.todo) : poll.todo[i] = LookedUp + i
  /\ poll.fresh \in Seq(Int)
  /\ \A i \in DOMAIN poll.fresh : poll.fresh[i] \in (poll.from + 1)..LookedUp
  /\ \A i, j \in DOMAIN poll.fresh : poll.fresh[i] = poll.fresh[j] => i = j

\* What is fresh has no row yet, and what is not fresh is accounted for.
LookupOk ==
  /\ \A i \in DOMAIN poll.fresh : chain[poll.fresh[i]] \notin DOMAIN rows
  /\ \A e \in (poll.from + 1)..LookedUp :
       \/ \E i \in DOMAIN poll.fresh : poll.fresh[i] = e
       \/ chain[e] \in DOMAIN rows \/ e \in poll.failed
  /\ cursor # None => poll.from = cursor

\* What was stored can be told, and was not.
PublishOk ==
  /\ dbCursor = poll.next
  /\ \A i \in DOMAIN poll.fresh :
       Recorded(poll.fresh[i]) /\ \A j \in DOMAIN published : published[j] # poll.fresh[i]

PollOk ==
  /\ poll.pc \in {"idle", "lookup", "publish"}
  /\ poll.pc # "idle" => PageOk
  /\ poll.pc = "lookup" => LookupOk
  /\ poll.pc = "publish" => PublishOk

ToldOk == published \in Seq(Int) /\ PublishedOnce

\* The inductive invariant of the listener.
ListenerInv == ChainOk /\ RowsOk /\ CursorsOk /\ NoTransactionSkipped /\ PollOk /\ ToldOk

\* The chain only grows.
LEMMA PayoutAppends ==
  ASSUME ListenerInv, NEW n \in TxSizes, Payout(n)
  PROVE  /\ ChainOk' /\ Tip \in Nat /\ Tip' \in Nat /\ Tip' >= Tip
         /\ \A e \in 1..Tip : chain'[e] = chain[e]
<1> DEFINE more == [i \in 1..n |-> Tip + 1]
<1>1. n \in Nat /\ chain \in Seq(Nat) /\ Tip \in Nat /\ Tip = Len(chain)
  BY ListenerAssumption DEF ListenerInv, ChainOk, Tip
<1>2. more \in Seq(Nat) /\ Len(more) = n /\ \A i \in 1..n : more[i] = Tip + 1
  BY <1>1
<1>3. chain' = chain \o more
  BY DEF Payout
<1> HIDE DEF more
<1>4. /\ chain' \in Seq(Nat) /\ Len(chain') = Tip + n
      /\ \A e \in 1..Tip : chain'[e] = chain[e]
      /\ \A e \in (Tip + 1)..(Tip + n) : chain'[e] = more[e - Tip]
  <2>1. /\ chain' \in Seq(Nat) /\ Len(chain') = Tip + n
        /\ \A i \in 1..(Len(chain) + Len(more)) :
             chain'[i] = IF i <= Len(chain) THEN chain[i] ELSE more[i - Len(chain)]
    BY <1>1, <1>2, <1>3, ConcatProperties
  <2>2. \A i \in 1..(Tip + n) : chain'[i] = IF i <= Tip THEN chain[i] ELSE more[i - Tip]
    BY <1>1, <1>2, <2>1
  <2>3. \A e \in 1..Tip : chain'[e] = chain[e]
    BY <1>1, <2>2
  <2>4. \A e \in (Tip + 1)..(Tip + n) : chain'[e] = more[e - Tip]
    BY <1>1, <2>2
  <2> QED BY <2>1, <2>3, <2>4
<1>5. Tip' = Tip + n
  BY <1>4 DEF Tip
<1> QED BY <1>1, <1>4, <1>5 DEF ChainOk

LEMMA PayoutKeeps ==
  ASSUME ListenerInv, NEW n \in TxSizes, Payout(n)
  PROVE  ListenerInv'
<1>1. /\ ChainOk' /\ Tip \in Nat /\ Tip' \in Nat /\ Tip' >= Tip
      /\ \A e \in 1..Tip : chain'[e] = chain[e]
  BY PayoutAppends
<1>2. UNCHANGED <<rows, dbCursor, base, lost, cursor, proc, armed, poll, published>>
  BY DEF Payout, dbVars, workerVars
<1>3. RowsOk /\ CursorsOk /\ NoTransactionSkipped /\ PollOk /\ ToldOk
  BY DEF ListenerInv
<1>4. RowsOk'
  BY <1>1, <1>2, <1>3 DEF RowsOk
<1>5. CursorsOk'
  BY <1>1, <1>2, <1>3 DEF CursorsOk, None
<1>6. NoTransactionSkipped'
  BY <1>1, <1>2, <1>3 DEF NoTransactionSkipped, CursorsOk, None
<1>7. \A e \in Int : e >= 1 /\ Recorded(e) => Recorded(e)'
  BY <1>1, <1>2 DEF Recorded
<1>8. ToldOk'
  <2>1. \A t \in DOMAIN rows : rows[t] >= 1
    BY <1>1, <1>3 DEF RowsOk
  <2>2. \A i \in DOMAIN published : published[i] \in Int /\ published[i] >= 1
    BY <1>3, <2>1 DEF ToldOk, PublishedOnce, Recorded
  <2> QED BY <1>2, <1>3, <1>7, <2>2 DEF ToldOk, PublishedOnce
<1>9. PollOk'
  <2>1. poll.pc # "idle" => PageOk'
    BY <1>1, <1>2, <1>3 DEF PollOk, PageOk, LookedUp
  <2>2. poll.pc # "idle" =>
          LookedUp \in 0..Tip /\ \A i \in DOMAIN poll.fresh : poll.fresh[i] \in 1..Tip
    BY <1>1, <1>3 DEF PollOk, PageOk, LookedUp
  <2>3. ASSUME poll.pc = "lookup" PROVE LookupOk'
    <3>1. LookupOk /\ LookedUp' = LookedUp /\ poll.from \in Nat /\ LookedUp \in 0..Tip
      BY <1>1, <1>2, <1>3, <2>2, <2>3 DEF PollOk, PageOk, LookedUp
    <3>2. \A e \in (poll.from + 1)..LookedUp : e \in 1..Tip
      BY <1>1, <3>1
    <3> QED BY <1>1, <1>2, <2>2, <2>3, <3>1, <3>2 DEF LookupOk
  <2>4. poll.pc = "publish" => PublishOk'
    BY <1>2, <1>3, <1>7, <2>2 DEF PollOk, PublishOk
  <2> QED BY <1>2, <1>3, <2>1, <2>3, <2>4 DEF PollOk
<1> QED BY <1>1, <1>4, <1>5, <1>6, <1>8, <1>9 DEF ListenerInv

\* A step that stores and tells nothing is about the cursor and the page only.
LEMMA StoresNothing ==
  ASSUME ListenerInv, UNCHANGED <<chain, dbVars, published>>, CursorsOk', PollOk'
  PROVE  ListenerInv'
<1>1. ChainOk' /\ RowsOk' /\ ToldOk'
  BY DEF ListenerInv, ChainOk, RowsOk, ToldOk, PublishedOnce, Recorded, Tip, dbVars
<1>2. NoTransactionSkipped'
  BY DEF ListenerInv, NoTransactionSkipped, dbVars
<1> QED BY <1>1, <1>2 DEF ListenerInv

\* A page does not change while only the process does.
LEMMA SamePage ==
  ASSUME PollOk, UNCHANGED <<chain, dbVars, published, poll>>,
         poll.pc = "lookup" => cursor' = cursor
  PROVE  PollOk'
<1>1. poll.pc # "idle" => PageOk'
  BY DEF PollOk, PageOk, LookedUp, Tip
<1>2. poll.pc = "lookup" => LookupOk'
  BY DEF PollOk, LookupOk, LookedUp, dbVars
<1>3. poll.pc = "publish" => PublishOk'
  BY DEF PollOk, PublishOk, Recorded, Tip, dbVars
<1> QED BY <1>1, <1>2, <1>3 DEF PollOk

\* The life of the process.
LEMMA ProcessKeeps ==
  ASSUME ListenerInv, Boot \/ BootFailed \/ Stop \/ CloseDatabase \/ Exit \/ Crash
  PROVE  ListenerInv'
<1>1. CursorsOk /\ PollOk /\ ChainOk /\ Tip \in Nat /\ Tip' = Tip
  BY DEF ListenerInv, ChainOk, Tip, Boot, BootFailed, Stop, CloseDatabase, Exit, Crash, Forgotten
<1>2. UNCHANGED <<chain, dbVars, published>> /\ UNCHANGED <<rows, dbCursor, base, lost>>
  BY DEF Boot, BootFailed, Stop, CloseDatabase, Exit, Crash, Forgotten, dbVars
<1>3. CASE Boot \/ BootFailed
  <2>1. poll.pc = "idle" /\ poll' = poll /\ proc' = "up"
    BY <1>1, <1>3 DEF Boot, BootFailed, CursorsOk
  <2>2. \/ cursor' = None
        \/ cursor' \in 0..Tip /\ (dbCursor # None => cursor' = dbCursor)
    BY <1>1, <1>3, ListenerAssumption DEF Boot, BootFailed, CursorsOk, None
  <2>3. CursorsOk'
    BY <1>1, <1>2, <2>1, <2>2 DEF CursorsOk, None
  <2>4. PollOk'
    BY <1>1, <1>2, <2>1, SamePage
  <2> QED BY <1>2, <2>3, <2>4, StoresNothing
<1>4. CASE Stop \/ CloseDatabase
  <2>1. /\ poll' = poll /\ proc # "down" /\ proc' # "down" /\ cursor' = cursor
    BY <1>4 DEF Stop, CloseDatabase
  <2>2. CursorsOk'
    BY <1>1, <1>2, <2>1 DEF CursorsOk
  <2>3. PollOk'
    BY <1>1, <1>2, <2>1, SamePage
  <2> QED BY <1>2, <2>2, <2>3, StoresNothing
<1>5. CASE Exit \/ Crash
  <2>1. poll' = NoPoll /\ poll'.pc = "idle" /\ cursor' = None /\ ~armed'
    BY <1>5 DEF Exit, Crash, Forgotten, NoPoll
  <2>2. CursorsOk'
    BY <1>1, <1>2, <2>1 DEF CursorsOk
  <2>3. PollOk'
    BY <2>1 DEF PollOk
  <2> QED BY <1>2, <2>2, <2>3, StoresNothing
<1> QED BY <1>3, <1>4, <1>5

\* A poll that fails is forgotten.
LEMMA FailureKeeps ==
  ASSUME ListenerInv, PollFetchFails \/ CommitFails
  PROVE  ListenerInv'
<1>1. CursorsOk /\ PollOk /\ ChainOk
  BY DEF ListenerInv
<1>2. /\ UNCHANGED <<chain, dbVars, published>> /\ Tip' = Tip
      /\ UNCHANGED <<rows, dbCursor, base, lost>>
  BY DEF PollFetchFails, CommitFails, dbVars, Tip
<1>3. poll' = NoPoll /\ poll'.pc = "idle" /\ UNCHANGED <<proc, cursor>>
  BY DEF PollFetchFails, CommitFails, PollFails, NoPoll
<1>4. proc # "down"
  BY <1>1 DEF CursorsOk, PollFetchFails, CommitFails
<1>5. poll.pc # "publish"
  BY DEF PollFetchFails, CommitFails, NoPoll
<1>6. CursorsOk'
  BY <1>1, <1>2, <1>3, <1>4, <1>5 DEF CursorsOk
<1>7. PollOk'
  BY <1>3 DEF PollOk
<1> QED BY <1>2, <1>6, <1>7, StoresNothing

\* A page begins at the cursor with nothing looked up.
LEMMA FetchKeeps ==
  ASSUME ListenerInv, PollFetch
  PROVE  ListenerInv'
<1>1. CursorsOk /\ PollOk /\ ChainOk /\ Tip \in Nat /\ Tip' = Tip
  BY DEF ListenerInv, ChainOk, Tip, PollFetch
<1>2. /\ UNCHANGED <<chain, dbVars, published, proc, armed, cursor>>
      /\ UNCHANGED <<rows, dbCursor, base, lost>>
      /\ armed /\ poll.pc = "idle" /\ proc # "down"
  BY <1>1 DEF PollFetch, dbVars, workerVars, NoPoll, CursorsOk
<1> DEFINE from == IF cursor = None THEN Tip ELSE cursor
           next == Least(from + PageLimit, Tip)
           page == [i \in 1..(next - from) |-> from + i]
<1>3. poll' = [pc |-> "lookup", from |-> from, next |-> next, todo |-> page,
                fresh |-> <<>>, failed |-> {}]
  BY DEF PollFetch
<1>4. from \in 0..Tip /\ (cursor # None => from = cursor)
  BY <1>1 DEF CursorsOk
<1> HIDE DEF from
<1>5. next \in from..Tip
  BY <1>1, <1>4, ListenerAssumption DEF Least
<1> HIDE DEF next
<1>6. page \in Seq(Int) /\ Len(page) = next - from /\ \A i \in 1..Len(page) : page[i] = from + i
  <2>1. next - from \in Nat
    BY <1>1, <1>4, <1>5
  <2>2. \A i \in 1..(next - from) : from + i \in Int
    BY <1>4
  <2> QED BY <2>1, <2>2
<1> HIDE DEF page
<1>7. /\ {"pc", "from", "next", "todo", "fresh", "failed"} \subseteq DOMAIN poll'
      /\ poll'.pc = "lookup" /\ poll'.from = from /\ poll'.next = next
      /\ poll'.todo = page /\ poll'.fresh = <<>>
  BY <1>3
<1>8. LookedUp' = from
  BY <1>1, <1>4, <1>5, <1>6, <1>7 DEF LookedUp
<1>9. PageOk'
  BY <1>1, <1>4, <1>5, <1>6, <1>7, <1>8 DEF PageOk
<1>10. LookupOk'
  <2>1. (from + 1)..from = {}
    BY <1>1, <1>4
  <2> QED BY <1>2, <1>4, <1>7, <1>8, <2>1 DEF LookupOk
<1>11. PollOk'
  BY <1>7, <1>9, <1>10, <1>2 DEF PollOk
<1>12. CursorsOk'
  BY <1>1, <1>2, <1>7 DEF CursorsOk
<1> QED BY <1>2, <1>11, <1>12, StoresNothing

\* One payout of the page is looked up, or its lookup fails.
LEMMA LookupKeeps ==
  ASSUME ListenerInv, LookupEvent \/ LookupFails
  PROVE  ListenerInv'
<1> DEFINE at == LookedUp + 1
<1>1. /\ CursorsOk /\ PollOk /\ PageOk /\ LookupOk /\ ChainOk /\ Tip \in Nat /\ Tip' = Tip
      /\ poll.pc = "lookup" /\ poll.todo # <<>>
  BY DEF ListenerInv, PollOk, ChainOk, Tip, LookupEvent, LookupFails
<1>2. /\ UNCHANGED <<chain, dbVars, published, proc, armed, cursor>>
      /\ UNCHANGED <<rows, dbCursor, base, lost>>
  BY DEF LookupEvent, LookupFails, dbVars, workerVars
<1>3. /\ poll.todo \in Seq(Int) /\ Len(poll.todo) \in Nat /\ Len(poll.todo) > 0
      /\ Tail(poll.todo) \in Seq(Int) /\ Len(Tail(poll.todo)) = Len(poll.todo) - 1
      /\ \A i \in 1..Len(Tail(poll.todo)) : Tail(poll.todo)[i] = poll.todo[i + 1]
      /\ NextEvent = poll.todo[1]
  BY <1>1 DEF PageOk, NextEvent
<1>4. /\ NextEvent = at /\ LookedUp \in Int /\ at \in (poll.from + 1)..poll.next /\ at \in 1..Tip
  BY <1>1, <1>3 DEF PageOk, LookedUp
<1>5. /\ {"pc", "from", "next", "todo", "fresh", "failed"} \subseteq DOMAIN poll'
      /\ poll'.pc = "lookup" /\ poll'.from = poll.from /\ poll'.next = poll.next
      /\ poll'.todo = Tail(poll.todo)
  BY <1>1 DEF PageOk, LookupEvent, LookupFails
<1>6. LookedUp' = at
  BY <1>1, <1>3, <1>4, <1>5 DEF LookedUp, PageOk
<1>7. /\ \A e : e \in poll.failed => e \in poll'.failed
      /\ LookupFails => at \in poll'.failed
  BY <1>1, <1>4 DEF PageOk, LookupEvent, LookupFails
<1>8. ASSUME poll'.fresh = poll.fresh,
             chain[at] \in DOMAIN rows \/ at \in poll'.failed
      PROVE  PageOk' /\ LookupOk'
  <2>1. PageOk'
    BY <1>1, <1>3, <1>4, <1>5, <1>6, <1>8 DEF PageOk
  <2>2. \A e \in (poll.from + 1)..at : e \in (poll.from + 1)..LookedUp \/ e = at
    BY <1>1, <1>4 DEF PageOk
  <2>3. LookupOk'
    BY <1>1, <1>2, <1>5, <1>6, <1>7, <1>8, <2>2 DEF LookupOk
  <2> QED BY <2>1, <2>3
<1>9. ASSUME poll'.fresh = Append(poll.fresh, at), chain[at] \notin DOMAIN rows
      PROVE  PageOk' /\ LookupOk'
  <2>1. /\ poll.fresh \in Seq(Int) /\ Len(poll.fresh) \in Nat /\ DOMAIN poll.fresh = 1..Len(poll.fresh)
        /\ poll'.fresh \in Seq(Int) /\ DOMAIN poll'.fresh = 1..(Len(poll.fresh) + 1)
        /\ \A i \in DOMAIN poll.fresh : poll'.fresh[i] = poll.fresh[i]
        /\ poll'.fresh[Len(poll.fresh) + 1] = at
    BY <1>1, <1>4, <1>9 DEF PageOk
  <2>2. \A i \in DOMAIN poll'.fresh : i \in DOMAIN poll.fresh \/ i = Len(poll.fresh) + 1
    BY <2>1
  <2>3. \A i \in DOMAIN poll.fresh :
          poll.fresh[i] \in (poll.from + 1)..at /\ poll.fresh[i] # at
    BY <1>1, <1>4 DEF PageOk
  <2>4. PageOk'
    <3>1. \A i \in DOMAIN poll'.fresh : poll'.fresh[i] \in (poll.from + 1)..at
      <4>1. at \in (poll.from + 1)..at
        BY <1>1, <1>4 DEF PageOk
      <4> HIDE DEF at
      <4> QED BY <2>1, <2>2, <2>3, <4>1
    <3>2. \A i, j \in DOMAIN poll'.fresh : poll'.fresh[i] = poll'.fresh[j] => i = j
      <4>1. \A i, j \in DOMAIN poll.fresh : poll.fresh[i] = poll.fresh[j] => i = j
        BY <1>1 DEF PageOk
      <4> QED BY <2>1, <2>2, <2>3, <4>1
    <3>3. /\ poll'.from \in 0..Tip /\ poll'.next \in poll'.from..Tip
          /\ poll'.todo \in Seq(Int) /\ Len(poll'.todo) <= poll'.next - poll'.from
          /\ \A i \in 1..Len(poll'.todo) : poll'.todo[i] = at + i
      BY <1>1, <1>3, <1>4, <1>5 DEF PageOk
    <3> QED BY <1>1, <1>5, <1>6, <2>1, <3>1, <3>2, <3>3 DEF PageOk
  <2>5. \A i \in DOMAIN poll'.fresh : chain[poll'.fresh[i]] \notin DOMAIN rows
    BY <1>1, <1>9, <2>1, <2>2 DEF LookupOk
  <2>6. ASSUME NEW e \in (poll.from + 1)..at
        PROVE  \/ \E i \in DOMAIN poll'.fresh : poll'.fresh[i] = e
               \/ chain[e] \in DOMAIN rows \/ e \in poll'.failed
    <3>1. CASE e = at
      <4>1. Len(poll.fresh) + 1 \in DOMAIN poll'.fresh
        BY <2>1
      <4> QED BY <2>1, <3>1, <4>1
    <3>2. CASE e # at
      <4>1. e \in (poll.from + 1)..LookedUp
        BY <1>1, <1>4, <3>2 DEF PageOk
      <4>2. \A i \in DOMAIN poll.fresh : i \in DOMAIN poll'.fresh
        BY <2>1
      <4> QED BY <1>1, <1>7, <2>1, <4>1, <4>2 DEF LookupOk
    <3> QED BY <3>1, <3>2
  <2>7. LookupOk'
    BY <1>1, <1>2, <1>5, <1>6, <1>7, <2>5, <2>6 DEF LookupOk
  <2> QED BY <2>4, <2>7
<1>10. PageOk' /\ LookupOk'
  <2>1. CASE LookupEvent
    <3>1. poll'.fresh = IF chain[at] \in DOMAIN rows THEN poll.fresh ELSE Append(poll.fresh, at)
      BY <1>1, <1>4, <2>1 DEF LookupEvent, PageOk
    <3> QED BY <1>8, <1>9, <3>1
  <2>2. CASE LookupFails
    <3>1. poll'.fresh = poll.fresh
      BY <1>1, <2>2 DEF LookupFails, PageOk
    <3> QED BY <1>7, <1>8, <2>2, <3>1
  <2> QED BY <2>1, <2>2
<1>11. PollOk'
  BY <1>5, <1>10 DEF PollOk
<1>12. CursorsOk'
  BY <1>1, <1>2, <1>5 DEF CursorsOk
<1> QED BY <1>2, <1>11, <1>12, StoresNothing

\* The upsert keeps the rows there are and gives each fresh payout its own.
LEMMA UpsertStores ==
  ASSUME NEW fresh \in Seq(Int), OneRowPerTx(fresh),
         \A i \in DOMAIN fresh : chain[fresh[i]] \notin DOMAIN rows
  PROVE  /\ \A t \in DOMAIN rows : t \in DOMAIN Upserted(fresh) /\ Upserted(fresh)[t] = rows[t]
         /\ \A i \in DOMAIN fresh :
              /\ chain[fresh[i]] \in DOMAIN Upserted(fresh)
              /\ Upserted(fresh)[chain[fresh[i]]] = fresh[i]
         /\ \A t \in DOMAIN Upserted(fresh) :
              t \in DOMAIN rows \/ \E i \in DOMAIN fresh : t = chain[fresh[i]]
<1>1. DOMAIN Upserted(fresh) = DOMAIN rows \cup {chain[fresh[i]] : i \in DOMAIN fresh}
  BY DEF Upserted
<1>2. \A t \in DOMAIN rows : Upserted(fresh)[t] = rows[t]
  BY DEF Upserted
<1>3. ASSUME NEW i \in DOMAIN fresh
      PROVE  Upserted(fresh)[chain[fresh[i]]] = fresh[i]
  <2> DEFINE t == chain[fresh[i]]
             E == {fresh[j] : j \in DOMAIN fresh}
             e == CHOOSE x \in E : chain[x] = t
  <2>1. fresh[i] \in E /\ chain[fresh[i]] = t
    OBVIOUS
  <2>2. e \in E /\ chain[e] = t
    BY <2>1
  <2>3. PICK j \in DOMAIN fresh : e = fresh[j]
    BY <2>2
  <2>4. j = i
    BY <2>2, <2>3 DEF OneRowPerTx
  <2>5. Upserted(fresh)[t] = e
    BY DEF Upserted
  <2> QED BY <2>3, <2>4, <2>5
<1> QED BY <1>1, <1>2, <1>3

\* The rows of the page and the cursor after it are stored together.
LEMMA CommitKeeps ==
  ASSUME ListenerInv, Commit
  PROVE  ListenerInv'
<1>1. /\ CursorsOk /\ PollOk /\ PageOk /\ LookupOk /\ ChainOk /\ RowsOk /\ ToldOk
      /\ Tip \in Nat /\ Tip' = Tip /\ poll.pc = "lookup" /\ poll.todo = <<>> /\ proc # "closed"
  BY DEF ListenerInv, PollOk, ChainOk, Tip, Commit
<1>2. /\ UNCHANGED <<chain, published, proc, armed, cursor>>
      /\ dbCursor' = poll.next /\ rows' = Upserted(poll.fresh)
      /\ base' = IF base = None THEN poll.from ELSE base
      /\ lost' = lost \cup LeftBehind
  BY DEF Commit, workerVars
<1>3. /\ {"pc", "from", "next", "todo", "fresh", "failed"} \subseteq DOMAIN poll'
      /\ poll'.pc = "publish" /\ poll'.from = poll.from /\ poll'.next = poll.next
      /\ poll'.todo = poll.todo /\ poll'.fresh = poll.fresh
  BY <1>1 DEF Commit, PageOk
<1>4. LookedUp = poll.next /\ poll.next \in 0..Tip /\ poll.from \in 0..poll.next
  BY <1>1 DEF LookedUp, PageOk
<1>5. /\ \A t \in DOMAIN rows : t \in DOMAIN rows' /\ rows'[t] = rows[t]
      /\ \A i \in DOMAIN poll.fresh :
           chain[poll.fresh[i]] \in DOMAIN rows' /\ rows'[chain[poll.fresh[i]]] = poll.fresh[i]
      /\ \A t \in DOMAIN rows' :
           t \in DOMAIN rows \/ \E i \in DOMAIN poll.fresh : t = chain[poll.fresh[i]]
  <2>1. /\ poll.fresh \in Seq(Int) /\ OneRowPerTx(poll.fresh)
        /\ \A i \in DOMAIN poll.fresh : chain[poll.fresh[i]] \notin DOMAIN rows
    BY <1>1 DEF PageOk, LookupOk, Commit
  <2> QED BY <1>2, <2>1, UpsertStores
<1>6. \A i \in DOMAIN poll.fresh : poll.fresh[i] \in 1..Tip
  BY <1>1, <1>4 DEF PageOk
<1>7. \A e : Recorded(e) => Recorded(e)'
  BY <1>1, <1>2, <1>5 DEF Recorded
<1>8. ChainOk' /\ RowsOk' /\ ToldOk'
  <2>1. RowsOk'
    BY <1>1, <1>2, <1>5, <1>6 DEF RowsOk
  <2>2. ToldOk'
    BY <1>1, <1>2, <1>7 DEF ToldOk, PublishedOnce
  <2> QED BY <1>1, <1>2, <2>1, <2>2 DEF ChainOk, Tip
<1>9. CursorsOk'
  BY <1>1, <1>2, <1>3, <1>4 DEF CursorsOk, None
<1>10. PollOk'
  <2>1. LookedUp' = LookedUp
    BY <1>3 DEF LookedUp
  <2>2. PageOk'
    BY <1>1, <1>3, <2>1 DEF PageOk
  <2>3. \A i \in DOMAIN poll.fresh : Recorded(poll.fresh[i])'
    BY <1>1, <1>2, <1>3, <1>5, <1>6 DEF Recorded
  <2>4. \A i \in DOMAIN poll.fresh, j \in DOMAIN published : published[j] # poll.fresh[i]
    BY <1>1 DEF LookupOk, ToldOk, PublishedOnce, Recorded
  <2>5. PublishOk'
    BY <1>2, <1>3, <2>3, <2>4 DEF PublishOk
  <2> QED BY <1>3, <2>2, <2>5 DEF PollOk
<1>11. NoTransactionSkipped'
  <2> SUFFICES ASSUME NEW e \in (base' + 1)..dbCursor'
               PROVE  chain[e] \in DOMAIN rows' \/ e \in lost'
    BY <1>1, <1>2 DEF NoTransactionSkipped
  <2>1. base # None <=> dbCursor # None
    BY <1>1 DEF CursorsOk
  <2>2. \/ e \in (poll.from + 1)..poll.next
        \/ base # None /\ e \in (base + 1)..dbCursor
        \/ dbCursor # None /\ e \in (dbCursor + 1)..poll.from
    BY <1>1, <1>2, <1>4, <2>1 DEF CursorsOk, None
  <2>3. CASE e \in (poll.from + 1)..poll.next
    BY <1>1, <1>2, <1>4, <1>5, <2>3 DEF LookupOk, LeftBehind
  <2>4. CASE base # None /\ e \in (base + 1)..dbCursor
    BY <1>2, <1>5, <2>1, <2>4 DEF ListenerInv, NoTransactionSkipped
  <2>5. CASE dbCursor # None /\ e \in (dbCursor + 1)..poll.from
    <3>1. CASE cursor = None
      BY <1>2, <2>5, <3>1 DEF LeftBehind
    <3>2. CASE cursor # None
      <4>1. poll.from = dbCursor /\ dbCursor \in Nat
        BY <1>1, <2>5, <3>2 DEF LookupOk, CursorsOk, None
      <4> QED BY <2>5, <4>1
    <3> QED BY <3>1, <3>2
  <2> QED BY <2>2, <2>3, <2>4, <2>5
<1> QED BY <1>8, <1>9, <1>10, <1>11 DEF ListenerInv

\* The page that was stored is told, and the cursor follows.
LEMMA PublishKeeps ==
  ASSUME ListenerInv, Publish
  PROVE  ListenerInv'
<1>1. /\ CursorsOk /\ PollOk /\ PageOk /\ PublishOk /\ ChainOk /\ RowsOk /\ ToldOk
      /\ NoTransactionSkipped /\ Tip \in Nat /\ Tip' = Tip /\ poll.pc = "publish"
  BY DEF ListenerInv, PollOk, ChainOk, Tip, Publish
<1>2. /\ UNCHANGED <<chain, proc, rows, dbCursor, base, lost>>
      /\ cursor' = poll.next /\ published' = published \o poll.fresh
      /\ poll' = NoPoll /\ poll'.pc = "idle"
  BY DEF Publish, dbVars, NoPoll
<1>3. ChainOk' /\ RowsOk' /\ NoTransactionSkipped' /\ PollOk'
  BY <1>1, <1>2 DEF ChainOk, RowsOk, NoTransactionSkipped, PollOk, Tip
<1>4. CursorsOk'
  <2>1. poll.next \in 0..Tip /\ proc # "down"
    BY <1>1 DEF PageOk, CursorsOk
  <2> QED BY <1>1, <1>2, <2>1 DEF CursorsOk, PublishOk, None
<1>5. ToldOk'
  <2> DEFINE m == Len(published)
             n == Len(poll.fresh)
  <2>1. /\ published \in Seq(Int) /\ poll.fresh \in Seq(Int) /\ m \in Nat /\ n \in Nat
        /\ DOMAIN published = 1..m /\ DOMAIN poll.fresh = 1..n
    BY <1>1 DEF ToldOk, PageOk
  <2>2. /\ published' \in Seq(Int) /\ Len(published') = m + n
        /\ \A i \in 1..(m + n) : published'[i] = IF i <= m THEN published[i] ELSE poll.fresh[i - m]
    BY <1>2, <2>1, ConcatProperties
  <2>3. DOMAIN published' = 1..(m + n)
    BY <2>2
  <2> HIDE DEF m, n
  <2>4. ASSUME NEW i \in 1..(m + n)
        PROVE  \/ i \in 1..m /\ published'[i] = published[i]
               \/ i - m \in 1..n /\ i > m /\ published'[i] = poll.fresh[i - m]
    BY <2>1, <2>2
  <2>5. /\ \A i \in 1..m : Recorded(published[i])
        /\ \A i, j \in 1..m : published[i] = published[j] => i = j
        /\ \A i \in 1..n : Recorded(poll.fresh[i])
        /\ \A i, j \in 1..n : poll.fresh[i] = poll.fresh[j] => i = j
        /\ \A i \in 1..n, j \in 1..m : published[j] # poll.fresh[i]
    BY <1>1, <2>1 DEF ToldOk, PublishedOnce, PublishOk, PageOk
  <2>6. \A e : Recorded(e) => Recorded(e)'
    BY <1>1, <1>2 DEF Recorded
  <2>7. \A i \in 1..(m + n) : Recorded(published[i])'
    <3> SUFFICES ASSUME NEW i \in 1..(m + n) PROVE Recorded(published[i])'
      OBVIOUS
    <3>1. PICK e : e = published'[i] /\ Recorded(e)
      BY <2>4, <2>5
    <3>2. Recorded(e)'
      BY <2>6, <3>1
    <3> QED BY <3>1, <3>2 DEF Recorded
  <2>8. ASSUME NEW i \in 1..(m + n), NEW j \in 1..(m + n), published'[i] = published'[j]
        PROVE  i = j
    <3>1. \/ i \in 1..m /\ published'[i] = published[i]
          \/ i - m \in 1..n /\ i > m /\ published'[i] = poll.fresh[i - m]
      BY <2>4
    <3>2. \/ j \in 1..m /\ published'[j] = published[j]
          \/ j - m \in 1..n /\ j > m /\ published'[j] = poll.fresh[j - m]
      BY <2>4
    <3>3. CASE i \in 1..m /\ j \in 1..m
      BY <2>1, <2>5, <2>8, <3>1, <3>2, <3>3
    <3>4. CASE i - m \in 1..n /\ i > m /\ j - m \in 1..n /\ j > m
      <4>1. i - m = j - m
        BY <2>1, <2>5, <2>8, <3>1, <3>2, <3>4
      <4> QED BY <2>1, <4>1
    <3> QED BY <2>1, <2>5, <2>8, <3>1, <3>2, <3>3, <3>4
  <2> QED BY <2>2, <2>3, <2>7, <2>8 DEF ToldOk, PublishedOnce
<1> QED BY <1>1, <1>3, <1>4, <1>5 DEF ListenerInv

LEMMA ListenerStarts == Init => ListenerInv
<1> SUFFICES ASSUME Init PROVE ListenerInv
  OBVIOUS
<1>1. Tip = 0 /\ ChainOk
  BY DEF Init, Tip, ChainOk
<1>2. RowsOk /\ NoTransactionSkipped /\ ToldOk
  BY DEF Init, RowsOk, NoTransactionSkipped, ToldOk, PublishedOnce
<1>3. CursorsOk /\ PollOk
  BY <1>1 DEF Init, CursorsOk, PollOk, NoPoll
<1> QED BY <1>1, <1>2, <1>3 DEF ListenerInv

LEMMA ListenerKept == ListenerInv /\ [Next]_vars => ListenerInv'
<1> SUFFICES ASSUME ListenerInv, [Next]_vars PROVE ListenerInv'
  OBVIOUS
<1>1. CASE UNCHANGED vars
  BY <1>1 DEF vars, dbVars, workerVars, ListenerInv, ChainOk, RowsOk, CursorsOk,
              NoTransactionSkipped, PollOk, PageOk, LookedUp, LookupOk,
              PublishOk, ToldOk, PublishedOnce, Recorded, Tip
<1>2. CASE Next
  BY <1>2, PayoutKeeps, ProcessKeeps, FailureKeeps, FetchKeeps, LookupKeeps, CommitKeeps,
     PublishKeeps DEF Next
<1> QED BY <1>1, <1>2

\* Connected clients hear of a payout at most once, and only of a stored one
\* (pollEvents tells the buses after the commit), however often pages are
\* fetched again.
THEOREM ToldAtMostOnce == Spec => []PublishedOnce
<1>1. ListenerInv => PublishedOnce
  BY DEF ListenerInv, ToldOk
<1> QED BY <1>1, ListenerStarts, ListenerKept, PTL DEF Spec

\* A row stands for every payout of its transaction.
LEMMA RowsIndex == ListenerInv => NoPaymentSkipped
<1> SUFFICES ASSUME ListenerInv, dbCursor # None, NEW e \in (base + 1)..dbCursor
             PROVE  Indexed(e) \/ e \in lost
  BY DEF NoPaymentSkipped
<1>1. CASE chain[e] \in DOMAIN rows
  <2>1. rows[chain[e]] \in 1..Tip /\ chain[rows[chain[e]]] = chain[e] /\ Tip \in Nat
    BY <1>1 DEF ListenerInv, RowsOk, ChainOk, Tip
  <2>2. Recorded(rows[chain[e]])
    BY <1>1, <2>1 DEF Recorded
  <2> QED BY <2>1, <2>2 DEF Indexed
<1> QED BY <1>1 DEF ListenerInv, NoTransactionSkipped

\* No payout is skipped but those a commit leaves behind (LeftBehind), and none
\* is told twice, however many payouts a transaction makes: pollEvents stores
\* the rows and the cursor together.
THEOREM PaymentsAlwaysOnce == Spec => []PaymentsOnce
<1>1. ListenerInv => PaymentsOnce
  BY RowsIndex DEF PaymentsOnce, ListenerInv, ToldOk
<1> QED BY <1>1, ListenerStarts, ListenerKept, PTL DEF Spec

\* Nothing is lost without a failed lookup or a start that could not read the
\* cursor: crashes, shutdowns and failures of the node or of the commit alone
\* leave nothing behind.
Unharmed ==
  /\ {"rpc", "lookup", "boot", "restart"} \subseteq DOMAIN faults
  /\ faults.lookup \in Nat /\ faults.boot \in Nat
  /\ lost = {}
  /\ proc # "down" => cursor # None
  /\ poll.pc = "lookup" /\ proc # "closed" => poll.failed = {}

LEMMA UnharmedKept ==
  ASSUME MaxLookupFaults = 0, MaxBootFaults = 0, ListenerInv, Unharmed, [Next]_vars
  PROVE  Unharmed'
<1>1. /\ CursorsOk /\ PollOk /\ Tip \in Nat
      /\ {"rpc", "lookup", "boot", "restart"} \subseteq DOMAIN faults
      /\ faults.lookup \in Nat /\ faults.boot \in Nat /\ lost = {}
      /\ proc # "down" => cursor # None
      /\ poll.pc = "lookup" /\ proc # "closed" => poll.failed = {}
  BY DEF ListenerInv, ChainOk, Tip, Unharmed
<1>2. ~Fault("lookup", MaxLookupFaults) /\ ~Fault("boot", MaxBootFaults)
  BY <1>1 DEF Fault
<1>3. ASSUME NEW kind \in {"rpc", "restart"}, NEW max, Fault(kind, max)
      PROVE  /\ {"rpc", "lookup", "boot", "restart"} \subseteq DOMAIN faults'
             /\ faults'.lookup \in Nat /\ faults'.boot \in Nat
  BY <1>1, <1>3 DEF Fault
<1>4. CASE UNCHANGED vars
  BY <1>1, <1>4 DEF vars, dbVars, workerVars, Unharmed
<1>5. CASE \E n \in TxSizes : Payout(n)
  BY <1>1, <1>5 DEF Payout, dbVars, workerVars, Unharmed
<1>6. CASE Boot
  <2>1. cursor' # None /\ poll' = poll /\ poll.pc = "idle"
    BY <1>1, <1>6, ListenerAssumption DEF Boot, CursorsOk, None
  <2> QED BY <1>1, <1>6, <2>1 DEF Boot, dbVars, Unharmed
<1>7. CASE PollFetch
  <2>1. /\ UNCHANGED <<lost, faults, proc, cursor>> /\ poll'.failed = {}
    BY <1>7 DEF PollFetch, dbVars, workerVars
  <2> QED BY <1>1, <2>1 DEF Unharmed
<1>8. CASE PollFetchFails \/ CommitFails
  <2>1. UNCHANGED <<lost, proc, cursor>> /\ poll' = NoPoll /\ poll'.pc = "idle"
    BY <1>8 DEF PollFetchFails, CommitFails, PollFails, dbVars, NoPoll
  <2>2. Fault("rpc", MaxFaults) \/ faults' = faults
    BY <1>8 DEF PollFetchFails, CommitFails
  <2> QED BY <1>1, <1>3, <2>1, <2>2 DEF Unharmed
<1>9. CASE LookupEvent
  <2>1. /\ UNCHANGED <<lost, faults, proc, cursor>> /\ poll'.failed = poll.failed
        /\ poll.pc = "lookup"
    BY <1>1, <1>9 DEF LookupEvent, PollOk, PageOk, dbVars, workerVars
  <2> QED BY <1>1, <2>1 DEF Unharmed
<1>10. CASE LookupFails
  <2>1. UNCHANGED <<lost, faults, proc, cursor>> /\ proc = "closed"
    BY <1>2, <1>10 DEF LookupFails, dbVars, workerVars
  <2> QED BY <1>1, <2>1 DEF Unharmed
<1>11. CASE Commit
  <2>1. LeftBehind = {}
    <3>1. proc # "down"
      BY <1>1, <1>11 DEF Commit, CursorsOk
    <3> QED BY <1>1, <1>11, <3>1 DEF Commit, LeftBehind
  <2>2. UNCHANGED <<faults, proc, cursor>> /\ lost' = {} /\ poll'.pc = "publish"
    BY <1>1, <1>11, <2>1 DEF Commit, workerVars, PollOk, PageOk
  <2> QED BY <1>1, <2>2 DEF Unharmed
<1>12. CASE Publish
  <2>1. /\ UNCHANGED <<lost, faults, proc>> /\ poll' = NoPoll /\ poll'.pc = "idle"
        /\ cursor' = poll.next
    BY <1>12 DEF Publish, dbVars, NoPoll
  <2>2. cursor' # None
    BY <1>1, <1>12, <2>1 DEF Publish, PollOk, PageOk, None
  <2> QED BY <1>1, <2>1, <2>2 DEF Unharmed
<1>13. CASE Stop \/ CloseDatabase
  <2>1. /\ UNCHANGED <<lost, cursor, poll>> /\ proc # "down"
        /\ proc # "closed" /\ (Fault("restart", MaxRestarts) \/ faults' = faults)
    BY <1>13 DEF Stop, CloseDatabase, dbVars
  <2> QED BY <1>1, <1>3, <2>1 DEF Unharmed
<1>14. CASE Exit \/ Crash
  <2>1. /\ UNCHANGED lost /\ proc' = "down" /\ poll' = NoPoll /\ poll'.pc = "idle"
        /\ Fault("restart", MaxRestarts) \/ faults' = faults
    BY <1>14 DEF Exit, Crash, Forgotten, dbVars, NoPoll
  <2> QED BY <1>1, <1>3, <2>1 DEF Unharmed
<1> QED BY <1>2, <1>4, <1>5, <1>6, <1>7, <1>8, <1>9, <1>10, <1>11, <1>12, <1>13, <1>14
    DEF Next, BootFailed

\* "after a restart we never skip events relative to what was committed"
\* (pollEvents), as long as no lookup throws and every start reads the cursor:
\* for any crashes, shutdowns, failures of the node and refused commits.
THEOREM NothingSkippedUnharmed ==
  ASSUME MaxLookupFaults = 0, MaxBootFaults = 0
  PROVE  Spec => []NothingSkipped
<1>1. Init => Unharmed
  BY DEF Init, Unharmed, NoPoll
<1>2. ListenerInv /\ Unharmed => NothingSkipped
  BY RowsIndex DEF NoPaymentSkipped, NothingSkipped, Unharmed
<1>3. ListenerInv /\ Unharmed /\ [Next]_vars => Unharmed'
  BY UnharmedKept
<1> QED BY <1>1, <1>2, <1>3, ListenerStarts, ListenerKept, PTL DEF Spec
=============================================================================
