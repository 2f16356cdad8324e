--------------------------- MODULE EventListener ---------------------------
(***************************************************************************)
(* The worker that indexes payouts (backend/src/services/                  *)
(* EventListenerService.ts): it polls the contract's events page by page   *)
(* and stores a transaction row per payout, together with the cursor of    *)
(* the page, in one database transaction.                                  *)
(*                                                                         *)
(* Node runs one callback at a time, so a step is what happens between two *)
(* awaits.  An event is its position on the chain; the chain keeps only    *)
(* payouts (payment_sent, collaborator_claimed), the other events are      *)
(* skipped without a trace.  A cursor is the position it stands after, and *)
(* so is lastProcessedLedger, which therefore moves with the cursor.       *)
(***************************************************************************)
EXTENDS Integers, Sequences, FiniteSets

CONSTANTS
  TxSizes,       \* how many payouts a transaction may hold
  PageLimit,     \* the limit of getEvents
  Lookback,      \* STARTUP_LOOKBACK_LEDGERS, no more than MAX_CATCHUP_LEDGERS
  ErrorThreshold,\* ERROR_THRESHOLD
  MaxEvents,     \* bound on the length of the chain
  MaxFaults,     \* bound on failures of the RPC and of the database commit
  MaxLookupFaults, \* bound on payouts whose row lookup fails
  MaxBootFaults, \* bound on failures to find the start position
  MaxRestarts    \* bound on crashes and shutdowns

ASSUME ListenerAssumption ==
  /\ TxSizes \subseteq Nat \ {0}
  /\ PageLimit \in Nat \ {0} /\ ErrorThreshold \in Nat \ {0, 1}
  /\ {Lookback, MaxEvents, MaxFaults, MaxLookupFaults, MaxBootFaults,
      MaxRestarts} \subseteq Nat

None == -1

VARIABLES
  chain,     \* the transaction of every payout, in ledger order
  rows,      \* table transactions: txHash -> the payout its row describes
  dbCursor,  \* ServiceState: the persisted cursor
  proc,      \* the process: "down", "up", "stopping" or "closed" (no database)
  cursor,    \* in memory: the position to poll from, or None
  armed,     \* pollInterval is set
  delay,     \* currentPollDelayMs: "normal" or "backoff"
  errors,    \* consecutiveErrors, up to ErrorThreshold
  poll,      \* the poll in flight
  published, \* history: payouts sent to the event buses, in order
  base,      \* history: the position of the first poll that was committed
  lost,      \* history: payouts a commit left behind without a row
  faults     \* history: what the bounds count

workerVars == <<proc, cursor, armed, delay, errors>>
dbVars == <<rows, dbCursor, base, lost>>
vars == <<chain, dbVars, workerVars, poll, published, faults>>

NoPoll == [pc |-> "idle"]

TypeOK ==
  /\ chain \in Seq(Nat)
  /\ DOMAIN rows \subseteq Nat
  /\ dbCursor \in Nat \cup {None} /\ cursor \in Nat \cup {None}
  /\ proc \in {"down", "up", "stopping", "closed"}
  /\ armed \in BOOLEAN /\ delay \in {"normal", "backoff"}
  /\ errors \in 0..ErrorThreshold
  /\ poll = NoPoll \/ poll.pc \in {"lookup", "publish"}
  /\ published \in Seq(Nat) /\ lost \subseteq 1..MaxEvents

Init ==
  /\ chain = <<>> /\ rows = <<>> /\ dbCursor = None
  /\ proc = "down" /\ cursor = None
  /\ armed = FALSE /\ delay = "normal" /\ errors = 0
  /\ poll = NoPoll /\ published = <<>> /\ base = None /\ lost = {}
  /\ faults = [rpc |-> 0, lookup |-> 0, boot |-> 0, restart |-> 0]

Tip == Len(chain)
Least(a, b) == IF a < b THEN a ELSE b
Fault(kind, max) ==
  /\ faults[kind] < max
  /\ faults' = [faults EXCEPT ![kind] = @ + 1]
-----------------------------------------------------------------------------
\* A transaction of n payouts: a claim has one, a distribution one for each
\* collaborator with a share.
Payout(n) ==
  /\ Tip + n <= MaxEvents
  /\ chain' = chain \o [i \in 1..n |-> Tip + 1]
  /\ UNCHANGED <<dbVars, workerVars, poll, published, faults>>

\* schedulePolling(d): arms the timer, whether or not it was armed.
SchedulePolling(d) == armed' = TRUE /\ delay' = d

\* Faulty variant: the start position is always the one behind the tip.
BootFromLookback ==
  /\ proc = "down"
  /\ proc' = "up" /\ errors' = 0 /\ SchedulePolling("normal")
  /\ cursor' = IF Tip > Lookback THEN Tip - Lookback ELSE 0
  /\ UNCHANGED <<chain, dbVars, poll, published, faults>>

\* startEventListenerService, called once in the life of a process.  Without a
\* persisted cursor it looks a little behind the tip.
Boot ==
  /\ proc = "down"
  /\ proc' = "up" /\ errors' = 0 /\ SchedulePolling("normal")
  /\ cursor' = IF dbCursor # None THEN dbCursor
               ELSE IF Tip > Lookback THEN Tip - Lookback ELSE 0
  /\ UNCHANGED <<chain, dbVars, poll, published, faults>>

\* Its catch block: the start position is unknown, "Polling from latest".
BootFailed ==
  /\ proc = "down"
  /\ Fault("boot", MaxBootFaults)
  /\ proc' = "up" /\ errors' = 0 /\ SchedulePolling("normal")
  /\ cursor' = None
  /\ UNCHANGED <<chain, dbVars, poll, published>>

\* recordPollFailure
RecordPollFailure ==
  /\ errors' = Least(errors + 1, ErrorThreshold)
  /\ IF errors' >= ErrorThreshold /\ delay # "backoff"
     THEN SchedulePolling("backoff")
     ELSE UNCHANGED <<armed, delay>>

\* recordPollSuccess
RecordPollSuccess ==
  /\ errors' = 0
  /\ IF delay # "normal" THEN SchedulePolling("normal")
     ELSE UNCHANGED <<armed, delay>>

\* The catch and finally blocks of pollEvents.
PollFails ==
  /\ poll' = NoPoll
  /\ RecordPollFailure
  /\ UNCHANGED <<proc, cursor>>
-----------------------------------------------------------------------------
\* pollEvents up to the answer of getEvents: a full page after the position.
PollFetch ==
  LET from == IF cursor = None THEN Tip ELSE cursor
      next == Least(from + PageLimit, Tip)
  IN  /\ armed /\ poll = NoPoll
      /\ poll' = [pc |-> "lookup", from |-> from, next |-> next,
                  todo |-> [i \in 1..(next - from) |-> from + i],
                  fresh |-> <<>>, failed |-> {}]
      /\ UNCHANGED <<chain, dbVars, workerVars, published, faults>>

\* getEvents fails, or the page or one of its payouts is malformed.
PollFetchFails ==
  /\ armed /\ poll = NoPoll
  /\ Fault("rpc", MaxFaults)
  /\ PollFails
  /\ UNCHANGED <<chain, dbVars, published>>

NextEvent == Head(poll.todo)

\* Faulty variant: a payout is announced before it is stored.
LookupEventAnnounced ==
  /\ poll.pc = "lookup" /\ poll.todo # <<>>
  /\ proc # "closed"
  /\ poll' = [poll EXCEPT !.todo = Tail(@),
                          !.fresh = IF chain[NextEvent] \in DOMAIN rows THEN @
                                    ELSE Append(@, NextEvent)]
  /\ published' = IF chain[NextEvent] \in DOMAIN rows THEN published
                  ELSE Append(published, NextEvent)
  /\ UNCHANGED <<chain, dbVars, workerVars, faults>>

\* findOneBy({ txHash }): an indexed transaction is skipped.
LookupEvent ==
  /\ poll.pc = "lookup" /\ poll.todo # <<>>
  /\ proc # "closed"
  /\ poll' = [poll EXCEPT !.todo = Tail(@),
                          !.fresh = IF chain[NextEvent] \in DOMAIN rows THEN @
                                    ELSE Append(@, NextEvent)]
  /\ UNCHANGED <<chain, dbVars, workerVars, published, faults>>

\* The lookup throws: the error is logged and the loop goes on, because only a
\* malformed payout fails the batch.
LookupFails ==
  /\ poll.pc = "lookup" /\ poll.todo # <<>>
  /\ IF proc = "closed" THEN UNCHANGED faults
     ELSE Fault("lookup", MaxLookupFaults)
  /\ poll' = [poll EXCEPT !.todo = Tail(@), !.failed = @ \cup {NextEvent}]
  /\ UNCHANGED <<chain, dbVars, workerVars, published>>

\* Two rows for one conflict target in an upsert are an error of Postgres.
OneRowPerTx(fresh) ==
  \A i, j \in DOMAIN fresh : chain[fresh[i]] = chain[fresh[j]] => i = j

Upserted(fresh) ==
  [t \in DOMAIN rows \cup {chain[fresh[i]] : i \in DOMAIN fresh} |->
     IF t \in DOMAIN rows THEN rows[t]
     ELSE CHOOSE e \in {fresh[i] : i \in DOMAIN fresh} : chain[e] = t]

\* What the commit of this page leaves behind: the payouts whose lookup threw,
\* and, when the page was read from the latest ledger because the start could
\* not read the persisted cursor, what lies between the two.
LeftBehind ==
  poll.failed \cup
    (IF cursor = None /\ dbCursor # None THEN (dbCursor + 1)..poll.from ELSE {})

\* Faulty variant: the cursor is written even when the rows are refused.
CommitCursorFirst ==
  /\ poll.pc = "lookup" /\ poll.todo = <<>>
  /\ proc # "closed"
  /\ rows' = rows
  /\ dbCursor' = poll.next
  /\ base' = IF base = None THEN poll.from ELSE base
  /\ lost' = lost \cup LeftBehind
  /\ poll' = [poll EXCEPT !.pc = "publish"]
  /\ UNCHANGED <<chain, workerVars, published, faults>>

\* The transaction that stores the rows and the cursor.
Commit ==
  /\ poll.pc = "lookup" /\ poll.todo = <<>>
  /\ proc # "closed"
  /\ OneRowPerTx(poll.fresh)
  /\ rows' = Upserted(poll.fresh)
  /\ dbCursor' = poll.next
  /\ base' = IF base = None THEN poll.from ELSE base
  /\ lost' = lost \cup LeftBehind
  /\ poll' = [poll EXCEPT !.pc = "publish"]
  /\ UNCHANGED <<chain, workerVars, published, faults>>

CommitFails ==
  /\ poll.pc = "lookup" /\ poll.todo = <<>>
  /\ IF proc = "closed" \/ ~OneRowPerTx(poll.fresh) THEN UNCHANGED faults
     ELSE Fault("rpc", MaxFaults)
  /\ PollFails
  /\ UNCHANGED <<chain, dbVars, published>>

\* Faulty variant: the next poll starts at the tip the page reported.
PublishToTip ==
  /\ poll.pc = "publish"
  /\ published' = published \o poll.fresh
  /\ cursor' = Tip
  /\ RecordPollSuccess
  /\ poll' = NoPoll
  /\ UNCHANGED <<chain, dbVars, proc, faults>>

\* After the commit: the buses are told and the cursor in memory advances.
Publish ==
  /\ poll.pc = "publish"
  /\ published' = published \o poll.fresh
  /\ cursor' = poll.next
  /\ RecordPollSuccess
  /\ poll' = NoPoll
  /\ UNCHANGED <<chain, dbVars, proc, faults>>
-----------------------------------------------------------------------------
\* stopEventListenerService on SIGTERM; a poll in flight goes on.
Stop ==
  /\ proc = "up"
  /\ Fault("restart", MaxRestarts)
  /\ proc' = "stopping"
  /\ armed' = FALSE /\ delay' = "normal" /\ errors' = 0
  /\ UNCHANGED <<chain, dbVars, cursor, poll, published>>

\* closeDatabase
CloseDatabase ==
  /\ proc = "stopping"
  /\ proc' = "closed"
  /\ UNCHANGED <<chain, dbVars, cursor, armed, delay, errors, poll, published,
                 faults>>

Forgotten ==
  /\ proc' = "down" /\ cursor' = None
  /\ armed' = FALSE /\ delay' = "normal" /\ errors' = 0
  /\ poll' = NoPoll
  /\ UNCHANGED <<chain, dbVars, published>>

Exit == proc = "closed" /\ Forgotten /\ UNCHANGED faults

Crash == proc # "down" /\ Fault("restart", MaxRestarts) /\ Forgotten

Next ==
  \/ \E n \in TxSizes : Payout(n)
  \/ Boot \/ BootFailed
  \/ PollFetch \/ PollFetchFails
  \/ LookupEvent \/ LookupFails
  \/ Commit \/ CommitFails
  \/ Publish
  \/ Stop \/ CloseDatabase \/ Exit \/ Crash

\* The interval timer keeps firing, awaited calls return, the process manager
\* finishes shutdowns and restarts the process.
Fairness ==
  /\ WF_vars(Boot) /\ WF_vars(PollFetch)
  /\ WF_vars(LookupEvent \/ LookupFails)
  /\ WF_vars(Commit \/ CommitFails) /\ WF_vars(Publish)
  /\ WF_vars(CloseDatabase) /\ WF_vars(Exit)

Spec == Init /\ [][Next]_vars /\ Fairness
-----------------------------------------------------------------------------
Recorded(e) == e <= Tip /\ chain[e] \in DOMAIN rows /\ rows[chain[e]] = e

\* The table has a row per transaction: a payout is found under its own row, or
\* under that of another payout of its transaction.
Indexed(e) == \E d \in 1..Tip : chain[d] = chain[e] /\ Recorded(d)

\* "after a restart we never skip events relative to what was committed"
\* (pollEvents): whatever failed and whenever the process was restarted, every
\* payout between the first poll and the persisted cursor is indexed, except
\* the payouts a commit is known to leave behind (LeftBehind).
NoPaymentSkipped ==
  dbCursor # None => \A e \in (base + 1)..dbCursor : Indexed(e) \/ e \in lost

\* "Fail the whole batch: skipping would advance the cursor past a payment that
\* was never recorded" (pollEvents).  Does not hold: a lookup that throws is
\* logged, its payout is left out, and the page is committed without it.
NothingSkipped ==
  dbCursor # None => \A e \in (base + 1)..dbCursor : Indexed(e)

\* Connected clients hear of a payout at most once, and only of a stored one,
\* although a page is fetched again after a failed commit or a restart.
PublishedOnce ==
  /\ \A i, j \in DOMAIN published : published[i] = published[j] => i = j
  /\ \A i \in DOMAIN published : Recorded(published[i])

\* Nothing is left behind but what is known to be lost, and nothing is told
\* twice.
PaymentsOnce == NoPaymentSkipped /\ PublishedOnce

\* What ends the wait of a payout without its row.
Forgone(e) == e \in lost \/ (base # None /\ e <= base)

\* The page after the cursor cannot be stored: two of its payouts are of one
\* transaction that has no row.
PageRefused ==
  /\ cursor # None
  /\ \E i, j \in (cursor + 1)..Least(cursor + PageLimit, Tip) :
       i # j /\ chain[i] = chain[j] /\ chain[i] \notin DOMAIN rows

\* The listener turns payout events into transaction rows: each payout is
\* indexed in the end, unless it was left behind, or the listener has come to a
\* page that it can never store.
PaymentsIndexed ==
  \A e \in 1..MaxEvents :
    (e <= Tip) ~> ((e <= Tip /\ Indexed(e)) \/ Forgone(e) \/ PageRefused)

\* Each payout gets a row of its own (startEventListenerService is there to turn
\* payouts into transactions).  Does not hold: the rows of a round are one row
\* to the database.
PayoutsGetRows ==
  \A e \in 1..MaxEvents : (e <= Tip) ~> (Recorded(e) \/ Forgone(e))
=============================================================================
