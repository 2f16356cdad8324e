---------------------------- MODULE SplitRecords ----------------------------
(***************************************************************************)
(* What the backend keeps about a split beside the contract: drafts        *)
(* (split-draft.registry.ts), the deadline (split-expiration.registry.ts), *)
(* cancellation and archival (two tables), and the states that             *)
(* split-lifecycle.ts derives from the project and its payment records.    *)
(*                                                                         *)
(* The registries are in memory and their functions atomic; cancellation   *)
(* and archival read a table, await, and write.  The caller of cancelSplit *)
(* passes a snapshot of the project that he read before.                   *)
(***************************************************************************)
EXTENDS Integers, Sequences, FiniteSetsExt

CONSTANTS
  Writers,      \* wallets that keep drafts
  Shares,       \* totals of basis points a draft's collaborators may have
  Participants, \* collaborators of the split
  RecSlots,     \* calls in progress at the same time
  MaxDrafts, MaxPayments, MaxCalls, MaxClock   \* bounds of a behaviour

Whole == 10000
NoDeadline == 1000
IdleCall == [step |-> "idle"]

VARIABLES
  project,    \* on chain: [locked, balance, out]
  clock,
  drafts,     \* the drafts: [owner, status, ids, count, total]
  limit,      \* expiration registry: [known, at, reached]
  cancelled,  \* table split_cancellations: number of rows of the project
  archived,   \* table project_archivals: restored or not, oldest first
  payments,   \* payment records in the order they arrived: [to, status, at]
  doing,      \* slot -> call
  made,       \* number of calls so far
  wins        \* history: cancellations that were reported as done

recVars == <<project, clock, drafts, limit, cancelled, archived, payments,
             doing, made, wins>>
tables == <<cancelled, archived, wins>>
memory == <<drafts, limit>>

RecInit ==
  /\ project = [locked |-> FALSE, balance |-> 0, out |-> 0]
  /\ clock = 0
  /\ drafts = <<>>
  /\ limit = [known |-> FALSE, at |-> NoDeadline, reached |-> FALSE]
  /\ cancelled = 0 /\ archived = <<>> /\ payments = <<>>
  /\ doing = [s \in RecSlots |-> IdleCall] /\ made = 0 /\ wins = 0
----------------------------------------------------------------------------
(* split-lifecycle.ts.                                                     *)

deriveSplitState(p, isCancelled, isDraft, deadline) ==
  IF isCancelled THEN "cancelled"
  ELSE IF isDraft THEN "draft"
  ELSE IF deadline <= clock THEN "expired"
  ELSE IF p.locked THEN IF p.balance > 0 THEN "distributing" ELSE "settled"
  ELSE IF p.out > 0 /\ p.balance = 0 THEN "settled"
  ELSE IF p.out = 0 /\ p.balance = 0 THEN "draft"
  ELSE "active"

isActionAllowed(state, action) ==
  \/ action = "read"
  \/ state = "distributing" /\ action = "distribute"
  \/ state \in {"draft", "active"}

isCancellable(state) == isActionAllowed(state, "cancel")

Precedence == [paid |-> 3, pending |-> 2, failed |-> 1, unpaid |-> 0]
StatusOf(record) == CASE record.status = "completed" -> "paid"
                      [] record.status = "pending" -> "pending"
                      [] OTHER -> "failed"

\* Faulty variant: the newest record decides.
NewestWins(record, best) ==
  IF record.at > best.at THEN [status |-> StatusOf(record), at |-> record.at] ELSE best

\* One turn of the loop in deriveParticipantStatuses.
Better(record, best) ==
  LET candidate == StatusOf(record)
      higher == Precedence[candidate] > Precedence[best.status]
      newer == Precedence[candidate] = Precedence[best.status] /\ record.at > best.at
  IN  IF higher \/ newer THEN [status |-> candidate, at |-> record.at] ELSE best

\* The best status of x after each of the records.
Loop(x) ==
  LET best[n \in 0..Len(payments)] ==
        IF n = 0 THEN [status |-> "unpaid", at |-> -1]
        ELSE IF payments[n].to = x THEN Better(payments[n], best[n - 1]) ELSE best[n - 1]
  IN  best

deriveParticipantStatus(x) == Loop(x)[Len(payments)]

\* summariseCompletion.
allParticipantsPaid == \A x \in Participants : deriveParticipantStatus(x).status = "paid"
----------------------------------------------------------------------------
(* Drafts.                                                                 *)

Room == made < MaxCalls /\ made' = made + 1
Elsewhere == UNCHANGED <<project, clock, payments, doing>>

\* saveDraft without an id, and with the id of an own draft still in draft.
\* `ids' says that both projectId and token are known.
SaveNewDraft(w, ids, n, total) ==
  /\ Room /\ Len(drafts) < MaxDrafts
  /\ drafts' = Append(drafts, [owner |-> w, status |-> "draft", ids |-> ids,
                               count |-> n, total |-> total])
  /\ Elsewhere /\ UNCHANGED <<limit, tables>>

\* Faulty variant: a published draft can still be edited.
EditableAlways(d, w) == drafts[d].owner = w

Editable(d, w) == drafts[d].status = "draft" /\ drafts[d].owner = w

SaveDraft(d, w, ids, n, total) ==
  /\ Room /\ Editable(d, w)
  /\ drafts' = [drafts EXCEPT ![d].ids = @ \/ ids, ![d].count = n, ![d].total = total]
  /\ Elsewhere /\ UNCHANGED <<limit, tables>>

PublishDraft(d, w) ==
  /\ Room /\ drafts[d].owner = w /\ drafts[d].status = "draft"
  /\ drafts[d].ids /\ drafts[d].count >= 2 /\ drafts[d].total = Whole
  /\ drafts' = [drafts EXCEPT ![d].status = "published"]
  /\ Elsewhere /\ UNCHANGED <<limit, tables>>

DiscardDraft(d, w) ==
  /\ Room /\ drafts[d].owner = w /\ drafts[d].status = "draft"
  /\ drafts' = [drafts EXCEPT ![d].status = "discarded"]
  /\ Elsewhere /\ UNCHANGED <<limit, tables>>
----------------------------------------------------------------------------
(* The deadline.                                                           *)

\* configureExpiration: after creation, and in the future when it is the first.
ConfigureExpiration(at) ==
  /\ Room
  /\ at = NoDeadline \/ (at > 0 /\ (limit.known \/ at > clock))
  /\ limit' = [limit EXCEPT !.known = TRUE, !.at = at]
  /\ Elsewhere /\ UNCHANGED <<drafts, tables>>

\* assertNotExpired refuses and notes the first time that it does.
ObserveExpired ==
  /\ Room /\ limit.at <= clock
  /\ limit' = [limit EXCEPT !.reached = TRUE]
  /\ Elsewhere /\ UNCHANGED <<drafts, tables>>
----------------------------------------------------------------------------
(* Cancellation and archival.                                              *)

Calls == {"cancel", "archive", "restore", "fund", "act"}

\* A call begins; cancelSplit is given a snapshot.  `late' is history: the
\* split was already cancelled then.
Begin(s, op) ==
  /\ Room /\ doing[s] = IdleCall
  /\ doing' = [doing EXCEPT ![s] = [step |-> op, snapshot |-> project, late |-> wins > 0]]
  /\ UNCHANGED <<project, clock, payments, memory, tables>>

Done(s) == doing' = [doing EXCEPT ![s] = IdleCall]
Becomes(s, step) == doing' = [doing EXCEPT ![s].step = step]
Rest == UNCHANGED <<project, clock, payments, memory, made>>

\* getCancellation, then the derived state of the snapshot.
CancelCheck(s) ==
  /\ doing[s].step = "cancel"
  /\ IF cancelled > 0 \/ ~isCancellable(deriveSplitState(doing[s].snapshot, FALSE, FALSE, NoDeadline))
     THEN Done(s) ELSE Becomes(s, "insert")
  /\ Rest /\ UNCHANGED tables

\* Faulty variant: the table has no unique index.
InsertTwice(s) ==
  /\ doing[s].step = "insert"
  /\ cancelled' = cancelled + 1 /\ wins' = wins + 1
  /\ Becomes(s, "cancelled")
  /\ Rest /\ UNCHANGED archived

\* The unique index lets one insert through; the other is told that it was late.
CancelInsert(s) ==
  /\ doing[s].step = "insert"
  /\ IF cancelled = 0 THEN cancelled' = 1 /\ wins' = wins + 1 /\ Becomes(s, "cancelled")
     ELSE Done(s) /\ UNCHANGED <<cancelled, wins>>
  /\ Rest /\ UNCHANGED archived

IsArchived == archived # <<>> /\ ~archived[Len(archived)]

ArchiveCheck(s) ==
  /\ doing[s].step = "archive"
  /\ IF IsArchived THEN Done(s) ELSE Becomes(s, "store")
  /\ Rest /\ UNCHANGED tables

ArchiveStore(s) ==
  /\ doing[s].step = "store"
  /\ archived' = Append(archived, FALSE)
  /\ Done(s) /\ Rest /\ UNCHANGED <<cancelled, wins>>

\* restoreProject stamps the row that it read as the newest.
RestoreCheck(s) ==
  /\ doing[s].step = "restore"
  /\ IF IsArchived
     THEN doing' = [doing EXCEPT ![s] = [@ EXCEPT !.step = "stamp", !.snapshot = Len(archived)]]
     ELSE Done(s)
  /\ Rest /\ UNCHANGED tables

RestoreStamp(s) ==
  /\ doing[s].step = "stamp"
  /\ archived' = [archived EXCEPT ![doing[s].snapshot] = TRUE]
  /\ Done(s) /\ Rest /\ UNCHANGED <<cancelled, wins>>

\* assertFundingAllowed and assertActionAllowed, before a transaction is built.
FundCheck(s) ==
  /\ doing[s].step = "fund"
  /\ IF cancelled > 0 THEN Done(s) ELSE Becomes(s, "funds")
  /\ Rest /\ UNCHANGED tables

ActCheck(s) ==
  /\ doing[s].step = "act"
  /\ IF IsArchived THEN Done(s) ELSE Becomes(s, "acts")
  /\ Rest /\ UNCHANGED tables

Return(s) ==
  /\ doing[s].step \in {"cancelled", "funds", "acts"}
  /\ Done(s) /\ Rest /\ UNCHANGED tables
----------------------------------------------------------------------------
(* The chain, the listener that writes payment records, the clock.         *)

Deposited == project.balance = 0 /\ project' = [project EXCEPT !.balance = 2]
PaidOut == \E n \in 1..project.balance :
             project' = [project EXCEPT !.balance = @ - n, !.out = @ + n]
Locked == ~project.locked /\ project' = [project EXCEPT !.locked = TRUE]

ChainMoves ==
  /\ Room /\ (Deposited \/ PaidOut \/ Locked)
  /\ UNCHANGED <<clock, payments, doing, memory, tables>>

RecordArrives ==
  /\ Room /\ Len(payments) < MaxPayments
  /\ \E x \in Participants, st \in {"completed", "pending", "failed"}, t \in 0..2 :
       payments' = Append(payments, [to |-> x, status |-> st, at |-> t])
  /\ UNCHANGED <<project, clock, doing, memory, tables>>

ClockTicks ==
  /\ clock < MaxClock /\ clock' = clock + 1
  /\ UNCHANGED <<project, payments, doing, made, memory, tables>>

RecNext ==
  \/ \E w \in Writers, ids \in BOOLEAN, n \in 0..2, total \in Shares : SaveNewDraft(w, ids, n, total)
  \/ \E d \in DOMAIN drafts, w \in Writers :
       \/ \E ids \in BOOLEAN, n \in 0..2, total \in Shares : SaveDraft(d, w, ids, n, total)
       \/ PublishDraft(d, w) \/ DiscardDraft(d, w)
  \/ \E at \in (0..MaxClock) \cup {NoDeadline} : ConfigureExpiration(at)
  \/ ObserveExpired
  \/ \E s \in RecSlots :
       \/ \E op \in Calls : Begin(s, op)
       \/ CancelCheck(s) \/ CancelInsert(s) \/ ArchiveCheck(s) \/ ArchiveStore(s)
       \/ RestoreCheck(s) \/ RestoreStamp(s) \/ FundCheck(s) \/ ActCheck(s) \/ Return(s)
  \/ ChainMoves \/ RecordArrives \/ ClockTicks

RecSpec == RecInit /\ [][RecNext]_recVars
----------------------------------------------------------------------------
\* In whatever order payment records arrive, each participant's status is the
\* best any of his records has, with the time of the newest of those: a paid
\* participant is never shown as failed because of a stray later record, and a
\* split counts as paid when each participant has a completed record.
StatusIsBest ==
  LET theirs(x) == {payments[i] : i \in {j \in DOMAIN payments : payments[j].to = x}}
      best(x) == Max({Precedence[StatusOf(r)] : r \in theirs(x)} \cup {0})
  IN  /\ \A x \in Participants :
           LET got == deriveParticipantStatus(x) IN
           /\ Precedence[got.status] = best(x)
           /\ theirs(x) # {} =>
                got.at = Max({r.at : r \in {q \in theirs(x) : Precedence[StatusOf(q)] = best(x)}})
      /\ allParticipantsPaid <=>
           \A x \in Participants : \E r \in theirs(x) : r.status = "completed"

\* What was published stays fit to be created on chain: both ids, two or more
\* collaborators, basis points that add up; saving goes on only for drafts.
PublishedDraftsWhole ==
  \A d \in DOMAIN drafts : drafts[d].status = "published" =>
    drafts[d].ids /\ drafts[d].count >= 2 /\ drafts[d].total = Whole

\* Of all the concurrent cancellations of a split one is reported as done, and
\* from then on no call that begins gets leave to fund the split.
CancelledOnce ==
  /\ wins <= 1
  /\ \A s \in RecSlots : doing[s].step = "funds" => ~doing[s].late

=============================================================================
