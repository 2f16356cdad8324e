-------------------------------- MODULE AdminPanel --------------------------------
(*****************************************************************************)
(* The contract admin's cards of the dashboard: token recovery, distribution *)
(* pause and token allowlist (components/split-app-legacy.tsx,               *)
(* components/dashboard/DashboardView.tsx).                                  *)
(*                                                                           *)
(* The contract is what the cards show and change: the unallocated balance   *)
(* of each token, the pause flag and the allowlist.  A status or allowlist   *)
(* request is served with what the contract holds then, and its answer       *)
(* arrives later: answers overtake each other.  Balances are read when they  *)
(* are answered.  A handler works with the inputs of the render it           *)
(* was clicked in.  One submission of each kind runs at a time               *)
(* (useSubmissionGuard), until the refresh that follows it has answered;     *)
(* what follows an unknown outcome is in Submissions.  The cards are there   *)
(* once the allowlist, which names the admin, was read; a modal covers the   *)
(* page, so that nothing behind it is clicked.                               *)
(*****************************************************************************)
EXTENDS Naturals, FiniteSets

CONSTANTS
  Tokens,          \* token addresses
  NoToken,         \* an empty input
  MaxAmount,       \* amounts of the inputs and of the contract
  MaxReads,        \* bound: balance requests in flight
  MaxJobs          \* bound: submissions

VARIABLES
  unallocated,     \* the contract: token -> tokens that belong to no project
  paused,          \* the contract: distributions are paused
  changes,         \* how often that flag was written (history)
  allowed,         \* the contract: allowlisted tokens
  recovery,        \* the recovery card
  reads,           \* balance requests in flight: the tokens they ask for, in order
  pauseCard,       \* the pause card
  statusReads,     \* getAdminStatus requests: by who asked
  allowCard,       \* the allowlist card
  listReads,       \* getTokenAllowlist requests: by who asked
  job,             \* the submission of each kind
  jobs             \* counter of the bound

contract == <<unallocated, paused, changes, allowed>>
recoveryVars == <<recovery, reads>>
pauseVars == <<pauseCard, statusReads>>
allowVars == <<allowCard, listReads>>
vars == <<contract, recoveryVars, pauseVars, allowVars, job, jobs>>

Kinds == {"recovery", "toggle_pause", "allowlist"}
NoBalance == [token |-> NoToken, amount |-> 0]
NoRead == [pc |-> "none", value |-> "unknown", at |-> 0]
Asked == [NoRead EXCEPT !.pc = "asked"]
NoJob == [pc |-> "idle", token |-> NoToken, amount |-> 0, input |-> NoToken, what |-> "none"]

-----------------------------------------------------------------------------
(* Recovery.                                                                 *)

TypeToken(t) ==
  /\ t # recovery.input
  /\ recovery' = [recovery EXCEPT !.input = t]
  /\ UNCHANGED <<contract, reads, pauseVars, allowVars, job, jobs>>

\* The amount can be edited while a positive balance is shown and not reviewed.
TypeAmount(n) ==
  /\ recovery.balance.amount > 0 /\ ~recovery.review /\ n # recovery.amount
  /\ recovery' = [recovery EXCEPT !.amount = n]
  /\ UNCHANGED <<contract, reads, pauseVars, allowVars, job, jobs>>

\* onInspectUnallocated up to its request, with the input of its render.
Inspecting(card) ==
  [card EXCEPT !.loading = TRUE, !.balance = NoBalance, !.review = FALSE, !.hash = "none"]

onInspectUnallocated ==
  /\ recovery.input # NoToken /\ ~recovery.loading
  /\ Cardinality(reads) < MaxReads
  /\ recovery' = Inspecting(recovery)
  /\ \E id \in 1..MaxReads :
       /\ \A r \in reads : r.id # id
       /\ reads' = reads \union {[id |-> id, token |-> recovery.input, hash |-> "none"]}
  /\ UNCHANGED <<contract, pauseVars, allowVars, job, jobs>>

\* The answer of one request; the one runRecovery made restores its hash and
\* ends it.
Inspected(r) ==
  /\ r \in reads
  /\ reads' = reads \ {r}
  /\ job' = IF r.hash = "none" THEN job ELSE [job EXCEPT !["recovery"] = NoJob]
  /\ UNCHANGED <<contract, pauseVars, allowVars, jobs>>

InspectAnswers(r) ==
  /\ Inspected(r)
  /\ recovery' = [recovery EXCEPT !.balance = [token |-> r.token, amount |-> unallocated[r.token]],
                                  !.loading = FALSE,
                                  !.hash = IF r.hash = "none" THEN @ ELSE r.hash]

InspectFails(r) ==
  /\ Inspected(r)
  /\ recovery' = [recovery EXCEPT !.loading = FALSE, !.hash = IF r.hash = "none" THEN @ ELSE r.hash]

\* canReviewRecovery, then the review in place of the inputs.
OpenReview ==
  /\ ~recovery.review
  /\ recovery.amount > 0 /\ recovery.amount <= recovery.balance.amount
  /\ recovery' = [recovery EXCEPT !.review = TRUE]
  /\ UNCHANGED <<contract, reads, pauseVars, allowVars, job, jobs>>

CancelReview ==
  /\ recovery.review /\ job["recovery"].pc = "idle"
  /\ recovery' = [recovery EXCEPT !.review = FALSE]
  /\ UNCHANGED <<contract, reads, pauseVars, allowVars, job, jobs>>

\* getRecoveryAmountError
AmountError == recovery.amount = 0 \/ recovery.amount > recovery.balance.amount

Starts(kind, j) ==
  /\ job[kind].pc = "idle" /\ jobs < MaxJobs
  /\ jobs' = jobs + 1
  /\ job' = [job EXCEPT ![kind] = j]

\* runRecovery: the withdrawal is built for the token of the balance shown.
runRecovery ==
  /\ recovery.review /\ recovery.balance # NoBalance /\ ~AmountError
  /\ Starts("recovery", [pc |-> "building", token |-> recovery.balance.token, amount |-> recovery.amount,
                          input |-> recovery.input, what |-> "withdraw"])
  /\ UNCHANGED <<contract, recoveryVars, pauseVars, allowVars>>

-----------------------------------------------------------------------------
(* Pause.                                                                    *)

\* The page asks once when it is mounted ("load"), the admin with the refresh
\* button ("refresh", which the first load does not disable), and
\* runTogglePause after its transaction ("toggle").
Askers == {"load", "refresh", "toggle"}

refreshAdminStatus ==
  /\ ~pauseCard.loading /\ pauseCard.modal = "none"
  /\ statusReads["refresh"] = NoRead   \* bound: one of them at a time
  /\ pauseCard' = [pauseCard EXCEPT !.loading = TRUE, !.early = @ \/ statusReads["load"] # NoRead]
  /\ statusReads' = [statusReads EXCEPT !["refresh"] = Asked]
  /\ UNCHANGED <<contract, recoveryVars, allowVars, job, jobs>>

StatusServed(o) ==
  /\ statusReads[o].pc = "asked"
  /\ statusReads' = [statusReads EXCEPT ![o] =
       [pc |-> "served", value |-> IF paused THEN "paused" ELSE "running", at |-> changes]]
  /\ UNCHANGED <<contract, recoveryVars, pauseCard, allowVars, job, jobs>>

\* Whichever request ends, the card stops loading; the one of runTogglePause
\* ends it.
StatusEnds(o) ==
  /\ statusReads' = [statusReads EXCEPT ![o] = NoRead]
  /\ job' = IF o = "toggle" THEN [job EXCEPT !["toggle_pause"] = NoJob] ELSE job
  /\ UNCHANGED <<contract, recoveryVars, allowVars, jobs>>

StatusAnswers(o) ==
  LET r == statusReads[o]
  IN  /\ r.pc = "served"
      /\ pauseCard' = [pauseCard EXCEPT !.status = r.value, !.seen = r.at, !.loading = FALSE]
      /\ StatusEnds(o)

StatusFails(o) ==
  /\ statusReads[o] # NoRead
  /\ pauseCard' = [pauseCard EXCEPT !.loading = FALSE]
  /\ StatusEnds(o)

\* Faulty variant: the button can be used while the status is being read.
OpenModalWhileLoading ==
  /\ pauseCard.status # "unknown" /\ pauseCard.modal = "none"
  /\ job["toggle_pause"].pc = "idle"
  /\ pauseCard' = [pauseCard EXCEPT !.modal = IF pauseCard.status = "paused" THEN "unpause" ELSE "pause"]
  /\ UNCHANGED <<contract, recoveryVars, statusReads, allowVars, job, jobs>>

\* The button the card shows opens the modal of its action.
OpenModal ==
  /\ pauseCard.status # "unknown" /\ pauseCard.modal = "none"
  /\ ~pauseCard.loading /\ job["toggle_pause"].pc = "idle"
  /\ pauseCard' = [pauseCard EXCEPT !.modal = IF pauseCard.status = "paused" THEN "unpause" ELSE "pause"]
  /\ UNCHANGED <<contract, recoveryVars, statusReads, allowVars, job, jobs>>

CloseModal ==
  /\ pauseCard.modal # "none" /\ job["toggle_pause"].pc = "idle"
  /\ pauseCard' = [pauseCard EXCEPT !.modal = "none"]
  /\ UNCHANGED <<contract, recoveryVars, statusReads, allowVars, job, jobs>>

runTogglePause ==
  /\ pauseCard.modal # "none"
  /\ Starts("toggle_pause", [NoJob EXCEPT !.pc = "building", !.what = pauseCard.modal])
  /\ pauseCard' = [pauseCard EXCEPT !.hash = "none"]
  /\ UNCHANGED <<contract, recoveryVars, statusReads, allowVars>>

\* Somebody else writes the flag: another tab of the admin, or a transaction of
\* this one whose outcome stayed unknown.
PausedElsewhere ==
  /\ jobs < MaxJobs /\ jobs' = jobs + 1
  /\ paused' = ~paused /\ changes' = changes + 1
  /\ UNCHANGED <<unallocated, allowed, recoveryVars, pauseVars, allowVars, job>>

-----------------------------------------------------------------------------
(* Allowlist.                                                                *)

\* The refresh button, and runAllowlistAction after its transaction.
ListAskers == {"refresh", "action"}
NoListRead == [pc |-> "none", tokens |-> {}]

refreshTokenAllowlist ==
  /\ job["allowlist"].pc = "idle" /\ ~allowCard.loading
  /\ listReads["refresh"] = NoListRead
  /\ allowCard' = [allowCard EXCEPT !.loading = TRUE]
  /\ listReads' = [listReads EXCEPT !["refresh"].pc = "asked"]
  /\ UNCHANGED <<contract, recoveryVars, pauseVars, job, jobs>>

ListServed(o) ==
  /\ listReads[o].pc = "asked"
  /\ listReads' = [listReads EXCEPT ![o] = [pc |-> "served", tokens |-> allowed]]
  /\ UNCHANGED <<contract, recoveryVars, pauseVars, allowCard, job, jobs>>

ListEnds(o) ==
  /\ listReads' = [listReads EXCEPT ![o] = NoListRead]
  /\ job' = IF o = "action" THEN [job EXCEPT !["allowlist"] = NoJob] ELSE job
  /\ UNCHANGED <<contract, recoveryVars, pauseVars, jobs>>

ListAnswers(o) ==
  /\ listReads[o].pc = "served"
  /\ allowCard' = [allowCard EXCEPT !.tokens = listReads[o].tokens, !.loading = FALSE]
  /\ ListEnds(o)

ListFails(o) ==
  /\ listReads[o] # NoListRead
  /\ allowCard' = [allowCard EXCEPT !.loading = FALSE]
  /\ ListEnds(o)

TypeAllowlistToken(t) ==
  /\ job["allowlist"].pc = "idle" /\ t # allowCard.input
  /\ allowCard' = [allowCard EXCEPT !.input = t]
  /\ UNCHANGED <<contract, recoveryVars, pauseVars, listReads, job, jobs>>

runAllowlistAction(action) ==
  /\ allowCard.input # NoToken
  /\ Starts("allowlist", [NoJob EXCEPT !.pc = "building", !.what = action, !.token = allowCard.input])
  /\ UNCHANGED <<contract, recoveryVars, pauseVars, allowVars>>

-----------------------------------------------------------------------------
(* Submissions: signSubmitAndConfirm.                                        *)

\* The node accepted the transaction: the recovery and pause cards show its hash.
AfterSubmitted(kind) ==
  /\ job[kind].pc = "building"
  /\ job' = [job EXCEPT ![kind].pc = "submitted"]
  /\ recovery' = IF kind = "recovery" THEN [recovery EXCEPT !.hash = "submitted"] ELSE recovery
  /\ pauseCard' = IF kind = "toggle_pause" THEN [pauseCard EXCEPT !.hash = "submitted"] ELSE pauseCard
  /\ UNCHANGED <<contract, reads, statusReads, allowVars, jobs>>

\* The build, the signature or the submission fails, the ledger refuses the
\* transaction, or its outcome stays unknown: a message, and the cards stay.
SubmissionFails(kind) ==
  /\ job[kind].pc \in {"building", "submitted"}
  /\ job' = [job EXCEPT ![kind] = NoJob]
  /\ UNCHANGED <<contract, recoveryVars, pauseVars, allowVars, jobs>>

\* The ledger applied the withdrawal; the balance of the input of the click is
\* asked for again, and the hash restored after it.
RecoveryConfirmed ==
  LET j == job["recovery"]
  IN  /\ j.pc = "submitted" /\ j.amount <= unallocated[j.token]
      /\ Cardinality(reads) < MaxReads
      /\ unallocated' = [unallocated EXCEPT ![j.token] = @ - j.amount]
      /\ IF j.input = NoToken
         THEN /\ recovery' = [recovery EXCEPT !.review = FALSE, !.hash = "confirmed"]
              /\ job' = [job EXCEPT !["recovery"] = NoJob]
              /\ reads' = reads
         ELSE /\ recovery' = Inspecting(recovery)
              /\ job' = [job EXCEPT !["recovery"].pc = "refreshing"]
              /\ \E id \in 1..MaxReads :
                   /\ \A r \in reads : r.id # id
                   /\ reads' = reads \union {[id |-> id, token |-> j.input, hash |-> "confirmed"]}
      /\ UNCHANGED <<paused, changes, allowed, pauseVars, allowVars, jobs>>

\* The modals close and the status is read again.
ToggleConfirmed ==
  /\ job["toggle_pause"].pc = "submitted"
  /\ paused' = (job["toggle_pause"].what = "pause") /\ changes' = changes + 1
  /\ pauseCard' = [pauseCard EXCEPT !.modal = "none", !.hash = "confirmed", !.loading = TRUE]
  /\ statusReads' = [statusReads EXCEPT !["toggle"] = Asked]
  /\ job' = [job EXCEPT !["toggle_pause"].pc = "refreshing"]
  /\ UNCHANGED <<unallocated, allowed, recoveryVars, allowVars, jobs>>

\* The input is cleared and the list is read again.
AllowlistConfirmed ==
  LET j == job["allowlist"]
  IN  /\ j.pc = "submitted"
      /\ allowed' = IF j.what = "allow" THEN allowed \union {j.token} ELSE allowed \ {j.token}
      /\ allowCard' = [allowCard EXCEPT !.input = NoToken, !.last = j.token, !.loading = TRUE]
      /\ listReads' = [listReads EXCEPT !["action"].pc = "asked"]
      /\ job' = [job EXCEPT !["allowlist"].pc = "refreshing"]
      /\ UNCHANGED <<unallocated, paused, changes, recoveryVars, pauseVars, jobs>>

\* Somebody sends tokens to the contract outside any project.
TokensArrive(t) ==
  /\ unallocated[t] < MaxAmount
  /\ unallocated' = [unallocated EXCEPT ![t] = @ + 1]
  /\ UNCHANGED <<paused, changes, allowed, recoveryVars, pauseVars, allowVars, job, jobs>>

-----------------------------------------------------------------------------
Init ==
  /\ unallocated \in [Tokens -> 0..MaxAmount]
  /\ paused = FALSE
  /\ changes = 0
  /\ allowed = {}
  /\ recovery = [input |-> NoToken, amount |-> 0, balance |-> NoBalance, loading |-> FALSE,
                 review |-> FALSE, hash |-> "none"]
  /\ reads = {}
  /\ pauseCard = [status |-> "unknown", seen |-> 0, loading |-> FALSE, modal |-> "none", hash |-> "none",
                  early |-> FALSE]
  /\ statusReads = [o \in Askers |-> IF o = "load" THEN Asked ELSE NoRead]
  /\ allowCard = [input |-> NoToken, tokens |-> {}, last |-> NoToken, loading |-> FALSE]
  /\ listReads = [o \in ListAskers |-> NoListRead]
  /\ job = [k \in Kinds |-> NoJob]
  /\ jobs = 0

Recovering ==
  \/ \E t \in Tokens : TypeToken(t)
  \/ \E n \in 1..MaxAmount : TypeAmount(n)
  \/ onInspectUnallocated \/ OpenReview \/ CancelReview \/ runRecovery \/ RecoveryConfirmed
  \/ \E r \in reads : InspectAnswers(r) \/ InspectFails(r)
  \/ \E t \in Tokens : TokensArrive(t)

Pausing ==
  \/ refreshAdminStatus \/ OpenModal \/ CloseModal \/ runTogglePause \/ ToggleConfirmed \/ PausedElsewhere
  \/ \E o \in Askers : StatusServed(o) \/ StatusAnswers(o) \/ StatusFails(o)

Listing ==
  \/ refreshTokenAllowlist \/ AllowlistConfirmed
  \/ \E o \in ListAskers : ListServed(o) \/ ListAnswers(o) \/ ListFails(o)
  \/ \E t \in Tokens : TypeAllowlistToken(t)
  \/ \E action \in {"allow", "disallow"} : runAllowlistAction(action)

Next ==
  \/ Recovering \/ Pausing \/ Listing
  \/ \E k \in Kinds : AfterSubmitted(k) \/ SubmissionFails(k)

Spec == Init /\ [][Next]_vars

-----------------------------------------------------------------------------
(* Properties.                                                               *)

\* The status on the pause card is never replaced by an older one: after a
\* pause took effect on the card, a late answer of an earlier request cannot
\* bring "Running" back (refreshAdminStatus, runTogglePause).  Requests carry no
\* number and setAdminStatus takes whatever arrives; what keeps them in order is
\* that the buttons are disabled while one is under way, the modal covers the
\* page, and the guard stays closed until the refresh after a toggle answered.
\* One way round is known: the button does not wait for the request of the mount
\* (early), whose end then makes the card look idle.
ShownInOrder == ~pauseCard.early => pauseCard'.seen >= pauseCard.seen

\* The same of a page that did refresh before its first load ended.  Does not
\* hold.
PauseAlwaysInOrder == [][pauseCard'.seen >= pauseCard.seen]_vars

\* A list that arrives while no other is asked for is the list of the contract.
\* Does not hold: a refresh that is under way does not disable the two buttons
\* of the allowlist card, and its answer may come after the change it misses.
ListShownIsTrue ==
  [][\A o \in ListAskers : ListAnswers(o) /\ (\A p \in ListAskers \ {o} : listReads[p] = NoListRead)
       => allowCard'.tokens = allowed]_vars

\* "Review before signing" (DashboardView.tsx): the token of the review stays the
\* token of the balance it was opened for.  Does not hold: the answer of another
\* request replaces the balance under an open review.
ReviewKeepsToken ==
  [][recovery.review /\ recovery'.review => recovery'.balance.token = recovery.balance.token]_vars

\* "Pause state change confirmed on ledger" (DashboardView.tsx, the title over
\* the hash of the last toggle): a hash shown there is a confirmed one.
\* Does not hold: the hash is kept as soon as the transaction is sent.
ShownPauseIsConfirmed == pauseCard.hash # "submitted"
=============================================================================
