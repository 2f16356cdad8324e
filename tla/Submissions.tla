---------------------------- MODULE Submissions ----------------------------
(***************************************************************************)
(* How the page signs, sends and follows a transaction: the single-flight  *)
(* guard (useSubmissionGuard), the handlers of split-app-legacy.tsx that   *)
(* run under it, submitSorobanTransactionAndPoll, the idempotency key of a *)
(* creation and the resolution of a submission whose outcome is unknown.   *)
(*                                                                         *)
(* One wallet account: a transaction is built for the account's sequence   *)
(* number of that moment and can only be applied while that number is      *)
(* still current and the validity window is open.  A network node reports  *)
(* a ledger outcome at most Lag ticks after it happened.                   *)
(***************************************************************************)
EXTENDS Naturals, FiniteSets, Sequences

CONSTANTS Actions,    \* the guarded actions of the page
          Flow,       \* those that share sorobanSplitFlowBusy and the receipt
          Payloads,   \* what the creation form may hold
          Window,     \* TX_VALIDITY_WINDOW_MS, in ticks
          Margin,     \* TX_EXPIRY_MARGIN_MS, in ticks
          Attempts,   \* tries of a request that may be repeated
          Lag,        \* how late a node may report a ledger outcome
          MaxTx,      \* bound on the transactions built
          MaxTime     \* bound on the clock

None == 0
NoReceipt == [tx |-> None, lifecycle |-> "none"]
NoCheck == [action |-> "none", tx |-> None, at |-> 0]
NoKey == [payload |-> "none", reply |-> None]

SubmissionsAssumption ==
    /\ Flow \subseteq Actions
    /\ {Window, Margin, Attempts, Lag, MaxTx, MaxTime} \subseteq Nat
    /\ Lag <= Margin /\ Margin > 0

VARIABLES now,          \* the clock
          txs,          \* every transaction built, in order
          task,         \* task[a]: the run of action a: where it is, its transaction
          unconfirmed,  \* unconfirmed[a]: the submission that blocks a, or None
          check,        \* the "Check status" request in progress, or NoCheck
          receipt,      \* the receipt shown: [tx, lifecycle], or NoReceipt
          keyStore      \* IdempotencyKeyStore.current: the payload of the key and
                        \* the transaction the backend replays for it, or NoKey

vars == <<now, txs, task, unconfirmed, check, receipt, keyStore>>

Idle == [pc |-> "idle", tx |-> None, attempt |-> 0]

Init ==
    /\ now = 0
    /\ txs = <<>>
    /\ task = [a \in Actions |-> Idle]
    /\ unconfirmed = [a \in Actions |-> None]
    /\ check = NoCheck
    /\ receipt = NoReceipt
    /\ keyStore = NoKey

----------------------------------------------------------------------------
(* The ledger (external).                                                  *)

Landed == {t \in DOMAIN txs : txs[t].state \in {"applied", "failed"}}

CanLand(t) ==
    /\ txs[t].state = "pending"
    /\ now <= txs[t].born + Window
    /\ txs[t].seq = Cardinality(Landed)

\* What a node may answer to getTransaction.
StatusOf(t) ==
    (IF t \in Landed THEN {txs[t].state} ELSE {})
        \cup (IF t \in Landed /\ now >= txs[t].at + Lag THEN {} ELSE {"NOT_FOUND"})

Land(t) ==
    /\ CanLand(t)
    /\ \E s \in {"applied", "failed"} : txs' = [txs EXCEPT ![t].state = s, ![t].at = now]
    /\ UNCHANGED <<now, task, unconfirmed, check, receipt, keyStore>>

Tick ==
    /\ now < MaxTime
    /\ now' = now + 1
    /\ UNCHANGED <<txs, task, unconfirmed, check, receipt, keyStore>>

----------------------------------------------------------------------------
(* The guard.                                                              *)

InFlight(a) == task[a].pc # "idle"

\* isBlocked, and what run() itself tests.
Blocked(a) == InFlight(a) \/ unconfirmed[a] # None

\* isSubmitting || isLocking || isDepositing: the buttons of these actions.
sorobanSplitFlowBusy == \E a \in Flow : InFlight(a)

\* keyFor: the same key for the same payload until reset(); a new key has no
\* answer yet, and a key that was replaced never comes back.
keyFor(p) ==
    IF keyStore.payload = p THEN keyStore ELSE [payload |-> p, reply |-> None]

\* run(action, task): the click that starts a handler.
Run(a) ==
    /\ ~Blocked(a)
    /\ a \in Flow => ~sorobanSplitFlowBusy
    /\ task' = [task EXCEPT ![a].pc = "building", ![a].attempt = 1]
    /\ IF a = "create"
       THEN /\ \E p \in Payloads : keyStore' = keyFor(p)
            /\ receipt' = NoReceipt
       ELSE UNCHANGED <<keyStore, receipt>>
    /\ UNCHANGED <<now, txs, unconfirmed, check>>

----------------------------------------------------------------------------
(* The handler: build, sign, send, poll, refresh.                          *)

NewTx(a) == [action |-> a, born |-> now, seq |-> Cardinality(Landed),
             state |-> "built", at |-> 0, submittedAt |-> 0, told |-> "nothing"]

\* The backend prepares the transaction; a creation sent again under its key
\* gets the transaction of the first answer.
Prepare(a) ==
    IF a = "create" /\ keyStore.reply # None
    THEN UNCHANGED <<txs, keyStore>>
    ELSE /\ Len(txs) < MaxTx
         /\ txs' = Append(txs, NewTx(a))
         /\ keyStore' = IF a = "create" THEN [keyStore EXCEPT !.reply = Len(txs) + 1]
                        ELSE keyStore

BuildAnswered(a) ==
    /\ task[a].pc = "building"
    /\ Prepare(a)
    /\ task' = [task EXCEPT ![a].pc = "signing",
                            ![a].tx = IF a = "create" THEN keyStore'.reply ELSE Len(txs) + 1]
    /\ UNCHANGED <<now, unconfirmed, check, receipt>>

\* Only a request with an Idempotency-Key is repeated without the user.
isIdempotentRequest(a) == a = "create"

\* A 429, a 5xx or a network error before the last attempt: the request goes
\* out again, whether or not the backend had prepared its answer.
BuildRetried(a) ==
    /\ task[a].pc = "building"
    /\ isIdempotentRequest(a)
    /\ task[a].attempt < Attempts
    /\ Prepare(a) \/ UNCHANGED <<txs, keyStore>>
    /\ task' = [task EXCEPT ![a].attempt = @ + 1]
    /\ UNCHANGED <<now, unconfirmed, check, receipt>>

\* The receipt of an action that ends with an error.
ReceiptFailed(a) ==
    IF receipt # NoReceipt /\ receipt.lifecycle = "confirming" /\ txs[receipt.tx].action = a
    THEN [receipt EXCEPT !.lifecycle = "failed"]
    ELSE receipt

\* The handler throws before anything was sent: the build failed (a conflict
\* of idempotency keys drops the key) or the wallet did not sign.
FailBeforeSending(a) ==
    /\ task[a].pc \in {"building", "signing"}
    /\ task' = [task EXCEPT ![a] = Idle]
    /\ keyStore' \in {keyStore} \cup
           (IF a = "create" /\ task[a].pc = "building" THEN {NoKey} ELSE {})
    /\ UNCHANGED <<now, txs, unconfirmed, check, receipt>>

Sign(a) ==
    /\ task[a].pc = "signing"
    /\ task' = [task EXCEPT ![a].pc = "sending"]
    /\ UNCHANGED <<now, txs, unconfirmed, check, receipt, keyStore>>

\* Whether the request reached the network: a transaction it has already is a
\* duplicate there.
Delivered(t) == [txs EXCEPT ![t].state = IF @ = "built" THEN "pending" ELSE @]

\* afterSubmitted: the hash is known.
AfterSubmitted(a, t) ==
    /\ receipt' = IF a \in Flow THEN [tx |-> t, lifecycle |-> "confirming"] ELSE receipt
    /\ keyStore' = IF a = "create" THEN NoKey ELSE keyStore

\* What the validation of responses makes of what came back for a request:
\* a known status, a malformed response, or an error that is passed on (a
\* JSON-RPC error object, a connection that broke).
SEND_TRANSACTION_STATUSES == {"PENDING", "DUPLICATE", "TRY_AGAIN_LATER", "ERROR"}

Responses(statuses) == statuses \cup {"unknown status", "error object", "no response"}

Validated(response, statuses) ==
    CASE response \in statuses -> response
      [] response = "unknown status" -> "malformed"
      [] OTHER -> "error"

\* assertSubmissionAccepted holds.
SendAccepted(a, answer) ==
    LET t == task[a].tx IN
    /\ answer \in {"PENDING", "DUPLICATE"}
    /\ txs' = [Delivered(t) EXCEPT ![t].submittedAt = now]
    /\ AfterSubmitted(a, t)
    /\ task' = [task EXCEPT ![a].pc = "polling"]
    /\ UNCHANGED unconfirmed

\* An ordinary failure.
SendRejected(a, answer) ==
    /\ answer \in {"ERROR", "TRY_AGAIN_LATER"}
    /\ task' = [task EXCEPT ![a] = Idle]
    /\ UNCHANGED <<txs, unconfirmed, receipt, keyStore>>

\* The transaction may have been accepted: it is followed by its own hash and
\* reported as unconfirmed.
SendMalformed(a, answer) ==
    LET t == task[a].tx IN
    /\ answer = "malformed"
    /\ \E sent \in {txs, Delivered(t)} :
         txs' = [sent EXCEPT ![t].submittedAt = now, ![t].told = "unconfirmed"]
    /\ keyStore' = IF a = "create" THEN NoKey ELSE keyStore
    /\ receipt' = IF a \in Flow THEN [tx |-> t, lifecycle |-> "failed"] ELSE receipt
    /\ unconfirmed' = [unconfirmed EXCEPT ![a] = t]
    /\ task' = [task EXCEPT ![a] = Idle]

\* Any other error is rethrown as it is, whether or not it was delivered.
SendError(a, answer) ==
    /\ answer = "error"
    /\ txs' \in {txs, Delivered(task[a].tx)}
    /\ task' = [task EXCEPT ![a] = Idle]
    /\ UNCHANGED <<unconfirmed, receipt, keyStore>>

Send(a) ==
    /\ task[a].pc = "sending"
    /\ \E response \in Responses(SEND_TRANSACTION_STATUSES) :
         LET answer == Validated(response, SEND_TRANSACTION_STATUSES) IN
         \/ SendAccepted(a, answer)
         \/ SendRejected(a, answer)
         \/ SendMalformed(a, answer)
         \/ SendError(a, answer)
    /\ UNCHANGED <<now, check>>

\* A handler that sees its transaction applied marks its own receipt, then
\* reads the project again while it is still in flight.
PollSuccess(a, answer) ==
    /\ answer = "applied"
    /\ txs' = [txs EXCEPT ![task[a].tx].told = "succeeded"]
    /\ receipt' = IF receipt # NoReceipt /\ txs[receipt.tx].action = a
                  THEN [receipt EXCEPT !.lifecycle = "success"] ELSE receipt
    /\ task' = [task EXCEPT ![a].pc = "refreshing"]
    /\ UNCHANGED unconfirmed

PollFailed(a, answer) ==
    /\ answer = "failed"
    /\ txs' = [txs EXCEPT ![task[a].tx].told = "failed"]
    /\ receipt' = ReceiptFailed(a)
    /\ task' = [task EXCEPT ![a] = Idle]
    /\ UNCHANGED unconfirmed

\* Every attempt found nothing, or an answer was malformed: a TimeoutError,
\* and blockIfUnconfirmed marks the action.
PollUnconfirmed(a, answer) ==
    /\ answer \in {"NOT_FOUND", "malformed"}
    /\ txs' = [txs EXCEPT ![task[a].tx].told = "unconfirmed"]
    /\ unconfirmed' = [unconfirmed EXCEPT ![a] = task[a].tx]
    /\ receipt' = ReceiptFailed(a)
    /\ task' = [task EXCEPT ![a] = Idle]

\* Any other error is rethrown as it is.
PollError(a, answer) ==
    /\ answer = "error"
    /\ receipt' = ReceiptFailed(a)
    /\ task' = [task EXCEPT ![a] = Idle]
    /\ UNCHANGED <<txs, unconfirmed>>

Poll(a) ==
    /\ task[a].pc = "polling"
    /\ \E response \in Responses(StatusOf(task[a].tx)) :
         LET answer == Validated(response, StatusOf(task[a].tx)) IN
         \/ PollSuccess(a, answer)
         \/ PollFailed(a, answer)
         \/ PollUnconfirmed(a, answer)
         \/ PollError(a, answer)
    /\ UNCHANGED <<now, check, keyStore>>

Refreshed(a) ==
    /\ task[a].pc = "refreshing"
    /\ task' = [task EXCEPT ![a] = Idle]
    /\ UNCHANGED <<now, txs, unconfirmed, check, receipt, keyStore>>

----------------------------------------------------------------------------
(* "Check status" (onCheckUnconfirmed, resolveUnconfirmedSubmission).      *)

StartCheck(a) ==
    /\ check = NoCheck
    /\ unconfirmed[a] # None
    /\ check' = [action |-> a, tx |-> unconfirmed[a], at |-> now]
    /\ UNCHANGED <<now, txs, task, unconfirmed, receipt, keyStore>>

\* Faulty variant: no margin for a node that lags behind.
ResolutionAtWindow(c, status) ==
    CASE status = "applied" -> "succeeded"
      [] status = "failed" -> "failed"
      [] status \in {"error", "malformed"} -> "pending"
      [] OTHER -> IF c.at >= txs[c.tx].submittedAt + Window
                  THEN "expired" ELSE "pending"

\* The verdict on a node's answer; the clock was read before asking.
Resolution(c, status) ==
    CASE status = "applied" -> "succeeded"
      [] status = "failed" -> "failed"
      [] status \in {"error", "malformed"} -> "pending"
      [] OTHER -> IF c.at >= txs[c.tx].submittedAt + Window + Margin
                  THEN "expired" ELSE "pending"

\* Faulty variant: whichever receipt is shown is marked.
CheckedAny(t, verdict) ==
    IF receipt # NoReceipt
    THEN [receipt EXCEPT !.lifecycle = IF verdict = "succeeded" THEN "success" ELSE "failed"]
    ELSE receipt

\* What a verdict does to the receipt: only to the receipt of that hash.
Checked(t, verdict) ==
    IF receipt # NoReceipt /\ receipt.tx = t
    THEN [receipt EXCEPT !.lifecycle = IF verdict = "succeeded" THEN "success" ELSE "failed"]
    ELSE receipt

FinishCheck ==
    /\ check # NoCheck
    /\ \E status \in Responses(StatusOf(check.tx)) :
         LET verdict == Resolution(check, Validated(status, StatusOf(check.tx))) IN
         IF verdict = "pending"
         THEN UNCHANGED <<txs, unconfirmed, receipt>>
         ELSE /\ txs' = [txs EXCEPT ![check.tx].told = verdict]
              /\ unconfirmed' = [unconfirmed EXCEPT ![check.action] = None]
              /\ receipt' = Checked(check.tx, verdict)
    /\ check' = NoCheck
    /\ UNCHANGED <<now, task, keyStore>>

----------------------------------------------------------------------------

Handler(a) ==
    \/ Run(a)
    \/ BuildAnswered(a) \/ BuildRetried(a) \/ FailBeforeSending(a)
    \/ Sign(a) \/ Send(a) \/ Poll(a) \/ Refreshed(a)

Next ==
    \/ \E a \in Actions : Handler(a) \/ StartCheck(a)
    \/ FinishCheck
    \/ \E t \in DOMAIN txs : Land(t)
    \/ Tick

Spec == Init /\ [][Next]_vars

----------------------------------------------------------------------------
(* Properties.                                                             *)

\* Once a submission was reported unconfirmed, its action is free again only
\* when the transaction is decided and the page knows how: it can no longer
\* land, and if it was applied the user was told so (submission-guard.ts,
\* onCheckUnconfirmed).
UnblockedMeansDecided ==
    \A t \in DOMAIN txs :
        txs[t].told \in {"unconfirmed", "expired"} /\ unconfirmed[txs[t].action] # t =>
            t \notin Landed /\ ~CanLand(t) /\ txs[t].told = "expired"

\* A receipt that reads "success" is the receipt of an applied transaction,
\* whatever other submissions end or are checked meanwhile.
ReceiptsTrue ==
    receipt # NoReceipt /\ receipt.lifecycle = "success" => txs[receipt.tx].state = "applied"

\* "A submission whose outcome is unknown keeps `action` blocked (see
\* blockIfUnconfirmed) so it cannot be sent twice."
UnknownKeepsBlocked ==
    \A t \in DOMAIN txs :
        (CanLand(t) \/ t \in Landed) /\ txs[t].told \in {"nothing", "unconfirmed"} =>
            Blocked(txs[t].action)
=============================================================================
