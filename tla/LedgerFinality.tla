-------------------------- MODULE LedgerFinality --------------------------
(***************************************************************************)
(* The finality of one submitted transaction,                              *)
(* backend/src/services/ledger-finality.ts: evaluateFinality turns the     *)
(* recorded state and a fresh look at the network into the next recorded   *)
(* state.  The network closes ledgers and includes the transaction in one  *)
(* of them, or never; the nodes that the backend asks are at most MaxLag   *)
(* ledgers behind it.                                                      *)
(*                                                                         *)
(* The latest ledger a caller passes is read no later than the lookup of   *)
(* the transaction, so the lookup saw at least that ledger.                *)
(***************************************************************************)
EXTENDS Integers

CONSTANTS ConfirmationDepth,          \* policy.confirmationDepth
          SubmissionTimeoutLedgers,   \* policy.submissionTimeoutLedgers
          Bounds,                     \* the validUntilLedger values of submitters
          NoBound,                    \* a transaction without validUntilLedger
          MaxLag,                     \* how far behind a node may be
          MaxLedger                   \* bound: the last ledger that closes

ASSUME FinalityAssumption ==
    /\ ConfirmationDepth \in Nat
    /\ SubmissionTimeoutLedgers \in Nat
    /\ Bounds \subseteq Nat
    /\ NoBound \notin Nat
    /\ MaxLag \in Nat
    /\ MaxLedger \in Nat \ {0}

VARIABLES latest,       \* the last ledger the network closed
          tx,           \* where the transaction landed, and how
          validUntil,   \* validUntilLedger
          state,        \* the recorded FinalityState
          conflict      \* evaluateFinality threw finality_conflict

vars == <<latest, tx, validUntil, state, conflict>>

submittedAtLedger == 1
NotLanded == [ledger |-> 0, status |-> "NOT_FOUND"]
TERMINAL_STATES == {"final", "failed", "expired"}

Init ==
    /\ latest = submittedAtLedger
    /\ tx = NotLanded
    /\ validUntil \in Bounds \cup {NoBound}
    /\ state = "submitted"
    /\ conflict = FALSE

----------------------------------------------------------------------------
(* The network.                                                            *)

MayLand == tx = NotLanded /\ (validUntil # NoBound => latest < validUntil)

CloseLedger ==
    /\ latest < MaxLedger
    /\ latest' = latest + 1
    /\ \/ UNCHANGED tx
       \/ /\ MayLand
          /\ \E s \in {"SUCCESS", "FAILED"} : tx' = [ledger |-> latest + 1, status |-> s]
    /\ UNCHANGED <<validUntil, state, conflict>>

\* getTransaction on a node that knows the ledgers up to `node'.
Lookup(node) == IF tx.ledger <= node THEN tx.status ELSE "NOT_FOUND"

----------------------------------------------------------------------------
(* ledger-finality.ts.                                                     *)

ALLOWED_TRANSITIONS ==
    [submitted |-> {"submitted", "included", "final", "failed", "expired"},
     included  |-> {"included", "final"},
     final     |-> {"final"},
     failed    |-> {"failed"},
     expired   |-> {"expired"}]

\* Ledgers closed after the inclusion, never counted from a node behind it.
Depth(latestLedger) == IF latestLedger >= tx.ledger THEN latestLedger - tx.ledger ELSE 0

ExpiredEarly(latestLedger) ==
    IF validUntil # NoBound
    THEN latestLedger >= validUntil
    ELSE latestLedger - submittedAtLedger > SubmissionTimeoutLedgers

Expired(latestLedger) ==
    IF validUntil # NoBound
    THEN latestLedger > validUntil
    ELSE latestLedger - submittedAtLedger > SubmissionTimeoutLedgers

\* What one look at the network says, whatever was recorded before.
observedState(status, latestLedger) ==
    CASE status = "NOT_FOUND" -> IF Expired(latestLedger) THEN "expired" ELSE "submitted"
      [] status = "FAILED"    -> "failed"
      [] OTHER -> IF Depth(latestLedger) >= ConfirmationDepth THEN "final" ELSE "included"

isLaggingRead(previous, observed) ==
    \/ previous = "included" /\ observed = "submitted"
    \/ previous = "final" /\ observed \in {"included", "submitted"}
    \/ previous = "expired" /\ observed = "submitted"

IgnoreNothing(observed) ==
    /\ observed \notin ALLOWED_TRANSITIONS[state]
    /\ isLaggingRead(state, observed)
    /\ state' = observed
    /\ UNCHANGED <<latest, tx, validUntil, conflict>>

Advance(observed) ==
    /\ observed \in ALLOWED_TRANSITIONS[state]
    /\ state' = observed
    /\ UNCHANGED <<latest, tx, validUntil, conflict>>

\* regressionIgnored
Ignore(observed) ==
    /\ observed \notin ALLOWED_TRANSITIONS[state]
    /\ isLaggingRead(state, observed)
    /\ UNCHANGED vars

\* finality_conflict; the record is left as it was.
Raise(observed) ==
    /\ observed \notin ALLOWED_TRANSITIONS[state]
    /\ ~isLaggingRead(state, observed)
    /\ conflict' = TRUE
    /\ UNCHANGED <<latest, tx, validUntil, state>>

evaluateFinality(status, latestLedger) ==
    LET observed == observedState(status, latestLedger)
    IN  Advance(observed) \/ Ignore(observed) \/ Raise(observed)

Nodes == {n \in submittedAtLedger..latest : latest - n <= MaxLag}

Observe ==
    \E node \in Nodes, latestLedger \in Nodes :
        /\ latestLedger <= node
        /\ evaluateFinality(Lookup(node), latestLedger)

Next == CloseLedger \/ Observe

Spec == Init /\ [][Next]_vars

----------------------------------------------------------------------------
(* Properties.                                                             *)

TypeOK ==
    /\ latest \in submittedAtLedger..MaxLedger
    /\ tx \in [ledger : 0..MaxLedger, status : {"NOT_FOUND", "SUCCESS", "FAILED"}]
    /\ validUntil \in Bounds \cup {NoBound}
    /\ state \in {"submitted", "included"} \cup TERMINAL_STATES
    /\ conflict \in BOOLEAN

Landed(status) == tx.status = status /\ tx.ledger <= latest

\* The transaction landed in a closed ledger within its bound, or nowhere.
NetworkSound ==
    /\ tx.status = "NOT_FOUND" <=> tx = NotLanded
    /\ tx.ledger <= latest
    /\ tx # NotLanded /\ validUntil # NoBound => tx.ledger <= validUntil

\* What is booked is so: "final" means a success that ConfirmationDepth
\* ledgers have buried, "failed" a failure on the ledger, and "expired" of a
\* transaction with a known bound that it can never land any more.
BookedIsTrue ==
    /\ state = "final" => Landed("SUCCESS") /\ latest >= tx.ledger + ConfirmationDepth
    /\ state = "included" => Landed("SUCCESS")
    /\ state = "failed" => Landed("FAILED")
    /\ state = "expired" /\ validUntil # NoBound =>
         tx = NotLanded /\ latest > validUntil

\* A terminal state is never rewritten, and an inclusion is only ever
\* completed, whatever a lagging node answers.
NeverBackwards ==
    [][/\ state \in TERMINAL_STATES => state' = state
       /\ state = "included" => state' \in {"included", "final"}]_vars

=============================================================================
