----------------------------- MODULE Reconciliation -----------------------------
(*****************************************************************************)
(* The operator's read-only checks of the payout tables: the balancing       *)
(* invariants (services/ledger-invariants.ts), the orphan check, the         *)
(* reconciliation dry run, the pending-transaction aging report and the      *)
(* database consistency audit (scripts/).                                    *)
(*                                                                           *)
(* `transactions' is written by the application, `ledger_blocks' by something*)
(* outside the repository.  The checks look for rows that should not be, so  *)
(* the tables start in any state; the dry run then reads them one after the  *)
(* other, with no transaction around the reads, while the application and    *)
(* the settlement side go on writing.                                        *)
(*                                                                           *)
(* Amounts are exact integers (lib/decimal-amounts.ts scales the decimal     *)
(* strings to units of 1e-7); Bad is a string the column's check refuses.    *)
(*****************************************************************************)
EXTENDS Integers, FiniteSets, FiniteSetsExt

CONSTANTS
  Hashes,      \* transaction hashes
  Ids,         \* primary keys of ledger_blocks, in the order of its rows
  Amounts,     \* legal amounts
  Kinds,       \* types of ledger_blocks rows besides "settlement"
  MaxWrites    \* bound: writes between the first and the last read of a run

Bad == -1      \* not a legal amount string
Null == -2     \* ledger_blocks.amount is nullable
NoRow == [status |-> "none"]

Ages == {"fresh", "warning", "critical"}

VARIABLES
  transactions,  \* txHash (unique) -> row
  blocks,        \* id -> row of ledger_blocks
  exists,        \* whether the ledger_blocks table exists (no migration creates it)
  run            \* the dry run: what it has read, how far it is, writes meanwhile

vars == <<transactions, blocks, exists, run>>

Transactions ==
  [status : {"pending"}, amount : Amounts \union {Bad}, age : Ages]
    \union [status : {"completed", "failed"}, amount : Amounts \union {Bad}, age : {"fresh"}]

Blocks == [txHash : Hashes, type : Kinds \union {"settlement"}, amount : Amounts \union {Bad, Null}]

-----------------------------------------------------------------------------
(* evaluateLedgerBalance(transactions t, ledgerBlocks b): violations.        *)

isValidAmountString(a) == a >= 0

Recorded(t) == {h \in Hashes : t[h] # NoRow}
Completed(t) == {h \in Recorded(t) : t[h].status = "completed"}
Rows(b) == {i \in Ids : b[i] # NoRow}

\* settlementByTxHash: the settlement rows of a hash; the first is the primary.
Settlements(b, h) == {i \in Rows(b) : b[i].type = "settlement" /\ b[i].txHash = h}
Settled(b) == {h \in Hashes : Settlements(b, h) # {}}
Primary(b, h) == b[Min(Settlements(b, h))].amount

Inv1(t, b) ==
  \/ \E h \in Recorded(t) : ~isValidAmountString(t[h].amount)
  \/ \E i \in Rows(b) : b[i].amount = Bad

\* Faulty variant: a completed payout of zero passes.
Inv2Negative(t) == \E h \in Completed(t) : t[h].amount < 0 /\ t[h].amount # Bad

Inv2(t) == \E h \in Completed(t) : t[h].amount = 0

Comparable(t, b, h) ==
  h \in Recorded(t) \intersect Settled(b)
    /\ isValidAmountString(t[h].amount) /\ isValidAmountString(Primary(b, h))

Inv3(t, b) ==
  \E h \in Completed(t) : Comparable(t, b, h) /\ t[h].amount # Primary(b, h)

Inv4(t, b) ==
  \E h \in Recorded(t) : Comparable(t, b, h) /\ t[h].status = "failed"

Inv5Duplicate(b) == \E h \in Hashes : Cardinality(Settlements(b, h)) > 1

completedTotal(t) ==
  LET valid == {h \in Completed(t) : isValidAmountString(t[h].amount)}
  IN  SumFunction([h \in valid |-> t[h].amount])

settledTotal(b) ==
  LET valid == {h \in Settled(b) : isValidAmountString(Primary(b, h))}
  IN  SumFunction([h \in valid |-> Primary(b, h)])

Inv5Aggregate(t, b) == completedTotal(t) # settledTotal(b)

Violations(t, b) ==
  Inv1(t, b) \/ Inv2(t) \/ Inv3(t, b) \/ Inv4(t, b) \/ Inv5Duplicate(b) \/ Inv5Aggregate(t, b)

-----------------------------------------------------------------------------
(* checkOrphanedTransactions: a completed payout wants a row of any type, a  *)
(* settlement row wants a transaction.                                       *)

CompletedMissingLedgerBlock(t, b) ==
  {h \in Completed(t) : \A i \in Rows(b) : b[i].txHash # h}

SettlementMissingTransaction(t, b) ==
  {h \in Settled(b) : h \notin Recorded(t)}

-----------------------------------------------------------------------------
(* The commands' exit codes.  A missing table is a warning: the dry run then *)
(* evaluates the invariants over no blocks and skips the orphan check.       *)

dryRunOk(r) ==
  /\ ~Violations(r.t1, r.b1)
  /\ r.available =>
       CompletedMissingLedgerBlock(r.t2, r.b2) = {} /\ SettlementMissingTransaction(r.t2, r.b2) = {}

agingOk(t) == \A h \in Recorded(t) : t[h].status = "pending" => t[h].age # "critical"

-----------------------------------------------------------------------------
(* The dry run: reads in the order of the code.                              *)

NoBlocks == [i \in Ids |-> NoRow]
NoTransactions == [h \in Hashes |-> NoRow]

Fresh == [at |-> 1, t1 |-> NoTransactions, b1 |-> NoBlocks, t2 |-> NoTransactions,
          b2 |-> NoBlocks, available |-> TRUE, writes |-> 0]

\* Faulty variant: the orphan check reads the blocks before the transactions.
OrphanReadsSwapped ==
  \/ /\ run.at = 3
     /\ run' = [run EXCEPT !.at = 4, !.b2 = blocks]
  \/ /\ run.at = 4
     /\ run' = [run EXCEPT !.at = 5, !.t2 = transactions]

OrphanReads ==
  \/ /\ run.at = 3
     /\ run' = [run EXCEPT !.at = 4, !.t2 = transactions]
  \/ /\ run.at = 4
     /\ run' = [run EXCEPT !.at = 5, !.b2 = blocks]

ReadTransactions ==
  /\ run.at = 1
  /\ run' = [run EXCEPT !.at = 2, !.t1 = transactions]
  /\ UNCHANGED <<transactions, blocks, exists>>

ReadBlocks ==
  /\ run.at = 2
  /\ run' = IF exists
            THEN [run EXCEPT !.at = 3, !.b1 = blocks]
            ELSE [run EXCEPT !.at = 5, !.available = FALSE]
  /\ UNCHANGED <<transactions, blocks, exists>>

checkOrphanedTransactions ==
  /\ OrphanReads
  /\ UNCHANGED <<transactions, blocks, exists>>

Finished == run.at = 5

-----------------------------------------------------------------------------
(* Writers, while the run is going on.                                       *)

Write ==
  /\ ~Finished /\ run.writes < MaxWrites
  /\ run' = [run EXCEPT !.writes = @ + 1]
  /\ UNCHANGED exists

\* The event listener records a payout it saw; it is completed.
Record(h, a) ==
  /\ Write
  /\ transactions[h] = NoRow
  /\ transactions' = [transactions EXCEPT ![h] =
                        [status |-> "completed", amount |-> a, age |-> "fresh"]]
  /\ UNCHANGED blocks

\* A row recorded as pending gets its outcome.
Conclude(h, s) ==
  /\ Write
  /\ transactions[h] # NoRow /\ transactions[h].status = "pending"
  /\ transactions' = [transactions EXCEPT ![h].status = s, ![h].age = "fresh"]
  /\ UNCHANGED blocks

\* The settlement side adds a row.
Settle(i, row) ==
  /\ Write
  /\ exists
  /\ i \notin Rows(blocks) /\ \A j \in Ids : j < i => j \in Rows(blocks)
  /\ blocks' = [blocks EXCEPT ![i] = row]
  /\ UNCHANGED transactions

Init ==
  /\ transactions \in [Hashes -> Transactions \union {NoRow}]
  /\ blocks \in [Ids -> Blocks \union {NoRow}]
  /\ \A i, j \in Ids : j < i /\ i \in Rows(blocks) => j \in Rows(blocks)
  /\ exists \in BOOLEAN /\ (~exists => blocks = NoBlocks)
  /\ run = Fresh

Next ==
  \/ ReadTransactions \/ ReadBlocks \/ checkOrphanedTransactions
  \/ \E h \in Hashes : \/ \E a \in Amounts : Record(h, a)
                       \/ \E s \in {"completed", "failed"} : Conclude(h, s)
  \/ \E i \in Ids, row \in Blocks : Settle(i, row)

Spec == Init /\ [][Next]_vars

-----------------------------------------------------------------------------
(* Properties.                                                               *)

\* When nothing was written meanwhile, a payout that is settled otherwise than
\* its row says, or completed and not settled, makes a command exit non-zero: the
\* dry run, or the aging report for a row left pending.  A settlement row without
\* an amount, and a pending row with a settlement that is not critical yet, are
\* outside what the commands promise.
NothingFallsThrough ==
  Finished /\ run.writes = 0 /\ exists /\ dryRunOk(run) /\ agingOk(transactions) =>
    \/ \E h \in Hashes : Settlements(blocks, h) # {} /\ Primary(blocks, h) = Null
    \/ \E h \in Settled(blocks) : transactions[h] # NoRow /\ transactions[h].status = "pending"
    \/ \A h \in Hashes :
         IF h \in Completed(transactions)
         THEN \E i \in Ids : Settlements(blocks, h) = {i} /\ blocks[i].amount = transactions[h].amount
         ELSE Settlements(blocks, h) = {}

\* Writes during the run never make it report a completed payout without a ledger
\* row that has one: the transactions are read first, so a payout read as
\* completed was settled, if ever, before the blocks are read.
MissingSettlementIsReal ==
  Finished /\ run.available =>
    \A h \in CompletedMissingLedgerBlock(run.t2, run.b2) :
      h \in Completed(transactions) /\ \A i \in Rows(blocks) : blocks[i].txHash # h

\* "`pending' with a settlement entry is legitimate [...] not a balancing
\* violation": rows that differ from a balanced ledger only in such a lag balance.
\* Does not hold: the settlement of a pending payout is in the settled total
\* and not in the completed one, so INV-5 reports it.
LagIsNotAViolation ==
  Finished /\ run.writes = 0 /\ exists
    /\ (\A h \in Hashes :
          /\ Settlements(blocks, h) # {} =>
               /\ transactions[h] # NoRow /\ transactions[h].status # "failed"
               /\ Cardinality(Settlements(blocks, h)) = 1
               /\ Primary(blocks, h) = transactions[h].amount
          /\ h \in Completed(transactions) =>
               Settlements(blocks, h) # {} /\ transactions[h].amount > 0)
    /\ ~Inv1(transactions, blocks)
    => dryRunOk(run)

=============================================================================
