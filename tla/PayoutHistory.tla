------------------------------ MODULE PayoutHistory ------------------------------
(*****************************************************************************)
(* Reading the `transactions' table a page at a time while it grows          *)
(* (services/PayoutHistoryService.ts, routes/transactions.ts).               *)
(*                                                                           *)
(* A client walks /transactions/history or /transactions/recipient with the  *)
(* keyset cursor of the page before; an export walks the same rows by offset *)
(* in batches and writes them out.  Meanwhile the event listener inserts     *)
(* rows, and a backfill (payout-history-backfill/) inserts the old ones the  *)
(* table misses.  Rows are never deleted.                                    *)
(*                                                                           *)
(* A row is its id, a UUID whose order is arbitrary; two rows may carry the  *)
(* same timestamp.  Readers change nothing, so a behaviour has one of them.  *)
(*****************************************************************************)
EXTENDS Naturals, FiniteSets, Sequences, SequencesExt

CONSTANTS
  Ids,          \* the rows there may be: a set of numbers
  Matching,     \* those the walk's filters select
  Times,        \* timestamps, in seconds: positive numbers
  Limit,        \* rows of a page, and of an export's batch
  MaxRows       \* EXPORT_MAX_ROWS

VARIABLES
  table,        \* id -> timestamp, Absent for a row not inserted
  walk,         \* the client's walk by cursor
  export,       \* the export by offset
  backfill      \* the backfill: the events it found missing, and whether it runs

vars == <<table, walk, export, backfill>>

Absent == 0
NoCursor == [t |-> Absent, id |-> 0]
Present == {i \in Ids : table[i] # Absent}
Selected == Present \intersect Matching

-----------------------------------------------------------------------------
(* Queries.                                                                  *)

\* ORDER BY timestamp DESC, id DESC
Before(i, j) == table[i] > table[j] \/ (table[i] = table[j] /\ i > j)

\* ORDER BY timestamp DESC, id ASC: the export's order.
BeforeInExport(i, j) == table[i] > table[j] \/ (table[i] = table[j] /\ i < j)

Ordered(rows, before(_, _)) ==
  CHOOSE s \in [1..Cardinality(rows) -> rows] :
    \A m, n \in 1..Cardinality(rows) : m < n => before(s[m], s[n])

\* Faulty variant: the cursor compares timestamps only.
AfterCursorByTime(c) == {i \in Selected : c = NoCursor \/ table[i] < c.t}

\* WHERE timestamp < :t OR (timestamp = :t AND id < :id)
AfterCursor(c) ==
  {i \in Selected : c = NoCursor \/ table[i] < c.t \/ (table[i] = c.t /\ i < c.id)}

\* take(limit + 1): the extra row tells whether another page exists.
getPayoutsPage(c) ==
  LET rows == Ordered(AfterCursor(c), Before)
  IN  [records |-> SubSeq(rows, 1, IF Len(rows) < Limit THEN Len(rows) ELSE Limit),
       hasMore |-> Len(rows) > Limit]

-----------------------------------------------------------------------------
(* The walk by cursor.                                                       *)

NoWalk == [on |-> FALSE, cursor |-> NoCursor, got |-> <<>>, there |-> {}, end |-> "none"]
NoExport == [on |-> FALSE, offset |-> 0, written |-> <<>>, there |-> {}, end |-> "none"]

StartWalk ==
  /\ walk = NoWalk /\ export = NoExport
  /\ walk' = [walk EXCEPT !.on = TRUE, !.there = Selected]
  /\ UNCHANGED <<table, export, backfill>>

\* buildPageMetadata: the last row of the page, when another page follows.
NextCursor(page) ==
  IF page.hasMore THEN [t |-> table[Last(page.records)], id |-> Last(page.records)] ELSE NoCursor

\* The client asks for the page after its cursor.
ReadPage ==
  LET page == getPayoutsPage(walk.cursor)
  IN  /\ walk.on
      /\ walk' = [walk EXCEPT
                   !.got = @ \o page.records,
                   !.on = page.hasMore,
                   !.cursor = NextCursor(page),
                   !.end = IF page.hasMore THEN @ ELSE "complete"]
      /\ UNCHANGED <<table, export, backfill>>

\* The query fails: an empty page without a successor, status 200.
ReadPageFails ==
  /\ walk.on
  /\ walk' = [walk EXCEPT !.on = FALSE, !.end = "failed"]
  /\ UNCHANGED <<table, export, backfill>>

-----------------------------------------------------------------------------
(* The export.                                                               *)

StartExport ==
  /\ export = NoExport /\ walk = NoWalk
  /\ export' = [export EXCEPT !.on = TRUE, !.there = Selected]
  /\ UNCHANGED <<table, walk, backfill>>

\* Faulty variant: the next batch starts one row late.
NextOffsetLate(batch) == export.offset + Len(batch) + 1

NextOffset(batch) == export.offset + Len(batch)

\* One batch of iteratePayouts, written row by row up to the cap.
WriteBatch ==
  LET rows  == Ordered(Selected, BeforeInExport)
      to    == export.offset + Limit
      batch == SubSeq(rows, export.offset + 1, IF Len(rows) < to THEN Len(rows) ELSE to)
      room  == MaxRows - Len(export.written)
      cut   == Len(batch) > room
  IN  /\ export.on
      /\ export' = [export EXCEPT
                     !.written = @ \o (IF cut THEN SubSeq(batch, 1, room) ELSE batch),
                     !.offset = NextOffset(batch),
                     !.on = ~cut /\ Len(batch) = Limit,
                     !.end = IF cut THEN "truncated"
                             ELSE IF Len(batch) = Limit THEN @ ELSE "complete"]
      /\ UNCHANGED <<table, walk, backfill>>

\* The query fails: the generator returns and the file just ends.
WriteBatchFails ==
  /\ export.on
  /\ export' = [export EXCEPT !.on = FALSE, !.end = "failed"]
  /\ UNCHANGED <<table, walk, backfill>>

-----------------------------------------------------------------------------
(* Writers.                                                                  *)

\* The event listener upserts a payout, keyed by its transaction hash.
Insert(i, t) ==
  /\ table[i] = Absent
  /\ table' = [table EXCEPT ![i] = t]
  /\ UNCHANGED <<walk, export, backfill>>

\* findExistingTransactionHashes: what the backfill will create.
BackfillReads(t) ==
  /\ backfill.end = "none" /\ ~backfill.on
  /\ backfill' = [backfill EXCEPT !.on = TRUE, !.missing = Ids \ Present, !.t = t]
  /\ UNCHANGED <<table, walk, export>>

\* createMany: refused as a whole when the listener was faster for one of them.
BackfillWrites ==
  LET clash == backfill.missing \intersect Present # {}
  IN  /\ backfill.on
      /\ table' = IF clash THEN table
                  ELSE [i \in Ids |-> IF i \in backfill.missing THEN backfill.t ELSE table[i]]
      /\ backfill' = [backfill EXCEPT !.on = FALSE, !.end = IF clash THEN "refused" ELSE "created"]
      /\ UNCHANGED <<walk, export>>

Init ==
  /\ table \in [Ids -> Times \union {Absent}]
  /\ walk = NoWalk /\ export = NoExport
  /\ backfill = [on |-> FALSE, missing |-> {}, t |-> Absent, end |-> "none"]

Next ==
  \/ StartWalk \/ ReadPage \/ ReadPageFails
  \/ StartExport \/ WriteBatch \/ WriteBatchFails
  \/ \E i \in Ids, t \in Times : Insert(i, t)
  \/ (\E t \in Times : BackfillReads(t)) \/ BackfillWrites

Spec == Init /\ [][Next]_vars

-----------------------------------------------------------------------------
(* Properties.                                                               *)

\* "a row can never be returned twice or skipped between pages": a walk that ends
\* without an error has every row that was there when it began, and no row twice,
\* whatever was inserted, with equal timestamps or behind the cursor.
EachRowOnce ==
  /\ IsInjective(walk.got)
  /\ walk.end = "complete" => walk.there \subseteq Range(walk.got)

\* An export may repeat a row that an insert pushed into the next batch, but one
\* that ends without an error below the cap never loses one.
ExportLosesNothing ==
  export.end = "complete" => export.there \subseteq Range(export.written)

=============================================================================
