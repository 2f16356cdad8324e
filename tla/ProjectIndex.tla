---------------------------- MODULE ProjectIndex ----------------------------
(***************************************************************************)
(* How the contract stores its list of project ids (contracts/lib.rs): in  *)
(* buckets of a fixed size, after a first version that kept one flat list. *)
(* create_project places the new id by the project counter, migration and  *)
(* listing by the bucket counter, so both counters and the fill of every   *)
(* bucket have to stay in step through an upgrade.                         *)
(*                                                                         *)
(* The list `ids` of module SplitContract is AllIds here.                  *)
(***************************************************************************)
EXTENDS Integers, SequencesExt

CONSTANTS
  Ids,          \* project ids
  BucketSize,   \* PROJECT_ID_BUCKET_SIZE, 100
  MaxBuckets,   \* bound on the buckets of the instance
  LegacyIds,    \* id lists a deployment of an earlier version may hold
  NoFlat        \* the ProjectIds key is absent

IndexAssumption ==
  /\ BucketSize \in Nat \ {0} /\ MaxBuckets \in Nat
  /\ LegacyIds \subseteq Seq(Ids)
  \* The first version added an id once; MaxBuckets leaves room for one more.
  /\ \A list \in LegacyIds : IsInjective(list) /\ Len(list) < MaxBuckets * BucketSize
  /\ NoFlat \notin Seq(Ids)

VARIABLES
  flat,          \* DataKey::ProjectIds, the deprecated list
  buckets,       \* DataKey::ProjectIdsBucket(b); a missing one reads as empty
  bucketCount,   \* DataKey::ProjectIdsBucketCount
  projectCount   \* DataKey::ProjectCount

vars == <<flat, buckets, bucketCount, projectCount>>

BucketIndex == 0..MaxBuckets - 1
NoBuckets == [b \in BucketIndex |-> <<>>]
-----------------------------------------------------------------------------
(* Reading *)

\* get_bucketed_project_ids: the buckets the counter knows of, in order.
BucketedIds(bs, n) ==
  LET upTo[b \in 0..n] == IF b = 0 THEN <<>> ELSE upTo[b - 1] \o bs[b - 1]
  IN upTo[n]

\* One after the other, the ids of `more` that `list` does not have yet.
Merge(list, more) ==
  LET upTo[i \in 0..Len(more)] ==
        IF i = 0 THEN list
        ELSE IF Contains(upTo[i - 1], more[i]) THEN upTo[i - 1]
        ELSE Append(upTo[i - 1], more[i])
  IN upTo[Len(more)]

\* get_all_project_ids: what the accounting sum iterates over.
AllIds ==
  IF flat = NoFlat THEN BucketedIds(buckets, bucketCount)
  ELSE Merge(BucketedIds(buckets, bucketCount), flat)

\* get_project_ids_from_buckets.  Without buckets the flat list is returned.
GetProjectIds(start, limit) ==
  LET end == start + limit
      \* The ids collected from position i on.
      from[i \in 0..end + BucketSize] ==
        LET b      == i \div BucketSize
            offset == i % BucketSize
            left   == Len(buckets[b]) - offset
            take   == IF left < end - i THEN left ELSE end - i
        IN IF i >= end \/ b >= bucketCount THEN <<>>
           ELSE IF left <= 0 THEN from[(b + 1) * BucketSize]
           ELSE SubSeq(buckets[b], offset + 1, offset + take) \o from[i + take]
  IN IF bucketCount > 0 THEN from[start]
     ELSE IF flat = NoFlat THEN <<>> ELSE flat
-----------------------------------------------------------------------------
(* Writing *)

\* Faulty variant: lets a full bucket grow by one more id.
AppendToBucketsOverfull(s, id) ==
  LET last == s.count - 1 IN
  IF s.count > 0 /\ Len(s.bs[last]) <= BucketSize
  THEN [s EXCEPT !.bs[last] = Append(@, id)]
  ELSE [bs |-> [s.bs EXCEPT ![s.count] = <<id>>], count |-> s.count + 1]

\* append_project_id_to_buckets on a pair of buckets and their counter.
AppendToBuckets(s, id) ==
  LET last == s.count - 1 IN
  IF s.count > 0 /\ Len(s.bs[last]) < BucketSize
  THEN [s EXCEPT !.bs[last] = Append(@, id)]
  ELSE [bs |-> [s.bs EXCEPT ![s.count] = <<id>>], count |-> s.count + 1]

\* migrate_flat_project_index: each legacy id that is not bucketed yet.
Migrated ==
  LET stored == [bs |-> buckets, count |-> bucketCount]
      upTo[i \in 0..Len(flat)] ==
        LET s == upTo[i - 1] IN
        IF i = 0 THEN stored
        ELSE IF Contains(BucketedIds(s.bs, s.count), flat[i]) THEN s
        ELSE AppendToBuckets(s, flat[i])
  IN IF flat = NoFlat THEN stored ELSE upTo[Len(flat)]

\* Faulty variant: the new id is placed without folding the flat list in.
CreateProjectUnmigrated(id) ==
  LET target == projectCount \div BucketSize IN
  /\ ~Contains(AllIds, id)
  /\ target < MaxBuckets
  /\ projectCount' = projectCount + 1
  /\ buckets' = [buckets EXCEPT ![target] = Append(@, id)]
  /\ bucketCount' = IF target >= bucketCount THEN bucketCount + 1 ELSE bucketCount
  /\ UNCHANGED flat

\* The index part of create_project; the project's existence was checked.
CreateProject(id) ==
  LET m      == Migrated
      target == projectCount \div BucketSize
  IN /\ ~Contains(AllIds, id)
     /\ target < MaxBuckets
     /\ projectCount' = projectCount + 1
     /\ flat' = NoFlat
     /\ IF target >= m.count
        THEN /\ buckets' = [m.bs EXCEPT ![target] = <<id>>]
             /\ bucketCount' = m.count + 1
        ELSE /\ buckets' = [m.bs EXCEPT ![target] = Append(@, id)]
             /\ bucketCount' = m.count

MigrateFlatToBuckets ==
  /\ flat' = NoFlat
  /\ buckets' = Migrated.bs
  /\ bucketCount' = Migrated.count
  /\ UNCHANGED projectCount
-----------------------------------------------------------------------------
(* The layouts of prior_state_fixture_tests.rs: new, the flat list of the   *)
(* first version, and the mixed one in which a project created right after  *)
(* the upgrade went into bucket 0 while the older ids stayed in the list.   *)

FreshIndex ==
  /\ flat = NoFlat /\ buckets = NoBuckets
  /\ bucketCount = 0 /\ projectCount = 0

FlatIndex ==
  /\ flat \in LegacyIds
  /\ buckets = NoBuckets
  /\ bucketCount = 0 /\ projectCount = Len(flat)

MixedIndex ==
  /\ flat \in LegacyIds
  /\ \E id \in Ids : ~Contains(flat, id) /\ buckets = [NoBuckets EXCEPT ![0] = <<id>>]
  /\ bucketCount = 1 /\ projectCount = Len(flat) + 1

Init == FreshIndex \/ FlatIndex \/ MixedIndex

Next == (\E id \in Ids : CreateProject(id)) \/ MigrateFlatToBuckets

Spec == Init /\ [][Next]_vars
-----------------------------------------------------------------------------
\* The union of both layouts names every project once and agrees with the
\* project counter, whatever mix of layouts an upgrade left behind and however
\* creations and migrations interleave: the accounting sum, which iterates
\* over it, misses no project and counts none twice.
IndexComplete == Len(AllIds) = projectCount /\ IsInjective(AllIds)

\* Once the index is bucketed every page is the slice of the list it asks for:
\* the walk over the buckets neither skips nor repeats an id at a boundary.
Slice(list, start, limit) ==
  SubSeq(list, start + 1, IF start + limit < Len(list) THEN start + limit ELSE Len(list))
PagesAreSlices ==
  flat = NoFlat =>
    \A start, limit \in 0..projectCount + 1 :
      GetProjectIds(start, limit) = Slice(AllIds, start, limit)
=============================================================================
