------------------------------- MODULE MCReads -------------------------------
(***************************************************************************)
(* What readers of a project depend on, one part per behaviour: the life   *)
(* times of its entries, the index of projects, the read cache and the     *)
(* API in front of them.                                                   *)
(***************************************************************************)
EXTENDS StorageTtl, TLC

CONSTANTS
  Ids, BucketSize, MaxBuckets, LegacyIds, NoFlat,   \* of the project index
  CacheKeys, Groups, Callers,                       \* of the read cache
  MaxEntries, MaxFetches, MaxVersion,
  ApiWallets, Admin, ApiSlots, Ops, Deadlines,      \* of the splits routes
  MaxNow, MaxRequests, MaxChain

\* The instance: an index of an earlier version holds up to three projects.
FirstIds == {<<1>>, <<1, 2>>, <<1, 2, 3>>}

VARIABLE part   \* the part a behaviour belongs to

Unused == "unused"   \* the variables of the other parts

-----------------------------------------------------------------------------
(* The project index of the contract.                                      *)

VARIABLES flat, buckets, bucketCount, projectCount

indexVars == <<flat, buckets, bucketCount, projectCount>>

Index == INSTANCE ProjectIndex

ASSUME IndexAssumption == Index!IndexAssumption

IndexInit ==
  \/ part = "index" /\ Index!Init
  \/ /\ part # "index"
     /\ flat = Unused /\ buckets = Unused /\ bucketCount = Unused
     /\ projectCount = Unused

IndexStep == part = "index" /\ Index!Next

-----------------------------------------------------------------------------
(* The read cache of the backend.                                          *)

VARIABLES upstream, built, store, inflight, fetches, asking, floor

cacheVars == <<upstream, built, store, inflight, fetches, asking, floor>>

Cached == INSTANCE ReadCache

ASSUME CacheAssumption ==
  /\ Groups \subseteq SUBSET CacheKeys
  /\ MaxEntries \in Nat \ {0} /\ MaxFetches \in Nat /\ MaxVersion \in Nat

CachedInit ==
  \/ part = "cache" /\ Cached!Init
  \/ /\ part # "cache"
     /\ upstream = Unused /\ built = Unused /\ store = Unused
     /\ inflight = Unused /\ fetches = Unused /\ asking = Unused
     /\ floor = Unused

CachedStep == part = "cache" /\ Cached!Next

-----------------------------------------------------------------------------
(* The splits routes.                                                      *)

VARIABLES chain, changes, now, deadline, reached, stored, reading, tasks,
          arrived, prepared

apiVars ==
  <<chain, changes, now, deadline, reached, stored, reading, tasks, arrived,
  prepared>>

Api == INSTANCE SplitsApi

ASSUME ApiAssumption ==
  /\ Ops \subseteq DOMAIN Api!Route /\ Deadlines \subseteq Nat
  /\ "nobody" \notin ApiWallets   \* Nobody
  /\ "none" \notin ApiSlots

ApiInit ==
  \/ part = "api" /\ Api!ApiInit
  \/ /\ part # "api"
     /\ chain = Unused /\ changes = Unused /\ now = Unused
     /\ deadline = Unused /\ reached = Unused /\ stored = Unused
     /\ reading = Unused /\ tasks = Unused /\ arrived = Unused
     /\ prepared = Unused

ApiStep == part = "api" /\ Api!ApiNext

-----------------------------------------------------------------------------
MCInit ==
  /\ part \in {"ttl", "index", "cache", "api"}
  /\ Init
  /\ IndexInit /\ CachedInit /\ ApiInit

\* One part moves.
MCNext ==
  \/ part = "ttl" /\ Next /\ UNCHANGED <<part, indexVars, cacheVars, apiVars>>
  \/ IndexStep /\ UNCHANGED <<part, vars, cacheVars, apiVars>>
  \/ CachedStep /\ UNCHANGED <<part, vars, indexVars, apiVars>>
  \/ ApiStep /\ UNCHANGED <<part, vars, indexVars, cacheVars>>

mcVars == <<part, vars, indexVars, cacheVars, apiVars>>

MCSpec == MCInit /\ [][MCNext]_mcVars
-----------------------------------------------------------------------------
MCSymmetry == Permutations(ApiSlots)

\* However creations and migrations interleave, the index names every project
\* once, and every page of a bucketed index is the slice it asks for
\* (list_projects and migrate_flat_to_buckets in lib.rs).
IndexSound == part = "index" => Index!IndexComplete /\ Index!PagesAreSlices

\* What the cache serves is never older than the last invalidation of its key, a
\* read that has ended cannot be joined, and the map stays within its bound
\* (cache.ts).
CacheSound ==
  part = "cache" =>
    Cached!InvalidationHolds /\ Cached!EndedReadsNotJoinable /\ Cached!StoreBounded

\* Whoever is answered 401 was not the owner at some moment of his request
\* (assertProjectOwner, splits.service.ts).
OwnerNotLockedOut == part = "api" => Api!OwnerNotLockedOut

\* A project and its balance, read by two simulations, never count a payout
\* twice (getProject, splits.service.ts).
NeverCountsTwice == part = "api" => Api!NeverCountsTwice

\* A deadline that has passed is replaced only by a request whose check came
\* before it passed, or by a creation under an unused id
\* (project-expiration.ts).
PassedDeadlineIsFinal == [][part = "api" => Api!DeadlineStays]_apiVars
=============================================================================
