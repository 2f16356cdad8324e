------------------------------ MODULE ReadCache ------------------------------
(***************************************************************************)
(* The cache of contract reads (backend/src/services/read-cache.ts): a     *)
(* bounded map in order of use, entries that expire, one upstream read per *)
(* key at a time that all concurrent callers share, and invalidation by    *)
(* the routes that prepare a transaction.                                  *)
(*                                                                         *)
(* A value is the version of the chain state it was read from.  Time is    *)
(* kept as whether an entry has expired.  A step is what runs between two  *)
(* awaits; the `then` and `finally` callbacks of a read are two steps.     *)
(***************************************************************************)
EXTENDS Sums

CONSTANTS
  CacheKeys,    \* cache keys: a project, a page of the list
  Groups,       \* sets of keys that one route invalidates
  Callers,      \* requests that read
  MaxEntries,   \* maxEntries
  MaxFetches,   \* bound on upstream reads
  MaxVersion    \* bound on changes of the chain state

NoFetch == 0
Unread  == -1

VARIABLES
  upstream,  \* version of the chain state
  built,     \* keys of transactions that were prepared and not yet submitted
  store,     \* the map: entries [key, ver, expired], least recently used first
  inflight,  \* key -> the read that concurrent callers join
  fetches,   \* the reads started so far: [key, ver, state]
  asking,    \* caller -> the read it awaits
  floor      \* history: the version when a key was last invalidated

vars == <<upstream, built, store, inflight, fetches, asking, floor>>

Fetches == 1..Len(fetches)

TypeOK ==
  /\ upstream \in 0..MaxVersion
  /\ built \in SUBSET Groups
  /\ store \in Seq([key : CacheKeys, ver : 0..MaxVersion, expired : BOOLEAN])
  /\ fetches \in Seq([key : CacheKeys, ver : (0..MaxVersion) \cup {Unread},
                      state : {"pending", "kept", "settled"}])
  /\ inflight \in [CacheKeys -> Fetches \cup {NoFetch}]
  /\ asking \in [Callers -> [fetch : Fetches \cup {NoFetch}, floor : 0..MaxVersion]]
  /\ floor \in [CacheKeys -> 0..MaxVersion]

Init ==
  /\ upstream = 0 /\ built = {}
  /\ store = <<>> /\ inflight = [k \in CacheKeys |-> NoFetch] /\ fetches = <<>>
  /\ asking = [c \in Callers |-> [fetch |-> NoFetch, floor |-> 0]]
  /\ floor = [k \in CacheKeys |-> 0]
-----------------------------------------------------------------------------
Without(s, K)  == Dropping(s, {i \in DOMAIN s : s[i].key \in K})
EntriesOf(k)   == {i \in DOMAIN store : store[i].key = k}
Hit(k)         == \E i \in EntriesOf(k) : ~store[i].expired

\* Faulty variant: eviction is left out.
StoredUnbounded(s, k, v) ==
  Append(Without(s, {k}), [key |-> k, ver |-> v, expired |-> FALSE])

\* set: a new key evicts the least recently used entry of a full map.  (A key
\* that is set here was missed before, so it has no entry to keep its place.)
Stored(s, k, v) ==
  LET rest == IF Len(s) >= MaxEntries /\ ~(\E i \in DOMAIN s : s[i].key = k)
              THEN Tail(s) ELSE s
  IN  Append(Without(rest, {k}), [key |-> k, ver |-> v, expired |-> FALSE])

\* getOrFetch finds a live entry: it becomes the most recently used.
GetHit(c, k) ==
  /\ asking[c].fetch = NoFetch
  /\ Hit(k)
  /\ \E i \in EntriesOf(k) : store' = Append(Without(store, {k}), store[i])
  /\ UNCHANGED <<upstream, built, inflight, fetches, asking, floor>>

\* getOrFetch misses (and drops an expired entry) while a read is under way.
GetJoin(c, k) ==
  /\ asking[c].fetch = NoFetch
  /\ ~Hit(k) /\ inflight[k] # NoFetch
  /\ store' = Without(store, {k})
  /\ asking' = [asking EXCEPT ![c] = [fetch |-> inflight[k], floor |-> floor[k]]]
  /\ UNCHANGED <<upstream, built, inflight, fetches, floor>>

\* getOrFetch misses and calls the fetcher.
GetFetch(c, k) ==
  /\ asking[c].fetch = NoFetch
  /\ ~Hit(k) /\ inflight[k] = NoFetch
  /\ Len(fetches) < MaxFetches
  /\ store' = Without(store, {k})
  /\ fetches' = Append(fetches, [key |-> k, ver |-> Unread, state |-> "pending"])
  /\ inflight' = [inflight EXCEPT ![k] = Len(fetches')]
  /\ asking' = [asking EXCEPT ![c] = [fetch |-> Len(fetches'), floor |-> floor[k]]]
  /\ UNCHANGED <<upstream, built, floor>>

\* The RPC node simulates the read.
Read(f) ==
  /\ fetches[f].state = "pending" /\ fetches[f].ver = Unread
  /\ fetches' = [fetches EXCEPT ![f].ver = upstream]
  /\ UNCHANGED <<upstream, built, store, inflight, asking, floor>>

\* Faulty variant: the answer is kept without asking who is in flight.
ThenUnchecked(f) ==
  LET k == fetches[f].key
  IN  /\ fetches[f].state = "pending" /\ fetches[f].ver # Unread
      /\ store' = Stored(store, k, fetches[f].ver)
      /\ fetches' = [fetches EXCEPT ![f].state = "kept"]
      /\ UNCHANGED <<upstream, built, inflight, asking, floor>>

\* The `then` callback: the answer is kept if the read is still the current one.
Then(f) ==
  LET k == fetches[f].key
  IN  /\ fetches[f].state = "pending" /\ fetches[f].ver # Unread
      /\ store' = IF inflight[k] = f THEN Stored(store, k, fetches[f].ver) ELSE store
      /\ fetches' = [fetches EXCEPT ![f].state = "kept"]
      /\ UNCHANGED <<upstream, built, inflight, asking, floor>>

\* Faulty variant: the read stays in flight.
FinallyLeaking(f) ==
  /\ fetches[f].state \in {"kept", "pending"}
  /\ fetches' = [fetches EXCEPT ![f].state = "settled"]
  /\ asking' = [c \in Callers |-> IF asking[c].fetch = f
                                  THEN [fetch |-> NoFetch, floor |-> 0]
                                  ELSE asking[c]]
  /\ UNCHANGED <<upstream, built, store, inflight, floor>>

\* The `finally` callback, after `then` or after the fetcher failed; the
\* callers that awaited the read are answered.
Finally(f) ==
  LET k == fetches[f].key
  IN  /\ fetches[f].state \in {"kept", "pending"}
      /\ fetches' = [fetches EXCEPT ![f].state = "settled"]
      /\ inflight' = IF inflight[k] = f THEN [inflight EXCEPT ![k] = NoFetch]
                     ELSE inflight
      /\ asking' = [c \in Callers |-> IF asking[c].fetch = f
                                      THEN [fetch |-> NoFetch, floor |-> 0]
                                      ELSE asking[c]]
      /\ UNCHANGED <<upstream, built, store, floor>>

\* An entry reaches its expiresAt.
Expire(i) ==
  /\ ~store[i].expired
  /\ store' = [store EXCEPT ![i].expired = TRUE]
  /\ UNCHANGED <<upstream, built, inflight, fetches, asking, floor>>

\* stats() purges expired entries.
PurgeExpired ==
  /\ \E i \in DOMAIN store : store[i].expired
  /\ store' = Dropping(store, {i \in DOMAIN store : store[i].expired})
  /\ UNCHANGED <<upstream, built, inflight, fetches, asking, floor>>

\* A route that prepares an unsigned transaction invalidates (delete,
\* deleteByPrefix) what the transaction will change.
Prepare(K) ==
  /\ built' = built \cup {K}
  /\ store' = Without(store, K)
  /\ inflight' = [k \in CacheKeys |-> IF k \in K THEN NoFetch ELSE inflight[k]]
  /\ floor' = [k \in CacheKeys |-> IF k \in K THEN upstream ELSE floor[k]]
  /\ UNCHANGED <<upstream, fetches, asking>>

\* The client signs and submits a prepared transaction.
Submit(K) ==
  /\ K \in built
  /\ upstream < MaxVersion
  /\ upstream' = upstream + 1
  /\ built' = built \ {K}
  /\ UNCHANGED <<store, inflight, fetches, asking, floor>>

Next ==
  \/ \E c \in Callers, k \in CacheKeys : GetHit(c, k) \/ GetJoin(c, k) \/ GetFetch(c, k)
  \/ \E f \in Fetches : Read(f) \/ Then(f) \/ Finally(f)
  \/ \E i \in DOMAIN store : Expire(i)
  \/ PurgeExpired
  \/ \E K \in Groups : Prepare(K) \/ Submit(K)

Spec == Init /\ [][Next]_vars
-----------------------------------------------------------------------------
\* A read that began before an invalidation neither puts its answer into the
\* cache nor answers a request that arrived after the invalidation: what the
\* cache serves for a key is never older than the last invalidation of the key.
InvalidationHolds ==
  /\ \A i \in DOMAIN store : store[i].ver >= floor[store[i].key]
  /\ \A c \in Callers : asking[c].fetch # NoFetch =>
       fetches[asking[c].fetch].ver \in {Unread} \cup (asking[c].floor..MaxVersion)

\* Concurrent callers share a read only while it is pending.  A read that stayed
\* joinable after it ended would serve its answer for ever, past any expiry.
EndedReadsNotJoinable ==
  \A k \in CacheKeys : inflight[k] # NoFetch =>
    fetches[inflight[k]].key = k /\ fetches[inflight[k]].state # "settled"

\* The map never holds more than maxEntries entries, nor two for one key, in
\* whatever order answers arrive.
StoreBounded ==
  /\ Len(store) <= MaxEntries
  /\ \A i, j \in DOMAIN store : store[i].key = store[j].key => i = j
=============================================================================
