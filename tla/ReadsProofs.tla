----------------------------- MODULE ReadsProofs -----------------------------
(***************************************************************************)
(* Proofs about what readers of a project depend on, for every value of    *)
(* the constants.                                                          *)
(*                                                                         *)
(* Life times: what a call extended has more than Threshold ledgers left,  *)
(* and every ledger that closes takes one off the entry and adds one to    *)
(* the clock `idle`: their sum stays above the threshold until the clock   *)
(* passes it.                                                              *)
(*                                                                         *)
(* Read cache: whoever is in flight for a key read it after the key was    *)
(* last invalidated, if at all; CacheInv.                                  *)
(*                                                                         *)
(* Splits routes: a request that has looked past the cache trusts what is  *)
(* cached and fetched from then on, a fetch never counts more than was     *)
(* paid in, and the check of the deadline lies ahead of everybody who      *)
(* could not pass it; ApiInv.                                              *)
(*                                                                         *)
(* Project index: the buckets are a list cut in pieces of BucketSize, and  *)
(* with what the flat list adds to it, it has as many ids as there are     *)
(* projects; IndexInv.                                                     *)
(***************************************************************************)
EXTENDS MCReads, SumsProofs

Ttls      == [Keys -> Absent..MaxTtl]
Ledger(c) == {Claimed(c), LastAmount(c)}

\* The entries in K keep up with a clock.
KeepsUp(t, K, clock) ==
  clock <= Threshold + 1 => \A k \in K : Exists(t, k) => t[k] >= Threshold + 1 - clock

\* The inductive invariant.
TtlInv ==
  /\ TypeOK
  /\ \A k \in Core : Exists(ttl, k) <=> Exists(ttl, Project)
  /\ KeepsUp(ttl, Core, idle)
  /\ \A c \in Collabs : KeepsUp(ttl, Ledger(c), idleClaims[c])
-----------------------------------------------------------------------------
\* The bounds of the life times and of the clocks are ordered.
LEMMA Bounds ==
  /\ MaxTtl \in Nat /\ MinTtl <= MaxTtl /\ Bump <= MaxTtl
  /\ Threshold \in Nat /\ Bump \in Nat /\ MinTtl \in Nat /\ Threshold < Bump
  /\ MaxIdle \in Nat /\ MaxIdle = MaxTtl + 1
BY TtlAssumption DEF MaxTtl, MaxIdle

\* No two entries of a project share a storage key.
LEMMA KeysDistinct ==
  /\ Core \subseteq Keys /\ Epoch \in Keys /\ Cache \in Keys
  /\ Project # Balance /\ Epoch \notin Core /\ Cache \notin Core
  /\ \A c \in Collabs :
       /\ OfCollab(c) \subseteq Keys /\ Ledger(c) \subseteq OfCollab(c)
       /\ OfCollab(c) \cap (Core \cup {Epoch, Cache}) = {}
       /\ LastEpoch(c) \notin Ledger(c)
       /\ \A d \in Collabs : c # d => OfCollab(c) \cap OfCollab(d) = {}
BY DEF Keys, Core, Project, Balance, Epoch, Cache, OfCollab, Claimed,
       LastAmount, LastEpoch, Ledger

\* extend_ttl never shortens a life, and leaves what it names above Threshold.
LEMMA Extends ==
  ASSUME NEW t \in Ttls, NEW K
  PROVE  /\ ExtendTtl(t, K) \in Ttls
         /\ \A k \in Keys : /\ ExtendTtl(t, K)[k] >= t[k]
                            /\ k \in K => ExtendTtl(t, K)[k] >= Threshold + 1
                            /\ k \notin K => ExtendTtl(t, K)[k] = t[k]
BY Bounds DEF ExtendTtl, Ttls, Absent

\* A write gives a life to a new entry and leaves an existing one alone.
LEMMA Writes ==
  ASSUME NEW t \in Ttls, NEW K
  PROVE  /\ Written(t, K) \in Ttls
         /\ \A k \in Keys : /\ Written(t, K)[k] >= t[k]
                            /\ Exists(t, k) \/ k \notin K => Written(t, K)[k] = t[k]
                            /\ k \in K => Exists(Written(t, K), k)
BY Bounds DEF Written, Ttls, Absent, Exists
-----------------------------------------------------------------------------
\* A call on the project that only lengthens lives, extends the record and the
\* balance, and every ledger whose clock it resets, preserves the invariant.
LEMMA CallKeepsInvariant ==
  ASSUME TtlInv, ttl' \in Ttls, idle' = 0,
         funded' \in BOOLEAN, settled' \in SUBSET Collabs,
         \A k \in Core : ttl'[k] >= Threshold + 1,
         NEW C \in SUBSET Collabs, UsesClaimsOf(C),
         \A c \in C : \A k \in Ledger(c) :
           Exists(ttl', k) => ttl'[k] >= Threshold + 1,
         \A c \in Collabs \ C : \A k \in Ledger(c) : ttl'[k] = ttl[k]
  PROVE  TtlInv'
<1>1. TypeOK'
  BY Bounds DEF TtlInv, TypeOK, Ttls, UsesClaimsOf
<1>2. (\A k \in Core : Exists(ttl, k) <=> Exists(ttl, Project))'
  BY Bounds, KeysDistinct DEF Exists, Absent, Core
<1>3. KeepsUp(ttl', Core, idle')
  BY Bounds DEF KeepsUp
<1>4. ASSUME NEW c \in Collabs
      PROVE  KeepsUp(ttl', Ledger(c), idleClaims'[c])
  <2>1. CASE c \in C
    BY <2>1, Bounds DEF KeepsUp, UsesClaimsOf
  <2>2. CASE c \notin C
    <3>1. idleClaims'[c] = idleClaims[c]
      BY <2>2 DEF UsesClaimsOf
    <3>2. KeepsUp(ttl, Ledger(c), idleClaims[c])
      BY DEF TtlInv
    <3> QED BY <2>2, <3>1, <3>2 DEF KeepsUp, Exists
  <2> QED BY <2>1, <2>2
<1> QED BY <1>1, <1>2, <1>3, <1>4 DEF TtlInv, KeepsUp

\* Loading the project touches no other entry.
LEMMA Loads ==
  ASSUME TtlInv
  PROVE  /\ ttl \in Ttls /\ Loaded \in Ttls
         /\ \A k \in Keys : Loaded[k] >= ttl[k]
         /\ \A k \in Core : Loaded[k] >= Threshold + 1
         /\ \A k \in Keys \ Core : Loaded[k] = ttl[k]
<1>1. ttl \in Ttls BY DEF TtlInv, TypeOK, Ttls
<1> QED BY <1>1, Extends, KeysDistinct DEF Loaded, BumpProject

\* A call that leaves the clocks of the ledgers alone resets those of nobody.
LEMMA NobodysClaims ==
  ASSUME TtlInv, UNCHANGED idleClaims
  PROVE  UsesClaimsOf({})
BY DEF TtlInv, TypeOK, UsesClaimsOf

\* Every step preserves the invariant.
LEMMA InvariantStep == TtlInv /\ [Next]_vars => TtlInv'
<1> SUFFICES ASSUME TtlInv, [Next]_vars PROVE TtlInv'
  OBVIOUS
<1> USE Bounds, KeysDistinct
<1>t. /\ ttl \in Ttls /\ funded \in BOOLEAN /\ settled \in SUBSET Collabs
      /\ idle \in 0..MaxIdle
      /\ idleClaims \in [Collabs -> 0..MaxIdle]
  BY DEF TtlInv, TypeOK, Ttls
<1>1. CASE CreateProject
  <2> DEFINE w == Written(ttl, Core)
  <2>1. w \in Ttls /\ \A k \in Keys \ Core : w[k] = ttl[k]
    BY <1>t, Writes
  <2>2. /\ ttl' \in Ttls
        /\ \A k \in Core : ttl'[k] >= Threshold + 1
        /\ \A k \in Keys \ Core : ttl'[k] = ttl[k]
    <3>1. ttl' = ExtendTtl(w, Core) BY <1>1 DEF CreateProject, BumpProject
    <3> HIDE DEF w
    <3> QED BY <2>1, <3>1, Extends
  <2>3. UsesClaimsOf({}) BY <1>1, NobodysClaims DEF CreateProject
  <2> QED BY <1>1, <1>t, <2>2, <2>3, CallKeepsInvariant DEF CreateProject
<1>2. CASE EditOrRead
  <2>1. /\ ttl' \in Ttls
        /\ \A k \in Core : ttl'[k] >= Threshold + 1
        /\ \A k \in Keys \ Core : ttl'[k] = ttl[k]
    BY <1>2, Loads, Extends DEF EditOrRead, BumpProject
  <2>2. UsesClaimsOf({}) BY <1>2, NobodysClaims DEF EditOrRead
  <2> QED BY <1>2, <1>t, <2>1, <2>2, CallKeepsInvariant DEF EditOrRead, OnProject
<1>3. CASE RefreshProjectStorage
  <2>1. UsesClaimsOf({}) BY <1>3, NobodysClaims DEF RefreshProjectStorage
  <2> QED BY <1>3, <1>t, <2>1, Loads, CallKeepsInvariant
          DEF RefreshProjectStorage, OnProject
<1>4. CASE Deposit
  <2> DEFINE a == BumpProject(Loaded)
             b == Written(a, {Cache})
             d == ExtendTtl(b, {Cache})
             e == Written(d, {Epoch})
  <2>1. /\ a \in Ttls
        /\ \A k \in Core : a[k] >= Threshold + 1
        /\ \A k \in Keys \ Core : a[k] = ttl[k]
    BY Loads, Extends DEF BumpProject
  <2>2. d \in Ttls /\ \A k \in Keys \ {Cache} : d[k] = a[k]
    <3> HIDE DEF a
    <3>1. b \in Ttls /\ \A k \in Keys \ {Cache} : b[k] = a[k]
      BY <2>1, Writes
    <3> HIDE DEF b
    <3> QED BY <3>1, Extends
  <2>3. ttl' \in Ttls /\ \A k \in Keys \ {Cache, Epoch} : ttl'[k] = a[k]
    <3>1. ttl' = ExtendTtl(e, {Epoch})
      BY <1>4 DEF Deposit, BumpClaimEpoch, AdjustAccounted
    <3> HIDE DEF a, d
    <3>2. e \in Ttls /\ \A k \in Keys \ {Epoch} : e[k] = d[k]
      BY <2>2, Writes
    <3> HIDE DEF e
    <3> QED BY <2>2, <3>1, <3>2, Extends
  <2>4. UsesClaimsOf({}) BY <1>4, NobodysClaims DEF Deposit
  <2> HIDE DEF a
  <2>5. \A k \in Core : ttl'[k] >= Threshold + 1
    BY <2>1, <2>3
  <2>6. \A c \in Collabs : \A k \in Ledger(c) : ttl'[k] = ttl[k]
    BY <2>1, <2>3
  <2> QED BY <1>4, <1>t, <2>3, <2>4, <2>5, <2>6, CallKeepsInvariant DEF Deposit, OnProject
<1>5. ASSUME NEW paid \in SUBSET Collabs, Distribute(paid)
      PROVE  TtlInv'
  <2> DEFINE recorded == Written(Loaded, {Claimed(c) : c \in paid})
             marked   == {k \in UNION {OfCollab(c) : c \in paid} : Exists(recorded, k)}
             bumped   == ExtendTtl(recorded, marked)
             a        == Written(bumped, {Cache})
             b        == ExtendTtl(a, {Cache})
             d        == Written(b, {Epoch})
             e        == ExtendTtl(d, {Epoch})
  <2>1. recorded \in Ttls /\ \A k \in Keys \ {Claimed(c) : c \in paid} :
                              recorded[k] = Loaded[k]
    BY Loads, Writes
  <2>2. /\ bumped \in Ttls
        /\ \A k \in marked : bumped[k] >= Threshold + 1
        /\ \A k \in Keys \ marked : bumped[k] = recorded[k]
    <3>1. marked \subseteq Keys OBVIOUS
    <3> HIDE DEF recorded, marked
    <3> QED BY <2>1, <3>1, Extends
  <2>3. b \in Ttls /\ \A k \in Keys \ {Cache} : b[k] = bumped[k]
    <3> HIDE DEF bumped
    <3>1. a \in Ttls /\ \A k \in Keys \ {Cache} : a[k] = bumped[k]
      BY <2>2, Writes
    <3> HIDE DEF a
    <3> QED BY <3>1, Extends
  <2>4. e \in Ttls /\ \A k \in Keys \ {Epoch} : e[k] = b[k]
    <3> HIDE DEF b
    <3>1. d \in Ttls /\ \A k \in Keys \ {Epoch} : d[k] = b[k]
      BY <2>3, Writes
    <3> HIDE DEF d
    <3> QED BY <3>1, Extends
  <2>5. /\ ttl' \in Ttls
        /\ \A k \in Core : ttl'[k] >= Threshold + 1
        /\ \A k \in Keys \ (Core \cup {Cache, Epoch}) : ttl'[k] = bumped[k]
    <3>1. ttl' = ExtendTtl(e, Core)
      BY <1>5 DEF Distribute, BumpProject, BumpClaimEpoch, AdjustAccounted, BumpClaimed
    <3> HIDE DEF e, b, bumped
    <3> QED BY <2>3, <2>4, <3>1, Extends
  <2> HIDE DEF bumped
  <2>6. ASSUME NEW c \in paid, NEW k \in Ledger(c), Exists(ttl', k)
        PROVE  ttl'[k] >= Threshold + 1
    <3>1. k \in Keys /\ k \in OfCollab(c) /\ ttl'[k] = bumped[k]
      BY <2>5
    <3>2. CASE k \in marked
      BY <3>1, <3>2, <2>2
    <3>3. CASE k \notin marked
      <4>1. bumped[k] = recorded[k] BY <3>1, <3>3, <2>2
      <4>2. ~Exists(recorded, k) BY <3>1, <3>3
      <4> QED BY <2>6, <3>1, <4>1, <4>2 DEF Exists
    <3> QED BY <3>2, <3>3
  <2>7. ASSUME NEW c \in Collabs \ paid, NEW k \in Ledger(c)
        PROVE  ttl'[k] = ttl[k]
    <3>1. k \in Keys /\ k \notin Core /\ k \notin marked /\ ttl'[k] = bumped[k]
      BY <2>5
    <3>2. ASSUME NEW p \in paid PROVE k # Claimed(p)
      <4>1. OfCollab(c) \cap OfCollab(p) = {} /\ k \in OfCollab(c) OBVIOUS
      <4> QED BY <4>1 DEF OfCollab
    <3> QED BY <3>1, <3>2, <2>1, <2>2, Loads
  <2> QED BY <1>5, <1>t, <2>5, <2>6, <2>7, CallKeepsInvariant DEF Distribute, OnProject
<1>6. ASSUME NEW c \in Collabs, Claim(c)
      PROVE  TtlInv'
  <2> DEFINE a      == Written(Loaded, {Cache})
             b      == ExtendTtl(a, {Cache})
             d      == ExtendTtl(b, Core)
             e      == Written(d, {Claimed(c), LastAmount(c)})
             marked == {k \in UNION {OfCollab(x) : x \in {c}} : Exists(e, k)}
             f      == ExtendTtl(e, marked)
  <2>1. b \in Ttls /\ \A k \in Keys \ {Cache} : b[k] = Loaded[k]
    <3>1. a \in Ttls /\ \A k \in Keys \ {Cache} : a[k] = Loaded[k]
      BY Loads, Writes
    <3> HIDE DEF a
    <3> QED BY <3>1, Extends
  <2>2. /\ d \in Ttls
        /\ \A k \in Core : d[k] >= Threshold + 1
        /\ \A k \in Keys \ (Core \cup {Cache}) : d[k] = ttl[k]
    <3> HIDE DEF b
    <3> QED BY <2>1, Loads, Extends
  <2>3. e \in Ttls /\ \A k \in Keys \ Ledger(c) : e[k] = d[k]
    <3> HIDE DEF d
    <3> QED BY <2>2, Writes DEF Ledger
  <2>4. /\ f \in Ttls
        /\ \A k \in marked : f[k] >= Threshold + 1
        /\ \A k \in Keys \ marked : f[k] = e[k]
    <3>1. marked \subseteq Keys OBVIOUS
    <3> HIDE DEF e, marked
    <3> QED BY <2>3, <3>1, Extends
  <2>5. ttl' \in Ttls /\ \A k \in Keys \ {LastEpoch(c)} : ttl'[k] = f[k]
    <3>1. ttl' = Written(f, {LastEpoch(c)})
      BY <1>6 DEF Claim, BumpProject, AdjustAccounted, BumpClaimed
    <3> HIDE DEF f
    <3> QED BY <2>4, <3>1, Writes
  <2> HIDE DEF f, d
  <2>6. \A k \in Core : ttl'[k] >= Threshold + 1
    <3> SUFFICES ASSUME NEW k \in Core PROVE ttl'[k] >= Threshold + 1
      OBVIOUS
    <3>1. k \in Keys /\ k \notin OfCollab(c) OBVIOUS
    <3>2. k \notin marked /\ k # LastEpoch(c) BY <3>1 DEF OfCollab
    <3>3. k \notin Ledger(c) BY <3>1
    <3> HIDE DEF marked, e
    <3> QED BY <3>1, <3>2, <3>3, <2>2, <2>3, <2>4, <2>5
  <2>7. ASSUME NEW k \in Ledger(c), Exists(ttl', k)
        PROVE  ttl'[k] >= Threshold + 1
    <3>1. k \in Keys /\ k \in OfCollab(c) /\ k # LastEpoch(c)
      OBVIOUS
    <3>2. ttl'[k] = f[k] BY <3>1, <2>5
    <3>3. CASE k \in marked BY <3>2, <3>3, <2>4
    <3>4. CASE k \notin marked
      <4>1. f[k] = e[k] BY <3>1, <3>4, <2>4
      <4>2. ~Exists(e, k) BY <3>1, <3>4
      <4> QED BY <2>7, <3>2, <4>1, <4>2 DEF Exists
    <3> QED BY <3>3, <3>4
  <2>8. ASSUME NEW x \in Collabs \ {c}, NEW k \in Ledger(x)
        PROVE  ttl'[k] = ttl[k]
    <3>1. /\ k \in Keys /\ k \notin OfCollab(c) /\ k \notin Core /\ k # Cache
      OBVIOUS
    <3>2. k \notin marked /\ k # LastEpoch(c) BY <3>1 DEF OfCollab
    <3>3. k \notin Ledger(c) BY <3>1
    <3> HIDE DEF marked, e
    <3> QED BY <3>1, <3>2, <3>3, <2>2, <2>3, <2>4, <2>5
  <2>9. UsesClaimsOf({c}) /\ settled' \in SUBSET Collabs /\ idle' = 0
        /\ funded' = funded
    BY <1>6, <1>t DEF Claim, OnProject
  <2> QED BY <1>t, <2>5, <2>6, <2>7, <2>8, <2>9, CallKeepsInvariant
<1>7. ASSUME NEW c \in Collabs, ClaimNothing(c)
      PROVE  TtlInv'
  <2>1. UsesClaimsOf({}) BY <1>7, NobodysClaims DEF ClaimNothing
  <2> QED BY <1>7, <1>t, <2>1, Loads, CallKeepsInvariant DEF ClaimNothing, OnProject
<1>8. ASSUME NEW c \in Collabs, GetClaimed(c)
      PROVE  TtlInv'
  <2> DEFINE marked == {k \in UNION {OfCollab(x) : x \in {c}} : Exists(Loaded, k)}
  <2>1. marked \subseteq Keys /\ marked \subseteq OfCollab(c) OBVIOUS
  <2>2. /\ ttl' \in Ttls
        /\ \A k \in marked : ttl'[k] >= Threshold + 1
        /\ \A k \in Keys \ marked : ttl'[k] = Loaded[k]
    <3>1. ttl' = ExtendTtl(Loaded, marked)
      BY <1>8 DEF GetClaimed, BumpClaimed
    <3> HIDE DEF marked
    <3> QED BY <2>1, <3>1, Loads, Extends
  <2>3. ASSUME NEW k \in Ledger(c), Exists(ttl', k)
        PROVE  ttl'[k] >= Threshold + 1
    <3>1. k \in Keys /\ k \in OfCollab(c) OBVIOUS
    <3>2. CASE k \in marked BY <3>2, <2>2
    <3>3. CASE k \notin marked
      <4>1. ~Exists(Loaded, k) BY <3>1, <3>3
      <4> QED BY <2>3, <3>1, <3>3, <4>1, <2>2 DEF Exists
    <3> QED BY <3>2, <3>3
  <2> HIDE DEF marked
  <2>4. \A k \in Core : ttl'[k] >= Threshold + 1
    BY <2>1, <2>2, Loads
  <2>5. \A x \in Collabs \ {c} : \A k \in Ledger(x) : ttl'[k] = ttl[k]
    BY <2>1, <2>2, Loads
  <2>6. UsesClaimsOf({c}) /\ idle' = 0 /\ UNCHANGED <<funded, settled>>
    BY <1>8 DEF GetClaimed, OnProject
  <2> QED BY <1>t, <2>2, <2>3, <2>4, <2>5, <2>6, CallKeepsInvariant
<1>9. CASE WithdrawUnallocated
  <2>1. ttl' \in Ttls /\ \A k \in Keys \ {Cache} : ttl'[k] = ttl[k]
    BY <1>9, <1>t, Extends DEF WithdrawUnallocated
  <2>2. TypeOK'
    BY <1>9, <1>t, <2>1 DEF WithdrawUnallocated, TypeOK, Ttls
  <2>3. \A k \in Core : ttl'[k] = ttl[k]
    BY <2>1
  <2>4. \A c \in Collabs : \A k \in Ledger(c) : ttl'[k] = ttl[k]
    BY <2>1
  <2> QED BY <1>9, <2>2, <2>3, <2>4 DEF WithdrawUnallocated, TtlInv, KeepsUp, Exists, Core
<1>10. CASE CloseLedger
  <2>1. /\ ttl' \in Ttls /\ idle' \in 0..MaxIdle
        /\ idleClaims' \in [Collabs -> 0..MaxIdle]
    BY <1>10, <1>t DEF CloseLedger, Later, Ttls, Absent
  <2>2. TypeOK' BY <1>10, <1>t, <2>1 DEF CloseLedger, TypeOK, Ttls
  <2>3. \A k \in Keys : Exists(ttl', k) <=> Exists(ttl, k)
    BY <1>10, <1>t DEF CloseLedger, Exists, Absent, Ttls
  <2>4. ASSUME NEW K \in SUBSET Keys, NEW n \in 0..MaxIdle, KeepsUp(ttl, K, n)
        PROVE  KeepsUp(ttl', K, Later(n))
    <3> SUFFICES ASSUME Later(n) <= Threshold + 1, NEW k \in K, Exists(ttl', k)
                 PROVE  ttl'[k] >= Threshold + 1 - Later(n)
      BY DEF KeepsUp
    <3>1. n < MaxIdle /\ Later(n) = n + 1 BY DEF Later
    <3>2. ttl[k] \in Int /\ ttl[k] >= Threshold + 1 - n
      BY <1>t, <2>3, <2>4, <3>1 DEF KeepsUp, Ttls, Absent
    <3>3. ttl'[k] = ttl[k] - 1
      BY <1>10, <1>t, <3>1, <3>2 DEF CloseLedger
    <3> QED BY <3>1, <3>2, <3>3
  <2>5. KeepsUp(ttl', Core, idle')
    BY <1>10, <1>t, <2>4 DEF CloseLedger, TtlInv
  <2>6. \A c \in Collabs : KeepsUp(ttl', Ledger(c), idleClaims'[c])
    BY <1>10, <1>t, <2>4 DEF CloseLedger, TtlInv
  <2>7. (\A k \in Core : Exists(ttl, k) <=> Exists(ttl, Project))'
    BY <2>3 DEF TtlInv, Core, Exists
  <2> QED BY <2>2, <2>5, <2>6, <2>7 DEF TtlInv, KeepsUp
<1>11. ASSUME NEW r \in Keys, Restore(r)
       PROVE  TtlInv'
  <2>1. TypeOK' BY <1>11, <1>t DEF Restore, TypeOK, Ttls, Absent
  <2>2. /\ \A k \in Keys : Exists(ttl', k) <=> Exists(ttl, k)
        /\ \A k \in Keys : ttl'[k] >= ttl[k]
    BY <1>11, <1>t DEF Restore, Exists, Absent, Archived, Ttls
  <2>3. ASSUME NEW K \in SUBSET Keys, NEW n \in 0..MaxIdle, KeepsUp(ttl, K, n)
        PROVE  KeepsUp(ttl', K, n)
    <3>1. \A k \in Keys : ttl[k] \in Int /\ ttl'[k] \in Int
      BY <1>t, <2>1 DEF TypeOK, Ttls, Absent
    <3> QED BY <2>2, <2>3, <3>1 DEF KeepsUp
  <2>4. KeepsUp(ttl', Core, idle)
    BY <1>t, <2>3 DEF TtlInv
  <2>5. \A c \in Collabs : KeepsUp(ttl', Ledger(c), idleClaims[c])
    BY <1>t, <2>3 DEF TtlInv
  <2>6. (\A k \in Core : Exists(ttl, k) <=> Exists(ttl, Project))'
    BY <2>2 DEF TtlInv, Core, Exists
  <2> QED BY <1>11, <2>1, <2>4, <2>5, <2>6 DEF Restore, TtlInv, KeepsUp
<1>12. CASE UNCHANGED vars
  BY <1>12 DEF vars, TtlInv, TypeOK, KeepsUp, Exists
<1> QED
  BY <1>1, <1>2, <1>3, <1>4, <1>5, <1>6, <1>7, <1>8, <1>9, <1>10, <1>11, <1>12 DEF Next

\* The invariant holds in every state: types, the joint life of the record and
\* the balance, and entries that keep up with their clocks.
LEMMA InvariantAlways == Spec => []TtlInv
<1>1. Init => TtlInv
  <2> SUFFICES ASSUME Init PROVE TtlInv
    OBVIOUS
  <2>1. TypeOK
    <3>1. Absent \in Absent..MaxTtl /\ MaxIdle \in 0..MaxIdle
      BY Bounds DEF Absent
    <3> QED BY <3>1 DEF Init, TypeOK
  <2>2. \A k \in Keys : ~Exists(ttl, k) BY DEF Init, Exists
  <2>3. Project \in Keys BY KeysDistinct DEF Core
  <2> QED BY <2>1, <2>2, <2>3, KeysDistinct DEF TtlInv, KeepsUp
<1> QED BY <1>1, InvariantStep, PTL DEF Spec

\* Life times and clocks stay in their ranges (bump_project_ttl and the other
\* extensions never give more than the network's or the contract's maximum).
THEOREM TtlTypeCorrect == Spec => []TypeOK
<1>1. TtlInv => TypeOK BY DEF TtlInv
<1> QED BY <1>1, InvariantAlways, PTL

\* A call on a project (get_project_or_err, bump_project_ttl) keeps its record
\* and its balance out of the archive for more than Threshold ledgers.
THEOREM UsedProjectAlwaysSurvives == Spec => []UsedProjectSurvives
<1>1. TtlInv => UsedProjectSurvives
  BY Bounds, KeysDistinct
     DEF TtlInv, TypeOK, UsedProjectSurvives, KeepsUp, Live, Absent
<1> QED BY <1>1, InvariantAlways, PTL

\* A payout or a look at it (bump_claimed_ttl) does the same for a
\* collaborator's claimed total and last claim.
THEOREM UsedClaimsAlwaysSurvive == Spec => []UsedClaimsSurvive
<1>1. TtlInv => UsedClaimsSurvive
  BY Bounds, KeysDistinct
     DEF TtlInv, TypeOK, UsedClaimsSurvive, KeepsUp, Live, Absent, Ledger
<1> QED BY <1>1, InvariantAlways, PTL

\* Both together: what a call used outlives Threshold ledgers, for every
\* threshold and bump, and for every set of collaborators.
THEOREM UsedEntriesAlwaysSurvive == Spec => []UsedEntriesSurvive
<1>1. UsedProjectSurvives /\ UsedClaimsSurvive => UsedEntriesSurvive
  BY DEF UsedEntriesSurvive
<1> QED BY <1>1, UsedProjectAlwaysSurvives, UsedClaimsAlwaysSurvive, PTL

-----------------------------------------------------------------------------
(* The read cache.  An entry is as fresh as the last invalidation of its   *)
(* key because only the read in flight is kept, and an invalidation ends   *)
(* that: whoever is in flight for a key read it after its floor, if he has *)
(* read it at all.                                                         *)

Entry == [key : CacheKeys, ver : 0..MaxVersion, expired : BOOLEAN]

\* The map s holds what was read after the floors fl, one entry per key, and
\* no more than maxEntries of them.
StoreOk(s, fl) ==
  /\ s \in Seq(Entry) /\ Len(s) <= MaxEntries
  /\ \A i, j \in 1..Len(s) : s[i].key = s[j].key => i = j
  /\ \A i \in 1..Len(s) : s[i].ver >= fl[s[i].key]

Versions == 0..MaxVersion

FetchTypes == [key : CacheKeys, ver : Versions \cup {-1},
               state : {"pending", "kept", "settled"}]

\* The read f is unanswered, or was answered after the version v.
After(fs, f, v) == f \in 1..Len(fs) /\ (fs[f].ver = -1 \/ fs[f].ver >= v)

\* Floors lie in the past.
FloorsOk ==
  /\ upstream \in Versions /\ floor \in [CacheKeys -> Versions]
  /\ \A k \in CacheKeys : floor[k] <= upstream

\* The read in flight for a key.
FlightOk(f, k) ==
  f = 0 \/ (After(fetches, f, floor[k]) /\ fetches[f].key = k /\ fetches[f].state # "settled")

\* A caller, and the read he awaits.
AskOk(a) ==
  /\ {"fetch", "floor"} \subseteq DOMAIN a /\ a.floor \in Versions /\ a.floor <= upstream
  /\ a.fetch = 0 \/ After(fetches, a.fetch, a.floor)

\* The inductive invariant of the read cache.
CacheInv ==
  /\ FloorsOk
  /\ StoreOk(store, floor)
  /\ fetches \in Seq(FetchTypes)
  /\ DOMAIN inflight = CacheKeys /\ \A k \in CacheKeys : FlightOk(inflight[k], k)
  /\ DOMAIN asking = Callers /\ \A c \in Callers : AskOk(asking[c])

\* The instance's loop is the one of module Sums.
LEMMA SameDropping ==
  ASSUME NEW s, NEW I
  PROVE  Cached!Dropping(s, I) = Dropping(s, I)
BY DEF Cached!Dropping, Dropping

\* Taking entries out of the map keeps it sound.
LEMMA StoreDropped ==
  ASSUME NEW s, NEW fl, StoreOk(s, fl), NEW I
  PROVE  StoreOk(Dropping(s, I), fl)
<1> DEFINE w == Dropping(s, I)
<1>1. w \in Seq(Entry) /\ Part(w, s, Len(s), I) /\ Len(s) \in Nat /\ Len(w) \in Nat
  BY DroppingKeeps DEF StoreOk
<1> HIDE DEF w
<1>2. Len(w) <= MaxEntries
  BY <1>1, CacheAssumption DEF StoreOk, Part
<1>3. ASSUME NEW a \in 1..Len(w), NEW b \in 1..Len(w), w[a].key = w[b].key, a # b
      PROVE  FALSE
  <2>1. PICK i \in 1..Len(s), j \in 1..Len(s) : i # j /\ s[i] = w[a] /\ s[j] = w[b]
    BY <1>1, <1>3 DEF Part
  <2> QED BY <1>3, <2>1 DEF StoreOk
<1>4. ASSUME NEW a \in 1..Len(w) PROVE w[a].ver >= fl[w[a].key]
  <2>1. PICK i \in 1..Len(s) : s[i] = w[a]
    BY <1>1 DEF Part
  <2> QED BY <2>1 DEF StoreOk
<1>5. StoreOk(w, fl)
  BY <1>1, <1>2, <1>3, <1>4 DEF StoreOk
<1> QED BY <1>5 DEF w

\* Without the keys K no entry of the map has such a key, and there is room for
\* one more if one was there.
LEMMA WithoutKeys ==
  ASSUME NEW s, NEW fl, StoreOk(s, fl), NEW K
  PROVE  /\ StoreOk(Cached!Without(s, K), fl)
         /\ \A i \in 1..Len(Cached!Without(s, K)) : Cached!Without(s, K)[i].key \notin K
         /\ Len(Cached!Without(s, K)) <= Len(s)
         /\ (\E i \in 1..Len(s) : s[i].key \in K) => Len(Cached!Without(s, K)) < Len(s)
<1> DEFINE I == {i \in DOMAIN s : s[i].key \in K}
           w == Dropping(s, I)
<1>1. Cached!Without(s, K) = w
  BY SameDropping DEF Cached!Without
<1>2. DOMAIN s = 1..Len(s) /\ s \in Seq(Entry)
  BY DEF StoreOk
<1>3. \A i \in 1..Len(s) : i \in I <=> s[i].key \in K
  BY <1>2
<1> HIDE DEF I
<1>4. StoreOk(w, fl) /\ Part(w, s, Len(s), I)
  BY <1>2, StoreDropped, DroppingKeeps
<1> HIDE DEF w
<1>5. ASSUME NEW a \in 1..Len(w) PROVE w[a].key \notin K
  <2>1. PICK i \in 1..Len(s) : i \notin I /\ s[i] = w[a]
    BY <1>4 DEF Part
  <2> QED BY <1>3, <2>1
<1>6. Len(w) <= Len(s) /\ ((\E i \in 1..Len(s) : s[i].key \in K) => Len(w) < Len(s))
  BY <1>3, <1>4 DEF Part
<1> QED BY <1>1, <1>4, <1>5, <1>6

\* An entry for a key that has none fits where there is room.
LEMMA StoreAppended ==
  ASSUME NEW s, NEW fl, StoreOk(s, fl), Len(s) < MaxEntries, NEW e \in Entry,
         \A i \in 1..Len(s) : s[i].key # e.key, e.ver >= fl[e.key]
  PROVE  StoreOk(Append(s, e), fl)
<1> DEFINE w == Append(s, e)
<1>1. /\ w \in Seq(Entry) /\ Len(w) = Len(s) + 1 /\ Len(s) \in Nat
      /\ w[Len(s) + 1] = e /\ \A i \in 1..Len(s) : w[i] = s[i]
  BY DEF StoreOk
<1> HIDE DEF w
<1>2. Len(w) <= MaxEntries
  BY <1>1, CacheAssumption
<1>3. ASSUME NEW i \in 1..Len(w), NEW j \in 1..Len(w), w[i].key = w[j].key
      PROVE  i = j
  <2>1. \A x \in 1..Len(w) : x = Len(s) + 1 \/ x \in 1..Len(s)
    BY <1>1
  <2>2. (i = Len(s) + 1 \/ i \in 1..Len(s)) /\ (j = Len(s) + 1 \/ j \in 1..Len(s))
    BY <2>1
  <2> QED BY <1>1, <1>3, <2>2 DEF StoreOk
<1>4. ASSUME NEW i \in 1..Len(w) PROVE w[i].ver >= fl[w[i].key]
  <2>1. i = Len(s) + 1 \/ i \in 1..Len(s)
    BY <1>1
  <2> QED BY <1>1, <2>1 DEF StoreOk
<1>5. StoreOk(w, fl)
  BY <1>1, <1>2, <1>3, <1>4 DEF StoreOk
<1> QED BY <1>5 DEF w

\* So does the oldest entry's departure.
LEMMA StoreTail ==
  ASSUME NEW s, NEW fl, StoreOk(s, fl), Len(s) > 0
  PROVE  StoreOk(Tail(s), fl) /\ Len(Tail(s)) = Len(s) - 1
         /\ \A i \in 1..Len(Tail(s)) : \E j \in 1..Len(s) : Tail(s)[i] = s[j]
<1> DEFINE w == Tail(s)
<1>1. /\ w \in Seq(Entry) /\ Len(w) = Len(s) - 1 /\ Len(s) \in Nat
      /\ \A i \in 1..Len(w) : w[i] = s[i + 1]
  BY DEF StoreOk
<1> HIDE DEF w
<1>2. \A i \in 1..Len(w) : i + 1 \in 1..Len(s)
  BY <1>1
<1>3. Len(w) <= MaxEntries
  BY <1>1, CacheAssumption DEF StoreOk
<1>4. ASSUME NEW i \in 1..Len(w), NEW j \in 1..Len(w), w[i].key = w[j].key
      PROVE  i = j
  <2>1. i + 1 = j + 1
    BY <1>1, <1>2, <1>4 DEF StoreOk
  <2> QED BY <1>1, <2>1
<1>5. \A i \in 1..Len(w) : w[i].ver >= fl[w[i].key]
  BY <1>1, <1>2 DEF StoreOk
<1>6. StoreOk(w, fl)
  BY <1>1, <1>3, <1>4, <1>5 DEF StoreOk
<1> QED BY <1>1, <1>2, <1>6 DEF w

\* set() keeps the map sound: a full map loses its oldest entry.
LEMMA StoreSet ==
  ASSUME NEW s, NEW fl, StoreOk(s, fl), NEW k \in CacheKeys, NEW v \in Versions,
         v >= fl[k]
  PROVE  StoreOk(Cached!Stored(s, k, v), fl)
<1> DEFINE e == [key |-> k, ver |-> v, expired |-> FALSE]
           present == \E i \in 1..Len(s) : s[i].key = k
           rest == IF Len(s) >= MaxEntries /\ ~present THEN Tail(s) ELSE s
<1>1. DOMAIN s = 1..Len(s) /\ Len(s) \in Nat /\ Len(s) <= MaxEntries
  BY DEF StoreOk
<1>2. Cached!Stored(s, k, v) = Append(Cached!Without(rest, {k}), e)
  BY <1>1 DEF Cached!Stored
<1>3. e \in Entry /\ e.key = k /\ e.ver = v
  BY DEF Entry, Versions
<1>4. /\ StoreOk(rest, fl) /\ Len(rest) \in Nat
      /\ Len(rest) < MaxEntries \/ (Len(rest) <= MaxEntries /\ \E i \in 1..Len(rest) : rest[i].key \in {k})
  <2>1. CASE Len(s) >= MaxEntries /\ ~present
    <3>1. rest = Tail(s)
      BY <2>1
    <3>2. Len(s) > 0
      BY <1>1, <2>1, CacheAssumption
    <3> HIDE DEF rest, present
    <3>3. StoreOk(rest, fl) /\ Len(rest) = Len(s) - 1
      BY <3>1, <3>2, StoreTail
    <3> QED BY <1>1, <3>2, <3>3, CacheAssumption
  <2>2. CASE Len(s) < MaxEntries
    BY <1>1, <2>2, CacheAssumption
  <2>3. CASE present
    BY <1>1, <2>3
  <2> QED BY <1>1, <2>1, <2>2, <2>3, CacheAssumption
<1> HIDE DEF rest, e, present
<1> DEFINE w == Cached!Without(rest, {k})
<1>5. /\ StoreOk(w, fl) /\ Len(w) <= Len(rest)
      /\ \A i \in 1..Len(w) : w[i].key \notin {k}
      /\ (\E i \in 1..Len(rest) : rest[i].key \in {k}) => Len(w) < Len(rest)
  BY <1>4, WithoutKeys
<1> HIDE DEF w
<1>6. Len(w) < MaxEntries
  <2>1. Len(w) \in Nat
    BY <1>5 DEF StoreOk
  <2> QED BY <1>4, <1>5, <2>1, CacheAssumption
<1>7. StoreOk(Append(w, e), fl)
  BY <1>3, <1>5, <1>6, StoreAppended
<1> QED BY <1>2, <1>7 DEF w

\* Every entry has the fields of an entry, every read those of a read.
LEMMA CacheFields ==
  ASSUME CacheInv
  PROVE  /\ DOMAIN store = 1..Len(store) /\ Len(store) \in Nat
         /\ \A i \in 1..Len(store) : /\ store[i] \in Entry /\ store[i].key \in CacheKeys
                                     /\ store[i].ver \in Versions
         /\ Len(fetches) \in Nat /\ DOMAIN fetches = 1..Len(fetches)
         /\ \A f \in 1..Len(fetches) :
              /\ fetches[f] \in FetchTypes /\ fetches[f].key \in CacheKeys
              /\ fetches[f].ver \in Versions \cup {-1}
         /\ \A k \in CacheKeys : floor[k] \in Versions /\ Versions \subseteq Int
<1>1. store \in Seq(Entry) /\ fetches \in Seq(FetchTypes) /\ floor \in [CacheKeys -> Versions]
  BY DEF CacheInv, StoreOk, FloorsOk
<1>2. \A i \in 1..Len(store) : store[i] \in Entry
  BY <1>1
<1>3. \A f \in 1..Len(fetches) : fetches[f] \in FetchTypes
  BY <1>1
<1>4. \A e \in Entry : e.key \in CacheKeys /\ e.ver \in Versions
  BY DEF Entry, Versions
<1>5. \A e \in FetchTypes : e.key \in CacheKeys /\ e.ver \in Versions \cup {-1}
  BY DEF FetchTypes
<1>6. Versions \subseteq Int
  BY CacheAssumption DEF Versions
<1> QED BY <1>1, <1>2, <1>3, <1>4, <1>5, <1>6

\* Steps that only touch the map: a hit, an expiry, stats().
LEMMA MapSteps ==
  ASSUME CacheInv,
         \/ \E c \in Callers, k \in CacheKeys : Cached!GetHit(c, k)
         \/ \E i \in DOMAIN store : Cached!Expire(i)
         \/ Cached!PurgeExpired
  PROVE  CacheInv'
<1>s. StoreOk(store, floor)
  BY DEF CacheInv
<1>k. SUFFICES ASSUME UNCHANGED <<upstream, inflight, fetches, asking, floor>>,
                      StoreOk(store', floor)
               PROVE  CacheInv'
  <2>0. UNCHANGED <<upstream, inflight, fetches, asking, floor>>
    BY DEF Cached!GetHit, Cached!Expire, Cached!PurgeExpired
  <2>1. ASSUME NEW c \in Callers, NEW k \in CacheKeys, Cached!GetHit(c, k)
        PROVE  StoreOk(store', floor)
    <3> DEFINE w == Cached!Without(store, {k})
    <3>1. PICK i \in 1..Len(store) : store[i].key = k /\ store' = Append(w, store[i])
      BY <2>1, CacheFields DEF Cached!GetHit, Cached!EntriesOf
    <3>2. /\ StoreOk(w, floor) /\ Len(w) < Len(store)
          /\ \A j \in 1..Len(w) : w[j].key \notin {k}
      BY <1>s, <3>1, WithoutKeys
    <3> HIDE DEF w
    <3>3. Len(w) < MaxEntries
      BY <1>s, <3>2, CacheAssumption DEF StoreOk
    <3>4. store[i] \in Entry /\ store[i].ver >= floor[store[i].key]
      BY <1>s, CacheFields DEF StoreOk
    <3>5. \A j \in 1..Len(w) : w[j].key # store[i].key
      BY <3>1, <3>2
    <3>6. StoreOk(Append(w, store[i]), floor)
      BY <3>2, <3>3, <3>4, <3>5, StoreAppended
    <3> QED BY <3>1, <3>6
  <2>2. ASSUME NEW i \in DOMAIN store, Cached!Expire(i) PROVE StoreOk(store', floor)
    <3>1. store' = [store EXCEPT ![i].expired = TRUE] /\ i \in 1..Len(store)
      BY <2>2, CacheFields DEF Cached!Expire
    <3>2. \A j \in 1..Len(store) : /\ store'[j].key = store[j].key
                                   /\ store'[j].ver = store[j].ver /\ store'[j] \in Entry
      BY <3>1, CacheFields DEF Entry
    <3>3. Len(store') = Len(store) /\ store' \in Seq(Entry)
      <4>1. store' \in [1..Len(store) -> Entry]
        <5>1. store' = [j \in DOMAIN store |-> store'[j]] /\ DOMAIN store = 1..Len(store)
          BY <3>1, CacheFields
        <5> QED BY <3>2, <5>1, Zenon
      <4>2. \A n \in Nat : \A q \in [1..n -> Entry] : q \in Seq(Entry) /\ Len(q) = n
        OBVIOUS
      <4> QED BY <4>1, <4>2, CacheFields
    <3> QED BY <1>s, <3>2, <3>3 DEF StoreOk
  <2>3. ASSUME Cached!PurgeExpired PROVE StoreOk(store', floor)
    <3>1. store' = Dropping(store, {i \in DOMAIN store : store[i].expired})
      BY <2>3, SameDropping DEF Cached!PurgeExpired
    <3> QED BY <1>s, <3>1, StoreDropped
  <2> QED BY <2>0, <2>1, <2>2, <2>3
<1> QED BY <1>k DEF CacheInv, FloorsOk, FlightOk, AskOk, After

\* getOrFetch on a miss: the caller awaits the read in flight, or starts one.
LEMMA MissSteps ==
  ASSUME CacheInv, NEW c \in Callers, NEW k \in CacheKeys,
         Cached!GetJoin(c, k) \/ Cached!GetFetch(c, k)
  PROVE  CacheInv'
<1>1. /\ UNCHANGED <<upstream, floor>> /\ store' = Cached!Without(store, {k})
  BY DEF Cached!GetJoin, Cached!GetFetch
<1>2. StoreOk(store', floor')
  <2>1. StoreOk(store, floor)
    BY DEF CacheInv
  <2> QED BY <1>1, <2>1, WithoutKeys
<1>3. FloorsOk' /\ floor[k] \in Versions /\ floor[k] <= upstream
  BY <1>1 DEF CacheInv, FloorsOk
<1>4. CASE Cached!GetJoin(c, k)
  <2>1. /\ UNCHANGED <<fetches, inflight>>
        /\ asking' = [asking EXCEPT ![c] = [fetch |-> inflight[k], floor |-> floor[k]]]
    BY <1>4 DEF Cached!GetJoin
  <2>2. FlightOk(inflight[k], k)
    BY DEF CacheInv
  <2>3. AskOk([fetch |-> inflight[k], floor |-> floor[k]])
    BY <1>3, <2>2 DEF FlightOk, AskOk
  <2>4. \A d \in Callers : AskOk(asking'[d])
    BY <2>1, <2>3 DEF CacheInv
  <2> QED BY <1>1, <1>2, <1>3, <2>1, <2>4 DEF CacheInv, FlightOk, AskOk, After
<1>5. CASE Cached!GetFetch(c, k)
  <2> DEFINE n == Len(fetches) + 1
             e == [key |-> k, ver |-> -1, state |-> "pending"]
  <2>1. /\ fetches' = Append(fetches, e) /\ inflight' = [inflight EXCEPT ![k] = Len(fetches')]
        /\ asking' = [asking EXCEPT ![c] = [fetch |-> Len(fetches'), floor |-> floor[k]]]
    BY <1>5 DEF Cached!GetFetch, Cached!Unread
  <2>2. e \in FetchTypes
    BY DEF FetchTypes
  <2>3. fetches \in Seq(FetchTypes) /\ Len(fetches) \in Nat
    BY DEF CacheInv
  <2>4. /\ fetches' \in Seq(FetchTypes) /\ Len(fetches') = n /\ n \in Nat /\ fetches'[n] = e
        /\ n # 0 /\ \A f \in 1..Len(fetches) : f \in 1..n /\ fetches'[f] = fetches[f]
    BY <2>1, <2>2, <2>3
  <2>5. n \in 1..n /\ e.ver = -1 /\ e.key = k /\ e.state = "pending"
    BY <2>4
  <2> HIDE DEF n, e
  <2>6. \A f, v : After(fetches, f, v) => After(fetches', f, v)
    BY <2>4 DEF After
  <2>7. \A v : After(fetches', n, v)
    BY <2>4, <2>5 DEF After
  <2>8. ASSUME NEW j \in CacheKeys PROVE FlightOk(inflight[j], j)'
    <3>0. FlightOk(inflight[j], j) /\ DOMAIN inflight = CacheKeys
      BY DEF CacheInv
    <3>1. CASE j = k
      <4>1. inflight'[j] = n
        BY <2>1, <2>4, <3>0, <3>1
      <4> QED BY <2>4, <2>5, <2>7, <3>1, <4>1 DEF FlightOk
    <3>2. CASE j # k
      <4>1. inflight'[j] = inflight[j]
        BY <2>1, <3>2, <3>0
      <4>2. inflight[j] = 0 \/ (After(fetches', inflight[j], floor'[j])
                                /\ fetches'[inflight[j]] = fetches[inflight[j]])
        BY <1>1, <2>4, <2>6, <3>0 DEF FlightOk, After
      <4> QED BY <3>0, <4>1, <4>2 DEF FlightOk
    <3> QED BY <3>1, <3>2
  <2>9. ASSUME NEW d \in Callers PROVE AskOk(asking[d])'
    <3>0. AskOk(asking[d]) /\ DOMAIN asking = Callers
      BY DEF CacheInv
    <3>1. CASE d = c
      <4>1. asking'[d] = [fetch |-> n, floor |-> floor[k]]
        BY <2>1, <2>4, <3>0, <3>1
      <4> QED BY <1>1, <1>3, <2>7, <4>1 DEF AskOk
    <3>2. CASE d # c
      <4>1. asking'[d] = asking[d]
        BY <2>1, <3>0, <3>2
      <4> QED BY <1>1, <2>6, <3>0, <4>1 DEF AskOk
    <3> QED BY <3>1, <3>2
  <2>10. DOMAIN inflight' = CacheKeys /\ DOMAIN asking' = Callers
    BY <2>1 DEF CacheInv
  <2> QED BY <1>2, <1>3, <2>4, <2>8, <2>9, <2>10 DEF CacheInv
<1> QED BY <1>4, <1>5

\* The RPC node answers: what it answers is not older than any floor.
LEMMA ReadSteps ==
  ASSUME CacheInv, NEW f \in 1..Len(fetches), Cached!Read(f)
  PROVE  CacheInv'
<1>1. /\ fetches' = [fetches EXCEPT ![f].ver = upstream]
      /\ UNCHANGED <<upstream, store, inflight, asking, floor>>
  BY DEF Cached!Read
<1>2. /\ fetches \in Seq(FetchTypes) /\ upstream \in Versions
      /\ \A g \in 1..Len(fetches) : fetches[g] \in FetchTypes
      /\ DOMAIN fetches = 1..Len(fetches)
  BY CacheFields DEF CacheInv, FloorsOk
<1>3. /\ \A g \in 1..Len(fetches) : /\ fetches'[g].key = fetches[g].key
                                    /\ fetches'[g].state = fetches[g].state
                                    /\ fetches'[g].ver = IF g = f THEN upstream ELSE fetches[g].ver
                                    /\ fetches'[g] \in FetchTypes
  BY <1>1, <1>2 DEF FetchTypes
<1>4. Len(fetches') = Len(fetches) /\ fetches' \in Seq(FetchTypes)
  BY <1>1, <1>2, <1>3
<1>5. \A g, v : After(fetches, g, v) /\ v <= upstream => After(fetches', g, v)
  BY <1>3, <1>4 DEF After
<1>6. ASSUME NEW k \in CacheKeys PROVE FlightOk(inflight[k], k)'
  BY <1>1, <1>3, <1>4, <1>5 DEF CacheInv, FloorsOk, FlightOk, After
<1>7. ASSUME NEW c \in Callers PROVE AskOk(asking[c])'
  BY <1>1, <1>5 DEF CacheInv, AskOk
<1> QED BY <1>1, <1>4, <1>6, <1>7 DEF CacheInv, FloorsOk

\* The callbacks of a read: the answer is kept only by the read in flight, and
\* the read leaves the flight as it ends.
LEMMA EndSteps ==
  ASSUME CacheInv, NEW f \in 1..Len(fetches), Cached!Then(f) \/ Cached!Finally(f)
  PROVE  CacheInv'
<1> DEFINE k == fetches[f].key
           to == IF Cached!Then(f) THEN "kept" ELSE "settled"
<1>1. /\ fetches' = [fetches EXCEPT ![f].state = to]
      /\ UNCHANGED <<upstream, floor>> /\ to \in {"kept", "settled"}
  BY DEF Cached!Then, Cached!Finally
<1>0. k \in CacheKeys /\ 0 \notin 1..Len(fetches)
  BY CacheFields
<1>2. Cached!Finally(f) => \A j \in CacheKeys : inflight'[j] = IF inflight[j] = f THEN 0 ELSE inflight[j]
  <2>1. \A j \in CacheKeys : inflight[j] = f => j = k
    BY <1>0 DEF CacheInv, FlightOk
  <2> QED BY <1>0, <2>1 DEF Cached!Finally, Cached!NoFetch, CacheInv
<1>3. Cached!Then(f) => inflight' = inflight /\ asking' = asking /\ to = "kept"
  BY DEF Cached!Then
<1>4. /\ DOMAIN inflight' = CacheKeys /\ DOMAIN asking' = Callers
      /\ \A c \in Callers : \/ asking'[c] = asking[c]
                            \/ asking'[c] = [fetch |-> 0, floor |-> 0]
  BY DEF Cached!Then, Cached!Finally, Cached!NoFetch, CacheInv
<1> HIDE DEF to
<1>5. /\ fetches \in Seq(FetchTypes) /\ DOMAIN fetches = 1..Len(fetches)
      /\ \A g \in 1..Len(fetches) : fetches[g] \in FetchTypes
  BY CacheFields DEF CacheInv
<1>6. \A g \in 1..Len(fetches) : /\ fetches'[g].key = fetches[g].key
                                 /\ fetches'[g].ver = fetches[g].ver
                                 /\ fetches'[g].state = IF g = f THEN to ELSE fetches[g].state
                                 /\ fetches'[g] \in FetchTypes
  BY <1>1, <1>5 DEF FetchTypes
<1>7. Len(fetches') = Len(fetches) /\ fetches' \in Seq(FetchTypes)
  BY <1>1, <1>5, <1>6
<1>8. \A g, v : After(fetches, g, v) => After(fetches', g, v)
  BY <1>6, <1>7 DEF After
<1>9. ASSUME NEW j \in CacheKeys PROVE FlightOk(inflight[j], j)'
  <2>0. FlightOk(inflight[j], j)
    BY DEF CacheInv
  <2>1. CASE inflight'[j] = 0
    BY <2>1 DEF FlightOk
  <2>2. CASE inflight'[j] # 0
    <3>1. inflight'[j] = inflight[j] /\ (inflight[j] = f => to = "kept")
      BY <1>2, <1>3, <2>2
    <3> DEFINE g == inflight[j]
    <3>2. g # 0
      BY <2>2, <3>1
    <3>3. After(fetches', g, floor'[j]) /\ g \in 1..Len(fetches)
      BY <1>1, <1>8, <2>0, <3>2 DEF FlightOk, After
    <3>4. fetches'[g].key = j /\ fetches'[g].state # "settled"
      BY <1>6, <2>0, <3>1, <3>2, <3>3 DEF FlightOk
    <3> QED BY <3>1, <3>3, <3>4 DEF FlightOk
  <2> QED BY <2>1, <2>2
<1>10. ASSUME NEW c \in Callers PROVE AskOk(asking[c])'
  <2>1. AskOk(asking[c]) /\ upstream \in Versions /\ 0 \in Versions /\ 0 <= upstream
    BY CacheAssumption DEF CacheInv, FloorsOk, Versions
  <2>2. CASE asking'[c] = asking[c]
    BY <1>1, <1>8, <2>1, <2>2 DEF AskOk
  <2>3. CASE asking'[c] = [fetch |-> 0, floor |-> 0]
    <3>1. /\ {"fetch", "floor"} \subseteq DOMAIN asking'[c]
          /\ asking'[c].fetch = 0 /\ asking'[c].floor = 0
      BY <2>3
    <3> QED BY <1>1, <2>1, <3>1 DEF AskOk
  <2> QED BY <1>4, <2>2, <2>3
<1>11. StoreOk(store', floor')
  <2>1. StoreOk(store, floor) /\ floor' = floor
    BY <1>1 DEF CacheInv
  <2>2. CASE store' = store
    BY <2>1, <2>2
  <2>3. CASE Cached!Then(f) /\ inflight[k] = f
    <3>1. store' = Cached!Stored(store, k, fetches[f].ver) /\ fetches[f].ver # -1
      BY <2>3 DEF Cached!Then, Cached!Unread
    <3>2. FlightOk(f, k)
      BY <1>0, <2>3 DEF CacheInv
    <3>3. fetches[f].ver >= floor[k] /\ fetches[f].ver \in Versions
      BY <1>0, <3>1, <3>2, CacheFields DEF FlightOk, After
    <3> QED BY <1>0, <2>1, <3>1, <3>3, StoreSet
  <2> QED BY <2>2, <2>3 DEF Cached!Then, Cached!Finally
<1> QED BY <1>1, <1>4, <1>7, <1>9, <1>10, <1>11 DEF CacheInv, FloorsOk

\* A transaction is prepared and submitted: an invalidated key has neither an
\* entry nor a read in flight.
LEMMA ChangeSteps ==
  ASSUME CacheInv, NEW K \in Groups, Cached!Prepare(K) \/ Cached!Submit(K)
  PROVE  CacheInv'
<1>1. CASE Cached!Submit(K)
  <2>1. /\ upstream' = upstream + 1 /\ upstream < MaxVersion
        /\ UNCHANGED <<store, inflight, fetches, asking, floor>>
    BY <1>1 DEF Cached!Submit
  <2>2. FloorsOk' /\ upstream \in Int /\ upstream' >= upstream
    BY <2>1, CacheAssumption DEF CacheInv, FloorsOk, Versions
  <2>3. ASSUME NEW c \in Callers PROVE AskOk(asking[c])'
    <3>1. AskOk(asking[c])
      BY DEF CacheInv
    <3> QED BY <2>1, <2>2, <3>1, CacheAssumption DEF AskOk, Versions
  <2> QED BY <2>1, <2>2, <2>3 DEF CacheInv, FlightOk
<1>2. CASE Cached!Prepare(K)
  <2>1. /\ UNCHANGED <<upstream, fetches, asking>> /\ store' = Cached!Without(store, K)
        /\ inflight' = [k \in CacheKeys |-> IF k \in K THEN 0 ELSE inflight[k]]
        /\ floor' = [k \in CacheKeys |-> IF k \in K THEN upstream ELSE floor[k]]
    BY <1>2 DEF Cached!Prepare, Cached!NoFetch
  <2>2. FloorsOk'
    BY <2>1, CacheAssumption DEF CacheInv, FloorsOk, Versions
  <2>3. StoreOk(store', floor')
    <3>1. StoreOk(store, floor)
      BY DEF CacheInv
    <3>2. StoreOk(store', floor) /\ \A i \in 1..Len(store') : store'[i].key \notin K
      BY <2>1, <3>1, WithoutKeys
    <3>3. \A i \in 1..Len(store') : store'[i].key \in CacheKeys
      <4>1. store' \in Seq(Entry)
        BY <3>2 DEF StoreOk
      <4>2. \A i \in 1..Len(store') : store'[i] \in Entry
        BY <4>1
      <4> QED BY <4>2 DEF Entry
    <3>4. \A i \in 1..Len(store') : floor'[store'[i].key] = floor[store'[i].key]
      BY <2>1, <3>2, <3>3
    <3> QED BY <3>2, <3>4 DEF StoreOk
  <2>4. ASSUME NEW k \in CacheKeys PROVE FlightOk(inflight[k], k)'
    <3>1. FlightOk(inflight[k], k)
      BY DEF CacheInv
    <3> QED BY <2>1, <3>1 DEF FlightOk
  <2>5. \A c \in Callers : AskOk(asking[c])'
    BY <2>1 DEF CacheInv, AskOk
  <2> QED BY <2>1, <2>2, <2>3, <2>4, <2>5 DEF CacheInv
<1> QED BY <1>1, <1>2

LEMMA CacheKept == CacheInv /\ [Cached!Next]_cacheVars => CacheInv'
<1> SUFFICES ASSUME CacheInv, [Cached!Next]_cacheVars PROVE CacheInv'
  OBVIOUS
<1>1. CASE UNCHANGED cacheVars
  BY <1>1 DEF cacheVars, CacheInv, FloorsOk, FlightOk, AskOk
<1>2. CASE Cached!Next
  <2>1. Cached!Fetches = 1..Len(fetches)
    BY DEF Cached!Fetches
  <2> QED BY <1>2, <2>1, MapSteps, MissSteps, ReadSteps, EndSteps, ChangeSteps
             DEF Cached!Next
<1> QED BY <1>1, <1>2

LEMMA CacheStart == Cached!Init => CacheInv
<1> SUFFICES ASSUME Cached!Init PROVE CacheInv
  OBVIOUS
<1>1. /\ upstream = 0 /\ store = <<>> /\ inflight = [k \in CacheKeys |-> 0]
      /\ fetches = <<>> /\ asking = [c \in Callers |-> [fetch |-> 0, floor |-> 0]]
      /\ floor = [k \in CacheKeys |-> 0]
  BY DEF Cached!Init, Cached!NoFetch
<1>2. 0 \in Versions
  BY CacheAssumption DEF Versions
<1>3. StoreOk(store, floor)
  BY <1>1, CacheAssumption DEF StoreOk
<1>4. FloorsOk /\ \A c \in Callers : AskOk(asking[c])
  BY <1>1, <1>2 DEF FloorsOk, AskOk
<1> QED BY <1>1, <1>3, <1>4 DEF CacheInv, FlightOk

LEMMA CachePromises ==
  CacheInv => Cached!InvalidationHolds /\ Cached!EndedReadsNotJoinable /\ Cached!StoreBounded
<1> SUFFICES ASSUME CacheInv
             PROVE  Cached!InvalidationHolds /\ Cached!EndedReadsNotJoinable /\ Cached!StoreBounded
  OBVIOUS
<1>1. Cached!StoreBounded
  BY CacheFields DEF CacheInv, StoreOk, Cached!StoreBounded
<1>2. Cached!EndedReadsNotJoinable
  BY DEF CacheInv, FlightOk, Cached!EndedReadsNotJoinable, Cached!NoFetch
<1>3. \A i \in DOMAIN store : store[i].ver >= floor[store[i].key]
  BY CacheFields DEF CacheInv, StoreOk
<1>4. ASSUME NEW c \in Callers, asking[c].fetch # 0
      PROVE  fetches[asking[c].fetch].ver \in {-1} \cup (asking[c].floor..MaxVersion)
  <2> DEFINE f == asking[c].fetch
  <2>1. After(fetches, f, asking[c].floor) /\ asking[c].floor \in Versions
    BY <1>4 DEF CacheInv, AskOk
  <2>2. f \in 1..Len(fetches) /\ fetches[f].ver \in Versions \cup {-1}
    BY <2>1, CacheFields DEF After
  <2> QED BY <2>1, <2>2, CacheAssumption DEF After, Versions
<1> QED BY <1>1, <1>2, <1>3, <1>4 DEF Cached!InvalidationHolds, Cached!NoFetch, Cached!Unread

\* What the cache serves is never older than the last invalidation of its key,
\* for any number of keys, callers and reads: see CacheSound.
THEOREM CacheAlwaysSound == MCSpec => []CacheSound
<1> DEFINE Part1 == part = "cache" => CacheInv
<1>1. MCInit => Part1
  BY CacheStart DEF MCInit, CachedInit
<1>2. Part1 /\ [MCNext]_mcVars => Part1'
  <2> SUFFICES ASSUME Part1, [MCNext]_mcVars PROVE Part1'
    OBVIOUS
  <2>1. part' = part
    BY DEF MCNext, mcVars
  <2>2. part = "cache" => [Cached!Next]_cacheVars
    BY DEF MCNext, IndexStep, CachedStep, ApiStep, mcVars, cacheVars
  <2> QED BY <2>1, <2>2, CacheKept
<1>3. Part1 => CacheSound
  BY CachePromises DEF CacheSound
<1> QED BY <1>1, <1>2, <1>3, PTL DEF MCSpec

-----------------------------------------------------------------------------
(* The splits routes.                                                      *)

Waiting == {"join", "fetched", "balance"}
Codes   == {"ok", "error", "notFound", "unauthorized", "expired", "conflict", "invalid"}
RouteSteps ==
  {"account", "prepare", "unique", "open", "owner", "token", "gate", "shape", "created",
   "configure", "save", "evictList", "record", "evict", "paused", "project",
   "expiration", "payouts", "page", "count", "simulate", "rounds", "payments"}

\* A deadline is saved once, in the last step but one, by two routes.
SavesOnce(steps) ==
  \A i \in 1..Len(steps) : /\ steps[i] = "save" => i = Len(steps) - 1
                           /\ steps[i] = "configure" => i < Len(steps)
NeverSaves(steps) == \A i \in 1..Len(steps) : steps[i] \notin {"save", "configure"}

PlainRoute(steps) == steps \in Seq(RouteSteps) /\ steps # <<>> /\ NeverSaves(steps)

\* Two sequences, one after the other.
LEMMA Joined ==
  ASSUME NEW S, NEW a \in Seq(S), NEW b \in Seq(S)
  PROVE  /\ a \o b \in Seq(S) /\ Len(a \o b) = Len(a) + Len(b)
         /\ \A i \in 1..Len(a \o b) : (a \o b)[i] = IF i <= Len(a) THEN a[i] ELSE b[i - Len(a)]
OBVIOUS

\* Routes are put together from parts.
LEMMA PlainParts ==
  ASSUME NEW a, NEW b, PlainRoute(a), PlainRoute(b)
  PROVE  PlainRoute(a \o b)
<1>1. /\ a \o b \in Seq(RouteSteps) /\ Len(a \o b) = Len(a) + Len(b)
      /\ Len(a) \in Nat /\ Len(b) \in Nat /\ Len(a) # 0
      /\ \A i \in 1..Len(a \o b) : (a \o b)[i] = IF i <= Len(a) THEN a[i] ELSE b[i - Len(a)]
  BY DEF PlainRoute
<1>2. a \o b # <<>>
  BY <1>1
<1>3. ASSUME NEW i \in 1..Len(a \o b) PROVE (a \o b)[i] \notin {"save", "configure"}
  BY <1>1 DEF PlainRoute, NeverSaves
<1> QED BY <1>1, <1>2, <1>3 DEF PlainRoute, NeverSaves

\* The parts.
LEMMA PlainSteps ==
  /\ PlainRoute(<<"account", "prepare">>) /\ PlainRoute(<<"simulate">>)
  /\ PlainRoute(<<"open">>) /\ PlainRoute(<<"gate">>) /\ PlainRoute(<<"shape">>)
  /\ PlainRoute(<<"record">>) /\ PlainRoute(<<"evict">>)
  /\ PlainRoute(<<"open", "paused">>) /\ PlainRoute(<<"unique", "account", "prepare">>)
  /\ PlainRoute(<<"open", "owner", "account", "prepare">>)
  /\ PlainRoute(<<"open", "token", "account", "prepare">>)
BY DEF PlainRoute, NeverSaves, RouteSteps

\* Writes that save no deadline.
LEMMA WriteRoutes ==
  /\ PlainRoute(Api!LockRoute) /\ PlainRoute(Api!DepositRoute)
  /\ PlainRoute(Api!CollaboratorsRoute) /\ PlainRoute(Api!MetadataRoute)
  /\ PlainRoute(Api!DistributeRoute) /\ PlainRoute(Api!ClaimRoute)
BY PlainSteps, PlainParts, Zenon DEF Api!LockRoute, Api!BuildLock, Api!DepositRoute, Api!BuildDeposit,
   Api!CollaboratorsRoute, Api!BuildCollaborators, Api!MetadataRoute, Api!BuildMetadata,
   Api!DistributeRoute, Api!ClaimRoute, Api!BuildClaim, Api!BuildUnsignedContractCall

LEMMA AdminRoutes ==
  /\ PlainRoute(Api!PauseRoute) /\ PlainRoute(Api!UnpauseRoute)
  /\ PlainRoute(Api!AllowRoute) /\ PlainRoute(Api!DisallowRoute)
  /\ PlainRoute(Api!WithdrawRoute) /\ PlainRoute(Api!StatusRoute)
  /\ PlainRoute(Api!AllowlistRoute) /\ PlainRoute(Api!IsTokenAllowedRoute)
  /\ PlainRoute(Api!TokenCountRoute) /\ PlainRoute(Api!UnallocatedRoute)
<1>1. /\ PlainRoute(Api!AdminRoute(<<"account", "prepare">>))
      /\ PlainRoute(Api!AdminRoute(<<"simulate">>))
  BY PlainSteps, PlainParts, Zenon DEF Api!AdminRoute, Api!AdminAccess, Api!ValidatedResponse
<1> QED
  BY <1>1, Zenon DEF Api!PauseRoute, Api!UnpauseRoute, Api!AllowRoute, Api!DisallowRoute,
     Api!WithdrawRoute, Api!BuildPause, Api!BuildUnpause, Api!BuildWithdraw, Api!BuildAllow,
     Api!BuildDisallow, Api!BuildUnsignedContractCall, Api!StatusRoute, Api!AllowlistRoute,
     Api!IsTokenAllowedRoute, Api!TokenCountRoute, Api!UnallocatedRoute

LEMMA ReadRoutes ==
  /\ PlainRoute(Api!GetRoute) /\ PlainRoute(Api!ListRoute)
  /\ PlainRoute(Api!ClaimableRoute) /\ PlainRoute(Api!HistoryRoute)
BY DEF Api!GetRoute, Api!ListRoute, Api!ClaimableRoute, Api!HistoryRoute,
       PlainRoute, NeverSaves, RouteSteps

\* What a request starts with.
LEMMA Routes ==
  ASSUME NEW op \in Ops
  PROVE  /\ Api!Route[op] \in Seq(RouteSteps) /\ Api!Route[op] # <<>>
         /\ SavesOnce(Api!Route[op])
         /\ op \notin {"create", "expiration"} => NeverSaves(Api!Route[op])
         /\ op = "create" => Api!Route[op][1] = "unique"
         /\ op = "expiration" => /\ Len(Api!Route[op]) > 1
                                  /\ Api!Route[op][1] = "owner" /\ Api!Route[op][2] = "open"
<1>1. op \in {"create", "lock", "deposit", "collaborators", "metadata", "distribute",
              "claim", "expiration", "pause", "unpause", "allow", "disallow", "withdraw",
              "get", "list", "claimable", "history", "status", "allowlist",
              "isTokenAllowed", "tokenCount", "unallocated"}
  BY ApiAssumption DEF Api!Route
<1>2. CASE op = "create"
  <2> DEFINE a == <<"unique", "account", "prepare">>
             b == <<"created", "configure", "save", "evictList">>
  <2>1. Api!Route[op] = a \o b
    BY <1>2 DEF Api!Route, Api!CreateRoute, Api!BuildCreate
  <2>2. /\ a \in Seq(RouteSteps) /\ b \in Seq(RouteSteps) /\ Len(a) = 3 /\ Len(b) = 4
        /\ a[1] = "unique" /\ NeverSaves(a) /\ SavesOnce(b)
    BY DEF RouteSteps, SavesOnce, NeverSaves
  <2> HIDE DEF a, b
  <2> DEFINE w == a \o b
  <2>3. /\ w \in Seq(RouteSteps) /\ Len(w) = 7
        /\ \A i \in 1..7 : w[i] = IF i <= 3 THEN a[i] ELSE b[i - 3]
    <3>1. /\ w \in Seq(RouteSteps) /\ Len(w) = Len(a) + Len(b)
          /\ \A i \in 1..Len(w) : w[i] = IF i <= Len(a) THEN a[i] ELSE b[i - Len(a)]
      BY <2>2, Joined
    <3> HIDE DEF w
    <3> QED BY <2>2, <3>1
  <2> HIDE DEF w
  <2>4. SavesOnce(w) /\ w[1] = "unique" /\ w # <<>>
    <3>1. ASSUME NEW i \in 1..Len(w)
          PROVE  (w[i] = "save" => i = Len(w) - 1) /\ (w[i] = "configure" => i < Len(w))
      <4>1. CASE i <= 3
        BY <2>2, <2>3, <4>1 DEF NeverSaves
      <4>2. CASE i > 3
        <5>1. i - 3 \in 1..Len(b) /\ w[i] = b[i - 3] /\ i \in Int
          BY <2>2, <2>3, <4>2
        <5> QED BY <2>2, <2>3, <5>1 DEF SavesOnce
      <4> QED BY <4>1, <4>2
    <3>2. SavesOnce(w)
      BY <3>1 DEF SavesOnce
    <3>3. w[1] = "unique"
      <4>1. 1 \in 1..7 /\ 1 <= 3
        OBVIOUS
      <4>2. w[1] = a[1]
        BY <2>3, <4>1
      <4> QED BY <2>2, <4>2
    <3>4. w # <<>>
      <4>1. Len(<<>>) # 7
        OBVIOUS
      <4> QED BY <2>3, <4>1, Zenon
    <3> QED BY <3>2, <3>3, <3>4
  <2> QED BY <1>2, <2>1, <2>3, <2>4 DEF w
<1>3. CASE op = "expiration"
  <2>1. Api!Route[op] = <<"owner", "open", "configure", "save", "evict">>
    BY <1>3 DEF Api!Route, Api!ExpirationRoute
  <2> QED BY <1>3, <2>1 DEF RouteSteps, SavesOnce
<1>4. CASE op \notin {"create", "expiration"}
  <2>1. PlainRoute(Api!Route[op])
    BY <1>1, <1>4, WriteRoutes, AdminRoutes, ReadRoutes DEF Api!Route
  <2> QED BY <1>4, <2>1 DEF PlainRoute, NeverSaves, SavesOnce
<1> QED BY <1>2, <1>3, <1>4

-----------------------------------------------------------------------------
(* A request.                                                              *)

TaskFields == {"step", "todo", "op", "by", "expires", "got", "again", "listed",
               "owned", "closed", "existed"}

Shape(t) ==
  /\ DOMAIN t = TaskFields
  /\ t.step \in RouteSteps \cup Waiting \cup Codes \cup {"mark"}
  /\ t.todo \in Seq(RouteSteps)
  /\ t.step \in Waiting => t.todo # <<>> /\ t.todo[1] \in Api!Reads
  /\ t.again \in BOOLEAN /\ t.owned \in BOOLEAN
  /\ t.closed \in BOOLEAN /\ t.existed \in BOOLEAN
  /\ t.by \in ApiWallets /\ t.expires \in Nat

\* What a request remembers of the chain is still so.
Past(t) ==
  /\ t.owned => chain.owner = t.by
  /\ t.existed => chain.owner # "nobody"
  /\ t.step = "unauthorized" => ~t.owned

\* An expiration request whose check is still ahead of it.
CheckAhead(t) ==
  \/ t.step \in Codes \cup {"open", "mark"}
  \/ t.step = "owner" /\ t.todo # <<>> /\ t.todo[1] = "open"
  \/ t.step \in Waiting /\ Len(t.todo) > 1 /\ t.todo[1] = "owner" /\ t.todo[2] = "open"

\* Who comes to save a deadline has created the project, or has found the
\* deadline open.
Saving(t) ==
  /\ SavesOnce(t.todo) /\ (t.step = "save" => Len(t.todo) = 1)
  /\ t.step = "configure" => t.todo # <<>>
  /\ t.op \notin {"create", "expiration"} =>
       t.step \notin {"save", "configure"} /\ NeverSaves(t.todo)
  /\ t.op = "create" => t.step \in Codes \cup {"unique"} \/ ~t.existed
  /\ t.op = "expiration" => (t.closed => deadline <= now) /\ (~t.closed \/ CheckAhead(t))

Busy(t)   == Shape(t) /\ Past(t) /\ Saving(t)
TaskOk(t) == t = Api!Free \/ Busy(t)

\* What a step of a route leaves alone.
Keeps(t, u) ==
  /\ DOMAIN u = TaskFields
  /\ u.op = t.op /\ u.by = t.by /\ u.expires = t.expires
  /\ u.owned = t.owned /\ u.closed = t.closed /\ u.existed = t.existed

LEMMA StepKinds ==
  /\ RouteSteps \cap Waiting = {} /\ RouteSteps \cap Codes = {} /\ Waiting \cap Codes = {}
  /\ Api!Reads \subseteq RouteSteps /\ "save" \notin Api!Reads /\ "configure" \notin Api!Reads
  /\ "free" \notin RouteSteps \cup Waiting \cup Codes \cup {"mark"}
  /\ "mark" \notin RouteSteps \cup Waiting \cup Codes
BY DEF RouteSteps, Waiting, Codes, Api!Reads

\* A slot is free, or a request is in it.
LEMMA FreeOrBusy ==
  ASSUME NEW t, TaskOk(t)
  PROVE  /\ t = Api!Free <=> t.step = "free"
         /\ t.step # "free" => Busy(t)
<1>1. t = Api!Free => t.step = "free"
  BY DEF Api!Free
<1>2. Busy(t) => t.step # "free"
  BY StepKinds DEF Busy, Shape
<1> QED BY <1>1, <1>2 DEF TaskOk

\* The request ends.
LEMMA AnswerOk ==
  ASSUME NEW t, Busy(t), NEW code \in Codes, code = "unauthorized" => ~t.owned
  PROVE  LET u == Api!Answered(t, code)
         IN  Busy(u) /\ Keeps(t, u) /\ u.again = t.again /\ u.step = code
<1> DEFINE u == Api!Answered(t, code)
<1>0. DOMAIN t = TaskFields
  BY DEF Busy, Shape
<1>1. /\ Keeps(t, u) /\ u.again = t.again /\ u.step = code /\ u.todo = <<>>
  BY <1>0 DEF Api!Answered, Keeps, TaskFields
<1> HIDE DEF u
<1>2. /\ code \notin Waiting /\ code \notin {"save", "configure"}
      /\ <<>> \in Seq(RouteSteps) /\ SavesOnce(<<>>) /\ NeverSaves(<<>>)
  BY StepKinds DEF SavesOnce, NeverSaves, RouteSteps, Codes
<1>3. Shape(u)
  BY <1>1, <1>2 DEF Busy, Shape, Keeps
<1>4. Past(u)
  BY <1>1 DEF Busy, Past, Keeps
<1>5. Saving(u)
  BY <1>1, <1>2 DEF Busy, Saving, Keeps, CheckAhead
<1> QED BY <1>1, <1>3, <1>4, <1>5 DEF Busy, u

\* The next step of the route begins, or there is none.
LEMMA AdvanceOk ==
  ASSUME NEW t, Busy(t), t.step \in RouteSteps,
         t.step = "unique" => t.op # "create" \/ ~t.existed,
         t.step = "open" => t.op # "expiration" \/ ~t.closed
  PROVE  LET u == Api!Advanced(t)
         IN  /\ Busy(u) /\ Keeps(t, u) /\ u.again = t.again
             /\ u.step \notin Waiting /\ u.step # "unauthorized"
             /\ t.step = "save" => u.step # "save"
<1> DEFINE u == Api!Advanced(t)
<1>0. DOMAIN t = TaskFields /\ t.todo \in Seq(RouteSteps)
  BY DEF Busy, Shape
<1>1. CASE t.todo = <<>>
  <2>1. u = Api!Answered(t, "ok")
    BY <1>1 DEF Api!Advanced
  <2> HIDE DEF u
  <2>2. "ok" \in Codes /\ "ok" # "unauthorized" /\ "ok" \notin Waiting /\ "ok" # "save"
    BY DEF Codes, Waiting
  <2>3. Busy(u) /\ Keeps(t, u) /\ u.again = t.again /\ u.step = "ok"
    BY <2>1, <2>2, AnswerOk
  <2> QED BY <2>2, <2>3 DEF u
<1>2. CASE t.todo # <<>>
  <2>1. u = [t EXCEPT !.step = Head(t.todo), !.todo = Tail(t.todo)]
    BY <1>2 DEF Api!Advanced
  <2>2. Keeps(t, u) /\ u.again = t.again /\ u.step = Head(t.todo) /\ u.todo = Tail(t.todo)
    BY <1>0, <2>1 DEF Keeps, TaskFields
  <2> HIDE DEF u
  <2>3. /\ Head(t.todo) = t.todo[1] /\ t.todo[1] \in RouteSteps /\ Len(t.todo) \in Nat
        /\ Len(t.todo) >= 1
        /\ Tail(t.todo) \in Seq(RouteSteps) /\ Len(Tail(t.todo)) = Len(t.todo) - 1
        /\ \A i \in 1..Len(Tail(t.todo)) : Tail(t.todo)[i] = t.todo[i + 1]
    BY <1>0, <1>2
  <2>4. u.step \in RouteSteps /\ u.step \notin Waiting /\ u.step \notin Codes
    BY <2>2, <2>3, StepKinds
  <2>5. Shape(u)
    BY <2>2, <2>3, <2>4 DEF Busy, Shape, Keeps
  <2>6. Past(u) /\ u.step # "unauthorized"
    BY <2>2, <2>4 DEF Busy, Past, Keeps, Codes
  <2>7. /\ SavesOnce(u.todo) /\ (u.step = "save" => Len(u.todo) = 1)
        /\ u.step = "configure" => u.todo # <<>>
        /\ t.op \notin {"create", "expiration"} =>
             u.step \notin {"save", "configure"} /\ NeverSaves(u.todo)
        /\ t.step = "save" => u.step # "save"
    <3> DEFINE a == t.todo
               b == u.todo
    <3>1. SavesOnce(a) /\ (t.step = "save" => Len(a) = 1)
          /\ (t.op \notin {"create", "expiration"} => NeverSaves(a))
      BY DEF Busy, Saving
    <3>2. /\ Len(a) \in Nat /\ Len(a) >= 1 /\ Len(b) = Len(a) - 1 /\ u.step = a[1]
          /\ \A i \in 1..Len(b) : b[i] = a[i + 1]
      BY <2>2, <2>3
    <3> HIDE DEF a, b
    <3>3. \A i \in 1..Len(b) : i + 1 \in 1..Len(a)
      BY <3>2
    <3>4. SavesOnce(b)
      BY <3>1, <3>2, <3>3 DEF SavesOnce
    <3>5. 1 \in 1..Len(a)
      BY <3>2
    <3>6. a[1] = "save" => Len(b) = 1 /\ Len(a) # 1
      BY <3>1, <3>2, <3>5 DEF SavesOnce
    <3>7. NeverSaves(a) => a[1] \notin {"save", "configure"} /\ NeverSaves(b)
      BY <3>2, <3>3, <3>5 DEF NeverSaves
    <3>8. a[1] = "configure" => Len(b) # 0
      BY <3>1, <3>2, <3>5 DEF SavesOnce
    <3>9. Len(u.todo) # 0 => u.todo # <<>>
      OBVIOUS
    <3> QED BY <3>1, <3>2, <3>4, <3>6, <3>7, <3>8, <3>9 DEF b
  <2>8. t.op = "create" => ~u.existed
    BY <2>2, StepKinds DEF Busy, Saving, Keeps
  <2>9. t.op = "expiration" => (u.closed => deadline <= now) /\ (~u.closed \/ CheckAhead(u))
    <3> SUFFICES ASSUME t.op = "expiration", t.closed PROVE deadline <= now /\ CheckAhead(u)
      BY <2>2 DEF Keeps, Busy, Shape
    <3>1. deadline <= now /\ CheckAhead(t)
      BY DEF Busy, Saving
    <3>2. t.step # "open" /\ t.step \notin Codes \cup {"mark"} /\ t.step \notin Waiting
      BY StepKinds
    <3>3. t.todo[1] = "open"
      BY <3>1, <3>2 DEF CheckAhead
    <3> QED BY <2>2, <2>3, <3>1, <3>3 DEF CheckAhead
  <2>10. Saving(u)
    BY <2>2, <2>7, <2>8, <2>9 DEF Saving, Keeps
  <2> QED BY <2>2, <2>4, <2>5, <2>6, <2>7, <2>10 DEF Busy, u
<1> QED BY <1>1, <1>2

\* A step put before a route saves nothing.
LEMMA SavesAfter ==
  ASSUME NEW a, NEW q, Len(a) \in Nat, Len(q) = Len(a) + 1, q[1] \notin {"save", "configure"},
         \A i \in 1..Len(q) : i = 1 \/ (i - 1 \in 1..Len(a) /\ q[i] = a[i - 1])
  PROVE  (SavesOnce(a) => SavesOnce(q)) /\ (NeverSaves(a) => NeverSaves(q))
<1>1. SavesOnce(a) => SavesOnce(q)
  BY DEF SavesOnce
<1>2. NeverSaves(a) => NeverSaves(q)
  BY DEF NeverSaves
<1> QED BY <1>1, <1>2

\* A request awaits a fetch: the step it needs the answer for comes back.
LEMMA WaitOk ==
  ASSUME NEW t, Busy(t), t.step \in Api!Reads, NEW u, Keeps(t, u), u.again = t.again,
         u.step \in Waiting, NEW q, q = <<t.step>> \o t.todo, u.todo = q
  PROVE  Busy(u) /\ q[1] = t.step
<1>1. DOMAIN t = TaskFields /\ t.todo \in Seq(RouteSteps) /\ t.step \in RouteSteps
  BY StepKinds DEF Busy, Shape
<1>2. /\ q \in Seq(RouteSteps) /\ Len(q) = Len(t.todo) + 1 /\ q # <<>> /\ q[1] = t.step
      /\ Len(t.todo) \in Nat /\ \A i \in 1..Len(t.todo) : q[i + 1] = t.todo[i]
  BY <1>1
<1>3. Shape(u)
  BY <1>2 DEF Busy, Shape, Keeps
<1>4. Past(u)
  BY DEF Busy, Past, Keeps, Waiting
<1>5. \A i \in 1..Len(q) : i = 1 \/ (i - 1 \in 1..Len(t.todo) /\ q[i] = t.todo[i - 1])
  <2> DEFINE a == t.todo
  <2>1. Len(a) \in Nat /\ Len(q) = Len(a) + 1 /\ \A i \in 1..Len(a) : q[i + 1] = a[i]
    BY <1>2
  <2> HIDE DEF a
  <2>2. \A i \in 1..Len(q) : i = 1 \/ (i - 1 \in 1..Len(a) /\ q[i] = a[i - 1])
    BY <2>1
  <2> QED BY <2>2 DEF a
<1>6. SavesOnce(q) /\ (NeverSaves(t.todo) => NeverSaves(q))
  <2>1. t.step \notin {"save", "configure"} /\ SavesOnce(t.todo)
    BY StepKinds DEF Busy, Saving
  <2> DEFINE a == t.todo
  <2>2. /\ Len(a) \in Nat /\ Len(q) = Len(a) + 1 /\ q[1] \notin {"save", "configure"} /\ SavesOnce(a)
        /\ \A i \in 1..Len(q) : i = 1 \/ (i - 1 \in 1..Len(a) /\ q[i] = a[i - 1])
    BY <1>2, <1>5, <2>1
  <2> QED BY <2>2, SavesAfter
<1>7. t.op = "create" => ~t.existed
  <2>1. t.step \notin Codes \cup {"unique"}
    BY DEF Api!Reads, Codes
  <2> QED BY <2>1 DEF Busy, Saving
<1>8. ASSUME CheckAhead(t) PROVE CheckAhead(u)
  <2>1. t.step \notin Codes \cup {"open", "mark"} /\ t.step \notin Waiting
    BY DEF Api!Reads, Codes, Waiting
  <2>2. t.step = "owner" /\ t.todo # <<>> /\ t.todo[1] = "open"
    BY <1>8, <2>1 DEF CheckAhead
  <2>3. Len(q) > 1 /\ q[2] = "open" /\ q[1] = "owner"
    <3>1. 1 \in 1..Len(t.todo)
      BY <1>1, <2>2
    <3> QED BY <1>2, <2>2, <3>1
  <2> QED BY <2>3 DEF CheckAhead
<1>9. Saving(u)
  <2>1. u.step \notin {"save", "configure"}
    BY DEF Waiting
  <2> QED BY <1>6, <1>7, <1>8, <2>1 DEF Busy, Saving, Keeps
<1> QED BY <1>2, <1>3, <1>4, <1>9 DEF Busy

\* The fetch is over and the request is back at the step that asked for it.
LEMMA BackOk ==
  ASSUME NEW t, Busy(t), t.step \in Waiting
  PROVE  LET u == [t EXCEPT !.step = Head(t.todo), !.todo = Tail(t.todo), !.got = Api!Miss]
         IN  /\ Busy(u) /\ Keeps(t, u) /\ u.again = t.again
             /\ u.step = t.todo[1] /\ u.step \in Api!Reads
<1> DEFINE h == Head(t.todo)
           q == Tail(t.todo)
           u == [t EXCEPT !.step = h, !.todo = q, !.got = Api!Miss]
<1>0. DOMAIN t = TaskFields /\ t.todo \in Seq(RouteSteps) /\ t.todo # <<>> /\ t.todo[1] \in Api!Reads
  BY DEF Busy, Shape
<1>1. /\ Keeps(t, u) /\ u.again = t.again /\ u.step = h /\ u.todo = q
  BY <1>0 DEF Keeps, TaskFields
<1>2. /\ q \in Seq(RouteSteps) /\ Len(q) = Len(t.todo) - 1 /\ h = t.todo[1]
      /\ Len(t.todo) \in Nat /\ Len(t.todo) >= 1 /\ \A i \in 1..Len(q) : q[i] = t.todo[i + 1]
  BY <1>0
<1> HIDE DEF u, q, h
<1>3. h \in RouteSteps /\ h \notin {"save", "configure"} /\ h \notin Waiting /\ h # "unauthorized"
  BY <1>0, <1>2, StepKinds DEF Waiting, Codes, Api!Reads
<1>4. Shape(u)
  BY <1>1, <1>2, <1>3 DEF Busy, Shape, Keeps
<1>5. Past(u)
  BY <1>1, <1>3 DEF Busy, Past, Keeps
<1>6. SavesOnce(q) /\ (NeverSaves(t.todo) => NeverSaves(q))
  <2>1. SavesOnce(t.todo)
    BY DEF Busy, Saving
  <2>2. \A i \in 1..Len(q) : i + 1 \in 1..Len(t.todo)
    BY <1>2
  <2> DEFINE a == t.todo
  <2>3. /\ Len(a) \in Nat /\ Len(q) = Len(a) - 1 /\ SavesOnce(a)
        /\ \A i \in 1..Len(q) : i + 1 \in 1..Len(a) /\ q[i] = a[i + 1]
    BY <1>2, <2>1, <2>2
  <2> HIDE DEF a
  <2>4. SavesOnce(q)
    BY <2>3 DEF SavesOnce
  <2>5. NeverSaves(a) => NeverSaves(q)
    BY <2>3 DEF NeverSaves
  <2> QED BY <2>4, <2>5 DEF a
<1>7. t.op = "create" => ~t.existed
  <2>1. t.step \notin Codes \cup {"unique"}
    BY DEF Waiting, Codes
  <2> QED BY <2>1 DEF Busy, Saving
<1>8. ASSUME CheckAhead(t) PROVE CheckAhead(u)
  <2>1. t.step \notin Codes \cup {"open", "mark", "owner"}
    BY DEF Codes, Waiting
  <2>2. Len(t.todo) > 1 /\ t.todo[1] = "owner" /\ t.todo[2] = "open"
    BY <1>8, <2>1 DEF CheckAhead
  <2>3. 1 \in 1..Len(q) /\ q[1] = "open" /\ q # <<>>
    BY <1>2, <2>2
  <2> QED BY <1>1, <1>2, <2>2, <2>3 DEF CheckAhead
<1>9. Saving(u)
  BY <1>1, <1>3, <1>6, <1>7, <1>8 DEF Busy, Saving, Keeps
<1> QED BY <1>0, <1>1, <1>2, <1>4, <1>5, <1>9 DEF Busy, u, q, h

\* A request is given the value it asked for.  It is refused as somebody else's
\* only at its second look.
LEMMA GivenOk ==
  ASSUME NEW t, Busy(t), t.step \in Api!Reads, NEW v,
         t.step = "owner" /\ t.again /\ t.owned => v.owner = t.by
  PROVE  LET u == Api!Given(t, v)
         IN  /\ Busy(u) /\ Keeps(t, u) /\ u.step \notin Waiting
             /\ (t.again => u.again)
             /\ u.again /\ ~t.again => u.step = "owner" /\ t.step = "owner"
<1> DEFINE u == Api!Given(t, v)
           Fine(x) == /\ Busy(x) /\ Keeps(t, x) /\ x.step \notin Waiting
                      /\ (t.again => x.again)
                      /\ x.again /\ ~t.again => x.step = "owner" /\ t.step = "owner"
<1>0. DOMAIN t = TaskFields /\ t.again \in BOOLEAN /\ t.step \in RouteSteps
      /\ t.step # "unique" /\ t.step # "open"
  BY StepKinds DEF Busy, Shape, Api!Reads
<1>1. ASSUME NEW code \in {"notFound", "invalid"} PROVE Fine(Api!Answered(t, code))
  <2>1. code \in Codes /\ code # "unauthorized" /\ code \notin Waiting
    BY DEF Codes, Waiting
  <2> QED BY <2>1, AnswerOk
<1>2. Fine(Api!Advanced(t))
  BY <1>0, AdvanceOk
<1>3. Fine(Api!Advanced([t EXCEPT !.listed = v.owner # Api!Nobody]))
  <2> DEFINE x == [t EXCEPT !.listed = v.owner # Api!Nobody]
  <2>1. Keeps(t, x) /\ x.again = t.again /\ x.step = t.step /\ x.todo = t.todo
    BY <1>0 DEF Keeps, TaskFields
  <2> HIDE DEF x
  <2>2. Busy(x)
    BY <2>1 DEF Busy, Shape, Past, Saving, Keeps, CheckAhead
  <2> DEFINE y == Api!Advanced(x)
  <2>3. Busy(y) /\ Keeps(x, y) /\ y.again = x.again /\ y.step \notin Waiting
    BY <1>0, <2>1, <2>2, AdvanceOk
  <2> HIDE DEF y
  <2>4. Keeps(t, y)
    BY <2>1, <2>3 DEF Keeps
  <2>5. Fine(y)
    BY <2>1, <2>3, <2>4
  <2> QED BY <2>5 DEF x, y
<1>4. ASSUME t.step = "owner", v.owner # t.by PROVE Fine(Api!Mismatch(t))
  <2>1. CASE t.again
    <3>1. Api!Mismatch(t) = Api!Answered(t, "unauthorized") /\ ~t.owned
      BY <1>4, <2>1 DEF Api!Mismatch, Busy, Shape
    <3>2. "unauthorized" \in Codes /\ "unauthorized" \notin Waiting
      BY DEF Codes, Waiting
    <3> QED BY <2>1, <3>1, <3>2, AnswerOk
  <2>2. CASE ~t.again
    <3> DEFINE x == [t EXCEPT !.again = TRUE]
    <3>1. Api!Mismatch(t) = x
      BY <2>2 DEF Api!Mismatch
    <3>2. Keeps(t, x) /\ x.again = TRUE /\ x.step = t.step /\ x.todo = t.todo
      BY <1>0 DEF Keeps, TaskFields
    <3> HIDE DEF x
    <3>3. Busy(x)
      BY <3>2 DEF Busy, Shape, Past, Saving, Keeps, CheckAhead
    <3>4. "owner" \notin Waiting
      BY DEF Waiting
    <3> QED BY <1>4, <3>1, <3>2, <3>3, <3>4
  <2> QED BY <1>0, <2>1, <2>2
<1> HIDE DEF Fine
<1>5. CASE t.step = "project"
  <2>1. u = Api!Answered(t, "notFound") \/ u = Api!Advanced(t)
    BY <1>5 DEF Api!Given
  <2> QED BY <1>1, <1>2, <2>1 DEF Fine
<1>6. CASE t.step = "token"
  <2>1. u = Api!Answered(t, "invalid") \/ u = Api!Advanced(t)
    BY <1>6 DEF Api!Given
  <2> QED BY <1>1, <1>2, <2>1 DEF Fine
<1>7. CASE t.step = "page"
  <2>1. u = Api!Advanced([t EXCEPT !.listed = v.owner # Api!Nobody])
    BY <1>7 DEF Api!Given
  <2> QED BY <1>3, <2>1 DEF Fine
<1>8. CASE t.step = "owner"
  <2>1. \/ u = Api!Answered(t, "notFound") \/ u = Api!Advanced(t)
        \/ u = Api!Mismatch(t) /\ v.owner # t.by
    BY <1>8 DEF Api!Given
  <2> QED BY <1>1, <1>2, <1>4, <1>8, <2>1 DEF Fine
<1> QED BY <1>5, <1>6, <1>7, <1>8 DEF Api!Reads

-----------------------------------------------------------------------------
(* The requests together.  A fetch that others may join is under way, for  *)
(* the key they need.  Once a request has looked past the cache, whatever  *)
(* the cache holds or fetches was read after that look began: if its       *)
(* wallet has been the owner all the time, the value names that wallet.    *)

ChainOk ==
  /\ DOMAIN chain = {"owner", "paid", "out", "paused"}
  /\ chain.paid \in Nat /\ chain.out \in Nat /\ chain.out <= chain.paid
ClockOk    == now \in Nat /\ deadline \in Nat
PreparedOk == \A p \in prepared : p.by \in ApiWallets

\* A cached project never counts more than was paid in.
StoredOk ==
  stored["project"] # Api!Miss =>
    /\ stored["project"].out \in Nat /\ stored["project"].balance \in Nat
    /\ stored["project"].out + stored["project"].balance <= chain.paid

Key(t)      == Api!KeyOf(t.todo[1])
Fetching(t) == t.step \in {"fetched", "balance"}

ReadingOk(k) ==
  reading[k] = "none" \/
    (reading[k] \in ApiSlots /\ Fetching(tasks[reading[k]]) /\ Key(tasks[reading[k]]) = k)

JoinOk(t) ==
  t.step = "join" =>
    t.got \in ApiSlots /\ Fetching(tasks[t.got]) /\ Key(tasks[t.got]) = Key(t)

\* The first simulation of a fetch came before the second.
GotOk(t) ==
  t.step = "balance" =>
    DOMAIN t.got = {"owner", "out"} /\ t.got.out \in Nat /\ t.got.out <= chain.out

\* A fetch has not read the project yet, or has read that w owns it.
Names(t, w) == t.step = "balance" => t.got.owner = w

Trusts(t) ==
  t # Api!Free /\ t.again /\ t.owned =>
    /\ stored["project"] # Api!Miss => stored["project"].owner = t.by
    /\ reading["project"] # "none" => Names(tasks[reading["project"]], t.by)
    /\ t.step = "join" /\ Key(t) = "project" => Names(tasks[t.got], t.by)
    /\ Names(t, t.by)

\* The inductive invariant of the splits routes.
ApiInv ==
  /\ ChainOk /\ ClockOk /\ PreparedOk /\ StoredOk
  /\ DOMAIN tasks = ApiSlots /\ DOMAIN stored = Api!Keys /\ DOMAIN reading = Api!Keys
  /\ \A k \in Api!Keys : ReadingOk(k)
  /\ \A x \in ApiSlots : /\ TaskOk(tasks[x]) /\ JoinOk(tasks[x])
                         /\ GotOk(tasks[x]) /\ Trusts(tasks[x])

\* The cache stays or loses entries and fetches.
CacheShrinks ==
  /\ DOMAIN stored' = Api!Keys /\ DOMAIN reading' = Api!Keys
  /\ \A k \in Api!Keys : stored'[k] \in {stored[k], Api!Miss} /\ reading'[k] \in {reading[k], "none"}

\* A step of one request that neither ends nor begins a wait.
LEMMA RequestMoves ==
  ASSUME ApiInv, NEW r \in ApiSlots, NEW u, tasks' = [tasks EXCEPT ![r] = u],
         UNCHANGED <<chain, now, deadline>>, PreparedOk', CacheShrinks,
         tasks[r].step \notin Waiting, TaskOk(u), u.step \notin Waiting,
         \/ u = Api!Free \/ ~u.again
         \/ /\ tasks[r] # Api!Free /\ u.by = tasks[r].by /\ u.owned = tasks[r].owned
            /\ tasks[r].again
         \/ stored'["project"] = Api!Miss /\ reading'["project"] = "none"
  PROVE  ApiInv'
<1>0. "project" \in Api!Keys
  BY DEF Api!Keys
<1>1. /\ DOMAIN tasks = ApiSlots /\ DOMAIN tasks' = ApiSlots /\ tasks'[r] = u
      /\ \A x \in ApiSlots : x # r => tasks'[x] = tasks[x]
  BY DEF ApiInv
<1>2. \A x \in ApiSlots : Fetching(tasks[x]) => x # r /\ tasks'[x] = tasks[x]
  BY <1>1 DEF Fetching, Waiting
<1>3. ChainOk' /\ ClockOk' /\ StoredOk'
  BY <1>0 DEF ApiInv, ChainOk, ClockOk, StoredOk, CacheShrinks
<1>4. ASSUME NEW k \in Api!Keys PROVE ReadingOk(k)'
  <2>1. ReadingOk(k) /\ reading'[k] \in {reading[k], "none"}
    BY DEF ApiInv, CacheShrinks
  <2> QED BY <1>2, <2>1 DEF ReadingOk
<1>5. \A t : TaskOk(t) => TaskOk(t)'
  BY DEF TaskOk, Busy, Past, Saving
<1>6. ASSUME NEW x \in ApiSlots, x # r
      PROVE  TaskOk(tasks[x])' /\ JoinOk(tasks[x])' /\ GotOk(tasks[x])' /\ Trusts(tasks[x])'
  <2>1. tasks'[x] = tasks[x] /\ TaskOk(tasks[x]) /\ JoinOk(tasks[x]) /\ GotOk(tasks[x]) /\ Trusts(tasks[x])
    BY <1>1, <1>6 DEF ApiInv
  <2>2. TaskOk(tasks[x])' /\ GotOk(tasks[x])'
    BY <2>1 DEF GotOk, TaskOk, Busy, Past, Saving
  <2>3. JoinOk(tasks[x])'
    BY <1>2, <2>1 DEF JoinOk
  <2>4. tasks[x].step = "join" => tasks'[tasks[x].got] = tasks[tasks[x].got]
    BY <1>2, <2>1 DEF JoinOk
  <2>5. reading'["project"] # "none" =>
          reading'["project"] = reading["project"] /\ tasks'[reading["project"]] = tasks[reading["project"]]
    BY <1>0, <1>2 DEF ApiInv, ReadingOk, CacheShrinks
  <2>6. stored'["project"] \in {stored["project"], Api!Miss}
    BY <1>0 DEF CacheShrinks
  <2>7. Trusts(tasks[x])'
    BY <2>1, <2>4, <2>5, <2>6 DEF Trusts, Names
  <2> QED BY <2>2, <2>3, <2>7
<1>7. TaskOk(tasks[r])' /\ JoinOk(tasks[r])' /\ GotOk(tasks[r])'
  BY <1>1, <1>5 DEF JoinOk, GotOk, Waiting
<1>8. Trusts(tasks[r])'
  <2> SUFFICES ASSUME u # Api!Free, u.again, u.owned
               PROVE  /\ stored'["project"] # Api!Miss => stored'["project"].owner = u.by
                      /\ reading'["project"] # "none" => Names(tasks[reading["project"]], u.by)'
    BY <1>1 DEF Trusts, Names, Waiting
  <2>1. CASE stored'["project"] = Api!Miss /\ reading'["project"] = "none"
    BY <2>1
  <2>2. CASE tasks[r] # Api!Free /\ u.by = tasks[r].by /\ u.owned = tasks[r].owned /\ tasks[r].again
    <3>1. /\ stored["project"] # Api!Miss => stored["project"].owner = u.by
          /\ reading["project"] # "none" => Names(tasks[reading["project"]], u.by)
      BY <2>2 DEF ApiInv, Trusts
    <3>2. reading'["project"] # "none" =>
            reading'["project"] = reading["project"] /\ tasks'[reading["project"]] = tasks[reading["project"]]
      BY <1>0, <1>2 DEF ApiInv, ReadingOk, CacheShrinks
    <3>3. stored'["project"] \in {stored["project"], Api!Miss}
      BY <1>0 DEF CacheShrinks
    <3> QED BY <3>1, <3>2, <3>3 DEF Names
  <2> QED BY <2>1, <2>2
<1>9. DOMAIN stored' = Api!Keys /\ DOMAIN reading' = Api!Keys
  BY DEF CacheShrinks
<1> QED BY <1>1, <1>3, <1>4, <1>6, <1>7, <1>8, <1>9 DEF ApiInv

LEMMA RequestEnds ==
  ASSUME ApiInv, NEW r \in ApiSlots, tasks[r].step \notin Waiting \cup {"free"},
         NEW code \in Codes, code # "unauthorized",
         Api!Goes(r, Api!Answered(tasks[r], code)),
         UNCHANGED <<chain, now, deadline>>, PreparedOk', CacheShrinks
  PROVE  ApiInv'
<1> DEFINE t == tasks[r]
           u == Api!Answered(t, code)
<1>1. TaskOk(t)
  BY DEF ApiInv
<1>2. Busy(t) /\ t # Api!Free
  BY <1>1, FreeOrBusy
<1>3. Busy(u) /\ Keeps(t, u) /\ u.again = t.again /\ u.step = code
  BY <1>2, AnswerOk
<1>4. tasks' = [tasks EXCEPT ![r] = u]
  BY DEF Api!Goes
<1> HIDE DEF u
<1>5. code \notin Waiting /\ u.by = t.by /\ u.owned = t.owned /\ TaskOk(u) /\ u.again \in BOOLEAN
  BY <1>3, StepKinds DEF Keeps, TaskOk, Busy, Shape
<1> QED BY <1>2, <1>3, <1>4, <1>5, RequestMoves

LEMMA RequestProceeds ==
  ASSUME ApiInv, NEW r \in ApiSlots, tasks[r].step \in RouteSteps,
         tasks[r].step = "unique" => tasks[r].op # "create" \/ ~tasks[r].existed,
         tasks[r].step = "open" => tasks[r].op # "expiration" \/ ~tasks[r].closed,
         Api!Goes(r, Api!Advanced(tasks[r])),
         UNCHANGED <<chain, now, deadline>>, PreparedOk', CacheShrinks
  PROVE  ApiInv'
<1> DEFINE t == tasks[r]
           u == Api!Advanced(t)
<1>1. TaskOk(t) /\ t.step # "free" /\ t.step \notin Waiting
  BY StepKinds DEF ApiInv
<1>2. Busy(t) /\ t # Api!Free
  BY <1>1, FreeOrBusy
<1>3. Busy(u) /\ Keeps(t, u) /\ u.again = t.again /\ u.step \notin Waiting
  BY <1>2, AdvanceOk
<1>4. tasks' = [tasks EXCEPT ![r] = u]
  BY DEF Api!Goes
<1> HIDE DEF u
<1>5. u.by = t.by /\ u.owned = t.owned /\ TaskOk(u) /\ u.again \in BOOLEAN
  BY <1>3 DEF Keeps, TaskOk, Busy, Shape
<1> QED BY <1>1, <1>2, <1>3, <1>4, <1>5, RequestMoves

\* Nothing of the cache changes.
LEMMA CacheStays ==
  ASSUME ApiInv, UNCHANGED <<stored, reading>>
  PROVE  CacheShrinks
BY DEF ApiInv, CacheShrinks

\* The step of a request tells which kind of step is next.
LEMMA StepOf ==
  ASSUME ApiInv, NEW r \in ApiSlots, tasks[r].step # "free"
  PROVE  Busy(tasks[r]) /\ tasks[r] # Api!Free
<1>1. TaskOk(tasks[r])
  BY DEF ApiInv
<1> QED BY <1>1, FreeOrBusy

\* Steps that await an answer, fail, or leave.
LEMMA AwaitSteps ==
  ASSUME ApiInv, NEW r \in ApiSlots, Api!Awaits(r) \/ Api!Fails(r) \/ Api!Leave(r)
  PROVE  ApiInv'
<1>1. UNCHANGED <<chain, now, deadline, prepared, stored, reading>>
  BY DEF Api!Awaits, Api!Fails, Api!Leave, Api!Quiet, Api!history, Api!cache
<1>2. PreparedOk' /\ CacheShrinks
  BY <1>1, CacheStays DEF ApiInv, PreparedOk
<1>3. CASE Api!Awaits(r)
  <2>1. /\ tasks[r].step \in RouteSteps /\ tasks[r].step # "unique" /\ tasks[r].step # "open"
        /\ Api!Goes(r, Api!Advanced(tasks[r]))
    BY <1>3 DEF Api!Awaits, RouteSteps
  <2> QED BY <1>1, <1>2, <2>1, RequestProceeds
<1>4. CASE Api!Fails(r)
  <2>1. /\ tasks[r].step \notin Waiting \cup {"free"}
        /\ Api!Goes(r, Api!Answered(tasks[r], "error"))
    BY <1>4 DEF Api!Fails, Waiting
  <2>2. "error" \in Codes /\ "error" # "unauthorized"
    BY DEF Codes
  <2> QED BY <1>1, <1>2, <2>1, <2>2, RequestEnds
<1>5. CASE Api!Leave(r)
  <2>1. tasks[r].step \notin Waiting /\ tasks' = [tasks EXCEPT ![r] = Api!Free]
    BY <1>5 DEF Api!Leave, Api!Goes, Waiting
  <2>2. TaskOk(Api!Free) /\ Api!Free.step \notin Waiting
    BY DEF TaskOk, Api!Free, Waiting
  <2> QED BY <1>1, <1>2, <2>1, <2>2, RequestMoves
<1> QED BY <1>3, <1>4, <1>5

\* Steps that look at the deadline, the chain or the switch and go on or end.
LEMMA CheckSteps ==
  ASSUME ApiInv, NEW r \in ApiSlots,
         Api!CheckOpen(r) \/ Api!Mark(r) \/ Api!CheckUnique(r) \/ Api!CheckPaused(r)
  PROVE  ApiInv'
<1> DEFINE t == tasks[r]
<1>1. UNCHANGED <<chain, now, deadline, prepared, stored, reading>>
  BY DEF Api!CheckOpen, Api!Mark, Api!CheckUnique, Api!CheckPaused, Api!Quiet,
         Api!history, Api!cache
<1>2. PreparedOk' /\ CacheShrinks
  BY <1>1, CacheStays DEF ApiInv, PreparedOk
<1>3. t.step \in {"open", "mark", "unique", "paused"}
  BY DEF Api!CheckOpen, Api!Mark, Api!CheckUnique, Api!CheckPaused, Api!At
<1>4. /\ t.step \notin Waiting \cup {"free"} /\ (t.step # "mark" => t.step \in RouteSteps)
      /\ {"expired", "conflict"} \subseteq Codes
  BY <1>3 DEF Waiting, RouteSteps, Codes
<1>5. Busy(t) /\ t # Api!Free
  BY <1>4, StepOf
<1>6. CASE Api!CheckOpen(r) /\ Api!Expired
  <2> DEFINE u == [t EXCEPT !.step = "mark"]
  <2>1. t.step = "open" /\ tasks' = [tasks EXCEPT ![r] = u]
    BY <1>6 DEF Api!CheckOpen, Api!At, Api!Goes
  <2>2. Keeps(t, u) /\ u.again = t.again /\ u.step = "mark" /\ u.todo = t.todo
    BY <1>5 DEF Busy, Shape, Keeps, TaskFields
  <2> HIDE DEF u
  <2>3. "mark" \notin Waiting /\ "mark" \notin Codes /\ "open" \notin Codes
    BY DEF Waiting, Codes
  <2>4. Shape(u) /\ Past(u)
    BY <1>5, <2>2, <2>3 DEF Busy, Shape, Past, Keeps
  <2>5. Saving(u)
    BY <1>5, <2>1, <2>2, <2>3 DEF Busy, Saving, Keeps, CheckAhead
  <2>6. TaskOk(u) /\ u.again \in BOOLEAN /\ u.by = t.by /\ u.owned = t.owned
    BY <2>2, <2>4, <2>5 DEF TaskOk, Busy, Shape, Keeps
  <2> QED BY <1>1, <1>2, <1>4, <1>5, <2>1, <2>2, <2>3, <2>6, RequestMoves
<1>7. CASE Api!CheckOpen(r) /\ ~Api!Expired
  <2>1. t.step = "open" /\ Api!Goes(r, Api!Advanced(t)) /\ ~(deadline <= now)
    BY <1>7 DEF Api!CheckOpen, Api!At, Api!Expired
  <2>2. t.op = "expiration" => ~t.closed
    BY <1>5, <2>1 DEF Busy, Saving
  <2> QED BY <1>1, <1>2, <1>4, <2>1, <2>2, RequestProceeds
<1>8. CASE Api!Mark(r)
  <2>1. Api!Goes(r, Api!Answered(t, "expired"))
    BY <1>8 DEF Api!Mark
  <2> QED BY <1>1, <1>2, <1>4, <2>1, RequestEnds
<1>9. CASE Api!CheckUnique(r) \/ Api!CheckPaused(r)
  <2>1. CASE Api!Goes(r, Api!Answered(t, "conflict"))
    BY <1>1, <1>2, <1>4, <2>1, RequestEnds
  <2>2. CASE Api!Goes(r, Api!Advanced(t)) /\ (Api!CheckUnique(r) => chain.owner = "nobody")
    <3>1. t.step # "mark" /\ t.step # "open"
      BY <1>9 DEF Api!CheckUnique, Api!CheckPaused, Api!At
    <3>2. t.step = "unique" => ~t.existed
      <4>1. t.step = "unique" => Api!CheckUnique(r)
        BY <1>9 DEF Api!CheckPaused, Api!At
      <4> QED BY <1>5, <2>2, <4>1 DEF Busy, Past
    <3> QED BY <1>1, <1>2, <1>4, <2>2, <3>1, <3>2, RequestProceeds
  <2> QED BY <1>9, <2>1, <2>2 DEF Api!CheckUnique, Api!CheckPaused, Api!Exists, Api!Nobody
<1> QED BY <1>6, <1>7, <1>8, <1>9

\* A transaction is prepared for the wallet that asks.
LEMMA PrepareStep ==
  ASSUME ApiInv, NEW r \in ApiSlots, Api!Prepare(r)
  PROVE  ApiInv'
<1> DEFINE t == tasks[r]
<1>1. UNCHANGED <<chain, now, deadline, stored, reading>> /\ t.step = "prepare"
  BY DEF Api!Prepare, Api!Quiet, Api!history, Api!cache, Api!At
<1>2. CacheShrinks
  BY <1>1, CacheStays
<1>3. t.step \in RouteSteps /\ t.step \notin Waiting \cup {"free"} /\ "error" \in Codes
  BY <1>1 DEF RouteSteps, Waiting, Codes
<1>4. t.by \in ApiWallets
  BY <1>3, StepOf DEF Busy, Shape
<1>5. CASE Api!Goes(r, Api!Answered(t, "error")) /\ UNCHANGED prepared
  <2>1. PreparedOk'
    BY <1>5 DEF ApiInv, PreparedOk
  <2> QED BY <1>1, <1>2, <1>3, <1>5, <2>1, RequestEnds
<1>6. CASE /\ prepared' = prepared \cup {[op |-> t.op, by |-> t.by]}
           /\ Api!Goes(r, Api!Advanced(t))
  <2>1. PreparedOk'
    BY <1>4, <1>6 DEF ApiInv, PreparedOk
  <2> QED BY <1>1, <1>2, <1>3, <1>6, <2>1, RequestProceeds
<1> QED BY <1>5, <1>6 DEF Api!Prepare

\* configureProjectExpiration goes on, refuses, or has nothing to save.
LEMMA ConfigureStep ==
  ASSUME ApiInv, NEW r \in ApiSlots, Api!Configure(r)
  PROVE  ApiInv'
<1> DEFINE t == tasks[r]
<1>1. UNCHANGED <<chain, now, deadline, stored, reading, prepared>> /\ t.step = "configure"
  BY DEF Api!Configure, Api!Quiet, Api!history, Api!cache, Api!At
<1>2. CacheShrinks /\ PreparedOk'
  BY <1>1, CacheStays DEF ApiInv, PreparedOk
<1>3. t.step \in RouteSteps /\ t.step \notin Waiting \cup {"free"} /\ "invalid" \in Codes
  BY <1>1 DEF RouteSteps, Waiting, Codes
<1>4. Busy(t) /\ t # Api!Free
  BY <1>3, StepOf
<1>5. CASE Api!Goes(r, Api!Answered(t, "invalid"))
  BY <1>1, <1>2, <1>3, <1>5, RequestEnds
<1>6. CASE Api!Goes(r, Api!Advanced(t))
  BY <1>1, <1>2, <1>3, <1>6, RequestProceeds
<1>7. CASE Api!Goes(r, Api!Advanced([t EXCEPT !.todo = Tail(@)])) /\ t.op = "create"
  <2> DEFINE q == Tail(t.todo)
             x == [t EXCEPT !.todo = q]
             u == Api!Advanced(x)
  <2>0. tasks' = [tasks EXCEPT ![r] = u]
    BY <1>7 DEF Api!Goes
  <2>1. Keeps(t, x) /\ x.again = t.again /\ x.step = t.step /\ x.todo = q
    BY <1>4 DEF Busy, Shape, Keeps, TaskFields
  <2>2. /\ q \in Seq(RouteSteps) /\ Len(q) = Len(t.todo) - 1 /\ Len(t.todo) \in Nat
        /\ \A i \in 1..Len(q) : i + 1 \in 1..Len(t.todo) /\ q[i] = t.todo[i + 1]
    <3>1. t.todo \in Seq(RouteSteps) /\ t.todo # <<>>
      BY <1>1, <1>4 DEF Busy, Shape, Saving
    <3> QED BY <3>1
  <2> HIDE DEF q, x, u
  <2>3. Shape(x) /\ Past(x)
    BY <1>3, <1>4, <2>1, <2>2 DEF Busy, Shape, Past, Keeps
  <2>4. ~t.existed
    <3>1. t.step \notin Codes \cup {"unique"}
      BY <1>1 DEF Codes
    <3> QED BY <1>4, <1>7, <3>1 DEF Busy, Saving
  <2>5. CASE q = <<>>
    <3>1. u = Api!Answered(x, "ok")
      BY <2>1, <2>5 DEF u, Api!Advanced
    <3>2. u = Api!Answered(t, "ok")
      <4>1. [x EXCEPT !.step = "ok", !.todo = <<>>] = [t EXCEPT !.step = "ok", !.todo = <<>>]
        BY <1>4 DEF x, Busy, Shape, TaskFields
      <4> QED BY <3>1, <4>1 DEF Api!Answered
    <3>3. "ok" \in Codes /\ Api!Goes(r, Api!Answered(t, "ok"))
      BY <2>0, <3>2 DEF Codes, Api!Goes
    <3> QED BY <1>1, <1>2, <1>3, <3>3, RequestEnds
  <2>6. CASE q # <<>>
    <3>1. SavesOnce(q)
      <4> DEFINE a == t.todo
      <4>1. SavesOnce(a)
        BY <1>4 DEF Busy, Saving
      <4>2. Len(a) \in Nat /\ Len(q) = Len(a) - 1 /\ \A i \in 1..Len(q) : i + 1 \in 1..Len(a) /\ q[i] = a[i + 1]
        BY <2>2
      <4> HIDE DEF a
      <4> QED BY <4>1, <4>2 DEF SavesOnce
    <3>2. Busy(x)
      BY <1>1, <1>7, <2>1, <2>3, <2>4, <2>6, <3>1 DEF Busy, Saving, Keeps
    <3>3. x.step \in RouteSteps /\ x.step # "unique" /\ x.step # "open"
      BY <1>1, <1>3, <2>1
    <3>4. Busy(u) /\ Keeps(x, u) /\ u.again = x.again /\ u.step \notin Waiting
      BY <3>2, <3>3, AdvanceOk DEF u
    <3>5. TaskOk(u) /\ u.again \in BOOLEAN /\ u.by = t.by /\ u.owned = t.owned
      BY <2>1, <3>4 DEF TaskOk, Busy, Shape, Keeps
    <3> QED BY <1>1, <1>2, <1>3, <1>4, <2>0, <2>1, <3>4, <3>5, RequestMoves
  <2> QED BY <2>5, <2>6
<1> QED BY <1>5, <1>6, <1>7 DEF Api!Configure

\* Entries are dropped after a change.
LEMMA EvictStep ==
  ASSUME ApiInv, NEW r \in ApiSlots, Api!Evict(r)
  PROVE  ApiInv'
<1> DEFINE t == tasks[r]
<1>1. UNCHANGED <<chain, now, deadline, prepared>> /\ t.step \in {"evict", "evictList"}
  BY DEF Api!Evict, Api!Quiet, Api!history, Api!At
<1>2. CacheShrinks
  BY DEF Api!Evict, Api!Evicted, CacheShrinks, ApiInv
<1>3. t.step \in RouteSteps /\ PreparedOk'
  BY <1>1 DEF RouteSteps, ApiInv, PreparedOk
<1> QED BY <1>1, <1>2, <1>3, RequestProceeds DEF Api!Evict

\* A request arrives.
LEMMA ArriveStep ==
  ASSUME ApiInv, NEW r \in ApiSlots, NEW op \in Ops, NEW w \in ApiWallets,
         NEW d \in Deadlines \cup {Api!Never}, Api!Arrive(r, op, w, d)
  PROVE  ApiInv'
<1> DEFINE s == Api!Route[op]
           q == Tail(s)
           u == Api!Request(op, w, d)
<1>1. /\ tasks[r] = Api!Free /\ tasks' = [tasks EXCEPT ![r] = u]
      /\ UNCHANGED <<chain, now, deadline, prepared, stored, reading>>
  BY DEF Api!Arrive, Api!history, Api!cache
<1>2. CacheShrinks /\ PreparedOk'
  BY <1>1, CacheStays DEF ApiInv, PreparedOk
<1>3. /\ DOMAIN u = TaskFields /\ u.step = Head(s) /\ u.todo = q /\ u.op = op /\ u.by = w
      /\ u.expires = d /\ u.again = FALSE /\ u.owned = (chain.owner = w)
      /\ u.closed = (deadline <= now) /\ u.existed = (chain.owner # "nobody")
  BY DEF Api!Request, TaskFields, Api!Expired, Api!Exists, Api!Nobody
<1>4. /\ s \in Seq(RouteSteps) /\ s # <<>> /\ SavesOnce(s)
      /\ op \notin {"create", "expiration"} => NeverSaves(s)
      /\ op = "create" => s[1] = "unique"
      /\ op = "expiration" => Len(s) > 1 /\ s[1] = "owner" /\ s[2] = "open"
  BY Routes
<1> HIDE DEF s, u
<1>5. /\ q \in Seq(RouteSteps) /\ Len(q) = Len(s) - 1 /\ Len(s) \in Nat /\ Len(s) >= 1
      /\ \A i \in 1..Len(q) : i + 1 \in 1..Len(s) /\ q[i] = s[i + 1]
      /\ Head(s) = s[1] /\ s[1] \in RouteSteps
  BY <1>4
<1> HIDE DEF q
<1>6. u.step \notin Waiting /\ u.step \notin Codes
  BY <1>3, <1>5, StepKinds
<1>7. d \in Nat
  BY ApiAssumption DEF Api!Never
<1>8. Shape(u) /\ Past(u)
  <2>1. u.again \in BOOLEAN /\ u.owned \in BOOLEAN /\ u.closed \in BOOLEAN /\ u.existed \in BOOLEAN
    <3>1. u.again \in BOOLEAN /\ u.owned \in BOOLEAN
      BY <1>3
    <3>2. u.closed \in BOOLEAN
      BY <1>3
    <3>3. u.existed \in BOOLEAN
      BY <1>3
    <3> QED BY <3>1, <3>2, <3>3
  <2>2. /\ u.step \in RouteSteps \cup Waiting \cup Codes \cup {"mark"}
        /\ u.todo \in Seq(RouteSteps) /\ u.by \in ApiWallets /\ u.expires \in Nat
    BY <1>3, <1>5, <1>7
  <2>3. Shape(u)
    BY <1>3, <1>6, <2>1, <2>2, Zenon DEF Shape
  <2>4. /\ u.owned => chain.owner = u.by
        /\ u.existed => chain.owner # "nobody"
    BY <1>3, Zenon
  <2>5. u.step # "unauthorized"
    BY <1>6 DEF Codes
  <2> QED BY <2>3, <2>4, <2>5, Zenon DEF Past
<1>9. SavesOnce(q) /\ (s[1] = "save" => Len(q) = 1) /\ (s[1] = "configure" => q # <<>>)
  <2>1. SavesOnce(q)
    BY <1>4, <1>5 DEF SavesOnce
  <2>2. 1 \in 1..Len(s)
    BY <1>5
  <2>3. (s[1] = "save" => Len(q) = 1) /\ (s[1] = "configure" => Len(q) # 0)
    BY <1>4, <1>5, <2>2 DEF SavesOnce
  <2>4. Len(<<>>) = 0
    OBVIOUS
  <2> QED BY <2>1, <2>3, <2>4
<1>10. NeverSaves(s) => s[1] \notin {"save", "configure"} /\ NeverSaves(q)
  <2>1. 1 \in 1..Len(s)
    BY <1>5
  <2> QED BY <1>5, <2>1 DEF NeverSaves
<1>11. op = "expiration" => CheckAhead(u)
  <2>1. op = "expiration" => 1 \in 1..Len(q) /\ q # <<>>
    BY <1>4, <1>5
  <2> QED BY <1>3, <1>4, <1>5, <2>1 DEF CheckAhead
<1>12. Saving(u)
  BY <1>3, <1>4, <1>5, <1>9, <1>10, <1>11 DEF Saving
<1>13. TaskOk(u) /\ ~u.again
  BY <1>3, <1>8, <1>12 DEF TaskOk, Busy
<1>14. tasks[r].step \notin Waiting
  BY <1>1 DEF Api!Free, Waiting
<1> QED BY <1>1, <1>2, <1>6, <1>13, <1>14, RequestMoves

\* A request finds what it needs in the cache.
LEMMA HitStep ==
  ASSUME ApiInv, NEW r \in ApiSlots, Api!Hit(r)
  PROVE  ApiInv'
<1> DEFINE t == tasks[r]
           k == Api!KeyOf(t.step)
           v == stored[k]
           u == Api!Given(t, v)
<1>1. /\ UNCHANGED <<chain, now, deadline, prepared>> /\ t.step \in Api!Reads /\ v # Api!Miss
      /\ tasks' = [tasks EXCEPT ![r] = u]
      /\ IF Api!LooksAgain(r, u) THEN Api!Evicted({k}) ELSE UNCHANGED <<stored, reading>>
  BY DEF Api!Hit, Api!Quiet, Api!history, Api!cache, Api!Goes
<1>2. t.step \in RouteSteps /\ t.step \notin Waiting /\ t.step # "free" /\ k \in Api!Keys
  BY <1>1, StepKinds DEF Api!KeyOf, Api!Keys
<1>3. Busy(t) /\ t # Api!Free
  BY <1>2, StepOf
<1>4. t.step = "owner" => k = "project"
  BY DEF Api!KeyOf
<1>5. t.step = "owner" /\ t.again /\ t.owned => v.owner = t.by
  BY <1>1, <1>3, <1>4 DEF ApiInv, Trusts
<1>6. /\ Busy(u) /\ Keeps(t, u) /\ u.step \notin Waiting /\ (t.again => u.again)
      /\ (u.again /\ ~t.again => u.step = "owner" /\ t.step = "owner")
  BY <1>1, <1>3, <1>5, GivenOk
<1> HIDE DEF u, v, k
<1>7. /\ TaskOk(u) /\ u.by = t.by /\ u.owned = t.owned
      /\ u.again \in BOOLEAN /\ t.again \in BOOLEAN
  BY <1>3, <1>6 DEF TaskOk, Busy, Shape, Keeps
<1>8. CacheShrinks /\ PreparedOk'
  <2>1. CacheShrinks
    BY <1>1, CacheStays DEF Api!Evicted, CacheShrinks, ApiInv
  <2> QED BY <1>1, <2>1 DEF ApiInv, PreparedOk
<1>9. CASE ~u.again \/ t.again
  BY <1>1, <1>2, <1>3, <1>6, <1>7, <1>8, <1>9, RequestMoves
<1>10. CASE u.again /\ ~t.again
  <2>1. Api!LooksAgain(r, u) /\ k = "project"
    BY <1>4, <1>6, <1>10 DEF Api!LooksAgain
  <2>2. stored'["project"] = Api!Miss /\ reading'["project"] = "none"
    BY <1>1, <1>2, <2>1 DEF Api!Evicted
  <2> QED BY <1>1, <1>2, <1>6, <1>7, <1>8, <2>2, RequestMoves
<1> QED BY <1>7, <1>9, <1>10

-----------------------------------------------------------------------------
(* Requests that begin and end a fetch.                                    *)

\* A request begins to wait: it joins the current fetch, or becomes it.
LEMMA WaitBegins ==
  ASSUME ApiInv, NEW r \in ApiSlots, NEW u, tasks' = [tasks EXCEPT ![r] = u],
         UNCHANGED <<chain, now, deadline, stored, prepared>>,
         tasks[r] # Api!Free, tasks[r].step \notin Waiting, Busy(u), Keeps(tasks[r], u),
         u.again = tasks[r].again, DOMAIN reading' = Api!Keys,
         \A k \in Api!Keys : \/ reading'[k] = reading[k]
                             \/ reading'[k] = r /\ u.step = "fetched" /\ Key(u) = k,
         u.step # "balance",
         u.step = "join" => reading[Key(u)] # "none" /\ u.got = reading[Key(u)]
  PROVE  ApiInv'
<1>0. "project" \in Api!Keys /\ Key(u) \in Api!Keys
  BY DEF Api!Keys, Key, Api!KeyOf
<1>1. /\ DOMAIN tasks = ApiSlots /\ DOMAIN tasks' = ApiSlots /\ tasks'[r] = u
      /\ \A x \in ApiSlots : x # r => tasks'[x] = tasks[x]
  BY DEF ApiInv
<1>2. \A x \in ApiSlots : Fetching(tasks[x]) => x # r /\ tasks'[x] = tasks[x]
  BY <1>1 DEF Fetching, Waiting
<1>3. ChainOk' /\ ClockOk' /\ StoredOk' /\ PreparedOk' /\ DOMAIN stored' = Api!Keys
  BY DEF ApiInv, ChainOk, ClockOk, StoredOk, PreparedOk
<1>4. ASSUME NEW k \in Api!Keys PROVE ReadingOk(k)'
  <2>1. CASE reading'[k] = reading[k]
    <3>1. ReadingOk(k)
      BY DEF ApiInv
    <3> QED BY <1>2, <2>1, <3>1 DEF ReadingOk
  <2>2. CASE reading'[k] = r /\ u.step = "fetched" /\ Key(u) = k
    BY <1>1, <2>2 DEF ReadingOk, Fetching
  <2> QED BY <2>1, <2>2
<1>5. \A t : TaskOk(t) => TaskOk(t)'
  BY DEF TaskOk, Busy, Past, Saving
<1>6. ASSUME NEW w, reading["project"] # "none" => Names(tasks[reading["project"]], w)
      PROVE  reading'["project"] # "none" => Names(tasks[reading["project"]], w)'
  <2>1. CASE reading'["project"] = reading["project"]
    <3>1. ReadingOk("project")
      BY <1>0 DEF ApiInv
    <3> QED BY <1>2, <1>6, <2>1, <3>1 DEF ReadingOk, Names
  <2>2. CASE reading'["project"] = r /\ u.step = "fetched"
    BY <1>1, <2>2 DEF Names
  <2> QED BY <1>0, <2>1, <2>2
<1>7. ASSUME NEW x \in ApiSlots, x # r
      PROVE  TaskOk(tasks[x])' /\ JoinOk(tasks[x])' /\ GotOk(tasks[x])' /\ Trusts(tasks[x])'
  <2>1. tasks'[x] = tasks[x] /\ TaskOk(tasks[x]) /\ JoinOk(tasks[x]) /\ GotOk(tasks[x]) /\ Trusts(tasks[x])
    BY <1>1, <1>7 DEF ApiInv
  <2>2. TaskOk(tasks[x])' /\ GotOk(tasks[x])'
    BY <2>1 DEF GotOk, TaskOk, Busy, Past, Saving
  <2>3. JoinOk(tasks[x])'
    BY <1>2, <2>1 DEF JoinOk
  <2>4. tasks[x].step = "join" => tasks'[tasks[x].got] = tasks[tasks[x].got]
    BY <1>2, <2>1 DEF JoinOk
  <2>5. Trusts(tasks[x])'
    BY <1>6, <2>1, <2>4 DEF Trusts, Names
  <2> QED BY <2>2, <2>3, <2>5
<1>8. u.step = "join" => /\ u.got \in ApiSlots /\ Fetching(tasks[u.got]) /\ Key(tasks[u.got]) = Key(u)
                         /\ tasks'[u.got] = tasks[u.got]
  <2>1. ReadingOk(Key(u))
    BY <1>0 DEF ApiInv
  <2> QED BY <1>2, <2>1 DEF ReadingOk
<1>9. TaskOk(tasks[r])' /\ JoinOk(tasks[r])' /\ GotOk(tasks[r])'
  <2>1. TaskOk(u)'
    BY <1>5 DEF TaskOk
  <2> QED BY <1>1, <1>8, <2>1 DEF JoinOk, GotOk
<1>10. Trusts(tasks[r])'
  <2> SUFFICES ASSUME u # Api!Free, u.again, u.owned PROVE Trusts(u)'
    BY <1>1 DEF Trusts
  <2>1. tasks[r].again /\ tasks[r].owned /\ u.by = tasks[r].by
    BY DEF Keeps
  <2>2. /\ stored["project"] # Api!Miss => stored["project"].owner = u.by
        /\ reading["project"] # "none" => Names(tasks[reading["project"]], u.by)
    BY <2>1 DEF ApiInv, Trusts
  <2>3. reading'["project"] # "none" => Names(tasks[reading["project"]], u.by)'
    BY <1>6, <2>2
  <2>4. u.step = "join" /\ Key(u) = "project" => Names(tasks[u.got], u.by)'
    BY <1>8, <2>2 DEF Names
  <2> QED BY <2>2, <2>3, <2>4 DEF Trusts, Names
<1> QED BY <1>1, <1>3, <1>4, <1>7, <1>9, <1>10 DEF ApiInv

\* getCachedOrFetch finds no entry.
LEMMA MissStep ==
  ASSUME ApiInv, NEW r \in ApiSlots, Api!Join(r) \/ Api!Fetch(r)
  PROVE  ApiInv'
<1> DEFINE t == tasks[r]
           k == Api!KeyOf(t.step)
<1>1. UNCHANGED <<chain, now, deadline, stored, prepared>> /\ t.step \in Api!Reads
  BY DEF Api!Join, Api!Fetch, Api!Quiet, Api!history, Api!cache
<1>2. t.step \notin Waiting /\ t.step # "free" /\ k \in Api!Keys
  BY <1>1, StepKinds DEF Api!KeyOf, Api!Keys
<1>3. Busy(t) /\ t # Api!Free
  BY <1>2, StepOf
<1>4. CASE Api!Join(r)
  <2> DEFINE g == reading[k]
             u == [t EXCEPT !.step = "join", !.got = g, !.todo = <<t.step>> \o t.todo]
  <2>1. tasks' = [tasks EXCEPT ![r] = u] /\ reading' = reading /\ g # "none"
    BY <1>4 DEF Api!Join, Api!Goes, Api!cache
  <2>2. "join" \in Waiting
    BY DEF Waiting
  <2> DEFINE q == <<t.step>> \o t.todo
  <2>3. Keeps(t, u) /\ u.again = t.again /\ u.step = "join" /\ u.got = g /\ u.todo = q
    BY <1>3 DEF Busy, Shape, Keeps, TaskFields
  <2> HIDE DEF u
  <2>4. Busy(u) /\ u.todo[1] = t.step
    BY <1>1, <1>3, <2>2, <2>3, WaitOk
  <2> HIDE DEF q
  <2>5. Key(u) = k
    BY <2>4 DEF Key
  <2>6. DOMAIN reading' = Api!Keys
    BY <2>1 DEF ApiInv
  <2> QED BY <1>1, <1>2, <1>3, <2>1, <2>3, <2>5, <2>6, <2>4, WaitBegins
<1>5. CASE Api!Fetch(r)
  <2> DEFINE u == [t EXCEPT !.step = "fetched", !.got = Api!Miss, !.todo = <<t.step>> \o t.todo]
  <2>1. tasks' = [tasks EXCEPT ![r] = u] /\ reading' = [reading EXCEPT ![k] = r]
    BY <1>5 DEF Api!Fetch, Api!Goes
  <2>2. "fetched" \in Waiting
    BY DEF Waiting
  <2> DEFINE q == <<t.step>> \o t.todo
  <2>3. Keeps(t, u) /\ u.again = t.again /\ u.step = "fetched" /\ u.todo = q
    BY <1>3 DEF Busy, Shape, Keeps, TaskFields
  <2> HIDE DEF u
  <2>4. Busy(u) /\ u.todo[1] = t.step
    BY <1>1, <1>3, <2>2, <2>3, WaitOk
  <2> HIDE DEF q
  <2>5. Key(u) = k
    BY <2>4 DEF Key
  <2>6. /\ DOMAIN reading' = Api!Keys
        /\ \A j \in Api!Keys : reading'[j] = reading[j] \/ (reading'[j] = r /\ j = k)
    BY <1>2, <2>1 DEF ApiInv
  <2> QED BY <1>1, <1>2, <1>3, <2>1, <2>3, <2>5, <2>6, <2>4, WaitBegins
<1> QED BY <1>4, <1>5

\* The first simulation of a fetch is answered.
LEMMA ReadProjectStep ==
  ASSUME ApiInv, NEW r \in ApiSlots, Api!ReadProject(r)
  PROVE  ApiInv'
<1> DEFINE t == tasks[r]
           g == [owner |-> chain.owner, out |-> chain.out]
           u == [t EXCEPT !.step = "balance", !.got = g]
<1>1. /\ UNCHANGED <<chain, now, deadline, stored, reading, prepared>> /\ t.step = "fetched"
      /\ tasks' = [tasks EXCEPT ![r] = u]
  BY DEF Api!ReadProject, Api!Quiet, Api!history, Api!cache, Api!At, Api!Goes
<1>2. Busy(t) /\ t # Api!Free
  BY <1>1, StepOf
<1>3. Keeps(t, u) /\ u.again = t.again /\ u.step = "balance" /\ u.todo = t.todo /\ u.got = g
  BY <1>2 DEF Busy, Shape, Keeps, TaskFields
<1>4. DOMAIN g = {"owner", "out"} /\ g.owner = chain.owner /\ g.out = chain.out
  OBVIOUS
<1> HIDE DEF u, g
<1>5. Busy(u)
  <2>1. {"fetched", "balance"} \subseteq Waiting /\ "balance" \notin Codes /\ "fetched" \notin Codes
    BY DEF Waiting, Codes
  <2>2. Shape(u) /\ Past(u)
    BY <1>1, <1>2, <1>3, <2>1 DEF Busy, Shape, Past, Keeps
  <2>3. Saving(u)
    BY <1>1, <1>2, <1>3, <2>1 DEF Busy, Saving, Keeps, CheckAhead
  <2> QED BY <2>2, <2>3 DEF Busy
<1>6. /\ DOMAIN tasks = ApiSlots /\ DOMAIN tasks' = ApiSlots /\ tasks'[r] = u
      /\ \A x \in ApiSlots : x # r => tasks'[x] = tasks[x]
  BY <1>1 DEF ApiInv
<1>7. \A x \in ApiSlots : Fetching(tasks[x]) => Fetching(tasks'[x]) /\ Key(tasks'[x]) = Key(tasks[x])
  BY <1>3, <1>6 DEF Fetching, Key
<1>8. ChainOk' /\ ClockOk' /\ StoredOk' /\ PreparedOk' /\ DOMAIN stored' = Api!Keys /\ DOMAIN reading' = Api!Keys
  BY <1>1 DEF ApiInv, ChainOk, ClockOk, StoredOk, PreparedOk
<1>9. ASSUME NEW k \in Api!Keys PROVE ReadingOk(k)'
  <2>1. ReadingOk(k)
    BY DEF ApiInv
  <2> QED BY <1>1, <1>7, <2>1 DEF ReadingOk
<1>10. ASSUME NEW x \in ApiSlots
       PROVE  TaskOk(tasks[x])' /\ JoinOk(tasks[x])' /\ GotOk(tasks[x])' /\ Trusts(tasks[x])'
  <2> DEFINE a == tasks[x]
             b == tasks'[x]
  <2>1. /\ (b = a /\ x # r) \/ (x = r /\ b = u /\ a = t)
        /\ TaskOk(a) /\ JoinOk(a) /\ GotOk(a) /\ Trusts(a)
    BY <1>6 DEF ApiInv
  <2>2. TaskOk(a)'
    <3>1. TaskOk(b)
      BY <1>5, <2>1 DEF TaskOk
    <3> QED BY <1>1, <3>1 DEF TaskOk, Busy, Past, Saving
  <2>3. JoinOk(a)'
    <3>1. CASE x = r
      BY <1>3, <2>1, <3>1 DEF JoinOk
    <3>2. CASE x # r
      BY <1>7, <2>1, <3>2 DEF JoinOk
    <3> QED BY <3>1, <3>2
  <2>4. GotOk(a)'
    <3>1. CASE x = r
      BY <1>1, <1>3, <1>4, <2>1, <3>1 DEF GotOk, ApiInv, ChainOk
    <3>2. CASE x # r
      BY <1>1, <2>1, <3>2 DEF GotOk
    <3> QED BY <3>1, <3>2
  <2>5. Trusts(a)'
    <3> SUFFICES ASSUME b # Api!Free, b.again, b.owned PROVE Trusts(a)'
      BY DEF Trusts
    <3>1. a # Api!Free /\ a.again /\ a.owned /\ b.by = a.by
      BY <1>2, <1>3, <2>1 DEF Keeps
    <3>2. a.by = chain.owner
      BY <2>1, <3>1 DEF TaskOk, Busy, Past
    <3>3. ASSUME NEW y \in ApiSlots, Names(tasks[y], a.by) PROVE Names(tasks'[y], a.by)
      BY <1>3, <1>4, <1>6, <3>2, <3>3 DEF Names
    <3>4. stored["project"] # Api!Miss => stored["project"].owner = a.by
      BY <2>1, <3>1 DEF Trusts
    <3>5. reading["project"] # "none" => Names(tasks'[reading["project"]], a.by)
      <4>1. ReadingOk("project")
        BY DEF ApiInv, Api!Keys
      <4> QED BY <2>1, <3>1, <3>3, <4>1 DEF Trusts, ReadingOk
    <3>6. b.step = "join" /\ Key(b) = "project" => Names(tasks'[b.got], a.by)
      BY <1>3, <2>1, <3>1, <3>3 DEF Trusts, JoinOk
    <3>7. Names(b, a.by)
      BY <2>1, <3>1, <3>3 DEF Trusts
    <3> QED BY <1>1, <3>1, <3>4, <3>5, <3>6, <3>7 DEF Trusts, Names
  <2> QED BY <2>2, <2>3, <2>4, <2>5
<1> QED BY <1>6, <1>8, <1>9, <1>10 DEF ApiInv

\* The request r and those that joined its fetch.
Waits(r, x) == x = r \/ (tasks[x].step = "join" /\ tasks[x].got = r)

\* A fetch is over.  Whoever waited goes on, the others do not notice; what is
\* cached now names the wallet of everybody who has looked past the cache.
LEMMA FetchEnds ==
  ASSUME ApiInv, NEW r \in ApiSlots, Fetching(tasks[r]),
         UNCHANGED <<chain, now, deadline, prepared>>,
         DOMAIN tasks' = ApiSlots, DOMAIN stored' = Api!Keys, DOMAIN reading' = Api!Keys,
         \A x \in ApiSlots : ~Waits(r, x) => tasks'[x] = tasks[x],
         \A x \in ApiSlots : Waits(r, x) =>
           /\ Busy(tasks'[x]) /\ Keeps(tasks[x], tasks'[x]) /\ tasks'[x].step \notin Waiting
           /\ \/ tasks'[x].again = tasks[x].again
              \/ stored'["project"] = Api!Miss /\ reading'["project"] = "none",
         \A k \in Api!Keys : reading'[k] \in {reading[k], "none"} /\ reading'[k] # r,
         StoredOk',
         \A x \in ApiSlots :
           tasks[x] # Api!Free /\ tasks[x].again /\ tasks[x].owned /\ stored'["project"] # Api!Miss
             => stored'["project"].owner = tasks[x].by
  PROVE  ApiInv'
<1>0. "project" \in Api!Keys
  BY DEF Api!Keys
<1>1. ChainOk' /\ ClockOk' /\ PreparedOk'
  BY DEF ApiInv, ChainOk, ClockOk, PreparedOk
<1>2. \A x \in ApiSlots : Fetching(tasks[x]) /\ x # r => tasks'[x] = tasks[x]
  BY DEF Waits, Fetching
<1>3. ASSUME NEW k \in Api!Keys PROVE ReadingOk(k)'
  <2>1. ReadingOk(k)
    BY DEF ApiInv
  <2> QED BY <1>2, <2>1 DEF ReadingOk
<1>4. \A t : TaskOk(t) => TaskOk(t)'
  BY DEF TaskOk, Busy, Past, Saving
<1>5. ASSUME NEW w, reading["project"] # "none" => Names(tasks[reading["project"]], w)
      PROVE  reading'["project"] # "none" => Names(tasks'[reading'["project"]], w)
  <2>1. ReadingOk("project")
    BY <1>0 DEF ApiInv
  <2> QED BY <1>0, <1>2, <1>5, <2>1 DEF ReadingOk, Names
<1>6. ASSUME NEW x \in ApiSlots, ~Waits(r, x)
      PROVE  TaskOk(tasks[x])' /\ JoinOk(tasks[x])' /\ GotOk(tasks[x])' /\ Trusts(tasks[x])'
  <2>1. tasks'[x] = tasks[x] /\ TaskOk(tasks[x]) /\ JoinOk(tasks[x]) /\ GotOk(tasks[x]) /\ Trusts(tasks[x])
    BY <1>6 DEF ApiInv
  <2>2. TaskOk(tasks[x])' /\ GotOk(tasks[x])'
    BY <2>1 DEF GotOk, TaskOk, Busy, Past, Saving
  <2>3. tasks[x].step = "join" => tasks'[tasks[x].got] = tasks[tasks[x].got]
    BY <1>2, <1>6, <2>1 DEF JoinOk, Waits
  <2>4. JoinOk(tasks[x])'
    BY <2>1, <2>3 DEF JoinOk
  <2>5. Trusts(tasks[x])'
    BY <1>5, <2>1, <2>3 DEF Trusts, Names
  <2> QED BY <2>2, <2>4, <2>5
<1>7. ASSUME NEW x \in ApiSlots, Waits(r, x)
      PROVE  TaskOk(tasks[x])' /\ JoinOk(tasks[x])' /\ GotOk(tasks[x])' /\ Trusts(tasks[x])'
  <2> DEFINE b == tasks'[x]
  <2>1. /\ Busy(b) /\ Keeps(tasks[x], b) /\ b.step \notin Waiting
        /\ \/ b.again = tasks[x].again
           \/ stored'["project"] = Api!Miss /\ reading'["project"] = "none"
    BY <1>7
  <2>2. Trusts(tasks[x]) /\ tasks[x].step \in Waiting
    BY <1>7 DEF ApiInv, Waits, Fetching, Waiting
  <2>3. tasks[x] # Api!Free
    BY <2>2 DEF Api!Free, Waiting
  <2>4. TaskOk(tasks[x])'
    <3>1. TaskOk(b)
      BY <2>1 DEF TaskOk
    <3> QED BY <3>1 DEF TaskOk, Busy, Past, Saving
  <2>5. b.step # "join" /\ b.step # "balance"
    BY <2>1 DEF Waiting
  <2>6. JoinOk(tasks[x])' /\ GotOk(tasks[x])'
    BY <2>5 DEF JoinOk, GotOk
  <2>7. ASSUME b.again, b.owned
        PROVE  /\ stored'["project"] # Api!Miss => stored'["project"].owner = b.by
               /\ reading'["project"] # "none" => Names(tasks'[reading'["project"]], b.by)
    <3>1. CASE stored'["project"] = Api!Miss /\ reading'["project"] = "none"
      BY <3>1
    <3>2. CASE b.again = tasks[x].again
      <4>1. tasks[x].again /\ tasks[x].owned /\ b.by = tasks[x].by
        BY <2>1, <2>7, <3>2 DEF Keeps
      <4>2. reading["project"] # "none" => Names(tasks[reading["project"]], b.by)
        BY <2>2, <2>3, <4>1 DEF Trusts
      <4>3. reading'["project"] # "none" => Names(tasks'[reading'["project"]], b.by)
        <5> DEFINE w == b.by
        <5>1. reading["project"] # "none" => Names(tasks[reading["project"]], w)
          BY <4>2
        <5> HIDE DEF w
        <5>2. reading'["project"] # "none" => Names(tasks'[reading'["project"]], w)
          BY <1>5, <5>1
        <5> QED BY <5>2 DEF w
      <4> QED BY <2>3, <4>1, <4>3
    <3> QED BY <2>1, <3>1, <3>2
  <2>8. Trusts(tasks[x])'
    BY <2>5, <2>7 DEF Trusts, Names
  <2> QED BY <2>4, <2>6, <2>8
<1> QED BY <1>1, <1>3, <1>6, <1>7 DEF ApiInv

\* A fetch fails.
LEMMA FetchFailsStep ==
  ASSUME ApiInv, NEW r \in ApiSlots, Api!FetchFails(r)
  PROVE  ApiInv'
<1>1. /\ UNCHANGED <<chain, now, deadline, prepared, stored>> /\ Fetching(tasks[r])
      /\ DOMAIN tasks' = ApiSlots /\ DOMAIN reading' = Api!Keys /\ DOMAIN stored' = Api!Keys
  BY DEF Api!FetchFails, Api!Quiet, Api!history, Api!At, Fetching, ApiInv
<1>2. \A x \in ApiSlots : ~Waits(r, x) => tasks'[x] = tasks[x]
  BY DEF Api!FetchFails, Waits, Api!At
<1>3. ASSUME NEW x \in ApiSlots, Waits(r, x)
      PROVE  /\ Busy(tasks'[x]) /\ Keeps(tasks[x], tasks'[x]) /\ tasks'[x].step \notin Waiting
             /\ tasks'[x].again = tasks[x].again
  <2> DEFINE t == tasks[x]
             y == [t EXCEPT !.got = Api!Miss]
             u == Api!Answered(y, "error")
  <2>1. tasks'[x] = u
    BY <1>3 DEF Api!FetchFails, Waits, Api!At
  <2>2. t.step # "free"
    BY <1>1, <1>3 DEF Waits, Fetching
  <2>3. Busy(t)
    BY <2>2, StepOf
  <2>4. DOMAIN t = TaskFields
    BY <2>3 DEF Busy, Shape
  <2>5. u = Api!Answered(t, "error") \/ (Keeps(t, y) /\ y.again = t.again /\ y.step = t.step /\ y.todo = t.todo)
    BY <2>4 DEF Keeps, TaskFields
  <2> HIDE DEF y, u
  <2>6. "error" \in Codes /\ "error" # "unauthorized" /\ "error" \notin Waiting
    BY DEF Codes, Waiting
  <2>7. CASE Keeps(t, y) /\ y.again = t.again /\ y.step = t.step /\ y.todo = t.todo
    <3>1. Busy(y)
      BY <2>3, <2>7 DEF Busy, Shape, Past, Saving, Keeps, CheckAhead
    <3>2. Busy(u) /\ Keeps(y, u) /\ u.again = y.again /\ u.step = "error"
      BY <2>6, <3>1, AnswerOk DEF u
    <3>3. Keeps(t, u)
      BY <2>7, <3>2 DEF Keeps
    <3> QED BY <2>1, <2>6, <2>7, <3>2, <3>3
  <2>8. CASE u = Api!Answered(t, "error")
    BY <2>1, <2>3, <2>6, <2>8, AnswerOk
  <2> QED BY <2>5, <2>7, <2>8
<1>4. \A k \in Api!Keys : reading'[k] \in {reading[k], "none"} /\ reading'[k] # r
  BY ApiAssumption DEF Api!FetchFails
<1>5. StoredOk'
  BY <1>1 DEF ApiInv, StoredOk
<1>6. \A x \in ApiSlots :
        tasks[x] # Api!Free /\ tasks[x].again /\ tasks[x].owned /\ stored'["project"] # Api!Miss
          => stored'["project"].owner = tasks[x].by
  BY <1>1 DEF ApiInv, Trusts
<1> QED BY <1>1, <1>2, <1>3, <1>4, <1>5, <1>6, FetchEnds

\* An entry's time to live is over.
LEMMA ExpireStep ==
  ASSUME ApiInv, NEW k \in Api!Keys, Api!ExpireEntry(k)
  PROVE  ApiInv'
<1>1. /\ UNCHANGED <<chain, now, deadline, reading, tasks, prepared>>
      /\ DOMAIN stored' = Api!Keys /\ stored'["project"] \in {stored["project"], Api!Miss}
  BY DEF Api!ExpireEntry, Api!history, ApiInv, Api!Keys
<1>2. ChainOk' /\ ClockOk' /\ PreparedOk' /\ StoredOk'
  BY <1>1 DEF ApiInv, ChainOk, ClockOk, PreparedOk, StoredOk
<1>3. \A j \in Api!Keys : ReadingOk(j)'
  BY <1>1 DEF ApiInv, ReadingOk
<1>4. ASSUME NEW x \in ApiSlots
      PROVE  TaskOk(tasks[x])' /\ JoinOk(tasks[x])' /\ GotOk(tasks[x])' /\ Trusts(tasks[x])'
  <2>1. TaskOk(tasks[x]) /\ JoinOk(tasks[x]) /\ GotOk(tasks[x]) /\ Trusts(tasks[x])
    BY DEF ApiInv
  <2>2. TaskOk(tasks[x])'
    BY <1>1, <2>1 DEF TaskOk, Busy, Past, Saving
  <2>3. JoinOk(tasks[x])' /\ GotOk(tasks[x])'
    BY <1>1, <2>1 DEF JoinOk, GotOk
  <2>4. Trusts(tasks[x])'
    BY <1>1, <2>1 DEF Trusts, Names
  <2> QED BY <2>2, <2>3, <2>4
<1> QED BY <1>1, <1>2, <1>3, <1>4 DEF ApiInv

\* The second simulation is answered and the fetch is over.
LEMMA ReadBalanceStep ==
  ASSUME ApiInv, NEW r \in ApiSlots, Api!ReadBalance(r)
  PROVE  ApiInv'
<1> DEFINE t == tasks[r]
           k == Key(t)
           v == [owner |-> t.got.owner, out |-> t.got.out,
                 balance |-> IF k = "list" THEN 0 ELSE chain.paid - chain.out]
           back(x) == [tasks[x] EXCEPT !.step = Head(tasks[x].todo),
                                       !.todo = Tail(tasks[x].todo), !.got = Api!Miss]
           next(x) == Api!Given(back(x), v)
           again == \E x \in ApiSlots : Waits(r, x) /\ Api!LooksAgain(x, tasks'[x])
<1>1. UNCHANGED <<chain, now, deadline, prepared>> /\ t.step = "balance"
  BY DEF Api!ReadBalance, Api!Quiet, Api!history, Api!At
<1>2. Busy(t) /\ t # Api!Free /\ Fetching(t)
  BY <1>1, StepOf DEF Fetching
<1>3. /\ DOMAIN t.got = {"owner", "out"} /\ t.got.out \in Nat /\ t.got.out <= chain.out
      /\ chain.paid \in Nat /\ chain.out \in Nat /\ chain.out <= chain.paid
  BY <1>1 DEF ApiInv, GotOk, ChainOk
<1>4. Head(t.todo) = t.todo[1]
  <2>1. t.todo \in Seq(RouteSteps) /\ t.todo # <<>>
    BY <1>1, <1>2 DEF Busy, Shape, Waiting
  <2> QED BY <2>1
<1>5. Api!Completes(r, k, v)
  <2>1. "balance" \notin {"owner", "out"} /\ Api!KeyOf(Head(t.todo)) = k
    BY <1>4 DEF Key
  <2> QED BY <1>3, <2>1 DEF Api!ReadBalance
<1>6. k \in Api!Keys /\ "project" \in Api!Keys
  BY DEF Key, Api!KeyOf, Api!Keys
<1>7. DOMAIN stored = Api!Keys /\ DOMAIN reading = Api!Keys /\ DOMAIN tasks = ApiSlots
  BY DEF ApiInv
<1>8. tasks' = [x \in ApiSlots |-> IF Waits(r, x) THEN next(x) ELSE tasks[x]]
  BY <1>5 DEF Api!Completes, Waits, Api!At
<1>9. /\ stored' = [j \in Api!Keys |-> IF again /\ j = k THEN Api!Miss
                                        ELSE IF j = k /\ reading[k] = r THEN v ELSE stored[j]]
      /\ reading' = [j \in Api!Keys |-> IF again /\ j = k THEN "none"
                                         ELSE IF j = k /\ reading[k] = r THEN "none" ELSE reading[j]]
  <2> DEFINE kept == [stored EXCEPT ![k] = IF reading[k] = r THEN v ELSE @]
             over == [reading EXCEPT ![k] = IF @ = r THEN "none" ELSE @]
             on(x) == x = r \/ (Api!At(x, "join") /\ tasks[x].got = r)
             nx == [x \in ApiSlots |-> IF on(x) THEN next(x) ELSE tasks[x]]
             more == \E x \in ApiSlots : on(x) /\ Api!LooksAgain(x, nx[x])
  <2>0. tasks' = nx
    BY <1>5 DEF Api!Completes
  <2>1. /\ stored' = [j \in Api!Keys |-> IF more /\ j = k THEN Api!Miss ELSE kept[j]]
        /\ reading' = [j \in Api!Keys |-> IF more /\ j = k THEN "none" ELSE over[j]]
    BY <1>5 DEF Api!Completes
  <2> HIDE DEF nx
  <2>2. more <=> again
    BY <2>0 DEF Waits, Api!At
  <2>3. \A j \in Api!Keys : /\ kept[j] = IF j = k /\ reading[k] = r THEN v ELSE stored[j]
                            /\ over[j] = IF j = k /\ reading[k] = r THEN "none" ELSE reading[j]
    BY <1>6, <1>7
  <2> HIDE DEF kept, over, more, again, v, k
  <2> QED BY <2>1, <2>2, <2>3
<1>10. v.owner = t.got.owner /\ v.out = t.got.out
       /\ v.balance = IF k = "list" THEN 0 ELSE chain.paid - chain.out
  OBVIOUS
<1> HIDE DEF v, k, again
<1>11. ASSUME NEW x \in ApiSlots, Waits(r, x)
       PROVE  /\ Busy(tasks'[x]) /\ Keeps(tasks[x], tasks'[x]) /\ tasks'[x].step \notin Waiting
              /\ \/ tasks'[x].again = tasks[x].again
                 \/ stored'["project"] = Api!Miss /\ reading'["project"] = "none"
  <2> DEFINE s == tasks[x]
             y == back(x)
             u == Api!Given(y, v)
  <2>1. tasks'[x] = u
    BY <1>8, <1>11
  <2>2. s.step \in Waiting /\ s.step # "free" /\ JoinOk(s) /\ Trusts(s)
    BY <1>1, <1>11 DEF Waits, Waiting, ApiInv
  <2>3. Busy(s) /\ s # Api!Free
    BY <2>2, StepOf
  <2>4. Busy(y) /\ Keeps(s, y) /\ y.again = s.again /\ y.step = s.todo[1] /\ y.step \in Api!Reads
    BY <2>2, <2>3, BackOk
  <2> HIDE DEF y, u
  <2>5. y.step = "owner" => Key(s) = "project" /\ k = "project"
    <3>1. y.step = "owner" => Key(s) = "project"
      BY <2>4 DEF Key, Api!KeyOf
    <3>2. Key(s) = k
      BY <1>11, <2>2 DEF Waits, JoinOk, k
    <3> QED BY <3>1, <3>2
  <2>6. y.step = "owner" /\ y.again /\ y.owned => v.owner = y.by
    <3> SUFFICES ASSUME y.step = "owner", y.again, y.owned PROVE v.owner = y.by
      OBVIOUS
    <3>1. s.again /\ s.owned /\ y.by = s.by /\ Key(s) = "project"
      BY <2>4, <2>5 DEF Keeps
    <3>2. Names(t, s.by)
      BY <1>11, <2>2, <2>3, <3>1 DEF Waits, Trusts
    <3> QED BY <1>1, <1>10, <3>1, <3>2 DEF Names
  <2>7. /\ Busy(u) /\ Keeps(y, u) /\ u.step \notin Waiting /\ (y.again => u.again)
        /\ (u.again /\ ~y.again => u.step = "owner" /\ y.step = "owner")
    BY <2>4, <2>6, GivenOk DEF u
  <2>8. Keeps(s, u) /\ u.again \in BOOLEAN /\ s.again \in BOOLEAN
    BY <2>3, <2>4, <2>7 DEF Keeps, Busy, Shape
  <2>9. ASSUME u.again # s.again PROVE stored'["project"] = Api!Miss /\ reading'["project"] = "none"
    <3>1. u.again /\ ~s.again /\ u.step = "owner" /\ k = "project"
      BY <2>4, <2>5, <2>7, <2>8, <2>9
    <3>2. again
      BY <1>11, <2>1, <3>1 DEF again, Api!LooksAgain
    <3> QED BY <1>6, <1>9, <3>1, <3>2
  <2> QED BY <2>1, <2>7, <2>8, <2>9
<1>12. \A j \in Api!Keys : reading'[j] \in {reading[j], "none"} /\ reading'[j] # r
  <2> SUFFICES ASSUME NEW j \in Api!Keys PROVE reading'[j] \in {reading[j], "none"} /\ reading'[j] # r
    OBVIOUS
  <2>1. ReadingOk(j) /\ "none" # r
    BY ApiAssumption DEF ApiInv
  <2>2. j # k => reading[j] # r
    BY <2>1 DEF ReadingOk, k
  <2> QED BY <1>9, <2>1, <2>2
<1>13. \/ stored'["project"] = Api!Miss \/ stored'["project"] = stored["project"]
       \/ stored'["project"] = v /\ k = "project" /\ reading["project"] = r
  BY <1>6, <1>9
<1>14. StoredOk'
  <2>1. CASE stored'["project"] = Api!Miss \/ stored'["project"] = stored["project"]
    BY <1>1, <2>1 DEF ApiInv, StoredOk
  <2>2. CASE stored'["project"] = v /\ k = "project"
    <3>1. v.out \in Nat /\ v.balance \in Nat /\ v.out + v.balance <= chain.paid
      BY <1>3, <1>10, <2>2
    <3> QED BY <1>1, <2>2, <3>1 DEF StoredOk
  <2> QED BY <1>13, <2>1, <2>2
<1>15. ASSUME NEW x \in ApiSlots, tasks[x] # Api!Free, tasks[x].again, tasks[x].owned,
              stored'["project"] # Api!Miss
       PROVE  stored'["project"].owner = tasks[x].by
  <2>1. Trusts(tasks[x])
    BY DEF ApiInv
  <2>2. CASE stored'["project"] = stored["project"]
    BY <1>15, <2>1, <2>2 DEF Trusts
  <2>3. CASE stored'["project"] = v /\ reading["project"] = r
    <3>1. Names(t, tasks[x].by)
      BY <1>15, <2>1, <2>3, ApiAssumption DEF Trusts
    <3> QED BY <1>1, <1>10, <2>3, <3>1 DEF Names
  <2> QED BY <1>13, <1>15, <2>2, <2>3
<1>16. /\ DOMAIN tasks' = ApiSlots /\ DOMAIN stored' = Api!Keys /\ DOMAIN reading' = Api!Keys
       /\ \A x \in ApiSlots : ~Waits(r, x) => tasks'[x] = tasks[x]
  BY <1>8, <1>9
<1> QED BY <1>1, <1>2, <1>11, <1>12, <1>14, <1>15, <1>16, FetchEnds

-----------------------------------------------------------------------------
(* The deadline, the chain and the clock.                                  *)

\* What a request waits for and has looked at stays; its history may change.
SameView(t, u) ==
  \/ t = Api!Free /\ u = Api!Free
  \/ /\ t # Api!Free /\ Busy(t) /\ u.by = t.by /\ u.again = t.again /\ (u.owned => t.owned)
     /\ \/ u.step = t.step /\ u.todo = t.todo /\ u.got = t.got
        \/ t.step \notin Waiting /\ u.step \notin Waiting

\* A step outside the cache.
LEMMA WorldMoves ==
  ASSUME ApiInv, UNCHANGED <<stored, reading>>, ChainOk', ClockOk', PreparedOk',
         chain.paid <= chain'.paid, chain.out <= chain'.out, DOMAIN tasks' = ApiSlots,
         \A x \in ApiSlots : SameView(tasks[x], tasks'[x]) /\ TaskOk(tasks[x])'
  PROVE  ApiInv'
<1>1. StoredOk'
  <2> SUFFICES ASSUME stored["project"] # Api!Miss
               PROVE  /\ stored["project"].out \in Nat /\ stored["project"].balance \in Nat
                      /\ stored["project"].out + stored["project"].balance <= chain'.paid
    BY DEF StoredOk
  <2>1. /\ stored["project"].out \in Nat /\ stored["project"].balance \in Nat
        /\ stored["project"].out + stored["project"].balance <= chain.paid
    BY DEF ApiInv, StoredOk
  <2> QED BY <2>1 DEF ApiInv, ChainOk
<1>2. ASSUME NEW x \in ApiSlots, tasks[x].step \in Waiting
      PROVE  /\ tasks'[x].step = tasks[x].step /\ tasks'[x].todo = tasks[x].todo
             /\ tasks'[x].got = tasks[x].got
  <2>1. tasks[x] # Api!Free
    BY <1>2 DEF Api!Free, Waiting
  <2> QED BY <1>2, <2>1 DEF SameView
<1>3. \A x \in ApiSlots : Fetching(tasks[x]) => Fetching(tasks'[x]) /\ Key(tasks'[x]) = Key(tasks[x])
  BY <1>2 DEF Fetching, Key, Waiting
<1>4. ASSUME NEW k \in Api!Keys PROVE ReadingOk(k)'
  <2>1. ReadingOk(k)
    BY DEF ApiInv
  <2> QED BY <1>3, <2>1 DEF ReadingOk
<1>5. ASSUME NEW x \in ApiSlots, tasks'[x].step \in Waiting
      PROVE  /\ tasks'[x].step = tasks[x].step /\ tasks'[x].todo = tasks[x].todo
             /\ tasks'[x].got = tasks[x].got
  <2>1. tasks'[x] # Api!Free
    BY <1>5 DEF Api!Free, Waiting
  <2> QED BY <1>5, <2>1 DEF SameView
<1>6. ASSUME NEW x \in ApiSlots, NEW w, Names(tasks[x], w) PROVE Names(tasks'[x], w)
  BY <1>5, <1>6 DEF Names, Waiting
<1>7. ASSUME NEW x \in ApiSlots
      PROVE  JoinOk(tasks[x])' /\ GotOk(tasks[x])' /\ Trusts(tasks[x])'
  <2>1. JoinOk(tasks[x]) /\ GotOk(tasks[x]) /\ Trusts(tasks[x])
    BY DEF ApiInv
  <2>2. JoinOk(tasks[x])'
    <3> SUFFICES ASSUME tasks'[x].step = "join"
                 PROVE  /\ tasks'[x].got \in ApiSlots /\ Fetching(tasks'[tasks'[x].got])
                        /\ Key(tasks'[tasks'[x].got]) = Key(tasks'[x])
      BY DEF JoinOk
    <3>1. tasks[x].step = "join" /\ tasks'[x].todo = tasks[x].todo /\ tasks'[x].got = tasks[x].got
      BY <1>5 DEF Waiting
    <3> QED BY <1>3, <2>1, <3>1 DEF JoinOk, Key
  <2>3. GotOk(tasks[x])'
    <3> SUFFICES ASSUME tasks'[x].step = "balance"
                 PROVE  /\ DOMAIN tasks'[x].got = {"owner", "out"} /\ tasks'[x].got.out \in Nat
                        /\ tasks'[x].got.out <= chain'.out
      BY DEF GotOk
    <3>1. tasks[x].step = "balance" /\ tasks'[x].got = tasks[x].got
      BY <1>5 DEF Waiting
    <3>2. /\ DOMAIN tasks[x].got = {"owner", "out"} /\ tasks[x].got.out \in Nat
          /\ tasks[x].got.out <= chain.out /\ chain.out \in Nat /\ chain'.out \in Nat
      BY <2>1, <3>1 DEF GotOk, ApiInv, ChainOk
    <3> QED BY <3>1, <3>2
  <2>4. Trusts(tasks[x])'
    <3> SUFFICES ASSUME tasks'[x] # Api!Free, tasks'[x].again, tasks'[x].owned
                 PROVE  /\ stored["project"] # Api!Miss => stored["project"].owner = tasks'[x].by
                        /\ reading["project"] # "none" => Names(tasks'[reading["project"]], tasks'[x].by)
                        /\ tasks'[x].step = "join" /\ Key(tasks'[x]) = "project" =>
                             Names(tasks'[tasks'[x].got], tasks'[x].by)
                        /\ Names(tasks'[x], tasks'[x].by)
      BY DEF Trusts, Names
    <3>1. tasks[x] # Api!Free /\ tasks[x].again /\ tasks[x].owned /\ tasks'[x].by = tasks[x].by
      BY DEF SameView
    <3>2. ReadingOk("project")
      BY DEF ApiInv, Api!Keys
    <3>3. reading["project"] # "none" => Names(tasks'[reading["project"]], tasks[x].by)
      BY <1>6, <2>1, <3>1, <3>2 DEF Trusts, ReadingOk
    <3>4. ASSUME tasks'[x].step = "join", Key(tasks'[x]) = "project"
          PROVE  Names(tasks'[tasks'[x].got], tasks[x].by)
      <4>1. tasks[x].step = "join" /\ tasks'[x].todo = tasks[x].todo /\ tasks'[x].got = tasks[x].got
        BY <1>5, <3>4 DEF Waiting
      <4>2. tasks[x].got \in ApiSlots /\ Names(tasks[tasks[x].got], tasks[x].by)
        BY <2>1, <3>1, <3>4, <4>1 DEF Trusts, JoinOk, Key
      <4> QED BY <1>6, <4>1, <4>2
    <3>5. Names(tasks'[x], tasks[x].by)
      BY <1>6, <2>1, <3>1 DEF Trusts
    <3> QED BY <2>1, <3>1, <3>3, <3>4, <3>5 DEF Trusts
  <2> QED BY <2>2, <2>3, <2>4
<1>8. DOMAIN stored' = Api!Keys /\ DOMAIN reading' = Api!Keys
  BY DEF ApiInv
<1> QED BY <1>1, <1>4, <1>7, <1>8 DEF ApiInv

\* The clock ticks.
LEMMA TickStep ==
  ASSUME ApiInv, Api!Tick
  PROVE  ApiInv'
<1>1. UNCHANGED <<chain, deadline, stored, reading, tasks, prepared>> /\ now' = now + 1
  BY DEF Api!Tick, Api!history, Api!cache
<1>2. ChainOk' /\ ClockOk' /\ PreparedOk' /\ chain.paid <= chain'.paid /\ chain.out <= chain'.out
  BY <1>1 DEF ApiInv, ChainOk, ClockOk, PreparedOk
<1>3. now \in Nat /\ deadline \in Nat /\ DOMAIN tasks' = ApiSlots
  BY <1>1 DEF ApiInv, ClockOk
<1>4. ASSUME NEW x \in ApiSlots PROVE SameView(tasks[x], tasks'[x]) /\ TaskOk(tasks[x])'
  <2>1. TaskOk(tasks[x]) /\ tasks'[x] = tasks[x]
    BY <1>1 DEF ApiInv
  <2>2. TaskOk(tasks[x])'
    BY <1>1, <1>3, <2>1 DEF TaskOk, Busy, Past, Saving
  <2> QED BY <2>1, <2>2 DEF SameView, TaskOk
<1> QED BY <1>1, <1>2, <1>3, <1>4, WorldMoves

\* The chain changes.
LEMMA ChainMoves ==
  ASSUME ApiInv, NEW c, Api!ChainBecomes(c), PreparedOk',
         DOMAIN c = {"owner", "paid", "out", "paused"}, c.paid \in Nat, c.out \in Nat,
         c.out <= c.paid, chain.paid <= c.paid, chain.out <= c.out,
         chain.owner # "nobody" => c.owner # "nobody"
  PROVE  ApiInv'
<1>1. /\ UNCHANGED <<now, deadline, stored, reading>> /\ chain' = c
      /\ tasks' = [r \in ApiSlots |->
           IF tasks[r] = Api!Free THEN Api!Free
           ELSE [tasks[r] EXCEPT !.owned = @ /\ c.owner = tasks[r].by]]
  BY DEF Api!ChainBecomes, Api!history, Api!cache
<1>2. ChainOk' /\ ClockOk' /\ chain.paid <= chain'.paid /\ chain.out <= chain'.out
  BY <1>1 DEF ApiInv, ChainOk, ClockOk
<1>3. ASSUME NEW x \in ApiSlots PROVE SameView(tasks[x], tasks'[x]) /\ TaskOk(tasks[x])'
  <2> DEFINE t == tasks[x]
             u == [t EXCEPT !.owned = @ /\ c.owner = t.by]
  <2>1. TaskOk(t)
    BY DEF ApiInv
  <2>2. CASE t = Api!Free
    BY <1>1, <2>2 DEF SameView, TaskOk
  <2>3. CASE t # Api!Free
    <3>1. tasks'[x] = u /\ Busy(t)
      BY <1>1, <2>1, <2>3 DEF TaskOk
    <3>2. /\ DOMAIN u = TaskFields /\ u.step = t.step /\ u.todo = t.todo /\ u.op = t.op
          /\ u.by = t.by /\ u.expires = t.expires /\ u.got = t.got /\ u.again = t.again
          /\ u.closed = t.closed /\ u.existed = t.existed
      BY <3>1 DEF Busy, Shape, TaskFields
    <3>3. u.owned = (t.owned /\ c.owner = t.by)
      BY <3>1 DEF Busy, Shape, TaskFields
    <3> HIDE DEF u
    <3>4. u.owned \in BOOLEAN /\ (u.owned => t.owned /\ c.owner = t.by)
      BY <3>3
    <3>5. Shape(u)
      BY <3>1, <3>2, <3>4 DEF Busy, Shape
    <3>6. /\ u.existed => c.owner # "nobody"
          /\ u.step = "unauthorized" => ~u.owned
      BY <3>1, <3>2, <3>4 DEF Busy, Past
    <3>7. Saving(u)
      BY <3>1, <3>2 DEF Busy, Saving, CheckAhead
    <3>8. TaskOk(tasks[x])'
      BY <1>1, <3>1, <3>2, <3>4, <3>5, <3>6, <3>7 DEF TaskOk, Busy, Past, Saving
    <3>9. SameView(t, u)
      BY <2>3, <3>1, <3>2, <3>4 DEF SameView
    <3> QED BY <3>1, <3>8, <3>9
  <2> QED BY <2>2, <2>3
<1>4. DOMAIN tasks' = ApiSlots
  BY <1>1
<1> QED BY <1>1, <1>2, <1>3, <1>4, WorldMoves

\* A wallet submits a transaction, or the owner hands the project over.
LEMMA ChainStep ==
  ASSUME ApiInv, Api!Submit \/ Api!TransferOnChain
  PROVE  ApiInv'
<1>0. /\ DOMAIN chain = {"owner", "paid", "out", "paused"}
      /\ chain.paid \in Nat /\ chain.out \in Nat /\ chain.out <= chain.paid
  BY DEF ApiInv, ChainOk
<1>1. ASSUME NEW tx \in prepared, ~Api!Refused(chain, tx), Api!ChainBecomes(Api!Applied(chain, tx)),
             prepared' = prepared \ {tx}
      PROVE  ApiInv'
  <2> DEFINE c == Api!Applied(chain, tx)
  <2>1. tx.by \in ApiWallets /\ tx.by # "nobody" /\ PreparedOk'
    BY <1>1, ApiAssumption DEF ApiInv, PreparedOk
  <2>2. tx.op = "claim" => chain.out # chain.paid
    BY <1>1 DEF Api!Refused
  <2>3. /\ DOMAIN c = {"owner", "paid", "out", "paused"} /\ c.paid \in Nat /\ c.out \in Nat
        /\ c.out <= c.paid /\ chain.paid <= c.paid /\ chain.out <= c.out
        /\ chain.owner # "nobody" => c.owner # "nobody"
    <3>1. CASE tx.op = "create"
      <4>1. c = [chain EXCEPT !.owner = tx.by]
        BY <3>1 DEF Api!Applied
      <4> HIDE DEF c
      <4> QED BY <1>0, <2>1, <4>1
    <3>2. CASE tx.op = "deposit"
      <4>1. c = [chain EXCEPT !.paid = @ + 1]
        BY <3>2 DEF Api!Applied
      <4> HIDE DEF c
      <4> QED BY <1>0, <4>1
    <3>3. CASE tx.op = "distribute"
      <4>1. c = [chain EXCEPT !.out = chain.paid]
        BY <3>3 DEF Api!Applied
      <4> HIDE DEF c
      <4> QED BY <1>0, <4>1
    <3>4. CASE tx.op = "claim"
      <4>1. c = [chain EXCEPT !.out = @ + 1]
        BY <3>4 DEF Api!Applied
      <4> HIDE DEF c
      <4> QED BY <1>0, <2>2, <3>4, <4>1
    <3>5. CASE tx.op \notin {"create", "deposit", "distribute", "claim"}
      <4>1. c = chain \/ c = [chain EXCEPT !.paused = TRUE] \/ c = [chain EXCEPT !.paused = FALSE]
        BY <3>5 DEF Api!Applied
      <4> HIDE DEF c
      <4> QED BY <1>0, <4>1
    <3> QED BY <3>1, <3>2, <3>3, <3>4, <3>5
  <2> HIDE DEF c
  <2>4. Api!ChainBecomes(c)
    BY <1>1 DEF c
  <2> QED BY <2>1, <2>3, <2>4, ChainMoves
<1>2. ASSUME NEW w \in ApiWallets, Api!ChainBecomes([chain EXCEPT !.owner = w]), UNCHANGED prepared
      PROVE  ApiInv'
  <2> DEFINE c == [chain EXCEPT !.owner = w]
  <2>1. /\ DOMAIN c = {"owner", "paid", "out", "paused"} /\ c.paid = chain.paid /\ c.out = chain.out
        /\ c.owner = w
    BY <1>0
  <2> HIDE DEF c
  <2>2. w # "nobody" /\ PreparedOk'
    BY <1>2, ApiAssumption DEF ApiInv, PreparedOk
  <2>3. Api!ChainBecomes(c)
    BY <1>2 DEF c
  <2> QED BY <1>0, <2>1, <2>2, <2>3, ChainMoves
<1> QED BY <1>1, <1>2 DEF Api!Submit, Api!TransferOnChain

\* Who saves a deadline has found it open, or has created the project.
LEMMA SaverOk ==
  ASSUME NEW t, Busy(t), t.step = "save"
  PROVE  t.closed => ~t.existed
<1>1. t.step \notin Codes \cup {"unique", "open", "mark", "owner"} /\ t.step \notin Waiting
  BY DEF Codes, Waiting
<1>2. t.op \in {"create", "expiration"}
  BY DEF Busy, Saving
<1>3. t.op = "create" => ~t.existed
  BY <1>1 DEF Busy, Saving
<1>4. t.op = "expiration" => ~t.closed
  BY <1>1 DEF Busy, Saving, CheckAhead
<1> QED BY <1>2, <1>3, <1>4

\* A deadline is saved.
LEMMA SaveStep ==
  ASSUME ApiInv, NEW r \in ApiSlots, Api!Save(r)
  PROVE  ApiInv' /\ tasks'[r].step # "save"
<1> DEFINE t == tasks[r]
           v == Api!Advanced(t)
<1>1. /\ UNCHANGED <<chain, now, stored, reading, prepared>> /\ t.step = "save" /\ deadline' = t.expires
      /\ tasks' = [x \in ApiSlots |->
           IF x = r THEN v
           ELSE IF tasks[x] = Api!Free THEN Api!Free
           ELSE [tasks[x] EXCEPT !.closed = @ /\ deadline' <= now]]
  BY DEF Api!Save, Api!Quiet, Api!cache, Api!At
<1>2. Busy(t) /\ t # Api!Free
  BY <1>1, StepOf
<1>3. t.step \in RouteSteps /\ t.step \notin Waiting
  BY <1>1 DEF RouteSteps, Waiting
<1>4. /\ Busy(v) /\ Keeps(t, v) /\ v.again = t.again /\ v.step \notin Waiting /\ v.step # "save"
  BY <1>1, <1>2, <1>3, AdvanceOk
<1> HIDE DEF v
<1>5. ChainOk' /\ ClockOk' /\ PreparedOk' /\ chain.paid <= chain'.paid /\ chain.out <= chain'.out
  <2>1. t.expires \in Nat
    BY <1>2 DEF Busy, Shape
  <2> QED BY <1>1, <2>1 DEF ApiInv, ChainOk, ClockOk, PreparedOk
<1>6. DOMAIN tasks' = ApiSlots /\ tasks'[r] = v
  BY <1>1
<1>7. SameView(t, v) /\ TaskOk(tasks[r])'
  <2>1. SameView(t, v)
    BY <1>2, <1>3, <1>4 DEF SameView, Keeps
  <2>2. t.op = "expiration" => ~t.closed
    <3>1. t.step \notin Codes \cup {"open", "mark", "owner"} /\ t.step \notin Waiting
      BY <1>1 DEF Codes, Waiting
    <3> QED BY <1>2, <3>1 DEF Busy, Saving, CheckAhead
  <2>3. /\ SavesOnce(v.todo) /\ (v.step = "save" => Len(v.todo) = 1)
        /\ v.step = "configure" => v.todo # <<>>
        /\ v.op \notin {"create", "expiration"} =>
             v.step \notin {"save", "configure"} /\ NeverSaves(v.todo)
        /\ v.op = "create" => v.step \in Codes \cup {"unique"} \/ ~v.existed
    BY <1>4 DEF Busy, Saving
  <2>4. v.op = "expiration" => ~v.closed
    BY <1>4, <2>2 DEF Keeps
  <2>5. Saving(tasks[r])'
    BY <1>6, <2>3, <2>4 DEF Saving
  <2>6. Shape(tasks[r])' /\ Past(tasks[r])'
    BY <1>1, <1>4, <1>6 DEF Busy, Past, Shape
  <2> QED BY <2>1, <2>5, <2>6 DEF TaskOk, Busy
<1>8. ASSUME NEW x \in ApiSlots, x # r PROVE SameView(tasks[x], tasks'[x]) /\ TaskOk(tasks[x])'
  <2> DEFINE s == tasks[x]
             u == [s EXCEPT !.closed = @ /\ deadline' <= now]
  <2>1. TaskOk(s)
    BY DEF ApiInv
  <2>2. CASE s = Api!Free
    BY <1>1, <1>8, <2>2 DEF SameView, TaskOk
  <2>3. CASE s # Api!Free
    <3>1. tasks'[x] = u /\ Busy(s)
      BY <1>1, <1>8, <2>1, <2>3 DEF TaskOk
    <3>2. /\ DOMAIN u = TaskFields /\ u.step = s.step /\ u.todo = s.todo /\ u.op = s.op
          /\ u.by = s.by /\ u.expires = s.expires /\ u.got = s.got /\ u.again = s.again
          /\ u.owned = s.owned /\ u.existed = s.existed
      BY <3>1 DEF Busy, Shape, TaskFields
    <3>3. u.closed = (s.closed /\ deadline' <= now)
      BY <3>1 DEF Busy, Shape, TaskFields
    <3> HIDE DEF u
    <3>4. u.closed \in BOOLEAN /\ (u.closed => s.closed /\ deadline' <= now')
      BY <1>1, <3>3
    <3>5. Shape(u)
      BY <3>1, <3>2, <3>4 DEF Busy, Shape
    <3>6. /\ u.owned => chain'.owner = u.by
          /\ u.existed => chain'.owner # "nobody"
          /\ u.step = "unauthorized" => ~u.owned
      BY <1>1, <3>1, <3>2 DEF Busy, Past
    <3>7. /\ SavesOnce(u.todo) /\ (u.step = "save" => Len(u.todo) = 1)
          /\ u.step = "configure" => u.todo # <<>>
          /\ u.op \notin {"create", "expiration"} =>
               u.step \notin {"save", "configure"} /\ NeverSaves(u.todo)
          /\ u.op = "create" => u.step \in Codes \cup {"unique"} \/ ~u.existed
      BY <3>1, <3>2 DEF Busy, Saving
    <3>8. u.op = "expiration" => ~u.closed \/ CheckAhead(u)
      BY <3>1, <3>2, <3>4 DEF Busy, Saving, CheckAhead
    <3>9. TaskOk(tasks[x])'
      BY <3>1, <3>4, <3>5, <3>6, <3>7, <3>8 DEF TaskOk, Busy, Past, Saving
    <3>10. SameView(s, u)
      BY <2>3, <3>1, <3>2 DEF SameView
    <3> QED BY <3>1, <3>9, <3>10
  <2> QED BY <2>2, <2>3
<1>9. \A x \in ApiSlots : SameView(tasks[x], tasks'[x]) /\ TaskOk(tasks[x])'
  BY <1>7, <1>8, <1>6
<1> QED BY <1>1, <1>4, <1>5, <1>6, <1>9, WorldMoves

\* Every step of the routes, the wallets and the clock.
LEMMA ApiSteps ==
  ASSUME ApiInv, Api!ApiNext
  PROVE  ApiInv'
<1>1. ASSUME NEW r \in ApiSlots,
             \/ Api!Awaits(r) \/ Api!Fails(r) \/ Api!Leave(r)
             \/ Api!Hit(r) \/ Api!Join(r) \/ Api!Fetch(r) \/ Api!ReadProject(r)
             \/ Api!ReadBalance(r) \/ Api!FetchFails(r)
             \/ Api!CheckOpen(r) \/ Api!Mark(r) \/ Api!CheckUnique(r) \/ Api!CheckPaused(r)
             \/ Api!Prepare(r) \/ Api!Configure(r) \/ Api!Save(r) \/ Api!Evict(r)
      PROVE  ApiInv'
  BY <1>1, AwaitSteps, HitStep, MissStep, ReadProjectStep, ReadBalanceStep, FetchFailsStep,
     CheckSteps, PrepareStep, ConfigureStep, SaveStep, EvictStep, Zenon
<1> QED BY <1>1, ArriveStep, ExpireStep, ChainStep, TickStep, Zenon DEF Api!ApiNext

\* The server starts.
LEMMA ApiStart ==
  ASSUME Api!ApiInit
  PROVE  ApiInv
<1>1. /\ chain \in [owner : {"nobody"} \cup ApiWallets, paid : {0, 1}, out : {0}, paused : {FALSE}]
      /\ now = 0 /\ deadline = 1000
      /\ stored = [k \in Api!Keys |-> Api!Miss] /\ reading = [k \in Api!Keys |-> "none"]
      /\ tasks = [r \in ApiSlots |-> Api!Free] /\ prepared = {}
  BY DEF Api!ApiInit, Api!Never, Api!Nobody
<1>2. ChainOk /\ ClockOk /\ PreparedOk
  BY <1>1 DEF ChainOk, ClockOk, PreparedOk
<1>3. stored["project"] = Api!Miss /\ reading["project"] = "none"
  BY <1>1 DEF Api!Keys
<1>4. StoredOk /\ \A k \in Api!Keys : ReadingOk(k)
  BY <1>1, <1>3 DEF StoredOk, ReadingOk
<1>5. ASSUME NEW x \in ApiSlots
      PROVE  TaskOk(tasks[x]) /\ JoinOk(tasks[x]) /\ GotOk(tasks[x]) /\ Trusts(tasks[x])
  <2>1. tasks[x] = Api!Free /\ tasks[x].step = "free"
    BY <1>1 DEF Api!Free
  <2> QED BY <2>1 DEF TaskOk, JoinOk, GotOk, Trusts
<1> QED BY <1>1, <1>2, <1>4, <1>5 DEF ApiInv

\* The invariant of the routes holds in their part of the model.
LEMMA ApiAlways == MCSpec => [](part = "api" => ApiInv)
<1> DEFINE J == part = "api" => ApiInv
<1>1. MCInit => J
  BY ApiStart DEF MCInit, ApiInit
<1>2. J /\ [MCNext]_mcVars => J'
  <2> SUFFICES ASSUME J, [MCNext]_mcVars, part' = "api" PROVE ApiInv'
    OBVIOUS
  <2>1. part' = part
    BY DEF MCNext, mcVars
  <2>2. CASE UNCHANGED apiVars
    <3>1. UNCHANGED <<chain, now, deadline, stored, reading, tasks, prepared>>
      BY <2>2 DEF apiVars
    <3> QED
      BY <2>1, <3>1 DEF ApiInv, ChainOk, ClockOk, PreparedOk, StoredOk, ReadingOk, TaskOk, Busy,
         Past, Saving, JoinOk, GotOk, Trusts, Names
  <2>3. CASE ApiStep
    BY <2>1, <2>3, ApiSteps DEF ApiStep
  <2> QED BY <2>2, <2>3 DEF MCNext, mcVars
<1> QED BY <1>1, <1>2, PTL DEF MCSpec

\* Whoever is answered 401 was not the owner at some moment of his request,
\* whatever the cache held: assertProjectOwner looks again past it.
THEOREM OwnerNeverLockedOut == MCSpec => []OwnerNotLockedOut
<1>1. (part = "api" => ApiInv) => OwnerNotLockedOut
  <2> SUFFICES ASSUME ApiInv, NEW r \in ApiSlots, tasks[r].step = "unauthorized" PROVE ~tasks[r].owned
    BY DEF OwnerNotLockedOut, Api!OwnerNotLockedOut, Api!At
  <2>1. Busy(tasks[r])
    BY StepOf
  <2> QED BY <2>1 DEF Busy, Past
<1> QED BY <1>1, ApiAlways, PTL

\* A cached project and the balance beside it, read by two simulations, never
\* add up to more than was paid in (fetchProjectById).
THEOREM PayoutsNeverCountedTwice == MCSpec => []NeverCountsTwice
<1>1. (part = "api" => ApiInv) => NeverCountsTwice
  BY DEF NeverCountsTwice, Api!NeverCountsTwice, ApiInv, StoredOk
<1> QED BY <1>1, ApiAlways, PTL

\* A passed deadline is replaced only by a request whose check came before it
\* passed, or by a creation under an unused id (configureProjectExpiration).
THEOREM PassedDeadlineAlwaysFinal == MCSpec => PassedDeadlineIsFinal
<1>1. (part = "api" => ApiInv) /\ [MCNext]_mcVars => [part = "api" => Api!DeadlineStays]_apiVars
  <2> SUFFICES ASSUME ApiInv, part = "api", [MCNext]_mcVars, deadline' # deadline
               PROVE  \E r \in ApiSlots : /\ Api!At(r, "save") /\ tasks'[r].step # "save"
                                          /\ tasks[r].closed => ~tasks[r].existed
    BY DEF Api!DeadlineStays
  <2>1. Api!ApiNext
    BY DEF MCNext, mcVars, apiVars, ApiStep, IndexStep, CachedStep
  <2>2. PICK r \in ApiSlots : Api!Save(r)
    BY <2>1 DEF Api!ApiNext, Api!Arrive, Api!Awaits, Api!Fails, Api!Leave, Api!Hit, Api!Join,
       Api!Fetch, Api!ReadProject, Api!ReadBalance, Api!FetchFails, Api!CheckOpen, Api!Mark,
       Api!CheckUnique, Api!CheckPaused, Api!Prepare, Api!Configure, Api!Evict, Api!ExpireEntry,
       Api!Submit, Api!TransferOnChain, Api!ChainBecomes, Api!Tick, Api!history
  <2>3. Api!At(r, "save") /\ tasks[r].step = "save"
    BY <2>2 DEF Api!Save, Api!At
  <2>4. tasks'[r].step # "save"
    BY <2>2, SaveStep
  <2>5. tasks[r].closed => ~tasks[r].existed
    BY <2>3, StepOf, SaverOk
  <2> QED BY <2>3, <2>4, <2>5
<1> QED BY <1>1, ApiAlways, PTL DEF MCSpec, PassedDeadlineIsFinal
-----------------------------------------------------------------------------
(* The project index.  S is the list the buckets hold. *)

\* What the assumptions say of the constants of the index.
LEMMA IndexConstants ==
  /\ BucketSize \in Nat /\ BucketSize > 0 /\ MaxBuckets \in Nat
  /\ LegacyIds \subseteq Seq(Ids) /\ NoFlat \notin Seq(Ids)
BY IndexAssumption DEF Index!IndexAssumption

\* The position a bucket starts at.
Start(b) == b * BucketSize

\* Buckets lie one after the other.
LEMMA Starts ==
  /\ Start(0) = 0
  /\ \A b \in Nat : Start(b) \in Nat /\ Start(b + 1) = Start(b) + BucketSize
  /\ \A b, c \in Nat : b < c => Start(b) + BucketSize <= Start(c)
<1>0. BucketSize \in Nat /\ BucketSize > 0
  BY IndexConstants
<1>1. Start(0) = 0
  BY <1>0 DEF Start
<1>2. ASSUME NEW b \in Nat PROVE Start(b) \in Nat /\ Start(b + 1) = Start(b) + BucketSize
  <2>1. \A x, y \in Nat : x * y \in Nat /\ (x + 1) * y = x * y + y
    OBVIOUS
  <2> QED BY <1>0, <2>1 DEF Start
<1>3. ASSUME NEW b \in Nat, NEW c \in Nat, b < c PROVE Start(b) + BucketSize <= Start(c)
  <2>1. PICK d \in Nat : c = b + 1 + d
    <3>1. c - b - 1 \in Nat /\ c = b + 1 + (c - b - 1)
      BY <1>3
    <3> QED BY <3>1
  <2>2. \A x, y, z \in Nat : (x + 1 + z) * y = x * y + y + z * y /\ z * y \in Nat /\ x * y \in Nat
    OBVIOUS
  <2> QED BY <1>0, <2>1, <2>2 DEF Start
<1> QED BY <1>1, <1>2, <1>3

\* The place of a position among the buckets.
LEMMA Places ==
  ASSUME NEW i \in Nat
  PROVE  /\ i \div BucketSize \in Nat /\ i % BucketSize \in 0..BucketSize - 1
         /\ i = Start(i \div BucketSize) + (i % BucketSize)
<1>0. BucketSize \in Nat /\ BucketSize > 0
  BY IndexConstants
<1>1. i \div BucketSize \in Nat
  BY <1>0
<1>2. i % BucketSize \in 0..BucketSize - 1
  BY <1>0
<1>3. i = (i \div BucketSize) * BucketSize + (i % BucketSize)
  BY <1>0
<1> QED BY <1>1, <1>2, <1>3 DEF Start

\* The ids of bucket b of a list of n.
Fill(n, b) ==
  IF n >= Start(b) + BucketSize THEN BucketSize ELSE IF n >= Start(b) THEN n - Start(b) ELSE 0

\* The buckets bs, of which n are counted, are the list S cut in pieces.
Cuts(S, bs, n) ==
  /\ S \in Seq(Ids) /\ bs \in [Index!BucketIndex -> Seq(Ids)] /\ n \in 0..MaxBuckets
  /\ Len(S) <= Start(n) /\ (n > 0 => Len(S) > Start(n - 1))
  /\ \A b \in Index!BucketIndex :
       /\ Len(bs[b]) = Fill(Len(S), b)
       /\ \A i \in 1..Len(bs[b]) : bs[b][i] = S[Start(b) + i]

\* A new id goes to the end of the bucket that is not full, or opens the next.
LEMMA CutsAppend ==
  ASSUME NEW S, NEW bs, NEW n, Cuts(S, bs, n), NEW id \in Ids,
         NEW t \in Index!BucketIndex, Start(t) <= Len(S), Len(S) < Start(t) + BucketSize
  PROVE  /\ t \in {n - 1, n} /\ (t = n => bs[t] = <<>>)
         /\ Cuts(Append(S, id), [bs EXCEPT ![t] = Append(bs[t], id)], t + 1)
<1> DEFINE A == Append(S, id)
           cs == [bs EXCEPT ![t] = Append(bs[t], id)]
           m == t + 1
           L == Len(S)
<1>0. /\ BucketSize \in Nat /\ BucketSize > 0 /\ MaxBuckets \in Nat /\ n \in Nat
      /\ Index!BucketIndex = 0..MaxBuckets - 1 /\ t \in Nat /\ t < MaxBuckets
  BY IndexConstants DEF Index!BucketIndex, Cuts
<1>1. L \in Nat /\ S \in Seq(Ids) /\ bs \in [Index!BucketIndex -> Seq(Ids)]
  BY DEF Cuts
<1>2. A \in Seq(Ids) /\ Len(A) = L + 1 /\ A[L + 1] = id /\ \A i \in 1..L : A[i] = S[i]
  BY <1>1
<1> HIDE DEF A
<1>3. t \in {n - 1, n}
  <2>1. ~(t > n)
    <3>1. t > n => Start(n) + BucketSize <= Start(t)
      BY <1>0, Starts
    <3>2. L <= Start(n) /\ Start(n) \in Nat
      BY <1>0, Starts DEF Cuts
    <3>3. Start(t) \in Nat /\ Start(t) <= L
      BY <1>0, Starts
    <3> HIDE DEF L
    <3> QED BY ONLY <1>0, <1>1, <3>1, <3>2, <3>3
  <2>2. ~(t < n - 1)
    <3> SUFFICES ASSUME t < n - 1 PROVE FALSE
      OBVIOUS
    <3>1. n - 1 \in Nat /\ Start(t) + BucketSize <= Start(n - 1)
      BY <1>0, Starts
    <3>2. L > Start(n - 1)
      BY <1>0 DEF Cuts
    <3>3. Start(t) \in Nat /\ Start(n - 1) \in Nat
      BY <1>0, <3>1, Starts
    <3> QED BY <1>0, <1>1, <3>1, <3>2, <3>3
  <2> QED BY <1>0, <2>1, <2>2
<1>4. Len(bs[t]) = L - Start(t) /\ Start(t) \in Nat /\ bs[t] \in Seq(Ids)
  <2>1. Len(bs[t]) = Fill(L, t) /\ Start(t) \in Nat
    BY <1>0, Starts DEF Cuts
  <2> QED BY <1>0, <1>1, <2>1 DEF Fill
<1>5. t = n => bs[t] = <<>>
  <2> SUFFICES ASSUME t = n PROVE Len(bs[t]) = 0
    BY <1>4
  <2>1. L <= Start(n)
    BY DEF Cuts
  <2> QED BY <1>1, <1>4, <2>1
<1>6. cs \in [Index!BucketIndex -> Seq(Ids)] /\ m \in 0..MaxBuckets
  BY <1>0, <1>1, <1>3, <1>4
<1>7. Len(A) <= Start(m) /\ (m > 0 => Len(A) > Start(m - 1))
  <2>1. m = t + 1 /\ m - 1 = t
    BY <1>0, <1>3
  <2>2. Start(t + 1) = Start(t) + BucketSize
    BY <1>0, Starts
  <2>3. Len(A) <= Start(t) + BucketSize /\ Len(A) > Start(t)
    BY <1>0, <1>1, <1>2, <1>4
  <2> HIDE DEF m
  <2> QED BY <2>1, <2>2, <2>3
<1>8. ASSUME NEW b \in Index!BucketIndex
      PROVE  /\ Len(cs[b]) = Fill(Len(A), b)
             /\ \A i \in 1..Len(cs[b]) : cs[b][i] = A[Start(b) + i]
  <2>0. b \in Nat /\ Start(b) \in Nat /\ bs[b] \in Seq(Ids)
    <3>1. b \in Nat /\ bs[b] \in Seq(Ids)
      BY <1>0, <1>1
    <3> QED BY <3>1, Starts
  <2>1. Len(bs[b]) = Fill(L, b) /\ \A i \in 1..Len(bs[b]) : bs[b][i] = S[Start(b) + i]
    BY DEF Cuts
  <2>2. CASE b = t
    <3>1. cs[b] = Append(bs[t], id)
      BY <1>1, <2>2
    <3>2. Len(cs[b]) = L - Start(b) + 1
      BY <1>4, <2>2, <3>1
    <3>3. Len(cs[b]) = Fill(Len(A), b)
      BY <1>0, <1>1, <1>2, <1>4, <2>2, <3>2 DEF Fill
    <3>4. ASSUME NEW i \in 1..Len(cs[b]) PROVE cs[b][i] = A[Start(b) + i]
      <4>1. CASE i \in 1..Len(bs[t])
        <5>1. cs[b][i] = bs[b][i] /\ bs[b][i] = S[Start(b) + i]
          BY <1>4, <2>1, <2>2, <3>1, <4>1
        <5>2. Start(b) + i \in 1..L
          BY <1>1, <1>4, <2>0, <2>2, <4>1
        <5> QED BY <1>2, <5>1, <5>2
      <4>2. CASE i = Len(bs[t]) + 1
        <5>1. cs[b][i] = id /\ Start(b) + i = L + 1
          BY <1>1, <1>4, <2>2, <3>1, <4>2
        <5> QED BY <1>2, <5>1
      <4>3. Len(bs[t]) \in Nat /\ Len(cs[b]) = Len(bs[t]) + 1
        BY <1>4, <3>1
      <4>4. i \in 1..Len(bs[t]) \/ i = Len(bs[t]) + 1
        BY <4>3
      <4> QED BY <4>1, <4>2, <4>4
    <3> QED BY <3>3, <3>4
  <2>3. CASE b # t
    <3>1. cs[b] = bs[b]
      BY <1>1, <2>3
    <3>2. Fill(L, b) = Fill(L + 1, b)
      <4>1. CASE b < t
        <5>1. Start(b) + BucketSize <= Start(t)
          BY <1>0, <2>0, <4>1, Starts
        <5> QED BY <1>0, <1>1, <1>4, <2>0, <5>1 DEF Fill
      <4>2. CASE t < b
        <5>1. Start(t) + BucketSize <= Start(b)
          BY <1>0, <2>0, <4>2, Starts
        <5>2. L < Start(b)
          BY <1>0, <1>1, <1>4, <2>0, <5>1
        <5> QED BY <1>0, <1>1, <2>0, <5>2 DEF Fill
      <4> QED BY <1>0, <2>0, <2>3, <4>1, <4>2
    <3>3. \A i \in 1..Len(bs[b]) : Start(b) + i \in 1..L
      BY <1>0, <1>1, <2>0, <2>1 DEF Fill
    <3> QED BY <1>2, <2>1, <3>1, <3>2, <3>3
  <2> QED BY <2>2, <2>3
<1>9. Cuts(A, cs, m)
  <2> HIDE DEF A, cs, m
  <2> QED BY <1>2, <1>6, <1>7, <1>8 DEF Cuts
<1> QED BY <1>3, <1>5, <1>9 DEF A

\* The first m elements of a list.
First(s, m) == [i \in 1..m |-> s[i]]

\* They are a list of m.
LEMMA FirstIs ==
  ASSUME NEW X, NEW s \in Seq(X), NEW m \in Nat, m <= Len(s)
  PROVE  /\ First(s, m) \in Seq(X) /\ Len(First(s, m)) = m
         /\ m = 0 => First(s, m) = <<>>
         /\ \A i \in 1..m : First(s, m)[i] = s[i]
<1>1. \A i \in 1..m : s[i] \in X
  OBVIOUS
<1>2. First(s, m) \in Seq(X) /\ Len(First(s, m)) = m /\ \A i \in 1..m : First(s, m)[i] = s[i]
  BY <1>1 DEF First
<1>3. m = 0 => First(s, m) = <<>>
  BY <1>2
<1> QED BY <1>2, <1>3

\* An element of two lists one after the other.
LEMMA Concats ==
  ASSUME NEW X, NEW s \in Seq(X), NEW u \in Seq(X)
  PROVE  /\ s \o u \in Seq(X) /\ Len(s \o u) = Len(s) + Len(u)
         /\ \A i \in 1..Len(s) : (s \o u)[i] = s[i]
         /\ \A i \in 1..Len(u) : (s \o u)[Len(s) + i] = u[i]
OBVIOUS

\* Lists with the same elements are the same.
LEMMA SameList ==
  ASSUME NEW X, NEW s \in Seq(X), NEW u \in Seq(X), Len(s) = Len(u),
         \A i \in 1..Len(s) : s[i] = u[i]
  PROVE  s = u
OBVIOUS

\* Reading the buckets in order gives the list.
LEMMA CutsRead ==
  ASSUME NEW S, NEW bs, NEW n, Cuts(S, bs, n)
  PROVE  Index!BucketedIds(bs, n) = S
<1> DEFINE Upto(b) == IF Start(b) < Len(S) THEN Start(b) ELSE Len(S)
           g == [b \in 0..n |-> First(S, Upto(b))]
           Def(f) == [b \in 0..n |-> IF b = 0 THEN <<>> ELSE f[b - 1] \o bs[b - 1]]
           f == CHOOSE x : x = Def(x)
<1>0. /\ BucketSize \in Nat /\ BucketSize > 0 /\ MaxBuckets \in Nat /\ n \in Nat /\ n <= MaxBuckets
      /\ Index!BucketIndex = 0..MaxBuckets - 1 /\ S \in Seq(Ids) /\ Len(S) \in Nat
      /\ bs \in [Index!BucketIndex -> Seq(Ids)]
  BY IndexConstants DEF Index!BucketIndex, Cuts
<1>1. \A b \in 0..n : Upto(b) \in Nat /\ Upto(b) <= Len(S)
  BY <1>0, Starts
<1>2. g[0] = <<>>
  <2>1. Upto(0) = 0
    BY <1>0, Starts
  <2> HIDE DEF Upto
  <2>2. g[0] = First(S, 0)
    BY <1>0, <2>1
  <2> QED BY <1>0, <2>2, FirstIs
<1>3. ASSUME NEW b \in 1..n PROVE g[b] = g[b - 1] \o bs[b - 1]
  <2>0. b - 1 \in Nat /\ b - 1 \in 0..n /\ b \in Nat /\ b - 1 \in Index!BucketIndex
    BY <1>0
  <2> DEFINE c == b - 1
             L == Len(S)
             d == bs[c]
             p == First(S, Upto(c))
             q == First(S, Upto(b))
  <2>1. Start(c) \in Nat /\ Start(b) = Start(c) + BucketSize /\ Start(c) < L
    <3>1. Start(c) \in Nat /\ Start(c + 1) = Start(c) + BucketSize /\ c + 1 = b
      BY <2>0, Starts
    <3>2. Start(n - 1) < L /\ n - 1 \in Nat /\ Start(n - 1) \in Nat
      BY <1>0, <2>0, Starts DEF Cuts
    <3>3. c < n - 1 => Start(c) + BucketSize <= Start(n - 1)
      BY <2>0, <3>2, Starts
    <3>4. c = n - 1 \/ c < n - 1
      BY <1>0
    <3> QED BY <1>0, <3>1, <3>2, <3>3, <3>4
  <2>2. Upto(c) = Start(c) /\ Upto(b) \in Nat /\ Upto(b) <= L
    BY <1>0, <1>1, <2>1
  <2>3. /\ Len(bs[c]) = Fill(L, c) /\ bs[c] \in Seq(Ids)
        /\ \A i \in 1..Len(bs[c]) : bs[c][i] = S[Start(c) + i]
    BY <1>0, <2>0 DEF Cuts
  <2>4. Len(bs[c]) = Upto(b) - Start(c)
    BY <1>0, <2>1, <2>3 DEF Fill
  <2> HIDE DEF Upto
  <2>5. /\ p \in Seq(Ids) /\ Len(p) = Start(c) /\ \A i \in 1..Start(c) : p[i] = S[i]
        /\ q \in Seq(Ids) /\ Len(q) = Upto(b) /\ \A i \in 1..Upto(b) : q[i] = S[i]
    <3>1. Upto(c) \in Nat /\ Upto(c) <= Len(S) /\ Upto(c) = Start(c)
      BY <1>0, <2>1, <2>2
    <3>2. p \in Seq(Ids) /\ Len(p) = Upto(c) /\ \A i \in 1..Upto(c) : p[i] = S[i]
      BY <1>0, <3>1, FirstIs
    <3>3. q \in Seq(Ids) /\ Len(q) = Upto(b) /\ \A i \in 1..Upto(b) : q[i] = S[i]
      BY <1>0, <2>2, FirstIs
    <3> QED BY <3>1, <3>2, <3>3
  <2> HIDE DEF p, q, c
  <2>6. /\ p \o d \in Seq(Ids) /\ Len(p \o d) = Upto(b)
        /\ \A i \in 1..Start(c) : (p \o d)[i] = p[i]
        /\ \A i \in 1..Len(d) : (p \o d)[Start(c) + i] = d[i]
    <3> HIDE DEF d
    <3>1. d \in Seq(Ids) /\ Len(d) = Upto(b) - Start(c)
      BY <2>3, <2>4 DEF d
    <3>2. /\ p \o d \in Seq(Ids) /\ Len(p \o d) = Len(p) + Len(d)
          /\ \A i \in 1..Len(p) : (p \o d)[i] = p[i]
          /\ \A i \in 1..Len(d) : (p \o d)[Len(p) + i] = d[i]
      <4>1. p \in Seq(Ids)
        BY <2>5
      <4> QED BY ONLY <3>1, <4>1, Concats
    <3>3. Len(p) + Len(d) = Upto(b)
      BY <2>1, <2>2, <2>5, <3>1
    <3> QED BY <2>5, <3>2, <3>3
  <2>7. p \o d = q
    <3>1. ASSUME NEW i \in 1..Upto(b) PROVE (p \o d)[i] = S[i]
      <4>1. CASE i <= Start(c)
        BY <2>1, <2>2, <2>5, <2>6, <4>1
      <4>2. CASE i > Start(c)
        <5> DEFINE j == i - Start(c)
        <5>1. j \in 1..Len(d) /\ Start(c) + j = i
          BY <2>1, <2>2, <2>4, <4>2
        <5>2. (p \o d)[Start(c) + j] = d[j] /\ d[j] = S[Start(c) + j]
          <6> HIDE DEF j
          <6> QED BY <2>3, <2>6, <5>1
        <5> QED BY <5>1, <5>2
      <4>3. i <= Start(c) \/ i > Start(c)
        BY <2>1, <2>2
      <4> QED BY <4>1, <4>2, <4>3
    <3> HIDE DEF d
    <3>2. \A i \in 1..Upto(b) : (p \o d)[i] = q[i]
      BY <2>5, <3>1
    <3> QED BY <2>5, <2>6, <3>2, SameList
  <2>8. g[b] = q /\ g[b - 1] = p /\ d = bs[b - 1]
    BY <2>0 DEF p, q, c
  <2> QED BY <2>7, <2>8
<1>4. g = Def(g)
  <2> HIDE DEF Upto
  <2>1. ASSUME NEW b \in 0..n PROVE g[b] = IF b = 0 THEN <<>> ELSE g[b - 1] \o bs[b - 1]
    <3>1. b = 0 \/ b \in 1..n
      BY <1>0
    <3> HIDE DEF g
    <3> QED BY <1>2, <1>3, <3>1
  <2>2. g = [b \in 0..n |-> g[b]]
    OBVIOUS
  <2> HIDE DEF g
  <2> QED BY <2>1, <2>2
<1>5. f = Def(f)
  <2> HIDE DEF Def, g
  <2> QED BY <1>4
<1>6. Index!BucketedIds(bs, n) = f[n]
  BY DEF Index!BucketedIds
<1> HIDE DEF f, g, Upto
<1>7. ASSUME NEW b \in 0..n PROVE f[b] = IF b = 0 THEN <<>> ELSE f[b - 1] \o bs[b - 1]
  BY <1>5
<1> DEFINE Good == {b \in Nat : b <= n => f[b] = g[b]}
<1>8. 0 \in Good
  BY <1>0, <1>2, <1>7
<1>9. ASSUME NEW b \in Nat, b \in Good PROVE b + 1 \in Good
  <2> SUFFICES ASSUME b + 1 <= n PROVE f[b + 1] = g[b + 1]
    BY <1>9
  <2>1. f[b] = g[b] /\ b + 1 \in 1..n /\ b + 1 \in 0..n /\ b + 1 # 0 /\ (b + 1) - 1 = b
    BY <1>0, <1>9
  <2>2. f[b + 1] = f[b] \o bs[b]
    BY <1>7, <2>1
  <2>3. g[b + 1] = g[b] \o bs[b]
    BY <1>3, <2>1
  <2> QED BY <2>1, <2>2, <2>3
<1>10. f[n] = g[n]
  <2>1. \A b \in Nat : b \in Good
    <3> HIDE DEF Good
    <3> QED BY <1>8, <1>9, NatSetInduction
  <2> QED BY <1>0, <2>1
<1>11. g[n] = S
  <2>1. g[n] = First(S, Upto(n))
    BY <1>0 DEF g
  <2>2. Upto(n) = Len(S)
    BY <1>0, Starts DEF Upto, Cuts
  <2>3. First(S, Len(S)) = S
    BY <1>0, FirstIs
  <2> QED BY <2>1, <2>2, <2>3
<1> QED BY <1>6, <1>10, <1>11

\* A loop of n iterations over values of X has exactly one run.
Iterates(h, n, x, G) == h[0] = x /\ \A i \in 1..n : h[i] = G[<<i, h[i - 1]>>]
Follows(k, n, x, X, G) ==
  k[0] = x /\ \A i \in 1..n : k[i - 1] \in X => k[i] = G[<<i, k[i - 1]>>]
TheRun(h, n, x, X, G) ==
  /\ h \in [0..n -> X] /\ Iterates(h, n, x, G)
  /\ \A k : Follows(k, n, x, X, G) => \A i \in 0..n : k[i] = h[i]

\* Such a loop has a run, and whatever follows the loop agrees with it.
LEMMA OneRun ==
  ASSUME NEW n \in Nat, NEW X, NEW x \in X, NEW G \in [(1..n) \X X -> X]
  PROVE  \E h : TheRun(h, n, x, X, G)
<1> DEFINE P(m) == m <= n => \E h : h \in [0..m -> X] /\ Iterates(h, m, x, G)
           Good == {m \in Nat : P(m)}
<1>1. 0 \in Good
  <2>1. [i \in 0..0 |-> x] \in [0..0 -> X] /\ Iterates([i \in 0..0 |-> x], 0, x, G)
    BY DEF Iterates
  <2> QED BY <2>1
<1>2. ASSUME NEW m \in Nat, m \in Good PROVE m + 1 \in Good
  <2> SUFFICES ASSUME m + 1 <= n
               PROVE  \E h : h \in [0..(m + 1) -> X] /\ Iterates(h, m + 1, x, G)
    OBVIOUS
  <2>0. m <= n /\ m + 1 \in 1..n
    OBVIOUS
  <2>1. PICK g : g \in [0..m -> X] /\ Iterates(g, m, x, G)
    BY <1>2, <2>0
  <2> DEFINE last == G[<<m + 1, g[m]>>]
             h == [i \in 0..(m + 1) |-> IF i <= m THEN g[i] ELSE last]
  <2>2. last \in X
    <3>1. g[m] \in X /\ <<m + 1, g[m]>> \in (1..n) \X X
      BY <2>0, <2>1
    <3> QED BY <3>1
  <2>3. h \in [0..(m + 1) -> X] /\ h[0] = x
    <3> HIDE DEF last
    <3> QED BY <2>1, <2>2 DEF Iterates
  <2>4. ASSUME NEW i \in 1..(m + 1) PROVE h[i] = G[<<i, h[i - 1]>>]
    <3>1. CASE i \in 1..m
      <4>1. h[i] = g[i] /\ h[i - 1] = g[i - 1]
        BY <3>1
      <4> QED BY <2>1, <3>1, <4>1 DEF Iterates
    <3>2. CASE i = m + 1
      <4>1. h[i] = last /\ h[i - 1] = g[m]
        <5> HIDE DEF last
        <5> QED BY <3>2
      <4> QED BY <3>2, <4>1
    <3> QED BY <3>1, <3>2
  <2>5. Iterates(h, m + 1, x, G)
    <3> HIDE DEF h
    <3> QED BY <2>3, <2>4 DEF Iterates
  <2> QED BY <2>3, <2>5
<1>3. \A m \in Nat : m \in Good
  <2> HIDE DEF Good
  <2> QED BY <1>1, <1>2, NatSetInduction
<1>4. PICK h : h \in [0..n -> X] /\ Iterates(h, n, x, G)
  BY <1>3
<1>5. ASSUME NEW k, Follows(k, n, x, X, G)
      PROVE  \A i \in 0..n : k[i] = h[i]
  <2> DEFINE Same == {i \in Nat : i <= n => k[i] = h[i]}
  <2>1. 0 \in Same
    BY <1>4, <1>5 DEF Iterates, Follows
  <2>2. ASSUME NEW i \in Nat, i \in Same PROVE i + 1 \in Same
    <3> SUFFICES ASSUME i + 1 <= n PROVE k[i + 1] = h[i + 1]
      OBVIOUS
    <3>1. k[i] = h[i] /\ h[i] \in X /\ i + 1 \in 1..n /\ (i + 1) - 1 = i
      BY <1>4, <2>2
    <3>2. k[i + 1] = G[<<i + 1, k[i]>>]
      BY <1>5, <3>1 DEF Follows
    <3>3. h[i + 1] = G[<<i + 1, h[i]>>]
      BY <1>4, <3>1 DEF Iterates
    <3> QED BY <3>1, <3>2, <3>3
  <2>3. \A i \in Nat : i \in Same
    <3> HIDE DEF Same
    <3> QED BY <2>1, <2>2, NatSetInduction
  <2> QED BY <2>3
<1> QED BY <1>4, <1>5 DEF TheRun

\* The run of Merge.
MergeRun(M, list, more) ==
  /\ M \in [0..Len(more) -> Seq(Ids)] /\ M[0] = list
  /\ \A i \in 1..Len(more) :
       M[i] = IF Index!Contains(M[i - 1], more[i]) THEN M[i - 1] ELSE Append(M[i - 1], more[i])
  /\ Index!Merge(list, more) = M[Len(more)]

\* Merge is the last list of that run.
LEMMA MergeSteps ==
  ASSUME NEW list \in Seq(Ids), NEW more \in Seq(Ids)
  PROVE  \E M : MergeRun(M, list, more)
<1> DEFINE n == Len(more)
           Step(i, w) == IF Index!Contains(w, more[i]) THEN w ELSE Append(w, more[i])
           G == [a \in (1..n) \X Seq(Ids) |-> Step(a[1], a[2])]
           Def(k) == [i \in 0..n |-> IF i = 0 THEN list ELSE Step(i, k[i - 1])]
           k == CHOOSE x : x = Def(x)
<1>0. n \in Nat
  OBVIOUS
<1>1. ASSUME NEW i \in 1..n, NEW w \in Seq(Ids) PROVE Step(i, w) \in Seq(Ids)
  <2>1. more[i] \in Ids
    OBVIOUS
  <2> QED BY <2>1
<1>2. Index!Merge(list, more) = k[n]
  BY DEF Index!Merge
<1> HIDE DEF Step, n
<1>3. G \in [(1..n) \X Seq(Ids) -> Seq(Ids)]
  BY <1>1
<1>4. \A i \in 1..n, w \in Seq(Ids) : G[<<i, w>>] = Step(i, w)
  OBVIOUS
<1> HIDE DEF G
<1>5. PICK h : TheRun(h, n, list, Seq(Ids), G)
  BY <1>0, <1>3, OneRun
<1>6. h[0] = list /\ \A i \in 1..n : h[i] = Step(i, h[i - 1])
  <2>1. \A i \in 1..n : h[i - 1] \in Seq(Ids)
    BY <1>0, <1>5 DEF TheRun
  <2> QED BY <1>4, <1>5, <2>1 DEF Iterates, TheRun
<1>7. h = Def(h)
  <2>1. ASSUME NEW i \in 0..n PROVE h[i] = IF i = 0 THEN list ELSE Step(i, h[i - 1])
    <3>1. i = 0 \/ i \in 1..n
      BY <1>0
    <3> QED BY <1>6, <3>1
  <2>2. h = [i \in 0..n |-> h[i]]
    BY <1>5 DEF TheRun
  <2> QED BY <2>1, <2>2
<1>8. k = Def(k)
  <2> HIDE DEF Def
  <2> QED BY <1>7
<1> HIDE DEF k
<1>9. k[0] = list /\ \A i \in 1..n : k[i] = Step(i, k[i - 1])
  BY <1>0, <1>8
<1>10. \A i \in 0..n : k[i] = h[i]
  <2>1. Follows(k, n, list, Seq(Ids), G)
    BY <1>4, <1>9 DEF Follows
  <2> QED BY <1>5, <2>1 DEF TheRun
<1>11. k[n] = h[n]
  BY <1>0, <1>10
<1>12. h \in [0..n -> Seq(Ids)]
  BY <1>5 DEF TheRun
<1> QED BY <1>2, <1>6, <1>11, <1>12 DEF MergeRun, Step, n

\* Every id in a list once.
Once(s) == \A i, j \in 1..Len(s) : s[i] = s[j] => i = j

\* An id that is not in it may be added.
LEMMA OnceAppend ==
  ASSUME NEW s \in Seq(Ids), Once(s), NEW id \in Ids, ~Index!Contains(s, id)
  PROVE  Once(Append(s, id))
<1>1. \A i \in 1..Len(s) : Append(s, id)[i] = s[i] /\ s[i] # id
  BY DEF Index!Contains
<1>2. Append(s, id)[Len(s) + 1] = id /\ Len(Append(s, id)) = Len(s) + 1 /\ Len(s) \in Nat
  OBVIOUS
<1> HIDE DEF Once
<1>3. ASSUME NEW i \in 1..(Len(s) + 1), NEW j \in 1..(Len(s) + 1), Append(s, id)[i] = Append(s, id)[j]
      PROVE  i = j
  <2>1. (i \in 1..Len(s) \/ i = Len(s) + 1) /\ (j \in 1..Len(s) \/ j = Len(s) + 1)
    BY <1>2
  <2> QED BY <1>1, <1>2, <1>3, <2>1 DEF Once
<1> QED BY <1>2, <1>3 DEF Once

\* Merging keeps every id once, and lists only grow.
LEMMA MergeKeeps ==
  ASSUME NEW list \in Seq(Ids), Once(list), NEW more \in Seq(Ids), NEW M, MergeRun(M, list, more)
  PROVE  \A i \in 0..Len(more) : Once(M[i]) /\ Len(M[i]) <= Len(M[Len(more)])
<1> DEFINE n == Len(more)
<1>0. n \in Nat /\ \A i \in 0..n : M[i] \in Seq(Ids) /\ Len(M[i]) \in Nat
  <2>1. n \in Nat /\ M \in [0..n -> Seq(Ids)]
    BY DEF MergeRun
  <2> HIDE DEF n
  <2> QED BY <2>1
<1>1. ASSUME NEW i \in 1..n
      PROVE  Len(M[i - 1]) <= Len(M[i]) /\ (Once(M[i - 1]) => Once(M[i]))
  <2>1. i - 1 \in 0..n /\ more[i] \in Ids
    BY <1>0
  <2>2. M[i - 1] \in Seq(Ids)
    BY <1>0, <2>1
  <2>3. CASE Index!Contains(M[i - 1], more[i])
    BY <1>0, <2>2, <2>3 DEF MergeRun
  <2>4. CASE ~Index!Contains(M[i - 1], more[i])
    <3>1. M[i] = Append(M[i - 1], more[i])
      BY <2>4 DEF MergeRun
    <3> QED BY <2>1, <2>2, <2>4, <3>1, OnceAppend
  <2> QED BY <2>3, <2>4
<1> DEFINE Up == {i \in Nat : i <= n => Once(M[i])}
           Down == {i \in Nat : i <= n => Len(M[n - i]) <= Len(M[n])}
<1>2. \A i \in Nat : i \in Up
  <2>1. 0 \in Up
    BY DEF MergeRun
  <2>2. ASSUME NEW i \in Nat, i \in Up PROVE i + 1 \in Up
    <3> SUFFICES ASSUME i + 1 <= n PROVE Once(M[i + 1])
      OBVIOUS
    <3>1. Once(M[i]) /\ i + 1 \in 1..n /\ (i + 1) - 1 = i
      BY <1>0, <2>2
    <3> QED BY <1>1, <3>1
  <2> HIDE DEF Up
  <2> QED BY <2>1, <2>2, NatSetInduction
<1>3. \A i \in Nat : i \in Down
  <2>1. 0 \in Down
    <3>1. n - 0 = n
      BY <1>0
    <3> QED BY <1>0, <3>1
  <2>2. ASSUME NEW i \in Nat, i \in Down PROVE i + 1 \in Down
    <3> SUFFICES ASSUME i + 1 <= n PROVE Len(M[n - (i + 1)]) <= Len(M[n])
      OBVIOUS
    <3>1. Len(M[n - i]) <= Len(M[n]) /\ n - i \in 1..n /\ (n - i) - 1 = n - (i + 1)
      BY <1>0, <2>2
    <3>2. Len(M[n - (i + 1)]) <= Len(M[n - i])
      BY <1>1, <3>1
    <3>3. Len(M[n - (i + 1)]) \in Nat /\ Len(M[n - i]) \in Nat /\ Len(M[n]) \in Nat
      BY <1>0
    <3> QED BY <3>1, <3>2, <3>3
  <2> HIDE DEF Down
  <2> QED BY <2>1, <2>2, NatSetInduction
<1>4. ASSUME NEW i \in 0..n PROVE Once(M[i]) /\ Len(M[i]) <= Len(M[n])
  <2>1. i \in Nat /\ i <= n /\ n - i \in Nat /\ n - i <= n /\ n - (n - i) = i
    BY <1>0
  <2> QED BY <1>2, <1>3, <2>1
<1> QED BY <1>4

\* Ids that are new are all added.
LEMMA MergeFresh ==
  ASSUME NEW list \in Seq(Ids), NEW more \in Seq(Ids), Once(more),
         \A i \in 1..Len(more) : ~Index!Contains(list, more[i])
  PROVE  Len(Index!Merge(list, more)) = Len(list) + Len(more)
<1> DEFINE n == Len(more)
<1>1. PICK M : MergeRun(M, list, more)
  BY MergeSteps
<1>2. n \in Nat /\ M \in [0..n -> Seq(Ids)] /\ M[0] = list /\ Len(list) \in Nat
  BY <1>1 DEF MergeRun
<1> DEFINE Known(i, x) == Index!Contains(list, x) \/ \E j \in 1..i : more[j] = x
           Good == {i \in Nat : i <= n => /\ Len(M[i]) = Len(list) + i
                                          /\ \A a \in 1..Len(M[i]) : Known(i, M[i][a])}
<1>3. 0 \in Good
  BY <1>2 DEF Index!Contains
<1>4. ASSUME NEW i \in Nat, i \in Good PROVE i + 1 \in Good
  <2> SUFFICES ASSUME i + 1 <= n
               PROVE  /\ Len(M[i + 1]) = Len(list) + (i + 1)
                      /\ \A a \in 1..Len(M[i + 1]) : Known(i + 1, M[i + 1][a])
    OBVIOUS
  <2>1. /\ i + 1 \in 1..n /\ i \in 0..n /\ (i + 1) - 1 = i /\ more[i + 1] \in Ids
        /\ Len(M[i]) = Len(list) + i /\ \A a \in 1..Len(M[i]) : Known(i, M[i][a])
    BY <1>2, <1>4
  <2>2. M[i] \in Seq(Ids)
    BY <1>2, <2>1
  <2>3. ~Known(i, more[i + 1])
    <3>1. ~Index!Contains(list, more[i + 1])
      BY <2>1
    <3>2. \A j \in 1..i : more[j] # more[i + 1]
      BY <2>1 DEF Once
    <3> QED BY <3>1, <3>2
  <2>4. ~Index!Contains(M[i], more[i + 1])
    <3> HIDE DEF Known
    <3> QED BY <2>1, <2>3 DEF Index!Contains
  <2>5. M[i + 1] = Append(M[i], more[i + 1])
    BY <1>1, <2>1, <2>4 DEF MergeRun
  <2>6. Len(M[i + 1]) = Len(M[i]) + 1 /\ Len(M[i]) \in Nat
    BY <2>1, <2>2, <2>5
  <2>7. ASSUME NEW a \in 1..Len(M[i + 1]) PROVE Known(i + 1, M[i + 1][a])
    <3>1. CASE a \in 1..Len(M[i])
      <4>1. M[i + 1][a] = M[i][a] /\ Known(i, M[i][a])
        <5> HIDE DEF Known
        <5> QED BY <2>1, <2>2, <2>5, <3>1
      <4> QED BY <4>1
    <3>2. CASE a = Len(M[i]) + 1
      <4>1. M[i + 1][a] = more[i + 1]
        BY <2>1, <2>2, <2>5, <3>2
      <4>2. i + 1 \in 1..(i + 1)
        OBVIOUS
      <4> QED BY <4>1, <4>2
    <3>3. a \in 1..Len(M[i]) \/ a = Len(M[i]) + 1
      BY <2>6
    <3> QED BY <3>1, <3>2, <3>3
  <2>8. Len(M[i + 1]) = Len(list) + (i + 1)
    BY <1>2, <2>1, <2>6
  <2> QED BY <2>7, <2>8
<1>5. \A i \in Nat : i \in Good
  <2> HIDE DEF Good
  <2> QED BY <1>3, <1>4, NatSetInduction
<1>6. Len(M[n]) = Len(list) + n
  BY <1>2, <1>5
<1> QED BY <1>1, <1>6 DEF MergeRun

Stores == [bs : [Index!BucketIndex -> Seq(Ids)], count : Nat]

\* The two cases of AppendToBuckets.
LEMMA AppendsTo ==
  ASSUME NEW s \in Stores, NEW id \in Ids
  PROVE  LET z == Index!AppendToBuckets(s, id)
             last == s.count - 1
         IN /\ z \in Stores
            /\ s.count > 0 /\ Len(s.bs[last]) < BucketSize =>
                 z.bs = [s.bs EXCEPT ![last] = Append(s.bs[last], id)] /\ z.count = s.count
            /\ ~(s.count > 0 /\ Len(s.bs[last]) < BucketSize) =>
                 z.bs = [s.bs EXCEPT ![s.count] = <<id>>] /\ z.count = s.count + 1
<1> DEFINE last == s.count - 1
<1>1. s.bs \in [Index!BucketIndex -> Seq(Ids)] /\ s.count \in Nat
  BY DEF Stores
<1>2. CASE s.count > 0 /\ Len(s.bs[last]) < BucketSize
  <2>1. Index!AppendToBuckets(s, id) = [s EXCEPT !.bs[last] = Append(@, id)]
    BY <1>2 DEF Index!AppendToBuckets
  <2>2. Index!AppendToBuckets(s, id) =
          [s EXCEPT !.bs = [s.bs EXCEPT ![last] = Append(s.bs[last], id)]]
    BY <2>1
  <2>3. [s.bs EXCEPT ![last] = Append(s.bs[last], id)] \in [Index!BucketIndex -> Seq(Ids)]
    <3>1. ASSUME last \in Index!BucketIndex PROVE Append(s.bs[last], id) \in Seq(Ids)
      <4>1. s.bs[last] \in Seq(Ids)
        BY <1>1, <3>1
      <4> QED BY <4>1
    <3> QED BY <1>1, <3>1
  <2> QED BY <1>1, <1>2, <2>2, <2>3 DEF Stores
<1>3. CASE ~(s.count > 0 /\ Len(s.bs[last]) < BucketSize)
  <2>1. Index!AppendToBuckets(s, id) =
          [bs |-> [s.bs EXCEPT ![s.count] = <<id>>], count |-> s.count + 1]
    BY <1>3 DEF Index!AppendToBuckets
  <2>2. <<id>> \in Seq(Ids)
    OBVIOUS
  <2>3. [s.bs EXCEPT ![s.count] = <<id>>] \in [Index!BucketIndex -> Seq(Ids)]
    BY <1>1, <2>2
  <2> QED BY <1>1, <1>3, <2>1, <2>3 DEF Stores
<1> QED BY <1>2, <1>3

\* append_project_id_to_buckets finds the end of the list.
LEMMA CutsAppendTo ==
  ASSUME NEW s \in Stores, NEW id \in Ids, NEW S, Cuts(S, s.bs, s.count),
         Len(S) < Start(MaxBuckets)
  PROVE  LET z == Index!AppendToBuckets(s, id) IN Cuts(Append(S, id), z.bs, z.count)
<1> DEFINE n == s.count
           last == n - 1
           z == Index!AppendToBuckets(s, id)
<1>0. /\ BucketSize \in Nat /\ BucketSize > 0 /\ MaxBuckets \in Nat /\ n \in Nat /\ n <= MaxBuckets
      /\ Index!BucketIndex = 0..MaxBuckets - 1 /\ S \in Seq(Ids) /\ Len(S) \in Nat
      /\ s.bs \in [Index!BucketIndex -> Seq(Ids)]
      /\ Len(S) <= Start(n) /\ (n > 0 => Len(S) > Start(last)) /\ Start(n) \in Nat
  <2>1. /\ BucketSize \in Nat /\ BucketSize > 0 /\ MaxBuckets \in Nat
        /\ Index!BucketIndex = 0..MaxBuckets - 1
    BY IndexConstants DEF Index!BucketIndex
  <2>2. /\ n \in 0..MaxBuckets /\ S \in Seq(Ids) /\ s.bs \in [Index!BucketIndex -> Seq(Ids)]
        /\ Len(S) <= Start(n) /\ (n > 0 => Len(S) > Start(last))
    BY DEF Cuts
  <2>3. n \in Nat /\ n <= MaxBuckets /\ Len(S) \in Nat
    BY <2>1, <2>2
  <2> QED BY <2>1, <2>2, <2>3, Starts
<1>1. n > 0 => /\ last \in Nat /\ last \in Index!BucketIndex /\ Start(last) \in Nat
               /\ Start(n) = Start(last) + BucketSize /\ Len(s.bs[last]) = Fill(Len(S), last)
  <2> SUFFICES ASSUME n > 0 PROVE
               /\ last \in Nat /\ last \in Index!BucketIndex /\ Start(last) \in Nat
               /\ Start(n) = Start(last) + BucketSize /\ Len(s.bs[last]) = Fill(Len(S), last)
    OBVIOUS
  <2>1. last \in Nat /\ last \in Index!BucketIndex /\ last + 1 = n
    BY <1>0
  <2>2. Start(last) \in Nat /\ Start(last + 1) = Start(last) + BucketSize
    BY <2>1, Starts
  <2> QED BY <2>1, <2>2 DEF Cuts
<1>2. CASE n > 0 /\ Len(s.bs[last]) < BucketSize
  <2>1. z.bs = [s.bs EXCEPT ![last] = Append(s.bs[last], id)] /\ z.count = n
    BY <1>1, <1>2, AppendsTo
  <2>2. Start(last) <= Len(S) /\ Len(S) < Start(last) + BucketSize
    BY <1>0, <1>1, <1>2 DEF Fill
  <2>3. last + 1 = n
    BY <1>0
  <2>4. Cuts(Append(S, id), [s.bs EXCEPT ![last] = Append(s.bs[last], id)], last + 1)
    <3> HIDE DEF n, last
    <3> QED BY <1>1, <1>2, <2>2, CutsAppend DEF n
  <2> QED BY <2>1, <2>3, <2>4
<1>3. CASE ~(n > 0 /\ Len(s.bs[last]) < BucketSize)
  <2>1. z.bs = [s.bs EXCEPT ![n] = <<id>>] /\ z.count = n + 1
    BY <1>3, AppendsTo
  <2>2. Len(S) = Start(n)
    <3>1. CASE n = 0
      BY <1>0, <3>1, Starts
    <3>2. CASE n > 0
      BY <1>0, <1>1, <1>3, <3>2 DEF Fill
    <3> QED BY <1>0, <3>1, <3>2
  <2>3. n \in Index!BucketIndex
    <3>1. n # MaxBuckets
      BY <1>0, <2>2
    <3> QED BY <1>0, <3>1
  <2>4. /\ s.bs[n] = <<>>
        /\ Cuts(Append(S, id), [s.bs EXCEPT ![n] = Append(s.bs[n], id)], n + 1)
    <3>1. Start(n) <= Len(S) /\ Len(S) < Start(n) + BucketSize
      BY <1>0, <2>2
    <3> HIDE DEF n, last
    <3> QED BY <2>3, <3>1, CutsAppend DEF n
  <2>5. Append(s.bs[n], id) = <<id>>
    BY <2>4
  <2> QED BY <2>1, <2>4, <2>5
<1> QED BY <1>2, <1>3

\* Folding the flat list in gives the buckets of the merged list.
LEMMA MigratedCuts ==
  ASSUME NEW S, Cuts(S, buckets, bucketCount), Once(S), flat \in Seq(Ids),
         Len(Index!Merge(S, flat)) <= Start(MaxBuckets)
  PROVE  LET m == Index!Migrated
             A == Index!Merge(S, flat)
         IN Cuts(A, m.bs, m.count) /\ Once(A) /\ A \in Seq(Ids)
<1> DEFINE n == Len(flat)
           init == [bs |-> buckets, count |-> bucketCount]
           Step(i, s) == IF Index!Contains(Index!BucketedIds(s.bs, s.count), flat[i]) THEN s
                         ELSE Index!AppendToBuckets(s, flat[i])
           G == [a \in (1..n) \X Stores |-> Step(a[1], a[2])]
           Def(k) == [i \in 0..n |-> IF i = 0 THEN init ELSE Step(i, k[i - 1])]
           k == CHOOSE x : x = Def(x)
<1>0. n \in Nat /\ S \in Seq(Ids) /\ init \in Stores /\ flat # NoFlat
  <2>1. S \in Seq(Ids) /\ buckets \in [Index!BucketIndex -> Seq(Ids)] /\ bucketCount \in 0..MaxBuckets
    BY DEF Cuts
  <2>2. bucketCount \in Nat
    BY <2>1, IndexConstants
  <2> QED BY <2>1, <2>2, IndexConstants DEF Stores
<1>1. ASSUME NEW i \in 1..n, NEW s \in Stores PROVE Step(i, s) \in Stores
  <2>1. flat[i] \in Ids
    OBVIOUS
  <2> QED BY <2>1, AppendsTo
<1>2. Index!Migrated = k[n]
  BY <1>0 DEF Index!Migrated
<1> HIDE DEF Step, n, init
<1>3. G \in [(1..n) \X Stores -> Stores]
  BY <1>1
<1>4. \A i \in 1..n, s \in Stores : G[<<i, s>>] = Step(i, s)
  OBVIOUS
<1> HIDE DEF G
<1>5. PICK h : TheRun(h, n, init, Stores, G)
  BY <1>0, <1>3, OneRun
<1>6. h[0] = init /\ \A i \in 1..n : h[i] = Step(i, h[i - 1])
  <2>1. \A i \in 1..n : h[i - 1] \in Stores
    BY <1>0, <1>5 DEF TheRun
  <2> QED BY <1>4, <1>5, <2>1 DEF Iterates, TheRun
<1>7. h = Def(h)
  <2>1. ASSUME NEW i \in 0..n PROVE h[i] = IF i = 0 THEN init ELSE Step(i, h[i - 1])
    <3>1. i = 0 \/ i \in 1..n
      BY <1>0
    <3> QED BY <1>6, <3>1
  <2>2. h = [i \in 0..n |-> h[i]]
    BY <1>5 DEF TheRun
  <2> QED BY <2>1, <2>2
<1>8. k = Def(k)
  <2> HIDE DEF Def
  <2> QED BY <1>7
<1> HIDE DEF k
<1>9. k[0] = init /\ \A i \in 1..n : k[i] = Step(i, k[i - 1])
  BY <1>0, <1>8
<1>10. \A i \in 0..n : k[i] = h[i]
  <2>1. Follows(k, n, init, Stores, G)
    BY <1>4, <1>9 DEF Follows
  <2> QED BY <1>5, <2>1 DEF TheRun
<1>11. \A i \in 0..n : h[i] \in Stores
  BY <1>5 DEF TheRun
<1>12. PICK M : MergeRun(M, S, flat)
  BY <1>0, MergeSteps
<1>13. \A i \in 0..n : M[i] \in Seq(Ids)
  BY <1>12 DEF MergeRun, n
<1>14. Index!Merge(S, flat) = M[n]
  BY <1>12 DEF MergeRun, n
<1>15. \A i \in 0..n : Once(M[i]) /\ Len(M[i]) <= Len(M[n])
  BY <1>0, <1>12, MergeKeeps DEF n
<1> DEFINE Good == {i \in Nat : i <= n => Cuts(M[i], h[i].bs, h[i].count)}
<1>16. 0 \in Good
  <2>1. M[0] = S /\ h[0].bs = buckets /\ h[0].count = bucketCount
    BY <1>6, <1>12 DEF MergeRun, init
  <2> QED BY <2>1
<1>17. ASSUME NEW i \in Nat, i \in Good PROVE i + 1 \in Good
  <2> SUFFICES ASSUME i + 1 <= n PROVE Cuts(M[i + 1], h[i + 1].bs, h[i + 1].count)
    OBVIOUS
  <2>1. /\ Cuts(M[i], h[i].bs, h[i].count) /\ i \in 0..n /\ i + 1 \in 0..n /\ i + 1 \in 1..n
        /\ (i + 1) - 1 = i
    BY <1>0, <1>17
  <2>2. h[i] \in Stores /\ M[i] \in Seq(Ids) /\ flat[i + 1] \in Ids
    BY <1>11, <1>13, <2>1 DEF n
  <2>3. Index!BucketedIds(h[i].bs, h[i].count) = M[i]
    BY <2>1, CutsRead
  <2>4. M[i + 1] = IF Index!Contains(M[i], flat[i + 1]) THEN M[i] ELSE Append(M[i], flat[i + 1])
    BY <1>12, <2>1 DEF MergeRun, n
  <2>5. h[i + 1] = IF Index!Contains(M[i], flat[i + 1]) THEN h[i]
                   ELSE Index!AppendToBuckets(h[i], flat[i + 1])
    BY <1>6, <2>1, <2>3 DEF Step
  <2>6. CASE Index!Contains(M[i], flat[i + 1])
    BY <2>1, <2>4, <2>5, <2>6
  <2>7. CASE ~Index!Contains(M[i], flat[i + 1])
    <3>1. M[i + 1] = Append(M[i], flat[i + 1]) /\ Len(M[i + 1]) = Len(M[i]) + 1
      BY <2>2, <2>4, <2>7
    <3>2. Len(M[i + 1]) <= Len(M[n]) /\ Len(M[n]) <= Start(MaxBuckets)
      BY <1>14, <1>15, <2>1
    <3>3. Len(M[i]) \in Nat /\ Len(M[i + 1]) \in Nat /\ Len(M[n]) \in Nat
          /\ Start(MaxBuckets) \in Nat
      <4>1. n \in 0..n
        BY <1>0
      <4>2. M[i] \in Seq(Ids) /\ M[i + 1] \in Seq(Ids) /\ M[n] \in Seq(Ids)
        BY <1>13, <2>1, <4>1
      <4>3. Start(MaxBuckets) \in Nat
        BY IndexConstants, Starts
      <4> QED BY <4>2, <4>3
    <3>4. Len(M[i]) < Start(MaxBuckets)
      BY <3>1, <3>2, <3>3
    <3>5. h[i + 1] = Index!AppendToBuckets(h[i], flat[i + 1])
      BY <2>5, <2>7
    <3> QED BY <2>1, <2>2, <3>1, <3>4, <3>5, CutsAppendTo
  <2> QED BY <2>6, <2>7
<1>18. \A i \in Nat : i \in Good
  <2> HIDE DEF Good
  <2> QED BY <1>16, <1>17, NatSetInduction
<1>19. n \in 0..n /\ Cuts(M[n], h[n].bs, h[n].count)
  BY <1>0, <1>18
<1>20. k[n] = h[n]
  BY <1>10, <1>19
<1> QED BY <1>2, <1>13, <1>14, <1>15, <1>19, <1>20

-----------------------------------------------------------------------------
(* Pages *)

\* The elements of a list after the i-th, up to the e-th.
Cut(s, i, e) == SubSeq(s, i + 1, e)

\* They are a list.
LEMMA CutIs ==
  ASSUME NEW X, NEW s \in Seq(X), NEW i \in Nat, NEW e \in Nat, e <= Len(s)
  PROVE  /\ Cut(s, i, e) \in Seq(X)
         /\ Len(Cut(s, i, e)) = IF i < e THEN e - i ELSE 0
         /\ \A j \in 1..Len(Cut(s, i, e)) : Cut(s, i, e)[j] = s[i + j]
         /\ e <= i => Cut(s, i, e) = <<>>
<1>1. CASE i < e
  <2>1. Len(SubSeq(s, i + 1, e)) = e - i
    BY <1>1
  <2>2. \A j \in 1..(e - i) : SubSeq(s, i + 1, e)[j] = s[i + j]
    BY <1>1
  <2>3. \A j \in (i + 1)..e : s[j] \in X
    OBVIOUS
  <2>4. SubSeq(s, i + 1, e) \in Seq(X)
    BY <1>1, <2>3
  <2> QED BY <1>1, <2>1, <2>2, <2>4 DEF Cut
<1>2. CASE ~(i < e)
  <2>1. SubSeq(s, i + 1, e) = <<>>
    BY <1>2
  <2> QED BY <1>2, <2>1 DEF Cut
<1> QED BY <1>1, <1>2

\* The part of a list after position i, up to `end'.
End(S, end) == IF end < Len(S) THEN end ELSE Len(S)
Piece(S, i, end) == Cut(S, i, End(S, end))

\* What a page, a piece of the list that may reach past its end, holds.
LEMMA PieceIs ==
  ASSUME NEW S \in Seq(Ids), NEW i \in Nat, NEW end \in Nat
  PROVE  /\ Piece(S, i, end) \in Seq(Ids)
         /\ Len(Piece(S, i, end)) = (IF i < End(S, end) THEN End(S, end) - i ELSE 0)
         /\ \A j \in 1..Len(Piece(S, i, end)) : Piece(S, i, end)[j] = S[i + j]
         /\ End(S, end) <= i => Piece(S, i, end) = <<>>
         /\ End(S, end) \in Nat /\ End(S, end) <= Len(S) /\ End(S, end) <= end
         /\ End(S, end) = Len(S) \/ End(S, end) = end
<1>1. /\ End(S, end) \in Nat /\ End(S, end) <= Len(S) /\ End(S, end) <= end
      /\ End(S, end) = Len(S) \/ End(S, end) = end
  BY DEF End
<1> QED BY <1>1, CutIs DEF Piece

\* Where a bucket's place for a position i lies in the list.
LEMMA InBucket ==
  ASSUME NEW S, NEW bs, NEW n, Cuts(S, bs, n), NEW b \in Nat, b < n
  PROVE  /\ BucketSize \in Nat /\ BucketSize > 0 /\ Start(b) \in Nat
         /\ S \in Seq(Ids) /\ Len(S) \in Nat /\ bs[b] \in Seq(Ids) /\ Len(bs[b]) \in Nat
         /\ \/ Len(bs[b]) = BucketSize /\ Start(b) + BucketSize <= Len(S)
            \/ Len(bs[b]) = Len(S) - Start(b) /\ Len(S) < Start(b) + BucketSize
         /\ \A j \in 1..Len(bs[b]) : bs[b][j] = S[Start(b) + j]
<1>1. /\ n \in 0..MaxBuckets /\ MaxBuckets \in Nat /\ BucketSize \in Nat /\ BucketSize > 0
      /\ S \in Seq(Ids)
  BY IndexConstants DEF Cuts
<1>2. b \in Index!BucketIndex /\ n > 0 /\ n - 1 \in Nat
  BY <1>1 DEF Index!BucketIndex
<1>3. /\ Len(bs[b]) = Fill(Len(S), b) /\ \A j \in 1..Len(bs[b]) : bs[b][j] = S[Start(b) + j]
      /\ bs[b] \in Seq(Ids)
  BY <1>2 DEF Cuts
<1>4. Start(b) < Len(S) /\ Start(b) \in Nat
  <2>1. Start(n - 1) < Len(S)
    BY <1>2 DEF Cuts
  <2>2. Start(b) \in Nat /\ Start(n - 1) \in Nat
    BY <1>2, Starts
  <2>3. b = n - 1 \/ Start(b) + BucketSize <= Start(n - 1)
    BY <1>1, <1>2, Starts
  <2> QED BY <1>1, <2>1, <2>2, <2>3
<1>5. Len(S) \in Nat /\ Len(bs[b]) \in Nat
  BY <1>1, <1>3
<1> QED BY <1>1, <1>3, <1>4, <1>5 DEF Fill

\* A position behind the last bucket's ids is behind the list.
LEMMA BehindBucket ==
  ASSUME NEW S, NEW bs, NEW n, Cuts(S, bs, n), NEW end \in Nat, NEW b \in Nat, b < n,
         NEW o \in Nat, o < BucketSize, Len(bs[b]) <= o
  PROVE  /\ Piece(S, Start(b) + o, end) = <<>>
         /\ Piece(S, Start(b) + BucketSize, end) = <<>>
<1>1. Len(S) <= Start(b) + o /\ Start(b) + o \in Nat
  BY InBucket
<1>2. Len(S) <= Start(b) + BucketSize /\ Start(b) + BucketSize \in Nat
  BY <1>1, InBucket
<1>3. S \in Seq(Ids)
  BY InBucket
<1>4. End(S, end) \in Nat /\ End(S, end) <= Len(S) /\ Len(S) \in Nat
  BY <1>1, <1>3, PieceIs
<1>5. End(S, end) <= Start(b) + o /\ End(S, end) <= Start(b) + BucketSize
  BY <1>1, <1>2, <1>4
<1> QED BY <1>1, <1>2, <1>3, <1>5, PieceIs

\* One turn of the loop of get_project_ids_from_buckets: from position i of the
\* list, which is offset o of bucket b, it takes the ids up to offset m, which is
\* position j, ...
Turn(S, bs, n, end, b, o, m, i, j) ==
  /\ Cuts(S, bs, n) /\ end \in Nat /\ b \in Nat /\ b < n
  /\ o \in Nat /\ i \in Nat /\ i = Start(b) + o
  /\ m \in Nat /\ o < m /\ m <= Len(bs[b]) /\ j = i + (m - o) /\ j <= end

\* ... and leaves the rest to the next.
LEMMA PieceStep ==
  ASSUME NEW S, NEW bs, NEW n, NEW end, NEW b, NEW o, NEW m, NEW i, NEW j,
         Turn(S, bs, n, end, b, o, m, i, j)
  PROVE  Piece(S, i, end) = Cut(bs[b], o, m) \o Piece(S, j, end)
<1> DEFINE e == End(S, end)
           p == Cut(bs[b], o, m)
           r == Piece(S, j, end)
           w == Piece(S, i, end)
<1>1. /\ Cuts(S, bs, n) /\ end \in Nat /\ b \in Nat /\ b < n
      /\ o \in Nat /\ i \in Nat /\ i = Start(b) + o
      /\ m \in Nat /\ o < m /\ m <= Len(bs[b]) /\ j = i + (m - o) /\ j <= end
  BY DEF Turn
<1>2. /\ Start(b) \in Nat /\ S \in Seq(Ids) /\ Len(S) \in Nat /\ bs[b] \in Seq(Ids)
      /\ Len(bs[b]) \in Nat /\ Len(bs[b]) <= Len(S) - Start(b)
      /\ \A x \in 1..Len(bs[b]) : bs[b][x] = S[Start(b) + x]
  <2>1. /\ Start(b) \in Nat /\ S \in Seq(Ids) /\ Len(S) \in Nat /\ bs[b] \in Seq(Ids)
        /\ \A x \in 1..Len(bs[b]) : bs[b][x] = S[Start(b) + x]
    BY <1>1, InBucket
  <2>2. Len(bs[b]) \in Nat /\ Len(bs[b]) <= Len(S) - Start(b)
    <3>1. /\ Len(bs[b]) \in Nat /\ BucketSize \in Nat
          /\ \/ Len(bs[b]) = BucketSize /\ Start(b) + BucketSize <= Len(S)
             \/ Len(bs[b]) = Len(S) - Start(b) /\ Len(S) < Start(b) + BucketSize
      BY <1>1, InBucket
    <3>2. Start(b) \in Nat /\ Len(S) \in Nat
      BY <2>1
    <3> QED BY ONLY <3>1, <3>2
  <2> QED BY <2>1, <2>2
<1>3. j \in Nat /\ i < j /\ j <= Len(S)
  BY <1>1, <1>2
<1>4. S \in Seq(Ids) /\ bs[b] \in Seq(Ids) /\ i \in Nat /\ j \in Nat /\ end \in Nat
  BY <1>1, <1>2, <1>3
<1>5. /\ w \in Seq(Ids) /\ Len(w) = (IF i < e THEN e - i ELSE 0)
      /\ \A x \in 1..Len(w) : w[x] = S[i + x]
      /\ e \in Nat /\ (e = Len(S) \/ e = end)
  BY ONLY <1>4, PieceIs
<1>6. /\ r \in Seq(Ids) /\ Len(r) = (IF j < e THEN e - j ELSE 0)
      /\ \A x \in 1..Len(r) : r[x] = S[j + x]
  BY ONLY <1>4, PieceIs
<1>7. /\ p \in Seq(Ids) /\ Len(p) = (IF o < m THEN m - o ELSE 0)
      /\ \A x \in 1..Len(p) : p[x] = bs[b][o + x]
  <2>1. bs[b] \in Seq(Ids) /\ o \in Nat /\ m \in Nat /\ m <= Len(bs[b])
    BY <1>1, <1>4
  <2> QED BY ONLY <2>1, CutIs
<1> HIDE DEF p, r, w, e
<1>8. e \in Nat /\ j <= e /\ o \in Nat /\ m \in Nat /\ o < m /\ j = i + (m - o)
  BY <1>1, <1>3, <1>5
<1>9. Len(w) = e - i /\ Len(r) = e - j /\ Len(p) = m - o /\ Len(w) = Len(p) + Len(r)
  <2>1. /\ Len(w) = (IF i < e THEN e - i ELSE 0) /\ Len(r) = (IF j < e THEN e - j ELSE 0)
        /\ Len(p) = (IF o < m THEN m - o ELSE 0) /\ i \in Nat /\ j \in Nat /\ i < j
    BY <1>3, <1>4, <1>5, <1>6, <1>7
  <2>2. Len(w) = e - i
    BY ONLY <1>8, <2>1
  <2>3. Len(r) = e - j
    BY ONLY <1>8, <2>1
  <2>4. Len(p) = m - o
    BY ONLY <1>8, <2>1
  <2> QED BY ONLY <1>8, <2>1, <2>2, <2>3, <2>4
<1>10. ASSUME NEW x \in 1..Len(w) PROVE w[x] = (p \o r)[x]
  <2>0. x \in Nat /\ x > 0 /\ x <= e - i
    BY <1>8, <1>9
  <2>1. w[x] = S[i + x]
    BY <1>5
  <2>2. CASE x <= m - o
    <3>1. x \in 1..Len(p) /\ o + x \in 1..Len(bs[b])
      <4>1. m <= Len(bs[b]) /\ Len(bs[b]) \in Nat /\ Len(p) = m - o
        BY <1>1, <1>2, <1>9
      <4> QED BY ONLY <1>8, <2>0, <2>2, <4>1
    <3>2. (p \o r)[x] = p[x]
      BY ONLY <1>6, <1>7, <3>1
    <3>3. p[x] = bs[b][o + x]
      BY <1>7, <3>1
    <3>4. bs[b][o + x] = S[Start(b) + (o + x)] /\ Start(b) + (o + x) = i + x
      BY <1>1, <1>2, <2>0, <3>1
    <3> QED BY ONLY <2>1, <3>2, <3>3, <3>4
  <2>3. CASE x > m - o
    <3>1. Len(p) \in Nat /\ Len(r) \in Nat /\ p \in Seq(Ids) /\ r \in Seq(Ids)
      BY <1>6, <1>7
    <3>2. x - Len(p) \in 1..Len(r) /\ x \in (Len(p) + 1)..(Len(p) + Len(r))
      BY ONLY <1>4, <1>8, <1>9, <2>0, <2>3, <3>1
    <3>3. (p \o r)[x] = r[x - Len(p)]
      BY ONLY <3>1, <3>2
    <3>4. r[x - Len(p)] = S[j + (x - Len(p))]
      BY ONLY <1>6, <3>2
    <3>5. j + (x - Len(p)) = i + x
      BY ONLY <1>4, <1>8, <1>9, <2>0
    <3> QED BY ONLY <2>1, <3>3, <3>4, <3>5
  <2>4. x <= m - o \/ x > m - o
    BY ONLY <1>8, <2>0
  <2> QED BY <2>2, <2>3, <2>4
<1>11. w = p \o r
  <2> DEFINE c == p \o r
  <2>1. c \in Seq(Ids) /\ Len(c) = Len(p) + Len(r)
    BY ONLY <1>6, <1>7
  <2>2. w \in Seq(Ids) /\ Len(c) = Len(w) /\ \A x \in 1..Len(w) : w[x] = c[x]
    BY <1>5, <1>9, <1>10, <2>1
  <2> HIDE DEF c
  <2>3. w = c
    BY ONLY <2>1, <2>2
  <2> QED BY <2>3 DEF c
<1> QED BY <1>11 DEF w, p, r

\* The walk over the buckets collects the piece of the list it was asked for.
LEMMA PageIsPiece ==
  ASSUME NEW S, Cuts(S, buckets, bucketCount), bucketCount > 0,
         NEW start \in Nat, NEW limit \in Nat
  PROVE  Index!GetProjectIds(start, limit) = Piece(S, start, start + limit)
<1> DEFINE stop == start + limit
           N == stop + BucketSize
           at(i) == i \div BucketSize
           off(i) == i % BucketSize
           rest(i) == Len(buckets[at(i)]) - off(i)
           some(i) == IF rest(i) < stop - i THEN rest(i) ELSE stop - i
           Body(k, i) ==
             IF i >= stop \/ at(i) >= bucketCount THEN <<>>
             ELSE IF rest(i) <= 0 THEN k[(at(i) + 1) * BucketSize]
             ELSE SubSeq(buckets[at(i)], off(i) + 1, off(i) + some(i)) \o k[i + some(i)]
           g == [i \in 0..N |-> Piece(S, i, stop)]
           Def(k) == [i \in 0..N |-> Body(k, i)]
           f == CHOOSE k : k = Def(k)
<1>0. /\ BucketSize \in Nat /\ BucketSize > 0 /\ N \in Nat /\ stop \in Nat /\ bucketCount \in Nat
      /\ S \in Seq(Ids) /\ Len(S) \in Nat /\ Len(S) <= Start(bucketCount)
      /\ stop <= N
  <2>1. bucketCount \in 0..MaxBuckets /\ S \in Seq(Ids) /\ Len(S) <= Start(bucketCount)
    BY DEF Cuts
  <2> QED BY <2>1, IndexConstants
<1>1. Index!GetProjectIds(start, limit) = f[start]
  BY DEF Index!GetProjectIds
\* Where the walk goes from position i.
<1>2. ASSUME NEW i \in 0..N
      PROVE  \/ /\ i >= stop \/ at(i) >= bucketCount
                /\ Piece(S, i, stop) = <<>>
             \/ /\ ~(i >= stop \/ at(i) >= bucketCount) /\ rest(i) <= 0
                /\ (at(i) + 1) * BucketSize \in 0..N /\ (at(i) + 1) * BucketSize > i
                /\ Piece(S, i, stop) = Piece(S, (at(i) + 1) * BucketSize, stop)
             \/ /\ ~(i >= stop \/ at(i) >= bucketCount) /\ ~(rest(i) <= 0)
                /\ i + some(i) \in 0..N /\ i + some(i) > i
                /\ Piece(S, i, stop) =
                     SubSeq(buckets[at(i)], off(i) + 1, off(i) + some(i)) \o Piece(S, i + some(i), stop)
  <2> DEFINE c == at(i)
             o == off(i)
  <2>0. /\ i \in Nat /\ c \in Nat /\ o \in Nat /\ o < BucketSize /\ i = Start(c) + o
        /\ Start(c) \in Nat /\ (c + 1) * BucketSize = Start(c) + BucketSize
    <3>1. i \in Nat
      BY <1>0
    <3>2. c \in Nat /\ o \in 0..BucketSize - 1 /\ i = Start(c) + o
      BY <3>1, Places
    <3> HIDE DEF c, o
    <3>3. Start(c) \in Nat /\ Start(c + 1) = Start(c) + BucketSize
      BY <3>2, Starts
    <3> QED BY <1>0, <3>1, <3>2, <3>3 DEF Start
  <2> HIDE DEF at, off
  <2>1. CASE i >= stop \/ c >= bucketCount
    <3>1. End(S, stop) \in Nat /\ End(S, stop) <= Len(S) /\ End(S, stop) <= stop
      BY <1>0, <2>0, PieceIs
    <3>2. i >= stop \/ i >= Len(S)
      <4>1. CASE c >= bucketCount
        <5>1. c = bucketCount \/ Start(bucketCount) + BucketSize <= Start(c)
          BY <1>0, <2>0, <4>1, Starts
        <5>2. Start(bucketCount) \in Nat
          BY <1>0, Starts
        <5> QED BY <1>0, <2>0, <5>1, <5>2
      <4> QED BY <2>1, <4>1
    <3>3. End(S, stop) <= i
      BY <1>0, <2>0, <3>1, <3>2
    <3>4. Piece(S, i, stop) = <<>>
      BY <1>0, <2>0, <3>3, PieceIs
    <3> QED BY <2>1, <3>4
  <2>2. CASE ~(i >= stop \/ c >= bucketCount)
    <3>1. c < bucketCount /\ i < stop
      BY <1>0, <2>0, <2>2
    <3>2. Len(buckets[c]) \in Nat
      BY <2>0, <3>1, InBucket
    <3>3. CASE rest(i) <= 0
      <4>1. Len(buckets[c]) <= o
        BY <2>0, <3>2, <3>3
      <4>2. /\ Piece(S, Start(c) + o, stop) = <<>>
            /\ Piece(S, Start(c) + BucketSize, stop) = <<>>
        BY <1>0, <2>0, <3>1, <4>1, BehindBucket
      <4>3. Start(c) + BucketSize \in 0..N /\ Start(c) + BucketSize > i
        BY <1>0, <2>0, <3>1
      <4> QED BY <2>0, <2>2, <3>3, <4>2, <4>3
    <3>4. CASE ~(rest(i) <= 0)
      <4>1. /\ some(i) \in Nat /\ some(i) > 0 /\ o + some(i) <= Len(buckets[c])
            /\ i + some(i) <= stop
        <5> DEFINE l == rest(i)
                   t == some(i)
        <5> HIDE DEF stop, N, c, o
        <5>1. l = Len(buckets[c]) - o /\ l \in Int /\ l > 0
          BY <2>0, <3>2, <3>4 DEF c, o
        <5>2. t = (IF l < stop - i THEN l ELSE stop - i)
          OBVIOUS
        <5> HIDE DEF l, t
        <5>3. /\ t \in Nat /\ t > 0 /\ o + t <= Len(buckets[c]) /\ i + t <= stop
          <6>1. i \in Nat /\ o \in Nat /\ stop \in Nat /\ i < stop /\ Len(buckets[c]) \in Nat
            BY <1>0, <2>0, <3>1, <3>2
          <6> QED BY ONLY <5>1, <5>2, <6>1
        <5> QED BY <5>3 DEF t
      <4>2. i + some(i) \in 0..N /\ i + some(i) > i
        <5> HIDE DEF some, N, stop
        <5> QED BY <1>0, <2>0, <4>1
      <4>3. Piece(S, i, stop) =
              SubSeq(buckets[c], o + 1, o + some(i)) \o Piece(S, i + some(i), stop)
        <5> HIDE DEF some, stop, N, c, o
        <5>1. /\ stop \in Nat /\ c \in Nat /\ c < bucketCount /\ o \in Nat /\ i \in Nat
              /\ i = Start(c) + o /\ Cuts(S, buckets, bucketCount)
          BY <1>0, <2>0, <3>1
        <5>2. PICK t : t = some(i)
          OBVIOUS
        <5>3. t \in Nat /\ t > 0 /\ o + t <= Len(buckets[c]) /\ i + t <= stop
          BY <4>1, <5>2
        <5>4. PICK m, j : m = o + t /\ j = i + t
          OBVIOUS
        <5>5. m \in Nat /\ o < m /\ m <= Len(buckets[c]) /\ j = i + (m - o) /\ j <= stop
          BY ONLY <5>1, <5>3, <5>4
        <5>6. Turn(S, buckets, bucketCount, stop, c, o, m, i, j)
          BY ONLY <5>1, <5>5 DEF Turn
        <5>7. Piece(S, i, stop) = Cut(buckets[c], o, m) \o Piece(S, j, stop)
          BY ONLY <5>6, PieceStep
        <5> QED BY ONLY <5>2, <5>4, <5>7 DEF Cut
      <4> QED BY <2>2, <3>4, <4>2, <4>3
    <3> QED BY <3>3, <3>4
  <2> QED BY <2>1, <2>2
<1> HIDE DEF at, off, rest, some, N, stop
<1>3. ASSUME NEW k, NEW i \in 0..N, \A j \in 0..N : j > i => k[j] = g[j]
      PROVE  Body(k, i) = g[i]
  <2>0. \A j \in 0..N : g[j] = Piece(S, j, stop)
    OBVIOUS
  <2> HIDE DEF g
  <2>1. CASE i >= stop \/ at(i) >= bucketCount
    BY <1>2, <2>0, <2>1
  <2>2. CASE ~(i >= stop \/ at(i) >= bucketCount) /\ rest(i) <= 0
    <3> DEFINE j == (at(i) + 1) * BucketSize
    <3>1. j \in 0..N /\ j > i /\ Piece(S, i, stop) = Piece(S, j, stop)
      BY <1>2, <2>2
    <3>2. Body(k, i) = k[j]
      BY <2>2
    <3> HIDE DEF j, Body
    <3> QED BY <1>3, <2>0, <3>1, <3>2
  <2>3. CASE ~(i >= stop \/ at(i) >= bucketCount) /\ ~(rest(i) <= 0)
    <3> DEFINE j == i + some(i)
               p == SubSeq(buckets[at(i)], off(i) + 1, off(i) + some(i))
    <3>1. j \in 0..N /\ j > i /\ Piece(S, i, stop) = p \o Piece(S, j, stop)
      BY <1>2, <2>3
    <3>2. Body(k, i) = p \o k[j]
      BY <2>3
    <3> HIDE DEF j, Body, p
    <3> QED BY <1>3, <2>0, <3>1, <3>2
  <2> QED BY <2>1, <2>2, <2>3
<1> HIDE DEF Body
<1>4. g = Def(g)
  <2>1. \A i \in 0..N : Body(g, i) = g[i]
    BY <1>3
  <2>2. g = [i \in 0..N |-> g[i]]
    OBVIOUS
  <2> HIDE DEF g
  <2> QED BY <2>1, <2>2
<1>5. f = Def(f)
  <2> HIDE DEF Def, g
  <2> QED BY <1>4
<1> HIDE DEF f, g
<1>6. \A i \in 0..N : f[i] = Body(f, i)
  BY <1>5
<1>7. ASSUME NEW i \in 0..N, f[i] # g[i] PROVE FALSE
  <2> DEFINE T == {d \in Nat : d <= N /\ f[N - d] # g[N - d]}
  <2>1. N - i \in T
    <3>1. N - i \in Nat /\ N - i <= N /\ N - (N - i) = i
      BY <1>0
    <3> QED BY <1>7, <3>1
  <2>2. PICK d \in T : \A x \in T : d <= x
    <3>1. T \in SUBSET Nat /\ T # {}
      BY <2>1
    <3> HIDE DEF T
    <3> QED BY <3>1, LeastNat
  <2>3. d \in Nat /\ d <= N /\ f[N - d] # g[N - d] /\ N - d \in 0..N
    BY <1>0, <2>2
  <2>4. ASSUME NEW j \in 0..N, j > N - d PROVE f[j] = g[j]
    <3>1. N - j \in Nat /\ N - j <= N /\ N - (N - j) = j /\ N - j < d
      BY <1>0, <2>3, <2>4
    <3>2. N - j \notin T
      BY <2>2, <2>3, <3>1
    <3> QED BY <3>1, <3>2
  <2>5. Body(f, N - d) = g[N - d]
    BY <1>3, <2>3, <2>4
  <2> QED BY <1>6, <2>3, <2>5
<1>8. start \in 0..N
  BY <1>0 DEF N, stop
<1>9. f[start] = Piece(S, start, stop)
  BY <1>7, <1>8 DEF g
<1> QED BY <1>1, <1>9 DEF stop

\* The buckets hold the list S, and with what the flat list adds to it there are
\* as many ids as projects.
IndexHolds(S) ==
  /\ Cuts(S, buckets, bucketCount) /\ Once(S)
  /\ projectCount \in Nat /\ projectCount <= Start(MaxBuckets)
  /\ \/ flat = NoFlat /\ Len(S) = projectCount
     \/ flat \in Seq(Ids) /\ Len(Index!Merge(S, flat)) = projectCount

\* The inductive invariant of the project index.
IndexInv == \E S : IndexHolds(S)

\* Before the first bucket.
LEMMA NoBucketsCut == Cuts(<<>>, Index!NoBuckets, 0) /\ Once(<<>>)
<1>1. Index!NoBuckets \in [Index!BucketIndex -> Seq(Ids)]
  BY DEF Index!NoBuckets
<1>2. ASSUME NEW b \in Index!BucketIndex
      PROVE  Index!NoBuckets[b] = <<>> /\ Fill(0, b) = 0
  <2>1. b \in Nat
    BY IndexConstants DEF Index!BucketIndex
  <2>2. Start(b) \in Nat
    BY <2>1, Starts
  <2> QED BY <2>2, IndexConstants DEF Index!NoBuckets, Fill
<1>3. 0 \in 0..MaxBuckets /\ Start(0) = 0
  BY IndexConstants, Starts
<1>4. <<>> \in Seq(Ids) /\ Len(<<>>) = 0
  OBVIOUS
<1>5. Once(<<>>)
  BY DEF Once
<1>6. \A b \in Index!BucketIndex :
        /\ Len(Index!NoBuckets[b]) = Fill(Len(<<>>), b)
        /\ \A i \in 1..Len(Index!NoBuckets[b]) : Index!NoBuckets[b][i] = <<>>[Start(b) + i]
  BY <1>2, <1>4
<1>7. Len(<<>>) <= Start(0) /\ (0 > 0 => Len(<<>>) > Start(0 - 1))
  BY <1>3, <1>4
<1> QED BY <1>1, <1>3, <1>4, <1>5, <1>6, <1>7 DEF Cuts

\* A legacy list has no repeats and fits the buckets.
LEMMA LegacyLists ==
  ASSUME NEW list \in LegacyIds
  PROVE  /\ list \in Seq(Ids) /\ Once(list) /\ Len(list) \in Nat
         /\ Len(list) < Start(MaxBuckets) /\ 0 \in Index!BucketIndex
<1>1. list \in Seq(Ids) /\ Index!IsInjective(list) /\ Len(list) < MaxBuckets * BucketSize
  BY IndexAssumption DEF Index!IndexAssumption
<1>2. Once(list)
  <2>1. DOMAIN list = 1..Len(list)
    BY <1>1
  <2> QED BY <1>1, <2>1 DEF Index!IsInjective, Once
<1>3. Len(list) \in Nat /\ Len(list) < Start(MaxBuckets)
  BY <1>1 DEF Start
<1>4. MaxBuckets # 0
  BY <1>3, Starts
<1>5. 0 \in Index!BucketIndex
  BY <1>4, IndexConstants DEF Index!BucketIndex
<1> QED BY <1>1, <1>2, <1>3, <1>5

\* The three kinds of store a contract can start from satisfy the invariant.
LEMMA IndexStarts == ASSUME Index!Init PROVE IndexInv
<1>1. CASE Index!FreshIndex
  <2>1. IndexHolds(<<>>)
    <3>1. Start(MaxBuckets) \in Nat
      BY IndexConstants, Starts
    <3> QED BY <1>1, <3>1, NoBucketsCut DEF Index!FreshIndex, IndexHolds
  <2> QED BY <2>1 DEF IndexInv
<1>2. CASE Index!FlatIndex
  <2>1. /\ flat \in LegacyIds /\ buckets = Index!NoBuckets /\ bucketCount = 0
        /\ projectCount = Len(flat)
    BY <1>2 DEF Index!FlatIndex
  <2>2. /\ flat \in Seq(Ids) /\ Once(flat) /\ Len(flat) \in Nat /\ Len(flat) < Start(MaxBuckets)
        /\ Start(MaxBuckets) \in Nat
    BY <2>1, LegacyLists, IndexConstants, Starts
  <2>3. Len(Index!Merge(<<>>, flat)) = Len(<<>>) + Len(flat)
    <3>1. \A i \in 1..Len(flat) : ~Index!Contains(<<>>, flat[i])
      BY DEF Index!Contains
    <3>2. <<>> \in Seq(Ids)
      OBVIOUS
    <3> QED BY ONLY <2>2, <3>1, <3>2, MergeFresh
  <2>4. Len(Index!Merge(<<>>, flat)) = projectCount
    BY <2>1, <2>2, <2>3
  <2>5. IndexHolds(<<>>)
    BY <2>1, <2>2, <2>4, NoBucketsCut DEF IndexHolds
  <2> QED BY <2>5 DEF IndexInv
<1>3. CASE Index!MixedIndex
  <2>1. PICK id \in Ids : /\ ~Index!Contains(flat, id)
                          /\ buckets = [Index!NoBuckets EXCEPT ![0] = <<id>>]
    BY <1>3 DEF Index!MixedIndex
  <2>2. flat \in LegacyIds /\ bucketCount = 1 /\ projectCount = Len(flat) + 1
    BY <1>3 DEF Index!MixedIndex
  <2>3. /\ flat \in Seq(Ids) /\ Once(flat) /\ Len(flat) \in Nat /\ Len(flat) < Start(MaxBuckets)
        /\ Start(MaxBuckets) \in Nat /\ 0 \in Index!BucketIndex
    BY <2>2, LegacyLists, IndexConstants, Starts
  <2>4. <<id>> \in Seq(Ids) /\ Len(<<id>>) = 1 /\ <<id>>[1] = id
    OBVIOUS
  <2>5. Cuts(<<id>>, buckets, bucketCount)
    <3>1. Index!NoBuckets[0] = <<>>
      BY <2>3 DEF Index!NoBuckets
    <3>2. Append(<<>>, id) = <<id>>
      OBVIOUS
    <3>3. Start(0) <= Len(<<>>) /\ Len(<<>>) < Start(0) + BucketSize
      BY IndexConstants, Starts
    <3>4. Cuts(Append(<<>>, id), [Index!NoBuckets EXCEPT ![0] = Append(Index!NoBuckets[0], id)], 0 + 1)
      BY <2>3, <3>3, NoBucketsCut, CutsAppend
    <3> QED BY <2>1, <2>2, <3>1, <3>2, <3>4
  <2>6. Len(Index!Merge(<<id>>, flat)) = Len(<<id>>) + Len(flat)
    <3>1. \A i \in 1..Len(flat) : ~Index!Contains(<<id>>, flat[i])
      BY <2>1, <2>4 DEF Index!Contains
    <3> QED BY ONLY <2>3, <2>4, <3>1, MergeFresh
  <2>7. Len(Index!Merge(<<id>>, flat)) = projectCount
    BY <2>2, <2>3, <2>4, <2>6
  <2>8. Once(<<id>>)
    BY <2>4 DEF Once
  <2>9. projectCount \in Nat /\ projectCount <= Start(MaxBuckets)
    BY <2>2, <2>3
  <2>10. IndexHolds(<<id>>)
    BY <2>3, <2>5, <2>7, <2>8, <2>9 DEF IndexHolds
  <2> QED BY <2>10 DEF IndexInv
<1> QED BY <1>1, <1>2, <1>3 DEF Index!Init

\* The buckets after a migration hold the list of all ids.
LEMMA AfterMigration ==
  ASSUME IndexInv
  PROVE  LET m == Index!Migrated IN
         /\ Cuts(Index!AllIds, m.bs, m.count) /\ Once(Index!AllIds)
         /\ Index!AllIds \in Seq(Ids) /\ Len(Index!AllIds) = projectCount
<1>1. PICK S : IndexHolds(S)
  BY DEF IndexInv
<1>2. /\ Cuts(S, buckets, bucketCount) /\ Once(S) /\ S \in Seq(Ids)
      /\ projectCount <= Start(MaxBuckets)
  BY <1>1 DEF IndexHolds, Cuts
<1>3. Index!BucketedIds(buckets, bucketCount) = S
  BY <1>2, CutsRead
<1>4. CASE flat = NoFlat
  <2>1. Index!AllIds = S
    BY <1>3, <1>4 DEF Index!AllIds
  <2>2. Index!Migrated = [bs |-> buckets, count |-> bucketCount]
    BY <1>4 DEF Index!Migrated
  <2>3. Len(S) = projectCount
    BY <1>1, <1>4, IndexConstants DEF IndexHolds
  <2> QED BY <1>2, <2>1, <2>2, <2>3
<1>5. CASE flat # NoFlat
  <2>1. flat \in Seq(Ids) /\ Len(Index!Merge(S, flat)) = projectCount
    BY <1>1, <1>5 DEF IndexHolds
  <2>2. Index!AllIds = Index!Merge(S, flat)
    BY <1>3, <1>5 DEF Index!AllIds
  <2>3. Len(Index!Merge(S, flat)) <= Start(MaxBuckets)
    BY <1>2, <2>1
  <2> QED BY ONLY <1>2, <2>1, <2>2, <2>3, MigratedCuts
<1> QED BY <1>4, <1>5

\* The invariant implies what the index promises.
LEMMA IndexPromises ==
  ASSUME IndexInv
  PROVE  Index!IndexComplete /\ Index!PagesAreSlices
<1>1. /\ Once(Index!AllIds) /\ Index!AllIds \in Seq(Ids)
      /\ Len(Index!AllIds) = projectCount
  BY AfterMigration
<1>2. Index!IndexComplete
  <2>1. DOMAIN Index!AllIds = 1..Len(Index!AllIds)
    BY <1>1
  <2> QED BY <1>1, <2>1 DEF Index!IndexComplete, Index!IsInjective, Once
<1>3. ASSUME flat = NoFlat, NEW start \in 0..(projectCount + 1), NEW limit \in 0..(projectCount + 1)
      PROVE  Index!GetProjectIds(start, limit) = Index!Slice(Index!AllIds, start, limit)
  <2>1. PICK S : IndexHolds(S)
    BY DEF IndexInv
  <2>2. Cuts(S, buckets, bucketCount) /\ projectCount \in Nat /\ S \in Seq(Ids)
    BY <2>1 DEF IndexHolds, Cuts
  <2>3. Index!AllIds = S
    <3>1. Index!BucketedIds(buckets, bucketCount) = S
      BY <2>2, CutsRead
    <3> QED BY <1>3, <3>1 DEF Index!AllIds
  <2>4. start \in Nat /\ limit \in Nat /\ start + limit \in Nat
    BY <2>2
  <2>5. Index!Slice(S, start, limit) = Piece(S, start, start + limit)
    BY DEF Index!Slice, Piece, Cut, End
  <2>6. CASE bucketCount > 0
    BY <2>2, <2>3, <2>4, <2>5, <2>6, PageIsPiece
  <2>7. CASE ~(bucketCount > 0)
    <3>1. bucketCount = 0
      BY <2>2, <2>7, IndexConstants DEF Cuts
    <3>2. Len(S) <= 0 /\ Len(S) \in Nat
      BY <2>2, <3>1, Starts DEF Cuts
    <3>3. End(S, start + limit) \in Nat /\ End(S, start + limit) <= Len(S)
      BY <2>2, <2>4, PieceIs
    <3>4. Piece(S, start, start + limit) = <<>>
      <4>1. End(S, start + limit) <= start
        BY <2>4, <3>2, <3>3
      <4> QED BY <2>2, <2>4, <4>1, PieceIs
    <3>5. Index!GetProjectIds(start, limit) = <<>>
      BY <1>3, <2>7 DEF Index!GetProjectIds
    <3> QED BY <2>3, <2>5, <3>4, <3>5
  <2> QED BY <2>6, <2>7
<1>4. Index!PagesAreSlices
  BY <1>3 DEF Index!PagesAreSlices
<1> QED BY <1>2, <1>4

\* Migrations and creations keep the invariant.
LEMMA IndexKept == ASSUME IndexInv, Index!Next PROVE IndexInv'
<1> DEFINE m == Index!Migrated
           A == Index!AllIds
<1>1. Cuts(A, m.bs, m.count) /\ Once(A) /\ A \in Seq(Ids) /\ Len(A) = projectCount
  BY AfterMigration
<1>2. projectCount \in Nat /\ projectCount <= Start(MaxBuckets) /\ Start(MaxBuckets) \in Nat
  BY IndexConstants, Starts DEF IndexInv, IndexHolds
<1>3. CASE Index!MigrateFlatToBuckets
  <2>1. flat' = NoFlat /\ buckets' = m.bs /\ bucketCount' = m.count /\ projectCount' = projectCount
    BY <1>3 DEF Index!MigrateFlatToBuckets
  <2> HIDE DEF m, A
  <2>2. \E S : IndexHolds(S)'
    <3>1. /\ Cuts(A, buckets', bucketCount') /\ Once(A)
          /\ projectCount' \in Nat /\ projectCount' <= Start(MaxBuckets)
          /\ flat' = NoFlat /\ Len(A) = projectCount'
      BY <1>1, <1>2, <2>1
    <3> QED BY <3>1 DEF IndexHolds
  <2> QED BY <2>2 DEF IndexInv
<1>4. CASE \E id \in Ids : Index!CreateProject(id)
  <2>1. PICK id \in Ids : Index!CreateProject(id)
    BY <1>4
  <2> DEFINE t == projectCount \div BucketSize
             n == m.count
             bs == m.bs
  <2>2. /\ ~Index!Contains(A, id) /\ t < MaxBuckets
        /\ projectCount' = projectCount + 1 /\ flat' = NoFlat
        /\ t >= n => buckets' = [bs EXCEPT ![t] = <<id>>] /\ bucketCount' = n + 1
        /\ ~(t >= n) => buckets' = [bs EXCEPT ![t] = Append(bs[t], id)] /\ bucketCount' = n
    BY <2>1 DEF Index!CreateProject
  <2>3. /\ t \in Nat /\ Start(t) \in Nat /\ Start(t) <= projectCount
        /\ projectCount < Start(t) + BucketSize
    <3>1. /\ t \in Nat /\ (projectCount % BucketSize) \in 0..BucketSize - 1
          /\ projectCount = Start(t) + (projectCount % BucketSize)
      BY <1>2, Places
    <3> HIDE DEF t
    <3>2. Start(t) \in Nat
      BY <3>1, Starts
    <3> QED BY <3>1, <3>2, IndexConstants
  <2> HIDE DEF t, A
  <2>4. t \in Index!BucketIndex
    BY <2>2, <2>3, IndexConstants DEF Index!BucketIndex
  <2>5. /\ t \in {n - 1, n} /\ (t = n => bs[t] = <<>>)
        /\ Cuts(Append(A, id), [bs EXCEPT ![t] = Append(bs[t], id)], t + 1)
    <3>1. Cuts(A, bs, n) /\ Start(t) <= Len(A) /\ Len(A) < Start(t) + BucketSize
      BY <1>1, <2>3
    <3> HIDE DEF bs, n
    <3> QED BY <2>4, <3>1, CutsAppend
  <2>6. n \in Nat
    BY <1>1, IndexConstants DEF Cuts
  <2> HIDE DEF bs, n
  <2>7. buckets' = [bs EXCEPT ![t] = Append(bs[t], id)] /\ bucketCount' = t + 1
    <3>1. CASE t >= n
      <4>1. t = n /\ bs[t] = <<>>
        BY <2>3, <2>5, <2>6, <3>1
      <4>2. Append(bs[t], id) = <<id>>
        BY <4>1
      <4> QED BY <2>2, <3>1, <4>1, <4>2
    <3>2. CASE ~(t >= n)
      BY <2>2, <2>3, <2>5, <2>6, <3>2
    <3> QED BY <3>1, <3>2
  <2>8. Once(Append(A, id)) /\ Len(Append(A, id)) = projectCount'
    BY <1>1, <2>2, OnceAppend
  <2>9. projectCount' \in Nat /\ projectCount' <= Start(MaxBuckets)
    <3>1. Start(t) + BucketSize <= Start(MaxBuckets)
      BY <2>2, <2>3, IndexConstants, Starts
    <3> QED BY <1>2, <2>2, <2>3, <3>1, IndexConstants
  <2>10. \E S : IndexHolds(S)'
    BY <2>2, <2>5, <2>7, <2>8, <2>9 DEF IndexHolds
  <2> QED BY <2>10 DEF IndexInv
<1> QED BY <1>3, <1>4 DEF Index!Next

\* The union of both layouts names every project once, and pages of the buckets
\* are slices of it, for any legacy list, bucket size and order of creations and
\* migrations (get_all_project_ids, get_project_ids_from_buckets).
THEOREM IndexAlwaysSound == MCSpec => []IndexSound
<1>1. MCInit => (part = "index" => IndexInv)
  BY IndexStarts DEF MCInit, IndexInit
<1>2. (part = "index" => IndexInv) /\ [MCNext]_mcVars => (part = "index" => IndexInv)'
  <2> SUFFICES ASSUME part = "index" => IndexInv, [MCNext]_mcVars, part' = "index"
               PROVE  IndexInv'
    OBVIOUS
  <2>1. part = "index" /\ IndexInv
    BY DEF MCNext, mcVars
  <2>2. CASE UNCHANGED indexVars
    BY <2>1, <2>2 DEF indexVars, IndexInv, IndexHolds
  <2>3. CASE IndexStep
    BY <2>1, <2>3, IndexKept DEF IndexStep
  <2> QED BY <2>2, <2>3 DEF MCNext, mcVars
<1>3. (part = "index" => IndexInv) => IndexSound
  BY IndexPromises DEF IndexSound
<1> QED BY <1>1, <1>2, <1>3, PTL DEF MCSpec
=============================================================================
