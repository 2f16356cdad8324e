----------------------------- MODULE StorageTtl -----------------------------
(***************************************************************************)
(* The life time of the storage entries of one project (contracts/lib.rs). *)
(* The host gives a new persistent entry MinTtl ledgers, archives an entry *)
(* whose time is over, and makes a call that touches an archived entry     *)
(* fail until somebody restores it.  The contract extends entries as it    *)
(* reads and writes them.  The values are in module SplitContract; here is *)
(* which entries a successful call touches, and the order in which it      *)
(* writes and extends them.  A call that fails extends nothing.            *)
(*                                                                         *)
(* Ledgers are counted in units the instance chooses.                      *)
(***************************************************************************)
EXTENDS Integers

CONSTANTS
  Collabs,     \* collaborators of the project
  Threshold,   \* PROJECT_TTL_THRESHOLD_LEDGERS
  Bump,        \* PROJECT_TTL_BUMP_LEDGERS
  MinTtl       \* the life time the network gives a new entry

ASSUME TtlAssumption ==
  /\ Threshold \in Nat /\ Bump \in Nat /\ Threshold < Bump
  /\ MinTtl \in Nat

Project       == <<"project">>
Balance       == <<"balance">>
Epoch         == <<"epoch">>
Cache         == <<"cache">>
Claimed(c)    == <<"claimed", c>>
LastAmount(c) == <<"lastAmount", c>>
LastEpoch(c)  == <<"lastEpoch", c>>

Core        == {Project, Balance}
OfCollab(c) == {Claimed(c), LastAmount(c), LastEpoch(c)}
Keys        == Core \cup {Epoch, Cache} \cup UNION {OfCollab(c) : c \in Collabs}

Absent   == -2
Archived == -1
MaxTtl   == IF MinTtl > Bump THEN MinTtl ELSE Bump
MaxIdle  == MaxTtl + 1   \* the clocks stop here: what was extended is archived

VARIABLES
  ttl,        \* ledgers each entry has left, Absent or Archived
  funded,     \* the project's balance is positive
  settled,    \* collaborators who claimed in the current claim epoch
  idle,       \* history: ledgers since a call last used the project
  idleClaims  \* history: the same for a collaborator's ledger

vars == <<ttl, funded, settled, idle, idleClaims>>

TypeOK ==
  /\ ttl \in [Keys -> Absent..MaxTtl]
  /\ funded \in BOOLEAN /\ settled \in SUBSET Collabs
  /\ idle \in 0..MaxIdle
  /\ idleClaims \in [Collabs -> 0..MaxIdle]

Init ==
  /\ ttl = [k \in Keys |-> Absent]
  /\ funded = FALSE /\ settled = {}
  /\ idle = MaxIdle
  /\ idleClaims = [c \in Collabs |-> MaxIdle]
-----------------------------------------------------------------------------
(* Storage operations; t is the life time of the entries before each.  *)

Exists(t, k) == t[k] # Absent
Usable(K)    == \A k \in K : ttl[k] # Archived

\* storage().persistent().set
Written(t, K) ==
  [k \in Keys |-> IF k \in K /\ ~Exists(t, k) THEN MinTtl ELSE t[k]]

\* storage().persistent().extend_ttl: only an entry near its end is extended.
ExtendTtl(t, K) ==
  [k \in Keys |-> IF k \in K /\ t[k] <= Threshold THEN Bump ELSE t[k]]

\* Faulty variant: the balance entry is forgotten.
BumpProjectOnly(t) == ExtendTtl(t, {Project})

\* bump_project_ttl
BumpProject(t) == ExtendTtl(t, Core)

\* Faulty variant: the amount of the last claim is forgotten.
BumpClaimedOnly(t, C) == ExtendTtl(t, {k \in {Claimed(c) : c \in C} : Exists(t, k)})

\* bump_claimed_ttl of every collaborator in C: those entries that exist.
BumpClaimed(t, C) ==
  ExtendTtl(t, {k \in UNION {OfCollab(c) : c \in C} : Exists(t, k)})

BumpClaimEpoch(t)  == ExtendTtl(Written(t, {Epoch}), {Epoch})
AdjustAccounted(t) == ExtendTtl(Written(t, {Cache}), {Cache})

\* get_project_or_err, which a call on the project starts with.
Loaded == BumpProject(ttl)

OnProject ==
  /\ Exists(ttl, Project)
  /\ Usable(Core)
  /\ idle' = 0

UsesClaimsOf(C) ==
  idleClaims' = [c \in Collabs |-> IF c \in C THEN 0 ELSE idleClaims[c]]
-----------------------------------------------------------------------------
\* create_project
CreateProject ==
  /\ ~Exists(ttl, Project)
  /\ ttl' = BumpProject(Written(ttl, Core))
  /\ idle' = 0
  /\ UNCHANGED <<funded, settled, idleClaims>>

\* update_collaborators, lock_project, update_project_metadata and
\* transfer_project_ownership store the record; get_project and get_balance
\* only read it.
EditOrRead ==
  /\ OnProject
  /\ ttl' = BumpProject(Loaded)
  /\ UNCHANGED <<funded, settled, idleClaims>>

\* refresh_project_storage
RefreshProjectStorage ==
  /\ OnProject
  /\ ttl' = Loaded
  /\ UNCHANGED <<funded, settled, idleClaims>>

Deposit ==
  /\ OnProject
  /\ Usable({Cache, Epoch})
  /\ ttl' = BumpClaimEpoch(AdjustAccounted(BumpProject(Loaded)))
  /\ funded' = TRUE
  /\ settled' = {}
  /\ UNCHANGED idleClaims

\* The collaborators in `paid` have a share of at least one unit.
Distribute(paid) ==
  LET recorded == Written(Loaded, {Claimed(c) : c \in paid})
  IN  /\ OnProject
      /\ funded
      /\ Usable({Cache, Epoch} \cup UNION {OfCollab(c) : c \in paid})
      /\ ttl' = BumpProject(BumpClaimEpoch(AdjustAccounted(
                  BumpClaimed(recorded, paid))))
      /\ funded' = FALSE
      /\ settled' = {}
      /\ UsesClaimsOf(paid)

\* claim pays: LastClaimEpoch is stored after the entries are extended.
Claim(c) ==
  /\ OnProject
  /\ funded /\ c \notin settled
  /\ Usable({Cache, Epoch} \cup OfCollab(c))
  /\ ttl' = Written(BumpClaimed(Written(BumpProject(AdjustAccounted(Loaded)),
                                        {Claimed(c), LastAmount(c)}), {c}),
                    {LastEpoch(c)})
  /\ settled' = settled \cup {c}
  /\ UsesClaimsOf({c})
  /\ UNCHANGED funded

\* claim returns 0: there is no balance, or the share rounds to nothing.
ClaimNothing(c) ==
  /\ OnProject
  /\ c \notin settled
  /\ Usable({Epoch, LastEpoch(c)})
  /\ ttl' = Loaded
  /\ UNCHANGED <<funded, settled, idleClaims>>

\* get_claimed and get_claimable
GetClaimed(c) ==
  /\ OnProject
  /\ Usable(OfCollab(c))
  /\ ttl' = BumpClaimed(Loaded, {c})
  /\ UsesClaimsOf({c})
  /\ UNCHANGED <<funded, settled>>

\* withdraw_unallocated: without a cache entry it reads the project's.
WithdrawUnallocated ==
  /\ Usable({Cache})
  /\ Exists(ttl, Cache) \/ Usable(Core)
  /\ ttl' = ExtendTtl(ttl, {k \in {Cache} : Exists(ttl, k)})
  /\ UNCHANGED <<funded, settled, idle, idleClaims>>

\* The network closes a ledger.
Later(n) == IF n < MaxIdle THEN n + 1 ELSE n

CloseLedger ==
  /\ ttl' = [k \in Keys |-> IF ttl[k] >= 0 THEN ttl[k] - 1 ELSE ttl[k]]
  /\ idle' = Later(idle)
  /\ idleClaims' = [c \in Collabs |-> Later(idleClaims[c])]
  /\ UNCHANGED <<funded, settled>>

\* Anybody restores an archived entry.
Restore(k) ==
  /\ ttl[k] = Archived
  /\ ttl' = [ttl EXCEPT ![k] = MinTtl]
  /\ UNCHANGED <<funded, settled, idle, idleClaims>>

Next ==
  \/ CreateProject
  \/ EditOrRead
  \/ RefreshProjectStorage
  \/ Deposit
  \/ \E paid \in SUBSET Collabs \ {{}} : Distribute(paid)
  \/ \E c \in Collabs : Claim(c) \/ ClaimNothing(c) \/ GetClaimed(c)
  \/ WithdrawUnallocated
  \/ CloseLedger
  \/ \E k \in Keys : Restore(k)

Spec == Init /\ [][Next]_vars
-----------------------------------------------------------------------------
Live(k) == ttl[k] >= 0

\* Any call that used a project keeps its record and its balance for more than
\* Threshold ledgers, whatever their life time was before the call.
UsedProjectSurvives ==
  Exists(ttl, Project) /\ idle <= Threshold + 1 => \A k \in Core : Live(k)

\* A payout, or a look at it, keeps a collaborator's claimed total and last
\* claim for more than Threshold ledgers.
UsedClaimsSurvive ==
  \A c \in Collabs : \A k \in {Claimed(c), LastAmount(c)} :
    Exists(ttl, k) /\ idleClaims[c] <= Threshold + 1 => Live(k)

\* Whatever a call used outlives Threshold ledgers.
UsedEntriesSurvive == UsedProjectSurvives /\ UsedClaimsSurvive
=============================================================================
