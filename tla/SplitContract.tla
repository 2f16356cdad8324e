---------------------------- MODULE SplitContract ----------------------------
(***************************************************************************)
(* The SplitNaira contract (contracts/lib.rs): royalty split projects, the *)
(* funds it holds for them, push distribution and pull claims, and the     *)
(* recovery of tokens that were sent to it directly.                       *)
(*                                                                         *)
(* A Soroban invocation is atomic: a call that returns an error or traps   *)
(* leaves no trace, so refused calls are not steps.  The one call that     *)
(* swallows errors is batch_distribute; it is a sequence of steps here     *)
(* (`batch` holds the ids left) that nothing else interleaves with, so the *)
(* invariants are checked between its items too.  An item that would trap  *)
(* takes the whole batch with it.  Items of a batch only meet in their     *)
(* own project, so whether one traps is known when the batch starts.       *)
(*                                                                         *)
(* Storage keys read with unwrap_or(0) are total functions with value 0.   *)
(* TTL extension is in module StorageTtl, the storage layout of the        *)
(* project index in module ProjectIndex.                                   *)
(***************************************************************************)
EXTENDS ContractConfig, Functions, FiniteSets

CONSTANTS
  Projects,      \* project ids
  Owners,        \* accounts that create projects or receive one
  Titles,        \* values of the metadata an owner may edit
  CollabLists,   \* collaborator lists offered to the contract, valid or not
  Amounts,       \* amounts deposited, sent directly or withdrawn
  Batches,       \* id lists given to batch_distribute
  LegacyFunds,   \* balances of a project stored by a version without cache
  MaxI128,       \* the largest token amount
  MaxEpoch,      \* bound on deposits and distributions of one project
  MaxHeld        \* bound on the contract's holding of a token

ASSUME ContractAssumption ==
  /\ IsFiniteSet(Addresses)
  /\ CollabLists \subseteq Seq(Collaborator)
  /\ Owners \subseteq Addresses
  /\ Amounts \subseteq Nat /\ LegacyFunds \subseteq Nat
  /\ Batches \subseteq Seq(Projects)
  /\ MaxI128 \in Nat /\ MaxEpoch \in Nat /\ MaxHeld \in Nat

NoEpoch == -1    \* LastClaimEpoch(p, a) is absent

VARIABLES
  ids,              \* the project index, in creation order
  project,          \* DataKey::Project: a record for each created id
  balance,          \* DataKey::ProjectBalance
  claimed,          \* DataKey::Claimed
  lastClaimAmount,  \* DataKey::LastClaimAmount
  lastClaimEpoch,   \* DataKey::LastClaimEpoch
  claimEpoch,       \* DataKey::ClaimEpoch
  accounted,        \* DataKey::AccountedTokenBalance, for the cached tokens
  held,             \* the token contracts' balance of this contract
  batch,            \* ids batch_distribute has left
  deposited,        \* history: everything ever deposited into a project
  epochStart        \* history: the balance when the claim epoch opened

fundVars == <<ids, project, balance, claimed, lastClaimAmount, lastClaimEpoch,
              claimEpoch, accounted, held, batch, deposited, epochStart>>
vars == <<configVars, fundVars>>

SplitProject == [token : Tokens, owner : Addresses, title : Titles,
                 collaborators : Seq(Collaborator), locked : BOOLEAN,
                 totalDistributed : Nat, distributionRound : Nat]

Created == DOMAIN project

TypeOK ==
  /\ ConfigTypeOK
  /\ ids \in Seq(Projects)
  /\ Created \in SUBSET Projects
  /\ project \in [Created -> SplitProject]
  /\ balance \in [Projects -> Nat]
  /\ claimed \in [Projects -> [Addresses -> Nat]]
  /\ lastClaimAmount \in [Projects -> [Addresses -> Nat]]
  /\ lastClaimEpoch \in [Projects -> [Addresses -> Nat \cup {NoEpoch}]]
  /\ claimEpoch \in [Projects -> Nat]
  /\ DOMAIN accounted \in SUBSET Tokens
  /\ accounted \in [DOMAIN accounted -> Int]
  /\ held \in [Tokens -> Nat]
  /\ batch \in Seq(Projects)
  /\ deposited \in [Projects -> Nat]
  /\ epochStart \in [Projects -> Nat]
-----------------------------------------------------------------------------
(* Accounting helpers *)

\* sum_project_balances_for_token: the loop over the whole index.
TokenEntries(t, bal) ==
  [i \in 1..Len(ids) |->
     IF ids[i] \in Created /\ project[ids[i]].token = t THEN bal[ids[i]] ELSE 0]

SumProjectBalances(t, bal) == SeqSum(TokenEntries(t, bal))

\* get_accounted_balance: the cached total, or the live sum.
AccountedBalance(t) ==
  IF t \in DOMAIN accounted THEN accounted[t] ELSE SumProjectBalances(t, balance)

\* Faulty variant: a missing cache entry is seeded with the change alone.
AdjustAccountedFromZero(t, delta, bal) ==
  accounted' = [u \in DOMAIN accounted \cup {t} |->
                  IF u # t THEN accounted[u]
                  ELSE (IF t \in DOMAIN accounted THEN accounted[t] ELSE 0) + delta]

\* adjust_accounted_token_balance, called after the new balances `bal` are
\* stored: a missing cache entry is seeded from the live sum, which already
\* includes delta.
AdjustAccounted(t, delta, bal) ==
  accounted' = [u \in DOMAIN accounted \cup {t} |->
                  IF u # t THEN accounted[u]
                  ELSE IF t \in DOMAIN accounted THEN accounted[t] + delta
                       ELSE SumProjectBalances(t, bal)]

\* Faulty variant: a payment wipes the project's balance.
SpentAll(p, n) == [balance EXCEPT ![p] = 0]

\* The project balances after a payment of n.
Spent(p, n) == [balance EXCEPT ![p] = @ - n]

\* Faulty variant: the latest payment replaces the total.
CountedLatest(p, n) == n

\* The project's total_distributed after a payment of n.
Counted(p, n) == project[p].totalDistributed + n

\* bump_claim_epoch; the epoch's opening balance is history.
BumpClaimEpoch(p, newBalance) ==
  /\ claimEpoch[p] < MaxEpoch
  /\ claimEpoch' = [claimEpoch EXCEPT ![p] = @ + 1]
  /\ epochStart' = [epochStart EXCEPT ![p] = newBalance]

\* The token contract moves tokens out of or into this contract's account; a
\* transfer it refuses traps the whole invocation.
TransferOut(t, n) ==
  /\ n <= held[t]
  /\ held' = [held EXCEPT ![t] = @ - n]

TransferIn(t, n) ==
  /\ held[t] + n <= MaxHeld
  /\ held' = [held EXCEPT ![t] = @ + n]

\* Faulty variant: forgets what the projects own.
UnallocatedAll(t) == held[t]

\* get_unallocated_balance, clamped when the holding is short.
UnallocatedBalance(t) ==
  IF held[t] < AccountedBalance(t) THEN 0 ELSE held[t] - AccountedBalance(t)
-----------------------------------------------------------------------------
(* Initial states: a new deployment, or one upgraded from a version that    *)
(* kept no accounting cache and no claim epochs (the v1 and v2 layouts of   *)
(* prior_state_fixture_tests.rs).                                           *)

StoredProject(t, o, c, title) ==
  [token |-> t, owner |-> o, title |-> title, collaborators |-> c,
   locked |-> FALSE, totalDistributed |-> 0, distributionRound |-> 0]

CommonInit ==
  /\ ConfigInit
  /\ claimed = [p \in Projects |-> [a \in Addresses |-> 0]]
  /\ lastClaimAmount = [p \in Projects |-> [a \in Addresses |-> 0]]
  /\ lastClaimEpoch = [p \in Projects |-> [a \in Addresses |-> NoEpoch]]
  /\ claimEpoch = [p \in Projects |-> 0]
  /\ accounted = [t \in {} |-> 0]
  /\ batch = <<>>

FreshInit ==
  /\ CommonInit
  /\ ids = <<>>
  /\ project = [p \in {} |-> <<>>]
  /\ balance = [p \in Projects |-> 0]
  /\ held = [t \in Tokens |-> 0]
  /\ deposited = balance
  /\ epochStart = balance

LegacyInit ==
  /\ CommonInit
  /\ \E p \in Projects, t \in Tokens, o \in Owners, c \in CollabLists,
        title \in Titles, n \in LegacyFunds :
       /\ ValidCollaborators(c, DefaultCap)
       /\ ids = <<p>>
       /\ project = [q \in {p} |-> StoredProject(t, o, c, title)]
       /\ balance = [q \in Projects |-> IF q = p THEN n ELSE 0]
       /\ held = [u \in Tokens |-> IF u = t THEN n ELSE 0]
  /\ deposited = balance
  /\ epochStart = balance

Init == FreshInit \/ LegacyInit
-----------------------------------------------------------------------------
(* Project management *)

CreateProject(owner, p, title, t, c) ==
  /\ p \notin Created
  /\ TokenAdmitted(t)
  /\ ValidCollaborators(c, maxCollaborators)
  /\ project' = [q \in Created \cup {p} |->
                   IF q = p THEN StoredProject(t, owner, c, title) ELSE project[q]]
  /\ balance' = [balance EXCEPT ![p] = 0]
  /\ ids' = Append(ids, p)
  /\ UNCHANGED <<claimed, lastClaimAmount, lastClaimEpoch, claimEpoch,
                 accounted, held, deposited, epochStart>>

\* The owner-gated edits load the project, compare the owner, and store it.
OwnerEdits(p, signer, new) ==
  /\ signer = project[p].owner
  /\ project' = [project EXCEPT ![p] = new]
  /\ UNCHANGED <<ids, balance, claimed, lastClaimAmount, lastClaimEpoch,
                 claimEpoch, accounted, held, deposited, epochStart>>

\* Faulty variant: a new list is stored without being validated.
UpdateCollaboratorsUnvalidated(p, signer, c) ==
  /\ ~project[p].locked
  /\ OwnerEdits(p, signer, [project[p] EXCEPT !.collaborators = c])

UpdateCollaborators(p, signer, c) ==
  /\ ~project[p].locked
  /\ ValidCollaborators(c, maxCollaborators)
  /\ OwnerEdits(p, signer, [project[p] EXCEPT !.collaborators = c])

UpdateProjectMetadata(p, signer, title) ==
  /\ ~project[p].locked
  /\ OwnerEdits(p, signer, [project[p] EXCEPT !.title = title])

LockProject(p, signer) ==
  /\ ~project[p].locked
  /\ OwnerEdits(p, signer, [project[p] EXCEPT !.locked = TRUE])

\* Works whether or not the project is locked.
TransferProjectOwnership(p, signer, newOwner) ==
  OwnerEdits(p, signer, [project[p] EXCEPT !.owner = newOwner])
-----------------------------------------------------------------------------
(* Money in and out *)

Deposit(p, n) ==
  LET t   == project[p].token
      bal == [balance EXCEPT ![p] = @ + n]
  IN /\ n > 0
     /\ bal[p] <= MaxI128
     /\ TransferIn(t, n)
     /\ balance' = bal
     /\ AdjustAccounted(t, n, bal)
     /\ BumpClaimEpoch(p, bal[p])
     /\ deposited' = [deposited EXCEPT ![p] = @ + n]
     /\ UNCHANGED <<ids, project, claimed, lastClaimAmount, lastClaimEpoch>>

\* distribute's early returns: nothing to pay, or less than one unit for each
\* collaborator.
Distributable(p) ==
  /\ p \in Created
  /\ balance[p] > 0
  /\ balance[p] >= Len(project[p].collaborators)

\* balance * basis_points is computed in checked i128 arithmetic.
NoOverflow(p) ==
  \A i \in 1..Len(project[p].collaborators) - 1 :
    balance[p] * project[p].collaborators[i].bps <= MaxI128

DistributeItem(p) ==
  LET c    == project[p].collaborators
      t    == project[p].token
      sent == TotalSent(c, balance[p])
      bal  == Spent(p, sent)
  IN /\ Distributable(p)
     /\ NoOverflow(p)
     /\ TransferOut(t, sent)
     /\ claimed' = [claimed EXCEPT
                      ![p] = [a \in Addresses |-> @[a] + PaidTo(c, balance[p], a)]]
     /\ balance' = bal
     /\ AdjustAccounted(t, -sent, bal)
     /\ BumpClaimEpoch(p, bal[p])
     /\ project' = [project EXCEPT ![p].totalDistributed = Counted(p, sent),
                                   ![p].distributionRound = @ + 1]
     /\ UNCHANGED <<ids, lastClaimAmount, lastClaimEpoch, deposited>>

Distribute(p) == ~paused /\ DistributeItem(p)

\* batch_distribute starts; none of its items may trap.
BatchDistribute(b) ==
  /\ ~paused
  /\ b # <<>>
  /\ \A i \in 1..Len(b) :
       Distributable(b[i]) => NoOverflow(b[i]) /\ claimEpoch[b[i]] < MaxEpoch
  /\ batch' = b
  /\ UNCHANGED <<ids, project, balance, claimed, lastClaimAmount, lastClaimEpoch,
                 claimEpoch, accounted, held, deposited, epochStart>>

\* One item: paid out, or its error recorded and skipped.
BatchItem ==
  /\ batch' = Tail(batch)
  /\ \/ DistributeItem(Head(batch))
     \/ /\ ~Distributable(Head(batch))
        /\ UNCHANGED <<ids, project, balance, claimed, lastClaimAmount,
                       lastClaimEpoch, claimEpoch, accounted, held,
                       deposited, epochStart>>

\* Faulty variant: no guard against a second claim.
ClaimOpenAgain(p, a) == ~paused

\* claim's early exits: the pause, and a claim already made in this epoch.
ClaimOpen(p, a) ==
  /\ ~paused
  /\ lastClaimEpoch[p][a] # claimEpoch[p]

\* claim pays one collaborator its share of what is left, once per epoch.  The
\* calls that return Ok(0) change nothing.
Claim(p, a, i) ==
  LET t      == project[p].token
      amount == Share(balance[p], project[p].collaborators[i].bps)
      bal    == Spent(p, amount)
  IN /\ ClaimOpen(p, a)
     /\ project[p].collaborators[i].address = a
     /\ balance[p] > 0
     /\ balance[p] * project[p].collaborators[i].bps <= MaxI128
     /\ amount > 0
     /\ balance' = bal
     /\ AdjustAccounted(t, -amount, bal)
     /\ project' = [project EXCEPT ![p].totalDistributed = Counted(p, amount)]
     /\ claimed' = [claimed EXCEPT ![p][a] = @ + amount]
     /\ lastClaimAmount' = [lastClaimAmount EXCEPT ![p][a] = amount]
     /\ lastClaimEpoch' = [lastClaimEpoch EXCEPT ![p][a] = claimEpoch[p]]
     /\ TransferOut(t, amount)
     /\ UNCHANGED <<ids, claimEpoch, deposited, epochStart>>

\* Admin-only recovery of tokens no project accounts for.
WithdrawUnallocated(signer, t, n) ==
  /\ RequireContractAdmin(signer)
  /\ n > 0
  /\ n <= UnallocatedBalance(t)
  /\ TransferOut(t, n)
  /\ UNCHANGED <<ids, project, balance, claimed, lastClaimAmount, lastClaimEpoch,
                 claimEpoch, accounted, deposited, epochStart>>

\* Anyone may send tokens to the contract's address without calling it.
DirectTransfer(t, n) ==
  /\ n > 0
  /\ TransferIn(t, n)
  /\ UNCHANGED <<ids, project, balance, claimed, lastClaimAmount, lastClaimEpoch,
                 claimEpoch, accounted, deposited, epochStart>>
-----------------------------------------------------------------------------
ManageProject ==
  \/ \E owner \in Owners, p \in Projects, title \in Titles, t \in Tokens,
        c \in CollabLists : CreateProject(owner, p, title, t, c)
  \/ \E p \in Created, signer \in Addresses :
       \/ \E c \in CollabLists : UpdateCollaborators(p, signer, c)
       \/ \E title \in Titles : UpdateProjectMetadata(p, signer, title)
       \/ LockProject(p, signer)
       \/ \E a \in Owners : TransferProjectOwnership(p, signer, a)

MoveFunds ==
  \/ \E p \in Created, n \in Amounts : Deposit(p, n)
  \/ \E p \in Created : Distribute(p)
  \/ \E p \in Created, a \in Addresses :
       \E i \in 1..Len(project[p].collaborators) : Claim(p, a, i)
  \/ \E signer \in Addresses, t \in Tokens, n \in Amounts :
       WithdrawUnallocated(signer, t, n)
  \/ \E t \in Tokens, n \in Amounts : DirectTransfer(t, n)

Next ==
  \/ /\ batch = <<>>
     /\ ConfigNext
     /\ UNCHANGED fundVars
  \/ /\ batch = <<>>
     /\ ManageProject \/ MoveFunds
     /\ UNCHANGED <<configVars, batch>>
  \/ /\ batch = <<>>
     /\ \E b \in Batches : BatchDistribute(b)
     /\ UNCHANGED configVars
  \/ /\ batch # <<>>
     /\ BatchItem
     /\ UNCHANGED configVars

Spec == Init /\ [][Next]_vars
-----------------------------------------------------------------------------
(* What must hold *)

\* Every unit ever deposited into a project is either still in its balance or
\* has been paid out of it: no deposit, distribution (with its rounding),
\* claim, batch or withdrawal creates or loses a unit (deposit, distribute,
\* claim in lib.rs).
Conservation ==
  \A p \in Created : deposited[p] = balance[p] + project[p].totalDistributed

\* The per-collaborator ledger adds up to the project's total, whichever mix
\* of push and pull payouts produced it and however often the collaborators
\* changed in between (Claimed and total_distributed in lib.rs).
ClaimedLedgerAgrees ==
  \A p \in Created : SumFunction(claimed[p]) = project[p].totalDistributed

\* A cached accounted total is exactly what the index loop would compute: the
\* cache is adjusted by deltas, or seeded in the middle of a deposit, a payout
\* or a batch of an upgraded deployment (adjust_accounted_token_balance).
AccountedMatches ==
  \A t \in DOMAIN accounted : accounted[t] = SumProjectBalances(t, balance)

\* The contract always holds at least what it owes the projects in a token, so
\* withdraw_unallocated "never touches any project-accounted balance".
Solvent == \A t \in Tokens : SumProjectBalances(t, balance) <= held[t]

\* Within a claim epoch the balance has dropped by exactly the last claims of
\* the collaborators who claimed in it: nobody was paid twice for the same
\* funds, nobody's claim went unrecorded (the duplicate-claim guard of claim,
\* bump_claim_epoch in deposit and distribute).
EpochClaims(p) ==
  SumFunction([a \in Addresses |->
     IF lastClaimEpoch[p][a] = claimEpoch[p] THEN lastClaimAmount[p][a] ELSE 0])
EpochLedger ==
  \A p \in Created : epochStart[p] = balance[p] + EpochClaims(p)

\* What the contract stores twice agrees: what was paid, what was claimed in
\* the current epoch, and which tokens are allowed.
RecordsAgree == ClaimedLedgerAgrees /\ EpochLedger /\ AllowlistAgrees

\* The splits of a stored project always divide the whole among at least two
\* different collaborators, also after the cap is lowered.
SplitsSound ==
  \A p \in Created : ValidCollaborators(project[p].collaborators, MaxCap)

\* "Once locked, the split percentages are permanently immutable": whoever
\* owns the project and whatever else is called (lock_project in lib.rs).  A
\* project's token never changes at all, and no project disappears.
KeepsLocked ==
  \A p \in Created :
    /\ p \in Created'
    /\ project'[p].token = project[p].token
    /\ project[p].locked =>
         /\ project'[p].locked
         /\ project'[p].collaborators = project[p].collaborators
         /\ project'[p].title = project[p].title
LockedIsForever == [][KeepsLocked]_vars

\* A distribution round pays the whole balance: each collaborator gets at
\* least its rounded-down share, the last one at most one unit per other
\* collaborator more (the documented invariants of distribute).
PaysEverybody ==
  \A p \in Created :
    project'[p].distributionRound # project[p].distributionRound =>
      LET c == project[p].collaborators
          gain(i) == claimed'[p][c[i].address] - claimed[p][c[i].address]
      IN /\ project'[p].distributionRound = project[p].distributionRound + 1
         /\ balance'[p] = 0
         /\ project'[p].totalDistributed = project[p].totalDistributed + balance[p]
         /\ \A i \in 1..Len(c) - 1 : gain(i) = Share(balance[p], c[i].bps)
         /\ gain(Len(c)) - Share(balance[p], c[Len(c)].bps) \in 0..Len(c) - 1
RoundPaysEverybody == [][PaysEverybody]_vars

\* The contract implements the escrow it promises to be.
Held == INSTANCE Escrow WITH
  open <- Created,
  pot <- balance,
  paid <- [p \in Projects |-> IF p \in Created THEN project[p].totalDistributed ELSE 0],
  free <- [t \in Tokens |-> held[t] - SumProjectBalances(t, balance)]
IsEscrow == Held!Spec
=============================================================================
