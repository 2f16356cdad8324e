# SplitNaira: a TLA+ verification project

SplitNaira splits royalties on Stellar. A Soroban contract (`contracts/`) holds
the money of *projects* and pays it to *collaborators* by fixed shares. A
Node/Express backend (`backend/`) builds transactions for clients, indexes the
contract's events into Postgres, caches chain reads and keeps accounts,
notifications and collaboration records. A Next.js frontend (`frontend/`) signs
and submits.

This project models the contract, the backend, and the parts of the frontend
that keep state across awaits. TLC checks the models on small instances, TLAPS
proves nearly all of their safety properties for every value of the constants:
those of the contract, of the backend's stores, routes and processes, of accounts
and records, and of the wallet session. `PROJECT.json` lists
components, runs, mutants, the map from definitions to source lines, findings,
hazards and theorems.

## 1. Inventory

### Contract

| Component | State | Operations | What is hard | What makes it correct |
|---|---|---|---|---|
| Split shares (`contracts/lib.rs`) | collaborator list with basis points | validate, compute a round | rounding, overflow | a round pays everything, everybody at least the floor of the share |
| Configuration | admin, pause flag, cap, allowlist kept three times | `set_admin`, `pause`, `unpause`, `set_max_collaborators`, `allow_token`, `disallow_token` | three copies of one set | the copies agree |
| Projects and funds | project records, balances, claimed ledgers, claim epochs, cached total per token, token holdings | create, edit, lock, transfer, deposit, distribute, batch, claim, withdraw unallocated | push and pull payouts on the same funds, edits between them, a lazily seeded cache, upgrades | money is conserved, ledgers add up, the cache is exact, the contract is solvent, locks are permanent |
| Project index | flat list, buckets, counters | append, migrate, page | two layouts at once | each project once, exact pages |
| Storage life times | a TTL per ledger entry | every call extends some entries | entries archived between calls | what was used survives the threshold |

### Backend

| Component | State | Operations | What is hard | What makes it correct |
|---|---|---|---|---|
| Event listener | rows, persisted cursor, cursor in memory, timer, back-off | start, poll, look up, commit, publish, stop, crash | failures between steps, restart, shutdown under a poll | no payout skipped, announced once, indexed in the end |
| Read cache | entries, reads in flight, generations | `getOrFetch`, invalidate, evict, expire | a read that began before an invalidation | never serves what is older than the last invalidation |
| Splits API | requests in progress, cache, deadline table | create, lock, deposit, distribute, set a deadline, pause, read, list | a project and its balance are two reads; checks before an await | nothing counted twice, owners not locked out, a passed deadline is final |
| Idempotency keys | entry per key | begin, answer, replay, expire | retries that meet a running handler | replay of the original, successes bounded |
| RPC access | health per provider, calls with budget and timers | send, time out, retry, quarantine | answers of abandoned attempts | every call ends, with one outcome; quarantine is kept |
| Database and health | pool, transactions, readiness request | start, transaction with deadlock retries, probe, shutdown | hanging dependencies, retries | effects once, no connection lost, readiness answers |
| Membership changes | record with version and roles | add, remove, set role | read, plan, compare-and-set of several actors | authorized on the record that is replaced |
| Invitations, ownership, deletion | registry, roles, owner history | invite, re-invite, accept, cancel, transfer, delete | links in circulation | one live invitation per address, what ended stays ended |
| Accounts and sessions | users, session versions, mailed links | register, sign in, log out, reset, verify, change address | links and sessions that outlive a revocation | verified means owned; revocation is final |
| Sign-in attempts | failures, lockout, places reserved | reserve, settle, evict | parallel attempts, full table | guesses in a window are bounded |
| Drafts, payment records, cancellation | drafts, deadline, two marker tables | save, publish, record, cancel, archive | records out of order, two cancellers | status is the best record, published drafts are whole |
| Ledger finality | recorded state of a transaction | evaluate an observation | lagging nodes, bounds, timeouts | what is booked is true and stays |
| Reconciliation | two tables, a run over them | balance rules, dry run, orphans, aging | tables that change between reads | nothing falls through, nothing is made up |
| Payout history | rows with timestamps, cursors, an export | page, export, backfill | rows inserted between pages | every row once |
| Notifications | rows, preferences, walks | create, fan out, save preferences, mark, list | duplicate deliveries, failing statements | outcomes are true, a walk misses nothing |
| Status streams | open responses, the browser's hook | open, publish, close, poll | limits, shutdown, fallback | limits hold, shutdown drains, polling ends |

### Frontend

| Component | State | Operations | What is hard | What makes it correct |
|---|---|---|---|---|
| Submissions | guard per action, unknown outcomes, idempotency key | build, sign, send, poll, resolve | lost responses, late inclusion | unblocked means decided, receipts are true |
| Project views | list, dashboard, project in hand, optimistic title | load, page, update, mutate | answers out of order | no title that never was, the list is the index |
| Wallet session | account shown, drafts, cached data | connect, poll, switch, type, reload | late answers of the extension | nothing of another account |
| Admin cards | balance, pause and allowlist as shown | inspect, review, confirm, refresh | answers that overtake each other | a shown status is never replaced by an older one |
| Create form | rows, token picker, deadline | edit, validate, build | three validators that do not repeat each other | what is built is accepted |
| Sign-in dialog | challenge, timer, wallet requests | ask, refresh, expire | late signatures | an expired challenge offers a new one |
| Failure messages | toasts, stored list of several tabs | raise, dismiss, clear, reload | shared storage that refuses | the newest failure is listed |

Not modelled: rate limiting, audit log, metrics, the API description, migrations
and seeding scripts, the contract's host-side tooling and the rest of the user
interface (section 7).

How they interact: clients call routes; routes simulate contract calls through
the read cache and `RpcAccess`, invalidate the cache and return unsigned
transactions; clients sign and submit them; the contract emits events; the
listener turns them into rows and tells connected clients over streams. The
idempotency middleware wraps mutating routes. Within the contract, calls are
atomic and run one after the other; hardness there comes from long sequences,
rounding and upgrades. In the backend and in the browser a step is what one
callback does between two awaits.

## 2. Modules

| Module | Models | Uses |
|---|---|---|
| `Sums` | the accumulation loop over a sequence, as a recursive function | |
| `Shares` | `validate_collaborators`, the arithmetic of `distribute` | `Sums` |
| `ContractConfig` | configuration entry points, one action each | `Shares` |
| `Escrow` | abstract specification: pots, what was paid out of them, free tokens | |
| `SplitContract` | all entry points that move money or change a project; refines `Escrow` | `ContractConfig`, `Escrow` |
| `ProjectIndex` | the storage layout behind `SplitContract`'s `ids` | |
| `StorageTtl` | TTLs of the entries of one project | |
| `EventListener` | the listener process from start to crash, with Postgres and the RPC node | |
| `ReadCache` | `ReadCache` with its callers, reads and the routes that invalidate | |
| `SplitsApi` | the routes over one project, from request to inclusion on the chain | |
| `Idempotency` | middleware and store for one key | |
| `RpcAccess` | `executeWithRetry`, provider choice and quarantine | |
| `ServiceHealth` | pool, `withTransaction`, start, shutdown, readiness | |
| `MembershipChanges` | `applyCollaborationChange` on one project, several requests at once | |
| `Invitations` | invitation registry, ownership transfer and deletion of one project | |
| `Accounts` | users, sessions and the links they are mailed | |
| `LoginAttempts` | `LoginAttemptStore` under parallel attempts | |
| `SplitRecords` | drafts, deadline, payment records, cancellation, archival | |
| `LedgerFinality` | `evaluateFinality` with a network and lagging nodes | |
| `Reconciliation` | the operator's checks over tables that are being written | |
| `PayoutHistory` | keyset pages and the offset export over a growing table | |
| `Notifications` | store, deliveries, preferences and readers | |
| `StatusStream` | SSE responses of the server and the hook in the browser | |
| `Submissions` | guard, handlers, sending and unknown outcomes of the page | |
| `ProjectViews` | what the page shows of projects | |
| `WalletSession` | wallet hook, form drafts and per-account caches | |
| `AdminPanel` | the admin's cards | |
| `CreateForm` | the form, the backend's schema and the contract's validation behind it | `Shares` |
| `AuthChallenge` | the dialog that asks for a signature | |
| `Toasts` | messages and their history in local storage | |
| `MC...` | instances for TLC, see below | |
| `SumsProofs` | proofs about sums over sequences and sets, and the inductions | `Sums` |
| `SplitContractProofs` | the contract: a round, funds and cache, ledgers, rounds and the refinement | `SplitContract` |
| `ReadsProofs`, `PeopleProofs`, `BooksProofs`, `ServerProofs`, `CallsProofs`, `ScreensProofs` | the parts of `MCReads`, `MCPeople`, `MCBooks`, `MCServer`, `MCCalls`, `MCScreens` | these modules |

How state and actions correspond to the code; each module's header says what it
leaves out.

- **SplitContract.** One variable per `DataKey` (`project`, `balance`, `claimed`,
  `lastClaimAmount`, `lastClaimEpoch`, `claimEpoch`, `accounted`), `held` for the
  token contract's balance of this contract, `deposited` and `epochStart` as
  history. A refused call is not a step, since a Soroban call that returns an
  error or traps leaves no trace. `batch_distribute` swallows the errors of its
  items, so it is a start and one step per item, with nothing between. `accounted`
  is partial: a token without an entry is a deployment from before the cache.
  Amounts above `MaxI128` trap. Events and error codes are left out.
- **ProjectIndex.** `flat` and `buckets` as stored; the initial states are a new
  contract, one with only the flat list, and one with both.
- **StorageTtl.** An entry is absent, archived or has ledgers left. A call that
  would touch an archived entry is refused; anybody can restore one.
- **EventListener.** A payout is its position on the chain, a cursor the position
  it stands after. A transaction holds one payout or several (a round). Steps:
  start, fetch a page, look up each payout, commit rows and cursor, publish. Any of
  them may fail where the code has a catch. `base` and `lost` are history: where the
  first committed poll began, and the payouts that a commit left behind without a
  row, because their lookup threw or because the start could not read the cursor
  and polled from the tip (`LeftBehind`).
- **ReadCache.** A value is the version of the chain it was read at. `floor` is
  history: the version a read must have after the last invalidation.
- **SplitsApi.** A request is a record with the step it is at; a route is the
  sequence of its steps, each ending at an await, and each can fail. A prepared
  transaction may be submitted at any later time, once. The contract is reduced
  to owner, pause, balance and what was paid; a transaction of one who is not the
  owner is refused, and the lock itself is in `SplitContract`.
- **Idempotency.** A body is the request that produced it. The handler goes on
  after its client left or was answered 504.
- **RpcAccess.** Times are kept as what is left of them. An attempt that times out
  abandons its request; the answer still comes and still counts for the
  provider's health.
- **ServiceHealth.** Connections are counted. A readiness query that its endpoint
  stopped waiting for goes on holding one until it ends.
- **MembershipChanges.** Read, checks and plan are one step (nothing is awaited
  between them), compare-and-set another.
- **Invitations, LoginAttempts, SplitRecords.** Registries live in memory and
  their functions are atomic; a route awaits only what is kept elsewhere, which
  may change meanwhile.
- **Accounts.** Each SQL statement is atomic and requests interleave between
  statements. A mailed link can be followed at any later time, any number of
  times. `revoked`, `stale`, `confirmed` and `uses` are history.
- **LedgerFinality.** The network closes ledgers and includes the transaction in
  one within its bound, or never. The caller's latest ledger is read no later
  than the lookup: with the order reversed the expiry of a transaction with a
  bound would not be sound, and no caller exists yet that settles the order.
- **Reconciliation.** The tables start in any state. The dry run reads them one
  after the other, outside a transaction, while writes go on.
- **PayoutHistory.** A row is an id of arbitrary order with a timestamp that may
  tie. Rows are inserted during a walk or an export and never deleted.
- **Notifications.** One database statement is one step, and each may fail. The
  two entry points use different tables from category to preference; the property
  takes neither of them but the documented one (`OptOutOf`), and names the one
  departure of the code from it (`HeldAsMarketing`).
- **StatusStream.** A stream is a server-side response; the hook holds at most
  one, other clients hold the rest.
- **Submissions.** A transaction is built for the account's sequence number and
  can be applied while that number is current and its window open; a node reports
  an outcome late by a bounded lag.
- **ProjectViews, WalletSession.** Requests answer in any order with
  what the ledger or the extension holds when they are answered; a handler works
  with the values of the render it was clicked in.
- **AdminPanel.** A request for the pause status or the allowlist is served at one
  step and answered at another, so that an answer can be older than what is shown.
  A submission ends when the refresh that follows it has answered: only then does
  its guard reopen. `changes` numbers the states of the pause flag, and the card
  remembers the number of the one it shows. Somebody else (another tab, an earlier
  transaction of unknown outcome) may write the flag at any time.
- **CreateForm.** Three validators see a list one after another: the form, the
  backend's schema, the contract (`Shares`, the definition the proofs are about).
- **AuthChallenge, Toasts.** Timers are actions; the wallet answers whenever its
  user does; local storage may refuse a write. The messages on screen and their
  timers are in `Toasts` because the component has them, and nothing is claimed of
  them: the property is about the list of failures they leave behind. No page mounts the dialog of
  `AuthChallenge` yet.

A definition marked "Faulty variant" is not part of any specification. It is the
mutated form that `PROJECT.json` pairs with a property to show that the property
can fail.

**Composition for TLC.** A run asks one question of several components that do not
share state: `MCReads`, `MCPeople`, `MCBooks`, `MCServer`, `MCCalls` and
`MCScreens` are sums. The variable `part` (`scene` in `MCContract`) is chosen in
the initial state and says which component a behaviour belongs to; the variables
of the others have the value `Unused` and never change. One component is
`EXTEND`ed and the others are `INSTANCE`d; the constants of all of them are
constants of the composed module wherever a theorem is about the part, so that the
theorem is about every value and the cfg chooses one, and their assumptions are
stated as `ASSUME`s there. A property of a part is guarded
by `part`; several "whoever waits is answered" properties are one
`Waits ~> Over`. The state space is the sum, not the product, of the parts', and
every part is explored as if it were alone.

## 3. Runs

`tlc -config X.cfg M` in this directory. The longest runs take about four minutes
with two workers.

| Run | Shows | Bounds, and why they are enough |
|---|---|---|
| `contract` | `Conservation`, `RecordsAgree` (the claimed ledgers add up, one epoch one entitlement, the three allowlists agree), `AccountedMatches`, `Solvent`, `SplitsSound`, `RoundPaysEverybody`, and `IsEscrow` (the refinement) | *funds*: one project, shares out of 4, two splits that overlap, amounts that leave a rest, three epochs so that a claim of an old epoch meets a new one; neither pause nor allowlist (`Unrestricted`), which the other two have. *custody*: two projects of one token, batches with a repeated id, stray transfers, withdrawals, `MaxI128` small enough that a product overflows while the balance does not; a fresh and an upgraded deployment. *lifecycle*: two tokens, admins and owners, caps inside and outside their range, valid and refused lists |
| `reads` | `UsedEntriesSurvive`, `IndexSound`, `CacheSound`, `OwnerNotLockedOut`, `NeverCountsTwice`, `PassedDeadlineIsFinal` | *ttl*: threshold 2, extension 4, minimum 1, the order of the real constants. *index*: buckets of two, six ids, up to three in the flat list. *cache*: two keys, room for one entry. *api*: two requests at once, two changes of the chain, one deadline |
| `people` | `ReinviteReplaces`, `VerifiedOwnsAddress`, `GuessesBounded`, `RecordsSound`, `AuthorizedWhenCommitted`, `NoLostUpdate`, `EndedStaysEnded` | *membership*: the owner and two others, three requests for any change, two attempts, so that a request can lose every race. *invitations*: one address, three invitations, three calls. *accounts*: two wallets, two addresses, three links, five requests. *login*: limit 2, room for one entry, three parallel tries. *records*: one draft, three payments, four calls |
| `books` | `BookedIsTrue`, `ReportsTrue`, `HistoryComplete`, `NotificationsTrue`, `NothingForeign`, `NeverBackwards` | *finality*: depth 1, timeout 3, an early, a late or no bound, nodes up to four ledgers behind. *recon*: two hashes, two ledger rows, amounts zero, one, invalid and missing, one write during the run. *history*: pages of one, four ids of which three match, ties in time. *notifications*: two recipients, two events, two workers; preferences are saved or the list walked (`Apart`), which share nothing. *wallet*: two accounts, one request and one poll in flight |
| `server` | `PaymentsOnce`, `EffectsOnce`, `PaymentsIndexed`, `ServerWaitsEnd` | *listener*: three payouts as claims and rounds of two (`TxSizes = {1, 2}`) in pages of two, so that a round fits a page, fills one, or is cut by its end; three RPC or commit failures (the back-off threshold), one failed lookup, one failed start, two restarts. *idempotency*: three attempts at one request, another request with the same key, two disconnects or timeouts. *health*: two transactions, two connections, three retries, one probe |
| `calls` | `CountsTrue`, `QuarantineHolds`, `EveryWaitEnds`, `PollingEnds`, `DepartedAccountLeaves` | *rpc*: two providers, a budget of two, two calls one after the other, so that answers the first one abandoned meet the second. *stream*: two hashes, two streams. *wallet*: nothing typed, so that only the account matters. *auth*: three challenges |
| `screens` | `BuiltIsAccepted`, `SubmissionsTrue`, `ViewsTrue`, `FailuresShown`, `PauseInOrder` | *views*: pages of one, two projects, one title update, one load at a time beside it (`FewAtATime`). *form*: two addresses, three rows, shares out of four typed as 0, 2 or 4. *submissions*: three actions of which a creation and one other run (`OneBeside`), two transactions, window and margin of one tick. *admin*: two tokens, two balance reads, a status request of each kind (first load, refresh, after a toggle), two submissions or writes of others, one of the three cards per behaviour (`OneCard`), which share only the bound on submissions. *toasts*: two tabs, a list of two |
| `listener_round`, `listener_lookup`, `idempotency_race`, `account_links`, `submission_twice` | violations, see section 6 | the smallest instance that shows the disagreement, or the part of the run above with its bounds |

Symmetry is used in `reads` and `people` (places of requests), `books` (hashes,
accounts) and `screens` (titles, addresses, tokens): values that no definition
tells apart and that no fixed value of the cfg names. None of these runs has a
liveness property; their action properties are symmetric too. Deadlock is checked in
`contract` only: elsewhere the number of requests, events, failures or ticks is
finite and a behaviour may have used them up.

## 4. Fairness

- `EventListener`: weak fairness of start, fetch, lookup, commit, publish, close
  and exit. The interval timer keeps firing while it is armed, awaited database
  and RPC calls return or throw, the shutdown handler runs to its end and the
  process manager restarts the process. Failures, crashes and shutdowns are not
  fair and are bounded: with failures for ever nothing is promised.
- `Idempotency`: weak fairness of each handler's answer. A handler returns or its
  error reaches the error middleware.
- `ServiceHealth`: weak fairness of the timers of a readiness request
  (`setTimeout` of `health.ts`) and of the steps of a transaction: a statement
  returns or throws. A dependency may stay silent for ever.
- `RpcAccess`: weak fairness of sending, of the attempt timeout, of waking from a
  delay and of the passing of time. Providers owe no answer.
- `StatusStream`: weak fairness of the close handlers (Node reports a socket that
  ended), of the delivery of frames and of polling, which `setTimeout` drives.
- `WalletSession`: weak fairness of the two-second poll and of the arrival of
  answers. The extension owes no particular answer.
- `AuthChallenge`: weak fairness of the interval that looks at the expiry.

The other specifications are safety only.

## 5. Proofs

`tlapm M.tla`; `ReadsProofs`, `BooksProofs` and `ScreensProofs` take five to seven
minutes from nothing, the others less. The assumptions are the `ASSUME`s of the modules, which TLC evaluates in
every run. They say that constants are naturals or subsets of the sets the code
takes them from, that tables, callers and attempts are finite sets, and

- that a value standing for "nobody" or "no address" is none of the real ones
  (`ApiAssumption`, `AccountsAssumption`, `LoginAssumption`);
- that the threshold is below the extension (`TtlAssumption`) and the default cap
  within its range (`ConfigAssumption`), as the constants of `lib.rs` are;
- that a lockout lasts at least a window of failures (`LoginAssumption`; both are
  15 minutes in `login-attempts.ts`). Without it an entry could come free while
  failures it counted still lie in the window;
- that a project list of the first version has no repeats and fits the buckets
  (`IndexAssumption`);
- that the failure threshold and the cooldown of a provider are at least 1
  (`RpcAssumption`; the constructor in `rpc-provider-health.ts` rounds them up);
- that the margin after which a transaction counts as expired is above zero and
  covers the lag of a node (`SubsAssumption`; 60 s in `submission-guard.ts`).
  A margin of zero would declare a transaction expired at the very instant its
  window closes, when it can still be applied;
- that the form has room for the two rows it begins with and that shares are out
  of a positive total (`FormAssumption`), and that the list of failures holds at
  least one (`ToastAssumption`).

The composed modules are proved about as they are checked: a theorem speaks of
`MCSpec`, its invariant of one part, and the other parts are dealt with by one
step each, since a step of theirs leaves the part's variables alone.

### Contract (`SplitContractProofs`)

- **DistributionIsExact**: for every valid split and every
  balance, the payouts are naturals, add up to the balance, and only the last
  differs from the rounded-down share, by at most one unit per other
  collaborator. The floors of the shares of a prefix never exceed the exact share
  of the prefix, and each floor loses less than one unit.
- **TypeCorrect, SplitsAlwaysSound, MoneyConserved, CacheIsExact, AlwaysSolvent,
  LockIsPermanent**. The invariant `Inv` joins them,
  because none is inductive alone: a payout keeps types only if the split is sound
  (else a balance could go negative), a withdrawal keeps solvency only if the
  cache is exact, and a payout keeps the cache exact only because it sends exactly
  what it subtracts.
- **RecordsAlwaysAgree**. `AllowlistAgrees` is inductive by
  itself: removing a token from the list keeps it an enumeration of the set
  (`Enumerates`). The ledgers are sums over the addresses, so the proof adds up
  functions over finite sets (`SumsProofs`: what changing one value, or one after
  the other along a list of distinct collaborators, does to the sum).
  `EpochLedger` needs two more conjuncts: nobody's last claim is of an epoch to
  come (`EpochsPast`), and a project not yet created has no ledger
  (`Untouched`).
- **RoundsPayEverybody**: an action property. `DistributionIsExact` gives the
  payouts, and a step that counts a round is shown to be one that paid it.
- **ContractIsEscrow**: the refinement, with `Free` and `Paid` of `SplitContract`
  as the mapping. `AlwaysSolvent` is what makes the mapped free tokens a natural;
  each entry point maps to a payment in, a payout, a withdrawal or a stutter, and
  the initial states of an upgraded deployment to initial states.

### Reads and routes (`ReadsProofs`)

- **UsedProjectAlwaysSurvives, UsedClaimsAlwaysSurvive, UsedEntriesAlwaysSurvive**.
  The properties speak of a clock and a TTL; the invariant keeps their sum above
  the threshold, which every closing ledger preserves.
- **CacheAlwaysSound**. `CacheInv` says of an entry, of a read in flight and of a
  caller what the version they carry is worth: the read listed for a key is
  unsettled and unanswered, or was answered after the last invalidation of the key
  (`FlightOk`); the read a caller awaits is unanswered or was answered after the
  floor he came with (`AskOk`); and the map has one entry per key, each read after
  its floor, within the bound (`StoreOk`).
- **OwnerNeverLockedOut, PayoutsNeverCountedTwice, PassedDeadlineAlwaysFinal**.
  A fetch that others may join is under way, for the key they need
  (`ReadingOk`, `JoinOk`). Once a request has looked past the cache, what the cache
  holds and what is being fetched names its wallet, if that has been the owner all
  the time (`Trusts`); so a 401 means that it was not. A project joins a record and
  a balance of two moments, the record first (`GotOk`); payouts only grow and what
  they add leaves the balance, so a late balance can hide a payout and never count
  it twice (`StoredOk`). A request that saves a deadline carries what it checked.
- **IndexAlwaysSound**. `IndexInv` says that there is a list of which the buckets
  are the pieces (`Cuts`), that names every id once, and that with what the flat
  list adds to it has as many ids as there are projects. Reading the buckets gives
  that list back (`CutsRead`), an append goes to its end (`CutsAppend`), a migration
  leaves the cut of the merged list (`MigratedCuts`), and the walk over the buckets
  collects the piece it was asked for (`PageIsPiece`). `IndexAssumption` says of a
  list the first version left behind that it has no repeats, because a creation
  refused an id that existed, and leaves room for another id within `MaxBuckets`.

### People (`PeopleProofs`)

- **AlwaysAuthorizedWhenCommitted, NeverALostUpdate,
  ExpectedVersionAlwaysHonoured, ConflictAlwaysMeansContention**. A version
  identifies a record (`VersionIdentifiesRecord`), a plan was permitted on its
  base, and every attempt but the first has cost a commit of somebody else.
- **GuessesAlwaysBounded**. The property counts wrong guesses of a window,
  while an entry counts failures since it was made, and an entry can be evicted
  or start over. `LoginInv` links the two: the places of an entry are the attempts
  that hold one (`EntryOk`); a wrong guess the entry does not count came before its
  window (`WindowOk`); and of those it does not count at most limit − 1 are recent,
  because the window they were in did not end in a lock (`GuessesOk`). Those and
  the limit an entry counts itself can meet in one window, hence twice the limit
  less one.
- **ReinviteAlwaysReplaces** and, with `AcctsInv`, **EndedAlwaysStaysEnded**.
  `InvitationsInv` says that pending invitations older than one issued again are of
  other addresses or projects. **VerifiedAlwaysOwnsAddress**: `AcctsInv` follows every link, session and
  request in progress (`LinksOk`, `CredentialOk`, `RequestOk`), because each carries
  an address and a session version read earlier, and says what it may still be
  worth. Saves of a stale profile are in it as what they are (section 6).
- **RecordsAlwaysSound**. The loop over payment records keeps the best of those
  it has seen, by induction over the list. `RecInv` adds that a published draft is
  whole (`DraftOk`), that a split is cancelled once and one caller is told so, and
  that a call begun after that knows (`CallOk`).

### Books (`BooksProofs`)

- **BookedAlwaysTrue, NeverMovesBackwards**: a transaction landed within its bound
  or nowhere (`NetworkSound`), and a node's answer is of a ledger it has reached.
- **HistoryAlwaysComplete**. Pages are the first rows of a descending order, so
  the lemmas are about a strict order on a finite set: what is ahead of a row, and
  that the first *n* of a set ahead of a cursor leave nothing out between them.
  `WalkOk`: what was shown lies behind the cursor, what is owed and not shown lies
  ahead of it. `ExportOk`: a row that is owed and not yet written has at least
  `offset` rows ahead of it. Inserts only ever push rows to higher offsets.
- **NotificationsAlwaysTrue**. The unique index is `OneRowEach`; `CallOk` says of
  each worker what its last statement lets it conclude (a row found missing can be
  there by the time of the insert); `NoticesWalkOk` is `WalkOk` for notices.
- **ReportsAlwaysTrue**. What the run has read equals the tables as long as nobody
  wrote (`ReadsOk`), and completed payouts stay completed. That a silent run means
  equal tables needs arithmetic: a part of positive amounts with the same total
  as the whole is the whole (`PartIsWhole` in `SumsProofs`).
- **NothingIsForeign**: `NothingForeign` is inductive together with the types. An
  answer is dropped unless the account it was asked for is still shown, and the
  form is replaced in the render that shows another account.

### Server (`ServerProofs`)

- **EffectsAlwaysOnce**. `Budget`: a key in progress stands for one handler, every
  early end (disconnect or 504) for one more, and a success spends what its handler
  held. `HealthInv`
  keeps the pool's books: connections in use are those of transactions between
  begin and release and the one of the readiness query (`PoolAccounted`, by
  cardinality).
- **ToldAtMostOnce, PaymentsAlwaysOnce, NothingSkippedUnharmed**.
  `ListenerInv` relates the cursor in memory to the persisted one (`CursorsOk`) and
  says of every payout of a page that was looked up that it is fresh, stored
  already or a failed lookup (`LookupOk`), and of one to be published that it is
  stored and was not told (`PublishOk`). None of it depends on what a transaction
  contains: a round whose payouts lie in one page cannot be committed
  (`OneRowPerTx`), and one cut by the end of a page is found under the row of its
  first part. `PaymentsAlwaysOnce` excepts the payouts a commit left behind (`lost`).
  `NothingSkippedUnharmed` says when there are none: with no failed lookup and no
  failed start (`MaxLookupFaults = 0`, `MaxBootFaults = 0`), every payout behind the
  cursor is indexed, whatever RPC calls, commits, crashes and shutdowns do. Hence
  these two are the only ways of losing one; `listener_lookup` is the first.

### Calls (`CallsProofs`)

- **CountsAlwaysTrue**. `CallsInv`: a call that is under way has recorded nothing,
  or only the success of the probe before it (`OutcomeOk`). An answer to an attempt
  that was given up belongs to no call any more, so it can touch the provider's
  health and no outcome. For the streams the bound is inductive with the types
  (`StreamInv`): a subscription is made and dropped in the step that opens or ends
  its response.
- **QuarantineAlwaysHolds**. The code keeps a deadline per provider, the property
  speaks of the time since the newest failure. `HealthInv` says that the count of
  failures is the streak since the last valid answer, and that once it is at the
  threshold what is left of the quarantine and the time since the newest failure
  add up to a cooldown at least. Time moves from one to the other; a late failure
  sets the first back to a whole cooldown and the second to zero.

### Screens (`ScreensProofs`)

- **UnblockedAlwaysDecided**, of the specification of `Submissions` itself, and
  **SubmissionsAlwaysTrue**, of the composition. `SubsInv` says of a transaction
  that it landed within its window and is called expired only when the window is
  over (`TxSound`); that an action is marked with exactly the submission reported as
  unconfirmed (`Marked`); that a run owns its transaction until the outcome is in
  (`TaskSound`); that a check which is under way is about what still blocks its
  action and read the clock no later than now (`CheckSound`); that a transaction the
  idempotency key would replay was never reported (`KeySound`: else a second run
  could come back with it and change what was said of it); and that the receipt is
  that of the one run that polls (`ReceiptSound`, with `FlowAlone`).
- **TitlesNeverPhantom**, of `ProjectViews` itself, and **ViewsAlwaysTrue**. The
  property says nothing while an update is under way, so `ViewsInv` does: a row of a
  view has a title its project has had, or is the row of the update with its new
  title (`Shown`). Hence patching the one id back is enough wherever a load or a
  selection copied the title. It needs that the title to put back is one the
  project had (`UpdateSound`), and that reads in progress carry only such titles.
  For the list, the next page begins where the list ends, also for a page that was
  asked for already (`ListSound`).
- **BuiltAlwaysAccepted** and **FailuresAlwaysShown**. `FormInv`: a list that was
  built is still the list that was checked. That the form names what stops it is a
  lemma about its two validators (`InvalidIsNamed`). `ToastInv`: the newest failure
  of a tab is in its list and a tab that has not read the stored list has reported
  none; the trimmed list keeps its last elements (`LastOfKeeps`), hence a limit of
  at least one.
- **PauseStaysInOrder**. Requests for the pause status carry no number, so the
  order of their answers is kept by what stops a second one from being asked. The
  proof is that argument: the button is disabled while a request is under way, an
  open modal covers it, and a toggle starts only from a modal and keeps its guard
  until its own refresh has ended; so, on a page not refreshed before its first
  load ended, at most one request is under way (`OneStatusRead`), and what it was
  served is no older than what the card shows (`Reading`). The first load disables
  nothing: its end makes the card look idle under a refresh, which is the exemption
  `early`, and `PauseAlwaysInOrder` shows that it is needed.

### How inductions are done

The library's induction rules take an operator as a parameter, which no installed
prover can instantiate. Inductions over naturals here are stated about the set of
the numbers for which the statement holds: that set contains 0 and is closed under
successor, or the set of counterexamples has a least element (`NatSetInduction` and
`LeastNat` in `SumsProofs`). `SubsetInduction` does the same for finite sets. A
recursive function is first shown to exist (`TotalsDef`, `PartSumsDef`,
`DroppingSteps`, `OneRun`), since a definition by recursion says nothing of a function that
does not.

### What is only model-checked

Every safety invariant and every action property of the passing runs is stated by a
theorem. Liveness is not: `PaymentsIndexed`, `ServerWaitsEnd`, `EveryWaitEnds`,
`PollingEnds` and `DepartedAccountLeaves` stay with TLC, since fairness and ENABLED
are out of the prover's reach. So do the five violations of section 6.

`TypeCorrect`, `LockIsPermanent`, `ExpectedVersionAlwaysHonoured`,
`ConflictAlwaysMeansContention` and `ToldAtMostOnce` have no run of their own;
`NothingSkippedUnharmed` is about the property that `listener_lookup` violates, under
the bounds that exclude the cause; `UnblockedAlwaysDecided` and `TitlesNeverPhantom` are
`SubmissionsTrue` and `ViewsTrue` without the bounds `OneBeside` and `FewAtATime`.

## 6. Where code and text disagree

Shown by a run:

- `listener_round`: a distribution announces one `payment_sent` per
  collaborator, all with one transaction hash. The rows of a page are upserted on
  that hash in one statement, which Postgres refuses for two rows of one hash. The
  page fails on every poll and nothing after it is indexed
  (`EventListenerService.ts:438`, `docs/contract-events.md:172`).
- `listener_lookup`: a row lookup that throws is logged and its payout left out; the
  rest of the page is stored with the cursor of the whole page, so the payout is
  never looked at again (`EventListenerService.ts:408`). The comment in that catch
  says "Fail the whole batch: skipping would advance the cursor past a payment that
  was never recorded"; only a malformed payout does.
- `idempotency_race`: a disconnect or a 504 removes the key while the handler
  still runs, so a retry starts a second one, although
  `middleware/idempotency.ts:66` says a concurrent retry cannot race the first
  attempt. `OverlapBounded` says how far this can go.
- `account_links`: a link that confirms a change of address matches again once a
  second link has changed the address back; `routes/auth-account.ts:165` says it
  is single-use.
- `submission_twice`: a send whose response is lost is rethrown before its hash is
  kept, so the action is not blocked while the transaction may still land;
  `split-app-legacy.tsx:505` says it cannot be sent twice.

Stated in the modules as definitions that do not hold, each with the reason; TLC
refutes them on small instances:

| Statement | Source of the claim | Why it fails |
|---|---|---|
| `SplitsApi!CreatedAppears` | `routes/splits.ts:397`, "appears immediately" | the list cache is emptied when a transaction is prepared; a list read before its inclusion is cached again |
| `StatusStream!ConfirmedIsNoticed` | `openapi.ts`, "observe a single transaction until it's confirmed" | the server sends a named event, `onmessage` is called for unnamed ones only |
| `Reconciliation!LagIsNotAViolation` | `ledger-invariants.ts`, pending with a settlement "is legitimate" | the aggregate of INV-5 counts the settlement and not the payout |
| `Notifications!SystemNoticesDelivered` | `notification-preferences.service.ts:105`, a system notice "is operational ... and is always delivered" | `deliverNotification` goes by `toPreferenceCategory` (`notifications.service.ts:258`), which maps `system` to `marketing`: an opt-out of marketing suppresses it. A test expects that mapping (`notifications.service.test.ts:444`). `enqueueNotification` uses the documented table |
| `Notifications!FanoutReachesOthers` | `notifications.service.ts:211`, a "failure on one recipient does not abort the others" | an error other than the duplicate leaves the loop (219), and the recipients after it get nothing |
| `RpcAccess!LastAttemptFindsProvider` | `rpc-provider-health.ts`, the comment where `next()` throws | all delays of a budget together are shorter than a cooldown |
| `ProjectViews!EarningsFollowAccount` | `split-app-legacy.tsx:1235` | a failed load, or one of the account before, leaves the earlier account's earnings |
| `WalletSession!SavedDraftIsShown` | `split-app-legacy.tsx` and `form-draft.ts`, drafts survive a reload | the mount renders no account first, and connecting then reads no draft |
| `AdminPanel!ShownPauseIsConfirmed` | `DashboardView.tsx`, "confirmed on ledger" | the hash is shown as soon as it is sent |
| `AdminPanel!PauseAlwaysInOrder` | `split-app-legacy.tsx:1142`, the card shows the contract's status | a refresh during the first load is not seen as loading once that load ends (452); the modal can be opened, and the refresh may answer after the toggle with what was before it |
| `AdminPanel!ListShownIsTrue` | `split-app-legacy.tsx:1199`, the list is read again after a change | a refresh under way does not disable the two buttons; its answer may come after the change it misses |
| `AdminPanel!ReviewKeepsToken` | `DashboardView.tsx:668`, "Review before signing" | the answer of another request replaces the balance, its token included, under an open review |
| `CreateForm!TokenTextFollowsAccount` | `split-app-legacy.tsx:223` | `TokenPicker.tsx` keeps a text of its own over a reset |
| `AuthChallenge!ChallengeSignedOnce` | `WalletAuthChallenge.tsx`, "single-use" | a late refusal of an old challenge reopens the button under an open request |
| `Toasts!ListedFailuresStay` | `toast-history.ts`, the two lists "cannot drift" | the next append starts from the stored list, without what storage refused |

Met while modelling, visible in the models:

- A failed read of the persisted cursor at start makes the listener poll from the
  tip and overwrite the cursor (171); the comment at 428 says events are never
  skipped after a restart. It is the second half of `LeftBehind`.
- A failed `registerInvitation` (an `expiresAt` that has passed,
  `invitation-registry.ts:97`) or another inviter's pending invitation ends a
  re-invitation after earlier ones were cancelled: nothing is issued instead of them.
- `refresh_project_storage` extends the record and the balance only;
  `contracts/lib.rs:989` and `docs/runbooks/ttl-refresh-operations.md:48` say that
  it keeps claimed ledgers alive.
- A read above the TTL threshold extends nothing, so "any read operation resets
  this clock" (`contracts/lib.rs:58`) does not give five days; what holds is
  `UsedEntriesSurvive`.
- On the flat layout `get_project_ids` ignores `start` and `limit`
  (`contracts/lib.rs:1551` against 1219). `PagesAreSlices` is about the buckets.
- `NOT_FOUND` of a lagging node after `failed` raises `finality_conflict`
  (`ledger-finality.ts:239`); `docs/ledger-transaction-finality.md:57` says such
  reads keep the previous state.
- A profile save writes the whole row it read before, the session version
  included (`routes/users.ts:205`), and can undo a revocation: `stale` in
  `Accounts` is that exception.
- The registry of invitations is lost at a restart.
- A readiness query whose endpoint gave up keeps its connection until it ends
  (`hung` in `ServiceHealth`).
- In the page, a lock that is confirmed late marks the project shown then
  (`split-app-legacy.tsx`, `runLockProject`), and an empty list or dashboard whose
  load fails is loaded again at once (1242 to 1258).

## 7. State of the project

Modelled, in this order: shares and funds, escrow refinement, index, TTLs,
listener, cache, idempotency, membership changes, finality; then the API,
accounts, invitations, sign-in attempts, records, RPC access, reconciliation,
history, notifications, streams, database and health; then submissions, views,
wallet session, admin cards, form, dialog and messages of the frontend.

Proved: every safety property the passing runs check (section 5). What is left is
liveness, and `TypeOK` of the parts whose inductive invariant carries only the types
its proof needs.

Not modelled: encoding of transactions and events, cryptography, delivery of
mail, the shape of RPC answers beyond whether they are valid, the rate limiter (a
third-party middleware), the audit log and metrics (append-only), the API
description (declarations), migrations, seeding and the restore drill (sequential
one-off programs), the contract's host-side tooling, and presentation,
translation, themes, landing pages and banners of the user interface, which share
no state with the parts above. Entries of the index, the configuration and the
allowlist are never extended by the contract and have no TTL in `StorageTtl`. u32
saturation of round and epoch counters lies outside the bounds.

Within modelled parts: `SplitsApi` reads one consistent chain, so a simulation
answered by a backup provider that lags (`stellar.ts:427`) is not in it;
`Submissions` leaves out a page reload, which loses the record of an unconfirmed
submission kept in memory, and the window after which an RPC node forgets a
transaction; `AdminPanel` takes the modal to cover the page, though the keyboard
focus is not held inside it.
