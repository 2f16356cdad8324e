------------------------------ MODULE SplitsApi ------------------------------
(***************************************************************************)
(* The HTTP API of the splits (routes/splits.ts, splits.controller.ts,     *)
(* splits.service.ts, project-expiration.ts) for one project id: wallets   *)
(* ask for transactions, sign and submit them, and read the project; the   *)
(* server keeps a read cache and the history table, the contract decides.  *)
(*                                                                         *)
(* A route is the sequence of its steps, each of which ends at an await;   *)
(* requests interleave between steps, and every step can fail.  Addresses  *)
(* and payloads are valid (the schemas reject the rest before any step).   *)
(* The contract is reduced to what the API reads back; SplitContract has   *)
(* the rest, ReadCache the cache in full.                                  *)
(***************************************************************************)
EXTENDS Integers, Sequences, FiniteSets

CONSTANTS
  ApiWallets, Admin,  \* wallets; the one that administers the contract
  ApiSlots,           \* requests the server works on at the same time
  Ops,                \* the routes that clients use
  Deadlines,          \* moments that clients ask for as expiresAt
  MaxNow,             \* bound on the clock
  MaxRequests,        \* bound on the requests of a behaviour
  MaxChain            \* bound on the changes of the chain

Never == 1000         \* no deadline
Nobody == "nobody"    \* owner of a project that does not exist
Keys == {"project", "list"}
Miss == [miss |-> TRUE]
Free == [step |-> "free"]

VARIABLES
  chain,      \* the contract: [owner, paid, out, paused]
  changes,    \* number of transactions the chain has applied
  now,        \* the server's clock
  deadline,   \* project_edit_history: expiresAt of the newest expiration event
  reached,    \* project_edit_history: number of expiration.reached events
  stored,     \* cache key -> value or Miss
  reading,    \* cache key -> the request whose fetch others join, or "none"
  tasks,      \* slot -> request
  arrived,    \* number of requests so far
  prepared    \* unsigned transactions handed out: [op, by]

apiVars == <<chain, changes, now, deadline, reached, stored, reading,
             tasks, arrived, prepared>>
history == <<deadline, reached>>
cache == <<stored, reading>>

Exists(c) == c.owner # Nobody

\* The contract in the state c refuses the transaction.
Refused(c, tx) ==
  \/ tx.op = "create" /\ Exists(c)
  \/ tx.op \in {"deposit", "distribute", "claim"} /\ ~Exists(c)
  \/ tx.op = "distribute" /\ c.paused
  \/ tx.op \in {"distribute", "claim"} /\ c.out = c.paid
  \/ tx.op \in {"lock", "collaborators", "metadata"} /\ c.owner # tx.by

\* What it does otherwise, of what the API reads back.
Applied(c, tx) ==
  CASE tx.op = "create"     -> [c EXCEPT !.owner = tx.by]
    [] tx.op = "deposit"    -> [c EXCEPT !.paid = @ + 1]
    [] tx.op = "distribute" -> [c EXCEPT !.out = c.paid]
    [] tx.op = "claim"      -> [c EXCEPT !.out = @ + 1]
    [] tx.op = "pause"      -> [c EXCEPT !.paused = TRUE]
    [] tx.op = "unpause"    -> [c EXCEPT !.paused = FALSE]
    [] OTHER                -> c
----------------------------------------------------------------------------
(* The routes.  A builder of the service is a part of its route's steps.   *)

BuildUnsignedContractCall == <<"account", "prepare">>
BuildCreate        == <<"unique", "account", "prepare">>
BuildLock          == <<"open", "owner", "account", "prepare">>
BuildDeposit       == <<"open", "token", "account", "prepare">>
BuildCollaborators == <<"open", "owner", "account", "prepare">>
BuildMetadata      == <<"open", "owner", "account", "prepare">>
BuildPause         == <<"account", "prepare">>
BuildUnpause       == <<"account", "prepare">>
BuildAllow         == BuildUnsignedContractCall
BuildDisallow      == BuildUnsignedContractCall
BuildWithdraw      == <<"account", "prepare">>
BuildClaim         == <<"open">> \o BuildUnsignedContractCall

\* Under /splits/admin: the API key, for writes the switch that disables them,
\* and a response that must fit its schema.
AdminAccess == <<"gate">>
ValidatedResponse == <<"shape">>
AdminRoute(steps) == AdminAccess \o steps \o ValidatedResponse

CreateRoute        == BuildCreate \o <<"created", "configure", "save", "evictList">>
LockRoute          == BuildLock \o <<"record">>
DepositRoute       == BuildDeposit \o <<"evict">>
CollaboratorsRoute == BuildCollaborators \o <<"record">>
MetadataRoute      == BuildMetadata \o <<"record">>
DistributeRoute    == <<"open", "paused">> \o BuildUnsignedContractCall \o <<"evict">>
ClaimRoute         == BuildClaim \o <<"evict">>

\* Faulty variant: a passed deadline does not stop its replacement.
ExpirationUnchecked == <<"owner", "configure", "save", "evict">>

ExpirationRoute    == <<"owner", "open", "configure", "save", "evict">>
PauseRoute         == AdminRoute(BuildPause)
UnpauseRoute       == AdminRoute(BuildUnpause)
AllowRoute         == AdminRoute(BuildAllow)
DisallowRoute      == AdminRoute(BuildDisallow)
WithdrawRoute      == AdminRoute(BuildWithdraw)
GetRoute           == <<"project", "expiration", "payouts">>
ListRoute          == <<"page", "count">>
ClaimableRoute     == <<"account", "simulate">>
HistoryRoute       == <<"rounds", "payments">>
StatusRoute        == AdminRoute(<<"simulate">>)
AllowlistRoute     == AdminRoute(<<"simulate">>)
IsTokenAllowedRoute == AdminRoute(<<"simulate">>)
TokenCountRoute    == AdminRoute(<<"simulate">>)
UnallocatedRoute   == AdminRoute(<<"simulate">>)

Route ==
  [create |-> CreateRoute, lock |-> LockRoute, deposit |-> DepositRoute,
   collaborators |-> CollaboratorsRoute, metadata |-> MetadataRoute,
   distribute |-> DistributeRoute, claim |-> ClaimRoute,
   expiration |-> ExpirationRoute, pause |-> PauseRoute,
   unpause |-> UnpauseRoute, allow |-> AllowRoute, disallow |-> DisallowRoute,
   withdraw |-> WithdrawRoute, get |-> GetRoute, list |-> ListRoute,
   claimable |-> ClaimableRoute, history |-> HistoryRoute,
   status |-> StatusRoute, allowlist |-> AllowlistRoute,
   isTokenAllowed |-> IsTokenAllowedRoute, tokenCount |-> TokenCountRoute,
   unallocated |-> UnallocatedRoute]

AdminOps == {"pause", "unpause", "allow", "disallow", "withdraw"}
\* Routes whose behaviour does not depend on who asks.
PublicOps == {"get", "list", "claimable", "history", "status", "allowlist",
              "isTokenAllowed", "tokenCount", "unallocated"}
Expired == deadline <= now
----------------------------------------------------------------------------
ApiInit ==
  /\ chain \in [owner : {Nobody} \cup ApiWallets, paid : {0, 1}, out : {0},
                paused : {FALSE}]
  /\ chain.paid > 0 => Exists(chain)
  /\ changes = 0 /\ now = 0
  /\ deadline = Never /\ reached = 0
  /\ stored = [k \in Keys |-> Miss] /\ reading = [k \in Keys |-> "none"]
  /\ tasks = [r \in ApiSlots |-> Free]
  /\ arrived = 0
  /\ prepared = {}

\* A request: what it asks for, where its route stands, what it has read, and
\* how it ends.  The rest is history: whether, at every moment since it arrived,
\* its wallet owned the project and the deadline had passed, and whether the
\* project existed when it arrived.
Request(op, w, d) ==
  [step |-> Head(Route[op]), todo |-> Tail(Route[op]), op |-> op, by |-> w,
   expires |-> d, got |-> Miss, again |-> FALSE, listed |-> FALSE,
   owned |-> chain.owner = w, closed |-> Expired, existed |-> Exists(chain)]

Arrive(r, op, w, d) ==
  /\ tasks[r] = Free /\ arrived < MaxRequests
  /\ op \in AdminOps \cup PublicOps => w = Admin
  /\ op \in {"create", "expiration"} \/ d = Never
  /\ op = "create" /\ d # Never => d > now
  /\ arrived' = arrived + 1
  /\ tasks' = [tasks EXCEPT ![r] = Request(op, w, d)]
  /\ UNCHANGED <<chain, changes, now, history, cache, prepared>>

At(r, s) == tasks[r].step = s

\* The request r ends with an HTTP status, or its next step begins.
Answered(t, code) == [t EXCEPT !.step = code, !.todo = <<>>]
Advanced(t) == IF t.todo = <<>> THEN Answered(t, "ok")
               ELSE [t EXCEPT !.step = Head(t.todo), !.todo = Tail(t.todo)]
Goes(r, t) == tasks' = [tasks EXCEPT ![r] = t]
Quiet == UNCHANGED <<chain, changes, now, arrived>>

\* What a step of the route does when it only awaits an answer of the node or
\* of the database that nothing here depends on.
Awaits(r) ==
  /\ tasks[r].step \in {"account", "count", "payouts", "simulate", "rounds",
                        "payments", "created", "expiration", "record",
                        "gate", "shape"}
  /\ Goes(r, Advanced(tasks[r]))
  /\ Quiet /\ UNCHANGED <<history, cache, prepared>>

\* A step fails: the error handler answers.  (The steps "expiration", "payouts"
\* and "record" log a failure and go on; a fetch fails in FetchFails.)
Fails(r) ==
  /\ tasks[r].step \in {"account", "count", "simulate", "rounds", "payments",
                        "created", "open", "mark", "unique", "paused",
                        "prepare", "configure", "save", "gate", "shape"}
  /\ Goes(r, Answered(tasks[r], "error"))
  /\ Quiet /\ UNCHANGED <<history, cache, prepared>>

Leave(r) ==
  /\ tasks[r].step \in {"ok", "error", "notFound", "unauthorized", "expired",
                        "conflict", "invalid"}
  /\ Goes(r, Free)
  /\ Quiet /\ UNCHANGED <<history, cache, prepared>>
----------------------------------------------------------------------------
(* Reads through the cache.  The steps "project", "token" and "owner" need *)
(* the project, "page" the list.                                           *)

KeyOf(s) == IF s = "page" THEN "list" ELSE "project"
Reads == {"project", "token", "owner", "page"}

\* Faulty variant: the first mismatch is final.
MismatchIsFinal(t) == Answered(t, "unauthorized")

\* assertProjectOwner: the project that was read has another owner.
Mismatch(t) == IF t.again THEN Answered(t, "unauthorized")
               ELSE [t EXCEPT !.again = TRUE]

\* What a request does with the value v it was given.
Given(t, v) ==
  CASE t.step = "project" -> IF v.owner = Nobody THEN Answered(t, "notFound")
                             ELSE Advanced(t)
    [] t.step = "token"   -> IF v.owner = Nobody THEN Answered(t, "invalid")
                             ELSE Advanced(t)
    [] t.step = "page"    -> Advanced([t EXCEPT !.listed = v.owner # Nobody])
    [] t.step = "owner"   -> IF v.owner = Nobody THEN Answered(t, "notFound")
                             ELSE IF v.owner = t.by THEN Advanced(t)
                             ELSE Mismatch(t)

Evicted(K) ==
  /\ stored' = [k \in Keys |-> IF k \in K THEN Miss ELSE stored[k]]
  /\ reading' = [k \in Keys |-> IF k \in K THEN "none" ELSE reading[k]]

\* assertProjectOwner drops the cached project before it looks again.
LooksAgain(r, t) == t.step = "owner" /\ t.again /\ ~tasks[r].again

\* getCachedOrFetch finds an entry.
Hit(r) ==
  /\ tasks[r].step \in Reads
  /\ LET k == KeyOf(tasks[r].step)
         t == Given(tasks[r], stored[k])
     IN  /\ stored[k] # Miss
         /\ Goes(r, t)
         /\ IF LooksAgain(r, t) THEN Evicted({k}) ELSE UNCHANGED cache
  /\ Quiet /\ UNCHANGED <<history, prepared>>

\* A fetch is under way: the request awaits it.
Join(r) ==
  /\ tasks[r].step \in Reads
  /\ LET k == KeyOf(tasks[r].step)
     IN  /\ stored[k] = Miss /\ reading[k] # "none"
         /\ Goes(r, [tasks[r] EXCEPT !.step = "join", !.got = reading[k],
                                     !.todo = <<tasks[r].step>> \o @])
  /\ Quiet /\ UNCHANGED <<history, cache, prepared>>

\* fetchProjectById, fetchProjectsFromContract: the request calls the fetcher,
\* whose first simulation is answered (get_project, list_projects).
Fetch(r) ==
  /\ tasks[r].step \in Reads
  /\ LET k == KeyOf(tasks[r].step)
     IN  /\ stored[k] = Miss /\ reading[k] = "none"
         /\ reading' = [reading EXCEPT ![k] = r]
         /\ Goes(r, [tasks[r] EXCEPT !.step = "fetched", !.got = Miss,
                                     !.todo = <<tasks[r].step>> \o @])
  /\ Quiet /\ UNCHANGED <<history, stored, prepared>>

\* Faulty variant: the balance is read before the project.
BalanceFirst(r) ==
  /\ At(r, "fetched")
  /\ LET t == tasks[r]
     IN  Goes(r, [t EXCEPT !.step = "balance",
                           !.got = [owner |-> chain.owner,
                                    balance |-> chain.paid - chain.out]])
  /\ Quiet /\ UNCHANGED <<history, cache, prepared>>

ReadProject(r) ==
  /\ At(r, "fetched")
  /\ LET t == tasks[r]
     IN  Goes(r, [t EXCEPT !.step = "balance",
                           !.got = [owner |-> chain.owner, out |-> chain.out]])
  /\ Quiet /\ UNCHANGED <<history, cache, prepared>>

\* The fetch of r for the key k ends: it is kept if it is still the current
\* one, and r and everybody who joined it go on.
Completes(r, k, v) ==
  LET waits(x) == x = r \/ (At(x, "join") /\ tasks[x].got = r)
      back(x) == [tasks[x] EXCEPT !.step = Head(tasks[x].todo),
                                  !.todo = Tail(tasks[x].todo), !.got = Miss]
      next == [x \in ApiSlots |-> IF waits(x) THEN Given(back(x), v) ELSE tasks[x]]
      kept == [stored EXCEPT ![k] = IF reading[k] = r THEN v ELSE @]
      over == [reading EXCEPT ![k] = IF @ = r THEN "none" ELSE @]
      again == \E x \in ApiSlots : waits(x) /\ LooksAgain(x, next[x])
  IN  /\ tasks' = next
      /\ stored' = [j \in Keys |-> IF again /\ j = k THEN Miss ELSE kept[j]]
      /\ reading' = [j \in Keys |-> IF again /\ j = k THEN "none" ELSE over[j]]

\* The second simulation, get_balance, is answered.  The list has none.
ReadBalance(r) ==
  /\ At(r, "balance")
  /\ LET t == tasks[r]
         v == IF "balance" \in DOMAIN t.got
              THEN [owner |-> t.got.owner, out |-> chain.out, balance |-> t.got.balance]
              ELSE [owner |-> t.got.owner, out |-> t.got.out,
                    balance |-> IF KeyOf(Head(t.todo)) = "list" THEN 0
                                ELSE chain.paid - chain.out]
     IN  Completes(r, KeyOf(Head(t.todo)), v)
  /\ Quiet /\ UNCHANGED <<history, prepared>>

\* The fetch fails: r and everybody who joined it are answered with the error.
FetchFails(r) ==
  /\ At(r, "fetched") \/ At(r, "balance")
  /\ tasks' = [x \in ApiSlots |->
       IF x = r \/ (At(x, "join") /\ tasks[x].got = r)
       THEN Answered([tasks[x] EXCEPT !.got = Miss], "error") ELSE tasks[x]]
  /\ reading' = [k \in Keys |-> IF reading[k] = r THEN "none" ELSE reading[k]]
  /\ Quiet /\ UNCHANGED <<history, stored, prepared>>

ExpireEntry(k) ==
  /\ stored[k] # Miss
  /\ stored' = [stored EXCEPT ![k] = Miss]
  /\ UNCHANGED <<chain, changes, now, history, reading, tasks, arrived, prepared>>
----------------------------------------------------------------------------
(* The other steps.                                                        *)

\* assertProjectNotExpired: one read of the history, and of the marker.
CheckOpen(r) ==
  /\ At(r, "open")
  /\ Goes(r, IF Expired THEN [tasks[r] EXCEPT !.step = "mark"] ELSE Advanced(tasks[r]))
  /\ Quiet /\ UNCHANGED <<history, cache, prepared>>

\* expiration.reached is written unless it is there, and the request is refused.
Mark(r) ==
  /\ At(r, "mark")
  /\ reached' = IF reached = 0 THEN 1 ELSE reached
  /\ Goes(r, Answered(tasks[r], "expired"))
  /\ Quiet /\ UNCHANGED <<deadline, cache, prepared>>

\* buildCreateProjectUnsignedXdr: project_exists is simulated.
CheckUnique(r) ==
  /\ At(r, "unique")
  /\ Goes(r, IF Exists(chain) THEN Answered(tasks[r], "conflict") ELSE Advanced(tasks[r]))
  /\ Quiet /\ UNCHANGED <<history, cache, prepared>>

\* POST distribute simulates is_distributions_paused.
CheckPaused(r) ==
  /\ At(r, "paused")
  /\ Goes(r, IF chain.paused THEN Answered(tasks[r], "conflict") ELSE Advanced(tasks[r]))
  /\ Quiet /\ UNCHANGED <<history, cache, prepared>>

\* prepareTransaction: the transaction is simulated, so that one the contract
\* refuses now is not handed out.
Prepare(r) ==
  /\ At(r, "prepare")
  /\ LET t == tasks[r]
     IN  IF Refused(chain, t)
         THEN Goes(r, Answered(t, "error")) /\ UNCHANGED prepared
         ELSE /\ prepared' = prepared \cup {[op |-> t.op, by |-> t.by]}
              /\ Goes(r, Advanced(t))
  /\ Quiet /\ UNCHANGED <<history, cache>>

\* configureProjectExpiration checks the deadline against the time of the call
\* and reads the history; recordSplitCreated calls it only with a deadline.
Configure(r) ==
  /\ At(r, "configure")
  /\ LET t == tasks[r]
     IN  Goes(r, IF t.op = "create" /\ t.expires = Never
                 THEN Advanced([t EXCEPT !.todo = Tail(@)])
                 ELSE IF t.expires # Never /\ t.expires <= now
                 THEN Answered(t, "invalid")
                 ELSE Advanced(t))
  /\ Quiet /\ UNCHANGED <<history, cache, prepared>>

\* recordExpirationEvent: the newest event decides.
Save(r) ==
  /\ At(r, "save")
  /\ deadline' = tasks[r].expires
  /\ tasks' = [x \in ApiSlots |->
       IF x = r THEN Advanced(tasks[r])
       ELSE IF tasks[x] = Free THEN Free
       ELSE [tasks[x] EXCEPT !.closed = @ /\ deadline' <= now]]
  /\ Quiet /\ UNCHANGED <<reached, cache, prepared>>

Evict(r) ==
  /\ tasks[r].step \in {"evict", "evictList"}
  /\ Evicted(IF At(r, "evict") THEN Keys ELSE {"list"})
  /\ Goes(r, Advanced(tasks[r]))
  /\ Quiet /\ UNCHANGED <<history, prepared>>
----------------------------------------------------------------------------
(* The wallets and the contract.                                           *)

ChainBecomes(c) ==
  /\ changes < MaxChain /\ c # chain
  /\ chain' = c /\ changes' = changes + 1
  /\ tasks' = [r \in ApiSlots |->
       IF tasks[r] = Free THEN Free
       ELSE [tasks[r] EXCEPT !.owned = @ /\ c.owner = tasks[r].by]]
  /\ UNCHANGED <<now, history, cache, arrived>>

Submit ==
  \E tx \in prepared :
    /\ ~Refused(chain, tx)
    /\ ChainBecomes(Applied(chain, tx))
    /\ prepared' = prepared \ {tx}

TransferOnChain ==
  /\ Exists(chain)
  /\ \E w \in ApiWallets : ChainBecomes([chain EXCEPT !.owner = w])
  /\ UNCHANGED prepared

Tick ==
  /\ now < MaxNow /\ now' = now + 1
  /\ UNCHANGED <<chain, changes, history, cache, tasks, arrived, prepared>>

ApiNext ==
  \/ \E r \in ApiSlots, op \in Ops, w \in ApiWallets, d \in Deadlines \cup {Never} :
       Arrive(r, op, w, d)
  \/ \E r \in ApiSlots :
       \/ Awaits(r) \/ Fails(r) \/ Leave(r)
       \/ Hit(r) \/ Join(r) \/ Fetch(r) \/ ReadProject(r) \/ ReadBalance(r) \/ FetchFails(r)
       \/ CheckOpen(r) \/ Mark(r) \/ CheckUnique(r) \/ CheckPaused(r) \/ Prepare(r)
       \/ Configure(r) \/ Save(r) \/ Evict(r)
  \/ \E k \in Keys : ExpireEntry(k)
  \/ Submit \/ TransferOnChain \/ Tick

ApiSpec == ApiInit /\ [][ApiNext]_apiVars
----------------------------------------------------------------------------
\* The owner of a project is not turned away because of an older owner in the
\* cache: whoever is answered 401 was not the owner at some moment of his
\* request.  assertProjectOwner looks a second time, past the cache.
OwnerNotLockedOut ==
  \A r \in ApiSlots : At(r, "unauthorized") => ~tasks[r].owned

\* The project and its balance are read by two simulations with transactions
\* between them.  Whatever pair they give, the payouts the record counts and
\* the balance beside it never add up to more than was paid in.
NeverCountsTwice ==
  stored["project"] # Miss =>
    stored["project"].out + stored["project"].balance <= chain.paid

\* A deadline that has passed is replaced only by a request that was under way
\* before it had passed (its check came first), or by a creation that found the
\* project id unused: nobody reopens an expired project.
DeadlineStays ==
  Expired /\ deadline' # deadline =>
    \E r \in ApiSlots : /\ At(r, "save") /\ tasks'[r].step # "save"
                        /\ tasks[r].closed => ~tasks[r].existed
PassedDeadlineIsFinal == [][DeadlineStays]_apiVars

\* What the comment in POST /splits promises: once it is on the chain, a new
\* project is on every list that is asked for from then on.
\* Does not hold: the list cache is emptied when the transaction is prepared,
\* and a list read before its inclusion is cached again.
CreatedAppears ==
  \A r \in ApiSlots :
    At(r, "ok") /\ tasks[r].op = "list" /\ tasks[r].existed => tasks[r].listed
=============================================================================
