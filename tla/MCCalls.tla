------------------------------- MODULE MCCalls -------------------------------
(***************************************************************************)
(* Calls whose other side may stay silent or answer late, one part per     *)
(* behaviour: RPC providers, status streams, the wallet extension behind a *)
(* page and behind the sign-in dialog.                                     *)
(***************************************************************************)
EXTENDS RpcAccess

CONSTANTS
  acctA, acctB, noAcct,                          \* of the wallet
  Hashes, NoHash, Streams, MaxGlobal, MaxPerHash, \* of the streams
  MaxPollAttempts, MaxChanges, MaxOpens

MCConfigured == <<"primary", "backup", "primary">>
MCRequested == {-1, 3}

VARIABLE part   \* the part a behaviour belongs to

Unused == "unused"   \* the variables of the other parts

-----------------------------------------------------------------------------
(* Status streams.                                                         *)

VARIABLES server, stream, subscribed, saved, hook, stray, changes, opens

streamVars ==
  <<server, stream, subscribed, saved, hook, stray, changes, opens>>

Stream == INSTANCE StatusStream

ASSUME StreamAssumption == MaxPerHash \in Nat /\ IsFiniteSet(Streams)

StreamInit ==
  \/ part = "stream" /\ Stream!Init
  \/ /\ part # "stream"
     /\ server = Unused /\ stream = Unused /\ subscribed = Unused
     /\ saved = Unused /\ hook = Unused /\ stray = Unused /\ changes = Unused
     /\ opens = Unused

StreamStep == part = "stream" /\ Stream!Next

-----------------------------------------------------------------------------
(* The wallet of a page: two accounts.                                     *)

VARIABLES ext, shown, loading, pending, form, drafts, old, cache, fetching,
          mutation

walletVars ==
  <<ext, shown, loading, pending, form, drafts, old, cache, fetching,
  mutation>>

Wallet == INSTANCE WalletSession WITH
  Accounts <- {acctA, acctB}, NoAccount <- noAcct, MaxPending <- 1

\* Nothing is typed, fetched or submitted meanwhile (that is in MCBooks).
Untouched == form = {} /\ fetching = {} /\ mutation = noAcct

WalletInit ==
  \/ part = "wallet" /\ Wallet!Init
  \/ /\ part # "wallet"
     /\ ext = Unused /\ shown = Unused /\ loading = Unused /\ pending = Unused
     /\ form = Unused /\ drafts = Unused /\ old = Unused /\ cache = Unused
     /\ fetching = Unused /\ mutation = Unused

WalletStep == part = "wallet" /\ Wallet!Next /\ Untouched'

-----------------------------------------------------------------------------
(* The sign-in dialog: three challenges.                                   *)

VARIABLES challenge, left, timeRemaining, status, isRefreshing, asked,
          verified, asks, twice

authVars ==
  <<challenge, left, timeRemaining, status, isRefreshing, asked, verified,
  asks, twice>>

Auth == INSTANCE AuthChallenge WITH
  MaxChallenges <- 3, TTL <- 2, MaxAsks <- 4

AuthInit ==
  \/ part = "auth" /\ Auth!Init
  \/ /\ part # "auth"
     /\ challenge = Unused /\ left = Unused /\ timeRemaining = Unused
     /\ status = Unused /\ isRefreshing = Unused /\ asked = Unused
     /\ verified = Unused /\ asks = Unused /\ twice = Unused

AuthStep == part = "auth" /\ Auth!Next

-----------------------------------------------------------------------------
MCInit ==
  /\ part \in {"rpc", "stream", "wallet", "auth"}
  /\ RpcInit
  /\ StreamInit /\ WalletInit /\ AuthInit

\* One part moves.
MCNext ==
  \/ part = "rpc" /\ RpcNext /\ UNCHANGED <<part, streamVars, walletVars, authVars>>
  \/ StreamStep /\ UNCHANGED <<part, rpcVars, walletVars, authVars>>
  \/ WalletStep /\ UNCHANGED <<part, rpcVars, streamVars, authVars>>
  \/ AuthStep /\ UNCHANGED <<part, rpcVars, streamVars, walletVars>>

mcVars == <<part, rpcVars, streamVars, walletVars, authVars>>

\* The fairness of each part, for the behaviours that are its own.
RpcFair ==
  /\ WF_rpcVars(part = "rpc" /\ Send("c"))
  /\ WF_rpcVars(part = "rpc" /\ AttemptTimesOut("c"))
  /\ WF_rpcVars(part = "rpc" /\ Wake("c"))
  /\ WF_rpcVars(part = "rpc" /\ Passes)
StreamFair ==
  /\ \A s \in Streams : WF_streamVars(part = "stream" /\ Stream!CloseHandler(s))
  /\ WF_streamVars(part = "stream" /\ Stream!onmessage)
  /\ WF_streamVars(part = "stream" /\ Stream!Polling)
WalletFair ==
  /\ WF_walletVars(part = "wallet" /\ Wallet!Poll)
  /\ WF_walletVars(part = "wallet" /\ \E r \in pending : Wallet!Answer(r))
  /\ WF_walletVars(part = "wallet" /\ \E r \in pending : Wallet!Arrive(r))
  /\ WF_walletVars(part = "wallet" /\ \E r \in pending : Wallet!PollAnswered(r))
AuthFair == WF_authVars(part = "auth" /\ Auth!ExpiryTimer)
MCFairness == RpcFair /\ StreamFair /\ WalletFair /\ AuthFair

MCSpec == MCInit /\ [][MCNext]_mcVars /\ MCFairness
-----------------------------------------------------------------------------
\* What is counted is so: the listeners of a transaction are bounded and are the
\* open responses (events.ts), and a call has one outcome though abandoned
\* attempts answer late (stellar.ts).
CountsTrue == OutcomeOnce /\ (part = "stream" => Stream!SubscriptionsBounded)

\* An account the extension has left for good does not stay on screen
\* (useWallet.ts, issue 1507); stated of one of the two, which are alike.
DepartedAccountLeaves ==
  <>[](part = "wallet" => ext # acctA) => <>[](part = "wallet" => shown # acctA)

\* Every wait comes to an end, though the other side may stay silent: a call of
\* a provider comes back (stellar.ts), streams close once shutdown began
\* (events.ts), a challenge that ran out comes to offer a new one
\* (WalletAuthChallenge.tsx).  EveryCallEnds, ShutdownDrains and
\* ExpiryOffersRefresh of the parts as one formula.
Waits ==
  \/ part = "rpc" /\ calls["c"].step # "idle"
  \/ part = "stream" /\ Stream!isShuttingDown
  \/ part = "auth" /\ left = 0
Over ==
  \/ part = "rpc" /\ calls["c"].step = "idle"
  \/ part = "stream" /\ Stream!Active = {}
  \/ part = "auth" /\ (Auth!isExpired \/ left > 0 \/ status = "closed")
EveryWaitEnds == Waits ~> Over

\* The hook that polls for a transaction leaves "pending", or is given another
\* (useTransactionStatus.ts); stated of one of the two, which are alike.
PollingEnds ==
  part = "stream" /\ hook.hash = "g" /\ hook.poll # "idle"
    ~> part = "stream" /\ (hook.status # "pending" \/ hook.hash # "g")
=============================================================================
