------------------------------- MODULE MCBooks -------------------------------
(***************************************************************************)
(* What is written down and shown of payouts, one part per behaviour: the  *)
(* state of a transaction, reconciliation, the payout history, the         *)
(* notifications, and what a page keeps for an account.                    *)
(***************************************************************************)
EXTENDS LedgerFinality, FiniteSets, Sequences, TLC

CONSTANTS
  Hashes, BlockIds, Amounts, Kinds, MaxWrites,        \* of the reconciliation
  RowIds, Matching, Times, Limit, MaxRows,            \* of the payout history
  Recipients, Events, CategoryOf, Workers, NoticeIds, \* of the notifications
  Reader, PageSize, Saves, MaxSaves, MaxTime,
  Accounts, NoAccount, MaxPending                     \* of the wallet

\* The instance: a project event and a system event, two preference requests.
MCSymmetry == Permutations(Hashes) \cup Permutations(Accounts)
MCCategoryOf == ("p" :> "project") @@ ("s" :> "system")
MCSaves == {<<[category |-> "project_activity", enabled |-> "on"],
              [category |-> "marketing", enabled |-> "off"]>>,
            <<[category |-> "project_activity", enabled |-> "off"]>>}

VARIABLE part   \* the part a behaviour belongs to

Unused == "unused"   \* the variables of the other parts

-----------------------------------------------------------------------------
(* Reconciliation.                                                         *)

VARIABLES transactions, blocks, exists, run

reconVars == <<transactions, blocks, exists, run>>

Recon == INSTANCE Reconciliation WITH Ids <- BlockIds

\* Tables are finite, their keys and legal amounts are numbers.
ASSUME ReconAssumption ==
  /\ IsFiniteSet(Hashes) /\ IsFiniteSet(BlockIds) /\ BlockIds \subseteq Nat
  /\ Amounts \subseteq Nat /\ MaxWrites \in Nat

ReconInit ==
  \/ part = "recon" /\ Recon!Init
  \/ /\ part # "recon"
     /\ transactions = Unused /\ blocks = Unused /\ exists = Unused
     /\ run = Unused

ReconStep == part = "recon" /\ Recon!Next

-----------------------------------------------------------------------------
(* The payout history.                                                     *)

VARIABLES table, historyWalk, export, backfill

historyVars == <<table, historyWalk, export, backfill>>

History == INSTANCE PayoutHistory WITH Ids <- RowIds, walk <- historyWalk

\* Ids stand for UUIDs; a page asks for at least one row.
ASSUME HistoryAssumption ==
  /\ IsFiniteSet(RowIds) /\ RowIds \subseteq Nat /\ Times \subseteq Nat \ {0}
  /\ Limit \in Nat \ {0} /\ MaxRows \in Nat

HistoryInit ==
  \/ part = "history" /\ History!Init
  \/ /\ part # "history"
     /\ table = Unused /\ historyWalk = Unused /\ export = Unused
     /\ backfill = Unused

HistoryStep == part = "history" /\ History!Next

-----------------------------------------------------------------------------
(* Notifications.                                                          *)

VARIABLES rows, prefs, asked, call, saving, saves, notifWalk, now

notifVars == <<rows, prefs, asked, call, saving, saves, notifWalk, now>>

Notif == INSTANCE Notifications WITH Ids <- NoticeIds, walk <- notifWalk

\* NotificationCategory and PreferenceCategory of the entities.
ASSUME NotifAssumption ==
  /\ IsFiniteSet(NoticeIds) /\ NoticeIds \subseteq Nat
  /\ IsFiniteSet(Recipients) /\ Reader \in Recipients
  /\ CategoryOf \in [Events -> {"project", "participant", "system", "security", "payment"}]
  /\ Saves \subseteq Seq([category : Notif!MANDATORY_CATEGORIES \cup Notif!OptionalCategories,
                          enabled : {"on", "off"}])
  /\ PageSize \in Nat \ {0} /\ MaxTime \in Nat

\* Bound: the reader saves preferences or walks the list, which share nothing.
Apart == notifWalk.pc = "idle" \/ saves = 0

NotifInit ==
  \/ part = "notifications" /\ Notif!Init
  \/ /\ part # "notifications"
     /\ rows = Unused /\ prefs = Unused /\ asked = Unused /\ call = Unused
     /\ saving = Unused /\ saves = Unused /\ notifWalk = Unused
     /\ now = Unused

NotifStep == part = "notifications" /\ Notif!Next /\ Apart'

-----------------------------------------------------------------------------
(* The wallet of a page.                                                   *)

VARIABLES ext, shown, loading, pending, form, drafts, old, cache, fetching,
          mutation

walletVars ==
  <<ext, shown, loading, pending, form, drafts, old, cache, fetching,
  mutation>>

Wallet == INSTANCE WalletSession

ASSUME Wallet!WalletAssumption

WalletInit ==
  \/ part = "wallet" /\ Wallet!Init
  \/ /\ part # "wallet"
     /\ ext = Unused /\ shown = Unused /\ loading = Unused /\ pending = Unused
     /\ form = Unused /\ drafts = Unused /\ old = Unused /\ cache = Unused
     /\ fetching = Unused /\ mutation = Unused

WalletStep == part = "wallet" /\ Wallet!Next

-----------------------------------------------------------------------------
MCInit ==
  /\ part \in {"finality", "recon", "history", "notifications", "wallet"}
  /\ Init /\ (part # "finality" => validUntil = NoBound)
  /\ ReconInit /\ HistoryInit /\ NotifInit /\ WalletInit

\* One part moves.
MCNext ==
  \/ /\ part = "finality" /\ Next
     /\ UNCHANGED <<part, reconVars, historyVars, notifVars, walletVars>>
  \/ ReconStep /\ UNCHANGED <<part, vars, historyVars, notifVars, walletVars>>
  \/ HistoryStep /\ UNCHANGED <<part, vars, reconVars, notifVars, walletVars>>
  \/ NotifStep /\ UNCHANGED <<part, vars, reconVars, historyVars, walletVars>>
  \/ WalletStep /\ UNCHANGED <<part, vars, reconVars, historyVars, notifVars>>

mcVars == <<part, vars, reconVars, historyVars, notifVars, walletVars>>

MCSpec == MCInit /\ [][MCNext]_mcVars
-----------------------------------------------------------------------------
\* When nothing is written meanwhile a payout that does not agree with its
\* ledger rows makes a command fail, and writes meanwhile never make a run
\* report a settled payout as missing (reconcile.ts, ledger-invariants.ts).
ReportsTrue ==
  part = "recon" => Recon!NothingFallsThrough /\ Recon!MissingSettlementIsReal

\* A walk over the pages has every row once, and an export loses none,
\* whatever is inserted meanwhile (PayoutHistoryService.ts).
HistoryComplete ==
  part = "history" => History!EachRowOnce /\ History!ExportLosesNothing

\* What enqueueing and delivering report is what is stored, and a reader who
\* walks the pages sees every row that was there from the start
\* (notifications.service.ts).
NotificationsTrue ==
  part = "notifications" => Notif!OutcomesTrue /\ Notif!WalkMissesNothing

\* Nobody sees or stores what another account typed or fetched (useWallet.ts,
\* split-app-legacy.tsx, useSplits.ts).
NothingForeign == part = "wallet" => Wallet!NothingForeign
=============================================================================
