------------------------------ MODULE WalletSession ------------------------------
(*****************************************************************************)
(* The wallet a browser tab shows and what hangs on it: the create form, its *)
(* drafts in session storage and the cached data of an account.              *)
(*                                                                           *)
(* The wallet extension emits no events (hooks/useWallet.ts), so the tab     *)
(* asks it: once at mount, on demand, and every two seconds while an account *)
(* is shown.  Requests overlap and answer in any order, and each answer is   *)
(* rendered when it arrives.  A render runs the effects that watch           *)
(* wallet.address: the draft effect (split-app-legacy.tsx), the account      *)
(* cache (hooks/useSplits.ts), the switch effect (hooks/useWallet.ts), in    *)
(* that order, the children's before the provider's.                         *)
(*                                                                           *)
(* A text is the set of those who typed it: the account that was connected,  *)
(* or NoAccount.  The empty set is a blank form, and no entry in storage.    *)
(*****************************************************************************)
EXTENDS Naturals, FiniteSets, Sequences

CONSTANTS
  Accounts,     \* the accounts the extension may have selected
  NoAccount,    \* no account: address = null
  MaxPending    \* bound: the user's requests, and polls, in flight at a time

WalletAssumption == NoAccount \notin Accounts /\ MaxPending \in Nat \ {0}

VARIABLES
  ext,          \* the account selected in the extension (external)
  shown,        \* state.wallet.address of the reducer; the refs that follow it
  loading,      \* state.loading of the reducer; disables Connect, Switch and Sync
  pending,      \* requests to the extension that have not been handled
  form,         \* the create form's text
  drafts,       \* session storage: the saved text of each account's key
  old,          \* the keys whose entry is older than DRAFT_TTL_MS
  cache,        \* accounts with data under their ["account", address] scope
  fetching,     \* accounts for which such a query is in flight
  mutation      \* the signer of the submission in flight

vars == <<ext, shown, loading, pending, form, drafts, old, cache, fetching, mutation>>

Keys == Accounts \union {NoAccount}
Text == SUBSET Keys
Unanswered == [unanswered |-> TRUE]

\* A request: who made it, the address its closure holds, what the extension said.
Requests ==
  [by : {"refresh", "connect", "poll"}, base : Keys, answer : Keys \union {Unanswered}]

TypeOK ==
  /\ ext \in Keys /\ shown \in Keys /\ mutation \in Keys /\ loading \in BOOLEAN
  /\ pending \subseteq Requests
  /\ form \in Text /\ drafts \in [Keys -> Text]
  /\ old \subseteq Keys /\ cache \subseteq Accounts /\ fetching \subseteq Accounts

Request(by) ==
  [by |-> by, base |-> IF by = "poll" THEN shown ELSE NoAccount, answer |-> Unanswered]

\* Requests of one kind in flight; equal requests in flight are one.
InFlight(kind) == Cardinality({r \in pending : r.by \in kind})

-----------------------------------------------------------------------------
(* Drafts.  An expired or malformed entry is removed when it is read.        *)

loadDraft(d, k) == IF k \in d.old THEN {} ELSE d.drafts[k]

saveDraft(d, k, text) ==
  [d EXCEPT !.drafts[k] = text, !.old = @ \ {k}]

clearDraft(d, k) == saveDraft(d, k, {})

\* Faulty variant: a disconnect keeps what is in the form, like a connect.
DraftEffectKeeps(prev, next, d) ==
  IF prev = NoAccount \/ next = NoAccount
  THEN clearDraft(d, NoAccount)
  ELSE saveDraft([d EXCEPT !.form = loadDraft(d, next)], next, loadDraft(d, next))

\* The draft effect for a rendered change of the address.  The reset notifies the
\* form's watcher, which saves under the address of this render.
DraftEffect(prev, next, d) ==
  IF prev = NoAccount
  THEN clearDraft(d, NoAccount)
  ELSE saveDraft([d EXCEPT !.form = loadDraft(d, next)], next, loadDraft(d, next))

\* useAccountScopedCache: foreign entries are removed, foreign fetches cancelled.
Own(accounts, address) == accounts \intersect {address}

-----------------------------------------------------------------------------
(* Renders.                                                                  *)

Drafts == [form |-> form, drafts |-> drafts, old |-> old]

\* What is in storage and on the form after the address goes through a sequence
\* of one or two renders.
Effects(path) ==
  LET first == DraftEffect(shown, path[1], Drafts)
      last  == IF Len(path) = 1 THEN first ELSE DraftEffect(path[1], path[2], first)
  IN  /\ form' = last.form
      /\ drafts' = last.drafts
      /\ old' = last.old
      /\ cache' = Own(cache, path[Len(path)])
      /\ fetching' = Own(fetching, path[Len(path)])

\* RESET and refresh(): used by the switch effect and by the poll.
Reset(path, rest) ==
  /\ shown' = NoAccount
  /\ loading' = TRUE
  /\ Effects(path)
  /\ pending' = rest \union {Request("refresh")}

\* dispatch SUCCESS.  A change between two accounts is noticed by the switch
\* effect, which resets and asks again.
Success(address, rest) ==
  \/ /\ address = shown
     /\ pending' = rest
     /\ loading' = FALSE
     /\ UNCHANGED <<shown, form, drafts, old, cache, fetching>>
  \/ /\ address # shown /\ NoAccount \in {address, shown}
     /\ shown' = address
     /\ loading' = FALSE
     /\ pending' = rest
     /\ Effects(<<address>>)
  \/ /\ address # shown /\ NoAccount \notin {address, shown}
     /\ Reset(<<address, NoAccount>>, rest)

-----------------------------------------------------------------------------
(* The page.                                                                 *)

Init ==
  /\ ext \in Keys
  /\ drafts = [k \in Keys |-> {}] /\ old = {} /\ form = {}
  /\ shown = NoAccount /\ loading = TRUE /\ pending = {Request("refresh")}
  /\ cache = {} /\ fetching = {} /\ mutation = NoAccount

\* The page is loaded again; session storage stays.  The reducer starts
\* disconnected, the form takes the anonymous draft, a refresh restores the session.
Reload ==
  /\ form' = loadDraft(Drafts, NoAccount)
  /\ drafts' = [drafts EXCEPT ![NoAccount] = form']
  /\ old' = old \ {NoAccount}
  /\ shown' = NoAccount /\ loading' = TRUE /\ pending' = {Request("refresh")}
  /\ cache' = {} /\ fetching' = {} /\ mutation' = NoAccount
  /\ UNCHANGED ext

-----------------------------------------------------------------------------
(* The extension.                                                            *)

\* The user selects an account in the extension, locks it or disconnects.
Select(a) ==
  /\ ext # a
  /\ ext' = a
  /\ UNCHANGED <<shown, loading, pending, form, drafts, old, cache, fetching, mutation>>

\* getWalletState: the extension answers with its account; no account is the
\* caught error, connected: false.
Answer(r) ==
  /\ r \in pending /\ r.answer = Unanswered /\ r.by # "connect"
  /\ pending' = (pending \ {r}) \union {[r EXCEPT !.answer = ext]}
  /\ UNCHANGED <<ext, shown, loading, form, drafts, old, cache, fetching, mutation>>

\* connectWallet: the user picks an account in the modal, which selects it.
AnswerConnect(r, a) ==
  /\ r \in pending /\ r.answer = Unanswered /\ r.by = "connect"
  /\ ext' = a
  /\ pending' = (pending \ {r}) \union {[r EXCEPT !.answer = a]}
  /\ UNCHANGED <<shown, loading, form, drafts, old, cache, fetching, mutation>>

\* The user closes the modal: ERROR keeps the wallet.
RejectConnect(r) ==
  /\ r \in pending /\ r.answer = Unanswered /\ r.by = "connect"
  /\ pending' = pending \ {r}
  /\ loading' = FALSE
  /\ UNCHANGED <<ext, shown, form, drafts, old, cache, fetching, mutation>>

-----------------------------------------------------------------------------
(* The hook.                                                                 *)

\* The Sync, Connect and Switch buttons.
Ask(by) ==
  /\ ~loading
  /\ InFlight({"refresh", "connect"}) < MaxPending
  /\ by = "refresh" => shown # NoAccount
  /\ loading' = TRUE
  /\ pending' = pending \union {Request(by)}
  /\ UNCHANGED <<ext, shown, form, drafts, old, cache, fetching, mutation>>

\* refresh and connect render their answer when it arrives, however late.
Arrive(r) ==
  /\ r \in pending /\ r.answer # Unanswered /\ r.by # "poll"
  /\ Success(r.answer, pending \ {r})
  /\ UNCHANGED <<ext, mutation>>

\* The two second interval; it runs while an account is shown.
Poll ==
  /\ shown # NoAccount
  /\ InFlight({"poll"}) < MaxPending
  /\ pending' = pending \union {Request("poll")}
  /\ UNCHANGED <<ext, shown, loading, form, drafts, old, cache, fetching, mutation>>

\* Faulty variant (issue 1507): a disconnect is not a change.
PollSeesSwitch(r) == r.answer # NoAccount /\ r.answer # r.base

\* !fresh.connected || fresh.address !== state.wallet.address (of the closure).
PollSeesChange(r) == r.answer = NoAccount \/ r.answer # r.base

PollAnswered(r) ==
  /\ r \in pending /\ r.answer # Unanswered /\ r.by = "poll"
  /\ \/ /\ PollSeesChange(r)
        /\ IF shown = NoAccount
           THEN /\ pending' = (pending \ {r}) \union {Request("refresh")}
                /\ loading' = TRUE
                /\ UNCHANGED <<shown, form, drafts, old, cache, fetching>>
           ELSE Reset(<<NoAccount>>, pending \ {r})
     \/ /\ ~PollSeesChange(r)
        /\ pending' = pending \ {r}
        /\ UNCHANGED <<shown, loading, form, drafts, old, cache, fetching>>
  /\ UNCHANGED <<ext, mutation>>

-----------------------------------------------------------------------------
(* The form and the cached data.                                             *)

\* Typing; the watcher saves the form under the account shown.
Type ==
  LET text == form \union {shown}
      d    == saveDraft(Drafts, shown, text)
  IN  /\ form' = text
      /\ drafts' = d.drafts /\ old' = d.old
      /\ UNCHANGED <<ext, shown, loading, pending, cache, fetching, mutation>>

\* The wizard's reset: clearDraft, then a blank form, which the watcher saves.
WizardReset ==
  LET d == clearDraft(Drafts, shown)
  IN  /\ form' = {}
      /\ drafts' = d.drafts /\ old' = d.old
      /\ UNCHANGED <<ext, shown, loading, pending, cache, fetching, mutation>>

\* A day passes since an entry was saved.
Age(k) ==
  /\ drafts[k] # {} /\ k \notin old
  /\ old' = old \union {k}
  /\ UNCHANGED <<ext, shown, loading, pending, form, drafts, cache, fetching, mutation>>

\* useClaimable: a query under the shown account's scope.
Fetch ==
  /\ shown # NoAccount /\ shown \notin fetching
  /\ fetching' = fetching \union {shown}
  /\ UNCHANGED <<ext, shown, loading, pending, form, drafts, old, cache, mutation>>

Fetched(a) ==
  /\ a \in fetching
  /\ fetching' = fetching \ {a}
  /\ cache' = cache \union {a}
  /\ UNCHANGED <<ext, shown, loading, pending, form, drafts, old, mutation>>

\* A submission starts: its signer is captured.
Submit ==
  /\ shown # NoAccount /\ mutation = NoAccount
  /\ mutation' = shown
  /\ UNCHANGED <<ext, shown, loading, pending, form, drafts, old, cache, fetching>>

\* The creation is confirmed: the signer's draft is dropped, and the signer's data
\* is read again if that account is still shown (invalidateAfterMutation).
Confirm ==
  LET d == clearDraft(Drafts, mutation)
  IN  /\ mutation # NoAccount
      /\ mutation' = NoAccount
      /\ drafts' = d.drafts /\ old' = d.old
      /\ fetching' = IF mutation = shown
                     THEN fetching \union (cache \intersect {mutation})
                     ELSE fetching
      /\ UNCHANGED <<ext, shown, loading, pending, form, cache>>

Next ==
  \/ Reload
  \/ \E a \in Keys : Select(a)
  \/ \E by \in {"refresh", "connect"} : Ask(by)
  \/ \E r \in pending :
        \/ Answer(r)
        \/ \E a \in Accounts : AnswerConnect(r, a)
        \/ RejectConnect(r)
        \/ Arrive(r)
        \/ PollAnswered(r)
  \/ Poll
  \/ Type \/ WizardReset \/ (\E k \in Keys : Age(k))
  \/ Fetch \/ (\E a \in Accounts : Fetched(a))
  \/ Submit \/ Confirm

\* The browser keeps running timers and delivering answers.
Fairness ==
  /\ WF_vars(Poll)
  /\ WF_vars(\E r \in pending : Answer(r))
  /\ WF_vars(\E r \in pending : Arrive(r))
  /\ WF_vars(\E r \in pending : PollAnswered(r))

Spec == Init /\ [][Next]_vars /\ Fairness

-----------------------------------------------------------------------------
(* Properties.                                                               *)

\* Nobody sees or stores what another account typed or fetched, through any
\* overlap of switches, disconnects, reloads and late answers: "one account's
\* input is never shown to, or saved under, another account".
NothingForeign ==
  /\ form \subseteq {shown, NoAccount}
  /\ \A k \in Keys : drafts[k] \subseteq {k, NoAccount}
  /\ cache \union fetching \subseteq {shown}

\* An account the extension has left for good does not stay on screen: some poll
\* or late answer takes it away (hooks/useWallet.ts, issue 1507).
DepartedAccountLeaves ==
  \A a \in Accounts : <>[](ext # a) => <>[](shown # a)

\* "Drafts survive a dropped connection, a failed submit or a reload": an account
\* with a fresh saved draft does not face a blank form.
\* Does not hold: after a reload with a connected wallet the mount renders no
\* account first, and the draft is not read when the account arrives.
SavedDraftIsShown ==
  shown \in Accounts /\ drafts[shown] # {} /\ shown \notin old => form # {}

=============================================================================
