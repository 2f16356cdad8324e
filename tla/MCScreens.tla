------------------------------ MODULE MCScreens ------------------------------
(***************************************************************************)
(* What the page shows and sends, one part per behaviour: the create form, *)
(* submissions and their receipts, the views of projects, the admin cards  *)
(* and the list of failures.                                               *)
(***************************************************************************)
EXTENDS ProjectViews

CONSTANTS
  Bad, NoNumber, BpsTyped, Preset, Typed, NoToken, Addresses, TotalBps,   \* of the form
  Cap, MaxRows, MaxBalance, FormTime,
  Actions, Flow, Payloads, Window, Margin, Attempts, Lag, MaxTx, SubsTime, \* of the submissions
  Tokens, MaxAmount, MaxReads, MaxJobs,                                   \* of the admin cards
  Tabs, HISTORY_LIMIT, MaxToasts, MaxReloads                              \* of the failures

\* Bound: one load at a time, whatever its kind, and no other mutation beside a
\* title update.  The views are written one by one, so that two loads in
\* progress meet a title update as each of them alone does.
FewAtATime ==
  /\ Cardinality(reads) + Cardinality(dashLoads) + (IF listLoad.on THEN 1 ELSE 0) <= 1
  /\ flow.on => update = NoUpdate

VARIABLE part   \* the part a behaviour belongs to

Unused == "unused"   \* the variables of the other parts

-----------------------------------------------------------------------------
(* The create form.                                                        *)

VARIABLES rows, text, token, picker, expires, clock, attempt

formVars == <<rows, text, token, picker, expires, clock, attempt>>

Form == INSTANCE CreateForm WITH MaxTime <- FormTime

\* The form begins with two rows.
ASSUME FormAssumption == TotalBps \in Nat \ {0} /\ MaxRows \in Nat /\ MaxRows >= 2

FormInit ==
  \/ part = "form" /\ Form!Init
  \/ /\ part # "form"
     /\ rows = Unused /\ text = Unused /\ token = Unused /\ picker = Unused
     /\ expires = Unused /\ clock = Unused /\ attempt = Unused

FormStep == part = "form" /\ Form!Next

-----------------------------------------------------------------------------
(* Submissions.                                                            *)

VARIABLES now, txs, task, unconfirmed, check, receipt, keyStore

subVars == <<now, txs, task, unconfirmed, check, receipt, keyStore>>

Subs == INSTANCE Submissions WITH MaxTime <- SubsTime

ASSUME SubsAssumption == Subs!SubmissionsAssumption

\* Bound: a creation and one of the other two actions.
OneBeside == Subs!Blocked("deposit") => ~Subs!Blocked("recovery")

SubsInit ==
  \/ part = "submissions" /\ Subs!Init
  \/ /\ part # "submissions"
     /\ now = Unused /\ txs = Unused /\ task = Unused /\ unconfirmed = Unused
     /\ check = Unused /\ receipt = Unused /\ keyStore = Unused

SubsStep == part = "submissions" /\ Subs!Next /\ OneBeside'

-----------------------------------------------------------------------------
(* The admin cards.                                                        *)

VARIABLES unallocated, paused, changes, allowed, recovery, panelReads, pauseCard,
          statusReads, allowCard, listReads, job, jobs

panelVars ==
  <<unallocated, paused, changes, allowed, recovery, panelReads, pauseCard,
  statusReads, allowCard, listReads, job, jobs>>

Panel == INSTANCE AdminPanel WITH reads <- panelReads

ASSUME PanelAssumption == MaxAmount \in Nat

\* Bound: a behaviour uses one of the three cards, which share nothing.
OneCard ==
  LET used == {k \in {"recovery", "toggle_pause", "allowlist"} :
                 CASE k = "recovery"     -> recovery.input # NoToken
                   [] k = "toggle_pause" -> pauseCard.status # "unknown" \/ pauseCard.loading
                   [] OTHER              -> allowCard.input # NoToken \/ allowCard.loading \/ allowed # {}}
  IN  Cardinality(used) <= 1

PanelInit ==
  \/ part = "admin" /\ Panel!Init
  \/ /\ part # "admin"
     /\ unallocated = Unused /\ paused = Unused /\ changes = Unused
     /\ allowed = Unused /\ recovery = Unused /\ panelReads = Unused
     /\ pauseCard = Unused /\ statusReads = Unused /\ allowCard = Unused
     /\ listReads = Unused /\ job = Unused /\ jobs = Unused

PanelStep == part = "admin" /\ Panel!Next /\ OneCard'

-----------------------------------------------------------------------------
(* Failures.                                                               *)

VARIABLES toasts, timers, history, hydrated, stored, writable, issued,
          reloads, newest

toastVars ==
  <<toasts, timers, history, hydrated, stored, writable, issued, reloads,
  newest>>

Toast == INSTANCE Toasts

ASSUME ToastAssumption == HISTORY_LIMIT \in Nat \ {0}

ToastInit ==
  \/ part = "toasts" /\ Toast!Init
  \/ /\ part # "toasts"
     /\ toasts = Unused /\ timers = Unused /\ history = Unused
     /\ hydrated = Unused /\ stored = Unused /\ writable = Unused
     /\ issued = Unused /\ reloads = Unused /\ newest = Unused

ToastStep == part = "toasts" /\ Toast!Next

-----------------------------------------------------------------------------
MCInit ==
  /\ part \in {"views", "form", "submissions", "admin", "toasts"}
  /\ Init
  /\ FormInit /\ SubsInit /\ PanelInit /\ ToastInit

\* One part moves.
MCNext ==
  \/ /\ part = "views" /\ Next /\ FewAtATime'
     /\ UNCHANGED <<part, formVars, subVars, panelVars, toastVars>>
  \/ FormStep /\ UNCHANGED <<part, vars, subVars, panelVars, toastVars>>
  \/ SubsStep /\ UNCHANGED <<part, vars, formVars, panelVars, toastVars>>
  \/ PanelStep /\ UNCHANGED <<part, vars, formVars, subVars, toastVars>>
  \/ ToastStep /\ UNCHANGED <<part, vars, formVars, subVars, panelVars>>

mcVars == <<part, vars, formVars, subVars, panelVars, toastVars>>

MCSpec == MCInit /\ [][MCNext]_mcVars
-----------------------------------------------------------------------------
\* Addresses, tokens and titles are the same two model values.
MCSymmetry == Permutations(Titles)

\* Once a submission was reported unconfirmed, its action is free again only
\* when the transaction is decided and the user was told (submission-guard.ts,
\* onCheckUnconfirmed), and a receipt that reads "success" is the receipt of an
\* applied transaction (split-app-legacy.tsx).
SubmissionsTrue ==
  part = "submissions" => Subs!UnblockedMeansDecided /\ Subs!ReceiptsTrue

\* No view keeps a title its project never had, whatever load or selection
\* copied it meanwhile (patchProjectInAllViews), and the list is a beginning of
\* the index (onFetchProjectsList, split-app-legacy.tsx).
ViewsTrue == part = "views" => NoPhantomTitles /\ ListIsPrefix

\* The status on the pause card is never replaced by an older one, unless the
\* admin refreshed it before its first load had ended (refreshAdminStatus,
\* split-app-legacy.tsx).
PauseInOrder == [][part = "admin" => Panel!ShownInOrder]_panelVars

\* A failure does not get lost: the form names what stops it (submitForm,
\* CreateSplitWizardLegacy.tsx), and the failure a tab reported last is listed
\* (toast-history.ts).
FailuresShown ==
  /\ part = "form" => Form!NothingFailsSilently
  /\ part = "toasts" => Toast!NewestFailureListed

\* What is built for the wallet is a list the contract accepts, unless there are
\* more collaborators than its administrator allows (submitForm,
\* createSplitSchema).
BuiltIsAccepted == part = "form" => Form!BuiltIsAccepted
=============================================================================
