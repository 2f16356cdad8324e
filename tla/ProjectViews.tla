---------------------------- MODULE ProjectViews ----------------------------
(***************************************************************************)
(* What the page shows of projects (split-app-legacy.tsx with              *)
(* DashboardView, ProjectsList and ManageSplitView): the project in hand,  *)
(* the paged list, the dashboard with the earnings of the connected        *)
(* account, and how loads and the mutations of the page write to them.     *)
(*                                                                         *)
(* Projects are numbered in the order of the contract's index.  A project  *)
(* is abstracted to its title.  A load answers with a state the ledger had *)
(* between its request and its answer.  The lock flag, the payment history *)
(* and the confirmation dialogs are left out.                              *)
(***************************************************************************)
EXTENDS Naturals, Sequences, FiniteSets, TLC

CONSTANTS Accounts,       \* wallet accounts
          Titles,         \* titles a project may have
          Limit,          \* PROJECTS_LIMIT, the size of a page
          MaxProjects,    \* bound on the projects of the contract
          MaxLoads,       \* bound on the loads of one kind in progress
          MaxUpdates      \* bound on the title updates sent

None == "none"

ASSUME ViewsAssumption ==
    /\ {Limit, MaxProjects, MaxLoads, MaxUpdates} \subseteq Nat /\ Limit > 0
    /\ None \notin Accounts \cup Titles

VARIABLES ledger,    \* the projects of the contract, in index order
          had,       \* had[p]: the titles project p has had
          account,   \* wallet.address, or None
          tab,       \* activeTab
          search,    \* searchProjectId
          fetched,   \* fetchedProject, or Nothing
          reads,     \* getSplit requests in progress
          list,      \* projectsList
          start,     \* projectsStart
          hasMore,   \* hasMoreProjects
          listLoad,  \* the listProjects request in progress, or NoLoad
          dash,      \* dashboardData
          earnings,  \* whose earnings userEarnings holds, or None
          dashLoads, \* getAllSplits loads in progress: the account of each
          loadingDash, \* isLoadingDashboard
          update,    \* the update_metadata run, or NoUpdate
          updates,   \* updates sent so far
          flow       \* the deposit, distribution, lock or collaborator update in flight

vars == <<ledger, had, account, tab, search, fetched, reads, list, start, hasMore,
          listLoad, dash, earnings, dashLoads, loadingDash, update, updates, flow>>

listVars == <<list, start, hasMore, listLoad>>
dashVars == <<dash, earnings, dashLoads, loadingDash>>
editVars == <<update, updates, flow>>

Row(p, t) == [id |-> p, title |-> t]
Nothing == Row(0, None)
NoLoad == [start |-> 0, more |-> FALSE, on |-> FALSE]
NoUpdate == [pc |-> "idle", id |-> 0, prev |-> None, next |-> None]
NoFlow == [on |-> FALSE, refetch |-> 0]

Init ==
    /\ \E t \in Titles : /\ ledger = <<Row(1, t)>>
                         /\ had = <<{t}>>
    /\ account = None /\ tab = "dashboard" /\ search = 0 /\ fetched = Nothing
    /\ reads = {}
    /\ list = <<>> /\ start = 0 /\ hasMore = TRUE /\ listLoad = NoLoad
    /\ dash = <<>> /\ earnings = None /\ dashLoads = {} /\ loadingDash = FALSE
    /\ update = NoUpdate /\ updates = 0 /\ flow = NoFlow

----------------------------------------------------------------------------
(* The contract.                                                           *)

Retitled(p, t) ==
    /\ ledger' = [ledger EXCEPT ![p].title = t]
    /\ had' = [had EXCEPT ![p] = @ \cup {t}]

\* Somebody creates a project: it goes to the end of the index.
Created ==
    /\ Len(ledger) < MaxProjects
    /\ \E t \in Titles :
         /\ ledger' = Append(ledger, Row(Len(ledger) + 1, t))
         /\ had' = Append(had, {t})
    /\ UNCHANGED <<account, tab, search, fetched, reads, listVars, dashVars, editVars>>

\* mapProjectToCamelCase: the row a load brings for project p.
Loaded(p) == Row(p, ledger[p].title)

\* listProjects({start, limit}): a page of the index.
listProjects(s, n) ==
    [i \in 1..(IF s + n <= Len(ledger) THEN n ELSE IF s <= Len(ledger) THEN Len(ledger) - s ELSE 0)
        |-> Loaded(s + i)]

----------------------------------------------------------------------------
(* The projects list.                                                      *)

\* Faulty variant: the next page starts one page after the rows of the first.
StartListLoadByPage(more) ==
    /\ ~listLoad.on
    /\ more \/ list = <<>>
    /\ listLoad' = [start |-> IF more THEN Limit ELSE 0, more |-> more, on |-> TRUE]

\* onFetchProjectsList(loadMore).
StartListLoad(more) ==
    /\ ~listLoad.on
    /\ more \/ list = <<>>
    /\ listLoad' = [start |-> IF more THEN start ELSE 0, more |-> more, on |-> TRUE]

\* "Load More" is offered below a list that has rows and more pages.
LoadMore ==
    /\ tab = "projects" /\ list # <<>> /\ hasMore
    /\ StartListLoad(TRUE)
    /\ UNCHANGED <<ledger, had, account, tab, search, fetched, reads, list, start, hasMore,
                   dashVars, editVars>>

\* The rows after an answer.
Extended(rows) == IF listLoad.more THEN list \o rows ELSE rows

ListAnswered ==
    /\ listLoad.on
    /\ LET rows == listProjects(listLoad.start, Limit) IN
         /\ list' = Extended(rows)
         /\ start' = listLoad.start + Len(rows)
         /\ hasMore' = (Len(rows) = Limit)
    /\ listLoad' = NoLoad
    /\ UNCHANGED <<ledger, had, account, tab, search, fetched, reads, dashVars, editVars>>

ListFailed ==
    /\ listLoad.on
    /\ listLoad' = NoLoad
    /\ UNCHANGED <<ledger, had, account, tab, search, fetched, reads, list, start, hasMore,
                   dashVars, editVars>>

----------------------------------------------------------------------------
(* The dashboard.                                                          *)

\* onFetchDashboardData, with the account of the render that started it.
StartDashLoad(a) ==
    /\ Cardinality(dashLoads \cup {a}) <= MaxLoads
    /\ dashLoads' = dashLoads \cup {a}
    /\ loadingDash' = TRUE

DashAnswered(a) ==
    /\ a \in dashLoads
    /\ dashLoads' = dashLoads \ {a}
    /\ dash' = listProjects(0, Len(ledger))
    /\ earnings' = IF a # None THEN a ELSE earnings
    /\ loadingDash' = FALSE
    /\ UNCHANGED <<ledger, had, account, tab, search, fetched, reads, listVars, editVars>>

DashFailed(a) ==
    /\ a \in dashLoads
    /\ dashLoads' = dashLoads \ {a}
    /\ loadingDash' = FALSE
    /\ UNCHANGED <<ledger, had, account, tab, search, fetched, reads, listVars, dash, earnings,
                   editVars>>

\* The wallet connects, switches or disconnects; the effect reloads the
\* dashboard when it is the tab shown.
SwitchAccount(a) ==
    /\ a # account
    /\ account' = a
    /\ IF tab = "dashboard"
       THEN StartDashLoad(a) /\ UNCHANGED <<dash, earnings>>
       ELSE UNCHANGED dashVars
    /\ UNCHANGED <<ledger, had, tab, search, fetched, reads, listVars, editVars>>

OpenTab(t) ==
    /\ tab' = t
    /\ UNCHANGED <<ledger, had, account, search, fetched, reads, listVars, dashVars, editVars>>

\* The effect on the tab: an empty list or an empty dashboard is loaded.
LoadEffect ==
    /\ \/ /\ tab = "projects" /\ list = <<>>
          /\ StartListLoad(FALSE)
          /\ UNCHANGED <<list, start, hasMore, dashVars>>
       \/ /\ tab = "dashboard" /\ dash = <<>> /\ ~loadingDash
          /\ StartDashLoad(account)
          /\ UNCHANGED <<listVars, dash, earnings>>
    /\ UNCHANGED <<ledger, had, account, tab, search, fetched, reads, editVars>>

----------------------------------------------------------------------------
(* The project in hand.                                                    *)

\* A card of the list is selected; its history is loaded, the project is not.
SelectFromList(i) ==
    /\ tab = "projects" /\ i \in DOMAIN list
    /\ fetched' = list[i]
    /\ UNCHANGED <<ledger, had, account, tab, search, reads, listVars, dashVars, editVars>>

BackToProjects ==
    /\ tab = "projects" /\ fetched # Nothing
    /\ fetched' = Nothing
    /\ UNCHANGED <<ledger, had, account, tab, search, reads, listVars, dashVars, editVars>>

openProject(i) ==
    /\ tab = "dashboard" /\ i \in DOMAIN dash
    /\ search' = dash[i].id
    /\ fetched' = dash[i]
    /\ tab' = "manage"
    /\ UNCHANGED <<ledger, had, account, reads, listVars, dashVars, editVars>>

\* onFetchProject with the searchProjectId of the render that started it.
StartRead(p) == reads' = reads \cup {[id |-> p, was |-> Loaded(p)]}

FetchProject(p) ==
    /\ tab = "manage" /\ p \in DOMAIN ledger
    /\ Cardinality(reads) < MaxLoads
    /\ search' = p
    /\ StartRead(p)
    /\ UNCHANGED <<ledger, had, account, tab, fetched, listVars, dashVars, editVars>>

ReadAnswered(r) ==
    /\ r \in reads
    /\ fetched' \in {r.was, Loaded(r.id)}
    /\ reads' = reads \ {r}
    /\ UNCHANGED <<ledger, had, account, tab, search, listVars, dashVars, editVars>>

ReadFailed(r) ==
    /\ r \in reads
    /\ reads' = reads \ {r}
    /\ UNCHANGED <<ledger, had, account, tab, search, fetched, listVars, dashVars, editVars>>

----------------------------------------------------------------------------
(* Updating the title: shown at once, taken back when it fails.            *)

Patched(row, p, t) == IF row.id = p THEN [row EXCEPT !.title = t] ELSE row

\* Faulty variant: only the project in hand is patched back.
PatchInHand(p, t) ==
    /\ fetched' = Patched(fetched, p, t)
    /\ list' = IF update.pc = "idle" THEN [i \in DOMAIN list |-> Patched(list[i], p, t)] ELSE list
    /\ dash' = IF update.pc = "idle" THEN [i \in DOMAIN dash |-> Patched(dash[i], p, t)] ELSE dash

patchProjectInAllViews(p, t) ==
    /\ fetched' = Patched(fetched, p, t)
    /\ list' = [i \in DOMAIN list |-> Patched(list[i], p, t)]
    /\ dash' = [i \in DOMAIN dash |-> Patched(dash[i], p, t)]

runUpdateMetadata(t) ==
    /\ fetched # Nothing /\ account # None
    /\ update = NoUpdate /\ updates < MaxUpdates
    /\ update' = [pc |-> "sent", id |-> fetched.id, prev |-> fetched.title, next |-> t]
    /\ updates' = updates + 1
    /\ patchProjectInAllViews(fetched.id, t)
    /\ UNCHANGED <<ledger, had, account, tab, search, reads, start, hasMore, listLoad,
                   earnings, dashLoads, loadingDash, flow>>

UpdateConfirmed ==
    /\ update.pc = "sent"
    /\ Retitled(update.id, update.next)
    /\ update' = NoUpdate
    /\ UNCHANGED <<account, tab, search, fetched, reads, listVars, dashVars, updates, flow>>

\* The update fails, or its outcome stays unknown and the action is blocked.
UpdateGivesUp ==
    /\ update.pc = "sent"
    /\ patchProjectInAllViews(update.id, update.prev)
    /\ update' \in {NoUpdate, [update EXCEPT !.pc = "unconfirmed"]}
    /\ UNCHANGED <<ledger, had, account, tab, search, reads, start, hasMore, listLoad,
                   earnings, dashLoads, loadingDash, updates, flow>>

\* An unconfirmed update lands after all, or expires; "Check status" then
\* frees the action and reads the project of the search box again.
UpdateResolved ==
    /\ update.pc = "unconfirmed"
    /\ \/ /\ Retitled(update.id, update.next)
          /\ IF fetched # Nothing /\ search # 0 THEN StartRead(search) ELSE UNCHANGED reads
       \/ UNCHANGED <<ledger, had, reads>>
    /\ update' = NoUpdate
    /\ UNCHANGED <<account, tab, search, fetched, listVars, dashVars, updates, flow>>

----------------------------------------------------------------------------
(* The other mutations: one at a time, on the project in hand.             *)

\* A run remembers what it will read again when it is confirmed: the project
\* of the search box of the render that started it.
StartFlow(refetch) ==
    /\ fetched # Nothing /\ account # None
    /\ flow = NoFlow
    /\ flow' = [on |-> TRUE, refetch |-> refetch]
    /\ UNCHANGED <<ledger, had, account, tab, search, fetched, reads, listVars, dashVars,
                   update, updates>>

runDistribute == tab \in {"manage", "projects"} /\ StartFlow(search)

runDeposit == tab = "manage" /\ StartFlow(search)

runUpdateCollaborators == tab = "manage" /\ StartFlow(search)

\* A confirmed lock reads nothing again.
runLockProject == tab = "manage" /\ StartFlow(0)

FlowFailed ==
    /\ flow # NoFlow
    /\ flow' = NoFlow
    /\ UNCHANGED <<ledger, had, account, tab, search, fetched, reads, listVars, dashVars,
                   update, updates>>

FlowConfirmed ==
    /\ flow # NoFlow
    /\ flow' = NoFlow
    /\ IF flow.refetch # 0 THEN StartRead(flow.refetch) ELSE UNCHANGED reads
    /\ UNCHANGED <<ledger, had, account, tab, search, fetched, listVars, dashVars,
                   update, updates>>

----------------------------------------------------------------------------

Loads ==
    \/ LoadMore \/ ListAnswered \/ ListFailed \/ LoadEffect
    \/ \E a \in Accounts \cup {None} : DashAnswered(a) \/ DashFailed(a)
    \/ \E r \in reads : ReadAnswered(r) \/ ReadFailed(r)

User ==
    \/ \E a \in Accounts \cup {None} : SwitchAccount(a)
    \/ \E t \in {"dashboard", "manage", "projects"} : OpenTab(t)
    \/ \E i \in 1..MaxProjects : SelectFromList(i) \/ openProject(i) \/ FetchProject(i)
    \/ BackToProjects

Mutations ==
    \/ \E t \in Titles : runUpdateMetadata(t)
    \/ UpdateConfirmed \/ UpdateGivesUp \/ UpdateResolved
    \/ runDistribute \/ runDeposit \/ runUpdateCollaborators \/ runLockProject
    \/ FlowConfirmed \/ FlowFailed

Next == Loads \/ User \/ Mutations \/ Created

Spec == Init /\ [][Next]_vars

----------------------------------------------------------------------------
(* Properties.                                                             *)

Rows == {fetched} \cup {list[i] : i \in DOMAIN list} \cup {dash[i] : i \in DOMAIN dash}

\* When no title update is under way, no view shows a title its project never
\* had: a failed update is taken back wherever a load or a selection copied it
\* meanwhile (patchProjectInAllViews, runUpdateMetadata).
NoPhantomTitles ==
    update.pc # "sent" =>
        \A row \in Rows \ {Nothing} : row.title \in had[row.id]

\* The list is the beginning of the index, without gaps or repetitions,
\* however loads, page requests and new projects interleave
\* (onFetchProjectsList).
ListIsPrefix ==
    \A i \in DOMAIN list : list[i].id = i

\* "Reload dashboard data when wallet account switches": with no load in
\* progress, the earnings on the dashboard are those of the connected account.
\* Does not hold: a load that fails, or one begun for the account before,
\* leaves that account's earnings with the new account.
EarningsFollowAccount ==
    tab = "dashboard" /\ account # None /\ dashLoads = {} /\ dash # <<>> =>
        earnings \in {None, account}
=============================================================================
