----------------------------- MODULE MCContract -----------------------------
(***************************************************************************)
(* Three instances of SplitContract in one run; `scene` says which one a   *)
(* behaviour belongs to.                                                   *)
(*   funds      one project, three deposits or distributions, and changes  *)
(*              of the collaborators in between                            *)
(*   custody    two projects of one token, batches, withdrawals, amounts   *)
(*              close to the largest                                       *)
(*   lifecycle  one project, two accounts, two tokens, every cap, lists    *)
(*              the contract must refuse                                   *)
(***************************************************************************)
EXTENDS SplitContract

CONSTANTS a1, a2, a3, p1, p2, t1, t2

VARIABLE scene

Collab(a, n) == [address |-> a, bps |-> n]

\* Two valid splits that overlap in one account, and three the contract
\* must refuse: short of the whole, one account twice, one account alone.
ThreeWay == <<Collab(a1, 1), Collab(a2, 2), Collab(a3, 1)>>
TwoWay == <<Collab(a2, 3), Collab(a1, 1)>>
Lists == {ThreeWay, TwoWay}
RefusedLists == {<<Collab(a1, 1), Collab(a2, 2)>>,
                 <<Collab(a1, 2), Collab(a1, 2)>>,
                 <<Collab(a1, 4)>>}
AllLists == Lists \cup RefusedLists
SomeBatches == {<<p1, p2>>, <<p1, p1>>, <<p2>>}

Funds == INSTANCE SplitContract WITH
  Admins <- {a1}, Owners <- {a1}, Caps <- {}, Titles <- {"x"},
  CollabLists <- Lists, Amounts <- {5}, Batches <- {},
  MaxI128 <- 100, MaxEpoch <- 3, MaxHeld <- 10

Custody == INSTANCE SplitContract WITH
  Admins <- {a1}, Owners <- {a1}, Caps <- {}, Titles <- {"x"},
  CollabLists <- {TwoWay}, Amounts <- {3},
  MaxI128 <- 17, MaxEpoch <- 2, MaxHeld <- 9

Lifecycle == INSTANCE SplitContract WITH
  Amounts <- {2}, Batches <- {}, MaxI128 <- 100, MaxEpoch <- 1, MaxHeld <- 3

\* What a scene has of projects and tokens, before and after a step.
OneProject == DOMAIN project \subseteq {p1}
OneToken ==
  /\ held[t2] = 0 /\ t2 \notin allowedTokens
  /\ \A p \in DOMAIN project : project[p].token = t1

\* No pause and no allowlist: these are in the other two scenes.
Unrestricted == ~paused /\ allowedTokens = {}

MCInit ==
  \/ scene = "funds" /\ Funds!Init /\ OneProject /\ OneToken
  \/ scene = "custody" /\ Custody!Init /\ OneToken
  \/ scene = "lifecycle" /\ Lifecycle!Init /\ OneProject

FundsStep == scene = "funds" /\ Funds!Next /\ (OneProject /\ OneToken /\ Unrestricted)'
CustodyStep == scene = "custody" /\ Custody!Next /\ OneToken'
LifecycleStep == scene = "lifecycle" /\ Lifecycle!Next /\ OneProject'

MCNext == (FundsStep \/ CustodyStep \/ LifecycleStep) /\ UNCHANGED scene

MCSpec == MCInit /\ [][MCNext]_<<vars, scene>>
=============================================================================
