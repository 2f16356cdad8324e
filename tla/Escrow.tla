------------------------------- MODULE Escrow -------------------------------
(***************************************************************************)
(* What the contract promises about money, without saying how: each        *)
(* project has a pot of one token that only grows by funding it and only   *)
(* shrinks by paying from it, and the tokens that belong to no pot are the *)
(* only ones that can leave by another way.                                *)
(***************************************************************************)
EXTENDS Integers

CONSTANTS Projects, Tokens

VARIABLES
  open,   \* projects that exist
  pot,    \* funds held for each project
  paid,   \* funds paid out for each project so far
  free    \* tokens in custody that belong to no project

vars == <<open, pot, paid, free>>

Init ==
  /\ open \in SUBSET Projects
  /\ pot \in [Projects -> Nat]
  /\ \A p \in Projects \ open : pot[p] = 0
  /\ paid = [p \in Projects |-> 0]
  /\ free = [t \in Tokens |-> 0]

Open(p) ==
  /\ p \notin open
  /\ open' = open \cup {p}
  /\ UNCHANGED <<pot, paid, free>>

Fund(p) ==
  /\ p \in open
  /\ pot'[p] > pot[p]
  /\ pot' = [pot EXCEPT ![p] = pot'[p]]
  /\ UNCHANGED <<open, paid, free>>

Pay(p) ==
  LET n == pot[p] - pot'[p] IN
  /\ p \in open
  /\ n > 0 /\ pot'[p] >= 0
  /\ pot' = [pot EXCEPT ![p] = @ - n]
  /\ paid' = [paid EXCEPT ![p] = @ + n]
  /\ UNCHANGED <<open, free>>

Stray(t) ==
  /\ free'[t] > free[t]
  /\ free' = [free EXCEPT ![t] = free'[t]]
  /\ UNCHANGED <<open, pot, paid>>

Sweep(t) ==
  /\ 0 <= free'[t] /\ free'[t] < free[t]
  /\ free' = [free EXCEPT ![t] = free'[t]]
  /\ UNCHANGED <<open, pot, paid>>

Next ==
  \/ \E p \in Projects : Open(p) \/ Fund(p) \/ Pay(p)
  \/ \E t \in Tokens : Stray(t) \/ Sweep(t)

Spec == Init /\ [][Next]_vars
=============================================================================
