------------------------------- MODULE Shares -------------------------------
(***************************************************************************)
(* The arithmetic of a royalty split: who is paid what out of a balance,   *)
(* and which collaborator lists the contract accepts.  A collaborator is a *)
(* record [address, bps]; its alias carries no behaviour.                  *)
(***************************************************************************)
EXTENDS Sums

CONSTANTS
  Addresses,   \* the Stellar accounts of the instance
  TotalBps     \* 10_000 in the contract: the basis points of a whole

ASSUME TotalBpsAssumption == TotalBps \in Nat \ {0}

Collaborator == [address : Addresses, bps : Nat]

\* The basis points of a list, in list order.
Bps(c) == [i \in 1..Len(c) |-> c[i].bps]

\* validate_collaborators: between 2 and `cap` entries, no zero share, no
\* address twice, shares adding up to the whole.
ValidCollaborators(c, cap) ==
  /\ Len(c) >= 2
  /\ Len(c) <= cap
  /\ \A i \in 1..Len(c) : c[i].bps > 0
  /\ \A i, j \in 1..Len(c) : c[i].address = c[j].address => i = j
  /\ SeqSum(Bps(c)) = TotalBps

\* One collaborator's share of a balance, rounded down.
Share(balance, bps) == (balance * bps) \div TotalBps

\* The shares of all the collaborators but the last, in list order.
FloorShares(c, balance) == [i \in 1..Len(c) - 1 |-> Share(balance, c[i].bps)]

\* Faulty variant: the last collaborator's share is rounded down as well.
PayoutsAllFloors(c, balance) == [i \in 1..Len(c) |-> Share(balance, c[i].bps)]

\* What `distribute` pays each collaborator: the floor shares, and to the last
\* one whatever the running total has left.
Payouts(c, balance) ==
  [i \in 1..Len(c) |->
     IF i = Len(c) THEN balance - SeqSum(FloorShares(c, balance))
                   ELSE Share(balance, c[i].bps)]

\* Faulty variant: the total is taken before the last payout.
TotalSentBeforeLast(c, balance) == SeqSum(FloorShares(c, balance))

\* Only positive amounts are transferred and counted in `total_sent`.
TotalSent(c, balance) ==
  SeqSum([i \in 1..Len(c) |->
            IF Payouts(c, balance)[i] > 0 THEN Payouts(c, balance)[i] ELSE 0])

\* What address a receives from paying a balance out to the list c.
PaidTo(c, balance, a) ==
  SeqSum([i \in 1..Len(c) |->
            IF c[i].address = a /\ Payouts(c, balance)[i] > 0
            THEN Payouts(c, balance)[i] ELSE 0])
=============================================================================
