------------------------ MODULE SplitContractProofs ------------------------
(***************************************************************************)
(* The contract, for every number of projects, tokens, accounts and        *)
(* collaborators and every amount.                                         *)
(*                                                                         *)
(* Shares: a valid split divides a balance exactly, for every list the     *)
(* contract accepts and every balance.                                     *)
(*                                                                         *)
(* Money: what the contract holds covers what it owes.                     *)
(*                                                                         *)
(* Records: what is stored twice agrees: the collaborators' claims and the *)
(* project's total, the claims of an epoch and the balance, and the three  *)
(* copies of the token allowlist; and the contract implements the escrow.  *)
(***************************************************************************)
EXTENDS SplitContract, SumsProofs

-----------------------------------------------------------------------------
(* Shares *)

\* Products of naturals are naturals and multiplication is monotone; the SMT
\* solver needs these facts one at a time.
LEMMA MulNat ==
  ASSUME NEW x \in Nat, NEW y \in Nat
  PROVE  x * y \in Nat
OBVIOUS

\* A share is a natural number, and the rounding is downwards.
LEMMA ShareBounds ==
  ASSUME NEW b \in Nat, NEW n \in Nat
  PROVE  /\ Share(b, n) \in Nat
         /\ Share(b, n) * TotalBps <= b * n
<1> DEFINE m == b * n
<1>1. m \in Nat
  BY MulNat
<1> HIDE DEF m
<1>2. TotalBps \in Nat \ {0}
  BY TotalBpsAssumption
<1>3. m \div TotalBps \in Nat
  BY <1>1, <1>2
<1>4. (m \div TotalBps) * TotalBps <= m
  BY <1>1, <1>2
<1> QED BY <1>3, <1>4 DEF Share, m

LEMMA Distributes ==
  ASSUME NEW x \in Int, NEW y \in Int, NEW z \in Int
  PROVE  (x + y) * z = x * z + y * z /\ z * (x + y) = z * x + z * y
OBVIOUS

LEMMA ProductInt ==
  ASSUME NEW x \in Int, NEW y \in Int
  PROVE  x * y \in Int
OBVIOUS

\* A positive factor cancels in an inequality.
LEMMA Cancels ==
  ASSUME NEW x \in Int, NEW y \in Int, NEW z \in Nat \ {0}, x * z <= y * z
  PROVE  x <= y
OBVIOUS

LEMMA CancelsStrictly ==
  ASSUME NEW x \in Int, NEW y \in Int, NEW z \in Nat \ {0}, x * z < y * z
  PROVE  x < y
OBVIOUS

\* A share loses less than one unit to rounding.
LEMMA ShareLoss ==
  ASSUME NEW b \in Nat, NEW n \in Nat
  PROVE  b * n < Share(b, n) * TotalBps + TotalBps
<1> DEFINE m == b * n
<1>1. m \in Nat
  BY MulNat
<1> HIDE DEF m
<1>2. TotalBps \in Nat \ {0}
  BY TotalBpsAssumption
<1>3. m < (m \div TotalBps) * TotalBps + TotalBps
  BY <1>1, <1>2
<1> QED BY <1>3 DEF Share, m

\* The lists the arithmetic is about: a valid split, its basis points and its
\* floor shares are sequences of naturals.
LEMMA SplitTypes ==
  ASSUME NEW c \in Seq(Collaborator), NEW b \in Nat, Len(c) >= 1
  PROVE  /\ Bps(c) \in Seq(Nat) /\ Len(Bps(c)) = Len(c)
         /\ \A i \in 1..Len(c) : Bps(c)[i] = c[i].bps /\ c[i].bps \in Nat
         /\ FloorShares(c, b) \in Seq(Nat) /\ Len(FloorShares(c, b)) = Len(c) - 1
         /\ \A i \in 1..Len(c) - 1 :
              FloorShares(c, b)[i] = Share(b, c[i].bps)
<1>1. \A i \in 1..Len(c) : c[i] \in Collaborator
  OBVIOUS
<1>2. \A i \in 1..Len(c) : c[i].bps \in Nat
  BY <1>1 DEF Collaborator
<1>3. \A i \in 1..Len(c) : Share(b, c[i].bps) \in Nat
  BY <1>2, ShareBounds
<1>4. Len(c) \in Nat /\ Len(c) - 1 \in Nat
  OBVIOUS
<1>5. Bps(c) \in Seq(Nat) /\ Len(Bps(c)) = Len(c)
  BY <1>2, <1>4 DEF Bps
<1>6. FloorShares(c, b) \in Seq(Nat) /\ Len(FloorShares(c, b)) = Len(c) - 1
  BY <1>3, <1>4 DEF FloorShares
<1> QED BY <1>2, <1>5, <1>6 DEF Bps, FloorShares

\* The floor shares of the first k collaborators, scaled up, stay below the
\* exact shares, and by less than one unit for each of them.
LEMMA FloorsWithinExact ==
  ASSUME NEW c \in Seq(Collaborator), NEW b \in Nat, Len(c) >= 1,
         NEW k \in Nat, k <= Len(c) - 1
  PROVE  /\ Totals(FloorShares(c, b))[k] * TotalBps <= b * Totals(Bps(c))[k]
         /\ b * Totals(Bps(c))[k]
              <= Totals(FloorShares(c, b))[k] * TotalBps + k * (TotalBps - 1)
<1> DEFINE F == Totals(FloorShares(c, b))
           B == Totals(Bps(c))
           P(n) == n <= Len(c) - 1 => /\ F[n] * TotalBps <= b * B[n]
                                      /\ b * B[n] <= F[n] * TotalBps + n * (TotalBps - 1)
<1>0. Len(c) \in Nat /\ TotalBps \in Nat \ {0}
  BY TotalBpsAssumption
<1>1. /\ FloorShares(c, b) \in Seq(Int) /\ Bps(c) \in Seq(Int)
      /\ Len(FloorShares(c, b)) = Len(c) - 1 /\ Len(Bps(c)) = Len(c)
      /\ \A i \in 1..Len(c) : Bps(c)[i] = c[i].bps /\ c[i].bps \in Nat
      /\ \A i \in 1..Len(c) - 1 : FloorShares(c, b)[i] = Share(b, c[i].bps)
  <2>1. \A s \in Seq(Nat) : s \in Seq(Int)
    OBVIOUS
  <2> QED BY <2>1, SplitTypes, Zenon
<1>2. /\ F \in [0..Len(c) - 1 -> Int] /\ F[0] = 0
      /\ \A i \in 1..Len(c) - 1 : F[i] = F[i - 1] + FloorShares(c, b)[i]
  BY <1>1, TotalsStep
<1>3. /\ B \in [0..Len(c) -> Int] /\ B[0] = 0
      /\ \A i \in 1..Len(c) : B[i] = B[i - 1] + Bps(c)[i]
  BY <1>1, TotalsStep
<1> HIDE DEF F, B
<1>4. P(0)
  BY <1>0, <1>2, <1>3
<1>5. ASSUME NEW n \in Nat, P(n) PROVE P(n + 1)
  <2> SUFFICES ASSUME n + 1 <= Len(c) - 1
               PROVE  /\ F[n + 1] * TotalBps <= b * B[n + 1]
                      /\ b * B[n + 1] <= F[n + 1] * TotalBps + (n + 1) * (TotalBps - 1)
    OBVIOUS
  <2> DEFINE f == Share(b, c[n + 1].bps)
             g == c[n + 1].bps
  <2>0. n + 1 \in 1..Len(c) - 1 /\ n + 1 \in 1..Len(c) /\ n + 1 - 1 = n /\ n \in 0..Len(c) - 1
        /\ n \in 0..Len(c) /\ n <= Len(c) - 1
    BY <1>0
  <2>1. F[n + 1] = F[n] + f /\ B[n + 1] = B[n] + g
    <3>1. F[n + 1] = F[n] + FloorShares(c, b)[n + 1] /\ B[n + 1] = B[n] + Bps(c)[n + 1]
      BY ONLY <1>2, <1>3, <2>0
    <3>2. FloorShares(c, b)[n + 1] = f /\ Bps(c)[n + 1] = g
      BY <1>1, <2>0, Zenon
    <3> QED BY <3>1, <3>2
  <2>2. F[n] \in Int /\ B[n] \in Int /\ g \in Nat
    BY ONLY <1>1, <1>2, <1>3, <2>0
  <2>3. f \in Nat /\ f * TotalBps <= b * g /\ b * g < f * TotalBps + TotalBps
    BY <2>2, ShareBounds, ShareLoss
  <2> HIDE DEF f, g
  <2>4. F[n + 1] * TotalBps = F[n] * TotalBps + f * TotalBps
    BY <1>0, <2>1, <2>2, <2>3, Distributes
  <2>5. b * B[n + 1] = b * B[n] + b * g
    BY <2>1, <2>2, Distributes
  <2>6. (n + 1) * (TotalBps - 1) = n * (TotalBps - 1) + (TotalBps - 1)
    BY <1>0, Distributes
  <2>7. /\ F[n] * TotalBps \in Int /\ f * TotalBps \in Int
        /\ b * B[n] \in Int /\ b * g \in Int /\ n * (TotalBps - 1) \in Int
    BY <1>0, <2>2, <2>3, ProductInt
  <2>8. F[n] * TotalBps <= b * B[n] /\ b * B[n] <= F[n] * TotalBps + n * (TotalBps - 1)
    BY <1>5, <2>0
  <2>9. ASSUME NEW x \in Int, NEW y \in Int, NEW u \in Int, NEW v \in Int,
               NEW w \in Int, NEW T \in Int,
               x <= u, u <= x + w, y <= v, v < y + T
        PROVE  x + y <= u + v /\ u + v <= (x + y) + (w + (T - 1))
    BY ONLY <2>9
  <2>10. /\ F[n] * TotalBps + f * TotalBps <= b * B[n] + b * g
         /\ b * B[n] + b * g <= (F[n] * TotalBps + f * TotalBps)
                                 + (n * (TotalBps - 1) + (TotalBps - 1))
    <3>1. TotalBps \in Int
      BY <1>0
    <3> QED BY ONLY <3>1, <2>3, <2>7, <2>8, <2>9, Zenon
  <2> QED BY ONLY <2>4, <2>5, <2>6, <2>10, Zenon
<1>6. P(k)
  <2> DEFINE S == {n \in Nat : P(n)}
  <2> HIDE DEF P
  <2>1. 0 \in S
    BY <1>4
  <2>2. \A n \in Nat : n \in S => n + 1 \in S
    BY <1>5
  <2>3. \A n \in Nat : n \in S
    <3> HIDE DEF S
    <3> QED BY <2>1, <2>2, NatSetInduction
  <2> QED BY <2>3
<1> QED BY <1>6 DEF F, B

\* The result of the arithmetic: for every valid split of every balance no
\* payout is negative, each collaborator receives at least its rounded-down
\* share, the last one less than one unit per collaborator more than its own,
\* and what is sent is the whole balance (the loop of distribute in lib.rs).
THEOREM DistributionIsExact ==
  ASSUME NEW c \in Seq(Collaborator), NEW cap \in Nat, NEW b \in Nat,
         ValidCollaborators(c, cap)
  PROVE  /\ Payouts(c, b) \in Seq(Nat) /\ Len(Payouts(c, b)) = Len(c)
         /\ \A i \in 1..Len(c) - 1 : Payouts(c, b)[i] = Share(b, c[i].bps)
         /\ Payouts(c, b)[Len(c)] - Share(b, c[Len(c)].bps) \in 0..Len(c) - 1
         /\ SeqSum(Payouts(c, b)) = b
         /\ TotalSent(c, b) = b
<1> DEFINE n == Len(c)
           F == SeqSum(FloorShares(c, b))
           g == c[n].bps
           f == Share(b, g)
           T == TotalBps
<1>1. n \in Nat /\ n >= 2 /\ SeqSum(Bps(c)) = T
  BY DEF ValidCollaborators
<1>2. T \in Nat \ {0}
  BY TotalBpsAssumption
<1>3. /\ Bps(c) \in Seq(Nat) /\ Len(Bps(c)) = n
      /\ \A i \in 1..n : Bps(c)[i] = c[i].bps /\ c[i].bps \in Nat
      /\ FloorShares(c, b) \in Seq(Nat) /\ Len(FloorShares(c, b)) = n - 1
      /\ \A i \in 1..n - 1 : FloorShares(c, b)[i] = Share(b, c[i].bps)
  <2>1. Len(c) >= 1
    BY <1>1
  <2> QED BY <2>1, SplitTypes, Zenon
<1>4. g \in Nat /\ f \in Nat /\ f * T <= b * g /\ b * g < f * T + T
  <2>1. n \in 1..n
    BY <1>1
  <2>2. g \in Nat
    BY <1>3, <2>1, Zenon
  <2> QED BY <2>2, ShareBounds, ShareLoss, Zenon
<1>5. F \in Nat
  BY <1>3, SumOfNats
<1>6. Totals(Bps(c))[n - 1] = T - g
  <2>1. \A s \in Seq(Nat) : s \in Seq(Int)
    OBVIOUS
  <2>2. /\ Totals(Bps(c)) \in [0..n -> Int]
        /\ \A i \in 1..n : Totals(Bps(c))[i] = Totals(Bps(c))[i - 1] + Bps(c)[i]
    BY <1>3, <2>1, TotalsStep
  <2>3. Totals(Bps(c))[n] = Totals(Bps(c))[n - 1] + g /\ Totals(Bps(c))[n - 1] \in Int
    <3> DEFINE B == Totals(Bps(c))
    <3> HIDE DEF B
    <3>1. n \in 1..n /\ n - 1 \in 0..n
      BY <1>1
    <3>2. Bps(c)[n] = g
      BY <1>3, <3>1, Zenon
    <3>3. B \in [0..n -> Int] /\ B[n] = B[n - 1] + Bps(c)[n]
      BY <2>2, <3>1, Zenon DEF B
    <3>4. B[n - 1] \in Int
      BY <3>1, <3>3, Zenon
    <3> QED BY <3>2, <3>3, <3>4, Zenon DEF B
  <2>4. Totals(Bps(c))[n] = T
    BY <1>1, <1>3 DEF SeqSum
  <2> QED BY <1>2, <1>4, <2>3, <2>4
<1>7. /\ F * T <= b * (T - g)
      /\ b * (T - g) <= F * T + (n - 1) * (T - 1)
  <2>1. n - 1 \in Nat /\ n - 1 <= Len(c) - 1 /\ Len(c) >= 1
    BY <1>1
  <2>2. Totals(FloorShares(c, b))[n - 1] = F
    BY <1>3 DEF SeqSum
  <2> QED BY <1>6, <2>1, <2>2, FloorsWithinExact
<1> DEFINE last == b - F
<1> HIDE DEF n, F, g, f, T
<1>8. b * (T - g) = b * T - b * g
  BY <1>2, <1>4
<1>9. last * T = b * T - F * T
  BY <1>2, <1>5
<1>10. /\ b * T \in Int /\ b * g \in Int /\ F * T \in Int /\ f * T \in Int
       /\ (n - 1) * (T - 1) \in Int /\ last \in Int
  BY <1>1, <1>2, <1>4, <1>5, ProductInt
<1>11. f * T < last * T + T
  BY <1>2, <1>4, <1>7, <1>8, <1>9, <1>10
<1>12. f <= last
  <2>1. last * T + T = (last + 1) * T
    BY <1>2, <1>10
  <2>2. f < last + 1
    <3>1. last + 1 \in Int
      BY <1>10
    <3> QED BY <1>2, <1>4, <1>11, <2>1, <3>1, CancelsStrictly
  <2> QED BY <1>4, <1>10, <2>2
<1>13. last - f <= n - 1
  <2>1. (last - f) * T = last * T - f * T
    BY <1>2, <1>4, <1>10
  <2>2. (last - f) * T <= (n - 1) * (T - 1) + T - 1
    BY <1>2, <1>4, <1>7, <1>8, <1>9, <1>10, <2>1
  <2>3. (n - 1) * (T - 1) + T - 1 = n * T - n
    BY <1>1, <1>2
  <2>4. n * T \in Int
    BY <1>1, <1>2, ProductInt
  <2>5. (last - f) * T < n * T
    <3>1. (last - f) * T \in Int
      BY <1>2, <1>4, <1>10, ProductInt
    <3> QED BY <1>1, <2>2, <2>3, <2>4, <3>1
  <2>6. last - f < n
    <3>1. last - f \in Int /\ n \in Int
      BY <1>1, <1>4, <1>10
    <3> QED BY <1>2, <2>5, <3>1, CancelsStrictly
  <2> QED BY <1>1, <1>4, <1>10, <2>6
<1>14. last \in Nat
  BY <1>4, <1>10, <1>12
<1>15. /\ Payouts(c, b) = [i \in 1..n |-> IF i = n THEN last ELSE Share(b, c[i].bps)]
       /\ \A i \in 1..n - 1 : Share(b, c[i].bps) \in Nat
  <2>1. \A i \in 1..n : c[i].bps \in Nat
    BY <1>3, Zenon
  <2>2. \A i \in 1..n - 1 : i \in 1..n
    BY <1>1
  <2>3. \A i \in 1..n - 1 : Share(b, c[i].bps) \in Nat
    BY <2>1, <2>2, ShareBounds, Zenon
  <2>4. Payouts(c, b) = [i \in 1..n |-> IF i = n THEN last ELSE Share(b, c[i].bps)]
    BY DEF Payouts, n, F
  <2> QED BY <2>3, <2>4
<1>16. Payouts(c, b) \in Seq(Nat) /\ Len(Payouts(c, b)) = n
  BY <1>1, <1>14, <1>15
<1>17. Payouts(c, b)[n] = last /\ \A i \in 1..n - 1 : Payouts(c, b)[i] = Share(b, c[i].bps)
  BY <1>1, <1>15
<1>18. SeqSum(Payouts(c, b)) = b
  <2>1. \A s \in Seq(Nat) : s \in Seq(Int)
    OBVIOUS
  <2>2. \A i \in 1..n - 1 : Payouts(c, b)[i] = FloorShares(c, b)[i]
    BY <1>3, <1>17
  <2>3. Len(Payouts(c, b)) = Len(FloorShares(c, b)) + 1
    BY <1>1, <1>3, <1>16
  <2>4. SeqSum(Payouts(c, b)) = SeqSum(FloorShares(c, b)) + Payouts(c, b)[Len(Payouts(c, b))]
    BY <1>3, <1>16, <2>1, <2>2, <2>3, SumExtend
  <2> QED BY <1>5, <1>16, <1>17, <2>4 DEF F
<1>19. TotalSent(c, b) = b
  <2>1. [i \in 1..Len(c) |-> IF Payouts(c, b)[i] > 0 THEN Payouts(c, b)[i] ELSE 0]
          = Payouts(c, b)
    <3>1. \A i \in 1..n : Payouts(c, b)[i] \in Nat
      BY <1>16
    <3>2. Payouts(c, b) = [i \in 1..n |-> Payouts(c, b)[i]]
      BY <1>15
    <3> QED BY <3>1, <3>2 DEF n
  <2> QED BY <1>18, <2>1 DEF TotalSent
<1>20. Payouts(c, b)[n] - f \in 0..n - 1
  BY <1>1, <1>4, <1>10, <1>12, <1>13, <1>17
<1> QED BY <1>16, <1>17, <1>18, <1>19, <1>20 DEF n, f, g
-----------------------------------------------------------------------------
(* Money *)

\* Typing and the soundness of the stored splits go together: what a payout
\* takes from a balance is a natural number only because the stored list
\* divides the whole.
TypeInv == TypeOK /\ SplitsSound

\* The values of the loop that filters a list, step by step.
FilterRun(kept, list, t) ==
  /\ kept \in [0..Len(list) -> Seq(Tokens)]
  /\ Without(list, t) = kept[Len(list)]
  /\ kept[0] = <<>>
  /\ \A i \in 1..Len(list) :
       kept[i] = IF list[i] = t THEN kept[i - 1] ELSE Append(kept[i - 1], list[i])

LEMMA WithoutSteps ==
  ASSUME NEW list \in Seq(Tokens), NEW t
  PROVE  \E kept : FilterRun(kept, list, t)
<1> DEFINE I == {i \in DOMAIN list : list[i] = t}
<1>1. Without(list, t) = Dropping(list, I)
  BY DEF Without
<1>2. \A i \in 1..Len(list) : i \in I <=> list[i] = t
  OBVIOUS
<1> HIDE DEF I
<1>3. PICK kept : DroppingRun(kept, list, I, Tokens)
  BY DroppingSteps
<1>4. ASSUME NEW i \in 1..Len(list)
      PROVE  kept[i] = IF list[i] = t THEN kept[i - 1] ELSE Append(kept[i - 1], list[i])
  <2>1. kept[i] = IF i \in I THEN kept[i - 1] ELSE Append(kept[i - 1], list[i])
    BY <1>3, Zenon DEF DroppingRun
  <2> QED BY <1>2, <2>1, Zenon
<1>5. FilterRun(kept, list, t)
  BY <1>1, <1>3, <1>4, Zenon DEF DroppingRun, FilterRun
<1> QED BY <1>5, Zenon

\* Filtering a list of tokens yields a list of tokens.
LEMMA WithoutType ==
  ASSUME NEW list \in Seq(Tokens), NEW t
  PROVE  Without(list, t) \in Seq(Tokens)
<1>1. PICK kept : FilterRun(kept, list, t)
  BY WithoutSteps
<1>2. Len(list) \in 0..Len(list)
  OBVIOUS
<1> QED BY <1>1, <1>2 DEF FilterRun

\* The configuration stays well typed, whatever the admin calls.
LEMMA ConfigTypePreserved ==
  ASSUME ConfigTypeOK, ConfigNext
  PROVE  ConfigTypeOK'
<1> USE ConfigAssumption DEF ConfigTypeOK
<1>1. ASSUME NEW signer \in Addresses, NEW a \in Admins, SetAdmin(signer, a)
      PROVE  ConfigTypeOK'
  BY <1>1 DEF SetAdmin
<1>2. ASSUME NEW signer \in Addresses,
             PauseDistributions(signer) \/ UnpauseDistributions(signer)
      PROVE  ConfigTypeOK'
  BY <1>2 DEF PauseDistributions, UnpauseDistributions, SetPaused
<1>3. ASSUME NEW signer \in Addresses, NEW v \in Caps, SetMaxCollaborators(signer, v)
      PROVE  ConfigTypeOK'
  BY <1>3 DEF SetMaxCollaborators
<1>4. ASSUME NEW signer \in Addresses, NEW t \in Tokens, AllowToken(signer, t)
      PROVE  ConfigTypeOK'
  BY <1>4 DEF AllowToken
<1>5. ASSUME NEW signer \in Addresses, NEW t \in Tokens, DisallowToken(signer, t)
      PROVE  ConfigTypeOK'
  <2>1. Without(allowedTokenList, t) \in Seq(Tokens)
    BY WithoutType
  <2> QED BY <1>5, <2>1 DEF DisallowToken
<1> QED BY <1>1, <1>2, <1>3, <1>4, <1>5 DEF ConfigNext
-----------------------------------------------------------------------------
(* The sums behind the accounting cache *)

\* The index lists every created project once.
IndexOk ==
  /\ \A i, j \in 1..Len(ids) : ids[i] = ids[j] => i = j
  /\ \A p \in Projects : p \in Created <=> \E i \in 1..Len(ids) : ids[i] = p

\* Nothing was ever deposited into a project that does not exist.
Unfunded == \A p \in Projects \ Created : deposited[p] = 0

\* The loop's summands are natural numbers, one for each id.
LEMMA EntriesType ==
  ASSUME TypeOK, NEW t, NEW bal \in [Projects -> Nat]
  PROVE  /\ TokenEntries(t, bal) \in Seq(Nat)
         /\ TokenEntries(t, bal) \in Seq(Int)
         /\ Len(TokenEntries(t, bal)) = Len(ids)
         /\ SumProjectBalances(t, bal) \in Nat
<1> DEFINE E(i) == IF ids[i] \in Created /\ project[ids[i]].token = t THEN bal[ids[i]] ELSE 0
<1>1. ids \in Seq(Projects) /\ Len(ids) \in Nat
  BY DEF TypeOK
<1>2. ASSUME NEW i \in 1..Len(ids) PROVE E(i) \in Nat
  <2>1. bal[ids[i]] \in Nat
    BY <1>1
  <2> QED BY <2>1
<1>3. TokenEntries(t, bal) = [i \in 1..Len(ids) |-> E(i)]
  BY DEF TokenEntries
<1> HIDE DEF E
<1>4. /\ [i \in 1..Len(ids) |-> E(i)] \in Seq(Nat)
      /\ [i \in 1..Len(ids) |-> E(i)] \in Seq(Int)
      /\ Len([i \in 1..Len(ids) |-> E(i)]) = Len(ids)
  BY <1>1, <1>2
<1>5. SeqSum(TokenEntries(t, bal)) \in Nat
  BY <1>3, <1>4, SumOfNats
<1> QED BY <1>3, <1>4, <1>5 DEF SumProjectBalances

\* Moving d into or out of one project's balance moves the total of its token
\* by d and no other.
LEMMA BalanceChange ==
  ASSUME TypeOK, IndexOk, NEW p \in Created, NEW d \in Int, NEW t,
         NEW bal \in [Projects -> Nat], bal = [balance EXCEPT ![p] = @ + d]
  PROVE  /\ t = project[p].token =>
              SumProjectBalances(t, bal) = SumProjectBalances(t, balance) + d
         /\ t # project[p].token =>
              SumProjectBalances(t, bal) = SumProjectBalances(t, balance)
<1> DEFINE s == TokenEntries(t, balance)
           r == TokenEntries(t, bal)
           e == IF project[p].token = t THEN d ELSE 0
<1>1. /\ ids \in Seq(Projects) /\ Len(ids) \in Nat /\ p \in Projects
      /\ balance \in [Projects -> Nat]
  BY DEF TypeOK
<1>2. PICK k \in 1..Len(ids) : ids[k] = p
  BY <1>1 DEF IndexOk
<1>3. s \in Seq(Int) /\ r \in Seq(Int) /\ Len(s) = Len(ids) /\ Len(r) = Len(ids)
  BY <1>1, EntriesType
<1>4. ASSUME NEW i \in 1..Len(ids), i # k PROVE r[i] = s[i]
  <2>1. ids[i] # p /\ ids[i] \in Projects
    BY <1>1, <1>2, <1>4 DEF IndexOk
  <2>2. bal[ids[i]] = balance[ids[i]]
    BY <1>1, <2>1
  <2> QED BY <2>2 DEF TokenEntries
<1>5. r[k] = s[k] + e
  <2>1. bal[p] = balance[p] + d /\ balance[p] \in Int
    BY <1>1
  <2>2. CASE project[p].token = t
    <3>1. r[k] = bal[p] /\ s[k] = balance[p]
      BY <1>2, <2>2 DEF TokenEntries
    <3> QED BY <2>1, <2>2, <3>1
  <2>3. CASE project[p].token # t
    <3>1. r[k] = 0 /\ s[k] = 0
      BY <1>2, <2>3 DEF TokenEntries
    <3> QED BY <2>3, <3>1
  <2> QED BY <2>2, <2>3
<1>6. e \in Int
  OBVIOUS
<1> HIDE DEF s, r, e
<1>7. SeqSum(r) = SeqSum(s) + e
  BY <1>3, <1>4, <1>5, <1>6, SumChange
<1>8. SumProjectBalances(t, bal) = SeqSum(r) /\ SumProjectBalances(t, balance) = SeqSum(s)
  BY DEF SumProjectBalances, s, r
<1>9. SeqSum(s) \in Int
  BY <1>3, SeqSumInt
<1> QED BY <1>7, <1>8, <1>9 DEF e

\* As long as no project changes its token the loop visits the same summands.
LEMMA SameLoop ==
  ASSUME NEW t, ids' = ids, Created' = Created,
         \A p \in Created : project'[p].token = project[p].token
  PROVE  SumProjectBalances(t, balance)' = SumProjectBalances(t, balance')
<1>1. TokenEntries(t, balance)' = TokenEntries(t, balance')
  BY DEF TokenEntries
<1> QED BY <1>1 DEF SumProjectBalances
-----------------------------------------------------------------------------
(* The inductive invariant, by the parts that actions disturb together *)

BooksOk == IndexOk /\ AccountedMatches /\ Solvent

Inv == TypeOK /\ SplitsSound /\ BooksOk /\ Unfunded /\ Conservation

\* Moving d into or out of one project moves the live sum of its token by d.
LEMMA SumsMove ==
  ASSUME TypeOK, IndexOk, NEW p \in Created, NEW d \in Int, NEW t,
         ids' = ids, Created' = Created,
         \A q \in Created : project'[q].token = project[q].token,
         balance' \in [Projects -> Nat],
         balance' = [balance EXCEPT ![p] = @ + d]
  PROVE  /\ SumProjectBalances(t, balance)' = SumProjectBalances(t, balance')
         /\ SumProjectBalances(t, balance) \in Nat
         /\ SumProjectBalances(t, balance') \in Nat
         /\ t = project[p].token => SumProjectBalances(t, balance')
                                      = SumProjectBalances(t, balance) + d
         /\ t # project[p].token => SumProjectBalances(t, balance')
                                      = SumProjectBalances(t, balance)
<1> DEFINE tok == project[p].token
<1>1. SumProjectBalances(t, balance)' = SumProjectBalances(t, balance')
  BY SameLoop
<1>2. SumProjectBalances(t, balance) \in Nat /\ SumProjectBalances(t, balance') \in Nat
  BY EntriesType DEF TypeOK
<1>3. /\ t = tok => SumProjectBalances(t, balance')
                      = SumProjectBalances(t, balance) + d
      /\ t # tok => SumProjectBalances(t, balance')
                      = SumProjectBalances(t, balance)
  <2> DEFINE R(b) == /\ t = tok => SumProjectBalances(t, b)
                                   = SumProjectBalances(t, balance) + d
                     /\ t # tok => SumProjectBalances(t, b)
                                   = SumProjectBalances(t, balance)
  <2>2. ASSUME NEW bal \in [Projects -> Nat], bal = [balance EXCEPT ![p] = @ + d]
        PROVE  R(bal)
    BY <2>2, BalanceChange
  <2> HIDE DEF R
  <2>3. R(balance')
    BY <2>2
  <2> QED BY <2>3 DEF R
<1> QED BY ONLY <1>1, <1>2, <1>3, Zenon

\* The effect on the books of every action that moves money of a project: its
\* balance, the cache and the holding move by the same amount.
LEMMA BooksMove ==
  ASSUME TypeOK, BooksOk, NEW p \in Created, NEW d \in Int,
         ids' = ids, Created' = Created,
         \A q \in Created : project'[q].token = project[q].token,
         balance' \in [Projects -> Nat],
         balance' = [balance EXCEPT ![p] = @ + d],
         AdjustAccounted(project[p].token, d, balance'),
         held' = [held EXCEPT ![project[p].token] = @ + d]
  PROVE  BooksOk'
<1> DEFINE tok == project[p].token
<1>1. tok \in Tokens /\ held \in [Tokens -> Nat]
  BY DEF TypeOK, SplitProject
<1>2. ASSUME NEW t
      PROVE  /\ SumProjectBalances(t, balance)' = SumProjectBalances(t, balance')
             /\ SumProjectBalances(t, balance) \in Nat
             /\ SumProjectBalances(t, balance') \in Nat
             /\ t = tok => SumProjectBalances(t, balance')
                             = SumProjectBalances(t, balance) + d
             /\ t # tok => SumProjectBalances(t, balance')
                             = SumProjectBalances(t, balance)
  BY SumsMove DEF BooksOk
<1>3. IndexOk'
  BY DEF BooksOk, IndexOk
<1>4. AccountedMatches'
  <2> SUFFICES ASSUME NEW t \in DOMAIN accounted'
               PROVE  accounted'[t] = SumProjectBalances(t, balance)'
    BY DEF AccountedMatches
  <2>1. t \in DOMAIN accounted \cup {tok}
    BY DEF AdjustAccounted
  <2>2. CASE t # tok
    <3>1. t \in DOMAIN accounted /\ accounted'[t] = accounted[t]
      BY <2>1, <2>2 DEF AdjustAccounted
    <3>2. accounted[t] = SumProjectBalances(t, balance)
      BY <3>1 DEF BooksOk, AccountedMatches
    <3> QED BY <1>2, <2>2, <3>1, <3>2, Zenon
  <2>3. CASE t = tok /\ t \in DOMAIN accounted
    <3>1. accounted'[t] = accounted[t] + d
      BY <2>1, <2>3 DEF AdjustAccounted
    <3>2. accounted[t] = SumProjectBalances(t, balance)
      BY <2>3 DEF BooksOk, AccountedMatches
    <3> QED BY <1>2, <2>3, <3>1, <3>2, Zenon
  <2>4. CASE t = tok /\ t \notin DOMAIN accounted
    <3>1. accounted'[t] = SumProjectBalances(t, balance')
      BY <2>1, <2>4 DEF AdjustAccounted
    <3> QED BY <1>2, <3>1, Zenon
  <2> QED BY <2>2, <2>3, <2>4
<1>5. Solvent'
  <2> SUFFICES ASSUME NEW t \in Tokens
               PROVE  SumProjectBalances(t, balance)' <= held'[t]
    BY DEF Solvent
  <2>1. SumProjectBalances(t, balance) <= held[t] /\ held[t] \in Nat
    BY <1>1 DEF BooksOk, Solvent
  <2>2. CASE t = tok
    <3>1. held'[t] = held[t] + d
      BY <1>1, <2>2
    <3>2. /\ SumProjectBalances(t, balance)' = SumProjectBalances(t, balance) + d
          /\ SumProjectBalances(t, balance) \in Nat
      BY <1>2, <2>2, Zenon
    <3> QED BY ONLY <2>1, <3>1, <3>2, d \in Int
  <2>3. CASE t # tok
    <3>1. held'[t] = held[t]
      BY <1>1, <2>3
    <3>2. SumProjectBalances(t, balance)' = SumProjectBalances(t, balance)
      BY <1>2, <2>3, Zenon
    <3> QED BY <2>1, <3>1, <3>2, Zenon
  <2> QED BY <2>2, <2>3
<1> QED BY <1>3, <1>4, <1>5 DEF BooksOk

\* Steps that leave the index, the tokens and the balances alone keep the
\* books, as long as the cache is untouched and the holding covers the sums.
LEMMA BooksStay ==
  ASSUME TypeOK, BooksOk, ids' = ids, Created' = Created,
         \A q \in Created : project'[q].token = project[q].token,
         balance' = balance, accounted' = accounted,
         \A t \in Tokens : SumProjectBalances(t, balance) <= held'[t]
  PROVE  BooksOk'
<1>1. \A t : SumProjectBalances(t, balance)' = SumProjectBalances(t, balance)
  BY SameLoop
<1> QED BY <1>1 DEF BooksOk, IndexOk, AccountedMatches, Solvent
-----------------------------------------------------------------------------
(* One lemma for each kind of step *)

\* A list that passed the configured cap passes the largest cap.
LEMMA CapWidens ==
  ASSUME TypeOK, NEW c \in Seq(Collaborator), ValidCollaborators(c, maxCollaborators)
  PROVE  ValidCollaborators(c, MaxCap)
<1>1. maxCollaborators \in Int /\ maxCollaborators <= MaxCap /\ MaxCap \in Int /\ Len(c) \in Int
  BY ConfigAssumption DEF TypeOK, ConfigTypeOK
<1> QED BY <1>1 DEF ValidCollaborators

\* An owner's edit that keeps the token, the total and a sound split.
LEMMA EditKeeps ==
  ASSUME Inv, NEW p \in Created, NEW signer, NEW new \in SplitProject,
         OwnerEdits(p, signer, new), UNCHANGED <<configVars, batch>>,
         new.token = project[p].token,
         new.totalDistributed = project[p].totalDistributed,
         ValidCollaborators(new.collaborators, MaxCap)
  PROVE  Inv'
<1>1. /\ project' = [project EXCEPT ![p] = new] /\ Created' = Created
      /\ project \in [Created -> SplitProject]
  BY DEF Inv, TypeOK, OwnerEdits, Created
<1>2. /\ UNCHANGED <<ids, balance, claimed, lastClaimAmount, lastClaimEpoch,
                     claimEpoch, accounted, held, deposited, epochStart>>
  BY DEF OwnerEdits
<1>3. ASSUME NEW q \in Created
      PROVE  /\ project'[q] \in SplitProject
             /\ project'[q].token = project[q].token
             /\ project'[q].totalDistributed = project[q].totalDistributed
             /\ ValidCollaborators(project'[q].collaborators, MaxCap)
  <2>1. CASE q = p
    BY <1>1, <2>1
  <2>2. CASE q # p
    BY <1>1, <2>2 DEF Inv, SplitsSound
  <2> QED BY <2>1, <2>2
<1>4. TypeOK'
  <2>1. project' \in [Created' -> SplitProject]
    BY <1>1, <1>3
  <2>2. ConfigTypeOK'
    BY DEF Inv, TypeOK, ConfigTypeOK, configVars
  <2> QED BY <1>1, <1>2, <2>1, <2>2 DEF Inv, TypeOK
<1>5. SplitsSound'
  BY <1>1, <1>3 DEF SplitsSound
<1>6. BooksOk'
  <2>1. \A t \in Tokens : SumProjectBalances(t, balance) <= held'[t]
    BY <1>2 DEF Inv, BooksOk, Solvent
  <2> QED BY <1>1, <1>2, <1>3, <2>1, BooksStay DEF Inv
<1>7. Unfunded' /\ Conservation'
  BY <1>1, <1>2, <1>3 DEF Inv, Unfunded, Conservation
<1> QED BY <1>4, <1>5, <1>6, <1>7 DEF Inv

\* The four owner-gated edits are such edits.
LEMMA OwnerEditsKeep ==
  ASSUME Inv, UNCHANGED <<configVars, batch>>, NEW p \in Created, NEW signer \in Addresses,
         \/ \E c \in CollabLists : UpdateCollaborators(p, signer, c)
         \/ \E title \in Titles : UpdateProjectMetadata(p, signer, title)
         \/ LockProject(p, signer)
         \/ \E a \in Owners : TransferProjectOwnership(p, signer, a)
  PROVE  Inv'
<1> DEFINE pr == project[p]
<1>1. pr \in SplitProject /\ ValidCollaborators(pr.collaborators, MaxCap) /\ TypeOK
  BY DEF Inv, TypeOK, SplitsSound
<1>2. ASSUME NEW c \in CollabLists, UpdateCollaborators(p, signer, c)
      PROVE  Inv'
  <2> DEFINE new == [pr EXCEPT !.collaborators = c]
  <2>1. c \in Seq(Collaborator) /\ ValidCollaborators(c, MaxCap)
    BY <1>1, <1>2, ContractAssumption, CapWidens DEF UpdateCollaborators
  <2>2. /\ new \in SplitProject /\ new.token = pr.token
        /\ new.totalDistributed = pr.totalDistributed /\ new.collaborators = c
    BY <1>1, <2>1 DEF SplitProject
  <2>3. OwnerEdits(p, signer, new)
    BY <1>2 DEF UpdateCollaborators
  <2> HIDE DEF new
  <2> QED BY <2>1, <2>2, <2>3, EditKeeps
<1>3. ASSUME NEW title \in Titles, UpdateProjectMetadata(p, signer, title)
      PROVE  Inv'
  <2> DEFINE new == [pr EXCEPT !.title = title]
  <2>1. /\ new \in SplitProject /\ new.token = pr.token
        /\ new.totalDistributed = pr.totalDistributed
        /\ new.collaborators = pr.collaborators
    BY <1>1 DEF SplitProject
  <2>2. OwnerEdits(p, signer, new)
    BY <1>3 DEF UpdateProjectMetadata
  <2> HIDE DEF new
  <2> QED BY <1>1, <2>1, <2>2, EditKeeps
<1>4. ASSUME LockProject(p, signer) PROVE Inv'
  <2> DEFINE new == [pr EXCEPT !.locked = TRUE]
  <2>1. /\ new \in SplitProject /\ new.token = pr.token
        /\ new.totalDistributed = pr.totalDistributed
        /\ new.collaborators = pr.collaborators
    BY <1>1 DEF SplitProject
  <2>2. OwnerEdits(p, signer, new)
    BY <1>4 DEF LockProject
  <2> HIDE DEF new
  <2> QED BY <1>1, <2>1, <2>2, EditKeeps
<1>5. ASSUME NEW a \in Owners, TransferProjectOwnership(p, signer, a) PROVE Inv'
  <2> DEFINE new == [pr EXCEPT !.owner = a]
  <2>1. /\ new \in SplitProject /\ new.token = pr.token
        /\ new.totalDistributed = pr.totalDistributed
        /\ new.collaborators = pr.collaborators
    BY <1>1, ContractAssumption DEF SplitProject
  <2>2. OwnerEdits(p, signer, new)
    BY <1>5 DEF TransferProjectOwnership
  <2> HIDE DEF new
  <2> QED BY <1>1, <2>1, <2>2, EditKeeps
<1> QED BY <1>2, <1>3, <1>4, <1>5
\* A new project adds a zero to every sum.
LEMMA CreateSums ==
  ASSUME TypeOK, IndexOk, NEW p \in Projects, p \notin Created, NEW u,
         Created' = Created \cup {p}, ids' = Append(ids, p),
         balance' = [balance EXCEPT ![p] = 0],
         \A q \in Created : project'[q] = project[q] /\ q # p
  PROVE  SumProjectBalances(u, balance)' = SumProjectBalances(u, balance)
<1>0. Len(ids) \in Nat /\ ids \in Seq(Projects) /\ TypeOK /\ IndexOk
  BY DEF TypeOK
<1> DEFINE s == TokenEntries(u, balance)
           r == TokenEntries(u, balance)'
<1>1. s \in Seq(Int) /\ Len(s) = Len(ids)
  BY <1>0, EntriesType DEF TypeOK
<1>2. r = [i \in 1..Len(ids') |->
             IF ids'[i] \in Created' /\ project'[ids'[i]].token = u
             THEN balance'[ids'[i]] ELSE 0]
  BY DEF TokenEntries
<1>3. /\ Len(ids') = Len(ids) + 1 /\ ids'[Len(ids) + 1] = p
      /\ \A i \in 1..Len(ids) : ids'[i] = ids[i]
  BY <1>0
<1>4. ASSUME NEW i \in 1..Len(ids) PROVE r[i] = s[i]
  <2>1. ids[i] \in Created /\ ids[i] \in Projects
    BY <1>0 DEF IndexOk
  <2>2. /\ ids'[i] = ids[i] /\ ids[i] \in Created' /\ i \in 1..Len(ids')
        /\ project'[ids[i]] = project[ids[i]]
        /\ balance'[ids[i]] = balance[ids[i]]
    <3>1. ids'[i] = ids[i] /\ ids[i] \in Created' /\ i \in 1..Len(ids')
      BY <1>0, <1>3, <2>1
    <3>2. project'[ids[i]] = project[ids[i]] /\ ids[i] # p
      BY <2>1
    <3>3. balance \in [Projects -> Nat]
      BY <1>0 DEF TypeOK
    <3>4. balance'[ids[i]] = balance[ids[i]]
      BY ONLY balance' = [balance EXCEPT ![p] = 0], <2>1, <3>2, <3>3
    <3> QED BY <3>1, <3>2, <3>4
  <2> QED BY <2>1, <2>2 DEF TokenEntries
<1>5. r[Len(ids) + 1] = 0
  <2>1. balance'[p] = 0 /\ Len(ids) + 1 \in 1..Len(ids')
    BY <1>0, <1>3 DEF TypeOK
  <2> QED BY <1>2, <1>3, <2>1
<1> HIDE DEF r
<1>6. r \in Seq(Int) /\ Len(r) = Len(s) + 1
  <2>1. \A i \in 1..Len(ids') : r[i] \in Int
    <3> SUFFICES ASSUME NEW i \in 1..Len(ids') PROVE r[i] \in Int
      OBVIOUS
    <3>1. i \in 1..Len(ids) \/ i = Len(ids) + 1
      BY <1>0, <1>3
    <3>2. i \in 1..Len(ids) => s[i] \in Int
      BY <1>1
    <3> HIDE DEF s
    <3> QED BY <1>4, <1>5, <3>1, <3>2
  <2>2. DOMAIN r = 1..Len(ids') /\ r = [i \in 1..Len(ids') |-> r[i]]
    <3> DEFINE X(i) == IF ids'[i] \in Created' /\ project'[ids'[i]].token = u
                       THEN balance'[ids'[i]] ELSE 0
    <3>1. r = [i \in 1..Len(ids') |-> X(i)]
      BY <1>2, Zenon
    <3> HIDE DEF X
    <3> QED BY ONLY <3>1
  <2>3. Len(ids') \in Nat
    BY <1>0, <1>3
  <2> HIDE DEF s
  <2> QED BY <1>1, <1>3, <2>1, <2>2, <2>3
<1>7. SeqSum(r) = SeqSum(s) + 0
  <2>1. \A i \in 1..Len(s) : r[i] = s[i]
    BY <1>1, <1>4
  <2>2. r[Len(r)] = 0
    BY <1>1, <1>5, <1>6
  <2> HIDE DEF s
  <2>3. SeqSum(r) = SeqSum(s) + r[Len(r)]
    BY <1>1, <1>6, <2>1, SumExtend
  <2> QED BY <2>2, <2>3
<1>8. SeqSum(s) \in Int
  BY <1>1, SeqSumInt
<1>9. SumProjectBalances(u, balance)' = SeqSum(r) /\ SumProjectBalances(u, balance) = SeqSum(s)
  BY DEF SumProjectBalances, r
<1> HIDE DEF s
<1> QED BY <1>7, <1>8, <1>9

\* Creating a project.
LEMMA CreateKeeps ==
  ASSUME Inv, UNCHANGED <<configVars, batch>>, NEW owner \in Owners, NEW p \in Projects,
         NEW title \in Titles, NEW t \in Tokens, NEW c \in CollabLists,
         CreateProject(owner, p, title, t, c)
  PROVE  Inv'
<1> DEFINE new == StoredProject(t, owner, c, title)
<1>1. TypeOK /\ BooksOk /\ IndexOk /\ Len(ids) \in Nat /\ ids \in Seq(Projects)
  BY DEF Inv, TypeOK, BooksOk
<1>2. /\ p \notin Created
      /\ Created' = Created \cup {p}
      /\ ids' = Append(ids, p)
      /\ balance' = [balance EXCEPT ![p] = 0]
      /\ UNCHANGED <<claimed, lastClaimAmount, lastClaimEpoch, claimEpoch,
                     accounted, held, deposited, epochStart>>
  BY DEF CreateProject, Created
<1>3. \A q \in Created : project'[q] = project[q] /\ q # p
  BY <1>2 DEF CreateProject
<1>4. c \in Seq(Collaborator) /\ ValidCollaborators(c, MaxCap)
  BY <1>1, ContractAssumption, CapWidens DEF CreateProject
<1>5. project'[p] = new /\ new \in SplitProject
  <2>1. new \in SplitProject
    BY <1>4, ContractAssumption DEF StoredProject, SplitProject
  <2> QED BY <1>2, <2>1 DEF CreateProject
<1>6. TypeOK'
  <2>1. project' \in [Created' -> SplitProject]
    <3>1. project' = [q \in Created' |-> project'[q]]
      BY <1>2 DEF CreateProject
    <3>2. \A q \in Created' : project'[q] \in SplitProject
      BY <1>1, <1>2, <1>3, <1>5 DEF TypeOK
    <3> QED BY <3>1, <3>2
  <2>2. ConfigTypeOK'
    BY <1>1 DEF TypeOK, ConfigTypeOK, configVars
  <2>3. ids' \in Seq(Projects) /\ Created' \in SUBSET Projects
    BY <1>1, <1>2 DEF TypeOK
  <2>4. balance' \in [Projects -> Nat]
    BY <1>1, <1>2 DEF TypeOK
  <2> QED BY <1>1, <1>2, <2>1, <2>2, <2>3, <2>4 DEF TypeOK
<1>7. SplitsSound'
  <2>1. new.collaborators = c
    BY DEF StoredProject
  <2> HIDE DEF new
  <2> QED BY <1>2, <1>3, <1>4, <1>5, <2>1 DEF Inv, SplitsSound
<1>8. Unfunded' /\ Conservation'
  <2>1. new.totalDistributed = 0
    BY DEF StoredProject
  <2>2. deposited[p] = 0 /\ balance'[p] = 0
    BY <1>1, <1>2 DEF Inv, Unfunded, TypeOK
  <2>3. \A q \in Created : balance'[q] = balance[q]
    BY <1>1, <1>2, <1>3 DEF TypeOK
  <2> HIDE DEF new
  <2> QED BY <1>2, <1>3, <1>5, <2>1, <2>2, <2>3 DEF Inv, Unfunded, Conservation
<1>9. IndexOk'
  <2>1. Len(ids') = Len(ids) + 1 /\ ids'[Len(ids) + 1] = p
    BY <1>1, <1>2
  <2>2. \A i \in 1..Len(ids) : ids'[i] = ids[i] /\ ids[i] # p /\ ids[i] \in Projects
    BY <1>1, <1>2 DEF IndexOk
  <2>3. \A i \in 1..Len(ids') : i \in 1..Len(ids) \/ i = Len(ids) + 1
    BY <1>1, <2>1
  <2>4. \A i, j \in 1..Len(ids') : ids'[i] = ids'[j] => i = j
    BY <1>1, <2>1, <2>2, <2>3 DEF IndexOk
  <2>5. \A q \in Projects : q \in Created' <=> \E i \in 1..Len(ids') : ids'[i] = q
    <3> SUFFICES ASSUME NEW q \in Projects
                 PROVE  q \in Created' <=> \E i \in 1..Len(ids') : ids'[i] = q
      OBVIOUS
    <3>1. CASE q = p
      BY <1>1, <1>2, <2>1, <3>1
    <3>2. CASE q # p
      <4>1. q \in Created' <=> \E i \in 1..Len(ids) : ids[i] = q
        BY <1>1, <1>2, <3>2 DEF IndexOk
      <4>2. \A i \in 1..Len(ids) : i \in 1..Len(ids')
        BY <1>1, <2>1
      <4> QED BY <2>1, <2>2, <2>3, <3>2, <4>1, <4>2, Zenon
    <3> QED BY <3>1, <3>2
  <2> QED BY <2>4, <2>5 DEF IndexOk
<1>10. ASSUME NEW u
       PROVE  SumProjectBalances(u, balance)' = SumProjectBalances(u, balance)
  BY <1>1, <1>2, <1>3, CreateSums
<1>11. AccountedMatches' /\ Solvent'
  BY <1>1, <1>2, <1>10 DEF BooksOk, AccountedMatches, Solvent
<1> QED BY <1>6, <1>7, <1>8, <1>9, <1>11 DEF Inv, BooksOk
\* What a payout records for one account is a natural number.
LEMMA PaidToNat ==
  ASSUME NEW c \in Seq(Collaborator), NEW b \in Nat, ValidCollaborators(c, MaxCap), NEW a
  PROVE  PaidTo(c, b, a) \in Nat
<1> DEFINE X(i) == IF c[i].address = a /\ Payouts(c, b)[i] > 0 THEN Payouts(c, b)[i] ELSE 0
<1>1. Payouts(c, b) \in Seq(Nat) /\ Len(Payouts(c, b)) = Len(c) /\ Len(c) \in Nat
  BY DistributionIsExact, ConfigAssumption
<1>2. \A i \in 1..Len(c) : Payouts(c, b)[i] \in Nat
  BY <1>1
<1>3. \A i \in 1..Len(c) : X(i) \in Nat
  BY <1>2
<1>4. PaidTo(c, b, a) = SeqSum([i \in 1..Len(c) |-> X(i)])
  BY DEF PaidTo
<1> HIDE DEF X
<1>5. [i \in 1..Len(c) |-> X(i)] \in Seq(Nat)
  BY <1>1, <1>3
<1> QED BY <1>4, <1>5, SumOfNats

\* One collaborator's share never exceeds the balance it is taken from.
LEMMA ShareWithinBalance ==
  ASSUME NEW c \in Seq(Collaborator), NEW b \in Nat, ValidCollaborators(c, MaxCap),
         NEW i \in 1..Len(c)
  PROVE  Share(b, c[i].bps) \in Nat /\ Share(b, c[i].bps) <= b
<1> DEFINE n == c[i].bps
           f == Share(b, n)
<1>1. Len(c) \in Nat /\ Len(c) >= 1 /\ SeqSum(Bps(c)) = TotalBps
  BY DEF ValidCollaborators
<1>2. Bps(c) \in Seq(Nat) /\ Len(Bps(c)) = Len(c) /\ Bps(c)[i] = n /\ n \in Nat
  BY <1>1, SplitTypes
<1>3. n <= TotalBps
  BY <1>1, <1>2, SumOfNats
<1>4. f \in Nat /\ f * TotalBps <= b * n
  BY <1>2, ShareBounds
<1> HIDE DEF n, f
<1>5. b * n <= b * TotalBps
  <2>1. PICK k \in Nat : TotalBps = n + k
    <3>1. TotalBps - n \in Nat /\ TotalBps = n + (TotalBps - n)
      BY <1>2, <1>3, TotalBpsAssumption
    <3> QED BY <3>1
  <2>2. b * TotalBps = b * n + b * k
    BY <1>2, <2>1, Distributes
  <2>3. b * n \in Nat /\ b * k \in Nat
    BY <1>2, <2>1, MulNat
  <2> QED BY <2>2, <2>3
<1>6. f * TotalBps <= b * TotalBps
  <2>1. f * TotalBps \in Nat /\ b * n \in Nat /\ b * TotalBps \in Nat
    BY <1>2, <1>4, MulNat, TotalBpsAssumption
  <2> QED BY <1>4, <1>5, <2>1
<1>7. f <= b
  BY <1>4, <1>6, Cancels, TotalBpsAssumption
<1> QED BY <1>4, <1>7 DEF n, f

\* The cache stays a function to integers.
LEMMA AccountedType ==
  ASSUME TypeOK, NEW t \in Tokens, NEW d \in Int, NEW bal \in [Projects -> Nat],
         AdjustAccounted(t, d, bal)
  PROVE  /\ DOMAIN accounted' \in SUBSET Tokens
         /\ accounted' \in [DOMAIN accounted' -> Int]
<1>1. SumProjectBalances(t, bal) \in Int
  BY EntriesType
<1>2. DOMAIN accounted' = DOMAIN accounted \cup {t}
  BY DEF AdjustAccounted
<1>3. ASSUME NEW u \in DOMAIN accounted' PROVE accounted'[u] \in Int
  <2>1. CASE u # t
    <3>1. u \in DOMAIN accounted /\ accounted'[u] = accounted[u]
      BY <1>2, <2>1 DEF AdjustAccounted
    <3> QED BY <3>1 DEF TypeOK
  <2>2. CASE u = t /\ t \in DOMAIN accounted
    <3>1. accounted'[u] = accounted[t] + d
      BY <1>2, <2>2 DEF AdjustAccounted
    <3> QED BY <2>2, <3>1 DEF TypeOK
  <2>3. CASE u = t /\ t \notin DOMAIN accounted
    <3>1. accounted'[u] = SumProjectBalances(t, bal)
      BY <1>2, <2>3 DEF AdjustAccounted
    <3> QED BY <1>1, <3>1
  <2> QED BY <2>1, <2>2, <2>3
<1>4. accounted' = [u \in DOMAIN accounted' |-> accounted'[u]]
  <2> DEFINE X(u) == IF u # t THEN accounted[u]
                     ELSE IF t \in DOMAIN accounted THEN accounted[t] + d
                          ELSE SumProjectBalances(t, bal)
  <2>1. accounted' = [u \in DOMAIN accounted \cup {t} |-> X(u)]
    BY DEF AdjustAccounted
  <2> HIDE DEF X
  <2> QED BY ONLY <2>1
<1> QED BY <1>2, <1>3, <1>4 DEF TypeOK

\* The parts of a stored project.
LEMMA ProjectTypes ==
  ASSUME TypeOK, NEW p \in Created
  PROVE  /\ p \in Projects
         /\ project[p] \in SplitProject
         /\ project[p].token \in Tokens
         /\ project[p].collaborators \in Seq(Collaborator)
         /\ project[p].totalDistributed \in Nat
         /\ project[p].distributionRound \in Nat
         /\ balance[p] \in Nat
<1>1. p \in Projects /\ project[p] \in SplitProject
  BY DEF TypeOK
<1>2. balance[p] \in Nat
  BY <1>1 DEF TypeOK
<1> QED BY <1>1, <1>2 DEF SplitProject

\* What a deposit writes.
LEMMA DepositEffect ==
  ASSUME NEW p, NEW n, Deposit(p, n)
  PROVE  /\ n > 0
         /\ balance' = [balance EXCEPT ![p] = @ + n]
         /\ held' = [held EXCEPT ![project[p].token] = @ + n]
         /\ AdjustAccounted(project[p].token, n, balance')
         /\ claimEpoch' = [claimEpoch EXCEPT ![p] = @ + 1]
         /\ epochStart' = [epochStart EXCEPT ![p] = balance'[p]]
         /\ deposited' = [deposited EXCEPT ![p] = @ + n]
         /\ UNCHANGED <<ids, project, claimed, lastClaimAmount, lastClaimEpoch>>
<1> DEFINE t == project[p].token
           bal == [balance EXCEPT ![p] = @ + n]
<1>1. /\ n > 0 /\ balance' = bal /\ TransferIn(t, n) /\ AdjustAccounted(t, n, bal)
      /\ BumpClaimEpoch(p, bal[p])
      /\ deposited' = [deposited EXCEPT ![p] = @ + n]
      /\ UNCHANGED <<ids, project, claimed, lastClaimAmount, lastClaimEpoch>>
  BY DEF Deposit
<1> HIDE DEF bal
<1>2. AdjustAccounted(t, n, balance') /\ BumpClaimEpoch(p, balance'[p])
  BY <1>1, Zenon
<1>3. balance' = [balance EXCEPT ![p] = @ + n]
  BY <1>1 DEF bal
<1> QED BY <1>1, <1>2, <1>3 DEF TransferIn, BumpClaimEpoch

\* Funding a project.
LEMMA DepositKeeps ==
  ASSUME Inv, UNCHANGED <<configVars, batch>>, NEW p \in Created, NEW n \in Amounts,
         Deposit(p, n)
  PROVE  Inv'
<1> DEFINE t == project[p].token
<1>1. TypeOK /\ BooksOk /\ n \in Nat /\ n \in Int /\ p \in Projects /\ t \in Tokens
  <2>1. TypeOK /\ BooksOk
    BY DEF Inv
  <2>2. n \in Nat
    BY ContractAssumption
  <2> QED BY <2>1, <2>2, ProjectTypes
<1>2. /\ balance' = [balance EXCEPT ![p] = @ + n]
      /\ held' = [held EXCEPT ![t] = @ + n]
      /\ AdjustAccounted(t, n, balance')
      /\ claimEpoch' = [claimEpoch EXCEPT ![p] = @ + 1]
      /\ epochStart' = [epochStart EXCEPT ![p] = balance'[p]]
      /\ deposited' = [deposited EXCEPT ![p] = @ + n]
      /\ UNCHANGED <<ids, project, claimed, lastClaimAmount, lastClaimEpoch>>
  BY DepositEffect
<1>3. /\ balance' \in [Projects -> Nat] /\ held' \in [Tokens -> Nat]
      /\ claimEpoch' \in [Projects -> Nat] /\ deposited' \in [Projects -> Nat]
      /\ epochStart' \in [Projects -> Nat]
  <2>1. balance' \in [Projects -> Nat] /\ held' \in [Tokens -> Nat]
    BY <1>1, <1>2 DEF TypeOK
  <2>2. claimEpoch' \in [Projects -> Nat] /\ deposited' \in [Projects -> Nat]
    <3>1. claimEpoch \in [Projects -> Nat] /\ deposited \in [Projects -> Nat]
      BY <1>1 DEF TypeOK
    <3>2. claimEpoch' \in [Projects -> Nat]
      BY ONLY <1>1, <1>2, <3>1
    <3>3. deposited' \in [Projects -> Nat]
      BY ONLY <1>1, <1>2, <3>1
    <3> QED BY <3>2, <3>3
  <2>3. epochStart' \in [Projects -> Nat]
    <3>1. epochStart \in [Projects -> Nat] /\ balance'[p] \in Nat
      BY <1>1, <2>1 DEF TypeOK
    <3> QED BY ONLY <1>2, <3>1
  <2> QED BY <2>1, <2>2, <2>3
<1>4. TypeOK'
  <2>1. DOMAIN accounted' \in SUBSET Tokens /\ accounted' \in [DOMAIN accounted' -> Int]
    BY <1>1, <1>2, <1>3, AccountedType
  <2>2. ConfigTypeOK'
    BY <1>1 DEF TypeOK, ConfigTypeOK, configVars
  <2> QED BY <1>1, <1>2, <1>3, <2>1, <2>2 DEF TypeOK, Created
<1>5. SplitsSound'
  BY <1>2 DEF Inv, SplitsSound, Created
<1>6. BooksOk'
  <2>1. Created' = Created /\ \A q \in Created : project'[q].token = project[q].token
    BY <1>2 DEF Created
  <2> QED BY <1>1, <1>2, <1>3, <2>1, BooksMove
<1>7. Unfunded' /\ Conservation'
  <2>1. /\ project' = project /\ Created' = Created
        /\ \A q \in Created : q \in Projects /\ project[q].totalDistributed \in Nat
    BY <1>1, <1>2, ProjectTypes DEF Created
  <2>2. \A q \in Projects : q # p => deposited'[q] = deposited[q] /\ balance'[q] = balance[q]
    BY <1>1, <1>2 DEF TypeOK
  <2>3. deposited'[p] = deposited[p] + n /\ balance'[p] = balance[p] + n
    BY <1>1, <1>2 DEF TypeOK
  <2>4. deposited[p] \in Nat /\ balance[p] \in Nat
    BY <1>1 DEF TypeOK
  <2>5. Unfunded'
    BY <2>1, <2>2 DEF Inv, Unfunded
  <2>6. ASSUME NEW q \in Created
        PROVE  deposited'[q] = balance'[q] + project[q].totalDistributed
    <3>1. deposited[q] = balance[q] + project[q].totalDistributed
      BY DEF Inv, Conservation
    <3>2. CASE q # p
      BY <2>1, <2>2, <3>1, <3>2
    <3>3. CASE q = p
      BY <1>1, <2>1, <2>3, <2>4, <3>1, <3>3
    <3> QED BY <3>2, <3>3
  <2> QED BY <2>1, <2>5, <2>6 DEF Conservation
<1> QED BY <1>4, <1>5, <1>6, <1>7 DEF Inv
\* A payment of n out of a project, whoever receives it.
LEMMA PaymentKeeps ==
  ASSUME Inv, UNCHANGED configVars, batch' \in Seq(Projects),
         NEW p \in Created, NEW n \in Nat, n <= balance[p],
         balance' = [balance EXCEPT ![p] = @ - n],
         AdjustAccounted(project[p].token, -n, balance'),
         TransferOut(project[p].token, n),
         NEW new \in SplitProject, project' = [project EXCEPT ![p] = new],
         new.token = project[p].token,
         new.collaborators = project[p].collaborators,
         new.totalDistributed = project[p].totalDistributed + n,
         UNCHANGED <<ids, deposited>>,
         claimed' \in [Projects -> [Addresses -> Nat]],
         lastClaimAmount' \in [Projects -> [Addresses -> Nat]],
         lastClaimEpoch' \in [Projects -> [Addresses -> Nat \cup {NoEpoch}]],
         claimEpoch' \in [Projects -> Nat],
         epochStart' \in [Projects -> Nat]
  PROVE  Inv'
<1> DEFINE t == project[p].token
<1>1. TypeOK /\ BooksOk /\ p \in Projects /\ t \in Tokens /\ balance[p] \in Nat
  BY ProjectTypes DEF Inv
<1>2. /\ Created' = Created
      /\ project'[p] = new
      /\ \A q \in Created : q # p => project'[q] = project[q]
      /\ project' \in [Created -> SplitProject]
  BY <1>1 DEF TypeOK, Created
<1>3. balance' \in [Projects -> Nat]
  <2>1. balance[p] - n \in Nat
    BY <1>1
  <2> QED BY <1>1, <2>1 DEF TypeOK
<1>4. n <= held[t] /\ held' = [held EXCEPT ![t] = @ - n] /\ held' \in [Tokens -> Nat]
  <2>1. n <= held[t] /\ held' = [held EXCEPT ![t] = @ - n]
    BY DEF TransferOut
  <2>2. held \in [Tokens -> Nat] /\ held[t] - n \in Nat
    BY <1>1, <2>1 DEF TypeOK
  <2> QED BY <2>1, <2>2
<1>5. TypeOK'
  <2>1. DOMAIN accounted' \in SUBSET Tokens /\ accounted' \in [DOMAIN accounted' -> Int]
    <3>1. -n \in Int
      OBVIOUS
    <3> QED BY <1>1, <1>3, <3>1, AccountedType
  <2>2. ConfigTypeOK'
    BY <1>1 DEF TypeOK, ConfigTypeOK, configVars
  <2> QED BY <1>1, <1>2, <1>3, <1>4, <2>1, <2>2 DEF TypeOK
<1>6. SplitsSound'
  BY <1>2 DEF Inv, SplitsSound
<1>7. BooksOk'
  <2> DEFINE d == -n
  <2>1. d \in Int /\ \A x \in Int : x + d = x - n
    OBVIOUS
  <2>2. balance' = [balance EXCEPT ![p] = @ + d] /\ held' = [held EXCEPT ![t] = @ + d]
    <3>1. balance[p] - n = balance[p] + d /\ held[t] - n = held[t] + d
      BY <1>1 DEF TypeOK
    <3> QED BY <1>4, <3>1, Zenon
  <2>3. AdjustAccounted(t, d, balance')
    OBVIOUS
  <2>4. \A q \in Created : project'[q].token = project[q].token
    BY <1>2
  <2> HIDE DEF d
  <2> QED BY <1>1, <1>2, <1>3, <2>1, <2>2, <2>3, <2>4, BooksMove
<1>8. Unfunded' /\ Conservation'
  <2>1. Unfunded'
    BY <1>2 DEF Inv, Unfunded
  <2>2. ASSUME NEW q \in Created
        PROVE  deposited[q] = balance'[q] + project'[q].totalDistributed
    <3>1. deposited[q] = balance[q] + project[q].totalDistributed
      BY DEF Inv, Conservation
    <3>2. q \in Projects /\ project[q].totalDistributed \in Nat /\ balance[q] \in Nat
      BY <1>1, ProjectTypes
    <3>3. CASE q # p
      <4>1. balance'[q] = balance[q]
        BY <1>1, <3>2, <3>3 DEF TypeOK
      <4> QED BY <1>2, <3>1, <3>3, <4>1
    <3>4. CASE q = p
      <4>1. balance'[p] = balance[p] - n
        BY <1>1 DEF TypeOK
      <4> QED BY <1>2, <3>1, <3>2, <3>4, <4>1
    <3> QED BY <3>3, <3>4
  <2> QED BY <1>2, <2>1, <2>2 DEF Conservation
<1> QED BY <1>5, <1>6, <1>7, <1>8 DEF Inv

\* What a distribution round writes: the whole balance leaves the project.
LEMMA DistributeEffect ==
  ASSUME Inv, NEW p, DistributeItem(p)
  PROVE  /\ p \in Created /\ TypeOK
         /\ p \in Projects /\ project[p] \in SplitProject
         /\ project[p].collaborators \in Seq(Collaborator)
         /\ ValidCollaborators(project[p].collaborators, MaxCap)
         /\ balance[p] \in Nat /\ balance[p] > 0
         /\ TransferOut(project[p].token, balance[p])
         /\ claimed' = [claimed EXCEPT ![p] = [a \in Addresses |->
                          claimed[p][a] + PaidTo(project[p].collaborators, balance[p], a)]]
         /\ balance' = [balance EXCEPT ![p] = @ - balance[p]]
         /\ AdjustAccounted(project[p].token, -balance[p], balance')
         /\ claimEpoch' = [claimEpoch EXCEPT ![p] = @ + 1]
         /\ epochStart' = [epochStart EXCEPT ![p] = balance'[p]]
         /\ \E new \in SplitProject :
              /\ project' = [project EXCEPT ![p] = new]
              /\ new.token = project[p].token
              /\ new.collaborators = project[p].collaborators
              /\ new.totalDistributed = project[p].totalDistributed + balance[p]
              /\ new.distributionRound = project[p].distributionRound + 1
         /\ UNCHANGED <<ids, lastClaimAmount, lastClaimEpoch, deposited>>
<1> DEFINE c == project[p].collaborators
           t == project[p].token
           b == balance[p]
           k == project[p].totalDistributed + b
           m == project[p].distributionRound + 1
           new == [project[p] EXCEPT !.totalDistributed = k, !.distributionRound = m]
<1>1. p \in Created /\ TypeOK /\ b > 0
  BY DEF DistributeItem, Distributable, Inv
<1>2. /\ p \in Projects /\ project[p] \in SplitProject /\ c \in Seq(Collaborator)
      /\ project[p].totalDistributed \in Nat /\ project[p].distributionRound \in Nat
      /\ b \in Nat
  BY <1>1, ProjectTypes
<1>3. ValidCollaborators(c, MaxCap)
  BY <1>1 DEF Inv, SplitsSound
<1>4. TotalSent(c, b) = b
  BY <1>2, <1>3, DistributionIsExact, ConfigAssumption
<1>5. /\ TransferOut(t, b)
      /\ claimed' = [claimed EXCEPT ![p] = [a \in Addresses |-> claimed[p][a] + PaidTo(c, b, a)]]
      /\ balance' = [balance EXCEPT ![p] = @ - b]
      /\ AdjustAccounted(t, -b, balance')
      /\ claimEpoch' = [claimEpoch EXCEPT ![p] = @ + 1]
      /\ epochStart' = [epochStart EXCEPT ![p] = balance'[p]]
      /\ project' = [project EXCEPT ![p].totalDistributed = k,
                                    ![p].distributionRound = @ + 1]
      /\ UNCHANGED <<ids, lastClaimAmount, lastClaimEpoch, deposited>>
  <2> DEFINE sent == TotalSent(c, b)
             bal == [balance EXCEPT ![p] = @ - sent]
  <2>1. /\ TransferOut(t, sent)
        /\ claimed' = [claimed EXCEPT ![p] = [a \in Addresses |-> @[a] + PaidTo(c, b, a)]]
        /\ balance' = bal
        /\ AdjustAccounted(t, -sent, bal)
        /\ BumpClaimEpoch(p, bal[p])
        /\ project' = [project EXCEPT ![p].totalDistributed = project[p].totalDistributed + sent,
                                      ![p].distributionRound = @ + 1]
        /\ UNCHANGED <<ids, lastClaimAmount, lastClaimEpoch, deposited>>
    BY DEF DistributeItem, Spent, Counted
  <2>2. balance' = [balance EXCEPT ![p] = @ - sent] /\ sent = b
    BY <1>4, <2>1
  <2>3. claimed' = [claimed EXCEPT ![p] = [a \in Addresses |-> claimed[p][a] + PaidTo(c, b, a)]]
    BY <2>1
  <2> HIDE DEF bal, sent, c, t, b
  <2>4. AdjustAccounted(t, -b, balance') /\ BumpClaimEpoch(p, balance'[p])
    BY <2>1, <2>2, Zenon
  <2>5. TransferOut(t, b) /\ balance' = [balance EXCEPT ![p] = @ - b]
    BY <2>1, <2>2, Zenon
  <2>6. project' = [project EXCEPT ![p].totalDistributed = k,
                                   ![p].distributionRound = @ + 1]
    BY <2>1, <2>2, Zenon
  <2> QED BY <2>1, <2>3, <2>4, <2>5, <2>6 DEF BumpClaimEpoch
<1>6. /\ new \in SplitProject /\ new.token = t /\ new.collaborators = c
      /\ new.totalDistributed = k /\ new.distributionRound = m
  <2>1. k \in Nat /\ m \in Nat
    BY <1>2
  <2> HIDE DEF k, m
  <2> QED BY <1>2, <2>1 DEF SplitProject
<1>7. project' = [project EXCEPT ![p] = new]
  <2>1. project \in [Created -> SplitProject]
    BY <1>1 DEF TypeOK
  <2> HIDE DEF k
  <2> QED BY ONLY <1>1, <1>5, <2>1 DEF new, m
<1> HIDE DEF new
<1> QED BY <1>1, <1>2, <1>3, <1>5, <1>6, <1>7

\* A distribution round is a payment of the whole balance.
LEMMA DistributeKeeps ==
  ASSUME Inv, UNCHANGED configVars, batch' \in Seq(Projects), NEW p, DistributeItem(p)
  PROVE  Inv'
<1> DEFINE c == project[p].collaborators
           t == project[p].token
           b == balance[p]
<1>1. p \in Created /\ TypeOK
  BY DistributeEffect
<1>2. /\ p \in Projects /\ project[p] \in SplitProject /\ c \in Seq(Collaborator)
      /\ b \in Nat /\ ValidCollaborators(c, MaxCap)
  BY DistributeEffect
<1>5. /\ TransferOut(t, b)
      /\ claimed' = [claimed EXCEPT ![p] = [a \in Addresses |-> claimed[p][a] + PaidTo(c, b, a)]]
      /\ balance' = [balance EXCEPT ![p] = @ - b]
      /\ AdjustAccounted(t, -b, balance')
      /\ claimEpoch' = [claimEpoch EXCEPT ![p] = @ + 1]
      /\ epochStart' = [epochStart EXCEPT ![p] = balance'[p]]
      /\ UNCHANGED <<ids, lastClaimAmount, lastClaimEpoch, deposited>>
  BY DistributeEffect
<1>6. PICK new \in SplitProject :
        /\ project' = [project EXCEPT ![p] = new]
        /\ new.token = t /\ new.collaborators = c
        /\ new.totalDistributed = project[p].totalDistributed + b
  BY DistributeEffect
<1>8. claimed' \in [Projects -> [Addresses -> Nat]]
  <2>1. \A a \in Addresses : PaidTo(c, b, a) \in Nat
    BY <1>2, PaidToNat
  <2>2. claimed \in [Projects -> [Addresses -> Nat]]
    BY <1>1 DEF TypeOK
  <2>3. [a \in Addresses |-> claimed[p][a] + PaidTo(c, b, a)] \in [Addresses -> Nat]
    BY <1>2, <2>1, <2>2
  <2> DEFINE row == [a \in Addresses |-> claimed[p][a] + PaidTo(c, b, a)]
  <2>4. claimed' = [claimed EXCEPT ![p] = row]
    BY <1>5
  <2> HIDE DEF row
  <2>5. row \in [Addresses -> Nat]
    BY <2>3 DEF row
  <2> QED BY <2>2, <2>4, <2>5
<1>9. balance' \in [Projects -> Nat]
  <2>1. b - b \in Nat
    BY <1>2
  <2> QED BY <1>1, <1>5, <2>1 DEF TypeOK
<1>10. /\ claimEpoch' \in [Projects -> Nat]
       /\ lastClaimAmount' \in [Projects -> [Addresses -> Nat]]
       /\ lastClaimEpoch' \in [Projects -> [Addresses -> Nat \cup {NoEpoch}]]
  BY <1>1, <1>5 DEF TypeOK
<1>11. epochStart' \in [Projects -> Nat]
  <2>1. epochStart \in [Projects -> Nat] /\ balance'[p] \in Nat
    BY <1>1, <1>2, <1>9 DEF TypeOK
  <2> QED BY ONLY <1>5, <2>1
<1>12. b <= balance[p]
  BY <1>2
<1> QED BY <1>1, <1>2, <1>5, <1>6, <1>8, <1>9, <1>10, <1>11, <1>12, PaymentKeeps

\* What a claim writes.
LEMMA ClaimEffect ==
  ASSUME Inv, NEW p \in Created, NEW a \in Addresses,
         NEW i \in 1..Len(project[p].collaborators), Claim(p, a, i)
  PROVE  \E amount \in Nat, new \in SplitProject :
           /\ amount > 0 /\ amount <= balance[p]
           /\ lastClaimEpoch[p][a] # claimEpoch[p]
           /\ balance' = [balance EXCEPT ![p] = @ - amount]
           /\ AdjustAccounted(project[p].token, -amount, balance')
           /\ claimed' = [claimed EXCEPT ![p][a] = @ + amount]
           /\ lastClaimAmount' = [lastClaimAmount EXCEPT ![p][a] = amount]
           /\ lastClaimEpoch' = [lastClaimEpoch EXCEPT ![p][a] = claimEpoch[p]]
           /\ TransferOut(project[p].token, amount)
           /\ UNCHANGED <<ids, claimEpoch, deposited, epochStart>>
           /\ project' = [project EXCEPT ![p] = new]
           /\ new.token = project[p].token
           /\ new.collaborators = project[p].collaborators
           /\ new.totalDistributed = project[p].totalDistributed + amount
           /\ new.distributionRound = project[p].distributionRound
<1> DEFINE c == project[p].collaborators
           t == project[p].token
           amount == Share(balance[p], c[i].bps)
           k == project[p].totalDistributed + amount
           new == [project[p] EXCEPT !.totalDistributed = k]
<1>1. TypeOK
  BY DEF Inv, TypeOK
<1>2. /\ p \in Projects /\ project[p] \in SplitProject /\ c \in Seq(Collaborator)
      /\ project[p].totalDistributed \in Nat /\ balance[p] \in Nat
  BY <1>1, ProjectTypes
<1>3. ValidCollaborators(c, MaxCap)
  BY DEF Inv, SplitsSound
<1>4. amount \in Nat /\ amount <= balance[p]
  BY <1>2, <1>3, ShareWithinBalance
<1>5. /\ amount > 0 /\ lastClaimEpoch[p][a] # claimEpoch[p]
      /\ balance' = [balance EXCEPT ![p] = @ - amount]
      /\ AdjustAccounted(t, -amount, balance')
      /\ project' = [project EXCEPT ![p].totalDistributed = @ + amount]
      /\ claimed' = [claimed EXCEPT ![p][a] = @ + amount]
      /\ lastClaimAmount' = [lastClaimAmount EXCEPT ![p][a] = amount]
      /\ lastClaimEpoch' = [lastClaimEpoch EXCEPT ![p][a] = claimEpoch[p]]
      /\ TransferOut(t, amount)
      /\ UNCHANGED <<ids, claimEpoch, deposited, epochStart>>
  <2> DEFINE bal == [balance EXCEPT ![p] = @ - amount]
  <2>1. /\ amount > 0 /\ lastClaimEpoch[p][a] # claimEpoch[p]
        /\ balance' = bal
        /\ AdjustAccounted(t, -amount, bal)
        /\ project' = [project EXCEPT ![p].totalDistributed = @ + amount]
        /\ claimed' = [claimed EXCEPT ![p][a] = @ + amount]
        /\ lastClaimAmount' = [lastClaimAmount EXCEPT ![p][a] = amount]
        /\ lastClaimEpoch' = [lastClaimEpoch EXCEPT ![p][a] = claimEpoch[p]]
        /\ TransferOut(t, amount)
        /\ UNCHANGED <<ids, claimEpoch, deposited, epochStart>>
    BY DEF Claim, ClaimOpen, Spent, Counted
  <2>2. balance' = [balance EXCEPT ![p] = @ - amount]
    BY <2>1
  <2> HIDE DEF bal, amount, t
  <2>3. AdjustAccounted(t, -amount, balance')
    BY <2>1, Zenon
  <2> QED BY <2>1, <2>2, <2>3
<1> HIDE DEF amount
<1>6. /\ new \in SplitProject /\ new.token = t /\ new.collaborators = c
      /\ new.totalDistributed = k
      /\ new.distributionRound = project[p].distributionRound
  <2>1. k \in Nat
    BY <1>2, <1>4
  <2> HIDE DEF k
  <2> QED BY <1>2, <2>1 DEF SplitProject
<1>7. project' = [project EXCEPT ![p] = new]
  <2>1. project \in [Created -> SplitProject]
    BY <1>1 DEF TypeOK
  <2> QED BY ONLY <1>5, <2>1 DEF new
<1> HIDE DEF new
<1> QED BY <1>4, <1>5, <1>6, <1>7

\* A claim is a payment of one collaborator's share.
LEMMA ClaimKeeps ==
  ASSUME Inv, UNCHANGED <<configVars, batch>>, NEW p \in Created, NEW a \in Addresses,
         NEW i \in 1..Len(project[p].collaborators), Claim(p, a, i)
  PROVE  Inv'
<1> DEFINE t == project[p].token
<1>1. TypeOK /\ batch' \in Seq(Projects) /\ p \in Projects /\ UNCHANGED configVars
  BY ProjectTypes DEF Inv, TypeOK
<1>2. PICK amount \in Nat, new \in SplitProject :
        /\ amount <= balance[p]
        /\ balance' = [balance EXCEPT ![p] = @ - amount]
        /\ AdjustAccounted(t, -amount, balance')
        /\ claimed' = [claimed EXCEPT ![p][a] = @ + amount]
        /\ lastClaimAmount' = [lastClaimAmount EXCEPT ![p][a] = amount]
        /\ lastClaimEpoch' = [lastClaimEpoch EXCEPT ![p][a] = claimEpoch[p]]
        /\ TransferOut(t, amount)
        /\ UNCHANGED <<ids, claimEpoch, deposited, epochStart>>
        /\ project' = [project EXCEPT ![p] = new]
        /\ new.token = t /\ new.collaborators = project[p].collaborators
        /\ new.totalDistributed = project[p].totalDistributed + amount
  BY ClaimEffect
<1>8. claimed' \in [Projects -> [Addresses -> Nat]]
  <2>1. claimed \in [Projects -> [Addresses -> Nat]]
    BY <1>1 DEF TypeOK
  <2>2. claimed[p] \in [Addresses -> Nat] /\ claimed[p][a] + amount \in Nat
    BY <1>1, <2>1
  <2> QED BY <1>2, <2>1, <2>2
<1>9. /\ lastClaimAmount' \in [Projects -> [Addresses -> Nat]]
      /\ lastClaimEpoch' \in [Projects -> [Addresses -> Nat \cup {NoEpoch}]]
      /\ claimEpoch' \in [Projects -> Nat] /\ epochStart' \in [Projects -> Nat]
  <2>1. claimEpoch[p] \in Nat
    BY <1>1 DEF TypeOK
  <2> QED BY <1>1, <1>2, <2>1 DEF TypeOK
<1> QED BY <1>1, <1>2, <1>8, <1>9, PaymentKeeps

\* Tokens that arrive without a call, and tokens the admin recovers, leave the
\* projects' sums covered.
LEMMA HoldingKeeps ==
  ASSUME Inv, UNCHANGED <<configVars, batch>>, NEW t \in Tokens, NEW n \in Amounts,
         \/ \E signer \in Addresses : WithdrawUnallocated(signer, t, n)
         \/ DirectTransfer(t, n)
  PROVE  Inv'
<1>1. TypeOK /\ BooksOk /\ n \in Nat /\ held \in [Tokens -> Nat]
  BY ContractAssumption DEF Inv, TypeOK
<1>2. UNCHANGED <<ids, project, balance, claimed, lastClaimAmount, lastClaimEpoch,
                  claimEpoch, accounted, deposited, epochStart>>
  BY DEF WithdrawUnallocated, DirectTransfer
<1>3. /\ SumProjectBalances(t, balance) \in Nat
      /\ \A u \in Tokens : SumProjectBalances(u, balance) <= held[u]
  BY <1>1, EntriesType DEF TypeOK, BooksOk, Solvent
<1>4. /\ held' \in [Tokens -> Nat]
      /\ \A u \in Tokens : SumProjectBalances(u, balance) <= held'[u]
  <2>1. CASE DirectTransfer(t, n)
    <3>1. held' = [held EXCEPT ![t] = @ + n]
      BY <2>1 DEF DirectTransfer, TransferIn
    <3>2. held' \in [Tokens -> Nat] /\ held'[t] = held[t] + n
      BY <1>1, <3>1
    <3>3. \A u \in Tokens : u # t => held'[u] = held[u]
      BY <1>1, <3>1
    <3>4. SumProjectBalances(t, balance) <= held'[t]
      BY <1>1, <1>3, <3>2
    <3> QED BY <1>3, <3>2, <3>3, <3>4, Zenon
  <2>2. CASE \E signer \in Addresses : WithdrawUnallocated(signer, t, n)
    <3>1. /\ n > 0 /\ n <= UnallocatedBalance(t)
          /\ n <= held[t] /\ held' = [held EXCEPT ![t] = @ - n]
      BY <2>2 DEF WithdrawUnallocated, TransferOut
    <3>2. AccountedBalance(t) = SumProjectBalances(t, balance)
      BY <1>1 DEF AccountedBalance, BooksOk, AccountedMatches
    <3>3. n <= held[t] - SumProjectBalances(t, balance)
      <4>1. UnallocatedBalance(t) = held[t] - SumProjectBalances(t, balance)
        BY <1>1, <1>3, <3>2 DEF UnallocatedBalance
      <4> QED BY <3>1, <4>1
    <3>4. held' \in [Tokens -> Nat] /\ held'[t] = held[t] - n
      <4>1. held[t] - n \in Nat
        BY <1>1, <3>1
      <4> QED BY <1>1, <3>1, <4>1
    <3>5. \A u \in Tokens : u # t => held'[u] = held[u]
      BY <1>1, <3>1
    <3>6. SumProjectBalances(t, balance) <= held'[t]
      BY <1>1, <1>3, <3>3, <3>4
    <3> QED BY <1>3, <3>4, <3>5, <3>6, Zenon
  <2> QED BY <2>1, <2>2
<1>5. TypeOK'
  <2>1. ConfigTypeOK'
    BY <1>1 DEF TypeOK, ConfigTypeOK, configVars
  <2> QED BY <1>1, <1>2, <1>4, <2>1 DEF TypeOK, Created
<1>6. BooksOk'
  <2>1. Created' = Created /\ \A q \in Created : project'[q].token = project[q].token
    BY <1>2 DEF Created
  <2> QED BY <1>1, <1>2, <1>4, <2>1, BooksStay
<1>7. SplitsSound' /\ Unfunded' /\ Conservation'
  BY <1>2 DEF Inv, SplitsSound, Unfunded, Conservation, Created
<1> QED BY <1>5, <1>6, <1>7 DEF Inv

\* A step that leaves the funds alone, apart from the ids a batch has left.
LEMMA FundsUntouched ==
  ASSUME Inv, ConfigTypeOK', batch' \in Seq(Projects),
         UNCHANGED <<ids, project, balance, claimed, lastClaimAmount, lastClaimEpoch,
                     claimEpoch, accounted, held, deposited, epochStart>>
  PROVE  Inv'
<1>1. TypeOK'
  BY DEF Inv, TypeOK, Created
<1>2. BooksOk'
  <2>1. Created' = Created /\ \A q \in Created : project'[q].token = project[q].token
    BY DEF Created
  <2>2. \A t \in Tokens : SumProjectBalances(t, balance) <= held'[t]
    BY DEF Inv, BooksOk, Solvent
  <2> QED BY <2>1, <2>2, BooksStay DEF Inv
<1>3. SplitsSound' /\ Unfunded' /\ Conservation'
  BY DEF Inv, SplitsSound, Unfunded, Conservation, Created
<1> QED BY <1>1, <1>2, <1>3 DEF Inv
\* An unconfigured contract is well typed.
LEMMA ConfigStarts ==
  ASSUME ConfigInit PROVE ConfigTypeOK
<1>1. DefaultCap \in MinCap..MaxCap
  BY ConfigAssumption
<1>2. paused \in BOOLEAN /\ admin \in Addresses \cup {NoAdmin}
  BY Zenon DEF ConfigInit
<1>3. maxCollaborators \in MinCap..MaxCap
  BY <1>1, Zenon DEF ConfigInit
<1>4. allowedTokens \in SUBSET Tokens /\ allowedTokenList \in Seq(Tokens) /\ allowedTokenCount \in Nat
  BY DEF ConfigInit
<1> QED BY <1>2, <1>3, <1>4 DEF ConfigTypeOK

\* A new deployment has nothing on its books.
LEMMA FreshHolds ==
  ASSUME FreshInit PROVE Inv
<1>1. TypeOK
  <2>1. ConfigTypeOK
    BY ConfigStarts DEF FreshInit, CommonInit
  <2>2. Created = {} /\ project \in [Created -> SplitProject]
    BY DEF FreshInit, Created
  <2>3. DOMAIN accounted = {} /\ accounted \in [DOMAIN accounted -> Int]
    BY DEF FreshInit, CommonInit
  <2> QED BY <2>1, <2>2, <2>3 DEF FreshInit, CommonInit, TypeOK
<1>2. Created = {} /\ DOMAIN accounted = {} /\ ids = <<>>
  BY DEF FreshInit, CommonInit, Created
<1>3. Solvent
  <2> SUFFICES ASSUME NEW t \in Tokens PROVE SumProjectBalances(t, balance) <= held[t]
    BY DEF Solvent
  <2> DEFINE s == TokenEntries(t, balance)
  <2>1. s \in Seq(Int) /\ Len(s) = 0
    <3>1. balance \in [Projects -> Nat]
      BY <1>1 DEF TypeOK
    <3>2. s \in Seq(Int) /\ Len(s) = Len(ids)
      BY <1>1, <3>1, EntriesType, Zenon
    <3> HIDE DEF s
    <3> QED BY ONLY <1>2, <3>2
  <2>2. SumProjectBalances(t, balance) = Totals(s)[0]
    BY <2>1 DEF SumProjectBalances, SeqSum
  <2> HIDE DEF s
  <2>3. Totals(s)[0] = 0
    BY <2>1, TotalsStep
  <2> QED BY <2>2, <2>3 DEF FreshInit
<1>4. IndexOk /\ AccountedMatches
  BY <1>2 DEF IndexOk, AccountedMatches
<1>5. SplitsSound /\ Unfunded /\ Conservation
  BY <1>2 DEF SplitsSound, Unfunded, Conservation, FreshInit
<1> QED BY <1>1, <1>3, <1>4, <1>5 DEF Inv, BooksOk

\* An upgraded deployment holds what its project owns.
LEMMA LegacyHolds ==
  ASSUME LegacyInit PROVE Inv
<1>1. PICK p \in Projects, t \in Tokens, o \in Owners, c \in CollabLists,
           title \in Titles, n \in LegacyFunds :
        /\ ValidCollaborators(c, DefaultCap)
        /\ ids = <<p>>
        /\ project = [q \in {p} |-> StoredProject(t, o, c, title)]
        /\ balance = [q \in Projects |-> IF q = p THEN n ELSE 0]
        /\ held = [u \in Tokens |-> IF u = t THEN n ELSE 0]
  BY DEF LegacyInit
<1> DEFINE new == StoredProject(t, o, c, title)
<1>2. /\ n \in Nat /\ c \in Seq(Collaborator) /\ o \in Addresses
      /\ deposited = balance /\ epochStart = balance
      /\ balance \in [Projects -> Nat] /\ held \in [Tokens -> Nat]
      /\ balance[p] = n
  BY <1>1, ContractAssumption DEF LegacyInit
<1>3. Created = {p} /\ project[p] = new
  BY <1>1 DEF Created
<1>4. /\ new \in SplitProject /\ new.collaborators = c /\ new.token = t
      /\ new.totalDistributed = 0
  BY <1>2 DEF StoredProject, SplitProject
<1>5. TypeOK
  <2>1. ConfigTypeOK
    BY ConfigStarts DEF LegacyInit, CommonInit
  <2>2. Created \in SUBSET Projects /\ project \in [Created -> SplitProject]
    BY <1>1, <1>3, <1>4
  <2>3. DOMAIN accounted = {} /\ accounted \in [DOMAIN accounted -> Int]
    BY DEF LegacyInit, CommonInit
  <2>4. ids \in Seq(Projects)
    BY <1>1
  <2> QED BY <1>2, <2>1, <2>2, <2>3, <2>4 DEF LegacyInit, CommonInit, TypeOK
<1>6. SplitsSound
  <2>1. DefaultCap <= MaxCap /\ DefaultCap \in Int /\ MaxCap \in Int /\ Len(c) \in Int
    BY <1>2, ConfigAssumption
  <2>2. ValidCollaborators(c, MaxCap)
    BY <1>1, <2>1 DEF ValidCollaborators
  <2> HIDE DEF new
  <2> QED BY <1>3, <1>4, <2>2 DEF SplitsSound
<1>7. IndexOk
  <2>1. Len(ids) = 1 /\ ids[1] = p
    BY <1>1
  <2> QED BY <1>3, <2>1 DEF IndexOk
<1>8. AccountedMatches
  BY DEF LegacyInit, CommonInit, AccountedMatches
<1>9. Solvent
  <2> SUFFICES ASSUME NEW u \in Tokens PROVE SumProjectBalances(u, balance) <= held[u]
    BY DEF Solvent
  <2> DEFINE s == TokenEntries(u, balance)
  <2>1. s \in Seq(Int) /\ Len(s) = 1
    <3>1. s \in Seq(Int) /\ Len(s) = Len(ids)
      BY <1>2, <1>5, EntriesType, Zenon
    <3>2. Len(ids) = 1
      BY <1>1
    <3> QED BY <3>1, <3>2, Zenon
  <2>2. s[1] <= held[u] /\ s[1] \in Int
    <3>1. Len(ids) = 1 /\ ids[1] = p
      BY <1>1
    <3>2. CASE u = t
      <4>1. s[1] = n
        BY <1>2, <1>3, <1>4, <3>1, <3>2 DEF TokenEntries
      <4> QED BY <1>1, <1>2, <3>2, <4>1
    <3>3. CASE u # t
      <4>1. s[1] = 0
        BY <1>2, <1>3, <1>4, <3>1, <3>3 DEF TokenEntries
      <4> QED BY <1>2, <4>1
    <3> QED BY <3>2, <3>3
  <2>3. SumProjectBalances(u, balance) = Totals(s)[1]
    BY <2>1 DEF SumProjectBalances, SeqSum
  <2> HIDE DEF s
  <2>4. Totals(s)[1] = s[1]
    <3>1. Totals(s)[0] = 0 /\ \A i \in 1..Len(s) : Totals(s)[i] = Totals(s)[i - 1] + s[i]
      BY <2>1, TotalsStep
    <3>2. Totals(s)[1] = Totals(s)[1 - 1] + s[1]
      BY <2>1, <3>1
    <3> QED BY <2>2, <3>1, <3>2
  <2> QED BY <2>2, <2>3, <2>4
<1>10. Unfunded /\ Conservation
  <2> HIDE DEF new
  <2> QED BY <1>1, <1>2, <1>3, <1>4 DEF Unfunded, Conservation
<1> QED BY <1>5, <1>6, <1>7, <1>8, <1>9, <1>10 DEF Inv, BooksOk

\* Every step of the contract keeps the invariant.
LEMMA StepKeeps ==
  ASSUME Inv, [Next]_vars PROVE Inv'
<1>1. CASE UNCHANGED vars
  <2>1. ConfigTypeOK'
    BY <1>1 DEF Inv, TypeOK, ConfigTypeOK, vars, configVars
  <2>2. batch' \in Seq(Projects)
    BY <1>1 DEF Inv, TypeOK, vars, fundVars
  <2> QED BY <1>1, <2>1, <2>2, FundsUntouched DEF vars, fundVars
<1>2. CASE ConfigNext /\ UNCHANGED fundVars
  <2>1. ConfigTypeOK'
    BY <1>2, ConfigTypePreserved DEF Inv, TypeOK
  <2>2. batch' \in Seq(Projects)
    BY <1>2 DEF Inv, TypeOK, fundVars
  <2> QED BY <1>2, <2>1, <2>2, FundsUntouched DEF fundVars
<1>3. CASE ManageProject /\ UNCHANGED <<configVars, batch>>
  BY <1>3, CreateKeeps, OwnerEditsKeep DEF ManageProject
<1>4. CASE MoveFunds /\ UNCHANGED <<configVars, batch>>
  <2>1. ASSUME NEW p \in Created, NEW n \in Amounts, Deposit(p, n) PROVE Inv'
    BY <1>4, <2>1, DepositKeeps
  <2>2. ASSUME NEW p \in Created, Distribute(p) PROVE Inv'
    <3>1. batch' \in Seq(Projects)
      BY <1>4 DEF Inv, TypeOK
    <3> QED BY <1>4, <2>2, <3>1, DistributeKeeps DEF Distribute
  <2>3. ASSUME NEW p \in Created, NEW a \in Addresses,
               NEW i \in 1..Len(project[p].collaborators), Claim(p, a, i)
        PROVE  Inv'
    BY <1>4, <2>3, ClaimKeeps
  <2>4. ASSUME NEW t \in Tokens, NEW n \in Amounts,
               \/ \E signer \in Addresses : WithdrawUnallocated(signer, t, n)
               \/ DirectTransfer(t, n)
        PROVE  Inv'
    BY <1>4, <2>4, HoldingKeeps
  <2> QED BY <1>4, <2>1, <2>2, <2>3, <2>4, Zenon DEF MoveFunds
<1>5. ASSUME NEW b \in Batches, BatchDistribute(b), UNCHANGED configVars PROVE Inv'
  <2>1. ConfigTypeOK'
    BY <1>5 DEF Inv, TypeOK, ConfigTypeOK, configVars
  <2>2. batch' \in Seq(Projects)
    BY <1>5, ContractAssumption DEF BatchDistribute
  <2> QED BY <1>5, <2>1, <2>2, FundsUntouched DEF BatchDistribute
<1>6. CASE batch # <<>> /\ BatchItem /\ UNCHANGED configVars
  <2>1. batch' \in Seq(Projects)
    BY <1>6 DEF Inv, TypeOK, BatchItem
  <2>2. CASE DistributeItem(Head(batch))
    BY <1>6, <2>1, <2>2, DistributeKeeps
  <2>3. CASE UNCHANGED <<ids, project, balance, claimed, lastClaimAmount, lastClaimEpoch,
                         claimEpoch, accounted, held, deposited, epochStart>>
    <3>1. ConfigTypeOK'
      BY <1>6 DEF Inv, TypeOK, ConfigTypeOK, configVars
    <3> QED BY <2>1, <2>3, <3>1, FundsUntouched
  <2> QED BY <1>6, <2>2, <2>3 DEF BatchItem
<1> QED BY <1>1, <1>2, <1>3, <1>4, <1>5, <1>6 DEF Next

-----------------------------------------------------------------------------
(* The theorems *)

LEMMA InvAlways == Spec => []Inv
<1>1. Init => Inv
  BY FreshHolds, LegacyHolds DEF Init
<1>2. Inv /\ [Next]_vars => Inv'
  BY StepKeeps
<1> QED BY <1>1, <1>2, PTL DEF Spec

\* The contract's state is always well typed; in particular no balance and no
\* claimed amount ever goes below zero.
THEOREM TypeCorrect == Spec => []TypeOK
<1>1. Inv => TypeOK
  BY DEF Inv
<1> QED BY <1>1, InvAlways, PTL

\* Every stored split divides the whole, whatever edits were made and however
\* the cap was moved.
THEOREM SplitsAlwaysSound == Spec => []SplitsSound
<1>1. Inv => SplitsSound
  BY DEF Inv
<1> QED BY <1>1, InvAlways, PTL

\* deposit, distribute, claim and batch_distribute neither create nor lose a
\* unit of any project.
THEOREM MoneyConserved == Spec => []Conservation
<1>1. Inv => Conservation
  BY DEF Inv
<1> QED BY <1>1, InvAlways, PTL

\* The accounting cache is always the live sum of the project balances.
THEOREM CacheIsExact == Spec => []AccountedMatches
<1>1. Inv => AccountedMatches
  BY DEF Inv, BooksOk
<1> QED BY <1>1, InvAlways, PTL

\* The contract never owes the projects more of a token than it holds, so
\* withdraw_unallocated cannot reach a project's funds.
THEOREM AlwaysSolvent == Spec => []Solvent
<1>1. Inv => Solvent
  BY DEF Inv, BooksOk
<1> QED BY <1>1, InvAlways, PTL
\* Once locked, a project keeps its collaborators, their shares and its
\* metadata, through every later call of anybody.
THEOREM LockIsPermanent == Spec => LockedIsForever
<1>1. ASSUME Inv, [Next]_vars PROVE [KeepsLocked]_vars
  <2> SUFFICES ASSUME ~(UNCHANGED vars) PROVE KeepsLocked
    OBVIOUS
  <2>1. /\ TypeOK
        /\ project \in [Created -> SplitProject]
    BY <1>1 DEF Inv, TypeOK
  <2>2. ASSUME UNCHANGED project PROVE KeepsLocked
    BY <2>2 DEF KeepsLocked, Created
  <2>3. ASSUME NEW p \in Created, NEW new,
               project' = [project EXCEPT ![p] = new],
               new.token = project[p].token,
               project[p].locked => /\ new.locked
                                    /\ new.collaborators = project[p].collaborators
                                    /\ new.title = project[p].title
        PROVE  KeepsLocked
    <3>1. Created' = Created /\ project'[p] = new
      BY <2>3, <2>1 DEF Created
    <3>2. \A q \in Created : q # p => project'[q] = project[q]
      BY <2>3, <2>1
    <3> QED BY <2>3, <3>1, <3>2 DEF KeepsLocked
  <2>4. ASSUME NEW owner \in Owners, NEW p \in Projects, NEW title \in Titles,
               NEW t \in Tokens, NEW c \in CollabLists, CreateProject(owner, p, title, t, c)
        PROVE  KeepsLocked
    <3>1. Created \subseteq Created' /\ \A q \in Created : project'[q] = project[q]
      BY <2>4 DEF CreateProject, Created
    <3> QED BY <3>1, Zenon DEF KeepsLocked
  <2>5. ASSUME NEW p \in Created, NEW signer \in Addresses,
               \/ \E c \in CollabLists : UpdateCollaborators(p, signer, c)
               \/ \E title \in Titles : UpdateProjectMetadata(p, signer, title)
               \/ LockProject(p, signer)
               \/ \E a \in Owners : TransferProjectOwnership(p, signer, a)
        PROVE  KeepsLocked
    <3> DEFINE pr == project[p]
    <3>1. pr \in SplitProject
      BY <2>1
    <3>2. ASSUME NEW c, UpdateCollaborators(p, signer, c) PROVE KeepsLocked
      <4> DEFINE new == [pr EXCEPT !.collaborators = c]
      <4>1. ~pr.locked /\ project' = [project EXCEPT ![p] = new] /\ new.token = pr.token
        BY <3>1, <3>2 DEF UpdateCollaborators, OwnerEdits, SplitProject
      <4> HIDE DEF new
      <4> QED BY <2>3, <4>1
    <3>3. ASSUME NEW title, UpdateProjectMetadata(p, signer, title) PROVE KeepsLocked
      <4> DEFINE new == [pr EXCEPT !.title = title]
      <4>1. ~pr.locked /\ project' = [project EXCEPT ![p] = new] /\ new.token = pr.token
        BY <3>1, <3>3 DEF UpdateProjectMetadata, OwnerEdits, SplitProject
      <4> HIDE DEF new
      <4> QED BY <2>3, <4>1
    <3>4. ASSUME LockProject(p, signer) PROVE KeepsLocked
      <4> DEFINE new == [pr EXCEPT !.locked = TRUE]
      <4>1. ~pr.locked /\ project' = [project EXCEPT ![p] = new] /\ new.token = pr.token
        BY <3>1, <3>4 DEF LockProject, OwnerEdits, SplitProject
      <4> HIDE DEF new
      <4> QED BY <2>3, <4>1
    <3>5. ASSUME NEW a, TransferProjectOwnership(p, signer, a) PROVE KeepsLocked
      <4> DEFINE new == [pr EXCEPT !.owner = a]
      <4>1. project' = [project EXCEPT ![p] = new]
        BY <3>5 DEF TransferProjectOwnership, OwnerEdits
      <4>2. /\ new.token = pr.token /\ new.locked = pr.locked
            /\ new.collaborators = pr.collaborators /\ new.title = pr.title
        BY <3>1 DEF SplitProject
      <4> HIDE DEF new
      <4> QED BY <2>3, <4>1, <4>2
    <3> QED BY <2>5, <3>2, <3>3, <3>4, <3>5
  <2>6. ASSUME NEW p, DistributeItem(p) PROVE KeepsLocked
    <3> DEFINE pr == project[p]
               sent == TotalSent(pr.collaborators, balance[p])
               new == [pr EXCEPT !.totalDistributed = @ + sent,
                                 !.distributionRound = @ + 1]
    <3>1. p \in Created /\ pr \in SplitProject
      BY <2>1, <2>6 DEF DistributeItem, Distributable
    <3>2. project' = [project EXCEPT ![p].totalDistributed = @ + sent,
                                     ![p].distributionRound = @ + 1]
      BY <2>6 DEF DistributeItem, Counted
    <3> HIDE DEF sent
    <3>3. project' = [project EXCEPT ![p] = new]
      BY ONLY <2>1, <3>1, <3>2 DEF new
    <3>4. /\ new.token = pr.token /\ new.locked = pr.locked
          /\ new.collaborators = pr.collaborators /\ new.title = pr.title
      BY ONLY <3>1 DEF SplitProject, new
    <3> HIDE DEF new
    <3> QED BY <2>3, <3>1, <3>3, <3>4
  <2>7. ASSUME NEW p \in Created, NEW a \in Addresses, NEW i, Claim(p, a, i)
        PROVE  KeepsLocked
    <3> DEFINE pr == project[p]
               amount == Share(balance[p], pr.collaborators[i].bps)
               new == [pr EXCEPT !.totalDistributed = @ + amount]
    <3>1. pr \in SplitProject
      BY <2>1
    <3>2. project' = [project EXCEPT ![p].totalDistributed = @ + amount]
      BY <2>7 DEF Claim, Counted
    <3> HIDE DEF amount
    <3>3. project' = [project EXCEPT ![p] = new]
      BY ONLY <2>1, <2>7, <3>1, <3>2 DEF new
    <3>4. /\ new.token = pr.token /\ new.locked = pr.locked
          /\ new.collaborators = pr.collaborators /\ new.title = pr.title
      BY ONLY <3>1 DEF SplitProject, new
    <3> HIDE DEF new
    <3> QED BY <2>3, <3>3, <3>4
  <2>8. CASE ManageProject
    BY <2>4, <2>5, <2>8 DEF ManageProject
  <2>9. CASE MoveFunds
    <3>1. ASSUME NEW p \in Created, NEW n \in Amounts, Deposit(p, n) PROVE KeepsLocked
      BY <2>2, <3>1 DEF Deposit
    <3>2. ASSUME NEW p \in Created, Distribute(p) PROVE KeepsLocked
      BY <2>6, <3>2 DEF Distribute
    <3>3. ASSUME NEW signer \in Addresses, NEW t \in Tokens, NEW n \in Amounts,
                 WithdrawUnallocated(signer, t, n)
          PROVE  KeepsLocked
      BY <2>2, <3>3 DEF WithdrawUnallocated
    <3>4. ASSUME NEW t \in Tokens, NEW n \in Amounts, DirectTransfer(t, n)
          PROVE  KeepsLocked
      BY <2>2, <3>4 DEF DirectTransfer
    <3> QED BY <2>7, <2>9, <3>1, <3>2, <3>3, <3>4, Zenon DEF MoveFunds
  <2>10. CASE UNCHANGED fundVars
    BY <2>2, <2>10 DEF fundVars
  <2>11. CASE \E b \in Batches : BatchDistribute(b)
    BY <2>2, <2>11 DEF BatchDistribute
  <2>12. CASE BatchItem
    BY <2>2, <2>6, <2>12 DEF BatchItem
  <2> QED BY <1>1, <2>8, <2>9, <2>10, <2>11, <2>12 DEF Next
<1> QED BY <1>1, InvAlways, PTL DEF Spec, LockedIsForever
-----------------------------------------------------------------------------
(* The allowlist *)

\* A list enumerates a set without repetition.
Enumerates(list, set) ==
  /\ {list[i] : i \in DOMAIN list} = set
  /\ \A i, j \in DOMAIN list : list[i] = list[j] => i = j

\* Filtering a list without repetitions removes the one entry and keeps the
\* others apart: the loop of disallow_token.
LEMMA WithoutAgrees ==
  ASSUME NEW list \in Seq(Tokens), NEW set, Enumerates(list, set), NEW t \in set
  PROVE  /\ Enumerates(Without(list, t), set \ {t})
         /\ Len(Without(list, t)) = Len(list) - 1
<1>01. \A i, j \in 1..Len(list) : list[i] = list[j] => i = j
  BY DEF Enumerates
<1>02. PICK m \in 1..Len(list) : list[m] = t
  BY DEF Enumerates
<1>1. PICK kept : FilterRun(kept, list, t)
  BY WithoutSteps
<1>0. /\ kept \in [0..Len(list) -> Seq(Tokens)]
      /\ Without(list, t) = kept[Len(list)]
      /\ kept[0] = <<>>
      /\ \A i \in 1..Len(list) :
           kept[i] = IF list[i] = t THEN kept[i - 1] ELSE Append(kept[i - 1], list[i])
  BY <1>1 DEF FilterRun
<1> DEFINE Same(k, n) == \A x : (\E i \in 1..Len(k) : k[i] = x)
                                   <=> x # t /\ \E j \in 1..n : list[j] = x
           Apart(k) == \A i, j \in 1..Len(k) : k[i] = k[j] => i = j
           Sound(k, n) == /\ Same(k, n) /\ Apart(k)
                          /\ Len(k) = IF m <= n THEN n - 1 ELSE n
           S == {n \in Nat : n <= Len(list) => Sound(kept[n], n)}
<1>2. Len(list) \in Nat /\ m \in Nat /\ m >= 1
  OBVIOUS
<1>3. 0 \in S
  <2>1. Sound(<<>>, 0)
    BY <1>2
  <2> HIDE DEF Sound
  <2> QED BY <1>0, <2>1
<1>4. ASSUME NEW n \in Nat, n \in S PROVE n + 1 \in S
  <2> SUFFICES ASSUME n + 1 <= Len(list) PROVE Sound(kept[n + 1], n + 1)
    <3> HIDE DEF Sound
    <3> QED OBVIOUS
  <2>1. /\ n \in 0..Len(list) /\ n + 1 \in 1..Len(list) /\ n <= Len(list)
        /\ n + 1 - 1 = n /\ m <= Len(list)
    BY <1>2
  <2>2. Sound(kept[n], n)
    <3> HIDE DEF Sound
    <3> QED BY <1>4, <2>1
  <2> DEFINE k == kept[n]
             x == list[n + 1]
  <2>3. k \in Seq(Tokens) /\ x \in Tokens
    BY <1>0, <2>1
  <2>4. kept[n + 1] = IF x = t THEN k ELSE Append(k, x)
    BY <1>0, <2>1
  <2>5. \A j \in 1..(n + 1) : j \in 1..n \/ j = n + 1
    OBVIOUS
  <2>6. \A j \in 1..n : j \in 1..(n + 1) /\ j \in 1..Len(list) /\ j # n + 1
    BY <2>1
  <2>7. n + 1 \in 1..(n + 1)
    OBVIOUS
  <2> HIDE DEF k, x
  <2>8. CASE x = t
    <3>1. n + 1 = m
      BY <1>01, <1>02, <2>1, <2>8 DEF x
    <3>2. kept[n + 1] = k
      BY <2>4, <2>8
    <3>3. Len(k) = n /\ \A i, j \in 1..Len(k) : k[i] = k[j] => i = j
      BY <2>2, <3>1 DEF k
    <3>4. ASSUME NEW y
          PROVE  (\E i \in 1..Len(k) : k[i] = y) <=> y # t /\ \E j \in 1..(n + 1) : list[j] = y
      <4>1. (\E i \in 1..Len(k) : k[i] = y) <=> y # t /\ \E j \in 1..n : list[j] = y
        BY <2>2, Zenon DEF k
      <4> QED BY <2>5, <2>6, <2>8, <4>1, Zenon DEF x
    <3>5. Len(k) = IF m <= n + 1 THEN n + 1 - 1 ELSE n + 1
      BY <1>2, <3>1, <3>3
    <3>6. Same(k, n + 1) /\ Apart(k)
      BY <3>3, <3>4, Zenon
    <3>7. Sound(k, n + 1)
      <4> HIDE DEF Same, Apart
      <4> QED BY <3>5, <3>6
    <3> HIDE DEF Sound
    <3> QED BY <3>2, <3>7, Zenon
  <2>9. CASE x # t
    <3> DEFINE r == Append(k, x)
    <3>1. kept[n + 1] = r /\ n + 1 # m
      BY <1>02, <2>4, <2>9 DEF x
    <3>2. Len(k) \in Nat /\ Len(r) = Len(k) + 1 /\ r[Len(k) + 1] = x
      BY <2>3
    <3>3. \A i \in 1..Len(k) : r[i] = k[i]
      BY <2>3
    <3> HIDE DEF r
    <3>4. /\ \A i \in 1..Len(r) : i \in 1..Len(k) \/ i = Len(k) + 1
          /\ \A i \in 1..Len(k) : i \in 1..Len(r) /\ i # Len(k) + 1
          /\ Len(k) + 1 \in 1..Len(r)
      BY <3>2
    <3>5. ASSUME NEW y
          PROVE  (\E i \in 1..Len(k) : k[i] = y) <=> y # t /\ \E j \in 1..n : list[j] = y
      BY <2>2, Zenon DEF k
    <3>6. ASSUME NEW y
          PROVE  (\E i \in 1..Len(r) : r[i] = y) <=> y # t /\ \E j \in 1..(n + 1) : list[j] = y
      <4>1. (\E i \in 1..Len(r) : r[i] = y) <=> y = x \/ \E i \in 1..Len(k) : k[i] = y
        BY <3>2, <3>3, <3>4, Zenon
      <4>2. (\E j \in 1..(n + 1) : list[j] = y) <=> y = x \/ \E j \in 1..n : list[j] = y
        BY <2>5, <2>6, <2>7, Zenon DEF x
      <4> QED BY <2>9, <3>5, <4>1, <4>2, Zenon
    <3>7. ASSUME NEW i \in 1..Len(k) PROVE k[i] # x
      <4>1. SUFFICES ASSUME k[i] = x PROVE FALSE
        OBVIOUS
      <4>2. PICK j \in 1..n : list[j] = x
        BY <3>5, <4>1, Zenon
      <4>3. j = n + 1
        BY <1>01, <2>1, <2>6, <4>2 DEF x
      <4> QED BY <2>6, <4>3
    <3>8. \A i, j \in 1..Len(k) : k[i] = k[j] => i = j
      BY <2>2, Zenon DEF k
    <3>9. \A i, j \in 1..Len(r) : r[i] = r[j] => i = j
      BY <3>2, <3>3, <3>4, <3>7, <3>8, Zenon
    <3>10. Len(r) = IF m <= n + 1 THEN n + 1 - 1 ELSE n + 1
      <4>1. Len(k) = IF m <= n THEN n - 1 ELSE n
        BY <2>2 DEF k
      <4> QED BY <1>2, <3>1, <3>2, <4>1
    <3>11. Same(r, n + 1) /\ Apart(r)
      BY <3>6, <3>9, Zenon
    <3>12. Sound(r, n + 1)
      <4> HIDE DEF Same, Apart
      <4> QED BY <3>10, <3>11
    <3> HIDE DEF Sound
    <3> QED BY <3>1, <3>12, Zenon
  <2> QED BY <2>8, <2>9
<1>5. Len(list) \in S
  <2>1. \A n \in Nat : n \in S
    <3> HIDE DEF S
    <3> QED BY <1>3, <1>4, NatSetInduction
  <2> HIDE DEF S
  <2> QED BY <1>2, <2>1
<1> DEFINE new == Without(list, t)
<1>6. new \in Seq(Tokens)
  BY WithoutType
<1>7. Sound(new, Len(list))
  <2>1. Len(list) <= Len(list)
    BY <1>2
  <2> HIDE DEF Sound
  <2> QED BY <1>0, <1>5, <2>1
<1> HIDE DEF new
<1>8. DOMAIN new = 1..Len(new) /\ DOMAIN list = 1..Len(list)
  BY <1>6
<1>9. Len(new) = Len(list) - 1
  BY <1>2, <1>7
<1>10. {new[i] : i \in DOMAIN new} = set \ {t}
  <2>1. \A y : (\E i \in 1..Len(new) : new[i] = y)
                 <=> y # t /\ \E j \in 1..Len(list) : list[j] = y
    BY <1>7, Zenon
  <2>2. ASSUME NEW y
        PROVE  y \in {new[i] : i \in DOMAIN new} <=> y \in set \ {t}
    <3>1. y \in {new[i] : i \in DOMAIN new} <=> \E i \in 1..Len(new) : new[i] = y
      BY <1>8
    <3>2. y \in set <=> \E i \in 1..Len(list) : list[i] = y
      BY <1>8 DEF Enumerates
    <3>3. y \in set \ {t} <=> y \in set /\ y # t
      BY Zenon
    <3> QED BY <2>1, <3>1, <3>2, <3>3, Zenon
  <2> QED BY <2>2
<1>11. \A i, j \in DOMAIN new : new[i] = new[j] => i = j
  BY <1>7, <1>8, Zenon
<1>12. Enumerates(new, set \ {t})
  BY <1>10, <1>11 DEF Enumerates
<1> QED BY <1>9, <1>12 DEF new

\* Every call of the administration keeps the three copies in agreement.
LEMMA AllowlistKept ==
  ASSUME ConfigTypeOK, AllowlistAgrees, ConfigNext
  PROVE  AllowlistAgrees'
<1> DEFINE list == allowedTokenList
<1>1. list \in Seq(Tokens) /\ Len(list) \in Nat /\ DOMAIN list = 1..Len(list)
  BY DEF ConfigTypeOK
<1>2. /\ {list[i] : i \in DOMAIN list} = allowedTokens
      /\ \A i, j \in 1..Len(list) : list[i] = list[j] => i = j
      /\ allowedTokenCount = Len(list)
  BY <1>1 DEF AllowlistAgrees
<1>3. ASSUME UNCHANGED <<allowedTokens, allowedTokenList, allowedTokenCount>>
      PROVE  AllowlistAgrees'
  BY <1>3 DEF AllowlistAgrees
<1>4. ASSUME NEW signer \in Addresses, NEW t \in Tokens, AllowToken(signer, t)
      PROVE  AllowlistAgrees'
  <2>1. CASE t \in allowedTokens
    BY <1>3, <1>4, <2>1 DEF AllowToken
  <2>2. CASE t \notin allowedTokens
    <3> DEFINE new == Append(list, t)
    <3>1. /\ allowedTokens' = allowedTokens \cup {t} /\ allowedTokenList' = new
          /\ allowedTokenCount' = allowedTokenCount + 1
      BY <1>4, <2>2 DEF AllowToken
    <3>2. /\ DOMAIN new = 1..(Len(list) + 1) /\ Len(new) = Len(list) + 1
          /\ new[Len(list) + 1] = t /\ \A i \in 1..Len(list) : new[i] = list[i]
      BY <1>1
    <3> HIDE DEF new, list
    <3>3. /\ \A i \in 1..(Len(list) + 1) : i \in 1..Len(list) \/ i = Len(list) + 1
          /\ \A i \in 1..Len(list) : i \in 1..(Len(list) + 1)
          /\ Len(list) + 1 \in 1..(Len(list) + 1)
      BY <1>1
    <3>4. \A i \in 1..Len(list) : list[i] # t
      BY <1>1, <1>2, <2>2
    <3>5. {new[i] : i \in DOMAIN new} = allowedTokens \cup {t}
      <4>1. ASSUME NEW y
            PROVE  y \in {new[i] : i \in DOMAIN new} <=> y \in allowedTokens \cup {t}
        <5>1. y \in allowedTokens <=> \E i \in 1..Len(list) : list[i] = y
          BY <1>1, <1>2
        <5>2. y \in {new[i] : i \in DOMAIN new} <=> \E i \in 1..(Len(list) + 1) : new[i] = y
          BY <3>2
        <5>3. y \in allowedTokens \cup {t} <=> y \in allowedTokens \/ y = t
          BY Zenon
        <5> QED BY <3>2, <3>3, <5>1, <5>2, <5>3, Zenon
      <4> QED BY <4>1
    <3>6. \A i, j \in DOMAIN new : new[i] = new[j] => i = j
      BY <1>2, <3>2, <3>3, <3>4, Zenon
    <3> QED BY <1>2, <3>1, <3>2, <3>5, <3>6 DEF AllowlistAgrees
  <2> QED BY <2>1, <2>2
<1>5. ASSUME NEW signer \in Addresses, NEW t \in Tokens, DisallowToken(signer, t)
      PROVE  AllowlistAgrees'
  <2>1. CASE t \notin allowedTokens
    BY <1>3, <1>5, <2>1 DEF DisallowToken
  <2>2. CASE t \in allowedTokens
    <3> DEFINE new == Without(list, t)
    <3>1. /\ allowedTokens' = allowedTokens \ {t} /\ allowedTokenList' = new
          /\ allowedTokenCount' = IF allowedTokenCount = 0 THEN 0 ELSE allowedTokenCount - 1
      BY <1>5, <2>2 DEF DisallowToken
    <3>2. Enumerates(list, allowedTokens)
      BY <1>1, <1>2 DEF Enumerates
    <3>3. Enumerates(new, allowedTokens \ {t}) /\ Len(new) = Len(list) - 1
      BY <1>1, <2>2, <3>2, WithoutAgrees
    <3> HIDE DEF new
    <3>4. allowedTokenCount # 0
      BY <1>1, <1>2, <2>2
    <3>5. allowedTokenCount' = Len(new)
      BY <1>1, <1>2, <3>1, <3>3, <3>4
    <3> QED BY <3>1, <3>3, <3>5 DEF AllowlistAgrees, Enumerates
  <2> QED BY <2>1, <2>2
<1> QED BY <1>3, <1>4, <1>5 DEF ConfigNext, SetAdmin, PauseDistributions,
          UnpauseDistributions, SetPaused, SetMaxCollaborators
-----------------------------------------------------------------------------
(* What a distribution adds to the claims *)

\* A sequence of zeros adds up to zero.
LEMMA SeqSumZero ==
  ASSUME NEW s \in Seq(Int), \A i \in 1..Len(s) : s[i] = 0
  PROVE  SeqSum(s) = 0
<1> DEFINE S == {n \in Nat : n <= Len(s) => Totals(s)[n] = 0}
<1>1. Len(s) \in Nat /\ Totals(s)[0] = 0
  BY TotalsStep
<1>2. \A i \in 1..Len(s) : Totals(s)[i] = Totals(s)[i - 1] + s[i]
  BY TotalsStep
<1>3. ASSUME NEW n \in Nat, n \in S PROVE n + 1 \in S
  <2> SUFFICES ASSUME n + 1 <= Len(s) PROVE Totals(s)[n + 1] = 0
    OBVIOUS
  <2>1. n + 1 \in 1..Len(s) /\ n + 1 - 1 = n /\ n <= Len(s)
    BY <1>1
  <2>2. Totals(s)[n + 1] = Totals(s)[n] + s[n + 1]
    BY <1>2, <2>1
  <2>3. Totals(s)[n] = 0
    BY <1>3, <2>1
  <2> QED BY <2>1, <2>2, <2>3
<1>4. 0 \in S
  BY <1>1
<1>5. \A n \in Nat : n \in S
  <2> HIDE DEF S
  <2> QED BY <1>3, <1>4, NatSetInduction
<1>6. Len(s) \in S /\ Len(s) <= Len(s)
  BY <1>1, <1>5
<1> QED BY <1>6 DEF SeqSum

\* A sequence with one entry that is not zero adds up to that entry.
LEMMA SeqSumSingle ==
  ASSUME NEW s \in Seq(Int), NEW k \in 1..Len(s),
         \A i \in 1..Len(s) : i # k => s[i] = 0
  PROVE  SeqSum(s) = s[k]
<1> DEFINE z == [i \in 1..Len(s) |-> 0]
<1>1. z \in Seq(Int) /\ Len(z) = Len(s) /\ \A i \in 1..Len(z) : z[i] = 0
  OBVIOUS
<1>2. s[k] \in Int
  OBVIOUS
<1> HIDE DEF z
<1>3. SeqSum(z) = 0
  BY <1>1, SeqSumZero
<1>4. SeqSum(s) = SeqSum(z) + s[k]
  <2>1. k \in 1..Len(z) /\ s[k] = z[k] + s[k] /\ \A i \in 1..Len(z) : i # k => s[i] = z[i]
    BY <1>1, <1>2
  <2> QED BY <1>1, <1>2, <2>1, SumChange
<1> QED BY <1>2, <1>3, <1>4

\* A collaborator is paid by a distribution what the list gives its entry.
LEMMA PaidToOwn ==
  ASSUME NEW c \in Seq(Collaborator), NEW b \in Nat, ValidCollaborators(c, MaxCap),
         NEW k \in 1..Len(c)
  PROVE  PaidTo(c, b, c[k].address) = Payouts(c, b)[k]
<1> DEFINE P == Payouts(c, b)
           X(i) == IF c[i].address = c[k].address /\ P[i] > 0 THEN P[i] ELSE 0
           s == [i \in 1..Len(c) |-> X(i)]
<1>1. P \in Seq(Nat) /\ Len(P) = Len(c) /\ Len(c) \in Nat
  BY DistributionIsExact, ConfigAssumption
<1>2. \A i \in 1..Len(c) : P[i] \in Nat
  BY <1>1
<1>3. PaidTo(c, b, c[k].address) = SeqSum(s)
  BY DEF PaidTo
<1> HIDE DEF P
<1>4. X(k) = P[k] /\ \A i \in 1..Len(c) : X(i) \in Int /\ (i # k => X(i) = 0)
  BY <1>2 DEF ValidCollaborators
<1> HIDE DEF X
<1>5. /\ s \in Seq(Int) /\ Len(s) = Len(c) /\ s[k] = P[k]
      /\ \A i \in 1..Len(s) : i # k => s[i] = 0
  BY <1>1, <1>4
<1> HIDE DEF s
<1>6. SeqSum(s) = s[k]
  BY <1>5, SeqSumSingle
<1> QED BY <1>3, <1>5, <1>6 DEF P

\* A distribution adds the whole balance to the sum of the claims, whatever
\* accounts are listed.
LEMMA ClaimsGrowByBalance ==
  ASSUME NEW c \in Seq(Collaborator), NEW b \in Nat, ValidCollaborators(c, MaxCap),
         NEW f \in [Addresses -> Nat]
  PROVE  SumFunction([a \in Addresses |-> f[a] + PaidTo(c, b, a)]) = SumFunction(f) + b
<1> DEFINE P == Payouts(c, b)
           Y(i) == IF P[i] > 0 THEN P[i] ELSE 0
           s == [i \in 1..Len(c) |-> Y(i)]
           w == [i \in 1..Len(c) |-> c[i].address]
<1>1. P \in Seq(Nat) /\ Len(P) = Len(c) /\ Len(c) \in Nat /\ TotalSent(c, b) = b
  BY DistributionIsExact, ConfigAssumption
<1>2. \A i \in 1..Len(c) : P[i] \in Nat /\ Y(i) \in Int /\ c[i].address \in Addresses
  <2>1. \A i \in 1..Len(c) : c[i].address \in Addresses
    <3>1. \A i \in 1..Len(c) : c[i] \in Collaborator
      OBVIOUS
    <3> QED BY ONLY <3>1 DEF Collaborator
  <2>2. \A i \in 1..Len(c) : P[i] \in Nat
    BY <1>1
  <2> HIDE DEF P
  <2> QED BY <2>1, <2>2
<1>3. TotalSent(c, b) = SeqSum(s)
  BY DEF TotalSent
<1>4. s \in Seq(Int) /\ Len(s) = Len(c) /\ \A i \in 1..Len(c) : s[i] = Y(i)
  <2> HIDE DEF Y
  <2> QED BY <1>1, <1>2
<1>5. w \in [1..Len(s) -> Addresses]
  BY <1>2, <1>4
<1>6. ASSUME NEW a \in Addresses PROVE PaidTo(c, b, a) = SeqSum(Received(s, w, a))
  <2> DEFINE Z(i) == IF c[i].address = a /\ P[i] > 0 THEN P[i] ELSE 0
             V(i) == IF w[i] = a THEN s[i] ELSE 0
  <2>1. PaidTo(c, b, a) = SeqSum([i \in 1..Len(c) |-> Z(i)])
    BY DEF PaidTo
  <2>2. Received(s, w, a) = [i \in 1..Len(c) |-> V(i)]
    BY <1>4 DEF Received
  <2>3. \A i \in 1..Len(c) : Z(i) = V(i)
    <3> SUFFICES ASSUME NEW i \in 1..Len(c) PROVE Z(i) = V(i)
      OBVIOUS
    <3>1. w[i] = c[i].address /\ s[i] = Y(i)
      BY <1>4
    <3> QED BY <3>1
  <2> HIDE DEF Z, V
  <2>4. [i \in 1..Len(c) |-> Z(i)] = [i \in 1..Len(c) |-> V(i)]
    BY <2>3
  <2> QED BY <2>1, <2>2, <2>4
<1>7. f \in [Addresses -> Int] /\ IsFiniteSet(Addresses)
  BY ContractAssumption
<1> HIDE DEF s, w
<1>8. SumFunction([a \in Addresses |-> f[a] + SeqSum(Received(s, w, a))])
        = SumFunction(f) + SeqSum(s)
  BY <1>4, <1>5, <1>7, SumSpread
<1>9. [a \in Addresses |-> f[a] + SeqSum(Received(s, w, a))]
        = [a \in Addresses |-> f[a] + PaidTo(c, b, a)]
  BY <1>6
<1> QED BY <1>1, <1>3, <1>8, <1>9
-----------------------------------------------------------------------------
(* The ledgers of a project *)

\* No claim is recorded under an epoch that has not been opened.
EpochsPast ==
  \A p \in Projects, a \in Addresses : lastClaimEpoch[p][a] <= claimEpoch[p]

\* A project that does not exist has no funds and no claims.
Untouched ==
  \A p \in Projects \ Created :
    /\ epochStart[p] = 0 /\ balance[p] = 0
    /\ \A a \in Addresses : claimed[p][a] = 0 /\ lastClaimEpoch[p][a] = NoEpoch

LedgersOk == ClaimedLedgerAgrees /\ EpochLedger /\ EpochsPast /\ Untouched

RecordsInv == Inv /\ AllowlistAgrees /\ LedgersOk

\* The parts of a project's ledgers.
LEMMA LedgerTypes ==
  ASSUME TypeOK, NEW p \in Projects
  PROVE  /\ claimed[p] \in [Addresses -> Nat] /\ claimed[p] \in [Addresses -> Int]
         /\ lastClaimAmount[p] \in [Addresses -> Nat]
         /\ lastClaimEpoch[p] \in [Addresses -> Int]
         /\ claimEpoch[p] \in Nat /\ balance[p] \in Nat /\ epochStart[p] \in Nat
         /\ IsFiniteSet(Addresses)
<1>1. /\ claimed[p] \in [Addresses -> Nat]
      /\ lastClaimAmount[p] \in [Addresses -> Nat]
      /\ lastClaimEpoch[p] \in [Addresses -> Nat \cup {NoEpoch}]
      /\ claimEpoch[p] \in Nat /\ balance[p] \in Nat /\ epochStart[p] \in Nat
  BY DEF TypeOK
<1>2. \A x \in Nat \cup {NoEpoch} : x \in Int
  BY DEF NoEpoch
<1>3. lastClaimEpoch[p] \in [Addresses -> Int]
  BY <1>1, <1>2
<1> QED BY <1>1, <1>3, ContractAssumption

\* An epoch in which nobody has claimed yet has paid nothing.
LEMMA NoClaims ==
  ASSUME NEW p, IsFiniteSet(Addresses),
         \A a \in Addresses : lastClaimEpoch[p][a] # claimEpoch[p]
  PROVE  EpochClaims(p) = 0
<1> DEFINE f == [a \in Addresses |->
                   IF lastClaimEpoch[p][a] = claimEpoch[p] THEN lastClaimAmount[p][a] ELSE 0]
<1>1. f \in [Addresses -> Int] /\ \A a \in Addresses : f[a] = 0
  OBVIOUS
<1>2. EpochClaims(p) = SumFunction(f)
  BY DEF EpochClaims
<1> HIDE DEF f
<1> QED BY <1>1, <1>2, SumFunctionZero

\* A project whose keys a step does not write keeps its ledgers.
SameKeys(p) ==
  /\ claimed'[p] = claimed[p] /\ lastClaimAmount'[p] = lastClaimAmount[p]
  /\ lastClaimEpoch'[p] = lastClaimEpoch[p] /\ claimEpoch'[p] = claimEpoch[p]
  /\ epochStart'[p] = epochStart[p] /\ balance'[p] = balance[p]

LEMMA SameClaims ==
  ASSUME NEW p, SameKeys(p)
  PROVE  EpochClaims(p)' = EpochClaims(p)
BY DEF EpochClaims, SameKeys

\* What a step has to keep to itself to keep everybody's ledgers: one project
\* p whose ledgers it settles, the others untouched.
LEMMA OthersKeep ==
  ASSUME LedgersOk, NEW p \in Projects,
         \A q \in Projects : q # p => SameKeys(q),
         \A q \in Created : q # p => /\ q \in Projects
                                     /\ project'[q].totalDistributed = project[q].totalDistributed,
         p \in Created', Created' = Created \cup {p},
         SumFunction(claimed'[p]) = project'[p].totalDistributed,
         epochStart'[p] = balance'[p] + EpochClaims(p)',
         \A a \in Addresses : lastClaimEpoch'[p][a] <= claimEpoch'[p]
  PROVE  LedgersOk'
<1>1. \A q \in Created' : q = p \/ (q \in Created /\ q # p)
  OBVIOUS
<1>2. ClaimedLedgerAgrees'
  <2> SUFFICES ASSUME NEW q \in Created', q # p
               PROVE  SumFunction(claimed'[q]) = project'[q].totalDistributed
    BY DEF ClaimedLedgerAgrees
  <2>1. q \in Created /\ q \in Projects /\ SameKeys(q)
    BY <1>1
  <2>2. SumFunction(claimed[q]) = project[q].totalDistributed
    BY <2>1 DEF LedgersOk, ClaimedLedgerAgrees
  <2>3. claimed'[q] = claimed[q]
    BY <2>1 DEF SameKeys
  <2> QED BY <2>1, <2>2, <2>3
<1>3. EpochLedger'
  <2> SUFFICES ASSUME NEW q \in Created', q # p
               PROVE  epochStart'[q] = balance'[q] + EpochClaims(q)'
    BY DEF EpochLedger
  <2>1. q \in Created /\ q \in Projects /\ SameKeys(q) /\ balance'[q] = balance[q]
    BY <1>1 DEF SameKeys
  <2>2. epochStart[q] = balance[q] + EpochClaims(q)
    BY <2>1 DEF LedgersOk, EpochLedger
  <2>3. epochStart'[q] = epochStart[q]
    BY <2>1 DEF SameKeys
  <2>4. EpochClaims(q)' = EpochClaims(q)
    BY <2>1, SameClaims
  <2> QED BY <2>1, <2>2, <2>3, <2>4
<1>4. EpochsPast'
  <2> SUFFICES ASSUME NEW q \in Projects, NEW a \in Addresses, q # p
               PROVE  lastClaimEpoch'[q][a] <= claimEpoch'[q]
    BY DEF EpochsPast
  <2>1. SameKeys(q) /\ lastClaimEpoch[q][a] <= claimEpoch[q]
    BY DEF LedgersOk, EpochsPast
  <2> QED BY <2>1 DEF SameKeys
<1>5. Untouched'
  <2> SUFFICES ASSUME NEW q \in Projects \ Created'
               PROVE  /\ epochStart'[q] = 0 /\ balance'[q] = 0
                      /\ \A a \in Addresses : claimed'[q][a] = 0 /\ lastClaimEpoch'[q][a] = NoEpoch
    BY DEF Untouched
  <2>1. q \in Projects \ Created /\ q # p
    OBVIOUS
  <2>2. SameKeys(q)
    BY <2>1
  <2>3. /\ epochStart[q] = 0 /\ balance[q] = 0
        /\ \A a \in Addresses : claimed[q][a] = 0 /\ lastClaimEpoch[q][a] = NoEpoch
    BY <2>1 DEF LedgersOk, Untouched
  <2> QED BY <2>2, <2>3 DEF SameKeys
<1> QED BY <1>2, <1>3, <1>4, <1>5 DEF LedgersOk

\* A step that writes no ledger of any project.
LEMMA LedgersStay ==
  ASSUME LedgersOk, Created' = Created,
         UNCHANGED <<claimed, lastClaimAmount, lastClaimEpoch, claimEpoch, epochStart, balance>>,
         \A q \in Created : project'[q].totalDistributed = project[q].totalDistributed
  PROVE  LedgersOk'
<1>1. \A q : EpochClaims(q)' = EpochClaims(q)
  BY DEF EpochClaims
<1>2. ClaimedLedgerAgrees'
  BY DEF LedgersOk, ClaimedLedgerAgrees
<1>3. EpochLedger'
  BY <1>1 DEF LedgersOk, EpochLedger
<1>4. EpochsPast' /\ Untouched'
  BY DEF LedgersOk, EpochsPast, Untouched
<1> QED BY <1>2, <1>3, <1>4 DEF LedgersOk

\* A step that opens a new epoch of p with the balance it leaves behind.
LEMMA EpochOpens ==
  ASSUME TypeOK, LedgersOk, NEW p \in Projects,
         claimEpoch' = [claimEpoch EXCEPT ![p] = @ + 1],
         epochStart' = [epochStart EXCEPT ![p] = balance'[p]],
         balance'[p] \in Nat,
         UNCHANGED lastClaimEpoch
  PROVE  /\ epochStart'[p] = balance'[p] + EpochClaims(p)'
         /\ \A a \in Addresses : lastClaimEpoch'[p][a] <= claimEpoch'[p]
         /\ \A q \in Projects : q # p => /\ claimEpoch'[q] = claimEpoch[q]
                                         /\ epochStart'[q] = epochStart[q]
<1>1. claimEpoch \in [Projects -> Nat] /\ epochStart \in [Projects -> Nat]
  BY DEF TypeOK
<1>2. /\ claimEpoch'[p] = claimEpoch[p] + 1 /\ claimEpoch[p] \in Nat
      /\ epochStart'[p] = balance'[p]
      /\ \A q \in Projects : q # p => /\ claimEpoch'[q] = claimEpoch[q]
                                      /\ epochStart'[q] = epochStart[q]
  BY <1>1
<1>3. ASSUME NEW a \in Addresses
      PROVE  lastClaimEpoch'[p][a] <= claimEpoch'[p] /\ lastClaimEpoch'[p][a] # claimEpoch'[p]
  <2>1. lastClaimEpoch[p][a] <= claimEpoch[p] /\ lastClaimEpoch[p][a] \in Int
    BY LedgerTypes DEF LedgersOk, EpochsPast
  <2> QED BY <1>2, <2>1
<1>4. EpochClaims(p)' = 0
  <2> DEFINE f == [a \in Addresses |->
                     IF lastClaimEpoch'[p][a] = claimEpoch'[p] THEN lastClaimAmount'[p][a] ELSE 0]
  <2>1. f \in [Addresses -> Int] /\ \A a \in Addresses : f[a] = 0
    BY <1>3
  <2>2. EpochClaims(p)' = SumFunction(f)
    BY DEF EpochClaims
  <2> HIDE DEF f
  <2> QED BY <2>1, <2>2, SumFunctionZero, ContractAssumption
<1> QED BY <1>2, <1>3, <1>4
-----------------------------------------------------------------------------
(* The steps that write a ledger *)

\* A new project has nothing paid and nothing claimed.
LEMMA CreateSettles ==
  ASSUME Inv, LedgersOk, NEW owner \in Owners, NEW p \in Projects,
         NEW title \in Titles, NEW t \in Tokens, NEW c \in CollabLists,
         CreateProject(owner, p, title, t, c)
  PROVE  LedgersOk'
<1>1. TypeOK /\ balance \in [Projects -> Nat]
  BY DEF Inv, TypeOK
<1>2. /\ p \notin Created /\ Created' = Created \cup {p}
      /\ balance' = [balance EXCEPT ![p] = 0]
      /\ UNCHANGED <<claimed, lastClaimAmount, lastClaimEpoch, claimEpoch, epochStart>>
  BY DEF CreateProject, Created
<1>3. \A q \in Created : project'[q] = project[q] /\ q # p /\ q \in Projects
  BY <1>1, <1>2 DEF CreateProject, TypeOK
<1>4. project'[p].totalDistributed = 0
  <2>1. project'[p] = StoredProject(t, owner, c, title)
    BY <1>2 DEF CreateProject
  <2> QED BY <2>1 DEF StoredProject
<1>5. /\ epochStart[p] = 0 /\ balance[p] = 0
      /\ \A a \in Addresses : claimed[p][a] = 0 /\ lastClaimEpoch[p][a] = NoEpoch
  BY <1>2 DEF LedgersOk, Untouched
<1>6. SumFunction(claimed'[p]) = 0
  <2>1. claimed[p] \in [Addresses -> Int] /\ IsFiniteSet(Addresses)
    BY <1>1, LedgerTypes
  <2>2. SumFunction(claimed[p]) = 0
    BY <1>5, <2>1, SumFunctionZero
  <2> QED BY <1>2, <2>2
<1>7. EpochClaims(p)' = 0
  <2>1. SameKeys(p)
    BY <1>1, <1>2, <1>5 DEF SameKeys
  <2>2. \A a \in Addresses : lastClaimEpoch[p][a] # claimEpoch[p]
    <3>1. claimEpoch[p] \in Nat
      BY <1>1, LedgerTypes
    <3> QED BY <1>5, <3>1 DEF NoEpoch
  <2>3. EpochClaims(p) = 0
    BY <2>2, NoClaims, ContractAssumption
  <2> QED BY <2>1, <2>3, SameClaims
<1>8. balance'[p] = 0 /\ \A q \in Created : balance'[q] = balance[q]
  BY <1>1, <1>2, <1>3
<1>9. \A a \in Addresses : lastClaimEpoch'[p][a] <= claimEpoch'[p]
  BY <1>2 DEF LedgersOk, EpochsPast
<1>10. \A q \in Projects : q # p => SameKeys(q)
  BY <1>1, <1>2 DEF SameKeys
<1>11. p \in Created' /\ epochStart'[p] = balance'[p] + EpochClaims(p)'
  BY <1>2, <1>5, <1>7, <1>8
<1> QED BY <1>2, <1>3, <1>4, <1>6, <1>8, <1>9, <1>10, <1>11, OthersKeep

\* A deposit opens a new epoch of its project.
LEMMA DepositSettles ==
  ASSUME Inv, LedgersOk, NEW p \in Created, NEW n \in Amounts, Deposit(p, n)
  PROVE  LedgersOk'
<1>1. TypeOK /\ p \in Projects /\ n \in Nat /\ balance \in [Projects -> Nat]
  BY ProjectTypes, ContractAssumption DEF Inv, TypeOK
<1>2. /\ balance' = [balance EXCEPT ![p] = @ + n]
      /\ claimEpoch' = [claimEpoch EXCEPT ![p] = @ + 1]
      /\ epochStart' = [epochStart EXCEPT ![p] = balance'[p]]
      /\ UNCHANGED <<project, claimed, lastClaimAmount, lastClaimEpoch>>
  BY DepositEffect
<1>3. balance'[p] \in Nat /\ \A q \in Projects : q # p => balance'[q] = balance[q]
  BY <1>1, <1>2
<1>4. /\ epochStart'[p] = balance'[p] + EpochClaims(p)'
      /\ \A a \in Addresses : lastClaimEpoch'[p][a] <= claimEpoch'[p]
      /\ \A q \in Projects : q # p => /\ claimEpoch'[q] = claimEpoch[q]
                                      /\ epochStart'[q] = epochStart[q]
  BY <1>1, <1>2, <1>3, EpochOpens
<1>5. \A q \in Projects : q # p => SameKeys(q)
  BY <1>2, <1>3, <1>4 DEF SameKeys
<1>6. SumFunction(claimed'[p]) = project'[p].totalDistributed
  BY <1>2 DEF LedgersOk, ClaimedLedgerAgrees
<1>7. p \in Created' /\ Created' = Created \cup {p} /\ Created \subseteq Projects
  BY <1>1, <1>2 DEF Created, TypeOK
<1> QED BY <1>1, <1>2, <1>3, <1>4, <1>5, <1>6, <1>7, OthersKeep

\* A distribution adds the balance to the claims and opens a new epoch.
LEMMA DistributeSettles ==
  ASSUME Inv, LedgersOk, NEW p, DistributeItem(p)
  PROVE  LedgersOk'
<1> DEFINE c == project[p].collaborators
           b == balance[p]
           row == [a \in Addresses |-> claimed[p][a] + PaidTo(c, b, a)]
<1>1. /\ p \in Created /\ TypeOK /\ p \in Projects /\ c \in Seq(Collaborator)
      /\ ValidCollaborators(c, MaxCap) /\ b \in Nat
  BY DistributeEffect
<1>2. /\ claimed' = [claimed EXCEPT ![p] = row]
      /\ balance' = [balance EXCEPT ![p] = @ - b]
      /\ claimEpoch' = [claimEpoch EXCEPT ![p] = @ + 1]
      /\ epochStart' = [epochStart EXCEPT ![p] = balance'[p]]
      /\ UNCHANGED <<lastClaimAmount, lastClaimEpoch>>
  BY DistributeEffect
<1>3. PICK new \in SplitProject :
        /\ project' = [project EXCEPT ![p] = new]
        /\ new.totalDistributed = project[p].totalDistributed + b
  BY DistributeEffect
<1>4. /\ balance \in [Projects -> Nat] /\ project \in [Created -> SplitProject]
      /\ claimed \in [Projects -> [Addresses -> Nat]] /\ Created \subseteq Projects
  BY <1>1 DEF TypeOK
<1>5. balance'[p] \in Nat /\ \A q \in Projects : q # p => balance'[q] = balance[q]
  <2>1. b - b \in Nat
    BY <1>1
  <2> QED BY <1>1, <1>2, <1>4, <2>1
<1>6. /\ epochStart'[p] = balance'[p] + EpochClaims(p)'
      /\ \A a \in Addresses : lastClaimEpoch'[p][a] <= claimEpoch'[p]
      /\ \A q \in Projects : q # p => /\ claimEpoch'[q] = claimEpoch[q]
                                      /\ epochStart'[q] = epochStart[q]
  BY <1>1, <1>2, <1>5, EpochOpens
<1>7. SumFunction(row) = SumFunction(claimed[p]) + b
  <2>1. claimed[p] \in [Addresses -> Nat]
    BY <1>1, LedgerTypes
  <2> QED BY <1>1, <2>1, ClaimsGrowByBalance
<1> HIDE DEF row
<1>8. claimed'[p] = row /\ \A q \in Projects : q # p => claimed'[q] = claimed[q]
  BY <1>1, <1>2, <1>4
<1>9. \A q \in Projects : q # p => SameKeys(q)
  BY <1>2, <1>5, <1>6, <1>8 DEF SameKeys
<1>10. /\ Created' = Created /\ project'[p] = new
       /\ \A q \in Created : q # p => project'[q] = project[q]
  BY <1>1, <1>3, <1>4 DEF Created
<1>11. SumFunction(claimed'[p]) = project'[p].totalDistributed
  <2>1. SumFunction(claimed[p]) = project[p].totalDistributed
    BY <1>1 DEF LedgersOk, ClaimedLedgerAgrees
  <2> QED BY <1>3, <1>7, <1>8, <1>10, <2>1
<1>12. p \in Created' /\ Created' = Created \cup {p}
  BY <1>1, <1>10
<1> QED BY <1>1, <1>4, <1>5, <1>6, <1>9, <1>10, <1>11, <1>12, OthersKeep

\* A claim moves its amount from the balance to one account's claims, in the
\* ledger of all time and in the ledger of the epoch.
LEMMA ClaimSettles ==
  ASSUME Inv, LedgersOk, NEW p \in Created, NEW a \in Addresses,
         NEW i \in 1..Len(project[p].collaborators), Claim(p, a, i)
  PROVE  LedgersOk'
<1>1. /\ TypeOK /\ p \in Projects /\ project \in [Created -> SplitProject]
      /\ balance \in [Projects -> Nat] /\ Created \subseteq Projects
      /\ claimed \in [Projects -> [Addresses -> Nat]]
      /\ lastClaimAmount \in [Projects -> [Addresses -> Nat]]
      /\ lastClaimEpoch \in [Projects -> [Addresses -> Nat \cup {NoEpoch}]]
  BY DEF Inv, TypeOK
<1>2. PICK amount \in Nat, new \in SplitProject :
        /\ amount <= balance[p]
        /\ lastClaimEpoch[p][a] # claimEpoch[p]
        /\ balance' = [balance EXCEPT ![p] = @ - amount]
        /\ claimed' = [claimed EXCEPT ![p][a] = @ + amount]
        /\ lastClaimAmount' = [lastClaimAmount EXCEPT ![p][a] = amount]
        /\ lastClaimEpoch' = [lastClaimEpoch EXCEPT ![p][a] = claimEpoch[p]]
        /\ UNCHANGED <<claimEpoch, epochStart>>
        /\ project' = [project EXCEPT ![p] = new]
        /\ new.totalDistributed = project[p].totalDistributed + amount
  BY ClaimEffect
<1>3. /\ Created' = Created /\ project'[p] = new
      /\ \A q \in Created : q # p => project'[q] = project[q]
  BY <1>1, <1>2 DEF Created
<1>4. /\ balance'[p] = balance[p] - amount /\ balance[p] \in Nat
      /\ \A q \in Projects : q # p => balance'[q] = balance[q]
  BY <1>1, <1>2
<1>5. /\ claimed[p] \in [Addresses -> Int] /\ lastClaimAmount[p] \in [Addresses -> Nat]
      /\ lastClaimEpoch[p] \in [Addresses -> Int]
      /\ claimEpoch[p] \in Nat /\ IsFiniteSet(Addresses)
  BY <1>1, LedgerTypes
<1>6. /\ claimed'[p] = [claimed[p] EXCEPT ![a] = @ + amount]
      /\ lastClaimAmount'[p] = [lastClaimAmount[p] EXCEPT ![a] = amount]
      /\ lastClaimEpoch'[p] = [lastClaimEpoch[p] EXCEPT ![a] = claimEpoch[p]]
  BY <1>1, <1>2
<1>7. \A q \in Projects : q # p => SameKeys(q)
  BY <1>1, <1>2 DEF SameKeys
<1>8. SumFunction(claimed'[p]) = project'[p].totalDistributed
  <2>1. OneChange(Addresses, claimed[p], claimed'[p], a, amount)
    BY <1>5, <1>6 DEF OneChange
  <2>2. SumFunction(claimed'[p]) = SumFunction(claimed[p]) + amount
    BY <2>1, SumFunctionChange
  <2>3. SumFunction(claimed[p]) = project[p].totalDistributed
    BY DEF LedgersOk, ClaimedLedgerAgrees
  <2> QED BY <1>2, <1>3, <2>2, <2>3
<1>9. EpochClaims(p)' = EpochClaims(p) + amount /\ EpochClaims(p) \in Int
  <2> DEFINE f == [x \in Addresses |->
                     IF lastClaimEpoch[p][x] = claimEpoch[p] THEN lastClaimAmount[p][x] ELSE 0]
             g == [x \in Addresses |->
                     IF lastClaimEpoch'[p][x] = claimEpoch'[p] THEN lastClaimAmount'[p][x] ELSE 0]
  <2>1. f \in [Addresses -> Int] /\ f[a] = 0
    BY <1>2, <1>5
  <2>2. g[a] = amount
    BY <1>2, <1>5, <1>6
  <2>3. \A x \in Addresses : x # a => g[x] = f[x]
    BY <1>2, <1>5, <1>6
  <2>4. EpochClaims(p) = SumFunction(f) /\ EpochClaims(p)' = SumFunction(g)
    BY DEF EpochClaims
  <2>5. g = [x \in Addresses |-> g[x]]
    OBVIOUS
  <2> HIDE DEF f, g
  <2>6. \A x \in Addresses : g[x] \in Int
    BY <2>1, <2>2, <2>3
  <2>7. g \in [Addresses -> Int]
    BY <2>5, <2>6
  <2>8. OneChange(Addresses, f, g, a, amount)
    BY <1>5, <2>1, <2>2, <2>3, <2>7 DEF OneChange
  <2>9. SumFunction(g) = SumFunction(f) + amount
    BY <2>8, SumFunctionChange
  <2>10. SumFunction(f) \in Int
    BY <1>5, <2>1, SumFunctionInt
  <2> QED BY <2>4, <2>9, <2>10
<1>10. epochStart'[p] = balance'[p] + EpochClaims(p)'
  <2>1. epochStart[p] = balance[p] + EpochClaims(p)
    BY DEF LedgersOk, EpochLedger
  <2> QED BY <1>2, <1>4, <1>9, <2>1
<1>11. \A x \in Addresses : lastClaimEpoch'[p][x] <= claimEpoch'[p]
  <2>1. \A x \in Addresses : lastClaimEpoch[p][x] <= claimEpoch[p]
    BY <1>1 DEF LedgersOk, EpochsPast
  <2> QED BY <1>2, <1>5, <1>6, <2>1
<1>12. p \in Created' /\ Created' = Created \cup {p}
  BY <1>3
<1> QED BY <1>1, <1>3, <1>4, <1>7, <1>8, <1>10, <1>11, <1>12, OthersKeep

\* An owner's edit writes no ledger.
LEMMA EditsSettle ==
  ASSUME Inv, LedgersOk, NEW p \in Created, NEW signer \in Addresses,
         \/ \E c \in CollabLists : UpdateCollaborators(p, signer, c)
         \/ \E title \in Titles : UpdateProjectMetadata(p, signer, title)
         \/ LockProject(p, signer)
         \/ \E a \in Owners : TransferProjectOwnership(p, signer, a)
  PROVE  LedgersOk'
<1> DEFINE pr == project[p]
<1>1. project \in [Created -> SplitProject] /\ pr \in SplitProject
  BY DEF Inv, TypeOK
<1>2. ASSUME NEW new, OwnerEdits(p, signer, new),
             new.totalDistributed = pr.totalDistributed
      PROVE  LedgersOk'
  <2>1. /\ project' = [project EXCEPT ![p] = new]
        /\ UNCHANGED <<claimed, lastClaimAmount, lastClaimEpoch, claimEpoch, epochStart, balance>>
    BY <1>2 DEF OwnerEdits
  <2>2. /\ Created' = Created
        /\ \A q \in Created : project'[q].totalDistributed = project[q].totalDistributed
    BY <1>1, <1>2, <2>1 DEF Created
  <2> QED BY <2>1, <2>2, LedgersStay
<1>3. ASSUME NEW c, UpdateCollaborators(p, signer, c) PROVE LedgersOk'
  <2> DEFINE new == [pr EXCEPT !.collaborators = c]
  <2>1. OwnerEdits(p, signer, new) /\ new.totalDistributed = pr.totalDistributed
    BY <1>1, <1>3 DEF UpdateCollaborators, SplitProject
  <2> HIDE DEF new
  <2> QED BY <1>2, <2>1
<1>4. ASSUME NEW title, UpdateProjectMetadata(p, signer, title) PROVE LedgersOk'
  <2> DEFINE new == [pr EXCEPT !.title = title]
  <2>1. OwnerEdits(p, signer, new) /\ new.totalDistributed = pr.totalDistributed
    BY <1>1, <1>4 DEF UpdateProjectMetadata, SplitProject
  <2> HIDE DEF new
  <2> QED BY <1>2, <2>1
<1>5. ASSUME LockProject(p, signer) PROVE LedgersOk'
  <2> DEFINE new == [pr EXCEPT !.locked = TRUE]
  <2>1. OwnerEdits(p, signer, new) /\ new.totalDistributed = pr.totalDistributed
    BY <1>1, <1>5 DEF LockProject, SplitProject
  <2> HIDE DEF new
  <2> QED BY <1>2, <2>1
<1>6. ASSUME NEW a, TransferProjectOwnership(p, signer, a) PROVE LedgersOk'
  <2> DEFINE new == [pr EXCEPT !.owner = a]
  <2>1. OwnerEdits(p, signer, new) /\ new.totalDistributed = pr.totalDistributed
    BY <1>1, <1>6 DEF TransferProjectOwnership, SplitProject
  <2> HIDE DEF new
  <2> QED BY <1>2, <2>1
<1> QED BY <1>3, <1>4, <1>5, <1>6

\* The ledgers of the initial states are empty.
LEMMA LedgersStart ==
  ASSUME Init, Inv PROVE AllowlistAgrees /\ LedgersOk
<1>1. CommonInit
  BY DEF Init, FreshInit, LegacyInit
<1>2. TypeOK
  BY DEF Inv
<1>3. AllowlistAgrees
  BY <1>1 DEF CommonInit, ConfigInit, AllowlistAgrees
<1>4. \A p \in Projects : /\ claimEpoch[p] = 0
                          /\ \A a \in Addresses : claimed[p][a] = 0 /\ lastClaimEpoch[p][a] = NoEpoch
  BY <1>1 DEF CommonInit
<1>5. epochStart = balance /\ \A p \in Projects \ Created : balance[p] = 0
  BY DEF Init, FreshInit, LegacyInit, Created
<1>6. \A p \in Created : p \in Projects /\ project[p].totalDistributed = 0
  <2>1. CASE FreshInit
    BY <2>1 DEF FreshInit, Created
  <2>2. CASE LegacyInit
    BY <2>2 DEF LegacyInit, Created, StoredProject
  <2> QED BY <2>1, <2>2 DEF Init
<1>7. ClaimedLedgerAgrees
  <2> SUFFICES ASSUME NEW p \in Created
               PROVE  SumFunction(claimed[p]) = project[p].totalDistributed
    BY DEF ClaimedLedgerAgrees
  <2>1. claimed[p] \in [Addresses -> Int] /\ IsFiniteSet(Addresses)
    BY <1>2, <1>6, LedgerTypes
  <2>2. \A a \in Addresses : claimed[p][a] = 0
    BY <1>4, <1>6
  <2>3. SumFunction(claimed[p]) = 0
    BY <2>1, <2>2, SumFunctionZero
  <2> QED BY <1>6, <2>3
<1>8. EpochLedger
  <2> SUFFICES ASSUME NEW p \in Created
               PROVE  epochStart[p] = balance[p] + EpochClaims(p)
    BY DEF EpochLedger
  <2>1. \A a \in Addresses : lastClaimEpoch[p][a] # claimEpoch[p]
    BY <1>4, <1>6 DEF NoEpoch
  <2>2. EpochClaims(p) = 0
    BY <2>1, NoClaims, ContractAssumption
  <2>3. balance[p] \in Nat
    BY <1>2, <1>6, LedgerTypes
  <2> QED BY <1>5, <2>2, <2>3
<1>9. EpochsPast /\ Untouched
  <2>1. EpochsPast
    BY <1>4 DEF EpochsPast, NoEpoch
  <2>2. Untouched
    BY <1>4, <1>5 DEF Untouched
  <2> QED BY <2>1, <2>2
<1> QED BY <1>3, <1>7, <1>8, <1>9 DEF LedgersOk

\* Every step keeps the ledgers.
LEMMA StepSettles ==
  ASSUME Inv, LedgersOk, [Next]_vars PROVE LedgersOk'
<1>1. ASSUME UNCHANGED <<project, balance, claimed, lastClaimAmount, lastClaimEpoch,
                         claimEpoch, epochStart>>
      PROVE  LedgersOk'
  <2>1. Created' = Created
    BY <1>1 DEF Created
  <2> QED BY <1>1, <2>1, LedgersStay
<1>2. CASE UNCHANGED vars
  BY <1>1, <1>2 DEF vars, fundVars
<1>3. CASE UNCHANGED fundVars
  BY <1>1, <1>3 DEF fundVars
<1>4. CASE ManageProject
  BY <1>4, CreateSettles, EditsSettle DEF ManageProject
<1>5. CASE MoveFunds
  <2>1. ASSUME NEW p \in Created, Distribute(p) PROVE LedgersOk'
    BY <2>1, DistributeSettles DEF Distribute
  <2>2. ASSUME NEW signer, NEW t, NEW n, WithdrawUnallocated(signer, t, n) PROVE LedgersOk'
    BY <1>1, <2>2 DEF WithdrawUnallocated
  <2>3. ASSUME NEW t, NEW n, DirectTransfer(t, n) PROVE LedgersOk'
    BY <1>1, <2>3 DEF DirectTransfer
  <2>4. ASSUME NEW p \in Created, NEW n \in Amounts, Deposit(p, n) PROVE LedgersOk'
    BY <2>4, DepositSettles
  <2>5. ASSUME NEW p \in Created, NEW a \in Addresses,
               NEW i \in 1..Len(project[p].collaborators), Claim(p, a, i)
        PROVE  LedgersOk'
    BY <2>5, ClaimSettles
  <2> QED BY <1>5, <2>1, <2>2, <2>3, <2>4, <2>5, Zenon DEF MoveFunds
<1>6. CASE \E b \in Batches : BatchDistribute(b)
  BY <1>1, <1>6 DEF BatchDistribute
<1>7. CASE BatchItem
  <2>1. CASE DistributeItem(Head(batch))
    BY <2>1, DistributeSettles
  <2> QED BY <1>1, <1>7, <2>1 DEF BatchItem
<1> QED BY <1>2, <1>3, <1>4, <1>5, <1>6, <1>7 DEF Next

\* Only the administration writes the allowlist.
LEMMA StepKeepsAllowlist ==
  ASSUME TypeOK, AllowlistAgrees, [Next]_vars PROVE AllowlistAgrees'
<1>1. ASSUME UNCHANGED configVars PROVE AllowlistAgrees'
  BY <1>1 DEF configVars, AllowlistAgrees
<1>2. CASE ConfigNext
  BY <1>2, AllowlistKept DEF TypeOK
<1>3. ConfigNext \/ UNCHANGED configVars
  BY DEF Next, vars
<1> QED BY <1>1, <1>2, <1>3
-----------------------------------------------------------------------------
(* The theorems *)

LEMMA RecordsInvAlways == Spec => []RecordsInv
<1>1. Init => RecordsInv
  BY FreshHolds, LegacyHolds, LedgersStart DEF Init, RecordsInv
<1>2. RecordsInv /\ [Next]_vars => RecordsInv'
  <2> SUFFICES ASSUME RecordsInv, [Next]_vars PROVE RecordsInv'
    OBVIOUS
  <2>1. Inv /\ AllowlistAgrees /\ LedgersOk /\ TypeOK
    BY DEF RecordsInv, Inv
  <2>2. Inv' /\ AllowlistAgrees' /\ LedgersOk'
    BY <2>1, StepKeeps, StepSettles, StepKeepsAllowlist
  <2> QED BY <2>2 DEF RecordsInv
<1> QED BY <1>1, <1>2, PTL DEF Spec

\* What the contract stores twice agrees: the collaborators' claims add up to
\* the project's total, a claim epoch has paid exactly what its balance has
\* lost, and the allowlist's markers, list and counter say the same.
THEOREM RecordsAlwaysAgree == Spec => []RecordsAgree
<1>1. RecordsInv => RecordsAgree
  BY DEF RecordsInv, LedgersOk, RecordsAgree
<1> QED BY <1>1, RecordsInvAlways, PTL
-----------------------------------------------------------------------------
(* What a round pays *)

\* A step that counts no round of a project has nothing to show for it.
LEMMA NoRound ==
  ASSUME \A p \in Created : project'[p].distributionRound = project[p].distributionRound
  PROVE  PaysEverybody
BY DEF PaysEverybody

LEMMA RoundPays ==
  ASSUME Inv, NEW p, DistributeItem(p)
  PROVE  PaysEverybody
<1> DEFINE c == project[p].collaborators
           b == balance[p]
           gain(i) == claimed'[p][c[i].address] - claimed[p][c[i].address]
<1>1. /\ p \in Created /\ TypeOK /\ p \in Projects /\ c \in Seq(Collaborator)
      /\ ValidCollaborators(c, MaxCap) /\ b \in Nat
  BY DistributeEffect
<1>2. /\ claimed' = [claimed EXCEPT ![p] =
                       [a \in Addresses |-> claimed[p][a] + PaidTo(c, b, a)]]
      /\ balance' = [balance EXCEPT ![p] = @ - b]
  BY DistributeEffect
<1>3. PICK new \in SplitProject :
        /\ project' = [project EXCEPT ![p] = new]
        /\ new.totalDistributed = project[p].totalDistributed + b
        /\ new.distributionRound = project[p].distributionRound + 1
  BY DistributeEffect
<1>4. /\ balance \in [Projects -> Nat] /\ project \in [Created -> SplitProject]
      /\ claimed \in [Projects -> [Addresses -> Nat]]
  BY <1>1 DEF TypeOK
<1>5. project'[p] = new /\ \A q \in Created : q # p => project'[q] = project[q]
  BY <1>1, <1>3, <1>4
<1>6. balance'[p] = 0
  <2>1. balance'[p] = b - b
    BY <1>1, <1>2, <1>4
  <2> QED BY <1>1, <2>1
<1>7. /\ Payouts(c, b) \in Seq(Nat) /\ Len(Payouts(c, b)) = Len(c)
      /\ \A i \in 1..Len(c) - 1 : Payouts(c, b)[i] = Share(b, c[i].bps)
      /\ Payouts(c, b)[Len(c)] - Share(b, c[Len(c)].bps) \in 0..Len(c) - 1
  BY <1>1, DistributionIsExact, ConfigAssumption
<1>8. Len(c) \in Nat /\ Len(c) >= 2
  BY <1>1 DEF ValidCollaborators
<1>9. ASSUME NEW i \in 1..Len(c) PROVE gain(i) = Payouts(c, b)[i]
  <2> DEFINE a == c[i].address
             row == [x \in Addresses |-> claimed[p][x] + PaidTo(c, b, x)]
  <2>1. a \in Addresses
    <3>1. c[i] \in Collaborator
      BY <1>1
    <3> QED BY <3>1 DEF Collaborator
  <2>2. PaidTo(c, b, a) = Payouts(c, b)[i] /\ Payouts(c, b)[i] \in Nat
    BY <1>1, <1>7, PaidToOwn
  <2>3. claimed'[p] = row
    BY <1>1, <1>2, <1>4
  <2>4. row[a] = claimed[p][a] + Payouts(c, b)[i] /\ claimed[p][a] \in Nat
    BY <1>1, <1>4, <2>1, <2>2
  <2> HIDE DEF row, a
  <2>5. claimed'[p][a] - claimed[p][a] = Payouts(c, b)[i]
    BY <2>2, <2>3, <2>4
  <2> QED BY <2>5 DEF a
<1> HIDE DEF gain
<1>10. /\ \A i \in 1..Len(c) - 1 : gain(i) = Share(b, c[i].bps)
       /\ gain(Len(c)) - Share(b, c[Len(c)].bps) \in 0..Len(c) - 1
  <2>1. \A i \in 1..Len(c) - 1 : i \in 1..Len(c)
    BY <1>8
  <2>2. Len(c) \in 1..Len(c)
    BY <1>8
  <2> QED BY <1>7, <1>9, <2>1, <2>2
<1> SUFFICES ASSUME NEW q \in Created,
                    project'[q].distributionRound # project[q].distributionRound
             PROVE  /\ project'[q].distributionRound = project[q].distributionRound + 1
                    /\ balance'[q] = 0
                    /\ project'[q].totalDistributed = project[q].totalDistributed + balance[q]
                    /\ \A i \in 1..Len(project[q].collaborators) - 1 :
                         claimed'[q][project[q].collaborators[i].address]
                           - claimed[q][project[q].collaborators[i].address]
                         = Share(balance[q], project[q].collaborators[i].bps)
                    /\ claimed'[q][project[q].collaborators[Len(project[q].collaborators)].address]
                         - claimed[q][project[q].collaborators[Len(project[q].collaborators)].address]
                         - Share(balance[q],
                                 project[q].collaborators[Len(project[q].collaborators)].bps)
                       \in 0..Len(project[q].collaborators) - 1
  BY DEF PaysEverybody
<1>11. q = p
  BY <1>5
<1> QED BY <1>3, <1>5, <1>6, <1>10, <1>11, Zenon DEF gain

\* Every step that counts a round pays the whole balance out, each
\* collaborator at least its share rounded down, the last one at most one unit
\* per other collaborator more (distribute in lib.rs).
THEOREM RoundsPayEverybody == Spec => RoundPaysEverybody
<1>1. ASSUME Inv, [Next]_vars PROVE [PaysEverybody]_vars
  <2> SUFFICES ASSUME ~(UNCHANGED vars) PROVE PaysEverybody
    OBVIOUS
  <2>1. project \in [Created -> SplitProject] /\ TypeOK
    BY <1>1 DEF Inv, TypeOK
  <2>2. ASSUME UNCHANGED project PROVE PaysEverybody
    BY <2>2, NoRound
  <2>3. ASSUME NEW p \in Created, NEW new, project' = [project EXCEPT ![p] = new],
               new.distributionRound = project[p].distributionRound
        PROVE  PaysEverybody
    <3>1. \A q \in Created : project'[q].distributionRound = project[q].distributionRound
      BY <2>1, <2>3
    <3> QED BY <3>1, NoRound
  <2>4. ASSUME NEW owner, NEW p, NEW title, NEW t, NEW c, CreateProject(owner, p, title, t, c)
        PROVE  PaysEverybody
    <3>1. \A q \in Created : project'[q] = project[q]
      BY <2>4 DEF CreateProject
    <3> QED BY <3>1, NoRound
  <2>5. ASSUME NEW p \in Created, NEW signer \in Addresses,
               \/ \E c \in CollabLists : UpdateCollaborators(p, signer, c)
               \/ \E title \in Titles : UpdateProjectMetadata(p, signer, title)
               \/ LockProject(p, signer)
               \/ \E a \in Owners : TransferProjectOwnership(p, signer, a)
        PROVE  PaysEverybody
    <3> DEFINE pr == project[p]
    <3>1. pr \in SplitProject
      BY <2>1
    <3>2. ASSUME NEW c, UpdateCollaborators(p, signer, c) PROVE PaysEverybody
      <4> DEFINE new == [pr EXCEPT !.collaborators = c]
      <4>1. /\ project' = [project EXCEPT ![p] = new]
            /\ new.distributionRound = pr.distributionRound
        BY <3>1, <3>2 DEF UpdateCollaborators, OwnerEdits, SplitProject
      <4> HIDE DEF new
      <4> QED BY <2>3, <4>1
    <3>3. ASSUME NEW title, UpdateProjectMetadata(p, signer, title) PROVE PaysEverybody
      <4> DEFINE new == [pr EXCEPT !.title = title]
      <4>1. /\ project' = [project EXCEPT ![p] = new]
            /\ new.distributionRound = pr.distributionRound
        BY <3>1, <3>3 DEF UpdateProjectMetadata, OwnerEdits, SplitProject
      <4> HIDE DEF new
      <4> QED BY <2>3, <4>1
    <3>4. ASSUME LockProject(p, signer) PROVE PaysEverybody
      <4> DEFINE new == [pr EXCEPT !.locked = TRUE]
      <4>1. /\ project' = [project EXCEPT ![p] = new]
            /\ new.distributionRound = pr.distributionRound
        BY <3>1, <3>4 DEF LockProject, OwnerEdits, SplitProject
      <4> HIDE DEF new
      <4> QED BY <2>3, <4>1
    <3>5. ASSUME NEW a, TransferProjectOwnership(p, signer, a) PROVE PaysEverybody
      <4> DEFINE new == [pr EXCEPT !.owner = a]
      <4>1. /\ project' = [project EXCEPT ![p] = new]
            /\ new.distributionRound = pr.distributionRound
        BY <3>1, <3>5 DEF TransferProjectOwnership, OwnerEdits, SplitProject
      <4> HIDE DEF new
      <4> QED BY <2>3, <4>1
    <3> QED BY <2>5, <3>2, <3>3, <3>4, <3>5
  <2>6. ASSUME NEW p, DistributeItem(p) PROVE PaysEverybody
    BY <1>1, <2>6, RoundPays
  <2>7. ASSUME NEW p \in Created, NEW a \in Addresses,
               NEW i \in 1..Len(project[p].collaborators), Claim(p, a, i)
        PROVE  PaysEverybody
    <3>1. PICK amount \in Nat, new \in SplitProject :
            /\ project' = [project EXCEPT ![p] = new]
            /\ new.distributionRound = project[p].distributionRound
      BY <1>1, <2>7, ClaimEffect
    <3> QED BY <2>3, <3>1
  <2>8. CASE ManageProject
    BY <2>4, <2>5, <2>8 DEF ManageProject
  <2>9. CASE MoveFunds
    <3>1. ASSUME NEW p \in Created, NEW n \in Amounts, Deposit(p, n) PROVE PaysEverybody
      BY <2>2, <3>1, DepositEffect
    <3>2. ASSUME NEW p \in Created, Distribute(p) PROVE PaysEverybody
      BY <2>6, <3>2 DEF Distribute
    <3>3. ASSUME NEW signer \in Addresses, NEW t \in Tokens, NEW n \in Amounts,
                 WithdrawUnallocated(signer, t, n)
          PROVE  PaysEverybody
      BY <2>2, <3>3 DEF WithdrawUnallocated
    <3>4. ASSUME NEW t \in Tokens, NEW n \in Amounts, DirectTransfer(t, n)
          PROVE  PaysEverybody
      BY <2>2, <3>4 DEF DirectTransfer
    <3> QED BY <2>7, <2>9, <3>1, <3>2, <3>3, <3>4, Zenon DEF MoveFunds
  <2>10. CASE UNCHANGED fundVars
    BY <2>2, <2>10 DEF fundVars
  <2>11. CASE \E b \in Batches : BatchDistribute(b)
    BY <2>2, <2>11 DEF BatchDistribute
  <2>12. CASE BatchItem
    BY <2>2, <2>6, <2>12 DEF BatchItem
  <2> QED BY <1>1, <2>8, <2>9, <2>10, <2>11, <2>12 DEF Next
<1> QED BY <1>1, InvAlways, PTL DEF Spec, RoundPaysEverybody
-----------------------------------------------------------------------------
(* The escrow the contract implements *)

\* The refinement mapping.
Paid == [p \in Projects |-> IF p \in Created THEN project[p].totalDistributed ELSE 0]
Free == [t \in Tokens |-> held[t] - SumProjectBalances(t, balance)]

\* A step that only touches what the escrow does not see.
LEMMA EscrowStutters ==
  ASSUME ids' = ids, Created' = Created,
         UNCHANGED <<balance, held>>,
         \A q \in Created : /\ project'[q].token = project[q].token
                            /\ project'[q].totalDistributed = project[q].totalDistributed
  PROVE  UNCHANGED Held!vars
<1>1. Paid' = Paid
  BY DEF Paid
<1>2. Free' = Free
  <2>1. \A t : SumProjectBalances(t, balance)' = SumProjectBalances(t, balance)
    BY SameLoop
  <2> QED BY <2>1 DEF Free
<1> QED BY <1>1, <1>2 DEF Held!vars, Paid, Free

\* A step that moves d into or out of a project, and the holding with it,
\* leaves what belongs to nobody alone.
LEMMA FreeStays ==
  ASSUME TypeOK, IndexOk, NEW p \in Created, NEW d \in Int,
         ids' = ids, Created' = Created,
         \A q \in Created : project'[q].token = project[q].token,
         balance' \in [Projects -> Nat],
         balance' = [balance EXCEPT ![p] = @ + d],
         held' = [held EXCEPT ![project[p].token] = @ + d]
  PROVE  Free' = Free
<1>1. held \in [Tokens -> Nat] /\ project[p].token \in Tokens
  BY ProjectTypes DEF TypeOK
<1>2. ASSUME NEW t \in Tokens
      PROVE  held'[t] - SumProjectBalances(t, balance)' = held[t] - SumProjectBalances(t, balance)
  <2>1. /\ SumProjectBalances(t, balance)' = SumProjectBalances(t, balance')
        /\ SumProjectBalances(t, balance) \in Nat
        /\ t = project[p].token => SumProjectBalances(t, balance')
                                     = SumProjectBalances(t, balance) + d
        /\ t # project[p].token => SumProjectBalances(t, balance')
                                     = SumProjectBalances(t, balance)
    BY SumsMove
  <2>2. CASE t = project[p].token
    <3>1. held'[t] = held[t] + d /\ held[t] \in Nat
      BY <1>1, <2>2
    <3> QED BY <2>1, <2>2, <3>1
  <2>3. CASE t # project[p].token
    <3>1. held'[t] = held[t] /\ held[t] \in Nat
      BY <1>1, <2>3
    <3> QED BY <2>1, <2>3, <3>1
  <2> QED BY <2>2, <2>3
<1> QED BY <1>2 DEF Free

\* Paying n out of a project is the escrow's Pay.
LEMMA PaymentPays ==
  ASSUME TypeOK, IndexOk, NEW p \in Created, NEW n \in Nat, n > 0, n <= balance[p],
         ids' = ids, NEW new \in SplitProject, project' = [project EXCEPT ![p] = new],
         new.token = project[p].token,
         new.totalDistributed = project[p].totalDistributed + n,
         balance' = [balance EXCEPT ![p] = @ - n],
         TransferOut(project[p].token, n)
  PROVE  Held!Next
<1>1. /\ p \in Projects /\ balance \in [Projects -> Nat] /\ held \in [Tokens -> Nat]
      /\ project \in [Created -> SplitProject] /\ project[p].token \in Tokens
      /\ project[p].totalDistributed \in Nat /\ Created \subseteq Projects
  BY ProjectTypes DEF TypeOK
<1>2. /\ Created' = Created /\ project'[p] = new
      /\ \A q \in Created : q # p => project'[q] = project[q]
  BY <1>1 DEF Created
<1>3. balance'[p] = balance[p] - n /\ balance[p] \in Nat /\ balance[p] - balance'[p] = n
  BY <1>1
<1>4. balance' \in [Projects -> Nat]
  <2>1. balance[p] - n \in Nat
    BY <1>3
  <2> QED BY <1>1, <2>1
<1>5. Free' = Free
  <2> DEFINE d == -n
  <2>1. d \in Int
    OBVIOUS
  <2>2. balance' = [balance EXCEPT ![p] = @ + d]
    <3>1. balance[p] - n = balance[p] + d
      BY <1>1
    <3> QED BY <3>1
  <2>3. held' = [held EXCEPT ![project[p].token] = @ + d]
    <3>1. held[project[p].token] - n = held[project[p].token] + d
      BY <1>1
    <3>2. held' = [held EXCEPT ![project[p].token] = @ - n]
      BY DEF TransferOut
    <3> QED BY <3>1, <3>2
  <2>4. \A q \in Created : project'[q].token = project[q].token
    BY <1>2
  <2> HIDE DEF d
  <2> QED BY <1>2, <1>4, <2>1, <2>2, <2>3, <2>4, FreeStays
<1>6. Paid' = [Paid EXCEPT ![p] = @ + n]
  <2>1. Paid'[p] = Paid[p] + n
    BY <1>1, <1>2 DEF Paid
  <2>2. \A q \in Projects : q # p => Paid'[q] = Paid[q]
    BY <1>2 DEF Paid
  <2>3. /\ Paid' = [q \in Projects |-> Paid'[q]] /\ Paid = [q \in Projects |-> Paid[q]]
    BY DEF Paid
  <2> QED BY <1>1, <2>1, <2>2, <2>3
<1>7. Held!Pay(p)
  <2>1. balance[p] - balance'[p] > 0 /\ balance'[p] >= 0
    BY <1>3
  <2>2. balance' = [balance EXCEPT ![p] = @ - (balance[p] - balance'[p])]
    BY <1>3
  <2>3. Paid' = [Paid EXCEPT ![p] = @ + (balance[p] - balance'[p])]
    BY <1>3, <1>6
  <2> QED BY <1>2, <1>5, <2>1, <2>2, <2>3 DEF Held!Pay, Paid, Free
<1> QED BY <1>1, <1>7 DEF Held!Next

\* A deposit is the escrow's Fund.
LEMMA DepositFunds ==
  ASSUME TypeOK, IndexOk, NEW p \in Created, NEW n \in Amounts, Deposit(p, n)
  PROVE  Held!Next
<1>1. /\ p \in Projects /\ balance \in [Projects -> Nat] /\ n \in Nat
      /\ project[p].token \in Tokens
  BY ProjectTypes, ContractAssumption DEF TypeOK
<1>2. /\ n > 0
      /\ balance' = [balance EXCEPT ![p] = @ + n]
      /\ held' = [held EXCEPT ![project[p].token] = @ + n]
      /\ UNCHANGED <<ids, project>>
  BY DepositEffect
<1>3. /\ Created' = Created /\ \A q \in Created : project'[q].token = project[q].token
      /\ balance' \in [Projects -> Nat]
      /\ balance'[p] > balance[p] /\ balance' = [balance EXCEPT ![p] = balance'[p]]
  BY <1>1, <1>2 DEF Created
<1>4. Free' = Free
  <2>1. n \in Int
    BY <1>1
  <2> QED BY <1>2, <1>3, <2>1, FreeStays
<1>5. Paid' = Paid
  BY <1>2, <1>3 DEF Paid
<1>6. Held!Fund(p)
  BY <1>3, <1>4, <1>5 DEF Held!Fund, Paid, Free
<1> QED BY <1>1, <1>6 DEF Held!Next

\* Creating a project is the escrow's Open.
LEMMA CreateOpens ==
  ASSUME Inv, Untouched, NEW owner \in Owners, NEW p \in Projects,
         NEW title \in Titles, NEW t \in Tokens, NEW c \in CollabLists,
         CreateProject(owner, p, title, t, c)
  PROVE  Held!Next
<1>1. TypeOK /\ IndexOk /\ balance \in [Projects -> Nat]
  BY DEF Inv, BooksOk, TypeOK
<1>2. /\ p \notin Created /\ Created' = Created \cup {p}
      /\ ids' = Append(ids, p) /\ balance' = [balance EXCEPT ![p] = 0]
      /\ UNCHANGED <<held, deposited>>
  BY DEF CreateProject, Created
<1>3. \A q \in Created : project'[q] = project[q] /\ q # p
  BY <1>2 DEF CreateProject
<1>4. project'[p].totalDistributed = 0
  <2>1. project'[p] = StoredProject(t, owner, c, title)
    BY <1>2 DEF CreateProject
  <2> QED BY <2>1 DEF StoredProject
<1>5. Free' = Free
  <2>1. \A u : SumProjectBalances(u, balance)' = SumProjectBalances(u, balance)
    BY <1>1, <1>2, <1>3, CreateSums
  <2> QED BY <1>2, <2>1 DEF Free
<1>6. Paid' = Paid
  <2>1. \A q \in Projects : Paid'[q] = Paid[q]
    BY <1>2, <1>3, <1>4 DEF Paid
  <2>2. /\ Paid' = [q \in Projects |-> Paid'[q]] /\ Paid = [q \in Projects |-> Paid[q]]
    BY DEF Paid
  <2> QED BY <2>1, <2>2
<1>7. balance' = balance
  <2>1. balance[p] = 0
    BY <1>2 DEF Untouched
  <2> QED BY <1>1, <1>2, <2>1
<1>8. Held!Open(p)
  BY <1>2, <1>5, <1>6, <1>7 DEF Held!Open, Paid, Free
<1> QED BY <1>8 DEF Held!Next

\* Tokens sent without a call are Stray, what the admin recovers is Sweep.
LEMMA HoldingStraysOrSweeps ==
  ASSUME Inv, NEW t \in Tokens, NEW n \in Amounts,
         \/ \E signer \in Addresses : WithdrawUnallocated(signer, t, n)
         \/ DirectTransfer(t, n)
  PROVE  Held!Next
<1>1. TypeOK /\ BooksOk /\ n \in Nat /\ held \in [Tokens -> Nat] /\ n > 0
  BY ContractAssumption DEF Inv, TypeOK, WithdrawUnallocated, DirectTransfer
<1>2. UNCHANGED <<ids, project, balance>> /\ Created' = Created
  BY DEF WithdrawUnallocated, DirectTransfer, Created
<1>3. \A u : SumProjectBalances(u, balance)' = SumProjectBalances(u, balance)
  BY <1>2, SameLoop
<1>4. \A u \in Tokens : SumProjectBalances(u, balance) \in Nat
  BY <1>1, EntriesType DEF TypeOK
<1>5. Paid' = Paid
  BY <1>2 DEF Paid
<1>6. ASSUME NEW x \in Int, held' = [held EXCEPT ![t] = x]
      PROVE  /\ Free' = [Free EXCEPT ![t] = Free'[t]]
             /\ Free'[t] = x - SumProjectBalances(t, balance)
             /\ Free[t] = held[t] - SumProjectBalances(t, balance)
  <2>1. \A u \in Tokens : u # t => held'[u] = held[u]
    BY <1>1, <1>6
  <2>2. held'[t] = x
    BY <1>1, <1>6
  <2>3. \A u \in Tokens : u # t => Free'[u] = Free[u]
    BY <1>3, <2>1 DEF Free
  <2>4. /\ Free'[t] = x - SumProjectBalances(t, balance)
        /\ Free[t] = held[t] - SumProjectBalances(t, balance)
    BY <1>3, <2>2 DEF Free
  <2>5. Free' = [u \in Tokens |-> Free'[u]] /\ Free = [u \in Tokens |-> Free[u]]
    BY DEF Free
  <2> QED BY <2>3, <2>4, <2>5
<1>7. CASE DirectTransfer(t, n)
  <2>1. held' = [held EXCEPT ![t] = held[t] + n] /\ held[t] \in Nat
    BY <1>1, <1>7 DEF DirectTransfer, TransferIn
  <2>2. Free'[t] > Free[t] /\ Free' = [Free EXCEPT ![t] = Free'[t]]
    <3>1. PICK x \in Int : x = held[t] + n
      BY <1>1, <2>1
    <3>2. /\ Free'[t] = x - SumProjectBalances(t, balance)
          /\ Free[t] = held[t] - SumProjectBalances(t, balance)
          /\ Free' = [Free EXCEPT ![t] = Free'[t]]
      <4>1. held' = [held EXCEPT ![t] = x]
        BY <2>1, <3>1
      <4> QED BY <1>6, <4>1
    <3> QED BY <1>1, <1>4, <2>1, <3>1, <3>2
  <2>3. Held!Stray(t)
    BY <1>2, <1>5, <2>2 DEF Held!Stray, Paid, Free
  <2> QED BY <2>3 DEF Held!Next
<1>8. CASE \E signer \in Addresses : WithdrawUnallocated(signer, t, n)
  <2>1. n <= UnallocatedBalance(t) /\ held' = [held EXCEPT ![t] = held[t] - n] /\ held[t] \in Nat
    BY <1>1, <1>8 DEF WithdrawUnallocated, TransferOut
  <2>2. AccountedBalance(t) = SumProjectBalances(t, balance)
    BY <1>1 DEF AccountedBalance, BooksOk, AccountedMatches
  <2>3. n <= held[t] - SumProjectBalances(t, balance)
    <3>1. SumProjectBalances(t, balance) <= held[t]
      BY <1>1 DEF BooksOk, Solvent
    <3>2. UnallocatedBalance(t) = held[t] - SumProjectBalances(t, balance)
      BY <1>4, <2>1, <2>2, <3>1 DEF UnallocatedBalance
    <3> QED BY <2>1, <3>2
  <2>4. 0 <= Free'[t] /\ Free'[t] < Free[t] /\ Free' = [Free EXCEPT ![t] = Free'[t]]
    <3>1. held[t] - n \in Int
      BY <1>1, <2>1
    <3>2. /\ Free'[t] = held[t] - n - SumProjectBalances(t, balance)
          /\ Free[t] = held[t] - SumProjectBalances(t, balance)
          /\ Free' = [Free EXCEPT ![t] = Free'[t]]
      BY <1>6, <2>1, <3>1
    <3> QED BY <1>1, <1>4, <2>1, <2>3, <3>2
  <2>5. Held!Sweep(t)
    BY <1>2, <1>5, <2>4 DEF Held!Sweep, Paid, Free
  <2> QED BY <2>5 DEF Held!Next
<1> QED BY <1>7, <1>8

\* A distribution and a claim are payments.
LEMMA PayoutsPay ==
  ASSUME Inv,
         \/ \E p : DistributeItem(p)
         \/ \E p \in Created, a \in Addresses :
              \E i \in 1..Len(project[p].collaborators) : Claim(p, a, i)
  PROVE  Held!Next
<1>1. TypeOK /\ IndexOk
  BY DEF Inv, BooksOk
<1>2. ASSUME NEW p, DistributeItem(p) PROVE Held!Next
  <2>1. /\ p \in Created /\ balance[p] \in Nat /\ balance[p] > 0
        /\ TransferOut(project[p].token, balance[p])
        /\ balance' = [balance EXCEPT ![p] = @ - balance[p]] /\ ids' = ids
    BY <1>2, DistributeEffect
  <2>2. PICK new \in SplitProject :
          /\ project' = [project EXCEPT ![p] = new]
          /\ new.token = project[p].token
          /\ new.totalDistributed = project[p].totalDistributed + balance[p]
    BY <1>2, DistributeEffect
  <2>3. balance[p] <= balance[p]
    BY <2>1
  <2> QED BY <1>1, <2>1, <2>2, <2>3, PaymentPays
<1>3. ASSUME NEW p \in Created, NEW a \in Addresses,
             NEW i \in 1..Len(project[p].collaborators), Claim(p, a, i)
      PROVE  Held!Next
  <2>1. PICK amount \in Nat, new \in SplitProject :
          /\ amount > 0 /\ amount <= balance[p]
          /\ balance' = [balance EXCEPT ![p] = @ - amount]
          /\ TransferOut(project[p].token, amount) /\ ids' = ids
          /\ project' = [project EXCEPT ![p] = new]
          /\ new.token = project[p].token
          /\ new.totalDistributed = project[p].totalDistributed + amount
    BY <1>3, ClaimEffect
  <2> QED BY <1>1, <2>1, PaymentPays
<1> QED BY <1>2, <1>3

\* An owner's edit is nothing to the escrow.
LEMMA EditsStutter ==
  ASSUME Inv, NEW p \in Created, NEW signer \in Addresses,
         \/ \E c \in CollabLists : UpdateCollaborators(p, signer, c)
         \/ \E title \in Titles : UpdateProjectMetadata(p, signer, title)
         \/ LockProject(p, signer)
         \/ \E a \in Owners : TransferProjectOwnership(p, signer, a)
  PROVE  UNCHANGED Held!vars
<1> DEFINE pr == project[p]
<1>1. project \in [Created -> SplitProject] /\ pr \in SplitProject
  BY DEF Inv, TypeOK
<1>2. ASSUME NEW new, OwnerEdits(p, signer, new), new.token = pr.token,
             new.totalDistributed = pr.totalDistributed
      PROVE  UNCHANGED Held!vars
  <2>1. project' = [project EXCEPT ![p] = new] /\ UNCHANGED <<ids, balance, held>>
    BY <1>2 DEF OwnerEdits
  <2>2. /\ Created' = Created
        /\ \A q \in Created : /\ project'[q].token = project[q].token
                              /\ project'[q].totalDistributed = project[q].totalDistributed
    BY <1>1, <1>2, <2>1 DEF Created
  <2> QED BY <2>1, <2>2, EscrowStutters
<1>3. ASSUME NEW c, UpdateCollaborators(p, signer, c) PROVE UNCHANGED Held!vars
  <2> DEFINE new == [pr EXCEPT !.collaborators = c]
  <2>1. /\ OwnerEdits(p, signer, new) /\ new.token = pr.token
        /\ new.totalDistributed = pr.totalDistributed
    BY <1>1, <1>3 DEF UpdateCollaborators, SplitProject
  <2> HIDE DEF new
  <2> QED BY <1>2, <2>1
<1>4. ASSUME NEW title, UpdateProjectMetadata(p, signer, title) PROVE UNCHANGED Held!vars
  <2> DEFINE new == [pr EXCEPT !.title = title]
  <2>1. /\ OwnerEdits(p, signer, new) /\ new.token = pr.token
        /\ new.totalDistributed = pr.totalDistributed
    BY <1>1, <1>4 DEF UpdateProjectMetadata, SplitProject
  <2> HIDE DEF new
  <2> QED BY <1>2, <2>1
<1>5. ASSUME LockProject(p, signer) PROVE UNCHANGED Held!vars
  <2> DEFINE new == [pr EXCEPT !.locked = TRUE]
  <2>1. /\ OwnerEdits(p, signer, new) /\ new.token = pr.token
        /\ new.totalDistributed = pr.totalDistributed
    BY <1>1, <1>5 DEF LockProject, SplitProject
  <2> HIDE DEF new
  <2> QED BY <1>2, <2>1
<1>6. ASSUME NEW a, TransferProjectOwnership(p, signer, a) PROVE UNCHANGED Held!vars
  <2> DEFINE new == [pr EXCEPT !.owner = a]
  <2>1. /\ OwnerEdits(p, signer, new) /\ new.token = pr.token
        /\ new.totalDistributed = pr.totalDistributed
    BY <1>1, <1>6 DEF TransferProjectOwnership, SplitProject
  <2> HIDE DEF new
  <2> QED BY <1>2, <2>1
<1> QED BY <1>3, <1>4, <1>5, <1>6

\* A deployment starts with no token that belongs to nobody.
LEMMA FreeAtStart ==
  ASSUME Init, TypeOK, NEW t \in Tokens
  PROVE  held[t] - SumProjectBalances(t, balance) = 0
<1> DEFINE s == TokenEntries(t, balance)
<1>1. s \in Seq(Int) /\ Len(s) = Len(ids) /\ balance \in [Projects -> Nat]
  BY EntriesType DEF TypeOK
<1>2. SumProjectBalances(t, balance) = Totals(s)[Len(ids)]
  BY <1>1 DEF SumProjectBalances, SeqSum
<1>3. CASE FreshInit
  <2>1. Len(ids) = 0 /\ held[t] = 0
    BY <1>3 DEF FreshInit
  <2> HIDE DEF s
  <2>2. Totals(s)[0] = 0
    BY <1>1, TotalsStep
  <2> QED BY <1>2, <2>1, <2>2
<1>4. CASE LegacyInit
  <2>1. PICK p, u, n, new :
          /\ p \in Projects /\ u \in Tokens /\ n \in LegacyFunds
          /\ ids = <<p>> /\ project = [q \in {p} |-> new] /\ new.token = u
          /\ balance = [q \in Projects |-> IF q = p THEN n ELSE 0]
          /\ held = [v \in Tokens |-> IF v = u THEN n ELSE 0]
    <3>1. PICK p \in Projects, u \in Tokens, o \in Owners, c \in CollabLists,
               title \in Titles, n \in LegacyFunds :
            /\ ids = <<p>>
            /\ project = [q \in {p} |-> StoredProject(u, o, c, title)]
            /\ balance = [q \in Projects |-> IF q = p THEN n ELSE 0]
            /\ held = [v \in Tokens |-> IF v = u THEN n ELSE 0]
      BY <1>4 DEF LegacyInit
    <3>2. StoredProject(u, o, c, title).token = u
      BY DEF StoredProject
    <3> QED BY <3>1, <3>2
  <2>2. n \in Nat
    BY <2>1, ContractAssumption
  <2>3. Len(ids) = 1 /\ ids[1] = p /\ Created = {p} /\ project[p].token = u /\ balance[p] = n
    BY <2>1 DEF Created
  <2>4. s[1] = held[t] /\ s[1] \in Nat
    <3>1. s[1] = IF u = t THEN n ELSE 0
      BY <2>3 DEF TokenEntries
    <3> HIDE DEF s
    <3> QED BY <2>1, <2>2, <3>1
  <2> HIDE DEF s
  <2>5. Totals(s)[1] = s[1]
    <3>1. Totals(s)[0] = 0 /\ \A i \in 1..Len(s) : Totals(s)[i] = Totals(s)[i - 1] + s[i]
      BY <1>1, TotalsStep
    <3>2. Totals(s)[1] = Totals(s)[1 - 1] + s[1]
      BY <1>1, <2>3, <3>1
    <3> QED BY <2>4, <3>1, <3>2
  <2> QED BY <1>2, <2>3, <2>4, <2>5
<1> QED BY <1>3, <1>4 DEF Init

\* The contract is the escrow it promises to be: a project's pot only grows by
\* a deposit and only shrinks by what its collaborators are paid, and nothing
\* but the tokens that belong to no project can leave by another way.
THEOREM ContractIsEscrow == Spec => IsEscrow
<1>1. Init => Held!Init
  <2> SUFFICES ASSUME Init PROVE Held!Init
    OBVIOUS
  <2>1. Inv /\ LedgersOk /\ TypeOK
    <3>1. Inv
      BY FreshHolds, LegacyHolds DEF Init
    <3> QED BY <3>1, LedgersStart DEF Inv
  <2>2. Created \in SUBSET Projects /\ balance \in [Projects -> Nat]
    BY <2>1 DEF TypeOK
  <2>3. \A p \in Projects \ Created : balance[p] = 0
    BY <2>1 DEF LedgersOk, Untouched
  <2>4. Paid = [p \in Projects |-> 0]
    <3>1. \A p \in Created : project[p].totalDistributed = 0
      <4>1. CASE FreshInit
        BY <4>1 DEF FreshInit, Created
      <4>2. CASE LegacyInit
        BY <4>2 DEF LegacyInit, Created, StoredProject
      <4> QED BY <4>1, <4>2 DEF Init
    <3> QED BY <3>1 DEF Paid
  <2>5. Free = [t \in Tokens |-> 0]
    <3>1. \A t \in Tokens : held[t] - SumProjectBalances(t, balance) = 0
      BY <2>1, FreeAtStart
    <3> QED BY <3>1 DEF Free
  <2> QED BY <2>2, <2>3, <2>4, <2>5 DEF Held!Init, Paid, Free
<1>2. ASSUME RecordsInv, [Next]_vars PROVE [Held!Next]_(Held!vars)
  <2>1. Inv /\ Untouched /\ TypeOK /\ IndexOk
    BY <1>2 DEF RecordsInv, LedgersOk, Inv, BooksOk
  <2>2. ASSUME UNCHANGED <<ids, project, balance, held>> PROVE UNCHANGED Held!vars
    <3>1. Created' = Created
      BY <2>2 DEF Created
    <3> QED BY <2>2, <3>1, EscrowStutters
  <2>3. CASE UNCHANGED vars
    BY <2>2, <2>3 DEF vars, fundVars
  <2>4. CASE UNCHANGED fundVars
    BY <2>2, <2>4 DEF fundVars
  <2>5. CASE ManageProject
    BY <2>1, <2>5, CreateOpens, EditsStutter DEF ManageProject
  <2>6. CASE MoveFunds
    <3>1. ASSUME NEW p \in Created, NEW n \in Amounts, Deposit(p, n) PROVE Held!Next
      BY <2>1, <3>1, DepositFunds
    <3>2. ASSUME NEW p \in Created, Distribute(p) PROVE Held!Next
      BY <2>1, <3>2, PayoutsPay DEF Distribute
    <3>3. ASSUME NEW p \in Created, NEW a \in Addresses,
                 NEW i \in 1..Len(project[p].collaborators), Claim(p, a, i)
          PROVE  Held!Next
      BY <2>1, <3>3, PayoutsPay
    <3>4. ASSUME NEW t \in Tokens, NEW n \in Amounts,
                 \/ \E signer \in Addresses : WithdrawUnallocated(signer, t, n)
                 \/ DirectTransfer(t, n)
          PROVE  Held!Next
      BY <2>1, <3>4, HoldingStraysOrSweeps
    <3> QED BY <2>6, <3>1, <3>2, <3>3, <3>4, Zenon DEF MoveFunds
  <2>7. CASE \E b \in Batches : BatchDistribute(b)
    BY <2>2, <2>7 DEF BatchDistribute
  <2>8. CASE BatchItem
    <3>1. CASE DistributeItem(Head(batch))
      BY <2>1, <3>1, PayoutsPay
    <3> QED BY <2>2, <2>8, <3>1 DEF BatchItem
  <2> QED BY <1>2, <2>3, <2>4, <2>5, <2>6, <2>7, <2>8 DEF Next
<1> QED BY <1>1, <1>2, RecordsInvAlways, PTL DEF Spec, IsEscrow, Held!Spec
=============================================================================
