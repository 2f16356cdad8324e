------------------------------ MODULE BooksProofs ------------------------------
(*****************************************************************************)
(* Proofs about what is written down and shown of payouts, one section per   *)
(* part of MCBooks, each for every value of its constants: finite tables and *)
(* sets of any size, pages of any size, any number of workers.               *)
(*****************************************************************************)
EXTENDS MCBooks, SumsProofs

-----------------------------------------------------------------------------
(* The finality of a transaction, for every policy, every set of validity   *)
(* bounds and nodes that are arbitrarily far behind.                        *)
(*                                                                          *)
(* An answer other than NOT_FOUND is the truth, however old; NOT_FOUND of a *)
(* node past the bound is the truth too, because nothing lands after its    *)
(* bound.                                                                   *)

\* The inductive invariant.
FinalityInv == TypeOK /\ NetworkSound /\ BookedIsTrue

\* The types of the ledger numbers.
LEMMA LedgerNumbers ==
  ASSUME TypeOK
  PROVE  /\ latest \in Nat /\ tx.ledger \in Nat /\ ConfirmationDepth \in Nat
         /\ MaxLedger \in Nat /\ submittedAtLedger = 1 /\ latest <= MaxLedger
         /\ validUntil # NoBound => validUntil \in Nat
BY FinalityAssumption DEF TypeOK, submittedAtLedger

\* A closing ledger moves neither the record nor a transaction that landed.
LEMMA CloseLedgerStep ==
  ASSUME FinalityInv, CloseLedger
  PROVE  FinalityInv'
<1>t. TypeOK /\ latest' = latest + 1 /\ UNCHANGED <<validUntil, state, conflict>>
  BY DEF FinalityInv, CloseLedger
<1>1. latest' \in submittedAtLedger..MaxLedger
  BY <1>t, LedgerNumbers DEF CloseLedger, TypeOK
<1>2. CASE tx' = tx
  <2>1. TypeOK' BY <1>t, <1>1, <1>2 DEF TypeOK
  <2>2. NetworkSound'
    BY <1>t, <1>2, LedgerNumbers DEF FinalityInv, NetworkSound, NotLanded
  <2>3. BookedIsTrue'
    BY <1>t, <1>2, LedgerNumbers DEF FinalityInv, BookedIsTrue, Landed, NotLanded
  <2> QED BY <2>1, <2>2, <2>3 DEF FinalityInv
<1>3. CASE MayLand /\ \E s \in {"SUCCESS", "FAILED"} : tx' = [ledger |-> latest + 1, status |-> s]
  <2>1. PICK s \in {"SUCCESS", "FAILED"} : tx' = [ledger |-> latest + 1, status |-> s]
    BY <1>3
  <2>2. /\ tx'.ledger = latest + 1 /\ tx'.status = s /\ tx' # NotLanded
        /\ tx = NotLanded /\ tx.status = "NOT_FOUND"
    BY <1>3, <2>1 DEF NotLanded, MayLand
  <2>3. TypeOK' BY <1>t, <1>1, <2>1, LedgerNumbers DEF TypeOK
  <2>4. validUntil # NoBound => latest + 1 <= validUntil
    BY <1>t, <1>3, LedgerNumbers DEF MayLand
  <2>5. NetworkSound' BY <1>t, <2>2, <2>4, LedgerNumbers DEF NetworkSound, NotLanded
  <2>6. /\ state \notin {"final", "included", "failed"}
        /\ ~(state = "expired" /\ validUntil # NoBound)
    BY <1>t, <2>2, <2>4, LedgerNumbers DEF FinalityInv, BookedIsTrue, Landed
  <2>7. BookedIsTrue' BY <1>t, <2>6 DEF BookedIsTrue
  <2> QED BY <2>3, <2>5, <2>7 DEF FinalityInv
<1> QED BY <1>2, <1>3 DEF CloseLedger

\* What a node answers is true of the network.
LEMMA ObservationIsTrue ==
  ASSUME TypeOK, NetworkSound, NEW node \in Nodes, NEW latestLedger \in Nodes,
         latestLedger <= node
  PROVE  LET observed == observedState(Lookup(node), latestLedger) IN
         /\ observed \in {"submitted", "included"} \cup TERMINAL_STATES
         /\ observed = "final" => Landed("SUCCESS") /\ latest >= tx.ledger + ConfirmationDepth
         /\ observed = "included" => Landed("SUCCESS")
         /\ observed = "failed" => Landed("FAILED")
         /\ observed = "expired" /\ validUntil # NoBound =>
              tx = NotLanded /\ latest > validUntil
<1> DEFINE observed == observedState(Lookup(node), latestLedger)
<1>1. /\ node \in Nat /\ latestLedger \in Nat /\ node <= latest /\ latestLedger <= latest
  BY LedgerNumbers DEF Nodes
<1>2. CASE Lookup(node) = "NOT_FOUND"
  <2>1. observed = IF Expired(latestLedger) THEN "expired" ELSE "submitted"
    BY <1>2 DEF observedState
  <2>2. ASSUME observed = "expired", validUntil # NoBound
        PROVE  tx = NotLanded /\ latest > validUntil
    <3>1. latestLedger > validUntil BY <2>1, <2>2 DEF Expired
    <3>2. node > validUntil /\ latest > validUntil
      BY <1>1, <2>2, <3>1, LedgerNumbers
    <3>3. CASE tx # NotLanded
      <4>1. tx.ledger <= node BY <1>1, <2>2, <3>2, <3>3, LedgerNumbers DEF NetworkSound
      <4> QED BY <1>2, <3>3, <4>1 DEF Lookup, NetworkSound
    <3> QED BY <3>2, <3>3
  <2> QED BY <2>1, <2>2 DEF TERMINAL_STATES
<1>3. CASE Lookup(node) # "NOT_FOUND"
  <2>1. Lookup(node) = tx.status /\ tx.ledger <= node /\ tx.status \in {"SUCCESS", "FAILED"}
    BY <1>3 DEF Lookup, TypeOK
  <2>2. Landed(tx.status) BY <1>1, <2>1, LedgerNumbers DEF Landed
  <2>3. CASE tx.status = "FAILED"
    <3>1. observed = "failed" BY <2>1, <2>3 DEF observedState
    <3> QED BY <2>2, <2>3, <3>1 DEF TERMINAL_STATES
  <2>4. CASE tx.status = "SUCCESS"
    <3>1. observed = IF Depth(latestLedger) >= ConfirmationDepth THEN "final" ELSE "included"
      BY <2>1, <2>4 DEF observedState
    <3>2. Depth(latestLedger) >= ConfirmationDepth => latest >= tx.ledger + ConfirmationDepth
      BY <1>1, <2>1, LedgerNumbers DEF Depth
    <3> QED BY <2>2, <2>4, <3>1, <3>2 DEF TERMINAL_STATES
  <2> QED BY <2>1, <2>3, <2>4
<1> QED BY <1>2, <1>3

\* evaluateFinality books only what it observed, or nothing.
LEMMA ObserveStep ==
  ASSUME FinalityInv, Observe
  PROVE  FinalityInv'
<1>1. PICK node \in Nodes, latestLedger \in Nodes :
        latestLedger <= node /\ evaluateFinality(Lookup(node), latestLedger)
  BY DEF Observe
<1> DEFINE observed == observedState(Lookup(node), latestLedger)
<1>2. /\ UNCHANGED <<latest, tx, validUntil>> /\ conflict' \in BOOLEAN
      /\ state' = state \/ state' = observed
  BY <1>1 DEF evaluateFinality, Advance, Ignore, Raise, FinalityInv, TypeOK, vars
<1>3. /\ observed \in {"submitted", "included"} \cup TERMINAL_STATES
      /\ observed = "final" => Landed("SUCCESS") /\ latest >= tx.ledger + ConfirmationDepth
      /\ observed = "included" => Landed("SUCCESS")
      /\ observed = "failed" => Landed("FAILED")
      /\ observed = "expired" /\ validUntil # NoBound =>
           tx = NotLanded /\ latest > validUntil
  BY <1>1, ObservationIsTrue DEF FinalityInv
<1> HIDE DEF observed
<1>4. TypeOK' BY <1>2, <1>3 DEF FinalityInv, TypeOK
<1>5. NetworkSound' BY <1>2 DEF FinalityInv, NetworkSound, NotLanded
<1>6. BookedIsTrue' BY <1>2, <1>3 DEF FinalityInv, BookedIsTrue, Landed, NotLanded
<1> QED BY <1>4, <1>5, <1>6 DEF FinalityInv

\* The invariant holds in every state.
LEMMA InvariantAlways == Spec => []FinalityInv
<1>1. Init => FinalityInv
  <2> SUFFICES ASSUME Init PROVE FinalityInv
    OBVIOUS
  <2>1. TypeOK
    <3>1. /\ latest \in submittedAtLedger..MaxLedger
          /\ tx \in [ledger : 0..MaxLedger, status : {"NOT_FOUND", "SUCCESS", "FAILED"}]
      BY FinalityAssumption DEF Init, NotLanded, submittedAtLedger
    <3> QED BY <3>1, Zenon DEF Init, TypeOK
  <2>2. NetworkSound
    BY DEF Init, NetworkSound, NotLanded, submittedAtLedger
  <2>3. BookedIsTrue
    BY DEF Init, BookedIsTrue
  <2> QED BY <2>1, <2>2, <2>3 DEF FinalityInv
<1>2. FinalityInv /\ [Next]_vars => FinalityInv'
  <2>1. FinalityInv /\ UNCHANGED vars => FinalityInv'
    BY DEF vars, FinalityInv, TypeOK, NetworkSound, BookedIsTrue, Landed, NotLanded
  <2> QED BY <2>1, CloseLedgerStep, ObserveStep DEF Next
<1> QED BY <1>1, <1>2, PTL DEF Spec

\* evaluateFinality never books a success too early, a failure that did not
\* happen, or the expiry of a transaction that can still land.
THEOREM BookedAlwaysTrue == Spec => []BookedIsTrue
<1>1. FinalityInv => BookedIsTrue BY DEF FinalityInv
<1> QED BY <1>1, InvariantAlways, PTL

\* No answer, however late, moves a record backwards (ALLOWED_TRANSITIONS).
THEOREM NeverMovesBackwards == Spec => NeverBackwards
<1>1. ASSUME FinalityInv, Observe
      PROVE  /\ state \in TERMINAL_STATES => state' = state
             /\ state = "included" => state' \in {"included", "final"}
  <2>1. PICK node \in Nodes, latestLedger \in Nodes :
          evaluateFinality(Lookup(node), latestLedger)
    BY <1>1 DEF Observe
  <2>2. state' = state \/ state' \in ALLOWED_TRANSITIONS[state]
    BY <2>1 DEF evaluateFinality, Advance, Ignore, Raise, vars
  <2> QED BY <2>2 DEF ALLOWED_TRANSITIONS, TERMINAL_STATES
<1>2. CloseLedger => state' = state BY DEF CloseLedger
<1>3. FinalityInv /\ [Next]_vars =>
        [/\ state \in TERMINAL_STATES => state' = state
         /\ state = "included" => state' \in {"included", "final"}]_vars
  BY <1>1, <1>2 DEF Next
<1> QED BY <1>3, InvariantAlways, PTL DEF Spec, NeverBackwards
-----------------------------------------------------------------------------
(* Sorted pages.  A finite set has an ascending enumeration under any       *)
(* strict order; it has every element once, and an element's place in it is *)
(* one more than the number of elements before it.                          *)

StrictOrder(S, R) ==
  /\ \A i \in S : <<i, i>> \notin R
  /\ \A i, j, k \in S : <<i, j>> \in R /\ <<j, k>> \in R => <<i, k>> \in R
  /\ \A i, j \in S : i # j => <<i, j>> \in R \/ <<j, i>> \in R

Ascending(S, R, s) ==
  /\ s \in [1..Cardinality(S) -> S]
  /\ \A m, n \in 1..Cardinality(S) : m < n => <<s[m], s[n]>> \in R

Ahead(S, R, i) == {j \in S : <<j, i>> \in R}

LEMMA AheadCounts ==
  ASSUME NEW S, IsFiniteSet(S), NEW R, StrictOrder(S, R), NEW i \in S
  PROVE  /\ Cardinality(S) \in Nat
         /\ Cardinality(Ahead(S, R, i)) \in 0..(Cardinality(S) - 1)
         /\ \A j \in S : <<i, j>> \in R =>
              Cardinality(Ahead(S, R, i)) < Cardinality(Ahead(S, R, j))
<1>1. \A j \in S : /\ Ahead(S, R, j) \in SUBSET S /\ IsFiniteSet(Ahead(S, R, j))
                   /\ Cardinality(Ahead(S, R, j)) \in Nat
  <2>1. \A j \in S : Ahead(S, R, j) \in SUBSET S
    BY DEF Ahead
  <2> QED BY <2>1, FS_Subset, FS_CardinalityType
<1>2. Cardinality(S) \in Nat
  BY FS_CardinalityType
<1>3. Cardinality(Ahead(S, R, i)) <= Cardinality(S) /\ Cardinality(Ahead(S, R, i)) # Cardinality(S)
  <2>1. i \notin Ahead(S, R, i)
    BY DEF Ahead, StrictOrder
  <2> QED BY <1>1, <2>1, FS_Subset
<1>4. ASSUME NEW j \in S, <<i, j>> \in R
      PROVE  Cardinality(Ahead(S, R, i)) < Cardinality(Ahead(S, R, j))
  <2>1. Ahead(S, R, i) \in SUBSET Ahead(S, R, j)
    BY <1>4 DEF Ahead, StrictOrder
  <2>2. i \in Ahead(S, R, j) /\ i \notin Ahead(S, R, i)
    BY <1>4 DEF Ahead, StrictOrder
  <2>3. /\ Cardinality(Ahead(S, R, i)) <= Cardinality(Ahead(S, R, j))
        /\ Cardinality(Ahead(S, R, i)) # Cardinality(Ahead(S, R, j))
    BY <1>1, <2>1, <2>2, FS_Subset
  <2> QED BY <1>1, <2>3
<1> QED BY <1>1, <1>2, <1>3, <1>4

\* An ascending enumeration has every element once, each after those ahead of it.
LEMMA AscendingCounts ==
  ASSUME NEW S, IsFiniteSet(S), NEW R, StrictOrder(S, R), NEW s, Ascending(S, R, s)
  PROVE  /\ Cardinality(S) \in Nat /\ s \in Seq(S) /\ Len(s) = Cardinality(S)
         /\ DOMAIN s = 1..Cardinality(S)
         /\ \A m, n \in 1..Cardinality(S) : s[m] = s[n] => m = n
         /\ \A i \in S : \E m \in 1..Cardinality(S) : s[m] = i
         /\ \A m \in 1..Cardinality(S) : Cardinality(Ahead(S, R, s[m])) = m - 1
<1> DEFINE N == Cardinality(S)
<1>1. N \in Nat
  BY FS_CardinalityType
<1>2. s \in [1..N -> S] /\ \A m, n \in 1..N : m < n => <<s[m], s[n]>> \in R
  BY DEF Ascending
<1>3. s \in Seq(S) /\ Len(s) = N /\ DOMAIN s = 1..N
  BY <1>1, <1>2
<1>4. \A m, n \in 1..N : s[m] = s[n] => m = n
  <2> SUFFICES ASSUME NEW m \in 1..N, NEW n \in 1..N, m < n PROVE s[m] # s[n]
    BY <1>1
  <2> QED BY <1>2 DEF StrictOrder
<1>5. s \in Surjection(1..N, S)
  <2>1. s \in Injection(1..N, S)
    BY <1>2, <1>4 DEF Injection, IsInjective
  <2>2. Cardinality(1..N) = N
    BY <1>1, FS_Interval
  <2> QED BY <2>1, <2>2, FS_Injection
<1>6. \A i \in S : \E m \in 1..N : s[m] = i
  BY <1>5 DEF Surjection
<1>7. ASSUME NEW m \in 1..N PROVE Cardinality(Ahead(S, R, s[m])) = m - 1
  <2> DEFINE t == [k \in 1..(m - 1) |-> s[k]]
  <2>0. m - 1 \in Nat /\ m \in Nat /\ 1..(m - 1) \subseteq 1..N
    BY <1>1
  <2>1. \A k \in 1..(m - 1) : k \in 1..N /\ k < m /\ s[k] \in Ahead(S, R, s[m])
    BY <1>1, <1>2 DEF Ahead
  <2>2. \A i \in Ahead(S, R, s[m]) : \E k \in 1..(m - 1) : s[k] = i
    <3> SUFFICES ASSUME NEW i \in Ahead(S, R, s[m]) PROVE \E k \in 1..(m - 1) : s[k] = i
      OBVIOUS
    <3>1. i \in S /\ <<i, s[m]>> \in R /\ s[m] \in S
      BY <1>2 DEF Ahead
    <3>2. PICK k \in 1..N : s[k] = i
      BY <1>6, <3>1
    <3>3. k # m
      BY <3>1, <3>2 DEF StrictOrder
    <3>4. ~(m < k)
      BY <1>2, <3>1, <3>2 DEF StrictOrder
    <3> QED BY <1>1, <3>2, <3>3, <3>4
  <2>3. t \in Bijection(1..(m - 1), Ahead(S, R, s[m]))
    BY <1>4, <2>0, <2>1, <2>2 DEF Bijection, Injection, Surjection, IsInjective
  <2>4. IsFiniteSet(1..(m - 1)) /\ Cardinality(1..(m - 1)) = m - 1
    BY <2>0, FS_Interval
  <2>5. ExistsBijection(1..(m - 1), Ahead(S, R, s[m]))
    BY <2>3 DEF ExistsBijection
  <2> QED BY <2>4, <2>5, FS_Bijection
<1> QED BY <1>1, <1>3, <1>4, <1>6, <1>7

\* The elements in the order of how many are ahead of them.
LEMMA AscendingExists ==
  ASSUME NEW S, IsFiniteSet(S), NEW R, StrictOrder(S, R)
  PROVE  \E s : Ascending(S, R, s)
<1> DEFINE N == Cardinality(S)
           c == [i \in S |-> Cardinality(Ahead(S, R, i)) + 1]
           s == [m \in 1..N |-> CHOOSE i \in S : c[i] = m]
<1>1. N \in Nat
  BY FS_CardinalityType
<1>2. \A i \in S : Cardinality(Ahead(S, R, i)) \in 0..(N - 1)
  BY AheadCounts
<1>3. \A i, j \in S : <<i, j>> \in R =>
        Cardinality(Ahead(S, R, i)) < Cardinality(Ahead(S, R, j))
  BY AheadCounts
<1>4. c \in [S -> 1..N] /\ \A i, j \in S : <<i, j>> \in R => c[i] < c[j]
  BY <1>1, <1>2, <1>3
<1> HIDE DEF c
<1>5. c \in Surjection(S, 1..N)
  <2>1. \A i, j \in S : c[i] = c[j] => i = j
    <3> SUFFICES ASSUME NEW i \in S, NEW j \in S, i # j PROVE c[i] # c[j]
      OBVIOUS
    <3>1. c[i] < c[j] \/ c[j] < c[i]
      BY <1>4 DEF StrictOrder
    <3>2. c[i] \in Int /\ c[j] \in Int
      BY <1>1, <1>4
    <3> QED BY <3>1, <3>2
  <2>2. c \in Injection(S, 1..N)
    BY <1>4, <2>1 DEF Injection, IsInjective
  <2>3. IsFiniteSet(1..N) /\ Cardinality(1..N) = N
    BY <1>1, FS_Interval
  <2> QED BY <2>2, <2>3, FS_Injection
<1>6. \A m \in 1..N : s[m] \in S /\ c[s[m]] = m
  <2> SUFFICES ASSUME NEW m \in 1..N PROVE s[m] \in S /\ c[s[m]] = m
    OBVIOUS
  <2>1. \E i \in S : c[i] = m
    BY <1>5 DEF Surjection
  <2> QED BY <2>1
<1>7. \A m, n \in 1..N : m < n => <<s[m], s[n]>> \in R
  <2> SUFFICES ASSUME NEW m \in 1..N, NEW n \in 1..N, m < n PROVE <<s[m], s[n]>> \in R
    OBVIOUS
  <2>1. s[m] \in S /\ s[n] \in S /\ c[s[m]] = m /\ c[s[n]] = n
    BY <1>6
  <2>2. ~(c[s[n]] < c[s[m]]) /\ s[m] # s[n]
    BY <1>1, <2>1
  <2> HIDE DEF s
  <2> QED BY <1>4, <2>1, <2>2 DEF StrictOrder
<1>8. s \in [1..N -> S]
  BY <1>6
<1> HIDE DEF s
<1> QED BY <1>7, <1>8 DEF Ascending

\* A sequence with another one after it.
LEMMA Joined ==
  ASSUME NEW S, NEW s \in Seq(S), NEW t \in Seq(S)
  PROVE  /\ s \o t \in Seq(S) /\ DOMAIN (s \o t) = 1..(Len(s) + Len(t))
         /\ Len(s) \in Nat /\ Len(t) \in Nat /\ DOMAIN s = 1..Len(s) /\ DOMAIN t = 1..Len(t)
         /\ \A m \in 1..Len(s) : (s \o t)[m] = s[m]
         /\ \A m \in 1..Len(t) : (s \o t)[Len(s) + m] = t[m]
         /\ \A m \in 1..(Len(s) + Len(t)) : m > Len(s) =>
              m - Len(s) \in 1..Len(t) /\ (s \o t)[m] = t[m - Len(s)]
OBVIOUS

\* A part of a sequence.
LEMMA Sliced ==
  ASSUME NEW S, NEW s \in Seq(S), NEW a \in Nat, NEW b \in Int, b <= Len(s)
  PROVE  /\ SubSeq(s, a + 1, b) \in Seq(S)
         /\ Len(SubSeq(s, a + 1, b)) = IF b > a THEN b - a ELSE 0
         /\ \A m \in 1..Len(SubSeq(s, a + 1, b)) :
              m + a \in 1..b /\ SubSeq(s, a + 1, b)[m] = s[m + a]
<1>2. CASE b >= a
  <2>1. /\ SubSeq(s, a + 1, b) \in Seq(S)
        /\ Len(SubSeq(s, a + 1, b)) = IF a + 1 <= b THEN b - (a + 1) + 1 ELSE 0
        /\ \A m \in 1..(b - (a + 1) + 1) : SubSeq(s, a + 1, b)[m] = s[m + (a + 1) - 1]
    OBVIOUS
  <2> QED BY <1>2, <2>1
<1>3. CASE ~(b > a)
  <2>1. SubSeq(s, a + 1, b) = << >>
    BY <1>3
  <2> QED BY <1>3, <2>1
<1> QED BY <1>2, <1>3

\* The first k rows of an ascending enumeration: every other element comes
\* after the last of them.
LEMMA FirstOnes ==
  ASSUME NEW S, IsFiniteSet(S), NEW R, StrictOrder(S, R), NEW all, Ascending(S, R, all),
         NEW k \in 0..Cardinality(S)
  PROVE  LET page == SubSeq(all, 1, k)
         IN  /\ page \in Seq(S) /\ Len(page) = k /\ DOMAIN page = 1..k
             /\ \A m, n \in 1..k : page[m] = page[n] => m = n
             /\ k # 0 => /\ k \in 1..k /\ page[k] \in S
                         /\ \A m \in 1..k : page[m] = page[k] \/ <<page[m], page[k]>> \in R
                         /\ \A i \in S : (\E m \in 1..k : page[m] = i) \/ <<page[k], i>> \in R
             /\ k = Cardinality(S) => \A i \in S : \E m \in 1..k : page[m] = i
<1> DEFINE N == Cardinality(S)
           page == SubSeq(all, 1, k)
<1>1. /\ N \in Nat /\ all \in Seq(S) /\ Len(all) = N
      /\ \A m, n \in 1..N : all[m] = all[n] => m = n
      /\ \A i \in S : \E m \in 1..N : all[m] = i
  BY AscendingCounts
<1>2. all \in [1..N -> S] /\ \A m, n \in 1..N : m < n => <<all[m], all[n]>> \in R
  BY DEF Ascending
<1>3. k \in Nat /\ k <= N /\ 1..k \subseteq 1..N
  BY <1>1
<1>4. page \in Seq(S) /\ Len(page) = k /\ \A m \in 1..k : page[m] = all[m]
  <2>1. page = SubSeq(all, 0 + 1, k)
    OBVIOUS
  <2> HIDE DEF N, page
  <2>2. /\ page \in Seq(S) /\ Len(page) = (IF k > 0 THEN k - 0 ELSE 0)
        /\ \A m \in 1..Len(page) : m + 0 \in 1..k /\ page[m] = all[m + 0]
    BY <1>1, <1>3, <2>1, Sliced
  <2> QED BY <1>3, <2>2
<1>5. DOMAIN page = 1..k
  BY <1>4
<1> HIDE DEF page, N
<1>6. \A m, n \in 1..k : page[m] = page[n] => m = n
  BY <1>1, <1>3, <1>4
<1>7. ASSUME k # 0
      PROVE  /\ k \in 1..k /\ page[k] \in S
             /\ \A m \in 1..k : page[m] = page[k] \/ <<page[m], page[k]>> \in R
             /\ \A i \in S : (\E m \in 1..k : page[m] = i) \/ <<page[k], i>> \in R
  <2>1. k \in 1..k /\ k \in 1..N /\ page[k] = all[k] /\ page[k] \in S
    BY <1>2, <1>3, <1>4, <1>7
  <2>2. \A m \in 1..k : page[m] = page[k] \/ <<page[m], page[k]>> \in R
    <3> SUFFICES ASSUME NEW m \in 1..k, m # k PROVE <<page[m], page[k]>> \in R
      OBVIOUS
    <3>1. m \in 1..N /\ m < k /\ page[m] = all[m]
      BY <1>3, <1>4
    <3> QED BY <1>2, <2>1, <3>1
  <2>3. ASSUME NEW i \in S PROVE (\E m \in 1..k : page[m] = i) \/ <<page[k], i>> \in R
    <3>1. PICK n \in 1..N : all[n] = i
      BY <1>1
    <3>2. CASE n \in 1..k
      BY <1>4, <3>1, <3>2
    <3>3. CASE n \notin 1..k
      <4>1. k < n
        BY <1>1, <1>3, <3>3
      <4> QED BY <1>2, <2>1, <3>1, <4>1
    <3> QED BY <3>2, <3>3
  <2> QED BY <2>1, <2>2, <2>3
<1>8. k = N => \A i \in S : \E m \in 1..k : page[m] = i
  BY <1>1, <1>4
<1> QED BY <1>4, <1>5, <1>6, <1>7, <1>8 DEF page, N
-----------------------------------------------------------------------------
(* The payout history.  Rows are inserted and never change, so what a       *)
(* cursor has passed stays passed and an insert only moves rows back in the *)
(* export's order: a row the export has yet to write has at least `offset'  *)
(* rows ahead of it.                                                        *)

Newest == {p \in RowIds \X RowIds : History!Before(p[1], p[2])}
Exported == {p \in RowIds \X RowIds : History!BeforeInExport(p[1], p[2])}

Past(c, i) ==
  c = History!NoCursor \/ table[i] < c.t \/ (table[i] = c.t /\ i < c.id)

HistoryTypes ==
  /\ table \in [RowIds -> Times \cup {0}]
  /\ historyWalk \in [on : BOOLEAN, cursor : [t : Nat, id : Nat], got : Seq(RowIds),
                      there : SUBSET RowIds, end : {"none", "complete", "failed"}]
  /\ export \in [on : BOOLEAN, offset : Nat, written : Seq(RowIds), there : SUBSET RowIds,
                 end : {"none", "complete", "failed", "truncated"}]
  /\ backfill \in [on : BOOLEAN, missing : SUBSET RowIds, t : Times \cup {0},
                   end : {"none", "refused", "created"}]
  /\ backfill.on => backfill.t \in Times

\* What the walk has shown lies behind its cursor, and what it still owes ahead.
WalkOk ==
  /\ historyWalk.there \subseteq History!Selected
  /\ \A m, n \in DOMAIN historyWalk.got : historyWalk.got[m] = historyWalk.got[n] => m = n
  /\ \A m \in DOMAIN historyWalk.got : historyWalk.got[m] \in History!Selected
  /\ historyWalk.on =>
       /\ \A m \in DOMAIN historyWalk.got : ~Past(historyWalk.cursor, historyWalk.got[m])
       /\ \A i \in historyWalk.there :
            (\E m \in DOMAIN historyWalk.got : historyWalk.got[m] = i) \/ Past(historyWalk.cursor, i)
  /\ historyWalk.end = "complete" =>
       \A i \in historyWalk.there : \E m \in DOMAIN historyWalk.got : historyWalk.got[m] = i

\* What the export still owes has at least `offset' rows ahead of it.
ExportOk ==
  /\ export.there \subseteq History!Selected
  /\ export.on =>
       \A i \in export.there :
         \/ \E m \in DOMAIN export.written : export.written[m] = i
         \/ Cardinality(Ahead(History!Selected, Exported, i)) >= export.offset
  /\ export.end = "complete" =>
       \A i \in export.there : \E m \in DOMAIN export.written : export.written[m] = i

HistoryInv == HistoryTypes /\ WalkOk /\ ExportOk

\* Both orders are strict orders on every set of rows.
LEMMA HistoryOrders ==
  ASSUME table \in [RowIds -> Times \cup {0}], NEW S \in SUBSET RowIds
  PROVE  IsFiniteSet(S) /\ StrictOrder(S, Newest) /\ StrictOrder(S, Exported)
<1>1. IsFiniteSet(S)
  BY HistoryAssumption, FS_Subset
<1>2. \A i \in S : i \in RowIds /\ i \in Nat /\ table[i] \in Nat
  <2>1. RowIds \subseteq Nat /\ Times \cup {0} \subseteq Nat
    BY HistoryAssumption
  <2> QED BY <2>1
<1>3. \A i, j \in S : /\ <<i, j>> \in Newest <=> History!Before(i, j)
                      /\ <<i, j>> \in Exported <=> History!BeforeInExport(i, j)
  BY <1>2 DEF Newest, Exported
<1>4. StrictOrder(S, Newest)
  BY <1>2, <1>3 DEF StrictOrder, History!Before
<1>5. StrictOrder(S, Exported)
  BY <1>2, <1>3 DEF StrictOrder, History!BeforeInExport
<1> QED BY <1>1, <1>4, <1>5

\* What a query returns.
LEMMA RowsInOrder ==
  ASSUME table \in [RowIds -> Times \cup {0}], NEW S \in SUBSET RowIds
  PROVE  /\ Ascending(S, Newest, History!Ordered(S, History!Before))
         /\ Ascending(S, Exported, History!Ordered(S, History!BeforeInExport))
<1>0. IsFiniteSet(S) /\ StrictOrder(S, Newest) /\ StrictOrder(S, Exported)
  BY HistoryOrders
<1>1. \A i, j \in S : /\ <<i, j>> \in Newest <=> History!Before(i, j)
                      /\ <<i, j>> \in Exported <=> History!BeforeInExport(i, j)
  BY DEF Newest, Exported
<1>2. History!Cardinality(S) = Cardinality(S)
  BY DEF History!Cardinality, Cardinality
<1>3. Ascending(S, Newest, History!Ordered(S, History!Before))
  <2>1. PICK s : Ascending(S, Newest, s)
    BY <1>0, AscendingExists
  <2>2. /\ s \in [1..Cardinality(S) -> S]
        /\ \A m, n \in 1..Cardinality(S) : m < n => History!Before(s[m], s[n])
    BY <2>1, <1>1 DEF Ascending
  <2>3. /\ History!Ordered(S, History!Before) \in [1..Cardinality(S) -> S]
        /\ \A m, n \in 1..Cardinality(S) : m < n =>
             History!Before(History!Ordered(S, History!Before)[m], History!Ordered(S, History!Before)[n])
    BY <1>2, <2>2 DEF History!Ordered
  <2> QED BY <2>3, <1>1 DEF Ascending
<1>4. Ascending(S, Exported, History!Ordered(S, History!BeforeInExport))
  <2>1. PICK s : Ascending(S, Exported, s)
    BY <1>0, AscendingExists
  <2>2. /\ s \in [1..Cardinality(S) -> S]
        /\ \A m, n \in 1..Cardinality(S) : m < n => History!BeforeInExport(s[m], s[n])
    BY <2>1, <1>1 DEF Ascending
  <2>3. /\ History!Ordered(S, History!BeforeInExport) \in [1..Cardinality(S) -> S]
        /\ \A m, n \in 1..Cardinality(S) : m < n =>
             History!BeforeInExport(History!Ordered(S, History!BeforeInExport)[m],
                                    History!Ordered(S, History!BeforeInExport)[n])
    BY <1>2, <2>2 DEF History!Ordered
  <2> QED BY <2>3, <1>1 DEF Ascending
<1> QED BY <1>3, <1>4

\* Inserted rows leave the others as they are: nothing that was passed comes
\* back, and nothing moves forward in the export's order.
LEMMA TableGrows ==
  ASSUME HistoryInv, table' \in [RowIds -> Times \cup {0}],
         \A i \in RowIds : table[i] # 0 => table'[i] = table[i],
         UNCHANGED <<historyWalk, export>>,
         /\ backfill' \in [on : BOOLEAN, missing : SUBSET RowIds, t : Times \cup {0},
                           end : {"none", "refused", "created"}]
         /\ backfill'.on => backfill'.t \in Times
  PROVE  HistoryInv'
<1>0. HistoryTypes /\ WalkOk /\ ExportOk
  BY DEF HistoryInv
<1>1. HistoryTypes'
  BY <1>0 DEF HistoryTypes
<1>2. /\ History!Selected \subseteq History!Selected' /\ History!Selected' \in SUBSET RowIds
      /\ \A i \in History!Selected : i \in RowIds /\ table'[i] = table[i]
  BY <1>0, <1>1 DEF HistoryTypes, History!Selected, History!Present, History!Absent
<1>3. WalkOk'
  <2>2. \A i \in historyWalk.there : i \in History!Selected
    BY <1>0 DEF WalkOk
  <2>3. \A m \in DOMAIN historyWalk.got : historyWalk.got[m] \in History!Selected
    BY <1>0 DEF WalkOk
  <2>4. historyWalk' = historyWalk
    OBVIOUS
  <2>5. \A i \in History!Selected :
          Past(historyWalk.cursor, i)' <=> Past(historyWalk.cursor, i)
    BY <1>2, <2>4 DEF Past
  <2> QED BY <1>0, <1>2, <2>2, <2>3, <2>4, <2>5 DEF WalkOk
<1>4. ExportOk'
  <2>1. ASSUME NEW i \in export.there, export.on,
               Cardinality(Ahead(History!Selected, Exported, i)) >= export.offset
        PROVE  Cardinality(Ahead(History!Selected, Exported, i)') >= export.offset
    <3>1. i \in History!Selected
      BY <1>0, <2>1 DEF ExportOk
    <3>2. Ahead(History!Selected, Exported, i) \in SUBSET (Ahead(History!Selected, Exported, i)')
      <4> SUFFICES ASSUME NEW j \in History!Selected, <<j, i>> \in Exported
                   PROVE  j \in History!Selected' /\ <<j, i>> \in Exported'
        BY DEF Ahead
      <4> QED BY <1>2, <3>1 DEF Exported, History!BeforeInExport
    <3>3. IsFiniteSet(Ahead(History!Selected, Exported, i)')
      <4>1. Ahead(History!Selected, Exported, i)' \in SUBSET RowIds
        BY <1>2 DEF Ahead
      <4> QED BY <4>1, HistoryAssumption, FS_Subset
    <3>4. /\ Cardinality(Ahead(History!Selected, Exported, i)) <=
             Cardinality(Ahead(History!Selected, Exported, i)')
          /\ IsFiniteSet(Ahead(History!Selected, Exported, i))
      BY <3>2, <3>3, FS_Subset
    <3>5. /\ Cardinality(Ahead(History!Selected, Exported, i)) \in Nat
          /\ Cardinality(Ahead(History!Selected, Exported, i)') \in Nat
          /\ export.offset \in Nat
      BY <1>0, <3>3, <3>4, FS_CardinalityType DEF HistoryTypes
    <3> QED BY <2>1, <3>4, <3>5
  <2>2. /\ export.there \subseteq History!Selected
        /\ export.on =>
             \A i \in export.there :
               \/ \E m \in DOMAIN export.written : export.written[m] = i
               \/ Cardinality(Ahead(History!Selected, Exported, i)) >= export.offset
        /\ export.end = "complete" =>
             \A i \in export.there : \E m \in DOMAIN export.written : export.written[m] = i
    BY <1>0 DEF ExportOk
  <2>3. export' = export
    OBVIOUS
  <2>4. ASSUME export.on, NEW i \in export.there
        PROVE  \/ \E m \in DOMAIN export.written : export.written[m] = i
               \/ Cardinality(Ahead(History!Selected, Exported, i)') >= export.offset
    BY <2>1, <2>2, <2>4
  <2>5. export.there \subseteq History!Selected'
    BY <1>2, <2>2
  <2> QED BY <2>2, <2>3, <2>4, <2>5 DEF ExportOk
<1> QED BY <1>1, <1>3, <1>4 DEF HistoryInv

\* The writers.
LEMMA WritersKeep ==
  ASSUME HistoryInv, \/ \E i \in RowIds, t \in Times : History!Insert(i, t)
                     \/ \E t \in Times : History!BackfillReads(t)
                     \/ History!BackfillWrites
  PROVE  HistoryInv'
<1>0. HistoryTypes
  BY DEF HistoryInv
<1>1. CASE \E i \in RowIds, t \in Times : History!Insert(i, t)
  <2>1. PICK i \in RowIds, t \in Times : History!Insert(i, t)
    BY <1>1
  <2>2. /\ table[i] = 0 /\ table' = [table EXCEPT ![i] = t]
        /\ UNCHANGED <<historyWalk, export, backfill>>
    BY <2>1 DEF History!Insert, History!Absent
  <2>3. /\ table' \in [RowIds -> Times \cup {0}]
        /\ \A j \in RowIds : table[j] # 0 => table'[j] = table[j]
    BY <1>0, <2>2 DEF HistoryTypes
  <2>4. /\ backfill' \in [on : BOOLEAN, missing : SUBSET RowIds, t : Times \cup {0},
                          end : {"none", "refused", "created"}]
        /\ backfill'.on => backfill'.t \in Times
    BY <1>0, <2>2 DEF HistoryTypes
  <2> QED BY <2>2, <2>3, <2>4, TableGrows
<1>2. CASE \E t \in Times : History!BackfillReads(t)
  <2>1. PICK t \in Times : History!BackfillReads(t)
    BY <1>2
  <2>2. /\ UNCHANGED <<table, historyWalk, export>>
        /\ backfill' = [backfill EXCEPT !.on = TRUE, !.missing = RowIds \ History!Present, !.t = t]
    BY <2>1 DEF History!BackfillReads
  <2>3. /\ backfill' \in [on : BOOLEAN, missing : SUBSET RowIds, t : Times \cup {0},
                          end : {"none", "refused", "created"}]
        /\ backfill'.on => backfill'.t \in Times
    BY <1>0, <2>2 DEF HistoryTypes
  <2> QED BY <1>0, <2>2, <2>3, TableGrows DEF HistoryTypes
<1>3. CASE History!BackfillWrites
  <2>1. /\ table' = IF backfill.missing \cap History!Present # {} THEN table
                    ELSE [i \in RowIds |-> IF i \in backfill.missing THEN backfill.t ELSE table[i]]
        /\ backfill.on /\ UNCHANGED <<historyWalk, export>>
    BY <1>3 DEF History!BackfillWrites
  <2>2. /\ backfill' \in [on : BOOLEAN, missing : SUBSET RowIds, t : Times \cup {0},
                          end : {"none", "refused", "created"}]
        /\ backfill'.on = FALSE
    BY <1>0, <1>3 DEF HistoryTypes, History!BackfillWrites
  <2>3. table' \in [RowIds -> Times \cup {0}]
    BY <1>0, <2>1 DEF HistoryTypes
  <2>4. \A j \in RowIds : table[j] # 0 => table'[j] = table[j]
    BY <1>0, <2>1 DEF HistoryTypes, History!Present, History!Absent
  <2> QED BY <2>1, <2>2, <2>3, <2>4, TableGrows
<1> QED BY <1>1, <1>2, <1>3

\* A reader that begins owes all the rows there are, and one whose query fails
\* owes none any more.
LEMMA ReadersBegin ==
  ASSUME HistoryInv, \/ History!StartWalk \/ History!ReadPageFails
                     \/ History!StartExport \/ History!WriteBatchFails
  PROVE  HistoryInv'
<1>0. HistoryTypes /\ WalkOk /\ ExportOk
  BY DEF HistoryInv
<1>1. History!Selected \in SUBSET RowIds /\ UNCHANGED <<table, backfill>>
  BY DEF History!Selected, History!Present, History!StartWalk, History!ReadPageFails,
         History!StartExport, History!WriteBatchFails
<1>2. History!Selected' = History!Selected /\ Exported' = Exported
  BY <1>1 DEF History!Selected, History!Present, Exported, History!BeforeInExport
<1>3. CASE History!StartWalk
  <2>1. /\ historyWalk' = [historyWalk EXCEPT !.on = TRUE, !.there = History!Selected]
        /\ historyWalk = History!NoWalk /\ export' = export
    BY <1>3 DEF History!StartWalk
  <2>2. /\ historyWalk'.cursor = History!NoCursor /\ historyWalk'.got = << >>
        /\ historyWalk'.there = History!Selected /\ historyWalk'.end = "none"
    BY <2>1 DEF History!NoWalk
  <2>3. HistoryTypes'
    BY <1>0, <1>1, <2>1 DEF HistoryTypes
  <2>4. WalkOk'
    BY <1>2, <2>2 DEF WalkOk, Past
  <2>5. ExportOk'
    BY <1>0, <1>2, <2>1 DEF ExportOk, Ahead
  <2> QED BY <2>3, <2>4, <2>5 DEF HistoryInv
<1>4. CASE History!StartExport
  <2>1. /\ export' = [export EXCEPT !.on = TRUE, !.there = History!Selected]
        /\ export = History!NoExport /\ historyWalk' = historyWalk
    BY <1>4 DEF History!StartExport
  <2>2. /\ export'.offset = 0 /\ export'.there = History!Selected /\ export'.end = "none"
    BY <2>1 DEF History!NoExport
  <2>3. HistoryTypes'
    BY <1>0, <1>1, <2>1 DEF HistoryTypes
  <2>4. WalkOk'
    BY <1>0, <1>1, <1>2, <2>1 DEF WalkOk, Past
  <2>5. ExportOk'
    <3>1. \A i : Cardinality(Ahead(History!Selected, Exported, i)) >= 0
      <4> TAKE i
      <4>1. Ahead(History!Selected, Exported, i) \in SUBSET RowIds
        BY <1>1 DEF Ahead
      <4>2. IsFiniteSet(Ahead(History!Selected, Exported, i))
        BY <4>1, HistoryAssumption, FS_Subset
      <4> QED BY <4>2, FS_CardinalityType
    <3> QED BY <1>2, <2>2, <3>1 DEF ExportOk, Ahead
  <2> QED BY <2>3, <2>4, <2>5 DEF HistoryInv
<1>5. CASE History!ReadPageFails
  <2>1. /\ historyWalk' = [historyWalk EXCEPT !.on = FALSE, !.end = "failed"]
        /\ export' = export
    BY <1>5 DEF History!ReadPageFails
  <2>2. HistoryTypes'
    BY <1>0, <1>1, <2>1 DEF HistoryTypes
  <2>3. /\ historyWalk'.on = FALSE /\ historyWalk'.end = "failed"
        /\ historyWalk'.got = historyWalk.got /\ historyWalk'.there = historyWalk.there
    BY <1>0, <2>1 DEF HistoryTypes
  <2>4. WalkOk'
    BY <1>0, <1>2, <2>3 DEF WalkOk
  <2>5. ExportOk'
    BY <1>0, <1>2, <2>1 DEF ExportOk, Ahead
  <2> QED BY <2>2, <2>4, <2>5 DEF HistoryInv
<1>6. CASE History!WriteBatchFails
  <2>1. /\ export' = [export EXCEPT !.on = FALSE, !.end = "failed"]
        /\ historyWalk' = historyWalk
    BY <1>6 DEF History!WriteBatchFails
  <2>2. HistoryTypes'
    BY <1>0, <1>1, <2>1 DEF HistoryTypes
  <2>3. export'.on = FALSE /\ export'.end = "failed" /\ export'.there = export.there
    BY <1>0, <2>1 DEF HistoryTypes
  <2>4. ExportOk'
    BY <1>0, <1>2, <2>3 DEF ExportOk
  <2>5. WalkOk'
    BY <1>0, <1>1, <1>2, <2>1 DEF WalkOk, Past
  <2> QED BY <2>2, <2>4, <2>5 DEF HistoryInv
<1> QED BY <1>3, <1>4, <1>5, <1>6

\* A page is what comes first after the cursor; its last row is the next cursor.
LEMMA PageKeeps ==
  ASSUME HistoryInv, History!ReadPage
  PROVE  HistoryInv'
<1> DEFINE w == historyWalk
           S == History!AfterCursor(w.cursor)
           all == History!Ordered(S, History!Before)
           k == IF Len(all) < Limit THEN Len(all) ELSE Limit
           page == SubSeq(all, 1, k)
           more == Len(all) > Limit
           next == IF more THEN [t |-> table[page[Len(page)]], id |-> page[Len(page)]]
                   ELSE History!NoCursor
<1>0. HistoryTypes /\ WalkOk /\ ExportOk
  BY DEF HistoryInv
<1>a. /\ w.on \in BOOLEAN /\ w.cursor \in [t : Nat, id : Nat] /\ w.got \in Seq(RowIds)
      /\ w.there \subseteq RowIds /\ w.on /\ Limit \in Nat \ {0}
      /\ table \in [RowIds -> Times \cup {0}] /\ RowIds \subseteq Nat
      /\ \A i \in RowIds : i \in Nat /\ table[i] \in Nat
  <2>1. RowIds \subseteq Nat /\ Times \cup {0} \subseteq Nat /\ Limit \in Nat \ {0}
    BY HistoryAssumption
  <2> QED BY <1>0, <2>1 DEF HistoryTypes, History!ReadPage
<1>1. /\ UNCHANGED <<table, export, backfill>>
      /\ w' = [w EXCEPT !.got = w.got \o page, !.on = more, !.cursor = next,
                        !.end = IF more THEN w.end ELSE "complete"]
  BY DEF History!ReadPage, History!getPayoutsPage, History!NextCursor, History!Last
<1>2. /\ S \in SUBSET RowIds /\ S \subseteq History!Selected
      /\ \A i \in History!Selected : i \in S <=> Past(w.cursor, i)
  BY DEF History!AfterCursor, History!Selected, History!Present, Past
<1>3. /\ Ascending(S, Newest, all) /\ IsFiniteSet(S) /\ StrictOrder(S, Newest)
  BY <1>a, <1>2, RowsInOrder, HistoryOrders
<1> DEFINE N == Cardinality(S)
<1>4. /\ N \in Nat /\ all \in Seq(S) /\ Len(all) = N /\ all \in [1..N -> S]
      /\ \A m, n \in 1..N : all[m] = all[n] => m = n
      /\ \A i \in S : \E m \in 1..N : all[m] = i
      /\ \A m, n \in 1..N : m < n => <<all[m], all[n]>> \in Newest
  <2> HIDE DEF S, all
  <2>1. /\ N \in Nat /\ all \in Seq(S) /\ Len(all) = N
        /\ \A m, n \in 1..N : all[m] = all[n] => m = n
        /\ \A i \in S : \E m \in 1..N : all[m] = i
    BY <1>3, AscendingCounts
  <2>2. all \in [1..N -> S] /\ \A m, n \in 1..N : m < n => <<all[m], all[n]>> \in Newest
    BY <1>3 DEF Ascending
  <2> QED BY <2>1, <2>2
<1>5. /\ k \in 0..N /\ page \in Seq(S) /\ Len(page) = k
      /\ \A m \in 1..k : m \in 1..N /\ page[m] = all[m]
      /\ more => k = Limit /\ k \in 1..N
      /\ ~more => k = N
  <2> HIDE DEF S, all, N
  <2>1. k \in Nat /\ k <= N /\ (more => k = Limit /\ k \in 1..N) /\ (~more => k = N)
    BY <1>a, <1>4
  <2> HIDE DEF k
  <2>2. /\ page \in Seq(S) /\ Len(page) = IF k > 0 THEN k - 0 ELSE 0
        /\ \A m \in 1..Len(page) : m + 0 \in 1..k /\ page[m] = all[m + 0]
    <3>1. page = SubSeq(all, 0 + 1, k)
      OBVIOUS
    <3> QED BY <1>4, <2>1, <3>1, Sliced
  <2>3. Len(page) = k
    BY <2>1, <2>2
  <2> HIDE DEF page, more
  <2>4. \A m \in 1..k : m \in 1..N /\ page[m] = all[m]
    BY <1>4, <2>1, <2>2, <2>3
  <2> QED BY <2>1, <2>2, <2>3, <2>4
<1> HIDE DEF k, page, more, all
<1>6. /\ more => next = [t |-> table[all[k]], id |-> all[k]] /\ all[k] \in S /\ k \in 1..N
      /\ next \in [t : Nat, id : Nat] /\ (more => next # History!NoCursor)
  <2>1. more => page[Len(page)] = all[k] /\ all[k] \in S
    BY <1>4, <1>5
  <2>2. \A i \in S : i \in Nat /\ table[i] \in Nat /\ table[i] # 0
    <3>1. \A i \in S : i \in RowIds /\ table[i] # 0
      BY <1>2 DEF History!Selected, History!Present, History!Absent
    <3> HIDE DEF S
    <3> QED BY <1>a, <3>1
  <2>3. History!NoCursor = [t |-> 0, id |-> 0]
    BY DEF History!NoCursor, History!Absent
  <2> HIDE DEF S
  <2> QED BY <1>5, <2>1, <2>2, <2>3
<1>7. more => \A i \in History!Selected : Past(next, i) <=> i # all[k] /\ <<all[k], i>> \in Newest
  <2> SUFFICES ASSUME more, NEW i \in History!Selected
               PROVE  Past(next, i) <=> i # all[k] /\ <<all[k], i>> \in Newest
    OBVIOUS
  <2>1. all[k] \in RowIds /\ i \in RowIds
    BY <1>2, <1>6 DEF History!Selected, History!Present
  <2>2. table[i] \in Nat /\ table[all[k]] \in Nat /\ i \in Nat /\ all[k] \in Nat
    BY <1>a, <2>1
  <2>3. Past(next, i) <=> table[i] < table[all[k]] \/ (table[i] = table[all[k]] /\ i < all[k])
    BY <1>6 DEF Past
  <2>4. <<all[k], i>> \in Newest <=>
          table[all[k]] > table[i] \/ (table[all[k]] = table[i] /\ all[k] > i)
    BY <2>1 DEF Newest, History!Before
  <2> QED BY <2>2, <2>3, <2>4
<1> DEFINE got == w.got \o page
<1>8. /\ page \in Seq(RowIds) /\ got \in Seq(RowIds)
      /\ DOMAIN got = 1..(Len(w.got) + k) /\ Len(w.got) \in Nat /\ DOMAIN w.got = 1..Len(w.got)
      /\ \A m \in 1..Len(w.got) : got[m] = w.got[m]
      /\ \A m \in 1..k : got[Len(w.got) + m] = all[m]
      /\ \A m \in 1..(Len(w.got) + k) : m > Len(w.got) =>
           m - Len(w.got) \in 1..k /\ got[m] = all[m - Len(w.got)]
  <2>1. page \in Seq(RowIds)
    BY <1>2, <1>5
  <2>2. /\ got \in Seq(RowIds) /\ DOMAIN got = 1..(Len(w.got) + Len(page))
        /\ Len(w.got) \in Nat /\ DOMAIN w.got = 1..Len(w.got)
        /\ \A m \in 1..Len(w.got) : got[m] = w.got[m]
        /\ \A m \in 1..Len(page) : got[Len(w.got) + m] = page[m]
        /\ \A m \in 1..(Len(w.got) + Len(page)) : m > Len(w.got) =>
             m - Len(w.got) \in 1..Len(page) /\ got[m] = page[m - Len(w.got)]
    BY <1>a, <2>1, Joined
  <2> HIDE DEF S, N, got
  <2> QED BY <1>5, <2>1, <2>2
<1> HIDE DEF got
<1> DEFINE g == Len(w.got)
<1>9. \A m \in 1..g : w.got[m] \in History!Selected /\ w.got[m] \notin S
  BY <1>0, <1>2, <1>8, <1>a DEF WalkOk
<1>10. \A m \in 1..(g + k) :
         \/ m \in 1..g /\ got[m] = w.got[m]
         \/ m > g /\ m - g \in 1..k /\ m - g \in 1..N /\ got[m] = all[m - g] /\ all[m - g] \in S
  <2> HIDE DEF S, N
  <2> QED BY <1>4, <1>5, <1>8
<1>11. HistoryTypes'
  <2>1. w' \in [on : BOOLEAN, cursor : [t : Nat, id : Nat], got : Seq(RowIds),
                there : SUBSET RowIds, end : {"none", "complete", "failed"}]
    <3>1. more \in BOOLEAN
      BY DEF more
    <3> HIDE DEF next, S
    <3> QED BY <1>0, <1>1, <1>6, <1>8, <3>1 DEF HistoryTypes, got
  <2> QED BY <1>0, <1>1, <2>1 DEF HistoryTypes
<1>12. /\ w'.got = got /\ w'.there = w.there /\ w'.on = more /\ w'.cursor = next
       /\ w'.end = IF more THEN w.end ELSE "complete"
  <2> HIDE DEF next, S
  <2> QED BY <1>0, <1>1 DEF HistoryTypes, got
<1>13. History!Selected' = History!Selected /\ Exported' = Exported
  BY <1>1 DEF History!Selected, History!Present, Exported, History!BeforeInExport
<1>14. \A m, n \in DOMAIN got : got[m] = got[n] => m = n
  <2> SUFFICES ASSUME NEW m \in 1..(g + k), NEW n \in 1..(g + k), got[m] = got[n] PROVE m = n
    BY <1>8
  <2>1. CASE m \in 1..g /\ n \in 1..g
    BY <1>0, <1>8, <2>1 DEF WalkOk
  <2>2. CASE m > g /\ n > g
    <3>1. m - g \in 1..N /\ n - g \in 1..N /\ all[m - g] = all[n - g]
      <4> HIDE DEF S, N
      <4> QED BY <1>8, <1>10, <2>2
    <3>2. m - g = n - g
      <4> HIDE DEF S, N
      <4> QED BY <1>4, <3>1
    <3> QED BY <1>8, <3>2
  <2>3. ASSUME NEW x \in 1..g, NEW y \in 1..(g + k), y > g PROVE got[x] # got[y]
    <3> HIDE DEF S, N
    <3>1. got[x] \notin S
      BY <1>8, <1>9
    <3>2. y \notin 1..g
      BY <1>8, <2>3
    <3>3. got[y] = all[y - g] /\ all[y - g] \in S
      BY <1>10, <3>2
    <3> QED BY <3>1, <3>3
  <2>4. (m \in 1..g \/ m > g) /\ (n \in 1..g \/ n > g)
    BY <1>8
  <2> QED BY <2>1, <2>2, <2>3, <2>4
<1>15. \A m \in DOMAIN got : got[m] \in History!Selected
  <2> HIDE DEF S, N
  <2> QED BY <1>2, <1>8, <1>9, <1>10
<1>16. \A i \in w.there : (\E m \in DOMAIN got : got[m] = i) \/ (more /\ Past(next, i))
  <2> SUFFICES ASSUME NEW i \in w.there, ~(\E m \in DOMAIN got : got[m] = i)
               PROVE  more /\ Past(next, i)
    OBVIOUS
  <2>1. i \in History!Selected
    BY <1>0 DEF WalkOk
  <2>2. Past(w.cursor, i)
    <3>1. ~\E m \in DOMAIN w.got : w.got[m] = i
      <4>1. 1..g \subseteq 1..(g + k)
        BY <1>4, <1>5, <1>8
      <4> QED BY <1>8, <4>1
    <3> QED BY <1>0, <1>a, <3>1 DEF WalkOk
  <2>3. PICK n \in 1..N : all[n] = i
    BY <1>2, <1>4, <2>1, <2>2
  <2>4. n \notin 1..k
    <3>1. \A m \in 1..k : g + m \in DOMAIN got /\ got[g + m] = all[m]
      BY <1>5, <1>8
    <3> QED BY <2>3, <3>1
  <2> HIDE DEF S, N
  <2>5. more /\ k \in 1..N /\ k < n
    BY <1>4, <1>5, <2>4
  <2>6. <<all[k], i>> \in Newest /\ i # all[k]
    BY <1>4, <2>3, <2>5
  <2> QED BY <1>7, <2>1, <2>5, <2>6
<1>17. more => \A m \in DOMAIN got : ~Past(next, got[m])
  <2> SUFFICES ASSUME more, NEW m \in 1..(g + k), Past(next, got[m]) PROVE FALSE
    BY <1>8
  <2>1. got[m] \in History!Selected
    BY <1>8, <1>15
  <2>2. got[m] # all[k] /\ <<all[k], got[m]>> \in Newest
    BY <1>7, <2>1
  <2>3. k \in 1..N /\ all[k] \in S
    BY <1>6
  <2>4. CASE m \in 1..g
    <3>1. w.got[m] \in History!Selected /\ w.got[m] \notin S /\ got[m] = w.got[m]
      BY <1>8, <1>9, <2>4
    <3>2. Past(w.cursor, all[k]) /\ ~Past(w.cursor, got[m])
      BY <1>2, <2>3, <3>1
    <3>3. /\ got[m] \in RowIds /\ all[k] \in RowIds
      BY <1>2, <2>1, <2>3 DEF History!Selected, History!Present
    <3>4. /\ table[got[m]] \in Nat /\ table[all[k]] \in Nat /\ got[m] \in Nat /\ all[k] \in Nat
          /\ w.cursor.t \in Nat /\ w.cursor.id \in Nat
      <4> HIDE DEF S
      <4> QED BY <1>a, <3>3
    <3>5. table[all[k]] > table[got[m]] \/ (table[all[k]] = table[got[m]] /\ all[k] > got[m])
      BY <2>2, <3>3 DEF Newest, History!Before
    <3> HIDE DEF S
    <3> QED BY <3>2, <3>4, <3>5 DEF Past
  <2>5. CASE m > g
    <3>1. m - g \in 1..k /\ m - g \in 1..N /\ got[m] = all[m - g]
      <4> HIDE DEF S, N
      <4> QED BY <1>10, <1>8, <2>5
    <3>2. m - g # k
      BY <2>2, <3>1
    <3>3. m - g < k
      BY <1>5, <3>1, <3>2
    <3>4. <<got[m], all[k]>> \in Newest
      <4> HIDE DEF S, N
      <4> QED BY <1>4, <2>3, <3>1, <3>3
    <3>5. got[m] \in S
      <4> HIDE DEF S, N
      <4> QED BY <1>4, <3>1
    <3> QED BY <1>3, <2>2, <2>3, <3>4, <3>5 DEF StrictOrder
  <2> QED BY <1>8, <2>4, <2>5
<1>18. WalkOk'
  <2>1. w.there \subseteq History!Selected /\ table' = table
    BY <1>0, <1>1 DEF WalkOk
  <2> HIDE DEF next, S, N
  <2>3. \A i \in w.there : Past(w.cursor, i)' <=> Past(next, i)
    BY <1>12, <2>1 DEF Past
  <2>4. w'.there \subseteq History!Selected'
    BY <1>12, <1>13, <2>1
  <2>5. \A m, n \in DOMAIN w'.got : w'.got[m] = w'.got[n] => m = n
    BY <1>12, <1>14
  <2>6. \A m \in DOMAIN w'.got : w'.got[m] \in History!Selected'
    BY <1>12, <1>13, <1>15
  <2>7. w'.on => \A m \in DOMAIN w'.got : ~Past(w.cursor, w.got[m])'
    <3> SUFFICES ASSUME more, NEW m \in DOMAIN got PROVE ~Past(w.cursor, w.got[m])'
      BY <1>12
    <3>1. ~Past(next, got[m])
      BY <1>17
    <3> QED BY <1>12, <2>1, <3>1 DEF Past
  <2>8. w'.on => \A i \in w'.there : (\E m \in DOMAIN w'.got : w'.got[m] = i) \/ Past(w.cursor, i)'
    BY <1>12, <1>16, <2>3
  <2>9. w'.end = "complete" => \A i \in w'.there : \E m \in DOMAIN w'.got : w'.got[m] = i
    <3>1. CASE more
      <4>1. \A m \in DOMAIN w.got : m \in DOMAIN got /\ got[m] = w.got[m]
        <5>1. 1..g \subseteq 1..(g + k)
          BY <1>4, <1>5, <1>8
        <5> QED BY <1>8, <5>1
      <4> QED BY <1>0, <1>12, <3>1, <4>1 DEF WalkOk
    <3>2. CASE ~more
      BY <1>12, <1>16, <3>2
    <3> QED BY <3>1, <3>2
  <2> QED BY <2>4, <2>5, <2>6, <2>7, <2>8, <2>9 DEF WalkOk
<1>19. ExportOk'
  BY <1>0, <1>1, <1>13 DEF ExportOk, Ahead
<1> QED BY <1>11, <1>18, <1>19 DEF HistoryInv

\* A batch takes the rows after the first `offset'; those it leaves have at
\* least as many ahead of them as the next offset says.
LEMMA BatchKeeps ==
  ASSUME HistoryInv, History!WriteBatch
  PROVE  HistoryInv'
<1> DEFINE e == export
           S == History!Selected
           all == History!Ordered(S, History!BeforeInExport)
           N == Cardinality(S)
           to == e.offset + Limit
           b == IF Len(all) < to THEN Len(all) ELSE to
           batch == SubSeq(all, e.offset + 1, b)
           room == MaxRows - Len(e.written)
           cut == Len(batch) > room
           part1 == SubSeq(batch, 1, room)
           new == IF cut THEN part1 ELSE batch
           goes == ~cut /\ Len(batch) = Limit
           last == IF cut THEN "truncated" ELSE IF Len(batch) = Limit THEN e.end ELSE "complete"
<1>0. HistoryTypes /\ WalkOk /\ ExportOk
  BY DEF HistoryInv
<1>a. /\ e.offset \in Nat /\ e.written \in Seq(RowIds) /\ e.there \subseteq RowIds /\ e.on
      /\ Limit \in Nat \ {0} /\ MaxRows \in Nat /\ table \in [RowIds -> Times \cup {0}]
      /\ to \in Nat /\ room \in Int
  <2>1. /\ e.offset \in Nat /\ e.written \in Seq(RowIds) /\ e.there \subseteq RowIds /\ e.on
        /\ table \in [RowIds -> Times \cup {0}]
    BY <1>0 DEF HistoryTypes, History!WriteBatch
  <2>2. Limit \in Nat \ {0} /\ MaxRows \in Nat
    BY HistoryAssumption
  <2>3. Len(e.written) \in Nat
    BY <2>1
  <2> QED BY <2>1, <2>2, <2>3
<1>1. /\ UNCHANGED <<table, historyWalk, backfill>>
      /\ e' = [e EXCEPT !.written = e.written \o new, !.offset = e.offset + Len(batch),
                        !.on = goes, !.end = last]
  BY DEF History!WriteBatch, History!NextOffset
<1>2. S \in SUBSET RowIds /\ \A i \in e.there : i \in S
  BY <1>0 DEF ExportOk, History!Selected, History!Present
<1>3. Ascending(S, Exported, all) /\ IsFiniteSet(S) /\ StrictOrder(S, Exported)
  <2> HIDE DEF S, all
  <2>1. Ascending(S, Exported, History!Ordered(S, History!BeforeInExport))
    BY <1>a, <1>2, RowsInOrder
  <2> QED BY <1>a, <1>2, <2>1, HistoryOrders DEF all
<1>4. /\ N \in Nat /\ all \in Seq(S) /\ Len(all) = N
      /\ \A i \in S : \E m \in 1..N : all[m] = i
      /\ \A m \in 1..N : Cardinality(Ahead(S, Exported, all[m])) = m - 1
  <2> HIDE DEF S, all
  <2> QED BY <1>3, AscendingCounts
<1> HIDE DEF S, all, N
<1>5. /\ b \in Nat /\ b <= N /\ b <= to /\ (N < to => b = N) /\ (~(N < to) => b = to)
      /\ batch \in Seq(S) /\ Len(batch) = (IF b > e.offset THEN b - e.offset ELSE 0)
      /\ \A m \in 1..Len(batch) : m + e.offset \in 1..b /\ batch[m] = all[m + e.offset]
  <2>1. b \in Nat /\ b <= N /\ b <= to /\ (N < to => b = N) /\ (~(N < to) => b = to)
    BY <1>a, <1>4
  <2> HIDE DEF b, to
  <2>2. /\ batch \in Seq(S) /\ Len(batch) = (IF b > e.offset THEN b - e.offset ELSE 0)
        /\ \A m \in 1..Len(batch) : m + e.offset \in 1..b /\ batch[m] = all[m + e.offset]
    <3>1. e.offset \in Nat /\ b \in Int /\ all \in Seq(S) /\ b <= Len(all)
      BY <1>a, <1>4, <2>1
    <3> HIDE DEF e
    <3> QED BY <3>1, Sliced
  <2> QED BY <2>1, <2>2
<1> HIDE DEF b, batch
<1>6. /\ Len(batch) \in Nat /\ Len(batch) <= Limit /\ (Len(batch) = Limit => b = e.offset + Limit)
      /\ (Len(batch) # Limit => b = N)
  BY <1>a, <1>5
<1>7. new \in Seq(RowIds) /\ (~cut => new = batch)
  <2>1. batch \in Seq(RowIds)
    BY <1>2, <1>5
  <2>2. CASE cut
    <3>1. part1 = SubSeq(batch, 0 + 1, room) /\ room <= Len(batch)
      BY <1>a, <1>6, <2>2
    <3>2. SubSeq(batch, 0 + 1, room) \in Seq(RowIds)
      <4> HIDE DEF room
      <4> QED BY <1>a, <2>1, <3>1, Sliced
    <3> QED BY <2>2, <3>1, <3>2
  <2> QED BY <2>1, <2>2
<1> DEFINE w == e.written \o new
<1>8. /\ w \in Seq(RowIds) /\ DOMAIN w = 1..(Len(e.written) + Len(new))
      /\ Len(e.written) \in Nat /\ Len(new) \in Nat /\ DOMAIN e.written = 1..Len(e.written)
      /\ \A m \in 1..Len(e.written) : w[m] = e.written[m]
      /\ \A m \in 1..Len(new) : w[Len(e.written) + m] = new[m]
  <2> HIDE DEF new
  <2> QED BY <1>a, <1>7, Joined
<1> HIDE DEF new, w
<1>9. \A m \in DOMAIN e.written : m \in DOMAIN w /\ w[m] = e.written[m]
  <2>1. 1..Len(e.written) \subseteq 1..(Len(e.written) + Len(new))
    BY <1>8
  <2> QED BY <1>8, <2>1
<1>10. ~cut => \A m \in 1..Len(batch) : \E n \in DOMAIN w : w[n] = batch[m]
  <2> SUFFICES ASSUME ~cut, NEW m \in 1..Len(batch) PROVE \E n \in DOMAIN w : w[n] = batch[m]
    OBVIOUS
  <2>1. new = batch
    BY <1>7
  <2>2. Len(e.written) + m \in 1..(Len(e.written) + Len(new))
    BY <1>6, <1>8, <2>1
  <2> QED BY <1>8, <2>1, <2>2
<1> HIDE DEF cut
<1>11. ASSUME ~cut, NEW i \in e.there
       PROVE  \/ \E m \in DOMAIN w : w[m] = i
              \/ /\ Len(batch) = Limit
                 /\ Cardinality(Ahead(S, Exported, i)) >= e.offset + Len(batch)
  <2>1. CASE \E m \in DOMAIN e.written : e.written[m] = i
    BY <1>9, <2>1
  <2>2. CASE Cardinality(Ahead(S, Exported, i)) >= e.offset
    <3>1. PICK m \in 1..N : all[m] = i
      BY <1>2, <1>4
    <3>2. Cardinality(Ahead(S, Exported, i)) = m - 1 /\ m >= e.offset + 1 /\ m \in Nat
      BY <1>4, <1>a, <2>2, <3>1
    <3>3. CASE m <= b
      <4>1. m - e.offset \in 1..Len(batch) /\ (m - e.offset) + e.offset = m
        BY <1>a, <1>5, <3>2, <3>3
      <4>2. batch[m - e.offset] = i
        BY <1>5, <3>1, <4>1
      <4> QED BY <1>10, <1>11, <4>1, <4>2
    <3>4. CASE b < m
      <4>1. Len(batch) = Limit /\ b = e.offset + Limit
        BY <1>4, <1>5, <1>6, <3>1, <3>4
      <4>2. m - 1 >= e.offset + Len(batch)
        BY <1>a, <3>2, <3>4, <4>1
      <4> QED BY <3>2, <4>1, <4>2
    <3> QED BY <1>5, <3>2, <3>3, <3>4
  <2> QED BY <1>0, <1>a, <2>1, <2>2 DEF ExportOk, S
<1>12. /\ e'.written = w /\ e'.offset = e.offset + Len(batch) /\ e'.on = goes /\ e'.end = last
       /\ e'.there = e.there
  <2> HIDE DEF goes, last
  <2> QED BY <1>0, <1>1 DEF HistoryTypes, w
<1>13. HistoryTypes'
  <2>1. goes \in BOOLEAN /\ last \in {"none", "complete", "failed", "truncated"}
    BY <1>0 DEF HistoryTypes, cut
  <2>2. e.offset + Len(batch) \in Nat
    BY <1>a, <1>6
  <2> HIDE DEF goes, last
  <2>3. e' \in [on : BOOLEAN, offset : Nat, written : Seq(RowIds), there : SUBSET RowIds,
                end : {"none", "complete", "failed", "truncated"}]
    BY <1>0, <1>1, <1>8, <2>1, <2>2 DEF HistoryTypes, w
  <2> QED BY <1>0, <1>1, <2>3 DEF HistoryTypes
<1>14. S' = S /\ Exported' = Exported
  BY <1>1 DEF S, History!Selected, History!Present, Exported, History!BeforeInExport
<1>15. ExportOk'
  <2>1. e'.there \subseteq S'
    BY <1>2, <1>12, <1>14
  <2>2. \A i : Ahead(S', Exported', i) = Ahead(S, Exported, i)
    BY <1>14
  <2>3. e'.on => \A i \in e'.there :
                   \/ \E m \in DOMAIN e'.written : e'.written[m] = i
                   \/ Cardinality(Ahead(S', Exported', i)) >= e'.offset
    <3> SUFFICES ASSUME e'.on, NEW i \in e'.there
                 PROVE  \/ \E m \in DOMAIN e'.written : e'.written[m] = i
                        \/ Cardinality(Ahead(S', Exported', i)) >= e'.offset
      OBVIOUS
    <3>1. ~cut /\ Len(batch) = Limit /\ i \in e.there
      BY <1>12
    <3>2. \/ \E m \in DOMAIN w : w[m] = i
          \/ Cardinality(Ahead(S, Exported, i)) >= e.offset + Len(batch)
      BY <1>11, <3>1
    <3>3. Cardinality(Ahead(S', Exported', i)) = Cardinality(Ahead(S, Exported, i))
      BY <2>2
    <3> QED BY <1>12, <3>2, <3>3
  <2>4. e'.end = "complete" => \A i \in e'.there : \E m \in DOMAIN e'.written : e'.written[m] = i
    <3>1. CASE last = e.end
      <4>1. e.end = "complete" => \A i \in e.there : \E m \in DOMAIN e.written : e.written[m] = i
        BY <1>0 DEF ExportOk
      <4> QED BY <1>9, <1>12, <3>1, <4>1
    <3>2. CASE last = "truncated"
      BY <1>12, <3>2
    <3>3. CASE ~cut /\ Len(batch) # Limit
      BY <1>11, <1>12, <3>3
    <3> QED BY <3>1, <3>2, <3>3
  <2> QED BY <2>1, <2>3, <2>4 DEF ExportOk, S
<1>16. WalkOk'
  BY <1>0, <1>1, <1>14 DEF WalkOk, Past, S
<1> QED BY <1>13, <1>15, <1>16 DEF HistoryInv

LEMMA HistoryStarts == History!Init => HistoryInv
<1> SUFFICES ASSUME History!Init PROVE HistoryInv
  OBVIOUS
<1>1. /\ table \in [RowIds -> Times \cup {0}]
      /\ historyWalk = [on |-> FALSE, cursor |-> [t |-> 0, id |-> 0], got |-> << >>,
                        there |-> {}, end |-> "none"]
      /\ export = [on |-> FALSE, offset |-> 0, written |-> << >>, there |-> {}, end |-> "none"]
      /\ backfill = [on |-> FALSE, missing |-> {}, t |-> 0, end |-> "none"]
  BY DEF History!Init, History!NoWalk, History!NoExport, History!NoCursor, History!Absent
<1>2. HistoryTypes
  BY <1>1 DEF HistoryTypes
<1>3. WalkOk /\ ExportOk
  BY <1>1 DEF WalkOk, ExportOk
<1> QED BY <1>2, <1>3 DEF HistoryInv

LEMMA HistoryKept == HistoryInv /\ [History!Next]_historyVars => HistoryInv'
<1> SUFFICES ASSUME HistoryInv, [History!Next]_historyVars PROVE HistoryInv'
  OBVIOUS
<1>1. CASE UNCHANGED historyVars
  <2>1. HistoryTypes /\ WalkOk /\ ExportOk
    BY DEF HistoryInv
  <2>2. UNCHANGED <<table, historyWalk, export, backfill>>
    BY <1>1 DEF historyVars
  <2>3. /\ table \in [RowIds -> Times \cup {0}]
        /\ backfill \in [on : BOOLEAN, missing : SUBSET RowIds, t : Times \cup {0},
                         end : {"none", "refused", "created"}]
        /\ backfill.on => backfill.t \in Times
    BY <2>1 DEF HistoryTypes
  <2> QED BY <2>2, <2>3, TableGrows
<1>2. CASE History!Next
  BY <1>2, WritersKeep, ReadersBegin, PageKeeps, BatchKeeps DEF History!Next
<1> QED BY <1>1, <1>2

\* Whatever is inserted meanwhile, with equal timestamps or behind the cursor,
\* and for any size of pages: a walk has every row once, and an export that is
\* not cut off loses none (PayoutHistoryService.ts).
THEOREM HistoryAlwaysComplete == MCSpec => []HistoryComplete
<1> DEFINE I == part = "history" => HistoryInv
<1>1. MCInit => I
  BY HistoryStarts DEF MCInit, HistoryInit
<1>2. I /\ [MCNext]_mcVars => I'
  <2> SUFFICES ASSUME I, [MCNext]_mcVars PROVE I'
    OBVIOUS
  <2>1. UNCHANGED part /\ (part = "history" => [History!Next]_historyVars)
    BY DEF MCNext, mcVars, WalletStep, ReconStep, HistoryStep, NotifStep
  <2> QED BY <2>1, HistoryKept
<1>3. I => HistoryComplete
  <2> SUFFICES ASSUME HistoryInv PROVE History!EachRowOnce /\ History!ExportLosesNothing
    BY DEF HistoryComplete
  <2>1. WalkOk /\ ExportOk
    BY DEF HistoryInv
  <2>2. History!EachRowOnce
    BY <2>1 DEF WalkOk, History!EachRowOnce, History!IsInjective, History!Range
  <2>3. History!ExportLosesNothing
    BY <2>1 DEF ExportOk, History!ExportLosesNothing, History!Range
  <2> QED BY <2>2, <2>3
<1> QED BY <1>1, <1>2, <1>3, PTL DEF MCSpec
-----------------------------------------------------------------------------
(* The notifications.  Rows are never deleted and the index keeps them      *)
(* apart, so what an insert or a read back reported stays so; a walk goes   *)
(* by the rows' creation, which marking leaves alone.                       *)

Categories == Notif!MANDATORY_CATEGORIES \cup Notif!OptionalCategories

Row == [recipient : Recipients, event : Events, source : Workers, createdAt : 0..MaxTime,
        readAt : 0..(MaxTime + 1)]

NotifTypes ==
  /\ rows \in [NoticeIds -> Row \cup {Notif!Absent}]
  /\ \A p \in Recipients \X Notif!OptionalCategories : prefs[p] = "off" => p \in asked
  /\ asked \subseteq Recipients \X Notif!OptionalCategories
  /\ prefs \in [Recipients \X Notif!OptionalCategories -> {"unset", "on", "off"}]
  /\ saving \in Seq([category : Categories, enabled : {"on", "off"}])
  /\ \A n \in DOMAIN saving : saving[n].enabled = "off" => <<Reader, saving[n].category>> \in asked
  /\ call \in [Workers -> [by : {"none", "enqueue", "deliver", "create"}, event : Events \cup {"none"}, todo : Seq(Recipients),
                           pc : {"idle", "prefs", "insert", "readback", "done"},
                           pref : Categories \cup {"none"},
                           out : [Recipients -> {"none", "created", "existing", "suppressed", "failed"}]]]
  /\ now \in 0..MaxTime

\* The unique index on recipient and event.
OneRowEach ==
  \A i, j \in Notif!Present :
    rows[i].recipient = rows[j].recipient /\ rows[i].event = rows[j].event => i = j

\* Recipient r has a row of event e.
Has(r, e) == \E i \in Notif!RowsOf(r) : rows[i].event = e

\* The preference a call consults is the one its entry point takes for the event.
Governs(by, e, pref) ==
  \/ by = "enqueue" /\ pref = Notif!preferenceCategoryForNotification(CategoryOf[e])
  \/ by = "deliver" /\ pref = Notif!toPreferenceCategory(CategoryOf[e])
  \/ by = "create" /\ pref = "none"

\* Where a call stands, and what it has reported.
CallOk(w) ==
  /\ call[w].pc = "idle" => \A r \in Recipients : call[w].out[r] = "none"
  /\ call[w].pc # "idle" =>
       call[w].event \in Events /\ Governs(call[w].by, call[w].event, call[w].pref)
  /\ call[w].pc \in {"prefs", "insert", "readback"} => call[w].todo # << >>
  /\ call[w].pc = "prefs" => call[w].pref \in Notif!OptionalCategories
  /\ call[w].pc = "readback" => Has(Head(call[w].todo), call[w].event)
  /\ \A r \in Recipients :
       /\ call[w].out[r] = "created" =>
            \E i \in Notif!RowsOf(r) : rows[i].event = call[w].event /\ rows[i].source = w
       /\ call[w].out[r] = "existing" => Has(r, call[w].event)
       /\ call[w].out[r] = "suppressed" => <<r, call[w].pref>> \in asked

OutcomesOk == NotifTypes /\ OneRowEach /\ \A w \in Workers : CallOk(w)

\* A row is there from its insert on, and only its reading changes.
LEMMA PresentRows ==
  ASSUME NotifTypes
  PROVE  /\ \A i \in Notif!Present : i \in NoticeIds /\ rows[i] \in Row
         /\ \A i \in NoticeIds : i \notin Notif!Present => rows[i] = Notif!Absent
         /\ \A x \in Row : x # Notif!Absent
<1>1. \A x \in Row : x # Notif!Absent
  <2> SUFFICES ASSUME NEW x \in Row, x = [recipient |-> "none"] PROVE FALSE
    BY DEF Notif!Absent
  <2>1. DOMAIN x = {"recipient", "event", "source", "createdAt", "readAt"}
    BY DEF Row
  <2>2. DOMAIN x = {"recipient"}
    OBVIOUS
  <2> QED BY <2>1, <2>2
<1> QED BY <1>1 DEF NotifTypes, Notif!Present

\* When rows only come, or are only marked, and no call moves, nothing that
\* was reported becomes false.
LEMMA RowsKeepReports ==
  ASSUME OutcomesOk, NotifTypes', OneRowEach', asked \subseteq asked',
         NEW w \in Workers, call'[w] = call[w],
         \A i \in Notif!Present : /\ i \in Notif!Present'
                                  /\ rows'[i].recipient = rows[i].recipient
                                  /\ rows'[i].event = rows[i].event
                                  /\ rows'[i].source = rows[i].source
  PROVE  CallOk(w)'
<1>0. CallOk(w)
  BY DEF OutcomesOk
<1>1. \A r : \A i \in Notif!RowsOf(r) : i \in Notif!RowsOf(r)' /\ i \in Notif!Present
  BY DEF Notif!RowsOf
<1>2. \A r, e : Has(r, e) => Has(r, e)'
  BY <1>1 DEF Has
<1>3. \A r \in Recipients :
        (\E i \in Notif!RowsOf(r) : rows[i].event = call[w].event /\ rows[i].source = w) =>
        (\E i \in Notif!RowsOf(r)' : rows'[i].event = call'[w].event /\ rows'[i].source = w)
  BY <1>1
<1>4. call[w].pc = "readback" => Has(Head(call[w].todo), call[w].event)'
  BY <1>0, <1>2 DEF CallOk
<1> QED BY <1>0, <1>1, <1>2, <1>3, <1>4 DEF CallOk, Has

\* A sequence without its first member.
LEMMA Shorter ==
  ASSUME NEW S, NEW s \in Seq(S), s # << >>
  PROVE  /\ Head(s) \in S /\ Head(s) = s[1] /\ 1 \in DOMAIN s /\ Len(s) \in Nat \ {0}
         /\ Tail(s) \in Seq(S) /\ Len(Tail(s)) = Len(s) - 1
         /\ \A n \in DOMAIN Tail(s) : n + 1 \in DOMAIN s /\ Tail(s)[n] = s[n + 1]
<1>1. Len(s) \in Nat \ {0} /\ DOMAIN s = 1..Len(s)
  OBVIOUS
<1>2. Tail(s) \in Seq(S) /\ Len(Tail(s)) = Len(s) - 1 /\ DOMAIN Tail(s) = 1..(Len(s) - 1)
  OBVIOUS
<1>3. \A n \in 1..(Len(s) - 1) : Tail(s)[n] = s[n + 1]
  OBVIOUS
<1>4. Head(s) = s[1]
  OBVIOUS
<1> QED BY <1>1, <1>2, <1>3, <1>4

\* The steps of preferences, of the clock and of the reader's walk.
LEMMA PreferencesKeepReports ==
  ASSUME OutcomesOk, UNCHANGED <<rows, call>>, NotifTypes', asked \subseteq asked'
  PROVE  OutcomesOk'
<1>1. OneRowEach'
  BY DEF OutcomesOk, OneRowEach, Notif!Present
<1>2. Notif!Present' = Notif!Present
  BY DEF Notif!Present
<1>3. \A w \in Workers : CallOk(w)'
  BY <1>1, <1>2, RowsKeepReports
<1> QED BY <1>1, <1>3 DEF OutcomesOk

LEMMA SavingKeeps ==
  ASSUME OutcomesOk,
         \/ \E updates \in Saves : Notif!updatePreferences(updates)
         \/ Notif!UpsertPreference
         \/ Notif!UpsertFails
  PROVE  OutcomesOk'
<1>0. NotifTypes
  BY DEF OutcomesOk
<1>1. CASE \E updates \in Saves : Notif!updatePreferences(updates)
  <2>1. PICK updates \in Saves : Notif!updatePreferences(updates)
    BY <1>1
  <2>2. updates \in Seq([category : Categories, enabled : {"on", "off"}])
    BY NotifAssumption DEF Categories
  <2>3. /\ saving' = updates /\ UNCHANGED <<rows, prefs, call, now>> /\ asked \subseteq asked'
        /\ \A n \in DOMAIN updates : updates[n].enabled = "off" => <<Reader, updates[n].category>> \in asked'
    BY <2>1 DEF Notif!updatePreferences
  <2>5. asked' \subseteq Recipients \X Notif!OptionalCategories
    <3>1. \A n \in DOMAIN updates : updates[n].enabled = "off" =>
            updates[n].category \in Notif!OptionalCategories
      <4> SUFFICES ASSUME NEW n \in DOMAIN updates, updates[n].enabled = "off"
                   PROVE  updates[n].category \in Notif!OptionalCategories
        OBVIOUS
      <4>0. \A T : \A u \in Seq(T) : \A m \in DOMAIN u : u[m] \in T
        OBVIOUS
      <4>1. updates[n] \in [category : Categories, enabled : {"on", "off"}]
        BY <2>2, <4>0
      <4>2. updates[n].category \notin Notif!MANDATORY_CATEGORIES
        BY <2>1 DEF Notif!updatePreferences
      <4> QED BY <4>1, <4>2 DEF Categories
    <3> QED BY <1>0, <2>1, <3>1, NotifAssumption DEF Notif!updatePreferences, NotifTypes
  <2>4. NotifTypes'
    BY <1>0, <2>2, <2>3, <2>5 DEF NotifTypes
  <2> QED BY <2>3, <2>4, PreferencesKeepReports
<1>2. CASE Notif!UpsertPreference
  <2> DEFINE h == Head(saving)
             p == <<Reader, h.category>>
  <2>1. /\ saving # << >> /\ prefs' = [prefs EXCEPT ![p] = h.enabled] /\ saving' = Tail(saving)
        /\ UNCHANGED <<rows, asked, call, now>>
    BY <1>2 DEF Notif!UpsertPreference
  <2>2. /\ h \in [category : Categories, enabled : {"on", "off"}] /\ h = saving[1] /\ 1 \in DOMAIN saving
        /\ Tail(saving) \in Seq([category : Categories, enabled : {"on", "off"}])
        /\ \A n \in DOMAIN Tail(saving) : n + 1 \in DOMAIN saving /\ Tail(saving)[n] = saving[n + 1]
    <3> DEFINE U == [category : Categories, enabled : {"on", "off"}]
    <3>1. saving \in Seq(U) /\ saving # << >>
      BY <1>0, <2>1 DEF NotifTypes
    <3> HIDE DEF U
    <3>2. /\ Head(saving) \in U /\ Head(saving) = saving[1] /\ 1 \in DOMAIN saving
          /\ Tail(saving) \in Seq(U)
          /\ \A n \in DOMAIN Tail(saving) : n + 1 \in DOMAIN saving /\ Tail(saving)[n] = saving[n + 1]
      BY <3>1, Shorter
    <3> QED BY <3>2 DEF U
  <2>3. h.enabled = "off" => p \in asked
    BY <1>0, <2>2 DEF NotifTypes
  <2>4. \A n \in DOMAIN Tail(saving) :
          Tail(saving)[n].enabled = "off" => <<Reader, Tail(saving)[n].category>> \in asked
    BY <1>0, <2>2 DEF NotifTypes
  <2>5. h.enabled \in {"on", "off"}
    BY <2>2
  <2> HIDE DEF h, p
  <2>6. /\ prefs' \in [Recipients \X Notif!OptionalCategories -> {"unset", "on", "off"}]
        /\ \A q \in Recipients \X Notif!OptionalCategories : prefs'[q] = "off" => q \in asked
    BY <1>0, <2>1, <2>3, <2>5 DEF NotifTypes
  <2>7. NotifTypes'
    BY <1>0, <2>1, <2>2, <2>4, <2>6 DEF NotifTypes
  <2> QED BY <2>1, <2>7, PreferencesKeepReports
<1>3. CASE Notif!UpsertFails
  <2>1. saving' = << >> /\ UNCHANGED <<rows, prefs, asked, call, now>>
    BY <1>3 DEF Notif!UpsertFails
  <2>2. << >> \in Seq([category : Categories, enabled : {"on", "off"}]) /\ DOMAIN << >> = {}
    OBVIOUS
  <2>3. NotifTypes'
    BY <1>0, <2>1, <2>2 DEF NotifTypes
  <2> QED BY <2>1, <2>3, PreferencesKeepReports
<1> QED BY <1>1, <1>2, <1>3

LEMMA WalkingKeeps ==
  ASSUME OutcomesOk, Notif!StartWalk \/ Notif!listNotifications \/ Notif!Tick
  PROVE  OutcomesOk'
<1>1. UNCHANGED <<rows, prefs, asked, call, saving>> /\ now' \in 0..MaxTime
  BY NotifAssumption DEF OutcomesOk, NotifTypes, Notif!StartWalk, Notif!listNotifications, Notif!Tick
<1>2. NotifTypes'
  BY <1>1 DEF OutcomesOk, NotifTypes
<1> QED BY <1>1, <1>2, PreferencesKeepReports

\* Marking changes when a row was read and nothing else.
LEMMA Marked ==
  ASSUME NotifTypes, NEW ids \in SUBSET Notif!UnreadOf(Reader), Notif!Mark(ids)
  PROVE  /\ rows' \in [NoticeIds -> Row \cup {Notif!Absent}]
         /\ Notif!Present' = Notif!Present
         /\ UNCHANGED <<prefs, asked, call, saving, notifWalk, now>>
         /\ \A i \in Notif!Present : /\ rows'[i].recipient = rows[i].recipient
                                     /\ rows'[i].event = rows[i].event
                                     /\ rows'[i].source = rows[i].source
                                     /\ rows'[i].createdAt = rows[i].createdAt
                                     /\ rows'[i].readAt = rows[i].readAt \/ rows'[i].readAt # Notif!Unread
<1>0. MaxTime \in Nat /\ now \in 0..MaxTime
  BY NotifAssumption DEF NotifTypes
<1>1. ids \subseteq Notif!Present /\ Notif!Present \subseteq NoticeIds
  BY DEF Notif!UnreadOf, Notif!RowsOf, Notif!Present
<1>2. /\ rows' = [i \in NoticeIds |-> IF i \in ids THEN [rows[i] EXCEPT !.readAt = now] ELSE rows[i]]
      /\ UNCHANGED <<prefs, asked, call, saving, notifWalk, now>>
  BY DEF Notif!Mark
<1>3. \A x \in Row : /\ [x EXCEPT !.readAt = now] \in Row
                     /\ [x EXCEPT !.readAt = now].recipient = x.recipient
                     /\ [x EXCEPT !.readAt = now].event = x.event
                     /\ [x EXCEPT !.readAt = now].source = x.source
                     /\ [x EXCEPT !.readAt = now].createdAt = x.createdAt
                     /\ [x EXCEPT !.readAt = now].readAt = now
  BY <1>0 DEF Row
<1>4. now # Notif!Unread
  BY <1>0 DEF Notif!Unread
<1>5. \A i \in NoticeIds :
        /\ i \in ids => rows'[i] = [rows[i] EXCEPT !.readAt = now] /\ rows[i] \in Row /\ rows'[i] \in Row
        /\ i \notin ids => rows'[i] = rows[i]
  <2>1. \A i \in ids : rows[i] \in Row
    BY <1>1, PresentRows
  <2> QED BY <1>2, <1>3, <2>1
<1>6. Notif!Present' = Notif!Present
  <2>1. \A i \in NoticeIds : rows'[i] # Notif!Absent <=> rows[i] # Notif!Absent
    BY <1>5, PresentRows
  <2> QED BY <2>1 DEF Notif!Present, Notif!Absent
<1>7. rows' \in [NoticeIds -> Row \cup {Notif!Absent}]
  <2>1. \A i \in NoticeIds : rows'[i] \in Row \cup {Notif!Absent}
    BY <1>5 DEF NotifTypes
  <2> QED BY <1>2, <2>1
<1>8. ASSUME NEW i \in Notif!Present
      PROVE  /\ rows'[i].recipient = rows[i].recipient
             /\ rows'[i].event = rows[i].event
             /\ rows'[i].source = rows[i].source
             /\ rows'[i].createdAt = rows[i].createdAt
             /\ rows'[i].readAt = rows[i].readAt \/ rows'[i].readAt # Notif!Unread
  <2>1. i \in NoticeIds /\ rows[i] \in Row
    BY PresentRows
  <2>2. CASE i \in ids
    BY <1>3, <1>4, <1>5, <2>1, <2>2
  <2>3. CASE i \notin ids
    BY <1>5, <2>1, <2>3
  <2> QED BY <2>2, <2>3
<1> QED BY <1>2, <1>6, <1>7, <1>8

LEMMA MarkingKeeps ==
  ASSUME OutcomesOk, Notif!markRead \/ Notif!markAllRead
  PROVE  OutcomesOk'
<1>0. NotifTypes /\ OneRowEach
  BY DEF OutcomesOk
<1>1. PICK ids \in SUBSET Notif!UnreadOf(Reader) : Notif!Mark(ids)
  BY DEF Notif!markRead, Notif!markAllRead, Notif!Markable
<1>2. /\ rows' \in [NoticeIds -> Row \cup {Notif!Absent}]
      /\ Notif!Present' = Notif!Present
      /\ UNCHANGED <<prefs, asked, call, saving, notifWalk, now>>
      /\ \A i \in Notif!Present : /\ rows'[i].recipient = rows[i].recipient
                                  /\ rows'[i].event = rows[i].event
                                  /\ rows'[i].source = rows[i].source
  BY <1>0, <1>1, Marked
<1>3. NotifTypes'
  BY <1>0, <1>2 DEF NotifTypes
<1>4. OneRowEach'
  BY <1>0, <1>2 DEF OneRowEach
<1>5. \A w \in Workers : CallOk(w)'
  BY <1>2, <1>3, <1>4, RowsKeepReports
<1> QED BY <1>3, <1>4, <1>5 DEF OutcomesOk

Call == [by : {"none", "enqueue", "deliver", "create"}, event : Events \cup {"none"}, todo : Seq(Recipients),
         pc : {"idle", "prefs", "insert", "readback", "done"}, pref : Categories \cup {"none"},
         out : [Recipients -> {"none", "created", "existing", "suppressed", "failed"}]]

\* A step of one call, which may insert a row.
LEMMA OneCallMoves ==
  ASSUME OutcomesOk, NEW w \in Workers, NEW c \in Call, call' = [call EXCEPT ![w] = c],
         UNCHANGED <<prefs, asked, saving, now>>,
         rows' \in [NoticeIds -> Row \cup {Notif!Absent}], OneRowEach',
         \A i \in Notif!Present : rows'[i] = rows[i],
         CallOk(w)'
  PROVE  OutcomesOk'
<1>1. NotifTypes'
  <2>1. call' \in [Workers -> Call]
    BY DEF OutcomesOk, NotifTypes, Call
  <2> QED BY <2>1 DEF OutcomesOk, NotifTypes, Call
<1>2. \A i \in Notif!Present : i \in Notif!Present'
  BY DEF Notif!Present, Notif!Absent
<1>3. \A v \in Workers : CallOk(v)'
  <2> SUFFICES ASSUME NEW v \in Workers, v # w PROVE CallOk(v)'
    OBVIOUS
  <2>1. call'[v] = call[v]
    BY DEF OutcomesOk, NotifTypes
  <2> QED BY <1>1, <1>2, <2>1, RowsKeepReports
<1> QED BY <1>1, <1>3 DEF OutcomesOk

\* The same when no row is inserted.
LEMMA OneCallReports ==
  ASSUME OutcomesOk, NEW w \in Workers, NEW c \in Call, call' = [call EXCEPT ![w] = c],
         UNCHANGED <<rows, prefs, asked, saving, now>>, CallOk(w)'
  PROVE  OutcomesOk'
<1>1. OneRowEach' /\ rows' \in [NoticeIds -> Row \cup {Notif!Absent}]
  BY DEF OutcomesOk, OneRowEach, Notif!Present, NotifTypes, Notif!Absent
<1> QED BY <1>1, OneCallMoves

LEMMA CallsBegin ==
  ASSUME OutcomesOk, NEW w \in Workers, NEW e \in Events, NEW to \in Seq(Recipients), to # << >>,
         NEW pref \in Categories \cup {"none"}, NEW by \in {"enqueue", "deliver", "create"},
         Governs(by, e, pref), Notif!Begin(w, by, e, to, pref)
  PROVE  OutcomesOk'
<1> DEFINE c == [by |-> by, event |-> e, todo |-> to, pref |-> pref, pc |-> Notif!AfterGate(pref),
                 out |-> call[w].out]
<1>0. call \in [Workers -> Call] /\ CallOk(w)
  BY DEF OutcomesOk, NotifTypes, Call
<1>1. /\ call[w].pc = "idle" /\ call' = [call EXCEPT ![w] = c]
      /\ UNCHANGED <<rows, prefs, asked, saving, now>>
  BY DEF Notif!Begin
<1>2. /\ Notif!AfterGate(pref) \in {"insert", "prefs"}
      /\ Notif!AfterGate(pref) = "prefs" => pref \in Notif!OptionalCategories
  BY DEF Notif!AfterGate, Categories
<1>3. /\ c \in Call /\ c.by = by /\ c.event = e /\ c.todo = to /\ c.pref = pref
      /\ c.pc = Notif!AfterGate(pref) /\ c.out = call[w].out
  <2>1. call[w] \in Call
    BY <1>0
  <2>2. /\ call[w].out \in [Recipients -> {"none", "created", "existing", "suppressed", "failed"}]
        /\ Notif!AfterGate(pref) \in {"idle", "prefs", "insert", "readback", "done"}
    BY <2>1, <1>2 DEF Call
  <2> QED BY <2>2 DEF Call
<1> HIDE DEF c
<1>4. call'[w] = c
  BY <1>0, <1>1
<1>5. CallOk(w)'
  BY <1>0, <1>1, <1>2, <1>3, <1>4 DEF CallOk, Governs
<1> QED BY <1>1, <1>3, <1>5, OneCallReports

LEMMA DeliveriesBegin ==
  ASSUME OutcomesOk, NEW w \in Workers, NEW e \in Events,
         \/ \E r \in Recipients : Notif!enqueueNotification(w, e, r) \/ Notif!deliverNotification(w, e, r)
         \/ \E to \in Notif!SetToSeqs(Recipients) : Notif!createNotifications(w, e, to)
  PROVE  OutcomesOk'
<1>1. /\ CategoryOf[e] \in {"project", "participant", "system", "security", "payment"}
  BY NotifAssumption
<1>2. /\ Notif!preferenceCategoryForNotification(CategoryOf[e]) \in Categories \cup {"none"}
      /\ Notif!toPreferenceCategory(CategoryOf[e]) \in Categories \cup {"none"}
  BY <1>1 DEF Notif!preferenceCategoryForNotification, Notif!toPreferenceCategory, Categories,
              Notif!MANDATORY_CATEGORIES, Notif!OptionalCategories
<1>3. \A r \in Recipients : <<r>> \in Seq(Recipients) /\ <<r>> # << >>
  OBVIOUS
<1>4. \A to \in Notif!SetToSeqs(Recipients) : to \in Seq(Recipients) /\ to # << >>
  <2>1. Cardinality(Recipients) \in Nat /\ Cardinality(Recipients) # 0
    BY NotifAssumption, FS_CardinalityType, FS_EmptySet
  <2>2. Notif!Cardinality(Recipients) = Cardinality(Recipients)
    BY DEF Notif!Cardinality, Cardinality
  <2>3. \A to \in Notif!SetToSeqs(Recipients) : to \in [1..Cardinality(Recipients) -> Recipients]
    BY <2>2 DEF Notif!SetToSeqs
  <2>4. \A to \in [1..Cardinality(Recipients) -> Recipients] : to \in Seq(Recipients) /\ to # << >>
    <3> SUFFICES ASSUME NEW n \in Nat \ {0}, NEW to \in [1..n -> Recipients]
                 PROVE  to \in Seq(Recipients) /\ to # << >>
      BY <2>1
    <3>1. 1 \in DOMAIN to /\ to \in Seq(Recipients)
      OBVIOUS
    <3> QED BY <3>1
  <2> QED BY <2>3, <2>4
<1>5. /\ Governs("enqueue", e, Notif!preferenceCategoryForNotification(CategoryOf[e]))
      /\ Governs("deliver", e, Notif!toPreferenceCategory(CategoryOf[e]))
      /\ Governs("create", e, "none")
  BY DEF Governs
<1> QED BY <1>2, <1>3, <1>4, <1>5, CallsBegin
        DEF Notif!enqueueNotification, Notif!deliverNotification, Notif!createNotifications

\* Only an optional category its owner switched off is suppressed.
LEMMA AskingKeeps ==
  ASSUME OutcomesOk, NEW w \in Workers, Notif!shouldDeliver(w)
  PROVE  OutcomesOk'
<1> DEFINE r == Head(call[w].todo)
           yes == [call[w] EXCEPT !.pc = "insert"]
           no == [call[w] EXCEPT !.pc = "done", !.out[r] = "suppressed"]
           p == <<r, call[w].pref>>
<1>0. call \in [Workers -> Call] /\ CallOk(w)
  BY DEF OutcomesOk, NotifTypes, Call
<1>1. /\ call[w].pc = "prefs" /\ call[w] \in Call /\ UNCHANGED <<rows, prefs, asked, saving, now>>
      /\ call' = [call EXCEPT ![w] = IF Notif!Enabled(r, call[w].pref) THEN yes ELSE no]
  BY <1>0 DEF Notif!shouldDeliver
<1>2. r \in Recipients /\ call[w].pref \in Notif!OptionalCategories
  <2>1. call[w].todo \in Seq(Recipients) /\ call[w].todo # << >> /\ call[w].pref \in Notif!OptionalCategories
    BY <1>0, <1>1 DEF Call, CallOk
  <2> QED BY <2>1, Shorter
<1> HIDE DEF r
<1>3. CASE Notif!Enabled(r, call[w].pref)
  <2>1. /\ yes \in Call /\ yes.pc = "insert" /\ yes.by = call[w].by /\ yes.event = call[w].event /\ yes.todo = call[w].todo
        /\ yes.pref = call[w].pref /\ yes.out = call[w].out
    BY <1>1 DEF Call
  <2> HIDE DEF yes, no
  <2>2. call' = [call EXCEPT ![w] = yes] /\ call'[w] = yes
    BY <1>0, <1>1, <1>3
  <2>3. CallOk(w)'
    BY <1>0, <1>1, <2>1, <2>2 DEF CallOk, Has, Governs, Notif!RowsOf, Notif!Present, Notif!Absent
  <2> QED BY <1>1, <2>1, <2>2, <2>3, OneCallReports
<1>4. CASE ~Notif!Enabled(r, call[w].pref)
  <2>1. /\ no \in Call /\ no.pc = "done" /\ no.by = call[w].by /\ no.event = call[w].event /\ no.todo = call[w].todo
        /\ no.pref = call[w].pref /\ no.out = [call[w].out EXCEPT ![r] = "suppressed"]
    BY <1>1, <1>2 DEF Call
  <2>2. call[w].out \in [Recipients -> {"none", "created", "existing", "suppressed", "failed"}]
    BY <1>1 DEF Call
  <2>3. p \in asked
    <3>1. p \in Recipients \X Notif!OptionalCategories /\ prefs[p] = "off"
      BY <1>2, <1>4 DEF Notif!Enabled
    <3> QED BY <3>1 DEF OutcomesOk, NotifTypes
  <2> HIDE DEF yes, no
  <2>4. call' = [call EXCEPT ![w] = no] /\ call'[w] = no
    BY <1>0, <1>1, <1>4
  <2>5. \A q \in Recipients : no.out[q] = IF q = r THEN "suppressed" ELSE call[w].out[q]
    BY <2>1, <2>2
  <2>6. CallOk(w)'
    <3>1. \A q : Notif!RowsOf(q)' = Notif!RowsOf(q)
      BY <1>1 DEF Notif!RowsOf, Notif!Present, Notif!Absent
    <3>2. \A q \in Recipients :
            /\ no.out[q] = "created" =>
                 \E i \in Notif!RowsOf(q)' : rows'[i].event = no.event /\ rows'[i].source = w
            /\ no.out[q] = "existing" => \E i \in Notif!RowsOf(q)' : rows'[i].event = no.event
            /\ no.out[q] = "suppressed" => <<q, no.pref>> \in asked'
      BY <1>0, <1>1, <2>1, <2>3, <2>5, <3>1 DEF CallOk, Has, p
    <3>3. no.pc = "done" /\ no.event \in Events /\ Governs(no.by, no.event, no.pref)
      BY <1>0, <1>1, <2>1 DEF CallOk
    <3> QED BY <2>4, <3>2, <3>3 DEF CallOk, Has, Governs
  <2> QED BY <1>1, <2>1, <2>4, <2>6, OneCallReports
<1> QED BY <1>3, <1>4

\* A call goes on to its next recipient.
LEMMA SettledCall ==
  ASSUME NEW c \in Call, c.todo # << >>,
         NEW outcome \in {"none", "created", "existing", "suppressed", "failed"}
  PROVE  LET d == Notif!Settled(c, outcome)
             r == Head(c.todo)
         IN  /\ d \in Call /\ r \in Recipients /\ d.by = c.by /\ d.event = c.event /\ d.pref = c.pref
             /\ d.pc \in {"done", "insert"} /\ (d.pc = "insert" => d.todo # << >>)
             /\ \A q \in Recipients : d.out[q] = IF q = r THEN outcome ELSE c.out[q]
<1> DEFINE r == Head(c.todo)
           todo == Tail(c.todo)
           pc == IF Len(c.todo) = 1 THEN "done" ELSE "insert"
           d == [c EXCEPT !.out[r] = outcome, !.todo = todo, !.pc = pc]
<1>1. /\ c.todo \in Seq(Recipients)
      /\ c.out \in [Recipients -> {"none", "created", "existing", "suppressed", "failed"}]
  BY DEF Call
<1>2. r \in Recipients /\ todo \in Seq(Recipients) /\ Len(todo) = Len(c.todo) - 1 /\ Len(c.todo) \in Nat
  BY <1>1, Shorter
<1>3. pc \in {"done", "insert"} /\ (pc = "insert" => todo # << >>)
  <2>1. Len(c.todo) # 1 => Len(todo) # 0
    BY <1>2
  <2>2. Len(<< >>) = 0
    OBVIOUS
  <2> HIDE DEF todo
  <2> QED BY <1>2, <2>1, <2>2
<1> HIDE DEF r, todo, pc
<1>4. /\ d \in Call /\ d.by = c.by /\ d.event = c.event /\ d.pref = c.pref /\ d.pc = pc /\ d.todo = todo
      /\ d.out = [c.out EXCEPT ![r] = outcome]
  BY <1>1, <1>2, <1>3 DEF Call
<1>5. d = Notif!Settled(c, outcome)
  BY DEF Notif!Settled, r, todo, pc
<1> HIDE DEF d
<1> QED BY <1>1, <1>2, <1>3, <1>4, <1>5 DEF r

\* The row of an insert: there is none of its recipient and event.
LEMMA InsertKeeps ==
  ASSUME OutcomesOk, NEW w \in Workers, Notif!Insert(w)
  PROVE  OutcomesOk'
<1> DEFINE r == Head(call[w].todo)
           d == Notif!Settled(call[w], "created")
           new == [recipient |-> r, event |-> call[w].event, source |-> w, createdAt |-> now,
                   readAt |-> Notif!Unread]
<1>0. call \in [Workers -> Call] /\ CallOk(w) /\ call[w] \in Call /\ NotifTypes /\ OneRowEach
  BY DEF OutcomesOk, NotifTypes, Call
<1>1. /\ call[w].pc = "insert" /\ UNCHANGED <<prefs, asked, saving, now>>
      /\ call' = [call EXCEPT ![w] = d]
      /\ \A i \in Notif!RowsOf(r) : rows[i].event # call[w].event
  BY DEF Notif!Insert, Notif!Conflicts
<1>2. PICK k \in NoticeIds \ Notif!Present : rows' = [rows EXCEPT ![k] = new]
  BY DEF Notif!Insert
<1>3. /\ d \in Call /\ r \in Recipients /\ d.by = call[w].by /\ d.event = call[w].event /\ d.pref = call[w].pref
      /\ d.pc \in {"done", "insert"} /\ (d.pc = "insert" => d.todo # << >>)
      /\ \A q \in Recipients : d.out[q] = IF q = r THEN "created" ELSE call[w].out[q]
  BY <1>0, <1>1, SettledCall DEF CallOk
<1> HIDE DEF r, d
<1>4. call[w].event \in Events /\ Governs(d.by, d.event, d.pref)
  BY <1>0, <1>1, <1>3 DEF CallOk
<1>5. /\ new \in Row /\ new.recipient = r /\ new.event = call[w].event /\ new.source = w
  <2>1. now \in 0..MaxTime /\ Notif!Unread \in 0..(MaxTime + 1)
    BY <1>0, NotifAssumption DEF NotifTypes, Notif!Unread
  <2> QED BY <1>3, <1>4, <2>1 DEF Row
<1> HIDE DEF new
<1>6. /\ rows' \in [NoticeIds -> Row \cup {Notif!Absent}] /\ rows'[k] = new
      /\ \A i \in NoticeIds \ {k} : rows'[i] = rows[i]
  BY <1>0, <1>2, <1>5 DEF NotifTypes
<1>7. Notif!Present' = Notif!Present \cup {k}
  BY <1>5, <1>6, PresentRows, <1>0 DEF Notif!Present, Notif!Absent
<1>8. \A i \in Notif!Present : rows'[i] = rows[i]
  BY <1>2, <1>6 DEF Notif!Present
<1>9. OneRowEach'
  <2>1. \A i \in Notif!Present : rows[i].recipient # r \/ rows[i].event # call[w].event
    BY <1>1 DEF Notif!RowsOf
  <2> QED BY <1>0, <1>5, <1>6, <1>7, <1>8, <2>1 DEF OneRowEach
<1>10. CallOk(w)'
  <2>1. \A q : \A i \in Notif!RowsOf(q) : i \in Notif!RowsOf(q)' /\ rows'[i] = rows[i]
    BY <1>7, <1>8 DEF Notif!RowsOf
  <2>2. /\ \A q : q = r => k \in Notif!RowsOf(q)'
        /\ rows'[k].event = call[w].event /\ rows'[k].source = w
    BY <1>5, <1>6, <1>7 DEF Notif!RowsOf
  <2>3. call'[w] = d
    BY <1>0, <1>1
  <2>4. \A q \in Recipients :
          /\ d.out[q] = "created" =>
               \E i \in Notif!RowsOf(q)' : rows'[i].event = d.event /\ rows'[i].source = w
          /\ d.out[q] = "existing" => \E i \in Notif!RowsOf(q)' : rows'[i].event = d.event
          /\ d.out[q] = "suppressed" => <<q, d.pref>> \in asked'
    <3> SUFFICES ASSUME NEW q \in Recipients
                 PROVE  /\ d.out[q] = "created" =>
                             \E i \in Notif!RowsOf(q)' : rows'[i].event = d.event /\ rows'[i].source = w
                        /\ d.out[q] = "existing" => \E i \in Notif!RowsOf(q)' : rows'[i].event = d.event
                        /\ d.out[q] = "suppressed" => <<q, d.pref>> \in asked'
      OBVIOUS
    <3>1. CASE q = r
      BY <1>3, <2>2, <3>1
    <3>2. CASE q # r
      BY <1>0, <1>1, <1>3, <2>1, <3>2 DEF CallOk, Has
    <3> QED BY <3>1, <3>2
  <2> QED BY <1>3, <1>4, <2>3, <2>4 DEF CallOk, Has, Governs
<1> QED BY <1>1, <1>3, <1>6, <1>8, <1>9, <1>10, OneCallMoves

\* The other statements of a call.
LEMMA StatementsKeep ==
  ASSUME OutcomesOk, NEW w \in Workers,
         Notif!UniqueViolation(w) \/ Notif!ReadBack(w) \/ Notif!StatementFails(w)
  PROVE  OutcomesOk'
<1> DEFINE r == Head(call[w].todo)
<1>0. call \in [Workers -> Call] /\ CallOk(w) /\ call[w] \in Call
  BY DEF OutcomesOk, NotifTypes, Call
<1>1. /\ UNCHANGED <<rows, prefs, asked, saving, now>>
      /\ call[w].pc \in {"prefs", "insert", "readback"}
  BY DEF Notif!UniqueViolation, Notif!ReadBack, Notif!StatementFails
<1>2. call[w].todo # << >> /\ call[w].event \in Events /\ r \in Recipients
  <2>1. call[w].todo # << >> /\ call[w].event \in Events /\ call[w].todo \in Seq(Recipients)
    BY <1>0, <1>1 DEF CallOk, Call
  <2> QED BY <2>1, Shorter
<1>3. \A q : Notif!RowsOf(q)' = Notif!RowsOf(q)
  BY <1>1 DEF Notif!RowsOf, Notif!Present, Notif!Absent
<1>4. ASSUME NEW d \in Call, call' = [call EXCEPT ![w] = d],
             d.by = call[w].by, d.event = call[w].event, d.pref = call[w].pref,
             d.pc \in {"insert", "done", "readback"}, d.pc # "done" => d.todo # << >>,
             d.pc = "readback" => d.todo = call[w].todo /\ Has(r, call[w].event),
             \A q \in Recipients :
               \/ d.out[q] = call[w].out[q]
               \/ d.out[q] = "failed"
               \/ d.out[q] = "existing" /\ Has(q, call[w].event)
      PROVE  OutcomesOk'
  <2>1. call'[w] = d
    BY <1>0, <1>4
  <2>2. \A q \in Recipients :
          /\ d.out[q] = "created" =>
               \E i \in Notif!RowsOf(q)' : rows'[i].event = d.event /\ rows'[i].source = w
          /\ d.out[q] = "existing" => \E i \in Notif!RowsOf(q)' : rows'[i].event = d.event
          /\ d.out[q] = "suppressed" => <<q, d.pref>> \in asked'
    BY <1>0, <1>1, <1>3, <1>4 DEF CallOk, Has
  <2>3. d.pc = "readback" => \E i \in Notif!RowsOf(Head(d.todo))' : rows'[i].event = d.event
    BY <1>1, <1>3, <1>4 DEF Has
  <2>4. Governs(d.by, d.event, d.pref)
    BY <1>0, <1>1, <1>4 DEF CallOk
  <2>5. CallOk(w)'
    BY <1>2, <1>4, <2>1, <2>2, <2>3, <2>4 DEF CallOk, Has, Governs
  <2> QED BY <1>1, <1>4, <2>5, OneCallReports
<1>5. CASE Notif!UniqueViolation(w)
  <2> DEFINE d == [call[w] EXCEPT !.pc = "readback"]
  <2>1. call' = [call EXCEPT ![w] = d] /\ Has(r, call[w].event)
    BY <1>5 DEF Notif!UniqueViolation, Notif!Conflicts, Has
  <2>2. d \in Call /\ d.by = call[w].by /\ d.event = call[w].event /\ d.pref = call[w].pref /\ d.pc = "readback"
        /\ d.todo = call[w].todo /\ d.out = call[w].out
    BY <1>0 DEF Call
  <2> HIDE DEF d, r
  <2> QED BY <1>2, <1>4, <2>1, <2>2
<1>6. CASE Notif!ReadBack(w)
  <2> DEFINE d == Notif!Settled(call[w], "existing")
  <2>1. call[w].pc = "readback" /\ call' = [call EXCEPT ![w] = d]
    BY <1>6 DEF Notif!ReadBack
  <2>2. Has(r, call[w].event)
    BY <1>0, <2>1 DEF CallOk
  <2>3. /\ d \in Call /\ d.by = call[w].by /\ d.event = call[w].event /\ d.pref = call[w].pref
        /\ d.pc \in {"done", "insert"} /\ (d.pc = "insert" => d.todo # << >>)
        /\ \A q \in Recipients : d.out[q] = IF q = r THEN "existing" ELSE call[w].out[q]
    BY <1>0, <1>2, SettledCall
  <2> HIDE DEF d, r
  <2> QED BY <1>4, <2>1, <2>2, <2>3
<1>7. CASE Notif!StatementFails(w)
  <2> DEFINE d == [call[w] EXCEPT !.out[r] = "failed", !.pc = "done"]
  <2> HIDE DEF r
  <2>1. call' = [call EXCEPT ![w] = d]
    BY <1>0, <1>7 DEF Notif!StatementFails, Call, r
  <2>2. d \in Call /\ d.by = call[w].by /\ d.event = call[w].event /\ d.pref = call[w].pref /\ d.pc = "done"
        /\ d.out = [call[w].out EXCEPT ![r] = "failed"]
    BY <1>0, <1>2 DEF Call
  <2>3. \A q \in Recipients : d.out[q] = call[w].out[q] \/ d.out[q] = "failed"
    BY <1>0, <1>2, <2>2 DEF Call
  <2> HIDE DEF d
  <2> QED BY <1>4, <2>1, <2>2, <2>3
<1> QED BY <1>5, <1>6, <1>7

Newer == {p \in NoticeIds \X NoticeIds :
            \/ rows[p[1]].createdAt > rows[p[2]].createdAt
            \/ rows[p[1]].createdAt = rows[p[2]].createdAt /\ p[1] > p[2]}

After(c, i) == rows[i].createdAt < c.t \/ (rows[i].createdAt = c.t /\ i < c.id)

\* What was shown lies before the cursor, and what is still owed after it.
NoticesWalkOk ==
  /\ notifWalk \in [cursor : [t : Nat, id : Nat], shown : Seq(NoticeIds), there : SUBSET NoticeIds,
                    pc : {"idle", "page", "end"}]
  /\ \A i \in notifWalk.there : i \in Notif!RowsOf(Reader)
  /\ \A m, n \in DOMAIN notifWalk.shown : notifWalk.shown[m] = notifWalk.shown[n] => m = n
  /\ \A m \in DOMAIN notifWalk.shown : notifWalk.shown[m] \in Notif!RowsOf(Reader)
  /\ notifWalk.pc = "page" =>
       /\ \A m \in DOMAIN notifWalk.shown : ~After(notifWalk.cursor, notifWalk.shown[m])
       /\ \A i \in notifWalk.there : i \in Notif!UnreadOf(Reader) =>
            (\E m \in DOMAIN notifWalk.shown : notifWalk.shown[m] = i) \/ After(notifWalk.cursor, i)
  /\ notifWalk.pc = "end" =>
       \A i \in notifWalk.there : i \in Notif!UnreadOf(Reader) =>
         \E m \in DOMAIN notifWalk.shown : notifWalk.shown[m] = i

NotifInv == OutcomesOk /\ NoticesWalkOk

\* Between its pages rows come and are marked read; none moves.
LEMMA RowsKeepWalk ==
  ASSUME NoticesWalkOk, UNCHANGED notifWalk,
         \A i \in Notif!RowsOf(Reader) :
           /\ i \in Notif!RowsOf(Reader)' /\ rows'[i].createdAt = rows[i].createdAt
           /\ rows'[i].readAt = rows[i].readAt \/ rows'[i].readAt # Notif!Unread
  PROVE  NoticesWalkOk'
<1>1. \A i \in Notif!RowsOf(Reader) : i \in Notif!UnreadOf(Reader)' => i \in Notif!UnreadOf(Reader)
  BY DEF Notif!UnreadOf, Notif!Unread
<1>2. \A i \in Notif!RowsOf(Reader) :
        After(notifWalk.cursor, i)' <=> After(notifWalk.cursor, i)
  BY DEF After
<1>3. \A i \in notifWalk.there : i \in Notif!RowsOf(Reader) /\ i \in Notif!RowsOf(Reader)'
  BY DEF NoticesWalkOk
<1>4. \A m \in DOMAIN notifWalk.shown :
        notifWalk.shown[m] \in Notif!RowsOf(Reader) /\ notifWalk.shown[m] \in Notif!RowsOf(Reader)'
  BY DEF NoticesWalkOk
<1>5. notifWalk.pc = "page" =>
        /\ \A m \in DOMAIN notifWalk.shown : ~After(notifWalk.cursor, notifWalk.shown[m])'
        /\ \A i \in notifWalk.there : i \in Notif!UnreadOf(Reader)' =>
             (\E m \in DOMAIN notifWalk.shown : notifWalk.shown[m] = i) \/ After(notifWalk.cursor, i)'
  <2> SUFFICES ASSUME notifWalk.pc = "page"
               PROVE  /\ \A m \in DOMAIN notifWalk.shown : ~After(notifWalk.cursor, notifWalk.shown[m])'
                      /\ \A i \in notifWalk.there : i \in Notif!UnreadOf(Reader)' =>
                           (\E m \in DOMAIN notifWalk.shown : notifWalk.shown[m] = i) \/ After(notifWalk.cursor, i)'
    OBVIOUS
  <2>1. \A m \in DOMAIN notifWalk.shown : ~After(notifWalk.cursor, notifWalk.shown[m])'
    <3> SUFFICES ASSUME NEW m \in DOMAIN notifWalk.shown
                 PROVE  ~After(notifWalk.cursor, notifWalk.shown[m])'
      OBVIOUS
    <3>1. ~After(notifWalk.cursor, notifWalk.shown[m]) /\ notifWalk.shown[m] \in Notif!RowsOf(Reader)
      BY DEF NoticesWalkOk
    <3> QED BY <3>1 DEF After
  <2>2. \A i \in notifWalk.there : i \in Notif!UnreadOf(Reader)' =>
          (\E m \in DOMAIN notifWalk.shown : notifWalk.shown[m] = i) \/ After(notifWalk.cursor, i)'
    BY <1>1, <1>2, <1>3 DEF NoticesWalkOk
  <2> QED BY <2>1, <2>2
<1>6. notifWalk.pc = "end" =>
        \A i \in notifWalk.there : i \in Notif!UnreadOf(Reader)' =>
          \E m \in DOMAIN notifWalk.shown : notifWalk.shown[m] = i
  BY <1>1, <1>3 DEF NoticesWalkOk
<1> QED BY <1>3, <1>4, <1>5, <1>6 DEF NoticesWalkOk

\* Every step but those of the walk.
LEMMA OthersKeepWalk ==
  ASSUME NotifInv,
         \/ \E w \in Workers :
              \/ \E e \in Events : \E r \in Recipients :
                   Notif!enqueueNotification(w, e, r) \/ Notif!deliverNotification(w, e, r)
              \/ \E e \in Events : \E to \in Notif!SetToSeqs(Recipients) :
                   Notif!createNotifications(w, e, to)
              \/ Notif!shouldDeliver(w) \/ Notif!Insert(w) \/ Notif!UniqueViolation(w)
              \/ Notif!ReadBack(w) \/ Notif!StatementFails(w)
         \/ \E updates \in Saves : Notif!updatePreferences(updates)
         \/ Notif!UpsertPreference \/ Notif!UpsertFails
         \/ Notif!markRead \/ Notif!markAllRead \/ Notif!Tick
  PROVE  NoticesWalkOk'
<1>0. NoticesWalkOk /\ NotifTypes
  BY DEF NotifInv, OutcomesOk
<1>1. CASE UNCHANGED <<rows, notifWalk>>
  <2>1. \A i \in Notif!RowsOf(Reader) : i \in Notif!RowsOf(Reader)'
    BY <1>1 DEF Notif!RowsOf, Notif!Present, Notif!Absent
  <2> QED BY <1>0, <1>1, <2>1, RowsKeepWalk
<1>2. CASE Notif!markRead \/ Notif!markAllRead
  <2>1. PICK ids \in SUBSET Notif!UnreadOf(Reader) : Notif!Mark(ids)
    BY <1>2 DEF Notif!markRead, Notif!markAllRead, Notif!Markable
  <2>2. /\ Notif!Present' = Notif!Present /\ UNCHANGED notifWalk
        /\ \A i \in Notif!Present : /\ rows'[i].recipient = rows[i].recipient
                                    /\ rows'[i].createdAt = rows[i].createdAt
                                    /\ rows'[i].readAt = rows[i].readAt \/ rows'[i].readAt # Notif!Unread
    BY <1>0, <2>1, Marked
  <2>3. \A i \in Notif!RowsOf(Reader) :
          /\ i \in Notif!RowsOf(Reader)' /\ rows'[i].createdAt = rows[i].createdAt
          /\ rows'[i].readAt = rows[i].readAt \/ rows'[i].readAt # Notif!Unread
    BY <2>2 DEF Notif!RowsOf
  <2> QED BY <1>0, <2>2, <2>3, RowsKeepWalk
<1>3. ASSUME NEW w \in Workers, Notif!Insert(w) PROVE NoticesWalkOk'
  <2>1. PICK k \in NoticeIds \ Notif!Present : \E new : rows' = [rows EXCEPT ![k] = new]
    BY <1>3 DEF Notif!Insert
  <2>2. UNCHANGED notifWalk
    BY <1>3 DEF Notif!Insert
  <2>3. \A i \in Notif!Present : rows'[i] = rows[i] /\ i \in NoticeIds
    BY <1>0, <2>1 DEF NotifTypes, Notif!Present
  <2>4. \A i \in Notif!RowsOf(Reader) : i \in Notif!RowsOf(Reader)' /\ rows'[i] = rows[i]
    BY <2>3 DEF Notif!RowsOf, Notif!Present, Notif!Absent
  <2> QED BY <1>0, <2>2, <2>4, RowsKeepWalk
<1> QED BY <1>1, <1>2, <1>3
        DEF Notif!enqueueNotification, Notif!deliverNotification, Notif!createNotifications, Notif!Begin,
            Notif!shouldDeliver, Notif!UniqueViolation, Notif!ReadBack, Notif!StatementFails,
            Notif!updatePreferences, Notif!UpsertPreference, Notif!UpsertFails, Notif!Tick

LEMMA WalkStarts ==
  ASSUME NotifInv, Notif!StartWalk
  PROVE  NoticesWalkOk'
<1>0. OutcomesOk /\ NotifTypes /\ MaxTime \in Nat
  BY NotifAssumption DEF NotifInv, OutcomesOk
<1>1. /\ notifWalk = Notif!NoWalk /\ rows' = rows
      /\ notifWalk' = [notifWalk EXCEPT !.there = Notif!UnreadOf(Reader), !.pc = "page"]
  BY DEF Notif!StartWalk
<1>2. notifWalk' = [cursor |-> [t |-> MaxTime + 1, id |-> 0], shown |-> << >>,
                    there |-> Notif!UnreadOf(Reader), pc |-> "page"]
  BY <1>1 DEF Notif!NoWalk, Notif!NoCursor
<1>3. Notif!RowsOf(Reader)' = Notif!RowsOf(Reader) /\ Notif!UnreadOf(Reader) \subseteq Notif!RowsOf(Reader)
  BY <1>1 DEF Notif!UnreadOf, Notif!RowsOf, Notif!Present, Notif!Absent
<1>4. \A i \in Notif!RowsOf(Reader) :
        i \in NoticeIds /\ i \in Notif!Present /\ rows[i] \in Row /\ rows[i].createdAt < MaxTime + 1
  <2>1. \A i \in Notif!RowsOf(Reader) : i \in NoticeIds /\ i \in Notif!Present /\ rows[i] \in Row
    BY <1>0, PresentRows DEF Notif!RowsOf
  <2>2. \A x \in Row : x.createdAt < MaxTime + 1
    BY <1>0 DEF Row
  <2> QED BY <2>1, <2>2
<1>5. << >> \in Seq(NoticeIds) /\ DOMAIN << >> = {} /\ MaxTime + 1 \in Nat
  BY <1>0
<1>6. Notif!UnreadOf(Reader) \in SUBSET NoticeIds
  BY <1>3, <1>4
<1>7. \A i \in Notif!RowsOf(Reader) : After(notifWalk.cursor, i)'
  <2>1. notifWalk'.cursor.t = MaxTime + 1
    BY <1>2
  <2> QED BY <1>1, <1>4, <2>1 DEF After
<1>8. /\ notifWalk' \in [cursor : [t : Nat, id : Nat], shown : Seq(NoticeIds), there : SUBSET NoticeIds,
                         pc : {"idle", "page", "end"}]
      /\ notifWalk'.pc = "page" /\ notifWalk'.shown = << >> /\ DOMAIN notifWalk'.shown = {}
      /\ notifWalk'.there = Notif!UnreadOf(Reader)
  BY <1>2, <1>5, <1>6
<1>9. \A i \in notifWalk'.there : i \in Notif!RowsOf(Reader)' /\ After(notifWalk.cursor, i)'
  BY <1>3, <1>7, <1>8
<1> QED BY <1>8, <1>9 DEF NoticesWalkOk

\* What a page returns.
LEMMA NoticesInOrder ==
  ASSUME NotifTypes, NEW S \in SUBSET Notif!Present
  PROVE  /\ IsFiniteSet(S) /\ StrictOrder(S, Newer)
         /\ Ascending(S, Newer, Notif!NewestFirst(S))
<1>1. NoticeIds \subseteq Nat /\ IsFiniteSet(NoticeIds) /\ MaxTime \in Nat
  BY NotifAssumption
<1>2. \A i \in S : i \in NoticeIds /\ i \in Nat /\ rows[i].createdAt \in Nat
  <2>1. \A i \in S : i \in NoticeIds /\ rows[i] \in Row
    BY PresentRows
  <2>2. \A x \in Row : x.createdAt \in Nat
    BY <1>1 DEF Row
  <2> QED BY <1>1, <2>1, <2>2
<1>3. IsFiniteSet(S)
  <2>1. S \in SUBSET NoticeIds
    BY <1>2
  <2> QED BY <1>1, <2>1, FS_Subset
<1>4. \A i, j \in S : <<i, j>> \in Newer <=>
        \/ rows[i].createdAt > rows[j].createdAt
        \/ rows[i].createdAt = rows[j].createdAt /\ i > j
  BY <1>2 DEF Newer
<1>5. StrictOrder(S, Newer)
  <2> DEFINE c == [i \in S |-> rows[i].createdAt]
  <2>1. c \in [S -> Nat] /\ \A i \in S : i \in Nat /\ c[i] \in Nat
    BY <1>2
  <2>2. \A i, j \in S : <<i, j>> \in Newer <=> c[i] > c[j] \/ (c[i] = c[j] /\ i > j)
    BY <1>4
  <2> HIDE DEF c
  <2> QED BY <2>1, <2>2 DEF StrictOrder
<1>6. PICK s : Ascending(S, Newer, s)
  BY <1>3, <1>5, AscendingExists
<1>7. Notif!Cardinality(S) = Cardinality(S)
  BY DEF Notif!Cardinality, Cardinality
<1> DEFINE Sorted(x) == \A m, n \in 1..Cardinality(S) :
             m < n => \/ rows[x[m]].createdAt > rows[x[n]].createdAt
                      \/ rows[x[m]].createdAt = rows[x[n]].createdAt /\ x[m] > x[n]
<1>8. s \in [1..Cardinality(S) -> S] /\ Sorted(s)
  BY <1>4, <1>6 DEF Ascending
<1>9. Notif!NewestFirst(S) = CHOOSE x \in [1..Cardinality(S) -> S] : Sorted(x)
  BY <1>7 DEF Notif!NewestFirst
<1>10. Notif!NewestFirst(S) \in [1..Cardinality(S) -> S] /\ Sorted(Notif!NewestFirst(S))
  <2> HIDE DEF Sorted
  <2> QED BY <1>8, <1>9
<1> QED BY <1>3, <1>4, <1>5, <1>10 DEF Ascending

\* A page goes on after the last row it shows.
LEMMA ListingKeeps ==
  ASSUME NotifInv, Notif!listNotifications
  PROVE  NoticesWalkOk'
<1> DEFINE S == Notif!AfterCursor(notifWalk.cursor)
           N == Cardinality(S)
           all == Notif!NewestFirst(S)
           more == Len(all) > PageSize
           k == IF more THEN PageSize ELSE N
           items == SubSeq(all, 1, k)
           next == IF more THEN [t |-> rows[items[k]].createdAt, id |-> items[k]] ELSE Notif!NoCursor
           seen == notifWalk.shown
           got == seen \o items
           R == Notif!RowsOf(Reader)
<1>0. NoticesWalkOk /\ NotifTypes /\ PageSize \in Nat \ {0} /\ MaxTime \in Nat /\ NoticeIds \subseteq Nat
  BY NotifAssumption DEF NotifInv, OutcomesOk
<1>1. /\ S \in SUBSET Notif!Present /\ S \subseteq R
      /\ \A i \in R : i \in S <=> i \in Notif!UnreadOf(Reader) /\ After(notifWalk.cursor, i)
  BY DEF Notif!AfterCursor, Notif!UnreadOf, Notif!RowsOf, After
<1>2. \A i \in R : i \in NoticeIds /\ i \in Nat /\ rows[i].createdAt \in Nat
  <2>1. \A i \in R : i \in NoticeIds /\ rows[i] \in Row
    BY <1>0, PresentRows DEF Notif!RowsOf
  <2>2. \A x \in Row : x.createdAt \in Nat
    BY <1>0 DEF Row
  <2> QED BY <1>0, <2>1, <2>2
<1>3. IsFiniteSet(S) /\ StrictOrder(S, Newer) /\ Ascending(S, Newer, all)
  <2> HIDE DEF S
  <2> QED BY <1>0, <1>1, NoticesInOrder
<1>4. \A i, j \in R : <<i, j>> \in Newer <=>
        \/ rows[i].createdAt > rows[j].createdAt
        \/ rows[i].createdAt = rows[j].createdAt /\ i > j
  BY <1>2 DEF Newer
<1>5. notifWalk.pc = "page" /\ UNCHANGED rows
  BY DEF Notif!listNotifications
<1> HIDE DEF S, all
<1>6. N \in Nat /\ all \in Seq(S) /\ Len(all) = N
  BY <1>3, AscendingCounts
<1>7. /\ k \in 0..N /\ (more => k # 0) /\ (~more => k = N)
      /\ items = IF more THEN SubSeq(all, 1, PageSize) ELSE all
  <2>1. SubSeq(all, 1, Len(all)) = all
    BY <1>6
  <2> QED BY <1>0, <1>6, <2>1
<1>8. /\ items \in Seq(S) /\ Len(items) = k /\ DOMAIN items = 1..k
      /\ \A m, n \in 1..k : items[m] = items[n] => m = n
      /\ k # 0 => /\ k \in 1..k /\ items[k] \in S
                  /\ \A m \in 1..k : items[m] = items[k] \/ <<items[m], items[k]>> \in Newer
                  /\ \A i \in S : (\E m \in 1..k : items[m] = i) \/ <<items[k], i>> \in Newer
      /\ k = N => \A i \in S : \E m \in 1..k : items[m] = i
  <2> HIDE DEF N, k
  <2> QED BY <1>3, <1>7, FirstOnes DEF N
<1>9. notifWalk' = [notifWalk EXCEPT !.shown = got, !.cursor = next, !.pc = IF more THEN "page" ELSE "end"]
  <2>1. notifWalk' = [notifWalk EXCEPT
                        !.shown = seen \o (IF more THEN SubSeq(all, 1, PageSize) ELSE all),
                        !.cursor = IF more
                                   THEN [t |-> rows[(SubSeq(all, 1, PageSize))[Len(SubSeq(all, 1, PageSize))]].createdAt,
                                         id |-> (SubSeq(all, 1, PageSize))[Len(SubSeq(all, 1, PageSize))]]
                                   ELSE Notif!NoCursor,
                        !.pc = IF more THEN "page" ELSE "end"]
    BY DEF Notif!listNotifications, Notif!Last, S, all
  <2>2. more => Len(SubSeq(all, 1, PageSize)) = k /\ items = SubSeq(all, 1, PageSize)
    BY <1>8
  <2> HIDE DEF more, items, k
  <2> QED BY <1>7, <2>1, <2>2
<1> HIDE DEF more, items, k, N
<1>10. more => items[k] \in R /\ next = [t |-> rows[items[k]].createdAt, id |-> items[k]]
  BY <1>1, <1>7, <1>8
<1>11. next \in [t : Nat, id : Nat]
  <2>1. Notif!NoCursor \in [t : Nat, id : Nat]
    BY <1>0 DEF Notif!NoCursor
  <2> QED BY <1>2, <1>10, <2>1
\* After the new cursor is what comes after the last row shown.
<1>12. more => \A i \in R : After(next, i) <=> <<items[k], i>> \in Newer
  <2> SUFFICES ASSUME more, NEW i \in R PROVE After(next, i) <=> <<items[k], i>> \in Newer
    OBVIOUS
  <2>1. items[k] \in R /\ next = [t |-> rows[items[k]].createdAt, id |-> items[k]]
    BY <1>10
  <2>2. next.t = rows[items[k]].createdAt /\ next.id = items[k]
    BY <2>1
  <2>3. /\ rows[i].createdAt \in Nat /\ rows[items[k]].createdAt \in Nat /\ i \in Nat /\ items[k] \in Nat
    BY <1>2, <2>1
  <2> HIDE DEF next
  <2> QED BY <1>4, <2>1, <2>2, <2>3 DEF After
<1> DEFINE g == Len(seen)
<1>13. /\ seen \in Seq(NoticeIds) /\ got \in Seq(NoticeIds) /\ DOMAIN got = 1..(g + k)
       /\ g \in Nat /\ k \in Nat /\ DOMAIN seen = 1..g
       /\ \A m \in 1..g : got[m] = seen[m]
       /\ \A m \in 1..k : g + m \in 1..(g + k) /\ got[g + m] = items[m]
       /\ \A m \in 1..(g + k) : m > g => m - g \in 1..k /\ got[m] = items[m - g]
  <2>1. seen \in Seq(NoticeIds) /\ items \in Seq(NoticeIds)
    BY <1>0, <1>1, <1>2, <1>8 DEF NoticesWalkOk
  <2>2. k \in Nat
    BY <1>6, <1>7
  <2> HIDE DEF seen
  <2>3. /\ got \in Seq(NoticeIds) /\ DOMAIN got = 1..(g + Len(items))
        /\ g \in Nat /\ DOMAIN seen = 1..g
        /\ \A m \in 1..g : got[m] = seen[m]
        /\ \A m \in 1..Len(items) : got[g + m] = items[m]
        /\ \A m \in 1..(g + Len(items)) : m > g => m - g \in 1..Len(items) /\ got[m] = items[m - g]
    BY <2>1, Joined
  <2> HIDE DEF got
  <2> QED BY <1>8, <2>1, <2>2, <2>3
<1>14. \A m \in 1..g : seen[m] \in R /\ ~After(notifWalk.cursor, seen[m]) /\ seen[m] \notin S
  BY <1>0, <1>1, <1>5, <1>13 DEF NoticesWalkOk
<1> HIDE DEF got, seen, g, next, R
<1>15. \A m \in 1..(g + k) : m \in 1..g \/ m > g
  BY <1>13
<1>16. \A m \in DOMAIN got : got[m] \in R
  <2> SUFFICES ASSUME NEW m \in 1..(g + k) PROVE got[m] \in R
    BY <1>13
  <2>1. CASE m \in 1..g
    BY <1>13, <1>14, <2>1
  <2>2. CASE m > g
    BY <1>1, <1>8, <1>13, <2>2
  <2> QED BY <1>15, <2>1, <2>2
<1>17. \A m, n \in DOMAIN got : got[m] = got[n] => m = n
  <2> SUFFICES ASSUME NEW m \in 1..(g + k), NEW n \in 1..(g + k), got[m] = got[n] PROVE m = n
    BY <1>13
  <2>1. CASE m \in 1..g /\ n \in 1..g
    BY <1>0, <1>13, <2>1 DEF NoticesWalkOk, seen
  <2>2. CASE m > g /\ n > g
    <3>1. m - g = n - g
      BY <1>8, <1>13, <2>2
    <3> QED BY <1>13, <3>1
  <2>3. \A x \in 1..g, y \in 1..(g + k) : y > g => got[x] # got[y]
    <3> SUFFICES ASSUME NEW x \in 1..g, NEW y \in 1..(g + k), y > g PROVE got[x] # got[y]
      OBVIOUS
    <3>1. got[x] \notin S
      BY <1>13, <1>14
    <3>2. got[y] \in S
      BY <1>8, <1>13
    <3> QED BY <3>1, <3>2
  <2> QED BY <1>15, <2>1, <2>2, <2>3
\* The rows shown before are not after the seen cursor, so not after the new one.
<1>18. more => \A m \in DOMAIN got : ~After(next, got[m])
  <2> SUFFICES ASSUME more, NEW m \in 1..(g + k), After(next, got[m]) PROVE FALSE
    BY <1>13
  <2> DEFINE l == items[k]
  <2>0. got[m] \in R /\ l \in S /\ l \in R /\ After(notifWalk.cursor, l)
    BY <1>1, <1>7, <1>8, <1>13, <1>16
  <2>1. <<l, got[m]>> \in Newer
    BY <1>12, <2>0
  <2>2. CASE m \in 1..g
    <3>1. ~After(notifWalk.cursor, got[m])
      BY <1>13, <1>14, <2>2
    <3>2. /\ rows[l].createdAt \in Nat /\ rows[got[m]].createdAt \in Nat /\ l \in Nat /\ got[m] \in Nat
      BY <1>2, <2>0
    <3>3. notifWalk.cursor.t \in Nat /\ notifWalk.cursor.id \in Nat
      BY <1>0 DEF NoticesWalkOk
    <3>4. \/ rows[l].createdAt > rows[got[m]].createdAt
          \/ rows[l].createdAt = rows[got[m]].createdAt /\ l > got[m]
      BY <1>4, <2>0, <2>1
    <3> HIDE DEF l
    <3> QED BY <2>0, <3>1, <3>2, <3>3, <3>4 DEF After
  <2>3. CASE m > g
    <3>1. m - g \in 1..k /\ got[m] = items[m - g] /\ got[m] \in S
      BY <1>8, <1>13, <2>3
    <3>2. got[m] = l \/ <<got[m], l>> \in Newer
      BY <1>7, <1>8, <3>1
    <3> QED BY <1>3, <2>0, <2>1, <3>1, <3>2 DEF StrictOrder
  <2> QED BY <1>15, <2>2, <2>3
<1>19. \A i \in notifWalk.there : i \in Notif!UnreadOf(Reader) =>
         (\E m \in DOMAIN got : got[m] = i) \/ (more /\ After(next, i))
  <2> SUFFICES ASSUME NEW i \in notifWalk.there, i \in Notif!UnreadOf(Reader)
               PROVE  (\E m \in DOMAIN got : got[m] = i) \/ (more /\ After(next, i))
    OBVIOUS
  <2>0. i \in R
    BY <1>0 DEF NoticesWalkOk, R
  <2>1. CASE \E m \in DOMAIN seen : seen[m] = i
    <3>1. PICK m \in 1..g : seen[m] = i
      BY <1>13, <2>1
    <3>2. m \in 1..(g + k) /\ got[m] = i
      BY <1>13, <3>1
    <3> QED BY <1>13, <3>2
  <2>2. CASE After(notifWalk.cursor, i)
    <3>1. i \in S
      BY <1>1, <2>0, <2>2
    <3>2. CASE \E m \in 1..k : items[m] = i
      BY <1>13, <3>2
    <3>3. CASE more /\ <<items[k], i>> \in Newer
      BY <1>12, <2>0, <3>3
    <3> QED BY <1>7, <1>8, <3>1, <3>2, <3>3
  <2> QED BY <1>0, <1>5, <2>1, <2>2 DEF NoticesWalkOk, seen
<1>20. /\ notifWalk'.shown = got /\ notifWalk'.cursor = next /\ notifWalk'.there = notifWalk.there
       /\ notifWalk'.pc = (IF more THEN "page" ELSE "end")
       /\ notifWalk' \in [cursor : [t : Nat, id : Nat], shown : Seq(NoticeIds), there : SUBSET NoticeIds,
                          pc : {"idle", "page", "end"}]
  BY <1>0, <1>9, <1>11, <1>13 DEF NoticesWalkOk
<1>21. /\ R' = R /\ Notif!UnreadOf(Reader)' = Notif!UnreadOf(Reader)
  BY <1>5 DEF R, Notif!UnreadOf, Notif!RowsOf, Notif!Present, Notif!Absent, Notif!Unread
<1>22. \A i : After(notifWalk.cursor, i)' <=> After(next, i)
  BY <1>5, <1>20 DEF After
<1>23. \A m \in DOMAIN got : After(notifWalk.cursor, notifWalk.shown[m])' <=> After(next, got[m])
  BY <1>5, <1>20 DEF After
<1>24. \A i \in notifWalk.there : i \in R
  BY <1>0 DEF NoticesWalkOk, R
<1>25. /\ \A i \in notifWalk'.there : i \in R'
       /\ \A m, n \in DOMAIN notifWalk'.shown : notifWalk'.shown[m] = notifWalk'.shown[n] => m = n
       /\ \A m \in DOMAIN notifWalk'.shown : notifWalk'.shown[m] \in R'
  BY <1>16, <1>17, <1>20, <1>21, <1>24
<1>26. notifWalk'.pc = "page" =>
         /\ \A m \in DOMAIN notifWalk'.shown : ~After(notifWalk.cursor, notifWalk.shown[m])'
         /\ \A i \in notifWalk'.there : i \in Notif!UnreadOf(Reader)' =>
              (\E m \in DOMAIN notifWalk'.shown : notifWalk'.shown[m] = i) \/ After(notifWalk.cursor, i)'
  BY <1>18, <1>19, <1>20, <1>21, <1>22, <1>23
<1>27. notifWalk'.pc = "end" =>
         \A i \in notifWalk'.there : i \in Notif!UnreadOf(Reader)' =>
           \E m \in DOMAIN notifWalk'.shown : notifWalk'.shown[m] = i
  BY <1>19, <1>20, <1>21
<1> QED BY <1>20, <1>25, <1>26, <1>27 DEF NoticesWalkOk, R

LEMMA NotifStarts == Notif!Init => NotifInv
<1> SUFFICES ASSUME Notif!Init PROVE NotifInv
  OBVIOUS
<1>1. /\ rows = [i \in NoticeIds |-> Notif!Absent]
      /\ prefs = [p \in Recipients \X Notif!OptionalCategories |-> "unset"]
      /\ asked = {} /\ saving = << >> /\ now = 0
      /\ call = [w \in Workers |-> [by |-> "none", event |-> "none", todo |-> << >>, pc |-> "idle", pref |-> "none",
                                    out |-> [r \in Recipients |-> "none"]]]
      /\ notifWalk = [cursor |-> [t |-> MaxTime + 1, id |-> 0], shown |-> << >>, there |-> {}, pc |-> "idle"]
  BY DEF Notif!Init, Notif!NoCall, Notif!NoWalk, Notif!NoCursor
<1>2. /\ \A T : << >> \in Seq(T)
      /\ DOMAIN << >> = {} /\ MaxTime \in Nat
  BY NotifAssumption
<1>3. NotifTypes
  <2>1. \A w \in Workers :
          call[w] \in [by : {"none", "enqueue", "deliver", "create"},
                       event : Events \cup {"none"}, todo : Seq(Recipients),
                       pc : {"idle", "prefs", "insert", "readback", "done"},
                       pref : Categories \cup {"none"},
                       out : [Recipients -> {"none", "created", "existing", "suppressed", "failed"}]]
    BY <1>1, <1>2
  <2> QED BY <1>1, <1>2, <2>1 DEF NotifTypes
<1>4. OneRowEach
  BY <1>1 DEF OneRowEach, Notif!Present
<1>5. \A w \in Workers : CallOk(w)
  BY <1>1 DEF CallOk
<1>6. NoticesWalkOk
  BY <1>1, <1>2 DEF NoticesWalkOk
<1> QED BY <1>3, <1>4, <1>5, <1>6 DEF NotifInv, OutcomesOk

LEMMA NotifKept == NotifInv /\ [Notif!Next]_notifVars => NotifInv'
<1> SUFFICES ASSUME NotifInv, [Notif!Next]_notifVars PROVE NotifInv'
  OBVIOUS
<1>0. OutcomesOk /\ NoticesWalkOk /\ NotifTypes
  BY DEF NotifInv, OutcomesOk
<1>1. CASE UNCHANGED notifVars
  <2>1. UNCHANGED <<rows, prefs, asked, call, saving, notifWalk, now>>
    BY <1>1 DEF notifVars
  <2>2. NotifTypes'
    BY <1>0, <2>1 DEF NotifTypes
  <2>3. OutcomesOk'
    BY <1>0, <2>1, <2>2, PreferencesKeepReports
  <2>4. \A i \in Notif!RowsOf(Reader) : i \in Notif!RowsOf(Reader)'
    BY <2>1 DEF Notif!RowsOf, Notif!Present, Notif!Absent
  <2>5. NoticesWalkOk'
    BY <1>0, <2>1, <2>4, RowsKeepWalk
  <2> QED BY <2>3, <2>5 DEF NotifInv
<1>2. CASE Notif!StartWalk \/ Notif!listNotifications
  BY <1>0, <1>2, WalkingKeeps, WalkStarts, ListingKeeps DEF NotifInv
<1>3. CASE \/ \E w \in Workers :
              \/ \E e \in Events : \E r \in Recipients :
                   Notif!enqueueNotification(w, e, r) \/ Notif!deliverNotification(w, e, r)
              \/ \E e \in Events : \E to \in Notif!SetToSeqs(Recipients) :
                   Notif!createNotifications(w, e, to)
              \/ Notif!shouldDeliver(w) \/ Notif!Insert(w) \/ Notif!UniqueViolation(w)
              \/ Notif!ReadBack(w) \/ Notif!StatementFails(w)
           \/ \E updates \in Saves : Notif!updatePreferences(updates)
           \/ Notif!UpsertPreference \/ Notif!UpsertFails
           \/ Notif!markRead \/ Notif!markAllRead \/ Notif!Tick
  <2>1. NoticesWalkOk'
    BY <1>3, OthersKeepWalk
  <2>2. OutcomesOk'
    BY <1>0, <1>3, DeliveriesBegin, AskingKeeps, InsertKeeps, StatementsKeep, SavingKeeps, MarkingKeeps,
       WalkingKeeps
  <2> QED BY <2>1, <2>2 DEF NotifInv
<1> QED BY <1>1, <1>2, <1>3 DEF Notif!Next

\* What deliveries report is what is stored, and a walk over the unread
\* notices passes over none, whatever the workers, the reader's other
\* requests and failing statements do meanwhile (notifications.service.ts).
THEOREM NotificationsAlwaysTrue == MCSpec => []NotificationsTrue
<1> DEFINE I == part = "notifications" => NotifInv
<1>1. MCInit => I
  BY NotifStarts DEF MCInit, NotifInit
<1>2. I /\ [MCNext]_mcVars => I'
  <2> SUFFICES ASSUME I, [MCNext]_mcVars PROVE I'
    OBVIOUS
  <2>1. UNCHANGED part /\ (part = "notifications" => [Notif!Next]_notifVars)
    BY DEF MCNext, mcVars, WalletStep, ReconStep, HistoryStep, NotifStep
  <2> QED BY <2>1, NotifKept
<1>3. I => NotificationsTrue
  <2> SUFFICES ASSUME NotifInv PROVE Notif!OutcomesTrue /\ Notif!WalkMissesNothing
    BY DEF NotificationsTrue
  <2>0. NotifTypes /\ OneRowEach /\ NoticesWalkOk /\ \A w \in Workers : CallOk(w)
    BY DEF NotifInv, OutcomesOk
  <2>1. ASSUME NEW r \in Recipients, NEW e, Has(r, e)
        PROVE  Notif!Cardinality({i \in Notif!RowsOf(r) : rows[i].event = e}) = 1
    <3>1. PICK k \in Notif!RowsOf(r) : rows[k].event = e
      BY <2>1 DEF Has
    <3>2. {i \in Notif!RowsOf(r) : rows[i].event = e} = {k}
      BY <2>0, <3>1 DEF OneRowEach, Notif!RowsOf
    <3>3. Cardinality({k}) = 1
      BY FS_Singleton
    <3> QED BY <3>2, <3>3 DEF Notif!Cardinality, Cardinality
  <2>2. ASSUME NEW v \in Workers, NEW r \in Recipients, call[v].out[r] \in {"created", "existing"}
        PROVE  Has(r, call[v].event)
    <3>1. CallOk(v)
      BY <2>0
    <3>2. \/ \E i \in Notif!RowsOf(r) : rows[i].event = call[v].event /\ rows[i].source = v
          \/ Has(r, call[v].event)
      BY <2>2, <3>1 DEF CallOk
    <3> QED BY <3>2 DEF Has
  <2>3. ASSUME NEW v \in Workers, NEW w \in Workers, NEW r \in Recipients,
               call[v].out[r] = "created", call[w].out[r] = "created", call[v].event = call[w].event
        PROVE  v = w
    <3>0. CallOk(v) /\ CallOk(w)
      BY <2>0
    <3>1. PICK i \in Notif!RowsOf(r) : rows[i].event = call[v].event /\ rows[i].source = v
      BY <2>3, <3>0 DEF CallOk
    <3>2. PICK j \in Notif!RowsOf(r) : rows[j].event = call[w].event /\ rows[j].source = w
      BY <2>3, <3>0 DEF CallOk
    <3>3. i = j
      BY <2>0, <2>3, <3>1, <3>2 DEF OneRowEach, Notif!RowsOf
    <3> QED BY <3>1, <3>2, <3>3
  <2>4. ASSUME NEW w \in Workers, NEW r \in Recipients, call[w].out[r] = "suppressed"
        PROVE  \/ \E c \in Notif!OptOutOf(CategoryOf[call[w].event]) : <<r, c>> \in asked
               \/ Notif!HeldAsMarketing(w, r)
    <3> DEFINE cat == CategoryOf[call[w].event]
               p == call[w].pref
    <3>1. CallOk(w) /\ asked \subseteq Recipients \X Notif!OptionalCategories
      BY <2>0 DEF NotifTypes
    <3>2. <<r, p>> \in asked /\ call[w].event \in Events /\ Governs(call[w].by, call[w].event, p)
      BY <2>4, <3>1 DEF CallOk
    <3>3. p \in {"project_activity", "participant_activity", "marketing"}
      BY <3>1, <3>2 DEF Notif!OptionalCategories
    <3>4. cat \in {"project", "participant", "security", "payment", "system"}
      BY <3>2, NotifAssumption
    <3> HIDE DEF cat, p
    <3>5. CASE cat = "project"
      <4>1. p = "project_activity"
        BY <3>2, <3>3, <3>5 DEF Governs, cat, Notif!preferenceCategoryForNotification,
                                Notif!toPreferenceCategory
      <4>2. Notif!OptOutOf(cat) = {"project_activity"}
        BY <3>5 DEF Notif!OptOutOf
      <4> QED BY <3>2, <4>1, <4>2 DEF cat
    <3>6. CASE cat = "participant"
      <4>1. p = "participant_activity"
        BY <3>2, <3>3, <3>6 DEF Governs, cat, Notif!preferenceCategoryForNotification,
                                Notif!toPreferenceCategory
      <4>2. Notif!OptOutOf(cat) = {"participant_activity"}
        BY <3>6 DEF Notif!OptOutOf
      <4> QED BY <3>2, <4>1, <4>2 DEF cat
    <3>7. CASE cat = "system"
      <4>1. call[w].by = "deliver" /\ p = "marketing"
        BY <3>2, <3>3, <3>7 DEF Governs, cat, Notif!preferenceCategoryForNotification,
                                Notif!toPreferenceCategory
      <4> QED BY <3>2, <3>7, <4>1 DEF Notif!HeldAsMarketing, cat
    <3>8. CASE cat \in {"security", "payment"}
      BY <3>2, <3>3, <3>8 DEF Governs, cat, Notif!preferenceCategoryForNotification,
                              Notif!toPreferenceCategory
    <3> QED BY <3>4, <3>5, <3>6, <3>7, <3>8 DEF cat
  <2>5. Notif!OutcomesTrue
    BY <2>1, <2>2, <2>3, <2>4 DEF Notif!OutcomesTrue
  <2>6. Notif!WalkMissesNothing
    BY <2>0 DEF NoticesWalkOk, Notif!WalkMissesNothing, Notif!IsInjective, Notif!Range
  <2> QED BY <2>5, <2>6
<1> QED BY <1>1, <1>2, <1>3, PTL DEF MCSpec
-----------------------------------------------------------------------------
(* Reconciliation.  Transactions are read before blocks: what was read as   *)
(* completed stays completed, and a block that was not read was not there.  *)
(* When nothing is written, what was read is what the tables hold.          *)

TransactionTables == [Hashes -> Recon!Transactions \cup {Recon!NoRow}]
BlockTables == [BlockIds -> Recon!Blocks \cup {Recon!NoRow}]

ReconTypes ==
  /\ transactions \in TransactionTables
  /\ blocks \in BlockTables
  /\ exists \in BOOLEAN
  /\ run \in [at : {1, 2, 3, 4, 5}, t1 : TransactionTables, b1 : BlockTables, t2 : TransactionTables,
              b2 : BlockTables, available : BOOLEAN, writes : Nat]

\* What the run has read of tables that nobody writes, and of the last blocks.
ReadsOk ==
  /\ ~run.available => ~exists
  /\ run.writes = 0 =>
       /\ run.at >= 2 => run.t1 = transactions
       /\ run.at >= 3 /\ run.available => run.b1 = blocks
       /\ run.at >= 4 /\ run.available => run.t2 = transactions
  /\ run.at = 5 /\ run.available => run.b2 = blocks

\* A payout is not completed twice, so it stays completed.
CompletedStays ==
  run.at >= 4 /\ run.available =>
    \A h \in Hashes : h \in Recon!Completed(run.t2) => h \in Recon!Completed(transactions)

ReconInv == ReconTypes /\ ReadsOk /\ CompletedStays

LEMMA ReconStarts == Recon!Init => ReconInv
<1> SUFFICES ASSUME Recon!Init PROVE ReconInv
  OBVIOUS
<1>1. /\ transactions \in TransactionTables /\ blocks \in BlockTables /\ exists \in BOOLEAN
      /\ run = [at |-> 1, t1 |-> Recon!NoTransactions, b1 |-> Recon!NoBlocks,
                t2 |-> Recon!NoTransactions, b2 |-> Recon!NoBlocks, available |-> TRUE, writes |-> 0]
  BY DEF Recon!Init, Recon!Fresh, TransactionTables, BlockTables
<1>2. Recon!NoTransactions \in TransactionTables /\ Recon!NoBlocks \in BlockTables
  BY DEF Recon!NoTransactions, Recon!NoBlocks, TransactionTables, BlockTables
<1>3. ReconTypes
  BY <1>1, <1>2 DEF ReconTypes
<1>4. ReadsOk /\ CompletedStays
  BY <1>1 DEF ReadsOk, CompletedStays
<1> QED BY <1>3, <1>4 DEF ReconInv

\* The reads of a run.
LEMMA ReadsKeep ==
  ASSUME ReconInv,
         Recon!ReadTransactions \/ Recon!ReadBlocks \/ Recon!checkOrphanedTransactions
  PROVE  ReconInv'
<1> DEFINE Runs == [at : {1, 2, 3, 4, 5}, t1 : TransactionTables, b1 : BlockTables, t2 : TransactionTables,
                    b2 : BlockTables, available : BOOLEAN, writes : Nat]
<1>0. /\ ReconTypes /\ ReadsOk /\ CompletedStays /\ UNCHANGED <<transactions, blocks, exists>>
      /\ run \in Runs /\ transactions \in TransactionTables /\ blocks \in BlockTables
  BY DEF ReconInv, ReconTypes, Recon!ReadTransactions, Recon!ReadBlocks, Recon!checkOrphanedTransactions
<1>6. ASSUME run' \in Runs, ReadsOk', CompletedStays'
      PROVE  ReconInv'
  BY <1>0, <1>6 DEF ReconInv, ReconTypes
<1>1. CASE Recon!ReadTransactions
  <2>1. run.at = 1 /\ run' = [run EXCEPT !.at = 2, !.t1 = transactions]
    BY <1>1 DEF Recon!ReadTransactions
  <2>2. /\ run' \in Runs /\ run'.at = 2 /\ run'.t1 = transactions
        /\ run'.available = run.available /\ run'.writes = run.writes
    BY <1>0, <2>1
  <2> QED BY <1>0, <1>6, <2>2 DEF ReadsOk, CompletedStays
<1>2. CASE Recon!ReadBlocks /\ exists
  <2>1. run.at = 2 /\ run' = [run EXCEPT !.at = 3, !.b1 = blocks]
    BY <1>2 DEF Recon!ReadBlocks
  <2>2. /\ run' \in Runs /\ run'.at = 3 /\ run'.t1 = run.t1 /\ run'.b1 = blocks
        /\ run'.available = run.available /\ run'.writes = run.writes
    BY <1>0, <2>1
  <2> QED BY <1>0, <1>6, <2>1, <2>2 DEF ReadsOk, CompletedStays
<1>3. CASE Recon!ReadBlocks /\ ~exists
  <2>1. run.at = 2 /\ run' = [run EXCEPT !.at = 5, !.available = FALSE]
    BY <1>3 DEF Recon!ReadBlocks
  <2>2. /\ run' \in Runs /\ run'.at = 5 /\ run'.t1 = run.t1
        /\ run'.available = FALSE /\ run'.writes = run.writes
    BY <1>0, <2>1
  <2> QED BY <1>0, <1>3, <1>6, <2>1, <2>2 DEF ReadsOk, CompletedStays
<1>4. CASE run.at = 3 /\ run' = [run EXCEPT !.at = 4, !.t2 = transactions]
  <2>1. /\ run' \in Runs /\ run'.at = 4 /\ run'.t1 = run.t1 /\ run'.b1 = run.b1
        /\ run'.t2 = transactions /\ run'.available = run.available /\ run'.writes = run.writes
    BY <1>0, <1>4
  <2> QED BY <1>0, <1>4, <1>6, <2>1 DEF ReadsOk, CompletedStays
<1>5. CASE run.at = 4 /\ run' = [run EXCEPT !.at = 5, !.b2 = blocks]
  <2>1. /\ run' \in Runs /\ run'.at = 5 /\ run'.t1 = run.t1 /\ run'.b1 = run.b1
        /\ run'.t2 = run.t2 /\ run'.b2 = blocks
        /\ run'.available = run.available /\ run'.writes = run.writes
    BY <1>0, <1>5
  <2> QED BY <1>0, <1>5, <1>6, <2>1 DEF ReadsOk, CompletedStays
<1> QED BY <1>1, <1>2, <1>3, <1>4, <1>5 DEF Recon!checkOrphanedTransactions, Recon!OrphanReads

\* A write while the run is not finished.
LEMMA WritesKeep ==
  ASSUME ReconInv, Recon!Write, transactions' \in TransactionTables, blocks' \in BlockTables,
         \A h \in Hashes : h \in Recon!Completed(transactions) => h \in Recon!Completed(transactions')
  PROVE  ReconInv'
<1>0. ReconTypes /\ ReadsOk /\ CompletedStays
  BY DEF ReconInv
<1>1. /\ run.at # 5 /\ run' = [run EXCEPT !.writes = run.writes + 1] /\ UNCHANGED exists
  BY DEF Recon!Write, Recon!Finished
<1>2. /\ run'.at = run.at /\ run'.t2 = run.t2 /\ run'.available = run.available
      /\ run'.writes = run.writes + 1 /\ run'.writes # 0 /\ ReconTypes'
  BY <1>0, <1>1 DEF ReconTypes
<1>3. ReadsOk'
  BY <1>0, <1>1, <1>2 DEF ReadsOk
<1>4. CompletedStays'
  <2> SUFFICES ASSUME run.at >= 4, run.available, NEW h \in Hashes, h \in Recon!Completed(run.t2)
               PROVE  h \in Recon!Completed(transactions')
    BY <1>2 DEF CompletedStays
  <2> QED BY <1>0 DEF CompletedStays
<1> QED BY <1>2, <1>3, <1>4 DEF ReconInv

LEMMA WritersOfTables ==
  ASSUME ReconInv,
         \/ \E h \in Hashes : \/ \E a \in Amounts : Recon!Record(h, a)
                              \/ \E s \in {"completed", "failed"} : Recon!Conclude(h, s)
         \/ \E i \in BlockIds, row \in Recon!Blocks : Recon!Settle(i, row)
  PROVE  ReconInv'
<1>0. transactions \in TransactionTables /\ blocks \in BlockTables
  BY DEF ReconInv, ReconTypes
<1>1. ASSUME NEW h \in Hashes, NEW row \in Recon!Transactions, Recon!Write, UNCHANGED blocks,
             transactions' = [transactions EXCEPT ![h] = row], h \notin Recon!Completed(transactions)
      PROVE  ReconInv'
  <2>1. transactions' \in TransactionTables
    BY <1>0, <1>1 DEF TransactionTables
  <2>2. \A x \in Hashes : x \in Recon!Completed(transactions) => x \in Recon!Completed(transactions')
    BY <1>0, <1>1 DEF TransactionTables, Recon!Completed, Recon!Recorded
  <2> QED BY <1>0, <1>1, <2>1, <2>2, WritesKeep
<1>2. ASSUME NEW h \in Hashes, NEW a \in Amounts, Recon!Record(h, a) PROVE ReconInv'
  <2> DEFINE row == [status |-> "completed", amount |-> a, age |-> "fresh"]
  <2>1. row \in Recon!Transactions
    BY DEF Recon!Transactions
  <2>2. /\ Recon!Write /\ UNCHANGED blocks /\ transactions' = [transactions EXCEPT ![h] = row]
        /\ h \notin Recon!Completed(transactions)
    BY <1>2 DEF Recon!Record, Recon!Completed, Recon!Recorded
  <2> HIDE DEF row
  <2> QED BY <1>1, <2>1, <2>2
<1>3. ASSUME NEW h \in Hashes, NEW s \in {"completed", "failed"}, Recon!Conclude(h, s) PROVE ReconInv'
  <2> DEFINE row == [transactions[h] EXCEPT !.status = s, !.age = "fresh"]
  <2>1. /\ Recon!Write /\ UNCHANGED blocks /\ transactions[h] # Recon!NoRow
        /\ transactions[h].status = "pending"
    BY <1>3 DEF Recon!Conclude
  <2>2. transactions' = [transactions EXCEPT ![h] = row]
    BY <1>0, <1>3 DEF Recon!Conclude, TransactionTables
  <2>3. transactions[h] \in Recon!Transactions
    BY <1>0, <2>1 DEF TransactionTables
  <2>4. transactions[h] \in [status : {"pending"}, amount : Amounts \cup {Recon!Bad}, age : Recon!Ages]
    BY <2>1, <2>3 DEF Recon!Transactions
  <2>5. row \in Recon!Transactions
    BY <2>4 DEF Recon!Transactions
  <2>6. h \notin Recon!Completed(transactions)
    BY <2>1 DEF Recon!Completed
  <2> HIDE DEF row
  <2> QED BY <1>1, <2>1, <2>2, <2>5, <2>6
<1>4. ASSUME NEW i \in BlockIds, NEW row \in Recon!Blocks, Recon!Settle(i, row) PROVE ReconInv'
  <2>1. Recon!Write /\ UNCHANGED transactions /\ blocks' = [blocks EXCEPT ![i] = row]
    BY <1>4 DEF Recon!Settle
  <2>2. blocks' \in BlockTables
    BY <1>0, <2>1 DEF BlockTables
  <2> QED BY <1>0, <2>1, <2>2, WritesKeep
<1> QED BY <1>2, <1>3, <1>4

LEMMA ReconKept == ReconInv /\ [Recon!Next]_reconVars => ReconInv'
<1> SUFFICES ASSUME ReconInv, [Recon!Next]_reconVars PROVE ReconInv'
  OBVIOUS
<1>1. CASE UNCHANGED reconVars
  BY <1>1 DEF reconVars, ReconInv, ReconTypes, ReadsOk, CompletedStays
<1>2. CASE Recon!Next
  BY <1>2, ReadsKeep, WritersOfTables DEF Recon!Next
<1> QED BY <1>1, <1>2

\* A settlement that is the only one of its hash is the primary one.
LEMMA OnlySettlement ==
  ASSUME blocks \in BlockTables, NEW h \in Hashes, Recon!Settlements(blocks, h) # {},
         ~Recon!Inv5Duplicate(blocks)
  PROVE  \E i \in BlockIds :
           /\ Recon!Settlements(blocks, h) = {i} /\ Recon!Primary(blocks, h) = blocks[i].amount
           /\ blocks[i] \in Recon!Blocks
<1> DEFINE S == Recon!Settlements(blocks, h)
<1>1. S \subseteq BlockIds /\ \A i \in S : blocks[i] # Recon!NoRow
  BY DEF Recon!Settlements, Recon!Rows
<1>2. IsFiniteSet(S)
  <2>1. S \in SUBSET BlockIds
    BY <1>1
  <2> QED BY <2>1, ReconAssumption, FS_Subset
<1>3. PICK i \in BlockIds : i \in S
  BY <1>1
<1>4. S = {i}
  <2>1. Recon!Cardinality(S) = Cardinality(S)
    BY DEF Recon!Cardinality, Cardinality
  <2>2. ~(Cardinality(S) > 1)
    BY <2>1 DEF Recon!Inv5Duplicate
  <2> HIDE DEF S
  <2>3. /\ IsFiniteSet(S \ {i}) /\ Cardinality(S \ {i}) = Cardinality(S) - 1
        /\ Cardinality(S \ {i}) \in Nat /\ Cardinality(S) \in Nat
    BY <1>2, <1>3, FS_RemoveElement, FS_CardinalityType
  <2>4. Cardinality(S \ {i}) = 0
    BY <2>2, <2>3
  <2>5. S \ {i} = {}
    BY <2>3, <2>4, FS_EmptySet
  <2> QED BY <1>3, <2>5
<1>5. Recon!Min({i}) = i
  <2>1. i \in Nat
    BY ReconAssumption
  <2> QED BY <2>1 DEF Recon!Min
<1>6. blocks[i] \in Recon!Blocks
  BY <1>1, <1>3 DEF BlockTables
<1> QED BY <1>4, <1>5, <1>6 DEF Recon!Primary

\* When the totals agree and every settlement is that of a completed payout
\* of its amount, every completed payout is settled.
LEMMA TotalsTell ==
  ASSUME NEW C, NEW E \in SUBSET C, IsFiniteSet(C), NEW f \in [C -> Int], NEW g \in [E -> Int],
         \A h \in C : f[h] > 0, \A h \in E : g[h] = f[h],
         Recon!SumFunction(f) = Recon!SumFunction(g)
  PROVE  E = C
<1>1. Recon!SumFunction(f) = PartSums(f, DOMAIN f)[DOMAIN f]
  BY DEF Recon!SumFunction, Recon!SumFunctionOnSet, Recon!FoldFunctionOnSet, Recon!MapThenFoldSet, PartSums, Pick
<1>2. Recon!SumFunction(g) = PartSums(g, DOMAIN g)[DOMAIN g]
  BY DEF Recon!SumFunction, Recon!SumFunctionOnSet, Recon!FoldFunctionOnSet, Recon!MapThenFoldSet, PartSums, Pick
<1>3. PartSums(f, C)[C] = PartSums(g, E)[E]
  <2>1. DOMAIN f = C /\ DOMAIN g = E
    OBVIOUS
  <2> QED BY <1>1, <1>2, <2>1
<1> QED BY <1>3, PartIsWhole

\* A run that reports nothing has read balanced tables.
LEMMA NothingReportedBalances ==
  ASSUME transactions \in TransactionTables, blocks \in BlockTables,
         ~Recon!Violations(transactions, blocks),
         Recon!SettlementMissingTransaction(transactions, blocks) = {},
         \A h \in Hashes : Recon!Settlements(blocks, h) # {} => Recon!Primary(blocks, h) # Recon!Null,
         \A h \in Recon!Settled(blocks) :
           ~(transactions[h] # Recon!NoRow /\ transactions[h].status = "pending")
  PROVE  \A h \in Hashes :
           IF h \in Recon!Completed(transactions)
           THEN \E i \in BlockIds : /\ Recon!Settlements(blocks, h) = {i}
                                    /\ blocks[i].amount = transactions[h].amount
           ELSE Recon!Settlements(blocks, h) = {}
<1> DEFINE t == transactions
           C == Recon!Completed(t)
           E == Recon!Settled(blocks)
<1>0. Amounts \subseteq Nat /\ IsFiniteSet(Hashes)
  BY ReconAssumption
<1>1. /\ ~Recon!Inv1(t, blocks) /\ ~Recon!Inv2(t) /\ ~Recon!Inv3(t, blocks) /\ ~Recon!Inv4(t, blocks)
      /\ ~Recon!Inv5Duplicate(blocks) /\ ~Recon!Inv5Aggregate(t, blocks)
  BY DEF Recon!Violations
\* Every recorded amount is legal, and a completed one positive.
<1>2. \A h \in Hashes : t[h] # Recon!NoRow => t[h] \in Recon!Transactions
  BY DEF TransactionTables
<1>3. \A h \in Recon!Recorded(t) :
        /\ h \in Hashes /\ t[h].amount \in Nat /\ Recon!isValidAmountString(t[h].amount)
        /\ t[h].status \in {"pending", "completed", "failed"}
  <2>1. \A h \in Recon!Recorded(t) : h \in Hashes /\ t[h] \in Recon!Transactions
                                     /\ Recon!isValidAmountString(t[h].amount)
    BY <1>1, <1>2 DEF Recon!Recorded, Recon!Inv1
  <2>2. \A x \in Recon!Transactions : /\ x.amount \in Amounts \cup {Recon!Bad}
                                      /\ x.status \in {"pending", "completed", "failed"}
    BY DEF Recon!Transactions
  <2>3. ~Recon!isValidAmountString(Recon!Bad)
    BY DEF Recon!isValidAmountString, Recon!Bad
  <2> QED BY <1>0, <2>1, <2>2, <2>3
<1>4. \A h \in C : h \in Recon!Recorded(t) /\ h \in Hashes /\ t[h].amount \in Nat /\ t[h].amount > 0
  <2>1. \A h \in C : h \in Recon!Recorded(t) /\ t[h].amount # 0
    BY <1>1 DEF Recon!Inv2, Recon!Completed
  <2> QED BY <1>3, <2>1
\* A settled payout is completed, and settled with its amount.
<1>5. ASSUME NEW h \in E
      PROVE  /\ h \in Hashes /\ Recon!Primary(blocks, h) \in Nat
             /\ Recon!isValidAmountString(Recon!Primary(blocks, h))
             /\ \E i \in BlockIds : /\ Recon!Settlements(blocks, h) = {i}
                                    /\ Recon!Primary(blocks, h) = blocks[i].amount
  <2>1. h \in Hashes /\ Recon!Settlements(blocks, h) # {}
    BY DEF Recon!Settled
  <2>2. PICK i \in BlockIds : /\ Recon!Settlements(blocks, h) = {i}
                              /\ Recon!Primary(blocks, h) = blocks[i].amount
                              /\ blocks[i] \in Recon!Blocks
    BY <1>1, <2>1, OnlySettlement
  <2>3. blocks[i].amount # Recon!Bad /\ blocks[i].amount # Recon!Null
    <3>1. i \in Recon!Rows(blocks)
      BY <2>2 DEF Recon!Settlements
    <3> QED BY <1>1, <2>1, <2>2, <3>1 DEF Recon!Inv1
  <2>4. blocks[i].amount \in Amounts \cup {Recon!Bad, Recon!Null}
    BY <2>2 DEF Recon!Blocks
  <2>5. blocks[i].amount \in Nat
    BY <1>0, <2>3, <2>4
  <2> QED BY <2>1, <2>2, <2>5 DEF Recon!isValidAmountString
<1>6. ASSUME NEW h \in E PROVE h \in C /\ t[h].amount = Recon!Primary(blocks, h)
  <2>1. h \in Recon!Recorded(t)
    BY DEF Recon!SettlementMissingTransaction
  <2>2. Recon!Comparable(t, blocks, h)
    BY <1>3, <1>5, <2>1 DEF Recon!Comparable
  <2>3. t[h].status # "failed"
    BY <1>1, <2>1, <2>2 DEF Recon!Inv4
  <2>4. t[h].status # "pending"
    BY <2>1 DEF Recon!Recorded
  <2>5. h \in C
    BY <1>3, <2>1, <2>3, <2>4 DEF Recon!Completed
  <2> QED BY <1>1, <2>2, <2>5 DEF Recon!Inv3
\* The totals are those of all the completed and all the settled payouts.
<1> DEFINE f == [h \in C |-> t[h].amount]
           g == [h \in E |-> Recon!Primary(blocks, h)]
<1>7. Recon!completedTotal(t) = Recon!SumFunction(f)
  <2>1. {h \in C : Recon!isValidAmountString(t[h].amount)} = C
    BY <1>3, <1>4
  <2> QED BY <2>1 DEF Recon!completedTotal
<1>8. Recon!settledTotal(blocks) = Recon!SumFunction(g)
  <2>1. {h \in E : Recon!isValidAmountString(Recon!Primary(blocks, h))} = E
    BY <1>5
  <2> QED BY <2>1 DEF Recon!settledTotal
<1>9. E = C
  <2>1. E \in SUBSET C
    BY <1>6
  <2>2. f \in [C -> Int] /\ g \in [E -> Int] /\ \A h \in C : f[h] > 0
    BY <1>4, <1>5
  <2>3. \A h \in E : g[h] = f[h]
    BY <1>6
  <2>4. Recon!SumFunction(f) = Recon!SumFunction(g)
    BY <1>1, <1>7, <1>8 DEF Recon!Inv5Aggregate
  <2>5. IsFiniteSet(C)
    <3>1. C \in SUBSET Hashes
      BY <1>4
    <3> QED BY <1>0, <3>1, FS_Subset
  <2> HIDE DEF C, E, f, g
  <2> QED BY <2>1, <2>2, <2>3, <2>4, <2>5, TotalsTell
<1> SUFFICES ASSUME NEW h \in Hashes
             PROVE  IF h \in C
                    THEN \E i \in BlockIds : /\ Recon!Settlements(blocks, h) = {i}
                                             /\ blocks[i].amount = t[h].amount
                    ELSE Recon!Settlements(blocks, h) = {}
  OBVIOUS
<1>10. CASE h \in C
  <2>1. h \in E
    BY <1>9, <1>10
  <2> HIDE DEF C, E
  <2> QED BY <1>5, <1>6, <1>10, <2>1
<1>11. CASE h \notin C
  <2>1. h \notin E
    BY <1>9, <1>11
  <2>2. Recon!Settlements(blocks, h) = {}
    BY <2>1 DEF Recon!Settled
  <2> HIDE DEF C, E
  <2> QED BY <1>11, <2>2
<1> QED BY <1>10, <1>11

\* When nothing is written meanwhile, what does not agree makes a command
\* fail; whatever is written meanwhile, a completed payout reported without a
\* ledger row has none (reconcile.ts, ledger-invariants.ts).
THEOREM ReportsAlwaysTrue == MCSpec => []ReportsTrue
<1> DEFINE I == part = "recon" => ReconInv
<1>1. MCInit => I
  BY ReconStarts DEF MCInit, ReconInit
<1>2. I /\ [MCNext]_mcVars => I'
  <2> SUFFICES ASSUME I, [MCNext]_mcVars PROVE I'
    OBVIOUS
  <2>1. UNCHANGED part /\ (part = "recon" => [Recon!Next]_reconVars)
    BY DEF MCNext, mcVars, WalletStep, ReconStep, HistoryStep, NotifStep
  <2> QED BY <2>1, ReconKept
<1>3. I => ReportsTrue
  <2> SUFFICES ASSUME ReconInv PROVE Recon!NothingFallsThrough /\ Recon!MissingSettlementIsReal
    BY DEF ReportsTrue
  <2>0. ReconTypes /\ ReadsOk /\ CompletedStays /\ transactions \in TransactionTables /\ blocks \in BlockTables
    BY DEF ReconInv, ReconTypes
  <2>1. Recon!MissingSettlementIsReal
    <3> SUFFICES ASSUME run.at = 5, run.available,
                        NEW h \in Recon!CompletedMissingLedgerBlock(run.t2, run.b2)
                 PROVE  h \in Recon!Completed(transactions) /\ \A i \in Recon!Rows(blocks) : blocks[i].txHash # h
      BY DEF Recon!MissingSettlementIsReal, Recon!Finished
    <3>1. /\ h \in Recon!Completed(run.t2) /\ h \in Hashes
          /\ \A i \in Recon!Rows(run.b2) : run.b2[i].txHash # h
      BY DEF Recon!CompletedMissingLedgerBlock, Recon!Completed, Recon!Recorded
    <3>2. run.b2 = blocks
      BY <2>0 DEF ReadsOk
    <3> QED BY <2>0, <3>1, <3>2 DEF CompletedStays
  <2>2. Recon!NothingFallsThrough
    <3> SUFFICES ASSUME run.at = 5, run.writes = 0, exists, Recon!dryRunOk(run),
                        \A h \in Hashes : Recon!Settlements(blocks, h) # {} =>
                          Recon!Primary(blocks, h) # Recon!Null,
                        \A h \in Recon!Settled(blocks) :
                          ~(transactions[h] # Recon!NoRow /\ transactions[h].status = "pending")
                 PROVE  \A h \in Hashes :
                          IF h \in Recon!Completed(transactions)
                          THEN \E i \in BlockIds : /\ Recon!Settlements(blocks, h) = {i}
                                                   /\ blocks[i].amount = transactions[h].amount
                          ELSE Recon!Settlements(blocks, h) = {}
      BY DEF Recon!NothingFallsThrough, Recon!Finished
    <3>1. run.available /\ run.t1 = transactions /\ run.b1 = blocks /\ run.t2 = transactions /\ run.b2 = blocks
      BY <2>0 DEF ReadsOk
    <3>2. /\ ~Recon!Violations(transactions, blocks)
          /\ Recon!SettlementMissingTransaction(transactions, blocks) = {}
      BY <3>1 DEF Recon!dryRunOk
    <3> QED BY <2>0, <3>2, NothingReportedBalances
  <2> QED BY <2>1, <2>2
<1> QED BY <1>1, <1>2, <1>3, PTL DEF MCSpec
-----------------------------------------------------------------------------
(* The wallet of a page.  An account's text reaches the form and the drafts *)
(* only under its own address: every change of the address goes through the *)
(* draft effect, which clears the anonymous draft or loads the new one.     *)

WalletInv == Wallet!TypeOK /\ Wallet!NothingForeign

\* Storage and form as the effects see them, with nothing of another account.
OwnTexts(d, k) ==
  /\ DOMAIN d = {"form", "drafts", "old"}
  /\ d.drafts \in [Wallet!Keys -> SUBSET Wallet!Keys] /\ d.old \subseteq Wallet!Keys
  /\ \A j \in Wallet!Keys : d.drafts[j] \subseteq {j, NoAccount}
  /\ d.form \subseteq {k, NoAccount}

\* Saving a text under an address that may hold it.
LEMMA SavedTexts ==
  ASSUME NEW d, NEW k \in Wallet!Keys, NEW j \in Wallet!Keys, OwnTexts(d, k),
         NEW text \in SUBSET Wallet!Keys, text \subseteq {j, NoAccount}
  PROVE  /\ OwnTexts(Wallet!saveDraft(d, j, text), k)
         /\ Wallet!saveDraft(d, j, text).form = d.form
BY DEF OwnTexts, Wallet!saveDraft

\* What is read from storage belongs to the address it is read for.
LEMMA LoadedText ==
  ASSUME NEW d, NEW k \in Wallet!Keys, NEW j \in Wallet!Keys, OwnTexts(d, k)
  PROVE  /\ Wallet!loadDraft(d, j) \in SUBSET Wallet!Keys
         /\ Wallet!loadDraft(d, j) \subseteq {j, NoAccount}
BY DEF OwnTexts, Wallet!loadDraft

\* The draft effect leaves on the form what belongs to the address rendered.
LEMMA DraftEffectOwns ==
  ASSUME NEW d, NEW prev \in Wallet!Keys, NEW next \in Wallet!Keys, OwnTexts(d, prev),
         d.form \in SUBSET Wallet!Keys
  PROVE  /\ OwnTexts(Wallet!DraftEffect(prev, next, d), next)
         /\ Wallet!DraftEffect(prev, next, d).form \in SUBSET Wallet!Keys
<1> DEFINE e == [d EXCEPT !.form = Wallet!loadDraft(d, next)]
<1>0. NoAccount \in Wallet!Keys
  BY DEF Wallet!Keys
<1>1. CASE prev = NoAccount
  <2>1. Wallet!DraftEffect(prev, next, d) = Wallet!saveDraft(d, NoAccount, {})
    BY <1>1 DEF Wallet!DraftEffect, Wallet!clearDraft
  <2>2. /\ OwnTexts(Wallet!saveDraft(d, NoAccount, {}), prev)
        /\ Wallet!saveDraft(d, NoAccount, {}).form = d.form
    BY <1>0, SavedTexts
  <2> QED BY <1>1, <2>1, <2>2 DEF OwnTexts
<1>2. CASE prev # NoAccount
  <2>1. Wallet!DraftEffect(prev, next, d) = Wallet!saveDraft(e, next, Wallet!loadDraft(d, next))
    BY <1>2 DEF Wallet!DraftEffect
  <2>2. /\ Wallet!loadDraft(d, next) \in SUBSET Wallet!Keys
        /\ Wallet!loadDraft(d, next) \subseteq {next, NoAccount}
    BY LoadedText
  <2>3. OwnTexts(e, next) /\ e.form = Wallet!loadDraft(d, next)
    BY <2>2 DEF OwnTexts
  <2> HIDE DEF e
  <2>4. /\ OwnTexts(Wallet!saveDraft(e, next, Wallet!loadDraft(d, next)), next)
        /\ Wallet!saveDraft(e, next, Wallet!loadDraft(d, next)).form = e.form
    BY <2>2, <2>3, SavedTexts
  <2> QED BY <2>1, <2>2, <2>3, <2>4
<1> QED BY <1>1, <1>2

\* The texts of a state.
LEMMA TextsOfState ==
  ASSUME WalletInv
  PROVE  OwnTexts(Wallet!Drafts, shown) /\ Wallet!Drafts.form \in SUBSET Wallet!Keys
BY DEF WalletInv, Wallet!TypeOK, Wallet!NothingForeign, OwnTexts, Wallet!Drafts, Wallet!Text

\* A sequence of one or two renders leaves what belongs to the last of them.
LEMMA EffectsOwn ==
  ASSUME WalletInv, NEW path \in Seq(Wallet!Keys), Len(path) \in {1, 2}, Wallet!Effects(path)
  PROVE  /\ form' \in SUBSET Wallet!Keys /\ form' \subseteq {path[Len(path)], NoAccount}
         /\ drafts' \in [Wallet!Keys -> SUBSET Wallet!Keys] /\ old' \subseteq Wallet!Keys
         /\ \A j \in Wallet!Keys : drafts'[j] \subseteq {j, NoAccount}
         /\ cache' \subseteq Accounts /\ fetching' \subseteq Accounts
         /\ cache' \cup fetching' \subseteq {path[Len(path)]}
<1> DEFINE first == Wallet!DraftEffect(shown, path[1], Wallet!Drafts)
           second == Wallet!DraftEffect(path[1], path[2], first)
<1>1. shown \in Wallet!Keys /\ path[1] \in Wallet!Keys /\ (Len(path) = 2 => path[2] \in Wallet!Keys)
  BY DEF WalletInv, Wallet!TypeOK
<1>2. OwnTexts(first, path[1]) /\ first.form \in SUBSET Wallet!Keys
  BY <1>1, TextsOfState, DraftEffectOwns
<1>3. Len(path) = 2 => OwnTexts(second, path[2]) /\ second.form \in SUBSET Wallet!Keys
  <2> HIDE DEF first
  <2> QED BY <1>1, <1>2, DraftEffectOwns
<1>4. /\ cache' = cache \cap {path[Len(path)]} /\ fetching' = fetching \cap {path[Len(path)]}
      /\ cache \subseteq Accounts /\ fetching \subseteq Accounts
  BY DEF WalletInv, Wallet!TypeOK, Wallet!Effects, Wallet!Own
<1>5. CASE Len(path) = 1
  <2>1. form' = first.form /\ drafts' = first.drafts /\ old' = first.old
    BY <1>5 DEF Wallet!Effects
  <2> HIDE DEF first
  <2> QED BY <1>2, <1>4, <1>5, <2>1 DEF OwnTexts
<1>6. CASE Len(path) = 2
  <2>1. form' = second.form /\ drafts' = second.drafts /\ old' = second.old
    BY <1>6 DEF Wallet!Effects
  <2> HIDE DEF first, second
  <2> QED BY <1>3, <1>4, <1>6, <2>1 DEF OwnTexts
<1> QED BY <1>5, <1>6

\* A request in flight is answered with an account, with none, or not yet.
LEMMA Asked ==
  ASSUME WalletInv
  PROVE  /\ \A by \in {"refresh", "connect", "poll"} : Wallet!Request(by) \in Wallet!Requests
         /\ \A r \in pending : r \in Wallet!Requests /\ r.base \in Wallet!Keys
         /\ \A r \in pending : r.answer # Wallet!Unanswered => r.answer \in Wallet!Keys
         /\ \A r \in pending, k \in Wallet!Keys : [r EXCEPT !.answer = k] \in Wallet!Requests
<1>1. NoAccount \in Wallet!Keys /\ shown \in Wallet!Keys /\ pending \subseteq Wallet!Requests
  BY DEF WalletInv, Wallet!TypeOK, Wallet!Keys
<1> QED BY <1>1 DEF Wallet!Requests, Wallet!Request

\* RESET and refresh() render a path that ends without an account.
LEMMA ResetKeeps ==
  ASSUME WalletInv, NEW path \in Seq(Wallet!Keys), Len(path) \in {1, 2},
         path[Len(path)] = NoAccount, NEW rest \in SUBSET pending,
         Wallet!Reset(path, rest), UNCHANGED <<ext, mutation>>
  PROVE  WalletInv'
<1>1. /\ form' \in SUBSET Wallet!Keys /\ form' \subseteq {NoAccount}
      /\ drafts' \in [Wallet!Keys -> SUBSET Wallet!Keys] /\ old' \subseteq Wallet!Keys
      /\ \A j \in Wallet!Keys : drafts'[j] \subseteq {j, NoAccount}
      /\ cache' \subseteq Accounts /\ fetching' \subseteq Accounts
      /\ cache' \cup fetching' \subseteq {NoAccount}
  BY EffectsOwn DEF Wallet!Reset
<1>2. /\ shown' = NoAccount /\ loading' = TRUE /\ pending' \subseteq Wallet!Requests
      /\ NoAccount \in Wallet!Keys
  BY Asked DEF Wallet!Reset, WalletInv, Wallet!TypeOK, Wallet!Keys
<1>3. ext' \in Wallet!Keys /\ mutation' \in Wallet!Keys
  BY DEF WalletInv, Wallet!TypeOK
<1> QED BY <1>1, <1>2, <1>3 DEF WalletInv, Wallet!TypeOK, Wallet!NothingForeign, Wallet!Text

\* dispatch SUCCESS.
LEMMA SuccessKeeps ==
  ASSUME WalletInv, NEW address \in Wallet!Keys, NEW rest \in SUBSET pending,
         Wallet!Success(address, rest), UNCHANGED <<ext, mutation>>
  PROVE  WalletInv'
<1>0. pending \subseteq Wallet!Requests /\ NoAccount \in Wallet!Keys
  BY DEF WalletInv, Wallet!TypeOK, Wallet!Keys
<1>1. CASE address = shown /\ UNCHANGED <<shown, form, drafts, old, cache, fetching>>
           /\ pending' = rest /\ loading' = FALSE
  BY <1>0, <1>1 DEF WalletInv, Wallet!TypeOK, Wallet!NothingForeign
<1>2. CASE /\ shown' = address /\ loading' = FALSE /\ pending' = rest
           /\ Wallet!Effects(<<address>>)
  <2>1. <<address>> \in Seq(Wallet!Keys) /\ Len(<<address>>) = 1 /\ <<address>>[1] = address
    OBVIOUS
  <2>2. /\ form' \in SUBSET Wallet!Keys /\ form' \subseteq {address, NoAccount}
        /\ drafts' \in [Wallet!Keys -> SUBSET Wallet!Keys] /\ old' \subseteq Wallet!Keys
        /\ \A j \in Wallet!Keys : drafts'[j] \subseteq {j, NoAccount}
        /\ cache' \subseteq Accounts /\ fetching' \subseteq Accounts
        /\ cache' \cup fetching' \subseteq {address}
    BY <1>2, <2>1, EffectsOwn
  <2> QED BY <1>0, <1>2, <2>2 DEF WalletInv, Wallet!TypeOK, Wallet!NothingForeign, Wallet!Text
<1>3. CASE Wallet!Reset(<<address, NoAccount>>, rest)
  <2>1. /\ <<address, NoAccount>> \in Seq(Wallet!Keys) /\ Len(<<address, NoAccount>>) = 2
        /\ <<address, NoAccount>>[2] = NoAccount
    BY <1>0
  <2> QED BY <1>3, <2>1, ResetKeeps
<1> QED BY <1>1, <1>2, <1>3 DEF Wallet!Success

\* The page is loaded again.
LEMMA ReloadKeeps ==
  ASSUME WalletInv, Wallet!Reload
  PROVE  WalletInv'
<1>1. NoAccount \in Wallet!Keys /\ Wallet!Request("refresh") \in Wallet!Requests
  BY Asked DEF Wallet!Keys
<1>2. /\ Wallet!loadDraft(Wallet!Drafts, NoAccount) \in SUBSET Wallet!Keys
      /\ Wallet!loadDraft(Wallet!Drafts, NoAccount) \subseteq {NoAccount}
  <2>1. shown \in Wallet!Keys
    BY DEF WalletInv, Wallet!TypeOK
  <2> QED BY <1>1, <2>1, TextsOfState, LoadedText
<1>3. form' \in SUBSET Wallet!Keys /\ form' \subseteq {NoAccount}
  BY <1>2 DEF Wallet!Reload
<1>4. /\ drafts' \in [Wallet!Keys -> SUBSET Wallet!Keys] /\ old' \subseteq Wallet!Keys
      /\ \A j \in Wallet!Keys : drafts'[j] \subseteq {j, NoAccount}
  BY <1>1, <1>3 DEF WalletInv, Wallet!TypeOK, Wallet!NothingForeign, Wallet!Reload, Wallet!Text
<1>5. /\ shown' = NoAccount /\ loading' = TRUE /\ pending' = {Wallet!Request("refresh")}
      /\ cache' = {} /\ fetching' = {} /\ mutation' = NoAccount /\ ext' = ext
  BY DEF Wallet!Reload
<1> QED BY <1>1, <1>3, <1>4, <1>5 DEF WalletInv, Wallet!TypeOK, Wallet!NothingForeign, Wallet!Text

\* What the extension and the buttons do to the requests in flight.
LEMMA RequestsKeep ==
  ASSUME WalletInv,
         \/ \E a \in Wallet!Keys : Wallet!Select(a)
         \/ \E by \in {"refresh", "connect"} : Wallet!Ask(by)
         \/ \E r \in pending : Wallet!Answer(r) \/ Wallet!RejectConnect(r)
                               \/ \E a \in Accounts : Wallet!AnswerConnect(r, a)
         \/ Wallet!Poll
  PROVE  WalletInv'
<1>1. UNCHANGED <<shown, form, drafts, old, cache, fetching, mutation>>
  BY DEF Wallet!Select, Wallet!Ask, Wallet!Answer, Wallet!RejectConnect, Wallet!AnswerConnect,
         Wallet!Poll
<1>2. ext' \in Wallet!Keys /\ loading' \in BOOLEAN
  BY DEF Wallet!Select, Wallet!Ask, Wallet!Answer, Wallet!RejectConnect, Wallet!AnswerConnect,
         Wallet!Poll, WalletInv, Wallet!TypeOK, Wallet!Keys
<1>3. pending' \subseteq Wallet!Requests
  <2>1. /\ pending \subseteq Wallet!Requests /\ ext \in Wallet!Keys
        /\ Accounts \subseteq Wallet!Keys
    BY DEF WalletInv, Wallet!TypeOK, Wallet!Keys
  <2>2. CASE \E r \in pending : Wallet!Answer(r) \/ \E a \in Accounts : Wallet!AnswerConnect(r, a)
    BY <2>1, <2>2, Asked DEF Wallet!Answer, Wallet!AnswerConnect
  <2>3. CASE \E by \in {"refresh", "connect"} : Wallet!Ask(by)
    BY <2>1, <2>3, Asked DEF Wallet!Ask
  <2>4. CASE Wallet!Poll
    BY <2>1, <2>4, Asked DEF Wallet!Poll
  <2>5. CASE \/ \E a \in Wallet!Keys : Wallet!Select(a)
             \/ \E r \in pending : Wallet!RejectConnect(r)
    BY <2>1, <2>5 DEF Wallet!Select, Wallet!RejectConnect
  <2> QED BY <2>2, <2>3, <2>4, <2>5
<1> QED BY <1>1, <1>2, <1>3 DEF WalletInv, Wallet!TypeOK, Wallet!NothingForeign

\* Answers that arrive.
LEMMA AnswersKeep ==
  ASSUME WalletInv, NEW r \in pending, Wallet!Arrive(r) \/ Wallet!PollAnswered(r)
  PROVE  WalletInv'
<1>0. pending \subseteq Wallet!Requests /\ NoAccount \in Wallet!Keys /\ UNCHANGED <<ext, mutation>>
  BY DEF WalletInv, Wallet!TypeOK, Wallet!Keys, Wallet!Arrive, Wallet!PollAnswered
<1>1. CASE Wallet!Arrive(r)
  <2>1. r.answer \in Wallet!Keys /\ Wallet!Success(r.answer, pending \ {r})
    BY <1>1, Asked DEF Wallet!Arrive
  <2> QED BY <1>0, <2>1, SuccessKeeps
<1>2. CASE Wallet!Reset(<<NoAccount>>, pending \ {r})
  <2>1. /\ <<NoAccount>> \in Seq(Wallet!Keys) /\ Len(<<NoAccount>>) = 1
        /\ <<NoAccount>>[1] = NoAccount
    BY <1>0
  <2> QED BY <1>0, <1>2, <2>1, ResetKeeps
<1>3. CASE /\ pending' \in {pending \ {r}, (pending \ {r}) \cup {Wallet!Request("refresh")}}
           /\ loading' \in {TRUE, loading}
           /\ UNCHANGED <<shown, form, drafts, old, cache, fetching>>
  <2>1. pending' \subseteq Wallet!Requests /\ loading' \in BOOLEAN
    BY <1>0, <1>3, Asked DEF WalletInv, Wallet!TypeOK
  <2> QED BY <1>0, <1>3, <2>1 DEF WalletInv, Wallet!TypeOK, Wallet!NothingForeign
<1> QED BY <1>1, <1>2, <1>3 DEF Wallet!PollAnswered

\* Typing, the wizard's reset, an entry that ages, and submissions.
LEMMA FormKeeps ==
  ASSUME WalletInv, \/ Wallet!Type \/ Wallet!WizardReset \/ Wallet!Submit \/ Wallet!Confirm
                    \/ \E k \in Wallet!Keys : Wallet!Age(k)
  PROVE  WalletInv'
<1>0. /\ OwnTexts(Wallet!Drafts, shown) /\ Wallet!Drafts.form = form
      /\ form \in SUBSET Wallet!Keys /\ form \subseteq {shown, NoAccount}
      /\ shown \in Wallet!Keys /\ mutation \in Wallet!Keys /\ NoAccount \in Wallet!Keys
  BY TextsOfState DEF WalletInv, Wallet!TypeOK, Wallet!NothingForeign, Wallet!Drafts, Wallet!Keys,
                      Wallet!Text
<1>1. ASSUME NEW j \in Wallet!Keys, NEW text \in SUBSET Wallet!Keys, text \subseteq {j, NoAccount},
             drafts' = Wallet!saveDraft(Wallet!Drafts, j, text).drafts,
             old' = Wallet!saveDraft(Wallet!Drafts, j, text).old
      PROVE  /\ drafts' \in [Wallet!Keys -> SUBSET Wallet!Keys] /\ old' \subseteq Wallet!Keys
             /\ \A k \in Wallet!Keys : drafts'[k] \subseteq {k, NoAccount}
  <2>1. OwnTexts(Wallet!saveDraft(Wallet!Drafts, j, text), shown)
    BY <1>0, <1>1, SavedTexts
  <2> QED BY <1>1, <2>1 DEF OwnTexts
<1>2. CASE Wallet!Type
  <2>1. /\ form' = form \cup {shown}
        /\ drafts' = Wallet!saveDraft(Wallet!Drafts, shown, form \cup {shown}).drafts
        /\ old' = Wallet!saveDraft(Wallet!Drafts, shown, form \cup {shown}).old
        /\ UNCHANGED <<ext, shown, loading, pending, cache, fetching, mutation>>
    BY <1>2 DEF Wallet!Type
  <2> DEFINE text == form \cup {shown}
  <2>2. /\ drafts' \in [Wallet!Keys -> SUBSET Wallet!Keys] /\ old' \subseteq Wallet!Keys
        /\ \A k \in Wallet!Keys : drafts'[k] \subseteq {k, NoAccount}
    <3>1. text \in SUBSET Wallet!Keys /\ text \subseteq {shown, NoAccount}
      BY <1>0
    <3>2. /\ drafts' = Wallet!saveDraft(Wallet!Drafts, shown, text).drafts
          /\ old' = Wallet!saveDraft(Wallet!Drafts, shown, text).old
      BY <2>1
    <3> HIDE DEF text
    <3> QED BY <1>0, <1>1, <3>1, <3>2
  <2> QED BY <1>0, <2>1, <2>2 DEF WalletInv, Wallet!TypeOK, Wallet!NothingForeign, Wallet!Text
<1>3. CASE Wallet!WizardReset
  <2>1. /\ form' = {}
        /\ drafts' = Wallet!saveDraft(Wallet!Drafts, shown, {}).drafts
        /\ old' = Wallet!saveDraft(Wallet!Drafts, shown, {}).old
        /\ UNCHANGED <<ext, shown, loading, pending, cache, fetching, mutation>>
    BY <1>3 DEF Wallet!WizardReset, Wallet!clearDraft
  <2>2. /\ drafts' \in [Wallet!Keys -> SUBSET Wallet!Keys] /\ old' \subseteq Wallet!Keys
        /\ \A k \in Wallet!Keys : drafts'[k] \subseteq {k, NoAccount}
    BY <1>0, <1>1, <2>1
  <2> QED BY <1>0, <2>1, <2>2 DEF WalletInv, Wallet!TypeOK, Wallet!NothingForeign, Wallet!Text
<1>4. CASE Wallet!Confirm
  <2>1. /\ mutation' = NoAccount /\ form' = form /\ fetching' \subseteq fetching \cup cache
        /\ drafts' = Wallet!saveDraft(Wallet!Drafts, mutation, {}).drafts
        /\ old' = Wallet!saveDraft(Wallet!Drafts, mutation, {}).old
        /\ UNCHANGED <<ext, shown, loading, pending, cache>>
    BY <1>4 DEF Wallet!Confirm, Wallet!clearDraft
  <2>2. /\ drafts' \in [Wallet!Keys -> SUBSET Wallet!Keys] /\ old' \subseteq Wallet!Keys
        /\ \A k \in Wallet!Keys : drafts'[k] \subseteq {k, NoAccount}
    BY <1>0, <1>1, <2>1
  <2> QED BY <1>0, <2>1, <2>2 DEF WalletInv, Wallet!TypeOK, Wallet!NothingForeign, Wallet!Text
<1>5. CASE Wallet!Submit
  BY <1>0, <1>5 DEF Wallet!Submit, WalletInv, Wallet!TypeOK, Wallet!NothingForeign
<1>6. CASE \E k \in Wallet!Keys : Wallet!Age(k)
  BY <1>0, <1>6 DEF Wallet!Age, WalletInv, Wallet!TypeOK, Wallet!NothingForeign
<1> QED BY <1>2, <1>3, <1>4, <1>5, <1>6

\* Queries under the shown account's scope.
LEMMA QueriesKeep ==
  ASSUME WalletInv, Wallet!Fetch \/ \E a \in Accounts : Wallet!Fetched(a)
  PROVE  WalletInv'
BY DEF Wallet!Fetch, Wallet!Fetched, WalletInv, Wallet!TypeOK, Wallet!NothingForeign, Wallet!Keys

LEMMA WalletStarts == Wallet!Init => WalletInv
<1> SUFFICES ASSUME Wallet!Init PROVE WalletInv
  OBVIOUS
<1>1. NoAccount \in Wallet!Keys
  BY DEF Wallet!Keys
<1>2. Wallet!Request("refresh") \in Wallet!Requests
  BY <1>1 DEF Wallet!Request, Wallet!Requests
<1> QED BY <1>1, <1>2 DEF Wallet!Init, WalletInv, Wallet!TypeOK, Wallet!NothingForeign, Wallet!Text

LEMMA WalletKept == WalletInv /\ [Wallet!Next]_walletVars => WalletInv'
<1> SUFFICES ASSUME WalletInv, [Wallet!Next]_walletVars PROVE WalletInv'
  OBVIOUS
<1>1. CASE UNCHANGED walletVars
  BY <1>1 DEF walletVars, WalletInv, Wallet!TypeOK, Wallet!NothingForeign
<1>2. CASE Wallet!Next
  BY <1>2, ReloadKeeps, RequestsKeep, AnswersKeep, FormKeeps, QueriesKeep DEF Wallet!Next
<1> QED BY <1>1, <1>2

\* Whatever accounts there are and however many answers are under way, no form,
\* draft or cache of an account holds what another one typed or fetched
\* (useWallet.ts, split-app-legacy.tsx, useSplits.ts).
THEOREM NothingIsForeign == MCSpec => []NothingForeign
<1> DEFINE I == part = "wallet" => WalletInv
<1>1. MCInit => I
  BY WalletStarts DEF MCInit, WalletInit
<1>2. I /\ [MCNext]_mcVars => I'
  <2> SUFFICES ASSUME I, [MCNext]_mcVars PROVE I'
    OBVIOUS
  <2>1. UNCHANGED part /\ (part = "wallet" => [Wallet!Next]_walletVars)
    BY DEF MCNext, mcVars, WalletStep, ReconStep, HistoryStep, NotifStep
  <2> QED BY <2>1, WalletKept
<1>3. I => NothingForeign
  BY DEF WalletInv, NothingForeign
<1> QED BY <1>1, <1>2, <1>3, PTL DEF MCSpec
=============================================================================
