---------------------------- MODULE PeopleProofs ----------------------------
(***************************************************************************)
(* Proofs about the people side of the service, for every value of the     *)
(* constants: collaborator changes, sign-in attempts, invitations,         *)
(* accounts and sessions, and the records of drafts and payments.          *)
(*                                                                         *)
(* Collaborator changes: every committed change raises the version, so an  *)
(* equal version means that the record a request read is the stored one,   *)
(* and what was permitted on the former is permitted on the latter.  The   *)
(* other four are sections below, each with its own inductive invariant.   *)
(***************************************************************************)
EXTENDS MCPeople, SumsProofs

\* A call in flight carries the fields of one.
LEMMA FlyingFields ==
  ASSUME TypeOK, NEW r \in Requests, InFlight(r)
  PROVE  call[r] \in Flying
BY DEF TypeOK, InFlight

\* A permitted change of a record gives a record, one version on, in which
\* only the target's role differs.
LEMMA PlanIsRecord ==
  ASSUME NEW rec \in Records, NEW request \in Inputs,
         Permitted(rec, request.actor, request.change)
  PROVE  /\ Plan(rec, request.change) \in Records
         /\ Plan(rec, request.change).version = rec.version + 1
         /\ \A x \in Members \ {request.change.address} :
              Plan(rec, request.change).roles[x] = rec.roles[x]
<1>1. request.change \in Changes BY DEF Inputs
<1>2. request.change.role \in Assignable \cup {"none"}
  BY <1>1 DEF Permitted, Changes
<1>3. rec.version \in Nat /\ rec.roles \in RoleMaps BY DEF Records
<1> DEFINE changed == [rec.roles EXCEPT ![request.change.address] = request.change.role]
<1>4. /\ changed \in RoleMaps
      /\ \A x \in Members \ {request.change.address} : changed[x] = rec.roles[x]
  BY <1>2, <1>3 DEF RoleMaps
<1>5. Plan(rec, request.change) = [version |-> rec.version + 1, roles |-> changed]
  BY DEF Plan
<1> HIDE DEF changed
<1> QED BY <1>3, <1>4, <1>5 DEF Records

\* One turn of the loop, from its read to its plan, preserves the invariant.
LEMMA AttemptStep ==
  ASSUME IInv, NEW r \in Requests, NEW request \in Inputs,
         NEW n \in 1..MaxAttempts, NEW first \in Nat,
         first + n - 1 <= record.version,
         Attempt(r, request, n, first)
  PROVE  IInv'
<1>t. TypeOK /\ record \in Records /\ record.version \in Nat /\ record' = record
  BY DEF IInv, TypeOK, Records, Attempt
<1>1. \A q \in Requests \ {r} : call'[q] = call[q]
  BY <1>t DEF Attempt, TypeOK
<1>2. CASE call'[r] = Ended("refused")
  <2>1. TypeOK' BY <1>t, <1>2 DEF Attempt, TypeOK, Ended
  <2>2. call'[r].phase = "refused" BY <1>2 DEF Ended
  <2>3. VersionIdentifiesRecord'
    BY <1>t, <1>1, <2>2 DEF IInv, VersionIdentifiesRecord, InFlight
  <2>4. AttemptsCostCommits'
    BY <1>t, <1>1, <2>2 DEF IInv, AttemptsCostCommits, InFlight
  <2>5. PlannedOnItsBase'
    BY <1>t, <1>1, <2>2 DEF IInv, PlannedOnItsBase
  <2> QED BY <2>1, <2>3, <2>4, <2>5 DEF IInv
<1>3. CASE /\ call'[r] = [phase |-> "planned", request |-> request,
                          base |-> record, attempt |-> n, first |-> first]
           /\ Fresh(record, request, n)
           /\ Permitted(record, request.actor, request.change)
  <2>1. call'[r] \in Flying BY <1>t, <1>3 DEF Flying
  <2>2. TypeOK' BY <1>t, <2>1 DEF Attempt, TypeOK
  <2>3. VersionIdentifiesRecord'
    BY <1>t, <1>1, <1>3 DEF IInv, VersionIdentifiesRecord, InFlight
  <2>4. AttemptsCostCommits'
    BY <1>t, <1>1, <1>3 DEF IInv, AttemptsCostCommits, InFlight
  <2>5. PlannedOnItsBase'
    BY <1>t, <1>1, <1>3 DEF IInv, PlannedOnItsBase, Fresh
  <2> QED BY <2>2, <2>3, <2>4, <2>5 DEF IInv
<1> QED BY <1>t, <1>2, <1>3 DEF Attempt, TypeOK

\* Every step preserves the invariant.
LEMMA InvariantStep == IInv /\ [Next]_vars => IInv'
<1> SUFFICES ASSUME IInv, [Next]_vars PROVE IInv'
  OBVIOUS
<1>t. TypeOK /\ record \in Records /\ record.version \in Nat
  BY DEF IInv, TypeOK, Records
<1>1. ASSUME NEW r \in Requests, Begin(r) PROVE IInv'
  <2>1. PICK request \in Inputs : Attempt(r, request, 1, record.version)
    BY <1>1 DEF Begin
  <2>2. 1 \in 1..MaxAttempts BY MembershipAssumption
  <2> QED BY <1>t, <2>1, <2>2, AttemptStep
<1>2. ASSUME NEW r \in Requests, Retry(r) PROVE IInv'
  <2>1. InFlight(r) /\ call[r] \in Flying
    BY <1>t, <1>2, FlyingFields DEF Retry, InFlight
  <2>2. /\ call[r].request \in Inputs /\ call[r].attempt \in 1..MaxAttempts
        /\ call[r].first \in Nat /\ call[r].base.version \in Nat
    BY <2>1 DEF Flying, Records
  <2>3. /\ call[r].attempt < MaxAttempts
        /\ call[r].first + call[r].attempt <= record.version
    BY <1>t, <1>2, <2>1, <2>2, MembershipAssumption DEF IInv, AttemptsCostCommits, Retry
  <2>4. /\ call[r].attempt + 1 \in 1..MaxAttempts
        /\ call[r].first + (call[r].attempt + 1) - 1 <= record.version
    BY <1>t, <2>2, <2>3, MembershipAssumption
  <2>5. Attempt(r, call[r].request, call[r].attempt + 1, call[r].first)
    BY <1>2 DEF Retry
  <2> QED BY <2>2, <2>4, <2>5, AttemptStep
<1>3. ASSUME NEW r \in Requests, Commit(r) PROVE IInv'
  <2>1. InFlight(r) /\ call[r] \in Flying
    BY <1>t, <1>3, FlyingFields DEF Commit, InFlight
  <2>2. /\ call[r].base = record /\ call[r].request \in Inputs
        /\ Permitted(record, call[r].request.actor, call[r].request.change)
    BY <1>3, <2>1 DEF Commit, IInv, VersionIdentifiesRecord, PlannedOnItsBase, Flying
  <2>3. record' \in Records /\ record'.version = record.version + 1
    BY <1>t, <1>3, <2>2, PlanIsRecord DEF Commit
  <2>4. /\ call'[r].phase = "done" /\ \A q \in Requests \ {r} : call'[q] = call[q]
        /\ TypeOK'
    BY <1>t, <1>3, <2>3 DEF Commit, TypeOK, Ended
  <2>5. \A q \in Requests : InFlight(q) => call[q].base.version \in Nat
    BY <1>t, FlyingFields DEF Flying, Records
  <2>6. VersionIdentifiesRecord'
    BY <1>t, <2>3, <2>4, <2>5 DEF IInv, VersionIdentifiesRecord, InFlight
  <2>7. AttemptsCostCommits'
    BY <1>t, <2>3, <2>4, <2>5 DEF IInv, AttemptsCostCommits, InFlight
  <2>8. PlannedOnItsBase'
    BY <2>4 DEF IInv, PlannedOnItsBase
  <2> QED BY <2>4, <2>6, <2>7, <2>8 DEF IInv
<1>4. ASSUME NEW r \in Requests, LoseRace(r) PROVE IInv'
  <2>1. InFlight(r) /\ call[r] \in Flying /\ record' = record
    BY <1>t, <1>4, FlyingFields DEF LoseRace, InFlight
  <2>2. /\ call'[r] = [call[r] EXCEPT !.phase = "retry"]
        /\ \A q \in Requests \ {r} : call'[q] = call[q]
    BY <1>t, <1>4 DEF LoseRace, TypeOK
  <2>3. /\ call'[r].phase = "retry" /\ call'[r].base = call[r].base
        /\ call'[r].request = call[r].request /\ call'[r].first = call[r].first
        /\ call'[r].attempt = call[r].attempt /\ call'[r] \in Flying
    BY <2>1, <2>2 DEF Flying
  <2>4. TypeOK' BY <1>t, <1>4, <2>1, <2>2, <2>3 DEF LoseRace, TypeOK
  <2>5. /\ call[r].base.version < record.version /\ call[r].attempt < MaxAttempts
    <3>1. /\ call[r].base.version \in Nat /\ call[r].attempt \in 1..MaxAttempts
      BY <2>1 DEF Flying, Records
    <3> QED BY <1>t, <1>4, <2>1, <3>1, MembershipAssumption
            DEF LoseRace, LastAttempt, IInv, VersionIdentifiesRecord
  <2>6. VersionIdentifiesRecord'
    <3> SUFFICES ASSUME NEW q \in Requests, InFlight(q)'
                 PROVE  /\ call'[q].base.version <= record.version
                        /\ call'[q].base.version = record.version => call'[q].base = record
      BY <2>1 DEF VersionIdentifiesRecord
    <3>1. CASE q = r BY <2>1, <2>3, <3>1 DEF IInv, VersionIdentifiesRecord
    <3>2. CASE q # r BY <2>2, <3>2 DEF IInv, VersionIdentifiesRecord, InFlight
    <3> QED BY <3>1, <3>2
  <2>7. AttemptsCostCommits'
    BY <2>1, <2>2, <2>3, <2>5 DEF IInv, AttemptsCostCommits, InFlight
  <2>8. PlannedOnItsBase'
    BY <2>1, <2>2, <2>3 DEF IInv, PlannedOnItsBase
  <2> QED BY <2>4, <2>6, <2>7, <2>8 DEF IInv
<1>5. ASSUME NEW r \in Requests, GiveUp(r) PROVE IInv'
  <2>1. /\ call'[r].phase = "conflict" /\ record' = record
        /\ \A q \in Requests \ {r} : call'[q] = call[q]
        /\ TypeOK'
    BY <1>t, <1>5 DEF GiveUp, TypeOK, Ended
  <2>2. VersionIdentifiesRecord' BY <2>1 DEF IInv, VersionIdentifiesRecord, InFlight
  <2>3. AttemptsCostCommits' BY <2>1 DEF IInv, AttemptsCostCommits, InFlight
  <2>4. PlannedOnItsBase' BY <2>1 DEF IInv, PlannedOnItsBase
  <2> QED BY <2>1, <2>2, <2>3, <2>4 DEF IInv
<1>6. CASE UNCHANGED vars
  BY <1>6 DEF vars, IInv, TypeOK, VersionIdentifiesRecord, AttemptsCostCommits,
              PlannedOnItsBase, InFlight
<1> QED BY <1>1, <1>2, <1>3, <1>4, <1>5, <1>6 DEF Next

\* The invariant holds in every state of every behaviour.
LEMMA InvariantAlways == Spec => []IInv
<1>1. Init => IInv
  <2> SUFFICES ASSUME Init PROVE IInv
    OBVIOUS
  <2>1. TypeOK
    BY MembershipAssumption DEF Init, TypeOK, Records, Ended
  <2>2. \A r \in Requests : call[r].phase = "idle" BY DEF Init, Ended
  <2> QED BY <2>1, <2>2 DEF IInv, VersionIdentifiesRecord, AttemptsCostCommits,
                            PlannedOnItsBase, InFlight
<1> QED BY <1>1, InvariantStep, PTL DEF Spec

\* The record and the calls of applyCollaborationChange keep their types.
THEOREM MembershipTypeCorrect == Spec => []TypeOK
<1>1. IInv => TypeOK BY DEF IInv
<1> QED BY <1>1, InvariantAlways, PTL

\* A step that ends a planned request is its commit, and then the record that
\* is replaced is the one the request was authorized on.
LEMMA CommitOnBase ==
  ASSUME IInv, [Next]_vars, NEW r \in Requests, Commits(r)
  PROVE  /\ Commit(r) /\ call[r].base = record /\ call[r].request \in Inputs
         /\ Permitted(record, call[r].request.actor, call[r].request.change)
         /\ call[r].request.expected \in {NoVersion, record.version}
         /\ record' = Plan(record, call[r].request.change)
<1>t. TypeOK BY DEF IInv
<1>1. ~UNCHANGED vars BY DEF Commits, vars
<1>2. PICK q \in Requests : Begin(q) \/ Retry(q) \/ Commit(q) \/ LoseRace(q) \/ GiveUp(q)
  BY <1>1 DEF Next
<1>3. \A p \in Requests \ {q} : call'[p] = call[p]
  BY <1>t, <1>2 DEF TypeOK, Begin, Retry, Attempt, Commit, LoseRace, GiveUp
<1>4. q = r BY <1>3 DEF Commits
<1>5. Commit(r)
  <2>1. ~Begin(r) /\ ~Retry(r) BY DEF Commits, Begin, Retry
  <2>2. ~LoseRace(r)
    <3> SUFFICES ASSUME LoseRace(r) PROVE FALSE
      OBVIOUS
    <3>1. call[r] \in Flying BY <1>t, FlyingFields DEF Commits, InFlight
    <3>2. call'[r] = [call[r] EXCEPT !.phase = "retry"] BY <1>t DEF LoseRace, TypeOK
    <3> QED BY <3>1, <3>2 DEF Commits, Flying
  <2>3. ~GiveUp(r) BY <1>t DEF Commits, GiveUp, TypeOK, Ended
  <2> QED BY <1>2, <1>4, <2>1, <2>2, <2>3
<1>6. call[r] \in Flying /\ InFlight(r) BY <1>t, FlyingFields DEF Commits, InFlight
<1> QED BY <1>5, <1>6
        DEF Commit, IInv, VersionIdentifiesRecord, PlannedOnItsBase, Flying

\* A step that changes the record commits some request.
LEMMA OnlyCommitsWrite ==
  ASSUME IInv, [Next]_vars, record' # record
  PROVE  \E r \in Requests : Commits(r)
<1>1. PICK r \in Requests : Commit(r)
  BY DEF Next, vars, Begin, Retry, Attempt, LoseRace, GiveUp
<1> QED BY <1>1 DEF Commits, Commit, Ended, IInv, TypeOK

\* Every role change of applyCollaborationChange is authorized against the
\* record it replaces: the owner's, or an admin's below the rank of admin.
THEOREM AlwaysAuthorizedWhenCommitted == Spec => AuthorizedWhenCommitted
<1>1. ASSUME IInv, Next, NEW x \in Members, record'.roles[x] # record.roles[x]
      PROVE  \E r \in Requests :
               /\ Commits(r)
               /\ \/ call[r].request.actor = Owner
                  \/ /\ RoleIn(record, call[r].request.actor) = "admin"
                     /\ record.roles[x] # "admin"
                     /\ record'.roles[x] # "admin"
  <2>1. PICK r \in Requests : Commits(r)
    BY <1>1, OnlyCommitsWrite
  <2> DEFINE change == call[r].request.change
             actor  == call[r].request.actor
  <2>2. /\ Permitted(record, actor, change) /\ record' = Plan(record, change)
        /\ call[r].request \in Inputs
    BY <1>1, <2>1, CommitOnBase
  <2>3. record \in Records /\ change \in Changes
    BY <1>1, <2>2 DEF IInv, TypeOK, Inputs
  <2>4. x = change.address /\ record'.roles[x] = change.role
    BY <1>1, <2>2, <2>3, PlanIsRecord DEF Plan, Records, RoleMaps
  <2>5. CASE actor # Owner
    <3>1. RoleIn(record, actor) = "admin"
      BY <2>2, <2>3, <2>5 DEF Permitted, RoleIn, MayUpdate, Records, RoleMaps, Assignable, Inputs, Members
    <3>2. ~Outranks("admin", "admin") BY DEF Outranks, ROLE_RANK
    <3>3. record.roles[x] # "admin"
      BY <2>2, <2>4, <3>1, <3>2 DEF Permitted
    <3>4. change.role # "admin"
      BY <2>2, <2>3, <3>1, <3>2 DEF Permitted, Changes
    <3> QED BY <2>1, <2>4, <3>1, <3>3, <3>4
  <2> QED BY <2>1, <2>5
<1>2. IInv /\ [Next]_vars =>
        [\A x \in Members : record'.roles[x] # record.roles[x] =>
           \E r \in Requests :
              /\ Commits(r)
              /\ \/ call[r].request.actor = Owner
                 \/ /\ RoleIn(record, call[r].request.actor) = "admin"
                    /\ record.roles[x] # "admin"
                    /\ record'.roles[x] # "admin"]_vars
  BY <1>1
<1> QED BY <1>2, InvariantAlways, PTL DEF Spec, AuthorizedWhenCommitted

\* compareAndSet never lets a change undo what another request committed.
THEOREM NeverALostUpdate == Spec => NoLostUpdate
<1>1. ASSUME IInv, [Next]_vars, NEW r \in Requests, Commits(r)
      PROVE  \A x \in Members \ {call[r].request.change.address} :
               record'.roles[x] = record.roles[x]
  <2>1. record \in Records BY <1>1 DEF IInv, TypeOK
  <2> QED BY <1>1, <2>1, CommitOnBase, PlanIsRecord
<1>2. IInv /\ [Next]_vars =>
        [\A r \in Requests : Commits(r) =>
           \A x \in Members \ {call[r].request.change.address} :
              record'.roles[x] = record.roles[x]]_vars
  BY <1>1
<1> QED BY <1>2, InvariantAlways, PTL DEF Spec, NoLostUpdate

\* A supplied expectedVersion is the version that the commit replaces.
THEOREM ExpectedVersionAlwaysHonoured == Spec => ExpectedVersionHonoured
<1>1. ASSUME IInv, [Next]_vars, NEW r \in Requests, Commits(r)
      PROVE  call[r].request.expected \in {NoVersion, record.version}
  BY <1>1, CommitOnBase
<1>2. IInv /\ [Next]_vars =>
        [\A r \in Requests : Commits(r) =>
           call[r].request.expected \in {NoVersion, record.version}]_vars
  BY <1>1
<1> QED BY <1>2, InvariantAlways, PTL DEF Spec, ExpectedVersionHonoured

\* collaboration_change_conflict is answered only after MaxAttempts commits of
\* other requests: the retry loop does not give up for any other reason.
THEOREM ConflictAlwaysMeansContention == Spec => ConflictMeansContention
<1>1. ASSUME IInv, Next, NEW r \in Requests,
             call[r].phase # "conflict", call'[r].phase = "conflict"
      PROVE  record.version >= call[r].first + MaxAttempts
  <2>t. TypeOK /\ record.version \in Nat BY <1>1 DEF IInv, TypeOK, Records
  <2>1. PICK q \in Requests : Begin(q) \/ Retry(q) \/ Commit(q) \/ LoseRace(q) \/ GiveUp(q)
    BY <1>1 DEF Next
  <2>2. \A p \in Requests \ {q} : call'[p] = call[p]
    BY <2>t, <2>1 DEF TypeOK, Begin, Retry, Attempt, Commit, LoseRace, GiveUp
  <2>3. q = r BY <1>1, <2>2
  <2>4. ~Begin(r) /\ ~Retry(r) /\ ~Commit(r)
    BY <1>1, <2>t DEF TypeOK, Begin, Retry, Attempt, Commit, Ended
  <2>5. ~LoseRace(r)
    <3> SUFFICES ASSUME LoseRace(r) PROVE FALSE
      OBVIOUS
    <3>1. call[r] \in Flying BY <2>t, FlyingFields DEF LoseRace, InFlight
    <3>2. call'[r] = [call[r] EXCEPT !.phase = "retry"] BY <2>t DEF LoseRace, TypeOK
    <3> QED BY <1>1, <3>1, <3>2 DEF Flying
  <2>6. GiveUp(r) BY <2>1, <2>3, <2>4, <2>5
  <2>7. InFlight(r) /\ call[r] \in Flying
    BY <2>t, <2>6, FlyingFields DEF GiveUp, InFlight
  <2>8. /\ call[r].base.version \in Nat /\ call[r].first \in Nat
        /\ call[r].attempt = MaxAttempts /\ call[r].base.version < record.version
    BY <1>1, <2>t, <2>6, <2>7
       DEF Flying, Records, GiveUp, LastAttempt, IInv, VersionIdentifiesRecord
  <2> QED BY <1>1, <2>t, <2>7, <2>8, MembershipAssumption DEF IInv, AttemptsCostCommits
<1>2. IInv /\ [Next]_vars =>
        [\A r \in Requests : call[r].phase # "conflict" /\ call'[r].phase = "conflict" =>
           record.version >= call[r].first + MaxAttempts]_vars
  BY <1>1
<1> QED BY <1>2, InvariantAlways, PTL DEF Spec, ConflictMeansContention

-----------------------------------------------------------------------------
(* Sign-in attempts.  What a wallet may still guess is bounded by what its *)
(* entry counts: all but the last `failures' rejections came before the    *)
(* entry's window, and of those at most one less than the limit can be     *)
(* recent, because the window they were in did not end in a lock.          *)

EntryFields == {"failures", "windowStartedAt", "lockedUntil", "pending"}
EntryTypes(e) ==
  /\ DOMAIN e = EntryFields /\ e.failures \in Nat /\ e.windowStartedAt \in Nat
  /\ e.lockedUntil \in Nat /\ e.pending \in Int

\* An entry in the store counts the attempts in progress and the failures.
EntryOk(e, busy) ==
  /\ e.pending = busy /\ e.failures + busy <= LOGIN_FAILURE_LIMIT
  /\ e.lockedUntil > 0 => busy = 0 /\ e.failures = LOGIN_FAILURE_LIMIT
  /\ e.failures = LOGIN_FAILURE_LIMIT => e.lockedUntil > 0

\* The rejections q up to t, the last f of which an entry counts.
GuessesOk(q, f, t) ==
  /\ q \in Seq(Nat) /\ f <= Len(q)
  /\ \A i \in 1..Len(q) : q[i] <= t
  /\ \A i \in 1..(Len(q) - f - (LOGIN_FAILURE_LIMIT - 1)) : q[i] + LOGIN_FAILURE_WINDOW <= t

\* The rejections before the entry's window, and those before its lock.
WindowOk(q, e) ==
  /\ \A i \in 1..(Len(q) - e.failures) : q[i] <= e.windowStartedAt
  /\ e.lockedUntil > 0 => \A i \in 1..Len(q) : q[i] + LOGIN_LOCKOUT <= e.lockedUntil

BusyWith(w) == {a \in Tries : trying[a] = w}

\* A wallet's entry, its rejections, its attempts in progress, at time t.
WalletOk(e, q, B, t) ==
  /\ EntryTypes(e) /\ GuessesOk(q, e.failures, t)
  /\ e = Login!NoEntry => B = {}
  /\ e # Login!NoEntry => EntryOk(e, Cardinality(B)) /\ WindowOk(q, e)

\* The inductive invariant of the sign-in attempts.
LoginInv ==
  /\ now \in Nat /\ trying \in [Tries -> Wallets \cup {"none"}]
  /\ DOMAIN entries = Wallets /\ DOMAIN wrong = Wallets
  /\ \A w \in Wallets : WalletOk(entries[w], wrong[w], BusyWith(w), now)

\* The instance counts as this module does.
LEMMA SameCount ==
  ASSUME NEW S
  PROVE  Login!Cardinality(S) = Cardinality(S)
BY DEF Login!Cardinality, Cardinality

LEMMA NoEntryOk ==
  /\ EntryTypes(Login!NoEntry) /\ Login!NoEntry.failures = 0 /\ Login!NoEntry.pending = -1
  /\ Login!NoEntry.lockedUntil = 0
BY DEF Login!NoEntry, EntryTypes, EntryFields

\* An entry that is dropped because its time is over leaves few recent
\* rejections behind.
LEMMA ExpiredForgets ==
  ASSUME LoginInv, NEW w \in Wallets, Login!expired(entries[w])
  PROVE  WalletOk(Login!NoEntry, wrong[w], BusyWith(w), now)
<1> DEFINE e == entries[w]
           q == wrong[w]
           n == Cardinality(BusyWith(w))
<1>1. WalletOk(e, q, BusyWith(w), now) /\ e.pending = 0 /\ now \in Nat
  BY DEF LoginInv, Login!expired
<1>2. e # Login!NoEntry
  BY <1>1, NoEntryOk
<1>3. EntryOk(e, n) /\ WindowOk(q, e) /\ EntryTypes(e) /\ GuessesOk(q, e.failures, now) /\ n = 0
  BY <1>1, <1>2 DEF WalletOk, EntryOk
<1>4. BusyWith(w) = {}
  <2>1. IsFiniteSet(BusyWith(w))
    BY LoginAssumption, FS_Subset DEF BusyWith
  <2> QED BY <1>3, <2>1, FS_EmptySet
<1>5. \/ e.lockedUntil > 0 /\ now >= e.lockedUntil
      \/ ~(e.lockedUntil > 0) /\ now >= e.windowStartedAt + LOGIN_FAILURE_WINDOW
  BY DEF Login!expired
<1>6. GuessesOk(q, 0, now)
  <2>1. /\ q \in Seq(Nat) /\ Len(q) \in Nat /\ e.failures \in Nat /\ e.failures <= Len(q)
        /\ \A i \in 1..Len(q) : q[i] \in Nat /\ q[i] <= now
    BY <1>3 DEF GuessesOk, EntryTypes
  <2>2. ASSUME NEW i \in 1..(Len(q) - 0 - (LOGIN_FAILURE_LIMIT - 1))
        PROVE  q[i] + LOGIN_FAILURE_WINDOW <= now
    <3>0. i \in 1..Len(q) /\ q[i] \in Nat
      BY <2>1, LoginAssumption
    <3>1. CASE e.lockedUntil > 0 /\ now >= e.lockedUntil
      <4>1. q[i] + LOGIN_LOCKOUT <= e.lockedUntil /\ e.lockedUntil \in Nat
        BY <1>3, <3>0, <3>1 DEF WindowOk, EntryTypes
      <4> HIDE DEF q, e
      <4> QED BY <1>1, <3>0, <3>1, <4>1, LoginAssumption
    <3>2. CASE ~(e.lockedUntil > 0) /\ now >= e.windowStartedAt + LOGIN_FAILURE_WINDOW
      <4>1. e.failures <= LOGIN_FAILURE_LIMIT - 1
        BY <1>3, <3>2, LoginAssumption DEF EntryOk, EntryTypes
      <4>2. i \in 1..(Len(q) - e.failures)
        <5> DEFINE l == Len(q)
                   f == e.failures
        <5>1. l \in Nat /\ f \in Nat /\ f <= LOGIN_FAILURE_LIMIT - 1 /\ i \in 1..(l - 0 - (LOGIN_FAILURE_LIMIT - 1))
          BY <2>1, <4>1
        <5> HIDE DEF l, f
        <5>2. i \in 1..(l - f)
          BY <5>1, LoginAssumption
        <5> QED BY <5>2 DEF l, f
      <4>3. q[i] <= e.windowStartedAt /\ e.windowStartedAt \in Nat
        BY <1>3, <4>2 DEF WindowOk, EntryTypes
      <4> HIDE DEF q, e
      <4> QED BY <1>1, <3>0, <3>2, <4>3, LoginAssumption
    <3> QED BY <1>5, <3>1, <3>2
  <2> HIDE DEF q
  <2> QED BY <2>1, <2>2 DEF GuessesOk
<1> QED BY <1>4, <1>6, NoEntryOk DEF WalletOk

\* A fresh entry counts nothing yet.
LEMMA FreshOk ==
  ASSUME LoginInv, NEW w \in Wallets, NEW q, WalletOk(Login!NoEntry, q, BusyWith(w), now), NEW e,
         e = [Login!NoEntry EXCEPT !.windowStartedAt = now, !.pending = 0]
  PROVE  WalletOk(e, q, BusyWith(w), now) /\ e # Login!NoEntry
<1>1. /\ DOMAIN e = EntryFields /\ e.failures = 0 /\ e.windowStartedAt = now
      /\ e.lockedUntil = 0 /\ e.pending = 0
  BY DEF Login!NoEntry, EntryFields
<1>2. now \in Nat /\ GuessesOk(q, 0, now) /\ BusyWith(w) = {}
  BY NoEntryOk DEF LoginInv, WalletOk
<1>3. e # Login!NoEntry
  <2>1. 0 # -1
    OBVIOUS
  <2> QED BY <1>1, <2>1, NoEntryOk, Zenon
<1>4. EntryTypes(e)
  BY <1>1, <1>2 DEF EntryTypes
<1>5. Cardinality(BusyWith(w)) = 0
  BY <1>2, FS_EmptySet
<1>6. EntryOk(e, 0)
  BY <1>1, LoginAssumption DEF EntryOk
<1>7. WindowOk(q, e)
  BY <1>1, <1>2 DEF WindowOk, GuessesOk
<1> QED BY <1>1, <1>2, <1>3, <1>4, <1>5, <1>6, <1>7 DEF WalletOk

\* What an attempt finds or makes.
LEMMA EntryForOk ==
  ASSUME LoginInv, NEW w \in Wallets, NEW es, es = Login!EntryFor(w)
  PROVE  /\ DOMAIN es = Wallets
         /\ \A u \in Wallets : WalletOk(es[u], wrong[u], BusyWith(u), now)
<1> DEFINE fresh == [Login!NoEntry EXCEPT !.windowStartedAt = now, !.pending = 0]
           kept == IF Login!expired(entries[w]) THEN [entries EXCEPT ![w] = Login!NoEntry] ELSE entries
           swept == IF Cardinality(Login!Stored(kept)) >= Capacity THEN Login!Sweep(kept) ELSE kept
           All(f) == DOMAIN f = Wallets /\ \A u \in Wallets : WalletOk(f[u], wrong[u], BusyWith(u), now)
<1>0. All(entries)
  BY DEF LoginInv
<1>e. es = IF kept[w] # Login!NoEntry THEN kept
           ELSE IF Cardinality(Login!Stored(swept)) >= Capacity THEN swept
           ELSE [swept EXCEPT ![w] = fresh]
  BY SameCount DEF Login!EntryFor
<1>1. /\ All(kept) /\ \A u \in Wallets : Login!expired(kept[u]) => Login!expired(entries[u])
  <2>1. ~Login!expired(Login!NoEntry)
    BY NoEntryOk DEF Login!expired
  <2> QED BY <1>0, <2>1, ExpiredForgets
<1> HIDE DEF kept
<1>2. All(swept)
  <2>1. ASSUME NEW u \in Wallets, Login!expired(kept[u]) PROVE WalletOk(Login!NoEntry, wrong[u], BusyWith(u), now)
    BY <1>1, <2>1, ExpiredForgets
  <2> QED BY <1>1, <2>1 DEF Login!Sweep
<1>3. kept[w] = Login!NoEntry => swept[w] = Login!NoEntry
  BY <1>1 DEF Login!Sweep
<1> HIDE DEF swept
<1>4. kept[w] = Login!NoEntry => All([swept EXCEPT ![w] = fresh])
  <2> SUFFICES ASSUME kept[w] = Login!NoEntry PROVE All([swept EXCEPT ![w] = fresh])
    OBVIOUS
  <2>1. WalletOk(Login!NoEntry, wrong[w], BusyWith(w), now)
    BY <1>2, <1>3
  <2>2. WalletOk(fresh, wrong[w], BusyWith(w), now)
    BY <2>1, FreshOk
  <2> HIDE DEF fresh
  <2> QED BY <1>2, <2>2
<1>5. es = kept \/ es = swept \/ (es = [swept EXCEPT ![w] = fresh] /\ kept[w] = Login!NoEntry)
  BY <1>e
<1> QED BY <1>1, <1>2, <1>4, <1>5


\* A place is reserved.
LEMMA ReserveOk ==
  ASSUME NEW e, NEW q, NEW B, NEW t \in Nat, NEW a, NEW r, WalletOk(e, q, B, t),
         IsFiniteSet(B), a \notin B, e # Login!NoEntry,
         e.failures + e.pending < LOGIN_FAILURE_LIMIT,
         r = [e EXCEPT !.pending = @ + 1]
  PROVE  WalletOk(r, q, B \cup {a}, t)
<1> DEFINE n == Cardinality(B)
<1>1. n \in Nat /\ Cardinality(B \cup {a}) = n + 1
  BY FS_CardinalityType, FS_AddElement
<1>2. EntryTypes(e) /\ GuessesOk(q, e.failures, t) /\ EntryOk(e, n) /\ WindowOk(q, e)
  BY DEF WalletOk
<1>3. /\ DOMAIN r = EntryFields /\ r.failures = e.failures
      /\ r.windowStartedAt = e.windowStartedAt /\ r.lockedUntil = e.lockedUntil
      /\ r.pending = e.pending + 1
  BY <1>2 DEF EntryTypes, EntryFields
<1> HIDE DEF n
<1>4. EntryTypes(r) /\ r.pending = n + 1
  BY <1>1, <1>2, <1>3 DEF EntryTypes, EntryOk
<1>5. r # Login!NoEntry
  <2>1. n + 1 # -1
    BY <1>1
  <2> QED BY <1>4, <2>1, NoEntryOk, Zenon
<1>6. EntryOk(r, n + 1)
  BY <1>1, <1>2, <1>3, LoginAssumption DEF EntryOk, EntryTypes
<1>7. WindowOk(q, r)
  BY <1>2, <1>3, Zenon DEF WindowOk
<1>8. GuessesOk(q, r.failures, t)
  BY <1>2, <1>3
<1> QED BY <1>1, <1>4, <1>5, <1>6, <1>7, <1>8 DEF WalletOk

\* The entry that is left when an attempt is over: the wallet's other attempts,
\* the failures counted.
LEMMA ReleaseOk ==
  ASSUME NEW e, NEW q, NEW B, NEW t \in Nat, NEW a \in B, IsFiniteSet(B),
         EntryTypes(e), GuessesOk(q, e.failures, t), WindowOk(q, e),
         e.pending = Cardinality(B), e.failures + e.pending <= LOGIN_FAILURE_LIMIT + 1,
         e.lockedUntil > 0 => e.pending = 1,
         e.lockedUntil > 0 <=> e.failures = LOGIN_FAILURE_LIMIT
  PROVE  WalletOk(Login!Released(e), q, B \ {a}, t)
<1> DEFINE n == Cardinality(B)
           r == [e EXCEPT !.pending = @ - 1]
<1>1. /\ n \in Nat /\ n - 1 \in Nat /\ Cardinality(B \ {a}) = n - 1 /\ IsFiniteSet(B \ {a})
  <2>1. n \in Nat /\ Cardinality(B \ {a}) = n - 1 /\ IsFiniteSet(B \ {a})
    BY FS_CardinalityType, FS_RemoveElement
  <2>2. Cardinality(B \ {a}) \in Nat
    BY <2>1, FS_CardinalityType
  <2> QED BY <2>1, <2>2
<1>2. /\ DOMAIN r = EntryFields /\ r.failures = e.failures
      /\ r.windowStartedAt = e.windowStartedAt /\ r.lockedUntil = e.lockedUntil
      /\ r.pending = e.pending - 1
  BY DEF EntryTypes, EntryFields
<1>0. Login!Released(e) = IF r.pending = 0 /\ r.failures = 0 THEN Login!NoEntry ELSE r
  BY DEF Login!Released
<1> HIDE DEF n, r
<1>3. r.pending = n - 1 /\ EntryTypes(r)
  BY <1>1, <1>2 DEF EntryTypes, n
<1>4. CASE r.pending = 0 /\ r.failures = 0
  <2>1. Cardinality(B \ {a}) = 0
    BY <1>1, <1>3, <1>4
  <2>2. B \ {a} = {}
    BY <1>1, <2>1, FS_EmptySet
  <2>3. GuessesOk(q, 0, t)
    BY <1>2, <1>4
  <2> QED BY <1>0, <1>4, <2>2, <2>3, NoEntryOk DEF WalletOk
<1>5. CASE ~(r.pending = 0 /\ r.failures = 0)
  <2>1. r # Login!NoEntry
    BY <1>1, <1>3, NoEntryOk
  <2>2. EntryOk(r, n - 1)
    BY <1>1, <1>2, <1>3, LoginAssumption DEF EntryOk, EntryTypes, n
  <2>3. WindowOk(q, r)
    BY <1>2, Zenon DEF WindowOk
  <2>4. GuessesOk(q, r.failures, t)
    BY <1>2
  <2> QED BY <1>0, <1>1, <1>3, <1>5, <2>1, <2>2, <2>3, <2>4 DEF WalletOk
<1> QED BY <1>4, <1>5

\* One more rejection.
LEMMA GuessOk ==
  ASSUME NEW q \in Seq(Nat), NEW t \in Nat, NEW f \in Nat, NEW g \in Nat, f <= Len(q),
         \A i \in 1..Len(q) : q[i] <= t, g >= 1, g <= f + 1,
         \A i \in 1..(Len(q) + 1 - g - (LOGIN_FAILURE_LIMIT - 1)) :
           i \in 1..Len(q) => q[i] + LOGIN_FAILURE_WINDOW <= t
  PROVE  /\ GuessesOk(Append(q, t), g, t) /\ Len(Append(q, t)) = Len(q) + 1
         /\ \A i \in 1..Len(q) : Append(q, t)[i] = q[i]
         /\ \A i \in 1..(Len(q) + 1) : Append(q, t)[i] \in Nat /\ Append(q, t)[i] <= t
<1> DEFINE p == Append(q, t)
           l == Len(q)
<1>1. /\ p \in Seq(Nat) /\ Len(p) = l + 1 /\ l \in Nat
      /\ \A i \in 1..l : p[i] = q[i] /\ q[i] \in Nat
      /\ p[l + 1] = t
  OBVIOUS
<1>2. \A i \in 1..l : q[i] <= t
  OBVIOUS
<1>3. \A i \in 1..(l + 1 - g - (LOGIN_FAILURE_LIMIT - 1)) : i \in 1..l => q[i] + LOGIN_FAILURE_WINDOW <= t
  OBVIOUS
<1>4. f <= l
  OBVIOUS
<1> HIDE DEF p, l
<1>5. \A i \in 1..(l + 1) : p[i] \in Nat /\ p[i] <= t
  <2> TAKE i \in 1..(l + 1)
  <2>1. CASE i = l + 1
    BY <1>1, <2>1
  <2>2. CASE i # l + 1
    <3>1. i \in 1..l
      BY <1>1, <2>2
    <3> QED BY <1>1, <1>2, <3>1
  <2> QED BY <2>1, <2>2
<1>6. \A i \in 1..(Len(p) - g - (LOGIN_FAILURE_LIMIT - 1)) : p[i] + LOGIN_FAILURE_WINDOW <= t
  <2> TAKE i \in 1..(Len(p) - g - (LOGIN_FAILURE_LIMIT - 1))
  <2>1. i \in 1..l /\ i \in 1..(l + 1 - g - (LOGIN_FAILURE_LIMIT - 1))
    BY <1>1, LoginAssumption
  <2> QED BY <1>1, <1>3, <2>1
<1>7. g <= Len(p) /\ Len(p) = l + 1
  BY <1>1, <1>4
<1>8. GuessesOk(p, g, t)
  BY <1>1, <1>5, <1>6, <1>7 DEF GuessesOk
<1> QED BY <1>1, <1>5, <1>8 DEF p, l


LEMMA NoRejections == <<>> \in Seq(Nat) /\ Len(<<>>) = 0
OBVIOUS

\* The answer of the database is entered.
LEMMA SettleOk ==
  ASSUME NEW e, NEW q, NEW B, NEW a \in B, now \in Nat, WalletOk(e, q, B, now),
         IsFiniteSet(B), NEW result \in {"success", "rejected", "error"}, NEW p,
         p = CASE result = "success" -> <<>>
               [] result = "rejected" -> Append(q, now)
               [] result = "error" -> q
  PROVE  WalletOk(Login!Settle(e, result), p, B \ {a}, now)
<1> DEFINE n == Cardinality(B)
           f == e.failures
           l == Len(q)
<1>1. n \in Nat /\ n # 0
  BY FS_CardinalityType, FS_EmptySet
<1>2. EntryTypes(e) /\ GuessesOk(q, f, now) /\ EntryOk(e, n) /\ WindowOk(q, e)
  BY DEF WalletOk
<1>3. /\ f \in Nat /\ e.pending = n /\ f + n <= LOGIN_FAILURE_LIMIT /\ e.lockedUntil = 0
      /\ e.windowStartedAt \in Nat /\ f < LOGIN_FAILURE_LIMIT
  <2>1. f \in Nat /\ e.pending = n /\ f + n <= LOGIN_FAILURE_LIMIT /\ e.lockedUntil \in Nat
        /\ e.windowStartedAt \in Nat
    BY <1>2 DEF EntryTypes, EntryOk
  <2>2. ~(e.lockedUntil > 0)
    BY <1>1, <1>2 DEF EntryOk
  <2> HIDE DEF n, f
  <2> QED BY <1>1, <2>1, <2>2, LoginAssumption
<1>4. q \in Seq(Nat) /\ l \in Nat /\ f <= l /\ \A i \in 1..l : q[i] \in Nat /\ q[i] <= now
  BY <1>2 DEF GuessesOk
<1>5. CASE result = "success"
  <2> DEFINE d == [e EXCEPT !.failures = 0, !.windowStartedAt = now]
  <2>1. Login!Settle(e, result) = Login!Released(d) /\ p = <<>>
    BY <1>5, Zenon DEF Login!Settle
  <2>2. /\ DOMAIN d = EntryFields /\ d.failures = 0 /\ d.windowStartedAt = now
        /\ d.lockedUntil = 0 /\ d.pending = n
    BY <1>2, <1>3 DEF EntryTypes, EntryFields
  <2> HIDE DEF d, n
  <2>3. EntryTypes(d)
    BY <1>1, <2>2 DEF EntryTypes
  <2>4. p \in Seq(Nat) /\ Len(p) = 0
    BY <2>1, NoRejections
  <2>5. GuessesOk(p, d.failures, now) /\ WindowOk(p, d)
    BY <2>2, <2>4, LoginAssumption DEF GuessesOk, WindowOk
  <2>6. /\ d.failures + d.pending <= LOGIN_FAILURE_LIMIT + 1 /\ ~(d.lockedUntil > 0)
        /\ d.failures # LOGIN_FAILURE_LIMIT
    BY <1>1, <1>3, <2>2, LoginAssumption
  <2> QED BY <2>1, <2>2, <2>3, <2>5, <2>6, ReleaseOk DEF n
<1>6. CASE result = "rejected"
  <2> DEFINE restart == now >= e.windowStartedAt + LOGIN_FAILURE_WINDOW
             g == (IF restart THEN 0 ELSE e.failures) + 1
             d == [e EXCEPT !.failures = g,
                            !.windowStartedAt = IF restart THEN now ELSE @,
                            !.lockedUntil = IF g >= LOGIN_FAILURE_LIMIT
                                            THEN now + LOGIN_LOCKOUT ELSE @]
             s == IF restart THEN now ELSE e.windowStartedAt
             k == IF g >= LOGIN_FAILURE_LIMIT THEN now + LOGIN_LOCKOUT ELSE 0
  <2>1. Login!Settle(e, result) = Login!Released(d) /\ p = Append(q, now)
    BY <1>6 DEF Login!Settle
  <2>2. /\ DOMAIN d = EntryFields /\ d.failures = g /\ d.windowStartedAt = s
        /\ d.lockedUntil = k /\ d.pending = n
    BY <1>2, <1>3 DEF EntryTypes, EntryFields
  <2>3. /\ g \in Nat /\ g >= 1 /\ g <= f + 1 /\ g + n <= LOGIN_FAILURE_LIMIT + 1
        /\ s \in Nat
    <3> HIDE DEF n
    <3>1. CASE restart
      BY <1>1, <1>3, <3>1, LoginAssumption
    <3>2. CASE ~restart
      BY <1>1, <1>3, <3>2, LoginAssumption
    <3> QED BY <3>1, <3>2
  <2>4. /\ k \in Nat
        /\ k > 0 <=> g = LOGIN_FAILURE_LIMIT
        /\ k > 0 => k = now + LOGIN_LOCKOUT /\ n = 1
    <3> HIDE DEF n, g
    <3> QED BY <1>1, <2>3, LoginAssumption
  <2>5. \A i \in 1..(l + 1 - g - (LOGIN_FAILURE_LIMIT - 1)) :
           i \in 1..l => q[i] + LOGIN_FAILURE_WINDOW <= now
    <3>1. CASE restart
      <4> SUFFICES ASSUME NEW i \in 1..(l - (LOGIN_FAILURE_LIMIT - 1)), i \in 1..l
                   PROVE  q[i] + LOGIN_FAILURE_WINDOW <= now
        BY <3>1, <1>4, LoginAssumption
      <4>1. i \in 1..(l - f)
        <5> HIDE DEF l, f
        <5> QED BY <1>3, <1>4, LoginAssumption
      <4>2. q[i] <= e.windowStartedAt /\ q[i] \in Nat
        BY <1>2, <1>4, <4>1 DEF WindowOk
      <4> QED BY <1>3, <3>1, <4>2, LoginAssumption
    <3>2. CASE ~restart
      <4>1. l + 1 - g - (LOGIN_FAILURE_LIMIT - 1) = l - f - (LOGIN_FAILURE_LIMIT - 1)
        BY <1>3, <1>4, <3>2, LoginAssumption
      <4>2. \A i \in 1..(l - f - (LOGIN_FAILURE_LIMIT - 1)) : q[i] + LOGIN_FAILURE_WINDOW <= now
        BY <1>2 DEF GuessesOk
      <4> QED BY <4>1, <4>2, Zenon
    <3> QED BY <3>1, <3>2
  <2>6. /\ GuessesOk(Append(q, now), g, now) /\ Len(Append(q, now)) = l + 1
        /\ \A i \in 1..l : Append(q, now)[i] = q[i]
        /\ \A i \in 1..(l + 1) : Append(q, now)[i] \in Nat /\ Append(q, now)[i] <= now
    <3>1. f <= l /\ \A i \in 1..l : q[i] <= now
      BY <1>4
    <3> HIDE DEF g, f
    <3> QED BY <1>3, <1>4, <2>3, <2>5, <3>1, GuessOk
  <2>7. \A i \in 1..(l + 1 - g) : Append(q, now)[i] <= s
    <3> TAKE i \in 1..(l + 1 - g)
    <3>0. i \in 1..(l + 1) /\ i \in 1..l
      <4> HIDE DEF l, g
      <4> QED BY <1>4, <2>3
    <3>1. CASE restart
      BY <2>6, <3>0, <3>1
    <3>2. CASE ~restart
      <4>1. l + 1 - g = l - f /\ s = e.windowStartedAt
        BY <1>3, <1>4, <3>2
      <4>2. q[i] <= e.windowStartedAt
        BY <1>2, <4>1 DEF WindowOk
      <4> QED BY <2>6, <3>0, <4>1, <4>2
    <3> QED BY <3>1, <3>2
  <2> HIDE DEF d, n, g, s, k, l, f, restart
  <2>8. EntryTypes(d)
    BY <1>1, <2>2, <2>3, <2>4 DEF EntryTypes
  <2>9. WindowOk(p, d)
    <3>1. \A i \in 1..(Len(p) - d.failures) : p[i] <= d.windowStartedAt
      <4>1. Len(p) - d.failures = l + 1 - g
        <5>1. Len(p) = l + 1
          BY <2>1, <2>6
        <5>2. d.failures = g
          BY <2>2
        <5> QED BY <1>4, <2>3, <5>1, <5>2
      <4> QED BY <2>1, <2>2, <2>7, <4>1, Zenon
    <3>2. k > 0 => \A i \in 1..Len(p) : p[i] + LOGIN_LOCKOUT <= k
      <4> SUFFICES ASSUME k > 0, NEW i \in 1..Len(p) PROVE p[i] + LOGIN_LOCKOUT <= now + LOGIN_LOCKOUT
        BY <2>4
      <4>1. p[i] \in Nat /\ p[i] <= now
        BY <2>1, <2>6
      <4> QED BY <4>1, LoginAssumption
    <3> QED BY <2>2, <3>1, <3>2 DEF WindowOk
  <2>10. GuessesOk(p, d.failures, now)
    BY <2>1, <2>2, <2>6
  <2>11. /\ d.failures + d.pending <= LOGIN_FAILURE_LIMIT + 1
         /\ d.lockedUntil > 0 => d.pending = 1
         /\ d.lockedUntil > 0 <=> d.failures = LOGIN_FAILURE_LIMIT
    BY <2>2, <2>3, <2>4
  <2> QED BY <2>1, <2>2, <2>8, <2>9, <2>10, <2>11, ReleaseOk DEF n
<1>7. CASE result = "error"
  <2>1. Login!Settle(e, result) = Login!Released(e) /\ p = q
    BY <1>7, Zenon DEF Login!Settle
  <2>2. /\ e.failures + e.pending <= LOGIN_FAILURE_LIMIT + 1 /\ ~(e.lockedUntil > 0)
        /\ e.failures # LOGIN_FAILURE_LIMIT
    BY <1>1, <1>3, LoginAssumption
  <2> QED BY <1>2, <1>3, <2>1, <2>2, ReleaseOk
<1> QED BY <1>5, <1>6, <1>7


LEMMA BusyFinite == ASSUME NEW w PROVE IsFiniteSet(BusyWith(w))
BY LoginAssumption, FS_Subset DEF BusyWith

LEMMA AttemptKeepsLogin ==
  ASSUME LoginInv, NEW a \in Tries, NEW w \in Wallets, Login!Attempt(a, w)
  PROVE  LoginInv'
<1> DEFINE es == Login!EntryFor(w)
<1>1. /\ DOMAIN es = Wallets
      /\ \A u \in Wallets : WalletOk(es[u], wrong[u], BusyWith(u), now)
  BY EntryForOk
<1>2. /\ now' = now /\ wrong' = wrong /\ now \in Nat /\ trying[a] = "none"
      /\ trying \in [Tries -> Wallets \cup {"none"}] /\ DOMAIN wrong = Wallets
  BY DEF Login!Attempt, LoginInv
<1> HIDE DEF es
<1>3. CASE Login!Refused(es[w])
  <2>1. entries' = es /\ trying' = trying
    BY <1>3 DEF Login!Attempt, es
  <2>2. \A u \in Wallets : BusyWith(u)' = BusyWith(u)
    BY <2>1 DEF BusyWith
  <2>3. \A u \in Wallets : WalletOk(es[u], wrong[u], BusyWith(u)', now)
    BY <1>1, <2>2
  <2> QED BY <1>1, <1>2, <2>1, <2>3 DEF LoginInv
<1>4. CASE ~Login!Refused(es[w])
  <2> DEFINE r == [es[w] EXCEPT !.pending = @ + 1]
  <2>1. entries' = [es EXCEPT ![w] = r] /\ trying' = [trying EXCEPT ![a] = w]
    BY <1>4 DEF Login!Attempt, es
  <2>2. /\ BusyWith(w)' = BusyWith(w) \cup {a} /\ a \notin BusyWith(w)
        /\ \A u \in Wallets : u # w => BusyWith(u)' = BusyWith(u)
    BY <1>2, <2>1, LoginAssumption DEF BusyWith
  <2>3. /\ es[w] # Login!NoEntry
        /\ es[w].failures + es[w].pending < LOGIN_FAILURE_LIMIT
    <3>1. /\ es[w] # Login!NoEntry
          /\ ~(es[w].failures + es[w].pending >= LOGIN_FAILURE_LIMIT)
      BY <1>4 DEF Login!Refused
    <3>2. es[w].failures \in Int /\ es[w].pending \in Int
      BY <1>1 DEF WalletOk, EntryTypes
    <3> QED BY <3>1, <3>2, LoginAssumption
  <2>4. WalletOk(r, wrong[w], BusyWith(w) \cup {a}, now)
    BY <1>1, <1>2, <2>2, <2>3, ReserveOk, BusyFinite
  <2> HIDE DEF r
  <2>5. /\ DOMAIN entries' = Wallets /\ entries'[w] = r
        /\ \A u \in Wallets : u # w => entries'[u] = es[u]
    BY <1>1, <2>1
  <2>6. \A u \in Wallets : WalletOk(entries'[u], wrong[u], BusyWith(u)', now)
    <3> TAKE u \in Wallets
    <3>1. CASE u = w
      BY <2>2, <2>4, <2>5, <3>1
    <3>2. CASE u # w
      BY <1>1, <2>2, <2>5, <3>2
    <3> QED BY <3>1, <3>2
  <2>7. trying' \in [Tries -> Wallets \cup {"none"}]
    BY <1>2, <2>1
  <2> QED BY <1>2, <2>5, <2>6, <2>7 DEF LoginInv
<1> QED BY <1>3, <1>4

LEMMA AnswerKeepsLogin ==
  ASSUME LoginInv, NEW a \in Tries, NEW result \in {"success", "rejected", "error"},
         Login!Answer(a, result)
  PROVE  LoginInv'
<1>0. PICK w \in Wallets : trying[a] = w
  BY DEF Login!Answer, LoginInv
<1> DEFINE d == Login!Settle(entries[w], result)
           p == CASE result = "success" -> <<>>
                  [] result = "rejected" -> Append(wrong[w], now)
                  [] result = "error" -> wrong[w]
<1>1. /\ now' = now /\ now \in Nat
      /\ trying \in [Tries -> Wallets \cup {"none"}]
      /\ DOMAIN entries = Wallets /\ DOMAIN wrong = Wallets
      /\ \A u \in Wallets : WalletOk(entries[u], wrong[u], BusyWith(u), now)
  BY DEF Login!Answer, LoginInv
<1>2. entries' = [entries EXCEPT ![w] = d]
  BY <1>0 DEF Login!Answer
<1>3. wrong' = [wrong EXCEPT ![w] = p]
  BY <1>0, Zenon DEF Login!Answer
<1>4. trying' = [trying EXCEPT ![a] = "none"]
  BY DEF Login!Answer
<1>5. WalletOk(d, p, BusyWith(w) \ {a}, now)
  <2>1. a \in BusyWith(w) /\ IsFiniteSet(BusyWith(w)) /\ WalletOk(entries[w], wrong[w], BusyWith(w), now)
    BY <1>0, <1>1, BusyFinite DEF BusyWith
  <2> QED BY <1>1, <2>1, SettleOk
<1> HIDE DEF d, p
<1>6. /\ BusyWith(w)' = BusyWith(w) \ {a}
      /\ \A u \in Wallets : u # w => BusyWith(u)' = BusyWith(u)
  BY <1>0, <1>1, <1>4, LoginAssumption DEF BusyWith
<1>7. \A u \in Wallets : WalletOk(entries'[u], wrong'[u], BusyWith(u)', now)
  <2> TAKE u \in Wallets
  <2>1. CASE u = w
    <3>1. entries'[u] = d /\ wrong'[u] = p
      BY <1>1, <1>2, <1>3, <2>1
    <3> QED BY <1>5, <1>6, <2>1, <3>1
  <2>2. CASE u # w
    <3>1. entries'[u] = entries[u] /\ wrong'[u] = wrong[u]
      BY <1>1, <1>2, <1>3, <2>2
    <3> QED BY <1>1, <1>6, <2>2, <3>1
  <2> QED BY <2>1, <2>2
<1>8. /\ DOMAIN entries' = Wallets /\ DOMAIN wrong' = Wallets
      /\ trying' \in [Tries -> Wallets \cup {"none"}]
  BY <1>1, <1>2, <1>3, <1>4
<1> QED BY <1>1, <1>7, <1>8 DEF LoginInv

LEMMA TimeKeepsLogin ==
  ASSUME LoginInv, Login!TimePasses
  PROVE  LoginInv'
<1>1. /\ now' = now + 1 /\ now \in Nat /\ entries' = entries /\ wrong' = wrong /\ trying' = trying
  BY DEF Login!TimePasses, LoginInv
<1>2. ASSUME NEW q, NEW f \in Nat, GuessesOk(q, f, now) PROVE GuessesOk(q, f, now + 1)
  <2>1. \A i \in 1..Len(q) : q[i] \in Nat
    BY <1>2 DEF GuessesOk
  <2>2. ASSUME NEW i \in 1..Len(q) PROVE q[i] <= now + 1
    BY <1>1, <1>2, <2>1, <2>2 DEF GuessesOk
  <2>3. ASSUME NEW i \in 1..(Len(q) - f - (LOGIN_FAILURE_LIMIT - 1))
        PROVE  q[i] + LOGIN_FAILURE_WINDOW <= now + 1
    <3>1. q[i] + LOGIN_FAILURE_WINDOW <= now
      BY <1>2, <2>3 DEF GuessesOk
    <3>2. CASE i \in 1..Len(q)
      BY <1>1, <2>1, <3>1, <3>2, LoginAssumption
    <3>3. CASE i \notin 1..Len(q)
      BY <1>2, <3>3, LoginAssumption DEF GuessesOk
    <3> QED BY <3>2, <3>3
  <2> QED BY <1>2, <2>2, <2>3 DEF GuessesOk
<1>3. \A u \in Wallets : WalletOk(entries[u], wrong[u], BusyWith(u), now + 1)
  BY <1>2 DEF LoginInv, WalletOk, EntryTypes
<1>4. \A u \in Wallets : BusyWith(u)' = BusyWith(u)
  BY <1>1 DEF BusyWith
<1> QED BY <1>1, <1>3, <1>4 DEF LoginInv

LEMMA LoginStarts == ASSUME Login!LoginInit PROVE LoginInv
<1>1. /\ now = 0 /\ DOMAIN entries = Wallets /\ DOMAIN wrong = Wallets
      /\ trying = [a \in Tries |-> "none"]
      /\ \A w \in Wallets : entries[w] = Login!NoEntry /\ wrong[w] = <<>>
  BY DEF Login!LoginInit
<1>2. \A w \in Wallets : BusyWith(w) = {}
  BY <1>1, LoginAssumption DEF BusyWith
<1>3. GuessesOk(<<>>, 0, 0)
  BY NoRejections, LoginAssumption DEF GuessesOk
<1>4. WalletOk(Login!NoEntry, <<>>, {}, 0)
  BY <1>3, NoEntryOk DEF WalletOk
<1> QED BY <1>1, <1>2, <1>4 DEF LoginInv

\* The invariant bounds what the run checks.
LEMMA LoginBounds ==
  ASSUME LoginInv
  PROVE  Login!ReservationsHold /\ Login!GuessesBounded
<1>1. Login!ReservationsHold
  <2> SUFFICES ASSUME NEW w \in Wallets
               PROVE  LET e == entries[w]
                          busy == Cardinality(BusyWith(w))
                      IN  /\ busy > 0 => e.pending = busy
                          /\ e.failures + e.pending <= LOGIN_FAILURE_LIMIT
                          /\ e.lockedUntil > 0 => e.pending = 0 /\ e.failures = LOGIN_FAILURE_LIMIT
    BY SameCount DEF Login!ReservationsHold, BusyWith
  <2>1. WalletOk(entries[w], wrong[w], BusyWith(w), now)
    BY DEF LoginInv
  <2>2. CASE entries[w] = Login!NoEntry
    BY <2>1, <2>2, NoEntryOk, FS_EmptySet, LoginAssumption DEF WalletOk
  <2>3. CASE entries[w] # Login!NoEntry
    BY <2>1, <2>3 DEF WalletOk, EntryOk
  <2> QED BY <2>2, <2>3
<1>2. Login!GuessesBounded
  <2> SUFFICES ASSUME NEW w \in Wallets
               PROVE  Cardinality({i \in DOMAIN wrong[w] : wrong[w][i] + LOGIN_FAILURE_WINDOW > now})
                        <= 2 * LOGIN_FAILURE_LIMIT - 1
    BY SameCount DEF Login!GuessesBounded
  <2> DEFINE q == wrong[w]
             f == entries[w].failures
             R == {i \in DOMAIN q : q[i] + LOGIN_FAILURE_WINDOW > now}
             l == Len(q)
             m == l - 2 * LOGIN_FAILURE_LIMIT + 2
  <2>1. WalletOk(entries[w], q, BusyWith(w), now) /\ now \in Nat
    BY DEF LoginInv
  <2>2. f \in Nat /\ f <= LOGIN_FAILURE_LIMIT
    <3>1. CASE entries[w] = Login!NoEntry
      BY <3>1, NoEntryOk, LoginAssumption
    <3>2. CASE entries[w] # Login!NoEntry
      <4>1. Cardinality(BusyWith(w)) \in Nat
        BY BusyFinite, FS_CardinalityType
      <4> QED BY <2>1, <3>2, <4>1, LoginAssumption DEF WalletOk, EntryOk, EntryTypes
    <3> QED BY <3>1, <3>2
  <2>3. /\ l \in Nat /\ DOMAIN q = 1..l /\ \A i \in 1..l : q[i] \in Nat
        /\ \A i \in 1..(l - f - (LOGIN_FAILURE_LIMIT - 1)) : q[i] + LOGIN_FAILURE_WINDOW <= now
    BY <2>1 DEF WalletOk, GuessesOk
  <2> HIDE DEF q, f, l
  <2>4. m \in Int /\ m <= l /\ l - m + 1 = 2 * LOGIN_FAILURE_LIMIT - 1
    BY <2>3, LoginAssumption
  <2>5. R \subseteq m..l
    <3> SUFFICES ASSUME NEW i \in 1..l, q[i] + LOGIN_FAILURE_WINDOW > now, ~(i >= m)
                 PROVE  FALSE
      BY <2>3, <2>4
    <3>1. i \in 1..(l - f - (LOGIN_FAILURE_LIMIT - 1))
      BY <2>2, <2>3, <2>4, LoginAssumption
    <3> QED BY <2>1, <2>3, <3>1, LoginAssumption
  <2>6. IsFiniteSet(m..l) /\ Cardinality(m..l) = l - m + 1
    BY <2>3, <2>4, FS_Interval
  <2> HIDE DEF m
  <2>7. Cardinality(R) <= Cardinality(m..l)
    BY <2>5, <2>6, FS_Subset
  <2> QED BY <2>4, <2>6, <2>7 DEF q
<1> QED BY <1>1, <1>2

\* However attempts of a wallet overlap, its entry counts them, and within a
\* window no more than twice the limit less one of its guesses are wrong
\* (attempt, login-attempts.ts).
THEOREM GuessesAlwaysBounded == MCSpec => []GuessesBounded
<1> DEFINE I == part = "login" => LoginInv
<1>1. MCInit => I
  BY LoginStarts DEF MCInit, LoginInit
<1>2. I /\ [MCNext]_mcVars => I'
  <2> SUFFICES ASSUME I, [MCNext]_mcVars, part' = "login" PROVE LoginInv'
    OBVIOUS
  <2>1. part = "login" /\ LoginInv
    <3>1. part' = part
      BY DEF MCNext, mcVars
    <3> QED BY <3>1
  <2>2. CASE UNCHANGED loginVars
    <3>1. now' = now /\ entries' = entries /\ trying' = trying /\ wrong' = wrong
      BY <2>2 DEF loginVars
    <3>2. \A u \in Wallets : BusyWith(u)' = BusyWith(u)
      BY <3>1 DEF BusyWith
    <3> QED BY <2>1, <3>1, <3>2 DEF LoginInv
  <2>3. CASE LoginStep
    BY <2>1, <2>3, AttemptKeepsLogin, AnswerKeepsLogin, TimeKeepsLogin DEF LoginStep, Login!LoginNext
  <2>4. UNCHANGED loginVars \/ LoginStep
    BY <2>1 DEF MCNext, mcVars
  <2> QED BY <2>2, <2>3, <2>4
<1>3. I => GuessesBounded
  BY LoginBounds DEF GuessesBounded
<1> QED BY <1>1, <1>2, <1>3, PTL DEF MCSpec

-----------------------------------------------------------------------------
(* Invitations.  A record only ever leaves `pending', and a re-invitation   *)
(* that is issued has cancelled all the pending ones of its address, since *)
(* one that it may not cancel stops it.                                    *)

InvRecords ==
  [email : Invitees, token : Tokens, project : BOOLEAN, by : People \cup {Inv!NoOne},
   status : {"pending", "accepted", "cancelled", "expired"}, how : {"invite", "reinvite"}]

InvRequests ==
  [step : {"reinvite"}, by : People, arg : [email : Invitees, token : Tokens]] \cup
  [step : {"cancel", "transfer", "delete", "snapshot"}, by : People, arg : Nat \cup People \cup BOOLEAN]

\* The pending invitations before one that was issued again are of others.
Replaced(s) ==
  \A i, j \in 1..Len(s) :
    /\ i < j /\ s[j].how = "reinvite"
    /\ s[i].email = s[j].email /\ s[i].project = s[j].project
    => s[i].status # "pending"

\* The inductive invariant of the invitations.
InvitationsInv ==
  /\ invs \in Seq(InvRecords) /\ Replaced(invs)
  /\ DOMAIN invCall = Slots
  /\ \A c \in Slots : invCall[c].step = "reinvite" => invCall[c] \in InvRequests

\* z is s after some pending records have ended.
SomeEnded(s, z) ==
  /\ z \in Seq(InvRecords) /\ Len(z) = Len(s)
  /\ \A i \in 1..Len(s) :
       /\ z[i].email = s[i].email /\ z[i].project = s[i].project /\ z[i].how = s[i].how
       /\ z[i].status = s[i].status \/ (s[i].status = "pending" /\ z[i].status # "pending")

LEMMA EndingKeepsReplaced ==
  ASSUME NEW s \in Seq(InvRecords), NEW z, SomeEnded(s, z), Replaced(s)
  PROVE  Replaced(z)
BY DEF SomeEnded, Replaced

LEMMA EndingIs ==
  ASSUME NEW s \in Seq(InvRecords), NEW I, NEW st \in {"accepted", "cancelled", "expired"},
         \A i \in 1..Len(s) : i \in I => s[i].status = "pending", NEW z,
         z = [i \in DOMAIN s |-> IF i \in I THEN [s[i] EXCEPT !.status = st] ELSE s[i]]
  PROVE  SomeEnded(s, z) /\ \A i \in 1..Len(s) : i \in I => z[i].status = st
<1>1. DOMAIN s = 1..Len(s) /\ Len(s) \in Nat /\ \A i \in 1..Len(s) : s[i] \in InvRecords
  OBVIOUS
<1>2. ASSUME NEW i \in 1..Len(s)
      PROVE  /\ z[i] \in InvRecords
             /\ z[i].email = s[i].email /\ z[i].project = s[i].project /\ z[i].how = s[i].how
             /\ i \in I => z[i].status = st
             /\ i \notin I => z[i].status = s[i].status
  BY <1>1 DEF InvRecords
<1>3. z \in Seq(InvRecords) /\ Len(z) = Len(s)
  <2>1. z \in [1..Len(s) -> InvRecords]
    BY <1>1, <1>2
  <2> QED BY <1>1, <2>1
<1> QED BY <1>2, <1>3 DEF SomeEnded

\* An invitation is appended.
LEMMA IssuingKeepsReplaced ==
  ASSUME NEW s \in Seq(InvRecords), Replaced(s), NEW r \in InvRecords,
         r.how = "reinvite" =>
           \A i \in 1..Len(s) : s[i].email = r.email /\ s[i].project = r.project
                                => s[i].status # "pending"
  PROVE  Append(s, r) \in Seq(InvRecords) /\ Replaced(Append(s, r))
<1> DEFINE z == Append(s, r)
<1>1. /\ z \in Seq(InvRecords) /\ Len(z) = Len(s) + 1 /\ Len(s) \in Nat
      /\ \A i \in 1..Len(s) : z[i] = s[i]
      /\ z[Len(s) + 1] = r
  OBVIOUS
<1> HIDE DEF z
<1>2. Replaced(z)
  <2> SUFFICES ASSUME NEW i \in 1..Len(z), NEW j \in 1..Len(z), i < j, z[j].how = "reinvite",
                      z[i].email = z[j].email, z[i].project = z[j].project
               PROVE  z[i].status # "pending"
    BY DEF Replaced
  <2>1. i \in 1..Len(s)
    BY <1>1
  <2>2. CASE j = Len(s) + 1
    BY <1>1, <2>1, <2>2
  <2>3. CASE j # Len(s) + 1
    <3>1. j \in 1..Len(s)
      BY <1>1, <2>3
    <3> QED BY <1>1, <2>1, <3>1 DEF Replaced
  <2> QED BY <2>2, <2>3
<1> QED BY <1>1, <1>2 DEF z

\* What a step does to the invitations: nothing, it ends some, it may append
\* one, or it is a restart.
Progress(s, z) ==
  z = <<>> \/ \E e \in Seq(InvRecords) : SomeEnded(s, e) /\ (z = e \/ \E r \in InvRecords : z = Append(e, r))

LEMMA ProgressStays ==
  ASSUME NEW s \in Seq(InvRecords), NEW z, Progress(s, z)
  PROVE  \A i \in DOMAIN s \cap DOMAIN z : s[i].status # "pending" => z[i].status = s[i].status
<1>0. Len(s) \in Nat /\ DOMAIN s = 1..Len(s)
  OBVIOUS
<1>1. CASE z = <<>>
  BY <1>1
<1>2. ASSUME NEW e \in Seq(InvRecords), SomeEnded(s, e), z = e \/ \E r \in InvRecords : z = Append(e, r)
      PROVE  \A i \in DOMAIN s \cap DOMAIN z : s[i].status # "pending" => z[i].status = s[i].status
  <2>1. \A i \in 1..Len(e) : z[i] = e[i]
    BY <1>2
  <2> QED BY <1>0, <1>2, <2>1 DEF SomeEnded
<1> QED BY <1>1, <1>2 DEF Progress

LEMMA NoChangeEnds == ASSUME NEW s \in Seq(InvRecords) PROVE SomeEnded(s, s)
BY DEF SomeEnded


\* The steps that end invitations and leave the requests, or drop them.
LEMMA EndingStep ==
  ASSUME InvitationsInv, SomeEnded(invs, invs'),
         \/ invCall' = invCall
         \/ \E c \in Slots : invCall' = [invCall EXCEPT ![c] = Inv!NoRequest]
  PROVE  InvitationsInv' /\ Progress(invs, invs')
<1>1. Replaced(invs') /\ invs' \in Seq(InvRecords)
  BY EndingKeepsReplaced DEF InvitationsInv, SomeEnded
<1>2. Inv!NoRequest.step # "reinvite"
  BY DEF Inv!NoRequest
<1>3. /\ DOMAIN invCall' = Slots
      /\ \A c \in Slots : invCall'[c].step = "reinvite" => invCall'[c] \in InvRequests
  <2>1. CASE invCall' = invCall
    BY <2>1 DEF InvitationsInv
  <2>2. ASSUME NEW c \in Slots, invCall' = [invCall EXCEPT ![c] = Inv!NoRequest]
        PROVE  <1>3
    BY <1>2, <2>2 DEF InvitationsInv
  <2> QED BY <2>1, <2>2
<1>4. Progress(invs, invs')
  BY <1>1 DEF Progress
<1> QED BY <1>1, <1>3, <1>4 DEF InvitationsInv

LEMMA InviteKeeps ==
  ASSUME InvitationsInv, NEW e \in Invitees, NEW t \in Tokens,
         NEW w \in People \cup {Inv!NoOne}, Inv!Invite(e, t, w)
  PROVE  InvitationsInv' /\ Progress(invs, invs')
<1>1. PICK p \in BOOLEAN : invs' = Inv!Issued(invs, e, t, p, w, "invite")
  BY DEF Inv!Invite
<1> DEFINE r == [email |-> e, token |-> t, project |-> p, by |-> w,
                 status |-> "pending", how |-> "invite"]
<1>2. invs' = Append(invs, r) /\ invCall' = invCall
  BY <1>1 DEF Inv!Invite, Inv!Issued
<1>3. r \in InvRecords /\ r.how # "reinvite"
  BY DEF InvRecords
<1> HIDE DEF r
<1>4. invs' \in Seq(InvRecords) /\ Replaced(invs')
  BY <1>2, <1>3, IssuingKeepsReplaced DEF InvitationsInv
<1>5. Progress(invs, invs')
  BY <1>2, <1>3, NoChangeEnds DEF Progress, InvitationsInv
<1> QED BY <1>2, <1>4, <1>5 DEF InvitationsInv

LEMMA AcceptKeeps ==
  ASSUME InvitationsInv, NEW t \in Tokens, Inv!AcceptById(t) \/ Inv!AcceptByLink(t)
  PROVE  InvitationsInv' /\ Progress(invs, invs')
<1> DEFINE I == {i \in DOMAIN invs : i = tokenIndex[t] /\ invs[i].status = "pending"}
<1>1. invs' = Inv!Accepted(t) /\ invCall' = invCall
  BY DEF Inv!AcceptById, Inv!AcceptByLink
<1>2. invs' = [i \in DOMAIN invs |-> IF i \in I THEN [invs[i] EXCEPT !.status = "accepted"] ELSE invs[i]]
  BY <1>1 DEF Inv!Accepted
<1>3. \A i \in 1..Len(invs) : i \in I => invs[i].status = "pending"
  OBVIOUS
<1> HIDE DEF I
<1>4. SomeEnded(invs, invs')
  BY <1>2, <1>3, EndingIs DEF InvitationsInv
<1> QED BY <1>1, <1>4, EndingStep

LEMMA NoticeKeeps ==
  ASSUME InvitationsInv, NEW n \in DOMAIN invs, Inv!NoticeExpiry(n)
  PROVE  InvitationsInv' /\ Progress(invs, invs')
<1> DEFINE I == {i \in DOMAIN invs : i \in {n} /\ invs[i].status = "pending"}
<1>1. invs' = Inv!Expired(invs, {n}) /\ invCall' = invCall
  BY DEF Inv!NoticeExpiry
<1>2. invs' = [i \in DOMAIN invs |-> IF i \in I THEN [invs[i] EXCEPT !.status = "expired"] ELSE invs[i]]
  BY <1>1 DEF Inv!Expired
<1>3. \A i \in 1..Len(invs) : i \in I => invs[i].status = "pending"
  OBVIOUS
<1> HIDE DEF I
<1>4. SomeEnded(invs, invs')
  BY <1>2, <1>3, EndingIs DEF InvitationsInv
<1> QED BY <1>1, <1>4, EndingStep

LEMMA CancelledEnds ==
  ASSUME InvitationsInv, NEW I, \A i \in 1..Len(invs) : i \in I => invs[i].status = "pending"
  PROVE  /\ SomeEnded(invs, Inv!Cancelled(invs, I))
         /\ \A i \in 1..Len(invs) : i \in I => Inv!Cancelled(invs, I)[i].status = "cancelled"
BY EndingIs DEF Inv!Cancelled, InvitationsInv

LEMMA CancelKeeps ==
  ASSUME InvitationsInv, NEW n \in DOMAIN invs, NEW w \in People, Inv!CancelByInviter(n, w)
  PROVE  InvitationsInv' /\ Progress(invs, invs')
<1>1. invs' = Inv!Cancelled(invs, {n}) /\ invCall' = invCall /\ invs[n].status = "pending"
  BY DEF Inv!CancelByInviter
<1>2. SomeEnded(invs, invs')
  BY <1>1, CancelledEnds
<1> QED BY <1>1, <1>2, EndingStep

LEMMA DecidedKeeps ==
  ASSUME InvitationsInv, NEW c \in Slots, Inv!CancelDecided(c)
  PROVE  InvitationsInv' /\ Progress(invs, invs')
<1> DEFINE n == invCall[c].arg
<1>1. /\ invCall' = [invCall EXCEPT ![c] = Inv!NoRequest]
      /\ \/ invs' = Inv!Cancelled(invs, {n}) /\ invs[n].status = "pending"
         \/ invs' = invs
  BY DEF Inv!CancelDecided, Inv!Ends
<1>2. SomeEnded(invs, invs')
  BY <1>1, CancelledEnds, NoChangeEnds DEF InvitationsInv
<1> QED BY <1>1, <1>2, EndingStep

LEMMA ReinviteKeeps ==
  ASSUME InvitationsInv, NEW c \in Slots, Inv!ReinviteGranted(c)
  PROVE  InvitationsInv' /\ Progress(invs, invs')
<1>0. PICK w, e, t : w = invCall[c].by /\ e = invCall[c].arg.email /\ t = invCall[c].arg.token
  OBVIOUS
<1>1. w \in People /\ e \in Invitees /\ t \in Tokens
  BY <1>0 DEF Inv!ReinviteGranted, InvitationsInv, InvRequests
<1> DEFINE stops == Inv!Obstacles(e, TRUE, w)
           mine == {i \in Inv!Prior(e, TRUE) : invs[i].by = w /\ \A j \in stops : i < j}
           s == Inv!Cancelled(invs, mine)
           r == [email |-> e, token |-> t, project |-> TRUE, by |-> w,
                 status |-> "pending", how |-> "reinvite"]
<1>2. /\ invCall' = [invCall EXCEPT ![c] = Inv!NoRequest]
      /\ \/ invs' = invs
         \/ Inv!Reinvited(e, t, TRUE, w)
  BY <1>0 DEF Inv!ReinviteGranted, Inv!Ends
<1>3. invs' = invs \/ invs' = s \/ (stops = {} /\ invs' = Append(s, r))
  BY <1>2 DEF Inv!Reinvited, Inv!Issued
<1>4. \A i \in 1..Len(invs) : i \in mine => invs[i].status = "pending"
  BY DEF Inv!Prior
<1>5. SomeEnded(invs, s) /\ \A i \in 1..Len(invs) : i \in mine => s[i].status = "cancelled"
  <2> HIDE DEF mine
  <2> QED BY <1>4, CancelledEnds
<1>6. CASE invs' = invs
  BY <1>2, <1>6, EndingStep, NoChangeEnds DEF InvitationsInv
<1>7. CASE invs' = s
  BY <1>2, <1>5, <1>7, EndingStep
<1>8. CASE stops = {} /\ invs' = Append(s, r)
  <2>1. \A i \in 1..Len(invs) :
          invs[i].email = e /\ invs[i].project = TRUE /\ invs[i].status = "pending" => i \in mine
    <3>1. DOMAIN invs = 1..Len(invs)
      BY DEF InvitationsInv
    <3> QED BY <1>8, <3>1 DEF Inv!Prior, Inv!Obstacles
  <2>2. r \in InvRecords /\ r.email = e /\ r.project = TRUE
    BY <1>1 DEF InvRecords
  <2> HIDE DEF mine, s, r, stops
  <2>3. s \in Seq(InvRecords) /\ Replaced(s) /\ Len(s) = Len(invs)
    BY <1>5, EndingKeepsReplaced DEF SomeEnded, InvitationsInv
  <2>4. \A i \in 1..Len(s) : s[i].email = r.email /\ s[i].project = r.project => s[i].status # "pending"
    <3> SUFFICES ASSUME NEW i \in 1..Len(s), s[i].email = e, s[i].project = TRUE, s[i].status = "pending"
                 PROVE  FALSE
      BY <2>2
    <3>1. i \in 1..Len(invs) /\ invs[i].email = e /\ invs[i].project = TRUE /\ invs[i].status = "pending"
      BY <1>5, <2>3 DEF SomeEnded
    <3>2. s[i].status = "cancelled"
      BY <1>5, <2>1, <3>1
    <3> QED BY <3>2
  <2>5. invs' \in Seq(InvRecords) /\ Replaced(invs')
    BY <1>8, <2>2, <2>3, <2>4, IssuingKeepsReplaced
  <2>6. Progress(invs, invs')
    BY <1>5, <1>8, <2>2, <2>3 DEF Progress
  <2>7. /\ DOMAIN invCall' = Slots
        /\ \A d \in Slots : invCall'[d].step = "reinvite" => invCall'[d] \in InvRequests
    BY <1>2 DEF InvitationsInv, Inv!NoRequest
  <2> QED BY <2>5, <2>6, <2>7 DEF InvitationsInv
<1> QED BY <1>3, <1>6, <1>7, <1>8

LEMMA RequestKeeps ==
  ASSUME InvitationsInv, NEW c \in Slots, NEW w \in People,
         \/ \E x \in [email : Invitees, token : Tokens] : Inv!Request(c, "reinvite", w, x)
         \/ \E i \in DOMAIN invs : Inv!Request(c, "cancel", w, i)
         \/ \E n \in People : Inv!Request(c, "transfer", w, n)
         \/ \E b \in BOOLEAN : Inv!Request(c, "delete", w, b)
  PROVE  InvitationsInv' /\ invs' = invs
<1>1. ASSUME NEW op, NEW x, Inv!Request(c, op, w, x),
             op = "reinvite" => x \in [email : Invitees, token : Tokens]
      PROVE  InvitationsInv' /\ invs' = invs
  <2> DEFINE q == [step |-> op, by |-> w, arg |-> x]
  <2>1. invs' = invs /\ invCall' = [invCall EXCEPT ![c] = q]
    BY <1>1 DEF Inv!Request, Inv!registries
  <2>2. q.step = "reinvite" => q \in InvRequests
    BY <1>1 DEF InvRequests
  <2> HIDE DEF q
  <2> QED BY <2>1, <2>2 DEF InvitationsInv
<1> QED BY <1>1

LEMMA OthersKeep ==
  ASSUME InvitationsInv,
         \/ \E c \in Slots : \/ Inv!TransferDecided(c) \/ Inv!DeletionPermitted(c)
                             \/ Inv!DeletionDecided(c) \/ Inv!Unresolved(c)
         \/ Inv!RolesChange \/ Inv!MoneyMoves
  PROVE  InvitationsInv' /\ invs' = invs
<1>1. invs' = invs
  BY DEF Inv!TransferDecided, Inv!DeletionPermitted, Inv!DeletionDecided, Inv!Unresolved,
         Inv!RolesChange, Inv!MoneyMoves, Inv!registries
<1>2. \/ invCall' = invCall
      \/ \E c \in Slots : invCall' = [invCall EXCEPT ![c] = Inv!NoRequest]
      \/ \E c \in Slots : /\ invCall[c].step = "delete"
                          /\ invCall' = [invCall EXCEPT ![c] = [invCall[c] EXCEPT !.step = "snapshot"]]
  BY DEF Inv!TransferDecided, Inv!DeletionPermitted, Inv!DeletionDecided, Inv!Unresolved,
         Inv!RolesChange, Inv!MoneyMoves, Inv!registries, Inv!Ends
<1>3. CASE \/ invCall' = invCall
           \/ \E c \in Slots : invCall' = [invCall EXCEPT ![c] = Inv!NoRequest]
  BY <1>1, <1>3, EndingStep, NoChangeEnds DEF InvitationsInv
<1>4. ASSUME NEW c \in Slots, invCall[c].step = "delete",
             invCall' = [invCall EXCEPT ![c] = [invCall[c] EXCEPT !.step = "snapshot"]]
      PROVE  InvitationsInv'
  <2>1. [invCall[c] EXCEPT !.step = "snapshot"].step # "reinvite"
    BY <1>4
  <2> QED BY <1>1, <1>4, <2>1 DEF InvitationsInv
<1> QED BY <1>1, <1>2, <1>3, <1>4

LEMMA RestartKeeps ==
  ASSUME InvitationsInv, Inv!RestartServer
  PROVE  InvitationsInv' /\ Progress(invs, invs')
<1>1. invs' = <<>> /\ invCall' = [c \in Slots |-> Inv!NoRequest]
  BY DEF Inv!RestartServer
<1> QED BY <1>1 DEF InvitationsInv, Replaced, Progress, Inv!NoRequest

LEMMA InvitationsStep ==
  ASSUME InvitationsInv, Inv!InvNext
  PROVE  InvitationsInv' /\ Progress(invs, invs')
<1>1. InvitationsInv /\ invs' = invs => Progress(invs, invs')
  BY NoChangeEnds DEF Progress, InvitationsInv
<1> QED BY <1>1, InviteKeeps, AcceptKeeps, NoticeKeeps, CancelKeeps, DecidedKeeps, ReinviteKeeps,
           RequestKeeps, OthersKeep, RestartKeeps DEF Inv!InvNext

LEMMA InvitationsStart == ASSUME Inv!InvInit PROVE InvitationsInv
BY DEF Inv!InvInit, InvitationsInv, Replaced, Inv!NoRequest

\* The invariant says of the records what the run checks.
LEMMA InvitationsReplaced == ASSUME InvitationsInv PROVE Inv!ReinviteReplaces
<1>1. DOMAIN invs = 1..Len(invs)
  BY DEF InvitationsInv
<1> QED BY <1>1 DEF InvitationsInv, Replaced, Inv!ReinviteReplaces

LEMMA InvitationsAlways == MCSpec => [](part = "invitations" => InvitationsInv)
<1> DEFINE I == part = "invitations" => InvitationsInv
<1>1. MCInit => I
  BY InvitationsStart DEF MCInit, InvInit
<1>2. I /\ [MCNext]_mcVars => I'
  <2> SUFFICES ASSUME I, [MCNext]_mcVars, part' = "invitations" PROVE InvitationsInv'
    OBVIOUS
  <2>1. part = "invitations" /\ InvitationsInv
    <3>1. part' = part
      BY DEF MCNext, mcVars
    <3> QED BY <3>1
  <2>2. UNCHANGED invVars \/ InvStep
    BY <2>1 DEF MCNext, mcVars
  <2>3. CASE UNCHANGED invVars
    BY <2>1, <2>3 DEF invVars, InvitationsInv
  <2>4. CASE InvStep
    BY <2>1, <2>4, InvitationsStep DEF InvStep
  <2> QED BY <2>2, <2>3, <2>4
<1> QED BY <1>1, <1>2, PTL DEF MCSpec

\* An invitation that was issued again has ended all the earlier ones of its
\* address for the project, whoever sent them (reinvite).
THEOREM ReinviteAlwaysReplaces == MCSpec => []ReinviteReplaces
<1>1. (part = "invitations" => InvitationsInv) => ReinviteReplaces
  BY InvitationsReplaced DEF ReinviteReplaces
<1> QED BY <1>1, InvitationsAlways, PTL

-----------------------------------------------------------------------------
(* Accounts.  While no stale row was written back, the stored version of   *)
(* an account counts its revocations, and a credential that was issued     *)
(* carries the version of its time: a version that still matches means     *)
(* that nothing was revoked since.  What verifies an address is a link     *)
(* from its mailbox, and the objects that a save writes back were rows.    *)

RowFields == {"email", "verified", "deleted", "sv"}

\* A row whose verified address is in c.
RowOk(u, c) ==
  DOMAIN u = RowFields /\ u.verified \in BOOLEAN /\ (u.verified => u.email \in c)

\* The row of w, with v revocations.
UserOk(w, u, v, st, c) ==
  \/ u = Accts!NoUser /\ v = 0
  \/ RowOk(u, c) /\ (w \in st \/ u.sv = v)

UsersOk(us, rv, st, c) ==
  /\ DOMAIN us = Wallets /\ DOMAIN rv = Wallets
  /\ \A w \in Wallets : UserOk(w, us[w], rv[w], st, c)

\* A session or a link for a change of address.
CredentialOk(x, us, st) ==
  x.w \in Wallets /\ us[x.w] # Accts!NoUser /\ (x.w \in st \/ x.sv = x.epoch)

\* The links m, of n that were signed.
LinksOk(m, n, us, st) ==
  \A l \in m : /\ l.n \in 1..n
               /\ l.for = "change" => CredentialOk(l, us, st)
               /\ \A k \in m : k.n = l.n => k = l

\* What a request holds.
RequestOk(q, us, st, c, m, n) ==
  /\ q.op \in {"logout", "edit", "delete", "change"} => CredentialOk(q.session, us, st)
  /\ q.op = "save" => /\ q.w \in Wallets /\ us[q.w] # Accts!NoUser
                      /\ RowOk(q.row, c) /\ q.row.sv = q.read.sv
  /\ q.op = "mark" => q.email \in c
  /\ q.op = "apply" => q.link \in m /\ q.link.for = "change"
  /\ q.op = "insert" => q.w \in Wallets
  /\ q.op = "send" => q.n \in 1..n /\ \A l \in m : l.n # q.n

\* No two requests are about to send the same link.
SendsDiffer(rq) ==
  \A r, s \in Slots : rq[r].op = "send" /\ rq[s].op = "send" /\ rq[r].n = rq[s].n => r = s

\* The inductive invariant of the accounts.
AcctsInv ==
  /\ UsersOk(users, revoked, stale, confirmed)
  /\ \A s \in sessions : CredentialOk(s, users, stale)
  /\ linkCount \in 0..MaxLinks /\ DOMAIN uses = 1..MaxLinks
  /\ LinksOk(mail, linkCount, users, stale)
  /\ DOMAIN req = Slots
  /\ \A r \in Slots : RequestOk(req[r], users, stale, confirmed, mail, linkCount)
  /\ SendsDiffer(req)

\* Accounts stay, and so does what is known of them.
Grows ==
  /\ \A w \in Wallets : users[w] # Accts!NoUser => users'[w] # Accts!NoUser
  /\ stale \subseteq stale' /\ confirmed \subseteq confirmed'

LEMMA RowIsUser == ASSUME NEW u, NEW c, RowOk(u, c) PROVE u # Accts!NoUser
<1>1. DOMAIN Accts!NoUser = {"exists"}
  BY DEF Accts!NoUser
<1>2. "sv" \notin {"exists"}
  OBVIOUS
<1> QED BY <1>1, <1>2 DEF RowOk, RowFields

LEMMA CredentialsStay ==
  ASSUME Grows, NEW x, CredentialOk(x, users, stale)
  PROVE  CredentialOk(x, users', stale')
BY DEF Grows, CredentialOk

LEMMA RowsStay ==
  ASSUME Grows, NEW u, RowOk(u, confirmed)
  PROVE  RowOk(u, confirmed')
BY DEF Grows, RowOk

\* A request holds what it held when m and n become p and k.
LEMMA RequestsStay ==
  ASSUME Grows, NEW q, NEW m, NEW n \in Nat, NEW p, NEW k \in Nat,
         RequestOk(q, users, stale, confirmed, m, n), m \subseteq p, n <= k,
         q.op = "send" => \A l \in p : l.n # q.n
  PROVE  RequestOk(q, users', stale', confirmed', p, k)
<1>1. q.op \in {"logout", "edit", "delete", "change"} => CredentialOk(q.session, users', stale')
  BY CredentialsStay DEF RequestOk
<1>2. q.op = "save" => /\ q.w \in Wallets /\ users'[q.w] # Accts!NoUser
                       /\ RowOk(q.row, confirmed') /\ q.row.sv = q.read.sv
  BY RowsStay DEF RequestOk, Grows
<1>3. q.op = "mark" => q.email \in confirmed'
  BY DEF RequestOk, Grows
<1>4. q.op = "send" => q.n \in 1..k /\ \A l \in p : l.n # q.n
  BY DEF RequestOk
<1>5. q.op = "apply" => q.link \in p /\ q.link.for = "change"
  BY DEF RequestOk
<1>6. q.op = "insert" => q.w \in Wallets
  BY DEF RequestOk
<1> QED BY <1>1, <1>2, <1>3, <1>4, <1>5, <1>6 DEF RequestOk

\* The accounts when no row, revocation or staleness changes.
LEMMA UsersStay ==
  ASSUME UsersOk(users, revoked, stale, confirmed), users' = users, revoked' = revoked,
         stale' = stale, confirmed \subseteq confirmed'
  PROVE  UsersOk(users', revoked', stale', confirmed') /\ Grows
<1>1. Grows
  BY DEF Grows
<1>2. \A w \in Wallets : UserOk(w, users'[w], revoked'[w], stale', confirmed')
  BY <1>1, RowsStay DEF UsersOk, UserOk
<1> QED BY <1>1, <1>2 DEF UsersOk

\* A step of the request in slot r that signs and delivers no link.
LEMMA SlotStep ==
  ASSUME AcctsInv, NEW r \in Slots, NEW q, req' = [req EXCEPT ![r] = q],
         mail' = mail, linkCount' = linkCount, DOMAIN uses' = DOMAIN uses,
         Grows, UsersOk(users', revoked', stale', confirmed'),
         \A s \in sessions' : s \in sessions \/ CredentialOk(s, users', stale'),
         q.op # "send", RequestOk(q, users', stale', confirmed', mail, linkCount)
  PROVE  AcctsInv'
<1>1. /\ linkCount \in Nat /\ DOMAIN req = Slots /\ SendsDiffer(req)
      /\ \A s \in Slots : RequestOk(req[s], users, stale, confirmed, mail, linkCount)
      /\ \A s \in sessions : CredentialOk(s, users, stale)
      /\ LinksOk(mail, linkCount, users, stale)
      /\ linkCount \in 0..MaxLinks /\ DOMAIN uses = 1..MaxLinks
  BY AccountsAssumption DEF AcctsInv
<1>2. \A s \in sessions' : CredentialOk(s, users', stale')
  BY <1>1, CredentialsStay
<1>3. LinksOk(mail, linkCount, users', stale')
  BY <1>1, CredentialsStay DEF LinksOk
<1>4. \A s \in Slots : s # r => req'[s] = req[s]
  BY <1>1
<1>5. req'[r] = q /\ DOMAIN req' = Slots
  BY <1>1
<1>6. ASSUME NEW s \in Slots
      PROVE  RequestOk(req'[s], users', stale', confirmed', mail, linkCount)
  <2>1. CASE s = r
    BY <1>5, <2>1
  <2>2. CASE s # r
    <3>1. req[s].op = "send" => \A l \in mail : l.n # req[s].n
      BY <1>1 DEF RequestOk
    <3>2. RequestOk(req[s], users', stale', confirmed', mail, linkCount)
      BY <1>1, <3>1, RequestsStay
    <3> QED BY <1>4, <2>2, <3>2
  <2> QED BY <2>1, <2>2
<1>7. SendsDiffer(req')
  BY <1>1, <1>4, <1>5 DEF SendsDiffer
<1> QED BY <1>1, <1>2, <1>3, <1>5, <1>6, <1>7 DEF AcctsInv

\* The common kind: the request goes on or arrives, the accounts are left alone.
LEMMA QuietStep ==
  ASSUME AcctsInv, NEW r \in Slots, NEW q, req' = [req EXCEPT ![r] = q],
         users' = users, revoked' = revoked, stale' = stale, confirmed \subseteq confirmed',
         mail' = mail, linkCount' = linkCount, DOMAIN uses' = DOMAIN uses,
         \A s \in sessions' : s \in sessions \/ CredentialOk(s, users, stale),
         q.op # "send", RequestOk(q, users, stale, confirmed', mail, linkCount)
  PROVE  AcctsInv'
BY UsersStay, SlotStep DEF AcctsInv

LEMMA IdleOk ==
  ASSUME NEW us, NEW st, NEW c, NEW m, NEW n
  PROVE  Accts!Idle.op = "idle" /\ RequestOk(Accts!Idle, us, st, c, m, n)
BY DEF Accts!Idle, RequestOk


LEMMA ArrivalsKeep ==
  ASSUME AcctsInv, NEW r \in Slots,
         Accts!Register(r) \/ Accts!Authenticate(r) \/ Accts!RequestReset(r) \/ Accts!Resend(r)
  PROVE  AcctsInv'
<1> USE DEF Accts!tables, Accts!credentials, Accts!history, Accts!Arrives, Accts!Goes
<1>1. CASE Accts!Register(r)
  <2>1. PICK w \in Wallets, e \in Emails \cup {NoEmail} :
          req' = [req EXCEPT ![r] = [op |-> "insert", w |-> w, email |-> e]]
    BY <1>1 DEF Accts!Register
  <2> DEFINE q == [op |-> "insert", w |-> w, email |-> e]
  <2>2. q.op # "send" /\ RequestOk(q, users, stale, confirmed, mail, linkCount)
    BY DEF RequestOk
  <2>3. UNCHANGED <<users, revoked, stale, confirmed, mail, linkCount, uses, sessions>>
    BY <1>1 DEF Accts!Register
  <2> HIDE DEF q
  <2> QED BY <2>1, <2>2, <2>3, QuietStep DEF q
<1>2. CASE Accts!Authenticate(r)
  <2>1. PICK s \in sessions, op \in {"logout", "edit", "delete", "change"} :
          req' = [req EXCEPT ![r] = [op |-> op, session |-> s]]
    BY <1>2 DEF Accts!Authenticate
  <2> DEFINE q == [op |-> op, session |-> s]
  <2>2. q.op # "send" /\ RequestOk(q, users, stale, confirmed, mail, linkCount)
    BY DEF RequestOk, AcctsInv
  <2>3. UNCHANGED <<users, revoked, stale, confirmed, mail, linkCount, uses, sessions>>
    BY <1>2 DEF Accts!Authenticate
  <2> QED BY <2>1, <2>2, <2>3, QuietStep
<1>3. CASE Accts!RequestReset(r)
  <2>1. PICK e \in Emails : req' = [req EXCEPT ![r] = [op |-> "reset", email |-> e]]
    BY <1>3 DEF Accts!RequestReset
  <2> DEFINE q == [op |-> "reset", email |-> e]
  <2>2. q.op # "send" /\ RequestOk(q, users, stale, confirmed, mail, linkCount)
    BY DEF RequestOk
  <2>3. UNCHANGED <<users, revoked, stale, confirmed, mail, linkCount, uses, sessions>>
    BY <1>3 DEF Accts!RequestReset
  <2> QED BY <2>1, <2>2, <2>3, QuietStep
<1>4. CASE Accts!Resend(r)
  <2>1. PICK e \in Emails : \/ req' = [req EXCEPT ![r] = [op |-> "rotate", email |-> e]]
                            \/ req' = [req EXCEPT ![r] = Accts!Idle]
    BY <1>4 DEF Accts!Resend
  <2> DEFINE q == [op |-> "rotate", email |-> e]
  <2>2. q.op # "send" /\ RequestOk(q, users, stale, confirmed, mail, linkCount)
    BY DEF RequestOk
  <2>3. UNCHANGED <<users, revoked, stale, confirmed, mail, linkCount, uses, sessions>>
    BY <1>4 DEF Accts!Resend
  <2>4. PICK p : /\ req' = [req EXCEPT ![r] = p] /\ p.op # "send"
                 /\ RequestOk(p, users, stale, confirmed, mail, linkCount)
    BY <2>1, <2>2, IdleOk
  <2> QED BY <2>3, <2>4, QuietStep
<1> QED BY <1>1, <1>2, <1>3, <1>4

\* Steps that end the request and touch no account.
LEMMA EndingsKeep ==
  ASSUME AcctsInv, NEW r \in Slots, Accts!Fails(r) \/ Accts!SendFails(r)
  PROVE  AcctsInv'
<1>1. /\ req' = [req EXCEPT ![r] = Accts!Idle]
      /\ UNCHANGED <<users, revoked, stale, confirmed, mail, linkCount, uses, sessions>>
  BY DEF Accts!tables, Accts!credentials, Accts!history, Accts!Continues, Accts!Goes,
         Accts!Fails, Accts!SendFails
<1> QED BY <1>1, IdleOk, QuietStep

LEMMA LoginKeeps ==
  ASSUME AcctsInv, NEW r \in Slots, Accts!Login(r)
  PROVE  AcctsInv'
<1>1. PICK w \in Wallets : Accts!Active(w) /\ sessions' = sessions \cup {Accts!Session(w)}
  BY DEF Accts!Login
<1>2. /\ req' = [req EXCEPT ![r] = Accts!Idle]
      /\ UNCHANGED <<users, revoked, stale, confirmed, mail, linkCount, uses>>
  BY DEF Accts!Login, Accts!tables, Accts!history, Accts!Arrives, Accts!Goes
<1>3. CredentialOk(Accts!Session(w), users, stale)
  BY <1>1 DEF Accts!Active, Accts!Exists, Accts!Session, CredentialOk, AcctsInv, UsersOk, UserOk
<1> QED BY <1>1, <1>2, <1>3, IdleOk, QuietStep

LEMMA ConfirmKeeps ==
  ASSUME AcctsInv, NEW r \in Slots, Accts!ConfirmVerification(r)
  PROVE  AcctsInv'
<1>1. PICK l \in mail : /\ req' = [req EXCEPT ![r] = [op |-> "mark", email |-> l.email]]
                        /\ confirmed' = confirmed \cup {l.email}
                        /\ uses' = [uses EXCEPT ![l.n] = @ + 1]
  BY DEF Accts!ConfirmVerification, Accts!Links, Accts!Arrives, Accts!Goes, Accts!Used
<1>2. UNCHANGED <<users, revoked, stale, mail, linkCount, sessions>>
  BY DEF Accts!ConfirmVerification, Accts!credentials
<1> DEFINE q == [op |-> "mark", email |-> l.email]
<1>3. q.op # "send" /\ RequestOk(q, users, stale, confirmed', mail, linkCount)
  BY <1>1 DEF RequestOk
<1>4. DOMAIN uses' = DOMAIN uses /\ confirmed \subseteq confirmed'
  BY <1>1
<1> HIDE DEF q
<1> QED BY <1>1, <1>2, <1>3, <1>4, QuietStep DEF q

LEMMA CheckKeeps ==
  ASSUME AcctsInv, NEW r \in Slots, Accts!CheckChange(r)
  PROVE  AcctsInv'
<1>1. PICK l \in mail : l.for = "change" /\ req' = [req EXCEPT ![r] = [op |-> "apply", link |-> l]]
  BY DEF Accts!CheckChange, Accts!Links, Accts!Arrives, Accts!Goes
<1>2. UNCHANGED <<users, revoked, stale, confirmed, mail, linkCount, uses, sessions>>
  BY DEF Accts!CheckChange, Accts!tables, Accts!credentials, Accts!history
<1> DEFINE q == [op |-> "apply", link |-> l]
<1>3. q.op # "send" /\ RequestOk(q, users, stale, confirmed, mail, linkCount)
  BY <1>1 DEF RequestOk
<1> HIDE DEF q
<1> QED BY <1>1, <1>2, <1>3, QuietStep DEF q

LEMMA FindKeeps ==
  ASSUME AcctsInv, NEW r \in Slots, Accts!FindForSave(r)
  PROVE  AcctsInv'
<1>0. PICK w : w = req[r].session.w
  OBVIOUS
<1> DEFINE row == [users[w] EXCEPT !.deleted = req[r].op = "delete"]
           q == [op |-> "save", w |-> w, row |-> row, read |-> users[w]]
<1>1. /\ req[r].op \in {"edit", "delete"}
      /\ \/ Accts!Active(w) /\ req' = [req EXCEPT ![r] = q]
         \/ req' = [req EXCEPT ![r] = Accts!Idle]
  BY <1>0 DEF Accts!FindForSave, Accts!Goes
<1>2. UNCHANGED <<users, revoked, stale, confirmed, mail, linkCount, uses, sessions>>
  BY DEF Accts!FindForSave, Accts!tables, Accts!credentials, Accts!history
<1>3. w \in Wallets /\ users[w] # Accts!NoUser
  BY <1>0, <1>1 DEF AcctsInv, RequestOk, CredentialOk
<1>4. RowOk(users[w], confirmed)
  BY <1>3 DEF AcctsInv, UsersOk, UserOk
<1>5. RowOk(row, confirmed) /\ row.sv = users[w].sv
  BY <1>4 DEF RowOk, RowFields
<1> HIDE DEF row
<1>6. q.op # "send" /\ RequestOk(q, users, stale, confirmed, mail, linkCount)
  BY <1>3, <1>5 DEF RequestOk
<1> HIDE DEF q
<1>7. CASE req' = [req EXCEPT ![r] = q]
  BY <1>2, <1>6, <1>7, QuietStep
<1>8. CASE req' = [req EXCEPT ![r] = Accts!Idle]
  BY <1>2, <1>8, IdleOk, QuietStep
<1> QED BY <1>1, <1>7, <1>8


\* A row of w becomes u, its revocations v, the stale wallets st and the
\* confirmed addresses c.
LEMMA RowStep ==
  ASSUME AcctsInv, NEW w \in Wallets, NEW u, NEW v,
         users' = [users EXCEPT ![w] = u], revoked'[w] = v, DOMAIN revoked' = Wallets,
         \A x \in Wallets : x # w => revoked'[x] = revoked[x],
         stale \subseteq stale', confirmed \subseteq confirmed',
         RowOk(u, confirmed'), w \in stale' \/ u.sv = v
  PROVE  Grows /\ UsersOk(users', revoked', stale', confirmed')
<1>1. UsersOk(users, revoked, stale, confirmed)
  BY DEF AcctsInv
<1>2. /\ DOMAIN users' = Wallets /\ DOMAIN revoked' = Wallets
      /\ users'[w] = u /\ revoked'[w] = v
      /\ \A x \in Wallets : x # w => users'[x] = users[x] /\ revoked'[x] = revoked[x]
  BY <1>1 DEF UsersOk
<1>3. Grows
  BY <1>2, RowIsUser DEF Grows
<1>4. ASSUME NEW x \in Wallets PROVE UserOk(x, users'[x], revoked'[x], stale', confirmed')
  <2>1. CASE x = w
    BY <1>2, <2>1 DEF UserOk
  <2>2. CASE x # w
    <3>1. UserOk(x, users[x], revoked[x], stale, confirmed)
      BY <1>1 DEF UsersOk
    <3>2. UserOk(x, users[x], revoked[x], stale', confirmed')
      BY <1>3, <3>1, RowsStay DEF UserOk
    <3> QED BY <1>2, <2>2, <3>2
  <2> QED BY <2>1, <2>2
<1> QED BY <1>2, <1>3, <1>4 DEF UsersOk

\* The request ends, having changed accounts.
LEMMA EndStep ==
  ASSUME AcctsInv, NEW r \in Slots, req' = [req EXCEPT ![r] = Accts!Idle],
         UNCHANGED <<mail, linkCount, sessions>>, DOMAIN uses' = DOMAIN uses,
         Grows, UsersOk(users', revoked', stale', confirmed')
  PROVE  AcctsInv'
BY IdleOk, SlotStep

LEMMA InsertKeeps ==
  ASSUME AcctsInv, NEW r \in Slots, Accts!Insert(r)
  PROVE  AcctsInv'
<1>0. PICK w, e : w = req[r].w /\ e = req[r].email
  OBVIOUS
<1>1. /\ req' = [req EXCEPT ![r] = Accts!Idle] /\ req[r].op = "insert"
      /\ UNCHANGED <<revoked, stale, confirmed, mail, linkCount, uses, sessions>>
      /\ users' = users \/ (users[w] = Accts!NoUser /\ users' = [users EXCEPT ![w] = Accts!Fresh(e)])
  BY <1>0 DEF Accts!Insert, Accts!Continues, Accts!Goes, Accts!credentials, Accts!history, Accts!Exists
<1>2. w \in Wallets /\ UsersOk(users, revoked, stale, confirmed)
  BY <1>0, <1>1 DEF AcctsInv, RequestOk
<1>3. CASE users' = users
  BY <1>1, <1>2, <1>3, UsersStay, EndStep
<1>4. CASE users[w] = Accts!NoUser /\ users' = [users EXCEPT ![w] = Accts!Fresh(e)]
  <2>1. revoked[w] = 0
    BY <1>2, <1>4, RowIsUser DEF UsersOk, UserOk
  <2>2. RowOk(Accts!Fresh(e), confirmed) /\ Accts!Fresh(e).sv = 0
    BY DEF Accts!Fresh, RowOk, RowFields
  <2>3. revoked'[w] = 0 /\ DOMAIN revoked' = Wallets
    BY <1>1, <1>2, <2>1 DEF UsersOk
  <2>4. Grows /\ UsersOk(users', revoked', stale', confirmed')
    BY <1>1, <1>2, <1>4, <2>2, <2>3, RowStep
  <2> QED BY <1>1, <2>4, EndStep
<1> QED BY <1>1, <1>3, <1>4

LEMMA LogoutKeeps ==
  ASSUME AcctsInv, NEW r \in Slots, Accts!Logout(r)
  PROVE  AcctsInv'
<1>0. PICK w : w = req[r].session.w
  OBVIOUS
<1> DEFINE u == [users[w] EXCEPT !.sv = @ + 1]
<1>1. /\ req' = [req EXCEPT ![r] = Accts!Idle] /\ req[r].op = "logout"
      /\ UNCHANGED <<stale, confirmed, mail, linkCount, uses, sessions>>
      /\ \/ users' = users /\ revoked' = revoked
         \/ users' = [users EXCEPT ![w] = u] /\ revoked' = [revoked EXCEPT ![w] = revoked[w] + 1]
  BY <1>0 DEF Accts!Logout, Accts!Continues, Accts!Goes, Accts!credentials, Accts!Bump
<1>2. /\ w \in Wallets /\ users[w] # Accts!NoUser
      /\ UsersOk(users, revoked, stale, confirmed)
  BY <1>0, <1>1 DEF AcctsInv, RequestOk, CredentialOk
<1>3. CASE users' = users /\ revoked' = revoked
  BY <1>1, <1>2, <1>3, UsersStay, EndStep
<1>4. CASE users' = [users EXCEPT ![w] = u] /\ revoked' = [revoked EXCEPT ![w] = revoked[w] + 1]
  <2>1. RowOk(users[w], confirmed) /\ (w \in stale \/ users[w].sv = revoked[w])
    BY <1>2 DEF UsersOk, UserOk
  <2>2. RowOk(u, confirmed) /\ u.sv = users[w].sv + 1
    BY <2>1 DEF RowOk, RowFields
  <2> HIDE DEF u
  <2>3. w \in stale \/ u.sv = revoked[w] + 1
    BY <2>1, <2>2
  <2>4. /\ DOMAIN revoked' = Wallets /\ revoked'[w] = revoked[w] + 1
        /\ \A x \in Wallets : x # w => revoked'[x] = revoked[x]
    BY <1>2, <1>4 DEF UsersOk
  <2>5. Grows /\ UsersOk(users', revoked', stale', confirmed')
    BY <1>1, <1>2, <1>4, <2>2, <2>3, <2>4, RowStep
  <2> QED BY <1>1, <2>5, EndStep
<1> QED BY <1>1, <1>3, <1>4

LEMMA SaveKeeps ==
  ASSUME AcctsInv, NEW r \in Slots, Accts!Save(r)
  PROVE  AcctsInv'
<1>0. PICK w, u : w = req[r].w /\ u = req[r].row
  OBVIOUS
<1>1. /\ req' = [req EXCEPT ![r] = Accts!Idle] /\ req[r].op = "save"
      /\ UNCHANGED <<revoked, confirmed, mail, linkCount, uses, sessions>>
      /\ \/ users' = users /\ stale' = stale
         \/ /\ users' = [users EXCEPT ![w] = u]
            /\ stale' = IF users[w] = req[r].read THEN stale ELSE stale \cup {w}
  BY <1>0 DEF Accts!Save, Accts!Continues, Accts!Goes, Accts!credentials
<1>2. /\ w \in Wallets /\ users[w] # Accts!NoUser /\ RowOk(u, confirmed) /\ u.sv = req[r].read.sv
      /\ UsersOk(users, revoked, stale, confirmed)
  BY <1>0, <1>1 DEF AcctsInv, RequestOk
<1>3. CASE users' = users /\ stale' = stale
  BY <1>1, <1>2, <1>3, UsersStay, EndStep
<1>4. CASE /\ users' = [users EXCEPT ![w] = u]
           /\ stale' = IF users[w] = req[r].read THEN stale ELSE stale \cup {w}
  <2>1. w \in stale \/ users[w].sv = revoked[w]
    BY <1>2 DEF UsersOk, UserOk
  <2>2. stale \subseteq stale' /\ (w \in stale' \/ u.sv = revoked[w])
    BY <1>2, <1>4, <2>1
  <2>3. revoked'[w] = revoked[w] /\ DOMAIN revoked' = Wallets
    BY <1>1, <1>2 DEF UsersOk
  <2>4. Grows /\ UsersOk(users', revoked', stale', confirmed')
    BY <1>1, <1>2, <1>4, <2>2, <2>3, RowStep
  <2> QED BY <1>1, <2>4, EndStep
<1> QED BY <1>1, <1>3, <1>4

LEMMA ApplyKeeps ==
  ASSUME AcctsInv, NEW r \in Slots, Accts!ApplyChange(r)
  PROVE  AcctsInv'
<1>0. PICK w, e, n : w = req[r].link.w /\ e = req[r].link.email /\ n = req[r].link.n
  OBVIOUS
<1> DEFINE u == [users[w] EXCEPT !.email = e, !.verified = TRUE]
<1>1. /\ req' = [req EXCEPT ![r] = Accts!Idle] /\ req[r].op = "apply"
      /\ UNCHANGED <<revoked, stale, mail, linkCount, sessions>>
      /\ \/ users' = users /\ confirmed' = confirmed /\ uses' = uses
         \/ /\ users' = [users EXCEPT ![w].email = e, ![w].verified = TRUE]
            /\ confirmed' = confirmed \cup {e} /\ uses' = [uses EXCEPT ![n] = @ + 1]
  BY <1>0 DEF Accts!ApplyChange, Accts!Continues, Accts!Goes, Accts!credentials, Accts!Used
<1>2. /\ w \in Wallets /\ users[w] # Accts!NoUser
      /\ UsersOk(users, revoked, stale, confirmed)
  BY <1>0, <1>1 DEF AcctsInv, RequestOk, LinksOk, CredentialOk
<1>3. CASE users' = users /\ confirmed' = confirmed /\ uses' = uses
  BY <1>1, <1>2, <1>3, UsersStay, EndStep
<1>4. CASE /\ users' = [users EXCEPT ![w].email = e, ![w].verified = TRUE]
           /\ confirmed' = confirmed \cup {e} /\ uses' = [uses EXCEPT ![n] = @ + 1]
  <2>1. RowOk(users[w], confirmed) /\ (w \in stale \/ users[w].sv = revoked[w])
    BY <1>2 DEF UsersOk, UserOk
  <2>2. RowOk(u, confirmed') /\ u.sv = users[w].sv
    BY <1>4, <2>1 DEF RowOk, RowFields
  <2>3. users' = [users EXCEPT ![w] = u]
    BY <1>2, <1>4 DEF UsersOk
  <2> HIDE DEF u
  <2>4. revoked'[w] = revoked[w] /\ DOMAIN revoked' = Wallets
    BY <1>1, <1>2 DEF UsersOk
  <2>5. Grows /\ UsersOk(users', revoked', stale', confirmed')
    BY <1>1, <1>2, <1>4, <2>1, <2>2, <2>3, <2>4, RowStep
  <2> QED BY <1>1, <1>4, <2>5, EndStep
<1> QED BY <1>1, <1>3, <1>4

LEMMA ResetKeeps ==
  ASSUME AcctsInv, NEW r \in Slots, Accts!ConfirmReset(r)
  PROVE  AcctsInv'
<1>1. PICK l \in mail :
        /\ users' = [w \in Wallets |-> IF w \in Accts!Revocable(l)
                                       THEN [users[w] EXCEPT !.sv = @ + 1] ELSE users[w]]
        /\ revoked' = [w \in Wallets |-> IF w \in Accts!Revocable(l)
                                         THEN revoked[w] + 1 ELSE revoked[w]]
        /\ uses' = [uses EXCEPT ![l.n] = @ + 1]
  BY DEF Accts!ConfirmReset, Accts!Links, Accts!Used
<1>2. /\ req' = [req EXCEPT ![r] = Accts!Idle]
      /\ UNCHANGED <<stale, confirmed, mail, linkCount, sessions>>
  BY DEF Accts!ConfirmReset, Accts!Arrives, Accts!Goes, Accts!credentials
<1>3. \A w \in Accts!Revocable(l) : w \in Wallets /\ users[w] # Accts!NoUser
  BY DEF Accts!Revocable, Accts!Has, Accts!Exists
<1>4. UsersOk(users, revoked, stale, confirmed)
  BY DEF AcctsInv
<1>5. ASSUME NEW w \in Wallets
      PROVE  /\ UserOk(w, users'[w], revoked'[w], stale', confirmed')
             /\ users[w] # Accts!NoUser => users'[w] # Accts!NoUser
  <2>1. CASE w \notin Accts!Revocable(l)
    <3>1. users'[w] = users[w] /\ revoked'[w] = revoked[w]
      BY <1>1, <2>1
    <3> QED BY <1>2, <1>4, <3>1 DEF UsersOk
  <2>2. CASE w \in Accts!Revocable(l)
    <3> DEFINE u == [users[w] EXCEPT !.sv = @ + 1]
    <3>1. users'[w] = u /\ revoked'[w] = revoked[w] + 1
      BY <1>1, <2>2
    <3>2. RowOk(users[w], confirmed) /\ (w \in stale \/ users[w].sv = revoked[w])
      BY <1>3, <1>4, <2>2 DEF UsersOk, UserOk
    <3>3. RowOk(u, confirmed) /\ u.sv = users[w].sv + 1
      BY <3>2 DEF RowOk, RowFields
    <3> HIDE DEF u
    <3>4. UserOk(w, u, revoked[w] + 1, stale, confirmed) /\ u # Accts!NoUser
      BY <3>2, <3>3, RowIsUser DEF UserOk
    <3> QED BY <1>2, <3>1, <3>4
  <2> QED BY <2>1, <2>2
<1>6. Grows /\ UsersOk(users', revoked', stale', confirmed')
  BY <1>1, <1>2, <1>5 DEF Grows, UsersOk
<1> QED BY <1>1, <1>2, <1>6, EndStep

LEMMA MarkKeeps ==
  ASSUME AcctsInv, NEW r \in Slots, Accts!MarkVerified(r)
  PROVE  AcctsInv'
<1>0. PICK e : e = req[r].email
  OBVIOUS
<1>1. /\ req' = [req EXCEPT ![r] = Accts!Idle] /\ req[r].op = "mark"
      /\ UNCHANGED <<revoked, stale, confirmed, mail, linkCount, uses, sessions>>
      /\ users' = [w \in Wallets |-> IF Accts!Has(w, e) THEN [users[w] EXCEPT !.verified = TRUE]
                                     ELSE users[w]]
  BY <1>0 DEF Accts!MarkVerified, Accts!Marked, Accts!Continues, Accts!Goes, Accts!credentials, Accts!history
<1>2. e \in confirmed /\ UsersOk(users, revoked, stale, confirmed)
  BY <1>0, <1>1 DEF AcctsInv, RequestOk
<1>3. ASSUME NEW w \in Wallets
      PROVE  /\ UserOk(w, users'[w], revoked[w], stale, confirmed)
             /\ users[w] # Accts!NoUser => users'[w] # Accts!NoUser
  <2>1. CASE ~Accts!Has(w, e)
    BY <1>1, <1>2, <2>1 DEF UsersOk
  <2>2. CASE Accts!Has(w, e)
    <3> DEFINE u == [users[w] EXCEPT !.verified = TRUE]
    <3>1. users'[w] = u
      BY <1>1, <2>2
    <3>2. /\ RowOk(users[w], confirmed) /\ (w \in stale \/ users[w].sv = revoked[w])
          /\ users[w].email = e
      BY <1>2, <2>2 DEF UsersOk, UserOk, Accts!Has, Accts!Exists
    <3>3. RowOk(u, confirmed) /\ u.sv = users[w].sv
      BY <1>2, <3>2 DEF RowOk, RowFields
    <3> HIDE DEF u
    <3>4. UserOk(w, u, revoked[w], stale, confirmed) /\ u # Accts!NoUser
      BY <3>2, <3>3, RowIsUser DEF UserOk
    <3> QED BY <3>1, <3>4
  <2> QED BY <2>1, <2>2
<1>4. Grows /\ UsersOk(users', revoked', stale', confirmed')
  BY <1>1, <1>2, <1>3 DEF Grows, UsersOk
<1> QED BY <1>1, <1>4, EndStep


\* What slot r sends or holds is no other request's link.
NoClash(r, q, rq, new) ==
  \A s \in Slots : s # r /\ rq[s].op = "send" =>
    /\ \A x \in new : x.n # rq[s].n
    /\ q.op = "send" => q.n # rq[s].n

\* A step of slot r that delivers the link x, whose number no other has, or
\* only signs one; nothing else of the accounts changes.
LEMMA MailStep ==
  ASSUME AcctsInv, NEW r \in Slots, NEW q, req' = [req EXCEPT ![r] = q],
         UNCHANGED <<users, revoked, stale, confirmed, uses, sessions>>,
         mail \subseteq mail', linkCount' \in 0..MaxLinks, linkCount <= linkCount',
         LinksOk(mail', linkCount', users, stale),
         NoClash(r, q, req, mail' \ mail),
         RequestOk(q, users, stale, confirmed, mail', linkCount')
  PROVE  AcctsInv'
<1>1. /\ linkCount \in Nat /\ linkCount' \in Nat /\ DOMAIN req = Slots /\ SendsDiffer(req)
      /\ \A s \in Slots : RequestOk(req[s], users, stale, confirmed, mail, linkCount)
      /\ UsersOk(users, revoked, stale, confirmed)
  BY AccountsAssumption DEF AcctsInv
<1>2. Grows
  BY DEF Grows
<1>4. \A s \in Slots : s # r => req'[s] = req[s]
  BY <1>1
<1>5. req'[r] = q /\ DOMAIN req' = Slots
  BY <1>1
<1>6. ASSUME NEW s \in Slots
      PROVE  RequestOk(req'[s], users', stale', confirmed', mail', linkCount')
  <2>1. CASE s = r
    BY <1>5, <2>1
  <2>2. CASE s # r
    <3>1. req[s].op = "send" => \A l \in mail' : l.n # req[s].n
      BY <1>1, <2>2 DEF RequestOk, NoClash
    <3>2. RequestOk(req[s], users', stale', confirmed', mail', linkCount')
      BY <1>1, <1>2, <3>1, RequestsStay
    <3> QED BY <1>4, <2>2, <3>2
  <2> QED BY <2>1, <2>2
<1>7. SendsDiffer(req')
  BY <1>1, <1>4, <1>5 DEF SendsDiffer, NoClash
<1> QED BY <1>1, <1>5, <1>6, <1>7 DEF AcctsInv

\* A link is signed with the next number and delivered.
LEMMA MailsKeeps ==
  ASSUME AcctsInv, NEW r \in Slots, req' = [req EXCEPT ![r] = Accts!Idle], NEW x,
         UNCHANGED <<users, revoked, stale, confirmed, uses>>,
         x.n = linkCount + 1, x.for = "change" => CredentialOk(x, users, stale),
         Accts!Mails(x)
  PROVE  AcctsInv'
<1>1. /\ linkCount' = linkCount + 1 /\ linkCount < MaxLinks /\ mail' = mail \cup {x}
      /\ sessions' = sessions
  BY DEF Accts!Mails
<1>2. /\ linkCount \in Nat /\ linkCount' \in 0..MaxLinks /\ linkCount <= linkCount'
      /\ linkCount + 1 \in 1..linkCount' /\ \A n \in 1..linkCount : n \in 1..linkCount' /\ n # linkCount + 1
  BY <1>1, AccountsAssumption DEF AcctsInv
<1>3. LinksOk(mail, linkCount, users, stale)
  BY DEF AcctsInv
<1>4. LinksOk(mail \cup {x}, linkCount', users, stale)
  <2>1. \A l \in mail : l.n \in 1..linkCount' /\ l.n # x.n /\ (l.for = "change" => CredentialOk(l, users, stale))
    BY <1>2, <1>3 DEF LinksOk
  <2>2. x.n \in 1..linkCount'
    BY <1>2
  <2> QED BY <1>3, <2>1, <2>2 DEF LinksOk
<1>5. \A s \in Slots : req[s].op = "send" => x.n # req[s].n
  BY <1>2 DEF AcctsInv, RequestOk
<1>6. NoClash(r, Accts!Idle, req, mail' \ mail)
  BY <1>1, <1>5, IdleOk DEF NoClash
<1>7. RequestOk(Accts!Idle, users, stale, confirmed, mail', linkCount')
  BY IdleOk
<1>8. UNCHANGED <<users, revoked, stale, confirmed, uses, sessions>>
  BY <1>1
<1>9. LinksOk(mail', linkCount', users, stale) /\ mail \subseteq mail'
  BY <1>1, <1>4
<1> QED BY <1>2, <1>6, <1>7, <1>8, <1>9, MailStep

LEMMA ChangeKeeps ==
  ASSUME AcctsInv, NEW r \in Slots, Accts!RequestChange(r)
  PROVE  AcctsInv'
<1>0. PICK w : w = req[r].session.w
  OBVIOUS
<1>1. /\ req' = [req EXCEPT ![r] = Accts!Idle] /\ req[r].op = "change"
      /\ UNCHANGED <<users, revoked, stale, confirmed, uses>>
      /\ \/ \E e \in Emails : Accts!Mails([n |-> linkCount + 1, for |-> "change", email |-> e, w |-> w,
                    prev |-> users[w].email, sv |-> users[w].sv, epoch |-> revoked[w]])
         \/ UNCHANGED <<sessions, mail, linkCount>>
  BY <1>0 DEF Accts!RequestChange, Accts!Continues, Accts!Goes, Accts!tables, Accts!history,
              Accts!credentials
<1>2. CASE UNCHANGED <<sessions, mail, linkCount>>
  BY <1>1, <1>2, IdleOk, QuietStep
<1>3. ASSUME NEW e \in Emails,
             Accts!Mails([n |-> linkCount + 1, for |-> "change", email |-> e, w |-> w,
                    prev |-> users[w].email, sv |-> users[w].sv, epoch |-> revoked[w]])
      PROVE  AcctsInv'
  <2> DEFINE x == [n |-> linkCount + 1, for |-> "change", email |-> e, w |-> w,
                   prev |-> users[w].email, sv |-> users[w].sv, epoch |-> revoked[w]]
  <2>1. w \in Wallets /\ users[w] # Accts!NoUser
    BY <1>0, <1>1 DEF AcctsInv, RequestOk, CredentialOk
  <2>2. w \in stale \/ users[w].sv = revoked[w]
    BY <2>1 DEF AcctsInv, UsersOk, UserOk
  <2>3. x.n = linkCount + 1 /\ CredentialOk(x, users, stale)
    BY <2>1, <2>2 DEF CredentialOk
  <2>4. Accts!Mails(x)
    BY <1>3
  <2> HIDE DEF x
  <2> QED BY <1>1, <2>3, <2>4, MailsKeeps
<1> QED BY <1>1, <1>2, <1>3

LEMMA SendResetKeeps ==
  ASSUME AcctsInv, NEW r \in Slots, Accts!SendReset(r)
  PROVE  AcctsInv'
<1>0. PICK x : x = [n |-> linkCount + 1, for |-> "reset", email |-> req[r].email,
                    sv |-> Accts!MaxSessionVersion(req[r].email)]
  OBVIOUS
<1>1. /\ req' = [req EXCEPT ![r] = Accts!Idle]
      /\ UNCHANGED <<users, revoked, stale, confirmed, uses>>
      /\ Accts!Mails(x) \/ UNCHANGED <<sessions, mail, linkCount>>
  BY <1>0 DEF Accts!SendReset, Accts!Continues, Accts!Goes, Accts!tables, Accts!history,
              Accts!credentials
<1>2. CASE UNCHANGED <<sessions, mail, linkCount>>
  BY <1>1, <1>2, IdleOk, QuietStep
<1>3. CASE Accts!Mails(x)
  <2>1. x.n = linkCount + 1 /\ x.for # "change"
    BY <1>0
  <2> QED BY <1>1, <1>3, <2>1, MailsKeeps
<1> QED BY <1>1, <1>2, <1>3

LEMMA RotateKeeps ==
  ASSUME AcctsInv, NEW r \in Slots, Accts!Rotate(r)
  PROVE  AcctsInv'
<1>0. PICK q : q = [op |-> "send", email |-> req[r].email, n |-> linkCount + 1]
  OBVIOUS
<1>1. /\ req' = [req EXCEPT ![r] = q] /\ linkCount < MaxLinks /\ linkCount' = linkCount + 1
      /\ UNCHANGED <<users, revoked, stale, confirmed, uses, sessions, mail>>
  BY <1>0 DEF Accts!Rotate, Accts!Continues, Accts!Goes, Accts!history
<1>2. /\ linkCount \in Nat /\ linkCount' \in 0..MaxLinks /\ linkCount <= linkCount'
      /\ linkCount + 1 \in 1..linkCount' /\ \A n \in 1..linkCount : n \in 1..linkCount' /\ n # linkCount + 1
  BY <1>1, AccountsAssumption DEF AcctsInv
<1>3. LinksOk(mail, linkCount', users, stale) /\ \A l \in mail : l.n # linkCount + 1
  BY <1>2 DEF AcctsInv, LinksOk
<1>4. q.op = "send" /\ q.n = linkCount + 1
  BY <1>0
<1>5. \A s \in Slots : req[s].op = "send" => q.n # req[s].n
  BY <1>2, <1>4 DEF AcctsInv, RequestOk
<1>6. RequestOk(q, users, stale, confirmed, mail', linkCount')
  BY <1>1, <1>2, <1>3, <1>4 DEF RequestOk
<1>7. LinksOk(mail', linkCount', users, stale) /\ mail \subseteq mail'
  BY <1>1, <1>3
<1>8. NoClash(r, q, req, mail' \ mail)
  BY <1>1, <1>5 DEF NoClash
<1>9. UNCHANGED <<users, revoked, stale, confirmed, uses, sessions>>
  BY <1>1
<1> QED BY <1>1, <1>2, <1>6, <1>7, <1>8, <1>9, MailStep

LEMMA SendKeeps ==
  ASSUME AcctsInv, NEW r \in Slots, Accts!SendVerification(r)
  PROVE  AcctsInv'
<1>0. PICK x : x = [n |-> req[r].n, for |-> "verify", email |-> req[r].email]
  OBVIOUS
<1>1. /\ req' = [req EXCEPT ![r] = Accts!Idle] /\ req[r].op = "send"
      /\ mail' = mail \cup {x}
      /\ UNCHANGED <<users, revoked, stale, confirmed, uses, sessions, linkCount>>
  BY <1>0 DEF Accts!SendVerification, Accts!Continues, Accts!Goes, Accts!tables, Accts!history
<1>2. x.n = req[r].n /\ x.for # "change"
  BY <1>0
<1>3. x.n \in 1..linkCount /\ \A l \in mail : l.n # x.n
  BY <1>1, <1>2 DEF AcctsInv, RequestOk
<1>4. LinksOk(mail \cup {x}, linkCount, users, stale)
  BY <1>2, <1>3 DEF AcctsInv, LinksOk
<1>5. \A s \in Slots : s # r /\ req[s].op = "send" => x.n # req[s].n
  BY <1>1, <1>2 DEF AcctsInv, SendsDiffer
<1>6. linkCount' \in 0..MaxLinks /\ linkCount <= linkCount'
  BY <1>1, AccountsAssumption DEF AcctsInv
<1>7. NoClash(r, Accts!Idle, req, mail' \ mail)
  BY <1>1, <1>5, IdleOk DEF NoClash
<1>8. RequestOk(Accts!Idle, users, stale, confirmed, mail', linkCount')
  BY IdleOk
<1>9. UNCHANGED <<users, revoked, stale, confirmed, uses, sessions>>
  BY <1>1
<1>10. LinksOk(mail', linkCount', users, stale) /\ mail \subseteq mail'
  BY <1>1, <1>4
<1> QED BY <1>1, <1>6, <1>7, <1>8, <1>9, <1>10, MailStep

LEMMA AccountsStep ==
  ASSUME AcctsInv, Accts!Next
  PROVE  AcctsInv'
<1>1. ASSUME NEW r \in Slots,
             \/ Accts!Register(r) \/ Accts!Insert(r) \/ Accts!Login(r) \/ Accts!Authenticate(r)
             \/ Accts!Logout(r) \/ Accts!FindForSave(r) \/ Accts!Save(r)
      PROVE  AcctsInv'
  BY <1>1, ArrivalsKeep, InsertKeeps, LoginKeeps, LogoutKeeps, FindKeeps, SaveKeeps
<1>2. ASSUME NEW r \in Slots,
             \/ Accts!RequestChange(r) \/ Accts!CheckChange(r)
             \/ Accts!ApplyChange(r) \/ Accts!RequestReset(r) \/ Accts!SendReset(r)
             \/ Accts!ConfirmReset(r) \/ Accts!Resend(r) \/ Accts!Rotate(r)
      PROVE  AcctsInv'
  BY <1>2, ArrivalsKeep, ChangeKeeps, CheckKeeps, ApplyKeeps, SendResetKeeps, ResetKeeps, RotateKeeps
<1>3. ASSUME NEW r \in Slots,
             \/ Accts!SendVerification(r) \/ Accts!SendFails(r)
             \/ Accts!ConfirmVerification(r) \/ Accts!MarkVerified(r) \/ Accts!Fails(r)
      PROVE  AcctsInv'
  BY <1>3, SendKeeps, EndingsKeep, ConfirmKeeps, MarkKeeps
<1>4. ASSUME NEW e \in Emails, Accts!CooldownEnds(e)
      PROVE  AcctsInv'
  <2>1. UNCHANGED <<users, revoked, stale, confirmed, mail, linkCount, uses, sessions, req>>
    BY <1>4 DEF Accts!CooldownEnds, Accts!tables, Accts!credentials, Accts!history
  <2> QED BY <2>1 DEF AcctsInv
<1> QED BY <1>1, <1>2, <1>3, <1>4 DEF Accts!Next


\* Only the middleware lets a request with a session begin.
LEMMA OnlyAuthenticate ==
  ASSUME AcctsInv, Accts!Next, NEW r \in Slots, req[r] = Accts!Idle,
         req'[r].op \in {"logout", "edit", "delete", "change"}
  PROVE  \E s \in sessions : Accts!Accepts(s) /\ req'[r].session = s
<1>1. DOMAIN req = Slots /\ Accts!Idle.op = "idle"
  BY IdleOk DEF AcctsInv
<1>2. \A x \in Slots : \A q : req' = [req EXCEPT ![x] = q] => x = r /\ req'[r] = q
  BY <1>1
<1>3. \A x \in Slots : req' = [req EXCEPT ![x] = Accts!Idle] => FALSE
  BY <1>1, <1>2
<1>4. \A x \in Slots : \A q, op : Accts!Continues(x, op, q) /\ op # "idle" => FALSE
  BY <1>1, <1>2 DEF Accts!Continues, Accts!Goes
<1>5. \A x \in Slots : \A q : Accts!Arrives(x, q) => x = r /\ req'[r] = q
  BY <1>2 DEF Accts!Arrives, Accts!Goes
<1>6. ASSUME NEW x \in Slots, Accts!Authenticate(x)
      PROVE  \E s \in sessions : Accts!Accepts(s) /\ req'[r].session = s
  BY <1>5, <1>6 DEF Accts!Authenticate
<1>7. ASSUME NEW x \in Slots, Accts!Register(x) PROVE FALSE
  BY <1>5, <1>7 DEF Accts!Register
<1>8. ASSUME NEW x \in Slots, Accts!CheckChange(x) PROVE FALSE
  BY <1>5, <1>8 DEF Accts!CheckChange
<1>9. ASSUME NEW x \in Slots, Accts!RequestReset(x) PROVE FALSE
  BY <1>5, <1>9 DEF Accts!RequestReset
<1>10. ASSUME NEW x \in Slots, Accts!Resend(x) PROVE FALSE
  <2>1. PICK e : \/ Accts!Arrives(x, [op |-> "rotate", email |-> e])
                 \/ Accts!Arrives(x, Accts!Idle)
    BY <1>10 DEF Accts!Resend
  <2> QED BY <1>1, <1>5, <2>1
<1>11. ASSUME NEW x \in Slots, Accts!ConfirmVerification(x) PROVE FALSE
  BY <1>5, <1>11 DEF Accts!ConfirmVerification
<1>12. ASSUME NEW x \in Slots, Accts!Login(x) \/ Accts!ConfirmReset(x) PROVE FALSE
  BY <1>1, <1>5, <1>12 DEF Accts!Login, Accts!ConfirmReset
<1>13. ASSUME NEW x \in Slots, Accts!FindForSave(x) PROVE FALSE
  <2>1. req[x].op \in {"edit", "delete"} /\ \E q : req' = [req EXCEPT ![x] = q]
    BY <1>13 DEF Accts!FindForSave, Accts!Goes
  <2> QED BY <1>1, <1>2, <2>1
<1>14. ASSUME NEW x \in Slots, Accts!Fails(x) PROVE FALSE
  BY <1>3, <1>14 DEF Accts!Fails, Accts!Goes
<1>15. ASSUME NEW x \in Slots,
              \/ Accts!Insert(x) \/ Accts!Logout(x) \/ Accts!Save(x) \/ Accts!RequestChange(x)
              \/ Accts!ApplyChange(x) \/ Accts!SendReset(x) \/ Accts!Rotate(x)
              \/ Accts!SendVerification(x) \/ Accts!SendFails(x) \/ Accts!MarkVerified(x)
       PROVE  FALSE
  BY <1>4, <1>15 DEF Accts!Insert, Accts!Logout, Accts!Save, Accts!RequestChange,
       Accts!ApplyChange, Accts!SendReset, Accts!Rotate, Accts!SendVerification,
       Accts!SendFails, Accts!MarkVerified
<1>16. ASSUME NEW e \in Emails, Accts!CooldownEnds(e) PROVE FALSE
  BY <1>1, <1>16 DEF Accts!CooldownEnds
<1> QED BY <1>6, <1>7, <1>8, <1>9, <1>10, <1>11, <1>12, <1>13, <1>14, <1>15, <1>16
        DEF Accts!Next

\* A link whose use is counted took effect in this step.
LEMMA OnlyUses ==
  ASSUME AcctsInv, Accts!Next, NEW n \in 1..MaxLinks, uses'[n] # uses[n]
  PROVE  \/ \E r \in Slots : /\ req[r].op = "apply" /\ req[r].link.n = n
                             /\ Accts!ChangeMatches(req[r].link)
         \/ \E l \in mail : l.n = n /\ l.for # "change"
<1>1. DOMAIN uses = 1..MaxLinks
  BY DEF AcctsInv
<1>2. \A k : uses' = [uses EXCEPT ![k] = @ + 1] => k = n
  BY <1>1
<1>3. uses' # uses
  OBVIOUS
<1>4. ASSUME NEW r \in Slots, Accts!ApplyChange(r)
      PROVE  req[r].op = "apply" /\ req[r].link.n = n /\ Accts!ChangeMatches(req[r].link)
  BY <1>2, <1>3, <1>4 DEF Accts!ApplyChange, Accts!Used, Accts!Continues
<1>5. ASSUME NEW r \in Slots, Accts!ConfirmReset(r)
      PROVE  \E l \in mail : l.n = n /\ l.for # "change"
  BY <1>2, <1>5 DEF Accts!ConfirmReset, Accts!Used, Accts!Links
<1>6. ASSUME NEW r \in Slots, Accts!ConfirmVerification(r)
      PROVE  \E l \in mail : l.n = n /\ l.for # "change"
  BY <1>2, <1>6 DEF Accts!ConfirmVerification, Accts!Used, Accts!Links
<1>7. ASSUME NEW r \in Slots,
             \/ Accts!Register(r) \/ Accts!Insert(r) \/ Accts!Login(r) \/ Accts!Authenticate(r)
             \/ Accts!Logout(r) \/ Accts!FindForSave(r) \/ Accts!Save(r)
             \/ Accts!RequestChange(r) \/ Accts!CheckChange(r) \/ Accts!RequestReset(r)
      PROVE  FALSE
  BY <1>3, <1>7 DEF Accts!Register, Accts!Insert, Accts!Login, Accts!Authenticate, Accts!Logout,
       Accts!FindForSave, Accts!Save, Accts!RequestChange, Accts!CheckChange, Accts!RequestReset,
       Accts!history
<1>8. ASSUME NEW r \in Slots,
             \/ Accts!SendReset(r) \/ Accts!Resend(r) \/ Accts!Rotate(r)
             \/ Accts!SendVerification(r) \/ Accts!SendFails(r) \/ Accts!MarkVerified(r)
             \/ Accts!Fails(r)
      PROVE  FALSE
  BY <1>3, <1>8 DEF Accts!SendReset, Accts!Resend, Accts!Rotate, Accts!SendVerification,
       Accts!SendFails, Accts!MarkVerified, Accts!Fails, Accts!history
<1>9. ASSUME NEW e \in Emails, Accts!CooldownEnds(e) PROVE FALSE
  BY <1>3, <1>9 DEF Accts!CooldownEnds, Accts!history
<1> QED BY <1>4, <1>5, <1>6, <1>7, <1>8, <1>9 DEF Accts!Next

LEMMA StepRespects ==
  ASSUME AcctsInv, Accts!Next
  PROVE  Accts!RevocationRespected
<1> SUFFICES ASSUME NEW r \in Slots
             PROVE  /\ req[r] = Accts!Idle /\ req'[r].op \in {"logout", "edit", "delete", "change"}
                         => LET s == req'[r].session
                            IN s.epoch = revoked[s.w] \/ s.w \in stale
                    /\ req[r].op = "apply" /\ uses'[req[r].link.n] # uses[req[r].link.n]
                         => LET l == req[r].link
                            IN l.epoch = revoked[l.w] \/ l.w \in stale
  BY DEF Accts!RevocationRespected
<1>0. \A x : CredentialOk(x, users, stale) /\ users[x.w].sv = x.sv
             => x.epoch = revoked[x.w] \/ x.w \in stale
  BY DEF CredentialOk, AcctsInv, UsersOk, UserOk
<1>1. ASSUME req[r] = Accts!Idle, req'[r].op \in {"logout", "edit", "delete", "change"}
      PROVE  req'[r].session.epoch = revoked[req'[r].session.w] \/ req'[r].session.w \in stale
  <2>1. PICK s \in sessions : Accts!Accepts(s) /\ req'[r].session = s
    BY <1>1, OnlyAuthenticate
  <2>2. CredentialOk(s, users, stale) /\ users[s.w].sv = s.sv
    BY <2>1 DEF AcctsInv, Accts!Accepts
  <2> QED BY <1>0, <2>1, <2>2
<1>2. ASSUME req[r].op = "apply", uses'[req[r].link.n] # uses[req[r].link.n]
      PROVE  req[r].link.epoch = revoked[req[r].link.w] \/ req[r].link.w \in stale
  <2>1. PICK l \in mail : l = req[r].link /\ l.for = "change"
    BY <1>2 DEF AcctsInv, RequestOk
  <2>2. CredentialOk(l, users, stale) /\ l.n \in 1..MaxLinks
    BY <2>1, AccountsAssumption DEF AcctsInv, LinksOk
  <2>3. \A k \in mail : k.n = l.n => k = l
    BY DEF AcctsInv, LinksOk
  <2>4. uses'[l.n] # uses[l.n]
    BY <1>2, <2>1
  <2>5. PICK x \in Slots : /\ req[x].op = "apply" /\ req[x].link.n = l.n
                           /\ Accts!ChangeMatches(req[x].link)
    BY <2>1, <2>2, <2>3, <2>4, OnlyUses
  <2>6. req[x].link = l
    BY <2>3, <2>5 DEF AcctsInv, RequestOk
  <2>7. users[l.w].sv = l.sv
    BY <2>5, <2>6 DEF Accts!ChangeMatches
  <2> QED BY <1>0, <2>1, <2>2, <2>7
<1> QED BY <1>1, <1>2

LEMMA AccountsStart == ASSUME Accts!Init PROVE AcctsInv
<1>1. /\ revoked = [w \in Wallets |-> 0] /\ stale = {} /\ confirmed = {} /\ mail = {}
      /\ linkCount = 0 /\ uses = [n \in 1..MaxLinks |-> 0] /\ req = [r \in Slots |-> Accts!Idle]
      /\ users = [w \in Wallets |->
           IF w \in DOMAIN Registered THEN Accts!Fresh(Registered[w]) ELSE Accts!NoUser]
      /\ sessions = {[w |-> w, sv |-> 0, epoch |-> 0] : w \in DOMAIN Registered}
  BY DEF Accts!Init
<1>2. \A e : RowOk(Accts!Fresh(e), {}) /\ Accts!Fresh(e).sv = 0
  BY DEF Accts!Fresh, RowOk, RowFields
<1>3. \A w \in Wallets : UserOk(w, users[w], revoked[w], stale, confirmed)
  BY <1>1, <1>2 DEF UserOk
<1>4. \A w \in DOMAIN Registered : w \in Wallets /\ users[w] # Accts!NoUser
  BY <1>1, <1>2, RowIsUser, AccountsAssumption
<1>5. \A s \in sessions : CredentialOk(s, users, stale)
  BY <1>1, <1>4 DEF CredentialOk
<1>6. LinksOk(mail, linkCount, users, stale) /\ linkCount \in 0..MaxLinks
  BY <1>1, AccountsAssumption DEF LinksOk
<1>7. SendsDiffer(req) /\ \A r \in Slots : RequestOk(req[r], users, stale, confirmed, mail, linkCount)
  BY <1>1, IdleOk DEF SendsDiffer
<1> QED BY <1>1, <1>3, <1>5, <1>6, <1>7 DEF AcctsInv, UsersOk

LEMMA AccountsAlways == MCSpec => [](part = "accounts" => AcctsInv)
<1> DEFINE I == part = "accounts" => AcctsInv
<1>1. MCInit => I
  BY AccountsStart DEF MCInit, AcctsInit
<1>2. I /\ [MCNext]_mcVars => I'
  <2> SUFFICES ASSUME I, [MCNext]_mcVars, part' = "accounts" PROVE AcctsInv'
    OBVIOUS
  <2>1. part = "accounts" /\ AcctsInv
    <3>1. part' = part
      BY DEF MCNext, mcVars
    <3> QED BY <3>1
  <2>2. UNCHANGED acctVars \/ AcctsStep
    BY <2>1 DEF MCNext, mcVars
  <2>3. CASE UNCHANGED acctVars
    BY <2>1, <2>3 DEF acctVars, AcctsInv
  <2>4. CASE AcctsStep
    BY <2>1, <2>4, AccountsStep DEF AcctsStep
  <2> QED BY <2>2, <2>3, <2>4
<1> QED BY <1>1, <1>2, PTL DEF MCSpec

\* However changes of address, resends, stale saves and confirmations overlap,
\* an account is verified only for an address whose owner followed a link
\* mailed there (auth-email.ts, auth-account.ts).
THEOREM VerifiedAlwaysOwnsAddress == MCSpec => []VerifiedOwnsAddress
<1>1. AcctsInv => Accts!VerifiedOwnsAddress
  BY DEF AcctsInv, UsersOk, UserOk, RowOk, Accts!VerifiedOwnsAddress, Accts!Exists
<1>2. (part = "accounts" => AcctsInv) => VerifiedOwnsAddress
  BY <1>1 DEF VerifiedOwnsAddress
<1> QED BY <1>2, AccountsAlways, PTL

\* What has ended does not come back: neither an invitation that was cancelled,
\* accepted or has expired, nor a session or a link that a revocation ended
\* (invitation-registry.ts, session-revocation.ts).
THEOREM EndedAlwaysStaysEnded == MCSpec => EndedStaysEnded
<1> DEFINE A == part = "accounts" => AcctsInv
           B == part = "invitations" => InvitationsInv
           E == /\ part = "invitations" => Inv!EndedStay
                /\ part = "accounts" => Accts!RevocationRespected
<1>1. A /\ B /\ [MCNext]_mcVars => [E]_<<invVars, acctVars>>
  <2> SUFFICES ASSUME A, B, [MCNext]_mcVars, ~UNCHANGED <<invVars, acctVars>> PROVE E
    OBVIOUS
  <2>1. CASE part = "invitations"
    <3>1. InvStep
      BY <2>1 DEF MCNext, mcVars, AcctsStep
    <3>2. Progress(invs, invs') /\ invs \in Seq(InvRecords)
      BY <2>1, <3>1, InvitationsStep DEF InvStep, InvitationsInv
    <3>3. Inv!EndedStay
      BY <3>2, ProgressStays DEF Inv!EndedStay
    <3> QED BY <2>1, <3>3
  <2>2. CASE part = "accounts"
    <3>1. AcctsStep
      BY <2>2 DEF MCNext, mcVars, InvStep
    <3>2. Accts!RevocationRespected
      BY <2>2, <3>1, StepRespects DEF AcctsStep
    <3> QED BY <2>2, <3>2
  <2>3. CASE part # "invitations" /\ part # "accounts"
    BY <2>3
  <2> QED BY <2>1, <2>2, <2>3
<1>2. MCSpec => []A
  BY AccountsAlways
<1>3. MCSpec => []B
  BY InvitationsAlways
<1> QED BY <1>1, <1>2, <1>3, PTL DEF MCSpec, EndedStaysEnded

-----------------------------------------------------------------------------
(* Records of a split.  The loop over payment records keeps the best of    *)
(* those it has seen; a published draft was whole and is not written any   *)
(* more; the one cancellation that was reported is the row in the table.   *)

Payments == [to : Participants, status : {"completed", "pending", "failed"}, at : Nat]
Shown == [status : {"paid", "pending", "failed", "unpaid"}, at : Int]

LEMMA PrecedenceIs ==
  /\ Recs!Precedence["paid"] = 3 /\ Recs!Precedence["pending"] = 2
  /\ Recs!Precedence["failed"] = 1 /\ Recs!Precedence["unpaid"] = 0
BY DEF Recs!Precedence

LEMMA StatusOfIs ==
  ASSUME NEW p \in Payments
  PROVE  /\ Recs!StatusOf(p) \in {"paid", "pending", "failed"}
         /\ Recs!StatusOf(p) = "paid" <=> p.status = "completed"
BY DEF Payments, Recs!StatusOf

\* b is the best of the records of x among the first n.
BestOf(b, n, x) ==
  /\ \A i \in 1..n : payments[i].to = x =>
       /\ Recs!Precedence[Recs!StatusOf(payments[i])] <= Recs!Precedence[b.status]
       /\ Recs!Precedence[Recs!StatusOf(payments[i])] = Recs!Precedence[b.status]
            => payments[i].at <= b.at
  /\ \/ b.status = "unpaid"
     \/ \E i \in 1..n : /\ payments[i].to = x /\ b.status = Recs!StatusOf(payments[i])
                        /\ b.at = payments[i].at

LEMMA BetterIs ==
  ASSUME NEW p \in Payments, NEW b \in Shown
  PROVE  /\ Recs!Better(p, b) \in Shown
         /\ \/ /\ Recs!Better(p, b).status = Recs!StatusOf(p) /\ Recs!Better(p, b).at = p.at
               /\ \/ Recs!Precedence[Recs!StatusOf(p)] > Recs!Precedence[b.status]
                  \/ Recs!StatusOf(p) = b.status /\ p.at > b.at
            \/ /\ Recs!Better(p, b) = b
               /\ \/ Recs!Precedence[Recs!StatusOf(p)] < Recs!Precedence[b.status]
                  \/ Recs!StatusOf(p) = b.status /\ p.at <= b.at
<1> DEFINE c == Recs!StatusOf(p)
           d == b.status
           new == [status |-> c, at |-> p.at]
<1>1. c \in {"paid", "pending", "failed"} /\ p.at \in Nat /\ b.at \in Int
      /\ d \in {"paid", "pending", "failed", "unpaid"}
  BY StatusOfIs DEF Payments, Shown
<1>2. Recs!Better(p, b) =
        IF \/ Recs!Precedence[c] > Recs!Precedence[d]
           \/ Recs!Precedence[c] = Recs!Precedence[d] /\ p.at > b.at
        THEN new ELSE b
  BY DEF Recs!Better
<1>3. new \in Shown /\ new.status = c /\ new.at = p.at
  BY <1>1 DEF Shown
<1>4. /\ Recs!Precedence[c] \in Nat /\ Recs!Precedence[d] \in Nat
      /\ Recs!Precedence[c] = Recs!Precedence[d] <=> c = d
  <2> HIDE DEF c, d
  <2> QED BY <1>1, PrecedenceIs
<1> HIDE DEF c, d, new
<1>5. CASE \/ Recs!Precedence[c] > Recs!Precedence[d]
           \/ Recs!Precedence[c] = Recs!Precedence[d] /\ p.at > b.at
  BY <1>2, <1>3, <1>4, <1>5 DEF c, d
<1>6. CASE ~(\/ Recs!Precedence[c] > Recs!Precedence[d]
             \/ Recs!Precedence[c] = Recs!Precedence[d] /\ p.at > b.at)
  <2>1. Recs!Better(p, b) = b
    BY <1>2, <1>6
  <2>2. Recs!Precedence[c] < Recs!Precedence[d] \/ (c = d /\ p.at <= b.at)
    BY <1>1, <1>4, <1>6
  <2> QED BY <2>1, <2>2 DEF c, d
<1> QED BY <1>5, <1>6

\* The loop is defined: it yields a status for every number of records.
LEMMA LoopIs ==
  ASSUME payments \in Seq(Payments), NEW x
  PROVE  /\ Recs!Loop(x) \in [0..Len(payments) -> Shown]
         /\ Recs!Loop(x)[0] = [status |-> "unpaid", at |-> -1]
         /\ \A n \in 1..Len(payments) : Recs!Loop(x)[n] =
              IF payments[n].to = x THEN Recs!Better(payments[n], Recs!Loop(x)[n - 1])
              ELSE Recs!Loop(x)[n - 1]
<1> DEFINE none == [status |-> "unpaid", at |-> -1]
           Turn(n, b) == IF payments[n].to = x THEN Recs!Better(payments[n], b) ELSE b
           l == Len(payments)
           Ok(g, n) == /\ g \in [0..n -> Shown] /\ g[0] = none
                       /\ \A i \in 1..n : g[i] = Turn(i, g[i - 1])
           S == {n \in Nat : n <= l => \E g : Ok(g, n)}
<1>0. none \in Shown /\ l \in Nat /\ \A n \in 1..l, b \in Shown : Turn(n, b) \in Shown
  BY BetterIs DEF Shown
<1>d. Recs!Loop(x) = CHOOSE g : g = [n \in 0..l |-> IF n = 0 THEN none ELSE Turn(n, g[n - 1])]
  BY DEF Recs!Loop
<1> HIDE DEF none, Turn, l
<1>1. 0 \in S
  <2>1. Ok([i \in 0..0 |-> none], 0)
    BY <1>0
  <2> QED BY <2>1
<1>2. ASSUME NEW n \in Nat, n \in S PROVE n + 1 \in S
  <2>0. n + 1 \in Nat
    OBVIOUS
  <2> SUFFICES ASSUME n + 1 <= l PROVE \E g : Ok(g, n + 1)
    BY <2>0, Zenon
  <2>1. n <= l
    BY <1>0
  <2>2. PICK g : Ok(g, n)
    BY <1>2, <2>1, Zenon
  <2> DEFINE h == [i \in 0..(n + 1) |-> IF i <= n THEN g[i] ELSE Turn(n + 1, g[n])]
  <2>3. Turn(n + 1, g[n]) \in Shown
    BY <1>0, <2>2
  <2>4. h \in [0..(n + 1) -> Shown]
    BY <2>2, <2>3
  <2>5. h[0] = none
    BY <2>2
  <2>6. ASSUME NEW i \in 1..(n + 1) PROVE h[i] = Turn(i, h[i - 1])
    <3>1. CASE i <= n
      BY <2>2, <3>1
    <3>2. CASE i = n + 1
      BY <2>2, <3>2
    <3> QED BY <3>1, <3>2
  <2>7. Ok(h, n + 1)
    BY <2>4, <2>5, <2>6
  <2> QED BY <2>7
<1>3. l \in S
  <2> HIDE DEF S
  <2> QED BY <1>0, <1>1, <1>2, NatSetInduction
<1>4. PICK g : Ok(g, l)
  BY <1>0, <1>3
<1>5. g = [n \in 0..l |-> IF n = 0 THEN none ELSE Turn(n, g[n - 1])]
  BY <1>0, <1>4
<1>6. Recs!Loop(x) = [n \in 0..l |-> IF n = 0 THEN none ELSE Turn(n, Recs!Loop(x)[n - 1])]
  BY <1>d, <1>5
<1> DEFINE f == Recs!Loop(x)
<1>7. f[0] = none /\ \A n \in 1..l : f[n] = Turn(n, f[n - 1])
  <2> HIDE DEF f
  <2> QED BY <1>0, <1>6 DEF f
<1> DEFINE R == {n \in Nat : n <= l => f[n] \in Shown}
<1>8. 0 \in R /\ \A n \in Nat : n \in R => n + 1 \in R
  <2> HIDE DEF f
  <2> QED BY <1>0, <1>7
<1>9. \A n \in Nat : n \in R
  <2> HIDE DEF R
  <2> QED BY <1>8, NatSetInduction
<1>10. f \in [0..l -> Shown]
  <2>1. \A n \in 0..l : f[n] \in Shown
    BY <1>0, <1>9
  <2>2. f = [n \in 0..l |-> f[n]]
    BY <1>6
  <2> HIDE DEF f
  <2> QED BY <2>1, <2>2
<1> QED BY <1>7, <1>10 DEF none, Turn, l


\* After n turns the loop holds the best of the first n records.
LEMMA LoopIsBest ==
  ASSUME payments \in Seq(Payments), NEW x
  PROVE  /\ Recs!deriveParticipantStatus(x) \in Shown
         /\ BestOf(Recs!deriveParticipantStatus(x), Len(payments), x)
<1> DEFINE f == Recs!Loop(x)
           l == Len(payments)
           S == {n \in Nat : n <= l => BestOf(f[n], n, x)}
<1>0. /\ l \in Nat /\ f \in [0..l -> Shown] /\ f[0] = [status |-> "unpaid", at |-> -1]
      /\ \A n \in 1..l : payments[n] \in Payments
      /\ \A n \in 1..l : f[n] = IF payments[n].to = x THEN Recs!Better(payments[n], f[n - 1])
                                ELSE f[n - 1]
  BY LoopIs
<1> HIDE DEF f, l
<1>1. 0 \in S
  <2>1. f[0].status = "unpaid" /\ 1..0 = {}
    BY <1>0
  <2> QED BY <2>1 DEF BestOf
<1>2. ASSUME NEW n \in Nat, n \in S PROVE n + 1 \in S
  <2> SUFFICES ASSUME n + 1 <= l PROVE BestOf(f[n + 1], n + 1, x)
    OBVIOUS
  <2> DEFINE p == payments[n + 1]
             b == f[n]
             c == f[n + 1]
  <2>1. /\ n <= l /\ n + 1 \in 1..l /\ n \in 0..l /\ n + 1 - 1 = n
        /\ 1..(n + 1) = (1..n) \cup {n + 1}
    BY <1>0
  <2>2. p \in Payments /\ b \in Shown /\ BestOf(b, n, x)
    BY <1>0, <1>2, <2>1
  <2>3. c = IF p.to = x THEN Recs!Better(p, b) ELSE b
    BY <1>0, <2>1
  <2> HIDE DEF p, b, c
  <2>4. CASE p.to # x
    <3>1. c = b
      BY <2>3, <2>4
    <3> QED BY <2>1, <2>2, <2>4, <3>1 DEF BestOf, p, c
  <2>5. CASE p.to = x
    <3> DEFINE P(q) == Recs!Precedence[Recs!StatusOf(q)]
               m == Recs!Precedence[b.status]
               k == Recs!Precedence[c.status]
    <3>1. c = Recs!Better(p, b)
      BY <2>3, <2>5
    <3>2. /\ c \in Shown
          /\ \/ /\ c.status = Recs!StatusOf(p) /\ c.at = p.at
                /\ P(p) > m \/ (Recs!StatusOf(p) = b.status /\ p.at > b.at)
             \/ /\ c = b
                /\ P(p) < m \/ (Recs!StatusOf(p) = b.status /\ p.at <= b.at)
      BY <2>2, <3>1, BetterIs
    <3>3. /\ m \in Nat /\ k \in Nat /\ P(p) \in Nat /\ c.at \in Int /\ b.at \in Int /\ p.at \in Nat
          /\ \A i \in 1..n : P(payments[i]) \in Nat /\ payments[i].at \in Nat
      <4>1. \A q \in Payments : P(q) \in Nat /\ q.at \in Nat
        BY StatusOfIs, PrecedenceIs DEF Payments
      <4>2. \A q \in Shown : Recs!Precedence[q.status] \in Nat /\ q.at \in Int
        BY PrecedenceIs DEF Shown
      <4>3. \A i \in 1..n : payments[i] \in Payments
        BY <1>0, <2>1
      <4> HIDE DEF P
      <4> QED BY <2>2, <3>2, <4>1, <4>2, <4>3
    <3>4. \A i \in 1..n : payments[i].to = x => P(payments[i]) <= m /\ (P(payments[i]) = m => payments[i].at <= b.at)
      BY <2>2 DEF BestOf
    <3>5. /\ P(p) <= k /\ (P(p) = k => p.at <= c.at)
          /\ m <= k /\ (m = k => b.at <= c.at)
      <4>1. CASE /\ c.status = Recs!StatusOf(p) /\ c.at = p.at
                 /\ P(p) > m \/ (Recs!StatusOf(p) = b.status /\ p.at > b.at)
        <5>1. P(p) = k
          BY <4>1
        <5>2. Recs!StatusOf(p) = b.status => P(p) = m
          OBVIOUS
        <5> HIDE DEF P, m, k
        <5> QED BY <3>3, <4>1, <5>1, <5>2
      <4>2. CASE /\ c = b
                 /\ P(p) < m \/ (Recs!StatusOf(p) = b.status /\ p.at <= b.at)
        <5>1. m = k /\ c.at = b.at
          BY <4>2
        <5>2. Recs!StatusOf(p) = b.status => P(p) = m
          OBVIOUS
        <5> HIDE DEF P, m, k
        <5> QED BY <3>3, <4>2, <5>1, <5>2
      <4> QED BY <3>2, <4>1, <4>2
    <3>6. \A i \in 1..(n + 1) : payments[i].to = x => P(payments[i]) <= k /\ (P(payments[i]) = k => payments[i].at <= c.at)
      <4> SUFFICES ASSUME NEW i \in 1..n, payments[i].to = x
                   PROVE  P(payments[i]) <= k /\ (P(payments[i]) = k => payments[i].at <= c.at)
        BY <2>1, <3>5 DEF p
      <4> HIDE DEF P, m, k
      <4> QED BY <3>3, <3>4, <3>5
    <3>7. c.status = "unpaid" \/ \E i \in 1..(n + 1) : /\ payments[i].to = x
                /\ c.status = Recs!StatusOf(payments[i]) /\ c.at = payments[i].at
      <4>1. CASE c.status = Recs!StatusOf(p) /\ c.at = p.at
        BY <2>1, <2>5, <4>1 DEF p
      <4>2. CASE c = b
        BY <2>1, <2>2, <4>2 DEF BestOf
      <4> QED BY <3>2, <4>1, <4>2
    <3> QED BY <3>6, <3>7 DEF BestOf, c
  <2> QED BY <2>4, <2>5
<1>3. l \in S
  <2> HIDE DEF S
  <2> QED BY <1>0, <1>1, <1>2, NatSetInduction
<1>4. BestOf(f[l], l, x) /\ f[l] \in Shown
  BY <1>0, <1>3
<1> QED BY <1>4 DEF Recs!deriveParticipantStatus, f, l

\* The largest member of a set of integers.
LEMMA MaxIs ==
  ASSUME NEW S \in SUBSET Int, NEW m \in S, \A y \in S : y <= m
  PROVE  Recs!Max(S) = m
<1> DEFINE M == Recs!Max(S)
<1>1. M = CHOOSE y \in S : \A z \in S : y >= z
  BY DEF Recs!Max
<1>2. \E y \in S : \A z \in S : y >= z
  OBVIOUS
<1>3. M \in S /\ \A z \in S : M >= z
  <2> HIDE DEF M
  <2> QED BY <1>1, <1>2
<1> HIDE DEF M
<1>4. M \in Int /\ m \in Int /\ M <= m /\ M >= m
  BY <1>3
<1>5. M = m
  BY <1>4
<1> QED BY <1>5 DEF M

LEMMA StatusesAreBest ==
  ASSUME payments \in Seq(Payments)
  PROVE  Recs!StatusIsBest
<1> DEFINE theirs(x) == {payments[i] : i \in {j \in DOMAIN payments : payments[j].to = x}}
           P(r) == Recs!Precedence[Recs!StatusOf(r)]
           got(x) == Recs!deriveParticipantStatus(x)
           top(x) == Recs!Precedence[got(x).status]
<1>0. \A q \in Payments : P(q) \in Nat /\ P(q) # 0 /\ q.at \in Nat
  BY StatusOfIs, PrecedenceIs DEF Payments
<1>1. ASSUME NEW x
      PROVE  /\ got(x) \in Shown /\ top(x) \in Nat
             /\ got(x).status = "unpaid" <=> top(x) = 0
             /\ \A r \in theirs(x) : r \in Payments /\ P(r) <= top(x) /\ (P(r) = top(x) => r.at <= got(x).at)
             /\ got(x).status # "unpaid" =>
                  \E r \in theirs(x) : got(x).status = Recs!StatusOf(r) /\ got(x).at = r.at
  <2>1. got(x) \in Shown /\ BestOf(got(x), Len(payments), x)
    BY LoopIsBest
  <2>2. DOMAIN payments = 1..Len(payments) /\ \A i \in 1..Len(payments) : payments[i] \in Payments
    OBVIOUS
  <2>3. top(x) \in Nat /\ (got(x).status = "unpaid" <=> top(x) = 0)
    BY <2>1, PrecedenceIs DEF Shown
  <2>4. \A r \in theirs(x) : \E i \in 1..Len(payments) : payments[i].to = x /\ r = payments[i]
    BY <2>2
  <2>5. \A r \in theirs(x) : r \in Payments /\ P(r) <= top(x) /\ (P(r) = top(x) => r.at <= got(x).at)
    BY <2>1, <2>2, <2>4 DEF BestOf
  <2>6. got(x).status # "unpaid" =>
          \E r \in theirs(x) : got(x).status = Recs!StatusOf(r) /\ got(x).at = r.at
    BY <2>1, <2>2 DEF BestOf
  <2> QED BY <2>1, <2>3, <2>5, <2>6
<1>2. ASSUME NEW x PROVE Recs!Max({P(r) : r \in theirs(x)} \cup {0}) = top(x)
  <2> DEFINE V == {P(r) : r \in theirs(x)} \cup {0}
  <2>1. \A y \in V : y \in Nat /\ y <= top(x)
    <3>1. \A r \in theirs(x) : P(r) \in Nat /\ P(r) <= top(x)
      BY <1>0, <1>1
    <3>2. top(x) \in Nat
      BY <1>1
    <3> HIDE DEF P, theirs, top
    <3> QED BY <3>1, <3>2
  <2>2. top(x) \in V
    BY <1>1
  <2> HIDE DEF V
  <2>3. Recs!Max(V) = top(x)
    BY <2>1, <2>2, MaxIs
  <2> QED BY <2>3 DEF V
<1>3. ASSUME NEW x, theirs(x) # {}
      PROVE  Recs!Max({r.at : r \in {q \in theirs(x) : P(q) = top(x)}}) = got(x).at
  <2> DEFINE V == {r.at : r \in {q \in theirs(x) : P(q) = top(x)}}
  <2>1. \A y \in V : y \in Nat /\ y <= got(x).at
    BY <1>0, <1>1
  <2>2. got(x).status # "unpaid"
    BY <1>0, <1>1, <1>3
  <2>3. got(x).at \in V
    BY <1>1, <2>2
  <2> HIDE DEF V
  <2>4. Recs!Max(V) = got(x).at
    BY <2>1, <2>3, MaxIs
  <2> QED BY <2>4 DEF V
<1>4. ASSUME NEW x PROVE got(x).status = "paid" <=> \E r \in theirs(x) : r.status = "completed"
  <2>1. ASSUME got(x).status = "paid" PROVE \E r \in theirs(x) : r.status = "completed"
    <3>1. PICK r \in theirs(x) : got(x).status = Recs!StatusOf(r)
      BY <1>1, <2>1
    <3> QED BY <1>1, <2>1, <3>1, StatusOfIs
  <2>2. ASSUME NEW r \in theirs(x), r.status = "completed" PROVE got(x).status = "paid"
    <3>1. r \in Payments /\ P(r) <= top(x)
      BY <1>1
    <3>2. Recs!StatusOf(r) = "paid"
      BY <2>2, <3>1, StatusOfIs
    <3>3. 3 <= top(x)
      BY <3>1, <3>2, PrecedenceIs
    <3> QED BY <1>1, <3>3, PrecedenceIs DEF Shown
  <2> QED BY <2>1, <2>2
<1>5. \A x \in Participants :
        /\ top(x) = Recs!Max({P(r) : r \in theirs(x)} \cup {0})
        /\ theirs(x) # {} =>
             got(x).at = Recs!Max({r.at : r \in {q \in theirs(x) :
                                     P(q) = Recs!Max({P(s) : s \in theirs(x)} \cup {0})}})
  <2> TAKE x \in Participants
  <2>1. Recs!Max({P(r) : r \in theirs(x)} \cup {0}) = top(x)
    BY <1>2
  <2>2. theirs(x) # {} => got(x).at = Recs!Max({r.at : r \in {q \in theirs(x) : P(q) = top(x)}})
    BY <1>3
  <2> HIDE DEF P, theirs, got, top
  <2> QED BY <2>1, <2>2
<1>6. Recs!allParticipantsPaid <=>
        \A x \in Participants : \E r \in theirs(x) : r.status = "completed"
  BY <1>4 DEF Recs!allParticipantsPaid
<1> HIDE DEF got, top
<1> QED BY <1>5, <1>6 DEF Recs!StatusIsBest, got, top


Drafts ==
  [owner : Writers, status : {"draft", "published", "discarded"}, ids : BOOLEAN,
   count : 0..2, total : Shares]

DraftOk(d) == d.status = "published" => d.ids /\ d.count >= 2 /\ d.total = Recs!Whole

\* A call that began after the split was cancelled knows that it did, and
\* does not get leave to fund.
CallOk(d, k) ==
  \/ d = Recs!IdleCall
  \/ /\ DOMAIN d = {"step", "snapshot", "late"} /\ d.late \in BOOLEAN
     /\ d.late => k = 1
     /\ d.step = "funds" => ~d.late

\* The inductive invariant of the records.
RecInv ==
  /\ payments \in Seq(Payments)
  /\ drafts \in Seq(Drafts) /\ \A i \in 1..Len(drafts) : DraftOk(drafts[i])
  /\ wins = cancelled /\ cancelled \in {0, 1}
  /\ DOMAIN doing = Slots /\ \A s \in Slots : CallOk(doing[s], wins)

LEMMA SequenceWrites ==
  ASSUME NEW S, NEW s \in Seq(S), NEW x \in S
  PROVE  /\ Append(s, x) \in Seq(S) /\ Len(Append(s, x)) = Len(s) + 1
         /\ \A i \in 1..Len(s) : Append(s, x)[i] = s[i]
         /\ Append(s, x)[Len(s) + 1] = x
         /\ \A k \in DOMAIN s :
              /\ [s EXCEPT ![k] = x] \in Seq(S) /\ Len([s EXCEPT ![k] = x]) = Len(s)
              /\ \A i \in 1..Len(s) : [s EXCEPT ![k] = x][i] = IF i = k THEN x ELSE s[i]
OBVIOUS

\* A step that only writes drafts.
LEMMA DraftStep ==
  ASSUME RecInv, UNCHANGED <<payments, cancelled, wins, doing>>,
         \/ \E d \in Drafts : d.status # "published" /\ drafts' = Append(drafts, d)
         \/ \E i \in DOMAIN drafts, d \in Drafts : DraftOk(d) /\ drafts' = [drafts EXCEPT ![i] = d]
  PROVE  RecInv'
<1>1. drafts \in Seq(Drafts) /\ Len(drafts) \in Nat /\ DOMAIN drafts = 1..Len(drafts)
  BY DEF RecInv
<1>2. ASSUME NEW d \in Drafts, d.status # "published", drafts' = Append(drafts, d)
      PROVE  drafts' \in Seq(Drafts) /\ \A i \in 1..Len(drafts') : DraftOk(drafts'[i])
  <2>1. /\ drafts' \in Seq(Drafts) /\ Len(drafts') = Len(drafts) + 1
        /\ \A i \in 1..Len(drafts) : drafts'[i] = drafts[i]
        /\ drafts'[Len(drafts) + 1] = d
    <3>1. /\ Append(drafts, d) \in Seq(Drafts) /\ Len(Append(drafts, d)) = Len(drafts) + 1
          /\ \A i \in 1..Len(drafts) : Append(drafts, d)[i] = drafts[i]
          /\ Append(drafts, d)[Len(drafts) + 1] = d
      BY <1>1, SequenceWrites
    <3> QED BY <1>2, <3>1
  <2>2. \A i \in 1..(Len(drafts) + 1) : i \in 1..Len(drafts) \/ i = Len(drafts) + 1
    BY <1>1
  <2>3. DraftOk(d)
    BY <1>2 DEF DraftOk
  <2> QED BY <2>1, <2>2, <2>3 DEF RecInv
<1>3. ASSUME NEW i \in DOMAIN drafts, NEW d \in Drafts, DraftOk(d), drafts' = [drafts EXCEPT ![i] = d]
      PROVE  drafts' \in Seq(Drafts) /\ \A j \in 1..Len(drafts') : DraftOk(drafts'[j])
  <2>0. /\ [drafts EXCEPT ![i] = d] \in Seq(Drafts) /\ Len([drafts EXCEPT ![i] = d]) = Len(drafts)
        /\ \A j \in 1..Len(drafts) : [drafts EXCEPT ![i] = d][j] = IF j = i THEN d ELSE drafts[j]
    BY <1>1, SequenceWrites
  <2>1. drafts' \in Seq(Drafts) /\ Len(drafts') = Len(drafts)
    BY <1>3, <2>0
  <2>2. \A j \in 1..Len(drafts) : drafts'[j] = IF j = i THEN d ELSE drafts[j]
    BY <1>3, <2>0
  <2> QED BY <1>3, <2>1, <2>2 DEF RecInv
<1>4. drafts' \in Seq(Drafts) /\ \A i \in 1..Len(drafts') : DraftOk(drafts'[i])
  BY <1>2, <1>3
<1> QED BY <1>4 DEF RecInv

LEMMA DraftsKeep ==
  ASSUME RecInv,
         \/ \E w \in Writers, ids \in BOOLEAN, n \in 0..2, total \in Shares :
              Recs!SaveNewDraft(w, ids, n, total)
         \/ \E d \in DOMAIN drafts, w \in Writers :
              \/ \E ids \in BOOLEAN, n \in 0..2, total \in Shares : Recs!SaveDraft(d, w, ids, n, total)
              \/ Recs!PublishDraft(d, w) \/ Recs!DiscardDraft(d, w)
  PROVE  RecInv'
<1>1. UNCHANGED <<payments, cancelled, wins, doing>>
  BY DEF Recs!SaveNewDraft, Recs!SaveDraft, Recs!PublishDraft, Recs!DiscardDraft,
         Recs!Elsewhere, Recs!tables
<1>2. ASSUME NEW w \in Writers, NEW ids \in BOOLEAN, NEW n \in 0..2, NEW total \in Shares,
             Recs!SaveNewDraft(w, ids, n, total)
      PROVE  \E d \in Drafts : d.status # "published" /\ drafts' = Append(drafts, d)
  <2> DEFINE d == [owner |-> w, status |-> "draft", ids |-> ids, count |-> n, total |-> total]
  <2>1. d \in Drafts /\ d.status # "published"
    BY DEF Drafts
  <2>2. drafts' = Append(drafts, d)
    BY <1>2 DEF Recs!SaveNewDraft
  <2> QED BY <2>1, <2>2
<1>3. \A i \in DOMAIN drafts : drafts[i] \in Drafts /\ DraftOk(drafts[i])
  <2>1. DOMAIN drafts = 1..Len(drafts)
    BY DEF RecInv
  <2> QED BY <2>1 DEF RecInv
<1>4. ASSUME NEW i \in DOMAIN drafts, NEW w \in Writers, NEW ids \in BOOLEAN, NEW n \in 0..2,
             NEW total \in Shares, Recs!SaveDraft(i, w, ids, n, total)
      PROVE  \E d \in Drafts : DraftOk(d) /\ drafts' = [drafts EXCEPT ![i] = d]
  <2> DEFINE d == [drafts[i] EXCEPT !.ids = drafts[i].ids \/ ids, !.count = n, !.total = total]
  <2>1. drafts[i].status = "draft" /\ drafts' = [drafts EXCEPT ![i] = d]
    <3>1. drafts[i].status = "draft"
      BY <1>4 DEF Recs!SaveDraft, Recs!Editable
    <3>2. drafts' = [drafts EXCEPT ![i].ids = drafts[i].ids \/ ids, ![i].count = n, ![i].total = total]
      BY <1>4 DEF Recs!SaveDraft
    <3>3. drafts' = [drafts EXCEPT ![i] = d]
      BY <1>3, <3>2 DEF Drafts
    <3> QED BY <3>1, <3>3
  <2>2. d.status = "draft" /\ d \in Drafts
    BY <1>3, <2>1 DEF Drafts
  <2> HIDE DEF d
  <2>3. DraftOk(d)
    BY <2>2 DEF DraftOk
  <2> QED BY <2>1, <2>2, <2>3
<1>5. ASSUME NEW i \in DOMAIN drafts, NEW w \in Writers, Recs!PublishDraft(i, w)
      PROVE  \E d \in Drafts : DraftOk(d) /\ drafts' = [drafts EXCEPT ![i] = d]
  <2> DEFINE d == [drafts[i] EXCEPT !.status = "published"]
  <2>1. /\ drafts[i].ids /\ drafts[i].count >= 2 /\ drafts[i].total = Recs!Whole
        /\ drafts' = [drafts EXCEPT ![i] = d]
    BY <1>5 DEF Recs!PublishDraft
  <2>2. d \in Drafts /\ d.ids = drafts[i].ids /\ d.count = drafts[i].count /\ d.total = drafts[i].total
    BY <1>3 DEF Drafts
  <2> HIDE DEF d
  <2>3. DraftOk(d)
    BY <2>1, <2>2 DEF DraftOk
  <2> QED BY <2>1, <2>2, <2>3
<1>6. ASSUME NEW i \in DOMAIN drafts, NEW w \in Writers, Recs!DiscardDraft(i, w)
      PROVE  \E d \in Drafts : DraftOk(d) /\ drafts' = [drafts EXCEPT ![i] = d]
  <2> DEFINE d == [drafts[i] EXCEPT !.status = "discarded"]
  <2>1. drafts' = [drafts EXCEPT ![i] = d]
    BY <1>6 DEF Recs!DiscardDraft
  <2>2. d \in Drafts /\ d.status = "discarded"
    BY <1>3 DEF Drafts
  <2> HIDE DEF d
  <2>3. DraftOk(d)
    BY <2>2 DEF DraftOk
  <2> QED BY <2>1, <2>2, <2>3
<1>7. CASE \E w \in Writers, ids \in BOOLEAN, n \in 0..2, total \in Shares :
              Recs!SaveNewDraft(w, ids, n, total)
  BY <1>1, <1>2, <1>7, DraftStep
<1>8. CASE \E i \in DOMAIN drafts, d \in Drafts : DraftOk(d) /\ drafts' = [drafts EXCEPT ![i] = d]
  BY <1>1, <1>8, DraftStep
<1> QED BY <1>4, <1>5, <1>6, <1>7, <1>8

\* A step of the call in slot s.
LEMMA CallStep ==
  ASSUME RecInv, NEW s \in Slots, NEW d, doing' = [doing EXCEPT ![s] = d],
         UNCHANGED <<payments, drafts>>, wins' = cancelled', cancelled' \in {0, 1},
         wins <= wins', CallOk(d, wins')
  PROVE  RecInv'
<1>1. \A t \in Slots : CallOk(doing[t], wins')
  BY DEF RecInv, CallOk
<1> QED BY <1>1 DEF RecInv

LEMMA CallOnly ==
  ASSUME RecInv, NEW s \in Slots, NEW d, doing' = [doing EXCEPT ![s] = d],
         UNCHANGED <<payments, drafts, wins, cancelled>>, CallOk(d, wins)
  PROVE  RecInv'
<1>1. \A t \in Slots : CallOk([doing EXCEPT ![s] = d][t], wins)
  BY DEF RecInv
<1> QED BY <1>1 DEF RecInv

LEMMA CallGoesOn ==
  ASSUME NEW d, NEW k \in {0, 1}, NEW j \in {0, 1}, k <= j, CallOk(d, k), d.step # "idle",
         NEW t, t # "funds" \/ ~d.late
  PROVE  CallOk([d EXCEPT !.step = t], j)
<1>1. Recs!IdleCall.step = "idle"
  BY DEF Recs!IdleCall
<1>2. /\ DOMAIN d = {"step", "snapshot", "late"} /\ d.late \in BOOLEAN /\ (d.late => k = 1)
  BY <1>1 DEF CallOk
<1> DEFINE e == [d EXCEPT !.step = t]
<1>3. DOMAIN e = {"step", "snapshot", "late"} /\ e.late = d.late /\ e.step = t
  BY <1>2
<1> HIDE DEF e
<1>4. k = 1 => j = 1
  OBVIOUS
<1>5. CallOk(e, j)
  BY <1>2, <1>3, <1>4 DEF CallOk
<1> QED BY <1>5 DEF e

LEMMA CallsKeep ==
  ASSUME RecInv, NEW s \in Slots,
         \/ \E op \in Recs!Calls : Recs!Begin(s, op)
         \/ Recs!CancelCheck(s) \/ Recs!CancelInsert(s) \/ Recs!ArchiveCheck(s) \/ Recs!ArchiveStore(s)
         \/ Recs!RestoreCheck(s) \/ Recs!RestoreStamp(s) \/ Recs!FundCheck(s) \/ Recs!ActCheck(s)
         \/ Recs!Return(s)
  PROVE  RecInv'
<1>0. /\ wins = cancelled /\ cancelled \in {0, 1} /\ CallOk(doing[s], wins)
      /\ CallOk(Recs!IdleCall, wins) /\ CallOk(Recs!IdleCall, wins') /\ Recs!IdleCall.step = "idle"
      /\ DOMAIN doing = Slots
  BY DEF RecInv, CallOk, Recs!IdleCall
<1>2. ASSUME NEW op \in Recs!Calls, Recs!Begin(s, op) PROVE RecInv'
  <2> DEFINE d == [step |-> op, snapshot |-> project, late |-> wins > 0]
  <2>1. /\ doing' = [doing EXCEPT ![s] = d] /\ UNCHANGED <<payments, drafts, wins, cancelled>>
    BY <1>2 DEF Recs!Begin, Recs!memory, Recs!tables
  <2>2. op # "funds"
    BY DEF Recs!Calls
  <2>3. CallOk(d, wins)
    <3>1. /\ DOMAIN d = {"step", "snapshot", "late"} /\ d.step = op
          /\ d.late \in BOOLEAN /\ (d.late => wins > 0)
      <4>1. d.late \in BOOLEAN
        OBVIOUS
      <4>2. d.late => wins > 0
        OBVIOUS
      <4>3. DOMAIN d = {"step", "snapshot", "late"} /\ d.step = op
        OBVIOUS
      <4> QED BY <4>1, <4>2, <4>3
    <3>2. wins > 0 => wins = 1
      BY <1>0
    <3>3. op # "funds"
      BY <2>2
    <3> HIDE DEF d
    <3> QED BY <3>1, <3>2, <3>3, Zenon DEF CallOk
  <2> HIDE DEF d
  <2> QED BY <2>1, <2>3, CallOnly
<1>3. ASSUME \/ Recs!CancelCheck(s) \/ Recs!ArchiveCheck(s) \/ Recs!ArchiveStore(s)
             \/ Recs!RestoreCheck(s) \/ Recs!RestoreStamp(s) \/ Recs!ActCheck(s) \/ Recs!Return(s)
      PROVE  RecInv'
  <2>1. UNCHANGED <<payments, drafts, wins, cancelled>>
    BY <1>3 DEF Recs!CancelCheck, Recs!ArchiveCheck, Recs!ArchiveStore, Recs!RestoreCheck,
         Recs!RestoreStamp, Recs!ActCheck, Recs!Return, Recs!Rest, Recs!memory, Recs!tables
  <2>2. \/ doing' = [doing EXCEPT ![s] = Recs!IdleCall]
        \/ \E t \in {"insert", "store", "acts"} :
             doing[s].step # "idle" /\ doing' = [doing EXCEPT ![s] = [doing[s] EXCEPT !.step = t]]
        \/ \E n : /\ doing[s].step # "idle"
                  /\ doing' = [doing EXCEPT ![s] = [doing[s] EXCEPT !.step = "stamp", !.snapshot = n]]
    BY <1>3 DEF Recs!CancelCheck, Recs!ArchiveCheck, Recs!ArchiveStore, Recs!RestoreCheck,
         Recs!RestoreStamp, Recs!ActCheck, Recs!Return, Recs!Done, Recs!Becomes
  <2>3. \E d : doing' = [doing EXCEPT ![s] = d] /\ CallOk(d, wins)
    <3>1. CASE doing' = [doing EXCEPT ![s] = Recs!IdleCall]
      BY <1>0, <3>1
    <3>2. ASSUME NEW t \in {"insert", "store", "acts"}, doing[s].step # "idle",
                 doing' = [doing EXCEPT ![s] = [doing[s] EXCEPT !.step = t]]
          PROVE  <2>3
      <4>1. CallOk([doing[s] EXCEPT !.step = t], wins)
        BY <1>0, <3>2, CallGoesOn
      <4> QED BY <3>2, <4>1
    <3>3. ASSUME NEW n, doing[s].step # "idle",
                 doing' = [doing EXCEPT ![s] = [doing[s] EXCEPT !.step = "stamp", !.snapshot = n]]
          PROVE  <2>3
      <4>1. CallOk([doing[s] EXCEPT !.step = "stamp", !.snapshot = n], wins)
        BY <1>0, <3>3 DEF CallOk
      <4> QED BY <3>3, <4>1
    <3> QED BY <2>2, <3>1, <3>2, <3>3
  <2> QED BY <2>1, <2>3, CallOnly
<1>4. ASSUME Recs!FundCheck(s) PROVE RecInv'
  <2>1. UNCHANGED <<payments, drafts, wins, cancelled>> /\ doing[s].step = "fund"
    BY <1>4 DEF Recs!FundCheck, Recs!Rest, Recs!memory, Recs!tables
  <2>2. \/ doing' = [doing EXCEPT ![s] = Recs!IdleCall]
        \/ ~(cancelled > 0) /\ doing' = [doing EXCEPT ![s] = [doing[s] EXCEPT !.step = "funds"]]
    BY <1>4 DEF Recs!FundCheck, Recs!Done, Recs!Becomes
  <2>3. CASE doing' = [doing EXCEPT ![s] = Recs!IdleCall]
    BY <1>0, <2>1, <2>3, CallOnly
  <2>4. CASE ~(cancelled > 0) /\ doing' = [doing EXCEPT ![s] = [doing[s] EXCEPT !.step = "funds"]]
    <3>1. wins # 1
      BY <1>0, <2>4
    <3>2. CallOk([doing[s] EXCEPT !.step = "funds"], wins)
      BY <1>0, <2>1, <3>1 DEF CallOk
    <3> QED BY <2>1, <2>4, <3>2, CallOnly
  <2> QED BY <2>2, <2>3, <2>4
<1>5. ASSUME Recs!CancelInsert(s) PROVE RecInv'
  <2>1. UNCHANGED <<payments, drafts>> /\ doing[s].step = "insert"
    BY <1>5 DEF Recs!CancelInsert, Recs!Rest, Recs!memory
  <2>2. \/ /\ cancelled = 0 /\ cancelled' = 1 /\ wins' = wins + 1
           /\ doing' = [doing EXCEPT ![s] = [doing[s] EXCEPT !.step = "cancelled"]]
        \/ UNCHANGED <<cancelled, wins>> /\ doing' = [doing EXCEPT ![s] = Recs!IdleCall]
    BY <1>5 DEF Recs!CancelInsert, Recs!Done, Recs!Becomes
  <2>3. CASE UNCHANGED <<cancelled, wins>> /\ doing' = [doing EXCEPT ![s] = Recs!IdleCall]
    BY <1>0, <2>1, <2>3, CallOnly
  <2>4. CASE /\ cancelled = 0 /\ cancelled' = 1 /\ wins' = wins + 1
             /\ doing' = [doing EXCEPT ![s] = [doing[s] EXCEPT !.step = "cancelled"]]
    <3>1. wins' = 1 /\ wins = 0
      BY <1>0, <2>4
    <3>2. CallOk([doing[s] EXCEPT !.step = "cancelled"], wins')
      <4>1. CallOk([doing[s] EXCEPT !.step = "cancelled"], 1)
        BY <1>0, <2>1, <3>1, CallGoesOn
      <4> QED BY <3>1, <4>1
    <3>3. wins' = cancelled' /\ cancelled' \in {0, 1} /\ wins <= wins'
      BY <2>4, <3>1
    <3> QED BY <2>1, <2>4, <3>2, <3>3, CallStep
  <2> QED BY <2>2, <2>3, <2>4
<1> QED BY <1>2, <1>3, <1>4, <1>5

LEMMA RecordsStep ==
  ASSUME RecInv, Recs!RecNext
  PROVE  RecInv'
<1>1. ASSUME Recs!RecordArrives PROVE RecInv'
  <2>1. PICK x \in Participants, st \in {"completed", "pending", "failed"}, t \in 0..2 :
          payments' = Append(payments, [to |-> x, status |-> st, at |-> t])
    BY <1>1 DEF Recs!RecordArrives
  <2>2. [to |-> x, status |-> st, at |-> t] \in Payments
    BY DEF Payments
  <2>3. payments' \in Seq(Payments)
    BY <2>1, <2>2 DEF RecInv
  <2>4. UNCHANGED <<drafts, wins, cancelled, doing>>
    BY <1>1 DEF Recs!RecordArrives, Recs!memory, Recs!tables
  <2> QED BY <2>3, <2>4 DEF RecInv
<1>2. ASSUME \/ \E at \in (0..MaxClock) \cup {Recs!NoDeadline} : Recs!ConfigureExpiration(at)
             \/ Recs!ObserveExpired \/ Recs!ChainMoves \/ Recs!ClockTicks
      PROVE  RecInv'
  <2>1. UNCHANGED <<payments, drafts, wins, cancelled, doing>>
    BY <1>2 DEF Recs!ConfigureExpiration, Recs!ObserveExpired, Recs!ChainMoves, Recs!ClockTicks,
         Recs!Elsewhere, Recs!memory, Recs!tables
  <2> QED BY <2>1 DEF RecInv
<1> QED BY <1>1, <1>2, DraftsKeep, CallsKeep DEF Recs!RecNext

LEMMA RecordsStart == ASSUME Recs!RecInit PROVE RecInv
<1>1. /\ payments = <<>> /\ drafts = <<>> /\ cancelled = 0 /\ wins = 0
      /\ doing = [s \in Slots |-> Recs!IdleCall]
  BY DEF Recs!RecInit
<1> QED BY <1>1 DEF RecInv, CallOk

\* In whatever order payment records arrive, each participant is shown the best
\* of them; what was published is whole; and a split is cancelled once, with no
\* leave to fund it for a call that begins later (split-lifecycle.ts,
\* split-draft.registry.ts, split-cancellation).
THEOREM RecordsAlwaysSound == MCSpec => []RecordsSound
<1> DEFINE I == part = "records" => RecInv
<1>1. MCInit => I
  BY RecordsStart DEF MCInit, RecsInit
<1>2. I /\ [MCNext]_mcVars => I'
  <2> SUFFICES ASSUME I, [MCNext]_mcVars, part' = "records" PROVE RecInv'
    OBVIOUS
  <2>1. part = "records" /\ RecInv
    <3>1. part' = part
      BY DEF MCNext, mcVars
    <3> QED BY <3>1
  <2>2. UNCHANGED recVars \/ RecsStep
    BY <2>1 DEF MCNext, mcVars
  <2>3. CASE UNCHANGED recVars
    BY <2>1, <2>3 DEF recVars, RecInv
  <2>4. CASE RecsStep
    BY <2>1, <2>4, RecordsStep DEF RecsStep
  <2> QED BY <2>2, <2>3, <2>4
<1>3. RecInv => Recs!StatusIsBest /\ Recs!PublishedDraftsWhole /\ Recs!CancelledOnce
  <2> SUFFICES ASSUME RecInv PROVE Recs!StatusIsBest /\ Recs!PublishedDraftsWhole /\ Recs!CancelledOnce
    OBVIOUS
  <2>1. Recs!StatusIsBest
    BY StatusesAreBest DEF RecInv
  <2>2. DOMAIN drafts = 1..Len(drafts)
    BY DEF RecInv
  <2>3. Recs!PublishedDraftsWhole
    BY <2>2 DEF RecInv, DraftOk, Recs!PublishedDraftsWhole
  <2>4. Recs!CancelledOnce
    BY DEF RecInv, CallOk, Recs!IdleCall, Recs!CancelledOnce
  <2> QED BY <2>1, <2>3, <2>4
<1>4. I => RecordsSound
  BY <1>3 DEF RecordsSound
<1> QED BY <1>1, <1>2, <1>4, PTL DEF MCSpec
=============================================================================
