------------------------- MODULE MembershipChanges -------------------------
(***************************************************************************)
(* The collaborator changes of one project,                                *)
(* backend/src/services/collaboration/membership-changes.ts: every request *)
(* reads the project's record, plans its change against what it read       *)
(* (permissions.ts decides who may) and writes with a compare-and-set on   *)
(* the record's version, at most MaxAttempts times.  Other requests run    *)
(* between the read and the write.                                         *)
(*                                                                         *)
(* An address holds at most one entry of a record, so the collaborators    *)
(* are a function from addresses to roles; "none" is an address without    *)
(* an entry.  The owner of a record never changes here, and nothing here   *)
(* creates or deletes a record, so the record exists throughout.           *)
(***************************************************************************)
EXTENDS Integers

CONSTANTS Addresses,      \* everybody who may ask or be asked about
          Owner,          \* the owner of the project
          NoAddress,      \* an address that is empty once trimmed
          Requests,       \* the calls of applyCollaborationChange
          MaxAttempts,    \* MAX_CHANGE_ATTEMPTS
          Expected,       \* the versions clients name in expectedVersion
          NoVersion,      \* a request without expectedVersion
          InitialRoles    \* the collaborators a project may start with

Assignable == {"admin", "editor", "viewer"}
Members == Addresses \ {Owner}
RoleMaps == [Members -> Assignable \cup {"none"}]

ASSUME MembershipAssumption ==
    /\ Owner \in Addresses
    /\ NoAddress \notin Addresses
    /\ MaxAttempts \in Nat \ {0}
    /\ Expected \subseteq Nat
    /\ NoVersion \notin Nat
    /\ InitialRoles \subseteq RoleMaps

VARIABLES record,   \* the stored CollaborationRecord: version and roles
          call      \* the calls of applyCollaborationChange

vars == <<record, call>>

Changes ==
    [type : {"add", "set_role"}, address : Addresses \cup {NoAddress},
     role : Assignable \cup {"owner"}]
      \cup [type : {"remove"}, address : Addresses \cup {NoAddress}, role : {"none"}]

Inputs == [actor : Addresses, change : Changes, expected : Expected \cup {NoVersion}]

Records == [version : Nat, roles : RoleMaps]

Ended(outcome) == [phase |-> outcome]

Init ==
    /\ record \in [version : {1}, roles : InitialRoles]
    /\ call = [r \in Requests |-> Ended("idle")]

----------------------------------------------------------------------------
(* Who may do what: permissions.ts, planCollaborationChange.               *)

ROLE_RANK == [owner |-> 3, admin |-> 2, editor |-> 1, viewer |-> 0]

RoleIn(rec, address) == IF address = Owner THEN "owner" ELSE rec.roles[address]

\* The roles with the permission project:update_collaborators.
MayUpdate == {"owner", "admin"}

Outranks(actorRole, role) ==
    actorRole = "owner" \/ ROLE_RANK[actorRole] > ROLE_RANK[role]

Permitted(rec, actor, change) ==
    /\ RoleIn(rec, actor) \in MayUpdate
    /\ change.address \in Members
    /\ change.type # "remove" =>
         /\ change.role \in Assignable
         /\ Outranks(RoleIn(rec, actor), change.role)
    /\ change.type = "add" <=> rec.roles[change.address] = "none"
    /\ change.type # "add" => Outranks(RoleIn(rec, actor), rec.roles[change.address])

PlanSameVersion(rec, change) ==
    [version |-> rec.version, roles |-> [rec.roles EXCEPT ![change.address] = change.role]]

\* The next record of a permitted change; a removal writes "none".
Plan(rec, change) ==
    [version |-> rec.version + 1,
     roles   |-> [rec.roles EXCEPT ![change.address] = change.role]]

\* A supplied expectedVersion must be the version read, on every attempt.
Fresh(rec, request, attempt) == request.expected \in {NoVersion, rec.version}

----------------------------------------------------------------------------
(* applyCollaborationChange.                                               *)

\* One turn of the loop up to the write: the answer of read, the checks and
\* the plan, without a pause between them.  `first' is the version that the
\* first attempt read.
Attempt(r, request, attempt, first) ==
    /\ call' = [call EXCEPT ![r] =
         IF Fresh(record, request, attempt)
              /\ Permitted(record, request.actor, request.change)
         THEN [phase |-> "planned", request |-> request, base |-> record,
               attempt |-> attempt, first |-> first]
         ELSE Ended("refused")]
    /\ UNCHANGED record

Begin(r) ==
    /\ call[r].phase = "idle"
    /\ \E request \in Inputs : Attempt(r, request, 1, record.version)

Retry(r) ==
    /\ call[r].phase = "retry"
    /\ Attempt(r, call[r].request, call[r].attempt + 1, call[r].first)

CommitUnchecked(r) ==
    /\ call[r].phase = "planned"
    /\ record' = Plan(call[r].base, call[r].request.change)
    /\ call' = [call EXCEPT ![r] = Ended("done")]

\* compareAndSet finds the version that was read and replaces the record.
Commit(r) ==
    /\ call[r].phase = "planned"
    /\ call[r].base.version = record.version
    /\ record' = Plan(call[r].base, call[r].request.change)
    /\ call' = [call EXCEPT ![r] = Ended("done")]

LastAttempt(attempt) == attempt = MaxAttempts

LoseRace(r) ==
    /\ call[r].phase = "planned"
    /\ call[r].base.version # record.version
    /\ ~LastAttempt(call[r].attempt)
    /\ call' = [call EXCEPT ![r].phase = "retry"]
    /\ UNCHANGED record

\* collaboration_change_conflict
GiveUp(r) ==
    /\ call[r].phase = "planned"
    /\ call[r].base.version # record.version
    /\ LastAttempt(call[r].attempt)
    /\ call' = [call EXCEPT ![r] = Ended("conflict")]
    /\ UNCHANGED record

Next == \E r \in Requests : Begin(r) \/ Retry(r) \/ Commit(r) \/ LoseRace(r) \/ GiveUp(r)

Spec == Init /\ [][Next]_vars

----------------------------------------------------------------------------
(* Properties.                                                             *)

Flying == [phase : {"planned", "retry"}, request : Inputs, base : Records,
           attempt : 1..MaxAttempts, first : Nat]

TypeOK ==
    /\ record \in Records
    /\ call \in [Requests ->
         [phase : {"idle", "refused", "done", "conflict"}] \cup Flying]

InFlight(r) == call[r].phase \in {"planned", "retry"}

\* What a request holds is a record that was stored: never one of a later
\* version, and the stored one itself when the versions are equal.
VersionIdentifiesRecord ==
    \A r \in Requests : InFlight(r) =>
        /\ call[r].base.version <= record.version
        /\ call[r].base.version = record.version => call[r].base = record

\* A request in its n-th attempt has seen n - 1 changes of others committed,
\* and one that lost its n-th race one more.
AttemptsCostCommits ==
    \A r \in Requests : InFlight(r) =>
        /\ call[r].first + call[r].attempt - 1 <= call[r].base.version
        /\ call[r].phase = "retry" =>
             /\ call[r].attempt < MaxAttempts
             /\ call[r].base.version < record.version

\* A planned change was permitted on the record it was planned on, which has
\* the version that the client named, if it named one.
PlannedOnItsBase ==
    \A r \in Requests : call[r].phase = "planned" =>
        /\ Permitted(call[r].base, call[r].request.actor, call[r].request.change)
        /\ call[r].request.expected \in {NoVersion, call[r].base.version}

IInv == TypeOK /\ VersionIdentifiesRecord /\ AttemptsCostCommits /\ PlannedOnItsBase

\* The request that a step commits.
Commits(r) == call[r].phase = "planned" /\ call'[r].phase = "done"

\* Whoever changes an address's role is, in the very record that is replaced,
\* the owner, or an admin who touches and grants no admin: a demotion that
\* commits between an admin's read and write defeats the write.
AuthorizedWhenCommitted ==
    [][\A x \in Members : record'.roles[x] # record.roles[x] =>
         \E r \in Requests :
            /\ Commits(r)
            /\ \/ call[r].request.actor = Owner
               \/ /\ RoleIn(record, call[r].request.actor) = "admin"
                  /\ record.roles[x] # "admin"
                  /\ record'.roles[x] # "admin"]_vars

\* A committed change leaves every address but its own target as the stored
\* record had it: no change that another request committed is undone.
NoLostUpdate ==
    [][\A r \in Requests : Commits(r) =>
         \A x \in Members \ {call[r].request.change.address} :
            record'.roles[x] = record.roles[x]]_vars

\* A request that names a version is only ever committed on that version,
\* also when its first attempt lost a race.
ExpectedVersionHonoured ==
    [][\A r \in Requests : Commits(r) =>
         call[r].request.expected \in {NoVersion, record.version}]_vars

\* A request is told that it lost MaxAttempts races only when at least as
\* many changes of others were committed since its first read.
ConflictMeansContention ==
    [][\A r \in Requests : call[r].phase # "conflict" /\ call'[r].phase = "conflict" =>
         record.version >= call[r].first + MaxAttempts]_vars
=============================================================================
