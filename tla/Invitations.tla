---------------------------- MODULE Invitations ----------------------------
(***************************************************************************)
(* Invitations, deletion and transfer of a project: routes/                *)
(* collaboration.ts and the invitation routes of auth-email.ts over        *)
(* invitation-registry.ts, project-deletion.ts and ownership-transfer.ts.  *)
(*                                                                         *)
(* The registries live in memory and their functions run to the end; a     *)
(* route awaits only the project's record (owner and roles), which is kept *)
(* elsewhere and may change at any time.  All requests are about one       *)
(* project, save invitations that name none.                               *)
(***************************************************************************)
EXTENDS Integers, Sequences, FiniteSets, SequencesExt

CONSTANTS
  People,         \* wallets
  Invitees,       \* e-mail addresses
  Tokens,         \* token ids
  InvSlots,       \* requests the server works on at the same time
  MaxInvitations, \* bound on the invitations of a behaviour
  MaxCalls        \* bound on the requests of a behaviour

NoOne == "noOne"
NoRequest == [step |-> "none"]
RoleNames == {"owner", "admin", "viewer"}   \* editor and no role permit as little here as viewer

VARIABLES
  roles,      \* the project's record: person -> role (external)
  money,      \* whether the project has financial history (external)
  invs,       \* the invitations, oldest first
  tokenIndex, \* token id -> number of its invitation, 0 when there is none
  owners,     \* ownership-transfer: the known owner
  audit,      \* deletion decisions and transfers
  call,       \* slot -> request
  calls       \* number of requests so far

invVars == <<roles, money, invs, tokenIndex, owners, audit, call, calls>>
registries == <<invs, tokenIndex, owners, audit>>

InvInit ==
  /\ roles \in {f \in [People -> RoleNames] : \E x \in People : f[x] = "owner"
                  /\ \A y \in People : f[y] = "owner" => y = x}
  /\ money \in BOOLEAN
  /\ invs = <<>> /\ tokenIndex = [t \in Tokens |-> 0]
  /\ owners = NoOne /\ audit = {}
  /\ call = [c \in InvSlots |-> NoRequest] /\ calls = 0
----------------------------------------------------------------------------
(* invitation-registry.ts.  Time only shows as expiry, which is noticed    *)
(* when a record is next looked at; every pending record may be due.       *)

\* markExpiredIfNeeded on the invitations of I that are due.
Expired(s, I) == [i \in DOMAIN s |-> IF i \in I /\ s[i].status = "pending"
                                    THEN [s[i] EXCEPT !.status = "expired"] ELSE s[i]]

\* registerInvitation: a new record, and the token leads to it.
Issued(s, e, t, p, w, how) ==
  Append(s, [email |-> e, token |-> t, project |-> p, by |-> w,
             status |-> "pending", how |-> how])

\* cancelInvitation: who may cancel a pending invitation.
MayCancel(i, w, owner) == invs[i].by = w \/ owner = w

Cancelled(s, I) == [i \in DOMAIN s |-> IF i \in I THEN [s[i] EXCEPT !.status = "cancelled"]
                                      ELSE s[i]]

\* reinvite: the pending invitations of the address for the project.
Prior(e, p) == {i \in DOMAIN invs : invs[i].status = "pending"
                                    /\ invs[i].email = e /\ invs[i].project = p}

\* Faulty variant: invitations that somebody else sent are passed over.
PassedOver(e, p, w) == {}

\* reinvite stops at the first invitation that somebody else sent, and
\* registerInvitation refuses an expiry that is past: what was cancelled before
\* stays cancelled and nothing is issued.
Obstacles(e, p, w) == {i \in Prior(e, p) : invs[i].by # w}

Reinvited(e, t, p, w) ==
  LET stops == Obstacles(e, p, w)
      mine  == {i \in Prior(e, p) : invs[i].by = w /\ \A j \in stops : i < j}
  IN  \/ invs' = Cancelled(invs, mine) /\ UNCHANGED tokenIndex
      \/ /\ stops = {}
         /\ invs' = Issued(Cancelled(invs, mine), e, t, p, w, "reinvite")
         /\ tokenIndex' = [tokenIndex EXCEPT ![t] = Len(invs')]

\* Faulty variant: the status is not looked at.
AcceptedAnyway(t) ==
  [i \in DOMAIN invs |-> IF i = tokenIndex[t]
                         THEN [invs[i] EXCEPT !.status = "accepted"] ELSE invs[i]]

\* acceptInvitationByTokenJti: the status that the invitation of t has then.
Accepted(t) ==
  [i \in DOMAIN invs |-> IF i = tokenIndex[t] /\ invs[i].status = "pending"
                         THEN [invs[i] EXCEPT !.status = "accepted"] ELSE invs[i]]
----------------------------------------------------------------------------
(* Requests.                                                               *)

Room == calls < MaxCalls /\ calls' = calls + 1
Holds(w, permission) ==
  CASE permission = "project:invite" -> roles[w] \in {"owner", "admin"}
    [] permission = "project:delete" -> roles[w] = "owner"
OwnerNow == CHOOSE x \in People : roles[x] = "owner"
External == UNCHANGED <<roles, money>>

\* POST /auth/invitations: no permission is asked, and no older one cancelled.
Invite(e, t, w) ==
  /\ Room /\ Len(invs) < MaxInvitations /\ tokenIndex[t] = 0
  /\ \E p \in {TRUE, FALSE} : invs' = Issued(invs, e, t, p, w, "invite")
  /\ tokenIndex' = [tokenIndex EXCEPT ![t] = Len(invs')]
  /\ External /\ UNCHANGED <<owners, audit, call>>

\* POST /collaboration/invitations/accept, and POST /auth/invitations/accept,
\* which also says yes to a signed token without an invitation.
AcceptById(t) ==
  /\ Room /\ tokenIndex[t] # 0
  /\ invs' = Accepted(t)
  /\ External /\ UNCHANGED <<tokenIndex, owners, audit, call>>

AcceptByLink(t) ==
  /\ Room
  /\ invs' = Accepted(t)
  /\ External /\ UNCHANGED <<tokenIndex, owners, audit, call>>

\* POST /auth/invitations/:id/cancel: only the inviter.
CancelByInviter(i, w) ==
  /\ Room /\ invs[i].status = "pending"
  /\ MayCancel(i, w, NoOne)
  /\ invs' = Cancelled(invs, {i})
  /\ External /\ UNCHANGED <<tokenIndex, owners, audit, call>>

\* A record whose expiresAt has come is looked at (the list of the pending
\* invitations; accept, cancel and reinvite).
NoticeExpiry(i) ==
  /\ invs[i].status = "pending"
  /\ invs' = Expired(invs, {i})
  /\ External /\ UNCHANGED <<tokenIndex, owners, audit, call, calls>>

\* The routes of collaboration.ts: the record of the project is awaited.
Request(c, op, w, x) ==
  /\ Room /\ call[c] = NoRequest
  /\ call' = [call EXCEPT ![c] = [step |-> op, by |-> w, arg |-> x]]
  /\ External /\ UNCHANGED registries

Ends(c) == call' = [call EXCEPT ![c] = NoRequest] /\ UNCHANGED calls

\* POST /projects/:id/invitations: the permission, then reinvite.
ReinviteGranted(c) ==
  /\ call[c].step = "reinvite"
  /\ LET w == call[c].by
         x == call[c].arg
     IN  IF Holds(w, "project:invite") /\ Len(invs) < MaxInvitations
         THEN Reinvited(x.email, x.token, TRUE, w)
         ELSE UNCHANGED <<invs, tokenIndex>>
  /\ Ends(c) /\ External /\ UNCHANGED <<owners, audit>>

\* POST /invitations/:id/cancel: the inviter or the project's owner.
CancelDecided(c) ==
  /\ call[c].step = "cancel"
  /\ LET w == call[c].by
         i == call[c].arg
     IN  invs' = IF invs[i].status = "pending"
                    /\ MayCancel(i, w, IF invs[i].project THEN OwnerNow ELSE NoOne)
                 THEN Cancelled(invs, {i}) ELSE invs
  /\ Ends(c) /\ External /\ UNCHANGED <<tokenIndex, owners, audit>>

\* transferOwnership: the actor w must be the known owner, the new one another.
Transferred(known, w, n) ==
  IF known = w /\ n # w
  THEN owners' = n /\ audit' = audit \cup {[kind |-> "transfer", from |-> w, to |-> n]}
  ELSE owners' = known /\ UNCHANGED audit

\* POST /projects/:id/transfer-ownership: the known owner is set from the record.
TransferDecided(c) ==
  /\ call[c].step = "transfer"
  /\ Transferred(OwnerNow, call[c].by, call[c].arg)
  /\ Ends(c) /\ External /\ UNCHANGED <<invs, tokenIndex>>

\* evaluateProjectDeletion: with financial history only a soft deletion, both
\* only with the confirmation phrase.
DeletionMode(confirmed, history) ==
  IF ~confirmed THEN "blocked" ELSE IF history THEN "soft" ELSE "hard"

\* requestProjectDeletion: the decision is recorded whatever it is.
DeletionRecorded(w, mode) ==
  audit' = audit \cup {[kind |-> mode, from |-> w, to |-> NoOne]}

\* POST /projects/:id/delete: the permission is checked first, the financial
\* snapshot is awaited after it.
DeletionPermitted(c) ==
  /\ call[c].step = "delete"
  /\ call' = [call EXCEPT ![c] = IF Holds(call[c].by, "project:delete")
                                 THEN [@ EXCEPT !.step = "snapshot"] ELSE NoRequest]
  /\ External /\ UNCHANGED <<registries, calls>>

DeletionDecided(c) ==
  /\ call[c].step = "snapshot"
  /\ DeletionRecorded(call[c].by, DeletionMode(call[c].arg, money))
  /\ Ends(c) /\ External /\ UNCHANGED <<invs, tokenIndex, owners>>

\* The record cannot be read: 403, 404 or 503.
Unresolved(c) ==
  /\ call[c] # NoRequest
  /\ Ends(c) /\ External /\ UNCHANGED registries

\* The project's record changes, money moves, the process restarts.
RolesChange ==
  /\ \E f \in [People -> RoleNames] :
       /\ \E x \in People : f[x] = "owner" /\ \A y \in People : f[y] = "owner" => y = x
       /\ f # roles /\ roles' = f
  /\ Room /\ UNCHANGED <<money, registries, call>>

MoneyMoves == ~money /\ money' = TRUE /\ UNCHANGED <<roles, registries, call, calls>>

RestartServer ==
  /\ Room
  /\ invs' = <<>> /\ tokenIndex' = [t \in Tokens |-> 0]
  /\ owners' = NoOne /\ audit' = {}
  /\ call' = [c \in InvSlots |-> NoRequest]
  /\ External

InvNext ==
  \/ \E e \in Invitees, t \in Tokens, w \in People \cup {NoOne} : Invite(e, t, w)
  \/ \E t \in Tokens : AcceptById(t) \/ AcceptByLink(t)
  \/ \E i \in DOMAIN invs : NoticeExpiry(i) \/ \E w \in People : CancelByInviter(i, w)
  \/ \E c \in InvSlots, w \in People :
       \/ \E x \in [email : Invitees, token : Tokens] : Request(c, "reinvite", w, x)
       \/ \E i \in DOMAIN invs : Request(c, "cancel", w, i)
       \/ \E n \in People : Request(c, "transfer", w, n)
       \/ \E b \in BOOLEAN : Request(c, "delete", w, b)
  \/ \E c \in InvSlots :
       \/ ReinviteGranted(c) \/ CancelDecided(c) \/ TransferDecided(c)
       \/ DeletionPermitted(c) \/ DeletionDecided(c) \/ Unresolved(c)
  \/ RolesChange \/ MoneyMoves \/ RestartServer

InvSpec == InvInit /\ [][InvNext]_invVars
----------------------------------------------------------------------------
\* An invitation that was issued again is the only one of its address for the
\* project among all that were issued before it: whoever holds an older link
\* can no longer accept, whoever had sent it.
ReinviteReplaces ==
  \A i, j \in DOMAIN invs :
    /\ i < j /\ invs[j].how = "reinvite"
    /\ invs[i].email = invs[j].email /\ invs[i].project = invs[j].project
    => invs[i].status # "pending"

\* A link never brings back what became of its invitation: an invitation that
\* was cancelled or has expired is not accepted afterwards, and one that was
\* accepted is not cancelled, also when its request began before.
EndedStay ==
  \A i \in DOMAIN invs \cap DOMAIN invs' :
    invs[i].status # "pending" => invs'[i].status = invs[i].status
EndedInvitationsStay == [][EndedStay]_invVars
=============================================================================
