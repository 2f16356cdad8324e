------------------------------ MODULE Accounts ------------------------------
(***************************************************************************)
(* Accounts, sessions and e-mailed links: routes/users.ts,                 *)
(* routes/auth-account.ts, routes/auth-email.ts and the services below     *)
(* them.  A step of a request is what it does between two awaits; every    *)
(* SQL statement is atomic, requests interleave between statements.        *)
(*                                                                         *)
(* A session is a wallet JWT, valid while its `sv' is the account's        *)
(* sessionVersion.  A link is a signed e-mail token; whoever was mailed    *)
(* one can use it at any later moment and as often as he likes, or never,  *)
(* so expiry needs no step.  Addresses are normalized, aliases, roles and  *)
(* log lines are left out; no route clears isActive.                       *)
(***************************************************************************)
EXTENDS Integers, FiniteSets, FiniteSetsExt

CONSTANTS
  Wallets, Emails,
  NoEmail,        \* an account without an address
  Slots,          \* requests the server works on at the same time
  Registered,     \* wallet -> address, of the accounts at the beginning
  MaxRequests,    \* bound on the requests of a behaviour
  MaxVersion,     \* bound on sessionVersion
  MaxLinks        \* bound on the e-mails of a behaviour

VARIABLES
  users,      \* table users: wallet -> row or NoUser
  verif,      \* table email_verification_tokens: address -> live link, consumed
  cooldown,   \* addresses whose resend slot is taken
  sessions,   \* wallet JWTs issued
  mail,       \* links that were delivered
  req,        \* slot -> what its request does next
  begun,      \* number of requests so far
  linkCount,  \* number of links signed so far
  revoked,    \* history: wallet -> revocations of its sessions
  stale,      \* history: wallets whose row was overwritten with an older one
  confirmed,  \* history: addresses whose owner followed a link mailed there
  uses        \* history: link -> how often it took effect

vars == <<users, verif, cooldown, sessions, mail, req, begun, linkCount,
          revoked, stale, confirmed, uses>>
history == <<revoked, stale, confirmed, uses>>
tables == <<users, verif>>
credentials == <<sessions, mail, linkCount>>

NoUser == [exists |-> FALSE]   \* a wallet without a row
Idle == [op |-> "idle"]
Rows == [email : Emails \cup {NoEmail}, verified : BOOLEAN, deleted : BOOLEAN,
         sv : 0..MaxVersion]

Fresh(e) == [email |-> e, verified |-> FALSE, deleted |-> FALSE, sv |-> 0]

Exists(w) == users[w] # NoUser
Active(w) == Exists(w) /\ ~users[w].deleted
Has(w, e) == Exists(w) /\ users[w].email = e

Session(w) == [w |-> w, sv |-> users[w].sv, epoch |-> revoked[w]]

Init ==
  /\ users = [w \in Wallets |->
       IF w \in DOMAIN Registered THEN Fresh(Registered[w]) ELSE NoUser]
  /\ verif = [e \in Emails |-> [link |-> 0, consumed |-> FALSE]]
  /\ cooldown = {}
  /\ revoked = [w \in Wallets |-> 0]
  /\ sessions = {[w |-> w, sv |-> 0, epoch |-> 0] : w \in DOMAIN Registered}
  /\ mail = {}
  /\ req = [r \in Slots |-> Idle]
  /\ begun = 0 /\ linkCount = 0
  /\ stale = {} /\ confirmed = {}
  /\ uses = [n \in 1..MaxLinks |-> 0]

Goes(r, next) == req' = [req EXCEPT ![r] = next]

\* A request arrives in a free slot and goes on as `next'.
Arrives(r, next) ==
  /\ req[r] = Idle
  /\ begun < MaxRequests
  /\ begun' = begun + 1
  /\ Goes(r, next)

\* A request goes on from the step `op' to `next'.
Continues(r, op, next) == req[r].op = op /\ Goes(r, next) /\ UNCHANGED begun

\* The unique index on users.email, for a row of w that holds e.
AddressFree(w, e) == e = NoEmail \/ \A x \in Wallets \ {w} : ~Has(x, e)

Used(n) == uses' = [uses EXCEPT ![n] = @ + 1]

----------------------------------------------------------------------------
(* POST /users/register, POST /users/login.                                *)

Register(r) ==
  \E w \in Wallets, e \in Emails \cup {NoEmail} :
    /\ ~Exists(w)
    /\ Arrives(r, [op |-> "insert", w |-> w, email |-> e])
    /\ UNCHANGED <<tables, cooldown, credentials, history>>

Insert(r) ==
  /\ Continues(r, "insert", Idle)
  /\ LET w == req[r].w IN
     users' = IF Exists(w) \/ ~AddressFree(w, req[r].email)
              THEN users
              ELSE [users EXCEPT ![w] = Fresh(req[r].email)]
  /\ UNCHANGED <<verif, cooldown, credentials, history>>

Login(r) ==
  \E w \in Wallets :
    /\ Active(w)
    /\ Arrives(r, Idle)
    /\ sessions' = sessions \cup {Session(w)}
    /\ UNCHANGED <<tables, cooldown, mail, linkCount, history>>

----------------------------------------------------------------------------
(* Requests with a bearer token.                                           *)

AcceptsAny(s) == TRUE

\* The token's version is the stored one, whether the row is deleted or not.
Accepts(s) == users[s.w].sv = s.sv

\* authJwtMiddleware in front of one of the four routes that need it.
Authenticate(r) ==
  \E s \in sessions, op \in {"logout", "edit", "delete", "change"} :
    /\ Accepts(s)
    /\ Arrives(r, [op |-> op, session |-> s])
    /\ UNCHANGED <<tables, cooldown, credentials, history>>

Bump(w) == [users EXCEPT ![w].sv = @ + 1]

\* POST /auth/logout.
Logout(r) ==
  LET s == req[r].session IN
  /\ Continues(r, "logout", Idle)
  /\ IF users[s.w].sv = s.sv
     THEN /\ s.sv < MaxVersion
          /\ users' = Bump(s.w)
          /\ revoked' = [revoked EXCEPT ![s.w] = @ + 1]
     ELSE UNCHANGED <<users, revoked>>
  /\ UNCHANGED <<verif, cooldown, credentials, stale, confirmed, uses>>

\* PATCH and DELETE /users/me: findOne in a transaction.
FindForSave(r) ==
  /\ req[r].op \in {"edit", "delete"}
  /\ LET w == req[r].session.w IN
     Goes(r, IF Active(w)
             THEN [op |-> "save", w |-> w,
                   row |-> [users[w] EXCEPT !.deleted = req[r].op = "delete"],
                   read |-> users[w]]
             ELSE Idle)
  /\ UNCHANGED <<begun, tables, cooldown, credentials, history>>

\* repository.save: the library reads the row again and writes back every
\* column that differs from the object it was given.
Save(r) ==
  LET w == req[r].w IN
  /\ Continues(r, "save", Idle)
  /\ IF AddressFree(w, req[r].row.email)
     THEN /\ users' = [users EXCEPT ![w] = req[r].row]
          /\ stale' = IF users[w] = req[r].read THEN stale ELSE stale \cup {w}
     ELSE UNCHANGED <<users, stale>>
  /\ UNCHANGED <<verif, cooldown, credentials, revoked, confirmed, uses>>

----------------------------------------------------------------------------
(* E-mails: a link is signed with the next number; sending it may fail.    *)

Mails(link) ==
  /\ linkCount < MaxLinks
  /\ linkCount' = linkCount + 1
  /\ mail' = mail \cup {link}
  /\ UNCHANGED sessions

\* POST /auth/email-change/request.
RequestChange(r) ==
  /\ Continues(r, "change", Idle)
  /\ LET w == req[r].session.w IN
     \/ /\ Active(w)
        /\ \E e \in Emails \ {users[w].email} :
             Mails([n |-> linkCount + 1, for |-> "change", email |-> e, w |-> w,
                    prev |-> users[w].email, sv |-> users[w].sv,
                    epoch |-> revoked[w]])
     \/ UNCHANGED credentials
  /\ UNCHANGED <<tables, cooldown, history>>

Links(purpose) == {l \in mail : l.for = purpose}

\* What the link was issued against still holds.
ChangeMatches(l) == users[l.w].sv = l.sv /\ users[l.w].email = l.prev

\* POST /auth/email-change/confirm: the lookup, then the conditional update.
CheckChange(r) ==
  \E l \in Links("change") :
    /\ Active(l.w) /\ ChangeMatches(l)
    /\ Arrives(r, [op |-> "apply", link |-> l])
    /\ UNCHANGED <<tables, cooldown, credentials, history>>

ApplyChange(r) ==
  LET l == req[r].link IN
  /\ Continues(r, "apply", Idle)
  /\ IF ChangeMatches(l) /\ AddressFree(l.w, l.email)
     THEN /\ users' = [users EXCEPT ![l.w].email = l.email, ![l.w].verified = TRUE]
          /\ confirmed' = confirmed \cup {l.email}
          /\ Used(l.n)
     ELSE UNCHANGED <<users, confirmed, uses>>
  /\ UNCHANGED <<verif, cooldown, credentials, revoked, stale>>

\* POST /auth/password-reset/request: the account, then its version.
RequestReset(r) ==
  \E e \in Emails :
    /\ \E w \in Wallets : Has(w, e)
    /\ Arrives(r, [op |-> "reset", email |-> e])
    /\ UNCHANGED <<tables, cooldown, credentials, history>>

MaxSessionVersion(e) ==
  LET versions == {users[w].sv : w \in {x \in Wallets : Has(x, e)}}
  IN IF versions = {} THEN 0 ELSE Max(versions)

SendReset(r) ==
  /\ Continues(r, "reset", Idle)
  /\ \/ Mails([n |-> linkCount + 1, for |-> "reset", email |-> req[r].email,
               sv |-> MaxSessionVersion(req[r].email)])
     \/ UNCHANGED credentials
  /\ UNCHANGED <<tables, cooldown, history>>

\* The accounts a reset link revokes: none if one of them has moved past it.
Revocable(l) ==
  LET holders == {w \in Wallets : Has(w, l.email)}
  IN IF \E w \in holders : users[w].sv > l.sv THEN {} ELSE holders

\* POST /auth/password-reset/confirm.
ConfirmReset(r) ==
  \E l \in Links("reset") :
    /\ Revocable(l) # {}
    /\ Arrives(r, Idle)
    /\ \A w \in Revocable(l) : users[w].sv < MaxVersion
    /\ users' = [w \in Wallets |-> IF w \in Revocable(l)
                                   THEN [users[w] EXCEPT !.sv = @ + 1]
                                   ELSE users[w]]
    /\ revoked' = [w \in Wallets |-> IF w \in Revocable(l)
                                     THEN revoked[w] + 1 ELSE revoked[w]]
    /\ Used(l.n)
    /\ UNCHANGED <<verif, cooldown, credentials, stale, confirmed>>

----------------------------------------------------------------------------
(* Verification of an address.                                             *)

\* The resend slot of an address is claimed before anything is awaited.
TryAcquire(e) == e \notin cooldown /\ cooldown' = cooldown \cup {e}

\* Gives the slot back, whoever claimed it last.
Release(e) == cooldown' = cooldown \ {e}

\* POST /auth/email-verification/resend: the slot and the lookup.
Resend(r) ==
  \E e \in Emails :
    /\ TryAcquire(e)
    /\ Arrives(r, IF \E w \in Wallets : Has(w, e) /\ Active(w) /\ ~users[w].verified
                  THEN [op |-> "rotate", email |-> e] ELSE Idle)
    /\ UNCHANGED <<tables, credentials, history>>

\* The new link becomes the only live one of its address.
Rotate(r) ==
  LET e == req[r].email IN
  /\ Continues(r, "rotate", [op |-> "send", email |-> e, n |-> linkCount + 1])
  /\ linkCount < MaxLinks
  /\ linkCount' = linkCount + 1
  /\ verif' = [verif EXCEPT ![e] = [link |-> linkCount + 1, consumed |-> FALSE]]
  /\ UNCHANGED <<users, cooldown, sessions, mail, history>>

SendVerification(r) ==
  /\ Continues(r, "send", Idle)
  /\ mail' = mail \cup {[n |-> req[r].n, for |-> "verify", email |-> req[r].email]}
  /\ UNCHANGED <<tables, cooldown, sessions, linkCount, history>>

Invalidate(e, n) == verif' = [verif EXCEPT ![e].consumed = @ \/ verif[e].link = n]

\* The send failed: the link is made unusable, which may fail too, and the
\* slot is given back.
SendFails(r) ==
  LET e == req[r].email IN
  /\ Continues(r, "send", Idle)
  /\ Invalidate(e, req[r].n) \/ UNCHANGED verif
  /\ Release(e)
  /\ UNCHANGED <<users, credentials, history>>

\* The conditional update that makes a link the live one that is spent.
Consume(l) ==
  /\ verif[l.email] = [link |-> l.n, consumed |-> FALSE]
  /\ verif' = [verif EXCEPT ![l.email].consumed = TRUE]

\* POST /auth/email-verification/confirm: consume, then mark the accounts.
ConfirmVerification(r) ==
  \E l \in Links("verify") :
    /\ Consume(l)
    /\ Arrives(r, [op |-> "mark", email |-> l.email])
    /\ confirmed' = confirmed \cup {l.email}
    /\ Used(l.n)
    /\ UNCHANGED <<users, cooldown, credentials, revoked, stale>>

MarkAll(e) == [w \in Wallets |-> IF Exists(w) THEN [users[w] EXCEPT !.verified = TRUE]
                                 ELSE users[w]]

Marked(e) == [w \in Wallets |-> IF Has(w, e) THEN [users[w] EXCEPT !.verified = TRUE]
                                ELSE users[w]]

MarkVerified(r) ==
  /\ Continues(r, "mark", Idle)
  /\ users' = Marked(req[r].email)
  /\ UNCHANGED <<verif, cooldown, credentials, history>>

\* The cooldown of an address runs out.
CooldownEnds(e) ==
  /\ e \in cooldown
  /\ cooldown' = cooldown \ {e}
  /\ UNCHANGED <<tables, credentials, req, begun, history>>

\* A statement of a request throws, or its process dies.
Fails(r) ==
  /\ req[r].op \notin {"idle", "send"}
  /\ IF req[r].op = "rotate" THEN Release(req[r].email) ELSE UNCHANGED cooldown
  /\ Goes(r, Idle)
  /\ UNCHANGED <<tables, credentials, begun, history>>

Next ==
  \/ \E r \in Slots :
       \/ Register(r) \/ Insert(r) \/ Login(r) \/ Authenticate(r) \/ Logout(r)
       \/ FindForSave(r) \/ Save(r) \/ RequestChange(r) \/ CheckChange(r)
       \/ ApplyChange(r) \/ RequestReset(r) \/ SendReset(r) \/ ConfirmReset(r)
       \/ Resend(r) \/ Rotate(r) \/ SendVerification(r) \/ SendFails(r)
       \/ ConfirmVerification(r) \/ MarkVerified(r) \/ Fails(r)
  \/ \E e \in Emails : CooldownEnds(e)

Spec == Init /\ [][Next]_vars

----------------------------------------------------------------------------
(* Properties.                                                             *)

\* An account counts as verified only for an address whose owner followed a
\* link that was mailed there, whatever changes of address, resends, stale
\* saves and confirmations overlap.
VerifiedOwnsAddress ==
  \A w \in Wallets : Exists(w) /\ users[w].verified => users[w].email \in confirmed

\* Logout and password reset are final for what was issued before them: a
\* session is accepted, and an e-mail-change link takes effect, only if no
\* revocation of the account came since it was issued, unless a profile save
\* wrote an older row back.
RevocationRespected ==
  \A r \in Slots :
    /\ req[r] = Idle /\ req'[r].op \in {"logout", "edit", "delete", "change"}
         => LET s == req'[r].session
            IN s.epoch = revoked[s.w] \/ s.w \in stale
    /\ req[r].op = "apply" /\ uses'[req[r].link.n] # uses[req[r].link.n]
         => LET l == req[r].link
            IN l.epoch = revoked[l.w] \/ l.w \in stale
RevocationIsFinal == [][RevocationRespected]_vars

\* The links are single-use: once a link has changed an address, confirmed a
\* reset or verified an address, following it again matches nothing (as long
\* as no profile save wrote an older row back).
LinksWorkOnce == stale = {} => \A n \in 1..MaxLinks : uses[n] <= 1
=============================================================================
