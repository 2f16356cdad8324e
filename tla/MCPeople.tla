------------------------------ MODULE MCPeople -------------------------------
(***************************************************************************)
(* Who takes part and who may do what, one part per behaviour: membership  *)
(* changes, invitations and ownership, accounts and their links, sign-in   *)
(* attempts, and drafts and records of a split.                            *)
(***************************************************************************)
EXTENDS MembershipChanges, FiniteSets, TLC

CONSTANTS
  Slots,                                             \* requests under way at one time
  People, Invitees, Tokens, MaxInvitations,          \* of the invitations
  MaxCalls,
  Wallets, Emails, NoEmail, Registered,              \* of the accounts
  MaxRequests, MaxVersion, MaxLinks,
  LOGIN_FAILURE_LIMIT, LOGIN_FAILURE_WINDOW,         \* of the sign-in attempts
  LOGIN_LOCKOUT, Capacity, Tries, MaxTries, MaxNow,
  Writers, Shares, Participants, MaxDrafts,          \* of the records
  MaxPayments, MaxRecordCalls, MaxClock

\* The instance: an admin and an admin's possible targets, an account.
MCInitialRoles == [Members -> {"admin", "viewer"}]
MCRegistered == [w \in {"w1"} |-> "e1"]
MCSymmetry == Permutations(Slots)

VARIABLE part   \* the part a behaviour belongs to

Unused == "unused"   \* the variables of the other parts

-----------------------------------------------------------------------------
(* Invitations, ownership and deletion.                                    *)

VARIABLES roles, money, invs, tokenIndex, owners, audit, invCall, calls

invVars == <<roles, money, invs, tokenIndex, owners, audit, invCall, calls>>

Inv == INSTANCE Invitations WITH InvSlots <- Slots, call <- invCall

InvInit ==
  \/ part = "invitations" /\ Inv!InvInit
  \/ /\ part # "invitations"
     /\ roles = Unused /\ money = Unused /\ invs = Unused
     /\ tokenIndex = Unused /\ owners = Unused /\ audit = Unused
     /\ invCall = Unused /\ calls = Unused

InvStep == part = "invitations" /\ Inv!InvNext

-----------------------------------------------------------------------------
(* Accounts, sessions and links.                                           *)

VARIABLES users, verif, cooldown, sessions, mail, req, begun, linkCount,
          revoked, stale, confirmed, uses

acctVars ==
  <<users, verif, cooldown, sessions, mail, req, begun, linkCount, revoked,
  stale, confirmed, uses>>

Accts == INSTANCE Accounts

ASSUME AccountsAssumption ==
  /\ NoEmail \notin Emails /\ DOMAIN Registered \subseteq Wallets
  /\ MaxRequests \in Nat /\ MaxVersion \in Nat /\ MaxLinks \in Nat

AcctsInit ==
  \/ part = "accounts" /\ Accts!Init
  \/ /\ part # "accounts"
     /\ users = Unused /\ verif = Unused /\ cooldown = Unused
     /\ sessions = Unused /\ mail = Unused /\ req = Unused /\ begun = Unused
     /\ linkCount = Unused /\ revoked = Unused /\ stale = Unused
     /\ confirmed = Unused /\ uses = Unused

AcctsStep == part = "accounts" /\ Accts!Next

-----------------------------------------------------------------------------
(* Sign-in attempts.                                                       *)

VARIABLES now, entries, trying, tried, wrong

loginVars == <<now, entries, trying, tried, wrong>>

Login == INSTANCE LoginAttempts

\* A lockout lasts at least as long as a window of failures (both 15 minutes).
ASSUME LoginAssumption ==
  /\ LOGIN_FAILURE_LIMIT \in Nat \ {0} /\ LOGIN_FAILURE_WINDOW \in Nat \ {0}
  /\ LOGIN_LOCKOUT \in Nat /\ LOGIN_LOCKOUT >= LOGIN_FAILURE_WINDOW
  /\ IsFiniteSet(Tries) /\ "none" \notin Wallets

LoginInit ==
  \/ part = "login" /\ Login!LoginInit
  \/ /\ part # "login"
     /\ now = Unused /\ entries = Unused /\ trying = Unused /\ tried = Unused
     /\ wrong = Unused

LoginStep == part = "login" /\ Login!LoginNext

-----------------------------------------------------------------------------
(* Drafts and records.                                                     *)

VARIABLES project, clock, drafts, limit, cancelled, archived, payments,
          doing, made, wins

recVars ==
  <<project, clock, drafts, limit, cancelled, archived, payments, doing,
  made, wins>>

Recs == INSTANCE SplitRecords WITH RecSlots <- Slots, MaxCalls <- MaxRecordCalls

RecsInit ==
  \/ part = "records" /\ Recs!RecInit
  \/ /\ part # "records"
     /\ project = Unused /\ clock = Unused /\ drafts = Unused
     /\ limit = Unused /\ cancelled = Unused /\ archived = Unused
     /\ payments = Unused /\ doing = Unused /\ made = Unused /\ wins = Unused

RecsStep == part = "records" /\ Recs!RecNext

-----------------------------------------------------------------------------
MCInit ==
  /\ part \in {"membership", "invitations", "accounts", "login", "records"}
  /\ Init /\ (part # "membership" => \A m \in Members : record.roles[m] = "viewer")
  /\ InvInit /\ AcctsInit /\ LoginInit /\ RecsInit

\* One part moves.
MCNext ==
  \/ /\ part = "membership" /\ Next
     /\ UNCHANGED <<part, invVars, acctVars, loginVars, recVars>>
  \/ InvStep /\ UNCHANGED <<part, vars, acctVars, loginVars, recVars>>
  \/ AcctsStep /\ UNCHANGED <<part, vars, invVars, loginVars, recVars>>
  \/ LoginStep /\ UNCHANGED <<part, vars, invVars, acctVars, recVars>>
  \/ RecsStep /\ UNCHANGED <<part, vars, invVars, acctVars, loginVars>>

mcVars == <<part, vars, invVars, acctVars, loginVars, recVars>>

MCSpec == MCInit /\ [][MCNext]_mcVars
-----------------------------------------------------------------------------
\* An invitation that was issued again is the only one of its address among
\* all that were issued before it (reinvite, invitation-registry.ts).
ReinviteReplaces == part = "invitations" => Inv!ReinviteReplaces

\* An account counts as verified only for an address whose owner followed a
\* link mailed there (users.ts, email-verification).
VerifiedOwnsAddress == part = "accounts" => Accts!VerifiedOwnsAddress

\* Parallel attempts reserve what they may still fail, so no interleaving of
\* them, and no eviction of a full table, grants a wallet more wrong guesses
\* than the limit within a window (login-attempts.ts).
GuessesBounded == part = "login" => Login!ReservationsHold /\ Login!GuessesBounded

\* In whatever order payment records arrive, a participant's status is the best
\* of his records, a published draft stays whole, and a split that two requests
\* cancel is cancelled once (split-lifecycle.ts, split-drafts, cancellation).
RecordsSound ==
  part = "records" =>
    Recs!StatusIsBest /\ Recs!PublishedDraftsWhole /\ Recs!CancelledOnce

\* What has ended does not come back: an invitation that was cancelled, expired
\* or accepted stays so (invitation-registry.ts), and a session or a link issued
\* before a revocation has no effect after it, unless a profile save wrote an
\* older row back (session-revocation.ts).
EndedStaysEnded ==
  [][/\ part = "invitations" => Inv!EndedStay
     /\ part = "accounts" => Accts!RevocationRespected]_<<invVars, acctVars>>

\* The behaviours of the accounts alone.
AccountsSpec == part = "accounts" /\ MCSpec

\* The mailed links are single-use (auth-account.ts).  Does not hold: a second
\* change of address makes the first link match again.
LinksWorkOnce == part = "accounts" => Accts!LinksWorkOnce
=============================================================================
