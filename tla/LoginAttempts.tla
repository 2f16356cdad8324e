---------------------------- MODULE LoginAttempts ----------------------------
(***************************************************************************)
(* LoginAttemptStore (login-attempts.ts): the store of failed sign-ins of  *)
(* POST /users/login.  An attempt reserves a place before it awaits the    *)
(* database and settles it afterwards; attempts of one wallet, and of      *)
(* wallets that compete for the store's capacity, overlap.                 *)
(***************************************************************************)
EXTENDS Integers, Sequences, FiniteSets

CONSTANTS
  Wallets,
  LOGIN_FAILURE_LIMIT, LOGIN_FAILURE_WINDOW, LOGIN_LOCKOUT, Capacity,
  Tries,         \* attempts that may be in progress at the same time
  MaxTries,      \* attempts in a behaviour
  MaxNow         \* end of the clock

NoEntry == [failures |-> 0, windowStartedAt |-> 0, lockedUntil |-> 0, pending |-> -1]

VARIABLES
  now,
  entries,   \* wallet -> its AttemptState, or NoEntry
  trying,    \* attempt -> wallet it authenticates, or "none"
  tried,     \* attempts so far
  wrong      \* history: wallet -> times of rejections since its last success

loginVars == <<now, entries, trying, tried, wrong>>

LoginInit ==
  /\ now = 0 /\ tried = 0
  /\ entries = [w \in Wallets |-> NoEntry]
  /\ trying = [a \in Tries |-> "none"]
  /\ wrong = [w \in Wallets |-> <<>>]

expired(e) ==
  /\ e.pending = 0
  /\ IF e.lockedUntil > 0 THEN now >= e.lockedUntil
     ELSE now >= e.windowStartedAt + LOGIN_FAILURE_WINDOW

Stored(es) == {w \in Wallets : es[w] # NoEntry}
Sweep(es) == [w \in Wallets |-> IF expired(es[w]) THEN NoEntry ELSE es[w]]

\* Faulty variant: a full store makes room by dropping locks, too.
EntryEvicting(w) ==
  LET fresh == [NoEntry EXCEPT !.windowStartedAt = now, !.pending = 0]
      kept == IF expired(entries[w]) THEN [entries EXCEPT ![w] = NoEntry] ELSE entries
      room == [u \in Wallets |-> IF kept[u].pending = 0 THEN NoEntry ELSE kept[u]]
  IN  IF kept[w] # NoEntry THEN kept ELSE [room EXCEPT ![w] = fresh]

\* The store when an attempt of w has found or made its entry; w stays without
\* one when the store is full of entries that may not be dropped.
EntryFor(w) ==
  LET fresh == [NoEntry EXCEPT !.windowStartedAt = now, !.pending = 0]
      kept == IF expired(entries[w]) THEN [entries EXCEPT ![w] = NoEntry] ELSE entries
      swept == IF Cardinality(Stored(kept)) >= Capacity THEN Sweep(kept) ELSE kept
  IN  IF kept[w] # NoEntry THEN kept
      ELSE IF Cardinality(Stored(swept)) >= Capacity THEN swept
      ELSE [swept EXCEPT ![w] = fresh]

Refused(e) == e = NoEntry \/ e.lockedUntil > now \/ e.failures + e.pending >= LOGIN_FAILURE_LIMIT

\* The synchronous part of attempt.
Attempt(a, w) ==
  /\ trying[a] = "none" /\ tried < MaxTries /\ tried' = tried + 1
  /\ LET es == EntryFor(w) IN
       IF Refused(es[w]) THEN entries' = es /\ UNCHANGED trying
       ELSE /\ entries' = [es EXCEPT ![w].pending = @ + 1]
            /\ trying' = [trying EXCEPT ![a] = w]
  /\ UNCHANGED <<now, wrong>>

\* The `finally' clause.
Released(e) ==
  LET r == [e EXCEPT !.pending = @ - 1]
  IN  IF r.pending = 0 /\ r.failures = 0 THEN NoEntry ELSE r

\* Faulty variant: a success forgets the entry and the places reserved in it.
SettleForgets(e, result) ==
  IF result = "success" THEN NoEntry ELSE Released([e EXCEPT !.failures = @ + 1])

\* What `authenticate' said is entered: success, rejection, or an exception.
Settle(e, result) ==
  LET restart == now >= e.windowStartedAt + LOGIN_FAILURE_WINDOW
      count == (IF restart THEN 0 ELSE e.failures) + 1
  IN  Released(CASE result = "success" -> [e EXCEPT !.failures = 0, !.windowStartedAt = now]
                 [] result = "rejected" ->
                      [e EXCEPT !.failures = count,
                                !.windowStartedAt = IF restart THEN now ELSE @,
                                !.lockedUntil = IF count >= LOGIN_FAILURE_LIMIT
                                                THEN now + LOGIN_LOCKOUT ELSE @]
                 [] result = "error" -> e)

Answer(a, result) ==
  /\ trying[a] # "none"
  /\ LET w == trying[a] IN
       /\ entries' = [entries EXCEPT ![w] = Settle(@, result)]
       /\ wrong' = [wrong EXCEPT ![w] = CASE result = "success" -> <<>>
                                          [] result = "rejected" -> Append(@, now)
                                          [] result = "error" -> @]
  /\ trying' = [trying EXCEPT ![a] = "none"]
  /\ UNCHANGED <<now, tried>>

TimePasses ==
  /\ now < MaxNow /\ now' = now + 1
  /\ UNCHANGED <<entries, trying, tried, wrong>>

LoginNext ==
  \/ \E a \in Tries : \/ \E w \in Wallets : Attempt(a, w)
                      \/ \E r \in {"success", "rejected", "error"} : Answer(a, r)
  \/ TimePasses

LoginSpec == LoginInit /\ [][LoginNext]_loginVars
----------------------------------------------------------------------------
\* However attempts overlap, a wallet's entry stays in the store while any of
\* its attempts is in progress and counts exactly those; places taken and
\* failures together never pass the limit, and an account is locked only by
\* the last of them, with nothing left in progress that could undo the lock.
ReservationsHold ==
  \A w \in Wallets :
    LET e == entries[w]
        busy == Cardinality({a \in Tries : trying[a] = w})
    IN  /\ busy > 0 => e.pending = busy
        /\ e.failures + e.pending <= LOGIN_FAILURE_LIMIT
        /\ e.lockedUntil > 0 => e.pending = 0 /\ e.failures = LOGIN_FAILURE_LIMIT

\* In a span shorter than the window at most twice the limit less one sign-ins
\* of a wallet are rejected by the database without a success between them,
\* also across a lock, a restarted window or a store that was full.
GuessesBounded ==
  \A w \in Wallets :
    Cardinality({i \in DOMAIN wrong[w] : wrong[w][i] + LOGIN_FAILURE_WINDOW > now})
      <= 2 * LOGIN_FAILURE_LIMIT - 1

=============================================================================
