--------------------------- MODULE AuthChallenge ---------------------------
(***************************************************************************)
(* The dialog that asks a wallet to sign a challenge (WalletAuthChallenge).*)
(* The wallet answers whenever its user does, a timer of one second looks  *)
(* at the challenge's expiry, and a refresh replaces the challenge under a *)
(* request that is still open in the wallet.                               *)
(***************************************************************************)
EXTENDS Naturals

CONSTANTS
  MaxChallenges,  \* bound: the challenges of one session
  TTL,            \* the life time of a challenge
  MaxAsks         \* bound: the requests to the wallet

VARIABLES
  challenge,     \* the challenge shown, numbered in the order of issue
  left,          \* the time until it expires
  timeRemaining, \* what the timer last made of that
  status,        \* WalletAuthChallengeStatus, or "closed" once it is dismissed
  isRefreshing,
  asked,         \* the requests the wallet has not answered: their challenges
  verified,      \* the challenges whose signature the parent accepted
  asks,          \* the number of requests so far
  twice          \* a request was made for a challenge open or verified

vars == <<challenge, left, timeRemaining, status, isRefreshing, asked,
          verified, asks, twice>>

\* What the dialog holds to be over: its own status, or the timer's number.
isExpired == status = "expired" \/ timeRemaining = 0

Init ==
  /\ challenge = 1
  /\ left = TTL
  /\ timeRemaining = TTL
  /\ status = "idle"
  /\ isRefreshing = FALSE
  /\ asked = {}
  /\ verified = {}
  /\ asks = 0
  /\ twice = FALSE

Passes ==
  /\ left > 0
  /\ left' = left - 1
  /\ UNCHANGED <<challenge, timeRemaining, status, isRefreshing, asked,
                 verified, asks, twice>>

\* Faulty variant: the interval stands still while the wallet is asked.
ExpiryTimerPaused ==
  /\ status \notin {"closed", "awaiting_signature"}
  /\ timeRemaining # left \/ (left = 0 /\ status \notin {"expired", "success"})
  /\ timeRemaining' = left
  /\ status' = IF left = 0 /\ status # "success" THEN "expired" ELSE status
  /\ UNCHANGED <<challenge, left, isRefreshing, asked, verified, asks, twice>>

\* The interval: the remaining time is read anew, and a challenge without any
\* is expired, unless it was answered.
ExpiryTimer ==
  /\ status # "closed"
  /\ timeRemaining # left \/ (left = 0 /\ status \notin {"expired", "success"})
  /\ timeRemaining' = left
  /\ status' = IF left = 0 /\ status # "success" THEN "expired" ELSE status
  /\ UNCHANGED <<challenge, left, isRefreshing, asked, verified, asks, twice>>

\* The button: shown before the expiry and before a success, and disabled
\* while the wallet is asked.
signable ==
  ~isExpired /\ status \notin {"success", "closed", "awaiting_signature"}

handleSign ==
  /\ signable
  /\ asks < MaxAsks
  /\ status' = "awaiting_signature"
  /\ asked' = asked \cup {challenge}
  /\ asks' = asks + 1
  /\ twice' = (twice \/ challenge \in asked \cup verified)
  /\ UNCHANGED <<challenge, left, timeRemaining, isRefreshing, verified>>

\* The wallet signs and the parent accepts.  The status is set whatever
\* challenge is shown by now.
Signed(c) ==
  /\ c \in asked
  /\ asked' = asked \ {c}
  /\ verified' = verified \cup {c}
  /\ status' = IF status = "closed" THEN "closed" ELSE "success"
  /\ UNCHANGED <<challenge, left, timeRemaining, isRefreshing, asks, twice>>

\* The user declines, or something fails.
NotSigned(c, how) ==
  /\ c \in asked
  /\ asked' = asked \ {c}
  /\ status' = IF status = "closed" THEN "closed" ELSE how
  /\ UNCHANGED <<challenge, left, timeRemaining, isRefreshing, verified, asks,
                 twice>>

handleRefresh ==
  /\ isExpired
  /\ status # "closed"
  /\ ~isRefreshing
  /\ isRefreshing' = TRUE
  /\ UNCHANGED <<challenge, left, timeRemaining, status, asked, verified, asks,
                 twice>>

\* The parent hands down a new challenge; the two effects on the properties
\* start it with its full time and an idle status.
Refreshed ==
  /\ isRefreshing
  /\ challenge < MaxChallenges
  /\ isRefreshing' = FALSE
  /\ challenge' = challenge + 1
  /\ left' = TTL
  /\ timeRemaining' = TTL
  /\ status' = IF status = "closed" THEN "closed" ELSE "idle"
  /\ UNCHANGED <<asked, verified, asks, twice>>

RefreshFails ==
  /\ isRefreshing
  /\ isRefreshing' = FALSE
  /\ status' = IF status = "closed" THEN "closed" ELSE "error"
  /\ UNCHANGED <<challenge, left, timeRemaining, asked, verified, asks, twice>>

handleRetry ==
  /\ ~isExpired
  /\ status \in {"rejected", "error"}
  /\ status' = "idle"
  /\ UNCHANGED <<challenge, left, timeRemaining, isRefreshing, asked, verified,
                 asks, twice>>

\* Cancel is disabled only while the wallet is asked, and hidden after success.
Cancel ==
  /\ status \notin {"success", "awaiting_signature", "closed"}
  /\ status' = "closed"
  /\ UNCHANGED <<challenge, left, timeRemaining, isRefreshing, asked, verified,
                 asks, twice>>

Next ==
  \/ Passes
  \/ ExpiryTimer
  \/ handleSign
  \/ \E c \in asked : Signed(c)
  \/ \E c \in asked, how \in {"rejected", "error"} : NotSigned(c, how)
  \/ handleRefresh
  \/ Refreshed
  \/ RefreshFails
  \/ handleRetry
  \/ Cancel

\* The browser's interval keeps firing while the dialog is mounted.
Fairness == WF_vars(ExpiryTimer)

Spec == Init /\ [][Next]_vars /\ Fairness

-----------------------------------------------------------------------------
\* A challenge that has run out always comes to offer a new one, also under an
\* open wallet, after a late answer or after a refresh that failed; otherwise
\* its user would be left with a button that can only fail.
ExpiryOffersRefresh ==
  left = 0 ~> (isExpired \/ left > 0 \/ status = "closed")

\* "challenges are single-use": the wallet is never asked to sign a challenge
\* that it is already asked to sign or whose signature was accepted, whatever
\* expiries, refusals, failed refreshes and late answers come in between.
\* Does not hold: a late refusal of an old challenge reopens the button while
\* the wallet is still asked to sign the new one.
ChallengeSignedOnce == ~twice
=============================================================================
