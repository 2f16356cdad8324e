----------------------------- MODULE CreateForm -----------------------------
(***************************************************************************)
(* The form that creates a split, from the first keystroke to the list the *)
(* contract is asked to store.  Three validators see a list one after the  *)
(* other and none of them repeats another: the rules of the form's fields  *)
(* and its totals (CreateSplitWizardLegacy, split-app-legacy), the         *)
(* schema of the backend's route, and validate_collaborators on the        *)
(* ledger.  A fourth, the token picker, keeps a text of its own beside the *)
(* form's value.                                                           *)
(*                                                                         *)
(* The project id, the title, the category and the aliases have rules of   *)
(* the same kind, so `text` is the worst of them.  Building, signing and   *)
(* sending are module Submissions; drafts are module WalletSession.        *)
(***************************************************************************)
EXTENDS Shares, SequencesExt

CONSTANTS
  Bad,          \* what is typed for an address and is none, or nothing
  NoNumber,     \* a share that is not a whole number of basis points
  BpsTyped,     \* the shares that are typed
  Preset,       \* a token the picker offers
  Typed,        \* a token address typed into the picker
  NoToken,      \* the empty text
  MaxRows,      \* bound: the rows of the form
  MaxTime,      \* bound: the clock
  MaxBalance,   \* bound: the balances a payout is previewed for
  Cap           \* the contract's limit on collaborators

VARIABLES
  rows,      \* the recipients: [address, share]
  text,      \* the text fields: "blank", "plain", or "loose" (see TextRule)
  token,     \* the form's token
  picker,    \* the picker's own state: [custom, text, foreign]
  expires,   \* the expiry chosen, 0 for none
  clock,
  attempt    \* what the last attempt to submit came to

vars == <<rows, text, token, picker, expires, clock, attempt>>

Row == [address : Addresses \cup {Bad}, share : BpsTyped \cup {NoNumber}]

\* getInitialCreateCollaborators: two rows without an address, halves.
InitialRows == [i \in 1..2 |-> [address |-> Bad, share |-> TotalBps \div 2]]

-----------------------------------------------------------------------------
\* The rules of the fields, which handleSubmit checks.  `required` is content
\* with a text of spaces, and so is "loose", as is one the backend's patterns
\* refuse.
TextRule == text # "blank"

ShareRule(r) == r.share # NoNumber /\ r.share <= TotalBps

AddressRule(r) == r.address # Bad

isEmptyOrFuture == expires = 0 \/ expires > clock

FieldErrors ==
  {<<"text">> : x \in IF TextRule THEN {} ELSE {0}}
    \cup {<<"token">> : x \in IF token = NoToken THEN {0} ELSE {}}
    \cup {<<"expires">> : x \in IF isEmptyOrFuture THEN {} ELSE {0}}
    \cup {<<"address", i>> : i \in {j \in DOMAIN rows : ~AddressRule(rows[j])}}
    \cup {<<"share", i>> : i \in {j \in DOMAIN rows : ~ShareRule(rows[j])}}

\* What a share adds to the total: parseInt, or nothing.
Counted(r) == IF r.share = NoNumber THEN 0 ELSE r.share

totalBasisPoints == SeqSum([i \in DOMAIN rows |-> Counted(rows[i])])

\* findDuplicateCollaboratorAddressIds: every row of an address that another
\* row has too.
Duplicates ==
  {i \in DOMAIN rows :
     /\ AddressRule(rows[i])
     /\ \E j \in DOMAIN rows \ {i} : rows[j].address = rows[i].address}

isValid ==
  /\ FieldErrors = {}
  /\ totalBasisPoints = TotalBps
  /\ Duplicates = {}
  /\ Len(rows) >= 2

\* Faulty variant: the summary leaves out what no single field is wrong about.
FieldsOnly == FieldErrors

\* The errors the wizard lists: one per field, a duplicate at its address and
\* a wrong total at the first row.
SummaryErrors ==
  FieldErrors \cup {<<"address", i>> : i \in Duplicates}
    \cup {<<"total">> : x \in IF totalBasisPoints = TotalBps \/ rows = <<>>
                               THEN {} ELSE {0}}

-----------------------------------------------------------------------------
\* collaboratorSchema and createSplitSchema, on the payload runCreate makes.

\* Faulty variant: the schema asks for shares that are not negative.
PositiveOrZero(r) == r.share \in 0..TotalBps

Positive(r) == r.share \in 1..TotalBps

Distinct ==
  \A i, j \in DOMAIN rows : rows[i].address = rows[j].address => i = j

createSplitSchema ==
  /\ text = "plain"
  /\ Len(rows) >= 2
  /\ \A i \in DOMAIN rows : AddressRule(rows[i]) /\ Positive(rows[i])
  /\ isEmptyOrFuture
  /\ totalBasisPoints = TotalBps
  /\ Distinct

\* The list the contract is handed: toCollaboratorScVal of every row.
Collaborators ==
  [i \in DOMAIN rows |-> [address |-> rows[i].address, bps |-> rows[i].share]]

-----------------------------------------------------------------------------
Init ==
  /\ rows = InitialRows
  /\ text = "blank"
  /\ token = NoToken
  /\ picker = [custom |-> FALSE, text |-> NoToken, foreign |-> FALSE]
  /\ expires = 0
  /\ clock = 0
  /\ attempt = "none"

\* Editing a field forgets nothing of the last attempt but its answer.
Edited == attempt' = "none"

TypeText(t) ==
  /\ t # text
  /\ text' = t
  /\ Edited
  /\ UNCHANGED <<rows, token, picker, expires, clock>>

EditRow(i, r) ==
  /\ r # rows[i]
  /\ rows' = [rows EXCEPT ![i] = r]
  /\ Edited
  /\ UNCHANGED <<text, token, picker, expires, clock>>

appendCollaborator ==
  /\ Len(rows) < MaxRows
  /\ rows' = Append(rows, [address |-> Bad, share |-> 0])
  /\ Edited
  /\ UNCHANGED <<text, token, picker, expires, clock>>

removeCollaborator(i) ==
  /\ Len(rows) > 2
  /\ rows' = RemoveAt(rows, i)
  /\ Edited
  /\ UNCHANGED <<text, token, picker, expires, clock>>

ChooseExpiry(e) ==
  /\ e # expires
  /\ expires' = e
  /\ Edited
  /\ UNCHANGED <<rows, text, token, picker, clock>>

Tick ==
  /\ clock < MaxTime
  /\ clock' = clock + 1
  /\ UNCHANGED <<rows, text, token, picker, expires, attempt>>

-----------------------------------------------------------------------------
\* The token picker.  Choosing "Custom" opens the text field and leaves the
\* form's token as it was, until something is typed.
ChooseCustom ==
  /\ ~picker.custom
  /\ picker' = [custom  |-> TRUE,
                text    |-> IF token = Preset THEN NoToken ELSE token,
                foreign |-> FALSE]
  /\ UNCHANGED <<rows, text, token, expires, clock, attempt>>

ChoosePreset(t) ==
  /\ picker' = [custom |-> FALSE, text |-> NoToken, foreign |-> FALSE]
  /\ token' = t
  /\ <<picker', token'>> # <<picker, token>>
  /\ Edited
  /\ UNCHANGED <<rows, text, expires, clock>>

TypeCustom ==
  /\ picker.custom
  /\ token # Typed \/ picker.text # Typed
  /\ picker' = [picker EXCEPT !.text = Typed, !.foreign = FALSE]
  /\ token' = Typed
  /\ Edited
  /\ UNCHANGED <<rows, text, expires, clock>>

\* Escape clears whatever is chosen and closes the text field.
Escape ==
  /\ token # NoToken \/ picker.custom
  /\ picker' = [custom |-> FALSE, text |-> NoToken, foreign |-> FALSE]
  /\ token' = NoToken
  /\ Edited
  /\ UNCHANGED <<rows, text, expires, clock>>

\* Another account connects and has no draft: the form starts clean.  The
\* picker is not mounted anew and keeps its own state.
SwitchAccount ==
  /\ rows' = InitialRows
  /\ text' = "blank"
  /\ token' = NoToken
  /\ expires' = 0
  /\ attempt' = "none"
  /\ picker' = [picker EXCEPT !.foreign = picker.text # NoToken]
  /\ UNCHANGED clock

-----------------------------------------------------------------------------
\* focusFirstError: with several errors the summary is shown and focused, with
\* one its field is focused, and with none nothing is.
Revealed ==
  CASE SummaryErrors = {} -> "silent"
    [] \E e \in SummaryErrors : SummaryErrors = {e} -> "focused"
    [] OTHER -> "summary"

\* submitForm: the rules of the fields and what isValid adds to them decide
\* whether the backend is asked; what it builds goes to the wallet.
submitForm ==
  /\ attempt = "none"
  /\ attempt' = CASE ~isValid -> Revealed
                  [] isValid /\ ~createSplitSchema -> "refused"
                  [] OTHER -> "built"
  /\ UNCHANGED <<rows, text, token, picker, expires, clock>>

Next ==
  \/ \E t \in {"blank", "plain", "loose"} : TypeText(t)
  \/ \E i \in DOMAIN rows, r \in Row : EditRow(i, r)
  \/ appendCollaborator
  \/ \E i \in DOMAIN rows : removeCollaborator(i)
  \/ \E e \in 0..MaxTime : ChooseExpiry(e)
  \/ Tick
  \/ ChooseCustom
  \/ \E t \in {NoToken, Preset} : ChoosePreset(t)
  \/ TypeCustom
  \/ Escape
  \/ SwitchAccount
  \/ submitForm

Spec == Init /\ [][Next]_vars

-----------------------------------------------------------------------------
\* previewDistribution: what the dialog before a distribution shows; nothing
\* where the contract would answer NoBalance.
previewDistribution(c, balance) ==
  IF balance <= 0 \/ balance < Len(c) THEN <<>>
  ELSE [i \in DOMAIN c |->
          IF i < Len(c) THEN Share(balance, c[i].bps)
          ELSE balance - SeqSum([k \in 1..Len(c) - 1 |->
                                   Share(balance, c[k].bps)])]

\* What is built for the wallet is a list the contract accepts, unless there
\* are more collaborators than its administrator allows: the form and the
\* backend's schema together refuse a zero share, an address twice and a total
\* that is not the whole, though the form alone lets a zero share pass.  And
\* the payout the dialog previews for such a list is, to the unit, what
\* distribute would send.
BuiltIsAccepted ==
  attempt = "built" =>
    /\ ValidCollaborators(Collaborators, MaxRows)
    /\ Len(rows) <= Cap => ValidCollaborators(Collaborators, Cap)
    /\ \A b \in 0..MaxBalance :
         previewDistribution(Collaborators, b) \in {<<>>, Payouts(Collaborators, b)}

\* Pressing the button of a form that cannot be sent tells why: whatever makes
\* isValid false, in any order of edits, is an error of the summary.  The form
\* keeps the button pressable for exactly this.
NothingFailsSilently == attempt # "silent"

\* "one account's input is never shown to, or saved under, another account":
\* the text in the token picker was typed under the account that is connected.
\* Does not hold: the picker keeps its own text when the form is reset for
\* another account.
TokenTextFollowsAccount ==
  picker.custom /\ picker.text # NoToken => ~picker.foreign
=============================================================================
