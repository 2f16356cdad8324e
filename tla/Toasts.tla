------------------------------- MODULE Toasts -------------------------------
(***************************************************************************)
(* The messages that pop up and the history of the failures among them.    *)
(* A toast leaves by its timer or by hand; a failure is also appended to a *)
(* list in localStorage, which all the tabs of the browser share and which *)
(* may refuse a write.  Every tab shows the list its last append returned. *)
(***************************************************************************)
EXTENDS Naturals, Sequences, SequencesExt

CONSTANTS
  Tabs,
  HISTORY_LIMIT,  \* TOAST_HISTORY_LIMIT
  MaxToasts,      \* bound: the toasts raised in all the tabs
  MaxReloads      \* bound: the reloads

VARIABLES
  toasts,    \* toasts[t]: the toasts on the screen of tab t
  timers,    \* timers[t]: those of them with a timer
  history,   \* history[t]: the failures tab t lists
  hydrated,  \* the tabs that have read the stored history
  stored,    \* the list in localStorage
  writable,  \* whether localStorage takes a write
  issued,    \* the number of toasts so far, each named by its number
  reloads,
  newest     \* newest[t]: the last failure of t, 0 for none or cleared

vars == <<toasts, timers, history, hydrated, stored, writable, issued, reloads,
          newest>>

\* Faulty variant: the oldest entries are the ones that are kept.
OldestOf(s) == SubSeq(s, 1, IF Len(s) < HISTORY_LIMIT THEN Len(s)
                                                      ELSE HISTORY_LIMIT)

\* slice(-TOAST_HISTORY_LIMIT)
LastOf(s) == SubSeq(s, IF Len(s) > HISTORY_LIMIT THEN Len(s) - HISTORY_LIMIT + 1
                                                 ELSE 1, Len(s))

Init ==
  /\ toasts = [t \in Tabs |-> {}]
  /\ timers = [t \in Tabs |-> {}]
  /\ history = [t \in Tabs |-> <<>>]
  /\ hydrated = {}
  /\ stored = <<>>
  /\ writable = TRUE
  /\ issued = 0
  /\ reloads = 0
  /\ newest = [t \in Tabs |-> 0]

\* The effect after mounting: the stored list replaces the empty one, and the
\* tab starts to listen to the notification API.
Hydrate(t) ==
  /\ t \notin hydrated
  /\ hydrated' = hydrated \cup {t}
  /\ history' = [history EXCEPT ![t] = LastOf(stored)]
  /\ UNCHANGED <<toasts, timers, stored, writable, issued, reloads, newest>>

\* toast() of anything that is no failure, for some time or until dismissed.
Toast(t, sticky) ==
  /\ t \in hydrated /\ issued < MaxToasts
  /\ issued' = issued + 1
  /\ toasts' = [toasts EXCEPT ![t] = @ \cup {issued'}]
  /\ timers' = IF sticky THEN timers
               ELSE [timers EXCEPT ![t] = @ \cup {issued'}]
  /\ UNCHANGED <<history, hydrated, stored, writable, reloads, newest>>

\* toast() of a failure: appendToastHistory reads the stored list, appends,
\* writes it back if it can, and what it returns is what the tab lists.
ToastFailure(t) ==
  LET next == LastOf(Append(LastOf(stored), issued + 1)) IN
  /\ t \in hydrated /\ issued < MaxToasts
  /\ issued' = issued + 1
  /\ toasts' = [toasts EXCEPT ![t] = @ \cup {issued'}]
  /\ timers' = [timers EXCEPT ![t] = @ \cup {issued'}]
  /\ history' = [history EXCEPT ![t] = next]
  /\ stored' = IF writable THEN next ELSE stored
  /\ newest' = [newest EXCEPT ![t] = issued']
  /\ UNCHANGED <<hydrated, writable, reloads>>

\* dismiss: by the button, or by the timer, which it clears.
dismiss(t, id) ==
  /\ id \in toasts[t]
  /\ toasts' = [toasts EXCEPT ![t] = @ \ {id}]
  /\ timers' = [timers EXCEPT ![t] = @ \ {id}]
  /\ UNCHANGED <<history, hydrated, stored, writable, issued, reloads, newest>>

TimerFires(t) == \E id \in timers[t] : dismiss(t, id)

\* clearHistory: the stored list goes, and the list of this tab.
clearHistory(t) ==
  /\ t \in hydrated
  /\ history[t] # <<>>
  /\ history' = [history EXCEPT ![t] = <<>>]
  /\ stored' = <<>>
  /\ newest' = [newest EXCEPT ![t] = 0]
  /\ UNCHANGED <<toasts, timers, hydrated, writable, issued, reloads>>

\* A reload takes the screen, the timers and the list of the tab with it.
Reload(t) ==
  /\ t \in hydrated
  /\ reloads < MaxReloads
  /\ reloads' = reloads + 1
  /\ toasts' = [toasts EXCEPT ![t] = {}]
  /\ timers' = [timers EXCEPT ![t] = {}]
  /\ history' = [history EXCEPT ![t] = <<>>]
  /\ hydrated' = hydrated \ {t}
  /\ newest' = [newest EXCEPT ![t] = 0]
  /\ UNCHANGED <<stored, writable, issued>>

\* The quota is reached, or room is made.
StorageChanges ==
  /\ writable' = ~writable
  /\ UNCHANGED <<toasts, timers, history, hydrated, stored, issued, reloads,
                 newest>>

Next ==
  \/ \E t \in Tabs : Hydrate(t)
  \/ \E t \in Tabs, sticky \in BOOLEAN : Toast(t, sticky)
  \/ \E t \in Tabs : ToastFailure(t)
  \/ \E t \in Tabs : \E id \in toasts[t] : dismiss(t, id)
  \/ \E t \in Tabs : TimerFires(t)
  \/ \E t \in Tabs : clearHistory(t)
  \/ \E t \in Tabs : Reload(t)
  \/ StorageChanges

Spec == Init /\ [][Next]_vars

-----------------------------------------------------------------------------
\* The failure a tab reported last is in the list it offers, until the user
\* clears it: also when storage refused it and when another tab has filled or
\* emptied the shared list in the meantime.  This is what the history is for,
\* the toast itself being gone after a few seconds.
NewestFailureListed ==
  \A t \in Tabs : newest[t] # 0 => Contains(history[t], newest[t])

\* "the in-memory list and the persisted list cannot drift when a write
\* fails": a failure a tab lists is dropped only by the limit, a clear or a
\* reload.
\* Does not hold: the next append starts from the stored list, without what
\* storage refused.
ListedFailuresStay ==
  [][\A t \in Tabs : \A id \in Range(history[t]) :
       Contains(history'[t], id) \/ history'[t] = <<>>
         \/ Len(history'[t]) = HISTORY_LIMIT]_vars
=============================================================================
