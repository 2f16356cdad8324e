------------------------------ MODULE Notifications ------------------------------
(*****************************************************************************)
(* The notification store, its deliveries and its readers                    *)
(* (services/notifications.service.ts,                                       *)
(* services/notification-preferences.service.ts, routes/notifications.ts).   *)
(*                                                                           *)
(* Workers replay events: two of them may deliver the same event to the same *)
(* recipient at once, a recipient may save preferences, mark notices read    *)
(* and walk the list meanwhile, and any single statement may fail.  One      *)
(* database statement is one step.  Titles, bodies and metadata are left     *)
(* out.                                                                      *)
(*****************************************************************************)
EXTENDS Naturals, FiniteSets, Sequences, SequencesExt

CONSTANTS
  Recipients,   \* wallet addresses
  Events,       \* event keys (buildEventKey)
  CategoryOf,   \* event key -> NotificationCategory
  Workers,      \* callers of the delivery functions; also the `source' of a row
  Ids,          \* primary keys: a set of numbers, UUIDs whose order is arbitrary
  Reader,       \* the recipient who reads, saves preferences and walks the list
  PageSize,     \* limit of one listed page
  Saves,        \* the preference updates requests may carry: sequences of
                \* [category, enabled]
  MaxSaves,     \* bound on preference requests
  MaxTime       \* the clock

VARIABLES
  rows,         \* the table: id -> row, Absent before it is inserted
  prefs,        \* notification_preferences: <<wallet, category>> -> enabled or "unset"
  asked,        \* every <<wallet, category>> its owner ever switched off (history)
  call,         \* each worker's call
  saving,       \* the reader's PUT /preferences: the updates still to write
  saves,        \* preference requests so far
  walk,         \* one reader's walk through GET /notifications
  now

vars == <<rows, prefs, asked, call, saving, saves, walk, now>>

Absent == [recipient |-> "none"]
Unread == MaxTime + 1
Present == {i \in Ids : rows[i] # Absent}
RowsOf(r) == {i \in Present : rows[i].recipient = r}
UnreadOf(r) == {i \in RowsOf(r) : rows[i].readAt = Unread}

-----------------------------------------------------------------------------
(* Categories and preferences.                                               *)

MANDATORY_CATEGORIES == {"security", "payment"}
OptionalCategories == {"project_activity", "participant_activity", "marketing"}

\* preferenceCategoryForNotification: what enqueueNotification consults;
\* "none" is the null of an operational notice.
preferenceCategoryForNotification(category) ==
  CASE category = "project"     -> "project_activity"
    [] category = "participant" -> "participant_activity"
    [] category = "system"      -> "none"
    [] OTHER                    -> category

\* toPreferenceCategory: what deliverNotification consults.
toPreferenceCategory(category) ==
  IF category = "system" THEN "marketing" ELSE preferenceCategoryForNotification(category)

\* getPreferences: a category without a row is enabled, a mandatory one always.
Enabled(r, c) == c \in MANDATORY_CATEGORIES \/ prefs[<<r, c>>] # "off"

\* PUT /preferences: refused as a whole when it would silence a mandatory
\* category, otherwise written one category at a time.
updatePreferences(updates) ==
  /\ saving = <<>> /\ saves < MaxSaves /\ saves' = saves + 1
  /\ \A n \in DOMAIN updates : updates[n].category \in MANDATORY_CATEGORIES => updates[n].enabled = "on"
  /\ saving' = updates
  /\ asked' = asked \union {<<Reader, updates[n].category>> : n \in {m \in DOMAIN updates : updates[m].enabled = "off"}}
  /\ UNCHANGED <<rows, prefs, call, walk, now>>

UpsertPreference ==
  /\ saving # <<>>
  /\ prefs' = [prefs EXCEPT ![<<Reader, Head(saving).category>>] = Head(saving).enabled]
  /\ saving' = Tail(saving)
  /\ UNCHANGED <<rows, asked, call, saves, walk, now>>

\* A failing upsert ends the request; the ones before it stay.
UpsertFails ==
  /\ saving # <<>>
  /\ saving' = <<>>
  /\ UNCHANGED <<rows, prefs, asked, call, saves, walk, now>>

-----------------------------------------------------------------------------
(* Deliveries.                                                               *)

NoCall == [by |-> "none", event |-> "none", todo |-> <<>>, pc |-> "idle", pref |-> "none",
           out |-> [r \in Recipients |-> "none"]]

\* Both entry points skip the preferences table for a mandatory category.
AfterGate(pref) == IF pref \in {"none"} \union MANDATORY_CATEGORIES THEN "insert" ELSE "prefs"

Begin(w, by, e, to, pref) ==
  /\ call[w].pc = "idle"
  /\ call' = [call EXCEPT ![w] = [by |-> by, event |-> e, todo |-> to, pref |-> pref,
                                   pc |-> AfterGate(pref), out |-> @.out]]
  /\ UNCHANGED <<rows, prefs, asked, saving, saves, walk, now>>

\* Faulty variant: both entry points consult the table of the older one.
EnqueueByOtherTable(w, e, r) ==
  Begin(w, "enqueue", e, <<r>>, toPreferenceCategory(CategoryOf[e]))

enqueueNotification(w, e, r) ==
  Begin(w, "enqueue", e, <<r>>, preferenceCategoryForNotification(CategoryOf[e]))

deliverNotification(w, e, r) ==
  Begin(w, "deliver", e, <<r>>, toPreferenceCategory(CategoryOf[e]))

\* createNotifications: one event to several recipients, one after the other,
\* without asking the preferences.
createNotifications(w, e, to) == Begin(w, "create", e, to, "none")

\* shouldDeliver
shouldDeliver(w) ==
  LET r == Head(call[w].todo)
  IN  /\ call[w].pc = "prefs"
      /\ call' = [call EXCEPT ![w] =
           IF Enabled(r, @.pref)
           THEN [@ EXCEPT !.pc = "insert"]
           ELSE [@ EXCEPT !.pc = "done", !.out[r] = "suppressed"]]
      /\ UNCHANGED <<rows, prefs, asked, saving, saves, walk, now>>

\* The call goes on to its next recipient with the outcome of this one.
Settled(c, outcome) ==
  [c EXCEPT !.out[Head(c.todo)] = outcome,
            !.todo = Tail(c.todo),
            !.pc = IF Len(c.todo) = 1 THEN "done" ELSE "insert"]

\* Faulty variant: the unique index tells sources apart.
ConflictsBySource(w) ==
  \E i \in RowsOf(Head(call[w].todo)) : rows[i].event = call[w].event /\ rows[i].source = w

\* The unique index on (recipient, eventKey).
Conflicts(w) == \E i \in RowsOf(Head(call[w].todo)) : rows[i].event = call[w].event

\* createNotification: the insert.
Insert(w) ==
  /\ call[w].pc = "insert" /\ ~Conflicts(w)
  /\ \E i \in Ids \ Present :
       rows' = [rows EXCEPT ![i] = [recipient |-> Head(call[w].todo), event |-> call[w].event,
                                     source |-> w, createdAt |-> now, readAt |-> Unread]]
  /\ call' = [call EXCEPT ![w] = Settled(@, "created")]
  /\ UNCHANGED <<prefs, asked, saving, saves, walk, now>>

\* createNotification: the insert meets the index.
UniqueViolation(w) ==
  /\ call[w].pc = "insert" /\ Conflicts(w)
  /\ call' = [call EXCEPT ![w].pc = "readback"]
  /\ UNCHANGED <<rows, prefs, asked, saving, saves, walk, now>>

\* createNotification: the loser reads the row of the winner.
ReadBack(w) ==
  /\ call[w].pc = "readback"
  /\ call' = [call EXCEPT ![w] = Settled(@, "existing")]
  /\ UNCHANGED <<rows, prefs, asked, saving, saves, walk, now>>

\* Any other database error leaves createNotification, and with it the loop of
\* createNotifications.
StatementFails(w) ==
  /\ call[w].pc \in {"prefs", "insert", "readback"}
  /\ call' = [call EXCEPT ![w].out[Head(call[w].todo)] = "failed", ![w].pc = "done"]
  /\ UNCHANGED <<rows, prefs, asked, saving, saves, walk, now>>

-----------------------------------------------------------------------------
(* Readers.                                                                  *)

\* WHERE recipient = :recipient AND readAt IS NULL
Markable(r) == UnreadOf(r)

\* markRead (one id) and markAllRead (every unread one).
Mark(ids) ==
  /\ ids # {}
  /\ rows' = [i \in Ids |-> IF i \in ids THEN [rows[i] EXCEPT !.readAt = now] ELSE rows[i]]
  /\ UNCHANGED <<prefs, asked, call, saving, saves, walk, now>>

markRead == \E i \in Markable(Reader) : Mark({i})

markAllRead == Mark(Markable(Reader))

NoCursor == [t |-> MaxTime + 1, id |-> 0]
NoWalk == [cursor |-> NoCursor, shown |-> <<>>, there |-> {}, pc |-> "idle"]

\* Faulty variant: as many rows are skipped as were shown.
AfterCursorByOffset(c) ==
  LET newer(i, j) == rows[i].createdAt > rows[j].createdAt \/ (rows[i].createdAt = rows[j].createdAt /\ i > j)
  IN  {i \in UnreadOf(Reader) : Cardinality({j \in UnreadOf(Reader) : newer(j, i)}) >= Len(walk.shown)}

\* The reader's unread rows past the cursor.
AfterCursor(c) ==
  {i \in UnreadOf(Reader) : rows[i].createdAt < c.t \/ (rows[i].createdAt = c.t /\ i < c.id)}

\* ORDER BY createdAt DESC, id DESC
NewestFirst(ids) ==
  CHOOSE s \in [1..Cardinality(ids) -> ids] :
    \A m, n \in 1..Cardinality(ids) :
      m < n => \/ rows[s[m]].createdAt > rows[s[n]].createdAt
               \/ rows[s[m]].createdAt = rows[s[n]].createdAt /\ s[m] > s[n]

StartWalk ==
  /\ walk = NoWalk
  /\ walk' = [walk EXCEPT !.there = UnreadOf(Reader), !.pc = "page"]
  /\ UNCHANGED <<rows, prefs, asked, call, saving, saves, now>>

\* listNotifications with unreadOnly: the page, one row more than its limit.
\* (The unread count beside it is a second statement that changes nothing.)
listNotifications ==
  LET found == NewestFirst(AfterCursor(walk.cursor))
      more  == Len(found) > PageSize
      items == IF more THEN SubSeq(found, 1, PageSize) ELSE found
  IN  /\ walk.pc = "page"
      /\ walk' = [walk EXCEPT !.shown = @ \o items,
                              !.cursor = IF more THEN [t |-> rows[Last(items)].createdAt, id |-> Last(items)]
                                         ELSE NoCursor,
                              !.pc = IF more THEN "page" ELSE "end"]
      /\ UNCHANGED <<rows, prefs, asked, call, saving, saves, now>>

Tick ==
  /\ now < MaxTime
  /\ now' = now + 1
  /\ UNCHANGED <<rows, prefs, asked, call, saving, saves, walk>>

-----------------------------------------------------------------------------
Init ==
  /\ rows = [i \in Ids |-> Absent]
  /\ prefs = [p \in Recipients \X OptionalCategories |-> "unset"]
  /\ asked = {}
  /\ call = [w \in Workers |-> NoCall]
  /\ saving = <<>>
  /\ saves = 0
  /\ walk = NoWalk
  /\ now = 0

Next ==
  \/ \E w \in Workers :
       \/ \E e \in Events : \E r \in Recipients : enqueueNotification(w, e, r) \/ deliverNotification(w, e, r)
       \/ \E e \in Events : \E to \in SetToSeqs(Recipients) : createNotifications(w, e, to)
       \/ shouldDeliver(w) \/ Insert(w) \/ UniqueViolation(w) \/ ReadBack(w) \/ StatementFails(w)
  \/ \E updates \in Saves : updatePreferences(updates)
  \/ UpsertPreference \/ UpsertFails
  \/ markRead \/ markAllRead
  \/ StartWalk \/ listNotifications \/ Tick

Spec == Init /\ [][Next]_vars

-----------------------------------------------------------------------------
(* Properties.                                                               *)

\* "Which preference governs each *delivered* notification category": what an
\* owner has to switch off so that a notice may be kept from him.  Nothing does
\* it for security and payments (mandatory), nor for a system notice, which "is
\* operational ... and is always delivered" (notification-preferences.service.ts).
OptOutOf(category) ==
  CASE category = "project"     -> {"project_activity"}
    [] category = "participant" -> {"participant_activity"}
    [] OTHER                    -> {}

\* The one known departure from that table: deliverNotification takes marketing
\* for the preference of a system notice.
HeldAsMarketing(w, r) ==
  /\ call[w].by = "deliver" /\ CategoryOf[call[w].event] = "system"
  /\ <<r, "marketing">> \in asked

\* What a delivery reports is so: of all the calls for one event and recipient
\* at most one created the row, every other one that succeeded found it there
\* (services/notifications.service.ts, the unique index instead of a lookup),
\* and a notice is suppressed only when its owner switched off the preference
\* that governs it by the documented table (OptOutOf), whichever entry point was
\* called, but for the departure above.
OutcomesTrue ==
  /\ \A v, w \in Workers : \A r \in Recipients :
       /\ call[v].out[r] \in {"created", "existing"} =>
            Cardinality({i \in RowsOf(r) : rows[i].event = call[v].event}) = 1
       /\ call[v].out[r] = "created" /\ call[w].out[r] = "created" /\ call[v].event = call[w].event => v = w
  /\ \A w \in Workers : \A r \in Recipients :
       call[w].out[r] = "suppressed" =>
         \/ \E c \in OptOutOf(CategoryOf[call[w].event]) : <<r, c>> \in asked
         \/ HeldAsMarketing(w, r)

\* "null means the notice is operational (account/infrastructure plumbing) and
\* is always delivered" (notification-preferences.service.ts, of system notices).
\* Does not hold: HeldAsMarketing.
SystemNoticesDelivered ==
  \A w \in Workers : \A r \in Recipients :
    call[w].event # "none" /\ CategoryOf[call[w].event] = "system" => call[w].out[r] # "suppressed"

\* A walk over the unread notices reaches its end without showing one twice
\* and without passing over one that was there at the start and is still
\* unread, whatever arrives and is marked read between its pages.
WalkMissesNothing ==
  walk.pc = "end" =>
    /\ IsInjective(walk.shown)
    /\ walk.there \intersect UnreadOf(Reader) \subseteq Range(walk.shown)

\* "a duplicate or failure on one recipient does not abort the others"
\* (services/notifications.service.ts, createNotifications).  Does not hold: any
\* other error than the duplicate leaves the loop.
FanoutReachesOthers ==
  \A w \in Workers : call[w].pc = "done" => Len(call[w].todo) <= 1
=============================================================================
