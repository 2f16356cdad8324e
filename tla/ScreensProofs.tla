--------------------------- MODULE ScreensProofs ---------------------------
(***************************************************************************)
(* Proofs about what the page shows and sends: the views of projects, the  *)
(* create form, submissions, the admin cards and the list of failures, for *)
(* any numbers of projects, rows, transactions, toggles and tabs.          *)
(***************************************************************************)
EXTENDS MCScreens, SumsProofs

-----------------------------------------------------------------------------
(* Submissions *)

\* A transaction as the page and the ledger know it, a run of a handler, the
\* receipt shown and the key of a creation.
Txs == [action : Actions, born : Nat, seq : Nat, state : {"built", "pending", "applied", "failed"},
        at : Nat, submittedAt : Nat, told : {"nothing", "unconfirmed", "succeeded", "failed", "expired"}]
Tasks == [pc : {"idle", "building", "signing", "sending", "polling", "refreshing"}, tx : Nat, attempt : Nat]
Receipts == [tx : Nat, lifecycle : {"none", "confirming", "success", "failed"}]
Keys == [payload : Payloads \cup {"none"}, reply : Nat]

SubsTypes ==
  /\ now \in Nat /\ txs \in Seq(Txs) /\ task \in [Actions -> Tasks]
  /\ unconfirmed \in [Actions -> Nat]
  /\ check \in [action : Actions \cup {"none"}, tx : Nat, at : Nat]
  /\ receipt \in Receipts /\ keyStore \in Keys

\* What can be said of a transaction alone: it landed within its window, it was
\* sent no earlier than it was built, and it is given up only when it can no
\* longer land.
TxSound(x) ==
  /\ x.born <= now /\ x.submittedAt <= now
  /\ x.state \in {"applied", "failed"} => x.at <= x.born + Window
  /\ x.told = "unconfirmed" => x.submittedAt >= x.born
  /\ x.told = "expired" => x.state \in {"built", "pending"} /\ now > x.born + Window

\* An action is marked with the submission the user knows as unconfirmed.
Marked ==
  /\ \A t \in DOMAIN txs : txs[t].told = "unconfirmed" => unconfirmed[txs[t].action] = t
  /\ \A a \in Actions : unconfirmed[a] # 0 =>
       unconfirmed[a] \in DOMAIN txs /\ txs[unconfirmed[a]].action = a /\ txs[unconfirmed[a]].told = "unconfirmed"

\* A run owns its transaction: until the outcome is in, the user was told nothing
\* about it, the action is not blocked by another, and once it was sent no key
\* replays it.
TaskSound(a, k) ==
  k.pc # "idle" =>
    /\ unconfirmed[a] = 0
    /\ k.pc # "building" => k.tx \in DOMAIN txs /\ txs[k.tx].action = a
    /\ k.pc \in {"signing", "sending", "polling"} => txs[k.tx].told = "nothing"
    /\ k.pc = "polling" => txs[k.tx].submittedAt >= txs[k.tx].born
    /\ k.pc \in {"polling", "refreshing"} /\ a = "create" => keyStore.reply = 0

\* One run of the flow at a time.
FlowAlone == \A a, c \in Flow : task[a].pc # "idle" /\ task[c].pc # "idle" => a = c

\* A check is about what still blocks its action, and read the clock before.
CheckSound ==
  check # Subs!NoCheck =>
    check.action \in Actions /\ check.tx # 0 /\ check.tx = unconfirmed[check.action] /\ check.at <= now

\* The transaction a key replays was never reported.
KeySound ==
  keyStore.reply # 0 =>
    /\ keyStore.reply \in DOMAIN txs
    /\ txs[keyStore.reply].action = "create" /\ txs[keyStore.reply].told = "nothing"

\* The receipt is one of the flow, and while a run of the flow polls, it is its own.
ReceiptSound ==
  receipt # Subs!NoReceipt =>
    /\ receipt.tx \in DOMAIN txs /\ txs[receipt.tx].action \in Flow
    /\ receipt.lifecycle = "success" => txs[receipt.tx].state = "applied"
    /\ \A a \in Flow : task[a].pc = "polling" => receipt.tx = task[a].tx

\* The inductive invariant of submissions.
SubsInv ==
  /\ SubsTypes
  /\ \A t \in DOMAIN txs : TxSound(txs[t])
  /\ Marked
  /\ \A a \in Actions : TaskSound(a, task[a])
  /\ FlowAlone /\ CheckSound /\ KeySound /\ ReceiptSound

\* The constants of the submissions are numbers; the margin covers the lag.
LEMMA SubsNumbers ==
  /\ Window \in Nat /\ Margin \in Nat /\ Lag \in Nat /\ Lag <= Margin /\ Margin > 0
  /\ Attempts \in Nat /\ Flow \subseteq Actions
BY SubsAssumption DEF Subs!SubmissionsAssumption

\* Nothing is sent at first.
LEMMA SubsStart == Subs!Init => SubsInv
<1> SUFFICES ASSUME Subs!Init PROVE SubsInv
  OBVIOUS
<1>1. /\ now = 0 /\ txs = <<>> /\ task = [a \in Actions |-> Subs!Idle] /\ unconfirmed = [a \in Actions |-> 0]
      /\ check = Subs!NoCheck /\ receipt = Subs!NoReceipt /\ keyStore = Subs!NoKey
  BY DEF Subs!Init, Subs!None
<1>2. SubsTypes
  BY <1>1 DEF SubsTypes, Tasks, Receipts, Keys, Subs!Idle, Subs!NoCheck, Subs!NoReceipt, Subs!NoKey, Subs!None
<1>3. Marked /\ \A t \in DOMAIN txs : TxSound(txs[t])
  BY <1>1 DEF Marked
<1>4. \A a \in Actions : TaskSound(a, task[a])
  BY <1>1 DEF TaskSound, Subs!Idle
<1>5. FlowAlone
  BY <1>1, SubsNumbers DEF FlowAlone, Subs!Idle
<1>6. CheckSound /\ KeySound /\ ReceiptSound
  BY <1>1 DEF CheckSound, KeySound, ReceiptSound, Subs!NoKey, Subs!None
<1> QED BY <1>2, <1>3, <1>4, <1>5, <1>6 DEF SubsInv

\* A step of one handler that touches no transaction and is not one to polling.
LEMMA QuietMoves ==
  ASSUME SubsInv, UNCHANGED <<now, txs, unconfirmed, check>>,
         NEW a \in Actions, NEW k \in Tasks, task' = [task EXCEPT ![a] = k],
         k.pc # "polling", TaskSound(a, k),
         k.pc = "idle" \/ task[a].pc # "idle" \/ a \notin Flow \/ \A c \in Flow : task[c].pc = "idle",
         receipt' \in Receipts,
         \/ receipt' = Subs!NoReceipt
         \/ /\ receipt # Subs!NoReceipt /\ receipt'.tx = receipt.tx
            /\ receipt'.lifecycle = "success" => receipt.lifecycle = "success",
         keyStore' \in Keys, keyStore'.reply \in {0, keyStore.reply}
  PROVE  SubsInv'
<1>0. SubsTypes /\ \A t \in DOMAIN txs : TxSound(txs[t])
  BY DEF SubsInv
<1>1. \A c \in Actions : task'[c] = IF c = a THEN k ELSE task[c]
  BY <1>0 DEF SubsTypes
<1>2. SubsTypes'
  BY <1>0 DEF SubsTypes
<1>3. (\A t \in DOMAIN txs : TxSound(txs[t]))' /\ Marked' /\ CheckSound'
  BY DEF SubsInv, TxSound, Marked, CheckSound
<1>4. (\A c \in Actions : TaskSound(c, task[c]))'
  <2> SUFFICES ASSUME NEW c \in Actions PROVE TaskSound(c, task[c])'
    OBVIOUS
  <2>1. TaskSound(c, task'[c])
    BY <1>1 DEF SubsInv
  <2> QED BY <2>1 DEF TaskSound
<1>5. FlowAlone'
  BY <1>1, SubsNumbers DEF SubsInv, FlowAlone
<1>6. KeySound'
  BY DEF SubsInv, KeySound
<1>7. ReceiptSound'
  BY <1>1, SubsNumbers DEF SubsInv, ReceiptSound
<1> QED BY <1>2, <1>3, <1>4, <1>5, <1>6, <1>7 DEF SubsInv

\* A step of one handler that sends its transaction or learns about it.
LEMMA OwnMoves ==
  ASSUME SubsInv, UNCHANGED <<now, check>>,
         NEW a \in Actions, NEW t, t = task[a].tx, task[a].pc \in {"sending", "polling"},
         NEW k \in Tasks, task' = [task EXCEPT ![a] = k],
         NEW x \in Txs, txs' = [txs EXCEPT ![t] = x], x.action = a, TxSound(x),
         unconfirmed' = [unconfirmed EXCEPT ![a] = IF x.told = "unconfirmed" THEN t ELSE 0],
         k.pc \in {"idle", "polling", "refreshing"},
         k.pc # "idle" => k.tx = t /\ x.told # "unconfirmed",
         k.pc = "polling" => x.told = "nothing" /\ x.submittedAt >= x.born,
         keyStore' \in Keys, keyStore'.reply \in {0, keyStore.reply},
         a = "create" /\ (k.pc # "idle" \/ x.told # "nothing") => keyStore'.reply = 0,
         receipt' \in Receipts, ReceiptSound'
  PROVE  SubsInv'
<1>0. SubsTypes /\ TaskSound(a, task[a])
  BY DEF SubsInv
<1>1. \A c \in Actions : task'[c] = IF c = a THEN k ELSE task[c]
  BY <1>0 DEF SubsTypes
<1>2. t \in DOMAIN txs /\ txs[t].action = a /\ txs[t].told = "nothing" /\ unconfirmed[a] = 0
  BY <1>0 DEF TaskSound
<1>3. /\ txs' \in Seq(Txs) /\ DOMAIN txs' = DOMAIN txs
      /\ \A s \in DOMAIN txs : txs[s] \in Txs /\ txs'[s] = IF s = t THEN x ELSE txs[s]
  BY <1>0, <1>2 DEF SubsTypes
<1>4. \A c \in Actions : unconfirmed'[c] = IF c = a /\ x.told = "unconfirmed" THEN t ELSE unconfirmed[c]
  BY <1>0, <1>2 DEF SubsTypes
<1>5. t \in Nat /\ t # 0
  BY <1>0, <1>2 DEF SubsTypes
<1>6. SubsTypes'
  BY <1>0, <1>3, <1>5 DEF SubsTypes
<1>7. (\A s \in DOMAIN txs : TxSound(txs[s]))'
  BY <1>3 DEF SubsInv, TxSound
<1>8. Marked'
  <2>1. ASSUME NEW s \in DOMAIN txs', txs'[s].told = "unconfirmed" PROVE unconfirmed'[txs'[s].action] = s
    <3>1. CASE s = t
      BY <1>3, <1>4, <2>1, <3>1
    <3>2. CASE s # t
      <4>1. txs'[s] = txs[s] /\ txs[s].action \in Actions /\ unconfirmed[txs[s].action] = s
        BY <1>3, <2>1, <3>2 DEF SubsInv, Marked, Txs
      <4>2. s # 0
        BY <1>0, <1>3 DEF SubsTypes
      <4>3. txs[s].action # a
        BY <1>2, <4>1, <4>2
      <4> QED BY <1>4, <4>1, <4>3
    <3> QED BY <3>1, <3>2
  <2>2. ASSUME NEW c \in Actions, unconfirmed'[c] # 0
        PROVE  /\ unconfirmed'[c] \in DOMAIN txs' /\ txs'[unconfirmed'[c]].action = c
               /\ txs'[unconfirmed'[c]].told = "unconfirmed"
    <3>1. CASE c = a /\ x.told = "unconfirmed"
      BY <1>2, <1>3, <1>4, <3>1
    <3>2. CASE ~(c = a /\ x.told = "unconfirmed")
      <4>1. unconfirmed'[c] = unconfirmed[c]
        BY <1>4, <3>2
      <4>2. unconfirmed[c] \in DOMAIN txs /\ txs[unconfirmed[c]].action = c /\ txs[unconfirmed[c]].told = "unconfirmed"
        BY <2>2, <4>1 DEF SubsInv, Marked
      <4>3. unconfirmed[c] # t
        BY <1>2, <4>2
      <4> QED BY <1>3, <4>1, <4>2, <4>3
    <3> QED BY <3>1, <3>2
  <2> QED BY <2>1, <2>2 DEF Marked
<1>9. (\A c \in Actions : TaskSound(c, task[c]))'
  <2> SUFFICES ASSUME NEW c \in Actions PROVE TaskSound(c, task[c])'
    OBVIOUS
  <2>1. CASE c = a
    <3>1. task'[c] = k /\ (k.pc # "idle" => unconfirmed'[a] = 0)
      BY <1>1, <1>2, <1>4, <2>1
    <3> QED BY <1>2, <1>3, <2>1, <3>1 DEF TaskSound
  <2>2. CASE c # a
    <3>1. task'[c] = task[c] /\ unconfirmed'[c] = unconfirmed[c] /\ TaskSound(c, task[c])
      BY <1>1, <1>4, <2>2 DEF SubsInv
    <3>2. task[c].pc \notin {"idle", "building"} => task[c].tx \in DOMAIN txs /\ task[c].tx # t
      BY <1>2, <2>2, <3>1 DEF TaskSound
    <3>3. keyStore.reply = 0 => keyStore'.reply = 0
      OBVIOUS
    <3> QED BY <1>3, <3>1, <3>2, <3>3 DEF TaskSound
  <2> QED BY <2>1, <2>2
<1>10. FlowAlone'
  BY <1>1, SubsNumbers DEF SubsInv, FlowAlone
<1>11. CheckSound'
  BY <1>2, <1>4 DEF SubsInv, CheckSound
<1>12. KeySound'
  BY <1>2, <1>3 DEF SubsInv, KeySound
<1> QED BY <1>6, <1>7, <1>8, <1>9, <1>10, <1>11, <1>12 DEF SubsInv

\* The sequence number of a new transaction is a number.
LEMMA LandedCounted == ASSUME SubsTypes PROVE Subs!Cardinality(Subs!Landed) \in Nat
<1>1. DOMAIN txs = 1..Len(txs) /\ Len(txs) \in Nat
  BY DEF SubsTypes
<1>2. IsFiniteSet(1..Len(txs))
  BY <1>1, FS_Interval
<1>3. IsFiniteSet(Subs!Landed)
  BY <1>1, <1>2, FS_Subset DEF Subs!Landed
<1> QED BY <1>3, FS_CardinalityType DEF Subs!Cardinality, Cardinality

\* The backend prepares a new transaction; the page may learn of it, or ask again.
LEMMA TxBuilt ==
  ASSUME SubsInv, UNCHANGED <<now, unconfirmed, check, receipt>>,
         NEW a \in Actions, task[a].pc = "building",
         txs' = Append(txs, Subs!NewTx(a)),
         keyStore' = IF a = "create" THEN [keyStore EXCEPT !.reply = Len(txs) + 1] ELSE keyStore,
         NEW k \in Tasks, task' = [task EXCEPT ![a] = k],
         k.pc = "building" \/ (k.pc = "signing" /\ k.tx = Len(txs) + 1)
  PROVE  SubsInv'
<1> DEFINE n == Len(txs) + 1
           x == Subs!NewTx(a)
<1>0. SubsTypes /\ TaskSound(a, task[a])
  BY DEF SubsInv
<1>1. \A c \in Actions : task'[c] = IF c = a THEN k ELSE task[c]
  BY <1>0 DEF SubsTypes
<1>2. x \in Txs /\ x.action = a /\ x.told = "nothing" /\ x.born = now /\ x.submittedAt = 0 /\ x.state = "built"
  BY <1>0, LandedCounted DEF Subs!NewTx, Txs, SubsTypes
<1>3. /\ txs' \in Seq(Txs) /\ n \in Nat /\ n # 0 /\ n \in DOMAIN txs' /\ txs'[n] = x
      /\ DOMAIN txs' = DOMAIN txs \cup {n} /\ n \notin DOMAIN txs
      /\ \A s \in DOMAIN txs : txs[s] \in Txs /\ txs'[s] = txs[s]
  BY <1>0, <1>2 DEF SubsTypes
<1>4. keyStore' \in Keys /\ keyStore'.reply = IF a = "create" THEN n ELSE keyStore.reply
  BY <1>0, <1>3 DEF SubsTypes, Keys
<1> HIDE DEF n, x
<1>5. SubsTypes'
  BY <1>0, <1>3, <1>4 DEF SubsTypes
<1>6. TxSound(x)
  BY <1>0, <1>2 DEF TxSound, SubsTypes
<1>7. (\A s \in DOMAIN txs : TxSound(txs[s]))'
  BY <1>3, <1>6 DEF SubsInv, TxSound
<1>8. Marked'
  BY <1>2, <1>3 DEF SubsInv, Marked
<1>9. (\A c \in Actions : TaskSound(c, task[c]))'
  <2> SUFFICES ASSUME NEW c \in Actions PROVE TaskSound(c, task[c])'
    OBVIOUS
  <2>1. CASE c = a
    <3>1. task'[c] = k /\ unconfirmed'[a] = 0
      BY <1>0, <1>1, <2>1 DEF TaskSound
    <3> QED BY <1>2, <1>3, <2>1, <3>1 DEF TaskSound, n
  <2>2. CASE c # a
    <3>1. task'[c] = task[c] /\ TaskSound(c, task[c])
      BY <1>1, <2>2 DEF SubsInv
    <3>2. c = "create" => keyStore'.reply = keyStore.reply
      BY <1>4, <2>2
    <3> QED BY <1>3, <3>1, <3>2 DEF TaskSound
  <2> QED BY <2>1, <2>2
<1>10. FlowAlone'
  BY <1>1, SubsNumbers DEF SubsInv, FlowAlone
<1>11. CheckSound'
  BY DEF SubsInv, CheckSound
<1>12. KeySound'
  BY <1>2, <1>3, <1>4 DEF SubsInv, KeySound
<1>13. ReceiptSound'
  BY <1>1, <1>3, SubsNumbers DEF SubsInv, ReceiptSound
<1> QED BY <1>5, <1>7, <1>8, <1>9, <1>10, <1>11, <1>12, <1>13 DEF SubsInv

\* The steps of a handler before it sends.
LEMMA BeforeSending ==
  ASSUME SubsInv, NEW a \in Actions,
         Subs!Run(a) \/ Subs!BuildAnswered(a) \/ Subs!BuildRetried(a) \/ Subs!FailBeforeSending(a)
           \/ Subs!Sign(a) \/ Subs!Refreshed(a)
  PROVE  SubsInv'
<1>0. SubsTypes /\ TaskSound(a, task[a]) /\ task[a] \in Tasks /\ receipt \in Receipts /\ keyStore \in Keys
  BY DEF SubsInv, SubsTypes
<1>a. Subs!Idle \in Tasks /\ Subs!Idle.pc = "idle" /\ Subs!NoReceipt \in Receipts /\ Subs!NoKey \in Keys /\ Subs!NoKey.reply = 0
  BY DEF Subs!Idle, Subs!NoReceipt, Subs!NoKey, Subs!None, Tasks, Receipts, Keys
<1>1. CASE Subs!Run(a)
  <2> DEFINE k == [task[a] EXCEPT !.pc = "building", !.attempt = 1]
  <2>1. task' = [task EXCEPT ![a] = k] /\ UNCHANGED <<now, txs, unconfirmed, check>>
    BY <1>0, <1>1 DEF Subs!Run, SubsTypes, Tasks
  <2>2. k \in Tasks /\ k.pc = "building"
    BY <1>0 DEF Tasks
  <2>3. unconfirmed[a] = 0 /\ (a \notin Flow \/ \A c \in Flow : task[c].pc = "idle")
    BY <1>1 DEF Subs!Run, Subs!Blocked, Subs!sorobanSplitFlowBusy, Subs!InFlight, Subs!None
  <2>4. keyStore' \in Keys /\ keyStore'.reply \in {0, keyStore.reply}
    BY <1>0, <1>1 DEF Subs!Run, Subs!keyFor, Keys, Subs!None
  <2>5. receipt' = receipt \/ receipt' = Subs!NoReceipt
    BY <1>1 DEF Subs!Run
  <2>6. TaskSound(a, k)
    BY <2>2, <2>3 DEF TaskSound
  <2> HIDE DEF k
  <2> QED BY <1>0, <1>a, <2>1, <2>2, <2>3, <2>4, <2>5, <2>6, QuietMoves
<1>2. CASE Subs!BuildAnswered(a)
  <2> DEFINE t == IF a = "create" THEN keyStore'.reply ELSE Len(txs) + 1
             k == [task[a] EXCEPT !.pc = "signing", !.tx = t]
  <2>1. /\ task' = [task EXCEPT ![a] = k] /\ task[a].pc = "building" /\ Subs!Prepare(a)
        /\ UNCHANGED <<now, unconfirmed, check, receipt>>
    BY <1>0, <1>2 DEF Subs!BuildAnswered, SubsTypes, Tasks
  <2>2. unconfirmed[a] = 0
    BY <1>0, <2>1 DEF TaskSound
  <2>3. CASE a = "create" /\ keyStore.reply # 0
    <3>1. UNCHANGED <<txs, keyStore>>
      BY <2>1, <2>3 DEF Subs!Prepare, Subs!None
    <3>2. t = keyStore.reply /\ t \in DOMAIN txs /\ txs[t].action = a /\ txs[t].told = "nothing" /\ t \in Nat
      BY <1>0, <2>3, <3>1 DEF SubsInv, KeySound, Keys
    <3>3. k \in Tasks /\ k.pc = "signing" /\ k.tx = t
      BY <1>0, <3>2 DEF Tasks
    <3>4. TaskSound(a, k)
      BY <2>2, <3>2, <3>3 DEF TaskSound
    <3> HIDE DEF k, t
    <3> QED BY <1>0, <1>a, <2>1, <3>1, <3>3, <3>4, QuietMoves
  <2>4. CASE ~(a = "create" /\ keyStore.reply # 0)
    <3>1. /\ txs' = Append(txs, Subs!NewTx(a))
          /\ keyStore' = IF a = "create" THEN [keyStore EXCEPT !.reply = Len(txs) + 1] ELSE keyStore
      BY <2>1, <2>4 DEF Subs!Prepare, Subs!None
    <3>2. t = Len(txs) + 1 /\ t \in Nat
      BY <1>0, <3>1 DEF SubsTypes, Keys
    <3>3. k \in Tasks /\ k.pc = "signing" /\ k.tx = t
      BY <1>0, <3>2 DEF Tasks
    <3> HIDE DEF k, t
    <3> QED BY <2>1, <3>1, <3>2, <3>3, TxBuilt
  <2> QED BY <2>3, <2>4
<1>3. CASE Subs!BuildRetried(a)
  <2> DEFINE k == [task[a] EXCEPT !.attempt = @ + 1]
  <2>1. /\ task' = [task EXCEPT ![a] = k] /\ task[a].pc = "building"
        /\ Subs!Prepare(a) \/ UNCHANGED <<txs, keyStore>>
        /\ UNCHANGED <<now, unconfirmed, check, receipt>>
    BY <1>0, <1>3 DEF Subs!BuildRetried, SubsTypes, Tasks
  <2>2. k \in Tasks /\ k.pc = "building"
    <3>1. task[a].attempt + 1 \in Nat
      BY <1>0 DEF Tasks
    <3> QED BY <1>0, <2>1, <3>1 DEF Tasks
  <2>3. TaskSound(a, k)
    BY <1>0, <2>1, <2>2 DEF TaskSound
  <2> HIDE DEF k
  <2>4. CASE UNCHANGED <<txs, keyStore>>
    BY <1>0, <1>a, <2>1, <2>2, <2>3, <2>4, QuietMoves
  <2>5. CASE ~UNCHANGED <<txs, keyStore>>
    <3>1. /\ txs' = Append(txs, Subs!NewTx(a))
          /\ keyStore' = IF a = "create" THEN [keyStore EXCEPT !.reply = Len(txs) + 1] ELSE keyStore
      BY <2>1, <2>5 DEF Subs!Prepare
    <3>2. UNCHANGED <<now, unconfirmed, check, receipt>> /\ task[a].pc = "building" /\ task' = [task EXCEPT ![a] = k]
      BY <2>1
    <3>3. k \in Tasks /\ (k.pc = "building" \/ (k.pc = "signing" /\ k.tx = Len(txs) + 1))
      BY <2>2
    <3> QED BY <3>1, <3>2, <3>3, TxBuilt
  <2> QED BY <2>4, <2>5
<1>4. CASE Subs!FailBeforeSending(a) \/ Subs!Refreshed(a)
  <2>1. /\ task' = [task EXCEPT ![a] = Subs!Idle] /\ UNCHANGED <<now, txs, unconfirmed, check, receipt>>
        /\ keyStore' \in {keyStore, Subs!NoKey}
    BY <1>4 DEF Subs!FailBeforeSending, Subs!Refreshed
  <2>2. TaskSound(a, Subs!Idle)
    BY <1>a DEF TaskSound
  <2> QED BY <1>0, <1>a, <2>1, <2>2, QuietMoves
<1>5. CASE Subs!Sign(a)
  <2> DEFINE k == [task[a] EXCEPT !.pc = "sending"]
  <2>1. /\ task' = [task EXCEPT ![a] = k] /\ task[a].pc = "signing"
        /\ UNCHANGED <<now, txs, unconfirmed, check, receipt, keyStore>>
    BY <1>0, <1>5 DEF Subs!Sign, SubsTypes, Tasks
  <2>2. k \in Tasks /\ k.pc = "sending" /\ k.tx = task[a].tx
    BY <1>0 DEF Tasks
  <2>3. TaskSound(a, k)
    BY <1>0, <2>1, <2>2 DEF TaskSound
  <2> HIDE DEF k
  <2> QED BY <1>0, <1>a, <2>1, <2>2, <2>3, QuietMoves
<1> QED BY <1>1, <1>2, <1>3, <1>4, <1>5

\* What an answer of a node means.
LEMMA NodeAnswers ==
  ASSUME SubsTypes, NEW t \in DOMAIN txs, NEW response \in Subs!Responses(Subs!StatusOf(t)),
         NEW answer, answer = Subs!Validated(response, Subs!StatusOf(t))
  PROVE  /\ answer = "applied" => txs[t].state = "applied"
         /\ answer = "failed" => txs[t].state = "failed"
         /\ answer \in {"applied", "failed", "NOT_FOUND", "malformed", "error"}
         /\ answer = "NOT_FOUND" => txs[t].state \in {"built", "pending"} \/ ~(now >= txs[t].at + Lag)
<1>1. txs[t] \in Txs
  BY DEF SubsTypes
<1>2. \A v \in Subs!StatusOf(t) :
        \/ v = txs[t].state /\ v \in {"applied", "failed"}
        \/ v = "NOT_FOUND" /\ (txs[t].state \in {"built", "pending"} \/ ~(now >= txs[t].at + Lag))
  BY <1>1 DEF Subs!StatusOf, Subs!Landed, Txs
<1>3. CASE response \in Subs!StatusOf(t)
  <2>1. answer = response
    <3>1. response # "unknown status"
      BY <1>2, <1>3
    <3> QED BY <1>3, <3>1 DEF Subs!Validated
  <2> QED BY <1>2, <1>3, <2>1
<1>4. CASE response \notin Subs!StatusOf(t)
  <2>1. answer \in {"malformed", "error"}
    BY <1>4 DEF Subs!Validated, Subs!Responses
  <2> QED BY <2>1
<1> QED BY <1>3, <1>4

\* A handler sends its transaction.
LEMMA SendKeeps == ASSUME SubsInv, NEW a \in Actions, Subs!Send(a) PROVE SubsInv'
<1> DEFINE t == task[a].tx
           y == txs[t]
<1>0. SubsTypes /\ task[a] \in Tasks /\ receipt \in Receipts /\ keyStore \in Keys /\ now \in Nat
      /\ task[a].pc = "sending" /\ UNCHANGED <<now, check>>
  BY DEF SubsInv, SubsTypes, Subs!Send
<1>1. t \in DOMAIN txs /\ y.action = a /\ y.told = "nothing" /\ unconfirmed[a] = 0 /\ y \in Txs /\ t \in Nat
  BY <1>0 DEF SubsInv, TaskSound, SubsTypes
<1>2. TxSound(y) /\ y.born <= now
  BY <1>1 DEF SubsInv, TxSound
<1>3. unconfirmed = [unconfirmed EXCEPT ![a] = 0] /\ txs = [txs EXCEPT ![t] = y]
  BY <1>0, <1>1 DEF SubsTypes
<1>4. Subs!Idle \in Tasks /\ Subs!Idle.pc = "idle" /\ Subs!NoKey \in Keys /\ Subs!NoKey.reply = 0
      /\ TaskSound(a, Subs!Idle)
  BY DEF Subs!Idle, Subs!NoKey, Subs!None, Tasks, Keys, TaskSound
<1>5. PICK answer : Subs!SendAccepted(a, answer) \/ Subs!SendRejected(a, answer)
                      \/ Subs!SendMalformed(a, answer) \/ Subs!SendError(a, answer)
  BY DEF Subs!Send
<1>6. \A s \in DOMAIN txs : s # 0
  BY <1>0 DEF SubsTypes
<1> DEFINE sent == [y EXCEPT !.state = IF @ = "built" THEN "pending" ELSE @]
<1>7. Subs!Delivered(t) = [txs EXCEPT ![t] = sent]
  BY <1>1 DEF Subs!Delivered, Txs
<1>8. /\ sent \in Txs /\ sent.action = a /\ sent.told = "nothing" /\ sent.born = y.born /\ sent.at = y.at
      /\ (sent.state \in {"applied", "failed"} => y.state \in {"applied", "failed"})
      /\ (y.state = "applied" => sent.state = "applied") /\ sent.submittedAt = y.submittedAt
  BY <1>1 DEF Txs
<1> HIDE DEF sent, y
<1>9. \A c \in Flow : task[c].pc # "idle" /\ a \in Flow => c = a
  BY <1>0 DEF SubsInv, FlowAlone
<1>10. ASSUME NEW x \in Txs, NEW z \in Txs, x.action = a, y.state = "applied" => x.state = "applied",
              txs' = [txs EXCEPT ![t] = x], receipt' = receipt, NEW k \in Tasks, k.pc # "polling",
              task' = [task EXCEPT ![a] = k]
       PROVE  ReceiptSound'
  <2>1. \A s \in DOMAIN txs : txs'[s] = IF s = t THEN x ELSE txs[s]
    BY <1>0, <1>1, <1>10 DEF SubsTypes
  <2>2. DOMAIN txs' = DOMAIN txs /\ \A c \in Actions : task'[c] = IF c = a THEN k ELSE task[c]
    BY <1>0, <1>1, <1>10 DEF SubsTypes
  <2> QED BY <1>10, <2>1, <2>2, <1>1, SubsNumbers DEF SubsInv, ReceiptSound, y
<1>11. CASE Subs!SendAccepted(a, answer)
  <2> DEFINE x == [sent EXCEPT !.submittedAt = now]
             k == [task[a] EXCEPT !.pc = "polling"]
  <2>1. /\ txs' = [[txs EXCEPT ![t] = sent] EXCEPT ![t].submittedAt = now]
        /\ task' = [task EXCEPT ![a] = k] /\ unconfirmed' = unconfirmed
        /\ receipt' = (IF a \in Flow THEN [tx |-> t, lifecycle |-> "confirming"] ELSE receipt)
        /\ keyStore' = (IF a = "create" THEN Subs!NoKey ELSE keyStore)
    BY <1>0, <1>7, <1>11 DEF Subs!SendAccepted, Subs!AfterSubmitted, SubsTypes, Tasks
  <2>2. /\ x \in Txs /\ x.action = a /\ x.told = "nothing" /\ x.born = y.born /\ x.at = y.at
        /\ (x.state \in {"applied", "failed"} => y.state \in {"applied", "failed"})
        /\ (y.state = "applied" => x.state = "applied") /\ x.submittedAt = now
    BY <1>0, <1>8 DEF Txs
  <2>3. k \in Tasks /\ k.pc = "polling" /\ k.tx = t
    BY <1>0 DEF Tasks
  <2>4. txs' = [txs EXCEPT ![t] = x]
    BY <1>0, <1>1, <2>1 DEF SubsTypes
  <2> HIDE DEF x, k
  <2>5. TxSound(x)
    BY <1>0, <1>2, <2>2 DEF TxSound
  <2>6. keyStore' \in Keys /\ keyStore'.reply \in {0, keyStore.reply} /\ (a = "create" => keyStore'.reply = 0)
    BY <1>0, <1>4, <2>1
  <2>7. receipt' \in Receipts
    BY <1>0, <1>1, <2>1 DEF Receipts
  <2>8. \A s \in DOMAIN txs : txs'[s] = IF s = t THEN x ELSE txs[s]
    BY <1>0, <1>1, <2>4 DEF SubsTypes
  <2>9. DOMAIN txs' = DOMAIN txs /\ \A c \in Actions : task'[c] = IF c = a THEN k ELSE task[c]
    BY <1>0, <1>1, <2>1, <2>4 DEF SubsTypes
  <2>10. ReceiptSound'
    <3>1. CASE a \in Flow
      <4>1. receipt'.tx = t /\ receipt'.lifecycle = "confirming"
        BY <2>1, <3>1
      <4>2. \A c \in Flow : task'[c].pc = "polling" => c = a
        BY <1>9, <2>9, <3>1, SubsNumbers
      <4> QED BY <1>1, <2>2, <2>3, <2>8, <2>9, <3>1, <4>1, <4>2, SubsNumbers DEF ReceiptSound
    <3>2. CASE a \notin Flow
      <4>1. receipt' = receipt /\ \A c \in Flow : task'[c] = task[c]
        BY <2>1, <2>9, <3>2, SubsNumbers
      <4> QED BY <1>1, <2>2, <2>8, <2>9, <3>2, <4>1 DEF SubsInv, ReceiptSound, y
    <3> QED BY <3>1, <3>2
  <2>11. unconfirmed' = [unconfirmed EXCEPT ![a] = IF x.told = "unconfirmed" THEN t ELSE 0]
    BY <1>3, <2>1, <2>2
  <2>12. x.submittedAt >= x.born
    BY <1>0, <1>1, <1>2, <2>2 DEF Txs
  <2>13. /\ UNCHANGED <<now, check>> /\ task[a].pc \in {"sending", "polling"} /\ task' = [task EXCEPT ![a] = k]
         /\ x \in Txs /\ x.action = a /\ k \in Tasks /\ k.pc \in {"idle", "polling", "refreshing"}
         /\ k.tx = t /\ x.told # "unconfirmed" /\ x.told = "nothing"
    BY <1>0, <2>1, <2>2, <2>3
  <2> HIDE DEF t
  <2>14. t = task[a].tx
    BY DEF t
  <2> QED BY <2>4, <2>5, <2>6, <2>7, <2>10, <2>11, <2>12, <2>13, <2>14, OwnMoves
<1>12. CASE Subs!SendRejected(a, answer)
  <2>1. task' = [task EXCEPT ![a] = Subs!Idle] /\ UNCHANGED <<txs, unconfirmed, receipt, keyStore>>
    BY <1>12 DEF Subs!SendRejected
  <2> QED BY <1>0, <1>4, <2>1, QuietMoves
<1>13. CASE Subs!SendMalformed(a, answer)
  <2>1. PICK w \in {txs, Subs!Delivered(t)} : txs' = [w EXCEPT ![t].submittedAt = now, ![t].told = "unconfirmed"]
    BY <1>13 DEF Subs!SendMalformed
  <2>2. PICK z \in {y, sent} : w = [txs EXCEPT ![t] = z]
    BY <1>3, <1>7
  <2> DEFINE x == [z EXCEPT !.submittedAt = now, !.told = "unconfirmed"]
  <2>3. /\ z \in Txs /\ z.action = a /\ z.born = y.born /\ z.at = y.at
        /\ (z.state \in {"applied", "failed"} => y.state \in {"applied", "failed"})
        /\ (y.state = "applied" => z.state = "applied")
    BY <1>1, <1>8
  <2>4. /\ x \in Txs /\ x.action = a /\ x.told = "unconfirmed" /\ x.born = y.born /\ x.at = y.at
        /\ (x.state \in {"applied", "failed"} => y.state \in {"applied", "failed"})
        /\ (y.state = "applied" => x.state = "applied") /\ x.submittedAt = now
    BY <1>0, <2>3 DEF Txs
  <2>5. txs' = [txs EXCEPT ![t] = x]
    BY <1>0, <1>1, <2>1, <2>2, <2>3 DEF SubsTypes, Txs
  <2> HIDE DEF x
  <2>6. /\ task' = [task EXCEPT ![a] = Subs!Idle] /\ unconfirmed' = [unconfirmed EXCEPT ![a] = t]
        /\ receipt' = (IF a \in Flow THEN [tx |-> t, lifecycle |-> "failed"] ELSE receipt)
        /\ keyStore' = (IF a = "create" THEN Subs!NoKey ELSE keyStore)
    BY <1>13 DEF Subs!SendMalformed
  <2>7. TxSound(x)
    BY <1>0, <1>1, <1>2, <2>4 DEF TxSound, Txs
  <2>8. keyStore' \in Keys /\ keyStore'.reply \in {0, keyStore.reply} /\ (a = "create" => keyStore'.reply = 0)
    BY <1>0, <1>4, <2>6
  <2>9. receipt' \in Receipts
    BY <1>0, <1>1, <2>6 DEF Receipts
  <2>10. ReceiptSound'
    <3>1. CASE a \in Flow
      <4>1. receipt'.tx = t /\ receipt'.lifecycle = "failed"
        BY <2>6, <3>1
      <4>2. \A c \in Flow : task'[c].pc # "polling"
        BY <1>0, <1>4, <1>9, <2>6, <3>1, SubsNumbers DEF SubsTypes
      <4>3. t \in DOMAIN txs' /\ txs'[t] = x
        BY <1>0, <1>1, <2>5 DEF SubsTypes
      <4> QED BY <2>4, <3>1, <4>1, <4>2, <4>3 DEF ReceiptSound
    <3>2. CASE a \notin Flow
      BY <1>4, <1>10, <2>4, <2>5, <2>6, <3>2
    <3> QED BY <3>1, <3>2
  <2>11. unconfirmed' = [unconfirmed EXCEPT ![a] = IF x.told = "unconfirmed" THEN t ELSE 0]
    BY <2>4, <2>6
  <2> QED BY <1>0, <1>4, <2>4, <2>5, <2>6, <2>7, <2>8, <2>9, <2>10, <2>11, OwnMoves
<1>14. CASE Subs!SendError(a, answer)
  <2>1. /\ txs' \in {txs, [txs EXCEPT ![t] = sent]} /\ task' = [task EXCEPT ![a] = Subs!Idle]
        /\ UNCHANGED <<unconfirmed, receipt, keyStore>>
    BY <1>7, <1>14 DEF Subs!SendError
  <2>2. CASE txs' = txs
    BY <1>0, <1>4, <2>1, <2>2, QuietMoves
  <2>3. CASE txs' = [txs EXCEPT ![t] = sent]
    <3>1. TxSound(sent)
      BY <1>2, <1>8 DEF TxSound
    <3>2. ReceiptSound'
      BY <1>4, <1>8, <1>10, <2>1, <2>3
    <3>3. unconfirmed' = [unconfirmed EXCEPT ![a] = IF sent.told = "unconfirmed" THEN t ELSE 0]
      BY <1>3, <1>8, <2>1
    <3> QED BY <1>0, <1>4, <1>8, <2>1, <2>3, <3>1, <3>2, <3>3, OwnMoves
  <2> QED BY <2>1, <2>2, <2>3
<1> QED BY <1>5, <1>11, <1>12, <1>13, <1>14

\* A handler learns about its transaction.
LEMMA PollKeeps == ASSUME SubsInv, NEW a \in Actions, Subs!Poll(a) PROVE SubsInv'
<1> DEFINE t == task[a].tx
           y == txs[t]
<1>0. SubsTypes /\ task[a] \in Tasks /\ receipt \in Receipts /\ keyStore \in Keys /\ now \in Nat
      /\ task[a].pc = "polling" /\ UNCHANGED <<now, check, keyStore>>
  BY DEF SubsInv, SubsTypes, Subs!Poll
<1>1. /\ t \in DOMAIN txs /\ y.action = a /\ y.told = "nothing" /\ unconfirmed[a] = 0 /\ y \in Txs
      /\ t \in Nat /\ y.submittedAt >= y.born /\ (a = "create" => keyStore.reply = 0)
  BY <1>0 DEF SubsInv, TaskSound, SubsTypes
<1>2. TxSound(y)
  BY <1>1 DEF SubsInv
<1>3. unconfirmed = [unconfirmed EXCEPT ![a] = 0]
  BY <1>0, <1>1 DEF SubsTypes
<1>4. Subs!Idle \in Tasks /\ Subs!Idle.pc = "idle" /\ TaskSound(a, Subs!Idle)
  BY DEF Subs!Idle, Subs!None, Tasks, TaskSound
<1>5. PICK response \in Subs!Responses(Subs!StatusOf(t)) :
        LET answer == Subs!Validated(response, Subs!StatusOf(t)) IN
          Subs!PollSuccess(a, answer) \/ Subs!PollFailed(a, answer)
            \/ Subs!PollUnconfirmed(a, answer) \/ Subs!PollError(a, answer)
  BY DEF Subs!Poll
<1> DEFINE answer == Subs!Validated(response, Subs!StatusOf(t))
<1>6. /\ answer = "applied" => y.state = "applied"
      /\ answer \in {"applied", "failed", "NOT_FOUND", "malformed", "error"}
  BY <1>0, <1>1, NodeAnswers
<1>7. Subs!PollSuccess(a, answer) \/ Subs!PollFailed(a, answer)
        \/ Subs!PollUnconfirmed(a, answer) \/ Subs!PollError(a, answer)
  BY <1>5
<1> HIDE DEF answer
<1>8. \/ Subs!ReceiptFailed(a) = receipt
      \/ /\ receipt # Subs!NoReceipt /\ Subs!ReceiptFailed(a) = [receipt EXCEPT !.lifecycle = "failed"]
  BY DEF Subs!ReceiptFailed
<1>9. Subs!ReceiptFailed(a) \in Receipts /\ Subs!ReceiptFailed(a).tx = receipt.tx
      /\ (Subs!ReceiptFailed(a).lifecycle = "success" => receipt.lifecycle = "success")
  BY <1>0, <1>8 DEF Receipts
<1>10. CASE Subs!PollError(a, answer)
  <2>1. task' = [task EXCEPT ![a] = Subs!Idle] /\ UNCHANGED <<txs, unconfirmed>> /\ receipt' = Subs!ReceiptFailed(a)
    BY <1>10 DEF Subs!PollError
  <2>2. \/ receipt' = Subs!NoReceipt
        \/ /\ receipt # Subs!NoReceipt /\ receipt'.tx = receipt.tx
           /\ receipt'.lifecycle = "success" => receipt.lifecycle = "success"
    BY <1>8, <1>9, <2>1
  <2> QED BY <1>0, <1>4, <1>9, <2>1, <2>2, QuietMoves
<1>11. ASSUME NEW told \in {"succeeded", "failed", "unconfirmed"}, NEW k \in Tasks,
              txs' = [txs EXCEPT ![t].told = told], task' = [task EXCEPT ![a] = k],
              k.pc \in {"idle", "refreshing"},
              k.pc = "refreshing" => k.tx = t /\ told = "succeeded",
              unconfirmed' = [unconfirmed EXCEPT ![a] = IF told = "unconfirmed" THEN t ELSE 0],
              receipt' \in Receipts,
              receipt' # Subs!NoReceipt => receipt # Subs!NoReceipt /\ receipt'.tx = receipt.tx,
              receipt'.lifecycle = "success" /\ receipt' # Subs!NoReceipt =>
                receipt.lifecycle = "success" \/ txs[receipt.tx].state = "applied"
       PROVE  SubsInv'
  <2> DEFINE x == [y EXCEPT !.told = told]
  <2>1. /\ x \in Txs /\ x.action = a /\ x.told = told /\ x.born = y.born /\ x.at = y.at
        /\ x.state = y.state /\ x.submittedAt = y.submittedAt
    BY <1>1, <1>11 DEF Txs
  <2>2. txs' = [txs EXCEPT ![t] = x]
    BY <1>11
  <2> HIDE DEF x, y
  <2>3. TxSound(x)
    BY <1>1, <1>2, <1>11, <2>1 DEF TxSound
  <2>4. \A s \in DOMAIN txs : txs'[s].action = txs[s].action /\ txs'[s].state = txs[s].state
    <3>1. \A s \in DOMAIN txs : txs'[s] = IF s = t THEN x ELSE txs[s]
      BY <1>0, <1>1, <2>2 DEF SubsTypes
    <3> QED BY <1>1, <2>1, <3>1 DEF y
  <2>5. DOMAIN txs' = DOMAIN txs /\ \A c \in Actions : task'[c] = IF c = a THEN k ELSE task[c]
    BY <1>0, <1>11, <2>2 DEF SubsTypes
  <2>6. ReceiptSound'
    <3>1. ASSUME receipt' # Subs!NoReceipt
          PROVE  /\ receipt'.tx \in DOMAIN txs' /\ txs'[receipt'.tx].action \in Flow
                 /\ receipt'.lifecycle = "success" => txs'[receipt'.tx].state = "applied"
                 /\ \A c \in Flow : task'[c].pc = "polling" => receipt'.tx = task'[c].tx
      <4>1. receipt # Subs!NoReceipt /\ receipt'.tx = receipt.tx
        BY <1>11, <3>1
      <4>2. /\ receipt.tx \in DOMAIN txs /\ txs[receipt.tx].action \in Flow
            /\ receipt.lifecycle = "success" => txs[receipt.tx].state = "applied"
            /\ \A c \in Flow : task[c].pc = "polling" => receipt.tx = task[c].tx
        BY <4>1 DEF SubsInv, ReceiptSound
      <4>3. \A c \in Flow : task'[c].pc = "polling" => task'[c] = task[c]
        BY <1>11, <2>5, SubsNumbers
      <4> QED BY <1>11, <2>4, <2>5, <3>1, <4>1, <4>2, <4>3
    <3> QED BY <3>1 DEF ReceiptSound
  <2>7. unconfirmed' = [unconfirmed EXCEPT ![a] = IF x.told = "unconfirmed" THEN t ELSE 0]
    BY <1>11, <2>1
  <2>8. /\ k.pc \in {"idle", "polling", "refreshing"} /\ k.pc # "polling"
        /\ k.pc # "idle" => k.tx = t /\ x.told # "unconfirmed"
    BY <1>11, <2>1
  <2>9. keyStore' \in Keys /\ keyStore'.reply \in {0, keyStore.reply} /\ (a = "create" => keyStore'.reply = 0)
    BY <1>0, <1>1
  <2>10. /\ UNCHANGED <<now, check>> /\ task[a].pc \in {"sending", "polling"}
         /\ task' = [task EXCEPT ![a] = k] /\ receipt' \in Receipts /\ x \in Txs /\ x.action = a
    BY <1>0, <1>11, <2>1
  <2> HIDE DEF t
  <2>11. t = task[a].tx
    BY DEF t
  <2> QED BY <2>2, <2>3, <2>6, <2>7, <2>8, <2>9, <2>10, <2>11, OwnMoves
<1>12. CASE Subs!PollSuccess(a, answer)
  <2> DEFINE k == [task[a] EXCEPT !.pc = "refreshing"]
  <2>1. /\ txs' = [txs EXCEPT ![t].told = "succeeded"] /\ task' = [task EXCEPT ![a] = k]
        /\ receipt' = (IF receipt # Subs!NoReceipt /\ txs[receipt.tx].action = a
                       THEN [receipt EXCEPT !.lifecycle = "success"] ELSE receipt)
        /\ unconfirmed' = unconfirmed /\ answer = "applied"
    BY <1>0, <1>12 DEF Subs!PollSuccess, SubsTypes, Tasks
  <2>2. k \in Tasks /\ k.pc = "refreshing" /\ k.tx = t
    BY <1>0 DEF Tasks
  <2>3. receipt' \in Receipts /\ receipt'.tx = receipt.tx /\ (receipt = Subs!NoReceipt => receipt' = receipt)
    BY <1>0, <2>1 DEF Receipts
  <2>4. ASSUME receipt # Subs!NoReceipt, txs[receipt.tx].action = a
        PROVE  txs[receipt.tx].state = "applied"
    <3>1. receipt.tx = t
      BY <1>0, <2>4 DEF SubsInv, ReceiptSound
    <3> QED BY <1>6, <2>1, <3>1
  <2> HIDE DEF k
  <2>5. unconfirmed' = [unconfirmed EXCEPT ![a] = 0]
    BY <1>3, <2>1
  <2>6. /\ receipt' # Subs!NoReceipt => receipt # Subs!NoReceipt /\ receipt'.tx = receipt.tx
        /\ receipt'.lifecycle = "success" /\ receipt' # Subs!NoReceipt =>
             receipt.lifecycle = "success" \/ txs[receipt.tx].state = "applied"
    BY <2>1, <2>3, <2>4
  <2> QED BY <1>11, <2>1, <2>2, <2>3, <2>5, <2>6
<1>13. CASE Subs!PollFailed(a, answer)
  <2>1. /\ txs' = [txs EXCEPT ![t].told = "failed"] /\ task' = [task EXCEPT ![a] = Subs!Idle]
        /\ receipt' = Subs!ReceiptFailed(a) /\ unconfirmed' = unconfirmed
    BY <1>13 DEF Subs!PollFailed
  <2>2. /\ receipt' # Subs!NoReceipt => receipt # Subs!NoReceipt /\ receipt'.tx = receipt.tx
        /\ receipt'.lifecycle = "success" /\ receipt' # Subs!NoReceipt =>
             receipt.lifecycle = "success" \/ txs[receipt.tx].state = "applied"
    BY <1>8, <1>9, <2>1
  <2>3. unconfirmed' = [unconfirmed EXCEPT ![a] = 0]
    BY <1>3, <2>1
  <2> QED BY <1>4, <1>9, <1>11, <2>1, <2>2, <2>3
<1>14. CASE Subs!PollUnconfirmed(a, answer)
  <2>1. /\ txs' = [txs EXCEPT ![t].told = "unconfirmed"] /\ task' = [task EXCEPT ![a] = Subs!Idle]
        /\ receipt' = Subs!ReceiptFailed(a) /\ unconfirmed' = [unconfirmed EXCEPT ![a] = t]
    BY <1>14 DEF Subs!PollUnconfirmed
  <2>2. /\ receipt' # Subs!NoReceipt => receipt # Subs!NoReceipt /\ receipt'.tx = receipt.tx
        /\ receipt'.lifecycle = "success" /\ receipt' # Subs!NoReceipt =>
             receipt.lifecycle = "success" \/ txs[receipt.tx].state = "applied"
    BY <1>8, <1>9, <2>1
  <2> QED BY <1>4, <1>9, <1>11, <2>1, <2>2
<1> QED BY <1>7, <1>10, <1>12, <1>13, <1>14

\* A check frees its action only when the transaction is decided.
LEMMA CheckKeeps == ASSUME SubsInv, Subs!FinishCheck PROVE SubsInv'
<1> DEFINE t == check.tx
           a == check.action
           y == txs[t]
<1>0. /\ SubsTypes /\ now \in Nat /\ check # Subs!NoCheck /\ check' = Subs!NoCheck /\ UNCHANGED <<now, task, keyStore>>
      /\ Subs!NoCheck \in [action : Actions \cup {"none"}, tx : Nat, at : Nat]
      /\ check.at \in Nat /\ receipt \in Receipts
  BY DEF SubsInv, SubsTypes, Subs!FinishCheck, Subs!NoCheck, Subs!None
<1>1. a \in Actions /\ t # 0 /\ t = unconfirmed[a] /\ check.at <= now
  BY <1>0 DEF SubsInv, CheckSound
<1>2. t \in DOMAIN txs /\ y.action = a /\ y.told = "unconfirmed" /\ y \in Txs /\ t \in Nat
  BY <1>0, <1>1 DEF SubsInv, Marked, SubsTypes
<1>3. TxSound(y)
  BY <1>2 DEF SubsInv
<1>4. PICK status \in Subs!Responses(Subs!StatusOf(t)) :
        LET verdict == Subs!Resolution(check, Subs!Validated(status, Subs!StatusOf(t))) IN
          IF verdict = "pending" THEN UNCHANGED <<txs, unconfirmed, receipt>>
          ELSE /\ txs' = [txs EXCEPT ![t].told = verdict]
               /\ unconfirmed' = [unconfirmed EXCEPT ![a] = 0]
               /\ receipt' = Subs!Checked(t, verdict)
  BY DEF Subs!FinishCheck, Subs!None
<1> DEFINE answer == Subs!Validated(status, Subs!StatusOf(t))
           verdict == Subs!Resolution(check, answer)
<1>5. /\ answer = "applied" => y.state = "applied"
      /\ answer = "failed" => y.state = "failed"
      /\ answer \in {"applied", "failed", "NOT_FOUND", "malformed", "error"}
      /\ answer = "NOT_FOUND" => y.state \in {"built", "pending"} \/ ~(now >= y.at + Lag)
  BY <1>0, <1>2, NodeAnswers
<1>6. IF verdict = "pending" THEN UNCHANGED <<txs, unconfirmed, receipt>>
      ELSE /\ txs' = [txs EXCEPT ![t].told = verdict]
           /\ unconfirmed' = [unconfirmed EXCEPT ![a] = 0]
           /\ receipt' = Subs!Checked(t, verdict)
  BY <1>4
<1> HIDE DEF answer
<1>7. /\ verdict \in {"pending", "succeeded", "failed", "expired"}
      /\ verdict = "succeeded" => answer = "applied"
      /\ verdict = "expired" => answer = "NOT_FOUND" /\ check.at >= y.submittedAt + Window + Margin
  BY <1>5 DEF Subs!Resolution
<1> HIDE DEF verdict
<1>8. CASE verdict = "pending"
  <2>1. UNCHANGED <<now, txs, unconfirmed, receipt, task, keyStore>>
    BY <1>0, <1>6, <1>8
  <2>2. SubsTypes' /\ CheckSound'
    BY <1>0, <2>1 DEF SubsTypes, CheckSound
  <2> QED BY <2>1, <2>2 DEF SubsInv, TxSound, Marked, TaskSound, FlowAlone, KeySound, ReceiptSound
<1>9. CASE verdict # "pending"
  <2> DEFINE x == [y EXCEPT !.told = verdict]
  <2>1. /\ x \in Txs /\ x.action = a /\ x.told = verdict /\ x.born = y.born /\ x.at = y.at
        /\ x.state = y.state /\ x.submittedAt = y.submittedAt
    BY <1>2, <1>7, <1>9 DEF Txs
  <2>2. txs' = [txs EXCEPT ![t] = x] /\ unconfirmed' = [unconfirmed EXCEPT ![a] = 0]
    BY <1>6, <1>9
  <2> HIDE DEF x
  <2>3. verdict = "expired" => y.state \in {"built", "pending"} /\ now > y.born + Window
    <3> SUFFICES ASSUME verdict = "expired" PROVE y.state \in {"built", "pending"} /\ now > y.born + Window
      OBVIOUS
    <3>1. /\ y.born \in Nat /\ y.at \in Nat /\ y.submittedAt \in Nat /\ y.submittedAt >= y.born
          /\ y.state \in {"built", "pending", "applied", "failed"}
          /\ y.state \in {"applied", "failed"} => y.at <= y.born + Window
      BY <1>2, <1>3 DEF TxSound, Txs
    <3>2. check.at >= y.submittedAt + Window + Margin
      BY <1>7
    <3> HIDE DEF y
    <3>3. now > y.born + Window /\ now >= y.born + Window + Lag
      BY <1>0, <1>1, <3>1, <3>2, SubsNumbers
    <3>4. y.state \in {"applied", "failed"} => now >= y.at + Lag
      BY <1>0, <3>1, <3>3, SubsNumbers
    <3> QED BY <1>5, <1>7, <3>1, <3>3, <3>4
  <2>4. TxSound(x)
    BY <1>3, <1>7, <1>9, <2>1, <2>3 DEF TxSound
  <2>5. /\ txs' \in Seq(Txs) /\ DOMAIN txs' = DOMAIN txs
        /\ \A s \in DOMAIN txs : txs[s] \in Txs /\ s # 0 /\ txs'[s] = IF s = t THEN x ELSE txs[s]
    BY <1>0, <1>2, <2>1, <2>2 DEF SubsTypes
  <2>6. \A c \in Actions : unconfirmed'[c] = IF c = a THEN 0 ELSE unconfirmed[c]
    BY <1>0, <2>2 DEF SubsTypes
  <2>7. /\ receipt' \in Receipts /\ receipt'.tx = receipt.tx /\ (receipt = Subs!NoReceipt => receipt' = receipt)
        /\ receipt'.lifecycle = "success" => receipt.lifecycle = "success" \/ (receipt.tx = t /\ verdict = "succeeded")
    BY <1>0, <1>6, <1>9 DEF Subs!Checked, Receipts
  <2>8. SubsTypes'
    BY <1>0, <2>2, <2>5, <2>7 DEF SubsTypes
  <2>9. (\A s \in DOMAIN txs : TxSound(txs[s]))'
    BY <1>0, <2>4, <2>5 DEF SubsInv, TxSound
  <2>10. Marked'
    <3>1. ASSUME NEW s \in DOMAIN txs', txs'[s].told = "unconfirmed" PROVE unconfirmed'[txs'[s].action] = s
      <4>1. s # t
        BY <1>7, <1>9, <2>1, <2>5, <3>1
      <4>2. txs'[s] = txs[s] /\ txs[s].action \in Actions /\ unconfirmed[txs[s].action] = s
        BY <2>5, <3>1, <4>1 DEF SubsInv, Marked, Txs
      <4> QED BY <1>1, <2>6, <4>1, <4>2
    <3>2. ASSUME NEW c \in Actions, unconfirmed'[c] # 0
          PROVE  /\ unconfirmed'[c] \in DOMAIN txs' /\ txs'[unconfirmed'[c]].action = c
                 /\ txs'[unconfirmed'[c]].told = "unconfirmed"
      <4>1. c # a /\ unconfirmed'[c] = unconfirmed[c]
        BY <2>6, <3>2
      <4>2. unconfirmed[c] \in DOMAIN txs /\ txs[unconfirmed[c]].action = c /\ txs[unconfirmed[c]].told = "unconfirmed"
        BY <3>2, <4>1 DEF SubsInv, Marked
      <4> QED BY <1>2, <2>5, <4>1, <4>2
    <3> QED BY <3>1, <3>2 DEF Marked
  <2>11. (\A c \in Actions : TaskSound(c, task[c]))'
    <3> SUFFICES ASSUME NEW c \in Actions PROVE TaskSound(c, task[c])'
      OBVIOUS
    <3>1. TaskSound(c, task[c]) /\ task' = task /\ keyStore' = keyStore
      BY <1>0 DEF SubsInv
    <3>2. task[c].pc # "idle" => c # a
      BY <1>1, <3>1 DEF TaskSound
    <3>3. task[c].pc \notin {"idle", "building"} => task[c].tx \in DOMAIN txs /\ task[c].tx # t
      BY <1>2, <3>1, <3>2 DEF TaskSound
    <3> QED BY <2>5, <2>6, <3>1, <3>2, <3>3 DEF TaskSound
  <2>12. FlowAlone' /\ CheckSound'
    BY <1>0 DEF SubsInv, FlowAlone, CheckSound
  <2>13. KeySound'
    BY <1>0, <1>2, <2>5 DEF SubsInv, KeySound
  <2>14. ReceiptSound'
    <3>1. ASSUME receipt' # Subs!NoReceipt
          PROVE  /\ receipt'.tx \in DOMAIN txs' /\ txs'[receipt'.tx].action \in Flow
                 /\ receipt'.lifecycle = "success" => txs'[receipt'.tx].state = "applied"
                 /\ \A c \in Flow : task'[c].pc = "polling" => receipt'.tx = task'[c].tx
      <4>1. receipt # Subs!NoReceipt /\ receipt'.tx = receipt.tx
        BY <2>7, <3>1
      <4>2. /\ receipt.tx \in DOMAIN txs /\ txs[receipt.tx].action \in Flow
            /\ receipt.lifecycle = "success" => txs[receipt.tx].state = "applied"
            /\ \A c \in Flow : task[c].pc = "polling" => receipt.tx = task[c].tx
        BY <4>1 DEF SubsInv, ReceiptSound
      <4>3. \A s \in DOMAIN txs : txs'[s].action = txs[s].action /\ txs'[s].state = txs[s].state
        BY <1>2, <2>1, <2>5
      <4> QED BY <1>0, <1>5, <1>7, <2>5, <2>7, <4>1, <4>2, <4>3
    <3> QED BY <3>1 DEF ReceiptSound
  <2> QED BY <2>8, <2>9, <2>10, <2>11, <2>12, <2>13, <2>14 DEF SubsInv
<1> QED BY <1>8, <1>9

\* The ledger decides a transaction.
LEMMA LandKeeps == ASSUME SubsInv, NEW t \in DOMAIN txs, Subs!Land(t) PROVE SubsInv'
<1>0. SubsTypes /\ now \in Nat /\ txs[t] \in Txs /\ TxSound(txs[t])
      /\ UNCHANGED <<now, task, unconfirmed, check, receipt, keyStore>>
  BY DEF SubsInv, SubsTypes, Subs!Land
<1>1. PICK v \in {"applied", "failed"} : txs' = [txs EXCEPT ![t].state = v, ![t].at = now]
  BY DEF Subs!Land
<1> DEFINE x == [txs[t] EXCEPT !.state = v, !.at = now]
<1>2. /\ x \in Txs /\ x.action = txs[t].action /\ x.told = txs[t].told /\ x.born = txs[t].born /\ x.at = now
      /\ x.state = v /\ x.submittedAt = txs[t].submittedAt
  BY <1>0, <1>1 DEF Txs
<1>3. txs' = [txs EXCEPT ![t] = x]
  BY <1>0, <1>1 DEF SubsTypes, Txs
<1> HIDE DEF x
<1>4. txs[t].state = "pending" /\ now <= txs[t].born + Window
  BY DEF Subs!Land, Subs!CanLand
<1>5. txs[t].told # "expired"
  <2>1. txs[t].born \in Nat
    BY <1>0 DEF Txs
  <2> QED BY <1>0, <1>4, <2>1, SubsNumbers DEF TxSound
<1>6. TxSound(x)
  BY <1>0, <1>2, <1>4, <1>5 DEF TxSound
<1>7. /\ txs' \in Seq(Txs) /\ DOMAIN txs' = DOMAIN txs
      /\ \A s \in DOMAIN txs : txs[s] \in Txs /\ txs'[s] = IF s = t THEN x ELSE txs[s]
  BY <1>0, <1>2, <1>3 DEF SubsTypes
<1>8. \A s \in DOMAIN txs : /\ txs'[s].action = txs[s].action /\ txs'[s].told = txs[s].told
                            /\ txs'[s].born = txs[s].born /\ txs'[s].submittedAt = txs[s].submittedAt
                            /\ txs[s].state = "applied" => txs'[s].state = "applied"
  BY <1>2, <1>4, <1>7
<1>a. DOMAIN txs' = DOMAIN txs
  BY <1>7
<1>9. SubsTypes'
  BY <1>0, <1>7 DEF SubsTypes
<1>10. (\A s \in DOMAIN txs : TxSound(txs[s]))'
  BY <1>0, <1>6, <1>7 DEF SubsInv, TxSound
<1>b. UNCHANGED <<now, task, unconfirmed, check, receipt, keyStore>>
  BY <1>0
<1>c. Marked /\ FlowAlone /\ CheckSound /\ KeySound /\ ReceiptSound /\ \A c \in Actions : TaskSound(c, task[c])
  BY DEF SubsInv
<1>11. Marked'
  <2>1. ASSUME NEW s \in DOMAIN txs', txs'[s].told = "unconfirmed" PROVE unconfirmed'[txs'[s].action] = s
    BY <1>8, <1>a, <1>b, <1>c, <2>1 DEF Marked
  <2>2. ASSUME NEW c \in Actions, unconfirmed'[c] # 0
        PROVE  /\ unconfirmed'[c] \in DOMAIN txs' /\ txs'[unconfirmed'[c]].action = c
               /\ txs'[unconfirmed'[c]].told = "unconfirmed"
    BY <1>8, <1>a, <1>b, <1>c, <2>2 DEF Marked
  <2> QED BY <2>1, <2>2 DEF Marked
<1>12. (\A c \in Actions : TaskSound(c, task[c]))'
  BY <1>8, <1>a, <1>b, <1>c DEF TaskSound
<1>13. FlowAlone' /\ CheckSound'
  BY <1>b, <1>c DEF FlowAlone, CheckSound
<1>14. KeySound'
  BY <1>8, <1>a, <1>b, <1>c DEF KeySound
<1>15. ReceiptSound'
  BY <1>8, <1>a, <1>b, <1>c DEF ReceiptSound
<1> QED BY <1>9, <1>10, <1>11, <1>12, <1>13, <1>14, <1>15 DEF SubsInv

\* Every step of the submissions keeps the invariant.
LEMMA SubsKept == ASSUME SubsInv, [Subs!Next]_subVars PROVE SubsInv'
<1>1. CASE UNCHANGED subVars
  BY <1>1 DEF subVars, SubsInv, SubsTypes, TxSound, Marked, TaskSound, FlowAlone, CheckSound, KeySound, ReceiptSound
<1>2. ASSUME NEW a \in Actions, Subs!Handler(a) PROVE SubsInv'
  BY <1>2, BeforeSending, SendKeeps, PollKeeps DEF Subs!Handler
<1>3. ASSUME NEW a \in Actions, Subs!StartCheck(a) PROVE SubsInv'
  <2>1. /\ UNCHANGED <<now, txs, task, unconfirmed, receipt, keyStore>> /\ unconfirmed[a] # 0
        /\ check' = [action |-> a, tx |-> unconfirmed[a], at |-> now]
    BY <1>3 DEF Subs!StartCheck, Subs!None
  <2>2. SubsTypes' /\ CheckSound'
    BY <2>1 DEF SubsInv, SubsTypes, CheckSound
  <2> QED BY <2>1, <2>2 DEF SubsInv, TxSound, Marked, TaskSound, FlowAlone, KeySound, ReceiptSound
<1>4. CASE Subs!Tick
  <2>1. UNCHANGED <<txs, task, unconfirmed, check, receipt, keyStore>> /\ now' = now + 1 /\ now \in Nat
    BY <1>4 DEF Subs!Tick, SubsInv, SubsTypes
  <2>2. SubsTypes' /\ CheckSound'
    BY <2>1 DEF SubsInv, SubsTypes, CheckSound
  <2>3. (\A t \in DOMAIN txs : TxSound(txs[t]))'
    <3> SUFFICES ASSUME NEW t \in DOMAIN txs PROVE TxSound(txs[t])'
      BY <2>1
    <3>1. TxSound(txs[t]) /\ txs[t] \in Txs
      BY DEF SubsInv, SubsTypes
    <3>2. txs[t].born \in Nat /\ txs[t].submittedAt \in Nat
      BY <3>1 DEF Txs
    <3> QED BY <2>1, <3>1, <3>2, SubsNumbers DEF TxSound
  <2> QED BY <2>1, <2>2, <2>3 DEF SubsInv, Marked, TaskSound, FlowAlone, KeySound, ReceiptSound
<1> QED BY <1>1, <1>2, <1>3, <1>4, CheckKeeps, LandKeeps DEF Subs!Next, Subs!vars, subVars

\* The invariant implies what is promised.
LEMMA SubsPromise == SubsInv => Subs!UnblockedMeansDecided /\ Subs!ReceiptsTrue
<1> SUFFICES ASSUME SubsInv PROVE Subs!UnblockedMeansDecided /\ Subs!ReceiptsTrue
  OBVIOUS
<1>1. ASSUME NEW t \in DOMAIN txs, txs[t].told \in {"unconfirmed", "expired"}, unconfirmed[txs[t].action] # t
      PROVE  t \notin Subs!Landed /\ ~Subs!CanLand(t) /\ txs[t].told = "expired"
  <2>1. txs[t].told = "expired"
    BY <1>1 DEF SubsInv, Marked
  <2>2. txs[t].state \in {"built", "pending"} /\ now > txs[t].born + Window
    BY <2>1 DEF SubsInv, TxSound
  <2>3. txs[t].born \in Nat /\ now \in Nat
    <3>1. txs[t] \in Txs /\ now \in Nat
      BY DEF SubsInv, SubsTypes
    <3> QED BY <3>1 DEF Txs
  <2> QED BY <2>1, <2>2, <2>3, SubsNumbers DEF Subs!Landed, Subs!CanLand
<1>2. Subs!UnblockedMeansDecided
  BY <1>1 DEF Subs!UnblockedMeansDecided
<1>3. Subs!ReceiptsTrue
  BY DEF SubsInv, ReceiptSound, Subs!ReceiptsTrue
<1> QED BY <1>2, <1>3

\* An action whose submission was reported unconfirmed is free again only when
\* its transaction is decided and the user was told (submission-guard.ts,
\* onCheckUnconfirmed), and a receipt that reads "success" is one of an applied
\* transaction (split-app-legacy.tsx): for any actions running beside each other,
\* any number of transactions and any margin above zero that covers the lag of a
\* node.
THEOREM UnblockedAlwaysDecided ==
  Subs!Spec => [](Subs!UnblockedMeansDecided /\ Subs!ReceiptsTrue)
<1>1. SubsInv /\ [Subs!Next]_(Subs!vars) => SubsInv'
  BY SubsKept DEF Subs!vars, subVars
<1> QED BY <1>1, SubsStart, SubsPromise, PTL DEF Subs!Spec

-----------------------------------------------------------------------------
(* The create form *)

\* What a row may hold: what is typed, and what a new row begins with.
FormRows == [address : Addresses \cup {Bad}, share : BpsTyped \cup {NoNumber, 0, TotalBps \div 2}]

\* What the form and the schema have checked of a list, apart from the clock.
Checked ==
  /\ \A i \in DOMAIN rows : rows[i].share # NoNumber /\ rows[i].share \in 1..TotalBps
  /\ \A i, j \in DOMAIN rows : rows[i].address = rows[j].address => i = j
  /\ Form!totalBasisPoints = TotalBps

\* The inductive invariant of the form: two rows at least, and a list that was
\* built is the one that was checked.
FormInv ==
  /\ rows \in Seq(FormRows) /\ Len(rows) >= 2 /\ Len(rows) <= MaxRows
  /\ attempt = "built" => Checked
  /\ attempt # "silent"

\* The form begins with two rows.
LEMMA FirstRows == Form!InitialRows \in Seq(FormRows) /\ Len(Form!InitialRows) = 2
BY DEF Form!InitialRows, FormRows

\* So the invariant holds at first.
LEMMA FormStart == Form!Init => FormInv
<1> SUFFICES ASSUME Form!Init PROVE FormInv
  OBVIOUS
<1>1. rows = Form!InitialRows /\ attempt = "none"
  BY DEF Form!Init
<1>2. rows \in Seq(FormRows) /\ Len(rows) = 2
  BY <1>1, FirstRows
<1>3. Len(rows) >= 2 /\ Len(rows) <= MaxRows
  BY <1>2, FormAssumption
<1> QED BY <1>1, <1>2, <1>3 DEF FormInv

\* What makes a form invalid is an error of the summary.
LEMMA InvalidIsNamed ==
  ASSUME FormInv, ~Form!isValid
  PROVE  Form!SummaryErrors # {}
<1>1. rows # <<>> /\ Len(rows) >= 2
  BY DEF FormInv
<1>2. CASE Form!FieldErrors # {}
  BY <1>2 DEF Form!SummaryErrors
<1>3. CASE Form!Duplicates # {}
  <2>1. PICK i \in Form!Duplicates : TRUE
    BY <1>3
  <2>2. <<"address", i>> \in Form!SummaryErrors
    BY <2>1 DEF Form!SummaryErrors
  <2> QED BY <2>2
<1>4. CASE Form!totalBasisPoints # TotalBps
  <2>1. <<"total">> \in Form!SummaryErrors
    BY <1>1, <1>4 DEF Form!SummaryErrors
  <2> QED BY <2>1
<1> QED BY <1>1, <1>2, <1>3, <1>4 DEF Form!isValid

\* A form that is pressed is checked or says why it is not sent.
LEMMA SubmitKeeps == ASSUME FormInv, Form!submitForm PROVE FormInv'
<1>0. UNCHANGED rows
  BY DEF Form!submitForm
<1>1. CASE ~Form!isValid
  <2>1. attempt' = Form!Revealed
    BY <1>1 DEF Form!submitForm
  <2>2. Form!Revealed \in {"focused", "summary"}
    BY <1>1, InvalidIsNamed DEF Form!Revealed
  <2> QED BY <1>0, <2>1, <2>2 DEF FormInv
<1>2. CASE Form!isValid /\ ~Form!createSplitSchema
  <2>1. attempt' = "refused"
    BY <1>2 DEF Form!submitForm
  <2> QED BY <1>0, <2>1 DEF FormInv
<1>3. CASE Form!isValid /\ Form!createSplitSchema
  <2>1. attempt' = "built"
    BY <1>3 DEF Form!submitForm
  <2>2. ASSUME NEW i \in DOMAIN rows PROVE rows[i].share # NoNumber
    <3>1. rows[i].share = NoNumber => <<"share", i>> \in Form!FieldErrors
      BY DEF Form!FieldErrors, Form!ShareRule
    <3> QED BY <1>3, <3>1 DEF Form!isValid
  <2>3. Checked
    BY <1>3, <2>2 DEF Checked, Form!createSplitSchema, Form!Positive, Form!Distinct
  <2>4. Checked'
    BY <1>0, <2>3 DEF Checked, Form!totalBasisPoints, Form!Counted
  <2> QED BY <1>0, <2>1, <2>4 DEF FormInv
<1> QED BY <1>1, <1>2, <1>3

\* Every step of the form keeps the invariant: an edit takes the answer back.
LEMMA FormKept == ASSUME FormInv, [Form!Next]_formVars PROVE FormInv'
<1>0. rows \in Seq(FormRows) /\ Len(rows) >= 2 /\ Len(rows) <= MaxRows /\ MaxRows \in Nat
  BY FormAssumption DEF FormInv
<1>1. ASSUME UNCHANGED rows, attempt' = "none" \/ attempt' = attempt PROVE FormInv'
  BY <1>1 DEF FormInv, Checked, Form!totalBasisPoints, Form!Counted
<1>2. ASSUME attempt' = "none", rows' \in Seq(FormRows), Len(rows') >= 2, Len(rows') <= MaxRows PROVE FormInv'
  BY <1>2 DEF FormInv
<1>3. CASE UNCHANGED formVars
  BY <1>1, <1>3 DEF formVars
<1>4. ASSUME NEW t \in {"blank", "plain", "loose"}, Form!TypeText(t) PROVE FormInv'
  BY <1>1, <1>4 DEF Form!TypeText, Form!Edited
<1>5. ASSUME NEW i \in DOMAIN rows, NEW r \in Form!Row, Form!EditRow(i, r) PROVE FormInv'
  <2>1. r \in FormRows
    BY DEF Form!Row, FormRows
  <2>2. rows' = [rows EXCEPT ![i] = r] /\ attempt' = "none"
    BY <1>5 DEF Form!EditRow, Form!Edited
  <2>3. rows' \in Seq(FormRows) /\ Len(rows') = Len(rows)
    BY <1>0, <2>1, <2>2
  <2> QED BY <1>0, <1>2, <2>2, <2>3
<1>6. CASE Form!appendCollaborator
  <2>1. [address |-> Bad, share |-> 0] \in FormRows
    BY DEF FormRows
  <2>2. rows' = Append(rows, [address |-> Bad, share |-> 0]) /\ attempt' = "none" /\ Len(rows) < MaxRows
    BY <1>6 DEF Form!appendCollaborator, Form!Edited
  <2>3. rows' \in Seq(FormRows) /\ Len(rows') = Len(rows) + 1 /\ Len(rows) \in Nat
    BY <1>0, <2>1, <2>2
  <2> QED BY <1>0, <1>2, <2>2, <2>3
<1>7. ASSUME NEW i \in DOMAIN rows, Form!removeCollaborator(i) PROVE FormInv'
  <2>1. rows' = SubSeq(rows, 1, i - 1) \o SubSeq(rows, i + 1, Len(rows)) /\ attempt' = "none" /\ Len(rows) > 2
    BY <1>7 DEF Form!removeCollaborator, Form!Edited, Form!RemoveAt
  <2>2. i \in 1..Len(rows) /\ Len(rows) \in Nat
    BY <1>0
  <2>3. /\ SubSeq(rows, 1, i - 1) \in Seq(FormRows) /\ Len(SubSeq(rows, 1, i - 1)) = i - 1
        /\ SubSeq(rows, i + 1, Len(rows)) \in Seq(FormRows) /\ Len(SubSeq(rows, i + 1, Len(rows))) = Len(rows) - i
    BY <1>0, <2>2
  <2>4. rows' \in Seq(FormRows) /\ Len(rows') = Len(rows) - 1
    <3>1. \A u, v \in Seq(FormRows) : u \o v \in Seq(FormRows) /\ Len(u \o v) = Len(u) + Len(v)
      OBVIOUS
    <3>2. rows' \in Seq(FormRows) /\ Len(rows') = (i - 1) + (Len(rows) - i)
      BY <2>1, <2>3, <3>1
    <3> QED BY <2>2, <3>2
  <2>5. Len(rows') >= 2 /\ Len(rows') <= MaxRows
    BY <1>0, <2>1, <2>2, <2>4
  <2> QED BY <1>2, <2>1, <2>4, <2>5
<1>8. ASSUME NEW e \in 0..FormTime, Form!ChooseExpiry(e) PROVE FormInv'
  BY <1>1, <1>8 DEF Form!ChooseExpiry, Form!Edited
<1>9. CASE Form!Tick \/ Form!ChooseCustom
  BY <1>1, <1>9 DEF Form!Tick, Form!ChooseCustom
<1>10. ASSUME NEW t \in {NoToken, Preset}, Form!ChoosePreset(t) PROVE FormInv'
  BY <1>1, <1>10 DEF Form!ChoosePreset, Form!Edited
<1>11. CASE Form!TypeCustom \/ Form!Escape
  BY <1>1, <1>11 DEF Form!TypeCustom, Form!Escape, Form!Edited
<1>12. CASE Form!SwitchAccount
  BY <1>0, <1>2, <1>12, FirstRows DEF Form!SwitchAccount
<1> QED
  BY <1>3, <1>4, <1>5, <1>6, <1>7, <1>8, <1>9, <1>10, <1>11, <1>12, SubmitKeeps
  DEF Form!Next, Form!vars, formVars

\* A list that was checked is one the contract accepts, and the preview of a
\* payout is the payout.
LEMMA FormPromise == FormInv => Form!BuiltIsAccepted /\ Form!NothingFailsSilently
<1> SUFFICES ASSUME FormInv PROVE Form!BuiltIsAccepted /\ Form!NothingFailsSilently
  OBVIOUS
<1>0. Form!NothingFailsSilently
  BY DEF FormInv, Form!NothingFailsSilently
<1> SUFFICES ASSUME attempt = "built"
             PROVE  /\ Form!ValidCollaborators(Form!Collaborators, MaxRows)
                    /\ Len(rows) <= Cap => Form!ValidCollaborators(Form!Collaborators, Cap)
                    /\ \A b \in 0..MaxBalance :
                         Form!previewDistribution(Form!Collaborators, b) \in {<<>>, Form!Payouts(Form!Collaborators, b)}
  BY <1>0 DEF Form!BuiltIsAccepted
<1> DEFINE c == Form!Collaborators
<1>1. rows \in Seq(FormRows) /\ Len(rows) >= 2 /\ Len(rows) <= MaxRows /\ Checked
  BY DEF FormInv
<1>2. Len(rows) \in Nat /\ DOMAIN rows = 1..Len(rows)
  BY <1>1
<1>3. c = [i \in 1..Len(rows) |-> [address |-> rows[i].address, bps |-> rows[i].share]]
  BY <1>2 DEF Form!Collaborators
<1>4. Len(c) = Len(rows) /\ DOMAIN c = 1..Len(c)
  BY <1>2, <1>3
<1>5. \A i \in 1..Len(c) : c[i].address = rows[i].address /\ c[i].bps = rows[i].share
  BY <1>3, <1>4
<1> HIDE DEF c
<1>6. Form!SeqSum(Form!Bps(c)) = TotalBps
  <2>1. \A i \in 1..Len(rows) : Form!Counted(rows[i]) = c[i].bps
    BY <1>1, <1>2, <1>4, <1>5 DEF Checked, Form!Counted
  <2>2. Form!Bps(c) = [i \in DOMAIN rows |-> Form!Counted(rows[i])]
    BY <1>2, <1>4, <2>1 DEF Form!Bps
  <2> QED BY <1>1, <2>2 DEF Checked, Form!totalBasisPoints
<1>7. \A i \in 1..Len(c) : c[i].bps > 0
  BY <1>1, <1>2, <1>4, <1>5 DEF Checked
<1>8. \A i, j \in 1..Len(c) : c[i].address = c[j].address => i = j
  BY <1>1, <1>2, <1>4, <1>5 DEF Checked
<1>9. ASSUME NEW cap, Len(rows) <= cap PROVE Form!ValidCollaborators(c, cap)
  BY <1>1, <1>4, <1>6, <1>7, <1>8, <1>9 DEF Form!ValidCollaborators
<1>10. ASSUME NEW b \in 0..MaxBalance
       PROVE  Form!previewDistribution(c, b) \in {<<>>, Form!Payouts(c, b)}
  <2>1. CASE b <= 0 \/ b < Len(c)
    BY <2>1 DEF Form!previewDistribution
  <2>2. CASE ~(b <= 0 \/ b < Len(c))
    <3>1. Form!previewDistribution(c, b) =
            [i \in 1..Len(c) |-> IF i < Len(c) THEN Form!Share(b, c[i].bps)
                                 ELSE b - Form!SeqSum(Form!FloorShares(c, b))]
      BY <1>4, <2>2 DEF Form!previewDistribution, Form!FloorShares
    <3>2. \A i \in 1..Len(c) : i < Len(c) <=> i # Len(c)
      <4>1. Len(c) \in Nat
        BY <1>2, <1>4
      <4> QED BY <4>1
    <3>3. Form!Payouts(c, b) =
            [i \in 1..Len(c) |-> IF i < Len(c) THEN Form!Share(b, c[i].bps)
                                 ELSE b - Form!SeqSum(Form!FloorShares(c, b))]
      BY <3>2 DEF Form!Payouts
    <3> QED BY <3>1, <3>3
  <2> QED BY <2>1, <2>2
<1> QED BY <1>1, <1>9, <1>10 DEF c

-----------------------------------------------------------------------------
(* Failures *)

\* The inductive invariant of the lists of failures.
ToastInv ==
  /\ history \in [Tabs -> Seq(Nat)] /\ stored \in Seq(Nat) /\ issued \in Nat /\ newest \in [Tabs -> Nat]
  /\ \A t \in Tabs \ hydrated : newest[t] = 0
  /\ \A t \in Tabs : newest[t] # 0 => \E i \in 1..Len(history[t]) : history[t][i] = newest[t]

\* No failure at first.
LEMMA ToastStart == Toast!Init => ToastInv
<1> SUFFICES ASSUME Toast!Init PROVE ToastInv
  OBVIOUS
<1>1. <<>> \in Seq(Nat)
  OBVIOUS
<1> QED BY <1>1 DEF Toast!Init, ToastInv

\* The end of a list is a list.
LEMMA LastOfKeeps ==
  ASSUME NEW q \in Seq(Nat)
  PROVE  /\ Toast!LastOf(q) \in Seq(Nat)
         /\ Len(q) > 0 => Len(Toast!LastOf(q)) > 0 /\ Toast!LastOf(q)[Len(Toast!LastOf(q))] = q[Len(q)]
<1> DEFINE m == IF Len(q) > HISTORY_LIMIT THEN Len(q) - HISTORY_LIMIT + 1 ELSE 1
<1>1. m \in Nat /\ m >= 1 /\ Len(q) \in Nat /\ (Len(q) > 0 => m <= Len(q))
  BY ToastAssumption
<1>2. Toast!LastOf(q) = SubSeq(q, m, Len(q))
  BY DEF Toast!LastOf
<1> HIDE DEF m
<1>3. SubSeq(q, m, Len(q)) \in Seq(Nat)
  BY <1>1
<1>4. ASSUME Len(q) > 0
      PROVE  Len(SubSeq(q, m, Len(q))) = Len(q) - m + 1 /\ SubSeq(q, m, Len(q))[Len(q) - m + 1] = q[Len(q)]
  BY <1>1, <1>4
<1> QED BY <1>1, <1>2, <1>3, <1>4

\* A failure is listed when it is reported, and leaves only with the list.
LEMMA ToastKept == ASSUME ToastInv, [Toast!Next]_toastVars PROVE ToastInv'
<1>0. /\ history \in [Tabs -> Seq(Nat)] /\ stored \in Seq(Nat) /\ issued \in Nat /\ newest \in [Tabs -> Nat]
      /\ <<>> \in Seq(Nat)
  BY DEF ToastInv
<1>1. ASSUME UNCHANGED <<history, stored, newest, hydrated>>, issued' \in Nat PROVE ToastInv'
  BY <1>1 DEF ToastInv
<1>2. CASE UNCHANGED toastVars
  BY <1>0, <1>1, <1>2 DEF toastVars
<1>3. ASSUME NEW t \in Tabs, Toast!Hydrate(t) PROVE ToastInv'
  <2>1. /\ t \notin hydrated /\ hydrated' = hydrated \cup {t} /\ history' = [history EXCEPT ![t] = Toast!LastOf(stored)]
        /\ UNCHANGED <<stored, issued, newest>>
    BY <1>3 DEF Toast!Hydrate
  <2>2. Toast!LastOf(stored) \in Seq(Nat) /\ newest[t] = 0
    BY <1>0, <2>1, LastOfKeeps DEF ToastInv
  <2>3. history' \in [Tabs -> Seq(Nat)] /\ \A s \in Tabs \ {t} : history'[s] = history[s]
    BY <1>0, <2>1, <2>2
  <2> QED BY <2>1, <2>2, <2>3 DEF ToastInv
<1>4. ASSUME NEW t \in Tabs, NEW sticky \in BOOLEAN, Toast!Toast(t, sticky) PROVE ToastInv'
  BY <1>0, <1>1, <1>4 DEF Toast!Toast
<1>5. ASSUME NEW t \in Tabs, Toast!ToastFailure(t) PROVE ToastInv'
  <2> DEFINE q == Append(Toast!LastOf(stored), issued + 1)
             listed == Toast!LastOf(q)
  <2>1. /\ t \in hydrated /\ issued' = issued + 1 /\ history' = [history EXCEPT ![t] = listed]
        /\ stored' \in {listed, stored} /\ newest' = [newest EXCEPT ![t] = issued + 1] /\ hydrated' = hydrated
    BY <1>5 DEF Toast!ToastFailure
  <2>2. q \in Seq(Nat) /\ Len(q) > 0 /\ q[Len(q)] = issued + 1
    BY <1>0, LastOfKeeps
  <2> HIDE DEF q
  <2>3. listed \in Seq(Nat) /\ Len(listed) > 0 /\ listed[Len(listed)] = issued + 1
    BY <2>2, LastOfKeeps
  <2> HIDE DEF listed
  <2>4. Len(listed) \in 1..Len(listed) /\ issued + 1 \in Nat
    BY <1>0, <2>3
  <2>5. \A s \in Tabs : /\ history'[s] = IF s = t THEN listed ELSE history[s]
                        /\ newest'[s] = IF s = t THEN issued + 1 ELSE newest[s]
    BY <1>0, <2>1
  <2>6. history' \in [Tabs -> Seq(Nat)] /\ newest' \in [Tabs -> Nat] /\ stored' \in Seq(Nat) /\ issued' \in Nat
    BY <1>0, <2>1, <2>3, <2>4
  <2>7. \A s \in Tabs \ hydrated' : newest'[s] = 0
    BY <2>1, <2>5 DEF ToastInv
  <2>8. ASSUME NEW s \in Tabs, newest'[s] # 0 PROVE \E i \in 1..Len(history'[s]) : history'[s][i] = newest'[s]
    <3>1. CASE s = t
      BY <2>3, <2>4, <2>5, <3>1
    <3>2. CASE s # t
      BY <2>5, <2>8, <3>2 DEF ToastInv
    <3> QED BY <3>1, <3>2
  <2> QED BY <2>6, <2>7, <2>8 DEF ToastInv
<1>6. ASSUME NEW t \in Tabs, NEW id, Toast!dismiss(t, id) PROVE ToastInv'
  BY <1>0, <1>1, <1>6 DEF Toast!dismiss
<1>7. ASSUME NEW t \in Tabs, Toast!clearHistory(t) \/ Toast!Reload(t) PROVE ToastInv'
  <2>1. /\ history' = [history EXCEPT ![t] = <<>>] /\ newest' = [newest EXCEPT ![t] = 0]
        /\ stored' \in {<<>>, stored} /\ issued' = issued /\ hydrated' \in {hydrated, hydrated \ {t}}
    BY <1>7 DEF Toast!clearHistory, Toast!Reload
  <2>2. \A s \in Tabs : newest'[s] = (IF s = t THEN 0 ELSE newest[s]) /\ (s # t => history'[s] = history[s])
    BY <1>0, <2>1
  <2>3. history' \in [Tabs -> Seq(Nat)] /\ newest' \in [Tabs -> Nat] /\ stored' \in Seq(Nat)
    BY <1>0, <2>1
  <2> QED BY <2>1, <2>2, <2>3 DEF ToastInv
<1>8. CASE Toast!StorageChanges
  BY <1>0, <1>1, <1>8 DEF Toast!StorageChanges
<1>9. ASSUME NEW t \in Tabs, Toast!TimerFires(t) PROVE ToastInv'
  BY <1>6, <1>9 DEF Toast!TimerFires
<1> QED
  BY <1>2, <1>3, <1>4, <1>5, <1>6, <1>7, <1>8, <1>9 DEF Toast!Next, Toast!vars, toastVars

\* The invariant implies what is promised.
LEMMA ToastPromise == ToastInv => Toast!NewestFailureListed
BY DEF ToastInv, Toast!NewestFailureListed, Toast!Contains

-----------------------------------------------------------------------------
(* The admin cards *)

PauseJobs == [pc : {"idle", "building", "submitted", "refreshing"}, token : {NoToken}, amount : {0},
              input : {NoToken}, what : {"none", "pause", "unpause"}]
Statuses == {"unknown", "paused", "running"}
PauseCards == [status : Statuses, seen : Nat, loading : BOOLEAN, modal : {"none", "pause", "unpause"},
               hash : {"none", "submitted", "confirmed"}, early : BOOLEAN]
StatusReads == [pc : {"none", "asked", "served"}, value : Statuses, at : Nat]

\* A request for the status is under way.
Reading(o) == statusReads[o] # Panel!NoRead

\* What keeps requests for the status in order: they exclude each other, and
\* the modal excludes them.
OneStatusRead ==
  /\ \A o, p \in Panel!Askers : Reading(o) /\ Reading(p) => o = p
  /\ \A o \in Panel!Askers \ {"load"} : Reading(o) => pauseCard.loading
  /\ Reading("load") => pauseCard.status = "unknown"
  /\ pauseCard.modal # "none" => pauseCard.status # "unknown" /\ \A o \in Panel!Askers : ~Reading(o)
  /\ job["toggle_pause"].pc \in {"building", "submitted"} => pauseCard.modal # "none"

\* The inductive invariant of the pause card: unless it was refreshed too early,
\* requests exclude each other, and what one was served with is not older than
\* what is shown.
PanelInv ==
  /\ changes \in Nat /\ pauseCard \in PauseCards /\ statusReads \in [Panel!Askers -> StatusReads]
  /\ DOMAIN job = Panel!Kinds /\ job["toggle_pause"] \in PauseJobs
  /\ pauseCard.seen <= changes
  /\ ~pauseCard.early => OneStatusRead
  /\ \A o \in Panel!Askers : ~pauseCard.early /\ statusReads[o].pc = "served" => statusReads[o].at >= pauseCard.seen
  /\ \A o \in Panel!Askers : statusReads[o].at <= changes

\* One request is under way at first, the one of the mount.
LEMMA PanelStart == Panel!Init => PanelInv
<1> SUFFICES ASSUME Panel!Init PROVE PanelInv
  OBVIOUS
<1>1. /\ changes = 0
      /\ pauseCard = [status |-> "unknown", seen |-> 0, loading |-> FALSE, modal |-> "none",
                      hash |-> "none", early |-> FALSE]
      /\ statusReads = [o \in Panel!Askers |-> IF o = "load" THEN Panel!Asked ELSE Panel!NoRead]
      /\ job = [k \in Panel!Kinds |-> Panel!NoJob] /\ "toggle_pause" \in Panel!Kinds
  BY DEF Panel!Init, Panel!Kinds
<1>2. /\ Panel!NoRead = [pc |-> "none", value |-> "unknown", at |-> 0]
      /\ Panel!Asked = [pc |-> "asked", value |-> "unknown", at |-> 0]
      /\ Panel!NoJob \in PauseJobs /\ Panel!NoJob.pc = "idle"
  BY DEF Panel!NoRead, Panel!Asked, Panel!NoJob, PauseJobs
<1>3. pauseCard \in PauseCards /\ statusReads \in [Panel!Askers -> StatusReads]
  BY <1>1, <1>2 DEF PauseCards, StatusReads, Statuses
<1>4. OneStatusRead
  BY <1>1, <1>2 DEF OneStatusRead, Reading, Panel!Askers
<1>5. \A o \in Panel!Askers : statusReads[o].pc # "served" /\ statusReads[o].at = 0
  BY <1>1, <1>2
<1>6. DOMAIN job = Panel!Kinds /\ job["toggle_pause"] \in PauseJobs
  BY <1>1, <1>2
<1> QED BY <1>1, <1>3, <1>4, <1>5, <1>6 DEF PanelInv

\* The step leaves the pause card and its requests alone.
PauseAlone ==
  /\ UNCHANGED <<changes, pauseCard, statusReads>>
  /\ DOMAIN job' = DOMAIN job /\ job'["toggle_pause"] = job["toggle_pause"]

LEMMA PauseAloneKept ==
  ASSUME PanelInv, PauseAlone
  PROVE  PanelInv' /\ Panel!ShownInOrder
<1>1. pauseCard.seen \in Nat
  BY DEF PanelInv, PauseCards
<1> QED BY <1>1 DEF PanelInv, PauseAlone, OneStatusRead, Reading, Panel!ShownInOrder

\* Steps of the other two cards.
LEMMA OtherCards ==
  ASSUME PanelInv, Panel!Recovering \/ Panel!Listing
  PROVE  PauseAlone
<1>0. "toggle_pause" \in Panel!Kinds /\ DOMAIN job = Panel!Kinds
  BY DEF Panel!Kinds, PanelInv
\* Steps that start, end or leave the submissions of these cards.
<1>1. ASSUME UNCHANGED <<changes, pauseCard, statusReads>>, NEW k \in {"recovery", "allowlist"}, NEW j,
             job' = job \/ job' = [job EXCEPT ![k] = j]
      PROVE  PauseAlone
  BY <1>0, <1>1 DEF PauseAlone
<1>2. ASSUME NEW t \in Tokens, Panel!TypeToken(t) \/ Panel!TokensArrive(t) \/ Panel!TypeAllowlistToken(t)
      PROVE  PauseAlone
  BY <1>2 DEF Panel!TypeToken, Panel!TokensArrive, Panel!TypeAllowlistToken, Panel!contract, Panel!pauseVars,
              PauseAlone
<1>3. ASSUME NEW n \in 1..MaxAmount, Panel!TypeAmount(n) PROVE PauseAlone
  BY <1>3 DEF Panel!TypeAmount, Panel!contract, Panel!pauseVars, PauseAlone
<1>4. CASE Panel!onInspectUnallocated \/ Panel!OpenReview \/ Panel!CancelReview \/ Panel!refreshTokenAllowlist
  BY <1>4 DEF Panel!onInspectUnallocated, Panel!OpenReview, Panel!CancelReview, Panel!refreshTokenAllowlist,
              Panel!contract, Panel!pauseVars, PauseAlone
<1>5. CASE Panel!runRecovery
  BY <1>1, <1>5 DEF Panel!runRecovery, Panel!Starts, Panel!contract, Panel!pauseVars
<1>6. CASE Panel!RecoveryConfirmed
  <2>1. /\ UNCHANGED <<changes, pauseCard, statusReads>>
        /\ \/ job' = [job EXCEPT !["recovery"] = Panel!NoJob]
           \/ job' = [job EXCEPT !["recovery"] = [job["recovery"] EXCEPT !.pc = "refreshing"]]
    BY <1>6 DEF Panel!RecoveryConfirmed, Panel!pauseVars
  <2> QED BY <1>1, <2>1
<1>7. ASSUME NEW r \in panelReads, Panel!InspectAnswers(r) \/ Panel!InspectFails(r) PROVE PauseAlone
  <2>1. Panel!Inspected(r)
    BY <1>7 DEF Panel!InspectAnswers, Panel!InspectFails
  <2> QED BY <1>1, <2>1 DEF Panel!Inspected, Panel!contract, Panel!pauseVars
<1>8. CASE Panel!AllowlistConfirmed
  <2>1. /\ UNCHANGED <<changes, pauseCard, statusReads>>
        /\ job' = [job EXCEPT !["allowlist"] = [job["allowlist"] EXCEPT !.pc = "refreshing"]]
    BY <1>8 DEF Panel!AllowlistConfirmed, Panel!pauseVars
  <2> QED BY <1>1, <2>1
<1>9. ASSUME NEW o \in Panel!ListAskers, Panel!ListServed(o) \/ Panel!ListAnswers(o) \/ Panel!ListFails(o)
      PROVE  PauseAlone
  <2>1. CASE Panel!ListServed(o)
    BY <2>1 DEF Panel!ListServed, Panel!contract, Panel!pauseVars, PauseAlone
  <2>2. CASE Panel!ListEnds(o)
    BY <1>1, <2>2 DEF Panel!ListEnds, Panel!contract, Panel!pauseVars
  <2> QED BY <1>9, <2>1, <2>2 DEF Panel!ListAnswers, Panel!ListFails
<1>10. ASSUME NEW action \in {"allow", "disallow"}, Panel!runAllowlistAction(action) PROVE PauseAlone
  BY <1>1, <1>10 DEF Panel!runAllowlistAction, Panel!Starts, Panel!contract, Panel!pauseVars
<1> QED BY <1>2, <1>3, <1>4, <1>5, <1>6, <1>7, <1>8, <1>9, <1>10 DEF Panel!Recovering, Panel!Listing

\* Every step keeps the invariant and the order of what is shown.
LEMMA PanelKept ==
  ASSUME PanelInv, [Panel!Next]_panelVars
  PROVE  PanelInv' /\ Panel!ShownInOrder
<1>0. /\ changes \in Nat /\ pauseCard \in PauseCards /\ statusReads \in [Panel!Askers -> StatusReads]
      /\ DOMAIN job = Panel!Kinds /\ job["toggle_pause"] \in PauseJobs /\ "toggle_pause" \in Panel!Kinds
      /\ pauseCard.seen \in Nat /\ pauseCard.seen <= changes
  BY DEF PanelInv, Panel!Kinds, PauseCards
<1>a. /\ Panel!NoRead \in StatusReads /\ Panel!NoRead.pc = "none" /\ Panel!NoRead.at = 0
      /\ Panel!Asked \in StatusReads /\ Panel!Asked.pc = "asked" /\ Panel!Asked.at = 0
      /\ Panel!NoJob \in PauseJobs /\ Panel!NoJob.pc = "idle"
      /\ {"load", "refresh", "toggle"} = Panel!Askers
  BY DEF Panel!NoRead, Panel!Asked, Panel!NoJob, StatusReads, Statuses, PauseJobs, Panel!Askers
<1>1. CASE UNCHANGED panelVars
  <2>1. PauseAlone
    BY <1>1 DEF PauseAlone, panelVars
  <2> QED BY <2>1, PauseAloneKept
<1>2. CASE Panel!Recovering \/ Panel!Listing
  BY <1>2, OtherCards, PauseAloneKept
<1>3. CASE Panel!refreshAdminStatus
  <2>1. /\ ~pauseCard.loading /\ pauseCard.modal = "none" /\ UNCHANGED <<changes, job>>
        /\ pauseCard' = [pauseCard EXCEPT !.loading = TRUE, !.early = pauseCard.early \/ Reading("load")]
        /\ statusReads' = [statusReads EXCEPT !["refresh"] = Panel!Asked]
    BY <1>3 DEF Panel!refreshAdminStatus, Panel!contract, Reading
  <2>2. /\ pauseCard' \in PauseCards /\ pauseCard'.seen = pauseCard.seen /\ pauseCard'.loading = TRUE
        /\ pauseCard'.modal = "none" /\ pauseCard'.early = (pauseCard.early \/ Reading("load"))
        /\ pauseCard'.status = pauseCard.status
    BY <1>0, <2>1 DEF PauseCards
  <2>3. /\ statusReads' \in [Panel!Askers -> StatusReads]
        /\ \A o \in Panel!Askers : statusReads'[o] = IF o = "refresh" THEN Panel!Asked ELSE statusReads[o]
    BY <1>0, <1>a, <2>1
  <2>4. ~pauseCard'.early => OneStatusRead'
    BY <1>a, <2>1, <2>2, <2>3 DEF PanelInv, OneStatusRead, Reading
  <2>5. ASSUME NEW o \in Panel!Askers
        PROVE  /\ statusReads'[o].at <= changes
               /\ ~pauseCard'.early /\ statusReads'[o].pc = "served" =>
                    statusReads'[o].at >= pauseCard.seen
    <3>1. CASE o = "refresh"
      BY <1>0, <1>a, <2>3, <3>1
    <3>2. CASE o # "refresh"
      BY <2>2, <2>3, <3>2 DEF PanelInv
    <3> QED BY <3>1, <3>2
  <2>6. /\ changes' \in Nat /\ pauseCard'.seen <= changes'
        /\ DOMAIN job' = Panel!Kinds /\ job'["toggle_pause"] \in PauseJobs
    BY <1>0, <2>1, <2>2
  <2>7. \A o \in Panel!Askers : ~pauseCard'.early /\ statusReads'[o].pc = "served" =>
                                 statusReads'[o].at >= pauseCard'.seen
    BY <2>2, <2>5
  <2>8. \A o \in Panel!Askers : statusReads'[o].at <= changes'
    BY <2>1, <2>5
  <2>9. pauseCard' \in PauseCards /\ statusReads' \in [Panel!Askers -> StatusReads]
    BY <2>2, <2>3
  <2>10. PanelInv'
    BY <2>4, <2>6, <2>7, <2>8, <2>9 DEF PanelInv
  <2> QED BY <1>0, <2>2, <2>10 DEF Panel!ShownInOrder
<1>4. ASSUME NEW o \in Panel!Askers, Panel!StatusServed(o) PROVE PanelInv' /\ Panel!ShownInOrder
  <2> DEFINE r == [pc |-> "served", value |-> IF paused THEN "paused" ELSE "running", at |-> changes]
  <2>1. /\ statusReads[o].pc = "asked" /\ statusReads' = [statusReads EXCEPT ![o] = r]
        /\ UNCHANGED <<changes, pauseCard, job>>
    BY <1>4 DEF Panel!StatusServed, Panel!contract
  <2>2. r \in StatusReads /\ r.pc = "served" /\ r.at = changes
    BY <1>0 DEF StatusReads, Statuses
  <2> HIDE DEF r
  <2>3. /\ statusReads' \in [Panel!Askers -> StatusReads]
        /\ \A p \in Panel!Askers : statusReads'[p] = IF p = o THEN r ELSE statusReads[p]
    BY <1>0, <2>1, <2>2
  <2>4. \A p \in Panel!Askers : Reading(p)' => Reading(p)
    BY <1>a, <2>1, <2>3 DEF Reading
  <2>5. ~pauseCard'.early => OneStatusRead'
    BY <1>a, <2>1, <2>4 DEF PanelInv, OneStatusRead
  <2> QED BY <1>0, <2>1, <2>2, <2>3, <2>5 DEF PanelInv, Panel!ShownInOrder
\* The end of a request, which shows s read at change n.
<1>5. ASSUME NEW o \in Panel!Askers, Reading(o), NEW s \in Statuses, NEW n \in Nat, n <= changes,
             ~pauseCard.early => n >= pauseCard.seen,
             pauseCard' = [pauseCard EXCEPT !.status = s, !.seen = n, !.loading = FALSE],
             statusReads' = [statusReads EXCEPT ![o] = Panel!NoRead],
             job' = (IF o = "toggle" THEN [job EXCEPT !["toggle_pause"] = Panel!NoJob] ELSE job),
             changes' = changes
      PROVE  PanelInv' /\ Panel!ShownInOrder
  <2>1. /\ pauseCard' \in PauseCards /\ pauseCard'.seen = n /\ pauseCard'.loading = FALSE
        /\ pauseCard'.status = s /\ pauseCard'.modal = pauseCard.modal /\ pauseCard'.early = pauseCard.early
    BY <1>0, <1>5 DEF PauseCards
  <2>2. /\ statusReads' \in [Panel!Askers -> StatusReads]
        /\ \A p \in Panel!Askers : statusReads'[p] = IF p = o THEN Panel!NoRead ELSE statusReads[p]
    BY <1>0, <1>a, <1>5
  <2>3. /\ DOMAIN job' = Panel!Kinds /\ job'["toggle_pause"] \in PauseJobs
        /\ job'["toggle_pause"].pc \in {"building", "submitted"} =>
             job["toggle_pause"].pc \in {"building", "submitted"}
    BY <1>0, <1>a, <1>5
  <2>4. ASSUME ~pauseCard.early
        PROVE  /\ \A p \in Panel!Askers : ~Reading(p)' /\ statusReads'[p].pc = "none"
               /\ pauseCard.modal = "none"
    BY <1>a, <1>5, <2>2, <2>4 DEF PanelInv, OneStatusRead, Reading
  <2>5. ~pauseCard'.early => OneStatusRead'
    BY <1>a, <2>1, <2>3, <2>4 DEF PanelInv, OneStatusRead
  <2>6. \A p \in Panel!Askers : statusReads'[p].at <= changes'
    BY <1>0, <1>a, <1>5, <2>2 DEF PanelInv
  <2> QED BY <1>0, <1>5, <2>1, <2>2, <2>3, <2>4, <2>5, <2>6 DEF PanelInv, Panel!ShownInOrder
<1>6. ASSUME NEW o \in Panel!Askers, Panel!StatusAnswers(o) PROVE PanelInv' /\ Panel!ShownInOrder
  <2> DEFINE r == statusReads[o]
  <2>1. /\ r.pc = "served" /\ changes' = changes
        /\ pauseCard' = [pauseCard EXCEPT !.status = r.value, !.seen = r.at, !.loading = FALSE]
        /\ statusReads' = [statusReads EXCEPT ![o] = Panel!NoRead]
        /\ job' = (IF o = "toggle" THEN [job EXCEPT !["toggle_pause"] = Panel!NoJob] ELSE job)
    BY <1>6 DEF Panel!StatusAnswers, Panel!StatusEnds, Panel!contract
  <2>2. r.value \in Statuses /\ r.at \in Nat /\ r.at <= changes /\ Reading(o)
    BY <1>0, <1>a, <2>1 DEF StatusReads, PanelInv, Reading
  <2>3. ~pauseCard.early => r.at >= pauseCard.seen
    BY <2>1 DEF PanelInv
  <2> QED BY <1>5, <2>1, <2>2, <2>3
<1>7. ASSUME NEW o \in Panel!Askers, Panel!StatusFails(o) PROVE PanelInv' /\ Panel!ShownInOrder
  <2>1. /\ Reading(o) /\ changes' = changes
        /\ pauseCard' = [pauseCard EXCEPT !.loading = FALSE]
        /\ statusReads' = [statusReads EXCEPT ![o] = Panel!NoRead]
        /\ job' = (IF o = "toggle" THEN [job EXCEPT !["toggle_pause"] = Panel!NoJob] ELSE job)
    BY <1>7 DEF Panel!StatusFails, Panel!StatusEnds, Panel!contract, Reading
  <2>2. /\ pauseCard.status \in Statuses
        /\ pauseCard' = [pauseCard EXCEPT !.status = pauseCard.status, !.seen = pauseCard.seen, !.loading = FALSE]
    BY <1>0, <2>1 DEF PauseCards
  <2> DEFINE s == pauseCard.status
             n == pauseCard.seen
  <2>3. n \in Nat /\ n <= changes /\ n >= pauseCard.seen /\ s \in Statuses
    BY <1>0, <2>2
  <2>4. pauseCard' = [pauseCard EXCEPT !.status = s, !.seen = n, !.loading = FALSE]
    BY <2>2
  <2> HIDE DEF s, n
  <2> QED BY <1>5, <2>1, <2>3, <2>4
\* Steps that read nothing and show no other status.
<1>8. ASSUME UNCHANGED <<changes, statusReads>>, pauseCard' \in PauseCards,
             pauseCard'.seen = pauseCard.seen, pauseCard'.early = pauseCard.early,
             DOMAIN job' = Panel!Kinds, job'["toggle_pause"] \in PauseJobs,
             ~pauseCard.early => OneStatusRead'
      PROVE  PanelInv' /\ Panel!ShownInOrder
  BY <1>0, <1>8 DEF PanelInv, Panel!ShownInOrder
<1>9. CASE Panel!OpenModal \/ Panel!CloseModal
  <2>1. PICK m \in {"none", "pause", "unpause"} :
          /\ pauseCard' = [pauseCard EXCEPT !.modal = m] /\ UNCHANGED <<changes, statusReads, job>>
          /\ m # "none" => pauseCard.status # "unknown" /\ ~pauseCard.loading
          /\ job["toggle_pause"].pc = "idle"
    BY <1>9 DEF Panel!OpenModal, Panel!CloseModal, Panel!contract
  <2>2. /\ pauseCard' \in PauseCards /\ pauseCard'.seen = pauseCard.seen /\ pauseCard'.early = pauseCard.early
        /\ pauseCard'.status = pauseCard.status /\ pauseCard'.loading = pauseCard.loading /\ pauseCard'.modal = m
    BY <1>0, <2>1 DEF PauseCards
  <2>3. ~pauseCard.early => OneStatusRead'
    BY <1>a, <2>1, <2>2 DEF PanelInv, OneStatusRead, Reading
  <2> QED BY <1>0, <1>8, <2>1, <2>2, <2>3
<1>10. CASE Panel!runTogglePause
  <2> DEFINE j == [Panel!NoJob EXCEPT !.pc = "building", !.what = pauseCard.modal]
  <2>1. /\ job' = [job EXCEPT !["toggle_pause"] = j] /\ pauseCard' = [pauseCard EXCEPT !.hash = "none"]
        /\ pauseCard.modal # "none" /\ UNCHANGED <<changes, statusReads>>
    BY <1>10 DEF Panel!runTogglePause, Panel!Starts, Panel!contract
  <2>2. j \in PauseJobs
    BY <1>0 DEF Panel!NoJob, PauseJobs, PauseCards
  <2> HIDE DEF j
  <2>3. /\ pauseCard' \in PauseCards /\ pauseCard'.seen = pauseCard.seen /\ pauseCard'.early = pauseCard.early
        /\ pauseCard'.status = pauseCard.status /\ pauseCard'.loading = pauseCard.loading
        /\ pauseCard'.modal = pauseCard.modal
    BY <1>0, <2>1 DEF PauseCards
  <2>4. ~pauseCard.early => OneStatusRead'
    BY <2>1, <2>3 DEF PanelInv, OneStatusRead, Reading
  <2> QED BY <1>0, <1>8, <2>1, <2>2, <2>3, <2>4
<1>11. CASE Panel!ToggleConfirmed
  <2> DEFINE j == [job["toggle_pause"] EXCEPT !.pc = "refreshing"]
  <2>1. /\ job["toggle_pause"].pc = "submitted" /\ changes' = changes + 1
        /\ pauseCard' = [pauseCard EXCEPT !.modal = "none", !.hash = "confirmed", !.loading = TRUE]
        /\ statusReads' = [statusReads EXCEPT !["toggle"] = Panel!Asked]
        /\ job' = [job EXCEPT !["toggle_pause"] = j]
    BY <1>0, <1>11 DEF Panel!ToggleConfirmed
  <2>2. j \in PauseJobs /\ j.pc = "refreshing"
    BY <1>0 DEF PauseJobs
  <2> HIDE DEF j
  <2>3. /\ pauseCard' \in PauseCards /\ pauseCard'.seen = pauseCard.seen /\ pauseCard'.early = pauseCard.early
        /\ pauseCard'.status = pauseCard.status /\ pauseCard'.loading = TRUE /\ pauseCard'.modal = "none"
    BY <1>0, <2>1 DEF PauseCards
  <2>4. /\ statusReads' \in [Panel!Askers -> StatusReads]
        /\ \A o \in Panel!Askers : statusReads'[o] = IF o = "toggle" THEN Panel!Asked ELSE statusReads[o]
    BY <1>0, <1>a, <2>1
  <2>5. DOMAIN job' = Panel!Kinds /\ job'["toggle_pause"] = j
    BY <1>0, <2>1
  <2>6. ~pauseCard'.early => OneStatusRead'
    BY <1>a, <2>1, <2>2, <2>3, <2>4, <2>5 DEF PanelInv, OneStatusRead, Reading
  <2>7. \A o \in Panel!Askers : statusReads'[o].at <= changes'
    <3>1. \A o \in Panel!Askers : statusReads[o].at \in Nat
      BY <1>0 DEF StatusReads
    <3> QED BY <1>0, <1>a, <2>1, <2>4, <3>1 DEF PanelInv
  <2> QED BY <1>0, <1>a, <2>1, <2>2, <2>3, <2>4, <2>5, <2>6, <2>7 DEF PanelInv, Panel!ShownInOrder
<1>12. CASE Panel!PausedElsewhere
  <2>1. changes' = changes + 1 /\ UNCHANGED <<pauseCard, statusReads, job>>
    BY <1>12 DEF Panel!PausedElsewhere, Panel!pauseVars
  <2>2. \A o \in Panel!Askers : statusReads[o].at \in Nat
    BY <1>0 DEF StatusReads
  <2> QED BY <1>0, <2>1, <2>2 DEF PanelInv, OneStatusRead, Reading, Panel!ShownInOrder
<1>13. ASSUME NEW k \in Panel!Kinds, Panel!AfterSubmitted(k) \/ Panel!SubmissionFails(k)
       PROVE  PanelInv' /\ Panel!ShownInOrder
  <2>1. CASE k # "toggle_pause"
    <3>1. PauseAlone
      BY <1>0, <1>13, <2>1 DEF PauseAlone, Panel!AfterSubmitted, Panel!SubmissionFails, Panel!contract,
                               Panel!pauseVars
    <3> QED BY <3>1, PauseAloneKept
  <2>2. CASE k = "toggle_pause"
    <3>1. /\ job["toggle_pause"].pc \in {"building", "submitted"} /\ UNCHANGED <<changes, statusReads>>
          /\ \/ pauseCard' = pauseCard
             \/ pauseCard' = [pauseCard EXCEPT !.hash = "submitted"]
      BY <1>13, <2>2 DEF Panel!AfterSubmitted, Panel!SubmissionFails, Panel!contract, Panel!pauseVars
    <3>2. /\ DOMAIN job' = Panel!Kinds
          /\ \/ job'["toggle_pause"] = Panel!NoJob
             \/ job'["toggle_pause"] = [job["toggle_pause"] EXCEPT !.pc = "submitted"]
      BY <1>0, <1>13, <2>2 DEF Panel!AfterSubmitted, Panel!SubmissionFails
    <3>3. job'["toggle_pause"] \in PauseJobs
      BY <1>0, <1>a, <3>2 DEF PauseJobs
    <3>4. /\ pauseCard' \in PauseCards /\ pauseCard'.seen = pauseCard.seen /\ pauseCard'.early = pauseCard.early
          /\ pauseCard'.status = pauseCard.status /\ pauseCard'.loading = pauseCard.loading
          /\ pauseCard'.modal = pauseCard.modal
      BY <1>0, <3>1 DEF PauseCards
    <3>5. ~pauseCard.early => OneStatusRead'
      BY <3>1, <3>4 DEF PanelInv, OneStatusRead, Reading
    <3> QED BY <1>8, <3>1, <3>2, <3>3, <3>4, <3>5
  <2> QED BY <2>1, <2>2
<1> QED
  BY <1>1, <1>2, <1>3, <1>4, <1>6, <1>7, <1>9, <1>10, <1>11, <1>12, <1>13
  DEF Panel!Next, Panel!Pausing
-----------------------------------------------------------------------------
(* The views of projects *)

ViewRow == [id : Nat, title : Titles]

ViewsTypes ==
  /\ ledger \in Seq(ViewRow) /\ had \in Seq(SUBSET Titles) /\ Len(had) = Len(ledger)
  /\ search \in 0..Len(ledger) /\ flow \in [on : BOOLEAN, refetch : 0..Len(ledger)]
  /\ fetched \in ViewRow \cup {Nothing} /\ list \in Seq(ViewRow) /\ dash \in Seq(ViewRow)
  /\ start \in Nat /\ listLoad \in [start : Nat, more : BOOLEAN, on : BOOLEAN]

\* A row with a title its project has had.
HadTitle(row) == row.id \in DOMAIN ledger /\ row.title \in had[row.id]

\* A row of a view, which may show the title of the update under way.
Shown(row) ==
  \/ HadTitle(row)
  \/ (update.pc = "sent" /\ row.id = update.id /\ row.title = update.next)

\* An update under way can be taken back, and one that gave up may still land.
UpdateSound ==
  update # NoUpdate =>
    /\ update \in [pc : {"sent", "unconfirmed"}, id : DOMAIN ledger, prev : Titles, next : Titles]
    /\ update.prev \in had[update.id]

\* The list is a beginning of the index, the next page begins where it ends, and
\* a page that was asked for is the one after it.
ListSound ==
  /\ \A i \in DOMAIN list : list[i].id = i
  /\ start = Len(list)
  /\ listLoad.on => listLoad.start = IF listLoad.more THEN Len(list) ELSE 0

\* The inductive invariant of the views.
ViewsInv ==
  /\ ViewsTypes
  /\ \A p \in DOMAIN ledger : ledger[p].title \in had[p]
  /\ \A r \in reads : r.was \in ViewRow /\ HadTitle(r.was) /\ r.id \in DOMAIN ledger
  /\ (fetched # Nothing => Shown(fetched))
  /\ (\A i \in DOMAIN list : Shown(list[i]))
  /\ (\A i \in DOMAIN dash : Shown(dash[i]))
  /\ UpdateSound
  /\ ListSound

\* The views start empty over an index of one project.
LEMMA ViewsStart == Init => ViewsInv
<1> SUFFICES ASSUME Init PROVE ViewsInv
  OBVIOUS
<1>1. PICK t \in Titles : ledger = <<Row(1, t)>> /\ had = <<{t}>>
  BY DEF Init
<1>2. Row(1, t) \in ViewRow /\ Row(1, t).title = t
  BY DEF Row, ViewRow
<1>3. /\ ledger \in Seq(ViewRow) /\ had \in Seq(SUBSET Titles) /\ Len(had) = Len(ledger) /\ Len(ledger) = 1
      /\ \A p \in DOMAIN ledger : ledger[p].title \in had[p]
  BY <1>1, <1>2
<1>4. /\ fetched = Nothing /\ list = <<>> /\ dash = <<>> /\ reads = {} /\ update = NoUpdate
      /\ start = 0 /\ listLoad = NoLoad /\ search = 0 /\ flow = NoFlow
  BY DEF Init
<1>5. ViewsTypes
  BY <1>3, <1>4 DEF ViewsTypes, NoLoad, NoFlow
<1>6. UpdateSound /\ ListSound
  BY <1>4 DEF UpdateSound, ListSound, NoLoad
<1> QED BY <1>3, <1>4, <1>5, <1>6 DEF ViewsInv

\* What a page of the index holds: the projects after its start, with the titles
\* they have.
LEMMA PageOfIndex ==
  ASSUME ViewsInv, NEW s \in Nat, NEW n \in Nat
  PROVE  /\ listProjects(s, n) \in Seq(ViewRow)
         /\ \A i \in DOMAIN listProjects(s, n) :
              listProjects(s, n)[i].id = s + i /\ HadTitle(listProjects(s, n)[i])
<1> DEFINE k == IF s + n <= Len(ledger) THEN n ELSE IF s <= Len(ledger) THEN Len(ledger) - s ELSE 0
<1>0. ledger \in Seq(ViewRow) /\ \A p \in DOMAIN ledger : ledger[p].title \in had[p]
  BY DEF ViewsInv, ViewsTypes
<1>1. k \in Nat /\ \A i \in 1..k : s + i \in 1..Len(ledger)
  BY <1>0
<1>2. listProjects(s, n) = [i \in 1..k |-> Loaded(s + i)]
  BY DEF listProjects
<1> HIDE DEF k
<1>3. ASSUME NEW i \in 1..k
      PROVE  Loaded(s + i) \in ViewRow /\ Loaded(s + i).id = s + i /\ HadTitle(Loaded(s + i))
  <2>1. s + i \in DOMAIN ledger /\ ledger[s + i] \in ViewRow
    BY <1>0, <1>1
  <2> QED BY <1>0, <2>1 DEF Loaded, Row, ViewRow, HadTitle
<1>4. listProjects(s, n) \in [1..k -> ViewRow]
  BY <1>2, <1>3
<1>5. listProjects(s, n) \in Seq(ViewRow) /\ DOMAIN listProjects(s, n) = 1..k
  BY <1>1, <1>4
<1>6. ASSUME NEW i \in 1..k PROVE listProjects(s, n)[i] = Loaded(s + i)
  BY <1>2
<1> QED BY <1>3, <1>5, <1>6

\* A row of a load is one the project has had.
LEMMA LoadedRow ==
  ASSUME ViewsInv, NEW p \in DOMAIN ledger
  PROVE  Loaded(p) \in ViewRow /\ HadTitle(Loaded(p))
<1>1. ledger[p] \in ViewRow /\ p \in Nat
  BY DEF ViewsInv, ViewsTypes
<1> QED BY <1>1 DEF Loaded, Row, ViewRow, HadTitle, ViewsInv

\* Patching a title in a list keeps its rows and their order.
LEMMA PatchedList ==
  ASSUME NEW s \in Seq(ViewRow), NEW p \in Nat, NEW t \in Titles
  PROVE  LET q == [i \in DOMAIN s |-> Patched(s[i], p, t)] IN
         /\ q \in Seq(ViewRow) /\ Len(q) = Len(s) /\ DOMAIN q = DOMAIN s
         /\ \A i \in DOMAIN s : q[i].id = s[i].id /\ q[i].title = (IF s[i].id = p THEN t ELSE s[i].title)
<1> DEFINE q == [i \in DOMAIN s |-> Patched(s[i], p, t)]
<1>1. ASSUME NEW i \in DOMAIN s
      PROVE  /\ Patched(s[i], p, t) \in ViewRow /\ Patched(s[i], p, t).id = s[i].id
             /\ Patched(s[i], p, t).title = (IF s[i].id = p THEN t ELSE s[i].title)
  <2>1. s[i] \in ViewRow
    OBVIOUS
  <2> QED BY <2>1 DEF Patched, ViewRow
<1>2. q \in [1..Len(s) -> ViewRow] /\ Len(s) \in Nat
  BY <1>1
<1>3. q \in Seq(ViewRow) /\ Len(q) = Len(s)
  BY <1>2
<1> QED BY <1>1, <1>3

\* A step that leaves the contract and the update alone.
LEMMA LoadsKeep ==
  ASSUME ViewsInv, UNCHANGED <<ledger, had, update>>,
         search' \in 0..Len(ledger), flow' \in [on : BOOLEAN, refetch : 0..Len(ledger)],
         \A r \in reads' : r.was \in ViewRow /\ HadTitle(r.was) /\ r.id \in DOMAIN ledger,
         fetched' # Nothing => fetched' \in ViewRow /\ Shown(fetched'),
         list' \in Seq(ViewRow), \A i \in DOMAIN list' : Shown(list'[i]),
         dash' \in Seq(ViewRow), \A i \in DOMAIN dash' : Shown(dash'[i]),
         start' \in Nat, listLoad' \in [start : Nat, more : BOOLEAN, on : BOOLEAN],
         ListSound'
  PROVE  ViewsInv'
<1>1. ViewsTypes'
  BY DEF ViewsInv, ViewsTypes, Nothing, Row
<1>2. ASSUME NEW row PROVE (Shown(row))' <=> Shown(row)
  BY DEF Shown, HadTitle
<1>3. ASSUME NEW row PROVE (HadTitle(row))' <=> HadTitle(row)
  BY DEF HadTitle
<1>4. (\A p \in DOMAIN ledger : ledger[p].title \in had[p])' /\ UpdateSound'
  BY DEF ViewsInv, UpdateSound, NoUpdate
<1>5. /\ \A i \in DOMAIN list' : (Shown(list[i]))'
      /\ \A i \in DOMAIN dash' : (Shown(dash[i]))'
      /\ (fetched # Nothing => Shown(fetched))'
  BY DEF Shown, HadTitle, Nothing, Row
<1>6. (\A r \in reads : r.was \in ViewRow /\ HadTitle(r.was) /\ r.id \in DOMAIN ledger)'
  BY DEF HadTitle, ViewRow
<1> QED BY <1>1, <1>4, <1>5, <1>6 DEF ViewsInv

\* A step of the contract: titles and projects are only added, and an update
\* that ends has reached the contract or was taken back.
LEMMA ContractKeeps ==
  ASSUME ViewsInv, UNCHANGED <<search, flow, fetched, list, dash, start, listLoad>>,
         ledger' \in Seq(ViewRow), had' \in Seq(SUBSET Titles), Len(had') = Len(ledger'),
         Len(ledger) <= Len(ledger'), \A p \in DOMAIN ledger : had[p] \subseteq had'[p],
         \A p \in DOMAIN ledger' : ledger'[p].title \in had'[p],
         \A r \in reads' : r.was \in ViewRow /\ HadTitle(r.was) /\ r.id \in DOMAIN ledger,
         \/ update' = update
         \/ (update' = NoUpdate /\ (update.pc = "sent" => update.next \in had'[update.id]))
  PROVE  ViewsInv'
<1>1. ledger \in Seq(ViewRow) /\ DOMAIN ledger \subseteq DOMAIN ledger'
  BY DEF ViewsInv, ViewsTypes
<1>2. ViewsTypes'
  <2>1. search' \in 0..Len(ledger') /\ flow' \in [on : BOOLEAN, refetch : 0..Len(ledger')]
    BY <1>1 DEF ViewsInv, ViewsTypes
  <2> QED BY <2>1 DEF ViewsInv, ViewsTypes, Nothing, Row
<1>3. ASSUME NEW row, HadTitle(row) PROVE row.id \in DOMAIN ledger' /\ row.title \in had'[row.id]
  BY <1>1, <1>3 DEF HadTitle
<1>4. ASSUME NEW row, Shown(row)
      PROVE  \/ (row.id \in DOMAIN ledger' /\ row.title \in had'[row.id])
             \/ (update'.pc = "sent" /\ row.id = update'.id /\ row.title = update'.next)
  <2>1. CASE HadTitle(row)
    BY <1>3, <2>1
  <2>2. CASE update.pc = "sent" /\ row.id = update.id /\ row.title = update.next
    <3>1. update # NoUpdate
      BY <2>2 DEF NoUpdate
    <3>2. update.id \in DOMAIN ledger
      BY <3>1 DEF ViewsInv, UpdateSound
    <3> QED BY <1>1, <2>2, <3>2
  <2> QED BY <1>4, <2>1, <2>2 DEF Shown
<1>5. UpdateSound'
  BY <1>1 DEF ViewsInv, UpdateSound, NoUpdate
<1>6. ListSound'
  BY DEF ViewsInv, ListSound
<1>7. /\ \A i \in DOMAIN list' : (Shown(list[i]))'
      /\ \A i \in DOMAIN dash' : (Shown(dash[i]))'
      /\ (fetched # Nothing => Shown(fetched))'
  BY <1>4 DEF ViewsInv, Shown, HadTitle, Nothing, Row
<1>8. (\A r \in reads : r.was \in ViewRow /\ HadTitle(r.was) /\ r.id \in DOMAIN ledger)'
  BY <1>1, <1>3 DEF HadTitle, ViewRow
<1> QED BY <1>2, <1>5, <1>6, <1>7, <1>8 DEF ViewsInv

\* A title is put into every view: the one of a new update, or one the project
\* has had.  No other row shows the title of an update that is given up.
LEMMA PatchKeeps ==
  ASSUME ViewsInv, NEW p \in DOMAIN ledger, NEW t \in Titles, patchProjectInAllViews(p, t),
         UNCHANGED <<ledger, had, search, flow, reads, start, listLoad>>,
         update.pc = "sent" => update.id = p,
         t \in had[p] \/ (update'.pc = "sent" /\ update'.id = p /\ update'.next = t),
         UpdateSound'
  PROVE  ViewsInv'
<1>0. /\ ledger \in Seq(ViewRow) /\ list \in Seq(ViewRow) /\ dash \in Seq(ViewRow)
      /\ fetched \in ViewRow \cup {Nothing} /\ p \in Nat /\ p # 0
  BY DEF ViewsInv, ViewsTypes
<1>1. /\ list' \in Seq(ViewRow) /\ Len(list') = Len(list) /\ DOMAIN list' = DOMAIN list
      /\ \A i \in DOMAIN list : list'[i].id = list[i].id /\ list'[i].title = (IF list[i].id = p THEN t ELSE list[i].title)
  BY <1>0, PatchedList DEF patchProjectInAllViews
<1>2. /\ dash' \in Seq(ViewRow) /\ Len(dash') = Len(dash) /\ DOMAIN dash' = DOMAIN dash
      /\ \A i \in DOMAIN dash : dash'[i].id = dash[i].id /\ dash'[i].title = (IF dash[i].id = p THEN t ELSE dash[i].title)
  BY <1>0, PatchedList DEF patchProjectInAllViews
<1>3. ASSUME NEW row, NEW new, Shown(row), new.id = row.id,
             new.title = (IF row.id = p THEN t ELSE row.title)
      PROVE  \/ (new.id \in DOMAIN ledger /\ new.title \in had[new.id])
             \/ (update'.pc = "sent" /\ new.id = update'.id /\ new.title = update'.next)
  <2>1. CASE row.id = p
    BY <1>3, <2>1
  <2>2. CASE row.id # p
    BY <1>3, <2>2 DEF Shown, HadTitle
  <2> QED BY <2>1, <2>2
<1>4. fetched' \in ViewRow \cup {Nothing} /\ (fetched # Nothing => Shown(fetched))'
  <2>1. CASE fetched = Nothing
    <3>1. fetched' = Nothing
      BY <1>0, <2>1 DEF patchProjectInAllViews, Patched, Nothing, Row
    <3> QED BY <3>1 DEF Nothing, Row
  <2>2. CASE fetched # Nothing
    <3>1. fetched \in ViewRow /\ Shown(fetched)
      BY <1>0, <2>2 DEF ViewsInv
    <3>2. /\ fetched' \in ViewRow /\ fetched'.id = fetched.id
          /\ fetched'.title = (IF fetched.id = p THEN t ELSE fetched.title)
      BY <3>1 DEF patchProjectInAllViews, Patched, ViewRow
    <3>3. (Shown(fetched))'
      BY <1>3, <3>1, <3>2 DEF Shown, HadTitle
    <3> QED BY <3>2, <3>3
  <2> QED BY <2>1, <2>2
<1>5. \A i \in DOMAIN list' : (Shown(list[i]))'
  <2> SUFFICES ASSUME NEW i \in DOMAIN list' PROVE (Shown(list[i]))'
    OBVIOUS
  <2>1. Shown(list[i])
    BY <1>1 DEF ViewsInv
  <2>2. list'[i].id = list[i].id /\ list'[i].title = (IF list[i].id = p THEN t ELSE list[i].title)
    BY <1>1
  <2> QED BY <1>3, <2>1, <2>2 DEF Shown, HadTitle
<1>6. \A i \in DOMAIN dash' : (Shown(dash[i]))'
  <2> SUFFICES ASSUME NEW i \in DOMAIN dash' PROVE (Shown(dash[i]))'
    OBVIOUS
  <2>1. Shown(dash[i])
    BY <1>2 DEF ViewsInv
  <2>2. dash'[i].id = dash[i].id /\ dash'[i].title = (IF dash[i].id = p THEN t ELSE dash[i].title)
    BY <1>2
  <2> QED BY <1>3, <2>1, <2>2 DEF Shown, HadTitle
<1>7. ViewsTypes'
  BY <1>1, <1>2, <1>4 DEF ViewsInv, ViewsTypes, Nothing, Row
<1>8. ListSound'
  BY <1>1 DEF ViewsInv, ListSound
<1>9. (\A r \in reads : r.was \in ViewRow /\ HadTitle(r.was) /\ r.id \in DOMAIN ledger)'
  BY DEF ViewsInv, HadTitle, ViewRow
<1> QED BY <1>4, <1>5, <1>6, <1>7, <1>8, <1>9 DEF ViewsInv

\* Every step of the views keeps their invariant.
LEMMA ViewsKept == ASSUME ViewsInv, [Next]_vars PROVE ViewsInv'
<1> USE DEF listVars, dashVars, editVars
<1>0. ViewsTypes /\ ListSound /\ UpdateSound
  BY DEF ViewsInv
<1>a. /\ \A r \in reads : r.was \in ViewRow /\ HadTitle(r.was) /\ r.id \in DOMAIN ledger
      /\ (fetched # Nothing => fetched \in ViewRow /\ Shown(fetched))
      /\ \A i \in DOMAIN list : Shown(list[i])
      /\ \A i \in DOMAIN dash : Shown(dash[i])
  BY DEF ViewsInv, ViewsTypes
<1>b. /\ search \in 0..Len(ledger) /\ flow \in [on : BOOLEAN, refetch : 0..Len(ledger)]
      /\ list \in Seq(ViewRow) /\ dash \in Seq(ViewRow)
      /\ start \in Nat /\ listLoad \in [start : Nat, more : BOOLEAN, on : BOOLEAN]
      /\ ledger \in Seq(ViewRow) /\ had \in Seq(SUBSET Titles) /\ Len(had) = Len(ledger)
  BY <1>0 DEF ViewsTypes
\* Nothing of the invariant moves but the project in hand, the search and the
\* reads.
<1>c. ASSUME UNCHANGED <<ledger, had, update, list, dash, start, listLoad, flow>>,
             search' \in 0..Len(ledger),
             \A r \in reads' : r.was \in ViewRow /\ HadTitle(r.was) /\ r.id \in DOMAIN ledger,
             fetched' # Nothing => fetched' \in ViewRow /\ Shown(fetched')
      PROVE  ViewsInv'
  <2>1. ListSound'
    BY <1>0, <1>c DEF ListSound
  <2> QED BY <1>a, <1>b, <1>c, <2>1, LoadsKeep
\* A load of the list is asked for or given up.
<1>d. ASSUME UNCHANGED <<ledger, had, update, list, dash, start, search, reads, fetched, flow>>,
             listLoad' \in {NoLoad, [start |-> start, more |-> TRUE, on |-> TRUE],
                            [start |-> 0, more |-> FALSE, on |-> TRUE]}
      PROVE  ViewsInv'
  <2>0. start = Len(list) /\ \A i \in DOMAIN list : list[i].id = i
    BY <1>0 DEF ListSound
  <2>1. /\ listLoad' \in [start : Nat, more : BOOLEAN, on : BOOLEAN]
        /\ listLoad'.on => listLoad'.start = IF listLoad'.more THEN start ELSE 0
    <3>1. CASE listLoad' = NoLoad
      BY <3>1 DEF NoLoad
    <3>2. CASE listLoad' = [start |-> start, more |-> TRUE, on |-> TRUE]
      BY <1>b, <3>2
    <3>3. CASE listLoad' = [start |-> 0, more |-> FALSE, on |-> TRUE]
      BY <3>3
    <3> QED BY <1>d, <3>1, <3>2, <3>3
  <2>2. ListSound'
    BY <1>d, <2>0, <2>1 DEF ListSound
  <2> QED BY <1>a, <1>b, <1>d, <2>1, <2>2, LoadsKeep
<1>e. ASSUME NEW p \in DOMAIN ledger, StartRead(p)
      PROVE  \A r \in reads' : r.was \in ViewRow /\ HadTitle(r.was) /\ r.id \in DOMAIN ledger
  BY <1>a, <1>e, LoadedRow DEF StartRead
<1>1. CASE UNCHANGED vars
  BY <1>1, <1>a, <1>b, <1>c DEF vars
<1>2. CASE LoadMore
  BY <1>2, <1>d DEF LoadMore, StartListLoad
<1>3. CASE ListFailed
  BY <1>3, <1>d DEF ListFailed
<1>4. CASE LoadEffect
  <2>1. CASE StartListLoad(FALSE) /\ UNCHANGED <<list, start, hasMore, dashVars>>
    BY <1>4, <2>1, <1>d DEF LoadEffect, StartListLoad
  <2>2. CASE UNCHANGED <<listVars, dash, earnings>>
    BY <1>4, <2>2, <1>a, <1>b, <1>c DEF LoadEffect
  <2> QED BY <1>4, <2>1, <2>2 DEF LoadEffect
<1>5. CASE ListAnswered
  <2> DEFINE page == listProjects(listLoad.start, Limit)
  <2>0. listLoad.start \in Nat /\ Limit \in Nat /\ listLoad.more \in BOOLEAN
    BY <1>b, ViewsAssumption
  <2>1. /\ page \in Seq(ViewRow)
        /\ \A i \in DOMAIN page : page[i].id = listLoad.start + i /\ HadTitle(page[i])
    BY <2>0, PageOfIndex
  <2>2. /\ list' = Extended(page) /\ start' = listLoad.start + Len(page) /\ listLoad' = NoLoad
        /\ UNCHANGED <<ledger, had, update, dash, search, reads, fetched, flow>>
    BY <1>5 DEF ListAnswered
  <2>3. listLoad.start = IF listLoad.more THEN Len(list) ELSE 0
    BY <1>0, <1>5 DEF ListAnswered, ListSound
  <2> HIDE DEF page
  <2>4. CASE listLoad.more
    <3>1. list' = list \o page /\ listLoad.start = Len(list)
      BY <2>2, <2>3, <2>4 DEF Extended
    <3>2. list' \in Seq(ViewRow) /\ Len(list') = Len(list) + Len(page)
      BY <1>b, <2>1, <3>1
    <3>3. ASSUME NEW i \in DOMAIN list' PROVE list'[i].id = i /\ Shown(list'[i])
      <4>1. CASE i \in DOMAIN list
        <5>1. list'[i] = list[i]
          BY <1>b, <2>1, <3>1, <4>1
        <5> QED BY <1>0, <1>a, <4>1, <5>1 DEF ListSound
      <4>2. CASE i \notin DOMAIN list
        <5>1. i - Len(list) \in DOMAIN page /\ list'[i] = page[i - Len(list)] /\ i \in Nat
          BY <1>b, <2>1, <3>1, <3>2, <3>3, <4>2
        <5>2. page[i - Len(list)].id = listLoad.start + (i - Len(list)) /\ HadTitle(page[i - Len(list)])
          BY <2>1, <5>1
        <5> QED BY <1>b, <3>1, <5>1, <5>2 DEF Shown
      <4> QED BY <4>1, <4>2
    <3>4. ListSound' /\ start' \in Nat /\ listLoad' \in [start : Nat, more : BOOLEAN, on : BOOLEAN]
      BY <1>b, <2>1, <2>2, <3>1, <3>2, <3>3 DEF ListSound, NoLoad
    <3> QED BY <1>a, <1>b, <2>2, <3>2, <3>3, <3>4, LoadsKeep
  <2>5. CASE ~listLoad.more
    <3>1. list' = page /\ listLoad.start = 0
      BY <2>2, <2>3, <2>5 DEF Extended
    <3>2. ASSUME NEW i \in DOMAIN list' PROVE list'[i].id = i /\ Shown(list'[i])
      BY <2>1, <3>1 DEF Shown
    <3>3. ListSound' /\ start' \in Nat /\ listLoad' \in [start : Nat, more : BOOLEAN, on : BOOLEAN]
      BY <2>1, <2>2, <3>1, <3>2 DEF ListSound, NoLoad
    <3> QED BY <1>a, <1>b, <2>1, <2>2, <3>1, <3>2, <3>3, LoadsKeep
  <2> QED BY <2>0, <2>4, <2>5
<1>6. ASSUME NEW a, DashAnswered(a) PROVE ViewsInv'
  <2> DEFINE page == listProjects(0, Len(ledger))
  <2>0. Len(ledger) \in Nat /\ 0 \in Nat
    BY <1>b
  <2>1. page \in Seq(ViewRow) /\ \A i \in DOMAIN page : HadTitle(page[i])
    BY <2>0, PageOfIndex
  <2>2. dash' = page /\ UNCHANGED <<ledger, had, update, list, start, listLoad, search, reads, fetched, flow>>
    BY <1>6 DEF DashAnswered
  <2> HIDE DEF page
  <2>3. ListSound' /\ \A i \in DOMAIN dash' : Shown(dash'[i])
    BY <1>0, <2>1, <2>2 DEF ListSound, Shown
  <2> QED BY <1>a, <1>b, <2>1, <2>2, <2>3, LoadsKeep
<1>7. ASSUME NEW a, DashFailed(a) \/ SwitchAccount(a) PROVE ViewsInv'
  BY <1>7, <1>a, <1>b, <1>c DEF DashFailed, SwitchAccount
<1>8. ASSUME NEW t, OpenTab(t) PROVE ViewsInv'
  BY <1>8, <1>a, <1>b, <1>c DEF OpenTab
<1>9. ASSUME NEW r \in reads, ReadAnswered(r) \/ ReadFailed(r) PROVE ViewsInv'
  <2>1. CASE ReadAnswered(r)
    <3>1. r.was \in ViewRow /\ Shown(r.was) /\ Loaded(r.id) \in ViewRow /\ Shown(Loaded(r.id))
      BY <1>a, LoadedRow DEF Shown
    <3> QED BY <1>a, <1>b, <1>c, <2>1, <3>1 DEF ReadAnswered
  <2>2. CASE ReadFailed(r)
    BY <1>a, <1>b, <1>c, <2>2 DEF ReadFailed
  <2> QED BY <1>9, <2>1, <2>2
<1>10. ASSUME NEW i, SelectFromList(i) PROVE ViewsInv'
  <2>1. list[i] \in ViewRow /\ Shown(list[i])
    BY <1>10, <1>a, <1>b DEF SelectFromList
  <2> QED BY <1>10, <1>a, <1>b, <1>c, <2>1 DEF SelectFromList
<1>11. ASSUME NEW i, openProject(i) PROVE ViewsInv'
  <2>1. dash[i] \in ViewRow /\ Shown(dash[i])
    BY <1>11, <1>a, <1>b DEF openProject
  <2>2. dash[i].id \in DOMAIN ledger
    BY <1>0, <2>1 DEF Shown, HadTitle, UpdateSound, NoUpdate
  <2> QED BY <1>11, <1>a, <1>b, <1>c, <2>1, <2>2 DEF openProject
<1>12. ASSUME NEW p, FetchProject(p) PROVE ViewsInv'
  <2>1. \A r \in reads' : r.was \in ViewRow /\ HadTitle(r.was) /\ r.id \in DOMAIN ledger
    BY <1>12, <1>e DEF FetchProject
  <2> QED BY <1>12, <1>a, <1>b, <1>c, <2>1 DEF FetchProject
<1>13. CASE BackToProjects
  BY <1>13, <1>a, <1>b, <1>c DEF BackToProjects
<1>14. ASSUME NEW t \in Titles, runUpdateMetadata(t) PROVE ViewsInv'
  <2>1. fetched # Nothing /\ update = NoUpdate /\ patchProjectInAllViews(fetched.id, t)
    BY <1>14 DEF runUpdateMetadata
  <2>2. /\ update' = [pc |-> "sent", id |-> fetched.id, prev |-> fetched.title, next |-> t]
        /\ UNCHANGED <<ledger, had, search, flow, reads, start, listLoad>>
    BY <1>14 DEF runUpdateMetadata
  <2>3. update.pc # "sent" /\ fetched.id \in DOMAIN ledger /\ fetched.title \in had[fetched.id]
    BY <1>a, <2>1 DEF Shown, HadTitle, NoUpdate
  <2>4. UpdateSound'
    <3>1. fetched.title \in Titles
      BY <1>a, <2>1 DEF ViewRow
    <3> QED BY <2>2, <2>3, <3>1 DEF UpdateSound
  <2> QED BY <2>1, <2>2, <2>3, <2>4, PatchKeeps
<1>15. CASE UpdateGivesUp
  <2>1. update # NoUpdate /\ update.pc = "sent"
    BY <1>15 DEF UpdateGivesUp, NoUpdate
  <2>2. update.id \in DOMAIN ledger /\ update.prev \in had[update.id] /\ update.prev \in Titles
    BY <1>0, <1>b, <2>1 DEF UpdateSound
  <2>3. /\ patchProjectInAllViews(update.id, update.prev)
        /\ UNCHANGED <<ledger, had, search, flow, reads, start, listLoad>>
    BY <1>15 DEF UpdateGivesUp
  <2>4. UpdateSound'
    <3>1. CASE update' = NoUpdate
      BY <3>1 DEF UpdateSound, NoUpdate
    <3>2. CASE update' = [update EXCEPT !.pc = "unconfirmed"]
      BY <1>0, <2>1, <2>2, <2>3, <3>2 DEF UpdateSound
    <3> QED BY <1>15, <3>1, <3>2 DEF UpdateGivesUp
  <2> QED BY <2>2, <2>3, <2>4, PatchKeeps
\* A title reaches the contract.
<1>f. ASSUME NEW p \in DOMAIN ledger, NEW t \in Titles, Retitled(p, t)
      PROVE  /\ ledger' \in Seq(ViewRow) /\ had' \in Seq(SUBSET Titles)
             /\ Len(had') = Len(ledger') /\ Len(ledger') = Len(ledger)
             /\ \A q \in DOMAIN ledger : had[q] \subseteq had'[q]
             /\ \A q \in DOMAIN ledger' : ledger'[q].title \in had'[q]
             /\ t \in had'[p]
  <2>1. /\ ledger' = [ledger EXCEPT ![p].title = t] /\ had' = [had EXCEPT ![p] = had[p] \cup {t}]
        /\ DOMAIN had = DOMAIN ledger
    BY <1>f, <1>b DEF Retitled
  <2>a. ledger[p] \in ViewRow /\ had[p] \in SUBSET Titles
    BY <1>b, <2>1
  <2>2. [ledger[p] EXCEPT !.title = t] \in ViewRow /\ had[p] \cup {t} \in SUBSET Titles
    BY <2>a DEF ViewRow
  <2>3. ledger' \in Seq(ViewRow) /\ Len(ledger') = Len(ledger) /\ DOMAIN ledger' = DOMAIN ledger
    BY <1>b, <2>1, <2>2
  <2>4. had' \in Seq(SUBSET Titles) /\ Len(had') = Len(had)
    BY <1>b, <2>1, <2>2
  <2>5. \A q \in DOMAIN ledger : had'[q] = IF q = p THEN had[p] \cup {t} ELSE had[q]
    BY <2>1
  <2>6. ASSUME NEW q \in DOMAIN ledger PROVE ledger'[q].title \in had'[q]
    <3>1. ledger[q].title \in had[q] /\ ledger[q] \in ViewRow
      BY <1>b DEF ViewsInv
    <3>2. ledger'[q] = IF q = p THEN [ledger[p] EXCEPT !.title = t] ELSE ledger[q]
      BY <2>1
    <3> QED BY <2>5, <3>1, <3>2 DEF ViewRow
  <2> QED BY <1>b, <2>3, <2>4, <2>5, <2>6
<1>16. CASE UpdateConfirmed
  <2>1. update # NoUpdate /\ update.pc = "sent" /\ Retitled(update.id, update.next)
    BY <1>16 DEF UpdateConfirmed, NoUpdate
  <2>2. update.id \in DOMAIN ledger /\ update.next \in Titles
    BY <1>0, <2>1 DEF UpdateSound
  <2>3. update' = NoUpdate /\ UNCHANGED <<search, flow, fetched, list, dash, start, listLoad, reads>>
    BY <1>16 DEF UpdateConfirmed
  <2> QED BY <1>a, <1>b, <1>f, <2>1, <2>2, <2>3, ContractKeeps
<1>17. CASE UpdateResolved
  <2>1. update # NoUpdate /\ update.pc = "unconfirmed"
    BY <1>17 DEF UpdateResolved, NoUpdate
  <2>2. update.id \in DOMAIN ledger /\ update.next \in Titles
    BY <1>0, <2>1 DEF UpdateSound
  <2>3. update' = NoUpdate /\ UNCHANGED <<search, flow, fetched, list, dash, start, listLoad>>
    BY <1>17 DEF UpdateResolved
  <2>4. CASE /\ Retitled(update.id, update.next)
             /\ IF fetched # Nothing /\ search # 0 THEN StartRead(search) ELSE UNCHANGED reads
    <3>0. search # 0 => search \in DOMAIN ledger
      BY <1>b
    <3>1. \A r \in reads' : r.was \in ViewRow /\ HadTitle(r.was) /\ r.id \in DOMAIN ledger
      <4>1. CASE fetched # Nothing /\ search # 0
        BY <1>e, <2>4, <3>0, <4>1
      <4>2. CASE ~(fetched # Nothing /\ search # 0)
        BY <1>a, <2>4, <4>2
      <4> QED BY <4>1, <4>2
    <3> QED BY <1>b, <1>f, <2>1, <2>2, <2>3, <2>4, <3>1, ContractKeeps
  <2>5. CASE UNCHANGED <<ledger, had, reads>>
    BY <1>a, <1>b, <2>1, <2>3, <2>5, ContractKeeps DEF ViewsInv
  <2> QED BY <1>17, <2>4, <2>5 DEF UpdateResolved
<1>18. CASE Created
  <2>1. PICK t \in Titles : ledger' = Append(ledger, Row(Len(ledger) + 1, t)) /\ had' = Append(had, {t})
    BY <1>18 DEF Created
  <2>2. Row(Len(ledger) + 1, t) \in ViewRow /\ Row(Len(ledger) + 1, t).title = t
    BY <1>b DEF Row, ViewRow
  <2>3. /\ ledger' \in Seq(ViewRow) /\ had' \in Seq(SUBSET Titles) /\ Len(had') = Len(ledger')
        /\ Len(ledger') = Len(ledger) + 1
        /\ \A q \in DOMAIN ledger : had'[q] = had[q] /\ ledger'[q] = ledger[q]
        /\ had'[Len(ledger) + 1] = {t} /\ ledger'[Len(ledger) + 1] = Row(Len(ledger) + 1, t)
    BY <1>b, <2>1, <2>2
  <2>4. \A q \in DOMAIN ledger' : ledger'[q].title \in had'[q]
    <3>1. \A q \in DOMAIN ledger' : q \in DOMAIN ledger \/ q = Len(ledger) + 1
      BY <1>b, <2>3
    <3> QED BY <2>2, <2>3, <3>1 DEF ViewsInv
  <2>5. UNCHANGED <<search, flow, fetched, list, dash, start, listLoad, reads, update>>
    BY <1>18 DEF Created
  <2> QED BY <1>a, <1>b, <2>3, <2>4, <2>5, ContractKeeps
<1>19. ASSUME NEW p \in 0..Len(ledger), StartFlow(p) PROVE ViewsInv'
  <2>1. flow' \in [on : BOOLEAN, refetch : 0..Len(ledger)]
    BY <1>19 DEF StartFlow
  <2>2. ListSound'
    BY <1>0, <1>19 DEF ListSound, StartFlow
  <2> QED BY <1>19, <1>a, <1>b, <2>1, <2>2, LoadsKeep DEF StartFlow
<1>20. CASE FlowConfirmed \/ FlowFailed
  <2>1. \A r \in reads' : r.was \in ViewRow /\ HadTitle(r.was) /\ r.id \in DOMAIN ledger
    BY <1>20, <1>a, <1>b, <1>e DEF FlowConfirmed, FlowFailed
  <2>2. flow' \in [on : BOOLEAN, refetch : 0..Len(ledger)] /\ ListSound'
    <3>1. flow' = NoFlow /\ UNCHANGED <<list, start, listLoad>> /\ 0 \in 0..Len(ledger)
      BY <1>20, <1>b DEF FlowConfirmed, FlowFailed
    <3>2. ListSound'
      BY <1>0, <3>1 DEF ListSound
    <3> QED BY <3>1, <3>2 DEF NoFlow
  <2> QED BY <1>20, <1>a, <1>b, <2>1, <2>2, LoadsKeep DEF FlowConfirmed, FlowFailed
<1>21. CASE Loads
  BY <1>21, <1>2, <1>3, <1>4, <1>5, <1>6, <1>7, <1>9 DEF Loads
<1>22. CASE User
  BY <1>22, <1>7, <1>8, <1>10, <1>11, <1>12, <1>13 DEF User
<1>23. CASE Mutations
  <2>1. 0 \in 0..Len(ledger)
    BY <1>b
  <2> QED
    BY <1>23, <1>b, <1>14, <1>15, <1>16, <1>17, <1>19, <1>20, <2>1
    DEF Mutations, runDistribute, runDeposit, runUpdateCollaborators, runLockProject
<1> QED BY <1>1, <1>18, <1>21, <1>22, <1>23 DEF Next

\* What the invariant says of the views.
LEMMA ViewsPromise == ViewsInv => NoPhantomTitles /\ ListIsPrefix
<1> SUFFICES ASSUME ViewsInv PROVE NoPhantomTitles /\ ListIsPrefix
  OBVIOUS
<1>1. ListIsPrefix
  BY DEF ViewsInv, ListSound, ListIsPrefix
<1>2. ASSUME update.pc # "sent", NEW row \in Rows \ {Nothing} PROVE row.title \in had[row.id]
  <2>1. Shown(row)
    BY <1>2 DEF Rows, ViewsInv
  <2> QED BY <1>2, <2>1 DEF Shown, HadTitle
<1> QED BY <1>1, <1>2 DEF NoPhantomTitles

\* No view keeps a title its project never had, and the list is a beginning of
\* the index (patchProjectInAllViews, onFetchProjectsList): for any number of
\* projects, any size of a page, and loads and mutations in any number at once.
THEOREM TitlesNeverPhantom == Spec => [](NoPhantomTitles /\ ListIsPrefix)
<1>1. ViewsInv /\ [Next]_vars => ViewsInv'
  BY ViewsKept
<1> QED BY <1>1, ViewsStart, ViewsPromise, PTL DEF Spec

-----------------------------------------------------------------------------
(* The page *)

\* The parts that do not move keep their initial state.
ScreensInv ==
  /\ ViewsInv
  /\ (part = "submissions" => SubsInv) /\ (part = "form" => FormInv)
  /\ (part = "toasts" => ToastInv) /\ (part = "admin" => PanelInv)

\* A step of the page is a step of its part.
LEMMA StepOfParts ==
  ASSUME [MCNext]_mcVars
  PROVE  /\ part' = part /\ [Next]_vars
         /\ part = "form" => [Form!Next]_formVars
         /\ part = "submissions" => [Subs!Next]_subVars
         /\ part = "admin" => [Panel!Next]_panelVars
         /\ part = "toasts" => [Toast!Next]_toastVars
<1>1. CASE UNCHANGED mcVars
  BY <1>1 DEF mcVars
<1>2. CASE MCNext
  BY <1>2 DEF MCNext, FormStep, SubsStep, PanelStep, ToastStep
<1> QED BY <1>1, <1>2

\* The invariants of the parts hold throughout.
LEMMA ScreensInvariant == MCSpec => []ScreensInv
<1>1. MCInit => ScreensInv
  BY ViewsStart, SubsStart, FormStart, ToastStart, PanelStart
  DEF MCInit, SubsInit, FormInit, ToastInit, PanelInit, ScreensInv
<1>2. ScreensInv /\ [MCNext]_mcVars => ScreensInv'
  BY StepOfParts, ViewsKept, SubsKept, FormKept, ToastKept, PanelKept DEF ScreensInv
<1> QED BY <1>1, <1>2, PTL DEF MCSpec

\* An action whose submission was reported unconfirmed is free again only when
\* its transaction is decided and the user was told (submission-guard.ts,
\* onCheckUnconfirmed), and a receipt that reads "success" is one of an applied
\* transaction (split-app-legacy.tsx): as the page is composed for TLC.
THEOREM SubmissionsAlwaysTrue == MCSpec => []SubmissionsTrue
<1>1. ScreensInv => SubmissionsTrue
  BY SubsPromise DEF ScreensInv, SubmissionsTrue
<1> QED BY <1>1, ScreensInvariant, PTL

\* No view keeps a title its project never had, and the list is a beginning of
\* the index (patchProjectInAllViews, onFetchProjectsList): as the page is
\* composed for TLC.
THEOREM ViewsAlwaysTrue == MCSpec => []ViewsTrue
<1>1. ScreensInv => ViewsTrue
  BY ViewsPromise DEF ScreensInv, ViewsTrue
<1> QED BY <1>1, ScreensInvariant, PTL

\* What stops the form is named (submitForm, CreateSplitWizardLegacy.tsx), and
\* the failure a tab reported last is listed (toast-history.ts): for any number
\* of rows, tabs and failures.
THEOREM FailuresAlwaysShown == MCSpec => []FailuresShown
<1>1. ScreensInv => FailuresShown
  BY FormPromise, ToastPromise DEF ScreensInv, FailuresShown
<1> QED BY <1>1, ScreensInvariant, PTL

\* What is built for the wallet is a list the contract accepts, up to the number
\* of collaborators its administrator allows (submitForm, createSplitSchema): for
\* any number of rows and any total of the shares.
THEOREM BuiltAlwaysAccepted == MCSpec => []BuiltIsAccepted
<1>1. ScreensInv => BuiltIsAccepted
  BY FormPromise DEF ScreensInv, BuiltIsAccepted
<1> QED BY <1>1, ScreensInvariant, PTL

\* The status on the pause card is never replaced by an older one, unless the
\* admin refreshed it before its first load had ended (refreshAdminStatus,
\* split-app-legacy.tsx): for any number of toggles, of changes made elsewhere,
\* and whatever fails.
THEOREM PauseStaysInOrder == MCSpec => PauseInOrder
<1>1. ScreensInv /\ [MCNext]_mcVars => [part = "admin" => Panel!ShownInOrder]_panelVars
  BY StepOfParts, PanelKept DEF ScreensInv
<1> QED BY <1>1, ScreensInvariant, PTL DEF MCSpec, PauseInOrder
=============================================================================
