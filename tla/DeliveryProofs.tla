---------------------------- MODULE DeliveryProofs ----------------------------
(* Theorems about Delivery, for every number of jobs and tabs, every        *)
(* threshold and every set of disturbances.                                 *)
EXTENDS Delivery, TLAPS

Stores == [delivered : SUBSET Keys, active : SUBSET Entries, alerted : SUBSET Jobs]
Workers == [ledger : SUBSET Keys, alerted : SUBSET Jobs, tab : Tabs \cup {NoTab},
            failures : [Jobs -> 0..(Threshold - 1)]]

-----------------------------------------------------------------------------
(* Types.                                                                   *)

\* What is queued is a send.
LEMMA QueuedSends ==
  ASSUME sends \subseteq Sends, NEW kind \in Kinds, NEW j \in Jobs, NEW t \in Tabs
  PROVE  Queued(kind, j, t) \subseteq Sends
<1>1. [kind |-> kind, job |-> j, tab |-> t, typed |-> FALSE] \in Sends
  BY DEF Sends
<1>. QED
  BY <1>1 DEF Queued

\* What is marked is a key, in memory and in storage.
LEMMA MarkedKeys ==
  ASSUME worker \in Workers, store \in Stores, NEW kind \in Kinds, NEW j \in Jobs
  PROVE  /\ Mark(worker, LedgerKey(kind, j)) \in Workers
         /\ Marked(LedgerKey(kind, j)) \in Stores
<1>1. LedgerKey(kind, j) \in Keys
  BY DEF LedgerKey, Keys
<1>. QED
  BY <1>1 DEF Mark, Marked, Workers, Stores

\* A change of the registry works on a list of entries.
LEMMA RegistryWrites ==
  ASSUME store \in Stores, NEW who \in {"add", "watch", "confirm"}, NEW j \in Jobs, NEW t \in Tabs
  PROVE  RegistryWrite(who, j, t) \in Writes
BY DEF RegistryWrite, Writes, Stores

\* The worker that starts holds what was stored.
LEMMA FreshWorkers == ASSUME store \in Stores PROVE FreshWorker \in Workers
BY BoundsAssumption DEF FreshWorker, Stores, Workers

\* A page is counted and remembered.
LEMMA PagedTypes ==
  ASSUME worker \in Workers, store \in Stores, pages \in [Jobs -> 0..PageCap], NEW j \in Jobs, Page(j)
  PROVE  worker' \in Workers /\ store' \in Stores /\ pages' \in [Jobs -> 0..PageCap]
<1>1. worker.alerted \cup {j} \in SUBSET Jobs
  BY DEF Workers
<1>2. store' \in Stores
  BY <1>1 DEF Page, Stores
<1>3. worker' \in Workers
  <2>1. [worker.failures EXCEPT ![j] = 0] \in [Jobs -> 0..(Threshold - 1)]
    BY BoundsAssumption DEF Workers
  <2>2. worker' = [ledger |-> worker.ledger, alerted |-> worker.alerted \cup {j}, tab |-> worker.tab,
                   failures |-> [worker.failures EXCEPT ![j] = 0]]
    BY DEF Page, Workers
  <2>. QED
    BY <1>1, <2>1, <2>2 DEF Workers
<1>4. pages' \in [Jobs -> 0..PageCap]
  <2>1. pages[j] \in 0..PageCap
    OBVIOUS
  <2>2. PICK n \in 0..PageCap : pages' = [pages EXCEPT ![j] = n]
    <3>1. CASE j \notin worker.alerted /\ pages[j] < PageCap
      <4>1. pages[j] + 1 \in 0..PageCap
        BY <2>1, <3>1, BoundsAssumption
      <4>2. pages' = [pages EXCEPT ![j] = pages[j] + 1]
        BY <3>1 DEF Page
      <4>. QED
        BY <4>1, <4>2
    <3>2. CASE ~ (j \notin worker.alerted /\ pages[j] < PageCap)
      <4>1. pages' = [pages EXCEPT ![j] = pages[j]]
        BY <3>2 DEF Page
      <4>. QED
        BY <2>1, <4>1
    <3>. QED
      BY <3>1, <3>2
  <2>. QED
    BY <2>2
<1>. QED
  BY <1>2, <1>3, <1>4

\* The first state is well typed.
LEMMA InitTypes == Init => TypeOK
<1> SUFFICES ASSUME Init PROVE TypeOK
  OBVIOUS
<1>1. store \in Stores
  BY DEF Init, Stores
<1>2. worker \in Workers
  BY <1>1, FreshWorkers DEF Init
<1>. QED
  BY <1>1, <1>2, BoundsAssumption DEF Init, TypeOK, Rows, Statuses, Stores, Workers

\* Every step keeps the types.
LEMMA StepTypes == TypeOK /\ [Next]_vars => TypeOK'
<1> SUFFICES ASSUME TypeOK, [Next]_vars PROVE TypeOK'
  OBVIOUS
<1>0. /\ may \in Settings
      /\ row \in [Jobs -> Rows] /\ wakes \subseteq Jobs /\ tabRow \in Tabs \cup {NoTab}
      /\ open \subseteq Tabs /\ store \in Stores /\ worker \in Workers
      /\ asks \subseteq Asks /\ writes \subseteq Writes /\ sends \subseteq Sends /\ acks \subseteq Acks
      /\ landed \in [Jobs -> 0..(CutCap + 2)] /\ cut \in [Jobs -> 0..CutCap]
      /\ pages \in [Jobs -> 0..PageCap]
  BY DEF TypeOK, Stores, Workers
<1>c. ASSUME NEW gone \in SUBSET Sends, CutBy(gone) PROVE cut' \in [Jobs -> 0..CutCap]
  BY <1>0, <1>c, BoundsAssumption DEF CutBy
<1>1. ASSUME NEW j \in Jobs, JobEnds(j) \/ GoesStale(j) \/ Resumes(j) PROVE TypeOK'
  <2>1. row' \in [Jobs -> Rows]
    BY <1>0, <1>1 DEF JobEnds, GoesStale, Resumes, Rows, Statuses
  <2>. QED
    BY <1>0, <1>1, <2>1 DEF TypeOK, Stores, Workers, JobEnds, GoesStale, Resumes, history
<1>2. ASSUME NEW j \in Jobs, Nudge(j) PROVE TypeOK'
  BY <1>0, <1>2 DEF TypeOK, Stores, Workers, Nudge, history
<1>3. ASSUME NEW j \in Jobs, ClaimWake(j) PROVE TypeOK'
  <2>1. tabRow \in Tabs /\ row[j] \in Rows
    BY <1>0, <1>3 DEF ClaimWake
  <2>2. [by |-> "wake", at |-> "look", job |-> j, tab |-> tabRow, seen |-> row[j]] \in Asks
    BY <2>1 DEF Asks
  <2>. QED
    BY <1>0, <1>3, <2>2 DEF TypeOK, Stores, Workers, ClaimWake, history, relay
<1>4. ASSUME NEW j \in Jobs, NEW t \in Tabs, Dispatch(j, t) PROVE TypeOK'
  <2>1. row' \in [Jobs -> Rows]
    BY <1>0, <1>4 DEF Dispatch, Rows, Statuses
  <2>2. worker' \in Workers /\ tabRow' \in Tabs \cup {NoTab}
    BY <1>0, <1>4 DEF Dispatch, RegisterTab, Workers
  <2>3. writes' \subseteq Writes
    BY <1>0, <1>4, RegistryWrites DEF Dispatch
  <2>. QED
    BY <1>0, <1>4, <2>1, <2>2, <2>3 DEF TypeOK, Stores, Workers, Dispatch, history
<1>5. ASSUME NEW j \in Jobs, NEW t \in Tabs, Advise(j, t) PROVE TypeOK'
  <2>1. sends' \subseteq Sends
    BY <1>0, <1>5, QueuedSends DEF Advise, Kinds
  <2>. QED
    BY <1>0, <1>5, <2>1 DEF TypeOK, Stores, Workers, Advise, history, relay
<1>6. ASSUME NEW t \in Tabs, LoadPage(t) PROVE TypeOK'
  <2>1. worker' \in Workers /\ tabRow' \in Tabs \cup {NoTab}
    BY <1>0, <1>6 DEF LoadPage, RegisterTab, Workers
  <2>2. \A j \in Jobs : RegistryWrite("add", j, t) \in Writes
    BY <1>0, RegistryWrites
  <2>3. writes' \subseteq Writes
    BY <1>0, <1>6, <2>2 DEF LoadPage
  <2>. QED
    BY <1>0, <1>6, <2>1, <2>3 DEF TypeOK, Stores, Workers, LoadPage, history
<1>7. ASSUME NEW t \in Tabs, CloseTab(t) PROVE TypeOK'
  <2>1. worker' \in Workers
    BY <1>0, <1>7 DEF CloseTab, Workers
  <2>2. cut' \in [Jobs -> 0..CutCap]
    <3>1. PICK gone \in SUBSET Sends : CutBy(gone)
      BY <1>0, <1>7 DEF CloseTab
    <3>. QED
      BY <1>c, <3>1
  <2>. QED
    BY <1>0, <1>7, <2>1, <2>2 DEF TypeOK, Stores, Workers, CloseTab, relay
<1>8. CASE Heartbeat
  <2>1. worker.tab \in Tabs
    BY <1>0, <1>8 DEF Heartbeat, Workers
  <2>2. worker' \in Workers /\ tabRow' \in Tabs \cup {NoTab}
    BY <1>0, <1>8, <2>1 DEF Heartbeat, RegisterTab, Workers
  <2>. QED
    BY <1>0, <1>8, <2>2 DEF TypeOK, Stores, Workers, Heartbeat, history
<1>9. CASE WatchTick
  <2>0. \A e \in store.active : e.job \in Jobs /\ e.tab \in Tabs
    BY <1>0 DEF Stores, Entries
  <2>1. \A e \in store.active :
          [by |-> "watch", at |-> "asked", job |-> e.job, tab |-> e.tab, seen |-> row[e.job]] \in Asks
    BY <1>0, <2>0 DEF Asks
  <2>2. \A e \in store.active : RegistryWrite("watch", e.job, e.tab) \in Writes
    BY <1>0, <2>0, RegistryWrites
  <2>3. asks' \subseteq Asks
    BY <1>0, <1>9, <2>1 DEF WatchTick
  <2>4. writes' \subseteq Writes
    BY <1>0, <1>9, <2>2 DEF WatchTick
  <2>. QED
    BY <1>0, <1>9, <2>3, <2>4 DEF TypeOK, Stores, Workers, WatchTick, history, relay
<1>10. CASE Restart
  <2>1. worker' \in Workers
    BY <1>0, <1>10, FreshWorkers DEF Restart
  <2>2. cut' \in [Jobs -> 0..CutCap]
    BY <1>0, <1>c, <1>10 DEF Restart
  <2>. QED
    BY <1>0, <1>10, <2>1, <2>2 DEF TypeOK, Stores, Workers, Restart, relay
<1>11. ASSUME NEW w \in writes, Write(w) PROVE TypeOK'
  <2>1. w.job \in Jobs /\ w.tab \in Tabs /\ w.list \in SUBSET Entries
    BY <1>0 DEF Writes
  <2>2. [job |-> w.job, tab |-> w.tab] \in Entries
    BY <2>1 DEF Entries
  <2>3. store' \in Stores
    <3>1. PICK list : store' = [store EXCEPT !.active = list] /\ list \in SUBSET Entries
      <4>1. store.active \in SUBSET Entries
        BY <1>0 DEF Stores
      <4>. QED
        BY <1>11, <2>1, <2>2, <4>1 DEF Write
    <3>. QED
      BY <1>0, <3>1 DEF Stores
  <2>4. acks' \subseteq Acks
    BY <1>0, <1>11, <2>1 DEF Write, Ack, Acks
  <2>. QED
    BY <1>0, <1>11, <2>3, <2>4 DEF TypeOK, Stores, Workers, Write, history, relay
<1>12. ASSUME NEW a \in asks PROVE a.job \in Jobs /\ a.tab \in Tabs /\ TabFor(a) \in Tabs
  BY <1>0 DEF Asks, TabFor, Workers
<1>13. ASSUME NEW a \in asks, LookUp(a) PROVE TypeOK'
  <2>1. [a EXCEPT !.at = "asked", !.seen = row[a.job]] \in Asks
    BY <1>0, <1>12 DEF Asks
  <2>2. Ack("wake", a.job) \in Acks
    BY <1>12 DEF Ack, Acks
  <2>3. asks' \subseteq Asks /\ acks' \subseteq Acks
    BY <1>0, <1>13, <2>1, <2>2 DEF LookUp
  <2>. QED
    BY <1>0, <1>13, <2>3 DEF TypeOK, Stores, Workers, LookUp, history, relay
<1>14. ASSUME NEW a \in asks, Watched(a) PROVE TypeOK'
  <2>1. Queued("wake", a.job, TabFor(a)) \subseteq Sends
    BY <1>0, <1>12, QueuedSends DEF Kinds
  <2>2. RegistryWrite("watch", a.job, a.tab) \in Writes
    BY <1>0, <1>12, RegistryWrites
  <2>3. /\ Mark(worker, LedgerKey("wake", a.job)) \in Workers
        /\ Marked(LedgerKey("wake", a.job)) \in Stores
    BY <1>0, <1>12, MarkedKeys DEF Kinds
  <2>4. store' \in Stores /\ worker' \in Workers /\ writes' \subseteq Writes /\ sends' \subseteq Sends
    BY <1>0, <1>14, <2>1, <2>2, <2>3 DEF Watched
  <2>. QED
    BY <1>0, <1>14, <2>4 DEF TypeOK, Stores, Workers, Watched, history, relay
<1>15. ASSUME NEW a \in asks, Redelivered(a) PROVE TypeOK'
  <2>1. Queued("wake", a.job, a.tab) \subseteq Sends
    BY <1>0, <1>12, QueuedSends DEF Kinds
  <2>2. Ack("wake", a.job) \in Acks
    BY <1>12 DEF Ack, Acks
  <2>3. /\ Mark(worker, LedgerKey("wake", a.job)) \in Workers
        /\ Marked(LedgerKey("wake", a.job)) \in Stores
    BY <1>0, <1>12, MarkedKeys DEF Kinds
  <2>4. store' \in Stores /\ worker' \in Workers /\ acks' \subseteq Acks /\ sends' \subseteq Sends
    BY <1>0, <1>15, <2>1, <2>2, <2>3 DEF Redelivered
  <2>. QED
    BY <1>0, <1>15, <2>4 DEF TypeOK, Stores, Workers, Redelivered, history, relay
<1>16. ASSUME NEW a \in asks, AskFails(a) PROVE TypeOK'
  BY <1>0, <1>16 DEF TypeOK, Stores, Workers, AskFails, history, relay
<1>17. ASSUME NEW s \in sends
       PROVE  s.job \in Jobs /\ s.tab \in Tabs /\ s.kind \in Kinds
  BY <1>0 DEF Sends
<1>18. ASSUME NEW s \in sends, Lands(s) PROVE TypeOK'
  <2>1. [s EXCEPT !.typed = TRUE] \in Sends
    BY <1>0 DEF Sends
  <2>2. landed' \in [Jobs -> 0..(CutCap + 2)]
    BY <1>0, <1>17, <1>18, BoundsAssumption DEF Lands
  <2>. QED
    BY <1>0, <1>18, <2>1, <2>2 DEF TypeOK, Stores, Workers, Lands, relay
<1>19. ASSUME NEW s \in sends, Sent(s) PROVE TypeOK'
  <2>1. /\ Mark(worker, LedgerKey(s.kind, s.job)) \in Workers
        /\ Marked(LedgerKey(s.kind, s.job)) \in Stores
    BY <1>0, <1>17, MarkedKeys
  <2>2. worker' \in Workers /\ store' \in Stores
    BY <1>17, <1>19, <2>1, BoundsAssumption DEF Sent, Workers
  <2>3. writes' \subseteq Writes
    BY <1>0, <1>17, <1>19, RegistryWrites DEF Sent
  <2>. QED
    BY <1>0, <1>19, <2>2, <2>3 DEF TypeOK, Stores, Workers, Sent, history, relay
<1>20. ASSUME NEW s \in sends, Fails(s) PROVE TypeOK'
  <2>1. CASE s.kind = "advice"
    BY <1>0, <1>20, <2>1 DEF TypeOK, Stores, Workers, Fails, relay
  <2>2. CASE s.kind # "advice" /\ worker.failures[s.job] + 1 < Threshold
    <3>1. worker' \in Workers
      BY <1>0, <1>17, <1>20, <2>2, BoundsAssumption DEF Fails, Workers
    <3>. QED
      BY <1>0, <1>20, <2>2, <3>1 DEF TypeOK, Stores, Workers, Fails, relay
  <2>3. CASE s.kind # "advice" /\ ~ (worker.failures[s.job] + 1 < Threshold)
    <3>1. Page(s.job)
      BY <1>20, <2>3 DEF Fails
    <3>2. s.job \in Jobs
      BY <1>17
    <3>3. worker' \in Workers /\ store' \in Stores /\ pages' \in [Jobs -> 0..PageCap]
      BY <1>0, <3>1, <3>2, PagedTypes
    <3>. QED
      BY <1>0, <1>20, <2>3, <3>3 DEF TypeOK, Stores, Workers, Fails, relay
  <2>. QED
    BY <2>1, <2>2, <2>3
<1>21. ASSUME NEW s \in sends, HeldBack(s) PROVE TypeOK'
  <2>1. worker' \in Workers
    BY <1>0, <1>17, <1>21, BoundsAssumption DEF HeldBack, Workers
  <2>. QED
    BY <1>0, <1>21, <2>1 DEF TypeOK, Stores, Workers, HeldBack, history, relay
<1>22. ASSUME NEW a \in acks, AckLands(a) \/ AckLost(a) PROVE TypeOK'
  <2>1. a.job \in Jobs
    BY <1>0 DEF Acks
  <2>2. row' \in [Jobs -> Rows]
    BY <1>0, <1>22, <2>1 DEF AckLands, AckLost, Rows, relay
  <2>. QED
    BY <1>0, <1>22, <2>2 DEF TypeOK, Stores, Workers, AckLands, AckLost, history, relay
<1>23. CASE UNCHANGED vars
  BY <1>0, <1>23 DEF TypeOK, Stores, Workers, vars, relay, history
<1>. QED
  BY <1>1, <1>2, <1>3, <1>4, <1>5, <1>6, <1>7, <1>8, <1>9, <1>10, <1>11, <1>13, <1>14, <1>15,
     <1>16, <1>18, <1>19, <1>20, <1>21, <1>22, <1>23 DEF Next

\* The variables keep their types; a count of failures stays below the threshold.
THEOREM TypeCorrect == Spec => []TypeOK
  BY InitTypes, StepTypes, PTL DEF Spec

-----------------------------------------------------------------------------
(* What is called delivered was submitted. The word goes from the send that *)
(* landed into the ledger, from there over a registry change and its        *)
(* acknowledgement into the row, and from the row, as some answer showed    *)
(* it, into the ledger again.                                               *)

SentHaveLanded == \A s \in sends : s.kind = "wake" /\ s.typed => landed[s.job] > 0
LedgersAreTrue ==
  \A j \in Jobs : LedgerKey("wake", j) \in worker.ledger \cup store.delivered => landed[j] > 0
ConfirmsAreTrue == \A w \in writes : w.by = "confirm" => landed[w.job] > 0
AcksAreTrue == \A a \in acks : a.kind = "delivered" => landed[a.job] > 0
RowsAreTrue == \A j \in Jobs : row[j].delivered => landed[j] > 0
AnswersAreTrue == \A a \in asks : a.seen.delivered => landed[a.job] > 0

TruthInv ==
  /\ SentHaveLanded /\ LedgersAreTrue /\ ConfirmsAreTrue
  /\ AcksAreTrue /\ RowsAreTrue /\ AnswersAreTrue

\* Nothing that landed is taken back.
LEMMA LandedStays ==
  ASSUME TypeOK, [Next]_vars, NEW j \in Jobs, landed[j] > 0
  PROVE  landed'[j] > 0
<1>1. CASE \E s \in sends : Lands(s)
  <2>1. PICK s \in sends : Lands(s)
    BY <1>1
  <2>2. s.job \in Jobs
    BY DEF TypeOK, Sends
  <2>. QED
    BY <2>1, <2>2 DEF Lands, TypeOK
<1>2. CASE UNCHANGED landed
  BY <1>2
<1>. QED
  BY <1>1, <1>2 DEF Next, vars, history, JobEnds, GoesStale, Resumes, Nudge, ClaimWake, Dispatch, Advise,
     LoadPage, CloseTab, Heartbeat, WatchTick, Restart, Write, LookUp, Watched, Redelivered, AskFails,
     Sent, Fails, HeldBack, AckLands, AckLost

\* What a queued result adds to the sends has not been typed.
LEMMA QueuedAreUntyped ==
  ASSUME NEW kind, NEW j, NEW t, NEW s \in Queued(kind, j, t), s.typed
  PROVE  s \in sends
BY DEF Queued

\* A step spreads no word of a delivery that is not true.
LEMMA StepTruth == TypeOK /\ TruthInv /\ [Next]_vars => TruthInv'
<1> SUFFICES ASSUME TypeOK, TruthInv, [Next]_vars PROVE TruthInv'
  OBVIOUS
<1> DEFINE Goal == TruthInv'
<1>0. /\ row \in [Jobs -> Rows] /\ store \in Stores /\ worker \in Workers
      /\ asks \subseteq Asks /\ writes \subseteq Writes /\ sends \subseteq Sends /\ acks \subseteq Acks
  BY DEF TypeOK, Stores, Workers
<1>01. SentHaveLanded /\ LedgersAreTrue /\ ConfirmsAreTrue /\ AcksAreTrue /\ RowsAreTrue /\ AnswersAreTrue
  BY DEF TruthInv
<1>02. \A j \in Jobs : landed[j] > 0 => landed'[j] > 0
  BY LandedStays
<1>a. ASSUME /\ \A s \in sends' : s.kind = "wake" /\ s.typed => s \in sends \/ landed'[s.job] > 0
             /\ \A j \in Jobs : LedgerKey("wake", j) \in worker'.ledger \cup store'.delivered =>
                  LedgerKey("wake", j) \in worker.ledger \cup store.delivered \/ landed'[j] > 0
             /\ \A w \in writes' : w.by = "confirm" => w \in writes \/ landed'[w.job] > 0
             /\ \A b \in acks' : b.kind = "delivered" => b \in acks \/ landed'[b.job] > 0
             /\ \A j \in Jobs : row'[j].delivered => row[j].delivered \/ landed'[j] > 0
             /\ \A b \in asks' : b.seen.delivered => b \in asks \/ landed'[b.job] > 0
      PROVE  Goal
  <2>1. SentHaveLanded'
    BY <1>0, <1>01, <1>02, <1>a DEF SentHaveLanded, Sends
  <2>2. LedgersAreTrue'
    BY <1>01, <1>02, <1>a DEF LedgersAreTrue, LedgerKey
  <2>3. ConfirmsAreTrue'
    BY <1>0, <1>01, <1>02, <1>a DEF ConfirmsAreTrue, Writes
  <2>4. AcksAreTrue'
    BY <1>0, <1>01, <1>02, <1>a DEF AcksAreTrue, Acks
  <2>5. RowsAreTrue' /\ AnswersAreTrue'
    BY <1>0, <1>01, <1>02, <1>a DEF RowsAreTrue, AnswersAreTrue, Asks
  <2>. QED
    BY <2>1, <2>2, <2>3, <2>4, <2>5 DEF TruthInv
<1> HIDE DEF Goal
<1>1. ASSUME NEW j \in Jobs, JobEnds(j) \/ GoesStale(j) \/ Resumes(j) PROVE Goal
  <2>1. UNCHANGED <<store, worker, asks, writes, sends, acks>>
        /\ \A k \in Jobs : row'[k].delivered = row[k].delivered
    BY <1>0, <1>1 DEF JobEnds, GoesStale, Resumes, Rows
  <2>. QED
    BY <1>a, <2>1
<1>2. ASSUME NEW j \in Jobs, Nudge(j) PROVE Goal
  BY <1>a, <1>2 DEF Nudge
<1>3. ASSUME NEW j \in Jobs, ClaimWake(j) PROVE Goal
  <2>1. UNCHANGED <<store, worker, row, writes, sends, acks>>
        /\ \A b \in asks' : b \in asks \/ (b.seen = row[j] /\ b.job = j)
    BY <1>3 DEF ClaimWake, relay
  <2>2. row[j].delivered => landed'[j] > 0
    BY <1>01, <1>02 DEF RowsAreTrue
  <2>. QED
    BY <1>a, <2>1, <2>2
<1>4. ASSUME NEW j \in Jobs, NEW t \in Tabs, Dispatch(j, t) PROVE Goal
  <2>1. /\ UNCHANGED <<store, asks, sends, acks>>
        /\ \A k \in Jobs : row'[k].delivered = row[k].delivered
        /\ worker'.ledger = worker.ledger
        /\ \A w \in writes' : w \in writes \/ w.by = "add"
    BY <1>0, <1>4 DEF Dispatch, RegisterTab, RegistryWrite, Rows, Workers
  <2>. QED
    BY <1>a, <2>1
<1>5. ASSUME NEW j \in Jobs, NEW t \in Tabs, Advise(j, t) PROVE Goal
  <2>1. UNCHANGED <<row, store, worker, asks, writes, acks>>
        /\ \A s \in sends' : s.typed => s \in sends
    BY <1>5, QueuedAreUntyped DEF Advise, relay
  <2>. QED
    BY <1>a, <2>1
<1>6. ASSUME NEW t \in Tabs, LoadPage(t) PROVE Goal
  <2>1. /\ UNCHANGED <<row, store, asks, sends, acks>> /\ worker'.ledger = worker.ledger
        /\ \A w \in writes' : w \in writes \/ w.by = "add"
    BY <1>0, <1>6 DEF LoadPage, RegisterTab, RegistryWrite, Workers
  <2>. QED
    BY <1>a, <2>1
<1>7. ASSUME NEW t \in Tabs, CloseTab(t) PROVE Goal
  <2>1. /\ UNCHANGED <<row, store, asks, writes, acks>> /\ worker'.ledger = worker.ledger
        /\ sends' \subseteq sends
    BY <1>0, <1>7 DEF CloseTab, relay, Workers
  <2>. QED
    BY <1>a, <2>1
<1>8. CASE Heartbeat
  <2>1. UNCHANGED <<row, store, asks, writes, sends, acks>> /\ worker'.ledger = worker.ledger
    BY <1>0, <1>8 DEF Heartbeat, RegisterTab, Workers
  <2>. QED
    BY <1>a, <2>1 DEF Goal
<1>9. CASE WatchTick
  <2>0. \A e \in store.active : e.job \in Jobs
    BY <1>0 DEF Stores, Entries
  <2>1. /\ UNCHANGED <<row, store, worker, sends, acks>>
        /\ \A w \in writes' : w \in writes \/ w.by = "watch"
        /\ \A b \in asks' : b \in asks \/ \E e \in store.active : b.seen = row[e.job] /\ b.job = e.job
    BY <1>9 DEF WatchTick, RegistryWrite, relay
  <2>2. \A b \in asks' : b.seen.delivered => b \in asks \/ landed'[b.job] > 0
    BY <1>01, <1>02, <2>0, <2>1 DEF RowsAreTrue
  <2>. QED
    BY <1>a, <2>1, <2>2 DEF Goal
<1>10. CASE Restart
  <2>1. /\ UNCHANGED <<row, store, acks>> /\ worker'.ledger = store.delivered
        /\ asks' = {} /\ writes' = {} /\ sends' = {}
    BY <1>10 DEF Restart, FreshWorker, relay
  <2>. QED
    BY <1>a, <2>1 DEF Goal
<1>11. ASSUME NEW w \in writes, Write(w) PROVE Goal
  <2>1. /\ UNCHANGED <<row, worker, asks, sends>> /\ writes' \subseteq writes
        /\ store'.delivered = store.delivered
        /\ \A b \in acks' : b \in acks \/ (w.by = "confirm" /\ b.job = w.job)
    BY <1>0, <1>11 DEF Write, Ack, Stores, relay
  <2>2. w.by = "confirm" => landed'[w.job] > 0
    BY <1>0, <1>01, <1>02 DEF ConfirmsAreTrue, Writes
  <2>. QED
    BY <1>a, <2>1, <2>2
<1>12. ASSUME NEW a \in asks PROVE a.job \in Jobs
  BY <1>0 DEF Asks
<1>13. ASSUME NEW a \in asks, LookUp(a) PROVE Goal
  <2>1. /\ UNCHANGED <<row, store, worker, writes, sends>>
        /\ \A b \in acks' : b \in acks \/ b.kind = "wake"
        /\ asks' \subseteq asks \cup {[a EXCEPT !.at = "asked", !.seen = row[a.job]]}
    BY <1>13 DEF LookUp, Ack, relay
  <2>3. a \in Asks
    BY <1>0
  <2>4. \A b \in asks' : b \in asks \/ (b.seen = row[a.job] /\ b.job = a.job)
    BY <2>1, <2>3 DEF Asks
  <2>2. row[a.job].delivered => landed'[a.job] > 0
    BY <1>01, <1>02, <1>12 DEF RowsAreTrue
  <2>. QED
    BY <1>a, <2>1, <2>2, <2>4
<1>14. ASSUME NEW a \in asks, NEW seen \in Answers(a), seen.delivered
       PROVE  landed'[a.job] > 0
  BY <1>01, <1>02, <1>12, <1>14 DEF Answers, RowsAreTrue, AnswersAreTrue
<1>15. ASSUME NEW a \in asks, landed'[a.job] > 0,
              worker' = Mark(worker, LedgerKey("wake", a.job)),
              store' = Marked(LedgerKey("wake", a.job))
       PROVE  \A j \in Jobs : LedgerKey("wake", j) \in worker'.ledger \cup store'.delivered =>
                LedgerKey("wake", j) \in worker.ledger \cup store.delivered \/ landed'[j] > 0
  BY <1>0, <1>15 DEF Mark, Marked, LedgerKey, Workers, Stores
<1>16. ASSUME NEW a \in asks, Watched(a) PROVE Goal
  <2>1. /\ UNCHANGED <<row, acks>> /\ asks' \subseteq asks
        /\ \A w \in writes' : w \in writes \/ w.by = "watch"
        /\ \A s \in sends' : s.typed => s \in sends
    BY <1>16, QueuedAreUntyped DEF Watched, RegistryWrite, relay
  <2>2. \/ UNCHANGED <<worker, store>>
        \/ /\ \E seen \in Answers(a) : seen.delivered
           /\ worker' = Mark(worker, LedgerKey("wake", a.job))
           /\ store' = Marked(LedgerKey("wake", a.job))
    BY <1>16 DEF Watched
  <2>3. \A j \in Jobs : LedgerKey("wake", j) \in worker'.ledger \cup store'.delivered =>
          LedgerKey("wake", j) \in worker.ledger \cup store.delivered \/ landed'[j] > 0
    BY <1>14, <1>15, <2>2
  <2>. QED
    BY <1>a, <2>1, <2>3
<1>17. ASSUME NEW a \in asks, Redelivered(a) PROVE Goal
  <2>1. /\ UNCHANGED <<row, writes>> /\ asks' \subseteq asks
        /\ \A b \in acks' : b \in acks \/ b.kind = "wake"
        /\ \A s \in sends' : s.typed => s \in sends
    BY <1>17, QueuedAreUntyped DEF Redelivered, Ack, relay
  <2>2. \/ UNCHANGED <<worker, store>>
        \/ /\ \E seen \in Answers(a) : seen.delivered
           /\ worker' = Mark(worker, LedgerKey("wake", a.job))
           /\ store' = Marked(LedgerKey("wake", a.job))
    BY <1>17 DEF Redelivered
  <2>3. \A j \in Jobs : LedgerKey("wake", j) \in worker'.ledger \cup store'.delivered =>
          LedgerKey("wake", j) \in worker.ledger \cup store.delivered \/ landed'[j] > 0
    BY <1>14, <1>15, <2>2
  <2>. QED
    BY <1>a, <2>1, <2>3
<1>18. ASSUME NEW a \in asks, AskFails(a) PROVE Goal
  <2>1. UNCHANGED <<row, store, worker, writes, sends, acks>> /\ asks' \subseteq asks
    BY <1>18 DEF AskFails, relay
  <2>. QED
    BY <1>a, <2>1
<1>19. ASSUME NEW s \in sends PROVE s \in Sends /\ s.job \in Jobs
  BY <1>0 DEF Sends
<1>20. ASSUME NEW s \in sends, Lands(s) PROVE Goal
  <2>1. UNCHANGED <<row, store, worker, asks, writes, acks>>
        /\ \A u \in sends' : u \in sends \/ (u.kind = s.kind /\ u.job = s.job)
    BY <1>19, <1>20 DEF Lands, Sends, relay
  <2>2. s.kind = "wake" => landed'[s.job] > 0
    <3>1. landed \in [Jobs -> 0..(CutCap + 2)] /\ CutCap \in Nat
      BY BoundsAssumption DEF TypeOK
    <3>2. s.kind = "wake" => \E n \in 1..(CutCap + 2) : landed' = [landed EXCEPT ![s.job] = n]
      <4>1. CASE landed[s.job] < CutCap + 2
        <5>1. landed[s.job] + 1 \in 1..(CutCap + 2)
          BY <1>19, <3>1, <4>1
        <5>2. s.kind = "wake" => landed' = [landed EXCEPT ![s.job] = landed[s.job] + 1]
          BY <1>20, <4>1 DEF Lands
        <5>. QED
          BY <5>1, <5>2
      <4>2. CASE ~ (landed[s.job] < CutCap + 2)
        <5>1. landed[s.job] \in 1..(CutCap + 2)
          BY <1>19, <3>1, <4>2
        <5>2. s.kind = "wake" => landed' = [landed EXCEPT ![s.job] = landed[s.job]]
          BY <1>20, <4>2 DEF Lands
        <5>. QED
          BY <5>1, <5>2
      <4>. QED
        BY <4>1, <4>2
    <3>. QED
      BY <1>19, <3>1, <3>2
  <2>. QED
    BY <1>a, <2>1, <2>2
<1>21. ASSUME NEW s \in sends, Sent(s) PROVE Goal
  <2>1. s.kind = "wake" => landed'[s.job] > 0
    BY <1>01, <1>02, <1>19, <1>21 DEF Sent, SentHaveLanded
  <2>2. /\ UNCHANGED <<row, asks, acks>> /\ sends' \subseteq sends
        /\ \A w \in writes' : w \in writes \/ (s.kind = "wake" /\ w.job = s.job)
    BY <1>21 DEF Sent, RegistryWrite, relay
  <2>3. /\ worker'.ledger = worker.ledger \cup {LedgerKey(s.kind, s.job)}
        /\ store'.delivered = worker.ledger \cup {LedgerKey(s.kind, s.job)}
    BY <1>0, <1>21 DEF Sent, Mark, Marked, Workers, Stores
  <2>4. \A j \in Jobs : LedgerKey("wake", j) \in worker'.ledger \cup store'.delivered =>
          LedgerKey("wake", j) \in worker.ledger \cup store.delivered \/ landed'[j] > 0
    BY <2>1, <2>3 DEF LedgerKey
  <2>. QED
    BY <1>a, <2>1, <2>2, <2>4
<1>22. ASSUME NEW s \in sends, Fails(s) PROVE Goal
  <2>1. UNCHANGED <<row, asks, writes, acks>> /\ sends' \subseteq sends
    BY <1>22 DEF Fails, relay
  <2>2. worker'.ledger = worker.ledger /\ store'.delivered = store.delivered
    BY <1>0, <1>22 DEF Fails, Page, Workers, Stores
  <2>. QED
    BY <1>a, <2>1, <2>2
<1>23. ASSUME NEW s \in sends, HeldBack(s) PROVE Goal
  <2>1. UNCHANGED <<row, store, asks, writes, acks>> /\ sends' \subseteq sends
    BY <1>23 DEF HeldBack, relay
  <2>2. worker'.ledger = worker.ledger
    BY <1>0, <1>23 DEF HeldBack, Workers
  <2>. QED
    BY <1>a, <2>1, <2>2
<1>24. ASSUME NEW a \in acks, AckLands(a) \/ AckLost(a) PROVE Goal
  <2>1. UNCHANGED <<store, worker, asks, writes, sends>> /\ acks' \subseteq acks
    BY <1>24 DEF AckLands, AckLost
  <2>2. a.job \in Jobs /\ (a.kind = "delivered" => landed'[a.job] > 0)
    BY <1>0, <1>01, <1>02 DEF AcksAreTrue, Acks
  <2>3. \A j \in Jobs : row'[j].delivered => row[j].delivered \/ landed'[j] > 0
    BY <1>0, <1>24, <2>2 DEF AckLands, AckLost, relay, Rows
  <2>. QED
    BY <1>a, <2>1, <2>3
<1>25. CASE UNCHANGED vars
  BY <1>a, <1>25 DEF Goal, vars, relay
<1>. QED
  BY <1>1, <1>2, <1>3, <1>4, <1>5, <1>6, <1>7, <1>8, <1>9, <1>10, <1>11, <1>13, <1>16, <1>17,
     <1>18, <1>20, <1>21, <1>22, <1>23, <1>24, <1>25 DEF Next, Goal

\* What the ledgers or the relay call delivered has been submitted to Claude.
THEOREM DeliveredIsTrue == Spec => []DeliveredMeansLanded
<1>1. Init => TruthInv
  BY DEF Init, TruthInv, SentHaveLanded, LedgersAreTrue, ConfirmsAreTrue, AcksAreTrue, RowsAreTrue,
     AnswersAreTrue, FreshWorker
<1>2. TruthInv => DeliveredMeansLanded
  BY DEF TruthInv, DeliveredMeansLanded, LedgersAreTrue, RowsAreTrue
<1>. QED
  BY <1>1, <1>2, InitTypes, StepTypes, StepTruth, PTL DEF Spec

-----------------------------------------------------------------------------
(* Pages. Whoever was paged is remembered, in memory and in storage.        *)

PageInv ==
  /\ worker.alerted = store.alerted
  /\ \A j \in Jobs : pages[j] = 0 \/ (pages[j] = 1 /\ j \in worker.alerted)

\* A page is remembered as it is sent, and what is remembered survives a restart.
LEMMA StepPages == TypeOK /\ PageInv /\ [Next]_vars => PageInv'
<1> SUFFICES ASSUME TypeOK, PageInv, [Next]_vars PROVE PageInv'
  OBVIOUS
<1>0. store \in Stores /\ worker \in Workers /\ pages \in [Jobs -> 0..PageCap] /\ PageCap \in Nat \ {0}
  BY BoundsAssumption DEF TypeOK, Stores, Workers
<1>1. CASE Restart
  BY <1>1 DEF Restart, FreshWorker, PageInv
<1>2. ASSUME NEW s \in sends, Fails(s), Page(s.job) PROVE PageInv'
  <2>1. PICK j \in Jobs : j = s.job
    BY DEF TypeOK, Sends
  <2>2. /\ worker'.alerted = worker.alerted \cup {j} /\ store'.alerted = worker.alerted \cup {j}
        /\ pages' = [pages EXCEPT ![j] = IF j \notin worker.alerted /\ @ < PageCap THEN @ + 1 ELSE @]
    BY <1>0, <1>2, <2>1 DEF Page, Workers, Stores
  <2>3. CASE j \in worker.alerted
    BY <1>0, <2>2, <2>3 DEF PageInv
  <2>4. CASE j \notin worker.alerted
    <3>1. pages[j] = 0
      BY <2>4 DEF PageInv
    <3>2. pages' = [pages EXCEPT ![j] = 1]
      <4>1. 0 < PageCap /\ pages[j] + 1 = 1
        BY <1>0, <3>1
      <4>2. j \notin worker.alerted /\ pages[j] < PageCap
        BY <2>4, <3>1, <4>1
      <4>3. pages' = [pages EXCEPT ![j] = pages[j] + 1]
        BY <2>2, <4>2
      <4>. QED
        BY <4>1, <4>3
    <3>. QED
      BY <1>0, <2>2, <3>2 DEF PageInv
  <2>. QED
    BY <2>3, <2>4
<1>3. ASSUME NEW s \in sends, Fails(s), ~ Page(s.job) PROVE PageInv'
  <2>1. worker'.alerted = worker.alerted /\ UNCHANGED <<store, pages>>
    BY <1>0, <1>3 DEF Fails, Workers
  <2>. QED
    BY <2>1 DEF PageInv
<1>4. ASSUME worker'.alerted = worker.alerted, store'.alerted = store.alerted, UNCHANGED pages
      PROVE  PageInv'
  BY <1>4 DEF PageInv
<1>5. ASSUME NEW j \in Jobs,
             \/ JobEnds(j) \/ GoesStale(j) \/ Resumes(j) \/ Nudge(j) \/ ClaimWake(j)
             \/ \E t \in Tabs : Dispatch(j, t) \/ Advise(j, t)
      PROVE  PageInv'
  BY <1>0, <1>4, <1>5 DEF JobEnds, GoesStale, Resumes, Nudge, ClaimWake, Dispatch, Advise, RegisterTab,
     history, Workers
<1>6. ASSUME NEW t \in Tabs, LoadPage(t) \/ CloseTab(t) PROVE PageInv'
  BY <1>0, <1>4, <1>6 DEF LoadPage, CloseTab, RegisterTab, history, Workers
<1>7. CASE Heartbeat \/ WatchTick \/ UNCHANGED vars
  BY <1>0, <1>4, <1>7 DEF Heartbeat, WatchTick, RegisterTab, vars, history, Workers
<1>8. ASSUME NEW w \in writes, Write(w) PROVE PageInv'
  BY <1>0, <1>4, <1>8 DEF Write, history, Stores
<1>9. ASSUME NEW a \in asks, LookUp(a) \/ Watched(a) \/ Redelivered(a) \/ AskFails(a) PROVE PageInv'
  <2>1. /\ UNCHANGED pages
        /\ \/ UNCHANGED <<store, worker>>
           \/ /\ worker' = Mark(worker, LedgerKey("wake", a.job))
              /\ store' = Marked(LedgerKey("wake", a.job))
    BY <1>9 DEF LookUp, Watched, Redelivered, AskFails, history
  <2>. QED
    BY <1>0, <1>4, <2>1 DEF Mark, Marked, Workers, Stores
<1>10. ASSUME NEW s \in sends, Lands(s) \/ Sent(s) \/ HeldBack(s) PROVE PageInv'
  <2>1. CASE Lands(s) \/ HeldBack(s)
    BY <1>0, <1>4, <2>1 DEF Lands, HeldBack, history, Workers
  <2>2. CASE Sent(s)
    BY <1>0, <1>4, <2>2 DEF Sent, Mark, Marked, history, Workers, Stores
  <2>. QED
    BY <1>10, <2>1, <2>2
<1>11. ASSUME NEW a \in acks, AckLands(a) \/ AckLost(a) PROVE PageInv'
  BY <1>4, <1>11 DEF AckLands, AckLost, history
<1>. QED
  BY <1>1, <1>2, <1>3, <1>5, <1>6, <1>7, <1>8, <1>9, <1>10, <1>11 DEF Next

\* A job is paged as lost once at most, however often the worker restarts.
THEOREM PagesAreRemembered == Spec => []PagedOnce
<1>1. Init => PageInv
  BY DEF Init, PageInv, FreshWorker
<1>2. PageInv => PagedOnce
  BY DEF PageInv, PagedOnce
<1>. QED
  BY <1>1, <1>2, InitTypes, StepTypes, StepPages, PTL DEF Spec

-----------------------------------------------------------------------------
(* Submissions. One send at most is pending for a result. A submission is   *)
(* covered by the send that made it, then by the ledger, or by the cut that *)
(* took the send away.                                                      *)

OneSend == \A s, u \in sends : s.kind = u.kind /\ s.job = u.job => s = u
LedgerIsStored == worker.ledger = store.delivered
Covered(j) ==
  \/ landed[j] <= cut[j]
  \/ LedgerKey("wake", j) \in worker.ledger
  \/ \E s \in sends : s.kind = "wake" /\ s.job = j /\ s.typed
LandingsAreCovered == \A j \in Jobs : landed[j] <= 1 + cut[j] /\ Covered(j)
UntypedAreNew == \A s \in sends : s.kind = "wake" /\ ~ s.typed => landed[s.job] <= cut[s.job]

LandInv == OneSend /\ LedgerIsStored /\ LandingsAreCovered /\ UntypedAreNew

\* A result is queued if it neither waits nor was delivered.
LEMMA QueuedAreNew ==
  ASSUME TypeOK, LandInv, NEW kind \in Kinds, NEW j \in Jobs, NEW t \in Tabs,
         sends' = Queued(kind, j, t), UNCHANGED <<landed, cut>>
  PROVE  OneSend' /\ UntypedAreNew' /\ sends \subseteq sends'
<1>1. CASE Pending(kind, j) \/ IsDelivered(kind, j)
  BY <1>1 DEF Queued, LandInv, OneSend, UntypedAreNew
<1>2. CASE ~ (Pending(kind, j) \/ IsDelivered(kind, j))
  <2> DEFINE new == [kind |-> kind, job |-> j, tab |-> t, typed |-> FALSE]
  <2>1. sends' = sends \cup {new} /\ new.kind = kind /\ new.job = j
    BY <1>2 DEF Queued
  <2>2. kind = "wake" => landed[j] <= cut[j]
    BY <1>2 DEF LandInv, LandingsAreCovered, Covered, Pending, IsDelivered
  <2> HIDE DEF new
  <2>. QED
    BY <1>2, <2>1, <2>2 DEF LandInv, OneSend, UntypedAreNew, Pending
<1>. QED
  BY <1>1, <1>2

\* Sends that are cut off after they landed are counted.
LEMMA CutsAreCounted ==
  ASSUME TypeOK, LandInv, NEW gone \in SUBSET sends, CutBy(gone), sends' = sends \ gone,
         UNCHANGED landed, worker'.ledger = worker.ledger
  PROVE  OneSend' /\ LandingsAreCovered' /\ UntypedAreNew'
<1>0. /\ landed \in [Jobs -> 0..(CutCap + 2)] /\ cut \in [Jobs -> 0..CutCap] /\ CutCap \in Nat
      /\ sends \subseteq Sends
  BY BoundsAssumption DEF TypeOK
<1>1. \A j \in Jobs : /\ cut[j] \in Nat /\ cut'[j] \in Nat /\ landed[j] \in Nat
                      /\ cut[j] <= cut'[j]
                      /\ j \in CutOff(gone) => cut'[j] = cut[j] + 1
  BY <1>0 DEF CutBy
<1>2. OneSend' /\ UntypedAreNew'
  BY <1>0, <1>1 DEF LandInv, OneSend, UntypedAreNew, Sends
<1>3. LandingsAreCovered'
  <2> SUFFICES ASSUME NEW j \in Jobs PROVE landed[j] <= 1 + cut'[j] /\ Covered(j)'
    BY DEF LandingsAreCovered
  <2>1. landed[j] <= 1 + cut[j] /\ Covered(j)
    BY DEF LandInv, LandingsAreCovered
  <2>2. CASE j \in CutOff(gone)
    BY <1>1, <2>1, <2>2 DEF Covered
  <2>3. CASE j \notin CutOff(gone)
    <3>1. \A s \in sends : s.kind = "wake" /\ s.job = j /\ s.typed => s \in sends'
      BY <2>3 DEF CutOff
    <3>. QED
      BY <1>1, <2>1, <3>1 DEF Covered
  <2>. QED
    BY <2>2, <2>3
<1>. QED
  BY <1>2, <1>3

\* Every submission stays covered.
LEMMA StepLandings == TypeOK /\ LandInv /\ [Next]_vars => LandInv'
<1> SUFFICES ASSUME TypeOK, LandInv, [Next]_vars PROVE LandInv'
  OBVIOUS
<1>0. /\ store \in Stores /\ worker \in Workers /\ sends \subseteq Sends /\ asks \subseteq Asks
      /\ landed \in [Jobs -> 0..(CutCap + 2)] /\ cut \in [Jobs -> 0..CutCap] /\ CutCap \in Nat
  BY BoundsAssumption DEF TypeOK, Stores, Workers
<1>1. CASE Restart
  <2>1. /\ worker'.ledger = worker.ledger /\ store' = store /\ UNCHANGED landed
        /\ CutBy(sends) /\ sends' = sends \ sends
    BY <1>1 DEF Restart, FreshWorker, LandInv, LedgerIsStored
  <2>. QED
    BY <2>1, CutsAreCounted DEF LandInv, LedgerIsStored
<1>2. ASSUME NEW t \in Tabs, CloseTab(t) PROVE LandInv'
  <2>1. PICK gone \in SUBSET sends :
          /\ worker'.ledger = worker.ledger /\ store' = store /\ UNCHANGED landed
          /\ CutBy(gone) /\ sends' = sends \ gone
    BY <1>0, <1>2 DEF CloseTab, Workers
  <2>. QED
    BY <2>1, CutsAreCounted DEF LandInv, LedgerIsStored
<1>3. ASSUME UNCHANGED <<sends, landed, cut>>, worker'.ledger = worker.ledger,
             store'.delivered = store.delivered
      PROVE  LandInv'
  BY <1>3 DEF LandInv, OneSend, LedgerIsStored, LandingsAreCovered, Covered, UntypedAreNew
<1>4. ASSUME NEW j \in Jobs,
             \/ JobEnds(j) \/ GoesStale(j) \/ Resumes(j) \/ Nudge(j) \/ ClaimWake(j)
             \/ \E t \in Tabs : Dispatch(j, t)
      PROVE  LandInv'
  BY <1>0, <1>3, <1>4 DEF JobEnds, GoesStale, Resumes, Nudge, ClaimWake, Dispatch, RegisterTab,
     history, Workers
<1>5. ASSUME NEW j \in Jobs, NEW t \in Tabs, Advise(j, t) PROVE LandInv'
  <2>1. OneSend' /\ UntypedAreNew' /\ sends \subseteq sends'
    BY <1>5, QueuedAreNew DEF Advise, Kinds, history
  <2>. QED
    BY <1>5, <2>1 DEF Advise, history, LandInv, LedgerIsStored, LandingsAreCovered, Covered
<1>6. ASSUME NEW t \in Tabs, LoadPage(t) PROVE LandInv'
  BY <1>0, <1>3, <1>6 DEF LoadPage, RegisterTab, history, Workers
<1>7. CASE Heartbeat \/ WatchTick \/ UNCHANGED vars
  BY <1>0, <1>3, <1>7 DEF Heartbeat, WatchTick, RegisterTab, vars, history, Workers
<1>8. ASSUME NEW w \in writes, Write(w) PROVE LandInv'
  BY <1>0, <1>3, <1>8 DEF Write, history, Stores
<1>9. ASSUME NEW a \in asks, LookUp(a) \/ AskFails(a) PROVE LandInv'
  BY <1>3, <1>9 DEF LookUp, AskFails, history
<1>10. ASSUME NEW a \in asks, Watched(a) \/ Redelivered(a) PROVE LandInv'
  <2>0. a.job \in Jobs /\ a.tab \in Tabs /\ TabFor(a) \in Tabs
    BY <1>0 DEF Asks, TabFor, Workers
  <2>1. /\ UNCHANGED <<landed, cut>>
        /\ \/ UNCHANGED sends
           \/ \E t \in Tabs : sends' = Queued("wake", a.job, t)
        /\ \/ UNCHANGED <<store, worker>>
           \/ /\ worker' = Mark(worker, LedgerKey("wake", a.job))
              /\ store' = Marked(LedgerKey("wake", a.job))
    BY <1>10, <2>0 DEF Watched, Redelivered, history
  <2>2. OneSend' /\ UntypedAreNew' /\ sends \subseteq sends'
    <3>1. CASE UNCHANGED sends
      BY <2>1, <3>1 DEF LandInv, OneSend, UntypedAreNew
    <3>2. CASE \E t \in Tabs : sends' = Queued("wake", a.job, t)
      BY <2>0, <2>1, <3>2, QueuedAreNew DEF Kinds
    <3>. QED
      BY <2>1, <3>1, <3>2
  <2>3. LedgerIsStored' /\ worker.ledger \subseteq worker'.ledger
    BY <1>0, <2>1 DEF LandInv, LedgerIsStored, Mark, Marked, Workers, Stores
  <2>. QED
    BY <2>1, <2>2, <2>3 DEF LandInv, LandingsAreCovered, Covered
<1>11. ASSUME NEW s \in sends PROVE s \in Sends /\ s.job \in Jobs
  BY <1>0 DEF Sends
<1>12. ASSUME NEW s \in sends, Lands(s) PROVE LandInv'
  <2> DEFINE typed == [s EXCEPT !.typed = TRUE]
  <2>1. /\ sends' = (sends \ {s}) \cup {typed} /\ UNCHANGED <<cut, store, worker>>
        /\ typed.kind = s.kind /\ typed.job = s.job /\ typed.typed = TRUE /\ ~ s.typed
    BY <1>11, <1>12 DEF Lands, Sends
  <2> HIDE DEF typed
  <2>2. OneSend'
    BY <2>1 DEF LandInv, OneSend
  <2>3. CASE s.kind = "wake"
    <3>0. PICK j \in Jobs : j = s.job
      BY <1>11
    <3>1. landed[j] <= cut[j]
      BY <2>1, <2>3, <3>0 DEF LandInv, UntypedAreNew
    <3>2. landed' = [landed EXCEPT ![j] = landed[j] + 1]
      <4>1. landed[j] < CutCap + 2
        BY <1>0, <3>1
      <4>. QED
        BY <1>12, <2>3, <3>0, <4>1 DEF Lands
    <3>3. /\ landed'[j] <= 1 + cut[j] /\ \A k \in Jobs \ {j} : landed'[k] = landed[k]
      BY <1>0, <3>1, <3>2
    <3>4. LandingsAreCovered'
      <4> SUFFICES ASSUME NEW k \in Jobs PROVE landed'[k] <= 1 + cut[k] /\ Covered(k)'
        BY <2>1 DEF LandingsAreCovered
      <4>1. CASE k = j
        BY <2>1, <2>3, <3>0, <3>3, <4>1 DEF Covered
      <4>2. CASE k # j
        BY <2>1, <3>0, <3>3, <4>2 DEF LandInv, LandingsAreCovered, Covered
      <4>. QED
        BY <4>1, <4>2
    <3>5. UntypedAreNew'
      <4> SUFFICES ASSUME NEW u \in sends', u.kind = "wake", ~ u.typed
                   PROVE  landed'[u.job] <= cut[u.job]
        BY <2>1 DEF UntypedAreNew
      <4>1. u \in sends /\ u # s
        BY <2>1
      <4>2. u.job # j
        BY <2>3, <3>0, <4>1 DEF LandInv, OneSend
      <4>. QED
        BY <1>11, <3>3, <4>1, <4>2 DEF LandInv, UntypedAreNew
    <3>. QED
      BY <2>1, <2>2, <3>4, <3>5 DEF LandInv, LedgerIsStored
  <2>4. CASE s.kind # "wake"
    <3>1. UNCHANGED landed
      BY <1>0, <1>11, <1>12, <2>4 DEF Lands
    <3>. QED
      BY <2>1, <2>2, <2>4, <3>1 DEF LandInv, LedgerIsStored, LandingsAreCovered, Covered, UntypedAreNew
  <2>. QED
    BY <2>3, <2>4
<1>13. ASSUME NEW s \in sends, Sent(s) PROVE LandInv'
  <2>1. /\ sends' = sends \ {s} /\ UNCHANGED <<landed, cut>>
        /\ worker'.ledger = worker.ledger \cup {LedgerKey(s.kind, s.job)}
        /\ store'.delivered = worker.ledger \cup {LedgerKey(s.kind, s.job)}
    BY <1>0, <1>13 DEF Sent, Mark, Marked, Workers, Stores, history
  <2>. QED
    BY <2>1 DEF LandInv, OneSend, LedgerIsStored, LandingsAreCovered, Covered, UntypedAreNew
<1>14. ASSUME NEW s \in sends, Fails(s) \/ HeldBack(s) PROVE LandInv'
  <2>1. /\ sends' = sends \ {s} /\ UNCHANGED <<landed, cut>> /\ ~ s.typed
        /\ worker'.ledger = worker.ledger /\ store'.delivered = store.delivered
    BY <1>0, <1>14 DEF Fails, HeldBack, Page, Workers, Stores, history
  <2>. QED
    BY <2>1 DEF LandInv, OneSend, LedgerIsStored, LandingsAreCovered, Covered, UntypedAreNew
<1>15. ASSUME NEW a \in acks, AckLands(a) \/ AckLost(a) PROVE LandInv'
  BY <1>3, <1>15 DEF AckLands, AckLost, history
<1>. QED
  BY <1>1, <1>2, <1>4, <1>5, <1>6, <1>7, <1>8, <1>9, <1>10, <1>12, <1>13, <1>14, <1>15 DEF Next

\* A result is submitted once, and once more only for each time a send was
\* cut off between its submission and the mark in the ledger.
THEOREM ResultsLandOnce == Spec => []LandsOnce
<1>1. Init => LandInv
  BY DEF Init, LandInv, OneSend, LedgerIsStored, LandingsAreCovered, Covered, UntypedAreNew, FreshWorker
<1>2. LandInv => LandsOnce
  BY DEF LandInv, LandingsAreCovered, LandsOnce
<1>. QED
  BY <1>1, <1>2, InitTypes, StepTypes, StepLandings, PTL DEF Spec
=============================================================================
