------------------------------ MODULE Delivery ------------------------------
(* From a finished job to its result in the chat: the bookkeeping of the    *)
(* service worker (delivered ledger, active-delivery registry, failure      *)
(* counts, pages) and the part of the relay that nudges a job whose result  *)
(* was not delivered. Two paths lead to the send queue: the watcher, which  *)
(* asks after every job of the registry, and the relay's per-job wake. The  *)
(* send itself is module SendQueue; here it is queued, lands in the chat    *)
(* and is found to have been sent, or fails.                                *)
(*                                                                          *)
(* The jobs are those of one thread. chrome.storage writes take effect when *)
(* they are issued, reads return what was stored when they were issued: a   *)
(* registry change is a read now and a write later. The ledger of a worker  *)
(* is loaded before it is asked, as every reader waits for it. The manual   *)
(* "send again" of the user, which forces a send, is left out, and so is    *)
(* the cap of 500 entries on the ledgers.                                   *)
EXTENDS Integers, FiniteSets

CONSTANTS
  Jobs,
  Tabs,
  NoTab,
  Threshold,   \* DELIVERY_FAILURE_VISIBLE_THRESHOLD
  CutCap,      \* sends of a job cut off after landing (a bound of the model)
  PageCap,     \* pages counted per job (a bound of the model)
  Settings     \* what may happen around it, in one behaviour or another

ASSUME NoTabAssumption == NoTab \notin Tabs
ASSUME BoundsAssumption ==
  Threshold \in Nat \ {0} /\ CutCap \in Nat /\ PageCap \in Nat \ {0}

VARIABLES
  may,      \* the disturbances of this behaviour, one of Settings
  row,      \* the relay's jobs: status and delivered_at
  wakes,    \* jobs with a wake result-watchdog#<id>
  tabRow,   \* the relay's tab of the thread (register_tab.php)
  open,     \* tabs that exist and show the conversation
  store,    \* chrome.storage.local: delivered, active, alerted
  worker,   \* its memory: ledger, alerted, tab (registeredThreads), failures
  asks,     \* result.php requests whose answer is not handled yet
  writes,   \* registry changes read and not yet written
  sends,    \* pendingSends
  acks,     \* POSTs to delivery.php and wake.php on their way
  landed,   \* how often a job's result was submitted to Claude
  cut,      \* sends of a job that landed and were cut off before they were marked
  pages     \* how often a job was paged as lost

relay == <<row, wakes, tabRow>>
history == <<landed, cut, pages>>
vars == <<may, relay, open, store, worker, asks, writes, sends, acks, history>>

----------------------------------------------------------------------------
Kinds == {"wake", "advice"}
Statuses == {"none", "open", "stale", "done"}
Rows == [status : Statuses, delivered : BOOLEAN]
Entries == [job : Jobs, tab : Tabs]
Sends == [kind : Kinds, job : Jobs, tab : Tabs, typed : BOOLEAN]
Asks == [by : {"watch", "wake"}, at : {"look", "asked"}, job : Jobs, tab : Tabs, seen : Rows]
Writes == [by : {"add", "watch", "confirm"}, job : Jobs, tab : Tabs, list : SUBSET Entries]
Acks == [kind : {"delivered", "wake"}, job : Jobs]

\* Mutant: advice and results share one ledger key.
BareLedgerKey(kind, j) == [kind |-> "wake", job |-> j]
LedgerKey(kind, j) == [kind |-> kind, job |-> j]
Keys == [kind : Kinds, job : Jobs]

IsDelivered(kind, j) == LedgerKey(kind, j) \in worker.ledger
Pending(kind, j) == \E s \in sends : s.kind = kind /\ s.job = j
Listed(j, list) == \E e \in list : e.job = j

(* markJobDelivered: memory first, then storage; both before anything else  *)
(* of the worker runs.                                                      *)
Mark(w, key) == [w EXCEPT !.ledger = @ \cup {key}]
Marked(key) == [store EXCEPT !.delivered = worker.ledger \cup {key}]

(* queueSend: one entry per key, none for what the ledger holds.            *)
\* Mutant: the ledger is not asked.
QueuedAlways(kind, j, t) ==
  IF Pending(kind, j) THEN sends
  ELSE sends \cup {[kind |-> kind, job |-> j, tab |-> t, typed |-> FALSE]}
Queued(kind, j, t) ==
  IF Pending(kind, j) \/ IsDelivered(kind, j) THEN sends
  ELSE sends \cup {[kind |-> kind, job |-> j, tab |-> t, typed |-> FALSE]}

RegistryWrite(who, j, t) == [by |-> who, job |-> j, tab |-> t, list |-> store.active]
Ack(kind, j) == [kind |-> kind, job |-> j]

----------------------------------------------------------------------------
(* The relay.                                                               *)

JobEnds(j) ==
  /\ row[j].status = "open"
  /\ row' = [row EXCEPT ![j].status = "done"]
  /\ UNCHANGED <<may, wakes, tabRow, open, store, worker, asks, writes, sends, acks, history>>

\* A job that waits too long goes stale; the user may resume it.
GoesStale(j) ==
  /\ "stale" \in may
  /\ row[j].status = "open"
  /\ row' = [row EXCEPT ![j].status = "stale"]
  /\ UNCHANGED <<may, wakes, tabRow, open, store, worker, asks, writes, sends, acks, history>>

Resumes(j) ==
  /\ row[j].status = "stale"
  /\ row' = [row EXCEPT ![j].status = "open"]
  /\ UNCHANGED <<may, wakes, tabRow, open, store, worker, asks, writes, sends, acks, history>>

(* checkUndeliveredResults: done, not delivered, and last nudged long ago.  *)
Nudge(j) ==
  /\ row[j].status = "done" /\ ~ row[j].delivered
  /\ wakes' = wakes \cup {j}
  /\ UNCHANGED <<may, row, tabRow, open, store, worker, asks, writes, sends, acks, history>>

AckLands(a) ==
  /\ acks' = acks \ {a}
  /\ IF a.kind = "delivered"
     THEN row' = [row EXCEPT ![a.job].delivered = TRUE] /\ UNCHANGED wakes
     ELSE wakes' = wakes \ {a.job} /\ UNCHANGED row
  /\ UNCHANGED <<may, tabRow, open, store, worker, asks, writes, sends, history>>

\* Both POSTs are fire and forget: a failure is logged and that is all.
AckLost(a) ==
  /\ {"net", "worker"} \cap may # {}
  /\ acks' = acks \ {a}
  /\ UNCHANGED <<may, relay, open, store, worker, asks, writes, sends, history>>

----------------------------------------------------------------------------
(* Tabs.                                                                    *)

\* registerTab: the worker's mapping at once, the relay's when the POST lands.
RegisterTab(t) ==
  /\ worker' = [worker EXCEPT !.tab = t]
  /\ \/ tabRow' = t
     \/ "net" \in may /\ UNCHANGED tabRow

(* ccsw-dispatch, once job.php has made the row: the job is entered in the  *)
(* registry, unless the worker dies first.                                  *)
Dispatch(j, t) ==
  /\ row[j].status = "none"
  /\ t \in open
  /\ row' = [row EXCEPT ![j].status = "open"]
  /\ RegisterTab(t)
  /\ \/ writes' = writes \cup {RegistryWrite("add", j, t)}
     \/ "worker" \in may /\ UNCHANGED writes
  /\ UNCHANGED <<may, wakes, open, store, asks, sends, acks, history>>

(* A page that loads the conversation reports its open jobs                 *)
(* (ccsw-track-jobs). The registry is read for each of them before any of   *)
(* the changes is written. Loading a page takes longer than such a write.   *)
LoadPage(t) ==
  /\ "close" \in may
  /\ \A w \in writes : w.by # "add"
  /\ open' = open \cup {t}
  /\ RegisterTab(t)
  /\ writes' = writes \cup
       {RegistryWrite("add", j, t) : j \in {k \in Jobs : row[k].status = "open"}}
  /\ UNCHANGED <<may, row, wakes, store, asks, sends, acks, history>>

\* Jobs whose send had landed and was not marked when it was cut off.
CutOff(gone) == {j \in Jobs : \E s \in gone : s.kind = "wake" /\ s.job = j /\ s.typed}
CutBy(gone) ==
  /\ \A j \in CutOff(gone) : cut[j] < CutCap
  /\ cut' = [j \in Jobs |-> IF j \in CutOff(gone) THEN cut[j] + 1 ELSE cut[j]]

(* onRemoved: the worker forgets the tab and its sends; the relay's row     *)
(* keeps it.                                                                *)
CloseTab(t) ==
  LET gone == {s \in sends : s.tab = t} IN
  /\ "close" \in may
  /\ t \in open
  /\ open' = open \ {t}
  /\ worker' = [worker EXCEPT !.tab = IF @ = t THEN NoTab ELSE @]
  /\ sends' = sends \ gone
  /\ CutBy(gone)
  /\ UNCHANGED <<may, relay, store, asks, writes, acks, landed, pages>>

(* reregisterThreads: the heartbeat repeats what the worker knows.          *)
Heartbeat ==
  /\ worker.tab # NoTab
  /\ RegisterTab(worker.tab)
  /\ UNCHANGED <<may, row, wakes, open, store, asks, writes, sends, acks, history>>

----------------------------------------------------------------------------
(* The registry. Every change works on the list it read.                    *)

Write(w) ==
  /\ writes' = writes \ {w}
  /\ store' = [store EXCEPT !.active =
       IF w.by = "add"
       THEN IF Listed(w.job, w.list) THEN @
            ELSE w.list \cup {[job |-> w.job, tab |-> w.tab]}
       ELSE IF Listed(w.job, w.list) THEN {e \in w.list : e.job # w.job} ELSE @]
  /\ acks' = IF w.by = "confirm" THEN acks \cup {Ack("delivered", w.job)} ELSE acks
  /\ UNCHANGED <<may, relay, open, worker, asks, sends, history>>

----------------------------------------------------------------------------
(* The watcher and the wake loop.                                           *)

(* resultWatcherTick: never two at a time.                                  *)
WatchTick ==
  /\ store.active # {}
  /\ \A x \in asks \cup writes : x.by # "watch"
  /\ asks' = asks \cup
       {[by |-> "watch", at |-> "asked", job |-> e.job, tab |-> e.tab, seen |-> row[e.job]] :
         e \in {x \in store.active : ~ IsDelivered("wake", x.job) /\ ~ Pending("wake", x.job)}}
  /\ writes' = writes \cup
       {RegistryWrite("watch", e.job, e.tab) :
         e \in {x \in store.active : IsDelivered("wake", x.job)}}
  /\ UNCHANGED <<may, relay, open, store, worker, sends, acks, history>>

WakeOf(j) == {a \in asks : a.by = "wake" /\ a.job = j}

(* pollWake: a wake is handed out again while nobody has acknowledged it,   *)
(* but not for minutes: the requests the last one led to have ended.        *)
ClaimWake(j) ==
  /\ j \in wakes /\ WakeOf(j) = {}
  /\ tabRow # NoTab
  /\ asks' = asks \cup
       {[by |-> "wake", at |-> "look", job |-> j, tab |-> tabRow, seen |-> row[j]]}
  /\ UNCHANGED <<may, relay, open, store, worker, writes, sends, acks, history>>

(* redeliverUndeliveredResult, up to its request.                           *)
LookUp(a) ==
  /\ a.at = "look"
  /\ IF IsDelivered("wake", a.job)
     THEN asks' = asks \ {a} /\ acks' = acks \cup {Ack("wake", a.job)}
     ELSE asks' = (asks \ {a}) \cup {[a EXCEPT !.at = "asked", !.seen = row[a.job]]}
          /\ UNCHANGED acks
  /\ UNCHANGED <<may, relay, open, store, worker, writes, sends, history>>

\* The answer is the row as it was at some time since it was asked for.
Answers(a) == {a.seen, row[a.job]}

(* deliverJobResult's tab: the thread's current one before the job's own.   *)
TabFor(a) == IF worker.tab # NoTab THEN worker.tab ELSE a.tab

Watched(a) ==
  /\ a.by = "watch"
  /\ asks' = asks \ {a}
  /\ \E seen \in Answers(a) :
       \/ /\ seen.status = "open"
          /\ UNCHANGED <<store, worker, writes, sends>>
       \/ /\ seen.status = "stale"
          /\ writes' = writes \cup {RegistryWrite("watch", a.job, a.tab)}
          /\ UNCHANGED <<store, worker, sends>>
       \/ /\ seen.status = "done" /\ seen.delivered
          /\ worker' = Mark(worker, LedgerKey("wake", a.job))
          /\ store' = Marked(LedgerKey("wake", a.job))
          /\ writes' = writes \cup {RegistryWrite("watch", a.job, a.tab)}
          /\ UNCHANGED sends
       \/ /\ seen.status = "done" /\ ~ seen.delivered
          /\ sends' = Queued("wake", a.job, TabFor(a))
          /\ UNCHANGED <<store, worker, writes>>
  /\ UNCHANGED <<may, relay, open, acks, history>>

(* redeliverUndeliveredResult: the wake is acknowledged once the result is  *)
(* queued, not once it has landed.                                          *)
Redelivered(a) ==
  /\ a.by = "wake" /\ a.at = "asked"
  /\ asks' = asks \ {a}
  /\ \E seen \in Answers(a) :
       \/ /\ seen.delivered
          /\ worker' = Mark(worker, LedgerKey("wake", a.job))
          /\ store' = Marked(LedgerKey("wake", a.job))
          /\ acks' = acks \cup {Ack("wake", a.job)}
          /\ UNCHANGED sends
       \/ /\ ~ seen.delivered
          /\ IF seen.status = "done"
             THEN sends' = Queued("wake", a.job, a.tab) /\ acks' = acks \cup {Ack("wake", a.job)}
             ELSE UNCHANGED <<sends, acks>>
          /\ UNCHANGED <<store, worker>>
  /\ UNCHANGED <<may, relay, open, writes, history>>

AskFails(a) ==
  /\ "net" \in may
  /\ asks' = asks \ {a}
  /\ UNCHANGED <<may, relay, open, store, worker, writes, sends, acks, history>>

----------------------------------------------------------------------------
(* Sends.                                                                   *)

(* ccsw-deliver-advice: the user sends a job's progress for advice.         *)
Advise(j, t) ==
  /\ "advice" \in may
  /\ row[j].status # "none" /\ t \in open
  /\ sends' = Queued("advice", j, t)
  /\ UNCHANGED <<may, relay, open, store, worker, asks, writes, acks, history>>

\* The composer is free, the text is submitted.
Lands(s) ==
  /\ ~ s.typed /\ s.tab \in open
  /\ sends' = (sends \ {s}) \cup {[s EXCEPT !.typed = TRUE]}
  /\ landed' = [landed EXCEPT ![s.job] =
       IF s.kind = "wake" /\ @ < CutCap + 2 THEN @ + 1 ELSE @]
  /\ UNCHANGED <<may, relay, open, store, worker, asks, writes, acks, cut, pages>>

(* finishSend 'sent': a result is confirmed (ledger, then registry, then    *)
(* the relay), advice only marks its own key.                               *)
Sent(s) ==
  /\ s.typed
  /\ sends' = sends \ {s}
  /\ store' = Marked(LedgerKey(s.kind, s.job))
  /\ worker' = [Mark(worker, LedgerKey(s.kind, s.job)) EXCEPT
       !.failures[s.job] = IF s.kind = "wake" THEN 0 ELSE @]
  /\ writes' = IF s.kind = "wake"
               THEN writes \cup {RegistryWrite("confirm", s.job, s.tab)} ELSE writes
  /\ UNCHANGED <<may, relay, open, asks, acks, history>>

(* alertDeliveryLoss: at most one page per job, remembered in storage.      *)
\* Mutant: the page is remembered by the worker alone.
PageUnsaved(j) ==
  /\ pages' = [pages EXCEPT ![j] = IF j \notin worker.alerted /\ @ < PageCap THEN @ + 1 ELSE @]
  /\ worker' = [worker EXCEPT !.alerted = @ \cup {j}, !.failures[j] = 0]
  /\ UNCHANGED store
Page(j) ==
  /\ pages' = [pages EXCEPT ![j] = IF j \notin worker.alerted /\ @ < PageCap THEN @ + 1 ELSE @]
  /\ worker' = [worker EXCEPT !.alerted = @ \cup {j}, !.failures[j] = 0]
  /\ store' = [store EXCEPT !.alerted = worker.alerted \cup {j}]

(* finishSend 'tab-gone', 'failed' and the like: handleDeliveryFailure      *)
(* counts; at the threshold the job is paged and retried all the same.      *)
Fails(s) ==
  /\ ~ s.typed /\ (s.tab \notin open \/ "fail" \in may)
  /\ sends' = sends \ {s}
  /\ IF s.kind = "advice"
     THEN UNCHANGED <<store, worker, pages>>
     ELSE IF worker.failures[s.job] + 1 < Threshold
     THEN worker' = [worker EXCEPT !.failures[s.job] = @ + 1] /\ UNCHANGED <<store, pages>>
     ELSE Page(s.job)
  /\ UNCHANGED <<may, relay, open, asks, writes, acks, landed, cut>>

(* finishSend 'user-text-guard': the composer holds the user's own text.    *)
(* The result is held, not delivered.                                       *)
\* Mutant: a result that is held back is acknowledged.
HeldBackAcked(s) ==
  /\ "guard" \in may /\ ~ s.typed
  /\ sends' = sends \ {s}
  /\ acks' = acks \cup {Ack("delivered", s.job)}
  /\ worker' = [worker EXCEPT !.failures[s.job] = IF s.kind = "wake" THEN 0 ELSE @]
  /\ UNCHANGED <<may, relay, open, store, asks, writes, history>>
HeldBack(s) ==
  /\ "guard" \in may /\ ~ s.typed
  /\ sends' = sends \ {s}
  /\ worker' = [worker EXCEPT !.failures[s.job] = IF s.kind = "wake" THEN 0 ELSE @]
  /\ UNCHANGED <<may, relay, open, store, asks, writes, acks, history>>

----------------------------------------------------------------------------
(* The service worker is stopped and started: what it kept in memory is     *)
(* gone, the two ledgers are read back.                                     *)
FreshWorker == [ledger |-> store.delivered, alerted |-> store.alerted, tab |-> NoTab,
                failures |-> [j \in Jobs |-> 0]]
Restart ==
  /\ "worker" \in may
  /\ worker' = FreshWorker
  /\ asks' = {} /\ writes' = {} /\ sends' = {}
  /\ CutBy(sends)
  /\ UNCHANGED <<may, relay, open, store, acks, landed, pages>>

Init ==
  /\ may \in Settings
  /\ row = [j \in Jobs |-> [status |-> "none", delivered |-> FALSE]]
  /\ wakes = {} /\ tabRow = NoTab
  /\ open \in {{t} : t \in Tabs}
  /\ store = [delivered |-> {}, active |-> {}, alerted |-> {}]
  /\ worker = FreshWorker
  /\ asks = {} /\ writes = {} /\ sends = {} /\ acks = {}
  /\ landed = [j \in Jobs |-> 0] /\ cut = [j \in Jobs |-> 0] /\ pages = [j \in Jobs |-> 0]

Next ==
  \/ \E j \in Jobs : JobEnds(j) \/ GoesStale(j) \/ Resumes(j) \/ Nudge(j) \/ ClaimWake(j)
  \/ \E j \in Jobs, t \in Tabs : Dispatch(j, t) \/ Advise(j, t)
  \/ \E t \in Tabs : LoadPage(t) \/ CloseTab(t)
  \/ Heartbeat \/ WatchTick \/ Restart
  \/ \E w \in writes : Write(w)
  \/ \E a \in asks : LookUp(a) \/ Watched(a) \/ Redelivered(a) \/ AskFails(a)
  \/ \E s \in sends : Lands(s) \/ Sent(s) \/ Fails(s) \/ HeldBack(s)
  \/ \E a \in acks : AckLands(a) \/ AckLost(a)

Spec == Init /\ [][Next]_vars

----------------------------------------------------------------------------
(* What keeps going: the relay's sweep, the worker's timers, requests that  *)
(* are answered if they are made often enough, a composer that is free      *)
(* often enough for a result to be typed. A watcher that does not know the  *)
(* thread's tab queues the result for a closed one again and again: such a  *)
(* send fails at once, so that not every step of a wake finds one pending.  *)
(* Nothing else is assumed of the watcher and the registry.                 *)
ResultOf(j) == {s \in sends : s.kind = "wake" /\ s.job = j}
Unpending(j) == ~ Pending("wake", j)
FairSpec ==
  /\ Spec
  /\ \A j \in Jobs :
       /\ SF_vars(Unpending(j) /\ Nudge(j)) /\ SF_vars(Unpending(j) /\ ClaimWake(j))
       /\ SF_vars(Unpending(j) /\ \E a \in WakeOf(j) : LookUp(a))
       /\ SF_vars(Unpending(j) /\ \E a \in WakeOf(j) : Redelivered(a))
       /\ SF_vars(\E s \in ResultOf(j) : Lands(s))
       /\ WF_vars(\E s \in ResultOf(j) : Sent(s))
       /\ WF_vars(\E s \in ResultOf(j) : Fails(s) /\ s.tab \notin open)
       /\ WF_vars(\E a \in acks : a.job = j /\ AckLands(a))

----------------------------------------------------------------------------
\* The variables have their types; a count of failures stays below the threshold.
TypeOK ==
  /\ may \in Settings
  /\ row \in [Jobs -> Rows] /\ wakes \subseteq Jobs /\ tabRow \in Tabs \cup {NoTab}
  /\ open \subseteq Tabs
  /\ store \in [delivered : SUBSET Keys, active : SUBSET Entries, alerted : SUBSET Jobs]
  /\ worker \in [ledger : SUBSET Keys, alerted : SUBSET Jobs, tab : Tabs \cup {NoTab},
                 failures : [Jobs -> 0..(Threshold - 1)]]
  /\ asks \subseteq Asks /\ writes \subseteq Writes /\ sends \subseteq Sends /\ acks \subseteq Acks
  /\ landed \in [Jobs -> 0..(CutCap + 2)] /\ cut \in [Jobs -> 0..CutCap]
  /\ pages \in [Jobs -> 0..PageCap]

(* What the worker's ledger, the stored one or the relay calls delivered    *)
(* has been submitted to Claude: no result is given up for delivered while  *)
(* it is held, retried or lost (finishSend, confirmDelivered, wake.php).    *)
DeliveredMeansLanded ==
  \A j \in Jobs :
    \/ LedgerKey("wake", j) \in worker.ledger \cup store.delivered
    \/ row[j].delivered
    => landed[j] > 0

(* A result is submitted once, however many paths offer it, and once more   *)
(* only for each time a tab was closed or the worker stopped between the    *)
(* submission and the mark in the ledger (queueSend, finishSend).           *)
LandsOnce == \A j \in Jobs : landed[j] <= 1 + cut[j]

(* A job is paged as lost once at most, restarts included                   *)
(* (alertDeliveryLoss).                                                     *)
PagedOnce == \A j \in Jobs : pages[j] <= 1

(* A finished result lands, whatever was lost on the way: failed sends,     *)
(* text of the user in the composer, requests without an answer, a registry *)
(* that lost its entry, restarts and closed tabs as long as they end. The   *)
(* relay's row must name an open tab in the end.                            *)
ResultsLand ==
  \A j \in Jobs :
    <>[](tabRow \in open) /\ <>[][~ Restart /\ \A t \in Tabs : ~ CloseTab(t)]_vars
    => (row[j].status = "done" ~> landed[j] > 0)
=============================================================================
