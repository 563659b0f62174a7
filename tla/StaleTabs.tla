------------------------------ MODULE StaleTabs ------------------------------
(* After an update of the extension the open tabs run the old content       *)
(* script. The service worker injects the new one everywhere (a page whose  *)
(* old script is still there refuses it), sweeps the tabs for old builds,   *)
(* and tells the user: a banner in the page and a notification. Stale tabs  *)
(* with an empty composer are reloaded, by the sweep if the setting says so *)
(* (only hidden ones) or by the button of the notification. Each await of   *)
(* these loops is a point where the user, a delivery or another loop comes  *)
(* between.                                                                 *)
(*                                                                          *)
(* One conversation is looked at: the registry of owed results is the tabs  *)
(* its entries name, the thread of all of them is that of the conversation. *)
(* What is sent are results, and the nudges of the relay ("wakes"). The     *)
(* loops take the tabs in any order.                                        *)
(* Dismissing a banner or the notification is left out, pages that fail to  *)
(* reload, the copy of the list every page keeps, which nothing reads, and  *)
(* ccsw-reload-stale-tabs, a message nothing sends.                         *)
EXTENDS Naturals, FiniteSets

CONSTANTS
  Tabs,
  NoTab,
  Sweeps,    \* the listeners that sweep: onInstalled, onStartup
  Buttons,   \* the reloads the notification's button asks for; at most so many at once
  MaxWakes,  \* bound: sends that wait, and tabs some reload has missed one of
  Settings   \* what may happen around it, in one behaviour or another

ASSUME NamesAssumption == NoTab \notin Tabs /\ Buttons \cap Sweeps = {}
ASSUME SweepsAssumption == Sweeps # {}

VARIABLES
  may,      \* the disturbances of this behaviour, one of Settings
  heal,     \* ccswStaleAutoHeal
  page,     \* the tabs
  active,   \* the tab the user looks at
  sends,    \* pendingSends: the tab, and the entry of the registry it is for, if any
  owed,     \* tabs of the active-delivery registry (chrome.storage)
  reg,      \* registeredThreads: the tab of the thread
  latest,   \* latestStaleTabs
  key,      \* lastStaleNotifyKey; empty for null
  notice,   \* the OS notification: the tabs it names and whether it has a button
  inject,   \* tabs reinjectClaudeTabs has still to do
  sweep,    \* sweepStaleTabs, per listener
  call      \* reloadStaleEmptyTabs, per caller

worker == <<reg, latest, key, inject, sweep, call>>
delivery == <<sends, owed>>
vars == <<may, heal, page, active, delivery, notice, worker>>

----------------------------------------------------------------------------
Callers == Sweeps \cup Buttons
\* "none": no script of ours runs; "away": discarded, nothing can be injected.
Builds == {"cur", "old", "none", "away", "closed"}
\* "text": or no composer was found, which is never taken for an empty one.
Composers == {"empty", "text"}
Pages == [build : Builds, composer : Composers, banner : BOOLEAN]
Entries == [tab : Tabs, build : Builds, empty : BOOLEAN]
NoNotice == [tabs |-> {}, button |-> FALSE]
SweepIdle == [at |-> "idle", todo |-> {}, tab |-> NoTab, stale |-> {}]
\* "late" is not kept by the code: the tabs still before the call a wake was queued for.
CallIdle == [at |-> "idle", todo |-> {}, tab |-> NoTab, safe |-> {}, gone |-> {}, late |-> {}]

Open(t) == page[t].build # "closed"
Stale(t) == page[t].build \in {"old", "none"}
TabsOf(list) == {e.tab : e \in list}
Fresh == [build |-> "cur", composer |-> "empty", banner |-> FALSE]

(* getDeliveryProtectedTabIds, in its two halves: the tabs the entries name *)
(* and the tab the thread is registered at. (Only a page with the new       *)
(* script registers, so that second tab is never one that is reloaded.)     *)
Protected(entries) == entries \cup (IF entries = {} THEN {} ELSE {reg} \ {NoTab})

(* notifyStaleTabs: one notification for a set of tabs and builds.          *)
KeyOf(list) == {<<e.tab, e.build>> : e \in list}
Notify ==
  /\ key' = KeyOf(latest)
  /\ notice' = IF latest = {} THEN IF key = {} THEN notice ELSE NoNotice
               ELSE IF KeyOf(latest) = key THEN notice
               ELSE [tabs |-> TabsOf(latest), button |-> \E e \in latest : e.empty]

----------------------------------------------------------------------------
(* reinjectClaudeTabs: a page that holds an old script skips the new one.   *)
Inject(t) ==
  /\ t \in inject
  /\ inject' = inject \ {t}
  /\ page' = IF page[t].build = "none"
             THEN [page EXCEPT ![t].build = "cur"] ELSE page
  /\ UNCHANGED <<may, heal, active, delivery, notice, reg, latest, key, sweep, call>>

(* sweepStaleTabs.                                                          *)
Query(s) ==
  /\ sweep[s].at = "query"
  /\ sweep' = [sweep EXCEPT ![s].at = "probe", ![s].todo = {t \in Tabs : Open(t)}]
  /\ UNCHANGED <<may, heal, page, active, delivery, notice, reg, latest, key, inject, call>>

\* A tab that cannot be probed is passed over; one with the build is fresh.
Probe(s, t) ==
  /\ sweep[s].at = "probe" /\ t \in sweep[s].todo
  /\ sweep' =
       IF Stale(t)
       THEN [sweep EXCEPT ![s].at = "banner", ![s].todo = @ \ {t}, ![s].tab = t,
                          ![s].stale = @ \cup {[tab |-> t, build |-> page[t].build,
                                                empty |-> page[t].composer = "empty"]}]
       ELSE [sweep EXCEPT ![s].todo = @ \ {t}]
  /\ UNCHANGED <<may, heal, page, active, delivery, notice, reg, latest, key, inject, call>>

Banner(s) ==
  /\ sweep[s].at = "banner"
  /\ sweep' = [sweep EXCEPT ![s].at = "probe", ![s].tab = NoTab]
  /\ page' = IF page[sweep[s].tab].build \in {"cur", "old", "none"}
             THEN [page EXCEPT ![sweep[s].tab].banner = TRUE] ELSE page
  /\ UNCHANGED <<may, heal, active, delivery, notice, reg, latest, key, inject, call>>

Conclude(s) ==
  /\ sweep[s].at = "probe" /\ sweep[s].todo = {}
  /\ latest' = sweep[s].stale
  /\ sweep' = [sweep EXCEPT ![s].at = "tell"]
  /\ UNCHANGED <<may, heal, page, active, delivery, notice, reg, key, inject, call>>

TellSwept(s) ==
  /\ sweep[s].at = "tell"
  /\ Notify
  /\ sweep' = [sweep EXCEPT ![s] = IF @.stale = {} THEN SweepIdle ELSE [@ EXCEPT !.at = "setting"]]
  /\ UNCHANGED <<may, heal, page, active, delivery, reg, latest, inject, call>>

(* reloadStaleEmptyTabs: the tabs protected by a send now, those protected  *)
(* by an owed result once the registry is read.                             *)
Begun == [CallIdle EXCEPT !.at = "owed", !.todo = TabsOf(latest), !.safe = Protected(TabsOf(sends))]

AutoHeal(s) ==
  /\ sweep[s].at = "setting"
  /\ call[s] = CallIdle
  /\ sweep' = [sweep EXCEPT ![s] = SweepIdle]
  /\ call' = IF heal THEN [call EXCEPT ![s] = Begun] ELSE call
  /\ UNCHANGED <<may, heal, page, active, delivery, notice, reg, latest, key, inject>>

\* The button takes the notification away; the dedupe key stays. "twice": there
\* is a new one, and it is pressed, while the reload of the first is under way.
PressButton(b) ==
  /\ notice.button
  /\ "twice" \in may \/ \A c \in Buttons : call[c] = CallIdle
  /\ call[b] = CallIdle
  /\ notice' = NoNotice
  /\ call' = [call EXCEPT ![b] = Begun]
  /\ UNCHANGED <<may, heal, page, active, delivery, reg, latest, key, inject, sweep>>

\* Mutant: what is owed is not asked for.
ReadNothing(c) ==
  /\ call[c].at = "owed"
  /\ call' = [call EXCEPT ![c].at = "next"]
  /\ UNCHANGED <<may, heal, page, active, delivery, notice, reg, latest, key, inject, sweep>>
ReadOwed(c) ==
  /\ call[c].at = "owed"
  /\ call' = [call EXCEPT ![c].at = "next", ![c].safe = @ \cup Protected(owed)]
  /\ UNCHANGED <<may, heal, page, active, delivery, notice, reg, latest, key, inject, sweep>>

\* Protected, gone, or looked at by the user while the sweep heals: passed over.
Look(c, t) ==
  /\ call[c].at = "next" /\ t \in call[c].todo
  /\ call' =
       IF t \in call[c].safe \/ ~ Open(t) \/ (c \in Sweeps /\ active = t)
       THEN [call EXCEPT ![c].todo = @ \ {t}]
       ELSE [call EXCEPT ![c].todo = @ \ {t}, ![c].tab = t, ![c].at = "fresh"]
  /\ UNCHANGED <<may, heal, page, active, delivery, notice, reg, latest, key, inject, sweep>>

\* Mutant: what the sweep saw of the composer is enough.
ProbeAgainNot(c) ==
  /\ call[c].at = "fresh"
  /\ call' =
       IF page[call[c].tab].build = "cur"
       THEN [call EXCEPT ![c].at = "next", ![c].gone = @ \cup {call[c].tab}]
       ELSE IF \E e \in latest : e.tab = call[c].tab /\ e.empty
       THEN [call EXCEPT ![c].at = "reload"] ELSE [call EXCEPT ![c].at = "next"]
  /\ UNCHANGED <<may, heal, page, active, delivery, notice, reg, latest, key, inject, sweep>>
\* Mutant: only a page that reports no build at all is stale.
ProbeAgainScripted(c) ==
  /\ call[c].at = "fresh"
  /\ call' =
       IF page[call[c].tab].build = "cur"
       THEN [call EXCEPT ![c].at = "next", ![c].gone = @ \cup {call[c].tab}]
       ELSE IF page[call[c].tab].build = "none" /\ page[call[c].tab].composer = "empty"
       THEN [call EXCEPT ![c].at = "reload"] ELSE [call EXCEPT ![c].at = "next"]
  /\ UNCHANGED <<may, heal, page, active, delivery, notice, reg, latest, key, inject, sweep>>
ProbeAgain(c) ==
  LET t == call[c].tab IN
  /\ call[c].at = "fresh"
  /\ call' =
       IF page[t].build = "cur" THEN [call EXCEPT ![c].at = "next", ![c].gone = @ \cup {t}]
       ELSE IF Stale(t) /\ page[t].composer = "empty" THEN [call EXCEPT ![c].at = "reload"]
       ELSE [call EXCEPT ![c].at = "next"]
  /\ UNCHANGED <<may, heal, page, active, delivery, notice, reg, latest, key, inject, sweep>>

(* A document that loads has the manifest's script and may register itself  *)
(* as the tab of the thread (ccsw-track-jobs).                              *)
Loaded(t) ==
  /\ page' = [page EXCEPT ![t] = Fresh]
  /\ reg' \in {reg, t}

Reload(c) ==
  LET t == call[c].tab IN
  /\ call[c].at = "reload"
  /\ IF Open(t)
     THEN /\ Loaded(t)
          /\ call' = [call EXCEPT ![c].at = "next", ![c].gone = @ \cup {t}]
     ELSE /\ call' = [call EXCEPT ![c].at = "next"]
          /\ UNCHANGED <<page, reg>>
  /\ UNCHANGED <<may, heal, active, delivery, notice, latest, key, inject, sweep>>

\* Mutant: the list that is left is that of the call, not that of the worker.
FinishOwnList(c) ==
  /\ call[c].at = "next" /\ call[c].todo = {}
  /\ latest' = IF call[c].gone = {} THEN latest ELSE {}
  /\ call' = [call EXCEPT ![c] = IF @.gone = {} THEN CallIdle ELSE [CallIdle EXCEPT !.at = "tell"]]
  /\ UNCHANGED <<may, heal, page, active, delivery, notice, reg, key, inject, sweep>>
Finish(c) ==
  /\ call[c].at = "next" /\ call[c].todo = {}
  /\ latest' = {e \in latest : e.tab \notin call[c].gone}
  /\ call' = [call EXCEPT ![c] = IF @.gone = {} THEN CallIdle ELSE [CallIdle EXCEPT !.at = "tell"]]
  /\ UNCHANGED <<may, heal, page, active, delivery, notice, reg, key, inject, sweep>>

TellReloaded(c) ==
  /\ call[c].at = "tell"
  /\ Notify
  /\ call' = [call EXCEPT ![c] = CallIdle]
  /\ UNCHANGED <<may, heal, page, active, delivery, reg, latest, inject, sweep>>

----------------------------------------------------------------------------
(* The user. "quick": something also begins in a page between its last      *)
(* probe and its reload, the moment in which no probe helps.                *)
Free(t) ==
  "quick" \in may \/ \A c \in Callers : call[c].at = "reload" => call[c].tab # t

Types(t) ==
  /\ "user" \in may
  /\ t = active /\ page[t].build # "away" /\ page[t].composer = "empty"
  /\ Free(t)
  /\ page' = [page EXCEPT ![t].composer = "text"]
  /\ UNCHANGED <<may, heal, active, delivery, notice, worker>>

SendsOrClears(t) ==
  /\ "user" \in may
  /\ t = active /\ page[t].composer = "text"
  /\ page' = [page EXCEPT ![t].composer = "empty"]
  /\ UNCHANGED <<may, heal, active, delivery, notice, worker>>

\* A discarded tab loads when the user comes to it.
Activates(t) ==
  /\ {"user", "away"} \cap may # {}
  /\ Open(t) /\ t # active
  /\ active' = t
  /\ IF page[t].build = "away" THEN Loaded(t) ELSE UNCHANGED <<page, reg>>
  /\ UNCHANGED <<may, heal, delivery, notice, latest, key, inject, sweep, call>>

\* F5, or a new tab.
Loads(t) ==
  /\ "load" \in may /\ Free(t)
  /\ t = active \/ ~ Open(t)
  /\ Loaded(t)
  /\ UNCHANGED <<may, heal, active, delivery, notice, latest, key, inject, sweep, call>>

Closes(t) ==
  /\ "load" \in may
  /\ Open(t)
  /\ page' = [page EXCEPT ![t] = [Fresh EXCEPT !.build = "closed"]]
  /\ active' = IF active = t THEN NoTab ELSE active
  /\ sends' = {e \in sends : e.tab # t}
  /\ reg' = IF reg = t THEN NoTab ELSE reg
  /\ UNCHANGED <<may, heal, owed, notice, latest, key, inject, sweep, call>>

Discards(t) ==
  /\ "away" \in may
  /\ Open(t) /\ t # active
  /\ page' = [page EXCEPT ![t] = [Fresh EXCEPT !.build = "away"]]
  /\ UNCHANGED <<may, heal, active, delivery, notice, worker>>

SetStaleAutoHealEnabled ==
  /\ "toggle" \in may
  /\ heal' = ~ heal
  /\ UNCHANGED <<may, page, active, delivery, notice, worker>>

----------------------------------------------------------------------------
(* Deliveries: a job is dispatched from a tab and owed to it, its result is *)
(* queued by the watcher for the tab the thread has by then, or on a wake,  *)
(* and delivered.                                                           *)

DispatchFrom(t) ==
  /\ "delivery" \in may /\ Free(t)
  /\ page[t].build = "cur"
  /\ owed' = owed \cup {t}
  /\ reg' = t
  /\ UNCHANGED <<may, heal, page, active, sends, notice, latest, key, inject, sweep, call>>

HandOff(t) ==
  /\ "delivery" \in may /\ Free(t)
  /\ page[t].build = "cur"
  /\ reg' = t
  /\ UNCHANGED <<may, heal, page, active, delivery, notice, latest, key, inject, sweep, call>>

QueueSend(t) ==
  /\ {"delivery", "wake"} \cap may # {}
  /\ t \in owed /\ \A e \in sends : e.of # t
  /\ LET u == IF reg = NoTab THEN t ELSE reg IN
       Free(u) /\ sends' = sends \cup {[tab |-> u, of |-> t]}
  /\ UNCHANGED <<may, heal, page, active, owed, notice, worker>>

(* redeliverUndeliveredResult: a result the relay still sees undelivered,   *)
(* under the key of the watcher's send.                                     *)
Undelivered == {x \in owed : \A e \in sends : e.of # x}
Late == UNION {call[c].late : c \in Callers}

(* pollWake, pollPlanWake: such a result, or a nudge, for the tab of the    *)
(* relay's row, which outlives the worker and may be any that registered.   *)
Wake(t) ==
  /\ "wake" \in may /\ Cardinality(sends) + Cardinality(Late) < MaxWakes
  /\ Open(t)
  /\ \E x \in Undelivered \cup {NoTab} : sends' = sends \cup {[tab |-> t, of |-> x]}
  /\ call' = [c \in Callers |-> IF t \in call[c].todo \cup {call[c].tab}
                                 THEN [call[c] EXCEPT !.late = @ \cup {t}] ELSE call[c]]
  /\ UNCHANGED <<may, heal, page, active, owed, notice, reg, latest, key, inject, sweep>>

Delivered(e) ==
  /\ page[e.tab].build \in {"cur", "old", "none"}
  /\ sends' = sends \ {e}
  /\ owed' = owed \ {e.of}
  /\ UNCHANGED <<may, heal, page, active, notice, worker>>

----------------------------------------------------------------------------
(* A worker that was stopped starts again when there is something to do; it *)
(* does not sweep.                                                          *)
Sleep ==
  /\ "sleep" \in may
  /\ sends' = {} /\ reg' = NoTab
  /\ latest' = {} /\ key' = {} /\ inject' = {}
  /\ sweep' = [s \in Sweeps |-> SweepIdle]
  /\ call' = [c \in Callers |-> CallIdle]
  /\ UNCHANGED <<may, heal, page, active, owed, notice>>

(* The extension is updated again: onInstalled injects and sweeps.          *)
Update(s) ==
  /\ "update" \in may
  /\ page' = [t \in Tabs |-> IF page[t].build = "cur" THEN [page[t] EXCEPT !.build = "old"]
                             ELSE page[t]]
  /\ sends' = {} /\ reg' = NoTab
  /\ latest' = {} /\ key' = {}
  /\ inject' = {t \in Tabs : Open(t)}
  /\ sweep' = [r \in Sweeps |-> IF r = s THEN [SweepIdle EXCEPT !.at = "query"] ELSE SweepIdle]
  /\ call' = [c \in Callers |-> CallIdle]
  /\ UNCHANGED <<may, heal, active, owed, notice>>

----------------------------------------------------------------------------
(* The worker has just started, after an update or with the browser; only   *)
(* after an update are the scripts injected, and only then are old ones     *)
(* running.                                                                 *)
Init ==
  /\ may \in Settings
  /\ heal \in BOOLEAN /\ ("toggle" \notin may => heal)
  /\ page \in [Tabs -> [build : {"old", "none"}, composer : Composers, banner : {FALSE}]]
  /\ active \in Tabs
  /\ sends = {} /\ owed \in SUBSET Tabs
  /\ {"delivery", "wake"} \cap may = {} => owed = {}
  /\ reg = NoTab /\ latest = {} /\ key = {} /\ notice = NoNotice
  /\ inject \in {{}, Tabs}
  /\ inject = {} => "both" \notin may /\ \A t \in Tabs : page[t].build = "none"
  /\ \E begun \in SUBSET Sweeps :
       /\ IF "both" \in may THEN begun = Sweeps ELSE Cardinality(begun) = 1
       /\ sweep = [s \in Sweeps |-> IF s \in begun THEN [SweepIdle EXCEPT !.at = "query"]
                                     ELSE SweepIdle]
  /\ call = [c \in Callers |-> CallIdle]

SweepSteps ==
  \/ \E t \in Tabs : Inject(t)
  \/ \E s \in Sweeps, t \in Tabs : Probe(s, t)
  \/ \E s \in Sweeps : Query(s) \/ Banner(s) \/ Conclude(s) \/ TellSwept(s) \/ AutoHeal(s)
ReloadSteps ==
  \/ \E c \in Callers, t \in Tabs : Look(c, t)
  \/ \E c \in Callers : ReadOwed(c) \/ ProbeAgain(c) \/ Reload(c) \/ Finish(c) \/ TellReloaded(c)
UserSteps ==
  \/ \E t \in Tabs : Types(t) \/ SendsOrClears(t) \/ Activates(t) \/ Loads(t) \/ Closes(t)
  \/ \E t \in Tabs : Discards(t)
  \/ \E b \in Buttons : PressButton(b)
  \/ SetStaleAutoHealEnabled
DeliverySteps ==
  \/ \E t \in Tabs : DispatchFrom(t) \/ HandOff(t) \/ QueueSend(t) \/ Wake(t)
  \/ \E e \in sends : Delivered(e)
Restarts == Sleep \/ \E s \in Sweeps : Update(s)

Next == SweepSteps \/ ReloadSteps \/ UserSteps \/ DeliverySteps \/ Restarts

Spec == Init /\ [][Next]_vars

----------------------------------------------------------------------------
(* The state of the worker, of the pages and of the loops is well formed.   *)
TypeOK ==
  /\ may \in Settings /\ heal \in BOOLEAN
  /\ page \in [Tabs -> Pages]
  /\ active \in Tabs \cup {NoTab}
  /\ sends \in SUBSET [tab : Tabs, of : Tabs \cup {NoTab}] /\ owed \in SUBSET Tabs
  /\ reg \in Tabs \cup {NoTab}
  /\ latest \in SUBSET Entries
  /\ key \in SUBSET (Tabs \X Builds)
  /\ notice \in [tabs : SUBSET Tabs, button : BOOLEAN]
  /\ inject \in SUBSET Tabs
  /\ sweep \in [Sweeps -> [at : {"idle", "query", "probe", "banner", "tell", "setting"},
                           todo : SUBSET Tabs, tab : Tabs \cup {NoTab}, stale : SUBSET Entries]]
  /\ call \in [Callers -> [at : {"idle", "owed", "next", "fresh", "reload", "tell"},
                           todo : SUBSET Tabs, tab : Tabs \cup {NoTab},
                           safe : SUBSET Tabs, gone : SUBSET Tabs, late : SUBSET Tabs]]

Reloads(c, t) == call[c].at = "reload" /\ call[c].tab = t /\ call'[c].at = "next"

(* No reload destroys what the user had typed when the page was last        *)
(* probed: what the sweep saw of the composer is never relied on (the       *)
(* comment of reloadStaleEmptyTabs, "never destroy user text").             *)
TextSurvives ==
  [][\A c \in Callers, t \in Tabs :
       Reloads(c, t) /\ "quick" \notin may => page[t].composer # "text"]_vars

(* A tab to which a result is owed, or in which a send is pending, is not   *)
(* reloaded, though the protected tabs are collected once, before a loop of *)
(* many awaits (getDeliveryProtectedTabIds). The one exception is a tab the *)
(* relay's wake was queued for after the loop had collected them.           *)
DeliverySpared ==
  [][\A c \in Callers, t \in Tabs : Reloads(c, t) /\ "quick" \notin may /\ Open(t) =>
       /\ t \notin owed
       /\ t \in TabsOf(sends) => t \in call[c].late]_vars

(* Once a sweep is through and while the worker lives, every open page with *)
(* an old build that was there and could be probed is in the list, carries  *)
(* the banner, and its set was notified (sweepStaleTabs, its banner and its notification).   *)
Quiet == /\ inject = {} /\ \A s \in Sweeps : sweep[s] = SweepIdle
         /\ \A c \in Callers : call[c] = CallIdle
StaleIsSurfaced ==
  Quiet /\ {"sleep"} \cap may = {} =>
    /\ \A t \in Tabs : Stale(t) => t \in TabsOf(latest) /\ page[t].banner
    /\ key = KeyOf(latest)

(* With the setting on, and neither the user nor a delivery in the way, no  *)
(* hidden page with an old build and an empty composer is left when the     *)
(* loops are through (issue #18, S3).                                       *)
HiddenStaleAreHealed ==
  Quiet /\ may \subseteq {"update", "load", "both", "twice"} =>
    \A t \in Tabs : Stale(t) /\ page[t].composer = "empty" => t = active
=============================================================================
