------------------------------ MODULE Dispatch ------------------------------
(***************************************************************************)
(* How a ccsw block of a conversation becomes a job: content.js's scan(),  *)
(* dispatchCcswBlock() and the pills that can dispatch again, the durable  *)
(* record of what was dispatched as background.js caches it, and the part  *)
(* of the relay they meet (job.php, dispatched.php, beacon.php).           *)
(*                                                                         *)
(* One conversation, seen by Tabs.  Every message holds one block, and a   *)
(* message is named by its place.  A script runs to its next await in one  *)
(* step, so a scan of a message is a step and a dispatch is several.       *)
(***************************************************************************)
EXTENDS Integers, Sequences, FiniteSets

CONSTANTS
  Tabs, NoTab,        \* browser tabs on the conversation, and a tab reloaded
  Blocks,             \* stableKeys of the blocks the assistant may write
  Buckets, Thread,    \* dedup buckets: the thread, the conversation's URL
  BucketOf,           \* resolveDedupBucket of each block
  Unfetched,          \* no entry of a bucket in a map of keys
  Scripts,            \* bound: what the assistant may write, block by block
  MaxSends, MaxWorkers,  \* bounds
  Settings            \* the sets of disturbances a behaviour may meet

Disturbances ==
  {"more", "tabs", "virtualize", "drop", "net", "reload", "worker", "slow",
   "pause", "manual", "autopilot"}

ASSUME NullAssumption ==
  /\ Tabs # {} /\ NoTab \notin Tabs
  /\ \A bs \in SUBSET Blocks : Unfetched # bs
ASSUME BucketAssumption ==
  /\ Thread \in Buckets
  /\ BucketOf \in [Blocks -> Buckets]
ASSUME BoundAssumption ==
  /\ Scripts \subseteq Seq(Blocks)
  /\ {MaxSends, MaxWorkers} \subseteq Nat
ASSUME SettingAssumption == Settings \subseteq SUBSET Disturbances

VARIABLES
  may,       \* the disturbances of this behaviour
  chat,      \* the block of each assistant message, oldest first
  sends,     \* sends in the thread so far: the time of the last one
  closed,    \* sends up to this one are outside CCSW_SEND_WINDOW_MS
  listening, \* ccswListeningEnabled
  armed,     \* the thread's autopilot window is open
  ran,       \* the blocks the relay has a job of
  auto,      \* how many jobs of a block no click asked for, counted up to 2
  busy,      \* the blocks' repo is locked by another job
  waiting,   \* pending_refires has a row of the thread
  beacon,    \* the thread's last send, as beacon.php has it
  worker,    \* the service worker's memory
  reads,     \* dispatched.php answers on their way to it, by bucket
  tab,       \* each tab's memory
  calls      \* dispatchCcswBlock runs that await ccsw-dispatch

vars == <<may, chat, sends, closed, listening, armed, ran, auto, busy,
          waiting, beacon, worker, reads, tab, calls>>
relay == <<ran, auto, busy, waiting, beacon>>
world == <<chat, sends, closed, listening, armed>>

Messages == UNION {DOMAIN s : s \in Scripts}

\* The tabs of the conversation that are open.
Open == IF "tabs" \in may THEN Tabs ELSE {CHOOSE t \in Tabs : TRUE}
Sites == {"scan", "refire", "autopilot", "click"}
Kinds == {"held", "dropped", "failed"}
Pill  == [kind : Kinds, block : Blocks]
Call  == [tab : Tabs \cup {NoTab}, block : Blocks, site : Sites,
          stage : {"sent", "landed", "refused", "failed"}]
Keys  == [Buckets -> {Unfetched} \cup SUBSET Blocks]

\* What a page remembers: nothing of it survives a reload.
FreshTab ==
  [seen |-> {}, hydrated |-> FALSE, durable |-> [k \in Buckets |-> Unfetched],
   fetched |-> FALSE, overdue |-> FALSE, instance |-> 0, asked |-> {},
   local |-> {}, beacon |-> 0, posted |-> 0, inFlight |-> {}, heldKeys |-> {},
   refired |-> {}, pills |-> {}]

FreshWorker(n) ==
  [instance |-> n, keys |-> [k \in Buckets |-> Unfetched], fetched |-> FALSE,
   polled |-> {}, beacon |-> 0]

Init ==
  /\ may \in Settings
  /\ chat = << >>
  /\ sends = 0 /\ closed = 0
  /\ listening = TRUE /\ armed = FALSE
  /\ ran = {} /\ auto = [b \in Blocks |-> 0]
  /\ busy = FALSE /\ waiting = FALSE /\ beacon = 0
  /\ worker = FreshWorker(1)
  /\ reads = [k \in Buckets |-> Unfetched]
  /\ tab = [t \in Tabs |-> FreshTab]
  /\ calls = {}

-----------------------------------------------------------------------------
(* What a tab knows.                                                       *)

\* isStableKeyDispatched: rule (a).
Known(t, b) ==
  \/ b \in tab[t].local
  \/ /\ tab[t].durable[BucketOf[b]] # Unfetched
     /\ b \in tab[t].durable[BucketOf[b]]

\* durableStateReadyFor: any answer of the relay, for whatever bucket, will do.
ReadyFor(t) == tab[t].fetched \/ tab[t].overdue

Latest(m, n) == IF m > n THEN m ELSE n

\* Mutant: the window of a send never closes.
RecentSendEver(t) ==
  tab[t].hydrated /\ Latest(tab[t].beacon, tab[t].posted) > 0

\* Rule (b): a send in the thread this tab shows, within the window.
RecentSend(t) ==
  tab[t].hydrated /\ Latest(tab[t].beacon, tab[t].posted) > closed

Authorised(t) == RecentSend(t) \/ (armed /\ tab[t].hydrated)

\* requestDurableState: the worker polls the buckets it was asked for.
Enrol(ks) == [worker EXCEPT !.polled = @ \cup ks]

Running(t, b, site) == [tab |-> t, block |-> b, site |-> site, stage |-> "sent"]

-----------------------------------------------------------------------------
(* The pills a block may end up as: each can dispatch it again.            *)

HeldPill(b) == [kind |-> "held", block |-> b]
DroppedPill(b) == [kind |-> "dropped", block |-> b]
FailedPill(b) == [kind |-> "failed", block |-> b]

-----------------------------------------------------------------------------
(* scan(): one message whose text has been stable for STABLE_MS.           *)

See(t, i) == [tab EXCEPT ![t].seen = @ \cup {i}]

\* Outcomes "ignored_already" and "ignored_ancient", and listening off.
Ignore(t, i) ==
  /\ tab' = See(t, i)
  /\ UNCHANGED <<worker, calls>>

\* Mutant: a deferred message counts as handled.
DeferForGood(t, i) ==
  LET k == BucketOf[chat[i]] IN
  /\ tab' = [tab EXCEPT ![t].seen = @ \cup {i}, ![t].asked = @ \cup {k}]
  /\ worker' = Enrol({k})
  /\ UNCHANGED calls

\* Outcome "deferred_not_ready": nothing is marked, the worker is asked.
Defer(t, i) ==
  LET k == BucketOf[chat[i]] IN
  /\ tab' = [tab EXCEPT ![t].asked = @ \cup {k}]
  /\ worker' = Enrol({k})
  /\ UNCHANGED calls

\* Mutant: the block is not marked before its dispatch is awaited.
FireUnmarked(t, i) ==
  /\ tab' = See(t, i)
  /\ calls' = calls \cup {Running(t, chat[i], "scan")}
  /\ worker' = Enrol({BucketOf[chat[i]]} \cap {Thread})

\* Outcome "dispatch", unless the same block is in flight already.
Fire(t, i) ==
  IF chat[i] \in tab[t].inFlight THEN Ignore(t, i)
  ELSE /\ tab' = [tab EXCEPT ![t].seen = @ \cup {i},
                             ![t].inFlight = @ \cup {chat[i]}]
       /\ calls' = calls \cup {Running(t, chat[i], "scan")}
       /\ worker' = Enrol({BucketOf[chat[i]]} \cap {Thread})

\* Outcome "held": one pill per block, however often it is rendered again.
Hold(t, i) ==
  LET b == chat[i]
      pills == IF b \in tab[t].heldKeys THEN {} ELSE {HeldPill(b)}
  IN  /\ tab' = [tab EXCEPT ![t].seen = @ \cup {i},
                            ![t].heldKeys = @ \cup {b},
                            ![t].pills = @ \cup pills]
      /\ UNCHANGED <<worker, calls>>

Decide(t, i) ==
  CASE ~ listening                -> Ignore(t, i)
    [] listening /\ ~ ReadyFor(t) -> Defer(t, i)
    [] OTHER -> IF Known(t, chat[i]) \/ i < Len(chat) THEN Ignore(t, i)
                ELSE IF Authorised(t) THEN Fire(t, i)
                ELSE Hold(t, i)

\* A block on the page, or what storage remembers of the URL, names the thread.
ThreadIsVisible == \E i \in 1 .. Len(chat) : BucketOf[chat[i]] = Thread

Scan(t, i) ==
  /\ ThreadIsVisible => tab[t].hydrated
  /\ i \in (1 .. Len(chat)) \ tab[t].seen
  /\ Decide(t, i)
  /\ UNCHANGED <<may, reads>> /\ UNCHANGED world /\ UNCHANGED relay

\* hydrateSessionJobsForThread, before the blocks of a pass are decided.
Hydrate(t) ==
  /\ ThreadIsVisible /\ ~ tab[t].hydrated
  /\ tab' = [tab EXCEPT ![t].hydrated = TRUE]
  /\ worker' = Enrol({Thread})
  /\ UNCHANGED <<may, reads, calls>> /\ UNCHANGED world /\ UNCHANGED relay

\* claude.ai re-creates the anchor of a message: the script forgets it.
Virtualize(t) ==
  /\ "virtualize" \in may
  /\ \E i \in tab[t].seen : tab' = [tab EXCEPT ![t].seen = @ \ {i}]
  /\ UNCHANGED <<may, reads, worker, calls>>
  /\ UNCHANGED world /\ UNCHANGED relay

\* A message deferred for CCSW_DURABLE_FETCH_FALLBACK_MS: the tab gives in.
FailOpen(t) ==
  /\ tab[t].asked # {} /\ ~ tab[t].fetched
  /\ tab' = [tab EXCEPT ![t].overdue = TRUE]
  /\ UNCHANGED <<may, reads, worker, calls>>
  /\ UNCHANGED world /\ UNCHANGED relay

-----------------------------------------------------------------------------
(* A dispatch: job.php, and what the tab makes of its answer.              *)

OneMore(f, b) == [f EXCEPT ![b] = IF @ < 2 THEN @ + 1 ELSE 2]

At(c, stage) == calls' = (calls \ {c}) \cup {[c EXCEPT !.stage = stage]}

\* job.php inserts the job, or refuses it and notes the drop.
Post(c) ==
  /\ c.stage = "sent"
  /\ IF busy
     THEN /\ At(c, "refused")
          /\ waiting' = (waiting \/ BucketOf[c.block] = Thread)
          /\ UNCHANGED <<ran, auto>>
     ELSE /\ At(c, "landed")
          /\ ran' = ran \cup {c.block}
          /\ auto' = IF c.site = "click" THEN auto ELSE OneMore(auto, c.block)
          /\ UNCHANGED waiting
  /\ UNCHANGED <<may, busy, beacon, worker, reads, tab>> /\ UNCHANGED world

\* The relay is out of reach, before or after it had the job.
PostFails(c) ==
  /\ "net" \in may
  /\ c.stage \in {"sent", "landed"}
  /\ At(c, "failed")
  /\ UNCHANGED <<may, worker, reads, tab>> /\ UNCHANGED world /\ UNCHANGED relay

\* Only the run that marked the block unmarks it, however it ended.
Unmark(c) == IF c.site = "scan" THEN {c.block} ELSE {}

\* The write-through cache: a bucket never fetched stays unfetched.
Recorded(keys, b) ==
  IF keys[BucketOf[b]] = Unfetched THEN keys
  ELSE [keys EXCEPT ![BucketOf[b]] = @ \cup {b}]

\* resolveSupersededDroppedTwin: the dropped pills of the same block.
Twins(b) == {DroppedPill(b)}

\* Dispatched: the worker and the tab record it, dropped twins are superseded.
Ok(c) ==
  /\ c.stage = "landed"
  /\ worker' = [worker EXCEPT !.keys = Recorded(@, c.block)]
  /\ tab' = IF c.tab = NoTab THEN tab
            ELSE [tab EXCEPT ![c.tab].inFlight = @ \ Unmark(c),
                             ![c.tab].local = @ \cup {c.block},
                             ![c.tab].pills = @ \ Twins(c.block)]

\* The pill a dropped (409) or failed dispatch leaves.
PillAfter(c) ==
  IF c.stage = "refused" THEN DroppedPill(c.block) ELSE FailedPill(c.block)

\* Mutant: a refused or failed dispatch leaves the block marked.
NotOkMarked(c) ==
  /\ c.stage \in {"refused", "failed"}
  /\ tab' = IF c.tab = NoTab THEN tab
            ELSE [tab EXCEPT ![c.tab].pills = @ \cup {PillAfter(c)}]
  /\ UNCHANGED worker

\* Mutant: the block is recorded as dispatched however the dispatch ended.
NotOkRecorded(c) ==
  /\ c.stage \in {"refused", "failed"}
  /\ tab' = IF c.tab = NoTab THEN tab
            ELSE [tab EXCEPT ![c.tab].inFlight = @ \ Unmark(c),
                             ![c.tab].local = @ \cup {c.block},
                             ![c.tab].pills = @ \cup {PillAfter(c)}]
  /\ UNCHANGED worker

\* Dropped or failed: nothing is recorded, the block is no longer in flight.
NotOk(c) ==
  /\ c.stage \in {"refused", "failed"}
  /\ tab' = IF c.tab = NoTab THEN tab
            ELSE [tab EXCEPT ![c.tab].inFlight = @ \ Unmark(c),
                             ![c.tab].pills = @ \cup {PillAfter(c)}]
  /\ UNCHANGED worker

Answer(c) ==
  /\ Ok(c) \/ NotOk(c)
  /\ calls' = calls \ {c}
  /\ UNCHANGED <<may, reads>> /\ UNCHANGED world /\ UNCHANGED relay

-----------------------------------------------------------------------------
(* Dispatching again.                                                      *)

\* Neither marks the block nor asks whether it is in flight.  A click waits for
\* the answer of the last one: a bound on impatience.
Start(t, b, site) ==
  /\ site = "click" => \A c \in calls : c.site # "click"
  /\ calls' = calls \cup {Running(t, b, site)}
  /\ worker' = Enrol({BucketOf[b]} \cap {Thread})
  /\ UNCHANGED reads

\* Mutant: a drop that was re-fired once may be re-fired again.
RefirableAgain(t) ==
  {b \in Blocks : DroppedPill(b) \in tab[t].pills /\ ~ Known(t, b)}

\* tryAutoRefireDroppedForRepo: the dropped pills it may re-fire.
Refirable(t) ==
  {b \in Blocks : /\ DroppedPill(b) \in tab[t].pills
                  /\ b \notin tab[t].refired
                  /\ ~ Known(t, b)}

\* pollWake asks the thread's tab; the first such pill is re-fired, once.  If
\* there is none, the thread is nudged and the wake is spent the same.
RepoFreeWake(t) ==
  /\ waiting /\ ~ busy
  /\ waiting' = FALSE
  /\ IF Refirable(t) = {} THEN UNCHANGED <<tab, calls, worker, reads>>
     ELSE \E b \in Refirable(t) :
            /\ tab' = [tab EXCEPT ![t].pills = @ \ {DroppedPill(b)},
                                  ![t].refired = @ \cup {b}]
            /\ Start(t, b, "refire")
  /\ UNCHANGED <<may, ran, auto, busy, beacon>> /\ UNCHANGED world

\* "Dispatch anyway", "Re-fire" and "Retry": no questions asked.
Click(t) ==
  /\ "manual" \in may
  /\ \E p \in tab[t].pills :
       /\ tab' = [tab EXCEPT ![t].pills = @ \ {p}]
       /\ Start(t, p.block, "click")
  /\ UNCHANGED may /\ UNCHANGED world /\ UNCHANGED relay

\* rescueLastBlock: the newest block of the conversation.
Rescue(t) ==
  /\ "manual" \in may
  /\ chat # << >>
  /\ Start(t, chat[Len(chat)], "click")
  /\ UNCHANGED <<may, tab>> /\ UNCHANGED world /\ UNCHANGED relay

Held(t) == {p \in tab[t].pills : p.kind = "held"}

\* armAutopilotWindow, releaseAutopilotHeldPills: the held blocks of this tab
\* are dispatched as they stand.
Arm(t) ==
  /\ "autopilot" \in may
  /\ tab[t].hydrated /\ ~ armed
  /\ armed' = TRUE
  /\ tab' = [tab EXCEPT ![t].pills = @ \ Held(t)]
  /\ calls' = calls \cup {Running(t, p.block, "autopilot") : p \in Held(t)}
  /\ worker' = Enrol({BucketOf[p.block] : p \in Held(t)} \cap {Thread})
  /\ UNCHANGED <<may, chat, sends, closed, listening, reads>> /\ UNCHANGED relay

\* disarmAutopilotWindow: by hand, or when the window expires.
Disarm ==
  /\ armed /\ armed' = FALSE
  /\ UNCHANGED <<may, chat, sends, closed, listening>>
  /\ UNCHANGED <<worker, reads, tab, calls>> /\ UNCHANGED relay

-----------------------------------------------------------------------------
(* The durable record: from the relay through the worker to the tabs.      *)

Spent(k) == {b \in Blocks : BucketOf[b] = k /\ b \in ran}

\* dispatched.php answers slowly: what it read may be out of date by the time
\* the worker has it.
ReadKeys(k) ==
  /\ "slow" \in may
  /\ k \in worker.polled /\ reads[k] = Unfetched
  /\ reads' = [reads EXCEPT ![k] = Spent(k)]
  /\ UNCHANGED <<may, worker, tab, calls>> /\ UNCHANGED world /\ UNCHANGED relay

\* fetchDispatchedKeysForThread: the answer replaces what was cached.
LandKeys(k) ==
  /\ IF "slow" \in may
     THEN /\ reads[k] # Unfetched
          /\ worker' = [worker EXCEPT !.keys[k] = reads[k], !.fetched = TRUE]
     ELSE /\ k \in worker.polled
          /\ worker' = [worker EXCEPT !.keys[k] = Spent(k), !.fetched = TRUE]
  /\ reads' = [reads EXCEPT ![k] = Unfetched]
  /\ UNCHANGED <<may, tab, calls>> /\ UNCHANGED world /\ UNCHANGED relay

\* refreshDurableDispatchState: the beacons are replaced by the relay's, and at
\* its end the state counts as fetched, whether or not any key was.
RefreshEnds ==
  /\ worker' = [worker EXCEPT !.fetched = TRUE, !.beacon = beacon]
  /\ UNCHANGED <<may, reads, tab, calls>> /\ UNCHANGED world /\ UNCHANGED relay

\* A bucket the worker has not fetched keeps what the tab knows of it.
Merged(mine, theirs) ==
  [k \in Buckets |-> IF theirs[k] = Unfetched THEN mine[k] ELSE theirs[k]]

\* Mutant: buckets are announced once, to the first worker.
AnnouncedOnce(t) ==
  IF tab[t].instance = 0 /\ tab[t].hydrated THEN {Thread} ELSE {}

\* A worker the tab has not met is told of the buckets the tab depends on.
Announced(t) ==
  IF worker.instance = tab[t].instance THEN {}
  ELSE (IF tab[t].instance = 0 THEN {} ELSE tab[t].asked)
         \cup (IF tab[t].hydrated THEN {Thread} ELSE {})

\* applyDurableState: a broadcast, or the answer to ccsw-durable-get.
Sync(t) ==
  /\ tab' = [tab EXCEPT ![t].durable = Merged(@, worker.keys),
                        ![t].fetched = @ \/ worker.fetched,
                        ![t].beacon = worker.beacon,
                        ![t].instance = worker.instance]
  /\ worker' = Enrol(Announced(t))
  /\ UNCHANGED <<may, reads, calls>> /\ UNCHANGED world /\ UNCHANGED relay

-----------------------------------------------------------------------------
(* The user, the assistant and what may go wrong.                          *)

\* sendUserSendBeacon: the tab has the send at once, as has the worker, which
\* posts it and never hears whether that failed; a page that shows no thread yet
\* has nowhere to note it.
NoteSend(t, n) ==
  IF ThreadIsVisible
  THEN /\ tab' = [tab EXCEPT ![t].posted = n]
       /\ worker' = [worker EXCEPT !.beacon = n]
       /\ beacon' = n \/ ("net" \in may /\ beacon' = beacon)
  ELSE UNCHANGED <<tab, worker, beacon>>

\* markUserSend.  It hears the user's Enter or click, and those by which the
\* extension submits a result, a nudge or a wake: it does not tell them apart.
Send(t) ==
  /\ sends < MaxSends
  /\ sends' = sends + 1
  /\ NoteSend(t, sends + 1)
  /\ UNCHANGED <<may, chat, closed, listening, armed, reads, calls>>
  /\ UNCHANGED <<ran, auto, busy, waiting>>

\* CCSW_SEND_WINDOW_MS after the last send.
WindowCloses ==
  /\ closed < sends /\ closed' = sends
  /\ UNCHANGED <<may, chat, sends, listening, armed>>
  /\ UNCHANGED <<worker, reads, tab, calls>> /\ UNCHANGED relay

Write ==
  /\ chat = << >> \/ "more" \in may
  /\ \E s \in Scripts : /\ Len(chat) < Len(s)
                       /\ SubSeq(s, 1, Len(chat)) = chat
                       /\ chat' = Append(chat, s[Len(chat) + 1])
  /\ UNCHANGED <<may, sends, closed, listening, armed>>
  /\ UNCHANGED <<worker, reads, tab, calls>> /\ UNCHANGED relay

ToggleListening ==
  /\ "pause" \in may
  /\ listening' = ~ listening
  /\ UNCHANGED <<may, chat, sends, closed, armed>>
  /\ UNCHANGED <<worker, reads, tab, calls>> /\ UNCHANGED relay

\* Another thread's job takes or releases the blocks' repo.
ToggleRepo ==
  /\ "drop" \in may
  /\ busy' = ~ busy
  /\ UNCHANGED <<may, ran, auto, waiting, beacon, worker, reads, tab, calls>>
  /\ UNCHANGED world

Reload(t) ==
  /\ "reload" \in may
  /\ tab' = [tab EXCEPT ![t] = FreshTab]
  /\ calls' = {IF c.tab = t THEN [c EXCEPT !.tab = NoTab] ELSE c : c \in calls}
  /\ UNCHANGED <<may, worker, reads>> /\ UNCHANGED world /\ UNCHANGED relay

\* The browser stops the worker and starts another: its calls fail.
RestartWorker ==
  /\ "worker" \in may
  /\ worker.instance < MaxWorkers
  /\ worker' = FreshWorker(worker.instance + 1)
  /\ reads' = [k \in Buckets |-> Unfetched]
  /\ calls' = {[c EXCEPT !.stage = "failed"] : c \in calls}
  /\ UNCHANGED <<may, tab>> /\ UNCHANGED world /\ UNCHANGED relay

-----------------------------------------------------------------------------
Next ==
  \/ \E t \in Open, i \in Messages : Scan(t, i)
  \/ \E t \in Open : Hydrate(t)
  \/ \E t \in Open : Virtualize(t)
  \/ \E t \in Open : FailOpen(t)
  \/ \E t \in Open : Sync(t)
  \/ \E t \in Open : RepoFreeWake(t)
  \/ \E t \in Open : Click(t)
  \/ \E t \in Open : Rescue(t)
  \/ \E t \in Open : Arm(t)
  \/ \E t \in Open : Send(t)
  \/ \E t \in Open : Reload(t)
  \/ \E c \in calls : Post(c)
  \/ \E c \in calls : PostFails(c)
  \/ \E c \in calls : Answer(c)
  \/ \E k \in Buckets : ReadKeys(k)
  \/ \E k \in Buckets : LandKeys(k)
  \/ RefreshEnds
  \/ Disarm
  \/ WindowCloses
  \/ Write
  \/ ToggleListening
  \/ ToggleRepo
  \/ RestartWorker

Spec == Init /\ [][Next]_vars

\* scan() runs every 2 s and hydrates first, the worker refreshes and broadcasts
\* every 4 s, fetch() ends one way or the other.
Fairness ==
  /\ \A t \in Tabs :
       /\ WF_vars(t \in Open /\ Hydrate(t))
       /\ WF_vars(t \in Open /\ Sync(t))
       /\ \A i \in Messages : WF_vars(t \in Open /\ Scan(t, i))
  /\ WF_vars(RefreshEnds)
  /\ \A k \in Buckets : WF_vars(ReadKeys(k)) /\ WF_vars(LandKeys(k))
  /\ WF_vars(\E c \in calls : Post(c))
  /\ WF_vars(\E c \in calls : Answer(c))

FairSpec == Spec /\ Fairness

-----------------------------------------------------------------------------
TypeOK ==
  /\ may \in Settings
  /\ chat \in Seq(Blocks)
  /\ sends \in Nat /\ closed \in Nat /\ beacon \in Nat
  /\ {listening, armed, busy, waiting} \subseteq BOOLEAN
  /\ ran \subseteq Blocks /\ auto \in [Blocks -> 0 .. 2]
  /\ worker \in [instance : Nat, keys : Keys, fetched : BOOLEAN,
                 polled : SUBSET Buckets, beacon : Nat]
  /\ reads \in Keys
  /\ tab \in [Tabs -> [seen : SUBSET Nat, hydrated : BOOLEAN, durable : Keys,
                       fetched : BOOLEAN, overdue : BOOLEAN, instance : Nat,
                       asked : SUBSET Buckets, local : SUBSET Blocks,
                       beacon : Nat, posted : Nat, inFlight : SUBSET Blocks,
                       heldKeys : SUBSET Blocks, refired : SUBSET Blocks,
                       pills : SUBSET Pill]]
  /\ calls \subseteq Call

\* The newest block of the conversation, and a block with a trace in a tab.
Newest(b) == chat # << >> /\ chat[Len(chat)] = b
Settled(t, b) ==
  \/ b \in ran
  \/ \E p \in tab[t].pills : p.block = b

\* The in-flight mark of a block in a tab is there exactly while the scan that
\* set it awaits an answer: it never leaks, whatever becomes of the dispatch.
InFlightIsRunning ==
  \A t \in Tabs, b \in Blocks :
    b \in tab[t].inFlight <=>
      \E c \in calls : c.tab = t /\ c.block = b /\ c.site = "scan"

\* A block is taken for dispatched only if the relay has a job of it: no block
\* that never ran is silently ignored.
IgnoredBlocksRan ==
  \A t \in Tabs, b \in Blocks : Known(t, b) => b \in ran

\* Every dispatch that is sent has its authority at that moment: a click; a send
\* within the window or autopilot, and then for the newest message only, however
\* old what the tab and the worker know of sends is; autopilot, for what the tab
\* held; a drop that still waits for its repo.
RunsAreAuthorised ==
  [][\A c \in calls' \ calls : c.stage = "sent" /\ c.tab # NoTab =>
       \/ c.site = "click"
       \/ c.site = "scan" /\ Newest(c.block) /\ (armed \/ closed < sends)
       \/ c.site = "autopilot" /\ armed' /\ HeldPill(c.block) \in tab[c.tab].pills
       \/ c.site = "refire" /\ DroppedPill(c.block) \in tab[c.tab].pills]_vars

\* In one tab that is not reloaded, over a relay and a worker that stay up and
\* without drops and autopilot, re-created anchors, pauses, clicks and slow
\* answers included, a block runs by itself at most once.
RunsByItselfOnce ==
  may \cap {"tabs", "drop", "net", "reload", "worker", "autopilot"} = {} =>
    \A b \in Blocks : auto[b] <= 1

\* A block in the newest message ends up as a job, or as a pill that can still
\* dispatch it, in every tab that is open: it is never lost without a trace, if
\* listening is not paused and no tab is reloaded.
FreshBlocksSettle ==
  \A b \in Blocks :
    Newest(b) /\ may \cap {"reload", "pause"} = {} ~>
      ~ Newest(b) \/ \A t \in Open : Settled(t, b)

\* A job of the thread comes to be known in every tab that shows the thread,
\* across restarts of the worker.
JobsAreLearned ==
  \A b \in Blocks :
    b \in ran /\ BucketOf[b] = Thread ~>
      \A t \in Open : tab[t].hydrated => Known(t, b)

\* A drop that is dropped again is not re-fired for ever.
RefiresEnd ==
  <>[][\A c \in calls' \ calls :
         "reload" \in may \/ c.site # "refire" \/ c.stage # "sent"]_vars
=============================================================================
