# CCswitchboard in TLA+

CCswitchboard lets Claude chats in a browser dispatch jobs to Claude Code
agents on other machines and get the results typed back into the chat. A
content script finds a job block in a chat, the extension's service worker
posts it to a relay (PHP over SQLite), an agent polls the relay, runs the job,
streams its output and posts a result, and the service worker types the result
into the chat. This directory holds a model of it in TLA+, the instances TLC
checks, and the theorems TLAPS proves.

Check an instance with `tlc -config MCRelay_locks.cfg MCRelay`, the proofs with
`tlapm RelayProofs.tla` and likewise for the other `...Proofs` modules.
`PROJECT.json` maps every definition to the lines it models and lists runs, mutants, hazards, findings and theorems.

## The system

| Part | State | Operations | Talks to |
|---|---|---|---|
| Relay, job queue and locks (`board/db.php`, `job.php`, `poll.php`, `append.php`, `result.php`, `cancel.php`, `resume.php`, `heartbeat.php`, `clear_lock(s).php`, `tick.php`) | tables `jobs`, `locks`, `waiters`, `pending_refires`, `wakes`, `heartbeats`, `reap_sweep_state` | dispatch, hand out, stream, finish, cancel, resume, force-release, five sweeps | everybody, over HTTP |
| Relay, wakes and delivery (`wake.php`, `delivery.php`, `session.php`, `register_tab.php`, `dispatched.php`, `beacon.php`) | `wakes.claimed_at`, `jobs.delivered_at`, `undelivered_nudged_at`, tab and beacon rows | claim, acknowledge, re-nudge | service worker |
| Relay, plans (`plan.php`, `plan_wake.php`) | `plans`, `plan_wakes` | post, quiet-plan nudge, pop | service worker |
| Relay, the rest (`actions.php`, `focus_request.php`, `alert.php`, `debuglog.php`, `auth.php`, `machines.php`, ...) | independent tables, configuration files | single statements | board, extension |
| Agent core (`AgentCore.cs`) | the running process, silence timer, pinned relay | poll, run, append, watch for a cancel, post the result with retries | relay |
| Agent router (`RelayRouter.cs`) | active relay, failure count, time of the last probe | send, fail over, probe the primary | the relays |
| Agent process (`PollLoopController.cs`, `TrayAppContext.cs`, ...) | the poll loop's task | start, stop, restart | agent core |
| Service worker (`background.js`) | pending sends, delivered ledger, tab registry, active jobs, relay in use | watch results, type text into a chat, recover from lost pages, poll wakes, plans and focus requests | relay, content scripts |
| Content script (`content.js`) | dispatched fingerprints, autopilot window, favicon state | find job blocks, deduplicate, dispatch, draw | page, service worker |
| Desktop relay (`desktop-relay/`) | the child PHP server | start, watch, restart | PHP |
| Popup (`popup/`), board pages, autostart scripts | none that others read | display, register tasks | relay |

What is hard in it:

* Several relay requests run at once; each endpoint is several transactions.
* Nothing is delivered reliably. A poll response that is lost leaves a job
  running nowhere, a result may come after the relay gave the job up, and a wake
  may be handed to two tabs.
* Locks belong to jobs that can be staled, resumed, cancelled, reaped and
  force-released, and threads that were refused a lock must be told later.
* Timeouts on both sides (silence timer of the agent, windows of the relay)
  must not contradict each other.
* The service worker and the pages restart at any moment.

What makes each part correct: jobs exclude each other on a repo and are handed
out once (queue and locks); no refused thread is forgotten (wakes); a result is
typed once, and not lost (delivery); a job ends at the relay when it ended at
the agent (agent, router); a block is dispatched once (content script); a send
never destroys what the user typed and always ends (service worker).
`PROJECT.json` lists the hazards line by line.

## The modules

| Module | What it is |
|---|---|
| `Relay`, `MCRelay`, `RelayProofs` | the relay's queue and locks, its endpoints and sweeps |
| `JobQueue` | what the relay promises of a job, in three actions |
| `JobRun`, `MCJobRun`, `JobRunProofs` | one job at the Windows agent: its process, pumps, timers and result, and its row at the relay |
| `Dispatch`, `MCDispatch`, `DispatchProofs` | from a block in the chat to a job: the content script's scan and deduplication, over tabs, reloads and restarts |
| `Delivery`, `MCDelivery`, `DeliveryProofs` | from a finished job to its result in the chat: ledger, registry, wakes, failure pages |
| `SendQueue`, `MCSendQueue`, `SendQueueProofs` | the send itself: the service worker's state machine for one tab, with the page it drives |
| `Session` | what the two displays of a thread in its page share: its jobs and the disturbances |
| `Pills`, `MCPills`, `DisplayProofs` | what the pages show of a thread's jobs |
| `Favicon`, `MCFavicon`, `DisplayProofs` | the indicator in the tab's icon |
| `Failover`, `MCFailover`, `FailoverProofs` | which relay the extension uses, and what is bound to it |
| `StaleTabs`, `MCStaleTabs`, `StaleTabsProofs` | tabs that run an old build after an update, and their reload |

A job's way through the system is `Dispatch`, `Relay`, `JobRun`, `Delivery` and
`SendQueue`; the other four stand beside it. Each module keeps of its neighbours
what it needs: the relay is a row or two in `JobRun`, `Dispatch`, `Delivery` and
`Pills`, and may do there what it does in `Relay`; `Delivery` has a send that
lands or fails where `SendQueue` has its scripts.

What may happen around a component is a set of *disturbances*, `may`, chosen at
the start of a behaviour from `Settings`: one instance covers several sets of
them, and a property can say which it presupposes. The theorems hold for every
set.

### Relay

Every table the queue and the locks are made of is a variable. `jobs` maps an id
to its row, with status `"none"` before the row exists; `holder` is `locks`;
`waiters`, `refires` (table `pending_refires`) and `wakes` are sets of rows;
`heartbeats` and `lastSweep` are the timestamps of the same name. `req` is the
one thing that is not a table: for each client, the transactions its request
still has to run.

* *One transaction is one step.* `job.php`, `result.php`, `append.php`,
  `cancel.php`, `resume.php`, `clear_lock.php`, `clear_locks.php` and the
  acknowledgement of `wake.php` are a single action each (two where the code
  branches). `poll.php`, `heartbeat.php`, `tick.php`, `jobs.php` and
  `thread_states.php` run several transactions, so they start a request
  (`PollGet`, `HeartbeatPost`, ...) and then `Stamp`, `Sweep` and `Claim` run one
  after another, with steps of other requests between them.
* *Sweeps are all-at-once.* `reapDeadJobs`, `reapWedgedJobs`,
  `reapOrphanedLocks`, `reapStalePendingJobs` and `resumeStaleJobs` each act on
  every row that qualifies, in one transaction (`Finish`, `SetStatus`).
* *Ages, not clocks.* A timestamp is its age in ticks and stops growing at
  `Horizon`, which is past every threshold (`HorizonAssumption`). A job needs one
  age: only `created_at` is compared while it is queued, only `updated_at` while
  it runs. A sweep's cutoff is taken at the instant of its transaction.
* *Agents and callers are the environment.* Any client may poll, append and
  post a result at any time for a job that was handed out: that covers an agent
  that is slow, an agent that died, a response that was lost and a result that
  comes late or twice.
* `pending_refires` rows are a set of (repo, thread): the wake they lead to is
  the same however often a thread was dropped. Rows of the same age are popped
  in either order.
* `wakeNextWaiter` stops at the first thread other than the one that released:
  `Pops` is the set of prefixes of the queue it may remove.

Left out of `Relay`: the claim of a wake and its debounce, delivery flags (both in
`Delivery`), plan activity and plan nudges, the offline alert, and the columns
that are only displayed. None of them is read by the actions that are modelled.

### JobQueue

A job is submitted, handed out and ended. `Submit` needs that no unfinished job
has one of its repos; `End` may end several jobs, as a sweep does. `Relay`
implements it under the mapping `QueueState` (pending and stale are queued) and
`QueueNeeds` (the repos that no operator force-releases). That single refinement
says that a job is handed out at most once, is ended once, is never queued again
afterwards, and has its repos to itself throughout.

### SendQueue

The service worker types results into a chat with scripts it runs in the tab,
while the user, the page and the browser do as they like. Tabs share nothing in
it, so one tab is modelled. The page is `composer`, `mounted`, `marker`,
`markHash` (the two globals an insert stamps), `typed` and `recent` (the
keystroke timestamp against the marker's and against the clock). The worker is
`queue` (the tab's part of `pendingSends`, in insertion order), `entry`, `last`
(`lastInjectedByTab`), `outcome` and `delivered` (the ledger). `landed` counts
what Claude was really given.

* *A look at the page and its answer are two steps.* Each `execInTab` runs its
  script on the page at once (`RunProbe`, `RunInsert`, `RunClick`, `RunEnter`,
  `RunCheck`, `RunClear`) and appends a reply to `calls`; the code after its
  `await` is the action that handles the reply. Everything else may happen
  between the two. Scripts of one tab answer in the order they ran in; the
  status footer that precedes an insert comes from another process and is a
  step of its own, unordered (`fetching`).
* *`entry.busy`* is having a reply or a footer to come, so that two keys can be
  in flight at once only after a forced flush, as in the code. `entry` outlives
  its place in the queue as the object does that a suspended step still holds.
* *A text is a set* of the deliveries and of the user's words it is made of, and
  its hash is that set: what the code compares are hashes, and no property looks
  into a text beyond what it is made of. Whitespace, and two texts with one
  hash, are therefore not distinguished.
* *Phases.* `find` and `await` are the sub-phases `find-button` and
  `await-clear` of `send`; `backoff` only waits. Of the ticks within a timeout
  only the last can change anything and is kept: a click that is not ready stands
  for the last look before the Enter fallback, a check that finds the composer
  full for the last one of its window. `held` counts the checks that hold for a
  reason of the page's, and at `HoldCap` the gate gives up or, if the page shows
  no generation any more, goes on.
* *The page* takes a submission or ignores it. The button may be missing or
  disabled at any time, and is disabled while the composer is empty. Anything
  the probe reports about a generation is a choice.
* *Disturbances*: `type`, `erase`, `send`
  (all the user's), `reload`, `unmount` (the page takes its input away), `fail`
  (a reply is lost after its script ran), `close`, `restart` (of the worker),
  `redeliver` and `flush` (the two buttons of a delivery's pill).
* A batch is any subset of the other deliveries on hold, which stands for the
  length limit; the manifest and the footer name deliveries but deliver none.

Left out: the experimental concurrent send, off by default; the resend of a
user's message with results bundled into it (planned as a module over this one);
notifications, speech, logs and the acknowledgement request itself.

### JobRun

One job from the poll that hands it out to its result, at the agent and at the
relay. `loop` is where the worker is (`PollOnceAsync`, the wait loop of
`RunClaude` and `RunBash`, `PostResult`), `pump` where the two tasks are that
read the process's output, `idle` the age of `lastOutputTicks`, which they share.
`child`, `held` and `pipe` are the process and the two pipes it writes to; `row`
is the job's row with the age of `updated_at`.

* *Time* passes in ticks of the shortest of the times compared. The agent's own
  steps take none: `Tick` waits until the worker and both pumps wait for
  something (a line, an answer, a timeout). Requests take up to `RequestTimeout`.
  `quiet`, the age of the last line written, is there to say what silence is.
* *A pump posts before it reads on* (`await PostAppend`), so a slow relay holds
  output up in the pipe. `RunClaude` posts the non-blank lines of stdout,
  `RunBash` every line (`Posted`); lines are counted and not told apart.
* *The two kinds of job* share the wait loop, which the source has twice.
* *Disturbances*: `cancel` (somebody asks for it), `linger` (a process
  that stays behind holds the pipes), `mute` (a Claude Code job writes lines that
  are not posted), `append`, `check`, `result` (requests fail or their answers
  get lost), `garble` (a payload that does not deserialize), `die` (the agent).
* The other writers of the row (`reapDeadJobs`, a second result) belong to `Relay`.
  A request is answered at the relay before its sender gives it up, and a kill
  of the process tree succeeds.

### Dispatch

One conversation, seen by several tabs. `chat` holds the block of each assistant
message; a block is its `stableKey`, and `BucketOf` says whether it is
deduplicated under its thread or, without one, under the conversation's URL.

* *A script runs to its next await in one step.* The scan of a message is a step
  (`Scan`: `Ignore` what is known to be dispatched, `Defer` what may not be
  decided yet, `Fire`, or `Hold` behind a pill); `dispatchCcswBlock` is a call that
  waits in `calls` for `Post` or `PostFails`, and `Answer` is the code after its
  await.
* *What a tab knows of dispatched blocks* (`Known`) is what it dispatched itself
  (`local`) and the worker's broadcast (`durable`, merged by `Sync`). The worker's copy
  (`worker.keys`) is fetched from the relay for the buckets tabs have asked for
  (`polled`); with slow answers, what was read and what lands are apart (`ReadKeys`,
  `LandKeys`, `reads`). `instance` tells a tab that the worker was restarted and must be
  told again what to fetch. A tab that waits too long for any answer goes on
  without (`FailOpen`).
* *Times* are orders. `sends` numbers the messages that were sent and `closed` says
  which of them are past `CCSW_SEND_WINDOW_MS`; `beacon` is the last of them as the relay
  and the tabs learn of it. A message is sent by the user or by the extension, which
  delivers a result with a synthetic click or Enter: the listener cannot tell the two
  (`content.js:5764-5768`), so a delivery posts a beacon too (`Send`, `NoteSend`) and
  opens the window for the reply to it. That is how a chain of jobs runs on, and it
  also means that under the manual settings the result of a job the user
  clicked authorises the next block.
* A scan names messages by their place. `Virtualize` has the page forget an anchor
  and create it again, so that its block is seen a second time.
* *Other ways to a dispatch*: a click on a pill (`Click`), the rescue of the newest
  block (`Rescue`), an autopilot window that is opened over held pills (`Arm`), and a
  drop that is fired again when its repo is free (`RepoFreeWake`).
* *Disturbances*: `more` (the assistant writes more than one message), `tabs`,
  `virtualize`, `drop` (the repo is busy), `net` (requests fail), `reload`, `worker`,
  `slow` (answers that arrive late), `pause` (listening is switched off and on),
  `manual`, `autopilot`.

Left out: how a block is found and parsed, drawing, plan posts, and the settings
that only turn the modelled parts off.

### Delivery

The jobs of one thread. `row`, `wakes` and `tabRow` are the relay's; `store` is what
`chrome.storage.local` keeps and `worker` what a restart loses.

* *Two paths lead to the send queue*: the watcher (`WatchTick`, `Watched`) asks after
  every job of the registry, and the relay's wake (`Nudge`, `ClaimWake`,
  `LookUp`, `Redelivered`) asks for one that was never acknowledged. `Dispatch` puts
  a job in the registry, and so does a page that loads and says what it tracks
  (`LoadPage`). `Advise` queues a send of its own and leaves the registry alone.
* *A registry change is a read and a later write* (`writes`, `Write`), as in the code:
  two of them can cross and lose an entry.
* *A send* is queued, then `Lands` (Claude has it), then is `Sent` (the worker knows it
  and marks the ledger). Between the two a tab may close and a worker may stop;
  `cut` counts that. It may also fail (`Fails`; a job that fails `Threshold` times is
  paged) or be held back because the user's text is in the way (`HeldBack`).
* *Disturbances*: `close` (tabs come and go), `net` (requests and acknowledgements
  are lost), `worker` (restarts), `fail` (sends), `guard` (held sends), `stale` (jobs),
  `advice` (a second send for the same job).

Left out: the manual redelivery (it is in `SendQueue`) and the caps on the ledgers.

### Pills

`page` is what each tab shows of each job: the session's record and the pill.
Their status comes from four sides, which are the four groups of actions: the
page's own dispatch (`Dispatch`, `Wake`), the worker's poll (`Poll`, `Tell`; one page
per job is told, `toolbar`), the jobs earlier pages stored (`HydratePage`, `Loaded`,
`Restored`), and the sweep of pills nobody reports on (`Reap`, `Reaped`,
`ReapFails`). A request is two steps, its answer is what the row was when the relay
was asked (`Found`), and the page goes on meanwhile. A job that the batch of `jobs.php`
does not tell of, because it is no longer served there or because the batch itself
failed, is asked after by itself at `status.php`, whose answer "done" is taken as
it is (`Unbatched`, `Plain`; `background.js:2245-2260`, 6371-6382): a job that failed or
was cancelled then shows as done.

*Disturbances*: `reload`, `worker`, `aged` (the job fell out of the batch
`jobs.php` serves), `net` (requests fail), `stale`, `close` (the user closes and reopens
pills), `slow` (a poll that overtakes another).

### Favicon

`log` and `status` are the session's jobs in the order of their times, `talking` and
`watch` claude.ai's writing and the record the watcher keeps of it. `fav` is the
indicator with the head it writes to: its `own` link, the page's `links`, those it set
aside (`saved`), the write that waits (`pending`, `due`), the one timer (`tick`), the
writes of the last seconds (`recent`) and whether it has given up (`broken`).
Each way of the code to the head is an operator (`Apply`, `Removed`, `Disabled`,
`SetState`, ...), each event and each timer an action. Frames of an animation are
one icon.

*Disturbances*: `talk`, `results` (deliveries are recorded as sessions' entries, and
`park`: held back), `refire` (a dropped job starts again), `hydrate` (jobs of an
earlier page), `displace` (the setting is switched), `fight` (the page puts its icons
back), `rewrite` (a new head), `fault` (drawing fails), `off`.

### Failover

`server` and `tokens` are the relays and what is configured for them, `worker` the
lists loaded from it with their failure counts and refused tokens. A request
(`Start`, then `Answered`, `Failed` or `Refused`) holds the relay of the list it was
started with, even after a new list is loaded. A switch is several steps: the
request that caused it sets the header rules (`SetRules`), drops what was cached
from the relay it left (`DropCaches`), and only then retries, checks again or gives
up (`call[c].next`). `ProbeStart`, `ProbeOk` and `ProbeFailed` are the probe of the
primary.

What is stored is loaded in two steps, `StartLoad` and `FinishLoad`; a change of it
(`Reload`, from `Edit` or, in the first run of the extension, `Migrate`) drops the list in
memory and has it loaded again, by the load that is under way if there is one.
`RestartWorker` loses all of `worker` and has the rules registered again, as every
start of the worker does (`background.js:653-655`).

*Disturbances*: `flap` (relays go down and come back), `edit` (tokens are changed),
`race` (while a list is being loaded), `first` (the first run, which stores the list it
made up), `restart` (of the worker).

### StaleTabs

After an update the tabs run the old content script. `Inject` is the reinjection,
`Query`, `Probe`, `Banner`, `Conclude`, `TellSwept` and `AutoHeal` are the sweep,
`Look`, `ReadOwed`, `ProbeAgain`, `Reload`, `Finish` and `TellReloaded` the loop that
reloads stale tabs with an empty composer: each await is a step, each loop takes
the tabs in any order, and several may run at once (one per listener, and one for
a button of a notification: `PressButton`). `sends`, `owed` and `reg` are what the loops must
not disturb. A send is the result watcher's (`QueueSend`) or the relay's: `pollWake` and
`pollPlanWake` (`Wake`) type a nudge, or a result the relay sees undelivered
(`Undelivered`), into the tab of the relay's row, which may be any that ever registered.
`late` is not the code's: it remembers for which tabs a wake came while a loop had
them ahead of it.

*Disturbances*: `user` (types, clears, looks at another tab), `load` (F5, new and
closed tabs), `away` (discarded tabs), `delivery`, `wake`, `sleep` (the worker stops),
`update` (again), `twice` (a second notification's button is pressed while the first's
reload runs), `toggle` (the setting), `both` (two listeners sweep at once), and
`quick`, which lets the page change between the last probe and the reload that
follows it at once. No instance uses `quick`: the window cannot be closed from
the service worker, and the two properties of a reload exempt it.

## What the runs show

| Run | Instance | Shows |
|---|---|---|
| `relay_locks` | 2 threads, 2 repos, 2 jobs, one client, one repo force-releasable | locks are live, live jobs hold their repos, jobs exclude each other, drops wait for a release and are surfaced by it; `Relay` implements `JobQueue` |
| `relay_live` | 1 job, 2 machines, an operator who clears locks, cron under fairness | a silent job ends, an unclaimed one is staled |
| `job_run` | jobs of both types with a short and a long silence timeout, four sets of disturbances, under fairness | a timeout means silence, and the relay does not reap a job that posts what it writes; a result has all the output, and lands or is known to be dropped; a worker comes back, a cancelled job stops, a row ends |
| `dispatch_once` | 2 tabs, 2 blocks (one without a thread), ten sets of disturbances, under fairness | marks are taken away; what is ignored as dispatched ran; every dispatch has its authority when it is sent (a click, an open send or autopilot window for the newest message, a drop that waits), and no block runs twice by itself in one tab; a new block becomes a job or a pill; jobs come to be known in every tab; drops are not fired again for ever |
| `delivery` | 1 job, 2 tabs, eight sets of disturbances, under fairness | delivered means landed; a result lands once, and in the end; it is paged once |
| `send_pairs` | 2 deliveries; seven sets of disturbances | what is reported as sent was submitted; left alone each is submitted at most once, batched or alone; no text of the extension's own is left in the composer unknown to it; the extension never touches a composer the user has written into |
| `send_live` | 2 deliveries; reloads, manual sends, closing, under fairness | every delivery leaves the queue |
| `send_flush` | 2 deliveries, the flush | a place where the code does not do what its comment says: see *Findings* |
| `pills` | 1 job, 2 tabs, seven sets of disturbances, under fairness | an end that is shown is an end; a running job has its pill; no pill runs for ever over a job that ended |
| `favicon` | 2 jobs, 1 icon of the page, nine sets of disturbances, under fairness | timers and waiting writes fit the state; the page gets its icons back; the icon settles on what it should show |
| `failover` | 2 relays, 2 requests and the probe, five sets of disturbances, under fairness | the relay in use is usable; the header rules are its; the extension comes back to a relay that serves it, the primary if it can |
| `staletabs` | 2 tabs, 2 sweeps and the button, eight sets of disturbances | stale pages are announced, hidden ones are healed, and no reload costs the user's text or a delivery |

Every disturbance is alone in a set, or with those it meets: all of them at once
would explode, and would tell no more of a property that excludes some.

*`Relay`.* `MaxJobs`, the number of rows, is two where jobs meet each other: a
property that relates three jobs is not among those checked, and what one
release does to a third job it does to the second. Two repos make the partial
overlap of a multi-repo dispatch, two threads make a waiter that is not the
holder, and one of the repos is force-releasable so that what the others keep is
visible. Thresholds are 0 and 1 tick; `relay_locks`, with two jobs, has
`Horizon` 1 and `relay_live` 2, so that stale before resume cutoff and offline before wedged
occur there. The theorems hold for every value.

*`SendQueue`.* Two deliveries make a head, a batch and a queue behind
it; one word of the user's is what text of his own and mixed text need. The
limits of the code (8 attempts, 3 restarts, 3 reclaims, a hold of 5 minutes)
become 0, 1 or 2 of each: every counter reaches its limit, and meets the others
there. `LandedCap` only bounds a counter, at one more than `LandedOnce` asks about.
`KeySymmetry` is used in runs without liveness only.

`SentMeansLanded` excludes an erased composer and an input
that goes away, because the code takes an empty or a missing input for a sent
text, and the flush (see *Findings*). `LandedOnce` and `ComposerIsAccountedFor`
exclude what the code cannot tell from a lost submission: nothing durable says
that a text was submitted, so after a reload, a restart or a user who types in
the wrong moment it is typed again (at least once, rather than at most).
`EveryDeliveryEnds` is checked without `unmount` (a delivery waits as long as the
input is away), `flush` (a delivery may be overtaken for ever) and `type` (it waits as long as a draft stands).

*`JobRun`.* Silence timeouts of 1 and 7 ticks against requests of 1:
the short one is within a request's time, where neither `SilenceIsSilence` nor
`PostingJobsAreNotWedged` promises anything; for the long one the relay's window
is 11, just past 7 and three requests. A pipe holds one line and a tick sees two,
so that pumps fall behind. Two attempts to post a result are a first and a last.

`SilenceIsSilence` asks for a timeout longer than a request's because a pump that
posts does not read. `PostingJobsAreNotWedged` asks that the window exceeds the
timeout by three requests: a session lookup, a cancel check and the post of a
line may each take 60 s. At the default timeout of 300 s the margin is 150 s, so
the defaults satisfy it while requests take less than 50 s.

*`Dispatch`.* Two blocks are a newest and an older one, in two buckets; one send
has a window that opens and closes; two workers are one restart.
`RunsByItselfOnce` is about one tab that is not reloaded, over a relay and a worker that stay up:
two tabs of a conversation dispatch without asking each other (each has only what the
relay knew when the worker last asked, so both may run one block), a lost answer leaves a job nobody
recorded, and a restarted worker fails a dispatch that may have landed. `FreshBlocksSettle`
presupposes that listening is not paused (a block seen meanwhile is marked as seen) and that the
tab is not reloaded (a pill that was dropped or failed is lost with its page,
and a send within the window may be forgotten). `RefiresEnd` excludes reloads,
since what was fired again is remembered in the page.

*`Delivery`.* Failures are counted up to 2, so that there is a first one and a
page; a submission is cut off before it is marked at most once (`CutCap`).
`ResultsLand` asks that restarts and closed tabs end and that the relay's row
names an open tab in the end: only then do the two paths lead to a chat.

*`Pills`.* One job and two pages: the one that is told of the job and the other.
`EndsAreTrue` tells an error from a success unless `status.php` alone was asked, which
does not: where the job is `aged` or requests fail (`net`), an end may be shown
as plainly done, but still only as an end; `RunningJobsHavePills` excludes a user who closes the pill
and jobs that are stale, in fact or for want of an answer, whose pill expires.

*`Favicon`.* Two jobs have a latest; two writes reach the limit of the breaker.
`PageIconsReturn` excludes a page that wants other icons than those it had
(`rewrite`) and a setting that is switched in between (`displace`); the icons are a set, so
it does not see one given back twice. `IconSettles`
excludes what does not tell the indicator: a delivery that lands after it was
parked, a dropped job that is fired again, and the setting that turns it off (see
*Known divergences*).

*`Failover`.* With two relays there is a primary and another. Two requests, one
of which reads the keys, and the probe cross in every order; two failures and
two successes in a row are the thresholds. One change of tokens is enough for a
request to hold a list that was replaced. Neither invariant excludes a disturbance.
`Recovers` asks for a relay whose stored token is good; where a token changes while
a list is being loaded it can only ask for one that is good in that list (see
*Known divergences*).

*`StaleTabs`.* Two tabs, one of which the user looks at; `Alike` makes tabs and
listeners interchangeable, which is sound as the run has no liveness property. The
button is pressed again once its reload is through; `twice`, a second press before,
adds one more loop to those of the listeners and the button, and is left to the
theorems, which hold for every set of `Buttons`. `MaxWakes` is one: a wake that comes
before, within or after a loop's collection of protected tabs is what there is to see,
and a second one in another tab meets the same.
`DeliverySpared` excepts the tab a wake was queued for after the loop had collected (see
*Known divergences*); without `inject` nothing but the browser has started, and no page
runs a script.
`StaleIsSurfaced` excludes a worker that is stopped (it does not sweep again when it
starts), `HiddenStaleAreHealed` every setting with the user, a delivery, a stopped worker or
discarded tabs.

### Fairness

* `Relay`: time passes, and cron requests `tick.php` again and again and its
  transactions complete: the header of `tick.php` says it exists to be run by
  cron. Nothing is asked of agents, of the extension or of other requests.
* `SendQueue`: the send tick, an interval that runs as long as anything is
  queued, advances the head, scripts answer and footers arrive (both have a
  reply or an error in the code), and the user pauses his typing now and then.
  Nothing is asked of the page: it may ignore every submission.
* `JobRun`: the tasks of the agent run and its requests end, as each has
  a timeout, the relay sweeps, and time passes however much the process
  writes (strong fairness of `Tick`, which is disabled while a line waits to be
  read). Nothing is asked of the process: it may write or sleep for ever, so
  `WorkersComeBack` and `RowsEnd` exempt a job that writes again and again.
  `WorkersComeBack` also exempts a process left behind that holds the pipes (`linger`): the
  worker then waits for its pumps as long as that process lives.
* `Dispatch`: a page scans every 2 s and hydrates first, the worker refreshes its
  state and broadcasts it every 4 s, and requests end. The user, the assistant
  and the relay's locks owe nothing.
* `Delivery`: an acknowledgement that is on its way lands unless it is lost, a send
  that was submitted is found to be, and one to a closed tab found to fail. Strong
  fairness for the relay's nudge, the claim of its wake, the worker's lookup and the
  answer, each at a time when no send of the job is pending, and for a submission:
  all are tried again and again (intervals, a re-nudge every few minutes) and may
  fail in between. The condition is needed: a watcher that does not know the
  thread's tab queues the result for a closed one and fails, over and over, and
  a wake that found such a send every time would be acknowledged for nothing.
  Nothing else is asked of the watcher or the registry: wakes alone bring a result in.
* `Pills`: the worker's poll, and strong fairness of a page's own sweep and its
  answers. Neither relay nor jobs owe anything.
* `Favicon`: timers fire (the watcher's, the write floor's, the tick's).
* `Failover`: lists load, requests are answered or time out
  (`RELAY_TIMEOUT_MS`), whoever switched finishes its housekeeping, and the probe
  runs (an interval). Relays owe nothing; `Recovers` speaks of
  behaviours in which they settle.

## What is proved

For every number of jobs, tabs, relays and so on, every threshold and every set
of disturbances, from the assumptions named where the constants are declared.
Type invariants (`TypeOK`) are proved rather than run. Every safety property of a
run is proved, the refinement and the action properties among them.

| Module | Theorem | Says |
|---|---|---|
| `RelayProofs` | `TypeCorrect` | `Spec => []TypeOK` |
| | `LocksAreDisciplined` | `Spec => []LockDiscipline` |
| | `DropsComeToLight` | `Spec => DropsAreSurfaced` |
| | `AtMostOnce` | `Spec => HandedOutOnce` |
| | `ImplementsJobQueue` | `Spec => IsAJobQueue`, the refinement |
| `SendQueueProofs` | `UserTextSpared` | `Spec => UserTextIsSacred` |
| | `OwnTextIsOwn` | `Spec => []OwnTextInv`, the invariant it rests on |
| | `TypeCorrect` | `Spec => []TypeOK` |
| | `OneStepInFlight` | `Spec => []FlightInv`: one delivery at a time, one step of it |
| | `SentIsLanded` | `Spec => []SentMeansLanded` |
| | `ComposerIsKnown` | `Spec => []ComposerIsAccountedFor` |
| | `SubmittedOnce` | `Spec => []LandedOnce` |
| `JobRunProofs` | `TypeCorrect` | `Spec => []TypeOK` |
| | `WholeResults` | `Spec => []ResultIsWhole` |
| | `TalkingJobsRunOn` | `Spec => []NoTalkingJobIsEnded` |
| | `ResultsAreKept` | `Spec => []ResultsLand` |
| `DispatchProofs` | `TypeCorrect` | `Spec => []TypeOK` |
| | `NoBlockIsIgnoredUnrun` | `Spec => []IgnoredBlocksRan` |
| | `MarksAreTakenAway` | `Spec => []InFlightIsRunning` |
| | `RunsHaveAuthority` | `Spec => RunsAreAuthorised` |
| | `OneRunPerBlock` | `Spec => []RunsByItselfOnce` |
| `DeliveryProofs` | `TypeCorrect` | `Spec => []TypeOK` |
| | `DeliveredIsTrue` | `Spec => []DeliveredMeansLanded` |
| | `PagesAreRemembered` | `Spec => []PagedOnce` |
| | `ResultsLandOnce` | `Spec => []LandsOnce` |
| `DisplayProofs` | `PillTypeCorrect` | `PillSpec => []PillTypeOK` |
| | `ShownEndsAreTrue` | `PillSpec => []EndsAreTrue` |
| | `RunningArePilled` | `PillSpec => []RunningJobsHavePills` |
| | `IconTypeCorrect` | `IconSpec => []IconTypeOK` |
| | `TimersAreSet` | `IconSpec => []TimersMatchState` |
| | `IconsAreReturned` | `IconSpec => []PageIconsReturn` |
| `FailoverProofs` | `TypeCorrect` | `Spec => []TypeOK` |
| | `TheActiveRelayIsUsable` | `Spec => []ActiveIsUsable` |
| | `TheRulesFollow` | `Spec => []RulesFollowActive` |
| `StaleTabsProofs` | `TypeCorrect` | `Spec => []TypeOK` |
| | `TextIsSpared` | `Spec => TextSurvives` |
| | `DeliveriesAreSpared` | `Spec => DeliverySpared` |
| | `StaleTabsAreSurfaced` | `Spec => []StaleIsSurfaced` |
| | `HiddenTabsAreHealed` | `Spec => []HiddenStaleAreHealed` |

*`RelayProofs`.* The type invariant is inductive. `LockInv`, the conjunction of
`LocksAreLive`, `LiveJobsHoldTheirRepos` and `DropsAwaitARelease`, is inductive
relative to it although none of the three is by itself: a dispatch keeps a live
job's repos only if the locks it takes are free, and a release frees only the
locks of jobs that end only if locks have live owners. Exclusion follows, since
a lock has one holder. `DropsComeToLight` sorts the steps by what takes a
`pending_refires` row away: nothing but a release does. At-most-once needs that
a started job is running or done (`StartedJobsRunOrEnded`): `NextRows` sorts the
steps into four kinds, one job queued, jobs moved between pending and stale, one
handed out, some ended. The refinement is one case per kind.

*`SendQueueProofs`.* That a script compares a composer with a hash protects the
user only if nothing of the user's can ever get into the hash. `OwnTextInv` says so:
`markHash`, `last.hash`, the texts of entries and of the replies that carry a text
on (insert, sentinel, heal) are made of deliveries alone. It is inductive: each
of these is copied from another of them, and the one reply that carries what the
page shows, a probe's, is only ever compared. Each script has a lemma that it
keeps the invariant and spares the user's text, each action one that cites them.

Three arguments about a whole delivery rest on `FlightInv`: without a flush only the
head of the queue is past its hold and has one step in flight (`OneFlight`), and the
sentinel's look is still up to date when it is handled (`OneSentinel`). A step is then
one of the queue's (`QueueStep`), the reply of the one delivery at work (`OwnReply`),
the sentinel's, or the page's and the user's around them (`Steps`).
`SentInv`: what was typed for a delivery is in the composer or was submitted, as long
as the document bears its mark (`There`), so a check that finds the composer empty
under that mark tells of a submission; a wipe is the exception, after which an entry
does not look again (`WipeIn`). `AccountInv`: the composer is empty, or what `last`
remembers, or what an insert's pending reply will have it remember. `AloneInv`, where
nobody types: the composer and the counts are known at each stage (`Rests`,
`CallStage`), and whatever was submitted is in the delivered ledger or belongs to the
delivery at work (`Ledger`), which is what keeps a reclaim, a new attempt or a batch
from submitting it again.

The queue without some of its keys is a recursive function. That it is a sequence of
the keys that are left (`WithoutKeeps`) is induction over its length, which is done
through the least place the claim could fail at.

*`JobRunProofs`.* `WholeResults` needs that a pump that is done stays so
(`DoneIsDone`) and that an outcome is decided once, as the worker leaves the wait
loop. `SilenceInv` says that a line written after the last one read waits in a
pipe, and that if its pump is posting, that post is younger than a request's
timeout and no older than the last read. `WedgeInv` bounds the age of the row:
without a line on its way it is at most a lookup older than the last line read;
with one, the line was read before the wait loop gave up, one cancel check past
the timeout at most (`LoopKeepsTime`), and lands within a request's time. The sum
is the margin `PostingJobsAreNotWedged` asks for. `ResultsAreKept` needs what happens
between a post that was taken and its answer (`LandedIsKept`): the row is done with
the worker's outcome by then, and neither sweep nor cancel touches a row that is done.

*`DispatchProofs`.* `IgnoredBlocksRan` needs that everything which is taken for a
record of dispatched blocks names blocks that ran: a tab's own and the worker's,
answers that are still on their way, and calls that landed (`SoundInv`).
`FlightInv` counts: a mark in a tab and a scan's call are there together, and no
two scans' calls are for one block and tab. `SendsInv` says that whatever a tab,
the worker or the relay takes for the newest send is no later than the newest there
was, so that a window a scan finds open is that of a message that was sent.
`OnceInv` follows a block in the one tab that stays: a scan's request that is out is
the block's first run, and a block that ran is marked in the tab or will be as the
answer under way arrives (`MarkedOrMarking`), so no later scan fires it.

*`DeliveryProofs`.* `TruthInv` says of everything on its way that would call a
result delivered (a row, an answer that was read early, an acknowledgement, a
confirmation) that the result landed. `PageInv` has the worker's memory of pages
and the stored one agree. For `LandsOnce`, `LandInv`: there is one send per key, the
ledger is in storage, and each landing is accounted for by the ledger, by a send
that was typed, or by one that was cut off.

*`DisplayProofs`.* `Pills`: a status travels by poll, storage, hydration and check, and
may be old when it arrives. `SaidInv` says of every place a status is in that it is
true of its job (`Good`), and `StaysGood` that it stays so while the job goes its way,
since jobs end once and in one way. So each step has only to say true things
(`SaidStays`), whatever order they arrive in. `PillInv` adds that a page that knows a
job to run has its pill or a restoring check that covers it (`Backed`): hydration asks
about every open job, an answer is about the same jobs, and what takes a pill away
or opens a session's job speaks, by `SaidInv`, of a job that does not run.

`Favicon`: `Fine` and `Home` say of the indicator between any two writes that
it has left nothing behind once it is gone and that the page's icons are in the
head or set aside; each operator that writes to the head has a lemma that it
keeps both (`Kept`).

*`FailoverProofs`.* `RulesInv`: where the rules are not those of the relay in use,
somebody who moved the extension has still to set them, or a list is to be
registered. `UsableInv`: only tokens that are not good are refused, in whichever
list, so that whatever is left for the next usable relay was left for a reason; a
probe under way of an earlier list has no successes to add to (`ProbeIsFresh`), so it
cannot bring back a primary whose token was taken away.
`FirstUsable` is characterised by a lemma on minima of sets of naturals.

*`StaleTabsProofs`.* `ReloadIsEmpty`: a tab that is about to be reloaded was found
empty, and nothing but `quick` changes it until then. `DeliveryInv`: every send of the
watcher is owed, in its own tab or a fresh one, the thread's registered tab is fresh, and no
stale tab outside a loop's safe list is owed anything, however long the loop runs. A
wake's send may be in any tab: if it was there when a loop began it is in that
loop's safe list, and if it came later the loop has its tab in `late` (`Missed`,
`WakeMarks`).
`CoverInv`: every sweep that is under way collects all stale pages, so that the
list of whichever concludes last has them all with their banners; what a reload
takes from the list is fresh; and a list that was not notified has a loop that will.
`HealInv`: with neither user nor delivery in the way every loop's safe list is empty
(`NobodyIsSpared`) and a hidden stale page is always ahead of some loop
(`HiddenIsAhead`), a sweep still to reload or a call still to come to it.

Model-checked only: the liveness properties (`SilentJobsEnd`, `UnclaimedJobsGoStale`,
`EveryDeliveryEnds`, `WorkersComeBack`, `CancelledJobsStop`, `RowsEnd`,
`FreshBlocksSettle`, `JobsAreLearned`, `RefiresEnd`, `PillsSettle`, `IconSettles`,
`Recovers`). They rest on fairness, and so on `ENABLED`, which is out of the prover's
reach.

## Findings

* `forceFlushKey` puts a key at the head while the old head's step is in flight. In the
  counterexample `a` is inserted and its click does not take; `b` is flushed to the head,
  and its hold check finds `a`'s text, which is the last the extension typed, takes it
  for stranded and wipes it (`background.js:4648-4651`). `a` is flushed back, and its check
  finds the input empty in a document that still bears `a`'s marker (3130-3137), so that `a`
  is reported and acknowledged as sent and Claude never sees it, where
  `background.js:4443-4444` says that the relay's flag "always implies a real send"
  (`send_flush`). A second *insert* would not do it: it stamps its own marker, and
  the first delivery's check then starts over.

### Known divergences

Met while modelling: the models have the code's behaviour and the properties
exempt it, without a run of its own.

* `board/result.php:63` updates the row whatever its status, so a late result
  restamps an `outcome` that RELAY-PROTOCOL.md:169 calls "the authoritative
  terminal-state stamp".
* `releaseRepoLock` (`board/db.php:718`) wakes a waiter and leaves the drops on the repo
  unannounced, unlike "a normal completion" (711-712).
* `reapWedgedJobs` "never reaps a job the agent is still legitimately running"
  (`board/db.php:970-972`), but a line of stderr, or a blank one, resets the agent's
  silence timer and is not posted, so a Claude Code job that writes only such
  lines is ended while it runs (`mute` in `JobRun`).
* A text the user sent by hand before the first click is parked as held back: the
  guard of the Enter fallback (`background.js:5631`) sees an empty composer before
  the ladder of 5238-5243 asks whether it is empty.
* `addActiveDeliveryJob` (`background.js:2605`) reads the registry and writes it
  after an await, so two changes can lose an entry that "exactly one live watcher"
  (2566-2568) is to cover; the relay's wake makes up for it.
* An answer of `dispatched.php` that was slow can land after a switch of relays
  (`background.js:6593`) and bring the old relay's keys back, which 276-277 drops
  at the switch; the next poll replaces them.
* A token that is set while a list is being loaded is not loaded: the change drops the
  list in memory, but the load under way is joined and ends with what it read before
  (`background.js:158-176`, 483-505), where 490-494 has a new token
  "start authenticating immediately". The next restart of the worker or the next change reads it.
* `getDeliveryProtectedTabIds` (`background.js:1266-1295`) collects the tabs not to be reloaded once,
  before the loop. A wake that is queued meanwhile to the tab of the relay's
  `register_tab` row, which after an update still names a stale tab, is not among them, and
  that tab may be reloaded under it (`wake` in `StaleTabs`). The send survives in the worker, which
  types it again into the reloaded page.
* The message `ccsw-reload-stale-tabs` has a listener (`background.js:1449-1457`) and, in this
  repository, no sender: `content.js:7495-7503` has the stale tabs deliberately left out of the
  Action List, whose button the comment says would post it. The notification's button is
  the one that is modelled.
* `releaseAutopilotHeldPills` (`content.js:3998`) dispatches every held block as it
  stands, without the rule A that 3794-3798 says stays in force.
* The "single OFF switch" of the icon (`content.js:4103-4106`) stops new states and leaves
  the icon that is shown, and its timer, as they are.

## Plan

Done: the job's whole way (`Dispatch`, `Relay`, `JobRun`, `Delivery`, `SendQueue`), what
the user sees of it (`Pills`, `Favicon`), and what the extension does around it
(`Failover`, `StaleTabs`). What would come next, in this order:

1. `Piggyback`, over `SendQueue`: a message the user sends while results wait is
   caught, results are bundled with it, and it is typed and submitted again
   (`background.js:3419`). His words must land once.
2. `Router`: the agent's failover between relays (`RelayRouter.cs`), with jobs pinned to
   the relay that handed them out and heartbeats that follow the active one.
3. The claim of a wake and its debounce, with two tabs between claim and
   acknowledgement; `Plans`, the quiet-plan nudge that is deleted when it is read.
4. The desktop relay's supervisor and the restart of the agent's poll loop.
5. Pure functions (`classifyJobResult`, `repoFromCwd`) against reference definitions.

Theorems after those: that `Delivery`'s send is what `SendQueue` does for one key
(`SentIsLanded` and `SubmittedOnce` are the two facts it takes for granted), and the
rankings behind the liveness properties as action properties, one step nearer at a
time.

## Not modelled

The extension's resend of a user's message, focus requests, plans, actions and alerts; the
agent's router, its poll and heartbeat loops and their control; the desktop
supervisor: each is in the plan or a single statement on a table of its own.
Rendering (board pages, popup, toolbar, panels, the drawing of the icon), parsing of chat
text, configuration files, authentication tokens, installers, deployment and
scheduled tasks: none has state that interacts with the parts above.
