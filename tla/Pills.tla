-------------------------------- MODULE Pills --------------------------------
(* What the user sees of the jobs of a thread: each page that shows the     *)
(* conversation keeps a session job and, while it is of interest, a pill    *)
(* per job. Their status comes from four sides: the page's own dispatch,    *)
(* the worker's poll of the relay (which serves one page per job), the      *)
(* jobs stored by earlier pages, checked with the relay, and the page's own *)
(* sweep of pills nobody has reported on for minutes.                       *)
(*                                                                          *)
(* "open" stands for pending and running, "error" for cancelled too. The    *)
(* caps on stored jobs and live pills, the order of pills, their panels and *)
(* dropped jobs are left out, and so are interleaved changes of the stored  *)
(* list: a change of it is one step. Minutes of silence, and the minutes    *)
(* after which an ended pill goes, are longer than any request takes.       *)
EXTENDS Session

CONSTANTS
  Tabs,
  NoTab

ASSUME NoTabAssumption == NoTab \notin Tabs

VARIABLES
  row,      \* the relay's jobs, "none" before the dispatch
  stored,   \* chrome.storage.local: ccswThreadJobs of the thread
  page,     \* each tab's page
  toolbar,  \* the worker's toolbarJobs: the tab that is told of a job
  polled,   \* what a poll of jobs.php read and has not handed out yet
  loads,    \* tabs whose hydration has read storage, and what it read
  checks    \* ccsw-check-jobs-status requests and their answers

pillVars == <<may, row, stored, page, toolbar, polled, loads, checks>>

----------------------------------------------------------------------------
Open == {"open"}
Ended == {"done", "error"}
Statuses == {"none", "stale"} \cup Open \cup Ended
Lists == [Jobs -> Statuses]
Page == [shown : BOOLEAN, hydrated : BOOLEAN, session : Lists, pill : Lists]
Loads == [tab : Tabs, list : Lists]
Checks == [by : {"restore", "reap"}, tab : Tabs, jobs : SUBSET Jobs, said : Lists]

Of(t, calls) == {c \in calls : c.tab = t}
NoJobs == [j \in Jobs |-> "none"]
FreshPage == [shown |-> TRUE, hydrated |-> FALSE, session |-> NoJobs, pill |-> NoJobs]

(* updateSessionJobStatus: an error is not overwritten by the plainer done. *)
Moves(p, j, s) ==
  /\ p.session[j] # "none" /\ p.session[j] # s
  /\ ~ (p.session[j] = "error" /\ s = "done")
SessionTold(p, j, s) == IF Moves(p, j, s) THEN [p EXCEPT !.session[j] = s] ELSE p

\* updateStoredThreadJobStatus, for the jobs of S that were told something new.
StoredTold(p, S, said) ==
  [j \in Jobs |-> IF j \in S /\ stored[j] # "none" /\ Moves(p, j, said[j]) THEN said[j] ELSE stored[j]]

(* setJobBarStatus: the pill takes whatever it is told.                     *)
PillTold(p, j, s) ==
  IF p.pill[j] = "none" THEN p ELSE [p EXCEPT !.pill[j] = s]

(* addJobBar: a pill that is there stays as it is.                          *)
PillAdded(p, j, s) ==
  IF p.pill[j] # "none" THEN p ELSE [p EXCEPT !.pill[j] = s]

(* trackOpenJobsWithBackground, ccsw-track-jobs: the page becomes the one   *)
(* that is told of every open job of its thread.                            *)
OpenIn(p) == {j \in Jobs : p.session[j] \in Open}
Tracked(p, t) == [j \in Jobs |-> IF j \in OpenIn(p) THEN t ELSE toolbar[j]]

----------------------------------------------------------------------------
(* The relay.                                                               *)
RelayMoves(j) ==
  /\ \/ row[j] = "open" /\ \E s \in Ended : row' = [row EXCEPT ![j] = s]
     \/ row[j] = "open" /\ "stale" \in may /\ row' = [row EXCEPT ![j] = "stale"]
     \/ row[j] = "stale" /\ row' = [row EXCEPT ![j] = "open"]
  /\ UNCHANGED <<may, stored, page, toolbar, polled, loads, checks>>

\* status.php does not tell a cancelled or failed job from one that is done.
Plain(s) == IF s = "error" THEN "done" ELSE s

\* A job fell out of the batch of jobs.php, or the batch could not be read.
Unbatched == {"aged", "net"} \cap may # {}

\* Mutant: every status is status.php's, the text of the result is never read.
FoundPlain(j) == {Plain(row[j])}

(* What a status request finds: classifyJobStatus of the row in the batch,  *)
(* or status.php's word (fetchSingleJobStatus); nothing if both are away.   *)
Found(j) ==
  {row[j]}
  \cup (IF Unbatched THEN {Plain(row[j])} ELSE {})
  \cup (IF "net" \in may THEN {"none"} ELSE {})

----------------------------------------------------------------------------
(* A page dispatches a job: it gets its pill and is recorded                *)
(* (recordSessionJob), which may be what hydrates the page.                 *)
Hydrating(t, p) == IF p.hydrated THEN {} ELSE {[tab |-> t, list |-> stored]}

Dispatch(t, j) ==
  LET p == PillAdded([page[t] EXCEPT !.session[j] = "open"], j, "open") IN
  /\ page[t].shown /\ row[j] = "none"
  /\ row' = [row EXCEPT ![j] = "open"]
  /\ toolbar' = [toolbar EXCEPT ![j] = t]
  /\ loads' = loads \cup Hydrating(t, p)
  /\ page' = [page EXCEPT ![t] = [p EXCEPT !.hydrated = TRUE]]
  /\ stored' = [stored EXCEPT ![j] = "open"]
  /\ UNCHANGED <<may, polled, checks>>

(* hydrateSessionJobsForThread, when the page first knows its thread.       *)
HydratePage(t) ==
  /\ page[t].shown /\ ~ page[t].hydrated
  /\ page' = [page EXCEPT ![t].hydrated = TRUE]
  /\ loads' = loads \cup Hydrating(t, page[t])
  /\ UNCHANGED <<may, row, stored, toolbar, polled, checks>>

(* The stored jobs the page does not know join its session; those that were *)
(* open are asked about before they get a pill (restoreRunningJobBars).     *)
Merged(p, list) ==
  [p EXCEPT !.session =
    [j \in Jobs |-> IF p.session[j] = "none" THEN list[j] ELSE p.session[j]]]

Loaded(l) ==
  LET p == Merged(page[l.tab], l.list) IN
  /\ loads' = loads \ {l}
  /\ page' = [page EXCEPT ![l.tab] = p]
  /\ checks' = IF OpenIn(p) = {} THEN checks
               ELSE checks \cup {[by |-> "restore", tab |-> l.tab, jobs |-> OpenIn(p), said |-> NoJobs]}
  /\ UNCHANGED <<may, row, stored, toolbar, polled>>

(* The worker answers from what the relay says now (ccsw-check-jobs-status).*)
Answer(c) ==
  /\ c.said = NoJobs
  /\ \E said \in Lists :
       /\ \A j \in Jobs : said[j] \in IF j \in c.jobs THEN Found(j) ELSE {"none"}
       /\ checks' = (checks \ {c}) \cup {[c EXCEPT !.said = said]}
  /\ UNCHANGED <<may, row, stored, page, toolbar, polled, loads>>

\* An unanswered check: the worker is gone, or nothing was found.
Unanswered(c) == c.said = NoJobs /\ {"net", "worker"} \cap may # {}

\* The session as the answer leaves it; an unknown job keeps what was stored.
Said(c) == {j \in c.jobs : c.said[j] # "none"}
Corrected(p, c) ==
  [p EXCEPT !.session = [j \in Jobs |->
    IF j \in Said(c) THEN SessionTold(p, j, c.said[j]).session[j] ELSE p.session[j]]]

\* Mutant: only the jobs the answer names get their pills back.
RestoredIfNamed(c) ==
  LET p == Corrected(page[c.tab], c)
      back == {j \in Said(c) : p.session[j] \in Open}
      q == [p EXCEPT !.pill = [j \in Jobs |-> IF j \in back THEN p.session[j] ELSE p.pill[j]]] IN
  /\ c.by = "restore" /\ (c.said # NoJobs \/ Unanswered(c))
  /\ checks' = checks \ {c}
  /\ page' = [page EXCEPT ![c.tab] = q]
  /\ stored' = StoredTold(page[c.tab], Said(c), c.said)
  /\ toolbar' = Tracked(q, c.tab)
  /\ UNCHANGED <<may, row, polled, loads>>

Restored(c) ==
  LET p == Corrected(page[c.tab], c)
      back == {j \in c.jobs : p.session[j] \in Open}
      q == [p EXCEPT !.pill = [j \in Jobs |-> IF j \in back THEN p.session[j] ELSE p.pill[j]]] IN
  /\ c.by = "restore" /\ (c.said # NoJobs \/ Unanswered(c))
  /\ checks' = checks \ {c}
  /\ page' = [page EXCEPT ![c.tab] = q]
  /\ stored' = StoredTold(page[c.tab], Said(c), c.said)
  /\ toolbar' = Tracked(q, c.tab)
  /\ UNCHANGED <<may, row, polled, loads>>

----------------------------------------------------------------------------
(* pollToolbarJobs: one batch for every tracked job, without those that     *)
(* fell out of it; a job that ended is dropped once its page was told, a    *)
(* stale one is not. Polls may overlap when the relay is slow.              *)
Poll ==
  /\ polled = {} \/ "slow" \in may
  /\ \E batch \in {Jobs} \cup (IF "aged" \in may THEN SUBSET Jobs ELSE {}) :
       LET met == {j \in batch : toolbar[j] # NoTab /\ row[j] # "none"} IN
         /\ met # {}
         /\ polled' = polled \cup {[job |-> j, status |-> row[j]] : j \in met}
  /\ UNCHANGED <<may, row, stored, page, toolbar, loads, checks>>

Tell(m) ==
  LET t == toolbar[m.job]
      p == page[t] IN
  /\ polled' = polled \ {m}
  /\ IF t # NoTab /\ page[t].shown
     THEN /\ page' = [page EXCEPT ![t] = PillTold(SessionTold(p, m.job, m.status), m.job, m.status)]
          /\ stored' = StoredTold(p, {m.job}, [j \in Jobs |-> m.status])
          /\ toolbar' = [toolbar EXCEPT ![m.job] = IF m.status \in Ended THEN NoTab ELSE t]
     ELSE UNCHANGED <<page, stored, toolbar>>
  /\ UNCHANGED <<may, row, loads, checks>>

(* ccsw-wake: the result is on its way to the page; its text tells the end. *)
Wake(t, j) ==
  /\ row[j] \in Ended /\ page[t].shown /\ Moves(page[t], j, row[j])
  /\ page' = [page EXCEPT ![t] = SessionTold(page[t], j, row[j])]
  /\ stored' = StoredTold(page[t], {j}, row)
  /\ UNCHANGED <<may, row, toolbar, polled, loads, checks>>

----------------------------------------------------------------------------
(* The sweep (reapSilentPills).                                             *)

\* Five minutes without a word on a pill: its page is not the one that is told,
\* or the job fell out of the batch, or the relay is away.
Quiet(t) == polled = {} /\ Of(t, checks) = {}
Silent(t) ==
  {j \in Jobs : page[t].pill[j] \in Open /\ (toolbar[j] # t \/ Unbatched)}

Reap(t) ==
  /\ Quiet(t) /\ Silent(t) # {}
  /\ checks' = checks \cup {[by |-> "reap", tab |-> t, jobs |-> Silent(t), said |-> NoJobs]}
  /\ UNCHANGED <<may, row, stored, page, toolbar, polled, loads>>

Verdict(c, j) == IF c.said[j] = "none" THEN "stale" ELSE c.said[j]

\* Mutant: what the session knows already is not settled again.
SettledNews(p, c) ==
  {j \in c.jobs : p.pill[j] # "none" /\ Verdict(c, j) \notin Open /\ p.session[j] # Verdict(c, j)}

Settled(p, c) == {j \in c.jobs : p.pill[j] # "none" /\ Verdict(c, j) \notin Open}
(* A job the relay still runs is tracked again; one it has ended, or does   *)
(* not know, is settled, over whatever the pill was told meanwhile.         *)
Reaped(c) ==
  LET p == page[c.tab]
      alive == {j \in c.jobs : p.pill[j] # "none" /\ Verdict(c, j) \in Open}
      q == [p EXCEPT
              !.pill = [j \in Jobs |-> IF j \in Settled(p, c) THEN Verdict(c, j) ELSE p.pill[j]],
              !.session = [j \in Jobs |-> IF j \in Settled(p, c)
                            THEN SessionTold(p, j, Verdict(c, j)).session[j] ELSE p.session[j]]] IN
  /\ c.by = "reap" /\ (c.said # NoJobs \/ "net" \in may)
  /\ checks' = checks \ {c}
  /\ page' = [page EXCEPT ![c.tab] = q]
  /\ stored' = StoredTold(p, Settled(p, c), [j \in Jobs |-> Verdict(c, j)])
  /\ IF alive = {} THEN UNCHANGED toolbar ELSE toolbar' = Tracked(q, c.tab)
  /\ UNCHANGED <<may, row, polled, loads>>

\* The worker did not answer: nothing happens until the next sweep.
ReapFails(c) ==
  /\ c.by = "reap" /\ Unanswered(c)
  /\ checks' = checks \ {c}
  /\ UNCHANGED <<may, row, stored, page, toolbar, polled, loads>>

----------------------------------------------------------------------------
(* Pills come and go: the user closes and reopens them, ended ones expire.  *)
ClosePill(t, j) ==
  /\ "close" \in may /\ page[t].pill[j] # "none"
  /\ page' = [page EXCEPT ![t].pill[j] = "none"]
  /\ UNCHANGED <<may, row, stored, toolbar, polled, loads, checks>>

ReopenPill(t, j) ==
  /\ "close" \in may /\ page[t].pill[j] = "none" /\ page[t].session[j] # "none"
  /\ page' = [page EXCEPT ![t] = PillAdded(page[t], j, page[t].session[j])]
  /\ UNCHANGED <<may, row, stored, toolbar, polled, loads, checks>>

Expire(t, j) ==
  /\ page[t].pill[j] \in Ended \cup {"stale"} /\ Quiet(t)
  /\ page' = [page EXCEPT ![t].pill[j] = "none"]
  /\ UNCHANGED <<may, row, stored, toolbar, polled, loads, checks>>

----------------------------------------------------------------------------
\* A page is closed or left, and loaded again: what it had begun is gone.
LeavePage(t) ==
  /\ "reload" \in may /\ page[t].shown
  /\ page' = [page EXCEPT ![t] = [FreshPage EXCEPT !.shown = FALSE]]
  /\ loads' = loads \ Of(t, loads)
  /\ checks' = checks \ Of(t, checks)
  /\ UNCHANGED <<may, row, stored, toolbar, polled>>

LoadPage(t) ==
  /\ ~ page[t].shown
  /\ page' = [page EXCEPT ![t] = FreshPage]
  /\ UNCHANGED <<may, row, stored, toolbar, polled, loads, checks>>

RestartWorker ==
  /\ "worker" \in may
  /\ toolbar' = [j \in Jobs |-> NoTab]
  /\ polled' = {}
  /\ UNCHANGED <<may, row, stored, page, loads, checks>>

PillInit ==
  /\ may \in Settings
  /\ row = NoJobs /\ stored = NoJobs
  /\ page = [t \in Tabs |-> FreshPage]
  /\ toolbar = [j \in Jobs |-> NoTab]
  /\ polled = {} /\ loads = {} /\ checks = {}

PillNext ==
  \/ \E j \in Jobs : RelayMoves(j)
  \/ \E t \in Tabs : LeavePage(t) \/ LoadPage(t) \/ HydratePage(t) \/ Reap(t)
  \/ \E t \in Tabs, j \in Jobs :
       \/ Dispatch(t, j) \/ Wake(t, j)
       \/ ClosePill(t, j) \/ ReopenPill(t, j) \/ Expire(t, j)
  \/ Poll \/ RestartWorker
  \/ \E m \in polled : Tell(m)
  \/ \E l \in loads : Loaded(l)
  \/ \E c \in checks : Answer(c) \/ Restored(c) \/ Reaped(c) \/ ReapFails(c)

PillSpec == PillInit /\ [][PillNext]_pillVars

----------------------------------------------------------------------------
(* The worker's poll, the page's sweep and requests that are answered often *)
(* enough. Relay and jobs owe nothing.                                      *)
FairPillSpec ==
  /\ PillSpec
  /\ \A t \in Tabs :
       /\ SF_pillVars(Reap(t))
       /\ SF_pillVars(\E c \in Of(t, checks) : Answer(c))
       /\ SF_pillVars(\E c \in Of(t, checks) : c.said # NoJobs /\ (Reaped(c) \/ Restored(c)))
  /\ WF_pillVars(Poll)
  /\ \A j \in Jobs : WF_pillVars(\E m \in polled : m.job = j /\ Tell(m))

----------------------------------------------------------------------------
\* The variables have their types; a poll reads no job that is not there.
PillTypeOK ==
  /\ may \in Settings
  /\ row \in Lists /\ stored \in Lists
  /\ page \in [Tabs -> Page]
  /\ toolbar \in [Jobs -> Tabs \cup {NoTab}]
  /\ polled \subseteq [job : Jobs, status : Statuses \ {"none"}]
  /\ loads \subseteq Loads /\ checks \subseteq Checks

(* A job is shown as ended only if it has ended, and in no other way than   *)
(* it has, but for the plain end that status.php tells of a failed job when *)
(* it is asked in place of the batch (updateSessionJobStatus,               *)
(* setJobBarStatus, classifyJobStatus, fetchSingleJobStatus).               *)
EndsAreTrue ==
  \A t \in Tabs, j \in Jobs : \A s \in {page[t].session[j], page[t].pill[j]} \cap Ended :
    row[j] \in Ended /\ (s = row[j] \/ (Unbatched /\ s = Plain(row[j])))

(* A job that runs, and that the page knows to run, has a pill there once   *)
(* the page has restored its pills, unless the user closed it or the job    *)
(* was stale, in fact or for want of an answer, for a time                  *)
(* (restoreRunningJobBars, addJobBar, tryExpireTerminalPill, dispose).      *)
RunningJobsHavePills ==
  {"close", "stale", "net"} \cap may = {} =>
    \A t \in Tabs :
      Of(t, loads) = {} /\ Of(t, checks) = {} =>
        \A j \in OpenIn(page[t]) : row[j] \in Open => page[t].pill[j] # "none"

(* No pill spins for ever over a job that has ended, in whichever tab it is *)
(* and whoever was told of the end (reapSilentPills, pollToolbarJobs).      *)
PillsSettle ==
  <>[][~ RestartWorker /\ \A t \in Tabs : ~ LeavePage(t)]_pillVars
  => []<>(\A t \in Tabs, j \in Jobs : row[j] \in Ended => page[t].pill[j] \notin Open)
==============================================================================
