------------------------------- MODULE Favicon -------------------------------
(* The tab's icon (fv2): it shows how the latest of the session's jobs does *)
(* and whether claude.ai is writing, beside or in place of the page's own   *)
(* icons. Its writes are floored to one in 500 ms, the last of a burst      *)
(* trailing; one timer animates or reasserts it; a fight with the page over *)
(* the links of the head turns it off for good.                            *)
(*                                                                          *)
(* Frames of an animation are one icon. The animations' own budgets, which  *)
(* a timer that is alone cannot exhaust, are left out: a fault stands for   *)
(* their way out. The caps on the session's jobs are left out too.          *)
EXTENDS Session, Integers, Sequences, FiniteSets, SequencesExt

CONSTANTS
  Icons,       \* the page's icon links
  WriteLimit   \* FV2_BREAKER_LIMIT

ASSUME LimitAssumption == WriteLimit \in Nat /\ IsFiniteSet(Icons)

VARIABLES
  log,      \* sessionJobs in the order of their times
  status,   \* what each of them is at
  talking,  \* the page shows a Stop button: claude.ai is generating
  watch,    \* idle ticks of the open output record, or "none"
  enabled,  \* faviconIndicatorEnabled
  displace, \* fv2DisplaceEnabled
  wanted,   \* the icons the page would have in its head
  fav       \* the indicator and the head it writes to

iconVars == <<may, log, status, talking, watch, enabled, displace, wanted, fav>>
session == <<log, status>>

----------------------------------------------------------------------------
\* A session holds jobs and, under an id of their own, deliveries of results.
Delivery(j) == <<"pd", j>>
Ids == Jobs \cup {Delivery(j) : j \in Jobs}
JobStatuses == {"none", "running", "dropped", "error", "done", "stale", "delivered", "parked"}
States == {"none", "running", "outputting", "waiting", "success", "error"}
Shown == {"none", "spin", "ring", "waiting", "success", "error"}

Fav == [state : States, broken : BOOLEAN, own : Shown, last : BOOLEAN,
        links : SUBSET Icons, captured : BOOLEAN, saved : SUBSET Icons,
        hot : BOOLEAN, pending : Shown, due : BOOLEAN, tick : BOOLEAN,
        recent : 0 .. WriteLimit,
        frames : {"unasked", "loading", "ready", "failed"}, still : BOOLEAN]

----------------------------------------------------------------------------
(* What the icon should say: the latest job by time, unless claude.ai is    *)
(* writing and no job runs (updateFaviconForJobState).                      *)
OfLatest(ids, st) ==
  IF ids = <<>> THEN "none"
  ELSE CASE st[Last(ids)] = "running" -> "running"
         [] st[Last(ids)] = "dropped" -> "waiting"
         [] st[Last(ids)] = "error"   -> "error"
         [] OTHER                     -> "success"

Target(ids, st, w) ==
  IF w # "none" /\ OfLatest(ids, st) # "running" THEN "outputting" ELSE OfLatest(ids, st)

Cycling(f) ==
  \/ f.state = "running" /\ ~ f.still /\ f.frames = "ready"
  \/ f.state = "outputting"

\* fv2HrefForState: frames that are not there yet show the waiting dot.
Href(f) ==
  CASE f.state = "outputting" -> "ring"
    [] f.state = "running"    -> IF Cycling(f) THEN "spin" ELSE "waiting"
    [] OTHER                  -> f.state

\* fv2BuildSpinnerFrames, asked for once; a failed build stills the spinner.
Asked(f) ==
  IF f.state # "running" \/ f.still THEN f
  ELSE [f EXCEPT !.frames = IF @ = "unasked" THEN "loading" ELSE @,
                 !.still = f.frames = "failed"]

----------------------------------------------------------------------------
(* The ways to the head.                                                    *)

\* Mutant: the saved icons are not given back when the indicator gives up.
DisabledHolding(f) ==
  [f EXCEPT !.broken = TRUE, !.tick = FALSE, !.pending = "none", !.due = FALSE, !.own = "none"]

(* fv2Disable: off for the rest of the page's life.                         *)
Disabled(f) ==
  [f EXCEPT !.broken = TRUE, !.tick = FALSE, !.pending = "none", !.due = FALSE,
            !.links = @ \cup f.saved, !.saved = {}, !.captured = FALSE, !.own = "none"]

\* The breaker, over a minute, and the ceiling, over five: one budget here.
Counted(f, n) ==
  LET g == [f EXCEPT !.recent = @ + n] IN
  IF g.recent > WriteLimit THEN Disabled([g EXCEPT !.recent = 0]) ELSE g

(* fv2RawWrite, fv2DoApply: nothing is written or counted if it is there.   *)
Written(f, href) == [f EXCEPT !.own = href, !.last = TRUE]
DoApply(f, href) ==
  IF f.own = href /\ f.last THEN f ELSE Counted(Written(f, href), 1)

(* fv2Apply: within the rate floor the write waits for its end.             *)
Apply(f, href) ==
  IF f.broken THEN f
  ELSE IF f.hot THEN [f EXCEPT !.pending = href]
  ELSE DoApply([f EXCEPT !.hot = TRUE], href)

\* fv2RemoveCompetitors: each link that goes is a write.
Removed(f) ==
  IF f.links = {} THEN f ELSE Counted([f EXCEPT !.links = {}], Cardinality(f.links))

\* fv2CaptureCompetitors: once per activation.
Captured(f) ==
  IF f.captured THEN f ELSE Removed([f EXCEPT !.captured = TRUE, !.saved = f.links])

----------------------------------------------------------------------------
\* Mutant: the trailing write survives the icon's removal.
ClearedOnly(f) ==
  [f EXCEPT !.state = "none", !.tick = FALSE, !.own = "none",
            !.links = @ \cup f.saved, !.saved = {}, !.captured = FALSE]

(* fv2SetState(null): the icon steps aside and the page's come back.        *)
Cleared(f) ==
  [f EXCEPT !.state = "none", !.tick = FALSE, !.own = "none", !.pending = "none", !.due = FALSE,
            !.links = @ \cup f.saved, !.saved = {}, !.captured = FALSE]

(* fv2SetState: a new state displaces the page's icons, if that is on, and  *)
(* is written; the one timer starts if it does not run.                     *)
SetState(f, s) ==
  LET g == IF displace THEN Captured([f EXCEPT !.state = s]) ELSE [f EXCEPT !.state = s]
      h == Apply(Asked(g), Href(Asked(g))) IN
  CASE f.broken \/ f.state = s -> f
    [] s = "none" /\ ~ f.broken /\ f.state # s -> Cleared(f)
    [] OTHER -> IF g.broken \/ h.broken THEN IF g.broken THEN g ELSE h
                ELSE [h EXCEPT !.tick = TRUE]

(* updateFaviconForJobState: what the session and the watcher say now; with *)
(* the indicator off it does nothing at all.                                *)
Update == IF enabled' THEN fav' = SetState(fav, Target(log', status', watch')) ELSE fav' = fav

----------------------------------------------------------------------------
(* The session's jobs.                                                      *)
Known(id) == \E k \in DOMAIN log : log[k] = id

\* recordSessionJob, recordDroppedSessionJob
Record(j) ==
  /\ ~ Known(j)
  /\ log' = Append(log, j)
  /\ \E s \in {"running", "dropped"} : status' = [status EXCEPT ![j] = s]
  /\ UNCHANGED <<may, talking, watch, enabled, displace, wanted>>
  /\ Update

\* hydrateSessionJobsForThread: a stored job, older than those of the page.
Hydrate(j) ==
  /\ "hydrate" \in may /\ ~ Known(j)
  /\ log' = <<j>> \o log
  /\ \E s \in {"running", "error", "done"} : status' = [status EXCEPT ![j] = s]
  /\ UNCHANGED <<may, talking, watch, enabled, displace, wanted>>
  /\ Update

\* updateSessionJobStatus
Told(j) ==
  /\ status[j] = "running"
  /\ \E s \in {"error", "done", "stale"} : status' = [status EXCEPT ![j] = s]
  /\ UNCHANGED log
  /\ UNCHANGED <<may, talking, watch, enabled, displace, wanted>>
  /\ Update

(* recordPendingDeliverySessionJob: how the delivery of a result went, a    *)
(* row of its own. One that was parked and lands after all becomes the      *)
(* latest row, and the icon is not told.                                    *)
Delivered(j) ==
  LET id == Delivery(j) IN
  /\ "results" \in may /\ status[j] \in {"error", "done"}
  /\ UNCHANGED <<may, talking, watch, enabled, displace, wanted>>
  /\ IF Known(id)
     THEN /\ status[id] = "parked"
          /\ log' = Append(SelectSeq(log, LAMBDA k : k # id), id)
          /\ status' = [status EXCEPT ![id] = "delivered"]
          /\ UNCHANGED fav
     ELSE /\ log' = Append(log, id)
          /\ \E s \in {"delivered"} \cup (IF "park" \in may THEN {"parked"} ELSE {}) :
               status' = [status EXCEPT ![id] = s]
          /\ Update

\* removeSessionJob: a dropped job is fired again; its new row is recorded apart.
RemoveSessionJob(j) ==
  /\ "refire" \in may /\ status[j] = "dropped"
  /\ log' = SelectSeq(log, LAMBDA k : k # j)
  /\ status' = [status EXCEPT ![j] = "none"]
  /\ UNCHANGED <<may, talking, watch, enabled, displace, wanted, fav>>

----------------------------------------------------------------------------
(* claude.ai writes, and the watcher's tick: a record opens on the first    *)
(* tick that sees it and ends on the second that does not.                  *)
Talk ==
  /\ "talk" \in may
  /\ talking' = ~ talking
  /\ UNCHANGED <<may, log, status, watch, enabled, displace, wanted, fav>>

OutputWatchTick ==
  /\ watch' = CASE talking -> "first"
                [] ~ talking /\ watch = "first" -> "idle"
                [] OTHER -> "none"
  /\ UNCHANGED session
  /\ UNCHANGED <<may, talking, enabled, displace, wanted>>
  /\ IF (watch = "none") # (watch' = "none") THEN Update ELSE UNCHANGED fav

----------------------------------------------------------------------------
(* Settings: setFaviconIndicatorEnabled, setFaviconDisplaceEnabled and, in  *)
(* the other tabs, storage.onChanged.                                       *)
ToggleIndicator ==
  /\ "off" \in may
  /\ enabled' = ~ enabled
  /\ UNCHANGED <<session, watch>>
  /\ UNCHANGED <<may, talking, displace, wanted>>
  /\ Update

ToggleDisplace ==
  /\ "displace" \in may
  /\ displace' = ~ displace
  /\ UNCHANGED <<may, log, status, talking, watch, enabled, wanted, fav>>

(* The page puts its icons back, or rewrites its head with other ones.      *)
PageReasserts ==
  /\ "fight" \in may
  /\ fav' = [fav EXCEPT !.links = wanted, !.last = FALSE]
  /\ UNCHANGED <<may, log, status, talking, watch, enabled, displace, wanted>>

PageRewrites ==
  /\ "rewrite" \in may
  /\ \E icons \in SUBSET Icons :
       /\ wanted' = icons
       /\ fav' = [fav EXCEPT !.links = icons, !.own = "none", !.last = FALSE]
  /\ UNCHANGED <<may, log, status, talking, watch, enabled, displace>>

----------------------------------------------------------------------------
(* Timers.                                                                  *)
only == <<may, log, status, talking, watch, enabled, displace, wanted>>

\* 500 ms since the last write: what waits is due, and may still come late.
Cool ==
  /\ fav.hot
  /\ fav' = [fav EXCEPT !.hot = FALSE, !.due = fav.pending # "none"]
  /\ UNCHANGED only

FirePending ==
  /\ fav.due
  /\ fav' = DoApply([fav EXCEPT !.hot = TRUE, !.pending = "none", !.due = FALSE], fav.pending)
  /\ UNCHANGED only

\* The budget's window slides on.
Forget ==
  /\ fav.recent > 0
  /\ fav' = [fav EXCEPT !.recent = @ - 1]
  /\ UNCHANGED only

\* The logo is decoded and drawn, or cannot be.
FramesCome ==
  /\ fav.frames = "loading"
  /\ \E r \in {"ready", "failed"} : fav' = [fav EXCEPT !.frames = r]
  /\ UNCHANGED only

\* fv2AdvanceSpinner, fv2AdvanceOrbit; a fault stills the animation.
Advanced(f) ==
  {Written(f, Href(f))}
  \cup (IF "fault" \in may /\ f.state = "running" THEN {Apply([f EXCEPT !.still = TRUE], "waiting")} ELSE {})

\* Mutant: a still icon is not written again.
StepOnce(f) == IF Cycling(f) THEN Advanced(f) ELSE {Asked(f)}

Step(f) == IF Cycling(f) THEN Advanced(f) ELSE {Apply(Asked(f), Href(Asked(f)))}

(* fv2Tick: a frame, or a reassertion; the icons the page put back go; and  *)
(* the next tick is set, unless that was one write too many.                *)
Tick ==
  /\ fav.tick
  /\ \E f \in Step([fav EXCEPT !.tick = FALSE]) :
       LET g == IF displace /\ ~ f.broken THEN Removed(f) ELSE f IN
       fav' = IF g.broken THEN g ELSE [g EXCEPT !.tick = TRUE]
  /\ UNCHANGED only

----------------------------------------------------------------------------
IconInit ==
  /\ may \in Settings
  /\ log = <<>> /\ status = [id \in Ids |-> "none"]
  /\ talking = FALSE /\ watch = "none"
  /\ enabled = TRUE /\ displace \in BOOLEAN
  /\ wanted = Icons
  /\ fav = [state |-> "none", broken |-> FALSE, own |-> "none", last |-> FALSE,
            links |-> Icons, captured |-> FALSE, saved |-> {},
            hot |-> FALSE, pending |-> "none", due |-> FALSE, tick |-> FALSE,
            recent |-> 0, frames |-> "unasked", still |-> FALSE]

IconNext ==
  \/ \E j \in Jobs : Record(j) \/ Hydrate(j) \/ Told(j) \/ Delivered(j) \/ RemoveSessionJob(j)
  \/ Talk \/ OutputWatchTick
  \/ ToggleIndicator \/ ToggleDisplace
  \/ PageReasserts \/ PageRewrites
  \/ Cool \/ FirePending \/ Forget \/ FramesCome \/ Tick

IconSpec == IconInit /\ [][IconNext]_iconVars

(* Timers fire.                                                             *)
FairIconSpec ==
  /\ IconSpec
  /\ WF_iconVars(OutputWatchTick)
  /\ WF_iconVars(Cool) /\ WF_iconVars(FirePending) /\ WF_iconVars(Tick)

----------------------------------------------------------------------------
\* The variables have their types (log is a sequence of Ids).
IconTypeOK ==
  /\ may \in Settings
  /\ status \in [Ids -> JobStatuses]
  /\ talking \in BOOLEAN /\ watch \in {"none", "first", "idle"}
  /\ enabled \in BOOLEAN /\ displace \in BOOLEAN
  /\ wanted \subseteq Icons
  /\ fav \in Fav

(* While the icon shows something its one timer is set, and once it does    *)
(* not, or has given up, no timer and no waiting write can bring it back    *)
(* (fv2SetState, fv2Tick, fv2Apply, fv2Disable).                            *)
TimersMatchState ==
  /\ fav.tick <=> fav.state # "none" /\ ~ fav.broken
  /\ fav.due => fav.pending # "none"
  /\ fav.state = "none" \/ fav.broken => fav.own = "none" /\ fav.pending = "none"

(* Once the indicator steps aside, or gives up, the page has the icons it   *)
(* had, even if it fought for them, provided it wants no others since and   *)
(* displacement was not switched meanwhile (fv2CaptureCompetitors,          *)
(* fv2RemoveCompetitors, fv2RestoreCompetitors).                            *)
PageIconsReturn ==
  {"rewrite", "displace"} \cap may = {} /\ (fav.state = "none" \/ fav.broken)
    => fav.links = wanted

(* When only timers are left to run, the icon comes to show the latest job, *)
(* or that claude.ai writes, and stays so, or is gone for good: no late     *)
(* write, page that took the head, or frame that came late, leaves another. *)
(* A delivery that lands late and a job fired again are not told            *)
(* (fv2Apply, fv2Tick, outputWatchTick, updateFaviconForJobState).          *)
Timers == OutputWatchTick \/ Cool \/ FirePending \/ Forget \/ FramesCome \/ Tick
IconSettles ==
  {"park", "refire", "off"} \cap may = {} =>
    (<>[][Timers]_iconVars =>
       <>[](fav.broken \/ /\ fav.state = Target(log, status, watch)
                          /\ fav.own = (IF fav.state = "none" THEN "none" ELSE Href(fav))
                          /\ talking <=> watch # "none"))
=============================================================================
