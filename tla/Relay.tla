------------------------------- MODULE Relay -------------------------------
(***************************************************************************)
(* The relay's job queue and repo locks: board/db.php and the endpoints    *)
(* job.php, poll.php, append.php, result.php, cancel.php, resume.php,      *)
(* heartbeat.php, clear_lock.php, clear_locks.php, tick.php, jobs.php and  *)
(* thread_states.php.                                                      *)
(*                                                                         *)
(* One BEGIN IMMEDIATE transaction is one step.  An endpoint that runs     *)
(* several of them is a request of a client: it leaves the transactions    *)
(* still to run in req[c].todo, and those of other requests come between.  *)
(*                                                                         *)
(* A timestamp column is modelled by its age, in units of Tick, which      *)
(* stops growing at Horizon, past every threshold it is compared with.     *)
(***************************************************************************)
EXTENDS Integers, Sequences, FiniteSets

CONSTANTS
  Threads, NoThread,    \* jobs.thread, and its NULL
  Repos,                \* locks.repo
  Machines, NoMachine,  \* jobs.machine, and its NULL
  Vm,                   \* the machine an untargeted job or poll stands for
  Dispatches,           \* the requests job.php may be sent
  Agents,               \* the ?machine= agents poll with, NoMachine if none
  Clients, Crons,       \* who sends requests; Crons send nothing but tick.php
  MaxJobs,              \* bound on the rows of the jobs table
  ForceReleasable,      \* the repos an operator may force-release
  StalePendingAfter, StaleResumeCutoff, AgentOfflineAfter,
  ReapSweepThrottle, WedgedReapMarginFloor,
  Horizon

NoJob  == 0
Never  == -1
JobIds == 1 .. MaxJobs
Age    == 0 .. Horizon

Dispatch == [thread : Threads \cup {NoThread}, repos : SUBSET Repos,
             target : Machines, silence : Nat]

\* The window after which a silent job is wedged: max(1.5 s, s + floor), where
\* an integer age reaches 1.5 s exactly when it reaches its ceiling.
WedgedWindow(s) ==
  LET scaled  == (3 * s + 1) \div 2
      floored == s + WedgedReapMarginFloor
  IN  IF scaled > floored THEN scaled ELSE floored

ASSUME NullAssumption ==
  /\ NoThread \notin Threads
  /\ NoMachine \notin Machines
  /\ Vm \in Machines
  /\ Agents \subseteq Machines \cup {NoMachine}
ASSUME BoundAssumption ==
  /\ MaxJobs \in Nat
  /\ Horizon \in Nat
  /\ WedgedReapMarginFloor \in Nat
ASSUME DispatchAssumption == Dispatches \subseteq Dispatch
ASSUME ReleasableAssumption == ForceReleasable \subseteq Repos
ASSUME HorizonAssumption ==
  /\ {StalePendingAfter, StaleResumeCutoff, AgentOfflineAfter,
      ReapSweepThrottle} \subseteq 0 .. (Horizon - 1)
  /\ \A d \in Dispatches : WedgedWindow(d.silence) <= Horizon

VARIABLES
  jobs,        \* jobs: the row of each id, status "none" for no row yet
  holder,      \* locks: the job_id that holds a repo, NoJob for no row
  waiters,     \* waiters: [repo, thread, age of requested_at]
  refires,     \* pending_refires: [repo, thread]
  wakes,       \* wakes: [thread, repo]
  heartbeats,  \* heartbeats: age of a machine's updated_at, Never for no row
  lastSweep,   \* reap_sweep_state.last_run_at, Never for NULL
  req          \* the request each client has under way

vars == <<jobs, holder, waiters, refires, wakes, heartbeats, lastSweep, req>>
lockVars == <<holder, waiters, refires, wakes>>

Live == {"pending", "running", "stale"}
Steps == {"stamp", "dead", "wedged", "orphaned", "stale", "claim", "resume"}

\* What the result column says of how the job ended.
Results == {"null", "posted", "cancelled", "lost", "wedged"}

\* Only created_at is compared while a job is queued and only updated_at while
\* it runs, so one age is enough: of created_at until a job is handed out or
\* ended, of updated_at from then on.

Job == [status  : Live \cup {"none", "done"},
        thread  : Threads \cup {NoThread},
        repos   : SUBSET Repos,               \* the repos its payload locks
        target  : Machines,
        machine : Machines \cup {NoMachine},
        silence : Nat,
        started : BOOLEAN,                    \* started_at IS NOT NULL
        cancel  : BOOLEAN,
        result  : Results,
        age     : Age]

NoRow == [status |-> "none", thread |-> NoThread, repos |-> {}, target |-> Vm,
          machine |-> NoMachine, silence |-> 0, started |-> FALSE,
          cancel |-> FALSE, result |-> "null", age |-> 0]

Idle == [machine |-> NoMachine, todo |-> << >>]

Init ==
  /\ jobs = [j \in JobIds |-> NoRow]
  /\ holder = [r \in Repos |-> NoJob]
  /\ waiters = {}
  /\ refires = {}
  /\ wakes = {}
  /\ heartbeats = [m \in Machines |-> Never]
  /\ lastSweep = Never
  /\ req = [c \in Clients \cup Crons |-> Idle]

-----------------------------------------------------------------------------
(* db.php: what the endpoints share.                                       *)

JobsWith(status) == {j \in JobIds : jobs[j].status = status}

\* wakeNextWaiter: the sets of rows it may pop for repo r, oldest first,
\* dropping the finished thread's own rows and stopping at the first other.
\* Rows of one age may come in either order.
Pops(r, finished) ==
  LET rows   == {w \in waiters : w.repo = r}
      others == {w \in rows : w.thread # finished}
  IN  IF others = {} THEN {rows}
      ELSE {P \in SUBSET rows :
              \E w \in others :
                /\ P \cap others = {w}
                /\ \A p \in P : p.age >= w.age
                /\ \A q \in rows \ P : q.age <= w.age}

Wake(rows) == {[thread |-> x.thread, repo |-> x.repo] : x \in rows}

\* The threads other than the holder's own whose rows were popped are woken.
WokenWaiters(popped) ==
  Wake({w \in popped : w.thread # jobs[holder[w.repo]].thread})

\* The rows of the freed repos' waiters that are popped, a choice per repo.
PopWaiters(freed, popped) ==
  LET owner(r) == jobs[holder[r]].thread
  IN  /\ \A r \in freed :
           {w \in popped : w.repo = r} \in Pops(r, owner(r))
      /\ \A w \in popped : w.repo \in freed
      /\ waiters' = waiters \ popped

\* wakePendingRefires: the drops that the release of these repos surfaces.
Dropped(freed) == {x \in refires : x.repo \in freed}

\* Mutant: the dropped threads' rows are cleared and nobody is told.
TellNobody(rows) == {}

\* A drop that carried no thread has nobody to wake.
Tell(rows) == Wake({x \in rows : x.thread # NoThread})

\* releaseLockAndWake for every job of J: frees their repos, wakes the next
\* waiter of each, and everyone who was dropped while it was locked.
ReleaseLockAndWake(J) ==
  LET freed == {r \in Repos : holder[r] \in J}
  IN  \E popped \in SUBSET waiters :
        /\ PopWaiters(freed, popped)
        /\ holder' = [r \in Repos |-> IF r \in freed THEN NoJob ELSE holder[r]]
        /\ refires' = refires \ Dropped(freed)
        /\ wakes' = wakes \cup WokenWaiters(popped) \cup Tell(Dropped(freed))

\* releaseRepoLock for every repo of R: no pending_refires here.
ReleaseRepoLock(R) ==
  \E popped \in SUBSET waiters :
    /\ PopWaiters(R, popped)
    /\ holder' = [r \in Repos |-> IF r \in R THEN NoJob ELSE holder[r]]
    /\ wakes' = wakes \cup WokenWaiters(popped)
    /\ UNCHANGED refires

\* Sets status 'done' on every job of J and releases what they hold.
Finish(J, result) ==
  /\ jobs' = [j \in JobIds |->
                IF j \in J
                THEN [jobs[j] EXCEPT !.status = "done", !.result = result,
                                     !.age = 0]
                ELSE jobs[j]]
  /\ ReleaseLockAndWake(J)

\* The status change of the jobs of J that a sweep or a resume makes; none of
\* them touches created_at.
SetStatus(J, status) ==
  jobs' = [j \in JobIds |->
             IF j \in J THEN [jobs[j] EXCEPT !.status = status] ELSE jobs[j]]

AgentDark(m) ==
  m = NoMachine \/ heartbeats[m] = Never \/ heartbeats[m] > AgentOfflineAfter

\* Mutant: a lost job is queued again instead of ended.
RequeueDeadJobs ==
  /\ SetStatus({j \in JobsWith("running") : /\ jobs[j].age > AgentOfflineAfter
                                            /\ AgentDark(jobs[j].machine)},
               "pending")
  /\ UNCHANGED lockVars

ReapDeadJobs ==
  Finish({j \in JobsWith("running") : /\ jobs[j].age > AgentOfflineAfter
                                      /\ AgentDark(jobs[j].machine)}, "lost")

\* Mutant: a job whose agent beats is never taken for wedged.
ReapWedgedIfDark ==
  Finish({j \in JobsWith("running") :
            /\ jobs[j].age >= WedgedWindow(jobs[j].silence)
            /\ AgentDark(jobs[j].machine)}, "wedged")

ReapWedgedJobs ==
  Finish({j \in JobsWith("running") :
            jobs[j].age >= WedgedWindow(jobs[j].silence)}, "wedged")

ReapOrphanedLocks == ReleaseLockAndWake(JobsWith("done")) /\ UNCHANGED jobs

\* Mutant: only the jobs of machines never heard of are staled.
ReapStaleUnheard ==
  SetStatus({j \in JobsWith("pending") :
               /\ jobs[j].age > StalePendingAfter
               /\ heartbeats[jobs[j].target] = Never}, "stale")

ReapStalePendingJobs ==
  SetStatus({j \in JobsWith("pending") :
               /\ jobs[j].age > StalePendingAfter
               /\ heartbeats[jobs[j].target] # Never}, "stale")

ResumeStaleJobs(m) ==
  SetStatus({j \in JobsWith("stale") : /\ jobs[j].age <= StaleResumeCutoff
                                       /\ jobs[j].target = m}, "pending")

-----------------------------------------------------------------------------
(* The endpoints that are a single transaction.                            *)

\* Mutant: one free repo among those requested is enough.
HeldIfAll(d) == IF \E r \in d.repos : holder[r] = NoJob THEN {} ELSE d.repos

HeldOf(d) == {r \in d.repos : holder[r] # NoJob}

\* job.php, 409: a requested repo is locked, nothing is queued.
JobPostLocked(d) ==
  /\ HeldOf(d) # {}
  /\ waiters' = waiters \cup
       {[repo |-> r, thread |-> d.thread, age |-> 0] :
          r \in {r \in HeldOf(d) :
                   /\ d.thread # NoThread
                   /\ d.thread # jobs[holder[r]].thread
                   /\ \A w \in waiters : <<w.repo, w.thread>> # <<r, d.thread>>}}
  /\ refires' = refires \cup
       {[repo |-> r, thread |-> d.thread] : r \in HeldOf(d)}
  /\ UNCHANGED <<jobs, holder, wakes, heartbeats, lastSweep, req>>

\* job.php, 200: the job is queued and holds all its repos from now on.
JobPost(d) ==
  /\ HeldOf(d) = {}
  /\ \E j \in JobsWith("none") :
       /\ \A i \in JobsWith("none") : j <= i
       /\ jobs' = [jobs EXCEPT ![j] =
                     [NoRow EXCEPT !.status = "pending", !.thread = d.thread,
                                   !.repos = d.repos, !.target = d.target,
                                   !.silence = d.silence]]
       /\ holder' = [r \in Repos |-> IF r \in d.repos THEN j ELSE holder[r]]
  /\ UNCHANGED <<waiters, refires, wakes, heartbeats, lastSweep, req>>

\* append.php: output streamed by an agent that was handed the job.
AppendPost(j) ==
  /\ jobs[j].started
  /\ jobs' = [jobs EXCEPT ![j].age =
                IF jobs[j].status = "running" THEN 0 ELSE @]
  /\ UNCHANGED <<lockVars, heartbeats, lastSweep, req>>

\* result.php POST, whatever status the job has by then.
ResultPost(j, m) ==
  /\ jobs[j].started
  /\ m \in {jobs[j].machine, NoMachine}
  /\ jobs' = [jobs EXCEPT ![j].status = "done", ![j].result = "posted",
                          ![j].age = 0,
                          ![j].machine = IF m # NoMachine THEN m ELSE @]
  /\ ReleaseLockAndWake({j})
  /\ UNCHANGED <<heartbeats, lastSweep, req>>

\* cancel.php POST: a pending job ends here, any other is only flagged.
CancelPending(j) ==
  /\ jobs[j].status = "pending"
  /\ jobs' = [jobs EXCEPT ![j].status = "done", ![j].result = "cancelled",
                          ![j].cancel = TRUE, ![j].age = 0]
  /\ ReleaseLockAndWake({j})
  /\ UNCHANGED <<heartbeats, lastSweep, req>>

CancelFlag(j) ==
  /\ jobs[j].status \in {"running", "stale"}
  /\ jobs' = [jobs EXCEPT ![j].cancel = TRUE,
                          ![j].age = IF jobs[j].started THEN 0 ELSE @]
  /\ UNCHANGED <<lockVars, heartbeats, lastSweep, req>>

\* resume.php: the manual Resume button.
ResumePost(j) ==
  /\ jobs[j].status = "stale"
  /\ SetStatus({j}, "pending")
  /\ UNCHANGED <<lockVars, heartbeats, lastSweep, req>>

\* clear_lock.php and clear_locks.php: the operator's escape hatch.
ClearLock(r) ==
  /\ holder[r] # NoJob
  /\ r \in ForceReleasable
  /\ ReleaseRepoLock({r})
  /\ UNCHANGED <<jobs, heartbeats, lastSweep, req>>

ClearLocks ==
  LET held == {r \in Repos : holder[r] # NoJob}
  IN  /\ held # {} /\ held \subseteq ForceReleasable
      /\ ReleaseRepoLock(held)
      /\ UNCHANGED <<jobs, heartbeats, lastSweep, req>>

\* wake.php POST: the extension confirms that a wake reached its chat.
WakeAck(w) ==
  /\ wakes' = wakes \ {w}
  /\ UNCHANGED <<jobs, holder, waiters, refires, heartbeats, lastSweep, req>>

-----------------------------------------------------------------------------
(* The endpoints that run several transactions.                            *)

FullSweep == <<"dead", "wedged", "orphaned", "stale">>

Begin(c, m, todo) ==
  /\ req[c] = Idle
  /\ req' = [req EXCEPT ![c] = [machine |-> m, todo |-> todo]]

\* poll.php: sweeps first, unless one ran within the throttle, then a claim.
PollGet(c, m) ==
  /\ Begin(c, m, IF lastSweep # Never /\ lastSweep < ReapSweepThrottle
                 THEN <<"claim">>
                 ELSE <<"stamp", "dead", "wedged", "orphaned", "stale",
                        "claim">>)
  /\ UNCHANGED <<jobs, lockVars, heartbeats, lastSweep>>

\* heartbeat.php POST: the upsert commits before the resume runs.
HeartbeatPost(c, m) ==
  /\ Begin(c, m, <<"resume">>)
  /\ heartbeats' = [heartbeats EXCEPT ![m] = 0]
  /\ UNCHANGED <<jobs, lockVars, lastSweep>>

\* tick.php, and jobs.php GET.
TickGet(c) ==
  /\ Begin(c, NoMachine, FullSweep)
  /\ UNCHANGED <<jobs, lockVars, heartbeats, lastSweep>>

\* thread_states.php GET.
ThreadStatesGet(c) ==
  /\ Begin(c, NoMachine, <<"dead", "stale">>)
  /\ UNCHANGED <<jobs, lockVars, heartbeats, lastSweep>>

\* The transaction a request runs next.
Doing(c, step) ==
  /\ req[c].todo # << >>
  /\ Head(req[c].todo) = step
  /\ req' = [req EXCEPT ![c] =
               IF Len(req[c].todo) = 1 THEN Idle
               ELSE [req[c] EXCEPT !.todo = Tail(@)]]

Stamp(c) ==
  /\ Doing(c, "stamp")
  /\ lastSweep' = 0
  /\ UNCHANGED <<jobs, lockVars, heartbeats>>

Sweep(c) ==
  /\ \/ Doing(c, "dead")     /\ ReapDeadJobs
     \/ Doing(c, "wedged")   /\ ReapWedgedJobs
     \/ Doing(c, "orphaned") /\ ReapOrphanedLocks
     \/ Doing(c, "stale")    /\ ReapStalePendingJobs /\ UNCHANGED lockVars
     \/ Doing(c, "resume")   /\ ResumeStaleJobs(req[c].machine)
                             /\ UNCHANGED lockVars
  /\ UNCHANGED <<heartbeats, lastSweep>>

\* What poll.php may hand to machine m: the pending jobs that target it.
Claimable(m) ==
  {j \in JobsWith("pending") :
     jobs[j].target = IF m = NoMachine THEN Vm ELSE m}

Claim(c) ==
  /\ Doing(c, "claim")
  /\ LET m    == req[c].machine
         next == {j \in Claimable(m) : \A i \in Claimable(m) : j <= i}
     IN  jobs' = [j \in JobIds |->
                    IF j \in next
                    THEN [jobs[j] EXCEPT !.status = "running", !.machine = m,
                                         !.started = TRUE, !.age = 0]
                    ELSE jobs[j]]
  /\ UNCHANGED <<lockVars, heartbeats, lastSweep>>

Run(c) == Stamp(c) \/ Sweep(c) \/ Claim(c)

-----------------------------------------------------------------------------
Older(age) == IF age = Horizon THEN age ELSE age + 1

\* Time passes.  Nothing here compares the age of a row that is done.
Tick ==
  /\ jobs' = [j \in JobIds |->
                IF jobs[j].status \in Live
                THEN [jobs[j] EXCEPT !.age = Older(@)] ELSE jobs[j]]
  /\ waiters' = {[w EXCEPT !.age = Older(@)] : w \in waiters}
  /\ heartbeats' = [m \in Machines |-> IF heartbeats[m] = Never THEN Never
                                       ELSE Older(heartbeats[m])]
  /\ lastSweep' = IF lastSweep = Never THEN Never ELSE Older(lastSweep)
  /\ UNCHANGED <<holder, refires, wakes, req>>

Next ==
  \/ \E d \in Dispatches : JobPostLocked(d) \/ JobPost(d)
  \/ \E j \in JobIds :
       \/ AppendPost(j)
       \/ \E m \in Machines \cup {NoMachine} : ResultPost(j, m)
       \/ CancelPending(j)
       \/ CancelFlag(j)
       \/ ResumePost(j)
  \/ \E r \in Repos : ClearLock(r)
  \/ ClearLocks
  \/ \E w \in wakes : WakeAck(w)
  \/ \E c \in Clients :
       \/ \E m \in Agents : PollGet(c, m)
       \/ \E m \in Agents \ {NoMachine} : HeartbeatPost(c, m)
       \/ ThreadStatesGet(c)
  \/ \E c \in Clients \cup Crons : TickGet(c) \/ Run(c)
  \/ Tick

Spec == Init /\ [][Next]_vars

\* Time passes, and cron requests tick.php again and again.
FairSpec ==
  /\ Spec
  /\ WF_vars(Tick)
  /\ \A c \in Crons : WF_vars(TickGet(c)) /\ WF_vars(Run(c))

-----------------------------------------------------------------------------
(* What the relay promises.                                                *)

\* Every row has the columns the schema gives it.
TypeOK ==
  /\ jobs \in [JobIds -> Job]
  /\ holder \in [Repos -> JobIds \cup {NoJob}]
  /\ waiters \subseteq [repo : Repos, thread : Threads, age : Age]
  /\ refires \subseteq [repo : Repos, thread : Threads \cup {NoThread}]
  /\ wakes \subseteq [thread : Threads, repo : Repos]
  /\ heartbeats \in [Machines -> Age \cup {Never}]
  /\ lastSweep \in Age \cup {Never}
  /\ req \in [Clients \cup Crons ->
                [machine : Machines \cup {NoMachine},
                 todo    : Seq(Steps)]]

\* A lock belongs to a job that is still pending, running or stale and that
\* asked for the repo: whatever ends a job releases its locks in the same
\* transaction, so reapOrphanedLocks is the backstop it is meant to be.
LocksAreLive ==
  \A r \in Repos : holder[r] # NoJob =>
    /\ jobs[holder[r]].status \in Live
    /\ r \in jobs[holder[r]].repos

\* A job holds every repo it asked for from dispatch to its end, however often
\* it is staled and resumed meanwhile, unless an operator takes one away.
LiveJobsHoldTheirRepos ==
  \A j \in JobIds : jobs[j].status \in Live =>
    \A r \in jobs[j].repos \ ForceReleasable : holder[r] = j

\* RELAY-PROTOCOL.md section 10: at most one non-readonly job per repo.
MutualExclusion ==
  \A i, j \in JobIds :
    /\ jobs[i].status \in Live
    /\ jobs[j].status \in Live
    /\ (jobs[i].repos \cap jobs[j].repos) \ ForceReleasable # {}
    => i = j

\* A drop is remembered only while its repo is locked, so that the release that
\* will surface it is still to come.
DropsAwaitARelease ==
  \A x \in refires : x.repo \notin ForceReleasable => holder[x.repo] # NoJob

\* What the relay promises of its locks: no lock outlives its job, no live job is
\* without its locks, no repo has two live jobs, and no drop is left behind a repo
\* that nobody will release.
LockDiscipline ==
  /\ LocksAreLive
  /\ LiveJobsHoldTheirRepos
  /\ MutualExclusion
  /\ DropsAwaitARelease

\* A thread whose dispatch was dropped is told: its pending_refires row goes
\* only when a wake for that thread and repo is in place, and a wake goes only
\* because it was acknowledged, never with a release.
DropsAreSurfaced ==
  [][\A x \in refires \ refires' :
       x.thread # NoThread =>
         /\ holder'[x.repo] = NoJob
         /\ [thread |-> x.thread, repo |-> x.repo] \in wakes']_vars

\* RELAY-PROTOCOL.md section 10: at-most-once, no redelivery.  A job that was
\* handed to an agent is never queued again, by any sweep, resume or heartbeat.
HandedOutOnce ==
  [][\A j \in JobIds :
       jobs[j].started => /\ jobs'[j].started
                          /\ jobs'[j].status \in {"running", "done"}]_vars

\* A job that is handed out and no longer heard of does not hold its repos for
\* ever: a running job produces output again and again, or it ends.
SilentJobsEnd ==
  \A j \in JobIds : []<>(jobs[j].status # "running" \/ jobs[j].age = 0)

\* A queued job that nobody takes is marked stale and stays visible as such, if
\* its machine has ever been heard of.
UnclaimedJobsGoStale ==
  \A j \in JobIds :
    []<>~( /\ jobs[j].status = "pending"
           /\ heartbeats[jobs[j].target] # Never
           /\ jobs[j].age = Horizon )

\* A job as the protocol document sees it: a stale job is still queued.
QueueState ==
  [j \in JobIds |-> CASE jobs[j].status = "none"    -> "none"
                      [] jobs[j].status = "running" -> "handed"
                      [] jobs[j].status = "done"    -> "ended"
                      [] OTHER                      -> "queued"]
QueueNeeds == [j \in JobIds |-> jobs[j].repos \ ForceReleasable]

Queue == INSTANCE JobQueue WITH
  Repos <- Repos \ ForceReleasable, state <- QueueState, needs <- QueueNeeds

\* The relay is the job queue RELAY-PROTOCOL.md sections 4 and 10 promise, for the
\* repos no operator force-releases: handed out at most once, ended once, and
\* alone on its repos from dispatch to end.
IsAJobQueue == Queue!Spec

=============================================================================
