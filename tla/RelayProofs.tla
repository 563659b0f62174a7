---------------------------- MODULE RelayProofs ----------------------------
(* Proofs about Relay, for every value of its constants.                   *)
EXTENDS Relay, TLAPS

USE DEF NoJob, Never, JobIds, lockVars

\* A job that was handed to an agent is running or done.
StartedJobsRunOrEnded ==
  \A j \in JobIds : jobs[j].started => jobs[j].status \in {"running", "done"}

-----------------------------------------------------------------------------
(* Type correctness.                                                       *)

\* The empty row is a row.
LEMMA NoRowType == NoRow \in Job
BY NullAssumption, BoundAssumption DEF NoRow, Job, Live, Results, Age

\* Releasing locks keeps the four lock tables well typed.
LEMMA ReleaseType ==
  ASSUME TypeOK, NEW J, ReleaseLockAndWake(J)
  PROVE  /\ holder' \in [Repos -> JobIds \cup {NoJob}]
         /\ waiters' \subseteq [repo : Repos, thread : Threads, age : Age]
         /\ refires' \subseteq [repo : Repos, thread : Threads \cup {NoThread}]
         /\ wakes' \subseteq [thread : Threads, repo : Repos]
BY DEF TypeOK, ReleaseLockAndWake, PopWaiters, WokenWaiters, Tell, Wake, Dropped

\* Force-releasing repos keeps them well typed too.
LEMMA ReleaseRepoType ==
  ASSUME TypeOK, NEW R, ReleaseRepoLock(R)
  PROVE  /\ holder' \in [Repos -> JobIds \cup {NoJob}]
         /\ waiters' \subseteq [repo : Repos, thread : Threads, age : Age]
         /\ refires' \subseteq [repo : Repos, thread : Threads \cup {NoThread}]
         /\ wakes' \subseteq [thread : Threads, repo : Repos]
BY DEF TypeOK, ReleaseRepoLock, PopWaiters, WokenWaiters, Wake

\* A fresh timestamp has an age.
LEMMA ZeroAge == 0 \in Age
BY BoundAssumption DEF Age

\* A row that ends stays well typed.
LEMMA EndedRowType ==
  ASSUME NEW x \in Job, NEW result \in Results
  PROVE  [x EXCEPT !.status = "done", !.result = result, !.age = 0] \in Job
BY ZeroAge DEF Job

\* A sweep that ends jobs keeps the jobs table well typed.
LEMMA FinishType ==
  ASSUME TypeOK, NEW J, NEW result \in Results, Finish(J, result)
  PROVE  jobs' \in [JobIds -> Job]
<1>1. ASSUME NEW j \in JobIds
      PROVE  jobs'[j] \in Job
  <2>1. jobs[j] \in Job
    BY DEF TypeOK
  <2>2. jobs'[j] \in {jobs[j], [jobs[j] EXCEPT !.status = "done",
                                 !.result = result, !.age = 0]}
    BY DEF Finish
  <2>. QED
    BY <2>1, <2>2, EndedRowType
<1>. QED
  BY <1>1 DEF Finish

\* So does one that moves jobs between queue states.
LEMMA SetStatusType ==
  ASSUME TypeOK, NEW J, NEW status \in Live, SetStatus(J, status)
  PROVE  jobs' \in [JobIds -> Job]
BY DEF TypeOK, SetStatus, Job

\* So is the row that job.php inserts.
LEMMA NewRowType ==
  ASSUME NEW d \in Dispatch
  PROVE  [NoRow EXCEPT !.status = "pending", !.thread = d.thread,
                       !.repos = d.repos, !.target = d.target,
                       !.silence = d.silence] \in Job
<1>1. /\ d.thread \in Threads \cup {NoThread}
      /\ d.repos \in SUBSET Repos
      /\ d.target \in Machines
      /\ d.silence \in Nat
  BY DEF Dispatch
<1>. QED
  BY <1>1, NoRowType DEF Job, Live

\* Starting a request and running its next transaction keep req well typed.
LEMMA BeginType ==
  ASSUME TypeOK, NEW c \in Clients \cup Crons,
         NEW m \in Machines \cup {NoMachine}, NEW todo \in Seq(Steps),
         Begin(c, m, todo)
  PROVE  req' \in [Clients \cup Crons ->
                     [machine : Machines \cup {NoMachine}, todo : Seq(Steps)]]
BY DEF TypeOK, Begin

\* Running the next transaction of a request leaves a request.
LEMMA DoingType ==
  ASSUME TypeOK, NEW c \in Clients \cup Crons, NEW step, Doing(c, step)
  PROVE  req' \in [Clients \cup Crons ->
                     [machine : Machines \cup {NoMachine}, todo : Seq(Steps)]]
<1>1. Idle \in [machine : Machines \cup {NoMachine}, todo : Seq(Steps)]
  BY DEF Idle
<1>2. /\ req[c].machine \in Machines \cup {NoMachine}
      /\ req[c].todo \in Seq(Steps)
      /\ req[c].todo # << >>
  BY DEF TypeOK, Doing
<1>3. Tail(req[c].todo) \in Seq(Steps)
  BY <1>2
<1>4. [req[c] EXCEPT !.todo = Tail(@)]
        \in [machine : Machines \cup {NoMachine}, todo : Seq(Steps)]
  BY <1>2, <1>3 DEF TypeOK
<1>. QED
  BY <1>1, <1>4 DEF TypeOK, Doing

\* Ageing stays below the horizon.
LEMMA OlderType == \A age \in Age : Older(age) \in Age
BY BoundAssumption DEF Age, Older

\* The schema creates tables of the right type.
THEOREM InitType == Init => TypeOK
<1>1. Idle \in [machine : Machines \cup {NoMachine}, todo : Seq(Steps)]
  BY DEF Idle
<1>. QED
  BY <1>1, NoRowType DEF Init, TypeOK

\* Every transaction keeps the database well typed.
THEOREM NextType == TypeOK /\ [Next]_vars => TypeOK'
<1> SUFFICES ASSUME TypeOK, [Next]_vars
             PROVE  TypeOK'
  OBVIOUS
<1>1. ASSUME NEW d \in Dispatches, JobPostLocked(d)
      PROVE  TypeOK'
  <2>1. d \in Dispatch
    BY DispatchAssumption
  <2>2. d.thread \in Threads \cup {NoThread} /\ HeldOf(d) \subseteq Repos
    BY <2>1 DEF Dispatch, HeldOf
  <2>3. waiters' \subseteq [repo : Repos, thread : Threads, age : Age]
    BY <1>1, <2>2, ZeroAge DEF JobPostLocked, TypeOK
  <2>4. refires' \subseteq [repo : Repos, thread : Threads \cup {NoThread}]
    BY <1>1, <2>2 DEF JobPostLocked, TypeOK
  <2>. QED
    BY <1>1, <2>3, <2>4 DEF JobPostLocked, TypeOK
<1>2. ASSUME NEW d \in Dispatches, JobPost(d)
      PROVE  TypeOK'
  <2>1. PICK j \in JobsWith("none") :
          /\ jobs' = [jobs EXCEPT ![j] =
                        [NoRow EXCEPT !.status = "pending", !.thread = d.thread,
                                      !.repos = d.repos, !.target = d.target,
                                      !.silence = d.silence]]
          /\ holder' = [r \in Repos |-> IF r \in d.repos THEN j ELSE holder[r]]
    BY <1>2 DEF JobPost
  <2>2. j \in JobIds /\ d \in Dispatch
    BY DispatchAssumption DEF JobsWith
  <2>3. jobs' \in [JobIds -> Job]
    BY <2>1, <2>2, NewRowType DEF TypeOK
  <2>4. holder' \in [Repos -> JobIds \cup {NoJob}]
    BY <2>1, <2>2 DEF TypeOK
  <2>. QED
    BY <1>2, <2>3, <2>4 DEF JobPost, TypeOK
<1>3. ASSUME NEW j \in JobIds, AppendPost(j)
      PROVE  TypeOK'
  <2>1. jobs' \in [JobIds -> Job]
    <3>1. jobs' = [jobs EXCEPT ![j] = [jobs[j] EXCEPT !.age =
                     IF jobs[j].status = "running" THEN 0 ELSE jobs[j].age]]
      BY <1>3 DEF AppendPost, TypeOK
    <3>2. jobs[j] \in Job /\ jobs[j].age \in Age
      BY DEF TypeOK, Job
    <3>3. [jobs[j] EXCEPT !.age =
             IF jobs[j].status = "running" THEN 0 ELSE jobs[j].age] \in Job
      BY <3>2, ZeroAge DEF Job
    <3>. QED
      BY <3>1, <3>3 DEF TypeOK
  <2>. QED
    BY <1>3, <2>1 DEF AppendPost, TypeOK
<1>4. ASSUME NEW j \in JobIds, NEW m \in Machines \cup {NoMachine},
             ResultPost(j, m)
      PROVE  TypeOK'
  <2> DEFINE n == IF m # NoMachine THEN m ELSE jobs[j].machine
  <2>1. jobs[j] \in Job /\ n \in Machines \cup {NoMachine}
    BY DEF TypeOK, Job
  <2>2. jobs' = [jobs EXCEPT ![j] =
          [jobs[j] EXCEPT !.status = "done", !.result = "posted", !.age = 0,
                          !.machine = n]]
    BY <1>4 DEF ResultPost, TypeOK
  <2>3. [jobs[j] EXCEPT !.status = "done", !.result = "posted", !.age = 0,
                        !.machine = n] \in Job
    BY <2>1, ZeroAge DEF Job, Results
  <2>4. jobs' \in [JobIds -> Job]
    BY <2>2, <2>3 DEF TypeOK
  <2>. QED
    BY <1>4, <2>4, ReleaseType DEF ResultPost, TypeOK
<1>5. ASSUME NEW j \in JobIds, CancelPending(j)
      PROVE  TypeOK'
  <2>1. jobs' = [jobs EXCEPT ![j] =
          [jobs[j] EXCEPT !.status = "done", !.result = "cancelled",
                          !.cancel = TRUE, !.age = 0]]
    BY <1>5 DEF CancelPending, TypeOK
  <2>2. [jobs[j] EXCEPT !.status = "done", !.result = "cancelled",
                        !.cancel = TRUE, !.age = 0] \in Job
    <3>1. jobs[j] \in Job
      BY DEF TypeOK
    <3>. QED
      BY <3>1, ZeroAge DEF Job, Results
  <2>3. jobs' \in [JobIds -> Job]
    BY <2>1, <2>2 DEF TypeOK
  <2>. QED
    BY <1>5, <2>3, ReleaseType DEF CancelPending, TypeOK
<1>6. ASSUME NEW j \in JobIds, CancelFlag(j)
      PROVE  TypeOK'
  <2> DEFINE a == IF jobs[j].started THEN 0 ELSE jobs[j].age
  <2>1. jobs[j] \in Job /\ a \in Age
    BY ZeroAge DEF TypeOK, Job
  <2>2. jobs' = [jobs EXCEPT ![j] =
                   [jobs[j] EXCEPT !.cancel = TRUE, !.age = a]]
    BY <1>6 DEF CancelFlag, TypeOK
  <2>3. [jobs[j] EXCEPT !.cancel = TRUE, !.age = a] \in Job
    BY <2>1 DEF Job
  <2>4. jobs' \in [JobIds -> Job]
    BY <2>2, <2>3 DEF TypeOK
  <2>. QED
    BY <1>6, <2>4 DEF CancelFlag, TypeOK
<1>7. ASSUME NEW j \in JobIds, ResumePost(j)
      PROVE  TypeOK'
  BY <1>7, SetStatusType DEF ResumePost, Live, TypeOK
<1>8. ASSUME NEW r \in Repos, ClearLock(r)
      PROVE  TypeOK'
  BY <1>8, ReleaseRepoType DEF ClearLock, TypeOK
<1>9. CASE ClearLocks
  BY <1>9, ReleaseRepoType DEF ClearLocks, TypeOK
<1>10. ASSUME NEW w \in wakes, WakeAck(w)
       PROVE  TypeOK'
  BY <1>10 DEF WakeAck, TypeOK
<1>11. ASSUME NEW c \in Clients, NEW m \in Agents, PollGet(c, m)
       PROVE  TypeOK'
  <2>1. m \in Machines \cup {NoMachine}
    BY NullAssumption
  <2>2. /\ <<"claim">> \in Seq(Steps)
        /\ <<"stamp", "dead", "wedged", "orphaned", "stale", "claim">>
             \in Seq(Steps)
    BY DEF Steps
  <2>. QED
    BY <1>11, <2>1, <2>2, BeginType DEF PollGet, TypeOK
<1>12. ASSUME NEW c \in Clients, NEW m \in Agents \ {NoMachine},
              HeartbeatPost(c, m)
       PROVE  TypeOK'
  <2>1. m \in Machines
    BY NullAssumption
  <2>2. <<"resume">> \in Seq(Steps)
    BY DEF Steps
  <2>3. heartbeats' \in [Machines -> Age \cup {Never}]
    BY <1>12, ZeroAge DEF HeartbeatPost, TypeOK
  <2>. QED
    BY <1>12, <2>1, <2>2, <2>3, BeginType DEF HeartbeatPost, TypeOK
<1>13. ASSUME NEW c \in Clients, ThreadStatesGet(c)
       PROVE  TypeOK'
  <2>1. <<"dead", "stale">> \in Seq(Steps)
    BY DEF Steps
  <2>. QED
    BY <1>13, <2>1, BeginType DEF ThreadStatesGet, TypeOK
<1>14. ASSUME NEW c \in Clients \cup Crons, TickGet(c)
       PROVE  TypeOK'
  <2>1. FullSweep \in Seq(Steps)
    BY DEF FullSweep, Steps
  <2>. QED
    BY <1>14, <2>1, BeginType DEF TickGet, TypeOK
<1>15. ASSUME NEW c \in Clients \cup Crons, Stamp(c)
       PROVE  TypeOK'
  BY <1>15, DoingType, ZeroAge DEF Stamp, TypeOK
<1>16. ASSUME NEW c \in Clients \cup Crons, Sweep(c)
       PROVE  TypeOK'
  <2>1. CASE Doing(c, "dead") /\ ReapDeadJobs
    BY <1>16, <2>1, DoingType, FinishType, ReleaseType
    DEF Sweep, ReapDeadJobs, Finish, Results, TypeOK
  <2>2. CASE Doing(c, "wedged") /\ ReapWedgedJobs
    BY <1>16, <2>2, DoingType, FinishType, ReleaseType
    DEF Sweep, ReapWedgedJobs, Finish, Results, TypeOK
  <2>3. CASE Doing(c, "orphaned") /\ ReapOrphanedLocks
    BY <1>16, <2>3, DoingType, ReleaseType DEF Sweep, ReapOrphanedLocks, TypeOK
  <2>4. CASE Doing(c, "stale") /\ ReapStalePendingJobs /\ UNCHANGED lockVars
    BY <1>16, <2>4, DoingType, SetStatusType
    DEF Sweep, ReapStalePendingJobs, Live, TypeOK
  <2>5. CASE /\ Doing(c, "resume")
             /\ ResumeStaleJobs(req[c].machine)
             /\ UNCHANGED lockVars
    BY <1>16, <2>5, DoingType, SetStatusType
    DEF Sweep, ResumeStaleJobs, Live, TypeOK
  <2>. QED
    BY <1>16, <2>1, <2>2, <2>3, <2>4, <2>5 DEF Sweep
<1>17. ASSUME NEW c \in Clients \cup Crons, Claim(c)
       PROVE  TypeOK'
  <2>1. req[c].machine \in Machines \cup {NoMachine}
    BY DEF TypeOK
  <2>2. ASSUME NEW j \in JobIds
        PROVE  jobs'[j] \in Job
    <3>1. jobs[j] \in Job
      BY DEF TypeOK
    <3>2. jobs'[j] \in {jobs[j],
            [jobs[j] EXCEPT !.status = "running", !.machine = req[c].machine,
                            !.started = TRUE, !.age = 0]}
      BY <1>17 DEF Claim
    <3>3. [jobs[j] EXCEPT !.status = "running", !.machine = req[c].machine,
                          !.started = TRUE, !.age = 0] \in Job
      BY <2>1, <3>1, ZeroAge DEF Job, Live
    <3>. QED
      BY <3>1, <3>2, <3>3
  <2>3. jobs' \in [JobIds -> Job]
    BY <1>17, <2>2 DEF Claim
  <2>. QED
    BY <1>17, <2>3, DoingType DEF Claim, TypeOK
<1>18. CASE Tick
  <2>1. ASSUME NEW j \in JobIds
        PROVE  jobs'[j] \in Job
    <3>1. jobs[j] \in Job /\ Older(jobs[j].age) \in Age
      BY OlderType DEF TypeOK, Job
    <3>2. jobs'[j] \in {jobs[j], [jobs[j] EXCEPT !.age = Older(jobs[j].age)]}
      BY <1>18, <3>1 DEF Tick, Job
    <3>3. [jobs[j] EXCEPT !.age = Older(jobs[j].age)] \in Job
      BY <3>1 DEF Job
    <3>. QED
      BY <3>1, <3>2, <3>3
  <2>2. jobs' \in [JobIds -> Job]
    BY <1>18, <2>1 DEF Tick
  <2>3. waiters' \subseteq [repo : Repos, thread : Threads, age : Age]
    <3>1. ASSUME NEW w \in waiters
          PROVE  [w EXCEPT !.age = Older(w.age)]
                   \in [repo : Repos, thread : Threads, age : Age]
      BY OlderType DEF TypeOK
    <3>. QED
      BY <1>18, <3>1 DEF Tick
  <2>4. /\ heartbeats' \in [Machines -> Age \cup {Never}]
        /\ lastSweep' \in Age \cup {Never}
    BY <1>18, OlderType DEF Tick, TypeOK
  <2>. QED
    BY <1>18, <2>2, <2>3, <2>4 DEF Tick, TypeOK
<1>19. CASE UNCHANGED vars
  BY <1>19 DEF vars, TypeOK
<1>. QED
  BY <1>1, <1>2, <1>3, <1>4, <1>5, <1>6, <1>7, <1>8, <1>9, <1>10, <1>11,
     <1>12, <1>13, <1>14, <1>15, <1>16, <1>17, <1>18, <1>19 DEF Next, Run

\* The tables keep the columns the schema gives them, whatever the interleaving.
THEOREM TypeCorrect == Spec => []TypeOK
BY InitType, NextType, PTL DEF Spec

-----------------------------------------------------------------------------
(* The locks.  LockInv is inductive together with TypeOK: a lock has a live *)
(* owner that asked for it, a live job has all its locks, and a remembered  *)
(* drop has a lock whose release will surface it.                           *)

LockInv == LocksAreLive /\ LiveJobsHoldTheirRepos /\ DropsAwaitARelease

\* A step that leaves locks and drops alone, and no job enters or leaves Live.
LEMMA RelabelKeepsLockInv ==
  ASSUME TypeOK, LockInv,
         holder' = holder, refires' = refires,
         \A j \in JobIds :
           /\ jobs'[j].repos = jobs[j].repos
           /\ jobs'[j].status \in Live <=> jobs[j].status \in Live
  PROVE  LockInv'
<1>1. LocksAreLive'
  BY DEF TypeOK, LockInv, LocksAreLive
<1>2. LiveJobsHoldTheirRepos'
  BY DEF LockInv, LiveJobsHoldTheirRepos
<1>3. DropsAwaitARelease'
  BY DEF LockInv, DropsAwaitARelease
<1>. QED
  BY <1>1, <1>2, <1>3 DEF LockInv

\* A transaction that ends the jobs of J and releases what they hold.
LEMMA EndKeepsLockInv ==
  ASSUME TypeOK, LockInv, NEW J \in SUBSET JobIds, ReleaseLockAndWake(J),
         \A j \in JobIds : jobs'[j].repos = jobs[j].repos,
         \A j \in J : jobs'[j].status = "done",
         \A j \in JobIds \ J : jobs'[j].status = jobs[j].status
  PROVE  LockInv'
<1>1. \A r \in Repos : holder'[r] = IF holder[r] \in J THEN NoJob ELSE holder[r]
  BY DEF ReleaseLockAndWake
<1>2. LocksAreLive'
  BY <1>1 DEF TypeOK, LockInv, LocksAreLive
<1>3. LiveJobsHoldTheirRepos'
  <2> SUFFICES ASSUME NEW j \in JobIds, jobs'[j].status \in Live,
                      NEW r \in jobs[j].repos \ ForceReleasable
               PROVE  holder'[r] = j
    BY DEF LiveJobsHoldTheirRepos
  <2>1. j \notin J
    BY DEF Live
  <2>2. jobs[j].status \in Live /\ r \in Repos
    BY <2>1 DEF TypeOK, Job
  <2>3. holder[r] = j
    BY <2>2 DEF LockInv, LiveJobsHoldTheirRepos
  <2>. QED
    BY <1>1, <2>1, <2>2, <2>3
<1>4. DropsAwaitARelease'
  <2> SUFFICES ASSUME NEW x \in refires', x.repo \notin ForceReleasable
               PROVE  holder'[x.repo] # NoJob
    BY DEF DropsAwaitARelease
  <2>1. x \in refires /\ x.repo \in Repos /\ holder[x.repo] \notin J
    BY DEF ReleaseLockAndWake, Dropped, TypeOK
  <2>. QED
    BY <1>1, <2>1 DEF LockInv, DropsAwaitARelease
<1>. QED
  BY <1>2, <1>3, <1>4 DEF LockInv

\* The sweeps that end jobs, as the lemma wants them.
LEMMA FinishKeepsLockInv ==
  ASSUME TypeOK, LockInv, NEW J \in SUBSET JobIds, NEW result,
         Finish(J, result)
  PROVE  LockInv'
<1>1. \A j \in JobIds : jobs'[j] = IF j \in J
        THEN [jobs[j] EXCEPT !.status = "done", !.result = result, !.age = 0]
        ELSE jobs[j]
  BY DEF Finish
<1>2. \A j \in JobIds : jobs[j] \in Job
  BY DEF TypeOK
<1>3. /\ \A j \in JobIds : jobs'[j].repos = jobs[j].repos
      /\ \A j \in J : jobs'[j].status = "done"
      /\ \A j \in JobIds \ J : jobs'[j].status = jobs[j].status
  BY <1>1, <1>2 DEF Job
<1>. QED
  BY <1>3, EndKeepsLockInv DEF Finish

\* Staling, resuming: between two statuses of Live.
LEMMA SetStatusKeepsLockInv ==
  ASSUME TypeOK, LockInv, NEW J, NEW status \in Live, SetStatus(J, status),
         \A j \in J : jobs[j].status \in Live,
         UNCHANGED lockVars
  PROVE  LockInv'
<1>1. \A j \in JobIds : jobs[j] \in Job
  BY DEF TypeOK
<1>2. \A j \in JobIds :
        /\ jobs'[j].repos = jobs[j].repos
        /\ jobs'[j].status = IF j \in J THEN status ELSE jobs[j].status
  BY <1>1 DEF SetStatus, Job
<1>. QED
  BY <1>2, RelabelKeepsLockInv

\* An operator's release of the repos of R, all of them force-releasable.
LEMMA ReleaseRepoKeepsLockInv ==
  ASSUME TypeOK, LockInv, NEW R \in SUBSET ForceReleasable,
         ReleaseRepoLock(R), UNCHANGED jobs
  PROVE  LockInv'
<1>1. \A r \in Repos : holder'[r] = IF r \in R THEN NoJob ELSE holder[r]
  BY DEF ReleaseRepoLock
<1>2. refires' = refires
  BY DEF ReleaseRepoLock
<1>3. LocksAreLive'
  BY <1>1 DEF TypeOK, LockInv, LocksAreLive
<1>4. LiveJobsHoldTheirRepos'
  BY <1>1 DEF TypeOK, Job, LockInv, LiveJobsHoldTheirRepos
<1>5. DropsAwaitARelease'
  BY <1>1, <1>2 DEF TypeOK, LockInv, DropsAwaitARelease
<1>. QED
  BY <1>3, <1>4, <1>5 DEF LockInv

\* No lock, no live job and no drop exist at first.
LEMMA InitLockInv == Init => LockInv
BY DEF Init, LockInv, LocksAreLive, LiveJobsHoldTheirRepos, DropsAwaitARelease,
       NoRow, Live

\* Every transaction preserves LockInv.
THEOREM NextLockInv == TypeOK /\ LockInv /\ [Next]_vars => LockInv'
<1> SUFFICES ASSUME TypeOK, LockInv, [Next]_vars
             PROVE  LockInv'
  OBVIOUS
<1> USE DEF Live
<1>1. \A j \in JobIds : jobs[j] \in Job
  BY DEF TypeOK
<1>2. ASSUME NEW d \in Dispatches, JobPostLocked(d)
      PROVE  LockInv'
  <2>1. LocksAreLive' /\ LiveJobsHoldTheirRepos'
    BY <1>2 DEF JobPostLocked, LockInv, LocksAreLive, LiveJobsHoldTheirRepos
  <2>2. DropsAwaitARelease'
    BY <1>2 DEF JobPostLocked, HeldOf, LockInv, DropsAwaitARelease
  <2>. QED
    BY <2>1, <2>2 DEF LockInv
<1>3. ASSUME NEW d \in Dispatches, JobPost(d)
      PROVE  LockInv'
  <2>1. PICK j \in JobsWith("none") :
          /\ jobs' = [jobs EXCEPT ![j] =
                        [NoRow EXCEPT !.status = "pending", !.thread = d.thread,
                                      !.repos = d.repos, !.target = d.target,
                                      !.silence = d.silence]]
          /\ holder' = [r \in Repos |-> IF r \in d.repos THEN j ELSE holder[r]]
    BY <1>3 DEF JobPost
  <2>2. /\ j \in JobIds
        /\ jobs[j].status = "none"
        /\ d.repos \subseteq Repos
        /\ \A r \in d.repos : holder[r] = NoJob
    BY <1>3, DispatchAssumption DEF JobsWith, Dispatch, JobPost, HeldOf
  <2>3. /\ jobs'[j].status = "pending"
        /\ jobs'[j].repos = d.repos
        /\ \A i \in JobIds : i # j => jobs'[i] = jobs[i]
    BY <2>1, <2>2 DEF TypeOK, NoRow
  <2>4. LocksAreLive'
    BY <2>1, <2>2, <2>3 DEF TypeOK, LockInv, LocksAreLive
  <2>5. LiveJobsHoldTheirRepos'
    <3> SUFFICES ASSUME NEW i \in JobIds, jobs'[i].status \in Live,
                        NEW r \in jobs'[i].repos \ ForceReleasable
                 PROVE  holder'[r] = i
      BY DEF LiveJobsHoldTheirRepos
    <3>1. CASE i = j
      BY <3>1, <2>1, <2>2, <2>3
    <3>2. CASE i # j
      <4>1. holder[r] = i /\ r \in Repos
        BY <3>2, <2>3, <1>1 DEF LockInv, LiveJobsHoldTheirRepos, Job
      <4>2. r \notin d.repos
        BY <4>1, <2>2, BoundAssumption
      <4>. QED
        BY <4>1, <4>2, <2>1
    <3>. QED
      BY <3>1, <3>2
  <2>6. DropsAwaitARelease'
    <3> SUFFICES ASSUME NEW x \in refires, x.repo \notin ForceReleasable
                 PROVE  holder'[x.repo] # NoJob
      BY <1>3 DEF JobPost, DropsAwaitARelease
    <3>1. x.repo \in Repos /\ holder[x.repo] # NoJob
      BY DEF TypeOK, LockInv, DropsAwaitARelease
    <3>. QED
      BY <3>1, <2>1, <2>2
  <2>. QED
    BY <2>4, <2>5, <2>6 DEF LockInv
<1>4. ASSUME NEW j \in JobIds, AppendPost(j)
      PROVE  LockInv'
  BY <1>4, <1>1, RelabelKeepsLockInv DEF AppendPost, TypeOK, Job
<1>5. ASSUME NEW j \in JobIds, NEW m \in Machines \cup {NoMachine},
             ResultPost(j, m)
      PROVE  LockInv'
  <2>1. /\ \A i \in JobIds : jobs'[i].repos = jobs[i].repos
        /\ jobs'[j].status = "done"
        /\ \A i \in JobIds \ {j} : jobs'[i].status = jobs[i].status
    BY <1>5, <1>1 DEF ResultPost, TypeOK, Job
  <2>. QED
    BY <1>5, <2>1, EndKeepsLockInv DEF ResultPost
<1>6. ASSUME NEW j \in JobIds, CancelPending(j)
      PROVE  LockInv'
  <2>1. /\ \A i \in JobIds : jobs'[i].repos = jobs[i].repos
        /\ jobs'[j].status = "done"
        /\ \A i \in JobIds \ {j} : jobs'[i].status = jobs[i].status
    BY <1>6, <1>1 DEF CancelPending, TypeOK, Job
  <2>. QED
    BY <1>6, <2>1, EndKeepsLockInv DEF CancelPending
<1>7. ASSUME NEW j \in JobIds, CancelFlag(j)
      PROVE  LockInv'
  BY <1>7, <1>1, RelabelKeepsLockInv DEF CancelFlag, TypeOK, Job
<1>8. ASSUME NEW j \in JobIds, ResumePost(j)
      PROVE  LockInv'
  BY <1>8, SetStatusKeepsLockInv DEF ResumePost
<1>9. ASSUME NEW r \in Repos, ClearLock(r)
      PROVE  LockInv'
  BY <1>9, ReleaseRepoKeepsLockInv DEF ClearLock
<1>10. CASE ClearLocks
  BY <1>10, ReleaseRepoKeepsLockInv DEF ClearLocks
<1>11. ASSUME UNCHANGED <<jobs, holder, refires>>
       PROVE  LockInv'
  BY <1>11, RelabelKeepsLockInv
<1>12. ASSUME NEW c \in Clients \cup Crons, Sweep(c)
       PROVE  LockInv'
  <2>1. CASE ReapDeadJobs
    BY <2>1, FinishKeepsLockInv DEF ReapDeadJobs, JobsWith
  <2>2. CASE ReapWedgedJobs
    BY <2>2, FinishKeepsLockInv DEF ReapWedgedJobs, JobsWith
  <2>3. CASE ReapOrphanedLocks
    BY <2>3, EndKeepsLockInv DEF ReapOrphanedLocks, JobsWith
  <2>4. CASE ReapStalePendingJobs /\ UNCHANGED lockVars
    BY <2>4, SetStatusKeepsLockInv DEF ReapStalePendingJobs, JobsWith
  <2>5. CASE ResumeStaleJobs(req[c].machine) /\ UNCHANGED lockVars
    BY <2>5, SetStatusKeepsLockInv DEF ResumeStaleJobs, JobsWith
  <2>. QED
    BY <1>12, <2>1, <2>2, <2>3, <2>4, <2>5 DEF Sweep
<1>13. ASSUME NEW c \in Clients \cup Crons, Claim(c)
       PROVE  LockInv'
  <2>1. \A j \in JobIds :
          \/ jobs'[j] = jobs[j]
          \/ /\ jobs[j].status = "pending"
             /\ jobs'[j] = [jobs[j] EXCEPT !.status = "running",
                              !.machine = req[c].machine, !.started = TRUE,
                              !.age = 0]
    BY <1>13 DEF Claim, Claimable, JobsWith
  <2>2. ASSUME NEW j \in JobIds
        PROVE  /\ jobs'[j].repos = jobs[j].repos
               /\ jobs'[j].status \in Live <=> jobs[j].status \in Live
    <3>1. jobs[j] \in Job
      BY <1>1
    <3>2. CASE jobs'[j] = jobs[j]
      BY <3>2
    <3>3. CASE /\ jobs[j].status = "pending"
               /\ jobs'[j] = [jobs[j] EXCEPT !.status = "running",
                                !.machine = req[c].machine, !.started = TRUE,
                                !.age = 0]
      BY <3>1, <3>3 DEF Job
    <3>. QED
      BY <2>1, <3>2, <3>3
  <2>. QED
    BY <1>13, <2>2, RelabelKeepsLockInv DEF Claim
<1>14. CASE Tick
  <2>1. \A j \in JobIds :
          /\ jobs'[j].repos = jobs[j].repos
          /\ jobs'[j].status = jobs[j].status
    BY <1>14, <1>1 DEF Tick, Job
  <2>. QED
    BY <1>14, <2>1, RelabelKeepsLockInv DEF Tick
<1>. QED
  BY <1>2, <1>3, <1>4, <1>5, <1>6, <1>7, <1>8, <1>9, <1>10, <1>11, <1>12,
     <1>13, <1>14
  DEF Next, Run, WakeAck, PollGet, HeartbeatPost, ThreadStatesGet, TickGet,
      Stamp, vars

\* A lock row always has a live owner that asked for the repo, so
\* reapOrphanedLocks never finds one to release.
THEOREM LocksHaveLiveOwners == Spec => []LocksAreLive
BY InitType, NextType, InitLockInv, NextLockInv, PTL DEF Spec, LockInv

\* A live job has every lock it asked for that no operator may take away.
THEOREM LiveJobsAreProtected == Spec => []LiveJobsHoldTheirRepos
BY InitType, NextType, InitLockInv, NextLockInv, PTL DEF Spec, LockInv

\* A remembered drop is behind a lock, whose release will surface it.
THEOREM DropsAreNotForgotten == Spec => []DropsAwaitARelease
BY InitType, NextType, InitLockInv, NextLockInv, PTL DEF Spec, LockInv

\* Two live jobs never share a repo that no operator may force-release: one
\* lock cannot have both as its holder.
THEOREM JobsExclude == Spec => []MutualExclusion
<1>1. LockInv => MutualExclusion
  BY DEF LockInv, LiveJobsHoldTheirRepos, MutualExclusion
<1>. QED
  BY <1>1, InitType, NextType, InitLockInv, NextLockInv, PTL DEF Spec

\* The relay's locks and drops are in order, whatever interleaves.
THEOREM LocksAreDisciplined == Spec => []LockDiscipline
BY LocksHaveLiveOwners, LiveJobsAreProtected, DropsAreNotForgotten, JobsExclude, PTL
   DEF LockDiscipline

-----------------------------------------------------------------------------
(* Drops.  Only a release takes a drop away, and it tells of every drop it  *)
(* takes.                                                                   *)

Surfaced(x) ==
  x.thread # NoThread =>
    /\ holder'[x.repo] = NoJob
    /\ [thread |-> x.thread, repo |-> x.repo] \in wakes'

\* The release of what the jobs of J hold surfaces the drops it takes away.
LEMMA ReleaseSurfaces ==
  ASSUME TypeOK, NEW J, ReleaseLockAndWake(J), NEW x \in refires \ refires'
  PROVE  Surfaced(x)
<1> DEFINE freed == {r \in Repos : holder[r] \in J}
<1>1. x \in Dropped(freed)
  BY DEF ReleaseLockAndWake
<1>2. x.repo \in freed
  BY <1>1 DEF Dropped
<1>3. holder'[x.repo] = NoJob
  BY <1>2 DEF ReleaseLockAndWake
<1>4. Tell(Dropped(freed)) \subseteq wakes'
  BY DEF ReleaseLockAndWake
<1>5. x.thread # NoThread
        => [thread |-> x.thread, repo |-> x.repo] \in Tell(Dropped(freed))
  BY <1>1 DEF Tell, Wake
<1>. QED
  BY <1>3, <1>4, <1>5 DEF Surfaced

\* Every transaction either releases or takes no drop away.
LEMMA NextSurfaces ==
  ASSUME TypeOK, [Next]_vars, NEW x \in refires \ refires'
  PROVE  Surfaced(x)
<1>1. CASE \E J : ReleaseLockAndWake(J)
  BY <1>1, ReleaseSurfaces
<1>2. CASE refires \subseteq refires'
  BY <1>2
<1>3. (\E J : ReleaseLockAndWake(J)) \/ refires \subseteq refires'
  <2>1. ASSUME NEW d \in Dispatches, JobPostLocked(d) \/ JobPost(d)
        PROVE  refires \subseteq refires'
    BY <2>1 DEF JobPostLocked, JobPost
  <2>2. ASSUME NEW j \in JobIds, NEW m, ResultPost(j, m)
        PROVE  ReleaseLockAndWake({j})
    BY <2>2 DEF ResultPost
  <2>3. ASSUME NEW j \in JobIds, CancelPending(j)
        PROVE  ReleaseLockAndWake({j})
    BY <2>3 DEF CancelPending
  <2>4. ASSUME NEW j \in JobIds, AppendPost(j) \/ CancelFlag(j) \/ ResumePost(j)
        PROVE  refires' = refires
    BY <2>4 DEF AppendPost, CancelFlag, ResumePost, lockVars
  <2>5. ASSUME NEW r \in Repos, ClearLock(r)
        PROVE  refires' = refires
    BY <2>5 DEF ClearLock, ReleaseRepoLock
  <2>6. CASE ClearLocks
    BY <2>6 DEF ClearLocks, ReleaseRepoLock
  <2>7. ASSUME NEW w, WakeAck(w)
        PROVE  refires' = refires
    BY <2>7 DEF WakeAck
  <2>8. ASSUME NEW c, NEW m, PollGet(c, m) \/ HeartbeatPost(c, m)
        PROVE  refires' = refires
    BY <2>8 DEF PollGet, HeartbeatPost, lockVars
  <2>9. ASSUME NEW c, ThreadStatesGet(c) \/ TickGet(c) \/ Stamp(c) \/ Claim(c)
        PROVE  refires' = refires
    BY <2>9 DEF ThreadStatesGet, TickGet, Stamp, Claim, lockVars
  <2>10. ASSUME NEW c, Sweep(c)
         PROVE  (\E J : ReleaseLockAndWake(J)) \/ refires' = refires
    <3>1. ReapDeadJobs \/ ReapWedgedJobs \/ ReapOrphanedLocks \/ UNCHANGED lockVars
      BY <2>10 DEF Sweep
    <3>. QED
      BY <3>1 DEF ReapDeadJobs, ReapWedgedJobs, ReapOrphanedLocks, Finish, lockVars
  <2>11. CASE Tick
    BY <2>11 DEF Tick
  <2>12. CASE UNCHANGED vars
    BY <2>12 DEF vars
  <2>. QED
    BY <2>1, <2>2, <2>3, <2>4, <2>5, <2>6, <2>7, <2>8, <2>9, <2>10, <2>11, <2>12
    DEF Next, Run
<1>. QED
  BY <1>1, <1>2, <1>3

\* A thread whose dispatch was dropped is told when the repo is released: its
\* drop goes only as its wake comes.
THEOREM DropsComeToLight == Spec => DropsAreSurfaced
<1>1. TypeOK /\ [Next]_vars
        => [\A x \in refires \ refires' :
              x.thread # NoThread =>
                /\ holder'[x.repo] = NoJob
                /\ [thread |-> x.thread, repo |-> x.repo] \in wakes']_vars
  BY NextSurfaces DEF Surfaced
<1>. QED
  BY <1>1, InitType, NextType, PTL DEF Spec, DropsAreSurfaced

-----------------------------------------------------------------------------
(* At-most-once.  A step changes the status and started_at of a row in one *)
(* of five ways.                                                           *)

Kept(j)    == /\ jobs'[j].status = jobs[j].status
              /\ jobs'[j].started = jobs[j].started
              /\ jobs'[j].repos = jobs[j].repos
Queued(j)  == /\ jobs[j].status = "none"
              /\ jobs'[j].status = "pending"
              /\ ~jobs'[j].started
Moved(j)   == /\ jobs[j].status \in {"pending", "stale"}
              /\ jobs'[j].status \in {"pending", "stale"}
              /\ jobs'[j].started = jobs[j].started
              /\ jobs'[j].repos = jobs[j].repos
Handed(j)  == /\ jobs[j].status = "pending"
              /\ jobs'[j].status = "running"
              /\ jobs'[j].started
              /\ jobs'[j].repos = jobs[j].repos
Ended(j)   == /\ jobs[j].status \in {"pending", "running"}
              /\ jobs'[j].status = "done"
              /\ jobs'[j].started = jobs[j].started
              /\ jobs'[j].repos = jobs[j].repos

\* What each action does to the rows.  KeepsAll is every action that queues,
\* moves, hands out and ends nothing.
KeepsAll == \A j \in JobIds : Kept(j)

\* A sweep that ends running jobs keeps or ends every row.
LEMMA FinishRows ==
  ASSUME TypeOK, NEW result, NEW J \in SUBSET JobsWith("running"),
         Finish(J, result)
  PROVE  \A j \in JobIds : IF j \in J THEN Ended(j) ELSE Kept(j)
<1> SUFFICES ASSUME NEW j \in JobIds
             PROVE  IF j \in J THEN Ended(j) ELSE Kept(j)
  OBVIOUS
<1>1. jobs[j] \in Job
  BY DEF TypeOK
<1>2. jobs'[j] = IF j \in J
        THEN [jobs[j] EXCEPT !.status = "done", !.result = result, !.age = 0]
        ELSE jobs[j]
  BY DEF Finish
<1>3. CASE j \in J
  BY <1>1, <1>2, <1>3 DEF Job, Ended, JobsWith
<1>4. CASE j \notin J
  BY <1>2, <1>4 DEF Kept
<1>. QED
  BY <1>3, <1>4

\* A status change of jobs that are queued moves or keeps every row.
LEMMA SetStatusRows ==
  ASSUME TypeOK, NEW status \in {"pending", "stale"}, NEW J,
         \A j \in J : jobs[j].status \in {"pending", "stale"},
         SetStatus(J, status)
  PROVE  \A j \in JobIds : Kept(j) \/ Moved(j)
<1> SUFFICES ASSUME NEW j \in JobIds
             PROVE  Kept(j) \/ Moved(j)
  OBVIOUS
<1>1. jobs[j] \in Job
  BY DEF TypeOK
<1>2. jobs'[j] = IF j \in J THEN [jobs[j] EXCEPT !.status = status] ELSE jobs[j]
  BY DEF SetStatus
<1>. QED
  BY <1>1, <1>2 DEF Job, Kept, Moved

\* A dispatch adds one row and leaves the others as they are.
LEMMA JobPostRows ==
  ASSUME TypeOK, NEW d \in Dispatches, JobPost(d)
  PROVE  \E j \in JobIds :
           /\ Queued(j)
           /\ jobs'[j].repos = d.repos
           /\ \A i \in JobIds \ {j} : jobs'[i] = jobs[i]
BY DEF TypeOK, JobPost, JobsWith, NoRow, Queued

\* A result ends its job, or restamps it, and keeps the others.
LEMMA ResultPostRows ==
  ASSUME TypeOK, StartedJobsRunOrEnded, NEW j \in JobIds, NEW m,
         ResultPost(j, m)
  PROVE  /\ \A i \in JobIds \ {j} : Kept(i)
         /\ Kept(j) \/ Ended(j)
<1>1. jobs[j] \in Job
  BY DEF TypeOK
<1>2. jobs[j].status \in {"running", "done"}
  BY DEF StartedJobsRunOrEnded, ResultPost
<1>. QED
  BY <1>1, <1>2 DEF ResultPost, TypeOK, Job, Kept, Ended

\* A cancel ends the one job it is sent for.
LEMMA CancelPendingRows ==
  ASSUME TypeOK, NEW j \in JobIds, CancelPending(j)
  PROVE  /\ \A i \in JobIds \ {j} : Kept(i)
         /\ Ended(j)
<1>1. jobs[j] \in Job
  BY DEF TypeOK
<1>. QED
  BY <1>1 DEF CancelPending, TypeOK, Job, Kept, Ended

\* A claim hands out at most one job.
LEMMA ClaimRows ==
  ASSUME TypeOK, NEW c \in Clients \cup Crons, Claim(c)
  PROVE  \/ KeepsAll
         \/ \E j \in JobIds : Handed(j) /\ \A i \in JobIds \ {j} : Kept(i)
<1> DEFINE m    == req[c].machine
           next == {j \in Claimable(m) : \A i \in Claimable(m) : j <= i}
<1>1. \A j \in JobIds : jobs[j] \in Job
  BY DEF TypeOK
<1>2. \A j \in JobIds : jobs'[j] =
        IF j \in next
        THEN [jobs[j] EXCEPT !.status = "running", !.machine = m,
                             !.started = TRUE, !.age = 0]
        ELSE jobs[j]
  BY DEF Claim
<1>3. \A j \in JobIds \ next : Kept(j)
  BY <1>2 DEF Kept
<1>4. CASE next = {}
  BY <1>3, <1>4 DEF KeepsAll
<1>5. CASE next # {}
  <2>1. PICK j : j \in next
    BY <1>5
  <2>2. j \in JobIds /\ jobs[j].status = "pending"
    BY <2>1 DEF Claimable, JobsWith
  <2>3. Handed(j)
    <3>1. jobs'[j] = [jobs[j] EXCEPT !.status = "running", !.machine = m,
                                     !.started = TRUE, !.age = 0]
      BY <1>2, <2>1, <2>2
    <3>. QED
      BY <1>1, <2>2, <3>1 DEF Job, Handed
  <2>4. \A i \in next : i = j
    <3> SUFFICES ASSUME NEW i \in next
                 PROVE  i = j
      OBVIOUS
    <3>1. i \in Int /\ j \in Int /\ i <= j /\ j <= i
      BY <2>1, BoundAssumption DEF Claimable, JobsWith
    <3>. QED
      BY <3>1
  <2>. QED
    BY <1>3, <2>2, <2>3, <2>4
<1>. QED
  BY <1>4, <1>5

\* The four kinds of step: a job is queued behind no lock, jobs move between
\* pending and stale, one job is handed out, or some jobs end.
QueuesOne == \E j \in JobIds :
  /\ Queued(j)
  /\ \A r \in jobs'[j].repos : r \in Repos /\ holder[r] = NoJob
  /\ \A i \in JobIds \ {j} : jobs'[i] = jobs[i]
MovesSome == \A j \in JobIds : Kept(j) \/ Moved(j)
HandsOne  == \E j \in JobIds : Handed(j) /\ \A i \in JobIds \ {j} : Kept(i)
EndsSome  == \E J \in SUBSET JobIds :
  \A j \in JobIds : IF j \in J THEN Ended(j) ELSE Kept(j)

\* Every step of the relay is one of the four.
LEMMA NextRows ==
  TypeOK /\ StartedJobsRunOrEnded /\ [Next]_vars
    => QueuesOne \/ MovesSome \/ HandsOne \/ EndsSome
<1> SUFFICES ASSUME TypeOK, StartedJobsRunOrEnded, [Next]_vars
             PROVE  QueuesOne \/ MovesSome \/ HandsOne \/ EndsSome
  OBVIOUS
<1>1. \A j \in JobIds : jobs[j] \in Job
  BY DEF TypeOK
<1>2. ASSUME NEW d \in Dispatches, JobPost(d)
      PROVE  QueuesOne
  BY <1>2, JobPostRows, DispatchAssumption DEF QueuesOne, JobPost, HeldOf, Dispatch
<1>3. ASSUME NEW j \in JobIds, AppendPost(j)
      PROVE  MovesSome
  BY <1>3, <1>1 DEF AppendPost, TypeOK, Job, MovesSome, Kept
<1>4. ASSUME NEW j \in JobIds, CancelFlag(j)
      PROVE  MovesSome
  BY <1>4, <1>1 DEF CancelFlag, TypeOK, Job, MovesSome, Kept
<1>5. ASSUME NEW j \in JobIds, NEW m \in Machines \cup {NoMachine},
             ResultPost(j, m)
      PROVE  EndsSome
  <2>1. /\ \A i \in JobIds \ {j} : Kept(i)
        /\ Kept(j) \/ Ended(j)
    BY <1>5, ResultPostRows
  <2>2. CASE Kept(j)
    <3>1. \A i \in JobIds : Kept(i)
      BY <2>1, <2>2
    <3>. DEFINE none == {}
    <3>2. none \in SUBSET JobIds /\ \A i \in JobIds : i \notin none
      OBVIOUS
    <3>. HIDE DEF none
    <3>. QED
      BY <3>1, <3>2, Zenon DEF EndsSome
  <2>3. CASE Ended(j)
    <3>1. \A i \in JobIds : IF i \in {j} THEN Ended(i) ELSE Kept(i)
      BY <2>1, <2>3
    <3>. QED
      BY <3>1 DEF EndsSome
  <2>. QED
    BY <2>1, <2>2, <2>3
<1>6. ASSUME NEW j \in JobIds, CancelPending(j)
      PROVE  EndsSome
  <2>1. \A i \in JobIds : IF i \in {j} THEN Ended(i) ELSE Kept(i)
    BY <1>6, CancelPendingRows
  <2>. QED
    BY <2>1 DEF EndsSome
<1>7. ASSUME NEW j \in JobIds, ResumePost(j)
      PROVE  MovesSome
  BY <1>7, SetStatusRows DEF ResumePost, MovesSome
<1>8. ASSUME NEW c \in Clients \cup Crons, Sweep(c)
      PROVE  MovesSome \/ EndsSome
  <2>1. CASE ReapDeadJobs
    BY <2>1, FinishRows DEF ReapDeadJobs, EndsSome, JobsWith
  <2>2. CASE ReapWedgedJobs
    BY <2>2, FinishRows DEF ReapWedgedJobs, EndsSome, JobsWith
  <2>3. CASE ReapOrphanedLocks
    BY <2>3 DEF ReapOrphanedLocks, MovesSome, Kept
  <2>4. CASE ReapStalePendingJobs
    BY <2>4, SetStatusRows DEF ReapStalePendingJobs, JobsWith, MovesSome
  <2>5. CASE ResumeStaleJobs(req[c].machine)
    BY <2>5, SetStatusRows DEF ResumeStaleJobs, JobsWith, MovesSome
  <2>. QED
    BY <1>8, <2>1, <2>2, <2>3, <2>4, <2>5 DEF Sweep
<1>9. ASSUME NEW c \in Clients \cup Crons, Claim(c)
      PROVE  MovesSome \/ HandsOne
  BY <1>9, ClaimRows DEF KeepsAll, MovesSome, HandsOne
<1>10. CASE Tick
  BY <1>10, <1>1 DEF Tick, Job, MovesSome, Kept
<1>11. ASSUME UNCHANGED jobs
       PROVE  MovesSome
  BY <1>11 DEF MovesSome, Kept
<1>. QED
  BY <1>2, <1>3, <1>4, <1>5, <1>6, <1>7, <1>8, <1>9, <1>10, <1>11
  DEF Next, Run, JobPostLocked, ClearLock, ClearLocks, WakeAck, PollGet,
      HeartbeatPost, ThreadStatesGet, TickGet, Stamp, vars

\* Nothing is handed out at first.
LEMMA InitStarted == Init => StartedJobsRunOrEnded
BY DEF Init, NoRow, StartedJobsRunOrEnded

\* What was handed out is running or done after every step.
LEMMA NextStarted ==
  TypeOK /\ StartedJobsRunOrEnded /\ [Next]_vars
    => /\ StartedJobsRunOrEnded'
       /\ \A j \in JobIds : jobs[j].started =>
            jobs'[j].started /\ jobs'[j].status \in {"running", "done"}
<1> SUFFICES ASSUME TypeOK, StartedJobsRunOrEnded, [Next]_vars,
                    NEW j \in JobIds
             PROVE  /\ jobs'[j].started => jobs'[j].status \in {"running", "done"}
                    /\ jobs[j].started => jobs'[j].started
  BY DEF StartedJobsRunOrEnded
<1>1. jobs[j].started => jobs[j].status \in {"running", "done"}
  BY DEF StartedJobsRunOrEnded
<1>2. \/ Kept(j) \/ Queued(j) \/ Moved(j) \/ Handed(j) \/ Ended(j)
      \/ jobs'[j] = jobs[j]
  BY NextRows DEF QueuesOne, MovesSome, HandsOne, EndsSome
<1>. QED
  BY <1>1, <1>2 DEF Kept, Queued, Moved, Handed, Ended

\* A job that an agent was handed is never queued again: no sweep, resume or
\* heartbeat takes it out of running but to end it.
THEOREM AtMostOnce == Spec => HandedOutOnce
<1>1. TypeOK /\ StartedJobsRunOrEnded /\ [Next]_vars
        => [\A j \in JobIds : jobs[j].started =>
              /\ jobs'[j].started
              /\ jobs'[j].status \in {"running", "done"}]_vars
  BY NextStarted
<1>2. TypeOK /\ StartedJobsRunOrEnded /\ [Next]_vars => StartedJobsRunOrEnded'
  BY NextStarted
<1>. QED
  BY <1>1, <1>2, InitType, NextType, InitStarted, PTL DEF Spec, HandedOutOnce

-----------------------------------------------------------------------------
(* The relay implements JobQueue.                                          *)

\* The empty relay is the empty queue.
LEMMA InitQueue == Init => Queue!Init
BY DEF Init, NoRow, Queue!Init, QueueState, QueueNeeds

\* A job counts as unfinished in the queue exactly while it is live.
LEMMA UnfinishedIsLive ==
  TypeOK => Queue!Unfinished = {j \in JobIds : jobs[j].status \in Live}
BY DEF TypeOK, Job, Live, Queue!Unfinished, QueueState

\* Every step of the relay is a step of the queue or leaves it as it is.
LEMMA NextQueue ==
  TypeOK /\ TypeOK' /\ LockInv /\ StartedJobsRunOrEnded /\ [Next]_vars
    => [Queue!Next]_(Queue!vars)
<1> SUFFICES ASSUME TypeOK, TypeOK', LockInv, StartedJobsRunOrEnded, [Next]_vars
             PROVE  Queue!Next \/ UNCHANGED Queue!vars
  OBVIOUS
<1>1. \A j \in JobIds : jobs[j] \in Job /\ jobs'[j] \in Job
  BY DEF TypeOK
<1>2. ASSUME QueuesOne
      PROVE  Queue!Next
  <2>1. PICK j \in JobIds :
          /\ Queued(j)
          /\ \A r \in jobs'[j].repos : r \in Repos /\ holder[r] = NoJob
          /\ \A i \in JobIds \ {j} : jobs'[i] = jobs[i]
    BY <1>2 DEF QueuesOne
  <2> DEFINE R == jobs'[j].repos \ ForceReleasable
  <2>2. R \in SUBSET (Repos \ ForceReleasable)
    BY <2>1
  <2>3. QueueState[j] = "none"
    BY <2>1 DEF QueueState, Queued
  <2>4. \A i \in Queue!Unfinished : QueueNeeds[i] \cap R = {}
    <3> SUFFICES ASSUME NEW i \in JobIds, jobs[i].status \in Live,
                        NEW r \in jobs[i].repos \ ForceReleasable, r \in R
                 PROVE  FALSE
      BY UnfinishedIsLive DEF QueueNeeds
    <3>1. holder[r] = i
      BY DEF LockInv, LiveJobsHoldTheirRepos
    <3>. QED
      BY <3>1, <2>1, BoundAssumption
  <2>5. QueueState' = [QueueState EXCEPT ![j] = "queued"]
    BY <2>1 DEF QueueState, Queued
  <2>6. QueueNeeds' = [QueueNeeds EXCEPT ![j] = R]
    BY <2>1 DEF QueueNeeds
  <2>. QED
    BY <2>2, <2>3, <2>4, <2>5, <2>6 DEF Queue!Next, Queue!Submit
<1>3. ASSUME MovesSome
      PROVE  UNCHANGED Queue!vars
  BY <1>3 DEF MovesSome, Kept, Moved, Queue!vars, QueueState, QueueNeeds
<1>4. ASSUME HandsOne
      PROVE  Queue!Next
  <2>1. PICK j \in JobIds : Handed(j) /\ \A i \in JobIds \ {j} : Kept(i)
    BY <1>4 DEF HandsOne
  <2>2. QueueState[j] = "queued"
    BY <2>1 DEF QueueState, Handed
  <2>3. QueueState' = [QueueState EXCEPT ![j] = "handed"]
    BY <2>1 DEF QueueState, Handed, Kept
  <2>4. QueueNeeds' = QueueNeeds
    BY <2>1 DEF QueueNeeds, Handed, Kept
  <2>. QED
    BY <2>2, <2>3, <2>4 DEF Queue!Next, Queue!HandOut
<1>5. ASSUME EndsSome
      PROVE  Queue!Next
  <2>1. PICK J \in SUBSET JobIds :
          \A j \in JobIds : IF j \in J THEN Ended(j) ELSE Kept(j)
    BY <1>5 DEF EndsSome
  <2>2. J \subseteq Queue!Unfinished
    BY <2>1, UnfinishedIsLive DEF Ended, Live
  <2>3. QueueState' = [j \in JobIds |-> IF j \in J THEN "ended" ELSE QueueState[j]]
    BY <2>1 DEF QueueState, Ended, Kept
  <2>4. QueueNeeds' = QueueNeeds
    BY <2>1 DEF QueueNeeds, Ended, Kept
  <2>. QED
    BY <2>2, <2>3, <2>4 DEF Queue!Next, Queue!End
<1>. QED
  BY <1>2, <1>3, <1>4, <1>5, NextRows

\* Every behaviour of the relay is one of the job queue that its protocol
\* document promises, on the repos that no operator force-releases.
THEOREM ImplementsJobQueue == Spec => IsAJobQueue
<1>1. TypeOK /\ StartedJobsRunOrEnded /\ [Next]_vars => StartedJobsRunOrEnded'
  BY NextStarted
<1>. QED
  BY <1>1, InitType, NextType, InitLockInv, NextLockInv, InitStarted, InitQueue,
     NextQueue, PTL DEF Spec, IsAJobQueue, Queue!Spec

=============================================================================
