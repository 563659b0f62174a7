------------------------------- MODULE JobRun -------------------------------
(* One job between the poll that hands it out and its result: the worker of *)
(* the Windows agent that runs it (AgentCore.cs), the child process, and    *)
(* the job's row at the relay it is pinned to.                              *)
(*                                                                          *)
(* The worker is three tasks: a pump per output stream, each of which reads *)
(* a line and posts it before it reads the next, and a loop that waits for  *)
(* the exit, the silence timeout or a cancel. They share lastOutputTicks.   *)
(*                                                                          *)
(* Time passes in ticks. The agent's own steps take none: Tick waits for    *)
(* them. Requests take up to RequestTimeout, and what the child does is     *)
(* free. Ages stop growing at Horizon, past all they are compared with.     *)
EXTENDS Integers

CONSTANTS
  Kinds,                  \* the types of jobs: "claude" or "bash"
  Silences,               \* their silence timeouts
  RequestTimeout,         \* JobRequestTimeout
  CancelPoll,             \* cancelPollInterval
  ResultPostAttempts,
  WedgedReapMarginFloor,  \* the relay's
  PipeCap,                \* lines a pipe holds
  LinesPerTick,           \* lines written in a tick
  Horizon,
  Settings                \* what may happen in one behaviour or another

\* The age at which the relay takes a job for wedged: max(1.5 s, s + floor).
WedgedWindow(s) ==
  LET scaled  == (3 * s + 1) \div 2
      floored == s + WedgedReapMarginFloor
  IN  IF scaled > floored THEN scaled ELSE floored

ASSUME JobsAssumption ==
  /\ Kinds \subseteq {"claude", "bash"}
  /\ Silences \subseteq Nat \ {0}
ASSUME TimesAssumption ==
  /\ {RequestTimeout, CancelPoll, ResultPostAttempts, PipeCap, LinesPerTick} \subseteq Nat \ {0}
  /\ WedgedReapMarginFloor \in Nat
ASSUME HorizonAssumption ==
  /\ Horizon \in Nat
  /\ \A s \in Silences : /\ s + 3 * RequestTimeout < Horizon
                         /\ WedgedWindow(s) <= Horizon

VARIABLES
  may,      \* the disturbances of this behaviour, one of Settings
  job,      \* its type and silence timeout
  child,    \* the process
  held,     \* a process it left behind holds its pipes open
  burst,    \* lines written in this tick
  pipe,     \* lines written to a stream and not read
  pump,     \* the task that reads a stream
  quiet,    \* age of the last line written
  idle,     \* age of lastOutputTicks, the last line read
  loop,     \* where the worker is: PollOnceAsync, RunClaude or RunBash, PostResult
  outcome,  \* what `result` says of how the job ended
  dropped,  \* PostResult gave up
  alive,    \* the agent runs
  row       \* the job at the relay, with the age of updated_at

vars == <<may, job, child, held, burst, pipe, pump, quiet, idle, loop, outcome,
          dropped, alive, row>>
process == <<child, held, burst>>
streams == <<pipe, pump>>
clocks == <<quiet, idle>>

Streams == {"out", "err"}
Places == {"fetched", "lookup", "launching", "top", "waiting", "checking",
           "drain", "posting", "backoff", "over"}
Outcomes == {"none", "exit", "timeout", "cancelled", "error"}

-----------------------------------------------------------------------------
(* Helpers                                                                  *)

\* A place of the worker, entered now.
At(place) == [at |-> place, for |-> 0, budget |-> 0, attempt |-> 0, landed |-> FALSE]

Reading == [at |-> "reading", for |-> 0, landed |-> FALSE]

\* PostResult's first attempt
PostResult(result) ==
  /\ loop' = [At("posting") EXCEPT !.attempt = 1]
  /\ outcome' = result

\* process.Kill(entireProcessTree). The tree of a process that has exited is lost.
KillTree ==
  IF child = "running" THEN child' = "killed" /\ held' = FALSE /\ UNCHANGED burst
                       ELSE UNCHANGED process

\* The lines of a stream that are posted: a CC job's stderr and its blank lines
\* are not.
Posted(s) == job.kind = "bash" \/ s = "out"

AtEnd(s) == pipe[s] = 0 /\ child \in {"exited", "killed"} /\ ~held
Drained == \A s \in Streams : pump[s].at = "done"

-----------------------------------------------------------------------------
(* PollOnceAsync: before the process.                                       *)

\* The payload lacks a field or its cwd does not exist; or Process.Start throws.
LaunchFails ==
  /\ loop.at \in {"fetched", "launching"}
  /\ PostResult("error")
  /\ UNCHANGED <<may, job, process, streams, clocks, dropped, alive, row>>

\* Deserialize<JobPayload> throws: the poll is an error, and no result is posted.
PayloadUnreadable ==
  /\ "garble" \in may /\ loop.at = "fetched"
  /\ loop' = At("over")
  /\ UNCHANGED <<may, job, process, streams, clocks, outcome, dropped, alive, row>>

LookupSession ==
  /\ loop.at = "fetched" /\ job.kind = "claude"
  /\ loop' = At("lookup")
  /\ UNCHANGED <<may, job, process, streams, clocks, outcome, dropped, alive, row>>

\* Found, not found or failed: the job is launched all the same.
LookupEnds ==
  /\ loop.at = "lookup"
  /\ loop' = At("launching")
  /\ UNCHANGED <<may, job, process, streams, clocks, outcome, dropped, alive, row>>

Launch ==
  /\ loop.at \in {"fetched", "launching"}
  /\ child' = "running"
  /\ pump' = [s \in Streams |-> Reading]
  /\ quiet' = 0 /\ idle' = 0
  /\ loop' = At("top")
  /\ UNCHANGED <<may, job, held, burst, pipe, outcome, dropped, alive, row>>

-----------------------------------------------------------------------------
(* The child process                                                        *)

\* A CC job writes what is not posted only if "mute" says so.
Write(s) ==
  /\ child = "running" \/ held
  /\ Posted(s) \/ "mute" \in may
  /\ alive /\ pipe[s] < PipeCap /\ burst < LinesPerTick
  /\ pipe' = [pipe EXCEPT ![s] = @ + 1]
  /\ burst' = burst + 1
  /\ quiet' = 0
  /\ UNCHANGED <<may, job, child, held, pump, idle, loop, outcome, dropped, alive, row>>

Exit ==
  /\ child = "running"
  /\ child' = "exited"
  /\ held' = FALSE \/ ("linger" \in may /\ held' = TRUE)
  /\ UNCHANGED <<may, job, burst, streams, clocks, loop, outcome, dropped, alive, row>>

-----------------------------------------------------------------------------
(* The pumps                                                                *)

\* Mutant: lines of stderr are no sign of life.
ReadOutOnly(s) ==
  /\ alive /\ pump[s].at = "reading" /\ pipe[s] > 0
  /\ pipe' = [pipe EXCEPT ![s] = @ - 1]
  /\ idle' = IF s = "out" THEN 0 ELSE idle
  /\ pump' = IF Posted(s) THEN [pump EXCEPT ![s] = [Reading EXCEPT !.at = "posting"]]
                          ELSE pump
  /\ UNCHANGED <<may, job, process, quiet, loop, outcome, dropped, alive, row>>

Read(s) ==
  /\ alive /\ pump[s].at = "reading" /\ pipe[s] > 0
  /\ pipe' = [pipe EXCEPT ![s] = @ - 1]
  /\ idle' = 0
  /\ \/ /\ Posted(s)
        /\ pump' = [pump EXCEPT ![s] = [Reading EXCEPT !.at = "posting"]]
     \/ /\ ~Posted(s) \/ (job.kind = "claude" /\ "mute" \in may)
        /\ UNCHANGED pump
  /\ UNCHANGED <<may, job, process, quiet, loop, outcome, dropped, alive, row>>

Eof(s) ==
  /\ alive /\ pump[s].at = "reading" /\ AtEnd(s)
  /\ pump' = [pump EXCEPT ![s].at = "done"]
  /\ UNCHANGED <<may, job, process, pipe, clocks, loop, outcome, dropped, alive, row>>

\* append.php: the line is kept, and updated_at bumped on a running row.
AppendLands(s) ==
  /\ pump[s].at = "posting" /\ ~pump[s].landed
  /\ pump' = [pump EXCEPT ![s].landed = TRUE]
  /\ row' = IF row.status = "running" THEN [row EXCEPT !.silent = 0] ELSE row
  /\ UNCHANGED <<may, job, process, pipe, clocks, loop, outcome, dropped, alive>>

\* PostAppend returns, whether the line landed or not.
AppendEnds(s) ==
  /\ alive /\ pump[s].at = "posting"
  /\ pump[s].landed \/ "append" \in may
  /\ pump' = [pump EXCEPT ![s] = Reading]
  /\ UNCHANGED <<may, job, process, pipe, clocks, loop, outcome, dropped, alive, row>>

-----------------------------------------------------------------------------
(* The wait loop of RunClaude and RunBash                                   *)

WaitForExit ==
  /\ loop.at = "top" /\ idle < job.silence
  /\ LET remaining == job.silence - idle
     IN  loop' = [At("waiting") EXCEPT !.budget =
                    IF CancelPoll < remaining THEN CancelPoll ELSE remaining]
  /\ UNCHANGED <<may, job, process, streams, clocks, outcome, dropped, alive, row>>

SilenceTrips ==
  /\ loop.at = "top" /\ idle >= job.silence
  /\ KillTree
  /\ PostResult("timeout")
  /\ UNCHANGED <<may, job, streams, clocks, dropped, alive, row>>

SeeExit ==
  /\ loop.at = "waiting" /\ child = "exited"
  /\ loop' = At("drain")
  /\ UNCHANGED <<may, job, process, streams, clocks, outcome, dropped, alive, row>>

\* Mutant: the relay is asked for a cancel in a silent tick only.
WaitElapsesAgain ==
  /\ loop.at = "waiting" /\ child = "running" /\ loop.for = loop.budget
  /\ loop' = At(IF quiet = 0 THEN "top" ELSE "checking")
  /\ UNCHANGED <<may, job, process, streams, clocks, outcome, dropped, alive, row>>

WaitElapses ==
  /\ loop.at = "waiting" /\ child = "running" /\ loop.for = loop.budget
  /\ loop' = At("checking")
  /\ UNCHANGED <<may, job, process, streams, clocks, outcome, dropped, alive, row>>

\* IsCancelRequested is true: kill the tree.
CheckCancels ==
  /\ loop.at = "checking" /\ row.cancel
  /\ KillTree
  /\ PostResult("cancelled")
  /\ UNCHANGED <<may, job, streams, clocks, dropped, alive, row>>

\* Mutant: the budget starts again with every check.
CheckRenews ==
  /\ loop.at = "checking" /\ (~row.cancel \/ "check" \in may)
  /\ loop' = At("top") /\ idle' = 0
  /\ UNCHANGED <<may, job, process, streams, quiet, outcome, dropped, alive, row>>

\* It is false, or the request failed.
CheckPasses ==
  /\ loop.at = "checking" /\ (~row.cancel \/ "check" \in may)
  /\ loop' = At("top")
  /\ UNCHANGED <<may, job, process, streams, clocks, outcome, dropped, alive, row>>

\* Mutant: stderr is not awaited.
OutDone ==
  /\ loop.at = "drain" /\ pump["out"].at = "done"
  /\ PostResult("exit")
  /\ UNCHANGED <<may, job, process, streams, clocks, dropped, alive, row>>

\* await stdoutTask; await stderrTask
PumpsDone ==
  /\ loop.at = "drain" /\ Drained
  /\ PostResult("exit")
  /\ UNCHANGED <<may, job, process, streams, clocks, dropped, alive, row>>

-----------------------------------------------------------------------------
(* PostResult                                                               *)

\* result.php ends the row, whatever its status.
ResultLands ==
  /\ loop.at = "posting" /\ ~loop.landed
  /\ loop' = [loop EXCEPT !.landed = TRUE]
  /\ row' = [row EXCEPT !.status = "done", !.result = outcome, !.silent = 0]
  /\ UNCHANGED <<may, job, process, streams, clocks, outcome, dropped, alive>>

ResultAcked ==
  /\ loop.at = "posting" /\ loop.landed
  /\ loop' = At("over")
  /\ UNCHANGED <<may, job, process, streams, clocks, outcome, dropped, alive, row>>

\* Mutant: a failed post is given up at once, as that of a line of output is.
ResultFailsOnce ==
  /\ loop.at = "posting" /\ "result" \in may
  /\ loop' = At("over")
  /\ UNCHANGED <<may, job, process, streams, clocks, outcome, dropped, alive, row>>

\* The request fails, or its answer is lost.
ResultFails ==
  /\ loop.at = "posting" /\ "result" \in may
  /\ IF loop.attempt = ResultPostAttempts
       THEN loop' = At("over") /\ dropped' = TRUE
       ELSE /\ loop' = [At("backoff") EXCEPT !.attempt = loop.attempt]
            /\ UNCHANGED dropped
  /\ UNCHANGED <<may, job, process, streams, clocks, outcome, alive, row>>

Retry ==
  /\ loop.at = "backoff"
  /\ loop' = [At("posting") EXCEPT !.attempt = loop.attempt + 1]
  /\ UNCHANGED <<may, job, process, streams, clocks, outcome, dropped, alive, row>>

-----------------------------------------------------------------------------
(* The relay, the agent's end, and time                                     *)

\* cancel.php flags a running job, and bumps updated_at.
CancelPost ==
  /\ "cancel" \in may /\ row.status = "running" /\ ~row.cancel
  /\ row' = [row EXCEPT !.cancel = TRUE, !.silent = 0]
  /\ UNCHANGED <<may, job, process, streams, clocks, loop, outcome, dropped, alive>>

\* Mutant: a job to be cancelled is left to the agent.
ReapUncancelled ==
  /\ row.status = "running" /\ ~row.cancel /\ row.silent >= WedgedWindow(job.silence)
  /\ row' = [row EXCEPT !.status = "done", !.result = "wedged", !.silent = 0]
  /\ UNCHANGED <<may, job, process, streams, clocks, loop, outcome, dropped, alive>>

ReapWedgedJob ==
  /\ row.status = "running" /\ row.silent >= WedgedWindow(job.silence)
  /\ row' = [row EXCEPT !.status = "done", !.result = "wedged", !.silent = 0]
  /\ UNCHANGED <<may, job, process, streams, clocks, loop, outcome, dropped, alive>>

\* The agent is killed. Its child runs on.
AgentDies ==
  /\ "die" \in may /\ alive
  /\ alive' = FALSE
  /\ loop' = At("over")
  /\ UNCHANGED <<may, job, process, streams, clocks, outcome, dropped, row>>

PumpMayWait(s) ==
  \/ pump[s].at = "reading" /\ pipe[s] = 0 /\ ~AtEnd(s)
  \/ pump[s].at = "posting" /\ pump[s].for < RequestTimeout
  \/ pump[s].at = "done"

LoopMayWait ==
  \/ loop.at = "waiting" /\ child = "running" /\ loop.for < loop.budget
  \/ loop.at \in {"lookup", "checking", "posting"} /\ loop.for < RequestTimeout
  \/ loop.at = "backoff" /\ loop.for = 0
  \/ loop.at = "drain" /\ ~Drained
  \/ loop.at = "over"

Timed == {"waiting", "lookup", "checking", "posting", "backoff"}

Older(age) == IF age < Horizon THEN age + 1 ELSE age

Tick ==
  /\ alive => LoopMayWait /\ \A s \in Streams : PumpMayWait(s)
  /\ burst' = 0
  /\ quiet' = Older(quiet) /\ idle' = Older(idle)
  /\ row' = IF row.status = "running" THEN [row EXCEPT !.silent = Older(@)] ELSE row
  /\ loop' = IF loop.at \in Timed THEN [loop EXCEPT !.for = @ + 1] ELSE loop
  /\ pump' = [s \in Streams |-> IF alive /\ pump[s].at = "posting"
                                  THEN [pump[s] EXCEPT !.for = @ + 1] ELSE pump[s]]
  /\ UNCHANGED <<may, job, child, held, pipe, outcome, dropped, alive>>

-----------------------------------------------------------------------------
Init ==
  /\ may \in Settings
  /\ job \in [kind : Kinds, silence : Silences]
  /\ child = "none" /\ held = FALSE /\ burst = 0
  /\ pipe = [s \in Streams |-> 0]
  /\ pump = [s \in Streams |-> [Reading EXCEPT !.at = "done"]]
  /\ quiet = 0 /\ idle = 0
  /\ loop = At("fetched") /\ outcome = "none"
  /\ dropped = FALSE /\ alive = TRUE
  /\ row = [status |-> "running", result |-> "none", cancel |-> FALSE, silent |-> 0]

Pump(s) == Read(s) \/ Eof(s) \/ AppendLands(s) \/ AppendEnds(s)

Worker ==
  \/ LaunchFails \/ PayloadUnreadable \/ LookupSession \/ LookupEnds \/ Launch
  \/ WaitForExit \/ SilenceTrips \/ SeeExit \/ WaitElapses
  \/ CheckCancels \/ CheckPasses \/ PumpsDone
  \/ ResultLands \/ ResultAcked \/ ResultFails \/ Retry

Next ==
  \/ Worker
  \/ \E s \in Streams : Pump(s) \/ Write(s)
  \/ Exit \/ CancelPost \/ ReapWedgedJob \/ AgentDies \/ Tick

Spec == Init /\ [][Next]_vars

\* Tasks run, requests are answered or time out, the relay sweeps. Time passes,
\* however much the child writes. Its own exit is not a matter of fairness.
Fairness ==
  /\ \A s \in Streams : WF_vars(Pump(s))
  /\ WF_vars(Worker) /\ WF_vars(ReapWedgedJob) /\ SF_vars(Tick)

FairSpec == Spec /\ Fairness

-----------------------------------------------------------------------------
(* Properties                                                               *)

Age == 0 .. Horizon

PumpTask == [at : {"reading", "posting", "done"}, for : 0 .. RequestTimeout,
             landed : BOOLEAN]
Place == [at : Places, for : Nat, budget : 0 .. CancelPoll,
          attempt : 0 .. ResultPostAttempts, landed : BOOLEAN]
Row == [status : {"running", "done"}, result : Outcomes \cup {"wedged"},
        cancel : BOOLEAN, silent : Age]

TypeOK ==
  /\ may \in Settings
  /\ job \in [kind : Kinds, silence : Silences]
  /\ child \in {"none", "running", "exited", "killed"} /\ held \in BOOLEAN
  /\ burst \in 0 .. LinesPerTick
  /\ pipe \in [Streams -> 0 .. PipeCap]
  /\ pump \in [Streams -> PumpTask]
  /\ quiet \in Age /\ idle \in Age
  /\ loop \in Place
  /\ outcome \in Outcomes /\ dropped \in BOOLEAN /\ alive \in BOOLEAN
  /\ row \in Row

\* A job that keeps writing is never killed for silence: the loop finds the
\* timeout over only if the child has been quiet for that long, but for a line
\* that came this instant and a pump is about to read. A pump that is posting
\* does not read, so a timeout within one request's is another matter.
SilenceIsSilence ==
  alive /\ job.silence > RequestTimeout /\ loop.at = "top" /\ idle >= job.silence =>
    \/ quiet >= job.silence
    \/ \E s \in Streams : pump[s].at = "reading" /\ pipe[s] > 0

\* "this never reaps a job the agent is still legitimately running"
\* (reapWedgedJobs): no running child's row is old enough to be reaped.
RunningJobsAreNotWedged ==
  alive /\ child = "running" => row.silent < WedgedWindow(job.silence)

\* So it is if all output is posted, every post lands, and the relay's margin
\* spans the session lookup, the cancel check and the post that may each take
\* the time of a request between one landing and the next.
PostingJobsAreNotWedged ==
  /\ may \cap {"mute", "append"} = {}
  /\ WedgedWindow(job.silence) > job.silence + 3 * RequestTimeout
  => RunningJobsAreNotWedged

\* Neither the agent's timer nor the relay's ends a job that is heard of.
NoTalkingJobIsEnded == SilenceIsSilence /\ PostingJobsAreNotWedged

\* The result of a job that ran to its end is posted with all its output read
\* and appended.
ResultIsWhole ==
  alive /\ outcome = "exit" => \A s \in Streams : pipe[s] = 0 /\ pump[s].at = "done"

\* A worker is through with a job when the relay has its result, or every
\* attempt to post it has failed, or it could not make out the payload.
ResultsLand ==
  alive /\ loop.at = "over" /\ ~dropped /\ "garble" \notin may => row.status = "done" /\ row.result = outcome

\* A worker comes back, unless its job keeps writing or left its pipes open.
WorkersComeBack ==
  "linger" \in may \/ <>(loop.at = "over") \/ []<>(quiet = 0)

\* A cancelled job stops, however much it writes, if the checks get through.
CancelledJobsStop ==
  ("check" \notin may /\ alive /\ row.cancel) ~> (child # "running" \/ ~alive)

\* Dead agent, payload nobody can read, lost results or not, a silent job's row ends.
RowsEnd == <>(row.status = "done") \/ []<>(quiet = 0)
=============================================================================
