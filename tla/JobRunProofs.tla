---------------------------- MODULE JobRunProofs ----------------------------
(* Proofs about JobRun, for all times, limits and disturbances: what the    *)
(* worker knows of its process, what a result says, that a timeout means    *)
(* silence, and that the relay's margin is wide enough.                     *)
EXTENDS JobRun, TLAPS

-----------------------------------------------------------------------------
(* Types                                                                    *)

\* PostResult backs off only if an attempt is left.
AttemptsAreLeft == loop.at = "backoff" => loop.attempt < ResultPostAttempts

\* A dead agent's worker is nowhere.
DeadAgentsStop == ~alive => loop.at = "over"

TypeInv == TypeOK /\ AttemptsAreLeft /\ DeadAgentsStop

\* What the assumptions say of the constants.
LEMMA Constants ==
  /\ RequestTimeout \in Nat \ {0} /\ CancelPoll \in Nat \ {0}
  /\ ResultPostAttempts \in Nat \ {0} /\ PipeCap \in Nat \ {0}
  /\ LinesPerTick \in Nat \ {0} /\ Horizon \in Nat
BY TimesAssumption, HorizonAssumption

\* A job's silence timeout is a number below the horizon.
LEMMA SilenceType ==
  ASSUME job \in [kind : Kinds, silence : Silences]
  PROVE  /\ job.silence \in Nat \ {0}
         /\ job.silence + 3 * RequestTimeout < Horizon
BY JobsAssumption, HorizonAssumption

\* A place that is entered is a place.
LEMMA AtType ==
  ASSUME NEW place \in Places
  PROVE  /\ At(place) \in Place
         /\ At(place).at = place /\ At(place).attempt = 0
         /\ At(place).for = 0 /\ ~At(place).landed
BY Constants DEF At, Place

\* A first attempt to post is one.
LEMMA PostResultType ==
  ASSUME NEW result \in Outcomes, PostResult(result)
  PROVE  /\ loop' \in Place /\ loop'.at = "posting" /\ ~loop'.landed
         /\ outcome' = result
<1>1. "posting" \in Places
  BY DEF Places
<1>2. At("posting") \in Place /\ At("posting").at = "posting" /\ ~At("posting").landed
  BY <1>1, AtType
<1> QED
  BY <1>2, Constants DEF PostResult, Place

\* A pump starts a line as a pump.
LEMMA ReadingType ==
  /\ Reading \in PumpTask
  /\ [Reading EXCEPT !.at = "posting"] \in PumpTask
  /\ [Reading EXCEPT !.at = "done"] \in PumpTask
<1>1. 0 \in 0 .. RequestTimeout
  BY Constants
<1> QED
  BY <1>1 DEF Reading, PumpTask

\* What the relay writes to the row makes it a row.
LEMMA RowType ==
  ASSUME row \in Row, NEW result \in Outcomes \cup {"wedged"}
  PROVE  /\ [row EXCEPT !.silent = 0] \in Row
         /\ [row EXCEPT !.cancel = TRUE, !.silent = 0] \in Row
         /\ [row EXCEPT !.status = "done", !.result = result, !.silent = 0] \in Row
<1>1. 0 \in Age
  BY Constants DEF Age
<1> QED
  BY <1>1 DEF Row

\* The first state is well typed.
LEMMA InitTypes == Init => TypeInv
<1> SUFFICES ASSUME Init PROVE TypeInv
  OBVIOUS
<1>1. loop \in Place /\ loop.at = "fetched"
  BY AtType DEF Init, Places
<1>2. pump \in [Streams -> PumpTask]
  BY ReadingType DEF Init
<1>3. row \in Row /\ quiet \in Age /\ idle \in Age
  BY Constants DEF Init, Row, Age, Outcomes
<1>4. pipe \in [Streams -> 0 .. PipeCap] /\ burst \in 0 .. LinesPerTick
  BY Constants DEF Init
<1>5. /\ may \in Settings /\ job \in [kind : Kinds, silence : Silences]
      /\ child = "none" /\ held = FALSE /\ outcome = "none"
      /\ dropped = FALSE /\ alive = TRUE
  BY DEF Init
<1> QED
  BY <1>1, <1>2, <1>3, <1>4, <1>5
  DEF TypeInv, TypeOK, AttemptsAreLeft, DeadAgentsStop, Outcomes

\* Every step of the specification keeps the types.
LEMMA StepTypes == TypeInv /\ [Next]_vars => TypeInv'
<1> SUFFICES ASSUME TypeInv, [Next]_vars PROVE TypeInv'
  OBVIOUS
<1> USE DEF TypeInv, TypeOK, AttemptsAreLeft, DeadAgentsStop, process, streams, clocks
<1>0. /\ {"posting", "lookup", "launching", "top", "waiting", "drain", "checking",
           "over", "backoff"} \subseteq Places
      /\ {"error", "timeout", "cancelled", "exit"} \subseteq Outcomes
  BY DEF Places, Outcomes
<1>1. CASE LaunchFails
  BY <1>0, <1>1, PostResultType DEF LaunchFails
<1>2. CASE LookupSession \/ PayloadUnreadable
  BY <1>0, <1>2, AtType DEF LookupSession, PayloadUnreadable
<1>3. CASE LookupEnds
  BY <1>0, <1>3, AtType DEF LookupEnds
<1>4. CASE Launch
  BY <1>0, <1>4, AtType, ReadingType, Constants DEF Launch, Age
<1>5. CASE WaitForExit
  <2>1. loop' \in Place /\ loop'.at = "waiting"
    BY <1>0, <1>5, AtType, SilenceType, Constants DEF WaitForExit, Place, Age
  <2> QED
    BY <1>5, <2>1 DEF WaitForExit
<1>6. CASE SilenceTrips
  BY <1>0, <1>6, PostResultType DEF SilenceTrips, KillTree
<1>7. CASE SeeExit
  BY <1>0, <1>7, AtType DEF SeeExit
<1>8. CASE WaitElapses
  BY <1>0, <1>8, AtType DEF WaitElapses
<1>9. CASE CheckCancels
  BY <1>0, <1>9, PostResultType DEF CheckCancels, KillTree
<1>10. CASE CheckPasses
  BY <1>0, <1>10, AtType DEF CheckPasses
<1>11. CASE PumpsDone
  BY <1>0, <1>11, PostResultType DEF PumpsDone
<1>12. CASE ResultLands
  <2>1. loop' \in Place /\ loop'.at = "posting"
    BY <1>12 DEF ResultLands, Place
  <2>2. row' \in Row
    BY <1>12, RowType DEF ResultLands
  <2> QED
    BY <1>12, <2>1, <2>2 DEF ResultLands
<1>13. CASE ResultAcked
  BY <1>0, <1>13, AtType DEF ResultAcked
<1>14. CASE ResultFails
  <2>1. CASE loop.attempt = ResultPostAttempts
    BY <1>0, <1>14, <2>1, AtType DEF ResultFails
  <2>2. CASE loop.attempt # ResultPostAttempts
    <3>1. loop' \in Place /\ loop'.at = "backoff" /\ loop'.attempt = loop.attempt
      BY <1>0, <1>14, <2>2, AtType DEF ResultFails, Place
    <3>2. loop.attempt < ResultPostAttempts
      BY <2>2, Constants DEF Place
    <3> QED
      BY <1>14, <2>2, <3>1, <3>2 DEF ResultFails
  <2> QED
    BY <2>1, <2>2
<1>15. CASE Retry
  <2>1. loop.attempt + 1 \in 0 .. ResultPostAttempts
    BY <1>15, Constants DEF Retry, Place
  <2>2. loop' \in Place /\ loop'.at = "posting"
    BY <1>0, <1>15, <2>1, AtType DEF Retry, Place
  <2> QED
    BY <1>15, <2>2 DEF Retry
<1>16. ASSUME NEW s \in Streams, Read(s) PROVE TypeInv'
  <2>1. pipe' \in [Streams -> 0 .. PipeCap]
    BY <1>16, Constants DEF Read
  <2>2. pump' \in [Streams -> PumpTask]
    BY <1>16, ReadingType DEF Read
  <2> QED
    BY <1>16, <2>1, <2>2, Constants DEF Read, Age
<1>17. ASSUME NEW s \in Streams, Eof(s) PROVE TypeInv'
  <2>1. pump' \in [Streams -> PumpTask]
    BY <1>17 DEF Eof, PumpTask
  <2> QED
    BY <1>17, <2>1 DEF Eof
<1>18. ASSUME NEW s \in Streams, AppendLands(s) PROVE TypeInv'
  <2>1. pump' \in [Streams -> PumpTask]
    BY <1>18 DEF AppendLands, PumpTask
  <2>2. row' \in Row
    BY <1>18, Constants DEF AppendLands, Row, Age
  <2> QED
    BY <1>18, <2>1, <2>2 DEF AppendLands
<1>19. ASSUME NEW s \in Streams, AppendEnds(s) PROVE TypeInv'
  BY <1>19, ReadingType DEF AppendEnds
<1>20. ASSUME NEW s \in Streams, Write(s) PROVE TypeInv'
  BY <1>20, Constants DEF Write, Age
<1>21. CASE Exit
  BY <1>21 DEF Exit
<1>22. CASE CancelPost \/ ReapWedgedJob
  <2>1. CASE CancelPost
    <3>1. row' \in Row
      BY <2>1, RowType DEF CancelPost, Outcomes
    <3> QED
      BY <2>1, <3>1 DEF CancelPost
  <2>2. CASE ReapWedgedJob
    <3>1. row' \in Row
      BY <2>2, RowType DEF ReapWedgedJob, Outcomes
    <3> QED
      BY <2>2, <3>1 DEF ReapWedgedJob
  <2> QED
    BY <1>22, <2>1, <2>2
<1>23. CASE AgentDies
  BY <1>0, <1>23, AtType DEF AgentDies
<1>24. CASE Tick
  <2>1. pump' \in [Streams -> PumpTask]
    <3> SUFFICES ASSUME NEW s \in Streams PROVE pump'[s] \in PumpTask
      BY <1>24 DEF Tick
    <3>1. alive /\ pump[s].at = "posting" => pump[s].for + 1 \in 0 .. RequestTimeout
      BY <1>24, Constants DEF Tick, PumpMayWait, PumpTask
    <3> QED
      BY <1>24, <3>1 DEF Tick, PumpTask
  <2>2. loop' \in Place /\ loop'.at = loop.at /\ loop'.attempt = loop.attempt
    BY <1>24 DEF Tick, Place
  <2>3. row' \in Row /\ quiet' \in Age /\ idle' \in Age
    BY <1>24, Constants DEF Tick, Row, Age, Older
  <2> QED
    BY <1>24, <2>1, <2>2, <2>3, Constants DEF Tick
<1>25. CASE UNCHANGED vars
  BY <1>25 DEF vars
<1> QED
  BY <1>1, <1>2, <1>3, <1>4, <1>5, <1>6, <1>7, <1>8, <1>9, <1>10, <1>11, <1>12, <1>13,
     <1>14, <1>15, <1>16, <1>17, <1>18, <1>19, <1>20, <1>21, <1>22, <1>23, <1>24, <1>25
  DEF Next, Worker, Pump

\* Counters, clocks and places keep to their ranges: no attempt past the last.
THEOREM TypeCorrect == Spec => []TypeOK
<1>1. TypeInv => TypeOK
  BY DEF TypeInv
<1> QED
  BY InitTypes, StepTypes, <1>1, PTL DEF Spec

-----------------------------------------------------------------------------
(* What a result says                                                       *)

\* A pump is done when nothing can come any more.
DoneIsDone ==
  \A s \in Streams : pump[s].at = "done" => pipe[s] = 0 /\ child # "running" /\ ~held

\* A worker decides on the outcome once, as it leaves the wait loop.
Early == {"fetched", "lookup", "launching"}
Waiting == {"top", "waiting", "checking", "drain"}
DecidesOnce ==
  /\ loop.at \in Early => child = "none"
  /\ loop.at \in Early \cup Waiting => outcome = "none"

\* An outcome "exit" is decided when the pumps are done.
ExitsAreDrained == alive /\ outcome = "exit" => Drained

ResultInv == DoneIsDone /\ DecidesOnce /\ ExitsAreDrained

\* What a pump does with a stream keeps all of it.
LEMMA PumpKeepsResult ==
  ASSUME TypeInv, ResultInv, NEW s \in Streams, Pump(s) \/ Write(s)
  PROVE  ResultInv'
<1> USE DEF TypeInv, TypeOK, ResultInv, DoneIsDone, DecidesOnce, ExitsAreDrained, Drained,
            process, streams, clocks
<1>1. CASE Read(s)
  BY <1>1 DEF Read, Reading
<1>2. CASE Eof(s)
  BY <1>2 DEF Eof, AtEnd
<1>3. CASE AppendLands(s)
  <2>1. \A t \in Streams : pump'[t].at = pump[t].at
    BY <1>3 DEF AppendLands, PumpTask
  <2> QED
    BY <1>3, <2>1 DEF AppendLands
<1>4. CASE AppendEnds(s)
  BY <1>4 DEF AppendEnds, Reading
<1>5. CASE Write(s)
  BY <1>5 DEF Write
<1> QED
  BY <1>1, <1>2, <1>3, <1>4, <1>5 DEF Pump

\* Every other step keeps to it too.
LEMMA StepResult == TypeInv /\ ResultInv /\ [Next]_vars => ResultInv'
<1> SUFFICES ASSUME TypeInv, ResultInv, [Next]_vars PROVE ResultInv'
  OBVIOUS
<1> USE DEF TypeInv, TypeOK, DeadAgentsStop, ResultInv, DoneIsDone, DecidesOnce,
            ExitsAreDrained, Drained, process, streams, clocks, Early, Waiting
<1>0. \A x \in Places : At(x).at = x
  BY AtType
<1>1. CASE LaunchFails \/ PumpsDone
  BY <1>1, PostResultType DEF LaunchFails, PumpsDone, Outcomes
<1>2. CASE SilenceTrips \/ CheckCancels
  BY <1>2, PostResultType DEF SilenceTrips, CheckCancels, KillTree, Outcomes
<1>3. CASE Launch
  BY <1>0, <1>3 DEF Launch, Reading, Places
<1>4. CASE LookupSession \/ LookupEnds \/ PayloadUnreadable
  BY <1>0, <1>4 DEF LookupSession, LookupEnds, PayloadUnreadable, Places
<1>5. CASE WaitForExit
  <2>1. loop'.at = "waiting"
    BY <1>0, <1>5, AtType DEF WaitForExit, Places, Place
  <2> QED
    BY <1>5, <2>1 DEF WaitForExit
<1>6. CASE SeeExit \/ WaitElapses \/ CheckPasses
  BY <1>0, <1>6 DEF SeeExit, WaitElapses, CheckPasses, Places
<1>7. CASE ResultLands \/ ResultAcked \/ ResultFails \/ Retry
  <2>1. loop'.at \in {"posting", "over", "backoff"}
    BY <1>0, <1>7, AtType DEF ResultLands, ResultAcked, ResultFails, Retry, Places, Place
  <2> QED
    BY <1>7, <2>1 DEF ResultLands, ResultAcked, ResultFails, Retry
<1>8. ASSUME NEW s \in Streams, Pump(s) \/ Write(s) PROVE ResultInv'
  BY <1>8, PumpKeepsResult
<1>9. CASE Exit
  BY <1>9 DEF Exit
<1>10. CASE CancelPost \/ ReapWedgedJob
  BY <1>10 DEF CancelPost, ReapWedgedJob
<1>11. CASE AgentDies
  BY <1>0, <1>11 DEF AgentDies, Places
<1>12. CASE Tick
  <2>1. loop'.at = loop.at /\ \A s \in Streams : pump'[s].at = pump[s].at
    BY <1>12 DEF Tick, Place, PumpTask
  <2> QED
    BY <1>12, <2>1 DEF Tick
<1>13. CASE UNCHANGED vars
  BY <1>13 DEF vars
<1> QED
  BY <1>1, <1>2, <1>3, <1>4, <1>5, <1>6, <1>7, <1>8, <1>9, <1>10, <1>11, <1>12, <1>13
  DEF Next, Worker

\* The result of a job that ran to its end has all of its output.
THEOREM WholeResults == Spec => []ResultIsWhole
<1>1. Init => ResultInv
  BY AtType DEF Init, ResultInv, DoneIsDone, DecidesOnce, ExitsAreDrained, Early, Waiting,
     Reading, Places
<1>2. TypeInv /\ ResultInv => ResultIsWhole
  BY DEF TypeInv, ResultInv, DoneIsDone, ExitsAreDrained, ResultIsWhole, Drained
<1> QED
  BY InitTypes, StepTypes, StepResult, <1>1, <1>2, PTL DEF Spec

-----------------------------------------------------------------------------
(* A timeout means silence. A line that was written after the last one read *)
(* waits in a pipe. If its pump posts, the post began no earlier than that  *)
(* last read, so no more than RequestTimeout has gone by since.             *)

PostsSinceLastRead == alive => \A s \in Streams : pump[s].at = "posting" => idle <= pump[s].for

LaterLinesWait == alive /\ quiet < idle => \E s \in Streams : pipe[s] > 0

UnreadLinesAreRecent ==
  alive /\ quiet < idle =>
    \/ idle <= RequestTimeout
    \/ \E s \in Streams : pump[s].at = "reading" /\ pipe[s] > 0

SilenceInv == PostsSinceLastRead /\ LaterLinesWait /\ UnreadLinesAreRecent

\* A pump that reads sets the clock to zero; one that ends a post is young enough.
LEMMA PumpKeepsSilence ==
  ASSUME TypeInv, ResultInv, SilenceInv, NEW s \in Streams, Pump(s) \/ Write(s)
  PROVE  SilenceInv'
<1> USE Constants DEF TypeInv, TypeOK, ResultInv, DoneIsDone, SilenceInv, PostsSinceLastRead,
        LaterLinesWait, UnreadLinesAreRecent, process, streams, clocks, Age
<1>1. CASE Read(s)
  <2>1. idle' = 0 /\ pump' \in [Streams -> PumpTask] /\ quiet' \in Nat
    BY <1>1, ReadingType DEF Read
  <2> QED
    BY <2>1 DEF PumpTask
<1>2. CASE Eof(s)
  <2>1. \A t \in Streams : pump'[t].for = pump[t].for
    BY <1>2 DEF Eof, PumpTask
  <2>2. \A t \in Streams : pump'[t].at \in {pump[t].at, "done"}
    BY <1>2 DEF Eof, PumpTask
  <2>3. \A t \in Streams : pipe[t] > 0 => pump'[t].at = pump[t].at
    BY <1>2 DEF Eof, AtEnd, PumpTask
  <2> QED
    BY <1>2, <2>1, <2>2, <2>3 DEF Eof
<1>3. CASE AppendLands(s)
  <2>1. \A t \in Streams : pump'[t].at = pump[t].at /\ pump'[t].for = pump[t].for
    BY <1>3 DEF AppendLands, PumpTask
  <2> QED
    BY <1>3, <2>1 DEF AppendLands
<1>4. CASE AppendEnds(s)
  <2>1. idle <= RequestTimeout
    BY <1>4 DEF AppendEnds, PumpTask
  <2>2. \A t \in Streams : pump'[t].at = "posting" => pump'[t] = pump[t]
    BY <1>4 DEF AppendEnds, Reading
  <2> QED
    BY <1>4, <2>1, <2>2 DEF AppendEnds
<1>5. CASE Write(s)
  <2>1. pump[s].at # "done"
    BY <1>5 DEF Write
  <2>2. idle <= RequestTimeout \/ pump[s].at = "reading"
    BY <1>5, <2>1 DEF Write, PumpTask
  <2>3. pipe'[s] > 0
    BY <1>5 DEF Write
  <2> QED
    BY <1>5, <2>2, <2>3 DEF Write
<1> QED
  BY <1>1, <1>2, <1>3, <1>4, <1>5 DEF Pump

\* Time passes only if a pump with a line to read is posting, and still in time.
LEMMA TickKeepsSilence ==
  ASSUME TypeInv, ResultInv, SilenceInv, Tick
  PROVE  SilenceInv'
<1> USE Constants DEF TypeInv, TypeOK, ResultInv, DoneIsDone, SilenceInv, PostsSinceLastRead,
        LaterLinesWait, UnreadLinesAreRecent, Age
<1>1. /\ alive' = alive /\ pipe' = pipe
      /\ idle' <= idle + 1 /\ (quiet' < idle' => quiet < idle)
      /\ idle' \in Nat /\ quiet' \in Nat
  BY DEF Tick, Older
<1>2. ASSUME alive, NEW s \in Streams, pump[s].at = "posting"
      PROVE  pump'[s].at = "posting" /\ pump'[s].for = pump[s].for + 1
  BY <1>2 DEF Tick, PumpTask
<1>3. ASSUME NEW s \in Streams PROVE pump'[s].at = pump[s].at
  BY DEF Tick, PumpTask
<1>4. PostsSinceLastRead'
  BY <1>1, <1>2, <1>3 DEF PumpTask
<1>5. LaterLinesWait'
  BY <1>1
<1>6. ASSUME alive, quiet < idle PROVE idle' <= RequestTimeout
  <2>1. PICK s \in Streams : pipe[s] > 0
    BY <1>6
  <2>2. pump[s].at = "posting" /\ pump[s].for < RequestTimeout
    BY <1>6, <2>1 DEF Tick, PumpMayWait
  <2>3. idle < RequestTimeout
    BY <1>6, <2>2 DEF PumpTask
  <2> QED
    BY <1>1, <2>3
<1> QED
  BY <1>1, <1>4, <1>5, <1>6

\* Every other step leaves the pumps alone, or starts them.
LEMMA StepSilence == TypeInv /\ ResultInv /\ SilenceInv /\ [Next]_vars => SilenceInv'
<1> SUFFICES ASSUME TypeInv, ResultInv, SilenceInv, [Next]_vars PROVE SilenceInv'
  OBVIOUS
<1> USE DEF SilenceInv, PostsSinceLastRead, LaterLinesWait, UnreadLinesAreRecent,
        process, streams, clocks
<1>1. CASE Launch
  BY <1>1 DEF Launch, Reading
<1>2. CASE /\ Worker \/ Exit \/ CancelPost \/ ReapWedgedJob
           /\ ~Launch
  BY <1>2 DEF Worker, LaunchFails, PayloadUnreadable, LookupSession, LookupEnds, WaitForExit, SilenceTrips,
     SeeExit, WaitElapses, CheckCancels, CheckPasses, PumpsDone, ResultLands, ResultAcked,
     ResultFails, Retry, Exit, CancelPost, ReapWedgedJob
<1>3. CASE AgentDies
  BY <1>3 DEF AgentDies
<1>4. ASSUME NEW s \in Streams, Pump(s) \/ Write(s) PROVE SilenceInv'
  BY <1>4, PumpKeepsSilence
<1>5. CASE Tick
  BY <1>5, TickKeepsSilence
<1>6. CASE UNCHANGED vars
  BY <1>6 DEF vars
<1> QED
  BY <1>1, <1>2, <1>3, <1>4, <1>5, <1>6 DEF Next, Worker

\* A job that is killed for silence was silent for its whole timeout, whatever
\* the pumps were doing, if the timeout is longer than a request's.
THEOREM TimeoutsAreSilence == Spec => []SilenceIsSilence
<1>1. Init => SilenceInv
  BY DEF Init, SilenceInv, PostsSinceLastRead, LaterLinesWait, UnreadLinesAreRecent, Reading
<1>2. Init => ResultInv
  BY AtType DEF Init, ResultInv, DoneIsDone, DecidesOnce, ExitsAreDrained, Early, Waiting,
     Reading, Places
<1>3. TypeInv /\ SilenceInv => SilenceIsSilence
  <2> SUFFICES ASSUME TypeInv, SilenceInv, alive, job.silence > RequestTimeout,
                      idle >= job.silence
               PROVE  \/ quiet >= job.silence
                      \/ \E s \in Streams : pump[s].at = "reading" /\ pipe[s] > 0
    BY DEF SilenceIsSilence
  <2>1. job.silence \in Nat /\ quiet \in Nat /\ idle \in Nat
    BY SilenceType, Constants DEF TypeInv, TypeOK, Age
  <2> QED
    BY <2>1, Constants DEF SilenceInv, UnreadLinesAreRecent
<1> QED
  BY InitTypes, StepTypes, StepResult, StepSilence, <1>1, <1>2, <1>3, PTL DEF Spec

-----------------------------------------------------------------------------
(* The relay's margin is wide enough. While no line is on its way, the row  *)
(* is no older than the last line read, or than the lookup before the first.*)
(* The first line on its way was read before the wait loop gave up, one     *)
(* cancel check past the timeout at most, and lands a request's time later. *)

\* Nothing is lost on the way to the relay.
Posts == alive /\ may \cap {"mute", "append"} = {}

OnItsWay(s) == pump[s].at = "posting" /\ ~pump[s].landed

\* Streams that are not posted stay empty.
MuteStreamsAreEmpty ==
  "mute" \notin may => \A s \in Streams : ~Posted(s) => pipe[s] = 0

\* Where the worker is while its child runs, and how long it has been idle.
LoopKeepsTime ==
  alive =>
    /\ child = "running" => loop.at \in {"top", "waiting", "checking"}
    /\ loop.at = "top" => idle <= job.silence + RequestTimeout
    /\ loop.at = "waiting" => /\ loop.for <= loop.budget
                             /\ idle + loop.budget <= job.silence + loop.for
    /\ loop.at = "checking" => /\ loop.for <= RequestTimeout
                              /\ idle <= job.silence + loop.for

\* How old the row may be before the process is there.
RowIsFreshAtLaunch ==
  alive =>
    /\ loop.at = "fetched" => row.silent = 0
    /\ loop.at = "lookup" => row.silent <= loop.for /\ loop.for <= RequestTimeout
    /\ loop.at = "launching" => row.silent <= RequestTimeout

\* How old it may be while the process runs.
RowIsKeptFresh ==
  Posts /\ child = "running" =>
    \/ /\ \A s \in Streams : ~OnItsWay(s)
       /\ row.silent <= idle + RequestTimeout
    \/ \E s \in Streams : /\ OnItsWay(s)
                          /\ row.silent <= pump[s].for + job.silence + 2 * RequestTimeout

\* A row that has ended is not aged.
EndedRowsAreFresh == row.status = "done" => row.silent = 0

WedgeInv == /\ MuteStreamsAreEmpty /\ LoopKeepsTime /\ RowIsFreshAtLaunch
            /\ RowIsKeptFresh /\ EndedRowsAreFresh

\* What the type invariant says of the times.
LEMMA Numbers ==
  ASSUME TypeInv
  PROVE  /\ RequestTimeout \in Nat /\ Horizon \in Nat
         /\ job.silence \in Nat /\ job.silence + 3 * RequestTimeout < Horizon
         /\ idle \in Nat /\ idle <= Horizon /\ row.silent \in Nat
         /\ loop.for \in Nat /\ loop.budget \in Nat
         /\ \A s \in Streams : pump[s].for \in Nat /\ pump[s].for <= RequestTimeout
BY SilenceType, Constants DEF TypeInv, TypeOK, Age, PumpTask, Place, Row

\* While the process runs the wait loop bounds the time since the last line.
LEMMA IdleBound ==
  ASSUME TypeInv, WedgeInv, alive, child = "running"
  PROVE  idle <= job.silence + RequestTimeout
BY Numbers DEF WedgeInv, LoopKeepsTime

\* A line is on its way from its reading to its landing, which freshens the row.
LEMMA PumpKeepsWedge ==
  ASSUME TypeInv, WedgeInv, NEW s \in Streams, Pump(s) \/ Write(s)
  PROVE  WedgeInv'
<1>0. MuteStreamsAreEmpty'
  BY DEF WedgeInv, MuteStreamsAreEmpty, Pump, Read, Eof, AppendLands, AppendEnds, Write,
     Posted, TypeInv, TypeOK, streams, clocks
<1>1. UNCHANGED <<may, job, loop, alive>> /\ idle' \in {idle, 0} /\ child' = child
  BY DEF Pump, Read, Eof, AppendLands, AppendEnds, Write, process, streams, clocks
<1>2. LoopKeepsTime'
  BY <1>1, Numbers DEF WedgeInv, LoopKeepsTime
<1>3. row' = row \/ (row.status = "running" /\ row' = [row EXCEPT !.silent = 0])
  BY DEF Pump, Read, Eof, AppendLands, AppendEnds, Write, process, streams, clocks
<1>4. /\ row'.status = row.status /\ row'.silent \in {row.silent, 0}
  BY <1>3 DEF TypeInv, TypeOK, Row
<1>5. RowIsFreshAtLaunch' /\ EndedRowsAreFresh'
  BY <1>1, <1>4, Numbers DEF WedgeInv, RowIsFreshAtLaunch, EndedRowsAreFresh
<1>6. ASSUME Posts, child = "running" PROVE RowIsKeptFresh'
  <2> USE <1>6, Numbers DEF Posts, RowIsKeptFresh, OnItsWay
  <2>1. CASE Read(s)
    <3>1. Posted(s)
      BY <2>1 DEF Read, WedgeInv, MuteStreamsAreEmpty, TypeInv, TypeOK
    <3>2. /\ pump' = [pump EXCEPT ![s] = [Reading EXCEPT !.at = "posting"]]
          /\ row' = row /\ pump[s].at = "reading"
      BY <2>1, <3>1 DEF Read
    <3>3. /\ OnItsWay(s)' /\ pump'[s].for = 0
          /\ \A t \in Streams \ {s} : pump'[t] = pump[t]
      BY <3>2, ReadingType DEF Reading, TypeInv, TypeOK
    <3>4. CASE \A t \in Streams : ~OnItsWay(t)
      <4>1. row.silent <= job.silence + 2 * RequestTimeout
        BY <3>4, IdleBound DEF WedgeInv
      <4> QED
        BY <1>1, <3>2, <3>3, <4>1
    <3>5. CASE \E t \in Streams : OnItsWay(t)
      <4>1. PICK t \in Streams : /\ OnItsWay(t)
                                /\ row.silent <= pump[t].for + job.silence + 2 * RequestTimeout
        BY <3>5 DEF WedgeInv
      <4>2. t # s
        BY <3>2, <4>1
      <4> QED
        BY <1>1, <3>2, <3>3, <4>1, <4>2
    <3> QED
      BY <3>4, <3>5
  <2>2. CASE Eof(s)
    <3>1. row' = row /\ idle' = idle /\ \A t \in Streams : OnItsWay(t)' <=> OnItsWay(t)
      BY <2>2 DEF Eof, clocks, TypeInv, TypeOK, PumpTask
    <3>2. \A t \in Streams : pump'[t].for = pump[t].for
      BY <2>2 DEF Eof, TypeInv, TypeOK, PumpTask
    <3> QED
      BY <1>1, <3>1, <3>2 DEF WedgeInv
  <2>3. CASE AppendLands(s)
    <3>1. row'.silent = 0
      BY <2>3 DEF AppendLands, WedgeInv, EndedRowsAreFresh, TypeInv, TypeOK, Row
    <3>2. pump' \in [Streams -> PumpTask] /\ idle' = idle
      BY <2>3, StepTypes DEF AppendLands, clocks, TypeInv, TypeOK, Next, Pump
    <3> QED
      BY <1>1, <3>1, <3>2 DEF PumpTask
  <2>4. CASE AppendEnds(s)
    <3>1. /\ row' = row /\ idle' = idle
          /\ \A t \in Streams : /\ OnItsWay(t)' <=> OnItsWay(t)
                                /\ OnItsWay(t) => pump'[t] = pump[t]
      BY <2>4 DEF AppendEnds, clocks, Reading, TypeInv, TypeOK
    <3> QED
      BY <1>1, <3>1 DEF WedgeInv
  <2>5. CASE Write(s)
    BY <1>1, <2>5 DEF Write, WedgeInv
  <2> QED
    BY <2>1, <2>2, <2>3, <2>4, <2>5 DEF Pump
<1>7. RowIsKeptFresh'
  BY <1>1, <1>6 DEF RowIsKeptFresh, Posts
<1> QED
  BY <1>0, <1>2, <1>5, <1>7 DEF WedgeInv

\* The row ages with the worker's clock, or with the post of a line.
LEMMA TickKeepsWedge ==
  ASSUME TypeInv, WedgeInv, Tick
  PROVE  WedgeInv'
<1>1. /\ UNCHANGED <<may, job, child, pipe, alive>> /\ row'.status = row.status
      /\ row'.silent <= row.silent + 1 /\ (row.status = "done" => row' = row)
  BY Numbers DEF Tick, Older, TypeInv, TypeOK, Row
<1>2. loop'.at = loop.at /\ loop'.budget = loop.budget
      /\ loop'.for = IF loop.at \in Timed THEN loop.for + 1 ELSE loop.for
  BY DEF Tick, TypeInv, TypeOK, Place
<1>3. idle' <= idle + 1 /\ (idle < Horizon => idle' = idle + 1)
  BY Numbers DEF Tick, Older
<1>4. alive => LoopMayWait
  BY DEF Tick
<1>5. MuteStreamsAreEmpty' /\ EndedRowsAreFresh'
  BY <1>1 DEF WedgeInv, MuteStreamsAreEmpty, Posted, EndedRowsAreFresh
<1>6. LoopKeepsTime'
  BY <1>1, <1>2, <1>3, <1>4, Numbers
  DEF WedgeInv, LoopKeepsTime, LoopMayWait, Timed, Tick
<1>7. RowIsFreshAtLaunch'
  <2>1. row'.silent \in Nat
    BY Numbers DEF Tick, Older, TypeInv, TypeOK, Row
  <2> QED
    BY <1>1, <1>2, <1>4, <2>1, Numbers DEF WedgeInv, RowIsFreshAtLaunch, LoopMayWait, Timed
<1>8. ASSUME Posts, child = "running" PROVE RowIsKeptFresh'
  <2>1. \A s \in Streams : OnItsWay(s)' <=> OnItsWay(s)
    BY DEF Tick, OnItsWay, TypeInv, TypeOK, PumpTask
  <2>2. \A s \in Streams : OnItsWay(s) => pump'[s].for = pump[s].for + 1
    BY <1>8 DEF Tick, OnItsWay, Posts, TypeInv, TypeOK, PumpTask
  <2>3. idle < Horizon
    BY <1>8, IdleBound, Numbers DEF Posts
  <2>4. row'.silent \in Nat
    BY Numbers DEF Tick, Older, TypeInv, TypeOK, Row
  <2> QED
    BY <1>1, <1>3, <1>8, <2>1, <2>2, <2>3, <2>4, Numbers DEF WedgeInv, RowIsKeptFresh
<1>9. RowIsKeptFresh'
  BY <1>1, <1>8 DEF RowIsKeptFresh, Posts
<1> QED
  BY <1>5, <1>6, <1>7, <1>9 DEF WedgeInv

\* Every step keeps the row as young as that.
LEMMA StepWedge == TypeInv /\ ResultInv /\ WedgeInv /\ [Next]_vars => WedgeInv'
<1> SUFFICES ASSUME TypeInv, ResultInv, WedgeInv, [Next]_vars PROVE WedgeInv'
  OBVIOUS
<1> USE DEF process, streams, clocks
<1>0. \A x \in Places : At(x).at = x /\ At(x).for = 0
  BY AtType
<1> DEFINE Still == UNCHANGED <<may, job, pipe, pump, idle, alive>>
\* Steps that move the worker and leave the row and the pumps alone.
<1>a. ASSUME Still, child' = child \/ child' # "running", LoopKeepsTime', UNCHANGED row,
             loop'.at \notin {"fetched", "lookup", "launching"}
      PROVE  WedgeInv'
  BY <1>a DEF WedgeInv, MuteStreamsAreEmpty, Posted, RowIsFreshAtLaunch, RowIsKeptFresh,
     Posts, OnItsWay, EndedRowsAreFresh
<1>1. CASE LaunchFails \/ PumpsDone
  <2>1. Still /\ UNCHANGED <<child, row>> /\ loop'.at = "posting" /\ child # "running"
    BY <1>1, PostResultType
    DEF LaunchFails, PumpsDone, Outcomes, ResultInv, DecidesOnce, Early, DoneIsDone, Drained, Streams
  <2> QED
    BY <1>a, <2>1 DEF LoopKeepsTime
<1>2. CASE SilenceTrips \/ CheckCancels
  <2>1. Still /\ UNCHANGED row /\ loop'.at = "posting" /\ child' # "running"
    BY <1>2, PostResultType DEF SilenceTrips, CheckCancels, KillTree, Outcomes
  <2> QED
    BY <1>a, <2>1 DEF LoopKeepsTime
<1>3. CASE LookupSession \/ LookupEnds
  <2>1. Still /\ UNCHANGED <<child, row>>
    BY <1>3 DEF LookupSession, LookupEnds
  <2>2. /\ loop'.for = 0
        /\ \/ loop.at = "fetched" /\ loop'.at = "lookup"
           \/ loop.at = "lookup" /\ loop'.at = "launching"
    BY <1>0, <1>3 DEF LookupSession, LookupEnds, Places
  <2>3. child # "running"
    BY <2>2 DEF ResultInv, DecidesOnce, Early
  <2> QED
    BY <2>1, <2>2, <2>3, Numbers
    DEF WedgeInv, MuteStreamsAreEmpty, Posted, LoopKeepsTime, RowIsFreshAtLaunch,
        RowIsKeptFresh, EndedRowsAreFresh
<1>4. CASE Launch
  <2>1. /\ UNCHANGED <<may, job, pipe, alive, row>> /\ idle' = 0
        /\ loop'.at = "top" /\ \A s \in Streams : ~OnItsWay(s)'
    BY <1>0, <1>4 DEF Launch, Places, OnItsWay, Reading
  <2>2. alive => row.silent <= RequestTimeout
    BY <1>4, Numbers DEF Launch, WedgeInv, RowIsFreshAtLaunch
  <2> QED
    BY <2>1, <2>2, Numbers
    DEF WedgeInv, MuteStreamsAreEmpty, Posted, LoopKeepsTime, RowIsFreshAtLaunch,
        RowIsKeptFresh, Posts, EndedRowsAreFresh
<1>5. CASE WaitForExit
  <2>1. /\ loop'.at = "waiting" /\ loop'.for = 0
        /\ loop'.budget <= job.silence - idle
    BY <1>0, <1>5, AtType, Numbers, Constants DEF WaitForExit, Places, Place
  <2>2. Still /\ UNCHANGED <<child, row>> /\ loop'.budget \in Nat
    BY <1>5, StepTypes, Constants DEF WaitForExit, TypeInv, TypeOK, Place
  <2>3. LoopKeepsTime'
    BY <2>1, <2>2, Numbers DEF LoopKeepsTime
  <2> QED
    BY <1>a, <2>1, <2>2, <2>3
<1>b. CASE PayloadUnreadable
  <2>1. Still /\ UNCHANGED <<child, row>> /\ loop'.at = "over" /\ child # "running"
    BY <1>0, <1>b DEF PayloadUnreadable, Places, ResultInv, DecidesOnce, Early
  <2> QED
    BY <1>a, <2>1 DEF LoopKeepsTime
<1>6. CASE SeeExit \/ WaitElapses \/ CheckPasses
  <2>1. Still /\ UNCHANGED <<child, row>> /\ loop'.for = 0
    BY <1>0, <1>6 DEF SeeExit, WaitElapses, CheckPasses, Places
  <2>2. \/ loop'.at = "drain" /\ child # "running"
        \/ /\ loop.at = "waiting" /\ loop.for = loop.budget
           /\ loop'.at = "checking"
        \/ loop.at = "checking" /\ loop'.at = "top"
    BY <1>0, <1>6 DEF SeeExit, WaitElapses, CheckPasses, Places
  <2>3. LoopKeepsTime'
    BY <2>1, <2>2, Numbers DEF WedgeInv, LoopKeepsTime
  <2> QED
    BY <1>a, <2>1, <2>2, <2>3
<1>7. CASE ResultLands \/ ResultAcked \/ ResultFails \/ Retry
  <2>1. loop'.at \in {"posting", "over", "backoff"} /\ loop.at \in {"posting", "backoff"}
    BY <1>0, <1>7, AtType
    DEF ResultLands, ResultAcked, ResultFails, Retry, Places, Place, TypeInv, TypeOK
  <2>2. Still /\ child' = child
    BY <1>7 DEF ResultLands, ResultAcked, ResultFails, Retry
  <2>3. row' = row \/ row'.silent = 0
    BY <1>7 DEF ResultLands, ResultAcked, ResultFails, Retry, TypeInv, TypeOK, Row
  <2>4. alive => child # "running"
    BY <2>1 DEF WedgeInv, LoopKeepsTime
  <2> QED
    BY <2>1, <2>2, <2>3, <2>4
    DEF WedgeInv, MuteStreamsAreEmpty, Posted, LoopKeepsTime, RowIsFreshAtLaunch,
        RowIsKeptFresh, Posts, EndedRowsAreFresh
<1>8. ASSUME NEW s \in Streams, Pump(s) \/ Write(s) PROVE WedgeInv'
  BY <1>8, PumpKeepsWedge
<1>9. CASE Exit
  <2>1. Still /\ child' # "running" /\ UNCHANGED <<row, loop>>
    BY <1>9 DEF Exit
  <2>2. loop.at \notin {"fetched", "lookup", "launching"}
    BY <1>9 DEF Exit, ResultInv, DecidesOnce, Early
  <2> QED
    BY <1>a, <2>1, <2>2 DEF WedgeInv, LoopKeepsTime
<1>10. CASE CancelPost \/ ReapWedgedJob
  <2>1. Still /\ UNCHANGED <<child, loop>> /\ row'.silent = 0
    BY <1>10 DEF CancelPost, ReapWedgedJob, TypeInv, TypeOK, Row
  <2> QED
    BY <2>1, Numbers
    DEF WedgeInv, MuteStreamsAreEmpty, Posted, LoopKeepsTime, RowIsFreshAtLaunch,
        RowIsKeptFresh, Posts, OnItsWay, EndedRowsAreFresh
<1>11. CASE AgentDies
  BY <1>11 DEF AgentDies, WedgeInv, MuteStreamsAreEmpty, Posted, LoopKeepsTime,
     RowIsFreshAtLaunch, RowIsKeptFresh, Posts, EndedRowsAreFresh
<1>12. CASE Tick
  BY <1>12, TickKeepsWedge
<1>13. CASE UNCHANGED vars
  BY <1>13 DEF vars, WedgeInv, MuteStreamsAreEmpty, Posted, LoopKeepsTime,
     RowIsFreshAtLaunch, RowIsKeptFresh, Posts, OnItsWay, EndedRowsAreFresh
<1> QED
  BY <1>1, <1>2, <1>3, <1>4, <1>5, <1>6, <1>7, <1>8, <1>9, <1>10, <1>11, <1>12, <1>13, <1>b
  DEF Next, Worker

\* The relay does not reap a job whose process still runs, if its output is
\* posted and its margin spans the silence timeout and three slow requests.
THEOREM WedgedJobsHaveStopped == Spec => []PostingJobsAreNotWedged
<1>1. Init => WedgeInv
  BY AtType DEF Init, WedgeInv, MuteStreamsAreEmpty, LoopKeepsTime, RowIsFreshAtLaunch,
     RowIsKeptFresh, EndedRowsAreFresh, Places
<1>2. Init => ResultInv
  BY AtType DEF Init, ResultInv, DoneIsDone, DecidesOnce, ExitsAreDrained, Early, Waiting,
     Reading, Places
<1>3. TypeInv /\ WedgeInv => PostingJobsAreNotWedged
  <2> SUFFICES ASSUME TypeInv, WedgeInv, may \cap {"mute", "append"} = {},
                      WedgedWindow(job.silence) > job.silence + 3 * RequestTimeout,
                      alive, child = "running"
               PROVE  row.silent < WedgedWindow(job.silence)
    BY DEF PostingJobsAreNotWedged, RunningJobsAreNotWedged
  <2>1. row.silent <= job.silence + 3 * RequestTimeout
    BY IdleBound, Numbers DEF WedgeInv, RowIsKeptFresh, Posts
  <2>2. WedgedWindow(job.silence) \in Int
    BY Numbers, TimesAssumption DEF WedgedWindow
  <2> QED
    BY <2>1, <2>2, Numbers
<1> QED
  BY InitTypes, StepTypes, StepResult, StepWedge, <1>1, <1>2, <1>3, PTL DEF Spec

\* Neither the agent's timer nor the relay's sweep ends a job that is heard of.
THEOREM TalkingJobsRunOn == Spec => []NoTalkingJobIsEnded
BY TimeoutsAreSilence, WedgedJobsHaveStopped, PTL DEF NoTalkingJobIsEnded

-----------------------------------------------------------------------------
(* What becomes of a result                                                 *)

\* While the post of a result that the relay has taken is unanswered, and ever
\* after, the row holds what the worker decided.
LandedIsKept ==
  loop.landed => loop.at = "posting" /\ row.status = "done" /\ row.result = outcome

LandedInv == LandedIsKept /\ ResultsLand

\* A step that goes to another place before the end leaves no landed post.
LEMMA StepLanded == TypeInv /\ LandedInv /\ [Next]_vars => LandedInv'
<1> SUFFICES ASSUME TypeInv, LandedInv, [Next]_vars PROVE LandedInv'
  OBVIOUS
<1> USE DEF TypeInv, TypeOK, DeadAgentsStop, LandedInv, LandedIsKept, ResultsLand,
            process, streams, clocks
<1>0. \A x \in Places : At(x).at = x /\ ~At(x).landed
  BY AtType
<1>1. CASE LaunchFails \/ SilenceTrips \/ CheckCancels \/ PumpsDone
  <2>1. loop'.at = "posting" /\ ~loop'.landed
    BY <1>1, PostResultType
    DEF LaunchFails, SilenceTrips, CheckCancels, PumpsDone, Outcomes
  <2> QED
    BY <2>1
<1>2. CASE LookupSession \/ LookupEnds \/ Launch \/ SeeExit \/ WaitElapses \/ CheckPasses
  <2>1. loop'.at # "over" /\ ~loop'.landed
    BY <1>0, <1>2
    DEF LookupSession, LookupEnds, Launch, SeeExit, WaitElapses, CheckPasses, Places
  <2> QED
    BY <2>1
<1>3. CASE WaitForExit
  <2>1. loop'.at = "waiting" /\ ~loop'.landed
    BY <1>0, <1>3, AtType DEF WaitForExit, Places, Place
  <2> QED
    BY <2>1
<1>4. CASE PayloadUnreadable
  BY <1>0, <1>4 DEF PayloadUnreadable, Places
<1>5. CASE ResultLands
  BY <1>5 DEF ResultLands, Place, Row
<1>6. CASE ResultAcked
  BY <1>0, <1>6 DEF ResultAcked, Places
<1>7. CASE ResultFails \/ Retry
  <2>1. ~loop'.landed /\ (loop'.at # "over" \/ dropped')
    BY <1>0, <1>7, AtType DEF ResultFails, Retry, Places, Place
  <2> QED
    BY <2>1
<1>8. ASSUME NEW s \in Streams, Pump(s) \/ Write(s) PROVE LandedInv'
  <2>1. UNCHANGED <<may, loop, outcome, dropped, alive>>
    BY <1>8 DEF Pump, Write, Read, Eof, AppendLands, AppendEnds
  <2>2. row'.status = row.status /\ row'.result = row.result
    BY <1>8 DEF Pump, Write, Read, Eof, AppendLands, AppendEnds, Row
  <2> QED
    BY <2>1, <2>2
<1>9. CASE CancelPost \/ ReapWedgedJob
  BY <1>9 DEF CancelPost, ReapWedgedJob, Row
<1>10. CASE AgentDies
  BY <1>0, <1>10 DEF AgentDies, Places
<1>11. CASE Tick
  <2>1. loop'.at = loop.at /\ loop'.landed = loop.landed
    BY <1>11 DEF Tick, Place
  <2>2. row'.status = row.status /\ row'.result = row.result
    BY <1>11 DEF Tick, Row
  <2> QED
    BY <1>11, <2>1, <2>2 DEF Tick
<1>12. CASE Exit \/ UNCHANGED vars
  BY <1>12 DEF Exit, vars
<1> QED
  BY <1>1, <1>2, <1>3, <1>4, <1>5, <1>6, <1>7, <1>8, <1>9, <1>10, <1>11, <1>12
  DEF Next, Worker

\* A live worker that is through with a job has dropped its result after every
\* attempt, could not make out the payload, or left the result in the row: the
\* relay's sweeps and cancels never put another in its place.
THEOREM ResultsAreKept == Spec => []ResultsLand
<1>1. Init => LandedInv
  BY AtType DEF Init, LandedInv, LandedIsKept, ResultsLand, Places
<1>2. LandedInv => ResultsLand
  BY DEF LandedInv
<1> QED
  BY InitTypes, StepTypes, StepLanded, <1>1, <1>2, PTL DEF Spec
=============================================================================
