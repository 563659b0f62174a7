------------------------------ MODULE JobQueue ------------------------------
(***************************************************************************)
(* What the relay promises an orchestrator, RELAY-PROTOCOL.md sections 4   *)
(* and 10: a job is queued, handed out at most once and ended once, and    *)
(* while it is in the queue or running no other job has any of its repos.  *)
(***************************************************************************)
CONSTANTS JobIds, Repos

VARIABLES
  state,  \* "none", "queued", "handed" or "ended"
  needs   \* the repos a submitted job excludes the others from

vars == <<state, needs>>

Unfinished == {j \in JobIds : state[j] \in {"queued", "handed"}}

Init ==
  /\ state = [j \in JobIds |-> "none"]
  /\ needs = [j \in JobIds |-> {}]

Submit(j, R) ==
  /\ state[j] = "none"
  /\ \A i \in Unfinished : needs[i] \cap R = {}
  /\ state' = [state EXCEPT ![j] = "queued"]
  /\ needs' = [needs EXCEPT ![j] = R]

HandOut(j) ==
  /\ state[j] = "queued"
  /\ state' = [state EXCEPT ![j] = "handed"]
  /\ UNCHANGED needs

\* A result, a cancel or a sweep, which may end several jobs at once.
End(J) ==
  /\ J \subseteq Unfinished
  /\ state' = [j \in JobIds |-> IF j \in J THEN "ended" ELSE state[j]]
  /\ UNCHANGED needs

Next ==
  \/ \E j \in JobIds : HandOut(j) \/ \E R \in SUBSET Repos : Submit(j, R)
  \/ \E J \in SUBSET JobIds : End(J)

Spec == Init /\ [][Next]_vars

=============================================================================
