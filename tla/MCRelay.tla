------------------------------ MODULE MCRelay ------------------------------
(* Instances of Relay for TLC.                                             *)
EXTENDS Relay, TLC

CONSTANTS t1, t2, r1, r2, vm, dell

\* Two threads contend for one of two repos.
ContendDispatches ==
  {[thread |-> t1, repos |-> {r1, r2}, target |-> vm, silence |-> 0],
   [thread |-> t2, repos |-> {r1}, target |-> vm, silence |-> 0]}

\* One repo, two machines, and a dispatcher without a thread.
MachineDispatches ==
  {[thread |-> t1, repos |-> {r1}, target |-> vm, silence |-> 1],
   [thread |-> NoThread, repos |-> {r1}, target |-> dell, silence |-> 1]}
=============================================================================
