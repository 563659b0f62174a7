\* One agent, an operator who clears locks, and the cron tick, under fairness.
CONSTANTS
  t1 = t1
  t2 = t2
  r1 = r1
  r2 = r2
  vm = vm
  dell = dell
  NoThread = NoThread
  NoMachine = NoMachine
  Threads = {t1, t2}
  Repos = {r1}
  Machines = {vm, dell}
  Vm = vm
  Dispatches <- MachineDispatches
  Agents = {dell, NoMachine}
  Clients = {c1}
  Crons = {cron}
  MaxJobs = 1
  ForceReleasable = {r1}
  StalePendingAfter = 0
  StaleResumeCutoff = 1
  AgentOfflineAfter = 1
  ReapSweepThrottle = 1
  WedgedReapMarginFloor = 1
  Horizon = 2
SPECIFICATION FairSpec
PROPERTIES
  SilentJobsEnd
  UnclaimedJobsGoStale
CHECK_DEADLOCK FALSE
