\* Two threads contend for two repos, one of which the operator may force-release.
CONSTANTS
  t1 = t1
  t2 = t2
  r1 = r1
  r2 = r2
  vm = vm
  dell = dell
  NoThread = NoThread
  NoMachine = NoMachine
  Threads = {t1, t2}
  Repos = {r1, r2}
  Machines = {vm}
  Vm = vm
  Dispatches <- ContendDispatches
  Agents = {vm}
  Clients = {c1}
  Crons = {}
  MaxJobs = 2
  ForceReleasable = {r2}
  StalePendingAfter = 0
  StaleResumeCutoff = 0
  AgentOfflineAfter = 0
  ReapSweepThrottle = 0
  WedgedReapMarginFloor = 1
  Horizon = 1
SPECIFICATION Spec
INVARIANTS
  LockDiscipline
PROPERTIES
  IsAJobQueue
  DropsAreSurfaced
CHECK_DEADLOCK FALSE
