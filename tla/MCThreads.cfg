CONSTANTS
  ctl = ctl
  v = v
  w = w
  idle = idle
  Thread <- MCThread
  Idle = idle
  RT_THREAD_PRIORITY_MAX = 4
  InitPriority <- MCInitPriority
  List <- MCList
  Controller = {ctl}
  Managed <- MCManaged
  Sleeper = {ctl}
  MaxLock = 2
SPECIFICATION FairSpec
INVARIANTS
  KernelConsistent
  ReleasedSafely
PROPERTIES
  PreemptionMissedByPriorityOnly
  ClosedIsReleased
