CONSTANTS
  ctl = ctl
  v = v
  w = w
  idle = idle
  Thread <- MCThread
  Idle = idle
  RT_THREAD_PRIORITY_MAX = 4
  InitPriority <- MCInitPriority
  List <- MCList
  Controller = {ctl}
  Managed <- MCManaged
  Sleeper = {ctl, v, w}
  MaxLock = 2
SPECIFICATION Spec
INVARIANTS
  DeletedThreadLeavesQueue
