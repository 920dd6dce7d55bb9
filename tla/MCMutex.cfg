CONSTANTS
  hi = hi
  mid = mid
  lo = lo
  idle = idle
  m1 = m1
  Thread <- MCThread
  Idle = idle
  RT_THREAD_PRIORITY_MAX = 4
  InitPriority <- MCInitPriority
  List <- MCMutexes
  Mutexes <- MCMutexes
  NoOwner = NoOwner
  RT_MUTEX_HOLD_MAX = 2
SPECIFICATION Spec
INVARIANTS
  KernelConsistent
  HandOverReturned
  NoInversion
  PriorityRestored
PROPERTIES
  PreemptionMissedByReleaseOnly
