CONSTANTS
  hi = hi
  worker = worker
  lo = lo
  idle = idle
  Thread <- MCThread
  Idle = idle
  RT_THREAD_PRIORITY_MAX = 4
  InitPriority <- MCInitPriority
  List <- MCList
  Worker = worker
  Work = {w}
  NoWork = NoWork
SPECIFICATION Spec
CHECK_DEADLOCK FALSE
INVARIANTS
  DelayFindsQueue
