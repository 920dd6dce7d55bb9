CONSTANTS
  hi = hi
  a = a
  idle = idle
  Thread <- MCThread
  Idle = idle
  RT_THREAD_PRIORITY_MAX = 3
  InitPriority <- MCInitPriority
  List <- MCList
  Message = {m1, m2}
  NoMessage = NoMessage
  Block = {b1, b2}
  NULL = NULL
SPECIFICATION Spec
INVARIANTS
  KernelConsistent
  BlocksConserved
  NoLostWakeup
PROPERTIES
  ImplementsQueue
