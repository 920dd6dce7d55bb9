CONSTANTS
  hi = hi
  a = a
  b = b
  idle = idle
  x = x
  y = y
  Thread <- MCThread
  Idle = idle
  RT_THREAD_PRIORITY_MAX = 3
  InitPriority <- MCInitPriority
  List <- MCList
  Flag = {x, y}
  Request <- MCRequest
SYMMETRY MCSymmetry
SPECIFICATION Spec
INVARIANTS
  KernelConsistent
  NoWaiterForgotten
  ReceivedAsRequested
PROPERTIES
  ConsumedOnce
