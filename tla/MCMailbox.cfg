CONSTANTS
  hi = hi
  a = a
  idle = idle
  Thread <- MCThread
  Idle = idle
  RT_THREAD_PRIORITY_MAX = 3
  InitPriority <- MCInitPriority
  List <- MCList
  Mail = {m1, m2}
  NoMail = NoMail
  size = 2
SPECIFICATION Spec
INVARIANTS
  KernelConsistent
  NoLostWakeup
PROPERTIES
  ImplementsQueue
