CONSTANTS
  hi = hi
  a = a
  b = b
  idle = idle
  Thread <- MCThread
  Idle = idle
  RT_THREAD_PRIORITY_MAX = 3
  InitPriority <- MCInitPriority
  List <- MCList
  RT_SEM_VALUE_MAX = 2
  InitValue = 1
SPECIFICATION FairSpec
INVARIANTS
  KernelConsistent
  TokensConserved
  PreemptionNotMissed
PROPERTIES
  NoOvertaking
  UrgentTakeReturns
