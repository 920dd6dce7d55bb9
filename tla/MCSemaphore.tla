---------------------------- MODULE MCSemaphore ----------------------------
(* A semaphore shared by one urgent thread, two of equal priority, the      *)
(* interrupt handlers and the idle thread.                                  *)
EXTENDS Semaphore

CONSTANTS hi, a, b, idle

MCThread == {hi, a, b, idle}

MCInitPriority ==
  [t \in Thread |-> CASE t = hi -> 0 [] t = idle -> 2 [] OTHER -> 1]

MCList == {"sem"}
=============================================================================
