------------------------------ MODULE MCMutex ------------------------------
(* Three threads of different priorities on one mutex that is taken twice.  *)
EXTENDS Mutex

CONSTANTS hi, mid, lo, idle, m1

MCThread == {hi, mid, lo, idle}

MCInitPriority ==
  [t \in Thread |-> CASE t = hi -> 0 [] t = mid -> 1
                      [] t = lo -> 2 [] t = idle -> 3]

MCMutexes == {m1}
=============================================================================
