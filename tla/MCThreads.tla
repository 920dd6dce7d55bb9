----------------------------- MODULE MCThreads -----------------------------
(* One urgent controller that sleeps between its calls and the threads it   *)
(* manages, which sleep themselves only in the run about deletion.          *)
EXTENDS Threads

CONSTANTS ctl, v, w, idle

MCThread == {ctl, v, w, idle}
MCManaged == {v, w}

MCInitPriority ==
  [t \in Thread |-> CASE t = ctl -> 0 [] t = idle -> 3 [] OTHER -> 1]

MCList == {"rt_thread_defunct"}
=============================================================================
