---------------------------- MODULE MCWorkQueue ----------------------------
(* A worker between a thread that is more urgent and one that is less.      *)
EXTENDS WorkQueue

CONSTANTS hi, worker, lo, idle

MCThread == {hi, worker, lo, idle}

MCInitPriority ==
  [t \in Thread |-> CASE t = hi -> 0 [] t = worker -> 1 [] t = lo -> 2
                      [] OTHER -> 3]

MCList == {"sem"}

(* the works are interchangeable *)
MCSymmetry == Permutations(Work)
=============================================================================
