------------------------------ MODULE MCEvent ------------------------------
(* Two flags, and receivers that want both or one of them, with and without *)
(* clearing what they get.                                                  *)
EXTENDS Event

CONSTANTS hi, a, b, idle, x, y

MCThread == {hi, a, b, idle}
MCSymmetry == Permutations({a, b})

MCInitPriority ==
  [t \in Thread |-> CASE t = hi -> 0 [] t = idle -> 2 [] OTHER -> 1]

MCList == {"event"}

MCRequest ==
  { [set |-> {x, y}, and |-> TRUE,  clear |-> TRUE],
    [set |-> {x, y}, and |-> FALSE, clear |-> TRUE],
    [set |-> {x},    and |-> FALSE, clear |-> FALSE] }
=============================================================================
