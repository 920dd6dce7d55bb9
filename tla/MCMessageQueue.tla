--------------------------- MODULE MCMessageQueue ---------------------------
(* A queue of two blocks between an urgent thread, a less urgent one and    *)
(* the interrupt handlers that send and receive between their steps.        *)
EXTENDS MessageQueue

CONSTANTS hi, a, idle

MCThread == {hi, a, idle}

MCInitPriority ==
  [t \in Thread |-> CASE t = hi -> 0 [] t = idle -> 2 [] OTHER -> 1]

MCList == {"receivers", "senders"}
=============================================================================
