---------------------------- MODULE BoundedQueue ----------------------------
(***************************************************************************)
(* What a mailbox and a message queue promise: a queue of at most Capacity *)
(* items, filled at its end or by an urgent sender at its front, emptied   *)
(* from its front, and cleared as a whole by a reset.  Threads, waiting    *)
(* and scheduling do not appear: they only decide when one of these steps  *)
(* is taken.                                                               *)
(***************************************************************************)
EXTENDS Integers, Sequences

CONSTANTS
  Item,      \* what the queue holds
  None,      \* no item has been handed out yet
  Capacity   \* how many items it holds at most

VARIABLES
  queue,     \* the items in the order in which they will be handed out
  out        \* the item handed out last

Init == queue = <<>> /\ out = None

Send(m) ==
  /\ Len(queue) < Capacity
  /\ queue' = Append(queue, m)
  /\ UNCHANGED out

Urgent(m) ==
  /\ Len(queue) < Capacity
  /\ queue' = <<m>> \o queue
  /\ UNCHANGED out

Recv ==
  /\ queue # <<>>
  /\ queue' = Tail(queue)
  /\ out' = Head(queue)

Clear ==
  /\ queue' = <<>>
  /\ UNCHANGED out

Next == (\E m \in Item : Send(m) \/ Urgent(m)) \/ Recv \/ Clear

Spec == Init /\ [][Next]_<<queue, out>>
=============================================================================
