---------------------------- MODULE MessageQueue ----------------------------
(***************************************************************************)
(* A message queue of ipc.c.  Its blocks are chained by pointers in a free *)
(* list and in the queue.  A call unlinks a block with interrupts          *)
(* disabled, copies the message with interrupts enabled, and disables them *)
(* again to link the block: in between the block is in neither chain, and  *)
(* other threads and interrupt handlers use the queue.                     *)
(***************************************************************************)
EXTENDS Cpu

CONSTANTS
  Message,    \* the messages that are sent
  NoMessage,  \* what a block or a buffer holds before its first message
  Block,      \* the blocks of mq->msg_pool, max_msgs of them
  NULL        \* RT_NULL

ASSUME MessageQueueAssumption ==
  /\ NoMessage \notin Message
  /\ IsFiniteSet(Block) /\ Block # {} /\ NULL \notin Block
  /\ List = {"receivers", "senders"}

VARIABLES
  free,      \* mq->msg_queue_free
  head,      \* mq->msg_queue_head
  tail,      \* mq->msg_queue_tail
  next,      \* msg->next of each block
  data,      \* the message in each block
  entry,     \* mq->entry
  flag,      \* mq->parent.parent.flag
  held,      \* the local variable msg of a thread between its two stretches
  buffer,    \* what a sender sends; history: what a receiver has unlinked
  timed,     \* the threads whose argument timeout is positive
  received   \* history: the message unlinked last

queue == <<free, head, tail, next, data, entry>>
args  == <<flag, held, buffer, timed, received>>
vars  == <<kern, pc, queue, args>>

(* the blocks reached from b by following the pointers nx, in this order;   *)
(* one comes twice when the chain goes round in a circle                    *)
Nodes(nx, b) ==
  LET step == [c \in Block \cup {NULL} |-> IF c = NULL THEN NULL ELSE nx[c]]
      node[n \in 0 .. Cardinality(Block)] ==
        IF n = 0 THEN b ELSE step[node[n - 1]]
  IN  node

ChainIn(nx, b) ==
  LET node == Nodes(nx, b)
  IN  [i \in 1 .. Cardinality({n \in DOMAIN node : node[n] # NULL}) |-> node[i - 1]]

Chain(b) == ChainIn(next, b)

(* rt_mq_init puts the blocks on the free list one by one *)
Init ==
  /\ CpuInit
  /\ LET s == SetToSeq(Block)
     IN  /\ free = Last(s)
         /\ next = [b \in Block |-> LET i == CHOOSE i \in DOMAIN s : s[i] = b
                                    IN  IF i = 1 THEN NULL ELSE s[i - 1]]
  /\ head = NULL /\ tail = NULL
  /\ data = [b \in Block |-> NoMessage]
  /\ entry = 0
  /\ flag \in {"RT_IPC_FLAG_FIFO", "RT_IPC_FLAG_PRIO"}
  /\ held = [t \in Thread |-> NULL]
  /\ buffer = [t \in Thread |-> NoMessage]
  /\ timed = {}
  /\ received = NoMessage

(***************************************************************************)
(* The stretches of code that run with interrupts disabled                 *)
(***************************************************************************)
UnlinkFree ==
  /\ free # NULL
  /\ free' = next[free]

(* block b, holding m, becomes the last or the first of the queue *)
LinkTail(b) ==
  /\ next' = IF tail # NULL THEN [next EXCEPT ![tail] = b] ELSE next
  /\ tail' = b
  /\ head' = IF head = NULL THEN b ELSE head
  /\ entry' = entry + 1

LinkHead(b) ==
  /\ next' = [next EXCEPT ![b] = head]
  /\ head' = b
  /\ tail' = IF tail = NULL THEN b ELSE tail
  /\ entry' = entry + 1

UnlinkHead ==
  /\ entry > 0
  /\ received' = data[head]
  /\ head' = next[head]
  /\ tail' = IF tail = head THEN NULL ELSE tail
  /\ entry' = entry - 1

PutFree(b) ==
  /\ next' = [next EXCEPT ![b] = free]
  /\ free' = b

(* a call that ends does not use its local variables any more *)
Leave(t) ==
  /\ held' = [held EXCEPT ![t] = NULL]
  /\ buffer' = [buffer EXCEPT ![t] = NoMessage]
  /\ timed' = timed \ {t}

(***************************************************************************)
(* rt_mq_send_wait, rt_mq_send and rt_mq_urgent.  Without a free block a   *)
(* call with timeout 0 returns -RT_EFULL and changes nothing.              *)
(***************************************************************************)
Send(t, m, p) ==
  /\ At(t, Run)
  /\ UnlinkFree
  /\ held' = [held EXCEPT ![t] = free]
  /\ buffer' = [buffer EXCEPT ![t] = m]
  /\ Goto(t, p)
  /\ UNCHANGED <<kern, head, tail, next, data, entry, flag, timed, received>>

SendWait(t, m, hasTimeout) ==
  /\ At(t, Run)
  /\ free = NULL
  /\ WaitIn(t, "senders", flag, hasTimeout, "send")
  /\ buffer' = [buffer EXCEPT ![t] = m]
  /\ timed' = IF hasTimeout THEN timed \cup {t} ELSE timed
  /\ UNCHANGED <<queue, flag, held, received>>

SendSchedule(t) ==
  /\ Reschedule(t, "send", "sending")
  /\ UNCHANGED <<queue, args>>

SendFails(t) ==
  /\ At(t, "sending")
  /\ kern.error[t] # "RT_EOK"
  /\ Goto(t, Run)
  /\ Leave(t)
  /\ UNCHANGED <<kern, queue, flag, received>>

SendResumed(t) ==
  /\ At(t, "sending")
  /\ kern.error[t] = "RT_EOK"
  /\ UnlinkFree
  /\ held' = [held EXCEPT ![t] = free]
  /\ Goto(t, "fill")
  /\ UNCHANGED <<kern, head, tail, next, data, entry,
                 flag, buffer, timed, received>>

(* resumed by a receiver, but the block is taken: -RT_EFULL when the time   *)
(* is used up, or another wait for what is left of it                       *)
SendAgain(t) ==
  /\ At(t, "sending")
  /\ kern.error[t] = "RT_EOK"
  /\ free = NULL
  /\ \/ t \in timed /\ Goto(t, Run) /\ Leave(t)
        /\ kern' = [kern EXCEPT !.error[t] = "RT_EOK"]
     \/ /\ WaitIn(t, "senders", flag, t \in timed, "send")
        /\ UNCHANGED <<held, buffer, timed>>
  /\ UNCHANGED <<queue, flag, received>>

(* msg->next and the copy, with interrupts enabled *)
Fill(t) ==
  /\ At(t, "fill")
  /\ next' = [next EXCEPT ![held[t]] = NULL]
  /\ data' = [data EXCEPT ![held[t]] = buffer[t]]
  /\ Goto(t, "link")
  /\ UNCHANGED <<kern, free, head, tail, entry, args>>

FillUrgent(t) ==
  /\ At(t, "fill_urgent")
  /\ data' = [data EXCEPT ![held[t]] = buffer[t]]
  /\ Goto(t, "link_urgent")
  /\ UNCHANGED <<kern, free, head, tail, next, entry, args>>

Link(t) ==
  /\ \/ At(t, "link") /\ LinkTail(held[t])
     \/ At(t, "link_urgent") /\ LinkHead(held[t])
  /\ WakeFirst(t, "receivers")
  /\ Leave(t)
  /\ UNCHANGED <<free, data, flag, received>>

(* rt_mq_send and rt_mq_urgent called by an interrupt handler: nobody else  *)
(* runs between their two stretches                                         *)
IsrSend(m) ==
  /\ IrqEnabled
  /\ UnlinkFree
  /\ data' = [data EXCEPT ![free] = m]
  /\ \/ /\ tail' = free
        /\ head' = IF head = NULL THEN free ELSE head
        /\ next' = [b \in Block |-> CASE b = tail -> free
                                      [] b = free -> NULL
                                      [] OTHER -> next[b]]
     \/ /\ head' = free
        /\ tail' = IF tail = NULL THEN free ELSE tail
        /\ next' = [next EXCEPT ![free] = head]
  /\ entry' = entry + 1
  /\ IsrWakeFirst("receivers")
  /\ UNCHANGED <<pc, args>>

(***************************************************************************)
(* rt_mq_recv.  Without a message a call with timeout 0 returns            *)
(* -RT_ETIMEOUT and changes nothing.                                       *)
(***************************************************************************)
Unlink(t) ==
  /\ UnlinkHead
  /\ held' = [held EXCEPT ![t] = head]
  /\ buffer' = [buffer EXCEPT ![t] = data[head]]
  /\ timed' = timed \ {t}
  /\ Goto(t, "copy")
  /\ UNCHANGED <<kern, flag, data>>

(* mutant: the block is free before the message is copied out of it *)
RecvFreesEarly(t) ==
  /\ \/ At(t, Run)
     \/ At(t, "receiving") /\ kern.error[t] = "RT_EOK"
  /\ Unlink(t)
  /\ PutFree(head)

Recv(t) ==
  /\ \/ At(t, Run)
     \/ At(t, "receiving") /\ kern.error[t] = "RT_EOK"
  /\ Unlink(t)
  /\ UNCHANGED <<free, next>>

(* mutant: a receiver that has copied the message does not wake a sender *)
PutBackSilently(t) ==
  /\ At(t, "copy")
  /\ PutFree(held[t])
  /\ Goto(t, Run)
  /\ Leave(t)
  /\ UNCHANGED <<kern, head, tail, data, entry, flag, received>>

(* Up to here the thread copies data[held[t]] with interrupts enabled; then *)
(* the block goes back to the free list.                                    *)
PutBack(t) ==
  /\ At(t, "copy")
  /\ PutFree(held[t])
  /\ WakeFirst(t, "senders")
  /\ Leave(t)
  /\ UNCHANGED <<head, tail, data, entry, flag, received>>

RecvWait(t, hasTimeout) ==
  /\ At(t, Run)
  /\ entry = 0
  /\ WaitIn(t, "receivers", flag, hasTimeout, "recv")
  /\ timed' = IF hasTimeout THEN timed \cup {t} ELSE timed
  /\ UNCHANGED <<queue, flag, held, buffer, received>>

RecvSchedule(t) ==
  /\ Reschedule(t, "recv", "receiving")
  /\ UNCHANGED <<queue, args>>

RecvFails(t) ==
  /\ At(t, "receiving")
  /\ kern.error[t] # "RT_EOK"
  /\ Goto(t, Run)
  /\ Leave(t)
  /\ UNCHANGED <<kern, queue, flag, received>>

RecvAgain(t) ==
  /\ At(t, "receiving")
  /\ kern.error[t] = "RT_EOK"
  /\ entry = 0
  /\ \/ /\ t \in timed
        /\ kern' = [kern EXCEPT !.error[t] = "RT_ETIMEOUT"]
        /\ Goto(t, Run) /\ Leave(t)
     \/ /\ WaitIn(t, "receivers", flag, t \in timed, "recv")
        /\ UNCHANGED <<held, buffer, timed>>
  /\ UNCHANGED <<queue, flag, received>>

(* rt_mq_recv with timeout 0, called by an interrupt handler *)
IsrRecv ==
  /\ IrqEnabled
  /\ UnlinkHead
  /\ PutFree(head)
  /\ IsrWakeFirst("senders")
  /\ UNCHANGED <<pc, data, flag, held, buffer, timed>>

(***************************************************************************)
(* rt_mq_control(RT_IPC_CMD_RESET), with interrupts disabled up to the end *)
(***************************************************************************)
ResetBegin(t) ==
  /\ At(t, Run)
  /\ Goto(t, "reset")
  /\ UNCHANGED <<kern, queue, args>>

ResetReceiver(t) ==
  /\ At(t, "reset")
  /\ IF kern.list["receivers"] # <<>>
     THEN kern' = ResumeWithError(kern, "receivers") /\ UNCHANGED pc
     ELSE Goto(t, "reset_senders") /\ UNCHANGED kern
  /\ UNCHANGED <<queue, args>>

ResetSender(t) ==
  /\ At(t, "reset_senders")
  /\ kern.list["senders"] # <<>>
  /\ kern' = ResumeWithError(kern, "senders")
  /\ UNCHANGED <<pc, queue, args>>

(* the blocks of the queue go back to the free list one by one *)
Drained ==
  LET s == Chain(head)
      put[i \in 0 .. Len(s)] ==
        IF i = 0 THEN [free |-> free, next |-> next]
        ELSE [free |-> s[i],
              next |-> [put[i - 1].next EXCEPT ![s[i]] = put[i - 1].free]]
  IN  put[Len(s)]

(* mutant: the queue keeps its tail *)
ResetKeepsTail(t) ==
  /\ At(t, "reset_senders")
  /\ kern.list["senders"] = <<>>
  /\ free' = Drained.free /\ next' = Drained.next
  /\ head' = NULL /\ entry' = 0
  /\ Goto(t, "sched")
  /\ UNCHANGED <<kern, tail, data, args>>

ResetEnd(t) ==
  /\ At(t, "reset_senders")
  /\ kern.list["senders"] = <<>>
  /\ free' = Drained.free /\ next' = Drained.next
  /\ head' = NULL /\ tail' = NULL /\ entry' = 0
  /\ Goto(t, "sched")
  /\ UNCHANGED <<kern, data, args>>

Schedule(t) ==
  /\ Reschedule(t, "sched", Run)
  /\ UNCHANGED <<queue, args>>

Call(t) ==
  \/ \E m \in Message : Send(t, m, "fill") \/ Send(t, m, "fill_urgent")
  \/ \E m \in Message, hasTimeout \in BOOLEAN : SendWait(t, m, hasTimeout)
  \/ \E hasTimeout \in BOOLEAN : RecvWait(t, hasTimeout)
  \/ ResetBegin(t)

Continue(t) ==
  \/ SendSchedule(t) \/ SendFails(t) \/ SendResumed(t) \/ SendAgain(t)
  \/ Fill(t) \/ FillUrgent(t) \/ Link(t)
  \/ Recv(t) \/ PutBack(t)
  \/ RecvSchedule(t) \/ RecvFails(t) \/ RecvAgain(t)
  \/ ResetReceiver(t) \/ ResetSender(t) \/ ResetEnd(t)
  \/ Schedule(t)

Tick ==
  /\ SliceExpires \/ \E t \in Thread : TimerExpires(t)
  /\ UNCHANGED <<queue, args>>

Next ==
  \/ \E t \in Thread \ {Idle} : Call(t) \/ Continue(t)
  \/ \E m \in Message : IsrSend(m)
  \/ IsrRecv
  \/ Tick

Spec == Init /\ [][Next]_vars

(***************************************************************************)
(* Properties                                                              *)
(***************************************************************************)
TypeOK ==
  /\ kern \in KernelState
  /\ pc \in [Thread -> {Run, "send", "sending", "fill", "fill_urgent", "link",
                        "link_urgent", "recv", "receiving", "copy", "sched",
                        "reset", "reset_senders"}]
  /\ free \in Block \cup {NULL}
  /\ head \in Block \cup {NULL} /\ tail \in Block \cup {NULL}
  /\ next \in [Block -> Block \cup {NULL}]
  /\ data \in [Block -> Message \cup {NoMessage}]
  /\ entry \in 0 .. Cardinality(Block)
  /\ flag \in {"RT_IPC_FLAG_FIFO", "RT_IPC_FLAG_PRIO"}
  /\ held \in [Thread -> Block \cup {NULL}]
  /\ buffer \in [Thread -> Message \cup {NoMessage}]
  /\ timed \subseteq Thread
  /\ received \in Message \cup {NoMessage}

(* Every thread is in the list its state says, and no send or receive that  *)
(* resumes a more urgent thread goes on before it - not even into the       *)
(* copying that it does with interrupts enabled.                            *)
KernelConsistent ==
  /\ TypeOK
  /\ KernelOK(kern)
  /\ MostUrgentRunsAt({Run, "sending", "receiving", "fill", "fill_urgent",
                       "link", "link_urgent", "copy"})

Holders == {t \in Thread : held[t] # NULL}

(* Every block is in exactly one place: the free list, the queue, or the    *)
(* hands of one thread that copies; the tail and the count agree with the   *)
(* chain.  And nobody writes a block that another thread is copying or has  *)
(* filled: it still holds the message that the thread means.                *)
BlocksConserved ==
  /\ LET queued == Chain(head)
         linked == Chain(free) \o queued
     IN  /\ IsInjective(linked)
         /\ ToSet(linked) = Block \ {held[t] : t \in Holders}
         /\ entry = Len(queued)
         /\ tail = IF head = NULL THEN NULL ELSE Last(queued)
  /\ Cardinality({held[t] : t \in Holders}) = Cardinality(Holders)
  /\ \A t \in Thread : pc[t] \in {"link", "link_urgent", "copy"}
                         => data[held[t]] = buffer[t]

(* threads resumed from a list with RT_EOK that have not looked again yet *)
Woken(p, q) == {t \in Thread : /\ pc[t] \in {p, q}
                               /\ kern.stat[t] # "SUSPEND"
                               /\ kern.error[t] = "RT_EOK"}

(* No lost wakeup: a receiver only stays suspended while every message of   *)
(* the queue has a resumed receiver on its way to it, a sender only while   *)
(* every free block has a resumed sender on its way - although blocks leave *)
(* the free list before their messages enter the queue.                     *)
NoLostWakeup ==
  /\ kern.list["receivers"] # <<>>
       => Len(Chain(head)) <= Cardinality(Woken("recv", "receiving"))
  /\ kern.list["senders"] # <<>>
       => Len(Chain(free)) <= Cardinality(Woken("send", "sending"))

(* The chain from head to tail is the queue that senders and receivers see: *)
(* a message enters it when its block is linked and leaves it when its      *)
(* block is unlinked, in order, none lost and none delivered twice.         *)
Q == INSTANCE BoundedQueue WITH
       Item <- Message, None <- NoMessage, Capacity <- Cardinality(Block),
       queue <- LET s == Chain(head) IN [i \in DOMAIN s |-> data[s[i]]],
       out <- received

ImplementsQueue == Q!Spec
=============================================================================
