------------------------------ MODULE Mailbox ------------------------------
(***************************************************************************)
(* A mailbox of ipc.c: a ring of size mails with one suspend list for the  *)
(* receivers and one for the senders.  A resumed thread does not own a     *)
(* mail or a place in the ring: it looks again, and waits again when a     *)
(* thread that ran before it was faster.                                   *)
(***************************************************************************)
EXTENDS Cpu

CONSTANTS
  Mail,      \* the mails that are sent
  NoMail,    \* what a slot of the ring holds before its first mail
  size       \* mb->size

ASSUME MailboxAssumption ==
  /\ size \in Nat \ {0}   \* and at most RT_MB_ENTRY_MAX, 65535
  /\ NoMail \notin Mail
  /\ List = {"receivers", "senders"}

VARIABLES
  entry,       \* mb->entry, the number of mails in the ring
  in_offset,   \* mb->in_offset
  out_offset,  \* mb->out_offset
  msg_pool,    \* mb->msg_pool
  flag,        \* mb->parent.parent.flag
  mail,        \* the argument value of a sender that waits
  timed,       \* the threads whose argument timeout is positive
  received     \* history: the mail handed to a receiver last

ring == <<entry, in_offset, out_offset, msg_pool>>
vars == <<kern, pc, ring, flag, mail, timed, received>>

Init ==
  /\ CpuInit
  /\ entry = 0 /\ in_offset = 0 /\ out_offset = 0
  /\ msg_pool = [i \in 0 .. size - 1 |-> NoMail]
  /\ flag \in {"RT_IPC_FLAG_FIFO", "RT_IPC_FLAG_PRIO"}
  /\ mail = [t \in Thread |-> NoMail]
  /\ timed = {}
  /\ received = NoMail

(* the offset after or before i *)
Next1(i) == IF i + 1 >= size THEN 0 ELSE i + 1
Prev1(i) == IF i > 0 THEN i - 1 ELSE size - 1

PutMail(m) ==
  /\ entry < size
  /\ msg_pool' = [msg_pool EXCEPT ![in_offset] = m]
  /\ in_offset' = Next1(in_offset)
  /\ entry' = entry + 1
  /\ UNCHANGED out_offset

PutUrgentMail(m) ==
  /\ entry < size
  /\ msg_pool' = [msg_pool EXCEPT ![Prev1(out_offset)] = m]
  /\ out_offset' = Prev1(out_offset)
  /\ entry' = entry + 1
  /\ UNCHANGED in_offset

FetchMail ==
  /\ entry > 0
  /\ received' = msg_pool[out_offset]
  /\ out_offset' = Next1(out_offset)
  /\ entry' = entry - 1
  /\ UNCHANGED <<in_offset, msg_pool>>

(* the arguments of a call that leaves its loop are of no use any more *)
Leave(t) ==
  /\ mail' = [mail EXCEPT ![t] = NoMail]
  /\ timed' = timed \ {t}

(***************************************************************************)
(* rt_mb_send_wait, rt_mb_send and rt_mb_urgent.  A call with timeout 0    *)
(* on a full mailbox returns -RT_EFULL and changes nothing.                *)
(***************************************************************************)
Send(t, m) ==
  /\ At(t, Run)
  /\ PutMail(m)
  /\ WakeFirst(t, "receivers")
  /\ UNCHANGED <<flag, mail, timed, received>>

Urgent(t, m) ==
  /\ At(t, Run)
  /\ PutUrgentMail(m)
  /\ WakeFirst(t, "receivers")
  /\ UNCHANGED <<flag, mail, timed, received>>

SendWait(t, m, hasTimeout) ==
  /\ At(t, Run)
  /\ entry = size
  /\ WaitIn(t, "senders", flag, hasTimeout, "send")
  /\ mail' = [mail EXCEPT ![t] = m]
  /\ timed' = IF hasTimeout THEN timed \cup {t} ELSE timed
  /\ UNCHANGED <<ring, flag, received>>

SendSchedule(t) ==
  /\ Reschedule(t, "send", "sending")
  /\ UNCHANGED <<ring, flag, mail, timed, received>>

(* resumed with an error: the call returns it *)
SendFails(t) ==
  /\ At(t, "sending")
  /\ kern.error[t] # "RT_EOK"
  /\ Goto(t, Run)
  /\ Leave(t)
  /\ UNCHANGED <<kern, ring, flag, received>>

(* resumed by a receiver, and there is still room *)
SendResumed(t) ==
  /\ At(t, "sending")
  /\ kern.error[t] = "RT_EOK"
  /\ PutMail(mail[t])
  /\ WakeFirst(t, "receivers")
  /\ Leave(t)
  /\ UNCHANGED <<flag, received>>

(* resumed by a receiver, but the mailbox is full again: -RT_EFULL when the *)
(* time is used up, or another wait for what is left of it                  *)
SendAgain(t) ==
  /\ At(t, "sending")
  /\ kern.error[t] = "RT_EOK"
  /\ entry = size
  /\ \/ t \in timed /\ Goto(t, Run) /\ Leave(t) /\ UNCHANGED kern
     \/ /\ WaitIn(t, "senders", flag, t \in timed, "send")
        /\ UNCHANGED <<mail, timed>>
  /\ UNCHANGED <<ring, flag, received>>

(* rt_mb_send and rt_mb_urgent called by an interrupt handler *)
IsrSend(m) ==
  /\ IrqEnabled
  /\ PutMail(m) \/ PutUrgentMail(m)
  /\ IsrWakeFirst("receivers")
  /\ UNCHANGED <<pc, flag, mail, timed, received>>

(***************************************************************************)
(* rt_mb_recv.  A call with timeout 0 on an empty mailbox returns          *)
(* -RT_ETIMEOUT and changes nothing.                                       *)
(***************************************************************************)
Recv(t) ==
  /\ At(t, Run)
  /\ FetchMail
  /\ WakeFirst(t, "senders")
  /\ UNCHANGED <<flag, mail, timed>>

RecvWait(t, hasTimeout) ==
  /\ At(t, Run)
  /\ entry = 0
  /\ WaitIn(t, "receivers", flag, hasTimeout, "recv")
  /\ timed' = IF hasTimeout THEN timed \cup {t} ELSE timed
  /\ UNCHANGED <<ring, flag, mail, received>>

(* rt_mb_recv with timeout 0, called by an interrupt handler *)
IsrRecv ==
  /\ IrqEnabled
  /\ FetchMail
  /\ IsrWakeFirst("senders")
  /\ UNCHANGED <<pc, flag, mail, timed>>

RecvSchedule(t) ==
  /\ Reschedule(t, "recv", "receiving")
  /\ UNCHANGED <<ring, flag, mail, timed, received>>

RecvFails(t) ==
  /\ At(t, "receiving")
  /\ kern.error[t] # "RT_EOK"
  /\ Goto(t, Run)
  /\ Leave(t)
  /\ UNCHANGED <<kern, ring, flag, received>>

(* mutant: a receiver that has waited does not wake a sender *)
RecvResumedSilently(t) ==
  /\ At(t, "receiving")
  /\ kern.error[t] = "RT_EOK"
  /\ FetchMail
  /\ Goto(t, Run)
  /\ Leave(t)
  /\ UNCHANGED <<kern, flag>>

RecvResumed(t) ==
  /\ At(t, "receiving")
  /\ kern.error[t] = "RT_EOK"
  /\ FetchMail
  /\ WakeFirst(t, "senders")
  /\ Leave(t)
  /\ UNCHANGED flag

RecvAgain(t) ==
  /\ At(t, "receiving")
  /\ kern.error[t] = "RT_EOK"
  /\ entry = 0
  /\ \/ /\ t \in timed
        /\ kern' = [kern EXCEPT !.error[t] = "RT_ETIMEOUT"]
        /\ Goto(t, Run) /\ Leave(t)
     \/ /\ WaitIn(t, "receivers", flag, t \in timed, "recv")
        /\ UNCHANGED <<mail, timed>>
  /\ UNCHANGED <<ring, flag, received>>

(***************************************************************************)
(* rt_mb_control(RT_IPC_CMD_RESET), with interrupts disabled up to the end *)
(***************************************************************************)
ResetBegin(t) ==
  /\ At(t, Run)
  /\ Goto(t, "reset")
  /\ UNCHANGED <<kern, ring, flag, mail, timed, received>>

ResetReceiver(t) ==
  /\ At(t, "reset")
  /\ IF kern.list["receivers"] # <<>>
     THEN kern' = ResumeWithError(kern, "receivers") /\ UNCHANGED pc
     ELSE Goto(t, "reset_senders") /\ UNCHANGED kern
  /\ UNCHANGED <<ring, flag, mail, timed, received>>

ResetSender(t) ==
  /\ At(t, "reset_senders")
  /\ kern.list["senders"] # <<>>
  /\ kern' = ResumeWithError(kern, "senders")
  /\ UNCHANGED <<pc, ring, flag, mail, timed, received>>

(* mutant: a reset leaves the receivers' offset where it is *)
ResetKeepsOffset(t) ==
  /\ At(t, "reset_senders")
  /\ kern.list["senders"] = <<>>
  /\ entry' = 0 /\ in_offset' = 0
  /\ Goto(t, "sched")
  /\ UNCHANGED <<kern, out_offset, msg_pool, flag, mail, timed, received>>

ResetEnd(t) ==
  /\ At(t, "reset_senders")
  /\ kern.list["senders"] = <<>>
  /\ entry' = 0 /\ in_offset' = 0 /\ out_offset' = 0
  /\ Goto(t, "sched")
  /\ UNCHANGED <<kern, msg_pool, flag, mail, timed, received>>

Schedule(t) ==
  /\ Reschedule(t, "sched", Run)
  /\ UNCHANGED <<ring, flag, mail, timed, received>>

Call(t) ==
  \/ \E m \in Mail : Send(t, m) \/ Urgent(t, m)
  \/ \E m \in Mail, hasTimeout \in BOOLEAN : SendWait(t, m, hasTimeout)
  \/ Recv(t)
  \/ \E hasTimeout \in BOOLEAN : RecvWait(t, hasTimeout)
  \/ ResetBegin(t)

Continue(t) ==
  \/ SendSchedule(t) \/ SendFails(t) \/ SendResumed(t) \/ SendAgain(t)
  \/ RecvSchedule(t) \/ RecvFails(t) \/ RecvResumed(t) \/ RecvAgain(t)
  \/ ResetReceiver(t) \/ ResetSender(t) \/ ResetEnd(t)
  \/ Schedule(t)

Tick ==
  /\ SliceExpires \/ \E t \in Thread : TimerExpires(t)
  /\ UNCHANGED <<ring, flag, mail, timed, received>>

Next ==
  \/ \E t \in Thread \ {Idle} : Call(t) \/ Continue(t)
  \/ \E m \in Mail : IsrSend(m)
  \/ IsrRecv
  \/ Tick

Spec == Init /\ [][Next]_vars

(***************************************************************************)
(* Properties                                                              *)
(***************************************************************************)
TypeOK ==
  /\ kern \in KernelState
  /\ pc \in [Thread -> {Run, "send", "sending", "recv", "receiving", "sched",
                        "reset", "reset_senders"}]
  /\ entry \in 0 .. size
  /\ in_offset \in 0 .. size - 1 /\ out_offset \in 0 .. size - 1
  /\ msg_pool \in [0 .. size - 1 -> Mail \cup {NoMail}]
  /\ flag \in {"RT_IPC_FLAG_FIFO", "RT_IPC_FLAG_PRIO"}
  /\ mail \in [Thread -> Mail \cup {NoMail}]
  /\ timed \subseteq Thread
  /\ received \in Mail \cup {NoMail}

(* Every thread is in the list its state says, with two suspend lists and   *)
(* calls that resume from one while they wait in the other; and no send or  *)
(* receive that resumes a more urgent thread goes on before it.             *)
KernelConsistent ==
  /\ TypeOK
  /\ KernelOK(kern)
  /\ MostUrgentRunsAt({Run, "sending", "receiving"})

(* threads resumed from a list with RT_EOK that have not looked again yet *)
Woken(p, q) == {t \in Thread : /\ pc[t] \in {p, q}
                               /\ kern.stat[t] # "SUSPEND"
                               /\ kern.error[t] = "RT_EOK"}

(* No lost wakeup: a receiver only stays suspended while every mail in the  *)
(* ring has a resumed receiver on its way to it, a sender only while every  *)
(* free slot has a resumed sender on its way - although a resumed thread    *)
(* may find that a third one was faster, run out of time, or be reset.      *)
NoLostWakeup ==
  /\ kern.list["receivers"] # <<>>
       => entry <= Cardinality(Woken("recv", "receiving"))
  /\ kern.list["senders"] # <<>>
       => size - entry <= Cardinality(Woken("send", "sending"))

(* The mails between the two offsets are the queue that senders and         *)
(* receivers see: in order, none lost, none delivered twice, whatever the   *)
(* offsets do at the end of the ring and in a reset.                        *)
Q == INSTANCE BoundedQueue WITH
       Item <- Mail, None <- NoMail, Capacity <- size,
       queue <- [i \in 1 .. entry |-> msg_pool[(out_offset + i - 1) % size]],
       out <- received

ImplementsQueue == Q!Spec
=============================================================================
