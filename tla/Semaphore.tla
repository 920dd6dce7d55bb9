----------------------------- MODULE Semaphore -----------------------------
(***************************************************************************)
(* A counting semaphore of ipc.c, used by threads and by interrupt         *)
(* handlers: rt_sem_take, rt_sem_trytake, rt_sem_release, rt_sem_control.  *)
(***************************************************************************)
EXTENDS Cpu

CONSTANTS
  RT_SEM_VALUE_MAX,  \* largest value of a semaphore
  InitValue          \* value given to rt_sem_init and to a reset

ASSUME SemaphoreAssumption ==
  /\ RT_SEM_VALUE_MAX \in Nat \ {0}
  /\ InitValue \in 0 .. RT_SEM_VALUE_MAX
  /\ List = {"sem"}

VARIABLES
  value,    \* sem->value
  flag,     \* sem->parent.parent.flag
  balance   \* history: tokens released less tokens taken, since the reset

vars == <<kern, pc, value, flag, balance>>

Waiting == kern.list["sem"]

(* threads that a release has let through and that have not returned yet *)
Granted ==
  {t \in Thread : /\ pc[t] \in {"take", "taken"}
                  /\ kern.stat[t] # "SUSPEND"
                  /\ kern.error[t] = "RT_EOK"}

Init ==
  /\ CpuInit
  /\ value = InitValue
  /\ flag \in {"RT_IPC_FLAG_FIFO", "RT_IPC_FLAG_PRIO"}
  /\ balance = InitValue

(* rt_sem_take when a token is there.  Without one and with time = 0 it     *)
(* returns -RT_ETIMEOUT and changes nothing.                                *)
TakeToken(t) ==
  /\ At(t, Run)
  /\ value > 0
  /\ value' = value - 1
  /\ balance' = balance - 1
  /\ UNCHANGED <<kern, pc, flag>>

(* mutant: the error number of an earlier timeout is left in the thread *)
TakeSuspendStaleError(t, timed) ==
  /\ At(t, Run)
  /\ value = 0
  /\ LET k == rt_ipc_list_suspend(kern, "sem", t, flag)
     IN  kern' = IF timed THEN rt_timer_start(k, t) ELSE k
  /\ Goto(t, "take")
  /\ UNCHANGED <<value, flag, balance>>

(* rt_sem_take without a token: up to the point where interrupts are        *)
(* enabled again and the thread is about to call rt_schedule.               *)
TakeSuspend(t, timed) ==
  /\ At(t, Run)
  /\ value = 0
  /\ WaitIn(t, "sem", flag, timed, "take")
  /\ UNCHANGED <<value, flag, balance>>

TakeSchedule(t) ==
  /\ Reschedule(t, "take", "taken")
  /\ UNCHANGED <<value, flag, balance>>

(* back from rt_schedule: the error number tells who resumed the thread *)
TakeReturn(t) ==
  /\ At(t, "taken")
  /\ balance' = IF kern.error[t] = "RT_EOK" THEN balance - 1 ELSE balance
  /\ Goto(t, Run)
  /\ UNCHANGED <<kern, value, flag>>

(* rt_sem_release with a waiter *)
ReleaseToWaiter(t) ==
  /\ At(t, Run)
  /\ Waiting # <<>>
  /\ kern' = rt_ipc_list_resume(kern, "sem")
  /\ balance' = balance + 1
  /\ Goto(t, "sched")
  /\ UNCHANGED <<value, flag>>

(* rt_sem_release without one; at RT_SEM_VALUE_MAX it returns -RT_EFULL *)
ReleaseToValue ==
  /\ Waiting = <<>>
  /\ value < RT_SEM_VALUE_MAX
  /\ value' = value + 1
  /\ balance' = balance + 1
  /\ UNCHANGED <<kern, pc, flag>>

Release(t) == ReleaseToWaiter(t) \/ (At(t, Run) /\ ReleaseToValue)

(* mutant: the handler resumes a waiter and does not reschedule *)
IsrReleaseNoSchedule ==
  /\ IrqEnabled
  /\ Waiting # <<>>
  /\ kern' = rt_ipc_list_resume(kern, "sem")
  /\ balance' = balance + 1
  /\ UNCHANGED <<pc, value, flag>>

(* rt_sem_release called by an interrupt handler, as uart_input does: its   *)
(* rt_schedule is over before any thread goes on.                           *)
IsrRelease ==
  /\ IrqEnabled
  /\ \/ /\ Waiting # <<>>
        /\ kern' = rt_schedule(rt_ipc_list_resume(kern, "sem"))
        /\ balance' = balance + 1
        /\ UNCHANGED <<pc, value, flag>>
     \/ ReleaseToValue

(* rt_sem_control(RT_IPC_CMD_RESET): interrupts stay disabled while every   *)
(* waiter is resumed with an error and until the value is set.              *)
ResetBegin(t) ==
  /\ At(t, Run)
  /\ Goto(t, "reset")
  /\ UNCHANGED <<kern, value, flag, balance>>

ResetResume(t) ==
  /\ At(t, "reset")
  /\ Waiting # <<>>
  /\ kern' = ResumeWithError(kern, "sem")
  /\ UNCHANGED <<pc, value, flag, balance>>

ResetEnd(t) ==
  /\ At(t, "reset")
  /\ Waiting = <<>>
  /\ value' = InitValue
  /\ balance' = InitValue + Cardinality(Granted)
  /\ Goto(t, "sched")
  /\ UNCHANGED <<kern, flag>>

Schedule(t) ==
  /\ Reschedule(t, "sched", Run)
  /\ UNCHANGED <<value, flag, balance>>

(* a thread goes on with the call it is in *)
Continue(t) ==
  \/ TakeSchedule(t)
  \/ TakeReturn(t)
  \/ ResetResume(t)
  \/ ResetEnd(t)
  \/ Schedule(t)

(* a thread makes a call; the idle thread makes none *)
Call(t) ==
  \/ TakeToken(t)
  \/ \E timed \in BOOLEAN : TakeSuspend(t, timed)
  \/ Release(t)
  \/ ResetBegin(t)

Tick ==
  /\ SliceExpires \/ \E t \in Thread : TimerExpires(t)
  /\ UNCHANGED <<value, flag, balance>>

Next ==
  \/ \E t \in Thread \ {Idle} : Call(t) \/ Continue(t)
  \/ IsrRelease
  \/ Tick

Spec == Init /\ [][Next]_vars

(***************************************************************************)
(* Properties                                                              *)
(***************************************************************************)
TypeOK ==
  /\ kern \in KernelState
  /\ pc \in [Thread -> {Run, "take", "taken", "sched", "reset"}]
  /\ value \in 0 .. RT_SEM_VALUE_MAX
  /\ flag \in {"RT_IPC_FLAG_FIFO", "RT_IPC_FLAG_PRIO"}
  /\ balance \in Nat

(* No list is corrupted, the ready bitmap tells the truth, and every thread *)
(* is in the list its state says: what rt_schedule and the list operations  *)
(* of ipc.c rely on, whatever interrupt comes between two steps of a call.  *)
KernelConsistent == TypeOK /\ KernelOK(kern)

(* A token is never lost nor made up: what has been released and not taken  *)
(* is in the value or on its way to a resumed thread.  A waiter that times  *)
(* out while a release picks it gets the token or leaves it, never both,    *)
(* and no token lies in the value while somebody waits for it.              *)
TokensConserved ==
  /\ value + Cardinality(Granted) = balance
  /\ value > 0 => Waiting = <<>>

(* Where no call of rt_schedule is due, the running thread is one of the    *)
(* most urgent ready ones: no release, timeout or reset that makes a more   *)
(* urgent thread ready goes without a reschedule.                           *)
PreemptionNotMissed == MostUrgentRunsAt({Run, "taken"})

(* A waiter is passed only by a more urgent one, and only if the semaphore  *)
(* has RT_IPC_FLAG_PRIO; a release lets the first one through.              *)
Ahead(s, t, u) == \E i, j \in DOMAIN s : i < j /\ s[i] = t /\ s[j] = u

NoOvertaking ==
  [][ \A t, u \in Thread :
        /\ Ahead(Waiting', u, t) /\ Contains(Waiting, t) /\ ~Ahead(Waiting, u, t)
             => flag = "RT_IPC_FLAG_PRIO" /\ kern.priority[u] < kern.priority[t]
        /\ Ahead(Waiting, t, u) /\ Contains(Waiting', t)
             => u \notin Granted' ]_vars

Urgent == {t \in Thread : \A u \in Thread \ {t} :
                             InitPriority[t] < InitPriority[u]}

(* A thread that has the processor in the middle of a call goes on with it. *)
FairSpec == Spec /\ WF_vars(\E t \in Thread : Continue(t))

(* The most urgent thread comes back from rt_sem_take once its wait has     *)
(* ended, by a release, a timeout or a reset: no sequence of interrupts and *)
(* of calls of the others keeps it from the processor.                      *)
UrgentTakeReturns ==
  \A t \in Urgent :
    pc[t] # Run /\ kern.stat[t] # "SUSPEND" ~> pc[t] = Run
=============================================================================
