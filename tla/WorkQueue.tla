----------------------------- MODULE WorkQueue -----------------------------
(***************************************************************************)
(* The work queue of workqueue.c: threads submit works, at once or after a *)
(* delay that a timer of the work measures, and cancel them; one worker    *)
(* thread runs them.  The timers are hard timers, so a delay ends in the   *)
(* tick interrupt.  queue->sem, which cancel_work_sync waits for, has a    *)
(* value only inside the worker's completion loop, while the scheduler is  *)
(* locked: no other thread ever finds a token in it.                       *)
(***************************************************************************)
EXTENDS Cpu

CONSTANTS
  Worker,  \* queue->work_thread
  Work,    \* the works
  NoWork   \* RT_NULL

ASSUME WorkQueueAssumption ==
  /\ Worker \in Thread \ {Idle}
  /\ NoWork \notin Work
  /\ List = {"sem"}

VARIABLES
  work_list,     \* queue->work_list
  delayed_list,  \* queue->delayed_list
  work_current,  \* queue->work_current
  pending,       \* the works with RT_WORK_STATE_PENDING
  submitting,    \* the works with RT_WORK_STATE_SUBMITTING; their timers,
                 \* and no others, are initialized
  armed,         \* the works whose timer is active
  bound,         \* the works whose workqueue is not RT_NULL
  arg,           \* the argument work of a thread's call
  halted,        \* an assertion has failed in the tick interrupt
  wanted,        \* history: submitted, and neither started nor cancelled since
  late           \* history: threads that wait for a work that has finished

lists   == <<work_list, delayed_list, pending>>
timing  == <<submitting, armed, bound>>
history == <<wanted, late>>
vars    == <<kern, pc, lists, timing, work_current, arg, halted, history>>

(* a work calls the services too, from the worker's work_func *)
Base(t) == IF t = Worker THEN "work" ELSE Run

Init ==
  /\ Booted(kern, Thread)
  /\ pc = [t \in Thread |-> IF t = Worker THEN "loop" ELSE Run]
  /\ work_list = <<>> /\ delayed_list = <<>> /\ pending = {}
  /\ submitting = {} /\ armed = {} /\ bound = {}
  /\ work_current = NoWork
  /\ arg = [t \in Thread |-> NoWork]
  /\ halted = FALSE
  /\ wanted = {} /\ late = {}

(* mutant: whatever it is that the worker is suspended for *)
WorkerSuspended == kern.stat[Worker] = "SUSPEND"

(* The worker waits for work and does not sleep in one: a submit resumes it *)
WorkerIdle == work_current = NoWork /\ kern.stat[Worker] = "SUSPEND"

WakeWorker(t) ==
  IF WorkerIdle
  THEN kern' = rt_thread_resume(kern, Worker) /\ Goto(t, "sched")
  ELSE kern' = kern /\ Goto(t, Base(t))

(***************************************************************************)
(* _workqueue_submit_work and rt_workqueue_critical_work                   *)
(***************************************************************************)
(* w leaves whichever list it is in and enters work_list at its end, unless *)
(* it is the work that runs                                                 *)
Queue(w) ==
  LET others == RemoveFirst(work_list, w)
  IN  /\ work_list' = IF work_current # w THEN Append(others, w) ELSE others
      /\ delayed_list' = RemoveFirst(delayed_list, w)

(* ticks = 0; -RT_EBUSY for the work that runs *)
SubmitNow(t, w) ==
  /\ At(t, Base(t))
  /\ Queue(w)
  /\ IF work_current # w
     THEN /\ pending' = pending \cup {w}
          /\ bound' = bound \cup {w}
          /\ wanted' = wanted \cup {w}
     ELSE /\ pending' = pending \ {w}
          /\ UNCHANGED <<bound, wanted>>
  /\ WakeWorker(t)
  /\ UNCHANGED <<submitting, armed, work_current, arg, halted, late>>

(* ticks > 0, up to the point where interrupts are enabled; a timer that    *)
(* runs is stopped, and initialized when there is none                      *)
SubmitDelayed(t, w) ==
  /\ At(t, Base(t))
  /\ work_list' = RemoveFirst(work_list, w)
  /\ delayed_list' = Append(RemoveFirst(delayed_list, w), w)
  /\ pending' = pending \ {w}
  /\ submitting' = submitting \cup {w}
  /\ armed' = armed \ {w}
  /\ bound' = bound \cup {w}
  /\ wanted' = wanted \cup {w}
  /\ arg' = [arg EXCEPT ![t] = w]
  /\ Goto(t, "arm")
  /\ UNCHANGED <<kern, work_current, halted, late>>

(* rt_timer_start, which asserts that the timer is initialized: a thread    *)
(* whose assertion fails goes round in rt_assert_handler for ever           *)
Arm(t) ==
  /\ At(t, "arm")
  /\ IF arg[t] \in submitting
     THEN armed' = armed \cup {arg[t]} /\ Goto(t, Base(t))
     ELSE armed' = armed /\ Goto(t, "failed")
  /\ arg' = [arg EXCEPT ![t] = NoWork]
  /\ UNCHANGED <<kern, lists, submitting, bound, work_current, halted, history>>

(* to the front of work_list, the work that runs included *)
CriticalWork(t, w) ==
  /\ At(t, Base(t))
  /\ work_list' = <<w>> \o RemoveFirst(work_list, w)
  /\ delayed_list' = RemoveFirst(delayed_list, w)
  /\ wanted' = wanted \cup {w}
  /\ WakeWorker(t)
  /\ UNCHANGED <<pending, timing, work_current, arg, halted, late>>

(***************************************************************************)
(* _workqueue_cancel_work, rt_workqueue_cancel_work_sync                   *)
(***************************************************************************)
(* mutant: only a work that is marked as pending is taken off work_list *)
UnlistPending(w) ==
  /\ work_list' = IF w \in pending THEN RemoveFirst(work_list, w) ELSE work_list
  /\ delayed_list' = RemoveFirst(delayed_list, w)
  /\ pending' = pending \ {w}

Unlist(w) ==
  /\ work_list' = RemoveFirst(work_list, w)
  /\ delayed_list' = RemoveFirst(delayed_list, w)
  /\ pending' = pending \ {w}

(* the timer is stopped and detached, workqueue set to RT_NULL *)
Discard(w) ==
  /\ Unlist(w)
  /\ submitting' = submitting \ {w}
  /\ armed' = armed \ {w}
  /\ bound' = bound \ {w}
  /\ wanted' = wanted \ {w}

Cancel(t, w) ==
  /\ At(t, Base(t))
  /\ Discard(w)
  /\ UNCHANGED <<kern, pc, work_current, arg, halted, late>>

(* work_current is read with interrupts enabled *)
SyncLook(t, w) ==
  /\ At(t, Run)
  /\ Goto(t, IF work_current = w THEN "sync" ELSE "cancel")
  /\ arg' = [arg EXCEPT ![t] = w]
  /\ UNCHANGED <<kern, lists, timing, work_current, halted, history>>

SyncCancel(t) ==
  /\ At(t, "cancel")
  /\ Discard(arg[t])
  /\ Goto(t, Run)
  /\ arg' = [arg EXCEPT ![t] = NoWork]
  /\ UNCHANGED <<kern, work_current, halted, late>>

(* rt_sem_take(&queue->sem, RT_WAITING_FOREVER) *)
SyncWait(t) ==
  /\ At(t, "sync")
  /\ WaitIn(t, "sem", "RT_IPC_FLAG_FIFO", FALSE, "wait")
  /\ late' = IF work_current = arg[t] THEN late ELSE late \cup {t}
  /\ UNCHANGED <<lists, timing, work_current, arg, halted, wanted>>

SyncSchedule(t) ==
  /\ Reschedule(t, "wait", "waited")
  /\ UNCHANGED <<lists, timing, work_current, arg, halted, history>>

SyncReturn(t) ==
  /\ At(t, "waited")
  /\ Goto(t, Run)
  /\ arg' = [arg EXCEPT ![t] = NoWork]
  /\ late' = late \ {t}
  /\ UNCHANGED <<kern, lists, timing, work_current, halted, wanted>>

(***************************************************************************)
(* _workqueue_thread_entry and _workqueue_work_completion                  *)
(***************************************************************************)
WaitForWork ==
  /\ At(Worker, "loop")
  /\ work_list = <<>>
  /\ kern' = rt_thread_suspend(kern, Worker)
  /\ Goto(Worker, "idle")
  /\ UNCHANGED <<lists, timing, work_current, arg, halted, history>>

TakeWork ==
  /\ At(Worker, "loop")
  /\ work_list # <<>>
  /\ work_current' = Head(work_list)
  /\ work_list' = Tail(work_list)
  /\ pending' = pending \ {Head(work_list)}
  /\ bound' = bound \ {Head(work_list)}
  /\ wanted' = wanted \ {Head(work_list)}
  /\ Goto(Worker, "work")
  /\ UNCHANGED <<kern, delayed_list, submitting, armed, arg, halted, late>>

(* work_func sleeps *)
WorkSleeps ==
  /\ At(Worker, "work")
  /\ kern' = rt_timer_start(rt_thread_suspend(kern, Worker), Worker)
  /\ Goto(Worker, "sleep")
  /\ UNCHANGED <<lists, timing, work_current, arg, halted, history>>

WorkSlept ==
  /\ At(Worker, "slept")
  /\ kern' = [kern EXCEPT !.error[Worker] = "RT_EOK"]
  /\ Goto(Worker, "work")
  /\ UNCHANGED <<lists, timing, work_current, arg, halted, history>>

(* mutant: the queue still names the work that has finished *)
FinishKeepsCurrent ==
  /\ At(Worker, "work")
  /\ Goto(Worker, "complete")
  /\ UNCHANGED <<kern, work_current, lists, timing, arg, halted, history>>

Finish ==
  /\ At(Worker, "work")
  /\ work_current' = NoWork
  /\ Goto(Worker, "complete")
  /\ UNCHANGED <<kern, lists, timing, arg, halted, history>>

(* rt_enter_critical *)
CompletionBegin ==
  /\ At(Worker, "complete")
  /\ kern' = [kern EXCEPT !.lock = @ + 1]
  /\ Goto(Worker, "ack")
  /\ UNCHANGED <<lists, timing, work_current, arg, halted, history>>

(* One turn of the loop: trytake fails and release resumes a waiter, whose  *)
(* rt_schedule the lock holds back.                                         *)
CompletionWake ==
  /\ At(Worker, "ack")
  /\ kern.list["sem"] # <<>>
  /\ kern' = rt_schedule(rt_ipc_list_resume(kern, "sem"))
  /\ UNCHANGED <<pc, lists, timing, work_current, arg, halted, history>>

(* mutant: the loop ends after the first release *)
CompletionEndsEarly ==
  /\ At(Worker, "ack")
  /\ kern' = IF kern.list["sem"] = <<>> THEN [kern EXCEPT !.lock = 0]
             ELSE [rt_ipc_list_resume(kern, "sem") EXCEPT !.lock = 0]
  /\ Goto(Worker, "unlocked")
  /\ UNCHANGED <<lists, timing, work_current, arg, halted, history>>

(* Without a waiter the loop takes the token it has just released, and      *)
(* rt_exit_critical unlocks the scheduler.                                  *)
CompletionEnd ==
  /\ At(Worker, "ack")
  /\ kern.list["sem"] = <<>>
  /\ kern' = [kern EXCEPT !.lock = 0]
  /\ Goto(Worker, "unlocked")
  /\ UNCHANGED <<lists, timing, work_current, arg, halted, history>>

Schedule(t) ==
  /\ \/ Reschedule(t, "sched", Run)
     \/ Reschedule(t, "sleep", "slept")
     \/ Reschedule(t, "idle", "loop")
     \/ Reschedule(t, "unlocked", "loop")
  /\ UNCHANGED <<lists, timing, work_current, arg, halted, history>>

(***************************************************************************)
(* The tick interrupt                                                      *)
(***************************************************************************)
(* _delayed_work_timeout_handler, called by rt_timer_check for a timer that *)
(* it has taken off its list.  The assertion on work->workqueue stops the   *)
(* processor inside the interrupt.                                          *)
DelayEnds(w) ==
  /\ IrqEnabled
  /\ w \in armed
  /\ armed' = armed \ {w}
  /\ IF w \in bound
     THEN /\ submitting' = submitting \ {w}
          /\ Queue(w)
          /\ pending' = IF work_current # w THEN pending \cup {w} ELSE pending
          /\ wanted' = IF work_current # w THEN wanted ELSE wanted \ {w}
          /\ kern' = IF WorkerIdle
                     THEN rt_schedule(rt_thread_resume(kern, Worker)) ELSE kern
          /\ UNCHANGED halted
     ELSE /\ halted' = TRUE
          /\ UNCHANGED <<submitting, lists, wanted, kern>>
  /\ UNCHANGED <<pc, bound, work_current, arg, late>>

Tick ==
  /\ SliceExpires \/ \E t \in Thread : TimerExpires(t)
  /\ UNCHANGED <<lists, timing, work_current, arg, halted, history>>

(* rt_thread_sleep of a thread that uses the queue *)
Sleep(t) ==
  /\ SleepBegin(t) \/ SleepEnd(t)
  /\ UNCHANGED <<lists, timing, work_current, arg, halted, history>>

Call(t) ==
  \E w \in Work : \/ SubmitNow(t, w) \/ SubmitDelayed(t, w) \/ CriticalWork(t, w)
                  \/ Cancel(t, w)

UserStep(t) ==
  \/ Sleep(t)
  \/ \E w \in Work : SyncLook(t, w)
  \/ SyncCancel(t) \/ SyncWait(t) \/ SyncSchedule(t) \/ SyncReturn(t)

WorkerStep ==
  \/ WaitForWork \/ TakeWork \/ WorkSleeps \/ WorkSlept \/ Finish
  \/ CompletionBegin \/ CompletionWake \/ CompletionEnd

Next ==
  /\ ~halted
  /\ \/ \E t \in Thread \ {Idle} : Call(t) \/ Arm(t) \/ Schedule(t)
     \/ \E t \in Thread \ {Idle, Worker} : UserStep(t)
     \/ WorkerStep
     \/ \E w \in Work : DelayEnds(w)
     \/ Tick

Spec == Init /\ [][Next]_vars

(***************************************************************************)
(* Properties                                                              *)
(***************************************************************************)
TypeOK ==
  /\ kern \in KernelState
  /\ pc \in [Thread -> {Run, "sleep", "slept", "sched", "arm", "failed", "cancel",
                        "sync", "wait", "waited", "loop", "idle", "work",
                        "complete", "ack", "unlocked"}]
  /\ work_list \in Seq(Work) /\ delayed_list \in Seq(Work)
  /\ pending \subseteq Work
  /\ submitting \subseteq Work /\ armed \subseteq Work /\ bound \subseteq Work
  /\ work_current \in Work \cup {NoWork}
  /\ arg \in [Thread -> Work \cup {NoWork}]
  /\ halted \in BOOLEAN
  /\ wanted \subseteq Work /\ late \subseteq Thread

(* The worker is resumed only from its wait for work: a work that sleeps    *)
(* does so for its time.  Whoever resumes a more urgent thread does not go  *)
(* on before it, and the scheduler lock of a completion is made up for.     *)
KernelConsistent ==
  /\ TypeOK
  /\ KernelOK(kern)
  /\ MostUrgentRunsAt({Run, "slept", "arm", "cancel", "sync", "waited",
                       "work", "complete"})
  /\ pc[Worker] = "slept" /\ kern.stat[Worker] # "SUSPEND"
       => kern.error[Worker] = "RT_ETIMEOUT"

(* No work is forgotten: the worker does not wait while work_list has a     *)
(* work, and a delayed work has a timer that runs, or that a thread which   *)
(* was interrupted on its way is about to start.                            *)
NoWorkForgotten ==
  /\ work_list # <<>> =>
       ~(pc[Worker] \in {"idle", "loop"} /\ kern.stat[Worker] = "SUSPEND")
  /\ IsInjective(work_list \o delayed_list)
  /\ pending \subseteq ToSet(work_list)
  /\ armed \subseteq submitting
  /\ \A w \in ToSet(delayed_list) :
       /\ w \in submitting
       /\ w \in armed \/ \E t \in Thread : pc[t] = "arm" /\ arg[t] = w

(* A work that was cancelled does not run until it is submitted again, and  *)
(* one that was submitted once runs once - but a delay that ends while the  *)
(* same work runs is lost.                                                  *)
RunsAsSubmitted == ToSet(work_list) \cup ToSet(delayed_list) \subseteq wanted

(* A cancel_work_sync waits for a completion that is still to come, unless  *)
(* the work it saw running had finished before it began to wait.            *)
SyncWaitEnds ==
  \A t \in ToSet(kern.list["sem"]) \ late :
    work_current = arg[t] \/ pc[Worker] \in {"complete", "ack"}

(* RT_ASSERT(queue != RT_NULL): a delay that ends finds the queue that the  *)
(* work was submitted to.                                                   *)
DelayFindsQueue == ~halted
=============================================================================
