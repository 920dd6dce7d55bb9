------------------------------ MODULE Threads ------------------------------
(***************************************************************************)
(* The life of the threads of thread.c, from rt_thread_create to the       *)
(* release of their memory by the idle thread.                             *)
(*                                                                         *)
(* rt_thread_resume, rt_thread_suspend and rt_thread_delete look at        *)
(* thread->stat before they disable interrupts, and release interrupts     *)
(* between the changes they make.  Here they are called by a thread with   *)
(* interrupts enabled, so each of these windows is a step of its own.      *)
(***************************************************************************)
EXTENDS Cpu

CONSTANTS
  Controller,  \* the threads that create, suspend, resume and delete others
  Managed,     \* the threads they do this to
  Sleeper,     \* the threads that call rt_thread_sleep
  MaxLock      \* bound on the nesting of rt_enter_critical

Defunct == "rt_thread_defunct"

ASSUME ThreadsAssumption ==
  /\ Controller \cap Managed = {}
  /\ Controller \cup Managed \cup Sleeper \subseteq Thread \ {Idle}
  /\ MaxLock \in Nat
  /\ List = {Defunct}

VARIABLES
  allocated,  \* the threads whose object and stack are allocated
  target      \* the thread argument of a controller's call

vars == <<kern, pc, allocated, target>>

Init ==
  /\ allocated = Thread \ Managed
  /\ Booted(kern, allocated)
  /\ pc = [t \in Thread |-> Run]
  /\ target = [t \in Controller |-> t]

Enter(t, u, p) ==
  /\ target' = [target EXCEPT ![t] = u]
  /\ Goto(t, p)

(***************************************************************************)
(* Calls of a controller t on a managed thread u.                          *)
(***************************************************************************)
Create(t, u) ==
  /\ At(t, Run)
  /\ u \notin allocated
  /\ allocated' = allocated \cup {u}
  /\ kern' = [kern EXCEPT !.stat[u] = "INIT", !.priority[u] = InitPriority[u],
                          !.error[u] = "RT_EOK", !.yield = @ \ {u}]
  /\ pc' = [pc EXCEPT ![u] = Run]
  /\ UNCHANGED target

(* rt_thread_startup, up to where rt_thread_resume disables interrupts *)
Startup(t, u) ==
  /\ At(t, Run)
  /\ u \in allocated /\ kern.stat[u] = "INIT"
  /\ kern' = [kern EXCEPT !.stat[u] = "SUSPEND",
                          !.priority[u] = InitPriority[u]]
  /\ Enter(t, u, "resume")
  /\ UNCHANGED allocated

(* rt_thread_resume, then rt_schedule as its callers do *)
Resume(t, u) ==
  /\ At(t, Run)
  /\ u \in allocated /\ kern.stat[u] = "SUSPEND"
  /\ Enter(t, u, "resume")
  /\ UNCHANGED <<kern, allocated>>

ResumeFirst(t) ==
  /\ At(t, "resume")
  /\ kern' = ResumeUnlink(kern, target[t])
  /\ Goto(t, "insert")
  /\ UNCHANGED <<allocated, target>>

ResumeInsert(t) ==
  /\ At(t, "insert")
  /\ kern' = rt_schedule_insert_thread(kern, target[t])
  /\ Goto(t, "sched")
  /\ UNCHANGED <<allocated, target>>

(* rt_thread_suspend: the state is read with interrupts enabled *)
Suspend(t, u) ==
  /\ At(t, Run)
  /\ u \in allocated /\ kern.stat[u] = "READY"
  /\ Enter(t, u, "suspend")
  /\ UNCHANGED <<kern, allocated>>

SuspendRest(t) ==
  /\ At(t, "suspend")
  /\ LET u == target[t]
     IN  kern' = [rt_schedule_remove_thread(kern, u)
                    EXCEPT !.stat[u] = "SUSPEND", !.timer = @ \ {u}]
  /\ Goto(t, Run)
  /\ UNCHANGED <<allocated, target>>

(* mutant: a thread that is closed already is closed again *)
DeleteTwice(t, u) ==
  /\ At(t, Run)
  /\ u \in allocated
  /\ kern' = IF kern.stat[u] = "INIT" THEN kern
             ELSE rt_schedule_remove_thread(kern, u)
  /\ Enter(t, u, "delete")
  /\ UNCHANGED allocated

(* rt_thread_delete: a thread that is closed already is left alone *)
Delete(t, u) ==
  /\ At(t, Run)
  /\ u \in allocated /\ kern.stat[u] # "CLOSE"
  /\ kern' = IF kern.stat[u] = "INIT" THEN kern
             ELSE rt_schedule_remove_thread(kern, u)
  /\ Enter(t, u, "delete")
  /\ UNCHANGED allocated

(* _thread_cleanup_execute and rt_timer_detach *)
DeleteTimer(t) ==
  /\ At(t, "delete")
  /\ kern' = [kern EXCEPT !.timer = @ \ {target[t]}]
  /\ Goto(t, "close")
  /\ UNCHANGED <<allocated, target>>

Close(k, u) == [ListInsert(k, Defunct, 1, u) EXCEPT !.stat[u] = "CLOSE"]

DeleteClose(t) ==
  /\ At(t, "close")
  /\ kern' = Close(kern, target[t])
  /\ Goto(t, Run)
  /\ UNCHANGED <<allocated, target>>

(* rt_thread_control(RT_THREAD_CTRL_CHANGE_PRIORITY), without rt_schedule *)
SetPriority(t, u, p) ==
  /\ At(t, Run)
  /\ u \in allocated /\ kern.stat[u] \in {"READY", "SUSPEND"}
  /\ kern' = ChangePriority(kern, u, p)
  /\ UNCHANGED <<pc, allocated, target>>

(***************************************************************************)
(* What a thread t does to itself.  It only gives the processor away while *)
(* it does not hold the scheduler lock, except that it may yield in vain.  *)
(***************************************************************************)
Yield(t) ==
  /\ At(t, Run)
  /\ kern' = rt_schedule([kern EXCEPT !.yield = @ \cup {t}])
  /\ UNCHANGED <<pc, allocated, target>>

SuspendSelf(t) ==
  /\ At(t, Run) /\ kern.lock = 0
  /\ kern' = rt_thread_suspend(kern, t)
  /\ Goto(t, "sched")
  /\ UNCHANGED <<allocated, target>>

(* rt_thread_exit, all of it with interrupts disabled *)
Exit(t) ==
  /\ At(t, Run) /\ kern.lock = 0
  /\ LET k == rt_schedule_remove_thread(kern, t)
     IN  kern' = rt_schedule(Close([k EXCEPT !.timer = @ \ {t}], t))
  /\ UNCHANGED <<pc, allocated, target>>

Sleep(t) ==
  /\ \/ kern.lock = 0 /\ SleepBegin(t)
     \/ Reschedule(t, "sleep", "slept")
     \/ SleepEnd(t)
  /\ UNCHANGED <<allocated, target>>

Schedule(t) ==
  /\ Reschedule(t, "sched", Run)
  /\ UNCHANGED <<allocated, target>>

EnterCritical(t) ==
  /\ At(t, Run)
  /\ kern.lock < MaxLock
  /\ kern' = [kern EXCEPT !.lock = @ + 1]
  /\ UNCHANGED <<pc, allocated, target>>

(* mutant: a switch held back by the lock is not made up for *)
ExitCriticalNoSchedule(t) ==
  /\ At(t, Run)
  /\ kern.lock > 0
  /\ kern' = [kern EXCEPT !.lock = @ - 1]
  /\ UNCHANGED <<pc, allocated, target>>

(* the last rt_exit_critical enables interrupts and then calls rt_schedule *)
ExitCritical(t) ==
  /\ At(t, Run)
  /\ kern.lock > 0
  /\ kern' = [kern EXCEPT !.lock = @ - 1]
  /\ IF kern.lock = 1 THEN Goto(t, "sched") ELSE UNCHANGED pc
  /\ UNCHANGED <<allocated, target>>

(* mutant: the last closed thread is left in the list *)
ReapSparesLast ==
  /\ At(Idle, Run)
  /\ Len(kern.list[Defunct]) > 1
  /\ LET u == Head(kern.list[Defunct])
     IN  /\ kern' = rt_list_remove(kern, u)
         /\ allocated' = allocated \ {u}
  /\ UNCHANGED <<pc, target>>

(* one turn of the loop of rt_thread_idle_excute *)
Reap ==
  /\ At(Idle, Run)
  /\ kern.list[Defunct] # <<>>
  /\ LET u == Head(kern.list[Defunct])
     IN  /\ kern' = rt_list_remove(kern, u)
         /\ allocated' = allocated \ {u}
  /\ UNCHANGED <<pc, target>>

(* the priorities a controller gives are less urgent than its own *)
Call(t, u) ==
  \/ Create(t, u) \/ Startup(t, u)
  \/ Resume(t, u) \/ ResumeFirst(t) \/ ResumeInsert(t)
  \/ Suspend(t, u) \/ SuspendRest(t)
  \/ Delete(t, u) \/ DeleteTimer(t) \/ DeleteClose(t)
  \/ \E p \in Priority :
       InitPriority[t] < p /\ p < InitPriority[Idle] /\ SetPriority(t, u, p)

Self(t) ==
  \/ Yield(t) \/ SuspendSelf(t) \/ Schedule(t)
  \/ EnterCritical(t) \/ ExitCritical(t)
  \/ t \in Managed /\ Exit(t)
  \/ t \in Sleeper /\ Sleep(t)

Tick ==
  /\ SliceExpires \/ \E t \in Thread : TimerExpires(t)
  /\ UNCHANGED <<allocated, target>>

Next ==
  \/ \E t \in Controller, u \in Managed : Call(t, u)
  \/ \E t \in Thread \ {Idle} : Self(t)
  \/ Reap
  \/ Tick

Spec == Init /\ [][Next]_vars

(***************************************************************************)
(* Properties                                                              *)
(***************************************************************************)
(* threads that a rt_thread_delete in progress is taking away *)
Closing == {target[t] : t \in {c \in Controller : pc[c] \in {"delete", "close"}}}

TypeOK ==
  /\ kern \in KernelState
  /\ pc \in [Thread -> {Run, "resume", "insert", "suspend", "delete", "close",
                        "sched", "sleep", "slept"}]
  /\ allocated \subseteq Thread
  /\ target \in [Controller -> Controller \cup Managed]

(* Every thread is in the list its state says, with a thread that is being  *)
(* deleted counted as closed: the windows of rt_thread_resume, _suspend and *)
(* _delete do no harm as long as the thread they work on is less urgent     *)
(* than the caller, has no timeout running and nobody else works on it.     *)
KernelConsistent ==
  /\ TypeOK
  /\ KernelOK([kern EXCEPT !.stat =
                 [t \in Thread |-> IF t \in Closing THEN "CLOSE" ELSE @[t]]])

(* Memory of a thread is released once, and never while the scheduler, a    *)
(* list, a timer or a call in progress can still reach the thread; a closed *)
(* thread waits for the idle thread and nobody brings it back.              *)
ReleasedSafely ==
  \A t \in Thread :
    /\ t \notin allocated =>
         /\ ~ Linked(kern, t) /\ t # kern.current /\ t \notin kern.timer
         /\ \A c \in Controller :
              target[c] = t => pc[c] \in {Run, "sched", "sleep", "slept"}
    /\ Contains(kern.list[Defunct], t) <=>
         t \in allocated /\ kern.stat[t] = "CLOSE"

MostUrgentRuns ==
  pc[kern.current] = Run /\ kern.lock = 0 =>
    \A t \in Thread : kern.stat[t] = "READY" =>
      kern.priority[kern.current] <= kern.priority[t]

(* The end of a critical section makes up for the switches it held back:    *)
(* only a change of priority lets a thread go on although a more urgent one *)
(* is ready.                                                                *)
PreemptionMissedByPriorityOnly ==
  [][ MostUrgentRuns /\ ~MostUrgentRuns' =>
        kern'.priority # kern.priority /\ kern'.lock = 0 ]_vars

(* A deleted thread is out of the ready queues and the processor for good:  *)
(* "the thread object will be removed from thread queue" (rt_thread_delete).*)
DeletedThreadLeavesQueue ==
  \A t \in Thread : kern.stat[t] = "CLOSE" =>
    \A p \in Priority : ~ Contains(kern.ready[p], t)

(* The idle thread does not pass over defunct threads whenever it runs. *)
FairSpec == Spec /\ SF_vars(Reap)

(* If the other threads leave time for the idle thread again and again, and *)
(* no thread is closed any more after a while, every closed thread's memory *)
(* is released.  Without the second condition it need not be: a thread is   *)
(* put at the front of rt_thread_defunct, where the idle thread also takes  *)
(* its next one, so later threads go first.                                 *)
NobodyCloses ==
  \A t \in Managed : kern'.stat[t] = "CLOSE" => kern.stat[t] = "CLOSE"

ClosedIsReleased ==
  []<>(kern.current = Idle) /\ <>[][NobodyCloses]_vars =>
    \A t \in Managed :
      (t \in allocated /\ kern.stat[t] = "CLOSE") ~> t \notin allocated
=============================================================================
