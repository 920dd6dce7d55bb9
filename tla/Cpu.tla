-------------------------------- MODULE Cpu --------------------------------
(***************************************************************************)
(* One processor that runs the threads of Kernel and takes interrupts.     *)
(*                                                                         *)
(* pc[t] is the point of the kernel call that thread t is in.  A step of a *)
(* thread is a stretch of code that runs with interrupts disabled; between *)
(* two steps interrupts are enabled, and the tick interrupt or a device    *)
(* interrupt may come, unless the point is one of Masked.  Only the        *)
(* current thread executes: after rt_schedule has switched away from t,    *)
(* t's next step waits until t is current again.                           *)
(***************************************************************************)
EXTENDS Kernel

VARIABLES
  kern,  \* the kernel state
  pc     \* where each thread is

(* outside any kernel call, where a thread chooses what to do next *)
Run == "run"

(* loops that keep interrupts disabled over several steps *)
Masked == {"reset", "reset_senders"}

IrqEnabled == pc[kern.current] \notin Masked

(* thread t has the processor and is at point p *)
At(t, p) == kern.current = t /\ pc[t] = p

Goto(t, p) == pc' = [pc EXCEPT ![t] = p]

(* The call of rt_schedule that ends a service, with interrupts enabled     *)
(* just before it: t goes on at point q when it is current again.           *)
Reschedule(t, p, q) ==
  /\ At(t, p)
  /\ kern' = rt_schedule(kern)
  /\ Goto(t, q)

(* The services that keep suspended threads in lists of their own share the *)
(* way into such a list: it ends with a call of rt_schedule at point p.     *)
WaitIn(t, l, flag, hasTimeout, p) ==
  /\ LET k == rt_ipc_list_suspend([kern EXCEPT !.error[t] = "RT_EOK"],
                                  l, t, flag)
     IN  kern' = IF hasTimeout THEN rt_timer_start(k, t) ELSE k
  /\ Goto(t, p)

(* mutant: the call that resumes a thread does not reschedule *)
WakeNoSchedule(t, l) ==
  /\ kern' = IF kern.list[l] = <<>> THEN kern ELSE rt_ipc_list_resume(kern, l)
  /\ Goto(t, Run)

(* The end of a successful call: it resumes the first thread of list l and  *)
(* is then due to call rt_schedule, or returns at once when nobody waits.   *)
WakeFirst(t, l) ==
  IF kern.list[l] = <<>>
  THEN kern' = kern /\ Goto(t, Run)
  ELSE kern' = rt_ipc_list_resume(kern, l) /\ Goto(t, "sched")

(* the same end of a call made by an interrupt handler, whose rt_schedule   *)
(* is over before any thread goes on                                        *)
IsrWakeFirst(l) ==
  kern' = IF kern.list[l] = <<>> THEN kern
          ELSE rt_schedule(rt_ipc_list_resume(kern, l))

(* rt_thread_sleep: up to its rt_schedule, and after it *)
SleepBegin(t) ==
  /\ At(t, Run)
  /\ kern' = rt_timer_start(rt_thread_suspend(kern, t), t)
  /\ Goto(t, "sleep")

SleepEnd(t) ==
  /\ At(t, "slept")
  /\ kern' = IF kern.error[t] = "RT_ETIMEOUT"
             THEN [kern EXCEPT !.error[t] = "RT_EOK"] ELSE kern
  /\ Goto(t, Run)

(***************************************************************************)
(* The tick interrupt: rt_tick_increase.  How many ticks a slice or a      *)
(* timer lasts is left open, so a tick that ends neither is a stutter and  *)
(* one that ends several is several of these steps in a row.               *)
(***************************************************************************)
SliceExpires ==
  /\ IrqEnabled
  /\ kern' = rt_schedule([kern EXCEPT !.yield = @ \cup {kern.current}])
  /\ UNCHANGED pc

TimerExpires(t) ==
  /\ IrqEnabled
  /\ t \in kern.timer
  /\ kern' = rt_thread_timeout(kern, t)
  /\ UNCHANGED pc

CpuInit ==
  /\ Booted(kern, Thread)
  /\ pc = [t \in Thread |-> Run]

(***************************************************************************)
(* What the kernel data must satisfy whenever no service is half way.      *)
(***************************************************************************)
(* A thread is in a ready queue exactly when it is READY, in the queue of   *)
(* its priority and once; the bitmap names the queues that have a thread.   *)
ReadyQueueOK(k) ==
  /\ \A p \in Priority :
       /\ p \in k.group <=> k.ready[p] # <<>>
       /\ IsInjective(k.ready[p])
       /\ \A t \in ToSet(k.ready[p]) : k.stat[t] = "READY" /\ k.priority[t] = p
  /\ \A t \in Thread :
       k.stat[t] = "READY" => t \in ToSet(k.ready[k.priority[t]])

(* Suspend lists hold suspended threads only and rt_thread_defunct closed   *)
(* ones, each of them once.                                                 *)
ListedStat(l) == IF l = "rt_thread_defunct" THEN "CLOSE" ELSE "SUSPEND"

SuspendListOK(k) ==
  /\ \A l \in List :
       /\ IsInjective(k.list[l])
       /\ \A t \in ToSet(k.list[l]) : k.stat[t] = ListedStat(l)
  /\ \A l, m \in List :
       ToSet(k.list[l]) \cap ToSet(k.list[m]) # {} => l = m

(* The current thread is out of the ready queues, nobody else is RUNNING,   *)
(* the idle thread can always run, and a timer only runs for a thread that  *)
(* rt_thread_timeout may resume.                                            *)
CurrentOK(k) ==
  /\ k.stat[k.current] # "READY"
  /\ \A t \in Thread : k.stat[t] = "RUNNING" => t = k.current
  /\ k.stat[Idle] \in {"READY", "RUNNING"}
  /\ \A t \in k.timer : k.stat[t] = "SUSPEND"

(* Where no call of rt_schedule is due, at one of the given points, the     *)
(* running thread is one of the most urgent ready ones.                     *)
MostUrgentRunsAt(points) ==
  pc[kern.current] \in points =>
    /\ kern.stat[kern.current] = "RUNNING"
    /\ \A t \in Thread : kern.stat[t] = "READY" =>
         kern.priority[kern.current] <= kern.priority[t]

KernelOK(k) ==
  /\ k \in KernelState
  /\ ~k.fault
  /\ ReadyQueueOK(k)
  /\ SuspendListOK(k)
  /\ CurrentOK(k)
=============================================================================
