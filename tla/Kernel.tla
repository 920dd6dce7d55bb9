------------------------------- MODULE Kernel -------------------------------
(***************************************************************************)
(* The kernel state that every blocking service of RT-Thread shares, and   *)
(* the functions of scheduler.c, thread.c and ipc.c that change it.        *)
(*                                                                         *)
(* The state is one record, k, and each C function is an operator of the   *)
(* same name that maps the record before the call to the record after it,  *)
(* so that a caller composes the calls it makes while interrupts are       *)
(* disabled.  The configuration is the one of rtconfig.h: one core, no     *)
(* soft timers, no signals.  A thread's built-in timer is only active or   *)
(* not: how long it has to run is left to Timer's tick arithmetic.         *)
(***************************************************************************)
EXTENDS Integers, SequencesExt

CONSTANTS
  Thread,                  \* every thread of the system, the idle one included
  Idle,                    \* the idle thread, which never blocks
  RT_THREAD_PRIORITY_MAX,  \* number of priority levels, 0 is the most urgent
  InitPriority,            \* init_priority of each thread
  List                     \* the list heads other than the ready queues

Priority == 0 .. RT_THREAD_PRIORITY_MAX - 1

ASSUME KernelAssumption ==
  /\ RT_THREAD_PRIORITY_MAX \in Nat \ {0}
  /\ IsFiniteSet(Thread)
  /\ Idle \in Thread
  /\ InitPriority \in [Thread -> Priority]

(* thread->stat & RT_THREAD_STAT_MASK *)
Stat == {"INIT", "READY", "SUSPEND", "RUNNING", "CLOSE"}

(* thread->error *)
Error == {"RT_EOK", "RT_ERROR", "RT_ETIMEOUT"}

KernelState ==
  [current  : Thread,                       \* rt_current_thread
   stat     : [Thread -> Stat],
   yield    : SUBSET Thread,                \* RT_THREAD_STAT_YIELD is set
   priority : [Thread -> Priority],         \* current_priority, number_mask
   error    : [Thread -> Error],
   timer    : SUBSET Thread,                \* thread_timer is ACTIVATED
   ready    : [Priority -> Seq(Thread)],    \* rt_thread_priority_table
   group    : SUBSET Priority,              \* rt_thread_ready_priority_group
   list     : [List -> Seq(Thread)],        \* suspend lists, rt_thread_defunct
   lock     : Nat,                          \* rt_scheduler_lock_nest
   fault    : BOOLEAN]                      \* a list or an assertion is broken

(***************************************************************************)
(* thread->tlist, the one list node of a thread.                           *)
(***************************************************************************)
Linked(k, t) ==
  \/ \E p \in Priority : Contains(k.ready[p], t)
  \/ \E l \in List : Contains(k.list[l], t)

(* rt_list_remove: the node leaves whichever list it is in *)
rt_list_remove(k, t) ==
  [k EXCEPT !.ready = [p \in Priority |-> RemoveFirst(@[p], t)],
            !.list  = [l \in List |-> RemoveFirst(@[l], t)]]

(* rt_list_insert_before in front of the i-th node of list l, at its tail   *)
(* for i one past the end.  The C code links a node without looking whether *)
(* it is still linked elsewhere, which breaks the other list.               *)
ListInsert(k, l, i, t) ==
  [k EXCEPT !.list[l] = InsertAt(@, i, t),
            !.fault   = @ \/ Linked(k, t)]

(***************************************************************************)
(* scheduler.c                                                             *)
(***************************************************************************)
rt_schedule_insert_thread(k, t) ==
  IF t = k.current
  THEN [k EXCEPT !.stat[t] = "RUNNING"]
  ELSE [k EXCEPT !.stat[t] = "READY",
                 !.ready[k.priority[t]] = Append(@, t),
                 !.group = @ \cup {k.priority[t]},
                 !.fault = @ \/ Linked(k, t)]

(* mutant: the bit of an emptied ready queue stays set *)
RemoveKeepsBit(k, t) == rt_list_remove(k, t)

rt_schedule_remove_thread(k, t) ==
  LET u == rt_list_remove(k, t)
  IN  IF u.ready[u.priority[t]] = <<>>
      THEN [u EXCEPT !.group = @ \ {u.priority[t]}]
      ELSE u

(* The running thread keeps the processor against a less urgent thread, and *)
(* against an equally urgent one unless it yields.                          *)
KeepsRunning(k, highest) ==
  /\ k.stat[k.current] = "RUNNING"
  /\ \/ k.priority[k.current] < highest
     \/ k.priority[k.current] = highest /\ k.current \notin k.yield

(* The bit of a priority tells that its list has a thread; a bit that lies  *)
(* makes the scheduler switch to the list head as if it were a thread.      *)
rt_schedule(k) ==
  IF k.lock > 0 \/ k.group = {} THEN k
  ELSE LET highest == Min(k.group)
           from    == k.current
           running == k.stat[from] = "RUNNING"
           cleared == IF running THEN [k EXCEPT !.yield = @ \ {from}] ELSE k
       IN  IF k.ready[highest] = <<>> THEN [k EXCEPT !.fault = TRUE]
           ELSE IF KeepsRunning(k, highest)
           THEN rt_schedule_remove_thread(cleared, from)
           ELSE LET to     == Head(k.ready[highest])
                    chosen == [cleared EXCEPT !.current = to]
                    queued == IF running
                              THEN rt_schedule_insert_thread(chosen, from)
                              ELSE chosen
                IN  [rt_schedule_remove_thread(queued, to)
                       EXCEPT !.stat[to] = "RUNNING"]

(***************************************************************************)
(* thread.c                                                                *)
(***************************************************************************)
rt_thread_suspend(k, t) ==
  IF k.stat[t] \notin {"READY", "RUNNING"} THEN k
  ELSE [rt_schedule_remove_thread(k, t)
          EXCEPT !.stat[t] = "SUSPEND", !.timer = @ \ {t}]

(* The part of rt_thread_resume that runs before interrupts are enabled. *)
ResumeUnlink(k, t) == [rt_list_remove(k, t) EXCEPT !.timer = @ \ {t}]

(* rt_thread_resume called with interrupts disabled, as every service does *)
rt_thread_resume(k, t) ==
  IF k.stat[t] # "SUSPEND" THEN k
  ELSE rt_schedule_insert_thread(ResumeUnlink(k, t), t)

rt_timer_start(k, t) == [k EXCEPT !.timer = @ \cup {t}]

(* mutant: a thread that times out stays in the suspend list *)
TimeoutLeavesLinked(k, t) ==
  rt_schedule(rt_schedule_insert_thread(
    [k EXCEPT !.timer = @ \ {t}, !.error[t] = "RT_ETIMEOUT"], t))

(* mutant: a thread that times out does not preempt the running one *)
TimeoutNoSchedule(k, t) ==
  rt_schedule_insert_thread(
    [rt_list_remove(k, t) EXCEPT !.timer = @ \ {t},
                                 !.error[t] = "RT_ETIMEOUT"], t)

(* rt_thread_timeout, called by rt_timer_check for a timer that it has just *)
(* taken off its list.                                                      *)
rt_thread_timeout(k, t) ==
  LET expired == [rt_list_remove(k, t) EXCEPT
                    !.timer    = @ \ {t},
                    !.error[t] = "RT_ETIMEOUT",
                    !.fault    = @ \/ k.stat[t] # "SUSPEND"]
  IN  rt_schedule(rt_schedule_insert_thread(expired, t))

(* mutant: a ready thread stays in the queue of its old priority *)
ChangePriorityInPlace(k, t, p) == [k EXCEPT !.priority[t] = p]

(* rt_thread_control(t, RT_THREAD_CTRL_CHANGE_PRIORITY, p) *)
ChangePriority(k, t, p) ==
  IF k.stat[t] = "READY"
  THEN rt_schedule_insert_thread(
         [rt_schedule_remove_thread(k, t) EXCEPT !.priority[t] = p], t)
  ELSE [k EXCEPT !.priority[t] = p]

(***************************************************************************)
(* ipc.c: the suspend lists                                                *)
(***************************************************************************)
(* mutant: a thread also enters in front of equally urgent ones *)
PositionBeforeEquals(k, s, t, flag) ==
  LET behind == { i \in DOMAIN s : k.priority[t] <= k.priority[s[i]] }
  IN  IF flag = "RT_IPC_FLAG_PRIO" /\ behind # {}
      THEN Min(behind) ELSE Len(s) + 1

(* where a thread of t's priority enters list s *)
SuspendPosition(k, s, t, flag) ==
  LET behind == { i \in DOMAIN s : k.priority[t] < k.priority[s[i]] }
  IN  IF flag = "RT_IPC_FLAG_PRIO" /\ behind # {}
      THEN Min(behind) ELSE Len(s) + 1

rt_ipc_list_suspend(k, l, t, flag) ==
  LET s == rt_thread_suspend(k, t)
  IN  ListInsert(s, l, SuspendPosition(s, s.list[l], t, flag), t)

rt_ipc_list_resume(k, l) == rt_thread_resume(k, Head(k.list[l]))

(* one turn of the loop of rt_ipc_list_resume_all *)
ResumeWithError(k, l) ==
  LET t == Head(k.list[l])
  IN  rt_thread_resume([k EXCEPT !.error[t] = "RT_ERROR"], t)

(* mutant: only the first waiter is looked at *)
PriorityOfFirst(k, l) == k.priority[Head(k.list[l])]

rt_ipc_get_highest_priority(k, l) ==
  Min({RT_THREAD_PRIORITY_MAX - 1}
        \cup {k.priority[t] : t \in ToSet(k.list[l])})

(***************************************************************************)
(* rt_system_scheduler_start: the threads in started are ready, the others *)
(* only initialized, and c, one of the most urgent ones, gets the          *)
(* processor.                                                              *)
(***************************************************************************)
BootState(started, c) ==
  [current  |-> c,
   stat     |-> [t \in Thread |-> CASE t = c -> "RUNNING"
                                  [] t \in started \ {c} -> "READY"
                                  [] OTHER -> "INIT"],
   yield    |-> {},
   priority |-> InitPriority,
   error    |-> [t \in Thread |-> "RT_EOK"],
   timer    |-> {},
   ready    |-> [p \in Priority |->
                   SetToSeq({t \in started \ {c} : InitPriority[t] = p})],
   group    |-> {InitPriority[t] : t \in started \ {c}},
   list     |-> [l \in List |-> <<>>],
   lock     |-> 0,
   fault    |-> FALSE]

Booted(k, started) ==
  \E c \in started :
    /\ \A t \in started : InitPriority[c] <= InitPriority[t]
    /\ k = BootState(started, c)
=============================================================================
