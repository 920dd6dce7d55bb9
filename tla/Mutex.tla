------------------------------- MODULE Mutex -------------------------------
(***************************************************************************)
(* The mutexes of ipc.c: recursive taking, hand-over to the first waiter,  *)
(* and the priority a waiter lends to the owner.                           *)
(***************************************************************************)
EXTENDS Cpu

CONSTANTS
  Mutexes,           \* the mutexes of the system
  NoOwner,           \* RT_NULL
  RT_MUTEX_HOLD_MAX  \* largest hold count

ASSUME MutexAssumption ==
  /\ RT_MUTEX_HOLD_MAX \in Nat \ {0}
  /\ NoOwner \notin Thread
  /\ List = Mutexes
  /\ "rt_thread_defunct" \notin Mutexes

VARIABLES
  value,              \* mutex->value, 1 when the mutex is free
  owner,              \* mutex->owner
  hold,               \* mutex->hold
  original_priority,  \* mutex->original_priority
  flag,               \* mutex->parent.parent.flag
  want                \* the argument of a thread's pending rt_mutex_take

mutexes == <<value, owner, hold, original_priority, flag>>
vars == <<kern, pc, mutexes, want>>

(* original_priority of a mutex without an owner, 0xff in the code *)
NoPriority == RT_THREAD_PRIORITY_MAX

Init ==
  /\ CpuInit
  /\ value = [m \in Mutexes |-> 1]
  /\ owner = [m \in Mutexes |-> NoOwner]
  /\ hold = [m \in Mutexes |-> 0]
  /\ original_priority = [m \in Mutexes |-> NoPriority]
  /\ flag \in [Mutexes -> {"RT_IPC_FLAG_FIFO", "RT_IPC_FLAG_PRIO"}]
  /\ want \in [Thread -> Mutexes]

ClearError(t) == [kern EXCEPT !.error[t] = "RT_EOK"]

(***************************************************************************)
(* rt_mutex_take                                                           *)
(***************************************************************************)
TakeAgain(t, m) ==
  /\ At(t, Run)
  /\ owner[m] = t
  /\ kern' = ClearError(t)
  /\ hold' = IF hold[m] < RT_MUTEX_HOLD_MAX
             THEN [hold EXCEPT ![m] = @ + 1] ELSE hold   \* -RT_EFULL
  /\ UNCHANGED <<pc, value, owner, original_priority, flag, want>>

TakeFree(t, m) ==
  /\ At(t, Run)
  /\ owner[m] # t
  /\ value[m] > 0
  /\ kern' = ClearError(t)
  /\ value' = [value EXCEPT ![m] = @ - 1]
  /\ owner' = [owner EXCEPT ![m] = t]
  /\ original_priority' = [original_priority EXCEPT ![m] = kern.priority[t]]
  /\ hold' = [hold EXCEPT ![m] = @ + 1]
  /\ UNCHANGED <<pc, flag, want>>

(* time = 0 *)
TryTakeFails(t, m) ==
  /\ At(t, Run)
  /\ owner[m] # t
  /\ value[m] = 0
  /\ kern' = [kern EXCEPT !.error[t] = "RT_ETIMEOUT"]
  /\ UNCHANGED <<pc, mutexes, want>>

(* mutant: the error number of an earlier call is left in the thread *)
TakeWaitStaleError(t, m, timed) ==
  /\ At(t, Run)
  /\ owner[m] # t
  /\ value[m] = 0
  /\ LET lent == IF kern.priority[t] < kern.priority[owner[m]]
                 THEN ChangePriority(kern, owner[m], kern.priority[t])
                 ELSE kern
         k    == rt_ipc_list_suspend(lent, m, t, flag[m])
     IN  kern' = IF timed THEN rt_timer_start(k, t) ELSE k
  /\ want' = [want EXCEPT ![t] = m]
  /\ Goto(t, "take")
  /\ UNCHANGED mutexes

(* the owner inherits the priority of a more urgent waiter *)
TakeWait(t, m, timed) ==
  /\ At(t, Run)
  /\ owner[m] # t
  /\ value[m] = 0
  /\ LET lent == IF kern.priority[t] < kern.priority[owner[m]]
                 THEN ChangePriority(ClearError(t), owner[m], kern.priority[t])
                 ELSE ClearError(t)
         k    == rt_ipc_list_suspend(lent, m, t, flag[m])
     IN  kern' = IF timed THEN rt_timer_start(k, t) ELSE k
  /\ want' = [want EXCEPT ![t] = m]
  /\ Goto(t, "take")
  /\ UNCHANGED mutexes

TakeSchedule(t) ==
  /\ Reschedule(t, "take", "taken")
  /\ UNCHANGED <<mutexes, want>>

(* back from rt_schedule: with RT_EOK the mutex has been handed over to t *)
TakeReturn(t) ==
  /\ At(t, "taken")
  /\ Goto(t, Run)
  /\ UNCHANGED <<kern, mutexes, want>>

(***************************************************************************)
(* rt_mutex_release                                                        *)
(***************************************************************************)
ReleaseFails(t, m) ==
  /\ At(t, Run)
  /\ owner[m] # t
  /\ kern' = [kern EXCEPT !.error[t] = "RT_ERROR"]
  /\ UNCHANGED <<pc, mutexes, want>>

ReleaseInner(t, m) ==
  /\ At(t, Run)
  /\ owner[m] = t
  /\ hold[m] > 1
  /\ hold' = [hold EXCEPT ![m] = @ - 1]
  /\ UNCHANGED <<kern, pc, value, owner, original_priority, flag, want>>

(* the owner goes back to the priority it had when it got the mutex *)
Restored(t, m) ==
  IF original_priority[m] # kern.priority[t]
  THEN ChangePriority(kern, t, original_priority[m]) ELSE kern

(* nobody waits: the mutex is free, and rt_schedule is not called *)
ReleaseFree(t, m) ==
  /\ At(t, Run)
  /\ owner[m] = t
  /\ hold[m] = 1
  /\ kern.list[m] = <<>>
  /\ kern' = Restored(t, m)
  /\ value' = [value EXCEPT ![m] = @ + 1]
  /\ owner' = [owner EXCEPT ![m] = NoOwner]
  /\ original_priority' = [original_priority EXCEPT ![m] = NoPriority]
  /\ hold' = [hold EXCEPT ![m] = 0]
  /\ UNCHANGED <<pc, flag, want>>

(* mutant: the new owner's priority is recorded after it has been raised *)
HandOverRecordsLent(t, m) ==
  /\ At(t, Run)
  /\ owner[m] = t
  /\ hold[m] = 1
  /\ kern.list[m] # <<>>
  /\ LET k    == Restored(t, m)
         next == Head(k.list[m])
         high == rt_ipc_get_highest_priority(k, m)
     IN  /\ kern' = rt_ipc_list_resume(ChangePriority(k, next, high), m)
         /\ owner' = [owner EXCEPT ![m] = next]
         /\ original_priority' = [original_priority EXCEPT ![m] = high]
  /\ Goto(t, "sched")
  /\ UNCHANGED <<value, hold, flag, want>>

(* The first waiter becomes the owner; in a FIFO list a more urgent thread  *)
(* may wait behind it, whose priority it gets.                              *)
ReleaseHandOver(t, m) ==
  /\ At(t, Run)
  /\ owner[m] = t
  /\ hold[m] = 1
  /\ kern.list[m] # <<>>
  /\ LET k    == Restored(t, m)
         next == Head(k.list[m])
         high == rt_ipc_get_highest_priority(k, m)
         lent == IF flag[m] = "RT_IPC_FLAG_FIFO" /\ k.priority[next] # high
                 THEN ChangePriority(k, next, high) ELSE k
     IN  /\ kern' = rt_ipc_list_resume(lent, m)
         /\ owner' = [owner EXCEPT ![m] = next]
         /\ original_priority' =
              [original_priority EXCEPT ![m] = k.priority[next]]
  /\ Goto(t, "sched")
  /\ UNCHANGED <<value, hold, flag, want>>

Schedule(t) ==
  /\ Reschedule(t, "sched", Run)
  /\ UNCHANGED <<mutexes, want>>

(* rt_thread_sleep: how a thread without a mutex lets the others run *)
Sleep(t) ==
  /\ \/ SleepBegin(t)
     \/ Reschedule(t, "sleep", "slept")
     \/ SleepEnd(t)
  /\ UNCHANGED <<mutexes, want>>

Call(t) ==
  \E m \in Mutexes :
    \/ TakeAgain(t, m) \/ TakeFree(t, m) \/ TryTakeFails(t, m)
    \/ \E timed \in BOOLEAN : TakeWait(t, m, timed)
    \/ ReleaseFails(t, m) \/ ReleaseInner(t, m)
    \/ ReleaseFree(t, m) \/ ReleaseHandOver(t, m)

Continue(t) == TakeSchedule(t) \/ TakeReturn(t) \/ Schedule(t)

Tick ==
  /\ SliceExpires \/ \E t \in Thread : TimerExpires(t)
  /\ UNCHANGED <<mutexes, want>>

Next ==
  \/ \E t \in Thread \ {Idle} : Call(t) \/ Continue(t) \/ Sleep(t)
  \/ Tick

Spec == Init /\ [][Next]_vars

(***************************************************************************)
(* Properties                                                              *)
(***************************************************************************)
TypeOK ==
  /\ kern \in KernelState
  /\ pc \in [Thread -> {Run, "take", "taken", "sched", "sleep", "slept"}]
  /\ value \in [Mutexes -> {0, 1}]
  /\ owner \in [Mutexes -> Thread \cup {NoOwner}]
  /\ hold \in [Mutexes -> 0 .. RT_MUTEX_HOLD_MAX]
  /\ original_priority \in [Mutexes -> Priority \cup {NoPriority}]
  /\ flag \in [Mutexes -> {"RT_IPC_FLAG_FIFO", "RT_IPC_FLAG_PRIO"}]
  /\ want \in [Thread -> Mutexes]

(* owner, value and hold agree, and nobody waits for a free mutex *)
OwnerOK ==
  \A m \in Mutexes :
    /\ owner[m] = NoOwner <=> value[m] = 1
    /\ owner[m] = NoOwner <=> hold[m] = 0
    /\ owner[m] = NoOwner => kern.list[m] = <<>>

(* Every thread is in the list its state says, although a waiter changes    *)
(* the priority, and so the ready queue, of another thread; and the mutex   *)
(* is free exactly when it looks free to the next taker.                    *)
KernelConsistent == TypeOK /\ KernelOK(kern) /\ OwnerOK

(* A thread whose rt_mutex_take has waited owns the mutex exactly when it   *)
(* is going to return RT_EOK: a release that hands the mutex over and the   *)
(* timeout of the waiter never both win, and neither is forgotten.          *)
HandOverReturned ==
  \A t \in Thread :
    pc[t] \in {"take", "taken"} =>
      IF kern.stat[t] = "SUSPEND"
      THEN Contains(kern.list[want[t]], t) /\ owner[want[t]] # t
      ELSE owner[want[t]] = t <=> kern.error[t] = "RT_EOK"

(* The owner of a mutex is at least as urgent as every thread that waits    *)
(* for it, so that a thread in between cannot hold the waiter up.           *)
NoInversion ==
  \A m \in Mutexes : \A t \in ToSet(kern.list[m]) :
    kern.priority[owner[m]] <= kern.priority[t]

(* A lent priority is given back: a thread that owns no mutex runs at the   *)
(* priority it was created with.                                            *)
PriorityRestored ==
  \A t \in Thread :
    (\A m \in Mutexes : owner[m] # t) => kern.priority[t] = InitPriority[t]

MostUrgentRuns ==
  pc[kern.current] \in {Run, "taken", "slept"} =>
    \A t \in Thread : kern.stat[t] = "READY" =>
      kern.priority[kern.current] <= kern.priority[t]

(* The only step that lets a thread go on although a more urgent one is     *)
(* ready is a release without waiters that gives back a lent priority:      *)
(* rt_mutex_release does not call rt_schedule then, and the more urgent     *)
(* thread waits for the next interrupt or service that does.                *)
PreemptionMissedByReleaseOnly ==
  [][ MostUrgentRuns /\ ~MostUrgentRuns' =>
        \E m \in Mutexes :
          /\ ReleaseFree(kern.current, m)
          /\ kern.priority[kern.current] < kern'.priority[kern.current] ]_vars
=============================================================================
