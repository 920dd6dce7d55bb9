---------------------------- MODULE DeviceProofs ----------------------------
(***************************************************************************)
(* The work queue, the AT client, the timers and the serial device, which  *)
(* run beside the scheduler.                                               *)
(***************************************************************************)
EXTENDS WorkQueue, AtClient, Timers, SerialRx, KernelProofs

(***************************************************************************)
(* The inductive invariant.                                                *)
(***************************************************************************)
WorkerPoints == {"loop", "idle", "work", "sleep", "slept", "arm", "failed",
                 "complete", "ack", "unlocked"}
UserPoints == {Run, "sleep", "slept", "sched", "arm", "failed", "cancel", "sync",
               "wait", "waited"}

(* in front of the rt_schedule that leaves the processor *)
Leaving == {"sleep", "idle", "wait"}

(* where no call of rt_schedule is due *)
AtEase == {Run, "slept", "arm", "failed", "cancel", "sync", "waited", "loop", "work",
           "complete"}

(* which thread may be where, and that the scheduler is locked during a     *)
(* completion only                                                          *)
PlaceOK ==
  /\ pc[Worker] \in WorkerPoints /\ pc[Idle] = Run
  /\ \A t \in Thread \ {Worker} : pc[t] \in UserPoints
  /\ pc[kern.current] \notin Leaving => kern.stat[kern.current] = "RUNNING"
  /\ IF pc[Worker] = "ack" THEN kern.current = Worker /\ kern.lock > 0
                           ELSE kern.lock = 0
  /\ MostUrgentRunsAt(AtEase)

(* who waits for a completion is in rt_sem_take; the worker is suspended    *)
(* when it waits for work or sleeps in one, and a sleep takes its time      *)
SuspendedOK ==
  /\ \A t \in ToSet(kern.list["sem"]) : pc[t] \in {"wait", "waited"}
  /\ kern.stat[Worker] = "SUSPEND" => pc[Worker] \in {"idle", "loop", "sleep", "slept"}
  /\ pc[Worker] \in {"sleep", "slept"} /\ kern.stat[Worker] # "SUSPEND" =>
       kern.error[Worker] = "RT_ETIMEOUT"

KernelInv ==
  /\ pc \in [Thread -> WorkerPoints \cup UserPoints]
  /\ KernelOK(kern) /\ PlaceOK /\ SuspendedOK

(* the argument of a call is there while it is needed, and work_current     *)
(* says whether the worker is in a work                                     *)
CallOK ==
  /\ arg \in [Thread -> Work \cup {NoWork}]
  /\ \A t \in Thread :
       pc[t] \in {"arm", "cancel", "sync", "wait", "waited"} => arg[t] \in Work
  /\ work_current \in Work \cup {NoWork}
  /\ work_current # NoWork <=> pc[Worker] \in {"work", "sleep", "slept", "arm", "failed"}

(* A work is in one list at most, and the worker awake if one is to be run. *)
ListsOK ==
  /\ work_list \in Seq(Work) /\ IsInjective(work_list)
  /\ delayed_list \in Seq(Work) /\ IsInjective(delayed_list)
  /\ ToSet(work_list) \cap ToSet(delayed_list) = {}
  /\ pending \subseteq ToSet(work_list) /\ work_current \notin pending
  /\ work_list # <<>> =>
       ~(pc[Worker] \in {"idle", "loop"} /\ kern.stat[Worker] = "SUSPEND")
  /\ ToSet(work_list) \cup ToSet(delayed_list) \subseteq wanted

(* a delayed work has a timer that runs or is about to, and its queue       *)
TimersOK ==
  /\ submitting \subseteq Work /\ armed \subseteq submitting /\ bound \subseteq Work
  /\ \A w \in ToSet(delayed_list) :
       /\ w \in submitting \cap bound
       /\ w \in armed \/ \E t \in Thread : pc[t] = "arm" /\ arg[t] = w
  /\ submitting \cap bound \subseteq wanted

HistoryOK == halted \in BOOLEAN /\ wanted \subseteq Work /\ late \subseteq Thread

IInv ==
  /\ KernelInv
  /\ CallOK
  /\ ListsOK
  /\ TimersOK
  /\ HistoryOK
  /\ SyncWaitEnds

(***************************************************************************)
(* The kernel's part of the steps                                          *)
(***************************************************************************)
(* The queue's semaphore is the only suspend list. *)
LEMMA SemList ==
  /\ List = {"sem"} /\ "sem" \in List /\ "sem" # "rt_thread_defunct"
  /\ Worker \in Thread /\ Idle \in Thread /\ Worker # Idle
BY WorkQueueAssumption, KernelAssumption

(* who takes a step has the processor, and is in no list *)
LEMMA Stepper ==
  ASSUME KernelInv, NEW t, NEW p, At(t, p), p \notin Leaving
  PROVE  /\ t \in Thread /\ kern.current = t /\ pc[t] = p /\ HasCpu(kern, t)
         /\ t \notin ToSet(kern.list["sem"])
         /\ t # Worker => kern.lock = 0
<1>1. kern.current \in Thread
  BY DEF KernelInv, KernelOK, KernelState
<1>2. t \in Thread /\ kern.current = t /\ pc[t] = p /\ HasCpu(kern, t)
  BY <1>1 DEF At, HasCpu, KernelInv, PlaceOK
<1>3. t \notin ToSet(kern.list["sem"])
  BY <1>2, SemList DEF HasCpu, KernelInv, KernelOK, SuspendListOK, ListedStat
<1>4. t # Worker => kern.lock = 0
  BY <1>2 DEF KernelInv, PlaceOK
<1>5. QED
  BY <1>2, <1>3, <1>4

(* the points of a thread *)
PointsOf(t) == IF t = Worker THEN WorkerPoints ELSE IF t = Idle THEN {Run} ELSE UserPoints

(* A thread has moved to a point that it may be at. *)
LEMMA PointsMoved ==
  ASSUME KernelInv, NEW t \in Thread, NEW q \in PointsOf(t), Goto(t, q)
  PROVE  /\ pc' \in [Thread -> WorkerPoints \cup UserPoints] /\ pc'[t] = q
         /\ \A x \in Thread \ {t} : pc'[x] = pc[x]
         /\ pc'[Worker] \in WorkerPoints /\ pc'[Idle] = Run
         /\ \A x \in Thread \ {Worker} : pc'[x] \in UserPoints
<1>1. q \in WorkerPoints \cup UserPoints
  BY DEF PointsOf, UserPoints
<1>2. /\ pc' \in [Thread -> WorkerPoints \cup UserPoints] /\ pc'[t] = q
      /\ \A x \in Thread \ {t} : pc'[x] = pc[x]
  BY <1>1 DEF Goto, KernelInv
<1>3. pc'[Worker] \in WorkerPoints
  BY <1>2, SemList DEF PointsOf, KernelInv, PlaceOK
<1>4. pc'[Idle] = Run
  BY <1>2, SemList DEF PointsOf, KernelInv, PlaceOK
<1>5. ASSUME NEW x \in Thread \ {Worker} PROVE pc'[x] \in UserPoints
  BY <1>2, SemList DEF PointsOf, KernelInv, PlaceOK, UserPoints
<1>6. QED
  BY <1>2, <1>3, <1>4, <1>5

(* The running thread goes on at another point. *)
LEMMA GoOn ==
  ASSUME KernelInv, NEW t, NEW p, At(t, p), p \notin Leaving \cup {"ack"},
         NEW q \in PointsOf(t), q \notin Leaving \cup {"ack"}, Goto(t, q),
         t = Worker => q # "slept",
         q \in AtEase => p \in AtEase,
         kern' = kern \/ kern' = SetError(kern, t, "RT_EOK")
  PROVE  /\ KernelInv'
         /\ kern'.list = kern.list /\ kern'.stat = kern.stat
<1>1. /\ t \in Thread /\ kern.current = t /\ pc[t] = p /\ HasCpu(kern, t)
      /\ t \notin ToSet(kern.list["sem"])
  BY Stepper
<1>2. /\ KernelOK(kern') /\ kern'.current = kern.current /\ kern'.stat = kern.stat
      /\ kern'.list = kern.list /\ kern'.priority = kern.priority
      /\ kern'.lock = kern.lock
      /\ \A x \in Thread \ {t} : kern'.error[x] = kern.error[x]
  <2>1. CASE kern' = kern
    BY <2>1 DEF KernelInv
  <2>2. CASE kern' = SetError(kern, t, "RT_EOK")
    <3>1. "RT_EOK" \in Error /\ KernelOK(kern)
      BY DEF Error, KernelInv
    <3>2. QED
      BY <1>1, <2>2, <3>1, ErrorLemma
  <2>3. QED
    BY <2>1, <2>2
<1>3. /\ pc' \in [Thread -> WorkerPoints \cup UserPoints] /\ pc'[t] = q
      /\ \A x \in Thread \ {t} : pc'[x] = pc[x]
      /\ pc'[Worker] \in WorkerPoints /\ pc'[Idle] = Run
      /\ \A x \in Thread \ {Worker} : pc'[x] \in UserPoints
  BY <1>1, PointsMoved
<1>4. PlaceOK'
  <2>1. MostUrgentRunsAt(AtEase)'
    BY <1>1, <1>2, <1>3 DEF MostUrgentRunsAt, KernelInv, PlaceOK
  <2>2. pc'[kern'.current] \notin Leaving => kern'.stat[kern'.current] = "RUNNING"
    BY <1>1, <1>2 DEF HasCpu
  <2>3. IF pc'[Worker] = "ack" THEN kern'.current = Worker /\ kern'.lock > 0
                               ELSE kern'.lock = 0
    BY <1>1, <1>2, <1>3, SemList DEF PlaceOK, KernelInv
  <2>4. QED
    BY <1>3, <2>1, <2>2, <2>3 DEF PlaceOK
<1>5. SuspendedOK'
  <2>1. \A x \in ToSet(kern'.list["sem"]) : pc'[x] \in {"wait", "waited"}
    BY <1>1, <1>2, <1>3, SemList, ListedThreads DEF SuspendedOK, KernelInv
  <2>2. CASE t = Worker
    BY <1>1, <1>2, <1>3, <2>1, <2>2, SemList DEF SuspendedOK, HasCpu, Leaving
  <2>3. CASE t # Worker
    BY <1>1, <1>2, <1>3, <2>1, <2>3, SemList DEF SuspendedOK, KernelInv
  <2>4. QED
    BY <2>2, <2>3
<1>6. QED
  BY <1>2, <1>3, <1>4, <1>5 DEF KernelInv

(* The scheduler is not locked, except by the worker in its completion. *)
LEMMA Unlocked ==
  ASSUME KernelInv, NEW t, NEW p, At(t, p), p # "ack"
  PROVE  kern.lock = 0
BY DEF KernelInv, PlaceOK, At

(* the points in front of rt_schedule, and the one that each leads to *)
After(p) == CASE p = "sched" -> Run [] p = "sleep" -> "slept" [] p = "wait" -> "waited"
              [] p = "idle" -> "loop" [] p = "unlocked" -> "loop"

(* The processor goes to a most urgent thread. *)
LEMMA ScheduleKernel ==
  ASSUME KernelInv, NEW t \in Thread \ {Idle},
         NEW p \in {"sched", "sleep", "wait", "idle", "unlocked"},
         NEW q, q = After(p), Reschedule(t, p, q)
  PROVE  /\ KernelInv'
         /\ pc[t] = p /\ pc'[t] = q /\ \A x \in Thread \ {t} : pc'[x] = pc[x]
         /\ kern'.list = kern.list
         /\ kern'.stat[Worker] = "SUSPEND" <=> kern.stat[Worker] = "SUSPEND"
<1>1. kern.lock = 0 /\ KernelOK(kern)
  BY Unlocked DEF Reschedule, KernelInv
<1>2. /\ t = kern.current /\ pc[t] = p /\ pc' = [pc EXCEPT ![t] = q]
      /\ KernelOK(kern') /\ Switched(kern, kern') /\ MostUrgent(kern')
  BY <1>1, RescheduleLemma
<1>3. q \in PointsOf(t) \ (Leaving \cup {"ack"}) /\ (q = "slept" => p = "sleep")
      /\ (q = "waited" <=> p = "wait")
  BY <1>2, SemList DEF PointsOf, KernelInv, PlaceOK, WorkerPoints, UserPoints, After,
                       Leaving, Run
<1>4. /\ pc' \in [Thread -> WorkerPoints \cup UserPoints] /\ pc'[t] = q
      /\ \A x \in Thread \ {t} : pc'[x] = pc[x]
      /\ pc'[Worker] \in WorkerPoints /\ pc'[Idle] = Run
      /\ \A x \in Thread \ {Worker} : pc'[x] \in UserPoints
  <2>1. Goto(t, q)
    BY <1>2 DEF Goto
  <2>2. QED
    BY <1>3, <2>1, PointsMoved
<1>5. /\ kern'.list = kern.list /\ kern'.lock = kern.lock /\ kern'.error = kern.error
      /\ kern'.stat[Worker] = "SUSPEND" <=> kern.stat[Worker] = "SUSPEND"
  BY <1>2, SemList DEF Switched
<1>6. PlaceOK'
  <2>1. MostUrgentRunsAt(AtEase)'
    BY <1>2 DEF MostUrgent, MostUrgentRunsAt
  <2>2. pc'[Worker] # "ack"
    BY <1>1, <1>3, <1>4, SemList DEF KernelInv, PlaceOK
  <2>3. QED
    BY <1>1, <1>2, <1>4, <1>5, <2>1, <2>2 DEF PlaceOK, MostUrgent
<1>7. SuspendedOK'
  <2>1. \A x \in ToSet(kern'.list["sem"]) : pc'[x] \in {"wait", "waited"}
    BY <1>2, <1>3, <1>4, <1>5, SemList, ListedThreads DEF SuspendedOK, KernelInv
  <2>2. kern.stat[Worker] = "SUSPEND" => pc'[Worker] \in {"idle", "loop", "sleep", "slept"}
    BY <1>2, <1>4, SemList DEF SuspendedOK, KernelInv, After
  <2>3. pc'[Worker] \in {"sleep", "slept"} => pc[Worker] \in {"sleep", "slept"}
    BY <1>2, <1>3, <1>4, SemList DEF Leaving
  <2>4. QED
    BY <1>5, <2>1, <2>2, <2>3 DEF SuspendedOK, KernelInv
<1>8. QED
  BY <1>2, <1>4, <1>5, <1>6, <1>7 DEF KernelInv

(* A suspended thread is resumed; the processor goes to a most urgent       *)
(* thread, or stays with a worker that has locked the scheduler.            *)
LEMMA ResumeKernel ==
  ASSUME KernelInv, UNCHANGED pc, NEW h \in Thread, NEW e,
         ResumedWith(kern, kern', h, e),
         \/ kern.lock = 0 /\ MostUrgent(kern')
         \/ kern.lock > 0 /\ kern'.current = kern.current,
         h = Worker /\ pc[Worker] \in {"sleep", "slept"} => e = "RT_ETIMEOUT"
  PROVE  /\ KernelInv'
         /\ ToSet(kern'.list["sem"]) = ToSet(kern.list["sem"]) \ {h}
         /\ kern'.stat[Worker] = "SUSPEND" <=> kern.stat[Worker] = "SUSPEND" /\ h # Worker
<1>1. /\ KernelOK(kern') /\ kern'.lock = kern.lock
      /\ ToSet(kern'.list["sem"]) = ToSet(kern.list["sem"]) \ {h}
      /\ kern'.error[h] = e /\ (h # Worker => kern'.error[Worker] = kern.error[Worker])
      /\ kern.stat[h] = "SUSPEND"
      /\ kern'.stat[Worker] = "SUSPEND" <=> kern.stat[Worker] = "SUSPEND" /\ h # Worker
  BY SemList DEF ResumedWith, Unlisting
<1>2. PlaceOK'
  <2>1. CASE kern.lock = 0 /\ MostUrgent(kern')
    BY <1>1, <2>1 DEF PlaceOK, KernelInv, MostUrgent, MostUrgentRunsAt
  <2>2. CASE kern.lock > 0 /\ kern'.current = kern.current
    <3>1. pc[Worker] = "ack" /\ kern.current = Worker /\ kern.stat[Worker] = "RUNNING"
      BY <2>2 DEF PlaceOK, KernelInv, Leaving
    <3>2. kern'.stat[Worker] = "RUNNING"
      BY <1>1, <2>2, <3>1, SemList DEF ResumedWith, KernelOK, CurrentOK
    <3>3. QED
      BY <1>1, <2>2, <3>1, <3>2 DEF PlaceOK, KernelInv, MostUrgentRunsAt, AtEase, Run
  <2>3. QED
    BY <2>1, <2>2
<1>3. SuspendedOK'
  BY <1>1 DEF SuspendedOK, KernelInv
<1>4. QED
  BY <1>1, <1>2, <1>3 DEF KernelInv

(* While the scheduler is locked rt_schedule changes nothing. *)
LEMMA LockedSchedule ==
  ASSUME NEW k, k.lock > 0
  PROVE  rt_schedule(k) = k
BY DEF rt_schedule

(* a timer that fires while the scheduler is locked *)
LEMMA LockedTimeout ==
  ASSUME NEW k, KernelOK(k), NEW t \in k.timer, k.lock > 0
  PROVE  rt_thread_timeout(k, t).current = k.current
<1> DEFINE v == rt_list_remove(k, t)
           w == [v EXCEPT !.timer = @ \ {t}, !.error[t] = "RT_ETIMEOUT",
                          !.fault = @ \/ k.stat[t] # "SUSPEND"]
           q == rt_schedule_insert_thread(w, t)
<1>1. rt_thread_timeout(k, t) = rt_schedule(q)
  BY DEF rt_thread_timeout
<1>2. v.current = k.current /\ v.lock = k.lock /\ DOMAIN v = DOMAIN k
  BY DEF rt_list_remove, KernelOK, KernelState
<1>3. k \in KernelState
  BY DEF KernelOK
<1>4. w.current = k.current /\ w.lock = k.lock /\ DOMAIN w = DOMAIN k
  BY <1>2, <1>3 DEF KernelState
<1> HIDE DEF w
<1>5. q.current = k.current /\ q.lock = k.lock
  BY <1>3, <1>4 DEF rt_schedule_insert_thread, KernelState
<1>6. QED
  BY <1>1, <1>5, LockedSchedule

(* The tick interrupt, which may also come while the scheduler is locked. *)
LEMMA TickKernel ==
  ASSUME KernelInv, SliceExpires \/ \E t \in Thread : TimerExpires(t)
  PROVE  /\ KernelInv' /\ UNCHANGED pc
         /\ ToSet(kern'.list["sem"]) \subseteq ToSet(kern.list["sem"])
         /\ kern'.stat[Worker] = "SUSPEND" => kern.stat[Worker] = "SUSPEND"
<1>0. kern \in KernelState /\ KernelOK(kern) /\ kern.lock \in Nat
  BY DEF KernelInv, KernelOK, KernelState
<1>1. CASE SliceExpires
  <2>1. CASE kern.lock = 0
    <3>1. /\ UNCHANGED pc
          /\ KernelOK(kern') /\ Switched(kern, kern') /\ MostUrgent(kern')
      BY <1>0, <1>1, <2>1, SliceLemma
    <3>2. /\ kern'.list = kern.list /\ kern'.lock = kern.lock /\ kern'.error = kern.error
          /\ kern'.stat[Worker] = "SUSPEND" <=> kern.stat[Worker] = "SUSPEND"
      BY <3>1, SemList DEF Switched
    <3>3. PlaceOK' /\ SuspendedOK'
      BY <2>1, <3>1, <3>2 DEF PlaceOK, SuspendedOK, KernelInv, MostUrgent, MostUrgentRunsAt
    <3>4. QED
      BY <3>1, <3>2, <3>3 DEF KernelInv
  <2>2. CASE kern.lock > 0
    <3> DEFINE u == [kern EXCEPT !.yield = @ \cup {kern.current}]
    <3>1. /\ u \in KernelState /\ u.current = kern.current /\ u.stat = kern.stat
          /\ u.priority = kern.priority /\ u.ready = kern.ready /\ u.group = kern.group
          /\ u.list = kern.list /\ u.fault = kern.fault /\ u.timer = kern.timer
          /\ u.lock = kern.lock /\ u.error = kern.error
      BY <1>0 DEF KernelState
    <3>2. UNCHANGED pc /\ kern' = u
      BY <1>1, <2>2, <3>1, LockedSchedule DEF SliceExpires
    <3> HIDE DEF u
    <3>3. KernelOK(u)
      BY <1>0, <3>1, Unlisted DEF KernelOK, CurrentOK
    <3>4. PlaceOK' /\ SuspendedOK'
      BY <3>1, <3>2 DEF PlaceOK, SuspendedOK, KernelInv, MostUrgentRunsAt
    <3>5. QED
      BY <3>1, <3>2, <3>3, <3>4 DEF KernelInv
  <2>3. QED
    BY <1>0, <2>1, <2>2
<1>2. ASSUME NEW t \in Thread, TimerExpires(t)
      PROVE  /\ KernelInv' /\ UNCHANGED pc
             /\ ToSet(kern'.list["sem"]) \subseteq ToSet(kern.list["sem"])
             /\ kern'.stat[Worker] = "SUSPEND" => kern.stat[Worker] = "SUSPEND"
  <2>1. CASE kern.lock = 0
    <3>1. /\ UNCHANGED pc
          /\ ResumedWith(kern, kern', t, "RT_ETIMEOUT") /\ MostUrgent(kern')
      BY <1>0, <1>2, <2>1, TimerLemma
    <3>2. QED
      BY <1>2, <2>1, <3>1, ResumeKernel
  <2>2. CASE kern.lock > 0
    <3>1. UNCHANGED pc /\ t \in kern.timer /\ kern' = rt_thread_timeout(kern, t)
      BY <1>2 DEF TimerExpires
    <3>2. kern'.current = kern.current
      BY <1>0, <2>2, <3>1, LockedTimeout
    <3>3. kern.stat[t] = "SUSPEND"
      BY <1>0, <3>1 DEF KernelOK, CurrentOK
    <3>4. /\ KernelOK(kern') /\ Unlisting(kern, kern', t)
          /\ kern'.error = [kern.error EXCEPT ![t] = "RT_ETIMEOUT"]
          /\ kern'.priority = kern.priority /\ kern'.lock = kern.lock
          /\ kern'.stat[t] \in {"READY", "RUNNING"}
          /\ \A x \in Thread \ {t} :
               \/ kern'.stat[x] = kern.stat[x]
               \/ /\ kern.stat[x] \in {"READY", "RUNNING"}
                  /\ kern'.stat[x] \in {"READY", "RUNNING"}
      BY <1>0, <3>1, TimeoutLemma
    <3>5. kern'.error[t] = "RT_ETIMEOUT" /\ \A x \in Thread \ {t} : kern'.error[x] = kern.error[x]
      BY <1>0, <3>4 DEF KernelState
    <3>6. ResumedWith(kern, kern', t, "RT_ETIMEOUT")
      BY <3>3, <3>4, <3>5 DEF ResumedWith
    <3>7. QED
      BY <1>2, <2>2, <3>1, <3>2, <3>6, ResumeKernel
  <2>3. QED
    BY <1>0, <2>1, <2>2
<1>3. QED
  BY <1>1, <1>2

(* The running thread suspends itself in front of its call of rt_schedule. *)
LEMMA SuspendKernel ==
  ASSUME KernelInv, NEW t \in Thread \ {Idle}, NEW p, At(t, p),
         p \notin Leaving \cup {"ack"},
         NEW q \in PointsOf(t) \cap Leaving, Goto(t, q),
         KernelOK(kern'), kern'.current = kern.current, kern'.lock = kern.lock,
         kern'.stat[t] = "SUSPEND",
         \A x \in Thread \ {t} : kern'.stat[x] = kern.stat[x],
         \A x \in Thread \ {t} : kern'.error[x] = kern.error[x],
         IF q = "wait" THEN ToSet(kern'.list["sem"]) = ToSet(kern.list["sem"]) \cup {t}
                       ELSE kern'.list = kern.list
  PROVE  KernelInv'
<1>1. /\ kern.current = t /\ pc[t] = p /\ HasCpu(kern, t)
      /\ t \notin ToSet(kern.list["sem"])
  BY Stepper
<1>2. /\ pc' \in [Thread -> WorkerPoints \cup UserPoints] /\ pc'[t] = q
      /\ \A x \in Thread \ {t} : pc'[x] = pc[x]
      /\ pc'[Worker] \in WorkerPoints /\ pc'[Idle] = Run
      /\ \A x \in Thread \ {Worker} : pc'[x] \in UserPoints
  BY PointsMoved
<1>3. PlaceOK'
  <2>1. pc'[kern'.current] = q
    BY <1>1, <1>2
  <2>2. MostUrgentRunsAt(AtEase)'
    BY <2>1 DEF MostUrgentRunsAt, AtEase, Leaving, Run
  <2>3. pc'[Worker] # "ack" /\ kern.lock = 0
    BY <1>1, <1>2, SemList DEF PlaceOK, KernelInv, Leaving
  <2>4. QED
    BY <1>2, <2>1, <2>2, <2>3 DEF PlaceOK
<1>4. SuspendedOK'
  <2>1. \A x \in ToSet(kern'.list["sem"]) : pc'[x] \in {"wait", "waited"}
    BY <1>1, <1>2, SemList, ListedThreads DEF SuspendedOK, KernelInv
  <2>2. CASE t = Worker
    BY <1>2, <2>1, <2>2 DEF SuspendedOK, PointsOf, WorkerPoints, Leaving
  <2>3. CASE t # Worker
    BY <1>2, <2>1, <2>3, SemList DEF SuspendedOK, KernelInv
  <2>4. QED
    BY <2>2, <2>3
<1>5. QED
  BY <1>2, <1>3, <1>4 DEF KernelInv

(* A submit resumes the worker that waits for work, and is then due to call  *)
(* rt_schedule.                                                              *)
LEMMA WakeKernel ==
  ASSUME KernelInv, CallOK, NEW t \in Thread \ {Idle}, At(t, Base(t)), WakeWorker(t)
  PROVE  /\ KernelInv' /\ kern.current = t
         /\ pc'[t] \in {Base(t), "sched"} /\ \A x \in Thread \ {t} : pc'[x] = pc[x]
         /\ t = Worker => pc'[t] = "work"
         /\ ToSet(kern'.list["sem"]) \subseteq ToSet(kern.list["sem"])
         /\ kern'.stat[Worker] = "SUSPEND" => work_current # NoWork
<1>0. /\ kern.current = t /\ pc[t] = Base(t) /\ HasCpu(kern, t)
      /\ Base(t) \notin Leaving \cup {"ack"}
      /\ Base(t) \in AtEase \cap PointsOf(t) /\ (t = Worker => Base(t) = "work")
  <2>1. Base(t) \notin Leaving \cup {"ack"} /\ Base(t) \in AtEase \cap PointsOf(t)
        /\ (t = Worker => Base(t) = "work")
    BY DEF Base, Leaving, AtEase, PointsOf, WorkerPoints, UserPoints, Run
  <2>2. QED
    BY <2>1, Stepper
<1>1. CASE WorkerIdle
  <2>1. /\ kern' = rt_thread_resume(kern, Worker) /\ Goto(t, "sched")
        /\ kern.stat[Worker] = "SUSPEND" /\ work_current = NoWork /\ t # Worker
    BY <1>0, <1>1 DEF WakeWorker, WorkerIdle, HasCpu
  <2>2. ResumedHere(kern, kern', Worker, kern.error[Worker])
    BY <2>1, ResumeHere, SemList DEF KernelInv
  <2>3. /\ KernelOK(kern') /\ kern'.current = kern.current /\ kern'.lock = kern.lock
        /\ ToSet(kern'.list["sem"]) = ToSet(kern.list["sem"]) \ {Worker}
        /\ kern'.stat[Worker] # "SUSPEND" /\ kern'.stat[t] = "RUNNING"
    BY <1>0, <2>1, <2>2, SemList DEF ResumedHere, ResumedWith, Unlisting, HasCpu
  <2>4. /\ pc' \in [Thread -> WorkerPoints \cup UserPoints] /\ pc'[t] = "sched"
        /\ \A x \in Thread \ {t} : pc'[x] = pc[x]
        /\ pc'[Worker] \in WorkerPoints /\ pc'[Idle] = Run
        /\ \A x \in Thread \ {Worker} : pc'[x] \in UserPoints
    <3>1. "sched" \in PointsOf(t)
      BY <2>1 DEF PointsOf, UserPoints
    <3>2. QED
      BY <2>1, <3>1, PointsMoved
  <2>5. pc'[Worker] = pc[Worker] /\ pc[Worker] \notin {"sleep", "slept", "ack"}
    BY <1>0, <2>1, <2>4, SemList DEF CallOK, KernelInv, PlaceOK
  <2>6. PlaceOK'
    <3>1. kern.lock = 0
      BY <2>5 DEF KernelInv, PlaceOK
    <3>2. MostUrgentRunsAt(AtEase)'
      BY <1>0, <2>3, <2>4 DEF MostUrgentRunsAt, AtEase, Run
    <3>3. QED
      BY <1>0, <2>3, <2>4, <2>5, <3>1, <3>2 DEF PlaceOK
  <2>7. SuspendedOK'
    <3>1. t \notin ToSet(kern.list["sem"])
      BY <1>0, Stepper
    <3>2. \A x \in ToSet(kern'.list["sem"]) : pc'[x] \in {"wait", "waited"}
      BY <2>3, <2>4, <3>1, SemList, ListedThreads DEF SuspendedOK, KernelInv
    <3>3. QED
      BY <2>3, <2>5, <3>2 DEF SuspendedOK
  <2>8. QED
    BY <1>0, <2>1, <2>3, <2>4, <2>6, <2>7 DEF KernelInv
<1>2. CASE ~ WorkerIdle
  <2>1. kern' = kern /\ Goto(t, Base(t))
    BY <1>2 DEF WakeWorker
  <2>2. KernelInv' /\ kern'.list = kern.list
    BY <1>0, <2>1, GoOn DEF AtEase
  <2>3. pc'[t] = Base(t) /\ \A x \in Thread \ {t} : pc'[x] = pc[x]
    BY <2>1 DEF Goto, KernelInv
  <2>4. QED
    BY <1>0, <1>2, <2>1, <2>2, <2>3 DEF WorkerIdle
<1>3. QED
  BY <1>1, <1>2

(* The worker, in or out of a completion, locks or unlocks the scheduler. *)
LEMMA LockKernel ==
  ASSUME KernelInv, NEW n \in Nat, kern' = [kern EXCEPT !.lock = n],
         \/ n > 0 /\ At(Worker, "complete") /\ Goto(Worker, "ack")
         \/ n = 0 /\ At(Worker, "ack") /\ Goto(Worker, "unlocked")
  PROVE  /\ KernelInv' /\ kern'.list = kern.list /\ kern'.stat = kern.stat
         /\ \A x \in Thread \ {Worker} : pc'[x] = pc[x]
<1>0. kern \in KernelState /\ KernelOK(kern)
  BY DEF KernelInv, KernelOK
<1> DEFINE u == [kern EXCEPT !.lock = n]
<1>a. /\ u \in KernelState /\ u.lock = n /\ u.current = kern.current
      /\ u.stat = kern.stat /\ u.list = kern.list /\ u.error = kern.error
      /\ u.priority = kern.priority /\ u.ready = kern.ready
      /\ u.group = kern.group /\ u.fault = kern.fault /\ u.timer = kern.timer
  BY <1>0 DEF KernelState
<1>b. kern' = u
  OBVIOUS
<1> HIDE DEF u
<1>c. KernelOK(u)
  BY <1>0, <1>a, Unlisted DEF KernelOK, CurrentOK
<1>1. /\ kern'.lock = n /\ kern'.current = kern.current
      /\ kern'.stat = kern.stat /\ kern'.list = kern.list /\ kern'.error = kern.error
  BY <1>a, <1>b
<1>2. KernelOK(kern')
  BY <1>b, <1>c
<1>3. PICK q \in {"ack", "unlocked"} : Goto(Worker, q) /\ (q = "ack" <=> n > 0)
  OBVIOUS
<1>4. /\ kern.current = Worker /\ pc[Worker] \in {"complete", "ack"}
      /\ kern.stat[Worker] = "RUNNING" /\ Worker \notin ToSet(kern.list["sem"])
  <2>1. \E p \in {"complete", "ack"} : At(Worker, p)
    OBVIOUS
  <2>2. QED
    BY <2>1, Stepper DEF Leaving, HasCpu
<1>5. /\ pc' \in [Thread -> WorkerPoints \cup UserPoints] /\ pc'[Worker] = q
      /\ \A x \in Thread \ {Worker} : pc'[x] = pc[x]
      /\ pc'[Worker] \in WorkerPoints /\ pc'[Idle] = Run
      /\ \A x \in Thread \ {Worker} : pc'[x] \in UserPoints
  BY <1>3, PointsMoved, SemList DEF PointsOf, WorkerPoints
<1>6. PlaceOK'
  BY <1>1, <1>3, <1>4, <1>5 DEF PlaceOK, MostUrgentRunsAt, AtEase, Run
<1>7. SuspendedOK'
  BY <1>1, <1>3, <1>4, <1>5, SemList, ListedThreads, <1>0 DEF SuspendedOK, KernelInv
<1>8. QED
  BY <1>1, <1>2, <1>5, <1>6, <1>7 DEF KernelInv

(***************************************************************************)
(* The queue's part of the steps                                           *)
(***************************************************************************)
(* the points at which a thread's call has an argument, and those at which  *)
(* the worker is in a work                                                  *)
ArgPoints == {"arm", "cancel", "sync", "wait", "waited"}
WorkPoints == {"work", "sleep", "slept", "arm", "failed"}
Asleep == pc[Worker] \in {"idle", "loop"} /\ kern.stat[Worker] = "SUSPEND"

(* Steps of the scheduler, of the tick and of the worker's completion leave  *)
(* the queue alone.                                                          *)
LEMMA DataStays ==
  ASSUME IInv, KernelInv',
         UNCHANGED <<lists, timing, work_current, arg, halted, history>>,
         \A x \in Thread : pc'[x] \in ArgPoints => pc[x] \in ArgPoints,
         \A x \in Thread : pc[x] = "arm" => pc'[x] = "arm",
         pc'[Worker] \in WorkPoints <=> pc[Worker] \in WorkPoints,
         ToSet(kern'.list["sem"]) \subseteq ToSet(kern.list["sem"]),
         pc[Worker] \in {"complete", "ack"} =>
           pc'[Worker] \in {"complete", "ack"} \/ ToSet(kern'.list["sem"]) = {},
         Asleep' => Asleep \/ work_list = <<>>
  PROVE  IInv'
<1>1. /\ UNCHANGED <<work_list, delayed_list, pending, submitting, armed, bound>>
      /\ UNCHANGED <<work_current, arg, halted, wanted, late>>
  BY DEF lists, timing, history
<1>2. CallOK'
  BY <1>1 DEF IInv, CallOK, ArgPoints, WorkPoints
<1>3. ListsOK'
  BY <1>1 DEF IInv, ListsOK, Asleep
<1>4. TimersOK'
  BY <1>1 DEF IInv, TimersOK
<1>5. HistoryOK'
  BY <1>1 DEF IInv, HistoryOK
<1>6. SyncWaitEnds'
  BY <1>1 DEF IInv, SyncWaitEnds
<1>7. QED
  BY <1>2, <1>3, <1>4, <1>5, <1>6 DEF IInv

(* Two lists with nothing in common are one list without repetition. *)
LEMMA InjectiveConcat ==
  ASSUME NEW T, NEW r \in Seq(T), NEW s \in Seq(T), IsInjective(r), IsInjective(s),
         ToSet(r) \cap ToSet(s) = {}
  PROVE  /\ r \o s \in Seq(T) /\ ToSet(r \o s) = ToSet(r) \cup ToSet(s)
         /\ IsInjective(r \o s)
<1> DEFINE c == r \o s
<1>1. /\ c \in Seq(T) /\ Len(c) = Len(r) + Len(s)
      /\ \A i \in 1 .. Len(r) + Len(s) :
           c[i] = IF i <= Len(r) THEN r[i] ELSE s[i - Len(r)]
      /\ Len(r) \in Nat /\ Len(s) \in Nat
  BY ConcatProperties, LenProperties
<1>2. /\ DOMAIN c = 1 .. Len(r) + Len(s) /\ DOMAIN r = 1 .. Len(r)
      /\ DOMAIN s = 1 .. Len(s)
  BY <1>1
<1> HIDE DEF c
<1>3. ASSUME NEW i \in DOMAIN c
      PROVE  \/ i \in 1 .. Len(r) /\ c[i] = r[i] /\ c[i] \in ToSet(r)
             \/ i - Len(r) \in 1 .. Len(s) /\ c[i] = s[i - Len(r)] /\ c[i] \in ToSet(s)
  <2>1. CASE i <= Len(r)
    <3>1. i \in 1 .. Len(r) /\ c[i] = r[i]
      BY <1>1, <1>2, <2>1
    <3>2. QED
      BY <1>2, <3>1 DEF ToSet
  <2>2. CASE i > Len(r)
    <3>1. i - Len(r) \in 1 .. Len(s) /\ c[i] = s[i - Len(r)]
      BY <1>1, <1>2, <2>2
    <3>2. QED
      BY <1>2, <3>1 DEF ToSet
  <2>3. QED
    BY <1>1, <1>2, <2>1, <2>2
<1>4. ToSet(c) = ToSet(r) \cup ToSet(s)
  <2>1. ToSet(c) \subseteq ToSet(r) \cup ToSet(s)
    <3>1. ASSUME NEW x \in ToSet(c) PROVE x \in ToSet(r) \cup ToSet(s)
      <4>1. PICK i \in DOMAIN c : c[i] = x
        BY <3>1 DEF ToSet
      <4>2. QED
        BY <1>3, <4>1
    <3>2. QED
      BY <3>1
  <2>2. ASSUME NEW x \in ToSet(r) PROVE x \in ToSet(c)
    <3>1. PICK i \in 1 .. Len(r) : r[i] = x
      BY <1>2, <2>2 DEF ToSet
    <3>2. i \in DOMAIN c /\ c[i] = x
      BY <1>1, <1>2, <3>1
    <3>3. QED
      BY <3>2 DEF ToSet
  <2>3. ASSUME NEW x \in ToSet(s) PROVE x \in ToSet(c)
    <3>1. PICK i \in 1 .. Len(s) : s[i] = x
      BY <1>2, <2>3 DEF ToSet
    <3>2. i + Len(r) \in 1 .. Len(r) + Len(s) /\ ~ (i + Len(r) <= Len(r))
          /\ (i + Len(r)) - Len(r) = i
      BY <1>1, <3>1
    <3>3. i + Len(r) \in DOMAIN c /\ c[i + Len(r)] = x
      BY <1>1, <1>2, <3>1, <3>2
    <3>4. QED
      BY <3>3 DEF ToSet
  <2>4. QED
    BY <2>1, <2>2, <2>3
<1>5. ASSUME NEW i \in DOMAIN c, NEW j \in DOMAIN c, c[i] = c[j]
      PROVE  i = j
  <2>1. \A a, b \in DOMAIN r : r[a] = r[b] => a = b
    BY DEF IsInjective
  <2>2. \A a, b \in DOMAIN s : s[a] = s[b] => a = b
    BY DEF IsInjective
  <2>3. CASE i \in 1 .. Len(r) /\ c[i] = r[i] /\ c[i] \in ToSet(r)
    <3>1. j \in 1 .. Len(r) /\ c[j] = r[j]
      BY <1>3, <1>5, <2>3
    <3>2. QED
      BY <1>2, <1>5, <2>1, <2>3, <3>1
  <2>4. CASE i - Len(r) \in 1 .. Len(s) /\ c[i] = s[i - Len(r)] /\ c[i] \in ToSet(s)
    <3>1. j - Len(r) \in 1 .. Len(s) /\ c[j] = s[j - Len(r)]
      BY <1>3, <1>5, <2>4
    <3>2. i - Len(r) = j - Len(r)
      BY <1>2, <1>5, <2>2, <2>4, <3>1
    <3>3. QED
      BY <1>1, <1>2, <3>2
  <2>5. QED
    BY <1>3, <2>3, <2>4
<1>6. IsInjective(c)
  BY <1>5 DEF IsInjective
<1>7. QED
  BY <1>1, <1>4, <1>6 DEF c

(* a list of works that holds the works of a set, each once *)
Lists(s, W) == s \in Seq(Work) /\ IsInjective(s) /\ ToSet(s) = W

(* What the operations on the lists of the queue do to their works *)
LEMMA ListLemma ==
  ASSUME NEW s, NEW W, Lists(s, W), NEW w \in Work
  PROVE  /\ W \subseteq Work
         /\ Lists(RemoveFirst(s, w), W \ {w})
         /\ Lists(Append(RemoveFirst(s, w), w), W \cup {w})
         /\ Lists(<<w>> \o RemoveFirst(s, w), W \cup {w})
         /\ s = <<>> <=> W = {}
<1> DEFINE r == RemoveFirst(s, w)
<1>1. s \in Seq(Work) /\ IsInjective(s) /\ ToSet(s) = W
  BY DEF Lists
<1>2. W \subseteq Work /\ (s = <<>> <=> W = {})
  BY <1>1, ToSetType, EmptyToSet
<1>3. r \in Seq(Work) /\ IsInjective(r) /\ ToSet(r) = W \ {w}
  BY <1>1, RemoveFirstLemma
<1> HIDE DEF r
<1>4. Lists(Append(r, w), W \cup {w})
  <2>1. w \notin ToSet(r)
    BY <1>3
  <2>2. Append(r, w) \in Seq(Work) /\ IsInjective(Append(r, w))
        /\ ToSet(Append(r, w)) = ToSet(r) \cup {w}
    BY <1>3, <2>1, AppendLemma
  <2>3. QED
    BY <1>3, <2>2 DEF Lists
<1>5. Lists(<<w>> \o r, W \cup {w})
  <2>1. <<w>> \in Seq(Work) /\ IsInjective(<<w>>) /\ ToSet(<<w>>) = {w}
    BY DEF IsInjective, ToSet
  <2>2. ToSet(<<w>>) \cap ToSet(r) = {}
    BY <1>3, <2>1
  <2>3. /\ <<w>> \o r \in Seq(Work) /\ ToSet(<<w>> \o r) = ToSet(<<w>>) \cup ToSet(r)
        /\ IsInjective(<<w>> \o r)
    BY <1>3, <2>1, <2>2, InjectiveConcat
  <2>4. QED
    BY <1>3, <2>1, <2>3 DEF Lists
<1>6. QED
  BY <1>2, <1>3, <1>4, <1>5 DEF Lists, r

(* The worker takes the first work. *)
LEMMA FirstWork ==
  ASSUME NEW s, NEW W, Lists(s, W), s # <<>>
  PROVE  Head(s) \in W /\ Head(s) \in Work /\ Lists(Tail(s), W \ {Head(s)})
<1>1. s \in Seq(Work) /\ IsInjective(s) /\ ToSet(s) = W
  BY DEF Lists
<1>2. Head(s) \in Work
  BY <1>1
<1>3. QED
  BY <1>1, <1>2, TailLemma DEF Lists

(* The lists of the queue, as sets of works *)
LEMMA QueueFacts ==
  ASSUME IInv
  PROVE  /\ Lists(work_list, ToSet(work_list))
         /\ Lists(delayed_list, ToSet(delayed_list))
         /\ ToSet(work_list) \subseteq Work /\ ToSet(delayed_list) \subseteq Work
         /\ ToSet(work_list) \cap ToSet(delayed_list) = {}
BY ToSetType DEF IInv, ListsOK, Lists

(* the lists after a step *)
LEMMA ListsNext ==
  ASSUME NEW W, NEW D, Lists(work_list', W), Lists(delayed_list', D), W \cap D = {},
         pending' \subseteq W, work_current' \notin pending', W \cup D \subseteq wanted',
         Asleep' => W = {}
  PROVE  ListsOK' /\ ToSet(delayed_list') = D
<1>1. W = {} => work_list' = <<>>
  BY EmptyToSet DEF Lists
<1>2. QED
  BY <1>1 DEF Lists, ListsOK, Asleep

(* _workqueue_submit_work with no delay: the work enters work_list, unless   *)
(* it runs, and the worker wakes up.                                         *)
LEMMA SubmitNowStep ==
  ASSUME IInv, NEW t \in Thread \ {Idle}, NEW w \in Work, SubmitNow(t, w)
  PROVE  IInv'
<1> DEFINE W == ToSet(work_list)
           D == ToSet(delayed_list)
<1>1. /\ At(t, Base(t)) /\ WakeWorker(t) /\ Queue(w)
      /\ UNCHANGED <<submitting, armed, work_current, arg, halted, late>>
      /\ IF work_current # w
         THEN pending' = pending \cup {w} /\ bound' = bound \cup {w}
              /\ wanted' = wanted \cup {w}
         ELSE pending' = pending \ {w} /\ UNCHANGED <<bound, wanted>>
  BY DEF SubmitNow
<1>2. /\ KernelInv' /\ kern.current = t
      /\ pc'[t] \in {Base(t), "sched"} /\ \A x \in Thread \ {t} : pc'[x] = pc[x]
      /\ t = Worker => pc'[t] = "work"
      /\ ToSet(kern'.list["sem"]) \subseteq ToSet(kern.list["sem"])
      /\ kern'.stat[Worker] = "SUSPEND" => work_current # NoWork
  BY <1>1, WakeKernel DEF IInv
<1>3. pc[t] = Base(t) /\ (t = Worker => pc[t] = "work") /\ pc[t] \notin ArgPoints \ {"arm"}
      /\ pc[t] # "arm" /\ pc'[t] \notin ArgPoints
  BY <1>1, <1>2 DEF At, Base, ArgPoints, Run
<1>4. CallOK'
  BY <1>1, <1>2, <1>3, SemList DEF IInv, CallOK, ArgPoints
<1>5. ~ Asleep'
  BY <1>1, <1>2, <1>3, SemList DEF IInv, CallOK, Asleep
<1>6. /\ Lists(work_list', IF work_current # w THEN W \cup {w} ELSE W \ {w})
      /\ Lists(delayed_list', D \ {w})
  <2>1. Lists(work_list, W) /\ Lists(delayed_list, D)
    BY QueueFacts
  <2>2. QED
    BY <1>1, <2>1, ListLemma DEF Queue
<1>7. ListsOK' /\ ToSet(delayed_list') = D \ {w}
  <2>1. W \cap D = {} /\ pending \subseteq W /\ W \cup D \subseteq wanted
        /\ work_current \notin pending
    BY DEF IInv, ListsOK
  <2>2. CASE work_current # w
    BY <1>1, <1>5, <1>6, <2>1, <2>2, ListsNext
  <2>3. CASE work_current = w
    BY <1>1, <1>5, <1>6, <2>1, <2>3, ListsNext
  <2>4. QED
    BY <2>2, <2>3
<1>8. TimersOK' /\ HistoryOK'
  <2>1. \A x \in Thread : pc[x] = "arm" => pc'[x] = "arm"
    BY <1>2, <1>3
  <2>2. \A x \in D \ {w} : /\ x \in submitting \cap bound
                           /\ x \in armed \/ \E u \in Thread : pc'[u] = "arm" /\ arg[u] = x
    BY <2>1 DEF IInv, TimersOK
  <2>3. bound \subseteq bound' /\ bound' \subseteq Work /\ wanted' \subseteq Work
        /\ submitting \cap bound' \subseteq wanted'
    BY <1>1 DEF IInv, TimersOK, HistoryOK
  <2>4. QED
    BY <1>1, <1>7, <2>2, <2>3 DEF IInv, TimersOK, HistoryOK
<1>9. SyncWaitEnds'
  BY <1>1, <1>2, <1>3, SemList DEF IInv, SyncWaitEnds
<1>10. QED
  BY <1>2, <1>4, <1>7, <1>8, <1>9 DEF IInv

(* rt_workqueue_critical_work: the work becomes the first one, also when it  *)
(* runs, and the worker wakes up.                                            *)
LEMMA CriticalStep ==
  ASSUME IInv, NEW t \in Thread \ {Idle}, NEW w \in Work, CriticalWork(t, w)
  PROVE  IInv'
<1> DEFINE W == ToSet(work_list)
           D == ToSet(delayed_list)
<1>1. /\ At(t, Base(t)) /\ WakeWorker(t)
      /\ work_list' = <<w>> \o RemoveFirst(work_list, w)
      /\ delayed_list' = RemoveFirst(delayed_list, w)
      /\ wanted' = wanted \cup {w}
      /\ UNCHANGED <<pending, submitting, armed, bound, work_current, arg, halted, late>>
  BY DEF CriticalWork, timing
<1>2. /\ KernelInv' /\ kern.current = t
      /\ pc'[t] \in {Base(t), "sched"} /\ \A x \in Thread \ {t} : pc'[x] = pc[x]
      /\ t = Worker => pc'[t] = "work"
      /\ ToSet(kern'.list["sem"]) \subseteq ToSet(kern.list["sem"])
      /\ kern'.stat[Worker] = "SUSPEND" => work_current # NoWork
  BY <1>1, WakeKernel DEF IInv
<1>3. pc[t] = Base(t) /\ (t = Worker => pc[t] = "work")
      /\ pc[t] # "arm" /\ pc'[t] \notin ArgPoints
  BY <1>1, <1>2 DEF At, Base, ArgPoints, Run
<1>4. CallOK'
  BY <1>1, <1>2, <1>3, SemList DEF IInv, CallOK, ArgPoints
<1>5. ~ Asleep'
  BY <1>1, <1>2, <1>3, SemList DEF IInv, CallOK, Asleep
<1>6. Lists(work_list', W \cup {w}) /\ Lists(delayed_list', D \ {w})
  <2>1. Lists(work_list, W) /\ Lists(delayed_list, D)
    BY QueueFacts
  <2>2. QED
    BY <1>1, <2>1, ListLemma
<1>7. ListsOK' /\ ToSet(delayed_list') = D \ {w}
  <2>1. W \cap D = {} /\ pending \subseteq W /\ W \cup D \subseteq wanted
        /\ work_current \notin pending
    BY DEF IInv, ListsOK
  <2>2. QED
    BY <1>1, <1>5, <1>6, <2>1, ListsNext
<1>8. TimersOK' /\ HistoryOK'
  <2>1. \A x \in Thread : pc[x] = "arm" => pc'[x] = "arm"
    BY <1>2, <1>3
  <2>2. \A x \in D \ {w} : /\ x \in submitting \cap bound
                           /\ x \in armed \/ \E u \in Thread : pc'[u] = "arm" /\ arg[u] = x
    BY <2>1 DEF IInv, TimersOK
  <2>3. QED
    BY <1>1, <1>7, <2>2 DEF IInv, TimersOK, HistoryOK
<1>9. SyncWaitEnds'
  BY <1>1, <1>2, <1>3, SemList DEF IInv, SyncWaitEnds
<1>10. QED
  BY <1>2, <1>4, <1>7, <1>8, <1>9 DEF IInv

(* _workqueue_submit_work with a delay, up to its rt_timer_start *)
LEMMA SubmitDelayedStep ==
  ASSUME IInv, NEW t \in Thread \ {Idle}, NEW w \in Work, SubmitDelayed(t, w)
  PROVE  IInv'
<1> DEFINE W == ToSet(work_list)
           D == ToSet(delayed_list)
<1>1. /\ At(t, Base(t)) /\ Goto(t, "arm")
      /\ work_list' = RemoveFirst(work_list, w)
      /\ delayed_list' = Append(RemoveFirst(delayed_list, w), w)
      /\ pending' = pending \ {w} /\ submitting' = submitting \cup {w}
      /\ armed' = armed \ {w} /\ bound' = bound \cup {w} /\ wanted' = wanted \cup {w}
      /\ arg' = [arg EXCEPT ![t] = w]
      /\ UNCHANGED <<kern, work_current, halted, late>>
  BY DEF SubmitDelayed
<1>2. /\ Base(t) \notin Leaving \cup {"ack"} /\ Base(t) \in AtEase
      /\ "arm" \in PointsOf(t) \cap AtEase /\ "arm" \notin Leaving \cup {"ack"}
      /\ (t = Worker => Base(t) = "work") /\ Base(t) \notin ArgPoints
  BY DEF Base, Leaving, AtEase, PointsOf, WorkerPoints, UserPoints, ArgPoints, Run
<1>3. /\ KernelInv' /\ kern'.list = kern.list
      /\ pc[t] = Base(t) /\ pc'[t] = "arm" /\ \A x \in Thread \ {t} : pc'[x] = pc[x]
      /\ t \notin ToSet(kern.list["sem"])
  BY <1>1, <1>2, GoOn, Stepper, PointsMoved DEF IInv
<1>4. /\ arg' \in [Thread -> Work \cup {NoWork}] /\ arg'[t] = w
      /\ \A x \in Thread \ {t} : arg'[x] = arg[x]
  BY <1>1 DEF IInv, CallOK
<1>5. CallOK'
  BY <1>1, <1>2, <1>3, <1>4, SemList DEF IInv, CallOK
<1>6. Lists(work_list', W \ {w}) /\ Lists(delayed_list', D \cup {w})
  <2>1. Lists(work_list, W) /\ Lists(delayed_list, D)
    BY QueueFacts
  <2>2. QED
    BY <1>1, <2>1, ListLemma
<1>7. ListsOK' /\ ToSet(delayed_list') = D \cup {w}
  <2>1. W \cap D = {} /\ pending \subseteq W /\ W \cup D \subseteq wanted
        /\ work_current \notin pending
    BY DEF IInv, ListsOK
  <2>2. Asleep' => W = {}
    <3>1. Asleep' => Asleep
      BY <1>1, <1>3, SemList DEF Asleep
    <3>2. Asleep => work_list = <<>>
      BY DEF IInv, ListsOK, Asleep
    <3>3. work_list = <<>> => W = {}
      BY DEF ToSet
    <3>4. QED
      BY <3>1, <3>2, <3>3
  <2>3. QED
    BY <1>1, <1>6, <2>1, <2>2, ListsNext
<1>8. TimersOK' /\ HistoryOK'
  <2>1. \A x \in Thread : pc[x] = "arm" => pc'[x] = "arm" /\ arg'[x] = arg[x]
    BY <1>2, <1>3, <1>4 DEF ArgPoints
  <2>2. \A x \in D : /\ x \in submitting \cap bound
                     /\ x \in armed \/ \E u \in Thread : pc'[u] = "arm" /\ arg'[u] = x
    BY <2>1 DEF IInv, TimersOK
  <2>3. \E u \in Thread : pc'[u] = "arm" /\ arg'[u] = w
    BY <1>3, <1>4
  <2>4. \A x \in D \cup {w} :
          /\ x \in submitting' \cap bound'
          /\ x \in armed' \/ \E u \in Thread : pc'[u] = "arm" /\ arg'[u] = x
    BY <1>1, <2>2, <2>3
  <2>5. QED
    BY <1>1, <1>7, <2>4 DEF IInv, TimersOK, HistoryOK
<1>9. SyncWaitEnds'
  <2>1. ToSet(kern.list["sem"]) \subseteq Thread
    BY SemList, ListedThreads DEF IInv, KernelInv
  <2>2. QED
    BY <1>1, <1>2, <1>3, <1>4, <2>1, SemList DEF IInv, SyncWaitEnds
<1>10. QED
  BY <1>3, <1>5, <1>7, <1>8, <1>9 DEF IInv

(* rt_timer_start of the work's timer, or a failed assertion *)
LEMMA ArmStep ==
  ASSUME IInv, NEW t \in Thread \ {Idle}, Arm(t)
  PROVE  IInv'
<1> DEFINE q == IF arg[t] \in submitting THEN Base(t) ELSE "failed"
<1>1. /\ At(t, "arm") /\ Goto(t, q)
      /\ armed' = IF arg[t] \in submitting THEN armed \cup {arg[t]} ELSE armed
      /\ arg' = [arg EXCEPT ![t] = NoWork]
      /\ UNCHANGED <<kern, work_list, delayed_list, pending, submitting, bound>>
      /\ UNCHANGED <<work_current, halted, wanted, late>>
  BY DEF Arm, lists, history
<1>2. /\ q \in PointsOf(t) /\ q \notin Leaving \cup {"ack"} /\ q \notin ArgPoints
      /\ "arm" \in AtEase /\ "arm" \notin Leaving \cup {"ack"} /\ q # "slept"
      /\ (t = Worker => q \in WorkPoints /\ q \notin {"idle", "loop"})
  BY DEF Base, Leaving, AtEase, PointsOf, WorkerPoints, UserPoints, ArgPoints, WorkPoints,
         Run
<1> HIDE DEF q
<1>3. /\ KernelInv' /\ kern'.list = kern.list
      /\ pc[t] = "arm" /\ pc'[t] = q /\ \A x \in Thread \ {t} : pc'[x] = pc[x]
      /\ t \notin ToSet(kern.list["sem"])
  BY <1>1, <1>2, GoOn, Stepper, PointsMoved DEF IInv
<1>4. /\ arg' \in [Thread -> Work \cup {NoWork}]
      /\ \A x \in Thread \ {t} : arg'[x] = arg[x]
  BY <1>1 DEF IInv, CallOK
<1>5. CallOK'
  BY <1>1, <1>2, <1>3, <1>4, SemList DEF IInv, CallOK, ArgPoints, WorkPoints
<1>6. ListsOK'
  <2>1. Asleep' => Asleep
    BY <1>1, <1>2, <1>3, SemList DEF Asleep
  <2>2. QED
    BY <1>1, <2>1 DEF IInv, ListsOK, Asleep
<1>7. TimersOK' /\ HistoryOK'
  <2>1. armed \subseteq armed' /\ armed' \subseteq submitting
        /\ (arg[t] \in submitting => arg[t] \in armed')
    BY <1>1 DEF IInv, TimersOK
  <2>2. ASSUME NEW x \in ToSet(delayed_list)
        PROVE  /\ x \in submitting \cap bound
               /\ x \in armed' \/ \E u \in Thread : pc'[u] = "arm" /\ arg'[u] = x
    <3>1. /\ x \in submitting \cap bound
          /\ x \in armed \/ \E u \in Thread : pc[u] = "arm" /\ arg[u] = x
      BY DEF IInv, TimersOK
    <3>2. ASSUME NEW u \in Thread, pc[u] = "arm", arg[u] = x
          PROVE  x \in armed' \/ (pc'[u] = "arm" /\ arg'[u] = x)
      BY <1>3, <1>4, <2>1, <3>1, <3>2
    <3>3. QED
      BY <2>1, <3>1, <3>2
  <2>3. QED
    BY <1>1, <2>1, <2>2 DEF IInv, TimersOK, HistoryOK
<1>8. SyncWaitEnds'
  <2>1. ToSet(kern.list["sem"]) \subseteq Thread
    BY SemList, ListedThreads DEF IInv, KernelInv
  <2>2. QED
    BY <1>1, <1>3, <1>4, <2>1, SemList DEF IInv, SyncWaitEnds
<1>9. QED
  BY <1>3, <1>5, <1>6, <1>7, <1>8 DEF IInv

(* A work that is discarded leaves both lists, and its timer stops. *)
LEMMA DiscardLemma ==
  ASSUME IInv, NEW w \in Work, Discard(w), KernelInv', UNCHANGED <<work_current, halted>>,
         Asleep' => Asleep,
         \A x \in Thread : pc[x] = "arm" => pc'[x] = "arm" /\ arg'[x] = arg[x],
         late' \subseteq Thread
  PROVE  ListsOK' /\ TimersOK' /\ HistoryOK'
<1> DEFINE W == ToSet(work_list)
           D == ToSet(delayed_list)
<1>1. /\ work_list' = RemoveFirst(work_list, w)
      /\ delayed_list' = RemoveFirst(delayed_list, w)
      /\ pending' = pending \ {w} /\ submitting' = submitting \ {w}
      /\ armed' = armed \ {w} /\ bound' = bound \ {w} /\ wanted' = wanted \ {w}
  BY DEF Discard, Unlist
<1>2. Lists(work_list', W \ {w}) /\ Lists(delayed_list', D \ {w})
  <2>1. Lists(work_list, W) /\ Lists(delayed_list, D)
    BY QueueFacts
  <2>2. QED
    BY <1>1, <2>1, ListLemma
<1>3. ListsOK' /\ ToSet(delayed_list') = D \ {w}
  <2>1. W \cap D = {} /\ pending \subseteq W /\ W \cup D \subseteq wanted
        /\ work_current \notin pending
    BY DEF IInv, ListsOK
  <2>2. Asleep' => W = {}
    <3>1. Asleep => work_list = <<>>
      BY DEF IInv, ListsOK, Asleep
    <3>2. work_list = <<>> => W = {}
      BY DEF ToSet
    <3>3. QED
      BY <3>1, <3>2
  <2>3. QED
    BY <1>1, <1>2, <2>1, <2>2, ListsNext
<1>4. TimersOK' /\ HistoryOK'
  <2>1. \A x \in D \ {w} :
          /\ x \in submitting' \cap bound'
          /\ x \in armed' \/ \E u \in Thread : pc'[u] = "arm" /\ arg'[u] = x
    BY <1>1 DEF IInv, TimersOK
  <2>2. QED
    BY <1>1, <1>3, <2>1 DEF IInv, TimersOK, HistoryOK
<1>5. QED
  BY <1>3, <1>4

(* _workqueue_cancel_work *)
LEMMA CancelStep ==
  ASSUME IInv, NEW t \in Thread \ {Idle}, NEW w \in Work, Cancel(t, w)
  PROVE  IInv'
<1>1. Discard(w) /\ UNCHANGED <<kern, pc, work_current, arg, halted, late>>
  BY DEF Cancel
<1>2. KernelInv' /\ CallOK' /\ SyncWaitEnds'
  BY <1>1 DEF IInv, KernelInv, PlaceOK, MostUrgentRunsAt, SuspendedOK, CallOK, SyncWaitEnds
<1>3. ListsOK' /\ TimersOK' /\ HistoryOK'
  BY <1>1, <1>2, DiscardLemma DEF Asleep, IInv, HistoryOK
<1>4. QED
  BY <1>2, <1>3 DEF IInv

(* rt_workqueue_cancel_work_sync, before it waits: its look at the work that *)
(* runs, its cancel, and the return from the wait                            *)
LEMMA SyncStep ==
  ASSUME IInv, NEW t \in Thread \ {Idle, Worker},
         (\E w \in Work : SyncLook(t, w)) \/ SyncCancel(t) \/ SyncReturn(t)
  PROVE  IInv'
<1>1. PICK p \in {Run, "cancel", "waited"}, q \in {Run, "sync", "cancel"},
           a \in Work \cup {NoWork} :
        /\ At(t, p) /\ Goto(t, q) /\ arg' = [arg EXCEPT ![t] = a]
        /\ q # Run => a \in Work
        /\ p = "cancel" <=> SyncCancel(t)
  <2>1. CASE \E w \in Work : SyncLook(t, w)
    <3>1. PICK w \in Work : SyncLook(t, w)
      BY <2>1
    <3>2. ~ SyncCancel(t)
      BY <3>1 DEF SyncLook, SyncCancel, At, Run
    <3>3. PICK q \in {"sync", "cancel"} : Goto(t, q)
      BY <3>1 DEF SyncLook
    <3>4. At(t, Run) /\ arg' = [arg EXCEPT ![t] = w]
      BY <3>1 DEF SyncLook
    <3>5. QED
      BY <3>2, <3>3, <3>4 DEF Run
  <2>2. CASE SyncCancel(t)
    BY <2>2 DEF SyncCancel
  <2>3. CASE SyncReturn(t)
    <3>1. ~ SyncCancel(t)
      BY <2>3 DEF SyncReturn, SyncCancel, At
    <3>2. QED
      BY <2>3, <3>1 DEF SyncReturn
  <2>4. QED
    BY <2>1, <2>2, <2>3
<1>2. /\ UNCHANGED <<kern, work_current, halted>>
      /\ late \ {t} \subseteq late' /\ late' \subseteq late
      /\ IF SyncCancel(t) THEN Discard(arg[t])
         ELSE UNCHANGED <<work_list, delayed_list, pending, submitting, armed, bound,
                          wanted>>
  <2>1. CASE SyncCancel(t)
    BY <2>1 DEF SyncCancel
  <2>2. CASE ~ SyncCancel(t)
    BY <2>2 DEF SyncLook, SyncReturn, lists, timing, history
  <2>3. QED
    BY <2>1, <2>2
<1>3. /\ KernelInv' /\ kern'.list = kern.list /\ kern'.stat = kern.stat
      /\ pc[t] = p /\ pc'[t] = q /\ \A x \in Thread \ {t} : pc'[x] = pc[x]
      /\ t \notin ToSet(kern.list["sem"])
  <2>1. /\ q \in PointsOf(t) /\ q \notin Leaving \cup {"ack"} /\ p \in AtEase
        /\ p \notin Leaving \cup {"ack"}
    BY DEF PointsOf, UserPoints, AtEase, Leaving, Run
  <2>2. QED
    BY <1>1, <1>2, <2>1, GoOn, Stepper, PointsMoved DEF IInv
<1>4. /\ arg' \in [Thread -> Work \cup {NoWork}] /\ arg'[t] = a
      /\ \A x \in Thread \ {t} : arg'[x] = arg[x]
  BY <1>1 DEF IInv, CallOK
<1>5. CallOK'
  BY <1>1, <1>2, <1>3, <1>4, SemList DEF IInv, CallOK, Run
<1>6. ListsOK' /\ TimersOK' /\ HistoryOK'
  <2>1. Asleep' => Asleep
    BY <1>2, <1>3, SemList DEF Asleep
  <2>2. \A x \in Thread : pc[x] = "arm" => pc'[x] = "arm" /\ arg'[x] = arg[x]
    BY <1>1, <1>3, <1>4 DEF Run
  <2>3. late' \subseteq Thread
    BY <1>2 DEF IInv, HistoryOK
  <2>4. CASE SyncCancel(t)
    <3>1. arg[t] \in Work
      BY <1>1, <1>3, <2>4 DEF IInv, CallOK
    <3>2. QED
      BY <1>2, <1>3, <2>1, <2>2, <2>3, <2>4, <3>1, DiscardLemma
  <2>5. CASE ~ SyncCancel(t)
    <3>1. UNCHANGED <<work_list, delayed_list, pending, submitting, armed, bound, wanted,
                      work_current, halted>>
      BY <1>2, <2>5
    <3>2. ListsOK' /\ HistoryOK'
      BY <2>1, <2>3, <3>1 DEF IInv, ListsOK, HistoryOK, Asleep
    <3>3. TimersOK'
      BY <2>2, <3>1 DEF IInv, TimersOK
    <3>4. QED
      BY <3>2, <3>3
  <2>6. QED
    BY <2>4, <2>5
<1>7. SyncWaitEnds'
  <2>1. ToSet(kern.list["sem"]) \subseteq Thread
    BY SemList, ListedThreads DEF IInv, KernelInv
  <2>2. QED
    BY <1>2, <1>3, <1>4, <2>1, SemList DEF IInv, SyncWaitEnds
<1>8. QED
  BY <1>3, <1>5, <1>6, <1>7 DEF IInv

(* rt_sem_take of rt_workqueue_cancel_work_sync, which is late when the work *)
(* has finished since the look at it                                         *)
LEMMA SyncWaitStep ==
  ASSUME IInv, NEW t \in Thread \ {Idle, Worker}, SyncWait(t)
  PROVE  IInv'
<1>1. /\ At(t, "sync") /\ WaitIn(t, "sem", "RT_IPC_FLAG_FIFO", FALSE, "wait")
      /\ late' = IF work_current = arg[t] THEN late ELSE late \cup {t}
      /\ UNCHANGED <<work_list, delayed_list, pending, submitting, armed, bound,
                     work_current, arg, halted, wanted>>
  BY DEF SyncWait, lists, timing
<1>2. "sync" \notin Leaving \cup {"ack"} /\ "wait" \in PointsOf(t) \cap Leaving
  BY DEF Leaving, PointsOf, UserPoints
<1>3. kern.current = t /\ pc[t] = "sync" /\ HasCpu(kern, t)
  BY <1>1, <1>2, Stepper DEF IInv
<1>4. SuspendedIn(kern, kern', t, "sem") /\ pc' = [pc EXCEPT ![t] = "wait"]
  <2>1. FALSE \in BOOLEAN /\ KernelOK(kern)
    BY DEF IInv, KernelInv
  <2>2. QED
    BY <1>1, <1>3, <2>1, SemList, WaitLemma
<1>5. /\ KernelOK(kern') /\ kern'.current = kern.current /\ kern'.lock = kern.lock
      /\ kern'.stat[t] = "SUSPEND"
      /\ \A x \in Thread \ {t} : kern'.stat[x] = kern.stat[x]
      /\ \A x \in Thread \ {t} : kern'.error[x] = kern.error[x]
      /\ ToSet(kern'.list["sem"]) = ToSet(kern.list["sem"]) \cup {t}
  BY <1>4 DEF SuspendedIn
<1>6. Goto(t, "wait")
  BY <1>4 DEF Goto
<1>7. KernelInv'
  BY <1>1, <1>2, <1>5, <1>6, SuspendKernel DEF IInv
<1>8. pc'[t] = "wait" /\ \A x \in Thread \ {t} : pc'[x] = pc[x]
  BY <1>6 DEF Goto, IInv, KernelInv
<1>9. CallOK'
  BY <1>1, <1>3, <1>8, SemList DEF IInv, CallOK
<1>10. ListsOK'
  BY <1>1, <1>5, <1>8, SemList DEF IInv, ListsOK
<1>11. TimersOK'
  BY <1>1, <1>3, <1>8 DEF IInv, TimersOK
<1>12. HistoryOK'
  BY <1>1 DEF IInv, HistoryOK
<1>13. SyncWaitEnds'
  BY <1>1, <1>5, <1>8, SemList DEF IInv, SyncWaitEnds
<1>14. QED
  BY <1>7, <1>9, <1>10, <1>11, <1>12, <1>13 DEF IInv

(***************************************************************************)
(* The worker                                                              *)
(***************************************************************************)
(* The worker takes the first work of the list. *)
LEMMA TakeWorkStep ==
  ASSUME IInv, TakeWork
  PROVE  IInv'
<1> DEFINE W == ToSet(work_list)
           D == ToSet(delayed_list)
           h == Head(work_list)
<1>1. /\ At(Worker, "loop") /\ work_list # <<>> /\ Goto(Worker, "work")
      /\ work_current' = h /\ work_list' = Tail(work_list)
      /\ pending' = pending \ {h} /\ bound' = bound \ {h} /\ wanted' = wanted \ {h}
      /\ UNCHANGED <<kern, delayed_list, submitting, armed, arg, halted, late>>
  BY DEF TakeWork
<1>2. /\ Lists(work_list, W) /\ Lists(delayed_list, D) /\ W \cap D = {}
      /\ h \in W /\ h \in Work /\ Lists(Tail(work_list), W \ {h})
  BY <1>1, QueueFacts, FirstWork
<1> HIDE DEF h
<1>3. /\ KernelInv' /\ kern'.list = kern.list
      /\ pc[Worker] = "loop" /\ pc'[Worker] = "work"
      /\ \A x \in Thread \ {Worker} : pc'[x] = pc[x]
  <2>1. /\ "work" \in PointsOf(Worker) /\ "work" \notin Leaving \cup {"ack"}
        /\ "loop" \in AtEase /\ "loop" \notin Leaving \cup {"ack"}
    BY DEF PointsOf, WorkerPoints, AtEase, Leaving
  <2>2. QED
    BY <1>1, <2>1, GoOn, Stepper, PointsMoved DEF IInv
<1>4. work_current = NoWork
  BY <1>3 DEF IInv, CallOK
<1>5. CallOK'
  BY <1>1, <1>2, <1>3, WorkQueueAssumption DEF IInv, CallOK
<1>6. ListsOK'
  <2>1. pending \subseteq W /\ W \cup D \subseteq wanted
    BY DEF IInv, ListsOK
  <2>2. ~ Asleep'
    BY <1>3 DEF Asleep
  <2>3. QED
    BY <1>1, <1>2, <2>1, <2>2, ListsNext
<1>7. TimersOK' /\ HistoryOK'
  <2>1. \A x \in Thread : pc[x] = "arm" => pc'[x] = "arm"
    BY <1>3
  <2>2. h \notin D
    BY <1>2
  <2>3. QED
    BY <1>1, <2>1, <2>2 DEF IInv, TimersOK, HistoryOK
<1>8. SyncWaitEnds'
  <2>1. \A x \in ToSet(kern.list["sem"]) : arg[x] \in Work
    BY SemList, ListedThreads DEF IInv, KernelInv, SuspendedOK, CallOK
  <2>2. ToSet(kern.list["sem"]) \subseteq late
    BY <1>3, <1>4, <2>1, WorkQueueAssumption DEF IInv, SyncWaitEnds
  <2>3. QED
    BY <1>1, <2>2 DEF SyncWaitEnds
<1>9. QED
  BY <1>3, <1>5, <1>6, <1>7, <1>8 DEF IInv

(* work_func returns; who waits for the work will be woken. *)
LEMMA FinishStep ==
  ASSUME IInv, Finish
  PROVE  IInv'
<1>1. /\ At(Worker, "work") /\ Goto(Worker, "complete") /\ work_current' = NoWork
      /\ UNCHANGED <<kern, work_list, delayed_list, pending, submitting, armed, bound, arg,
                     halted, wanted, late>>
  BY DEF Finish, lists, timing, history
<1>2. /\ KernelInv' /\ pc[Worker] = "work" /\ pc'[Worker] = "complete"
      /\ \A x \in Thread \ {Worker} : pc'[x] = pc[x]
  <2>1. /\ "complete" \in PointsOf(Worker) /\ "complete" \notin Leaving \cup {"ack"}
        /\ "work" \in AtEase /\ "work" \notin Leaving \cup {"ack"}
    BY DEF PointsOf, WorkerPoints, AtEase, Leaving
  <2>2. QED
    BY <1>1, <2>1, GoOn, Stepper, PointsMoved DEF IInv
<1>3. CallOK'
  BY <1>1, <1>2 DEF IInv, CallOK
<1>4. ListsOK'
  BY <1>1, <1>2, ToSetType, WorkQueueAssumption DEF IInv, ListsOK
<1>5. TimersOK' /\ HistoryOK'
  <2>1. \A x \in Thread : pc[x] = "arm" => pc'[x] = "arm"
    BY <1>2
  <2>2. QED
    BY <1>1, <2>1 DEF IInv, TimersOK, HistoryOK
<1>6. SyncWaitEnds'
  BY <1>2 DEF SyncWaitEnds
<1>7. QED
  BY <1>2, <1>3, <1>4, <1>5, <1>6 DEF IInv

(* Nothing to do: the worker suspends itself, with no timer. *)
LEMMA WaitForWorkStep ==
  ASSUME IInv, WaitForWork
  PROVE  IInv'
<1>1. /\ At(Worker, "loop") /\ work_list = <<>> /\ Goto(Worker, "idle")
      /\ kern' = rt_thread_suspend(kern, Worker)
      /\ UNCHANGED <<lists, timing, work_current, arg, halted, history>>
  BY DEF WaitForWork
<1>2. /\ "loop" \notin Leaving \cup {"ack"} /\ "idle" \in PointsOf(Worker) \cap Leaving
      /\ "idle" # "wait"
  BY DEF Leaving, PointsOf, WorkerPoints
<1>3. pc[Worker] = "loop" /\ HasCpu(kern, Worker)
  BY <1>1, <1>2, Stepper DEF IInv
<1>4. /\ KernelOK(kern') /\ kern'.current = kern.current /\ kern'.list = kern.list
      /\ kern'.error = kern.error /\ kern'.lock = kern.lock
      /\ kern'.stat[Worker] = "SUSPEND"
      /\ \A x \in Thread \ {Worker} : kern'.stat[x] = kern.stat[x]
  <2>1. KernelOK(kern) /\ kern.stat[Worker] \in {"READY", "RUNNING"}
        /\ Worker \in Thread \ {Idle}
    BY <1>3, SemList DEF HasCpu, IInv, KernelInv
  <2>2. QED
    BY <1>1, <2>1, SuspendThreadLemma
<1>5. KernelInv'
  BY <1>1, <1>2, <1>4, SuspendKernel, SemList DEF IInv
<1>6. pc'[Worker] = "idle" /\ \A x \in Thread \ {Worker} : pc'[x] = pc[x]
  BY <1>1, SemList DEF Goto, IInv, KernelInv
<1>7. QED
  BY <1>1, <1>3, <1>4, <1>5, <1>6, DataStays DEF ArgPoints, WorkPoints, Asleep

(* work_func sleeps, and goes on after its sleep. *)
LEMMA WorkSleepStep ==
  ASSUME IInv, WorkSleeps \/ WorkSlept
  PROVE  IInv'
<1>1. CASE WorkSleeps
  <2>1. /\ At(Worker, "work") /\ Goto(Worker, "sleep")
        /\ kern' = rt_timer_start(rt_thread_suspend(kern, Worker), Worker)
        /\ UNCHANGED <<lists, timing, work_current, arg, halted, history>>
    BY <1>1 DEF WorkSleeps
  <2>2. /\ "work" \notin Leaving \cup {"ack"} /\ "sleep" \in PointsOf(Worker) \cap Leaving
        /\ "sleep" # "wait"
    BY DEF Leaving, PointsOf, WorkerPoints
  <2>3. pc[Worker] = "work" /\ HasCpu(kern, Worker)
    BY <2>1, <2>2, Stepper DEF IInv
  <2>4. /\ KernelOK(kern') /\ kern'.current = kern.current /\ kern'.list = kern.list
        /\ kern'.error = kern.error /\ kern'.lock = kern.lock
        /\ kern'.stat[Worker] = "SUSPEND"
        /\ \A x \in Thread \ {Worker} : kern'.stat[x] = kern.stat[x]
    BY <2>1, <2>3, SleepLemma, SemList DEF IInv, KernelInv
  <2>5. KernelInv'
    BY <2>1, <2>2, <2>4, SuspendKernel, SemList DEF IInv
  <2>6. pc'[Worker] = "sleep" /\ \A x \in Thread \ {Worker} : pc'[x] = pc[x]
    BY <2>1, SemList DEF Goto, IInv, KernelInv
  <2>7. QED
    BY <2>1, <2>3, <2>4, <2>5, <2>6, DataStays DEF ArgPoints, WorkPoints, Asleep
<1>2. CASE WorkSlept
  <2>1. /\ At(Worker, "slept") /\ Goto(Worker, "work")
        /\ kern' = SetError(kern, Worker, "RT_EOK")
        /\ UNCHANGED <<lists, timing, work_current, arg, halted, history>>
    BY <1>2 DEF WorkSlept, SetError
  <2>2. /\ "work" \in PointsOf(Worker) /\ "work" \notin Leaving \cup {"ack"}
        /\ "slept" \in AtEase /\ "slept" \notin Leaving \cup {"ack"}
    BY DEF PointsOf, WorkerPoints, AtEase, Leaving
  <2>3. /\ KernelInv' /\ kern'.list = kern.list
        /\ pc[Worker] = "slept" /\ pc'[Worker] = "work"
        /\ \A x \in Thread \ {Worker} : pc'[x] = pc[x]
    BY <2>1, <2>2, GoOn, Stepper, PointsMoved DEF IInv
  <2>4. QED
    BY <2>1, <2>3, DataStays DEF ArgPoints, WorkPoints, Asleep
<1>3. QED
  BY <1>1, <1>2

(* _workqueue_work_completion *)
LEMMA CompletionStep ==
  ASSUME IInv, CompletionBegin \/ CompletionWake \/ CompletionEnd
  PROVE  IInv'
<1>0. UNCHANGED <<lists, timing, work_current, arg, halted, history>>
  BY DEF CompletionBegin, CompletionWake, CompletionEnd
<1>1. CASE CompletionBegin
  <2>1. /\ At(Worker, "complete") /\ Goto(Worker, "ack")
        /\ kern' = [kern EXCEPT !.lock = kern.lock + 1]
    BY <1>1 DEF CompletionBegin
  <2>2. kern.lock + 1 \in Nat /\ kern.lock + 1 > 0
    BY DEF IInv, KernelInv, KernelOK, KernelState
  <2>3. /\ KernelInv' /\ kern'.list = kern.list
        /\ \A x \in Thread \ {Worker} : pc'[x] = pc[x]
    BY <2>1, <2>2, LockKernel DEF IInv
  <2>4. pc[Worker] = "complete" /\ pc'[Worker] = "ack"
    BY <2>1, SemList DEF At, Goto, IInv, KernelInv
  <2>5. QED
    BY <1>0, <2>3, <2>4, DataStays DEF ArgPoints, WorkPoints, Asleep
<1>2. CASE CompletionWake
  <2>1. /\ At(Worker, "ack") /\ kern.list["sem"] # <<>> /\ UNCHANGED pc
        /\ kern' = rt_schedule(rt_ipc_list_resume(kern, "sem"))
    BY <1>2 DEF CompletionWake
  <2> DEFINE h == Head(kern.list["sem"])
             r == rt_thread_resume(kern, h)
  <2>2. /\ KernelOK(kern) /\ kern.lock > 0 /\ kern.current = Worker
        /\ kern.stat[Worker] = "RUNNING"
    BY <2>1 DEF At, IInv, KernelInv, PlaceOK, Leaving
  <2>3. h \in Thread /\ kern.stat[h] = "SUSPEND" /\ h # Worker
    BY <2>1, <2>2, HeadSuspended, SemList
  <2>4. ResumedHere(kern, r, h, kern.error[h])
    BY <2>2, <2>3, ResumeHere
  <2>5. kern' = r
    <3>1. r.lock > 0
      BY <2>2, <2>4 DEF ResumedHere, ResumedWith
    <3>2. QED
      BY <2>1, <3>1, LockedSchedule DEF rt_ipc_list_resume
  <2> HIDE DEF h, r
  <2>6. ResumedWith(kern, kern', h, kern.error[h]) /\ kern'.current = kern.current
    BY <2>4, <2>5 DEF ResumedHere
  <2>7. /\ KernelInv'
        /\ ToSet(kern'.list["sem"]) = ToSet(kern.list["sem"]) \ {h}
        /\ kern'.stat[Worker] = "SUSPEND" <=> kern.stat[Worker] = "SUSPEND" /\ h # Worker
    BY <2>1, <2>2, <2>3, <2>6, ResumeKernel DEF IInv
  <2>8. QED
    BY <1>0, <2>1, <2>7, DataStays DEF Asleep
<1>3. CASE CompletionEnd
  <2>1. /\ At(Worker, "ack") /\ Goto(Worker, "unlocked") /\ kern.list["sem"] = <<>>
        /\ kern' = [kern EXCEPT !.lock = 0]
    BY <1>3 DEF CompletionEnd
  <2>2. /\ KernelInv' /\ kern'.list = kern.list
        /\ \A x \in Thread \ {Worker} : pc'[x] = pc[x]
    BY <2>1, LockKernel DEF IInv
  <2>3. pc[Worker] = "ack" /\ pc'[Worker] = "unlocked"
    BY <2>1, SemList DEF At, Goto, IInv, KernelInv
  <2>4. ToSet(kern'.list["sem"]) = {}
    BY <2>1, <2>2 DEF ToSet
  <2>5. QED
    BY <1>0, <2>2, <2>3, <2>4, DataStays DEF ArgPoints, WorkPoints, Asleep
<1>4. QED
  BY <1>1, <1>2, <1>3

(***************************************************************************)
(* The scheduler and the interrupts                                        *)
(***************************************************************************)
(* A call of rt_schedule, and the way back from it *)
LEMMA QueueSchedules ==
  ASSUME IInv, NEW t \in Thread \ {Idle},
         \/ Schedule(t)
         \/ t # Worker /\ SyncSchedule(t)
  PROVE  IInv'
<1>0. UNCHANGED <<lists, timing, work_current, arg, halted, history>>
  BY DEF Schedule, SyncSchedule
<1>1. PICK p \in {"sched", "sleep", "wait", "idle", "unlocked"} : Reschedule(t, p, After(p))
  BY DEF Schedule, SyncSchedule, After
<1>2. /\ KernelInv'
      /\ pc[t] = p /\ pc'[t] = After(p) /\ \A x \in Thread \ {t} : pc'[x] = pc[x]
      /\ kern'.list = kern.list
      /\ kern'.stat[Worker] = "SUSPEND" <=> kern.stat[Worker] = "SUSPEND"
  BY <1>1, ScheduleKernel DEF IInv
<1>3. /\ p # "arm" /\ p \notin {"complete", "ack"} /\ p \notin {"loop"}
      /\ (After(p) \in ArgPoints <=> p \in ArgPoints)
      /\ (After(p) \in WorkPoints <=> p \in WorkPoints) \/ p = "sched"
      /\ (After(p) \in {"idle", "loop"} => p \in {"idle", "unlocked"})
  BY DEF After, ArgPoints, WorkPoints, Run
<1>4. t = Worker => p # "sched"
  BY <1>2 DEF IInv, KernelInv, PlaceOK, WorkerPoints
<1>5. Asleep' => Asleep
  <2>1. kern.stat[Worker] = "SUSPEND" => pc[Worker] # "unlocked"
    BY DEF IInv, KernelInv, SuspendedOK
  <2>2. QED
    BY <1>2, <1>3, <2>1, SemList DEF Asleep
<1>6. pc'[Worker] \in WorkPoints <=> pc[Worker] \in WorkPoints
  BY <1>2, <1>3, <1>4, SemList
<1>7. QED
  BY <1>0, <1>2, <1>3, <1>5, <1>6, SemList, DataStays

(* rt_thread_sleep of a thread that uses the queue *)
LEMMA SleeperStep ==
  ASSUME IInv, NEW t \in Thread \ {Idle, Worker}, Sleep(t)
  PROVE  IInv'
<1>0. UNCHANGED <<lists, timing, work_current, arg, halted, history>>
  BY DEF Sleep
<1>1. CASE SleepBegin(t)
  <2>1. /\ At(t, Run) /\ Goto(t, "sleep")
        /\ kern' = rt_timer_start(rt_thread_suspend(kern, t), t)
    BY <1>1 DEF SleepBegin
  <2>2. /\ Run \notin Leaving \cup {"ack"} /\ "sleep" \in PointsOf(t) \cap Leaving
        /\ "sleep" # "wait"
    BY DEF Leaving, PointsOf, UserPoints, Run
  <2>3. pc[t] = Run /\ HasCpu(kern, t)
    BY <2>1, <2>2, Stepper DEF IInv
  <2>4. /\ KernelOK(kern') /\ kern'.current = kern.current /\ kern'.list = kern.list
        /\ kern'.error = kern.error /\ kern'.lock = kern.lock
        /\ kern'.stat[t] = "SUSPEND"
        /\ \A x \in Thread \ {t} : kern'.stat[x] = kern.stat[x]
    BY <2>1, <2>3, SleepLemma DEF IInv, KernelInv
  <2>5. KernelInv'
    BY <2>1, <2>2, <2>4, SuspendKernel DEF IInv
  <2>6. pc'[t] = "sleep" /\ \A x \in Thread \ {t} : pc'[x] = pc[x]
    BY <2>1 DEF Goto, IInv, KernelInv
  <2>7. Asleep' => Asleep
    BY <2>4, <2>6, SemList DEF Asleep
  <2>8. QED
    BY <1>0, <2>3, <2>4, <2>5, <2>6, <2>7, SemList, DataStays DEF ArgPoints, Run
<1>2. CASE SleepEnd(t)
  <2>1. /\ At(t, "slept") /\ Goto(t, Run)
        /\ kern' = kern \/ kern' = SetError(kern, t, "RT_EOK")
    BY <1>2 DEF SleepEnd, SetError
  <2>2. /\ Run \in PointsOf(t) /\ Run \notin Leaving \cup {"ack"}
        /\ "slept" \in AtEase /\ "slept" \notin Leaving \cup {"ack"}
    BY DEF PointsOf, UserPoints, AtEase, Leaving, Run
  <2>3. /\ KernelInv' /\ kern'.list = kern.list /\ kern'.stat = kern.stat
        /\ pc[t] = "slept" /\ pc'[t] = Run
        /\ \A x \in Thread \ {t} : pc'[x] = pc[x]
    BY <2>1, <2>2, GoOn, Stepper, PointsMoved DEF IInv
  <2>4. Asleep' => Asleep
    BY <2>3, SemList DEF Asleep
  <2>5. QED
    BY <1>0, <2>3, <2>4, SemList, DataStays DEF ArgPoints, Run
<1>3. QED
  BY <1>1, <1>2 DEF Sleep

(* the tick interrupt: a time slice or a thread's timer *)
LEMMA QueueTick ==
  ASSUME IInv, Tick
  PROVE  IInv'
<1>1. /\ UNCHANGED <<lists, timing, work_current, arg, halted, history>>
      /\ SliceExpires \/ \E t \in Thread : TimerExpires(t)
  BY DEF Tick
<1>2. /\ KernelInv' /\ UNCHANGED pc
      /\ ToSet(kern'.list["sem"]) \subseteq ToSet(kern.list["sem"])
      /\ kern'.stat[Worker] = "SUSPEND" => kern.stat[Worker] = "SUSPEND"
  BY <1>1, TickKernel DEF IInv
<1>3. QED
  BY <1>1, <1>2, DataStays DEF Asleep

(* _delayed_work_timeout_handler: the work enters work_list, unless it runs, *)
(* and the worker wakes up; or the assertion on its queue fails.             *)
LEMMA DelayStep ==
  ASSUME IInv, NEW w \in Work, DelayEnds(w)
  PROVE  IInv'
<1> DEFINE W == ToSet(work_list)
           D == ToSet(delayed_list)
<1>1. /\ w \in armed /\ armed' = armed \ {w}
      /\ UNCHANGED <<pc, bound, work_current, arg, late>>
  BY DEF DelayEnds
<1>2. /\ \A x \in D : /\ x \in submitting \cap bound
                      /\ x \in armed \/ \E u \in Thread : pc[u] = "arm" /\ arg[u] = x
      /\ w \in submitting /\ submitting \cap bound \subseteq wanted
      /\ armed \subseteq submitting
  BY <1>1 DEF IInv, TimersOK
<1>3. CASE w \notin bound
  <2>1. /\ UNCHANGED <<submitting, work_list, delayed_list, pending, wanted, kern>>
        /\ halted' = TRUE
    BY <1>3 DEF DelayEnds, lists
  <2>2. /\ KernelInv' /\ CallOK' /\ ListsOK' /\ SyncWaitEnds' /\ HistoryOK'
    BY <1>1, <2>1 DEF IInv, KernelInv, PlaceOK, MostUrgentRunsAt, SuspendedOK, CallOK,
                      ListsOK, SyncWaitEnds, HistoryOK
  <2>3. \A x \in D : x # w
    BY <1>2, <1>3
  <2>4. TimersOK'
    BY <1>1, <1>2, <2>1, <2>3 DEF IInv, TimersOK
  <2>5. QED
    BY <2>2, <2>4 DEF IInv
<1>4. CASE w \in bound
  <2>1. /\ submitting' = submitting \ {w} /\ Queue(w)
        /\ pending' = IF work_current # w THEN pending \cup {w} ELSE pending
        /\ wanted' = IF work_current # w THEN wanted ELSE wanted \ {w}
        /\ kern' = IF WorkerIdle
                   THEN rt_schedule(rt_thread_resume(kern, Worker)) ELSE kern
        /\ UNCHANGED halted
    BY <1>4 DEF DelayEnds
  <2>2. /\ KernelInv'
        /\ ToSet(kern'.list["sem"]) \subseteq ToSet(kern.list["sem"])
        /\ ~ Asleep'
    <3>1. CASE WorkerIdle
      <4>1. /\ kern.stat[Worker] = "SUSPEND" /\ work_current = NoWork /\ KernelOK(kern)
            /\ pc[Worker] \notin {"sleep", "slept"}
        BY <3>1 DEF WorkerIdle, IInv, KernelInv, CallOK
      <4>2. kern.lock = 0
        BY <4>1 DEF IInv, KernelInv, PlaceOK, SuspendedOK
      <4> DEFINE r == rt_thread_resume(kern, Worker)
      <4>3. ResumedWith(kern, r, Worker, kern.error[Worker])
        BY <4>1, ResumeHere, SemList DEF ResumedHere
      <4>4. kern' = rt_schedule(r)
        BY <2>1, <3>1
      <4> HIDE DEF r
      <4>5. ResumedWith(kern, kern', Worker, kern.error[Worker]) /\ MostUrgent(kern')
        BY <4>2, <4>3, <4>4, ThenSchedule, SemList
      <4>6. /\ KernelInv'
            /\ ToSet(kern'.list["sem"]) = ToSet(kern.list["sem"]) \ {Worker}
            /\ kern'.stat[Worker] # "SUSPEND"
        BY <1>1, <4>1, <4>2, <4>5, ResumeKernel, SemList DEF IInv
      <4>7. QED
        BY <4>6 DEF Asleep
    <3>2. CASE ~ WorkerIdle
      <4>1. kern' = kern
        BY <2>1, <3>2
      <4>2. KernelInv'
        BY <1>1, <4>1 DEF IInv, KernelInv, PlaceOK, MostUrgentRunsAt, SuspendedOK
      <4>3. ~ Asleep'
        BY <1>1, <3>2, <4>1 DEF WorkerIdle, Asleep, IInv, CallOK
      <4>4. QED
        BY <4>1, <4>2, <4>3
    <3>3. QED
      BY <3>1, <3>2
  <2>3. /\ Lists(work_list', IF work_current # w THEN W \cup {w} ELSE W \ {w})
        /\ Lists(delayed_list', D \ {w})
    <3>1. Lists(work_list, W) /\ Lists(delayed_list, D)
      BY QueueFacts
    <3>2. QED
      BY <2>1, <3>1, ListLemma DEF Queue
  <2>4. ListsOK' /\ ToSet(delayed_list') = D \ {w}
    <3>1. W \cap D = {} /\ pending \subseteq W /\ W \cup D \subseteq wanted
          /\ work_current \notin pending /\ w \in wanted
      BY <1>2, <1>4 DEF IInv, ListsOK
    <3>2. CASE work_current # w
      BY <1>1, <2>1, <2>2, <2>3, <3>1, <3>2, ListsNext
    <3>3. CASE work_current = w
      BY <1>1, <2>1, <2>2, <2>3, <3>1, <3>3, ListsNext
    <3>4. QED
      BY <3>2, <3>3
  <2>5. CallOK' /\ HistoryOK'
    BY <1>1, <2>1 DEF IInv, CallOK, HistoryOK
  <2>6. TimersOK'
    BY <1>1, <1>2, <2>1, <2>4 DEF IInv, TimersOK
  <2>7. SyncWaitEnds'
    BY <1>1, <2>2 DEF IInv, SyncWaitEnds
  <2>8. QED
    BY <2>2, <2>4, <2>5, <2>6, <2>7 DEF IInv
<1>5. QED
  BY <1>3, <1>4

(***************************************************************************)
(* The theorems                                                            *)
(***************************************************************************)
(* The invariant holds when the scheduler has started and the queue is empty. *)
LEMMA InitOK ==
  ASSUME Init
  PROVE  IInv
<1>1. /\ KernelOK(kern)
      /\ kern.lock = 0 /\ kern.stat[kern.current] = "RUNNING"
      /\ \A t \in Thread : kern.stat[t] = "READY" =>
           kern.priority[kern.current] <= kern.priority[t]
      /\ \A t \in Thread : kern.stat[t] \in {"READY", "RUNNING"}
      /\ \A l \in List : kern.list[l] = <<>>
  BY BootLemma, KernelAssumption DEF Init
<1>2. /\ pc = [t \in Thread |-> IF t = Worker THEN "loop" ELSE Run]
      /\ work_list = <<>> /\ delayed_list = <<>> /\ pending = {}
      /\ submitting = {} /\ armed = {} /\ bound = {} /\ work_current = NoWork
      /\ arg = [t \in Thread |-> NoWork] /\ halted = FALSE /\ wanted = {} /\ late = {}
  BY DEF Init
<1>3. /\ pc \in [Thread -> WorkerPoints \cup UserPoints] /\ pc[Worker] = "loop"
      /\ \A t \in Thread \ {Worker} : pc[t] = Run
  BY <1>2, SemList DEF WorkerPoints, UserPoints, Run
<1>4. KernelInv
  <2>1. ToSet(kern.list["sem"]) = {}
    BY <1>1, SemList DEF ToSet
  <2>2. PlaceOK
    BY <1>1, <1>3, SemList DEF PlaceOK, WorkerPoints, UserPoints, MostUrgentRunsAt
  <2>3. SuspendedOK
    BY <1>1, <1>3, <2>1, SemList DEF SuspendedOK
  <2>4. QED
    BY <1>1, <1>3, <2>2, <2>3 DEF KernelInv
<1>5. CallOK
  BY <1>2, <1>3 DEF CallOK, Run
<1>6. /\ work_list \in Seq(Work) /\ delayed_list \in Seq(Work)
      /\ IsInjective(work_list) /\ IsInjective(delayed_list)
      /\ ToSet(work_list) = {} /\ ToSet(delayed_list) = {}
  BY <1>2 DEF IsInjective, ToSet
<1>7. ListsOK /\ TimersOK /\ HistoryOK
  BY <1>2, <1>6 DEF ListsOK, TimersOK, HistoryOK
<1>8. SyncWaitEnds
  BY <1>1, SemList DEF SyncWaitEnds, ToSet
<1>9. QED
  BY <1>4, <1>5, <1>7, <1>8 DEF IInv

(* Every step keeps the invariant. *)
LEMMA StepOK ==
  ASSUME IInv, Next
  PROVE  IInv'
<1>1. ASSUME NEW t \in Thread \ {Idle}, Call(t) PROVE IInv'
  <2>1. PICK w \in Work : \/ SubmitNow(t, w) \/ SubmitDelayed(t, w) \/ CriticalWork(t, w)
                          \/ Cancel(t, w)
    BY <1>1 DEF Call
  <2>2. QED
    BY <2>1, SubmitNowStep, SubmitDelayedStep, CriticalStep, CancelStep
<1>2. ASSUME NEW t \in Thread \ {Idle}, Arm(t) \/ Schedule(t) PROVE IInv'
  BY <1>2, ArmStep, QueueSchedules
<1>3. ASSUME NEW t \in Thread \ {Idle, Worker}, UserStep(t) PROVE IInv'
  <2>1. t \in Thread \ {Idle} /\ t # Worker
    OBVIOUS
  <2>2. CASE Sleep(t)
    BY <2>2, SleeperStep
  <2>3. CASE (\E w \in Work : SyncLook(t, w)) \/ SyncCancel(t) \/ SyncReturn(t)
    BY <2>3, SyncStep
  <2>4. CASE SyncWait(t)
    BY <2>4, SyncWaitStep
  <2>5. CASE SyncSchedule(t)
    BY <2>1, <2>5, QueueSchedules
  <2>6. QED
    BY <1>3, <2>2, <2>3, <2>4, <2>5 DEF UserStep
<1>4. ASSUME WorkerStep PROVE IInv'
  BY <1>4, WaitForWorkStep, TakeWorkStep, WorkSleepStep, FinishStep, CompletionStep
     DEF WorkerStep
<1>5. ASSUME NEW w \in Work, DelayEnds(w) PROVE IInv'
  BY <1>5, DelayStep
<1>6. ASSUME Tick PROVE IInv'
  BY <1>6, QueueTick
<1>7. QED
  BY <1>1, <1>2, <1>3, <1>4, <1>5, <1>6 DEF Next

(* A stuttering step keeps the invariant. *)
LEMMA StutterOK ==
  ASSUME IInv, UNCHANGED vars
  PROVE  IInv'
<1>1. /\ UNCHANGED <<kern, pc, work_list, delayed_list, pending, submitting, armed, bound>>
      /\ UNCHANGED <<work_current, arg, halted, wanted, late>>
  BY DEF vars, lists, timing, history
<1>2. KernelInv' /\ CallOK' /\ SyncWaitEnds'
  BY <1>1 DEF IInv, KernelInv, PlaceOK, MostUrgentRunsAt, SuspendedOK, CallOK, SyncWaitEnds
<1>3. ListsOK' /\ TimersOK' /\ HistoryOK'
  BY <1>1 DEF IInv, ListsOK, TimersOK, HistoryOK
<1>4. QED
  BY <1>2, <1>3 DEF IInv

(* Every behaviour of the work queue keeps the invariant. *)
THEOREM Invariance == Spec => []IInv
<1>1. Init => IInv
  BY InitOK
<1>2. IInv /\ [Next]_vars => IInv'
  BY StepOK, StutterOK
<1>3. QED
  BY <1>1, <1>2, PTL DEF Spec

(* The queue never breaks the kernel's lists: the ready queues, the suspend  *)
(* list and the bitmap agree, a most urgent thread runs wherever no call of  *)
(* rt_schedule is due - the scheduler lock of a completion included - and a  *)
(* work that sleeps is woken by its timer only.                              *)
THEOREM KernelStaysConsistent == Spec => []KernelConsistent
<1>1. IInv => KernelConsistent
  <2> SUFFICES ASSUME IInv PROVE KernelConsistent
    OBVIOUS
  <2>1. TypeOK
    <3>1. pc \in [Thread -> {Run, "sleep", "slept", "sched", "arm", "failed", "cancel",
                             "sync", "wait", "waited", "loop", "idle", "work",
                             "complete", "ack", "unlocked"}]
      BY DEF IInv, KernelInv, WorkerPoints, UserPoints, Run
    <3>2. pending \subseteq Work
      BY QueueFacts DEF IInv, ListsOK
    <3>3. QED
      BY <3>1, <3>2 DEF TypeOK, IInv, KernelInv, KernelOK, CallOK, ListsOK, TimersOK,
                        HistoryOK
  <2>2. MostUrgentRunsAt({Run, "slept", "arm", "cancel", "sync", "waited",
                          "work", "complete"})
    BY DEF IInv, KernelInv, PlaceOK, MostUrgentRunsAt, AtEase, Run
  <2>3. QED
    BY <2>1, <2>2 DEF KernelConsistent, IInv, KernelInv, SuspendedOK
<1>2. QED
  BY <1>1, Invariance, PTL

(* The worker never waits while work_list holds a work; no work is in two    *)
(* places; and a delayed work always has a running timer or a thread that is *)
(* about to start it.                                                        *)
THEOREM NoWorkIsForgotten == Spec => []NoWorkForgotten
<1>1. IInv => NoWorkForgotten
  <2> SUFFICES ASSUME IInv PROVE NoWorkForgotten
    OBVIOUS
  <2>1. IsInjective(work_list \o delayed_list)
    BY InjectiveConcat DEF IInv, ListsOK
  <2>2. QED
    BY <2>1 DEF NoWorkForgotten, IInv, ListsOK, TimersOK
<1>2. QED
  BY <1>1, Invariance, PTL

(* What the worker will run has been submitted, and neither started nor      *)
(* cancelled since.                                                          *)
THEOREM WorksRunAsSubmitted == Spec => []RunsAsSubmitted
<1>1. IInv => RunsAsSubmitted
  BY DEF IInv, ListsOK, RunsAsSubmitted
<1>2. QED
  BY <1>1, Invariance, PTL

(* A thread in rt_workqueue_cancel_work_sync waits for a completion that is  *)
(* still to come, unless it began to wait too late.                          *)
THEOREM WaitsForWorkEnd == Spec => []SyncWaitEnds
<1>1. IInv => SyncWaitEnds
  BY DEF IInv
<1>2. QED
  BY <1>1, Invariance, PTL

(***************************************************************************)
(* The AT client, for any callers, answers and bounds.                     *)
(***************************************************************************)
(* points of a call that holds client->lock *)
Inside == {"send", "take", "wait", "granted", "expired", "exit", "delete", "deleted"}

(* A caller is in the queue of the lock as long as its call lasts, and      *)
(* client->resp is given up before the lock.                                *)
LockOK ==
  /\ IsInjective(lock)
  /\ \A c \in Caller : c \in ToSet(lock) <=> client_pc[c] # "idle"
  /\ \A c \in Caller : client_pc[c] \in Inside => c = Head(lock)
  /\ resp # NoResp =>
       lock # <<>> /\ resp = Head(lock) /\ client_pc[resp] \in Inside

(* where the parser stands when it has looked at all lines *)
ParserOK ==
  /\ parser = "wait" => wire = <<>>
  /\ parser = "take" /\ rx_notice = 0 => wire = <<>>
  /\ parser = "handle" => wire # <<>>

(* A call without a response object leaves client->resp alone and does not  *)
(* wait, and only at_client_obj_wait_connect has more than one turn.        *)
KindOK ==
  \A c \in Caller :
    /\ kind[c] = "exec_no_resp" =>
         resp # c /\ client_pc[c] \in {"idle", "lock", "send", "exit"}
    /\ client_pc[c] = "send" /\ kind[c] # "connect" => tries = 0

(* the notices given, the one the parser is about to give, and the one it   *)
(* will give when the response in client->resp is complete                  *)
Notices == resp_notice + (IF parser = "notify" THEN 1 ELSE 0)
             + (IF resp # NoResp THEN 1 ELSE 0)

NoticesOK ==
  /\ Notices <= 2
  /\ Notices = 2 => \E c \in Caller : /\ kind[c] # "exec_no_resp"
                                      /\ \/ client_pc[c] = "take"
                                         \/ client_pc[c] = "send" /\ tries = 0

(* which line ends the answer to c's command, and what it says *)
Ends(c, line) == IF kind[c] = "exec_one_line" THEN line \in {"data", "ERROR"}
                 ELSE line \in {"OK", "ERROR"}
Outcome(line) == IF line = "data" THEN "OK" ELSE line

(* The command waits for the end of its answer, of which some data lines    *)
(* may be there ...                                                         *)
Unanswered(c) ==
  /\ Len(todo) <= 1
  /\ todo # <<>> => todo[1].kind = kind[c]
  /\ kind[c] = "exec_one_line" => wire = <<>>
  /\ \A i \in 1 .. Len(wire) : wire[i] = "data"
  /\ answer = "none"

(* ... or the whole answer is on its way to the parser.                     *)
Answered(c) ==
  /\ todo = <<>> /\ wire # <<>>
  /\ kind[c] = "exec_one_line" => Len(wire) = 1
  /\ \A i \in 1 .. Len(wire) - 1 : wire[i] = "data"
  /\ Ends(c, wire[Len(wire)])
  /\ answer = Outcome(wire[Len(wire)])

(* the response of c's command is not complete *)
Open(c) ==
  /\ resp = c
  /\ kind[c] = "exec_one_line" => line_counts = 0
  /\ resp_notice = 0 /\ parser # "notify"
  /\ Unanswered(c) \/ Answered(c)

Quiet == todo = <<>> /\ wire = <<>>

(* The response is complete, and n notices say so. *)
Closed(n) ==
  /\ Quiet /\ resp = NoResp
  /\ resp_notice + (IF parser = "notify" THEN 1 ELSE 0) = n
  /\ resp_status = answer /\ answer # "none"

(* As long as every command has waited for its answer, the lines on their   *)
(* way and the notices belong to the command of the lock's owner.           *)
Exchange(c) ==
  /\ client_pc[c] = "send" => tries = 0 /\ (kind[c] # "exec_no_resp" => resp = c)
  /\ client_pc[c] = "take" => Open(c) \/ Closed(1)
  /\ client_pc[c] = "wait" => Open(c) \/ (Closed(1) /\ parser = "notify")
  /\ client_pc[c] = "granted" => Closed(0)
  /\ client_pc[c] \in {"exit", "delete", "deleted"} =>
       /\ Closed(0)
       /\ result \in {"RT_EOK", "RT_ERROR"}
       /\ kind[c] # "connect" => (result = "RT_EOK" <=> answer = "OK")
  /\ client_pc[c] # "expired"

(* Between two commands nothing is on its way. *)
RestOK ==
  (\A c \in Caller : client_pc[c] \in {"idle", "lock", "send"}) =>
    Quiet /\ resp_notice = 0 /\ parser # "notify"

ExchangeOK == orderly => RestOK /\ \A c \in Caller : Exchange(c)

ClientInv ==
  ClientTypeOK /\ LockOK /\ ParserOK /\ KindOK /\ NoticesOK /\ ExchangeOK

(* What the proofs use of the bounds *)
ClientNumbers ==
  /\ IsFiniteSet(Caller) /\ NoResp \notin Caller
  /\ BufLines \in Nat \ {0} /\ MaxData \in Nat
  /\ MaxTries \in Nat \ {0} /\ MaxCmd \in Nat \ {0}

(* The thread inside is the owner of the lock: everyone else is outside. *)
LEMMA Holder ==
  ASSUME ClientTypeOK, LockOK, NEW c \in Caller, client_pc[c] \in Inside
  PROVE  /\ lock # <<>> /\ c = Head(lock)
         /\ \A d \in Caller : d # c => client_pc[d] \in {"idle", "lock"}
         /\ resp \in {c, NoResp}
<1>1. c \in ToSet(lock) /\ c = Head(lock)
  BY DEF LockOK, Inside
<1>2. lock # <<>>
  BY <1>1, EmptyToSet DEF ClientTypeOK
<1>3. ASSUME NEW d \in Caller, d # c PROVE client_pc[d] \in {"idle", "lock"}
  BY <1>1, <1>3 DEF LockOK, Inside, ClientTypeOK
<1> QED
  BY <1>1, <1>2, <1>3 DEF LockOK, ClientTypeOK

(* An exchange goes on while nothing that belongs to it changes. *)
LEMMA OpenFrame ==
  ASSUME NEW c \in Caller, Open(c), kind'[c] = kind[c], parser' # "notify",
         UNCHANGED <<resp, line_counts, resp_notice, wire, todo, answer>>
  PROVE  Open(c)'
BY DEF Open, Unanswered, Answered, Ends, Outcome

(* So does a complete one. *)
LEMMA ClosedFrame ==
  ASSUME NEW n, Closed(n), parser' = "notify" <=> parser = "notify",
         UNCHANGED <<resp, resp_status, resp_notice, wire, todo, answer>>
  PROVE  Closed(n)'
BY DEF Closed, Quiet

(* Both, for a caller at any point *)
LEMMA ExchangeFrame ==
  ASSUME NEW c \in Caller, Exchange(c),
         kind'[c] = kind[c], client_pc'[c] = client_pc[c],
         parser' = "notify" <=> parser = "notify",
         UNCHANGED <<resp, resp_status, resp_notice, line_counts, tries, result,
                     wire, todo, answer>>
  PROVE  Exchange(c)'
<1>1. Open(c) => parser' # "notify"
  BY DEF Open
<1>2. Open(c) => Open(c)'
  BY <1>1, OpenFrame
<1>3. (Closed(0) => Closed(0)') /\ (Closed(1) => Closed(1)')
  BY ClosedFrame
<1> QED
  BY <1>2, <1>3 DEF Exchange

(* A call begins: the caller joins the queue of the lock. *)
LEMMA ClientBegin ==
  ASSUME ClientNumbers, ClientInv, NEW c \in Caller, NEW k \in Kind, Begin(c, k)
  PROVE  ClientInv'
<1> USE DEF receiver, exchange
<1>a. ClientTypeOK /\ LockOK /\ ParserOK /\ KindOK /\ NoticesOK /\ ExchangeOK
  BY DEF ClientInv
<1>1. ClientTypeOK'
  <2>1. lock' \in Seq(Caller)
    BY <1>a, AppendLemma DEF ClientTypeOK, Begin
  <2>2. client_pc' = [client_pc EXCEPT ![c] = "lock"] /\ kind' = [kind EXCEPT ![c] = k]
    BY DEF Begin, CallerGoto
  <2> QED
    BY <1>a, <2>1, <2>2 DEF ClientTypeOK, Begin, Kind
<1>2. LockOK'
  <2>1. client_pc[c] = "idle" /\ client_pc' = [client_pc EXCEPT ![c] = "lock"]
          /\ lock' = Append(lock, c) /\ resp' = resp
    BY DEF Begin, CallerAt, CallerGoto
  <2>2. c \notin ToSet(lock)
    BY <1>a, <2>1 DEF LockOK
  <2>3. lock' \in Seq(Caller) /\ ToSet(lock') = ToSet(lock) \cup {c} /\ lock' # <<>>
          /\ IsInjective(lock')
    BY <1>a, <2>1, <2>2, AppendLemma DEF LockOK, ClientTypeOK
  <2>4. lock # <<>> => Head(lock') = Head(lock)
    BY <1>a, <2>1 DEF ClientTypeOK
  <2>5. \A d \in Caller : client_pc[d] \in Inside => lock # <<>>
    BY <1>a, Holder
  <2>6. \A d \in Caller : client_pc'[d] = IF d = c THEN "lock" ELSE client_pc[d]
    BY <1>a, <2>1 DEF ClientTypeOK
  <2>7. resp # NoResp => resp \in Caller /\ client_pc'[resp] = client_pc[resp]
    BY <1>a, <2>1, <2>6 DEF LockOK, Inside, ClientTypeOK
  <2>8. \A d \in Caller : client_pc'[d] \in Inside => d # c /\ client_pc[d] \in Inside
    BY <2>6 DEF Inside
  <2>9. \A d \in Caller : d \in ToSet(lock') <=> client_pc'[d] # "idle"
    BY <1>a, <2>1, <2>3, <2>6 DEF LockOK
  <2>10. \A d \in Caller : client_pc'[d] \in Inside => d = Head(lock')
    BY <1>a, <2>4, <2>5, <2>8 DEF LockOK
  <2>11. resp' # NoResp =>
           lock' # <<>> /\ resp' = Head(lock') /\ client_pc'[resp'] \in Inside
    BY <1>a, <2>1, <2>3, <2>4, <2>7 DEF LockOK
  <2> QED
    BY <2>3, <2>9, <2>10, <2>11 DEF LockOK
<1>3. ParserOK'
  BY <1>a DEF ClientTypeOK, ParserOK, Begin, CallerAt, CallerGoto, Kind
<1>4. KindOK'
  <2>1. client_pc[c] = "idle" /\ client_pc' = [client_pc EXCEPT ![c] = "lock"]
          /\ kind' = [kind EXCEPT ![c] = k] /\ resp' = resp /\ tries' = tries
    BY DEF Begin, CallerAt, CallerGoto
  <2>2. resp # c
    BY <1>a, <2>1 DEF LockOK, Inside, ClientTypeOK, ClientNumbers
  <2>3. client_pc'[c] = "lock" /\ \A d \in Caller \ {c} :
          client_pc'[d] = client_pc[d] /\ kind'[d] = kind[d]
    BY <1>a, <2>1 DEF ClientTypeOK
  <2> QED
    BY <1>a, <2>1, <2>2, <2>3 DEF KindOK
<1>5. NoticesOK'
  BY <1>a
  DEF ClientTypeOK, NoticesOK, Notices, Begin, CallerAt, CallerGoto,
      Kind
<1>6. ExchangeOK'
  <2> SUFFICES ASSUME orderly' PROVE RestOK' /\ \A d \in Caller : Exchange(d)'
    BY DEF ExchangeOK
  <2>1. client_pc[c] = "idle" /\ client_pc' = [client_pc EXCEPT ![c] = "lock"]
          /\ kind' = [kind EXCEPT ![c] = k]
    BY DEF Begin, CallerAt, CallerGoto
  <2>2. orderly /\ UNCHANGED <<resp, resp_status, resp_notice, line_counts, tries,
                                result, parser, wire, todo, answer>>
    BY DEF Begin
  <2>3. client_pc'[c] = "lock" /\ \A d \in Caller \ {c} :
          client_pc'[d] = client_pc[d] /\ kind'[d] = kind[d]
    BY <1>a, <2>1 DEF ClientTypeOK
  <2>4. ASSUME NEW d \in Caller PROVE Exchange(d)'
    <3>1. CASE d = c
      BY <2>3, <3>1 DEF Exchange
    <3>2. CASE d # c
      BY <1>a, <2>2, <2>3, <3>2, ExchangeFrame DEF ExchangeOK
    <3> QED
      BY <3>1, <3>2
  <2>5. RestOK'
    <3>1. (\A d \in Caller : client_pc'[d] \in {"idle", "lock", "send"}) =>
            \A d \in Caller : client_pc[d] \in {"idle", "lock", "send"}
      BY <2>1, <2>3
    <3> QED
      BY <1>a, <2>2, <3>1 DEF ExchangeOK, RestOK, Quiet
  <2> QED
    BY <2>4, <2>5
<1> QED
  BY <1>1, <1>2, <1>3, <1>4, <1>5, <1>6 DEF ClientInv

(* The owner of the lock enters its response object: no one is inside. *)
LEMMA ClientSetup ==
  ASSUME ClientNumbers, ClientInv, NEW c \in Caller, Setup(c)
  PROVE  ClientInv'
<1> USE DEF receiver
<1>a. ClientTypeOK /\ LockOK /\ ParserOK /\ KindOK /\ NoticesOK /\ ExchangeOK
  BY DEF ClientInv
<1>0. c = Head(lock) /\ lock # <<>> /\ resp = NoResp
        /\ \A d \in Caller : client_pc[d] \in {"idle", "lock"}
  <2>1. client_pc[c] = "lock" /\ c = Head(lock)
    BY DEF Setup, CallerAt
  <2>2. lock # <<>>
    BY <1>a, <2>1, EmptyToSet DEF LockOK, ClientTypeOK
  <2>3. \A d \in Caller : client_pc[d] \notin Inside
    BY <1>a, <2>1 DEF LockOK, Inside
  <2> QED
    BY <1>a, <2>1, <2>2, <2>3 DEF LockOK, Inside, ClientTypeOK
<1>1. ClientTypeOK'
  <2>1. client_pc' = [client_pc EXCEPT ![c] = "send"] /\ resp' \in {c, NoResp}
          /\ resp_status' \in {resp_status, "OK"}
    BY DEF Setup, CallerGoto
  <2> QED
    BY <1>a, <2>1 DEF ClientTypeOK, Setup, ClientNumbers
<1>2. LockOK'
  <2>1. client_pc' = [client_pc EXCEPT ![c] = "send"] /\ resp' \in {c, NoResp}
          /\ lock' = lock /\ client_pc[c] = "lock"
    BY DEF Setup, CallerAt, CallerGoto
  <2>2. client_pc'[c] = "send" /\ \A d \in Caller \ {c} : client_pc'[d] = client_pc[d]
    BY <1>a, <2>1 DEF ClientTypeOK
  <2>3. \A d \in Caller : client_pc'[d] \in Inside => d = Head(lock')
    BY <1>0, <2>1, <2>2 DEF Inside
  <2> QED
    BY <1>a, <1>0, <2>1, <2>2, <2>3 DEF LockOK, Inside
<1>3. ParserOK'
  BY <1>a, <1>0 DEF ClientTypeOK, ParserOK, Setup, CallerAt, CallerGoto
<1>4. KindOK'
  BY <1>a, <1>0 DEF ClientTypeOK, KindOK, Setup, CallerAt, CallerGoto
<1>5. NoticesOK'
  <2>1. Notices <= 1 /\ resp_notice \in Nat
    BY <1>a, <1>0 DEF NoticesOK, Notices, ClientTypeOK
  <2>2. resp_notice' = resp_notice /\ parser' = parser /\ parser # "notify"
          /\ client_pc' = [client_pc EXCEPT ![c] = "send"] /\ tries' = 0
          /\ kind' = kind /\ (resp' # NoResp => kind[c] # "exec_no_resp")
    BY DEF Setup, CallerAt, CallerGoto
  <2>3. client_pc'[c] = "send"
    BY <1>a, <2>2 DEF ClientTypeOK
  <2>4. Notices' = resp_notice + (IF resp' # NoResp THEN 1 ELSE 0) /\ Notices = resp_notice
    BY <1>0, <2>1, <2>2 DEF Notices
  <2> QED
    BY <2>1, <2>2, <2>3, <2>4 DEF NoticesOK
<1>6. ExchangeOK'
  <2> SUFFICES ASSUME orderly' PROVE RestOK' /\ \A d \in Caller : Exchange(d)'
    BY DEF ExchangeOK
  <2>1. ASSUME NEW d \in Caller, d # c PROVE Exchange(d)'
    <3>1. client_pc'[d] \in {"idle", "lock"}
      BY <1>a, <1>0, <2>1 DEF ClientTypeOK, Setup, CallerAt, CallerGoto
    <3> QED
      BY <3>1 DEF Exchange
  <2>2. orderly /\ UNCHANGED <<resp_notice, kind, parser, wire, todo>>
    BY DEF Setup
  <2>3. RestOK'
    BY <1>a, <1>0, <2>2 DEF ExchangeOK, RestOK, Quiet
  <2>4. Exchange(c)'
    <3>1. client_pc'[c] = "send" /\ tries' = 0 /\ (kind[c] # "exec_no_resp" => resp' = c)
      BY <1>a DEF ClientTypeOK, Setup, CallerAt, CallerGoto
    <3> QED
      BY <2>2, <3>1 DEF Exchange
  <2> QED
    BY <2>1, <2>3, <2>4
<1> QED
  BY <1>1, <1>2, <1>3, <1>4, <1>5, <1>6 DEF ClientInv

(* A command goes out when nothing else is on its way. *)
LEMMA ClientSend ==
  ASSUME ClientNumbers, ClientInv, NEW c \in Caller, Send(c)
  PROVE  ClientInv'
<1> USE DEF client, receiver
<1>a. ClientTypeOK /\ LockOK /\ ParserOK /\ KindOK /\ NoticesOK /\ ExchangeOK
  BY DEF ClientInv
<1>0. c = Head(lock) /\ lock # <<>> /\ resp \in {c, NoResp}
        /\ \A d \in Caller : d # c => client_pc[d] \in {"idle", "lock"}
  BY <1>a, Holder DEF Inside, Send, CallerAt, CallerGoto
<1>1. ClientTypeOK'
  <2>1. cmds' \in 0 .. MaxCmd
    <3>1. Unsent \subseteq Caller /\ c \in Unsent
      BY DEF Unsent, Send, CallerAt
    <3>2. Cardinality(Unsent) = Cardinality(Unsent)
      BY DEF Cardinality, Cardinality
    <3>3. Cardinality(Unsent) \in Nat \ {0}
      BY <3>1, FS_Subset, FS_CardinalityType, FS_EmptySet DEF ClientNumbers
    <3> QED
      BY <1>a, <3>2, <3>3 DEF ClientTypeOK, Send, ClientNumbers
  <2>2. todo' \in Seq([kind : Kind, data : 0 .. MaxData])
    BY <1>a, AppendProperties DEF ClientTypeOK, Send, ClientNumbers
  <2>3. tries' \in 0 .. MaxTries /\ line_counts' \in 0 .. BufLines
    BY <1>a DEF ClientTypeOK, Send, ClientNumbers
  <2>4. client_pc' = [client_pc EXCEPT ![c] = IF kind[c] = "exec_no_resp" THEN "exit" ELSE "take"]
    BY DEF Send, CallerGoto
  <2> QED
    BY <1>a, <2>1, <2>2, <2>3, <2>4 DEF ClientTypeOK, Send
<1>2. LockOK'
  BY <1>a, <1>0 DEF ClientTypeOK, LockOK, Inside, Send, CallerAt, CallerGoto
<1>3. ParserOK'
  BY <1>a, <1>0 DEF ClientTypeOK, ParserOK, Send, CallerAt, CallerGoto
<1>4. KindOK'
  BY <1>a, <1>0 DEF ClientTypeOK, KindOK, Send, CallerAt, CallerGoto
<1>5. NoticesOK'
  BY <1>a, <1>0
  DEF ClientTypeOK, NoticesOK, Notices, Send, CallerAt, CallerGoto
<1>6. ExchangeOK'
  <2> SUFFICES ASSUME orderly' PROVE RestOK' /\ \A d \in Caller : Exchange(d)'
    BY DEF ExchangeOK
  <2>1. ASSUME NEW d \in Caller, d # c PROVE Exchange(d)'
    <3>1. client_pc'[d] \in {"idle", "lock"}
      BY <1>a, <1>0, <2>1 DEF ClientTypeOK, Send, CallerAt, CallerGoto
    <3> QED
      BY <3>1 DEF Exchange
  <2>2. orderly /\ kind[c] # "exec_no_resp" /\ client_pc[c] = "send" /\ parser = "wait"
          /\ client_pc'[c] = "take" /\ answer' = "none" /\ line_counts' = 0
          /\ todo' = Append(todo, [kind |-> kind[c], data |-> 0])
          /\ UNCHANGED <<resp, resp_notice, kind, parser, wire>>
    BY <1>a DEF ClientTypeOK, Send, CallerAt, CallerGoto
  <2>3. \A d \in Caller : client_pc[d] \in {"idle", "lock", "send"}
    BY <1>0, <2>2
  <2>4. Quiet /\ resp_notice = 0 /\ resp = c
    BY <1>a, <2>2, <2>3 DEF ExchangeOK, RestOK, Exchange
  <2>5. todo' = <<[kind |-> kind[c], data |-> 0]>>
    BY <2>2, <2>4 DEF Quiet
  <2>6. Open(c)'
    BY <2>2, <2>4, <2>5 DEF Open, Unanswered, Quiet
  <2>7. Exchange(c)' /\ RestOK'
    BY <2>2, <2>6 DEF Exchange, RestOK
  <2> QED
    BY <2>1, <2>7
<1> QED
  BY <1>1, <1>2, <1>3, <1>4, <1>5, <1>6 DEF ClientInv

(* The notice there is one for the command that has been sent. *)
LEMMA ClientTake ==
  ASSUME ClientNumbers, ClientInv, NEW c \in Caller, TakeNotice(c)
  PROVE  ClientInv'
<1> USE DEF receiver, exchange
<1>a. ClientTypeOK /\ LockOK /\ ParserOK /\ KindOK /\ NoticesOK /\ ExchangeOK
  BY DEF ClientInv
<1>0. c = Head(lock) /\ lock # <<>> /\ resp \in {c, NoResp}
        /\ \A d \in Caller : d # c => client_pc[d] \in {"idle", "lock"}
  BY <1>a, Holder DEF Inside, TakeNotice, CallerAt, CallerGoto
<1>1. ClientTypeOK'
  <2>1. resp_notice' \in Nat
    BY <1>a DEF ClientTypeOK, TakeNotice
  <2>2. \E p \in {"granted", "wait"} : client_pc' = [client_pc EXCEPT ![c] = p]
    BY DEF TakeNotice, CallerGoto
  <2>3. UNCHANGED <<lock, resp, resp_status, kind, line_counts, tries, result, parser,
                    rx_notice, wire, todo, cmds, answer, orderly>>
    BY DEF TakeNotice
  <2> QED
    BY <1>a, <2>1, <2>2, <2>3 DEF ClientTypeOK
<1>2. LockOK'
  BY <1>a, <1>0 DEF ClientTypeOK, LockOK, Inside, TakeNotice, CallerAt, CallerGoto
<1>3. ParserOK'
  BY <1>a, <1>0 DEF ClientTypeOK, ParserOK, TakeNotice, CallerAt, CallerGoto
<1>4. KindOK'
  BY <1>a, <1>0 DEF ClientTypeOK, KindOK, TakeNotice, CallerAt, CallerGoto
<1>5. NoticesOK'
  <2>1. resp_notice \in Nat /\ parser = "wait" /\ Notices <= 2 /\ UNCHANGED <<resp, parser>>
    BY <1>a DEF NoticesOK, ClientTypeOK, TakeNotice, CallerAt
  <2>2. IF resp_notice > 0 THEN resp_notice' = resp_notice - 1 ELSE resp_notice' = resp_notice
    BY DEF TakeNotice
  <2>3. Notices' <= 1 /\ Notices' \in Int
    BY <2>1, <2>2 DEF Notices
  <2> QED
    BY <2>3 DEF NoticesOK
<1>6. ExchangeOK'
  <2> SUFFICES ASSUME orderly' PROVE RestOK' /\ \A d \in Caller : Exchange(d)'
    BY DEF ExchangeOK
  <2>1. ASSUME NEW d \in Caller, d # c PROVE Exchange(d)'
    <3>1. client_pc'[d] \in {"idle", "lock"}
      BY <1>a, <1>0, <2>1 DEF ClientTypeOK, TakeNotice, CallerAt, CallerGoto
    <3> QED
      BY <3>1 DEF Exchange
  <2>2. orderly /\ client_pc[c] = "take" /\ parser = "wait" /\ resp_notice \in Nat
          /\ UNCHANGED <<resp, resp_status, kind, line_counts, parser, wire, todo, answer>>
    BY <1>a DEF ClientTypeOK, TakeNotice, CallerAt
  <2>3. Open(c) \/ Closed(1)
    BY <1>a, <2>2 DEF ExchangeOK, Exchange
  <2>4. CASE resp_notice > 0
    <3>1. client_pc'[c] = "granted" /\ resp_notice' = resp_notice - 1
      BY <1>a, <2>4 DEF ClientTypeOK, TakeNotice, CallerGoto
    <3>2. Closed(1) /\ resp_notice = 1
      BY <2>2, <2>3, <2>4 DEF Open, Closed
    <3>3. Closed(0)'
      BY <2>2, <3>1, <3>2 DEF Closed, Quiet
    <3> QED
      BY <2>1, <3>1, <3>3 DEF Exchange, RestOK
  <2>5. CASE resp_notice = 0
    <3>1. client_pc'[c] = "wait" /\ resp_notice' = resp_notice
      BY <1>a, <2>5 DEF ClientTypeOK, TakeNotice, CallerGoto
    <3>2. Open(c)
      BY <2>2, <2>3, <2>5 DEF Closed
    <3>3. Open(c)'
      BY <2>2, <3>1, <3>2, OpenFrame
    <3> QED
      BY <2>1, <3>1, <3>3 DEF Exchange, RestOK
  <2> QED
    BY <2>2, <2>4, <2>5
<1> QED
  BY <1>1, <1>2, <1>3, <1>4, <1>5, <1>6 DEF ClientInv

(* A command that runs out of time ends the orderly exchange. *)
LEMMA ClientExpires ==
  ASSUME ClientNumbers, ClientInv, NEW c \in Caller, Expires(c)
  PROVE  ClientInv'
<1> USE DEF client, receiver
<1>a. ClientTypeOK /\ LockOK /\ ParserOK /\ KindOK /\ NoticesOK /\ ExchangeOK
  BY DEF ClientInv
<1>0. c = Head(lock) /\ lock # <<>> /\ resp \in {c, NoResp}
        /\ \A d \in Caller : d # c => client_pc[d] \in {"idle", "lock"}
  BY <1>a, Holder DEF Inside, Expires, CallerAt, CallerGoto
<1>1. ClientTypeOK'
  BY <1>a, <1>0 DEF ClientTypeOK, Expires, CallerAt, CallerGoto
<1>2. LockOK'
  BY <1>a, <1>0
  DEF ClientTypeOK, LockOK, Inside, Expires, CallerAt, CallerGoto
<1>3. ParserOK'
  BY <1>a, <1>0 DEF ClientTypeOK, ParserOK, Expires, CallerAt, CallerGoto
<1>4. KindOK'
  BY <1>a, <1>0 DEF ClientTypeOK, KindOK, Expires, CallerAt, CallerGoto
<1>5. NoticesOK'
  BY <1>a, <1>0
  DEF ClientTypeOK, NoticesOK, Notices, Expires, CallerAt, CallerGoto
<1>6. ExchangeOK'
  BY <1>a, <1>0
  DEF ClientTypeOK, ExchangeOK, RestOK, Exchange, Open, Closed, Quiet, Unanswered,
      Answered, Ends, Outcome, Expires, CallerAt, CallerGoto
<1> QED
  BY <1>1, <1>2, <1>3, <1>4, <1>5, <1>6 DEF ClientInv

(* The status that is looked at is the one of the answer. *)
LEMMA ClientCheck ==
  ASSUME ClientNumbers, ClientInv, NEW c \in Caller, Check(c)
  PROVE  ClientInv'
<1> USE DEF receiver, exchange
<1>a. ClientTypeOK /\ LockOK /\ ParserOK /\ KindOK /\ NoticesOK /\ ExchangeOK
  BY DEF ClientInv
<1>0. c = Head(lock) /\ lock # <<>> /\ resp \in {c, NoResp}
        /\ \A d \in Caller : d # c => client_pc[d] \in {"idle", "lock"}
  BY <1>a, Holder DEF Inside, Check, CallerAt, CallerGoto
<1>1. ClientTypeOK'
  BY <1>a, <1>0 DEF ClientTypeOK, Check, CallerAt, CallerGoto
<1>2. LockOK'
  BY <1>a, <1>0 DEF ClientTypeOK, LockOK, Inside, Check, CallerAt, CallerGoto
<1>3. ParserOK'
  BY <1>a, <1>0 DEF ClientTypeOK, ParserOK, Check, CallerAt, CallerGoto
<1>4. KindOK'
  BY <1>a, <1>0 DEF ClientTypeOK, KindOK, Check, CallerAt, CallerGoto
<1>5. NoticesOK'
  BY <1>a, <1>0
  DEF ClientTypeOK, NoticesOK, Notices, Check, CallerAt, CallerGoto
<1>6. ExchangeOK'
  BY <1>a, <1>0
  DEF ClientTypeOK, ExchangeOK, RestOK, Exchange, Open, Closed, Quiet, Unanswered,
      Answered, Ends, Outcome, Check, CallerAt, CallerGoto
<1> QED
  BY <1>1, <1>2, <1>3, <1>4, <1>5, <1>6 DEF ClientInv

(* A turn of at_client_obj_wait_connect ends. *)
LEMMA ClientConnectCheck ==
  ASSUME ClientNumbers, ClientInv, NEW c \in Caller, ConnectCheck(c)
  PROVE  ClientInv'
<1> USE DEF client, receiver, exchange
<1>a. ClientTypeOK /\ LockOK /\ ParserOK /\ KindOK /\ NoticesOK /\ ExchangeOK
  BY DEF ClientInv
<1>0. c = Head(lock) /\ lock # <<>> /\ resp \in {c, NoResp}
        /\ \A d \in Caller : d # c => client_pc[d] \in {"idle", "lock"}
  BY <1>a, Holder DEF Inside, ConnectCheck, CallerAt, CallerGoto
<1>1. ClientTypeOK'
  BY <1>a, <1>0 DEF ClientTypeOK, ConnectCheck, CallerAt, CallerGoto
<1>2. LockOK'
  BY <1>a, <1>0
  DEF ClientTypeOK, LockOK, Inside, ConnectCheck, CallerAt, CallerGoto
<1>3. ParserOK'
  BY <1>a, <1>0 DEF ClientTypeOK, ParserOK, ConnectCheck, CallerAt, CallerGoto
<1>4. KindOK'
  BY <1>a, <1>0 DEF ClientTypeOK, KindOK, ConnectCheck, CallerAt, CallerGoto
<1>5. NoticesOK'
  BY <1>a, <1>0
  DEF ClientTypeOK, NoticesOK, Notices, ConnectCheck, CallerAt, CallerGoto
<1>6. ExchangeOK'
  BY <1>a, <1>0
  DEF ClientTypeOK, ExchangeOK, RestOK, Exchange, Open, Closed, Quiet, Unanswered,
      Answered, Ends, Outcome, ConnectCheck, CallerAt, CallerGoto
<1> QED
  BY <1>1, <1>2, <1>3, <1>4, <1>5, <1>6 DEF ClientInv

(* Only a turn that ran out of time is followed by another. *)
LEMMA ClientGiveUp ==
  ASSUME ClientNumbers, ClientInv, NEW c \in Caller, GiveUp(c)
  PROVE  ClientInv'
<1> USE DEF client, receiver, exchange
<1>a. ClientTypeOK /\ LockOK /\ ParserOK /\ KindOK /\ NoticesOK /\ ExchangeOK
  BY DEF ClientInv
<1>0. c = Head(lock) /\ lock # <<>> /\ resp \in {c, NoResp}
        /\ \A d \in Caller : d # c => client_pc[d] \in {"idle", "lock"}
  BY <1>a, Holder DEF Inside, GiveUp, CallerAt, CallerGoto
<1>1. ClientTypeOK'
  BY <1>a, <1>0 DEF ClientTypeOK, GiveUp, CallerAt, CallerGoto
<1>2. LockOK'
  BY <1>a, <1>0 DEF ClientTypeOK, LockOK, Inside, GiveUp, CallerAt, CallerGoto
<1>3. ParserOK'
  BY <1>a, <1>0 DEF ClientTypeOK, ParserOK, GiveUp, CallerAt, CallerGoto
<1>4. KindOK'
  BY <1>a, <1>0 DEF ClientTypeOK, KindOK, GiveUp, CallerAt, CallerGoto
<1>5. NoticesOK'
  <2>1. client_pc[c] = "send" /\ tries # 0 /\ UNCHANGED <<resp, resp_notice, parser>>
    BY <1>a DEF GiveUp, CallerAt, ClientTypeOK
  <2>2. Notices # 2 /\ Notices' = Notices
    BY <1>a, <1>0, <2>1 DEF NoticesOK, Notices
  <2> QED
    BY <1>a, <2>2 DEF NoticesOK
<1>6. ExchangeOK'
  <2>1. client_pc[c] = "send" /\ tries # 0 /\ orderly' = orderly
    BY <1>a DEF GiveUp, CallerAt, ClientTypeOK
  <2> QED
    BY <1>a, <2>1 DEF ExchangeOK, Exchange
<1> QED
  BY <1>1, <1>2, <1>3, <1>4, <1>5, <1>6 DEF ClientInv

(* The response object is given back while the lock is held. *)
LEMMA ClientDelete ==
  ASSUME ClientNumbers, ClientInv, NEW c \in Caller, Delete(c)
  PROVE  ClientInv'
<1> USE DEF client, receiver, exchange
<1>a. ClientTypeOK /\ LockOK /\ ParserOK /\ KindOK /\ NoticesOK /\ ExchangeOK
  BY DEF ClientInv
<1>0. c = Head(lock) /\ lock # <<>> /\ resp \in {c, NoResp}
        /\ \A d \in Caller : d # c => client_pc[d] \in {"idle", "lock"}
  BY <1>a, Holder DEF Inside, Delete, CallerAt, CallerGoto
<1>1. ClientTypeOK'
  BY <1>a, <1>0 DEF ClientTypeOK, Delete, CallerAt, CallerGoto
<1>2. LockOK'
  BY <1>a, <1>0 DEF ClientTypeOK, LockOK, Inside, Delete, CallerAt, CallerGoto
<1>3. ParserOK'
  BY <1>a, <1>0 DEF ClientTypeOK, ParserOK, Delete, CallerAt, CallerGoto
<1>4. KindOK'
  BY <1>a, <1>0 DEF ClientTypeOK, KindOK, Delete, CallerAt, CallerGoto
<1>5. NoticesOK'
  BY <1>a, <1>0
  DEF ClientTypeOK, NoticesOK, Notices, Delete, CallerAt, CallerGoto
<1>6. ExchangeOK'
  BY <1>a, <1>0
  DEF ClientTypeOK, ExchangeOK, RestOK, Exchange, Open, Closed, Quiet, Unanswered,
      Answered, Ends, Outcome, Delete, CallerAt, CallerGoto
<1> QED
  BY <1>1, <1>2, <1>3, <1>4, <1>5, <1>6 DEF ClientInv

(* The call ends: client->resp is given up before the lock. *)
LEMMA ClientExit ==
  ASSUME ClientNumbers, ClientInv, NEW c \in Caller, Exit(c)
  PROVE  ClientInv'
<1> USE DEF receiver, exchange
<1>a. ClientTypeOK /\ LockOK /\ ParserOK /\ KindOK /\ NoticesOK /\ ExchangeOK
  BY DEF ClientInv
<1>0. c = Head(lock) /\ lock # <<>> /\ resp \in {c, NoResp}
        /\ \A d \in Caller : d # c => client_pc[d] \in {"idle", "lock"}
  BY <1>a, Holder DEF Inside, Exit, CallerAt, CallerGoto
<1>1. ClientTypeOK'
  <2>1. client_pc[c] \in {"exit", "deleted"} /\ client_pc' = [client_pc EXCEPT ![c] = "idle"]
          /\ kind' = [kind EXCEPT ![c] = "exec"] /\ resp' = NoResp /\ lock' = Tail(lock)
    BY DEF Exit, CallerAt, CallerGoto
  <2>2. lock' \in Seq(Caller)
    BY <1>a, <1>0, <2>1, TailLemma DEF ClientTypeOK, LockOK
  <2> QED
    BY <1>a, <2>1, <2>2 DEF ClientTypeOK, Exit, Kind
<1>2. LockOK'
  <2>1. client_pc[c] \in {"exit", "deleted"} /\ client_pc' = [client_pc EXCEPT ![c] = "idle"]
          /\ kind' = [kind EXCEPT ![c] = "exec"] /\ resp' = NoResp /\ lock' = Tail(lock)
    BY DEF Exit, CallerAt, CallerGoto
  <2>2. IsInjective(lock') /\ ToSet(lock') = ToSet(lock) \ {c}
    BY <1>a, <1>0, <2>1, TailLemma DEF ClientTypeOK, LockOK
  <2>3. \A d \in Caller : client_pc'[d] = IF d = c THEN "idle" ELSE client_pc[d]
    BY <1>a, <2>1 DEF ClientTypeOK
  <2>4. \A d \in Caller : client_pc'[d] \notin Inside
    BY <1>0, <2>3 DEF Inside
  <2>5. \A d \in Caller : d \in ToSet(lock') <=> client_pc'[d] # "idle"
    BY <1>a, <2>2, <2>3 DEF LockOK
  <2> QED
    BY <2>1, <2>2, <2>4, <2>5 DEF LockOK
<1>3. ParserOK'
  BY <1>a, <1>0 DEF ClientTypeOK, ParserOK, Exit, CallerAt, CallerGoto
<1>4. KindOK'
  BY <1>a, <1>0
  DEF ClientTypeOK, ClientNumbers, KindOK, Exit, CallerAt, CallerGoto
<1>5. NoticesOK'
  <2>1. client_pc[c] \in {"exit", "deleted"} /\ client_pc' = [client_pc EXCEPT ![c] = "idle"]
          /\ kind' = [kind EXCEPT ![c] = "exec"] /\ resp' = NoResp /\ lock' = Tail(lock)
          /\ parser = "wait" /\ UNCHANGED <<resp_notice, parser>>
    BY DEF Exit, CallerAt, CallerGoto
  <2>2. Notices # 2 /\ resp_notice \in Nat
    BY <1>a, <1>0, <2>1 DEF NoticesOK, ClientTypeOK
  <2>3. Notices' <= 1 /\ Notices' \in Int
    BY <1>a, <2>1, <2>2 DEF NoticesOK, Notices
  <2> QED
    BY <2>3 DEF NoticesOK
<1>6. ExchangeOK'
  <2> SUFFICES ASSUME orderly' PROVE RestOK' /\ \A d \in Caller : Exchange(d)'
    BY DEF ExchangeOK
  <2>1. ASSUME NEW d \in Caller, d # c PROVE Exchange(d)'
    <3>1. client_pc'[d] \in {"idle", "lock"}
      BY <1>a, <1>0, <2>1 DEF ClientTypeOK, Exit, CallerAt, CallerGoto
    <3> QED
      BY <3>1 DEF Exchange
  <2>2. client_pc[c] \in {"exit", "deleted"} /\ client_pc' = [client_pc EXCEPT ![c] = "idle"]
          /\ kind' = [kind EXCEPT ![c] = "exec"] /\ resp' = NoResp /\ lock' = Tail(lock)
          /\ orderly /\ UNCHANGED <<resp_notice, parser, wire, todo>>
    BY DEF Exit, CallerAt, CallerGoto
  <2>3. Closed(0) /\ resp_notice \in Nat
    BY <1>a, <2>2 DEF ExchangeOK, Exchange, ClientTypeOK
  <2>4. RestOK'
    BY <2>2, <2>3 DEF RestOK, Closed, Quiet
  <2>5. Exchange(c)'
    <3>1. client_pc'[c] = "idle"
      BY <1>a, <2>2 DEF ClientTypeOK
    <3> QED
      BY <3>1 DEF Exchange
  <2> QED
    BY <2>1, <2>4, <2>5
<1> QED
  BY <1>1, <1>2, <1>3, <1>4, <1>5, <1>6 DEF ClientInv

(* A data line is a part of the answer that is not complete. *)
LEMMA ClientServerData ==
  ASSUME ClientNumbers, ClientInv, ServerData
  PROVE  ClientInv'
<1> USE DEF client, call, exchange
<1>a. ClientTypeOK /\ LockOK /\ ParserOK /\ KindOK /\ NoticesOK /\ ExchangeOK
  BY DEF ClientInv
<1>b. todo' \in Seq([kind : Kind, data : 0 .. MaxData])
        /\ Len(todo') = Len(todo) /\ todo'[1].kind = todo[1].kind
  <2>1. 1 \in 1 .. Len(todo) /\ Head(todo) = todo[1]
    BY <1>a, HeadTailProperties, EmptySeq DEF ClientTypeOK, ServerData
  <2> DEFINE e == [todo[1] EXCEPT !.data = @ + 1]
  <2>2. todo' = [todo EXCEPT ![1] = e]
    BY DEF ServerData
  <2>3. todo[1] \in [kind : Kind, data : 0 .. MaxData]
    BY <1>a, <2>1, ElementOfSeq DEF ClientTypeOK
  <2>4. e \in [kind : Kind, data : 0 .. MaxData] /\ e.kind = todo[1].kind
    BY <2>1, <2>3 DEF ServerData, ClientNumbers
  <2> HIDE DEF e
  <2>5. /\ todo' \in Seq([kind : Kind, data : 0 .. MaxData])
        /\ Len(todo') = Len(todo) /\ todo'[1] = e
    BY <1>a, <2>1, <2>2, <2>4, ExceptSeq DEF ClientTypeOK
  <2> QED
    BY <2>4, <2>5
<1>1. ClientTypeOK'
  <2>1. wire' \in Seq({"data", "OK", "ERROR"})
    BY <1>a, AppendProperties DEF ClientTypeOK, ServerData, Arrives
  <2>2. todo' \in Seq([kind : Kind, data : 0 .. MaxData])
    BY <1>b
  <2>3. parser' \in {parser, "reset"} /\ rx_notice' \in {rx_notice, rx_notice + 1}
    BY DEF ServerData, Arrives
  <2> QED
    BY <1>a, <2>1, <2>2, <2>3 DEF ClientTypeOK, ServerData
<1>2. LockOK'
  BY <1>a DEF ClientTypeOK, LockOK, Inside, ServerData, Arrives
<1>3. ParserOK'
  <2>0. wire' = Append(wire, "data")
    BY DEF ServerData, Arrives
  <2>1. wire' # <<>>
    BY <1>a, <2>0, AppendLemma DEF ClientTypeOK
  <2>2. parser' # "wait" /\ (parser' = "take" => rx_notice' = rx_notice + 1)
    BY DEF ServerData, Arrives
  <2> QED
    BY <1>a, <2>1, <2>2 DEF ParserOK, ClientTypeOK
<1>4. KindOK'
  BY <1>a DEF ClientTypeOK, KindOK, ServerData, Arrives
<1>5. NoticesOK'
  BY <1>a DEF ClientTypeOK, NoticesOK, Notices, ServerData, Arrives
<1>6. ExchangeOK'
  <2> SUFFICES ASSUME orderly' PROVE RestOK' /\ \A d \in Caller : Exchange(d)'
    BY DEF ExchangeOK
  <2>1. orderly /\ todo # <<>> /\ ~ Quiet
    BY DEF ServerData, Quiet
  <2>2. RestOK'
    BY <1>a, <2>1 DEF ExchangeOK, RestOK, ServerData
  <2>3. ASSUME NEW d \in Caller, Open(d) PROVE Open(d)'
    <3>1. Unanswered(d)
      BY <2>1, <2>3 DEF Open, Answered
    <3>2. kind[d] # "exec_one_line" /\ parser' # "notify" /\ wire' = Append(wire, "data")
            /\ Len(todo') = Len(todo) /\ todo'[1].kind = todo[1].kind
            /\ UNCHANGED <<kind, resp, resp_notice, line_counts, answer>>
      BY <1>a, <1>b, <2>3, <3>1
      DEF Unanswered, Open, ClientTypeOK, ServerData, Arrives
    <3>3. \A i \in 1 .. Len(wire') : wire'[i] = "data"
      BY <1>a, <3>1, <3>2, AppendProperties DEF Unanswered, ClientTypeOK
    <3>4. Unanswered(d)'
      BY <2>1, <3>1, <3>2, <3>3 DEF Unanswered
    <3> QED
      BY <2>3, <3>2, <3>4 DEF Open
  <2>4. ASSUME NEW d \in Caller PROVE Exchange(d)'
    <3>1. Exchange(d) /\ UNCHANGED <<client_pc, kind, tries, resp>>
      BY <1>a, <2>1 DEF ExchangeOK, ServerData
    <3>2. client_pc[d] \in {"take", "wait"} => Open(d)'
      BY <2>1, <2>3, <3>1 DEF Exchange, Closed
    <3>3. client_pc[d] \notin {"granted", "exit", "delete", "deleted", "expired"}
      BY <2>1, <3>1 DEF Exchange, Closed
    <3> QED
      BY <3>1, <3>2, <3>3 DEF Exchange
  <2> QED
    BY <2>2, <2>4
<1> QED
  BY <1>1, <1>2, <1>3, <1>4, <1>5, <1>6 DEF ClientInv

(* The last line completes the answer to the command that waits. *)
LEMMA ClientServerEnd ==
  ASSUME ClientNumbers, ClientInv, NEW line \in {"data", "OK", "ERROR"}, ServerEnd(line)
  PROVE  ClientInv'
<1> USE DEF client, call
<1>a. ClientTypeOK /\ LockOK /\ ParserOK /\ KindOK /\ NoticesOK /\ ExchangeOK
  BY DEF ClientInv
<1>1. ClientTypeOK'
  <2>0. wire' = Append(wire, line)
    BY DEF ServerEnd, Arrives
  <2>1. wire' \in Seq({"data", "OK", "ERROR"})
    BY <1>a, <2>0, AppendProperties DEF ClientTypeOK
  <2>2. todo' \in Seq([kind : Kind, data : 0 .. MaxData])
    BY <1>a, HeadTailProperties DEF ClientTypeOK, ServerEnd
  <2>3. parser' \in {parser, "reset"} /\ rx_notice' \in {rx_notice, rx_notice + 1}
          /\ answer' \in {"none", "OK", "ERROR"}
    BY <1>a DEF ClientTypeOK, ServerEnd, Arrives
  <2> QED
    BY <1>a, <2>1, <2>2, <2>3 DEF ClientTypeOK, ServerEnd
<1>2. LockOK'
  BY <1>a DEF ClientTypeOK, LockOK, Inside, ServerEnd, Arrives
<1>3. ParserOK'
  <2>0. wire' = Append(wire, line)
    BY DEF ServerEnd, Arrives
  <2>1. wire' # <<>>
    BY <1>a, <2>0, AppendLemma DEF ClientTypeOK
  <2>2. parser' # "wait" /\ (parser' = "take" => rx_notice' = rx_notice + 1)
    BY DEF ServerEnd, Arrives
  <2> QED
    BY <1>a, <2>1, <2>2 DEF ParserOK, ClientTypeOK
<1>4. KindOK'
  BY <1>a DEF ClientTypeOK, KindOK, ServerEnd, Arrives
<1>5. NoticesOK'
  BY <1>a DEF ClientTypeOK, NoticesOK, Notices, ServerEnd, Arrives
<1>6. ExchangeOK'
  <2> SUFFICES ASSUME orderly' PROVE RestOK' /\ \A d \in Caller : Exchange(d)'
    BY DEF ExchangeOK
  <2>1. orderly /\ todo # <<>> /\ ~ Quiet
    BY DEF ServerEnd, Quiet
  <2>2. RestOK'
    BY <1>a, <2>1 DEF ExchangeOK, RestOK, ServerEnd
  <2>3. ASSUME NEW d \in Caller, Open(d) PROVE Open(d)'
    <3>1. Unanswered(d)
      BY <2>1, <2>3 DEF Open, Answered
    <3>2. Len(todo) = 1 /\ todo[1].kind = kind[d]
      <4>1. Len(todo) <= 1 /\ todo[1].kind = kind[d]
        BY <2>1, <3>1 DEF Unanswered
      <4>2. Len(todo) \in Nat \ {0}
        BY <1>a, <2>1, LenProperties, EmptySeq DEF ClientTypeOK
      <4>3. \A n \in Nat \ {0} : n <= 1 => n = 1
        OBVIOUS
      <4> QED
        BY <4>1, <4>2, <4>3, Zenon
    <3>3. todo' = Tail(todo)
      BY DEF ServerEnd
    <3>4. todo' = <<>>
      BY <1>a, <2>1, <3>2, <3>3, HeadTailProperties, EmptySeq DEF ClientTypeOK
    <3>5. answer' = Outcome(line) /\ Ends(d, line)
            /\ parser' # "notify" /\ UNCHANGED <<kind, resp, resp_notice, line_counts>>
      BY <2>3, <3>2 DEF Open, Outcome, Ends, ServerEnd, Arrives
    <3>6. Len(wire') = Len(wire) + 1 /\ wire' # <<>> /\ wire'[Len(wire')] = line
            /\ \A i \in 1 .. Len(wire) : wire'[i] = wire[i]
      <4>1. wire \in Seq({"data", "OK", "ERROR"}) /\ wire' = Append(wire, line)
        BY <1>a DEF ClientTypeOK, ServerEnd, Arrives
      <4> QED
        BY <4>1, AppendProperties
    <3>7. Len(wire) \in Nat /\ (kind[d] = "exec_one_line" => Len(wire) = 0)
            /\ \A i \in 1 .. Len(wire) : wire[i] = "data"
      BY <1>a, <3>1 DEF Unanswered, ClientTypeOK
    <3>8. /\ kind'[d] = "exec_one_line" => Len(wire') = 1
          /\ \A i \in 1 .. Len(wire') - 1 : wire'[i] = "data"
      BY <3>5, <3>6, <3>7
    <3>9. Ends(d, wire[Len(wire)])' /\ answer' = Outcome(wire[Len(wire)])'
      BY <3>5, <3>6 DEF Ends, Outcome
    <3>10. Answered(d)'
      BY <3>4, <3>6, <3>8, <3>9 DEF Answered
    <3> QED
      BY <2>3, <3>5, <3>10 DEF Open
  <2>4. ASSUME NEW d \in Caller PROVE Exchange(d)'
    <3>1. Exchange(d) /\ UNCHANGED <<client_pc, kind, tries, resp>>
      BY <1>a, <2>1 DEF ExchangeOK, ServerEnd
    <3>2. client_pc[d] \in {"take", "wait"} => Open(d)'
      BY <2>1, <2>3, <3>1 DEF Exchange, Closed
    <3>3. client_pc[d] \notin {"granted", "exit", "delete", "deleted", "expired"}
      BY <2>1, <3>1 DEF Exchange, Closed
    <3> QED
      BY <3>1, <3>2, <3>3 DEF Exchange
  <2> QED
    BY <2>2, <2>4
<1> QED
  BY <1>1, <1>2, <1>3, <1>4, <1>5, <1>6 DEF ClientInv

(* A command that is lost has no answer. *)
LEMMA ClientServerDrops ==
  ASSUME ClientNumbers, ClientInv, ServerDrops
  PROVE  ClientInv'
<1> USE DEF client, call, receiver, exchange
<1>a. ClientTypeOK /\ LockOK /\ ParserOK /\ KindOK /\ NoticesOK /\ ExchangeOK
  BY DEF ClientInv
<1>1. ClientTypeOK'
  BY <1>a DEF ClientTypeOK, ServerDrops
<1>2. LockOK'
  BY <1>a DEF ClientTypeOK, LockOK, Inside, ServerDrops
<1>3. ParserOK'
  BY <1>a DEF ClientTypeOK, ParserOK, ServerDrops
<1>4. KindOK'
  BY <1>a DEF ClientTypeOK, KindOK, ServerDrops
<1>5. NoticesOK'
  BY <1>a DEF ClientTypeOK, NoticesOK, Notices, ServerDrops
<1>6. ExchangeOK'
  <2> SUFFICES ASSUME orderly' PROVE RestOK' /\ \A d \in Caller : Exchange(d)'
    BY DEF ExchangeOK
  <2>1. orderly /\ todo # <<>> /\ ~ Quiet
    BY DEF ServerDrops, Quiet
  <2>2. RestOK'
    BY <1>a, <2>1 DEF ExchangeOK, RestOK, ServerDrops
  <2>3. ASSUME NEW d \in Caller, Open(d) PROVE Open(d)'
    <3>1. Unanswered(d)
      BY <2>1, <2>3 DEF Open, Answered
    <3>2. todo' = <<>> /\ UNCHANGED <<kind, resp, resp_notice, line_counts, parser, wire, answer>>
      BY <1>a, <2>1, <3>1 DEF Unanswered, ClientTypeOK, ServerDrops
    <3>3. Unanswered(d)'
      BY <3>1, <3>2 DEF Unanswered
    <3> QED
      BY <2>3, <3>2, <3>3 DEF Open
  <2>4. ASSUME NEW d \in Caller PROVE Exchange(d)'
    <3>1. Exchange(d) /\ UNCHANGED <<client_pc, kind, tries, resp>>
      BY <1>a, <2>1 DEF ExchangeOK, ServerDrops
    <3>2. client_pc[d] \in {"take", "wait"} => Open(d)'
      BY <2>1, <2>3, <3>1 DEF Exchange, Closed
    <3>3. client_pc[d] \notin {"granted", "exit", "delete", "deleted", "expired"}
      BY <2>1, <3>1 DEF Exchange, Closed
    <3> QED
      BY <3>1, <3>2, <3>3 DEF Exchange
  <2> QED
    BY <2>2, <2>4
<1> QED
  BY <1>1, <1>2, <1>3, <1>4, <1>5, <1>6 DEF ClientInv

(* The parser goes to sleep only after it has looked for lines. *)
LEMMA ClientRead ==
  ASSUME ClientNumbers, ClientInv, Read
  PROVE  ClientInv'
<1> USE DEF client, call, exchange
<1>a. ClientTypeOK /\ LockOK /\ ParserOK /\ KindOK /\ NoticesOK /\ ExchangeOK
  BY DEF ClientInv
<1>1. ClientTypeOK'
  BY <1>a DEF ClientTypeOK, Read, Step
<1>2. LockOK'
  BY <1>a DEF ClientTypeOK, LockOK, Inside, Read, Step
<1>3. ParserOK'
  BY <1>a DEF ClientTypeOK, ParserOK, Read, Step
<1>4. KindOK'
  BY <1>a DEF ClientTypeOK, KindOK, Read, Step
<1>5. NoticesOK'
  BY <1>a DEF ClientTypeOK, NoticesOK, Notices, Read, Step
<1>6. ExchangeOK'
  <2> SUFFICES ASSUME orderly' PROVE RestOK' /\ \A d \in Caller : Exchange(d)'
    BY DEF ExchangeOK
  <2>1. orderly /\ parser # "notify" /\ parser' # "notify"
          /\ UNCHANGED <<client_pc, kind, resp, resp_status, resp_notice, line_counts, tries,
                         result, wire, todo, answer>>
    BY DEF Read, Step
  <2>2. \A d \in Caller : Exchange(d)'
    BY <1>a, <2>1, ExchangeFrame DEF ExchangeOK
  <2>3. RestOK'
    BY <1>a, <2>1 DEF ExchangeOK, RestOK, Quiet
  <2> QED
    BY <2>2, <2>3
<1> QED
  BY <1>1, <1>2, <1>3, <1>4, <1>5, <1>6 DEF ClientInv

(* The parser sleeps if no interrupt has come since it looked. *)
LEMMA ClientTakeRx ==
  ASSUME ClientNumbers, ClientInv, TakeRx
  PROVE  ClientInv'
<1> USE DEF client, call, exchange
<1>a. ClientTypeOK /\ LockOK /\ ParserOK /\ KindOK /\ NoticesOK /\ ExchangeOK
  BY DEF ClientInv
<1>1. ClientTypeOK'
  BY <1>a DEF ClientTypeOK, TakeRx, Step
<1>2. LockOK'
  BY <1>a DEF ClientTypeOK, LockOK, Inside, TakeRx, Step
<1>3. ParserOK'
  BY <1>a DEF ClientTypeOK, ParserOK, TakeRx, Step
<1>4. KindOK'
  BY <1>a DEF ClientTypeOK, KindOK, TakeRx, Step
<1>5. NoticesOK'
  BY <1>a DEF ClientTypeOK, NoticesOK, Notices, TakeRx, Step
<1>6. ExchangeOK'
  <2> SUFFICES ASSUME orderly' PROVE RestOK' /\ \A d \in Caller : Exchange(d)'
    BY DEF ExchangeOK
  <2>1. orderly /\ parser # "notify" /\ parser' # "notify"
          /\ UNCHANGED <<client_pc, kind, resp, resp_status, resp_notice, line_counts, tries,
                         result, wire, todo, answer>>
    BY DEF TakeRx, Step
  <2>2. \A d \in Caller : Exchange(d)'
    BY <1>a, <2>1, ExchangeFrame DEF ExchangeOK
  <2>3. RestOK'
    BY <1>a, <2>1 DEF ExchangeOK, RestOK, Quiet
  <2> QED
    BY <2>2, <2>3
<1> QED
  BY <1>1, <1>2, <1>3, <1>4, <1>5, <1>6 DEF ClientInv

(* After a reset the parser looks for lines again. *)
LEMMA ClientResetRx ==
  ASSUME ClientNumbers, ClientInv, ResetRx
  PROVE  ClientInv'
<1> USE DEF client, call, exchange
<1>a. ClientTypeOK /\ LockOK /\ ParserOK /\ KindOK /\ NoticesOK /\ ExchangeOK
  BY DEF ClientInv
<1>1. ClientTypeOK'
  BY <1>a DEF ClientTypeOK, ResetRx, Step
<1>2. LockOK'
  BY <1>a DEF ClientTypeOK, LockOK, Inside, ResetRx, Step
<1>3. ParserOK'
  BY <1>a DEF ClientTypeOK, ParserOK, ResetRx, Step
<1>4. KindOK'
  BY <1>a DEF ClientTypeOK, KindOK, ResetRx, Step
<1>5. NoticesOK'
  BY <1>a DEF ClientTypeOK, NoticesOK, Notices, ResetRx, Step
<1>6. ExchangeOK'
  <2> SUFFICES ASSUME orderly' PROVE RestOK' /\ \A d \in Caller : Exchange(d)'
    BY DEF ExchangeOK
  <2>1. orderly /\ parser # "notify" /\ parser' # "notify"
          /\ UNCHANGED <<client_pc, kind, resp, resp_status, resp_notice, line_counts, tries,
                         result, wire, todo, answer>>
    BY DEF ResetRx, Step
  <2>2. \A d \in Caller : Exchange(d)'
    BY <1>a, <2>1, ExchangeFrame DEF ExchangeOK
  <2>3. RestOK'
    BY <1>a, <2>1 DEF ExchangeOK, RestOK, Quiet
  <2> QED
    BY <2>2, <2>3
<1> QED
  BY <1>1, <1>2, <1>3, <1>4, <1>5, <1>6 DEF ClientInv

(* The line in hand goes to the command that waits, and its last one completes it. *)
LEMMA ClientHandle ==
  ASSUME ClientNumbers, ClientInv, Handle
  PROVE  ClientInv'
<1>a. ClientTypeOK /\ LockOK /\ ParserOK /\ KindOK /\ NoticesOK /\ ExchangeOK
  BY DEF ClientInv
<1>1. ClientTypeOK'
  <2>1. wire # <<>> /\ wire' = Tail(wire)
    BY <1>a DEF ParserOK, Handle
  <2>2. wire' \in Seq({"data", "OK", "ERROR"})
    BY <1>a, <2>1, HeadTailProperties DEF ClientTypeOK
  <2>3. Stored \in 0 .. BufLines
    BY <1>a DEF Stored, ClientTypeOK, ClientNumbers
  <2>4. EndStatus(resp, Head(wire)) \in {"OK", "ERROR", "none"}
    BY DEF EndStatus
  <2>5. line_counts' \in 0 .. BufLines /\ resp' \in {resp, NoResp}
          /\ parser' \in {"read", "notify"}
          /\ resp_status' \in {resp_status, "OK", "ERROR", "BUFF_FULL"}
    BY <1>a, <2>3, <2>4 DEF ClientTypeOK, Handle
  <2>6. UNCHANGED <<lock, resp_notice, client_pc, kind, tries, result, rx_notice, todo,
                    cmds, answer, orderly>>
    BY DEF Handle
  <2> QED
    BY <1>a, <2>2, <2>5, <2>6 DEF ClientTypeOK
<1>2. LockOK'
  <2>1. resp' \in {resp, NoResp} /\ UNCHANGED <<lock, client_pc>>
    BY DEF Handle
  <2> QED
    BY <1>a, <2>1 DEF LockOK
<1>3. ParserOK'
  BY <1>a DEF ParserOK, Handle
<1>4. KindOK'
  <2>1. resp' \in {resp, NoResp} /\ UNCHANGED <<kind, tries, client_pc>>
    BY DEF Handle
  <2> QED
    BY <1>a, <2>1 DEF KindOK, ClientNumbers
<1>5. NoticesOK'
  <2>1. parser = "handle" /\ UNCHANGED <<resp_notice, client_pc, kind, tries>>
          /\ \/ parser' = "read" /\ resp' = resp
             \/ parser' = "notify" /\ resp # NoResp /\ resp' = NoResp
    BY DEF Handle
  <2>2. Notices' = Notices
    BY <1>a, <2>1 DEF Notices, ClientTypeOK
  <2> QED
    BY <1>a, <2>1, <2>2 DEF NoticesOK
<1>6. ExchangeOK'
  <2> SUFFICES ASSUME orderly' PROVE RestOK' /\ \A d \in Caller : Exchange(d)'
    BY DEF ExchangeOK
  <2>1. wire # <<>> /\ wire' = Tail(wire) /\ ~ Quiet /\ orderly /\ parser = "handle"
          /\ UNCHANGED <<client_pc, kind, resp_notice, tries, todo, answer>>
    BY <1>a DEF ParserOK, Handle, Quiet
  <2>2. Len(wire) \in Nat \ {0} /\ Head(wire) = wire[1] /\ Len(wire') = Len(wire) - 1
          /\ \A i \in 1 .. Len(wire) - 1 : wire'[i] = wire[i + 1]
    BY <1>a, <2>1, HeadTailProperties, EmptySeq DEF ClientTypeOK
  <2>3. RestOK'
    BY <1>a, <2>1 DEF ExchangeOK, RestOK
  <2>4. ASSUME NEW d \in Caller, Open(d), kind[d] # "exec_one_line", wire[1] = "data"
        PROVE  resp' = d /\ parser' = "read"
    <3>1. EndStatus(resp, Head(wire)) = "none"
      BY <2>2, <2>4 DEF Open, EndStatus, line_num
    <3> QED
      BY <2>4, <3>1 DEF Open, Handle, ClientNumbers
  <2>5. ASSUME NEW d \in Caller, Open(d), Unanswered(d) PROVE Open(d)'
    <3>1. kind[d] # "exec_one_line" /\ wire[1] = "data"
      BY <2>1, <2>2, <2>5 DEF Unanswered
    <3>2. resp' = d /\ parser' = "read"
      BY <2>4, <2>5, <3>1
    <3>3. \A i \in 1 .. Len(wire') : wire'[i] = "data"
      BY <2>2, <2>5 DEF Unanswered
    <3>4. Unanswered(d)'
      BY <2>1, <2>5, <3>1, <3>3 DEF Unanswered
    <3> QED
      BY <2>1, <2>5, <3>1, <3>2, <3>4 DEF Open
  <2>6. ASSUME NEW d \in Caller, Open(d), Answered(d), Len(wire) > 1 PROVE Open(d)'
    <3>1. kind[d] # "exec_one_line" /\ wire[1] = "data"
      BY <2>2, <2>6 DEF Answered
    <3>2. resp' = d /\ parser' = "read"
      BY <2>4, <2>6, <3>1
    <3>3. /\ wire' # <<>> /\ wire'[Len(wire')] = wire[Len(wire)]
          /\ \A i \in 1 .. Len(wire') - 1 : wire'[i] = "data"
      BY <2>2, <2>6 DEF Answered
    <3>4. Answered(d)'
      BY <2>1, <2>6, <3>1, <3>3 DEF Answered, Ends, Outcome
    <3> QED
      BY <2>1, <2>6, <3>1, <3>2, <3>4 DEF Open
  <2>7. ASSUME NEW d \in Caller, Open(d), Answered(d), Len(wire) = 1
        PROVE  Closed(1)' /\ parser' = "notify"
    <3>1. Ends(d, wire[1]) /\ answer = Outcome(wire[1]) /\ todo = <<>> /\ resp = d
            /\ (kind[d] = "exec_one_line" => line_counts = 0) /\ resp_notice = 0
            /\ wire[1] \in {"data", "OK", "ERROR"}
      BY <1>a, <2>2, <2>7 DEF Answered, Open, ClientTypeOK
    <3>2. kind[d] = "exec_one_line" => Stored = 1
      BY <3>1 DEF Stored, ClientNumbers
    <3>3. EndStatus(resp, Head(wire)) = answer /\ answer # "none"
      BY <2>2, <3>1, <3>2 DEF EndStatus, line_num, Ends, Outcome
    <3>4. resp' = NoResp /\ parser' = "notify" /\ resp_status' = answer
      BY <3>1, <3>3 DEF Handle, ClientNumbers
    <3>5. wire' = <<>>
      BY <1>a, <2>1, <2>2, <2>7, HeadTailProperties, EmptySeq DEF ClientTypeOK
    <3> QED
      BY <2>1, <3>1, <3>3, <3>4, <3>5 DEF Closed, Quiet
  <2>8. ASSUME NEW d \in Caller PROVE Exchange(d)'
    <3>1. Exchange(d)
      BY <1>a, <2>1 DEF ExchangeOK
    <3>2. client_pc[d] \in {"take", "wait"} => Open(d)
      BY <2>1, <3>1 DEF Exchange, Closed
    <3>3. client_pc[d] \notin {"granted", "exit", "delete", "deleted", "expired"}
      BY <2>1, <3>1 DEF Exchange, Closed
    <3>4. client_pc[d] # "send"
      <4>1. SUFFICES ASSUME client_pc[d] = "send" PROVE FALSE
        OBVIOUS
      <4>2. \A e \in Caller : client_pc[e] \in {"idle", "lock", "send"}
        BY <1>a, <4>1, Holder DEF Inside
      <4> QED
        BY <1>a, <2>1, <4>2 DEF ExchangeOK, RestOK
    <3>5. Open(d) => Open(d)' \/ (Closed(1)' /\ parser' = "notify")
      BY <2>2, <2>5, <2>6, <2>7 DEF Open
    <3> QED
      BY <2>1, <3>2, <3>3, <3>4, <3>5 DEF Exchange
  <2> QED
    BY <2>3, <2>8
<1> QED
  BY <1>1, <1>2, <1>3, <1>4, <1>5, <1>6 DEF ClientInv

(* The notice goes to the owner of the lock, which waits or is about to. *)
LEMMA ClientNotify ==
  ASSUME ClientNumbers, ClientInv, Notify
  PROVE  ClientInv'
<1> USE DEF exchange
<1>a. ClientTypeOK /\ LockOK /\ ParserOK /\ KindOK /\ NoticesOK /\ ExchangeOK
  BY DEF ClientInv
<1>1. ClientTypeOK'
  BY <1>a DEF ClientTypeOK, Notify, Step
<1>2. LockOK'
  BY <1>a DEF ClientTypeOK, LockOK, Inside, Notify, Step
<1>3. ParserOK'
  BY <1>a DEF ClientTypeOK, ParserOK, Notify, Step
<1>4. KindOK'
  BY <1>a DEF ClientTypeOK, KindOK, Notify, Step
<1>5. NoticesOK'
  <2>1. parser = "notify" /\ parser' = "read" /\ resp_notice \in Nat
          /\ UNCHANGED <<resp, kind, tries>>
    BY <1>a DEF Notify, Step, ClientTypeOK
  <2>2. CASE \E c \in Caller : client_pc[c] = "wait"
    <3>1. resp_notice' = resp_notice
      BY <2>2 DEF Notify
    <3>2. Notices' <= 1 /\ Notices' \in Int
      BY <1>a, <2>1, <3>1 DEF NoticesOK, Notices
    <3> QED
      BY <3>2 DEF NoticesOK
  <2>3. CASE ~ \E c \in Caller : client_pc[c] = "wait"
    <3>1. resp_notice' = resp_notice + 1 /\ client_pc' = client_pc
      BY <2>3 DEF Notify
    <3>2. Notices' = Notices
      BY <2>1, <3>1 DEF Notices
    <3> QED
      BY <1>a, <2>1, <3>1, <3>2 DEF NoticesOK
  <2> QED
    BY <2>2, <2>3
<1>6. ExchangeOK'
  <2> SUFFICES ASSUME orderly' PROVE RestOK' /\ \A d \in Caller : Exchange(d)'
    BY DEF ExchangeOK
  <2>1. parser = "notify" /\ parser' = "read" /\ resp_notice \in Nat /\ orderly
          /\ UNCHANGED <<resp, resp_status, kind, tries, wire, todo, answer>>
    BY <1>a DEF Notify, Step, ClientTypeOK
  <2>2. \A d \in Caller : client_pc'[d] = IF client_pc[d] = "wait" THEN "granted" ELSE client_pc[d]
    BY <1>a DEF Notify, ClientTypeOK
  <2>3. RestOK'
    <3>1. (\A d \in Caller : client_pc'[d] \in {"idle", "lock", "send"}) =>
            \A d \in Caller : client_pc[d] \in {"idle", "lock", "send"}
      BY <2>2
    <3> QED
      BY <1>a, <2>1, <3>1 DEF ExchangeOK, RestOK
  <2>4. ASSUME NEW d \in Caller, client_pc[d] \in Inside PROVE Exchange(d)'
    <3>1. Exchange(d)
      BY <1>a, <2>1 DEF ExchangeOK
    <3>2. \A e \in Caller : e # d => client_pc[e] \in {"idle", "lock"}
      BY <1>a, <2>4, Holder
    <3>3. client_pc[d] # "send"
      BY <1>a, <2>1, <3>2 DEF ExchangeOK, RestOK
    <3>4. client_pc[d] \in {"take", "wait"} /\ Closed(1) /\ resp_notice = 0
      BY <2>1, <2>4, <3>1, <3>3 DEF Exchange, Closed, Open, Inside
    <3>5. CASE client_pc[d] = "wait"
      <4>1. resp_notice' = resp_notice /\ client_pc'[d] = "granted"
        BY <2>2, <3>5 DEF Notify
      <4>2. Closed(0)'
        BY <2>1, <3>4, <4>1 DEF Closed, Quiet
      <4> QED
        BY <4>1, <4>2 DEF Exchange
    <3>6. CASE client_pc[d] = "take"
      <4>1. resp_notice' = resp_notice + 1 /\ client_pc'[d] = "take"
        BY <2>2, <3>2, <3>6 DEF Notify
      <4>2. Closed(1)'
        BY <2>1, <3>4, <4>1 DEF Closed, Quiet
      <4> QED
        BY <4>1, <4>2 DEF Exchange
    <3> QED
      BY <3>4, <3>5, <3>6
  <2>5. ASSUME NEW d \in Caller, client_pc[d] \notin Inside PROVE Exchange(d)'
    <3>1. client_pc'[d] \in {"idle", "lock"}
      BY <1>a, <2>2, <2>5 DEF Inside, ClientTypeOK
    <3> QED
      BY <3>1 DEF Exchange
  <2> QED
    BY <2>3, <2>4, <2>5
<1> QED
  BY <1>1, <1>2, <1>3, <1>4, <1>5, <1>6 DEF ClientInv

(* The proofs cite the bounds as ClientNumbers. *)
LEMMA ClientBoundsUsed == ClientNumbers
BY AtClientAssumption DEF ClientNumbers

(* Init: no call and no exchange. *)
LEMMA ClientStarts ==
  ASSUME ClientNumbers, ClientInit PROVE ClientInv
<1> USE DEF ClientInit
<1>1. ClientTypeOK
  BY DEF ClientTypeOK, Kind, ClientNumbers
<1>2. LockOK
  <2>1. IsInjective(lock) /\ ToSet(lock) = {}
    BY DEF IsInjective, ToSet
  <2> QED
    BY <2>1 DEF LockOK, Inside
<1>3. ParserOK /\ KindOK
  BY DEF ParserOK, KindOK, ClientNumbers
<1>4. NoticesOK
  <2>1. Notices = 0
    BY DEF Notices
  <2> QED
    BY <2>1 DEF NoticesOK
<1>5. ExchangeOK
  BY DEF ExchangeOK, RestOK, Quiet, Exchange
<1> QED
  BY <1>1, <1>2, <1>3, <1>4, <1>5 DEF ClientInv

(* Every step of a caller, the parser or the server keeps the invariant. *)
LEMMA ClientStep ==
  ASSUME ClientNumbers, ClientInv, ClientNext PROVE ClientInv'
<1>1. ASSUME NEW c \in Caller, Continue(c) PROVE ClientInv'
  BY <1>1, ClientSetup, ClientSend, ClientTake, ClientCheck, ClientConnectCheck,
     ClientGiveUp, ClientDelete, ClientExit DEF Continue
<1>2. ASSUME NEW c \in Caller, Expires(c) PROVE ClientInv'
  BY <1>2, ClientExpires
<1>3. ASSUME NEW c \in Caller, NEW k \in Kind, Begin(c, k) PROVE ClientInv'
  BY <1>3, ClientBegin
<1>4. ASSUME Parser PROVE ClientInv'
  BY <1>4, ClientRead, ClientTakeRx, ClientResetRx, ClientHandle, ClientNotify
  DEF Parser
<1>5. ASSUME Server PROVE ClientInv'
  BY <1>5, ClientServerData, ClientServerEnd, ClientServerDrops DEF Server
<1> QED
  BY <1>1, <1>2, <1>3, <1>4, <1>5 DEF ClientNext

(* The invariant speaks of the variables of the client only. *)
LEMMA ClientStutter ==
  ASSUME ClientInv, UNCHANGED client_vars PROVE ClientInv'
<1> USE DEF client_vars, client, call, receiver, exchange
<1>1. ClientTypeOK' /\ LockOK' /\ ParserOK' /\ KindOK'
  BY DEF ClientInv, ClientTypeOK, LockOK, ParserOK, KindOK
<1>2. NoticesOK'
  BY DEF ClientInv, NoticesOK, Notices
<1>3. ExchangeOK'
  <2>1. \A c \in Caller : Exchange(c) => Exchange(c)'
    BY ExchangeFrame
  <2> QED
    BY <2>1 DEF ClientInv, ExchangeOK, RestOK, Quiet
<1> QED
  BY <1>1, <1>2, <1>3 DEF ClientInv

(* The client's invariant is inductive. *)
THEOREM ClientInvariance == ClientSpec => []ClientInv
<1>1. ClientNumbers
  BY ClientBoundsUsed
<1>2. ClientInit => ClientInv
  BY <1>1, ClientStarts
<1>3. ClientInv /\ [ClientNext]_client_vars => ClientInv'
  BY <1>1, ClientStep, ClientStutter
<1> QED
  BY <1>2, <1>3, PTL DEF ClientSpec

(* client->resp is the response object of the call that holds client->lock: *)
(* the parser never stores a line in an object that has been given back.    *)
THEOREM RespBelongsToOwner == ClientSpec => []RespOfOwner
<1>1. ClientInv => RespOfOwner
  BY DEF ClientInv, LockOK, Inside, RespOfOwner
<1> QED
  BY <1>1, ClientInvariance, PTL

(* The parser never waits for client->rx_notice while a line is there.      *)
THEOREM ParserMissesNoLine == ClientSpec => []NoLineMissed
<1>1. ClientInv => NoLineMissed
  BY DEF ClientInv, ParserOK, NoLineMissed
<1> QED
  BY <1>1, ClientInvariance, PTL

(* As long as no call has run out of time or sent a command without a       *)
(* response object, every call returns the end of its own answer.           *)
THEOREM OrderlyCallsAnswered == ClientSpec => []OrderlyAnswers
<1>1. ClientInv => OrderlyAnswers
  BY DEF ClientInv, ExchangeOK, Exchange, Closed, OrderlyAnswers
<1> QED
  BY <1>1, ClientInvariance, PTL

(* The notices left over are bounded: one between two calls, none as long   *)
(* as the exchange is orderly.                                              *)
THEOREM NoticesAccountedFor == ClientSpec => []NoticeAccounted
<1>1. ASSUME ClientInv PROVE NoticeAccounted
  <2> USE DEF ClientInv
  <2>1. resp_notice \in Nat /\ resp_notice <= Notices
    BY <1>1 DEF Notices, ClientTypeOK
  <2>2. lock = <<>> => \A c \in Caller : client_pc[c] = "idle"
    BY <1>1, EmptyToSet DEF LockOK, ClientTypeOK
  <2>3. lock = <<>> => Notices # 2
    BY <1>1, <2>2 DEF NoticesOK
  <2>4. lock = <<>> /\ orderly => resp_notice = 0
    BY <1>1, <2>2 DEF ExchangeOK, RestOK
  <2>5. Notices \in Int
    BY <1>1 DEF Notices, ClientTypeOK
  <2> QED
    BY <1>1, <2>1, <2>3, <2>4, <2>5 DEF NoticesOK, NoticeAccounted
<1> QED
  BY <1>1, ClientInvariance, PTL

(***************************************************************************)
(* The timers, for any timers, times and tick length.                      *)
(***************************************************************************)
TimerEntry ==
  [timer : Timer, timeout_tick : 0 .. RT_TICK_MAX, left : -1 .. Half - 1]

TimersOf(l) == {l[i].timer : i \in 1 .. Len(l)}

(* l has every timer once at most, the earlier ones first, and timeout_tick *)
(* says where, seen from tick now, the time that is left ends.              *)
TimerQueue(l, now) ==
  /\ l \in Seq(TimerEntry)
  /\ \A i, j \in 1 .. Len(l) :
       i < j => l[i].timer # l[j].timer /\ l[i].left <= l[j].left
  /\ \A i \in 1 .. Len(l) :
       l[i].timeout_tick = (now + l[i].left) % (RT_TICK_MAX + 1)

(* what the proofs use of the bounds *)
TimerBounds ==
  /\ RT_TICK_MAX \in Nat /\ Half \in Nat /\ Half > 1
  /\ 2 * Half <= RT_TICK_MAX
  /\ InitTick \subseteq 0 .. Half - 1 /\ InitTick # {}
  /\ NoTimer \notin Timer

(* A tick is less than half of the range, as rt_timer_start asserts. *)
LEMMA TimerBoundsUsed == TimerBounds
<1>1. \A m \in Nat : m >= 4 => m \div 2 \in Nat /\ m \div 2 > 1 /\ 2 * (m \div 2) <= m
  OBVIOUS
<1>2. QED
  BY <1>1, TimersAssumption DEF Half, TimerBounds

(* Unsigned arithmetic, for sums and differences of ticks *)
LEMMA ModLemma ==
  ASSUME NEW n \in Nat \ {0}, NEW a \in -n .. 2 * n - 1
  PROVE  a % n = IF a < 0 THEN a + n ELSE IF a < n THEN a ELSE a - n
<1>1. a < 0 => a % n = a + n
  OBVIOUS
<1>2. a >= 0 /\ a < n => a % n = a
  OBVIOUS
<1>3. a >= n => a % n = a - n
  OBVIOUS
<1>4. QED
  BY <1>1, <1>2, <1>3

(* Where a time ends on the circle of n ticks *)
LEMMA EndLemma ==
  ASSUME NEW n \in Nat, NEW h \in Nat, 1 < h, 2 * h < n,
         NEW now \in 0 .. n - 1, NEW a \in -1 .. h - 1
  PROVE  /\ (now + a) % n \in 0 .. n - 1
         /\ (now + a) % n \in {now + a, now + a - n, now + a + n}
<1> DEFINE x == now + a
<1>1. n \in Nat \ {0} /\ x \in -n .. 2 * n - 1
  OBVIOUS
<1> HIDE DEF x
<1>2. x % n = IF x < 0 THEN x + n ELSE IF x < n THEN x ELSE x - n
  BY <1>1, ModLemma
<1>3. QED
  BY <1>1, <1>2 DEF x

(* The distance of two places on the circle *)
LEMMA MinusLemma ==
  ASSUME NEW n \in Nat \ {0}, NEW x \in 0 .. n - 1, NEW y \in 0 .. n - 1
  PROVE  (x - y) % n = IF x < y THEN x - y + n ELSE x - y
<1> DEFINE d == x - y
<1>1. d \in -n .. 2 * n - 1 /\ (d < 0 <=> x < y) /\ d < n
  OBVIOUS
<1> HIDE DEF d
<1>2. d % n = IF d < 0 THEN d + n ELSE IF d < n THEN d ELSE d - n
  BY <1>1, ModLemma
<1>3. QED
  BY <1>1, <1>2 DEF d

(* The comparison of rt_timer_start tells the later timer from the others,  *)
(* wherever the tick wraps around.                                          *)
LEMMA LaterLemma ==
  ASSUME NEW n \in Nat, NEW h \in Nat, 1 < h, 2 * h < n,
         NEW now \in 0 .. n - 1, NEW a \in -1 .. h - 1, NEW b \in 0 .. h - 1
  PROVE  (((now + a) % n) - ((now + b) % n)) % n \in 1 .. h - 1 <=> a > b
<1> DEFINE x == (now + a) % n
           y == (now + b) % n
<1>1. x \in 0 .. n - 1 /\ x \in {now + a, now + a - n, now + a + n}
  BY EndLemma
<1>2. y \in 0 .. n - 1 /\ y \in {now + b, now + b - n, now + b + n}
  <2>1. b \in -1 .. h - 1
    OBVIOUS
  <2>2. QED
    BY <2>1, EndLemma
<1> HIDE DEF x, y
<1>3. (x - y) % n = IF x < y THEN x - y + n ELSE x - y
  BY <1>1, <1>2, MinusLemma
<1> DEFINE d == (x - y) % n
<1> HIDE DEF d
<1>4. d = IF x < y THEN x - y + n ELSE x - y
  BY <1>3 DEF d
<1>5. d \in 1 .. h - 1 <=> a > b
  BY <1>1, <1>2, <1>4
<1>6. QED
  BY <1>5 DEF x, y, d

(* So does the one of rt_timer_check for a timer that is due. *)
LEMMA DueLemma ==
  ASSUME NEW n \in Nat, NEW h \in Nat, 1 < h, 2 * h < n,
         NEW now \in 0 .. n - 1, NEW a \in -1 .. h - 1
  PROVE  (now - ((now + a) % n)) % n < h <=> a <= 0
<1> DEFINE x == (now + a) % n
<1>1. x \in 0 .. n - 1 /\ x \in {now + a, now + a - n, now + a + n}
  BY EndLemma
<1> HIDE DEF x
<1>2. (now - x) % n = IF now < x THEN now - x + n ELSE now - x
  BY <1>1, MinusLemma
<1> DEFINE d == (now - x) % n
<1> HIDE DEF d
<1>3. d = IF now < x THEN now - x + n ELSE now - x
  BY <1>2 DEF d
<1>4. d < h <=> a <= 0
  BY <1>1, <1>3
<1>5. QED
  BY <1>4 DEF x, d

(* A tick later a time ends where it did. *)
LEMMA TickLemma ==
  ASSUME NEW n \in Nat, NEW h \in Nat, 1 < h, 2 * h < n,
         NEW now \in 0 .. n - 1, NEW a \in 0 .. h - 1
  PROVE  /\ (now + 1) % n \in 0 .. n - 1
         /\ (((now + 1) % n) + (a - 1)) % n = (now + a) % n
<1> DEFINE x == (now + 1) % n
           y == (now + a) % n
           b == a - 1
           z == (x + b) % n
<1>1. x \in 0 .. n - 1 /\ x \in {now + 1, now + 1 - n, now + 1 + n}
  <2>1. 1 \in -1 .. h - 1
    OBVIOUS
  <2>2. QED
    BY <2>1, EndLemma
<1>2. y \in 0 .. n - 1 /\ y \in {now + a, now + a - n, now + a + n}
  <2>1. a \in -1 .. h - 1
    OBVIOUS
  <2>2. QED
    BY <2>1, EndLemma
<1> HIDE DEF x, y
<1>3. b \in -1 .. h - 1 /\ b = a - 1
  OBVIOUS
<1> HIDE DEF b
<1>4. z \in 0 .. n - 1 /\ z \in {x + b, x + b - n, x + b + n}
  BY <1>1, <1>3, EndLemma
<1> HIDE DEF z
<1>5. z = y
  BY <1>1, <1>2, <1>3, <1>4
<1>6. QED
  BY <1>1, <1>5 DEF x, y, z, b

(* The entries of a queue *)
LEMMA TimerQueueFacts ==
  ASSUME NEW now, NEW l, TimerQueue(l, now)
  PROVE  /\ Len(l) \in Nat /\ DOMAIN l = 1 .. Len(l)
         /\ \A i \in 1 .. Len(l) : /\ l[i] \in TimerEntry /\ l[i].timer \in Timer
                                   /\ l[i].left \in -1 .. Half - 1
         /\ TimersOf(l) \subseteq Timer
<1>1. l \in Seq(TimerEntry)
  BY DEF TimerQueue
<1>2. Len(l) \in Nat /\ DOMAIN l = 1 .. Len(l) /\ \A i \in 1 .. Len(l) : l[i] \in TimerEntry
  BY <1>1, LenProperties, ElementOfSeq
<1>3. \A e \in TimerEntry : e.timer \in Timer /\ e.left \in -1 .. Half - 1
  BY DEF TimerEntry
<1>4. QED
  BY <1>2, <1>3 DEF TimersOf

(* A timer is taken out of the list without a change to the others. *)
LEMMA WithoutLemma ==
  ASSUME NEW now, NEW l, TimerQueue(l, now), NEW t
  PROVE  LET r == Without(l, t)
         IN  /\ TimerQueue(r, now)
             /\ TimersOf(r) = TimersOf(l) \ {t}
             /\ \A i \in 1 .. Len(r) : \E j \in 1 .. Len(l) : r[i] = l[j]
<1> DEFINE r == Without(l, t)
           I == {i \in 1 .. Len(l) : l[i].timer = t}
<1>0. /\ l \in Seq(TimerEntry) /\ Len(l) \in Nat
      /\ \A i, j \in 1 .. Len(l) :
           i < j => l[i].timer # l[j].timer /\ l[i].left <= l[j].left
      /\ \A i \in 1 .. Len(l) :
           l[i].timeout_tick = (now + l[i].left) % (RT_TICK_MAX + 1)
  BY TimerQueueFacts DEF TimerQueue
<1>1. r = IF I # {} THEN RemoveAt(l, Min(I)) ELSE l
  <2>1. I # {} <=> \E i \in 1 .. Len(l) : l[i].timer = t
    OBVIOUS
  <2>2. SelectInSeq(l, LAMBDA e : e.timer = t) = IF I # {} THEN Min(I) ELSE 0
    BY DEF SelectInSeq
  <2>3. r = IF \E i \in 1 .. Len(l) : l[i].timer = t
            THEN RemoveAt(l, SelectInSeq(l, LAMBDA e : e.timer = t)) ELSE l
    BY DEF Without, RemoveFirstMatch
  <2> HIDE DEF I, r
  <2>4. QED
    BY <2>1, <2>2, <2>3
<1> HIDE DEF r
<1>2. CASE I = {}
  <2>1. r = l /\ t \notin TimersOf(l)
    BY <1>1, <1>2 DEF TimersOf
  <2>2. QED
    BY <2>1 DEF r
<1>3. CASE I # {}
  <2> DEFINE n == Min(I)
  <2>1. n \in I
    <3>1. I \in SUBSET (0 .. Len(l))
      BY <1>0
    <3> HIDE DEF I
    <3>2. QED
      BY <1>0, <1>3, <3>1, MinLemma
  <2>2. n \in 1 .. Len(l) /\ l[n].timer = t
    BY <2>1
  <2> HIDE DEF n
  <2>3. r = RemoveAt(l, n)
    BY <1>1, <1>3 DEF n
  <2>4. /\ r \in Seq(TimerEntry) /\ Len(r) = Len(l) - 1
        /\ \A j \in 1 .. Len(l) - 1 : r[j] = IF j < n THEN l[j] ELSE l[j + 1]
    BY <1>0, <2>2, <2>3, RemoveAtPlaces
  <2> DEFINE from(j) == IF j < n THEN j ELSE j + 1
  <2>5. \A j \in 1 .. Len(r) : /\ from(j) \in 1 .. Len(l) /\ r[j] = l[from(j)] /\ from(j) # n
                               /\ \A i \in 1 .. Len(r) : i < j => from(i) < from(j)
    BY <1>0, <2>2, <2>4
  <2>6. \A i \in 1 .. Len(l) : i # n => \E j \in 1 .. Len(r) : from(j) = i
    <3> TAKE i \in 1 .. Len(l)
    <3>1. CASE i < n
      <4>1. i \in 1 .. Len(r) /\ from(i) = i
        BY <1>0, <2>2, <2>4, <3>1
      <4>2. QED
        BY <4>1
    <3>2. CASE i > n
      <4>1. i - 1 \in 1 .. Len(r) /\ from(i - 1) = i
        BY <1>0, <2>2, <2>4, <3>2
      <4>2. QED
        BY <4>1
    <3>3. QED
      BY <2>2, <3>1, <3>2
  <2> HIDE DEF from
  <2>7. TimerQueue(r, now)
    BY <1>0, <2>4, <2>5 DEF TimerQueue
  <2>8. \A i \in 1 .. Len(l) : i # n => l[i].timer # t
    <3>1. \A i \in 1 .. Len(l) : i # n => i < n \/ n < i
      BY <2>2
    <3>2. QED
      BY <1>0, <2>2, <3>1
  <2>9. TimersOf(r) = TimersOf(l) \ {t}
    <3>1. ASSUME NEW i \in 1 .. Len(r)
          PROVE  r[i].timer \in TimersOf(l) \ {t}
      BY <2>5, <2>8 DEF TimersOf
    <3>2. ASSUME NEW i \in 1 .. Len(l), l[i].timer # t
          PROVE  l[i].timer \in TimersOf(r)
      <4>1. PICK j \in 1 .. Len(r) : from(j) = i
        BY <2>2, <2>6, <3>2
      <4>2. r[j] = l[i]
        BY <2>5, <4>1
      <4>3. QED
        BY <4>2 DEF TimersOf
    <3>3. QED
      BY <3>1, <3>2 DEF TimersOf
  <2>10. QED
    BY <2>5, <2>7, <2>9 DEF r
<1>4. QED
  BY <1>2, <1>3

(* The entry e in l: the others that expire no later are in front of it. *)
StandsBehindEquals(l, e) ==
  \E n \in 1 .. Len(l) :
    /\ l[n] = e
    /\ \A j \in 1 .. Len(l) : j # n => (j < n <=> l[j].left <= e.left)

(* A timer enters the list behind those that expire no later than it. *)
LEMMA InsertLemma ==
  ASSUME TimerBounds, NEW now \in 0 .. RT_TICK_MAX, NEW l, TimerQueue(l, now),
         NEW e \in TimerEntry, e.left >= 0,
         e.timeout_tick = (now + e.left) % (RT_TICK_MAX + 1),
         e.timer \notin TimersOf(l)
  PROVE  LET r == Insert(l, e)
         IN  /\ TimerQueue(r, now)
             /\ TimersOf(r) = TimersOf(l) \cup {e.timer}
             /\ \A i \in 1 .. Len(r) : r[i] = e \/ \E j \in 1 .. Len(l) : r[i] = l[j]
             /\ StandsBehindEquals(r, e)
<1> DEFINE r == Insert(l, e)
           n == Position(l, e)
           I == {i \in DOMAIN l : Minus(l[i].timeout_tick, e.timeout_tick)
                                    \in 1 .. Half - 1}
<1>0. /\ l \in Seq(TimerEntry) /\ Len(l) \in Nat /\ DOMAIN l = 1 .. Len(l)
      /\ \A i, j \in 1 .. Len(l) :
           i < j => l[i].timer # l[j].timer /\ l[i].left <= l[j].left
      /\ \A i \in 1 .. Len(l) :
           /\ l[i].timeout_tick = (now + l[i].left) % (RT_TICK_MAX + 1)
           /\ l[i].left \in -1 .. Half - 1
           /\ l[i].timer # e.timer
  BY TimerQueueFacts DEF TimerQueue, TimersOf
<1>a. e.left \in 0 .. Half - 1
  BY DEF TimerEntry, TimerBounds
<1>1. \A i \in 1 .. Len(l) : i \in I <=> l[i].left > e.left
  <2> TAKE i \in 1 .. Len(l)
  <2> DEFINE N == RT_TICK_MAX + 1
             h == Half
  <2>1. /\ N \in Nat /\ h \in Nat /\ 1 < h /\ 2 * h < N /\ now \in 0 .. N - 1
    BY DEF TimerBounds
  <2>2. l[i].left \in -1 .. h - 1 /\ e.left \in 0 .. h - 1
    BY <1>0, <1>a
  <2>3. i \in I <=> (((now + l[i].left) % N) - ((now + e.left) % N)) % N \in 1 .. h - 1
    <3> DEFINE x == (now + l[i].left) % N
               y == (now + e.left) % N
    <3>1. l[i].timeout_tick = x /\ e.timeout_tick = y
      BY <1>0
    <3>2. i \in I <=> Minus(l[i].timeout_tick, e.timeout_tick) \in 1 .. h - 1
      BY <1>0
    <3> HIDE DEF x, y, h, I
    <3>3. i \in I <=> Minus(x, y) \in 1 .. h - 1
      BY <3>1, <3>2
    <3>4. Minus(x, y) = (x - y) % N
      BY DEF Minus
    <3>5. i \in I <=> (x - y) % N \in 1 .. h - 1
      BY <3>3, <3>4
    <3> HIDE DEF N
    <3>6. QED
      BY <3>5 DEF x, y
  <2> HIDE DEF N, h, I
  <2>4. QED
    BY <2>1, <2>2, <2>3, LaterLemma
<1>2. n = IF I = {} THEN Len(l) + 1 ELSE Min(I)
  BY DEF Position
<1>3. I # {} => Min(I) \in I /\ \A i \in I : Min(I) <= i
  <2>1. I \in SUBSET (0 .. Len(l))
    BY <1>0
  <2> HIDE DEF I
  <2>2. QED
    BY <1>0, <2>1, MinLemma
<1>b. I \subseteq 1 .. Len(l)
  BY <1>0
<1> HIDE DEF n, I
<1>4. n \in 1 .. Len(l) + 1
  BY <1>0, <1>2, <1>3, <1>b
<1>5. \A i \in 1 .. Len(l) : i < n <=> l[i].left <= e.left
  <2> TAKE i \in 1 .. Len(l)
  <2>1. l[i].left \in Int /\ e.left \in Int /\ n \in Int
    BY <1>0, <1>a, <1>4
  <2>2. ASSUME i < n PROVE i \notin I
    BY <1>2, <1>3, <1>b, <2>1, <2>2
  <2>3. ASSUME i >= n PROVE l[i].left > e.left
    <3>1. n \in I
      BY <1>0, <1>2, <1>3, <2>3
    <3>2. l[n].left > e.left /\ n \in 1 .. Len(l) /\ l[n].left \in Int
      BY <1>0, <1>1, <1>b, <3>1
    <3>3. l[n].left <= l[i].left
      BY <1>0, <2>1, <2>3, <3>2
    <3>4. QED
      BY <2>1, <3>2, <3>3
  <2>4. QED
    BY <1>1, <2>1, <2>2, <2>3
<1>6. r = InsertAt(l, n, e)
  BY DEF Insert, n
<1> HIDE DEF r
<1>7. /\ r \in Seq(TimerEntry) /\ Len(r) = Len(l) + 1
      /\ \A j \in 1 .. Len(l) + 1 :
           r[j] = IF j < n THEN l[j] ELSE IF j = n THEN e ELSE l[j - 1]
  <2>1. l \in Seq(TimerEntry) /\ e \in TimerEntry
    BY <1>0
  <2>2. LET q == InsertAt(l, n, e)
        IN  /\ q \in Seq(TimerEntry) /\ Len(q) = Len(l) + 1
            /\ \A j \in 1 .. Len(l) + 1 :
                 q[j] = IF j < n THEN l[j] ELSE IF j = n THEN e ELSE l[j - 1]
    BY <1>4, <2>1, InsertAtPlaces, SMTT(60)
  <2> DEFINE q == InsertAt(l, n, e)
  <2>3. r = q
    BY <1>6
  <2> HIDE DEF q
  <2>4. QED
    BY <2>2, <2>3 DEF q
<1> DEFINE from(j) == IF j < n THEN j ELSE j - 1
<1>8. r[n] = e /\ n \in 1 .. Len(r)
  BY <1>0, <1>4, <1>7
<1>9. \A j \in 1 .. Len(r) :
        j # n => /\ from(j) \in 1 .. Len(l) /\ r[j] = l[from(j)]
                 /\ j < n <=> from(j) < n
                 /\ \A i \in 1 .. Len(r) : i # n /\ i < j => from(i) < from(j)
  BY <1>0, <1>4, <1>7
<1>10. \A i \in 1 .. Len(l) : \E j \in 1 .. Len(r) : j # n /\ from(j) = i
  <2> TAKE i \in 1 .. Len(l)
  <2>1. CASE i < n
    <3>1. i \in 1 .. Len(r) /\ i # n /\ from(i) = i
      BY <1>0, <1>4, <1>7, <2>1
    <3>2. QED
      BY <3>1
  <2>2. CASE i >= n
    <3>1. i + 1 \in 1 .. Len(r) /\ i + 1 # n /\ from(i + 1) = i
      BY <1>0, <1>4, <1>7, <2>2
    <3>2. QED
      BY <3>1
  <2>3. QED
    BY <1>4, <2>1, <2>2
<1> HIDE DEF from
<1>11. \A j \in 1 .. Len(r) : j # n => (j < n <=> r[j].left <= e.left)
  BY <1>5, <1>9
<1>12. StandsBehindEquals(r, e)
  BY <1>8, <1>11 DEF StandsBehindEquals
<1>13. TimersOf(r) = TimersOf(l) \cup {e.timer}
  <2>1. ASSUME NEW i \in 1 .. Len(r) PROVE r[i].timer \in TimersOf(l) \cup {e.timer}
    BY <1>8, <1>9 DEF TimersOf
  <2>2. ASSUME NEW i \in 1 .. Len(l) PROVE l[i].timer \in TimersOf(r)
    <3>1. PICK j \in 1 .. Len(r) : j # n /\ from(j) = i
      BY <1>10
    <3>2. r[j] = l[i]
      BY <1>9, <3>1
    <3>3. QED
      BY <3>2 DEF TimersOf
  <2>3. e.timer \in TimersOf(r)
    BY <1>8 DEF TimersOf
  <2>4. QED
    BY <2>1, <2>2, <2>3 DEF TimersOf
<1>14. TimerQueue(r, now)
  <2>1. ASSUME NEW i \in 1 .. Len(r), NEW j \in 1 .. Len(r), i < j
        PROVE  r[i].timer # r[j].timer /\ r[i].left <= r[j].left
    <3>1. i \in Int /\ j \in Int /\ n \in Int /\ e.left \in Int
      BY <1>0, <1>4, <1>7, <1>a
    <3>2. CASE i # n /\ j # n
      <4>1. from(i) < from(j) /\ from(i) \in 1 .. Len(l) /\ from(j) \in 1 .. Len(l)
        BY <1>9, <2>1, <3>2
      <4>2. QED
        BY <1>0, <1>9, <3>2, <4>1
    <3>3. CASE i = n
      <4>1. j # n /\ ~ (j < n)
        BY <2>1, <3>1, <3>3
      <4>2. ~ (r[j].left <= e.left) /\ r[j] = l[from(j)] /\ from(j) \in 1 .. Len(l)
        BY <1>9, <1>11, <4>1
      <4>3. r[j].left \in Int /\ r[j].timer # e.timer
        BY <1>0, <4>2
      <4>4. QED
        BY <1>8, <3>1, <3>3, <4>2, <4>3
    <3>4. CASE j = n
      <4>1. i # n /\ i < n
        BY <2>1, <3>1, <3>4
      <4>2. r[i].left <= e.left /\ r[i] = l[from(i)] /\ from(i) \in 1 .. Len(l)
        BY <1>9, <1>11, <4>1
      <4>3. r[i].timer # e.timer
        BY <1>0, <4>2
      <4>4. QED
        BY <1>8, <3>4, <4>2, <4>3
    <3>5. QED
      BY <3>2, <3>3, <3>4
  <2>2. ASSUME NEW i \in 1 .. Len(r)
        PROVE  r[i].timeout_tick = (now + r[i].left) % (RT_TICK_MAX + 1)
    BY <1>0, <1>8, <1>9
  <2>3. QED
    BY <1>7, <2>1, <2>2 DEF TimerQueue
<1>15. \A i \in 1 .. Len(r) : r[i] = e \/ \E j \in 1 .. Len(l) : r[i] = l[j]
  BY <1>8, <1>9
<1>16. QED
  BY <1>12, <1>13, <1>14, <1>15 DEF r

(* A queue has as many timers as places. *)
LEMMA QueueCount ==
  ASSUME NEW now, NEW l, TimerQueue(l, now)
  PROVE  Len(l) = Cardinality(TimersOf(l))
<1> DEFINE f == [i \in 1 .. Len(l) |-> l[i].timer]
<1>1. /\ Len(l) \in Nat
      /\ \A i, j \in 1 .. Len(l) : i < j => l[i].timer # l[j].timer
  BY TimerQueueFacts DEF TimerQueue
<1>2. f \in Bijection(1 .. Len(l), TimersOf(l))
  <2>1. f \in [1 .. Len(l) -> TimersOf(l)]
    BY DEF TimersOf
  <2>2. \A i, j \in 1 .. Len(l) : f[i] = f[j] => i = j
    BY <1>1
  <2>3. \A t \in TimersOf(l) : \E i \in 1 .. Len(l) : f[i] = t
    BY DEF TimersOf
  <2> HIDE DEF f
  <2>4. QED
    BY <2>1, <2>2, <2>3 DEF Bijection, Injection, Surjection, IsInjective
<1>3. ExistsBijection(1 .. Len(l), TimersOf(l))
  BY <1>2 DEF ExistsBijection
<1>4. QED
  BY <1>1, <1>3, FS_CountingElements

(* rt_timer_check takes the first timer. *)
LEMMA FirstLemma ==
  ASSUME NEW now, NEW l, TimerQueue(l, now), l # <<>>
  PROVE  /\ TimerQueue(Tail(l), now)
         /\ TimersOf(Tail(l)) = TimersOf(l) \ {Head(l).timer}
         /\ \A i \in 1 .. Len(Tail(l)) : \E j \in 1 .. Len(l) : Tail(l)[i] = l[j]
         /\ 1 \in 1 .. Len(l) /\ Head(l) = l[1]
         /\ \A i \in 1 .. Len(l) : Head(l).left <= l[i].left
<1> DEFINE r == Tail(l)
<1>0. /\ l \in Seq(TimerEntry) /\ Len(l) \in Nat
      /\ \A i, j \in 1 .. Len(l) :
           i < j => l[i].timer # l[j].timer /\ l[i].left <= l[j].left
      /\ \A i \in 1 .. Len(l) :
           /\ l[i].timeout_tick = (now + l[i].left) % (RT_TICK_MAX + 1)
           /\ l[i].left \in Int
  <2>1. \A i \in 1 .. Len(l) : l[i].left \in -1 .. Half - 1
    BY TimerQueueFacts
  <2>2. \A i \in 1 .. Len(l) : l[i].left \in Int
    BY <2>1
  <2>3. QED
    BY <2>2, TimerQueueFacts DEF TimerQueue
<1>1. /\ r \in Seq(TimerEntry) /\ Len(r) = Len(l) - 1 /\ Len(l) >= 1 /\ Head(l) = l[1]
      /\ \A i \in 1 .. Len(l) - 1 : r[i] = l[i + 1]
  BY <1>0, HeadTailProperties, EmptySeq, LenProperties
<1> HIDE DEF r
<1>2. 1 \in 1 .. Len(l) /\ \A i \in 1 .. Len(r) : i + 1 \in 1 .. Len(l) /\ r[i] = l[i + 1]
  BY <1>0, <1>1
<1>3. TimerQueue(r, now)
  <2>1. ASSUME NEW i \in 1 .. Len(r), NEW j \in 1 .. Len(r), i < j
        PROVE  r[i].timer # r[j].timer /\ r[i].left <= r[j].left
    <3>1. i + 1 < j + 1
      BY <1>0, <1>1, <2>1
    <3>2. /\ i + 1 \in 1 .. Len(l) /\ r[i] = l[i + 1]
          /\ j + 1 \in 1 .. Len(l) /\ r[j] = l[j + 1]
      BY <1>2, Zenon
    <3>3. l[i + 1].timer # l[j + 1].timer /\ l[i + 1].left <= l[j + 1].left
      BY <1>0, <3>1, <3>2, Zenon
    <3>4. QED
      BY <3>2, <3>3, Zenon
  <2>2. QED
    BY <1>0, <1>1, <1>2, <2>1 DEF TimerQueue
<1>4. TimersOf(r) = TimersOf(l) \ {l[1].timer}
  <2>1. ASSUME NEW i \in 1 .. Len(r) PROVE r[i].timer \in TimersOf(l) \ {l[1].timer}
    <3>1. 1 < i + 1
      BY <1>0, <1>1
    <3>2. QED
      BY <1>0, <1>2, <3>1 DEF TimersOf
  <2>2. ASSUME NEW i \in 1 .. Len(l), l[i].timer # l[1].timer
        PROVE  l[i].timer \in TimersOf(r)
    <3>1. i - 1 \in 1 .. Len(r) /\ (i - 1) + 1 = i
      BY <1>0, <1>1, <2>2
    <3>2. r[i - 1] = l[i]
      BY <1>2, <3>1
    <3>3. QED
      BY <3>1, <3>2 DEF TimersOf
  <2>3. QED
    BY <2>1, <2>2 DEF TimersOf
<1>5. \A i \in 1 .. Len(l) : l[1].left <= l[i].left
  <2> TAKE i \in 1 .. Len(l)
  <2>1. i = 1 \/ 1 < i
    BY <1>0
  <2>2. QED
    BY <1>0, <1>2, <2>1
<1>6. QED
  BY <1>1, <1>2, <1>3, <1>4, <1>5 DEF r

(***************************************************************************)
(* The inductive invariant of the timers.                                  *)
(***************************************************************************)
(* a timer that is overdue is only found while rt_timer_check is at work *)
TimeOK ==
  /\ TimerQueue(rt_timer_list, tick)
  /\ phase = "thread" => \A i \in 1 .. Len(rt_timer_list) : rt_timer_list[i].left >= 0

(* A timer hangs in one list at most, and in the temporary one only while   *)
(* its timeout function runs.                                               *)
PlacesOK ==
  /\ TimersOf(rt_timer_list) \subseteq active
  /\ temporary \cap TimersOf(rt_timer_list) = {}
  /\ phase # "timeout" => temporary = {}

TimersInv == TimerTypeOK /\ TimeOK /\ PlacesOK

(* what TypeOK says of the other variables *)
TimerTypes ==
  /\ tick \in 0 .. RT_TICK_MAX
  /\ temporary \subseteq {firing}
  /\ phase \in {"thread", "check", "timeout"}
  /\ firing \in Timer \cup {NoTimer}
  /\ valid \subseteq Timer /\ active \subseteq valid /\ periodic \subseteq Timer
  /\ init_tick \in [Timer -> InitTick]
  /\ stopping \in Timer \cup {NoTimer}

(* the timers of a list, as the properties name them *)
LEMMA ListedTimers ==
  ASSUME NEW now, NEW l, TimerQueue(l, now)
  PROVE  /\ {e.timer : e \in ToSet(l)} = TimersOf(l)
         /\ ToSet(l) = {l[i] : i \in 1 .. Len(l)}
         /\ Len(l) = Cardinality({e.timer : e \in ToSet(l)})
<1>1. DOMAIN l = 1 .. Len(l)
  BY TimerQueueFacts
<1>2. ToSet(l) = {l[i] : i \in 1 .. Len(l)}
  BY <1>1 DEF ToSet
<1>3. {e.timer : e \in ToSet(l)} = TimersOf(l)
  BY <1>2 DEF TimersOf
<1>4. Len(l) = Cardinality(TimersOf(l))
  BY QueueCount
<1>5. QED
  BY <1>2, <1>3, <1>4

(* The invariant from its parts: the shape of the list follows from its order. *)
LEMMA TimersRebuilt ==
  ASSUME TimeOK', TimerTypes', PlacesOK'
  PROVE  TimersInv' /\ Listed' = TimersOf(rt_timer_list')
<1>1. TimerQueue(rt_timer_list', tick')
  BY DEF TimeOK
<1>2. /\ Listed' = TimersOf(rt_timer_list')
      /\ Len(rt_timer_list') = Cardinality(Listed')
  BY <1>1, ListedTimers DEF Listed
<1>3. rt_timer_list' \in Seq([timer : Timer, timeout_tick : Ticks,
                              left : -1 .. Half - 1])
  BY <1>1 DEF TimerQueue, TimerEntry, Ticks
<1>4. QED
  BY <1>2, <1>3 DEF TimerTypeOK, TimerTypes, Ticks, TimersInv

(* What the invariant says of the present state *)
LEMMA TimersNow ==
  ASSUME TimersInv
  PROVE  /\ TimerTypes /\ TimerQueue(rt_timer_list, tick)
         /\ Listed = TimersOf(rt_timer_list)
BY ListedTimers DEF TimersInv, TimeOK, TimerTypeOK, TimerTypes, Ticks, Listed

(* What ActiveIsListed says of a step *)
ForgetsNone ==
  /\ Doomed' /\ ~ Doomed => SetOneshot(firing)
  /\ \/ Forgotten' \subseteq Forgotten
     \/ Doomed /\ TimeoutReturn

(* rt_timer_start of a valid timer *)
LEMMA StartLemma ==
  ASSUME TimerBounds, TimersInv, NEW t \in valid, StartTimer(t)
  PROVE  /\ TimerQueue(rt_timer_list', tick)
         /\ TimersOf(rt_timer_list') = TimersOf(rt_timer_list) \cup {t}
         /\ StandsBehindEquals(rt_timer_list', Entry(t))
         /\ (\A i \in 1 .. Len(rt_timer_list) : rt_timer_list[i].left >= 0)
              => \A i \in 1 .. Len(rt_timer_list') : rt_timer_list'[i].left >= 0
         /\ temporary' = temporary \ {t} /\ active' = active \cup {t}
<1> DEFINE e == Entry(t)
           r == Without(rt_timer_list, t)
<1>1. /\ rt_timer_list' = Insert(r, e)
      /\ temporary' = temporary \ {t} /\ active' = active \cup {t}
  BY DEF StartTimer
<1>2. TimerTypes /\ TimerQueue(rt_timer_list, tick)
  BY TimersNow
<1>3. t \in Timer /\ init_tick[t] \in 0 .. Half - 1 /\ tick \in 0 .. RT_TICK_MAX
  BY <1>2 DEF TimerTypes, TimerBounds
<1>4. /\ e \in TimerEntry /\ e.timer = t /\ e.left >= 0 /\ e.left = init_tick[t]
      /\ e.timeout_tick = (tick + e.left) % (RT_TICK_MAX + 1)
  <2> DEFINE n == RT_TICK_MAX + 1
             x == (tick + init_tick[t]) % n
  <2>1. x \in 0 .. n - 1
    <3>1. n \in Nat /\ 2 * Half < n /\ tick \in 0 .. n - 1
      BY <1>3 DEF TimerBounds
    <3>2. init_tick[t] \in -1 .. Half - 1
      BY <1>3
    <3> HIDE DEF n
    <3>3. QED
      BY <3>1, <3>2, EndLemma DEF TimerBounds
  <2>2. e = [timer |-> t, timeout_tick |-> x, left |-> init_tick[t]]
    BY DEF Entry, Plus
  <2>3. x \in 0 .. RT_TICK_MAX /\ init_tick[t] \in -1 .. Half - 1 /\ init_tick[t] >= 0
    BY <1>3, <2>1 DEF TimerBounds
  <2> HIDE DEF e, x
  <2>4. e \in TimerEntry /\ e.timer = t /\ e.left = init_tick[t] /\ e.timeout_tick = x
    BY <1>3, <2>2, <2>3 DEF TimerEntry
  <2>5. QED
    BY <2>3, <2>4 DEF x
<1> HIDE DEF e
<1>5. /\ TimerQueue(r, tick) /\ TimersOf(r) = TimersOf(rt_timer_list) \ {t}
      /\ \A i \in 1 .. Len(r) :
           \E j \in 1 .. Len(rt_timer_list) : r[i] = rt_timer_list[j]
  BY <1>2, WithoutLemma
<1> HIDE DEF r
<1>6. e.timer \notin TimersOf(r)
  BY <1>4, <1>5
<1>7. /\ TimerQueue(rt_timer_list', tick)
      /\ TimersOf(rt_timer_list') = TimersOf(r) \cup {e.timer}
      /\ \A i \in 1 .. Len(rt_timer_list') :
           rt_timer_list'[i] = e \/ \E j \in 1 .. Len(r) : rt_timer_list'[i] = r[j]
      /\ StandsBehindEquals(rt_timer_list', e)
  BY <1>1, <1>3, <1>4, <1>5, <1>6, InsertLemma
<1>8. ASSUME \A i \in 1 .. Len(rt_timer_list) : rt_timer_list[i].left >= 0,
             NEW i \in 1 .. Len(rt_timer_list')
      PROVE  rt_timer_list'[i].left >= 0
  <2>1. CASE rt_timer_list'[i] = e
    BY <1>4, <2>1
  <2>2. ASSUME NEW j \in 1 .. Len(r), rt_timer_list'[i] = r[j]
        PROVE  rt_timer_list'[i].left >= 0
    <3>1. PICK m \in 1 .. Len(rt_timer_list) : r[j] = rt_timer_list[m]
      BY <1>5
    <3>2. QED
      BY <1>8, <2>2, <3>1
  <2>3. QED
    BY <1>7, <2>1, <2>2
<1>9. TimersOf(rt_timer_list') = TimersOf(rt_timer_list) \cup {t}
  BY <1>4, <1>5, <1>7
<1>10. QED
  BY <1>1, <1>7, <1>8, <1>9 DEF e

(* rt_timer_stop and rt_timer_detach of a timer *)
LEMMA StopLemma ==
  ASSUME TimersInv, NEW t, StopTimer(t)
  PROVE  /\ TimerQueue(rt_timer_list', tick)
         /\ TimersOf(rt_timer_list') = TimersOf(rt_timer_list) \ {t}
         /\ (\A i \in 1 .. Len(rt_timer_list) : rt_timer_list[i].left >= 0)
              => \A i \in 1 .. Len(rt_timer_list') : rt_timer_list'[i].left >= 0
         /\ temporary' = temporary \ {t} /\ active' = active \ {t}
<1>1. /\ rt_timer_list' = Without(rt_timer_list, t)
      /\ temporary' = temporary \ {t} /\ active' = active \ {t}
  BY DEF StopTimer, RemoveTimer
<1>2. /\ TimerQueue(rt_timer_list', tick)
      /\ TimersOf(rt_timer_list') = TimersOf(rt_timer_list) \ {t}
      /\ \A i \in 1 .. Len(rt_timer_list') :
           \E j \in 1 .. Len(rt_timer_list) : rt_timer_list'[i] = rt_timer_list[j]
  BY <1>1, TimersNow, WithoutLemma
<1>3. QED
  BY <1>1, <1>2

(***************************************************************************)
(* Every step keeps the invariant of the timers and forgets none of them.  *)
(***************************************************************************)
TimerStepOK == TimersInv' /\ ForgetsNone

(* the parts of the invariant that the steps use *)
LEMMA TimerParts ==
  ASSUME TimersInv
  PROVE  /\ TimerTypes /\ TimeOK /\ PlacesOK
         /\ Listed = TimersOf(rt_timer_list)
BY TimersNow DEF TimersInv

(* rt_timer_start by a thread or a timeout function *)
LEMMA TimersStart ==
  ASSUME TimerBounds, TimersInv, NEW t \in Timer, Start(t)
  PROVE  TimerStepOK /\ StandsBehindEquals(rt_timer_list', Entry(t))
<1>1. /\ t \in valid /\ StartTimer(t)
      /\ UNCHANGED <<tick, phase, firing, valid, periodic, init_tick, stopping>>
  BY DEF Start, check
<1>2. /\ TimerQueue(rt_timer_list', tick)
      /\ TimersOf(rt_timer_list') = TimersOf(rt_timer_list) \cup {t}
      /\ StandsBehindEquals(rt_timer_list', Entry(t))
      /\ (\A i \in 1 .. Len(rt_timer_list) : rt_timer_list[i].left >= 0)
           => \A i \in 1 .. Len(rt_timer_list') : rt_timer_list'[i].left >= 0
      /\ temporary' = temporary \ {t} /\ active' = active \cup {t}
  BY <1>1, StartLemma
<1>3. /\ TimerTypes /\ TimeOK /\ PlacesOK
      /\ Listed = TimersOf(rt_timer_list)
  BY TimerParts
<1>4. TimeOK'
  BY <1>1, <1>2, <1>3 DEF TimeOK
<1>5. TimerTypes'
  BY <1>1, <1>2, <1>3 DEF TimerTypes
<1>6. PlacesOK'
  BY <1>1, <1>2, <1>3 DEF PlacesOK
<1>7. TimersInv' /\ Listed' = TimersOf(rt_timer_list')
  BY <1>4, <1>5, <1>6, TimersRebuilt
<1>8. ForgetsNone
  <2>1. Doomed' => Doomed
    BY <1>1, <1>2 DEF Doomed
  <2>2. Forgotten' \subseteq Forgotten
    BY <1>2, <1>3, <1>7 DEF Forgotten
  <2>3. QED
    BY <2>1, <2>2 DEF ForgetsNone
<1>9. QED
  BY <1>2, <1>7, <1>8 DEF TimerStepOK

(* A timer is stopped, by the rest of rt_timer_stop, in a timeout function or *)
(* by rt_timer_detach.                                                        *)
LEMMA TimersStop ==
  ASSUME TimersInv, NEW t, StopTimer(t),
         UNCHANGED <<tick, phase, firing, periodic, init_tick>>,
         \/ UNCHANGED valid
         \/ valid' = valid \ {t},
         stopping' \in {stopping, NoTimer}
  PROVE  TimerStepOK
<1>1. /\ TimerQueue(rt_timer_list', tick)
      /\ TimersOf(rt_timer_list') = TimersOf(rt_timer_list) \ {t}
      /\ (\A i \in 1 .. Len(rt_timer_list) : rt_timer_list[i].left >= 0)
           => \A i \in 1 .. Len(rt_timer_list') : rt_timer_list'[i].left >= 0
      /\ temporary' = temporary \ {t} /\ active' = active \ {t}
  BY StopLemma
<1>2. /\ TimerTypes /\ TimeOK /\ PlacesOK
      /\ Listed = TimersOf(rt_timer_list)
  BY TimerParts
<1>3. TimeOK'
  BY <1>1, <1>2 DEF TimeOK
<1>4. TimerTypes'
  BY <1>1, <1>2 DEF TimerTypes
<1>5. PlacesOK'
  BY <1>1, <1>2 DEF PlacesOK
<1>6. TimersInv' /\ Listed' = TimersOf(rt_timer_list')
  BY <1>3, <1>4, <1>5, TimersRebuilt
<1>7. Doomed' => Doomed
  BY <1>1 DEF Doomed
<1>8. Forgotten' \subseteq Forgotten
  BY <1>1, <1>2, <1>6 DEF Forgotten
<1>9. QED
  BY <1>6, <1>7, <1>8 DEF TimerStepOK, ForgetsNone

(* The steps that leave the lists alone: rt_timer_init, rt_timer_control and *)
(* the look of rt_timer_stop at the flag                                     *)
LEMMA TimersControl ==
  ASSUME TimerBounds, TimersInv, NEW t \in Timer,
         \/ StopLook(t) \/ SetOneshot(t) \/ SetPeriodic(t)
         \/ \E time \in InitTick : SetTime(t, time) \/ InitTimer(t, time)
  PROVE  TimerStepOK
<1>1. /\ TimerTypes /\ TimeOK /\ PlacesOK
      /\ Listed = TimersOf(rt_timer_list)
  BY TimerParts
<1>2. UNCHANGED <<rt_timer_list, temporary, tick, phase, firing>>
  BY DEF StopLook, SetOneshot, SetPeriodic, SetTime,
         InitTimer, check, timer_lists
<1>3. /\ valid' \in {valid, valid \cup {t}}
      /\ active' = active \/ (t \notin valid /\ active' = active \ {t})
      /\ periodic' \in {periodic, periodic \cup {t}, periodic \ {t}}
      /\ stopping' \in {stopping, t}
      /\ \E time \in InitTick : init_tick' \in {init_tick, [init_tick EXCEPT ![t] = time]}
  BY DEF StopLook, SetOneshot, SetPeriodic, SetTime,
         InitTimer, flags, TimerBounds
<1>4. active' = active
  BY <1>1, <1>3 DEF TimerTypes
<1>5. TimerTypes'
  <2>1. init_tick' \in [Timer -> InitTick]
    BY <1>1, <1>3 DEF TimerTypes
  <2>2. QED
    BY <1>1, <1>2, <1>3, <1>4, <2>1 DEF TimerTypes
<1>6. TimeOK' /\ PlacesOK'
  BY <1>1, <1>2, <1>4 DEF TimeOK, PlacesOK
<1>7. TimersInv' /\ Listed' = TimersOf(rt_timer_list')
  BY <1>5, <1>6, TimersRebuilt
<1>8. Forgotten' \subseteq Forgotten
  BY <1>1, <1>2, <1>4, <1>7 DEF Forgotten
<1>9. ASSUME Doomed', ~ Doomed PROVE SetOneshot(firing)
  <2>1. firing \in active /\ firing \in periodic /\ firing \notin periodic'
    BY <1>2, <1>4, <1>9 DEF Doomed
  <2>2. t = firing
    BY <1>3, <2>1
  <2>3. t \in valid
    BY <1>1, <2>1, <2>2 DEF TimerTypes
  <2>4. SetOneshot(t)
    BY <2>1, <2>2, <2>3 DEF StopLook, SetPeriodic, SetTime,
                            InitTimer, flags
  <2>5. QED
    BY <2>2, <2>4
<1>10. QED
  BY <1>7, <1>8, <1>9 DEF TimerStepOK, ForgetsNone

(* The list a tick later *)
LEMMA TickedQueue ==
  ASSUME TimerBounds, NEW now \in 0 .. RT_TICK_MAX, NEW l, TimerQueue(l, now),
         \A i \in 1 .. Len(l) : l[i].left >= 0
  PROVE  LET r == [i \in DOMAIN l |-> [l[i] EXCEPT !.left = @ - 1]]
         IN  TimerQueue(r, Plus(now, 1)) /\ TimersOf(r) = TimersOf(l)
<1> DEFINE r == [i \in DOMAIN l |-> [l[i] EXCEPT !.left = @ - 1]]
           n == RT_TICK_MAX + 1
<1>1. /\ l \in Seq(TimerEntry) /\ Len(l) \in Nat /\ DOMAIN l = 1 .. Len(l)
      /\ \A i, j \in 1 .. Len(l) :
           i < j => l[i].timer # l[j].timer /\ l[i].left <= l[j].left
      /\ \A i \in 1 .. Len(l) :
           /\ l[i] \in TimerEntry
           /\ l[i].timeout_tick = (now + l[i].left) % n
           /\ l[i].left \in -1 .. Half - 1
  BY TimerQueueFacts DEF TimerQueue
<1>2. \A i \in 1 .. Len(l) : l[i].left \in 0 .. Half - 1
  BY <1>1 DEF TimerBounds
<1>3. \A i \in 1 .. Len(l) : /\ r[i] \in TimerEntry /\ r[i].left = l[i].left - 1
                             /\ r[i].timer = l[i].timer
                             /\ r[i].timeout_tick = l[i].timeout_tick
  <2> TAKE i \in 1 .. Len(l)
  <2>1. r[i] = [l[i] EXCEPT !.left = @ - 1]
    BY <1>1
  <2>2. l[i].left - 1 \in -1 .. Half - 1 /\ l[i] \in TimerEntry
    BY <1>1, <1>2 DEF TimerBounds
  <2> HIDE DEF r
  <2>3. QED
    BY <2>1, <2>2 DEF TimerEntry
<1>4. r \in Seq(TimerEntry) /\ Len(r) = Len(l)
  <2>1. r \in [1 .. Len(l) -> TimerEntry]
    BY <1>1, <1>3
  <2> HIDE DEF r
  <2>2. QED
    BY <1>1, <2>1, SeqDef, LenProperties
<1> HIDE DEF r
<1>5. \A i \in 1 .. Len(r) :
        r[i].timeout_tick = (Plus(now, 1) + r[i].left) % n
  <2> TAKE i \in 1 .. Len(r)
  <2> DEFINE h == Half
             a == l[i].left
  <2>1. /\ n \in Nat /\ h \in Nat /\ 1 < h /\ 2 * h < n /\ now \in 0 .. n - 1
        /\ Plus(now, 1) = (now + 1) % n
    BY DEF TimerBounds, Plus
  <2>2. /\ a \in 0 .. h - 1 /\ r[i].left = a - 1
        /\ r[i].timeout_tick = (now + a) % n
    BY <1>1, <1>2, <1>3, <1>4
  <2> HIDE DEF n, h, a
  <2>3. (((now + 1) % n) + (a - 1)) % n = (now + a) % n
    BY <2>1, <2>2, TickLemma
  <2>4. QED
    BY <2>1, <2>2, <2>3
<1>6. TimerQueue(r, Plus(now, 1))
  <2>1. ASSUME NEW i \in 1 .. Len(r), NEW j \in 1 .. Len(r), i < j
        PROVE  r[i].timer # r[j].timer /\ r[i].left <= r[j].left
    <3>1. i \in 1 .. Len(l) /\ j \in 1 .. Len(l)
      BY <1>4
    <3>2. l[i].timer # l[j].timer /\ l[i].left <= l[j].left
      BY <1>1, <2>1, <3>1
    <3>3. l[i].left \in Int /\ l[j].left \in Int
      <4>1. l[i].left \in 0 .. Half - 1 /\ l[j].left \in 0 .. Half - 1
        BY <1>2, <3>1
      <4>2. QED
        BY <4>1
    <3>4. r[i].left = l[i].left - 1 /\ r[j].left = l[j].left - 1
      BY <1>3, <3>1
    <3>5. r[i].timer = l[i].timer /\ r[j].timer = l[j].timer
      BY <1>3, <3>1
    <3>6. l[i].left - 1 <= l[j].left - 1
      BY <3>2, <3>3
    <3>7. QED
      BY <3>2, <3>4, <3>5, <3>6
  <2>2. QED
    BY <1>4, <1>5, <2>1 DEF TimerQueue
<1>7. TimersOf(r) = TimersOf(l)
  BY <1>3, <1>4 DEF TimersOf
<1>8. QED
  BY <1>6, <1>7 DEF r

(* rt_tick_increase *)
LEMMA TimersTick ==
  ASSUME TimerBounds, TimersInv, TickIncrease
  PROVE  TimerStepOK
<1>1. /\ phase = "thread" /\ phase' = "check" /\ tick' = Plus(tick, 1)
      /\ rt_timer_list' = [i \in DOMAIN rt_timer_list |->
                             [rt_timer_list[i] EXCEPT !.left = @ - 1]]
      /\ UNCHANGED <<temporary, valid, active, periodic, init_tick, firing, stopping>>
  BY DEF TickIncrease, flags
<1>2. /\ TimerTypes /\ TimeOK /\ PlacesOK
      /\ Listed = TimersOf(rt_timer_list)
  BY TimerParts
<1>3. /\ TimerQueue(rt_timer_list', tick')
      /\ TimersOf(rt_timer_list') = TimersOf(rt_timer_list)
  BY <1>1, <1>2, TickedQueue DEF TimeOK, TimerTypes
<1>4. tick' \in 0 .. RT_TICK_MAX
  <2> DEFINE n == RT_TICK_MAX + 1
             h == Half
  <2>1. /\ n \in Nat /\ h \in Nat /\ 1 < h /\ 2 * h < n /\ tick \in 0 .. n - 1
        /\ 0 \in 0 .. h - 1 /\ tick' = (tick + 1) % n
    BY <1>1, <1>2 DEF TimerBounds, TimerTypes, Plus
  <2>2. 0 .. n - 1 = 0 .. RT_TICK_MAX
    BY DEF TimerBounds
  <2> HIDE DEF n, h
  <2>3. tick' \in 0 .. n - 1
    BY <2>1, TickLemma
  <2>4. QED
    BY <2>2, <2>3
<1>5. TimeOK'
  BY <1>1, <1>3 DEF TimeOK
<1>6. TimerTypes'
  BY <1>1, <1>2, <1>4 DEF TimerTypes
<1>7. PlacesOK'
  BY <1>1, <1>2, <1>3 DEF PlacesOK
<1>8. TimersInv' /\ Listed' = TimersOf(rt_timer_list')
  BY <1>5, <1>6, <1>7, TimersRebuilt
<1>9. ~ Doomed' /\ Forgotten' \subseteq Forgotten
  BY <1>1, <1>2, <1>3, <1>8 DEF Doomed, Forgotten
<1>10. QED
  BY <1>8, <1>9 DEF TimerStepOK, ForgetsNone

(* An entry of the list is due when no time is left. *)
LEMMA DueEntry ==
  ASSUME TimerBounds, TimersInv, NEW i \in 1 .. Len(rt_timer_list)
  PROVE  Due(rt_timer_list[i]) <=> rt_timer_list[i].left <= 0
<1> DEFINE n == RT_TICK_MAX + 1
           h == Half
           e == rt_timer_list[i]
           a == e.left
<1>1. TimerTypes /\ TimerQueue(rt_timer_list, tick)
  BY TimersNow
<1>2. /\ n \in Nat /\ h \in Nat /\ 1 < h /\ 2 * h < n /\ tick \in 0 .. n - 1
  BY <1>1 DEF TimerBounds, TimerTypes
<1>3. a \in -1 .. h - 1
  BY <1>1, TimerQueueFacts
<1>4. e.timeout_tick = (tick + a) % n
  BY <1>1 DEF TimerQueue
<1>5. Due(e) <=> (tick - e.timeout_tick) % n < h
  BY DEF Due, Minus
<1> HIDE DEF n, h, a, e
<1>6. (tick - ((tick + a) % n)) % n < h <=> a <= 0
  BY <1>2, <1>3, DueLemma
<1>7. Due(e) <=> a <= 0
  BY <1>4, <1>5, <1>6
<1>8. QED
  BY <1>7 DEF a, e

(* rt_timer_check up to the call of a timeout function *)
LEMMA TimersExpire ==
  ASSUME TimerBounds, TimersInv, Expire
  PROVE  TimerStepOK /\ Head(rt_timer_list).left <= 0
<1> DEFINE t == Head(rt_timer_list).timer
<1>1. /\ phase = "check" /\ phase' = "timeout" /\ rt_timer_list # <<>>
      /\ Due(Head(rt_timer_list))
      /\ rt_timer_list' = Tail(rt_timer_list)
      /\ temporary' = {t} /\ firing' = t
      /\ active' = IF t \in periodic THEN active ELSE active \ {t}
      /\ UNCHANGED <<tick, valid, periodic, init_tick, stopping>>
  BY DEF Expire
<1>2. /\ TimerTypes /\ TimeOK /\ PlacesOK
      /\ Listed = TimersOf(rt_timer_list)
  BY TimerParts
<1>3. /\ TimerQueue(rt_timer_list', tick)
      /\ TimersOf(rt_timer_list') = TimersOf(rt_timer_list) \ {t}
      /\ 1 \in 1 .. Len(rt_timer_list) /\ Head(rt_timer_list) = rt_timer_list[1]
  BY <1>1, <1>2, FirstLemma DEF TimeOK
<1>4. Head(rt_timer_list).left <= 0
  BY <1>1, <1>3, DueEntry
<1>5. t \in TimersOf(rt_timer_list) /\ t \in Timer
  <2>1. t \in TimersOf(rt_timer_list)
    BY <1>3 DEF TimersOf
  <2>2. QED
    BY <1>2, <2>1, TimerQueueFacts DEF TimeOK
<1> HIDE DEF t
<1>6. TimeOK'
  BY <1>1, <1>3 DEF TimeOK
<1>7. TimerTypes'
  BY <1>1, <1>2, <1>5 DEF TimerTypes
<1>8. PlacesOK'
  BY <1>1, <1>2, <1>3 DEF PlacesOK
<1>9. TimersInv' /\ Listed' = TimersOf(rt_timer_list')
  BY <1>6, <1>7, <1>8, TimersRebuilt
<1>10. ~ Doomed'
  BY <1>1 DEF Doomed
<1>11. Forgotten' \subseteq Forgotten
  <2>1. temporary = {}
    BY <1>1, <1>2 DEF PlacesOK
  <2>2. QED
    BY <1>1, <1>2, <1>3, <1>9, <2>1 DEF Forgotten
<1>12. QED
  BY <1>4, <1>9, <1>10, <1>11 DEF TimerStepOK, ForgetsNone

(* rt_timer_check after a timeout function *)
LEMMA TimersReturn ==
  ASSUME TimerBounds, TimersInv, TimeoutReturn
  PROVE  /\ TimerStepOK
         /\ \/ /\ firing \in temporary
               /\ StandsBehindEquals(rt_timer_list', Entry(firing))
            \/ temporary \cap TimersOf(rt_timer_list') = {}
<1>1. /\ phase = "timeout" /\ phase' = "check" /\ firing' = NoTimer
      /\ UNCHANGED <<tick, valid, periodic, init_tick, stopping>>
  BY DEF TimeoutReturn, InTimeout
<1>2. /\ TimerTypes /\ TimeOK /\ PlacesOK
      /\ Listed = TimersOf(rt_timer_list)
  BY TimerParts
<1>3. CASE firing \in temporary \cap periodic \cap active
  <2>1. StartTimer(firing) /\ firing \in valid
    BY <1>2, <1>3 DEF TimeoutReturn, TimerTypes
  <2>2. /\ TimerQueue(rt_timer_list', tick)
        /\ TimersOf(rt_timer_list') = TimersOf(rt_timer_list) \cup {firing}
        /\ StandsBehindEquals(rt_timer_list', Entry(firing))
        /\ temporary' = temporary \ {firing} /\ active' = active \cup {firing}
    BY <2>1, StartLemma
  <2>3. temporary' = {}
    BY <1>2, <2>2 DEF TimerTypes
  <2>4. TimeOK'
    BY <1>1, <2>2 DEF TimeOK
  <2>5. TimerTypes'
    BY <1>1, <1>2, <2>1, <2>2, <2>3 DEF TimerTypes
  <2>6. PlacesOK'
    BY <1>1, <1>2, <2>2, <2>3 DEF PlacesOK
  <2>7. TimersInv' /\ Listed' = TimersOf(rt_timer_list')
    BY <2>4, <2>5, <2>6, TimersRebuilt
  <2>8. ~ Doomed' /\ Forgotten' \subseteq Forgotten
    BY <1>1, <1>2, <2>2, <2>3, <2>7 DEF Doomed, Forgotten, TimerTypes
  <2>9. QED
    BY <1>3, <2>2, <2>7, <2>8 DEF TimerStepOK, ForgetsNone
<1>4. CASE ~ (firing \in temporary \cap periodic \cap active)
  <2>1. temporary' = {} /\ UNCHANGED <<rt_timer_list, active>>
    BY <1>4 DEF TimeoutReturn
  <2>2. TimeOK'
    BY <1>1, <1>2, <2>1 DEF TimeOK
  <2>3. TimerTypes'
    BY <1>1, <1>2, <2>1 DEF TimerTypes
  <2>4. PlacesOK'
    BY <1>2, <2>1 DEF PlacesOK
  <2>5. TimersInv' /\ Listed' = TimersOf(rt_timer_list')
    BY <2>2, <2>3, <2>4, TimersRebuilt
  <2>6. ~ Doomed'
    BY <1>1 DEF Doomed
  <2>7. Forgotten' \subseteq Forgotten \/ Doomed
    <3>1. CASE temporary \cap active = {}
      BY <1>2, <2>1, <2>5, <3>1 DEF Forgotten
    <3>2. CASE temporary \cap active # {}
      BY <1>1, <1>2, <1>4, <3>2 DEF Doomed, TimerTypes
    <3>3. QED
      BY <3>1, <3>2
  <2>8. temporary \cap TimersOf(rt_timer_list') = {}
    BY <1>2, <2>1 DEF PlacesOK
  <2>9. QED
    BY <2>5, <2>6, <2>7, <2>8 DEF TimerStepOK, ForgetsNone
<1>5. QED
  BY <1>3, <1>4

(* The end of rt_timer_check: the first timer is not due, so none is. *)
LEMMA TimersCheckEnd ==
  ASSUME TimerBounds, TimersInv, CheckEnd
  PROVE  TimerStepOK /\ \A i \in 1 .. Len(rt_timer_list) : rt_timer_list[i].left > 0
<1>1. /\ phase = "check" /\ phase' = "thread"
      /\ rt_timer_list # <<>> => ~ Due(Head(rt_timer_list))
      /\ UNCHANGED <<tick, rt_timer_list, temporary, valid, active, periodic,
                     init_tick, firing, stopping>>
  BY DEF CheckEnd, timer_lists, flags
<1>2. /\ TimerTypes /\ TimeOK /\ PlacesOK
      /\ Listed = TimersOf(rt_timer_list)
  BY TimerParts
<1>3. ASSUME NEW i \in 1 .. Len(rt_timer_list) PROVE rt_timer_list[i].left > 0
  <2>1. rt_timer_list # <<>>
    OBVIOUS
  <2>2. /\ 1 \in 1 .. Len(rt_timer_list) /\ Head(rt_timer_list) = rt_timer_list[1]
        /\ Head(rt_timer_list).left <= rt_timer_list[i].left
    BY <1>2, <2>1, FirstLemma DEF TimeOK
  <2>3. ~ (rt_timer_list[1].left <= 0)
    BY <1>1, <2>1, <2>2, DueEntry
  <2>4. rt_timer_list[1].left \in Int /\ rt_timer_list[i].left \in Int
    <3>1. /\ rt_timer_list[1].left \in -1 .. Half - 1
          /\ rt_timer_list[i].left \in -1 .. Half - 1
      BY <1>2, <2>2, TimerQueueFacts DEF TimeOK
    <3>2. QED
      BY <3>1
  <2>5. QED
    BY <2>2, <2>3, <2>4
<1>4. \A i \in 1 .. Len(rt_timer_list) : rt_timer_list[i].left >= 0
  <2>1. \A i \in 1 .. Len(rt_timer_list) : rt_timer_list[i].left \in -1 .. Half - 1
    BY <1>2, TimerQueueFacts DEF TimeOK
  <2>2. QED
    BY <1>3, <2>1
<1>5. TimeOK' /\ TimerTypes' /\ PlacesOK'
  BY <1>1, <1>2, <1>4 DEF TimeOK, TimerTypes, PlacesOK
<1>6. TimersInv' /\ Listed' = TimersOf(rt_timer_list')
  BY <1>5, TimersRebuilt
<1>7. ~ Doomed' /\ Forgotten' \subseteq Forgotten
  BY <1>1, <1>2, <1>6 DEF Doomed, Forgotten
<1>8. QED
  BY <1>3, <1>6, <1>7 DEF TimerStepOK, ForgetsNone

(***************************************************************************)
(* The invariant is inductive.                                             *)
(***************************************************************************)
(* Init: no timer is in a list. *)
LEMMA TimersBegin ==
  ASSUME TimerBounds, TimerInit PROVE TimersInv
<1> USE DEF TimerInit
<1>1. Min(InitTick) \in InitTick
  <2>1. Half \in Nat /\ InitTick \in SUBSET (0 .. Half) /\ InitTick # {}
    BY DEF TimerBounds
  <2>2. QED
    BY <2>1, MinLemma
<1>2. Len(rt_timer_list) = 0
  BY EmptySeq
<1>3. TimerQueue(rt_timer_list, tick)
  BY <1>2, EmptySeq DEF TimerQueue
<1>4. TimersOf(rt_timer_list) = {}
  BY <1>2 DEF TimersOf
<1>5. TimeOK /\ PlacesOK
  BY <1>2, <1>3, <1>4 DEF TimeOK, PlacesOK
<1>6. Len(rt_timer_list) = Cardinality(Listed)
  BY <1>3, ListedTimers DEF Listed
<1>7. rt_timer_list \in Seq([timer : Timer, timeout_tick : Ticks,
                             left : -1 .. Half - 1])
  BY <1>3 DEF TimerQueue, TimerEntry, Ticks
<1>8. TimerTypeOK
  BY <1>1, <1>6, <1>7 DEF TimerTypeOK
<1>9. QED
  BY <1>5, <1>8 DEF TimersInv

(* The calls of the threads and of the timeout functions *)
LEMMA TimersCall ==
  ASSUME TimerBounds, TimersInv, NEW t \in Timer, TimerCall(t)
  PROVE  TimerStepOK
<1>1. CASE Start(t)
  BY <1>1, TimersStart
<1>2. CASE StopInTimeout(t)
  <2>1. /\ StopTimer(t)
        /\ UNCHANGED <<tick, phase, firing, periodic, init_tick, valid, stopping>>
    BY <1>2 DEF StopInTimeout, check
  <2>2. QED
    BY <2>1, TimersStop
<1>3. CASE Detach(t)
  <2>1. /\ StopTimer(t) /\ valid' = valid \ {t}
        /\ UNCHANGED <<tick, phase, firing, periodic, init_tick, stopping>>
    BY <1>3 DEF Detach, check
  <2>2. QED
    BY <2>1, TimersStop
<1>4. CASE \/ StopLook(t) \/ SetOneshot(t) \/ SetPeriodic(t)
           \/ \E time \in InitTick : SetTime(t, time) \/ InitTimer(t, time)
  BY <1>4, TimersControl
<1>5. QED
  BY <1>1, <1>2, <1>3, <1>4 DEF TimerCall

(* Every step of a caller or of the tick interrupt *)
LEMMA TimersNext ==
  ASSUME TimerBounds, TimersInv, TimerNext PROVE TimerStepOK
<1>1. ASSUME NEW t \in Timer, TimerCall(t) PROVE TimerStepOK
  BY <1>1, TimersCall
<1>2. CASE StopRest
  <2>1. /\ StopTimer(stopping) /\ stopping' = NoTimer
        /\ UNCHANGED <<tick, phase, firing, periodic, init_tick, valid>>
    BY <1>2 DEF StopRest, check
  <2>2. QED
    BY <2>1, TimersStop
<1>3. CASE Interrupt
  BY <1>3, TimersTick, TimersExpire, TimersReturn, TimersCheckEnd DEF Interrupt
<1>4. QED
  BY <1>1, <1>2, <1>3 DEF TimerNext

(* The invariant speaks of the variables of the timers only. *)
LEMMA TimersStutter ==
  ASSUME TimersInv, UNCHANGED timer_vars PROVE TimersInv'
<1>1. UNCHANGED <<tick, rt_timer_list, temporary, phase, firing, valid, active,
                  periodic, init_tick, stopping>>
  BY DEF timer_vars, timer_lists, flags, check
<1>2. TimeOK' /\ TimerTypes' /\ PlacesOK'
  BY <1>1, TimerParts DEF TimeOK, TimerTypes, PlacesOK
<1>3. QED
  BY <1>2, TimersRebuilt

(* The timers' invariant is inductive: rt_timer_list is sorted by the time   *)
(* that is left, on every lap of the tick, and overdue by one tick at most.  *)
THEOREM TimersInvariance == TimerSpec => []TimersInv
<1>1. TimerBounds
  BY TimerBoundsUsed
<1>2. TimerInit => TimersInv
  BY <1>1, TimersBegin
<1>3. TimersInv /\ [TimerNext]_timer_vars => TimersInv'
  BY <1>1, TimersNext, TimersStutter DEF TimerStepOK
<1>4. QED
  BY <1>2, <1>3, PTL DEF TimerSpec

(* A timer in rt_timer_list is ACTIVATED, and one that is ACTIVATED leaves   *)
(* the lists in one way only: its own timeout function makes it one-shot.    *)
THEOREM ActiveTimersAreListed == TimerSpec => ActiveIsListed
<1>1. TimerBounds
  BY TimerBoundsUsed
<1>2. TimersInv => TimerTypeOK /\ Listed \subseteq active
  BY TimersNow DEF TimersInv, PlacesOK
<1>3. TimersInv /\ [TimerNext]_timer_vars =>
        [ /\ Doomed' /\ ~Doomed => SetOneshot(firing)
          /\ \/ Forgotten' \subseteq Forgotten
             \/ (Doomed /\ TimeoutReturn) ]_timer_vars
  BY <1>1, TimersNext DEF TimerStepOK, ForgetsNone
<1>4. QED
  BY <1>2, <1>3, TimersInvariance, PTL DEF TimerSpec, ActiveIsListed

(* rt_timer_check calls a timeout function in the tick its time is up and    *)
(* returns with no such timer left, wherever the tick wraps around.          *)
THEOREM TimersExpireOnTime == TimerSpec => ExpiresOnTime
<1>1. TimerBounds
  BY TimerBoundsUsed
<1>2. TimersInv /\ [TimerNext]_timer_vars =>
        [ /\ Expire => Head(rt_timer_list).left <= 0
          /\ CheckEnd => \A e \in ToSet(rt_timer_list) : e.left > 0
        ]_timer_vars
  <2>1. TimersInv /\ Expire => Head(rt_timer_list).left <= 0
    BY <1>1, TimersExpire
  <2>2. ASSUME TimersInv, CheckEnd, NEW e \in ToSet(rt_timer_list)
        PROVE  e.left > 0
    <3>1. PICK i \in 1 .. Len(rt_timer_list) : e = rt_timer_list[i]
      <4>1. TimerQueue(rt_timer_list, tick)
        BY <2>2, TimersNow
      <4>2. ToSet(rt_timer_list) = {rt_timer_list[i] : i \in 1 .. Len(rt_timer_list)}
        BY <4>1, ListedTimers
      <4>3. QED
        BY <2>2, <4>2
    <3>2. QED
      BY <1>1, <2>2, <3>1, TimersCheckEnd
  <2>3. QED
    BY <2>1, <2>2
<1>3. QED
  BY <1>2, TimersInvariance, PTL DEF TimerSpec, ExpiresOnTime

(* The entry that stands behind its equals is the only one of its timer. *)
LEMMA OnlyEntry ==
  ASSUME NEW now, NEW l, TimerQueue(l, now), NEW e, StandsBehindEquals(l, e),
         NEW i \in DOMAIN l, NEW j \in DOMAIN l, i # j, l[i].timer = e.timer
  PROVE  j < i <=> l[j].left <= l[i].left
<1>1. Len(l) \in Nat /\ DOMAIN l = 1 .. Len(l)
  BY TimerQueueFacts
<1>2. PICK n \in 1 .. Len(l) :
        /\ l[n] = e
        /\ \A k \in 1 .. Len(l) : k # n => (k < n <=> l[k].left <= e.left)
  BY DEF StandsBehindEquals
<1>3. i = n
  <2>1. i < n \/ n < i \/ i = n
    BY <1>1
  <2>2. QED
    BY <1>1, <1>2, <2>1 DEF TimerQueue
<1>4. QED
  BY <1>1, <1>2, <1>3

(* A timer that is started goes behind those that expire no later than it   *)
(* and in front of all others, also when the tick wraps around in between.  *)
THEOREM TimersStartBehindEquals == TimerSpec => StartedBehindEquals
<1>1. TimerBounds
  BY TimerBoundsUsed
<1>2. TimersInv /\ [TimerNext]_timer_vars =>
        [ \A t \in Timer :
            Start(t) \/ (t \in temporary /\ TimeoutReturn) =>
              \A i, j \in DOMAIN rt_timer_list' :
                i # j /\ rt_timer_list'[i].timer = t =>
                  (j < i <=> rt_timer_list'[j].left <= rt_timer_list'[i].left)
        ]_timer_vars
  <2>1. SUFFICES
          ASSUME TimersInv, NEW t \in Timer,
                 Start(t) \/ (t \in temporary /\ TimeoutReturn),
                 NEW i \in DOMAIN rt_timer_list', NEW j \in DOMAIN rt_timer_list',
                 i # j, rt_timer_list'[i].timer = t
          PROVE  j < i <=> rt_timer_list'[j].left <= rt_timer_list'[i].left
    OBVIOUS
  <2>2. TimerStepOK
    BY <1>1, <2>1, TimersStart, TimersReturn
  <2>3. TimerQueue(rt_timer_list', tick')
    BY <2>2 DEF TimerStepOK, TimersInv, TimeOK
  <2>4. Entry(t).timer = t
    BY DEF Entry
  <2>5. CASE StandsBehindEquals(rt_timer_list', Entry(t))
    BY <2>1, <2>3, <2>4, <2>5, OnlyEntry
  <2>6. CASE ~ StandsBehindEquals(rt_timer_list', Entry(t))
    <3>1. t \in temporary /\ TimeoutReturn
      BY <1>1, <2>1, <2>6, TimersStart
    <3>2. t = firing
      BY <2>1, <3>1, TimersNow DEF TimerTypes
    <3>3. t \notin TimersOf(rt_timer_list')
      BY <1>1, <2>1, <2>6, <3>1, <3>2, TimersReturn
    <3>4. t \in TimersOf(rt_timer_list')
      BY <2>1, <2>3, TimerQueueFacts DEF TimersOf
    <3>5. QED
      BY <3>3, <3>4
  <2>7. QED
    BY <2>5, <2>6
<1>3. QED
  BY <1>2, TimersInvariance, PTL DEF TimerSpec, StartedBehindEquals

(***************************************************************************)
(* The receive FIFO of a serial device, for any buffer size and any bytes. *)
(***************************************************************************)
(* what the proofs use of the bounds *)
Wide == 2 ^ 16
WrapsWhole == Wide % bufsz = 0

RxBounds ==
  /\ bufsz \in Nat /\ bufsz > 1 /\ bufsz < Wide
  /\ MaxBytes \in Nat
  /\ Driver \subseteq {"interrupt", "idle", "callbacks"}
  /\ "callbacks" \in Driver => WrapsWhole /\ 2 * bufsz <= Wide

(* Quotient and remainder *)
LEMMA DivLemma ==
  ASSUME NEW n \in Nat \ {0}, NEW x \in Int
  PROVE  /\ x = n * (x \div n) + (x % n)
         /\ x \div n \in Int /\ x % n \in 0 .. n - 1
OBVIOUS

(* The remainder does not see multiples of n. *)
LEMMA LapsLemma ==
  ASSUME NEW n \in Nat \ {0}, NEW q \in Int, NEW s \in Int
  PROVE  (n * q + s) % n = s % n
<1> DEFINE x == n * q + s
           a == x \div n
           b == x % n
           c == s \div n
           d == s % n
<1>1. x = n * a + b /\ a \in Int /\ b \in 0 .. n - 1 /\ x \in Int
  BY DivLemma
<1>2. s = n * c + d /\ c \in Int /\ d \in 0 .. n - 1
  BY DivLemma
<1>3. x = n * q + s
  OBVIOUS
<1> DEFINE m == a - c - q
<1> HIDE DEF x, a, b, c, d
<1>4. n * m = d - b /\ m \in Int
  BY <1>1, <1>2, <1>3
<1> HIDE DEF m
<1>5. m < 1 /\ m > -1
  BY <1>1, <1>2, <1>4
<1>6. n * m = 0
  BY <1>4, <1>5
<1>7. b = d
  BY <1>1, <1>2, <1>4, <1>6
<1>8. QED
  BY <1>7 DEF b, d, x

(* Only the remainder of a summand counts. *)
LEMMA ShiftLemma ==
  ASSUME NEW n \in Nat \ {0}, NEW x \in Int, NEW k \in Int
  PROVE  (x + k) % n = ((x % n) + k) % n
<1> DEFINE q == x \div n
           r == x % n
<1>1. x = n * q + r /\ q \in Int /\ r \in Int
  BY DivLemma
<1> HIDE DEF q, r
<1>2. r + k \in Int /\ x + k = n * q + (r + k)
  BY <1>1
<1>3. (n * q + (r + k)) % n = (r + k) % n
  BY <1>1, <1>2, LapsLemma
<1>4. (x + k) % n = (r + k) % n
  BY <1>2, <1>3
<1>5. QED
  BY <1>4 DEF r

(* One lap at most *)
LEMMA StepLemma ==
  ASSUME NEW n \in Nat \ {0}, NEW x \in Int, NEW k \in 0 .. n
  PROVE  (x + k) % n = IF (x % n) + k < n THEN (x % n) + k ELSE (x % n) + k - n
<1> DEFINE r == x % n
<1>1. r \in 0 .. n - 1 /\ k \in Int
  BY DivLemma
<1>2. (x + k) % n = (r + k) % n
  BY <1>1, ShiftLemma
<1> HIDE DEF r
<1> DEFINE y == r + k
<1>3. (x + k) % n = y % n /\ y = r + k
  BY <1>2
<1>4. y \in -n .. 2 * n - 1 /\ y >= 0
  BY <1>1
<1> HIDE DEF y
<1>5. y % n = IF y < 0 THEN y + n ELSE IF y < n THEN y ELSE y - n
  BY <1>4, ModLemma
<1> DEFINE v == y % n
           w == (x + k) % n
<1>6. w = v /\ v = IF y < 0 THEN y + n ELSE IF y < n THEN y ELSE y - n
  BY <1>3, <1>5
<1>7. y = r + k
  BY <1>3
<1> HIDE DEF v, w
<1>8. w = IF r + k < n THEN r + k ELSE r + k - n
  BY <1>1, <1>4, <1>6, <1>7
<1>9. QED
  BY <1>8 DEF r, w

(* Two numbers at the same place of the ring are a lap apart. *)
LEMMA LapLemma ==
  ASSUME NEW n \in Nat \ {0}, NEW x \in Int, NEW y \in Int, x % n = y % n, x < y
  PROVE  x + n <= y
<1> DEFINE a == x \div n
           b == y \div n
           r == x % n
<1>1. x = n * a + r /\ a \in Int /\ r \in Int
  BY DivLemma
<1>2. y = n * b + r /\ b \in Int
  BY DivLemma
<1> HIDE DEF a, b, r
<1>3. n * (b - a) > 0 /\ y - x = n * (b - a)
  BY <1>1, <1>2
<1>4. b - a >= 1
  BY <1>1, <1>2, <1>3
<1>5. n * (b - a) >= n
  BY <1>1, <1>2, <1>4
<1>6. QED
  BY <1>3, <1>5

(* Products of three *)
LEMMA Associates ==
  ASSUME NEW a \in Int, NEW b \in Int, NEW c \in Int
  PROVE  (a * b) * c = a * (b * c)
OBVIOUS

(* Sixteen bits *)
LEMMA WideIsNat == Wide \in Nat \ {0}
<1>1. 2 ^ 16 = 65536
  OBVIOUS
<1>2. QED
  BY <1>1 DEF Wide

(* Remainders of small numbers, and of remainders *)
LEMMA SmallLemma ==
  ASSUME NEW n \in Nat \ {0}, NEW x \in 0 .. n - 1
  PROVE  x % n = x
OBVIOUS

(***************************************************************************)
(* The FIFO                                                                *)
(***************************************************************************)
(* _serial_fifo_calc_recved_len as a function of the two indices and is_full *)
Fill(p, g, f) ==
  IF p = g THEN IF f THEN bufsz ELSE 0
           ELSE IF p > g THEN p - g ELSE bufsz - (g - p)

Place == 0 .. bufsz - 1

LEMMA FillUsed ==
  ASSUME put_index \in Int, get_index \in Int
  PROVE  calc_recved_len = Fill(put_index, get_index, is_full)
BY DEF calc_recved_len, Fill

(* The same after a step *)
LEMMA FillUsedNext ==
  ASSUME put_index' \in Int, get_index' \in Int
  PROVE  calc_recved_len' = Fill(put_index', get_index', is_full')
BY DEF calc_recved_len, Fill

(* Where a FIFO that holds that many bytes is written next *)
LEMMA FillFacts ==
  ASSUME RxBounds, NEW p \in Place, NEW g \in Place, NEW f \in BOOLEAN, f => p = g
  PROVE  /\ Fill(p, g, f) \in 0 .. bufsz
         /\ Fill(p, g, f) = bufsz <=> f
         /\ Fill(p, g, f) = 0 <=> p = g /\ ~f
         /\ p = IF g + Fill(p, g, f) < bufsz THEN g + Fill(p, g, f)
                                             ELSE g + Fill(p, g, f) - bufsz
         /\ p = (g + Fill(p, g, f)) % bufsz
<1> DEFINE c == Fill(p, g, f)
<1>1. /\ c \in 0 .. bufsz
      /\ c = bufsz <=> f
      /\ c = 0 <=> p = g /\ ~f
      /\ p = IF g + c < bufsz THEN g + c ELSE g + c - bufsz
  BY DEF RxBounds, Place, Fill
<1> HIDE DEF c
<1>2. bufsz \in Nat \ {0} /\ g \in Int /\ g % bufsz = g
  BY SmallLemma DEF RxBounds, Place
<1>3. (g + c) % bufsz = IF g + c < bufsz THEN g + c ELSE g + c - bufsz
  BY <1>1, <1>2, StepLemma
<1>4. QED
  BY <1>1, <1>3 DEF c

(* rt_dma_recv_update_get_index, and one turn of the loop in _serial_int_rx *)
LEMMA FillAfterRead ==
  ASSUME RxBounds, NEW p \in Place, NEW g \in Place, NEW f \in BOOLEAN, f => p = g,
         NEW k \in 1 .. Fill(p, g, f)
  PROVE  /\ (g + k) % bufsz \in Place
         /\ Fill(p, (g + k) % bufsz, FALSE) = Fill(p, g, f) - k
         /\ ~f /\ g <= p => (g + k) % bufsz = g + k /\ g + k <= p
<1> DEFINE h == (g + k) % bufsz
<1>1. Fill(p, g, f) \in 0 .. bufsz
  BY FillFacts
<1>2. bufsz \in Nat \ {0} /\ g \in Int /\ g % bufsz = g /\ k \in 0 .. bufsz
  BY <1>1, SmallLemma DEF RxBounds, Place
<1>3. h = IF g + k < bufsz THEN g + k ELSE g + k - bufsz
  BY <1>2, StepLemma
<1> HIDE DEF h
<1>4. h \in Place
  BY <1>2, <1>3 DEF Place
<1>5. Fill(p, h, FALSE) = Fill(p, g, f) - k
  BY <1>2, <1>3 DEF Fill, Place
<1>6. ~f /\ g <= p => h = g + k /\ g + k <= p
  BY <1>2, <1>3 DEF Fill, Place
<1>7. QED
  BY <1>4, <1>5, <1>6 DEF h

(* what the update of put_index works with *)
Put(len) == (put_index + len) % Wide

LEMMA PutParts ==
  ASSUME NEW len \in Int, rt_dma_recv_update_put_index(len)
  PROVE  /\ put_index' = IF Put(len) >= bufsz THEN Put(len) % bufsz ELSE Put(len)
         /\ is_full' <=> \/ is_full
                         \/ /\ get_index <= put_index
                            /\ Put(len) >= bufsz /\ Put(len) % bufsz >= get_index
                         \/ get_index > put_index /\ Put(len) >= get_index
         /\ is_full \in BOOLEAN => is_full' \in BOOLEAN
         /\ is_full' => get_index' = put_index'
         /\ ~is_full' => get_index' = get_index
BY DEF rt_dma_recv_update_put_index, Put, Wide

(* The indices stay in the buffer. *)
LEMMA PutTyped ==
  ASSUME RxBounds, put_index \in Place, get_index \in Place, is_full \in BOOLEAN,
         NEW len \in Int, rt_dma_recv_update_put_index(len)
  PROVE  /\ put_index' \in Place /\ get_index' \in Place /\ is_full' \in BOOLEAN
         /\ is_full' => put_index' = get_index'
<1> DEFINE put == Put(len)
<1>1. /\ put_index' = IF put >= bufsz THEN put % bufsz ELSE put
      /\ is_full \in BOOLEAN => is_full' \in BOOLEAN
      /\ is_full' => get_index' = put_index'
      /\ ~is_full' => get_index' = get_index
  BY PutParts
<1>2. put \in 0 .. Wide - 1
  <2>1. put_index + len \in Int
    BY DEF Place
  <2>2. QED
    BY <2>1, WideIsNat, DivLemma, Zenon DEF Put
<1> HIDE DEF put
<1>3. put \in Int /\ bufsz \in Nat \ {0}
  BY <1>2 DEF RxBounds
<1> DEFINE wrapped == put % bufsz
<1>4. wrapped \in Place /\ (put_index' = IF put >= bufsz THEN wrapped ELSE put)
  BY <1>1, <1>3, DivLemma DEF Place
<1> HIDE DEF wrapped
<1>5. put_index' \in Place
  BY <1>2, <1>3, <1>4 DEF Place
<1>6. QED
  BY <1>1, <1>5

(* The update inside the buffer: what the idle line counts, and all there is *)
(* to count on the first lap                                                 *)
LEMMA PutWithin ==
  ASSUME RxBounds, put_index \in Place, get_index \in Place, is_full \in BOOLEAN,
         is_full => put_index = get_index,
         NEW len \in Int, put_index + len \in Place, rt_dma_recv_update_put_index(len)
  PROVE  LET e == IF len >= 0 THEN len ELSE len + bufsz
             c == Fill(put_index, get_index, is_full)
             d == Fill(put_index', get_index', is_full')
         IN  /\ put_index' = put_index + len
             /\ d <= c + e
             /\ c + e < bufsz => d = c + e /\ get_index' = get_index
             /\ len >= 0 /\ ~is_full /\ get_index <= put_index =>
                  ~is_full' /\ get_index' = get_index
<1> DEFINE put == Put(len)
<1>1. /\ put_index' = IF put >= bufsz THEN put % bufsz ELSE put
      /\ is_full' <=> \/ is_full
                      \/ get_index <= put_index /\ put >= bufsz /\ put % bufsz >= get_index
                      \/ get_index > put_index /\ put >= get_index
      /\ is_full' => get_index' = put_index'
      /\ ~is_full' => get_index' = get_index
  BY PutParts
<1>2. put = put_index + len
  <2> DEFINE x == put_index + len
  <2>1. x \in Int /\ x \in 0 .. Wide - 1
    BY WideIsNat DEF RxBounds, Place
  <2> HIDE DEF x
  <2>2. x % Wide = x
    BY <2>1, WideIsNat, SmallLemma, Zenon
  <2>3. QED
    BY <2>2 DEF Put, x
<1> HIDE DEF put
<1> DEFINE wrapped == put % bufsz
<1>3. /\ put_index' = IF put >= bufsz THEN wrapped ELSE put
      /\ is_full' <=> \/ is_full
                      \/ get_index <= put_index /\ put >= bufsz /\ wrapped >= get_index
                      \/ get_index > put_index /\ put >= get_index
  BY <1>1
<1> HIDE DEF wrapped
<1>4. ~ (put >= bufsz)
  BY <1>2 DEF RxBounds, Place
<1>5. put_index' = put_index + len
  BY <1>2, <1>3, <1>4
<1>6. is_full' <=> is_full \/ (get_index > put_index /\ put_index' >= get_index)
  BY <1>2, <1>3, <1>4, <1>5
<1> DEFINE e == IF len >= 0 THEN len ELSE len + bufsz
           c == Fill(put_index, get_index, is_full)
           d == Fill(put_index', get_index', is_full')
<1>7. d <= c + e
  BY <1>1, <1>5, <1>6 DEF Fill, Place, RxBounds
<1>8. c + e < bufsz => d = c + e /\ get_index' = get_index
  BY <1>1, <1>5, <1>6 DEF Fill, Place, RxBounds
<1>9. len >= 0 /\ ~is_full /\ get_index <= put_index => ~is_full' /\ get_index' = get_index
  BY <1>1, <1>5, <1>6 DEF Place, RxBounds
<1>10. QED
  BY <1>5, <1>7, <1>8, <1>9

(* Reports of the DMA's callbacks: put_index follows the counter, even when  *)
(* a length came out negative, because 2^16 is a multiple of bufsz.          *)
LEMMA PutFollows ==
  ASSUME RxBounds, "callbacks" \in Driver,
         put_index \in Place, get_index \in Place, is_full \in BOOLEAN,
         NEW len \in -bufsz .. bufsz, rt_dma_recv_update_put_index(len)
  PROVE  put_index' = (put_index + len) % bufsz
<1> DEFINE x == put_index + len
           put == Put(len)
<1>1. put_index' = IF put >= bufsz THEN put % bufsz ELSE put
  <2>1. len \in Int
    BY DEF RxBounds
  <2>2. QED
    BY <2>1, PutParts
<1>2. bufsz \in Nat \ {0} /\ x \in Int /\ WrapsWhole
  BY DEF RxBounds, Place
<1>3. put \in 0 .. Wide - 1 /\ put = x % Wide
  BY <1>2, WideIsNat, DivLemma, Zenon DEF Put
<1> HIDE DEF x, put
<1>4. put_index' = put % bufsz
  <2>1. CASE put < bufsz
    <3>1. put \in 0 .. bufsz - 1
      BY <1>2, <1>3, <2>1
    <3>2. put % bufsz = put
      BY <1>2, <3>1, SmallLemma
    <3>3. put_index' = put
      BY <1>1, <1>2, <3>1
    <3>4. QED
      BY <3>2, <3>3
  <2>2. CASE put >= bufsz
    BY <1>1, <2>2
  <2>3. QED
    BY <1>2, <1>3, <2>1, <2>2
<1>5. put % bufsz = x % bufsz
  <2> DEFINE q == Wide \div bufsz
             m == x \div Wide
  <2>1. Wide = bufsz * q + (Wide % bufsz) /\ q \in Int
    <3>1. Wide \in Int
      BY WideIsNat
    <3>2. QED
      BY <1>2, <3>1, DivLemma, Zenon
  <2>2. x = Wide * m + put /\ m \in Int
    BY <1>2, <1>3, WideIsNat, DivLemma, Zenon
  <2> HIDE DEF q, m
  <2>3. Wide = bufsz * q
    <3>1. Wide = bufsz * q + 0
      BY <1>2, <2>1, Zenon DEF WrapsWhole
    <3>2. bufsz * q \in Int
      BY <1>2, <2>1
    <3>3. QED
      BY <3>1, <3>2
  <2>4. q * m \in Int
    BY <2>1, <2>2
  <2>5. x = (bufsz * q) * m + put
    BY <2>2, <2>3
  <2>6. (bufsz * q) * m = bufsz * (q * m)
    BY <1>2, <2>1, <2>2, Associates
  <2> DEFINE l == q * m
  <2>7. l \in Int /\ x = bufsz * l + put
    BY <2>4, <2>5, <2>6
  <2> HIDE DEF l
  <2>8. put \in Int
    BY <1>3
  <2>9. (bufsz * l + put) % bufsz = put % bufsz
    BY <1>2, <2>7, <2>8, LapsLemma, Zenon
  <2>10. QED
    BY <2>7, <2>9
<1>6. QED
  BY <1>4, <1>5 DEF x

(* Such a report puts its bytes behind those that are there, as many as fit. *)
LEMMA PutFills ==
  ASSUME RxBounds, "callbacks" \in Driver,
         put_index \in Place, get_index \in Place, is_full \in BOOLEAN,
         is_full => put_index = get_index,
         NEW len \in 0 .. bufsz, rt_dma_recv_update_put_index(len)
  PROVE  LET c == Fill(put_index, get_index, is_full)
             d == Fill(put_index', get_index', is_full')
         IN  /\ d = IF c + len < bufsz THEN c + len ELSE bufsz
             /\ c + len <= bufsz => get_index' = get_index
<1> DEFINE put == Put(len)
<1>1. len \in Int /\ bufsz \in Nat \ {0}
  BY DEF RxBounds
<1>2. /\ put_index' = IF put >= bufsz THEN put % bufsz ELSE put
      /\ is_full' <=> \/ is_full
                      \/ get_index <= put_index /\ put >= bufsz /\ put % bufsz >= get_index
                      \/ get_index > put_index /\ put >= get_index
      /\ is_full' => get_index' = put_index'
      /\ ~is_full' => get_index' = get_index
  BY <1>1, PutParts
<1>3. put = put_index + len
  <2> DEFINE x == put_index + len
  <2>1. x \in Int /\ x \in 0 .. Wide - 1
    BY WideIsNat DEF RxBounds, Place
  <2> HIDE DEF x
  <2>2. x % Wide = x
    BY <2>1, WideIsNat, SmallLemma, Zenon
  <2>3. QED
    BY <2>2 DEF Put, x
<1> HIDE DEF put
<1> DEFINE wrapped == put % bufsz
<1>4. wrapped = IF put < bufsz THEN put ELSE put - bufsz
  <2>1. put \in -bufsz .. 2 * bufsz - 1 /\ put >= 0
    BY <1>3 DEF RxBounds, Place
  <2>2. put % bufsz = IF put < 0 THEN put + bufsz ELSE IF put < bufsz THEN put ELSE put - bufsz
    BY <1>1, <2>1, ModLemma
  <2>3. QED
    BY <2>1, <2>2
<1>5. /\ put_index' = IF put >= bufsz THEN wrapped ELSE put
      /\ is_full' <=> \/ is_full
                      \/ get_index <= put_index /\ put >= bufsz /\ wrapped >= get_index
                      \/ get_index > put_index /\ put >= get_index
  BY <1>2
<1> HIDE DEF wrapped
<1>6. /\ put >= bufsz => put_index' = put_index + len - bufsz
      /\ put < bufsz => put_index' = put_index + len
  BY <1>1, <1>3, <1>4, <1>5 DEF Place
<1> DEFINE c == Fill(put_index, get_index, is_full)
           d == Fill(put_index', get_index', is_full')
<1>7. is_full' <=> c + len >= bufsz
  BY <1>1, <1>3, <1>4, <1>5 DEF Fill, Place, RxBounds
<1>8. c + len < bufsz => d = c + len /\ get_index' = get_index
  BY <1>1, <1>2, <1>3, <1>6, <1>7 DEF Fill, Place, RxBounds
<1>9. c + len >= bufsz => d = bufsz
  BY <1>2, <1>7 DEF Fill
<1>10. c + len = bufsz => get_index' = get_index
  BY <1>1, <1>2, <1>3, <1>6, <1>7 DEF Fill, Place, RxBounds
<1>11. c \in Int
  BY DEF Fill, Place, RxBounds
<1> HIDE DEF c, d
<1>12. /\ c + len < bufsz \/ c + len >= bufsz
       /\ c + len <= bufsz => c + len < bufsz \/ c + len = bufsz
       /\ c + len >= bufsz => ~ (c + len < bufsz)
  BY <1>1, <1>11
<1>13. /\ d = IF c + len < bufsz THEN c + len ELSE bufsz
       /\ c + len <= bufsz => get_index' = get_index
  BY <1>8, <1>9, <1>10, <1>12
<1>14. QED
  BY <1>13 DEF c, d

(***************************************************************************)
(* The invariant of the serial device                                      *)
(***************************************************************************)
(* the number of bytes in the FIFO, and the local variables of the handlers *)
Held == Fill(put_index, get_index, is_full)
InUart == recv_len.uart
InDma == recv_len.dma

(* Where byte x was written stands x, or a byte that came a lap later or more. *)
WrittenBy(x) ==
  LET v == buffer[(x - 1) % bufsz]
  IN  v \in x .. arrived /\ (v = x \/ v >= x + bufsz)

Written == \A x \in 1 .. arrived : WrittenBy(x)

(* A reader that waits, or is about to without a token, has nothing to read. *)
NoticeOK ==
  /\ reader = "wait" => Held = 0
  /\ reader = "take" /\ Held > 0 => notice

(* One byte per interrupt: the FIFO holds the last bytes that came. *)
ByInterrupt ==
  /\ uart_isr = "none" /\ dma_isr = "none" /\ quiet /\ ~idle_flag /\ ~dma_flag
  /\ ~raced /\ ~ahead /\ counted = arrived
  /\ put_index = arrived % bufsz /\ get_index = (arrived - Held) % bufsz
  /\ is_full => put_index # get_index
  /\ got <= arrived /\ arrived - got <= unread
  /\ Held = IF arrived - got < bufsz THEN arrived - got ELSE bufsz - 1

(* where the handlers are, and what that says about the line *)
HandlersOK ==
  /\ uart_isr # "counted" => InUart = 0
  /\ dma_isr # "counted" => InDma = 0
  /\ uart_isr # "none" => idle_flag
  /\ quiet /\ (~idle_flag \/ uart_isr = "counted") => counted = arrived
  /\ dma_flag => arrived > 0
  /\ driver = "idle" => ~dma_flag /\ dma_isr = "none" /\ ~raced

(* the DMA counter, as the handlers saw it last and as it is *)
CountOK ==
  /\ counted <= arrived /\ last_index = counted % bufsz
  /\ driver = "callbacks" =>
       /\ arrived - counted <= bufsz - last_index
       /\ arrived - counted = bufsz - last_index => dma_flag
       /\ dma_flag /\ ~raced => arrived > counted

(* What is counted and not reported yet leads put_index to last_index, and *)
(* on the first lap the indices have not wrapped.                          *)
IndexOK ==
  /\ is_full => put_index = get_index
  /\ driver = "idle" => put_index + InUart = last_index
  /\ driver = "callbacks" =>
       /\ (put_index + InUart + InDma) % bufsz = last_index
       /\ ~raced => InUart >= 0 /\ InDma >= 0
  /\ arrived < bufsz =>
       /\ put_index + InUart + InDma = counted
       /\ InUart >= 0 /\ InDma >= 0
       /\ ~is_full /\ get_index <= put_index

(* c bytes have been reported *)
Upto(c) ==
  /\ c \in 0 .. counted /\ put_index = c % bufsz
  /\ driver = "callbacks" => c + InUart + InDma = counted
  /\ driver = "idle" /\ uart_isr # "counted" => c = counted

(* The bytes in the FIFO are none that the reader has had. *)
OrderOK == ~raced /\ ~ahead => \E c \in Nat : Upto(c) /\ got + Held <= c

(* As long as nothing is overrun they are the bytes behind the reader's last. *)
KeptOK ==
  Kept =>
    /\ ~ahead /\ arrived - got <= unread
    /\ get_index = got % bufsz /\ Upto(got + Held)

ByDma == HandlersOK /\ CountOK /\ IndexOK /\ OrderOK /\ KeptOK

RxInv ==
  /\ RxTypeOK /\ Written /\ NoticeOK
  /\ driver = "interrupt" => ByInterrupt
  /\ driver # "interrupt" => ByDma

(* The two local variables, one changed *)
LEMMA Lengths ==
  ASSUME NEW r \in [{"uart", "dma"} -> -bufsz .. bufsz], NEW v \in -bufsz .. bufsz
  PROVE  /\ [r EXCEPT !.uart = v] \in [{"uart", "dma"} -> -bufsz .. bufsz]
         /\ [r EXCEPT !.uart = v].uart = v /\ [r EXCEPT !.uart = v].dma = r.dma
         /\ [r EXCEPT !.dma = v] \in [{"uart", "dma"} -> -bufsz .. bufsz]
         /\ [r EXCEPT !.dma = v].dma = v /\ [r EXCEPT !.dma = v].uart = r.uart
OBVIOUS

(* What the type invariant says about the numbers *)
LEMMA RxFacts ==
  ASSUME RxBounds, RxTypeOK
  PROVE  /\ bufsz \in Nat /\ bufsz \in Nat \ {0} /\ bufsz \in Int /\ bufsz > 1
         /\ arrived \in Nat /\ counted \in Nat /\ got \in Nat /\ unread \in Nat
         /\ put_index \in Place /\ get_index \in Place /\ last_index \in Place
         /\ put_index \in Int /\ get_index \in Int /\ last_index \in Int
         /\ is_full \in BOOLEAN
         /\ InUart \in -bufsz .. bufsz /\ InDma \in -bufsz .. bufsz
         /\ InUart \in Int /\ InDma \in Int
         /\ arrived % bufsz \in Place
<1>1. arrived % bufsz \in Place
  <2>1. arrived \in Int /\ bufsz \in Nat \ {0}
    BY DEF RxBounds, RxTypeOK
  <2>2. QED
    BY <2>1, DivLemma, Zenon DEF Place
<1>2. QED
  BY <1>1 DEF RxBounds, RxTypeOK, Place, InUart, InDma

(* The number of bytes in the FIFO *)
LEMMA HeldFacts ==
  ASSUME RxBounds, RxTypeOK
  PROVE  /\ Held = calc_recved_len /\ Held \in 0 .. bufsz /\ Held \in Int
         /\ Held = 0 => put_index = get_index
<1>1. Held = calc_recved_len
  BY RxFacts, FillUsed DEF Held
<1>2. Held \in 0 .. bufsz /\ (Held = 0 => put_index = get_index)
  BY RxFacts DEF Held, Fill, Place
<1>3. QED
  BY <1>1, <1>2, RxFacts

(* The next byte is written. *)
LEMMA WrittenNext ==
  ASSUME RxBounds, RxTypeOK, Written, arrived < MaxBytes, arrived' = arrived + 1,
         buffer' = [buffer EXCEPT ![arrived % bufsz] = arrived + 1]
  PROVE  /\ Written' /\ arrived' \in 0 .. MaxBytes
         /\ buffer' \in [0 .. bufsz - 1 -> 0 .. MaxBytes]
<1>1. bufsz \in Nat \ {0} /\ bufsz \in Int /\ arrived \in Nat
  BY RxFacts
<1> DEFINE w == arrived % bufsz
<1>2. w \in 0 .. bufsz - 1
  BY RxFacts DEF Place
<1>3. MaxBytes \in Nat /\ buffer \in [0 .. bufsz - 1 -> 0 .. MaxBytes]
  BY DEF RxBounds, RxTypeOK
<1>4. buffer' = [buffer EXCEPT ![w] = arrived + 1]
  OBVIOUS
<1>5. ASSUME NEW x \in 1 .. arrived + 1
      PROVE  WrittenBy(x)'
  <2> DEFINE j == (x - 1) % bufsz
  <2>1. x - 1 \in Int /\ arrived \in Int
    BY <1>1
  <2>2. j \in 0 .. bufsz - 1
    BY <1>1, <2>1, DivLemma, Zenon
  <2>3. j = w => x = arrived + 1 \/ x - 1 + bufsz <= arrived
    <3>1. CASE x - 1 < arrived
      <4>1. j = w => (x - 1) + bufsz <= arrived
        BY <1>1, <2>1, <3>1, LapLemma, Zenon
      <4>2. QED
        BY <4>1
    <3>2. CASE ~ (x - 1 < arrived)
      BY <1>1, <3>2
    <3>3. QED
      BY <3>1, <3>2
  <2>4. j # w => x \in 1 .. arrived
    BY <1>1
  <2>5. j # w => buffer[j] \in x .. arrived /\ (buffer[j] = x \/ buffer[j] >= x + bufsz)
    BY <2>4 DEF Written, WrittenBy
  <2> HIDE DEF j, w
  <2>6. /\ buffer'[j] \in x .. arrived + 1
        /\ buffer'[j] = x \/ buffer'[j] >= x + bufsz
    <3>1. CASE j = w
      BY <1>1, <1>2, <1>3, <1>4, <2>3, <3>1
    <3>2. CASE j # w
      <4>1. buffer'[j] = buffer[j]
        BY <1>3, <1>4, <2>2, <3>2
      <4>2. QED
        BY <1>1, <2>5, <3>2, <4>1
    <3>3. QED
      BY <3>1, <3>2
  <2>7. QED
    BY <2>6 DEF WrittenBy, j
<1>6. Written'
  BY <1>1, <1>5 DEF Written
<1> HIDE DEF w
<1>7. QED
  BY <1>1, <1>2, <1>3, <1>4, <1>6

(* A place of the buffer that has been written to *)
LEMMA SlotWritten ==
  ASSUME RxBounds, RxTypeOK, Written, NEW j \in Place, j < arrived
  PROVE  buffer[j] \in 1 .. arrived
<1>1. j + 1 \in 1 .. arrived /\ j \in Int /\ arrived \in Nat
  BY RxFacts DEF Place
<1>2. (j + 1) - 1 = j
  BY <1>1
<1>3. bufsz \in Nat \ {0} /\ j \in 0 .. bufsz - 1
  BY RxFacts DEF Place
<1>4. j % bufsz = j
  BY <1>3, SmallLemma
<1>5. ((j + 1) - 1) % bufsz = j
  BY <1>2, <1>4, Zenon
<1>6. buffer[j] \in j + 1 .. arrived
  BY <1>1, <1>5, Zenon DEF Written, WrittenBy
<1>7. QED
  BY <1>1, <1>6

(* The place of the byte i behind byte b, seen from the place of b *)
LEMMA PlaceOf ==
  ASSUME RxBounds, RxTypeOK, Written, NEW b \in Nat, get_index = b % bufsz,
         NEW i \in Nat \ {0}, b + i <= arrived
  PROVE  LET v == buffer[(get_index + i - 1) % bufsz]
         IN  v \in 1 .. arrived /\ v >= b + i /\ (v = b + i \/ v >= b + i + bufsz)
<1>1. bufsz \in Nat \ {0} /\ b \in Int /\ i - 1 \in Int /\ arrived \in Nat
  BY RxFacts
<1>2. (b + (i - 1)) % bufsz = ((b % bufsz) + (i - 1)) % bufsz
  BY <1>1, ShiftLemma, Zenon
<1>3. b + (i - 1) = (b + i) - 1 /\ get_index + i - 1 = get_index + (i - 1)
  BY <1>1, RxFacts
<1>4. (get_index + i - 1) % bufsz = ((b + i) - 1) % bufsz
  BY <1>2, <1>3, Zenon
<1>5. b + i \in 1 .. arrived
  BY <1>1
<1> DEFINE v == buffer[((b + i) - 1) % bufsz]
<1>6. v \in b + i .. arrived /\ (v = b + i \/ v >= b + i + bufsz)
  BY <1>5, Zenon DEF Written, WrittenBy
<1>7. v = buffer[(get_index + i - 1) % bufsz]
  BY <1>4, Zenon
<1> HIDE DEF v
<1>8. v \in 1 .. arrived /\ v >= b + i /\ (v = b + i \/ v >= b + i + bufsz)
  BY <1>1, <1>6
<1>9. QED
  BY <1>7, <1>8, Zenon

(***************************************************************************)
(* What the reader gets                                                    *)
(***************************************************************************)
(* Contents, without the length's definition *)
LEMMA ContentsAre ==
  ASSUME RxBounds, RxTypeOK
  PROVE  /\ DOMAIN Contents = 1 .. Held
         /\ Contents = [i \in 1 .. Held |-> buffer[(get_index + i - 1) % bufsz]]
         /\ \A i \in 1 .. Held : Contents[i] = buffer[(get_index + i - 1) % bufsz]
BY HeldFacts DEF Contents

(* The bytes that can be read come behind the reader's last, one after the  *)
(* other, as far as they have been counted.                                 *)
InLine(b) ==
  /\ got <= b /\ b + Held = counted /\ get_index = b % bufsz

(* Where the FIFO ends once the handlers have returned *)
LEMMA EndOfFifo ==
  ASSUME RxBounds, RxTypeOK, driver # "interrupt", ByDma, Runs, NEW c \in Nat, Upto(c)
  PROVE  /\ c = counted /\ InUart = 0 /\ InDma = 0
<1>1. InUart = 0 /\ InDma = 0 /\ uart_isr # "counted"
  BY DEF ByDma, HandlersOK, Runs
<1>2. driver \in {"idle", "callbacks"}
  BY DEF RxBounds, RxTypeOK
<1>3. counted \in Nat
  BY RxFacts
<1>4. QED
  BY <1>1, <1>2, <1>3 DEF Upto

(* If b + Held is written at put_index, then b is read at get_index. *)
LEMMA StartOfFifo ==
  ASSUME RxBounds, RxTypeOK, NEW b \in Nat, put_index = (b + Held) % bufsz,
         is_full => put_index = get_index
  PROVE  get_index = b % bufsz
<1>1. /\ bufsz \in Nat \ {0} /\ b \in Int /\ Held \in 0 .. bufsz /\ Held \in Int
      /\ put_index \in Place /\ get_index \in Place
  BY RxFacts, HeldFacts
<1> DEFINE r == b % bufsz
<1>2. r \in 0 .. bufsz - 1
  BY <1>1, DivLemma, Zenon
<1>3. put_index = IF r + Held < bufsz THEN r + Held ELSE r + Held - bufsz
  BY <1>1, StepLemma, Zenon
<1>4. put_index = IF get_index + Held < bufsz THEN get_index + Held
                                             ELSE get_index + Held - bufsz
  <2> DEFINE c == Fill(put_index, get_index, is_full)
  <2>1. is_full \in BOOLEAN /\ (is_full => put_index = get_index)
    BY RxFacts
  <2>2. put_index \in Place /\ get_index \in Place
    BY <1>1
  <2>3. put_index = IF get_index + c < bufsz THEN get_index + c ELSE get_index + c - bufsz
    BY <2>1, <2>2, FillFacts, Zenon
  <2>4. Held = c
    BY DEF Held
  <2> HIDE DEF c
  <2>5. QED
    BY <2>3, <2>4
<1> HIDE DEF r
<1>5. get_index = r
  BY <1>1, <1>2, <1>3, <1>4 DEF Place
<1>6. QED
  BY <1>5 DEF r

(* By DMA *)
LEMMA DmaInLine ==
  ASSUME RxBounds, RxTypeOK, driver # "interrupt", ByDma, Runs, ~raced, ~ahead
  PROVE  InLine(counted - Held) /\ counted - Held \in Nat
<1>1. PICK c \in Nat : Upto(c) /\ got + Held <= c
  BY DEF ByDma, OrderOK
<1>2. c = counted
  BY <1>1, EndOfFifo
<1>3. counted \in Nat /\ Held \in Int /\ Held >= 0 /\ got \in Nat
  BY RxFacts, HeldFacts
<1> DEFINE b == counted - Held
<1>4. b \in Nat /\ got <= b /\ b + Held = counted
  BY <1>1, <1>2, <1>3
<1>5. put_index = counted % bufsz /\ (is_full => put_index = get_index)
  BY <1>1, <1>2 DEF Upto, ByDma, IndexOK
<1> HIDE DEF b
<1>6. put_index = (b + Held) % bufsz
  BY <1>4, <1>5, Zenon
<1>7. get_index = b % bufsz
  BY <1>4, <1>5, <1>6, StartOfFifo, Zenon
<1>8. QED
  BY <1>4, <1>7 DEF InLine, b

(* By interrupt *)
LEMMA InterruptInLine ==
  ASSUME RxBounds, RxTypeOK, ByInterrupt
  PROVE  /\ InLine(counted - Held) /\ counted - Held \in Nat
         /\ Held < bufsz
<1>1. counted \in Nat /\ Held \in Int /\ Held >= 0 /\ got \in Nat /\ bufsz \in Nat /\ bufsz > 1
  BY RxFacts, HeldFacts
<1>2. /\ counted = arrived /\ get_index = (arrived - Held) % bufsz /\ got <= arrived
      /\ Held = IF arrived - got < bufsz THEN arrived - got ELSE bufsz - 1
  BY DEF ByInterrupt
<1>3. got <= counted - Held /\ (counted - Held) + Held = counted /\ Held < bufsz
  BY <1>1, <1>2
<1>4. counted - Held \in Nat
  BY <1>1, <1>3
<1>5. QED
  BY <1>2, <1>3, <1>4 DEF InLine

(* A byte of a FIFO in line is the next one, unless the DMA has written over *)
(* its place what was not counted yet.                                       *)
LEMMA InLineReads ==
  ASSUME RxBounds, RxTypeOK, Written, counted <= arrived, NEW b \in Nat, InLine(b),
         NEW i \in 1 .. Held
  PROVE  /\ Contents[i] \in 1 .. arrived /\ Contents[i] >= b + i
         /\ Contents[i] = b + i \/ Contents[i] > counted
         /\ arrived < b + i + bufsz => Contents[i] = b + i
<1>1. /\ arrived \in Nat /\ counted \in Nat /\ Held \in 0 .. bufsz /\ bufsz \in Nat
  BY RxFacts, HeldFacts
<1>2. b + Held = counted /\ get_index = b % bufsz
  BY DEF InLine
<1>3. i \in Nat \ {0} /\ b + i <= arrived /\ i <= Held
  BY <1>1, <1>2
<1> DEFINE v == buffer[(get_index + i - 1) % bufsz]
<1>4. v \in 1 .. arrived /\ v >= b + i /\ (v = b + i \/ v >= b + i + bufsz)
  BY <1>2, <1>3, PlaceOf, Zenon
<1>5. Contents[i] = v
  BY ContentsAre, Zenon
<1> HIDE DEF v
<1>6. v \in Int
  BY <1>1, <1>4
<1>7. v = b + i \/ v > counted
  BY <1>1, <1>2, <1>3, <1>4, <1>6
<1>8. arrived < b + i + bufsz => v = b + i
  BY <1>1, <1>3, <1>4, <1>6
<1>9. QED
  BY <1>4, <1>5, <1>7, <1>8, Zenon

(* Whatever was overrun, the FIFO shows nothing but bytes that have come. *)
LEMMA ContentsTyped ==
  ASSUME RxBounds, RxTypeOK, Written, Runs,
         driver = "interrupt" => ByInterrupt, driver # "interrupt" => ByDma,
         NEW i \in 1 .. Held
  PROVE  Contents[i] \in 1 .. arrived
<1>1. CASE driver = "interrupt"
  <2>1. ByInterrupt
    BY <1>1
  <2>2. InLine(counted - Held) /\ counted - Held \in Nat
    BY <2>1, InterruptInLine
  <2>3. counted <= arrived
    BY <2>1, RxFacts DEF ByInterrupt
  <2>4. QED
    BY <2>2, <2>3, InLineReads, Zenon
<1>2. CASE driver # "interrupt"
  <2> DEFINE j == (get_index + i - 1) % bufsz
  <2>1. /\ bufsz \in Nat \ {0} /\ get_index \in Int /\ get_index + i - 1 \in Int
        /\ Held \in 0 .. bufsz /\ arrived \in Nat /\ counted \in Nat /\ i \in Int
    BY RxFacts, HeldFacts
  <2>2. j \in 0 .. bufsz - 1
    BY <2>1, DivLemma, Zenon
  <2>3. j < arrived
    <3>1. CASE arrived < bufsz
      <4>1. /\ put_index + InUart + InDma = counted /\ counted <= arrived
            /\ ~is_full /\ get_index <= put_index /\ InUart = 0 /\ InDma = 0
        BY <1>2, <3>1 DEF ByDma, IndexOK, CountOK, HandlersOK, Runs
      <4>2. /\ put_index \in Place /\ get_index \in Place
            /\ Held = IF put_index = get_index THEN 0 ELSE put_index - get_index
        BY <4>1, RxFacts DEF Held, Fill, Place
      <4>3. get_index + i - 1 \in 0 .. bufsz - 1 /\ get_index + i - 1 < put_index
        BY <2>1, <4>2 DEF Place
      <4>4. j = get_index + i - 1
        BY <2>1, <4>3, SmallLemma, Zenon
      <4> HIDE DEF j
      <4>5. QED
        BY <2>1, <4>1, <4>2, <4>3, <4>4 DEF Place
    <3>2. CASE ~ (arrived < bufsz)
      <4> HIDE DEF j
      <4>1. QED
        BY <2>1, <2>2, <3>2
    <3>3. QED
      BY <3>1, <3>2
  <2>4. j \in Place
    BY <2>2 DEF Place
  <2>5. buffer[j] \in 1 .. arrived
    BY <2>3, <2>4, SlotWritten, Zenon
  <2>6. Contents[i] = buffer[j]
    BY ContentsAre, Zenon
  <2>7. QED
    BY <2>5, <2>6, Zenon
<1>3. QED
  BY <1>1, <1>2

(* Nothing is overrun: the bytes behind the reader's last *)
LEMMA KeptContents ==
  ASSUME RxBounds, RxTypeOK, Written, Runs, Kept,
         driver = "interrupt" => ByInterrupt, driver # "interrupt" => ByDma
  PROVE  /\ ~ahead /\ got + Held = counted /\ counted <= arrived /\ get_index = got % bufsz
         /\ \A i \in 1 .. Held : Contents[i] = got + i
<1>1. /\ arrived \in Nat /\ counted \in Nat /\ got \in Nat /\ unread \in Nat
      /\ Held \in 0 .. bufsz /\ Held \in Int /\ bufsz \in Nat /\ bufsz > 1
  BY RxFacts, HeldFacts
<1>2. unread <= Room /\ Room \in {bufsz, bufsz - 1} /\ (driver = "interrupt" => Room = bufsz - 1)
  BY DEF Kept, Room
<1>3. /\ ~ahead /\ got + Held = counted /\ counted <= arrived
      /\ arrived - got <= unread /\ get_index = got % bufsz
  <2>1. CASE driver = "interrupt"
    <3>1. /\ ~ahead /\ counted = arrived /\ arrived - got <= unread /\ got <= arrived
          /\ get_index = (arrived - Held) % bufsz
          /\ Held = IF arrived - got < bufsz THEN arrived - got ELSE bufsz - 1
      BY <2>1 DEF ByInterrupt
    <3>2. got + Held = counted /\ arrived - Held = got
      BY <1>1, <1>2, <2>1, <3>1
    <3>3. QED
      BY <1>1, <3>1, <3>2
  <2>2. CASE driver # "interrupt"
    <3>1. ~ahead /\ arrived - got <= unread /\ get_index = got % bufsz /\ Upto(got + Held)
      BY <2>2 DEF ByDma, KeptOK
    <3>2. got + Held \in Nat
      BY <1>1
    <3>3. got + Held = counted
      BY <2>2, <3>1, <3>2, EndOfFifo
    <3>4. counted <= arrived
      BY <2>2 DEF ByDma, CountOK
    <3>5. QED
      BY <3>1, <3>3, <3>4
  <2>3. QED
    BY <2>1, <2>2
<1>4. InLine(got)
  BY <1>1, <1>3 DEF InLine
<1>5. ASSUME NEW i \in 1 .. Held
      PROVE  Contents[i] = got + i
  <2>1. arrived < got + i + bufsz
    BY <1>1, <1>2, <1>3
  <2>2. QED
    BY <1>1, <1>3, <1>4, <2>1, InLineReads, Zenon
<1>6. QED
  BY <1>3, <1>5

(***************************************************************************)
(* What the handlers report                                                *)
(***************************************************************************)
(* RT_SERIAL_EVENT_RX_DMADONE with a length *)
Report(len) ==
  IF len # 0 THEN rt_dma_recv_update_put_index(len) /\ rx_indicate
             ELSE UNCHANGED <<put_index, get_index, is_full, user>>

(* How many bytes that can be *)
LEMMA FillRange ==
  ASSUME bufsz \in Nat, NEW p \in Place, NEW g \in Place, NEW f \in BOOLEAN
  PROVE  Fill(p, g, f) \in 0 .. bufsz
BY DEF Fill, Place

(* The number of bytes after a step *)
LEMMA HeldNext ==
  ASSUME RxBounds, put_index' \in Place, get_index' \in Place, is_full' \in BOOLEAN
  PROVE  Held' = calc_recved_len' /\ Held' \in 0 .. bufsz /\ Held' \in Int
<1>1. put_index' \in Int /\ get_index' \in Int
  BY DEF RxBounds, Place
<1>2. Held' = calc_recved_len'
  BY <1>1, FillUsedNext DEF Held
<1>3. Held' \in 0 .. bufsz
  <2>1. Held' = Fill(put_index', get_index', is_full')
    BY DEF Held, Fill
  <2>2. bufsz \in Nat
    BY DEF RxBounds
  <2>3. Fill(put_index', get_index', is_full') \in 0 .. bufsz
    BY <2>2, FillRange
  <2>4. QED
    BY <2>1, <2>3
<1>4. QED
  BY <1>2, <1>3 DEF RxBounds

(* The reader hears of bytes that are there. *)
LEMMA Indicates ==
  ASSUME RxBounds, RxTypeOK, put_index' \in Place, get_index' \in Place,
         is_full' \in BOOLEAN, rx_indicate
  PROVE  /\ NoticeOK' /\ reader' \in {"read", "take", "wait"} /\ notice' \in BOOLEAN
<1>1. Held' = calc_recved_len' /\ Held' \in 0 .. bufsz /\ bufsz \in Nat
  BY HeldNext DEF RxBounds
<1>2. reader \in {"read", "take", "wait"} /\ notice \in BOOLEAN
  BY DEF RxTypeOK
<1>3. Held' = 0 \/ Held' > 0
  BY <1>1
<1>4. CASE Held' = 0
  <2>1. reader' = reader /\ notice' = notice
    BY <1>1, <1>4 DEF rx_indicate, user
  <2>2. ~ (Held' > 0)
    BY <1>4
  <2>3. QED
    BY <1>2, <1>4, <2>1, <2>2 DEF NoticeOK
<1>5. CASE Held' > 0 /\ reader = "wait"
  <2>1. ~ (Held' = 0) /\ reader' = "read" /\ notice' = notice
    BY <1>1, <1>5 DEF rx_indicate
  <2>2. QED
    BY <1>2, <2>1 DEF NoticeOK
<1>6. CASE Held' > 0 /\ reader # "wait"
  <2>1. ~ (Held' = 0) /\ reader' = reader /\ notice' = TRUE
    BY <1>1, <1>6 DEF rx_indicate
  <2>2. QED
    BY <1>2, <1>6, <2>1 DEF NoticeOK
<1>7. QED
  BY <1>3, <1>4, <1>5, <1>6

(* A report leaves the FIFO in shape and the reader informed. *)
LEMMA ReportKeeps ==
  ASSUME RxBounds, RxTypeOK, NoticeOK, is_full => put_index = get_index,
         NEW len \in Int, Report(len)
  PROVE  /\ put_index' \in Place /\ get_index' \in Place /\ is_full' \in BOOLEAN
         /\ is_full' => put_index' = get_index'
         /\ NoticeOK' /\ reader' \in {"read", "take", "wait"} /\ notice' \in BOOLEAN
<1>1. put_index \in Place /\ get_index \in Place /\ is_full \in BOOLEAN
  BY RxFacts
<1>2. CASE len # 0
  <2>1. rt_dma_recv_update_put_index(len) /\ rx_indicate
    BY <1>2 DEF Report
  <2>2. /\ put_index' \in Place /\ get_index' \in Place /\ is_full' \in BOOLEAN
        /\ is_full' => put_index' = get_index'
    BY <1>1, <2>1, PutTyped
  <2>3. QED
    BY <2>1, <2>2, Indicates
<1>3. CASE len = 0
  <2>1. UNCHANGED <<put_index, get_index, is_full, reader, notice>>
    BY <1>3 DEF Report, user
  <2>2. NoticeOK'
    BY <2>1 DEF NoticeOK, Held
  <2>3. reader \in {"read", "take", "wait"} /\ notice \in BOOLEAN
    BY DEF RxTypeOK
  <2>4. QED
    BY <1>1, <2>1, <2>2, <2>3
<1>4. QED
  BY <1>2, <1>3

(* A report inside the buffer *)
LEMMA ReportWithin ==
  ASSUME RxBounds, RxTypeOK, is_full => put_index = get_index,
         NEW len \in Int, put_index + len \in Place, Report(len)
  PROVE  LET e == IF len >= 0 THEN len ELSE len + bufsz
         IN  /\ put_index' = put_index + len
             /\ Held' <= Held + e
             /\ Held + e < bufsz => Held' = Held + e /\ get_index' = get_index
             /\ len >= 0 /\ ~is_full /\ get_index <= put_index =>
                  ~is_full' /\ get_index' = get_index
<1>1. put_index \in Place /\ get_index \in Place /\ is_full \in BOOLEAN /\ put_index \in Int
  BY RxFacts
<1>2. CASE len # 0
  <2>1. rt_dma_recv_update_put_index(len)
    BY <1>2 DEF Report
  <2>2. QED
    BY <1>1, <2>1, PutWithin DEF Held
<1>3. CASE len = 0
  <2>1. UNCHANGED <<put_index, get_index, is_full>>
    BY <1>3 DEF Report
  <2>2. Held' = Held /\ Held \in Int
    BY <2>1, HeldFacts DEF Held
  <2>3. QED
    BY <1>1, <1>3, <2>1, <2>2
<1>4. QED
  BY <1>2, <1>3

(* A report of the DMA's callbacks *)
LEMMA ReportFollows ==
  ASSUME RxBounds, RxTypeOK, driver = "callbacks", is_full => put_index = get_index,
         NEW len \in -bufsz .. bufsz, Report(len)
  PROVE  /\ put_index' = (put_index + len) % bufsz
         /\ len >= 0 => /\ Held' <= Held + len
                        /\ Held + len <= bufsz =>
                             Held' = Held + len /\ get_index' = get_index
<1>1. /\ put_index \in Place /\ get_index \in Place /\ is_full \in BOOLEAN /\ put_index \in Int
      /\ bufsz \in Nat \ {0} /\ "callbacks" \in Driver
  BY RxFacts DEF RxTypeOK
<1>2. Held \in 0 .. bufsz
  BY HeldFacts
<1>3. CASE len # 0
  <2>1. rt_dma_recv_update_put_index(len)
    BY <1>3 DEF Report
  <2>2. put_index' = (put_index + len) % bufsz
    BY <1>1, <2>1, PutFollows, Zenon
  <2>3. ASSUME len >= 0
        PROVE  /\ Held' = IF Held + len < bufsz THEN Held + len ELSE bufsz
               /\ Held + len <= bufsz => get_index' = get_index
    <3>1. len \in 0 .. bufsz
      BY <1>1, <2>3
    <3>2. QED
      BY <1>1, <2>1, <3>1, PutFills DEF Held
  <2>4. len >= 0 => /\ Held' <= Held + len
                    /\ Held + len <= bufsz => Held' = Held + len /\ get_index' = get_index
    <3> SUFFICES ASSUME len >= 0
                 PROVE  /\ Held' <= Held + len
                        /\ Held + len <= bufsz =>
                             Held' = Held + len /\ get_index' = get_index
      OBVIOUS
    <3>1. /\ Held' = IF Held + len < bufsz THEN Held + len ELSE bufsz
          /\ Held + len <= bufsz => get_index' = get_index
      BY <2>3
    <3>2. QED
      BY <1>1, <1>2, <3>1
  <2>5. QED
    BY <2>2, <2>4, Zenon
<1>4. CASE len = 0
  <2>1. UNCHANGED <<put_index, get_index, is_full>>
    BY <1>4 DEF Report
  <2>2. Held' = Held
    BY <2>1 DEF Held
  <2>3. put_index % bufsz = put_index /\ put_index + len = put_index
    <3>1. put_index \in 0 .. bufsz - 1
      BY <1>1 DEF Place
    <3>2. QED
      BY <1>1, <1>4, <3>1, SmallLemma
  <2>4. put_index' = (put_index + len) % bufsz
    BY <2>1, <2>3, Zenon
  <2>5. Held' <= Held + len /\ Held' = Held + len
    BY <1>2, <1>4, <2>2
  <2>6. QED
    BY <2>1, <2>4, <2>5, Zenon
<1>5. QED
  BY <1>3, <1>4

(* A report of the DMA's callbacks, while the other handler may have counted *)
LEMMA CallbackReport ==
  ASSUME RxBounds, RxTypeOK, driver = "callbacks", ByDma,
         NEW len \in -bufsz .. bufsz, NEW rest \in -bufsz .. bufsz, Report(len),
         \/ InUart = len /\ InDma = rest /\ InUart' = 0 /\ InDma' = rest
         \/ InDma = len /\ InUart = rest /\ InDma' = 0 /\ InUart' = rest,
         UNCHANGED <<driver, arrived, counted, last_index, got, unread, raced, ahead>>
  PROVE  IndexOK' /\ OrderOK' /\ KeptOK'
<1>1. /\ bufsz \in Nat \ {0} /\ bufsz \in Nat /\ bufsz \in Int /\ put_index \in Int
      /\ arrived \in Nat /\ counted \in Nat /\ got \in Nat /\ unread \in Nat
      /\ len \in Int /\ rest \in Int /\ put_index \in Place /\ last_index \in Place
      /\ Held \in 0 .. bufsz /\ Held \in Int /\ counted <= arrived
      /\ last_index = counted % bufsz
  BY RxFacts, HeldFacts DEF ByDma, CountOK
<1>2. /\ put_index + InUart + InDma = (put_index + len) + rest
      /\ \A c \in Int : c + InUart + InDma = (c + len) + rest
      /\ InUart >= 0 /\ InDma >= 0 <=> len >= 0 /\ rest >= 0
      /\ rest >= 0 => InUart' >= 0 /\ InDma' >= 0
      /\ \A c \in Int : c + InUart' + InDma' = c + rest
  BY <1>1
<1>3. is_full => put_index = get_index
  BY DEF ByDma, IndexOK
<1>4. /\ is_full' => put_index' = get_index'
      /\ put_index' \in Place /\ get_index' \in Place
  <2>1. /\ is_full' => put_index' = get_index'
        /\ put_index' \in Place /\ get_index' \in Place
    <3>1. CASE len # 0
      <4>1. rt_dma_recv_update_put_index(len)
        BY <3>1 DEF Report
      <4>2. put_index \in Place /\ get_index \in Place /\ is_full \in BOOLEAN
        BY RxFacts
      <4>3. QED
        BY <1>1, <4>1, <4>2, PutTyped
    <3>2. CASE len = 0
      BY <1>3, <3>2, RxFacts DEF Report
    <3>3. QED
      BY <3>1, <3>2
  <2>2. QED
    BY <2>1
<1>5. /\ put_index' = (put_index + len) % bufsz
      /\ len >= 0 => /\ Held' <= Held + len
                     /\ Held + len <= bufsz => Held' = Held + len /\ get_index' = get_index
  BY <1>3, ReportFollows
<1>6. put_index' \in Int /\ Held' \in Int
  <2>1. is_full' \in BOOLEAN
    <3>1. CASE len # 0
      <4>1. rt_dma_recv_update_put_index(len)
        BY <3>1 DEF Report
      <4>2. put_index \in Place /\ get_index \in Place /\ is_full \in BOOLEAN
        BY RxFacts
      <4>3. QED
        BY <1>1, <4>1, <4>2, PutTyped
    <3>2. CASE len = 0
      BY <3>2, RxFacts DEF Report
    <3>3. QED
      BY <3>1, <3>2
  <2>2. QED
    BY <1>1, <1>4, <2>1, HeldNext DEF Place
<1>7. (put_index' + InUart' + InDma') % bufsz = last_index'
  <2> DEFINE x == put_index + len
  <2>1. x \in Int
    BY <1>1
  <2>2. (x + rest) % bufsz = ((x % bufsz) + rest) % bufsz
    BY <1>1, <2>1, ShiftLemma, Zenon
  <2>3. (x + rest) % bufsz = last_index
    BY <1>2, Zenon DEF ByDma, IndexOK
  <2>4. put_index' + InUart' + InDma' = (x % bufsz) + rest
    <3>1. put_index' + InUart' + InDma' = put_index' + rest
      BY <1>2, <1>6
    <3>2. QED
      BY <1>5, <3>1, Zenon
  <2>5. QED
    BY <2>2, <2>3, <2>4, Zenon
<1>8. ~raced' => InUart' >= 0 /\ InDma' >= 0
  BY <1>2 DEF ByDma, IndexOK
<1>9. ASSUME arrived' < bufsz
      PROVE  /\ put_index' + InUart' + InDma' = counted'
             /\ InUart' >= 0 /\ InDma' >= 0
             /\ ~is_full' /\ get_index' <= put_index'
  <2>1. /\ (put_index + len) + rest = counted /\ len >= 0 /\ rest >= 0
        /\ ~is_full /\ get_index <= put_index
    BY <1>2, <1>9 DEF ByDma, IndexOK
  <2>2. put_index + len \in Place
    BY <1>1, <1>9, <2>1 DEF Place
  <2>3. put_index' = put_index + len /\ ~is_full' /\ get_index' = get_index
    BY <1>1, <1>3, <2>1, <2>2, ReportWithin
  <2>4. QED
    BY <1>1, <1>2, <1>6, <2>1, <2>3, RxFacts
<1>10. IndexOK'
  BY <1>4, <1>7, <1>8, <1>9 DEF IndexOK
<1>11. ASSUME NEW c \in Nat, Upto(c), len >= 0, rest >= 0
       PROVE  /\ c + len \in 0 .. counted /\ put_index' = (c + len) % bufsz
              /\ (c + len) + InUart' + InDma' = counted
  <2>1. /\ (c + len) + rest = counted /\ put_index = c % bufsz
    BY <1>2, <1>11 DEF Upto
  <2>2. c + len \in 0 .. counted
    BY <1>1, <1>11, <2>1
  <2>3. (c + len) % bufsz = ((c % bufsz) + len) % bufsz
    <3>1. c \in Int
      OBVIOUS
    <3>2. QED
      BY <1>1, <3>1, ShiftLemma, Zenon
  <2>4. put_index' = (c + len) % bufsz
    BY <1>5, <2>1, <2>3, Zenon
  <2>5. (c + len) + InUart' + InDma' = counted
    <3>1. c + len \in Int
      BY <2>2
    <3>2. QED
      BY <1>2, <2>1, <3>1
  <2>6. QED
    BY <2>2, <2>4, <2>5, Zenon
<1>12. OrderOK'
  <2> SUFFICES ASSUME ~raced', ~ahead'
               PROVE  \E c \in Nat : Upto(c)' /\ got' + Held' <= c
    BY DEF OrderOK
  <2>1. PICK c \in Nat : Upto(c) /\ got + Held <= c
    BY DEF ByDma, OrderOK
  <2>2. len >= 0 /\ rest >= 0
    BY <1>2 DEF ByDma, IndexOK
  <2> DEFINE d == c + len
  <2>3. /\ d \in 0 .. counted /\ put_index' = d % bufsz
        /\ d + InUart' + InDma' = counted
    BY <1>11, <2>1, <2>2, Zenon
  <2>4. got' + Held' <= d /\ d \in Nat
    <3>1. Held' <= Held + len
      BY <1>5, <2>2, Zenon
    <3> DEFINE h == Held'
    <3>2. got \in Nat /\ Held \in Int /\ h \in Int /\ len \in Int /\ got + Held <= c
      BY <1>1, <1>6, <2>1
    <3>3. got' = got /\ h <= Held + len
      BY <3>1
    <3> HIDE DEF h
    <3>4. got + h <= c + len /\ c + len \in Nat
      BY <2>2, <3>2, <3>3
    <3>5. QED
      BY <3>3, <3>4, Zenon DEF h
  <2> HIDE DEF d
  <2>5. Upto(d)'
    BY <2>3 DEF Upto
  <2>6. QED
    BY <2>4, <2>5
<1>13. KeptOK'
  <2> SUFFICES ASSUME Kept'
               PROVE  /\ ~ahead' /\ arrived' - got' <= unread'
                      /\ get_index' = got' % bufsz /\ Upto(got + Held)'
    BY DEF KeptOK
  <2>1. Kept /\ ~raced /\ unread <= bufsz
    BY DEF Kept, Room
  <2>2. ~ahead /\ arrived - got <= unread /\ get_index = got % bufsz /\ Upto(got + Held)
    BY <2>1 DEF ByDma, KeptOK
  <2>3. len >= 0 /\ rest >= 0
    BY <1>2, <2>1 DEF ByDma, IndexOK
  <2> DEFINE c == got + Held
             d == c + len
  <2>4. c \in Nat /\ Upto(c)
    BY <1>1, <2>2
  <2>5. /\ d \in 0 .. counted /\ put_index' = d % bufsz
        /\ d + InUart' + InDma' = counted
    BY <1>11, <2>3, <2>4, Zenon
  <2>6. Held + len <= bufsz
    <3>1. d \in 0 .. counted
      BY <2>5, Zenon
    <3>2. arrived - got <= unread
      BY <2>2, Zenon
    <3>3. QED
      BY <1>1, <2>1, <3>1, <3>2
  <2>7. Held' = Held + len /\ get_index' = get_index
    BY <1>5, <2>3, <2>6, Zenon
  <2>8. d = got' + Held'
    BY <1>1, <2>7
  <2> HIDE DEF c, d
  <2>9. Upto(got + Held)'
    BY <2>5, <2>8 DEF Upto
  <2>10. QED
    BY <2>2, <2>7, <2>9, Zenon
<1>14. QED
  BY <1>10, <1>12, <1>13

(* A report of the idle line, where nothing else is counted *)
LEMMA IdleLineReport ==
  ASSUME RxBounds, RxTypeOK, driver = "idle", ByDma, uart_isr = "counted",
         Report(InUart), InUart' = 0, InDma' = 0, uart_isr' = "none",
         UNCHANGED <<driver, arrived, counted, last_index, got, unread, raced, ahead>>
  PROVE  IndexOK' /\ OrderOK' /\ KeptOK'
<1> DEFINE len == InUart
           p == put_index
           l == counted % bufsz
           e == IF len >= 0 THEN len ELSE len + bufsz
<1>1. /\ bufsz \in Nat \ {0} /\ bufsz \in Nat /\ bufsz \in Int
      /\ arrived \in Nat /\ counted \in Nat /\ got \in Nat /\ unread \in Nat
      /\ len \in Int /\ p \in Int /\ p \in Place /\ get_index \in Int
      /\ Held \in 0 .. bufsz /\ Held \in Int /\ InDma = 0 /\ driver # "callbacks"
      /\ dma_isr = "none"
  BY RxFacts, HeldFacts DEF ByDma, HandlersOK
<1>2. /\ counted <= arrived /\ last_index = l /\ p + len = l
      /\ is_full => put_index = get_index
  BY DEF ByDma, CountOK, IndexOK
<1>3. l \in Place /\ last_index \in Int
  BY <1>2, RxFacts
<1>4. /\ put_index' = p + len
      /\ Held' <= Held + e
      /\ Held + e < bufsz => Held' = Held + e /\ get_index' = get_index
      /\ len >= 0 /\ ~is_full /\ get_index <= put_index =>
           ~is_full' /\ get_index' = get_index
  <2>1. put_index + InUart \in Place
    BY <1>2, <1>3
  <2>2. QED
    BY <1>1, <1>2, <2>1, ReportWithin
<1>5. /\ is_full' => put_index' = get_index'
      /\ Held' \in Int
  <2>1. /\ put_index' \in Place /\ get_index' \in Place /\ is_full' \in BOOLEAN
        /\ is_full' => put_index' = get_index'
    <3>1. CASE len # 0
      <4>1. rt_dma_recv_update_put_index(InUart)
        BY <3>1 DEF Report
      <4>2. put_index \in Place /\ get_index \in Place /\ is_full \in BOOLEAN
        BY RxFacts
      <4>3. InUart \in Int
        BY <1>1
      <4>4. QED
        BY <4>1, <4>2, <4>3, PutTyped
    <3>2. CASE len = 0
      BY <1>2, <3>2, RxFacts DEF Report
    <3>3. QED
      BY <3>1, <3>2
  <2>2. QED
    BY <2>1, HeldNext
<1>6. e \in 0 .. bufsz - 1 /\ e \in Int /\ e \in 0 .. bufsz
  <2> HIDE DEF l, len, p
  <2>1. QED
    BY <1>1, <1>2, <1>3 DEF Place
<1>7. ASSUME NEW c \in Nat, Upto(c)
      PROVE  c + e <= counted /\ (counted - (c + e) < bufsz => c + e = counted)
  <2>1. c <= counted /\ p = c % bufsz /\ c \in Int
    BY <1>7 DEF Upto
  <2>2. (c + e) % bufsz = IF (c % bufsz) + e < bufsz THEN (c % bufsz) + e
                                                   ELSE (c % bufsz) + e - bufsz
    BY <1>1, <1>6, <2>1, StepLemma, Zenon
  <2>3. (c + e) % bufsz = IF p + e < bufsz THEN p + e ELSE p + e - bufsz
    BY <2>1, <2>2, Zenon
  <2>4. (IF p + e < bufsz THEN p + e ELSE p + e - bufsz) = l
    <3> HIDE DEF l, len, p
    <3>1. QED
      BY <1>1, <1>2, <1>3 DEF Place
  <2> DEFINE x == c + e
  <2>5. x \in Int /\ counted \in Int
    BY <1>1, <1>6, <2>1
  <2>6. x % bufsz = counted % bufsz
    BY <2>3, <2>4, Zenon
  <2>7. x = c + e /\ e \in 0 .. bufsz - 1
    BY <1>6
  <2> HIDE DEF x, e
  <2>8. counted < x => counted + bufsz <= x
    BY <1>1, <2>5, <2>6, LapLemma, Zenon
  <2>9. x < counted => x + bufsz <= counted
    BY <1>1, <2>5, <2>6, LapLemma, Zenon
  <2>10. x <= counted
    BY <1>1, <2>1, <2>5, <2>7, <2>8
  <2>11. counted - x < bufsz => x = counted
    BY <1>1, <2>5, <2>9, <2>10
  <2>12. QED
    BY <2>7, <2>10, <2>11, Zenon
<1>8. put_index' = last_index'
  BY <1>2, <1>4
<1>9. ASSUME arrived' < bufsz
      PROVE  /\ put_index' + InUart' + InDma' = counted'
             /\ InUart' >= 0 /\ InDma' >= 0
             /\ ~is_full' /\ get_index' <= put_index'
  <2>1. p + len + InDma = counted /\ len >= 0 /\ ~is_full /\ get_index <= p
    BY <1>9 DEF ByDma, IndexOK
  <2>2. /\ put_index' = p + len /\ ~is_full' /\ get_index' = get_index
    BY <1>4, <2>1, Zenon
  <2> HIDE DEF p, len
  <2>3. put_index' = counted /\ get_index <= put_index' /\ counted \in Int
    BY <1>1, <2>1, <2>2
  <2>4. QED
    BY <2>2, <2>3
<1>10. IndexOK'
  <2>1. put_index' + InUart' = last_index'
    BY <1>3, <1>8
  <2>2. QED
    BY <1>1, <1>5, <1>9, <2>1 DEF IndexOK
<1>11. Upto(counted)'
  <2>1. put_index' = counted % bufsz
    BY <1>2, <1>8
  <2>2. counted \in 0 .. counted
    BY <1>1
  <2>3. QED
    BY <1>1, <2>1, <2>2 DEF Upto
<1>12. OrderOK'
  <2> SUFFICES ASSUME ~raced', ~ahead'
               PROVE  \E c \in Nat : Upto(c)' /\ got' + Held' <= c
    BY DEF OrderOK
  <2>1. PICK c \in Nat : Upto(c) /\ got + Held <= c
    BY DEF ByDma, OrderOK
  <2>2. c + e <= counted
    BY <1>7, <2>1
  <2>3. got + Held <= c /\ Held' <= Held + e
    BY <1>4, <2>1, Zenon
  <2> HIDE DEF e
  <2>4. got' + Held' <= counted /\ counted \in Nat
    <3> DEFINE h == Held'
    <3>1. got \in Int /\ Held \in Int /\ c \in Int /\ e \in Int /\ counted \in Nat /\ h \in Int
      BY <1>1, <1>5, <1>6
    <3>2. got' = got /\ h <= Held + e
      BY <2>3
    <3> HIDE DEF h
    <3>3. got + h <= counted
      BY <2>2, <2>3, <3>1, <3>2
    <3>4. QED
      BY <3>1, <3>2, <3>3, Zenon DEF h
  <2>5. QED
    BY <1>11, <2>4
<1>13. KeptOK'
  <2> SUFFICES ASSUME Kept'
               PROVE  /\ ~ahead' /\ arrived' - got' <= unread'
                      /\ get_index' = got' % bufsz /\ Upto(got + Held)'
    BY DEF KeptOK
  <2>1. Kept /\ unread <= bufsz - 1
    BY <1>1 DEF Kept, Room
  <2>2. ~ahead /\ arrived - got <= unread /\ get_index = got % bufsz /\ Upto(got + Held)
    BY <2>1 DEF ByDma, KeptOK
  <2> DEFINE c == got + Held
  <2>3. c \in Nat /\ Upto(c)
    BY <1>1, <2>2
  <2>4. c + e <= counted /\ (counted - (c + e) < bufsz => c + e = counted)
    BY <1>7, <2>3, Zenon
  <2>5. arrived - got <= unread
    BY <2>2, Zenon
  <2> HIDE DEF e
  <2>6. /\ bufsz \in Nat /\ arrived \in Int /\ counted \in Int /\ got \in Int /\ unread \in Int
        /\ Held \in Int /\ Held >= 0 /\ e \in Int /\ e >= 0 /\ counted <= arrived
    BY <1>1, <1>2, <1>6
  <2>7. Held + e < bufsz
    BY <2>1, <2>4, <2>5, <2>6
  <2>8. c + e = counted
    BY <2>1, <2>4, <2>5, <2>6
  <2>9. Held' = Held + e /\ get_index' = get_index
    BY <1>4, <2>7, Zenon
  <2>10. got' + Held' = counted'
    BY <2>6, <2>8, <2>9
  <2>11. Upto(got + Held)'
    BY <1>11, <2>10 DEF Upto
  <2>12. QED
    BY <2>2, <2>9, <2>11, Zenon
<1>14. QED
  BY <1>10, <1>12, <1>13

(***************************************************************************)
(* The steps                                                               *)
(***************************************************************************)
(* The constants of a FIFO whose size fits into a 16-bit index a whole      *)
(* number of times; only the reports of the DMA's callbacks need that.      *)
LEMMA RxBoundsUsed ==
  ASSUME "callbacks" \in Driver => 2 ^ 16 % bufsz = 0
  PROVE  RxBounds
<1>1. /\ Driver \subseteq {"interrupt", "idle", "callbacks"}
      /\ bufsz \in Nat /\ bufsz > 1 /\ bufsz < Wide /\ MaxBytes \in Nat
  BY SerialAssumption DEF Wide
<1>2. ASSUME "callbacks" \in Driver
      PROVE  WrapsWhole /\ 2 * bufsz <= Wide
  <2>1. WrapsWhole
    BY <1>2, Zenon DEF WrapsWhole, Wide
  <2> DEFINE q == Wide \div bufsz
  <2>2. Wide \in Int /\ bufsz \in Nat \ {0} /\ bufsz \in Int
    BY <1>1, WideIsNat
  <2>3. Wide = bufsz * q + 0 /\ q \in Int
    BY <2>1, <2>2, DivLemma, Zenon DEF WrapsWhole
  <2> HIDE DEF q
  <2>4. bufsz * q \in Int
    BY <2>2, <2>3
  <2>5. bufsz * q = Wide
    BY <2>3, <2>4
  <2>6. ~ (q <= 1)
    <3>1. ASSUME q <= 1 PROVE bufsz * q <= bufsz
      BY <2>2, <2>3, <3>1
    <3>2. QED
      BY <1>1, <2>2, <2>5, <3>1
  <2>7. bufsz * 2 <= bufsz * q
    BY <2>2, <2>3, <2>6
  <2>8. QED
    BY <2>1, <2>2, <2>5, <2>7
<1>3. QED
  BY <1>1, <1>2 DEF RxBounds

(* The next place of the ring *)
LEMMA NextPlace ==
  ASSUME bufsz \in Nat \ {0}, bufsz > 1, NEW p \in Place
  PROVE  /\ (p + 1) % bufsz = IF p + 1 < bufsz THEN p + 1 ELSE 0
         /\ (p + 1) % bufsz \in Place
<1>1. p \in 0 .. bufsz - 1 /\ p \in Int /\ 1 \in 0 .. bufsz
  BY DEF Place
<1>2. (p + 1) % bufsz = IF (p % bufsz) + 1 < bufsz THEN (p % bufsz) + 1
                                                  ELSE (p % bufsz) + 1 - bufsz
  BY <1>1, StepLemma, Zenon
<1>3. p % bufsz = p
  BY <1>1, SmallLemma, Zenon
<1>4. (p + 1) % bufsz = IF p + 1 < bufsz THEN p + 1 ELSE p + 1 - bufsz
  BY <1>2, <1>3, Zenon
<1> DEFINE q == (p + 1) % bufsz
<1>5. q = IF p + 1 < bufsz THEN p + 1 ELSE p + 1 - bufsz
  BY <1>4
<1> HIDE DEF q
<1>6. q = (IF p + 1 < bufsz THEN p + 1 ELSE 0) /\ q \in Place
  BY <1>1, <1>5 DEF Place
<1>7. QED
  BY <1>6 DEF q

(* What a step that leaves the FIFO alone leaves alone *)
LEMMA SameFifo ==
  ASSUME UNCHANGED fifo
  PROVE  /\ Held' = Held /\ put_index' = put_index /\ get_index' = get_index
         /\ is_full' = is_full /\ buffer' = buffer
BY DEF fifo, Held

(* The buffer and the number of bytes *)
LEMMA SameBytes ==
  ASSUME Written, UNCHANGED <<buffer, arrived>>
  PROVE  Written'
BY DEF Written, WrittenBy

(* The drivers *)
LEMMA DriversAre ==
  ASSUME RxBounds, RxInv
  PROVE  /\ RxTypeOK /\ Written /\ NoticeOK
         /\ driver \in {"interrupt", "idle", "callbacks"}
         /\ driver = "interrupt" => ByInterrupt
         /\ driver # "interrupt" => ByDma
BY DEF RxBounds, RxInv, RxTypeOK

(* RT_SERIAL_EVENT_RX_IND *)
LEMMA RxIndKeeps ==
  ASSUME RxBounds, RxInv, RxInd
  PROVE  RxInv'
<1> DEFINE p == put_index
           g == get_index
           q == (p + 1) % bufsz
           r == (g + 1) % bufsz
<1>1. RxTypeOK /\ Written /\ NoticeOK /\ ByInterrupt /\ driver = "interrupt"
  BY DEF RxInv, RxInd
<1>2. /\ bufsz \in Nat \ {0} /\ bufsz \in Nat /\ bufsz > 1 /\ bufsz \in Int
      /\ arrived \in Nat /\ got \in Nat /\ unread \in Nat /\ MaxBytes \in Nat
      /\ p \in Place /\ g \in Place /\ p \in Int /\ g \in Int
      /\ Held \in 0 .. bufsz /\ Held \in Int /\ is_full \in BOOLEAN
  BY <1>1, RxFacts, HeldFacts DEF RxBounds
<1>3. /\ arrived < MaxBytes /\ arrived' = arrived + 1
      /\ unread' = IF arrived + 1 - got > unread THEN arrived + 1 - got ELSE unread
      /\ put_index' = q /\ counted' = arrived + 1
      /\ IF q = g THEN get_index' = r /\ is_full' = TRUE
                  ELSE get_index' = g /\ is_full' = is_full
      /\ rx_indicate /\ driver' = driver /\ quiet' = quiet /\ idle_flag' = idle_flag
      /\ dma_flag' = dma_flag /\ uart_isr' = uart_isr /\ dma_isr' = dma_isr
      /\ recv_len' = recv_len /\ last_index' = last_index /\ got' = got
      /\ handed' = handed /\ raced' = raced /\ ahead' = ahead
  BY DEF RxInd, Received, isr
<1>4. /\ put_index = arrived % bufsz /\ g = (arrived - Held) % bufsz
      /\ is_full => p # g
  BY <1>1 DEF ByInterrupt
<1>5. /\ Written' /\ arrived' \in 0 .. MaxBytes
      /\ buffer' \in [0 .. bufsz - 1 -> 0 .. MaxBytes]
  <2>1. buffer' = [buffer EXCEPT ![arrived % bufsz] = arrived + 1]
    BY <1>4 DEF RxInd
  <2>2. QED
    BY <1>1, <1>3, <2>1, WrittenNext
<1>6. /\ q = (IF p + 1 < bufsz THEN p + 1 ELSE 0) /\ q \in Place
      /\ r = (IF g + 1 < bufsz THEN g + 1 ELSE 0) /\ r \in Place
  BY <1>2, NextPlace, Zenon
<1>7. q = (arrived + 1) % bufsz
  <2>1. arrived \in Int /\ 1 \in Int
    BY <1>2
  <2>2. QED
    BY <1>2, <1>4, <2>1, ShiftLemma, Zenon
<1>8. r = ((arrived - Held) + 1) % bufsz
  <2>1. arrived - Held \in Int /\ 1 \in Int
    BY <1>2
  <2>2. QED
    BY <1>2, <1>4, <2>1, ShiftLemma, Zenon
<1>9. put_index' \in Place /\ get_index' \in Place /\ is_full' \in BOOLEAN
  BY <1>2, <1>3, <1>6, Zenon
<1> HIDE DEF q, r
<1>10. /\ q = g => Held = bufsz - 1 /\ Held' = bufsz - 1 /\ r # g
       /\ q # g => Held < bufsz - 1 /\ Held' = Held + 1
  <2>1. Held = Fill(p, g, is_full) /\ Held' = Fill(q, get_index', is_full')
    BY <1>3 DEF Held, Fill
  <2>2. q = g => Held = bufsz - 1 /\ Held' = bufsz - 1 /\ r # g
    BY <1>2, <1>3, <1>4, <1>6, <2>1 DEF Fill, Place
  <2>3. q # g => Held < bufsz - 1 /\ Held' = Held + 1
    BY <1>2, <1>3, <1>4, <1>6, <2>1 DEF Fill, Place
  <2>4. QED
    BY <2>2, <2>3
<1>11. get_index' = (arrived' - Held') % bufsz
  <2>1. CASE q = g
    <3>1. arrived' - Held' = (arrived - Held) + 1
      BY <1>2, <1>3, <1>10, <2>1
    <3>2. QED
      BY <1>3, <1>8, <2>1, <3>1, Zenon
  <2>2. CASE q # g
    <3>1. arrived' - Held' = arrived - Held
      BY <1>2, <1>3, <1>10, <2>2
    <3>2. QED
      BY <1>3, <1>4, <2>2, <3>1, Zenon
  <2>3. QED
    BY <2>1, <2>2
<1>12. /\ Held' = IF arrived' - got' < bufsz THEN arrived' - got' ELSE bufsz - 1
       /\ got' <= arrived' /\ arrived' - got' <= unread'
  <2>1. got <= arrived /\ Held = IF arrived - got < bufsz THEN arrived - got ELSE bufsz - 1
    BY <1>1 DEF ByInterrupt
  <2>2. Held' = IF arrived + 1 - got < bufsz THEN arrived + 1 - got ELSE bufsz - 1
    BY <1>2, <1>10, <2>1
  <2>3. QED
    BY <1>2, <1>3, <2>1, <2>2
<1>13. is_full' => put_index' # get_index'
  BY <1>3, <1>4, <1>10
<1>14. ByInterrupt'
  <2>1. put_index' = arrived' % bufsz
    BY <1>3, <1>7, Zenon
  <2>2. QED
    BY <1>1, <1>3, <1>11, <1>12, <1>13, <2>1, Zenon DEF ByInterrupt
<1>15. NoticeOK' /\ reader' \in {"read", "take", "wait"} /\ notice' \in BOOLEAN
  BY <1>1, <1>3, <1>9, Indicates
<1>16. RxTypeOK'
  <2>1. unread' \in 0 .. MaxBytes /\ counted' \in 0 .. MaxBytes
    <3>1. unread \in 0 .. MaxBytes
      BY <1>1 DEF RxTypeOK
    <3>2. QED
      BY <1>2, <1>3, <3>1
  <2>2. QED
    BY <1>1, <1>3, <1>5, <1>9, <1>15, <2>1 DEF RxTypeOK, Place
<1>17. QED
  BY <1>1, <1>3, <1>5, <1>14, <1>15, <1>16 DEF RxInv

(* Handing over the first k bytes *)
LEMMA HandsOver ==
  ASSUME RxBounds, RxTypeOK, NEW k \in 1 .. Held, HandOver(k),
         \A i \in 1 .. Held : Contents[i] \in 1 .. arrived
  PROVE  /\ handed' \in Seq(1 .. MaxBytes) /\ Len(handed') = k
         /\ \A i \in 1 .. k : handed'[i] = Contents[i]
         /\ got' = Contents[k] /\ got' \in 0 .. MaxBytes
         /\ ahead' \in BOOLEAN
         /\ ~ahead' <=> ~ahead /\ \A i \in 1 .. k : Contents[i] <= counted
<1>1. /\ Held \in 0 .. bufsz /\ arrived \in 0 .. MaxBytes /\ MaxBytes \in Nat /\ bufsz \in Nat
      /\ counted \in Nat /\ ahead \in BOOLEAN
  BY RxFacts, HeldFacts DEF RxBounds, RxTypeOK
<1>2. k \in Int /\ k \in Nat /\ 1 <= k /\ k <= Held
  BY <1>1
<1>3. \A i \in 1 .. k : Contents[i] \in 1 .. MaxBytes /\ Contents[i] \in Int
  BY <1>1, <1>2
<1>4. handed' = SubSeq(Contents, 1, k) /\ got' = Contents[k]
  BY DEF HandOver
<1>5. /\ SubSeq(Contents, 1, k) \in Seq(1 .. MaxBytes)
      /\ Len(SubSeq(Contents, 1, k)) = IF 1 <= k THEN k - 1 + 1 ELSE 0
      /\ \A i \in 1 .. k - 1 + 1 : SubSeq(Contents, 1, k)[i] = Contents[1 + i - 1]
  <2>1. 1 \in Int /\ \A i \in 1 .. k : Contents[i] \in 1 .. MaxBytes
    BY <1>3
  <2>2. QED
    BY <1>2, <2>1, SubSeqProperties
<1>6. Len(handed') = k /\ \A i \in 1 .. k : handed'[i] = Contents[i]
  <2>1. k - 1 + 1 = k /\ \A i \in 1 .. k : 1 + i - 1 = i
    BY <1>2
  <2>2. QED
    BY <1>2, <1>4, <1>5, <2>1, Zenon
<1>7. got' \in 0 .. MaxBytes
  BY <1>1, <1>2, <1>3, <1>4
<1>8. ahead' = (ahead \/ \E i \in 1 .. k : Contents[i] > counted)
  BY DEF HandOver
<1>9. \A i \in 1 .. k : ~ (Contents[i] > counted) <=> Contents[i] <= counted
  BY <1>1, <1>3
<1>10. ahead' \in BOOLEAN /\ (~ahead' <=> ~ahead /\ \A i \in 1 .. k : Contents[i] <= counted)
  BY <1>1, <1>8, <1>9
<1>11. handed' \in Seq(1 .. MaxBytes)
  BY <1>4, <1>5
<1>12. QED
  BY <1>4, <1>6, <1>7, <1>10, <1>11

(* A read of k bytes of a FIFO in line: the reader's last byte is b + k. *)
LEMMA ReadsInLine ==
  ASSUME RxBounds, RxTypeOK, Written, counted <= arrived, NEW b \in Nat, InLine(b),
         NEW k \in 1 .. Held, HandOver(k), ~ahead'
  PROVE  /\ \A i \in 1 .. k : Contents[i] = b + i
         /\ got' = b + k
<1>1. \A i \in 1 .. Held : /\ Contents[i] \in 1 .. arrived
                           /\ Contents[i] = b + i \/ Contents[i] > counted
  BY InLineReads
<1>2. ~ahead' <=> ~ahead /\ \A i \in 1 .. k : Contents[i] <= counted
  BY <1>1, HandsOver
<1>3. got' = Contents[k]
  BY DEF HandOver
<1>4. /\ Held \in 0 .. bufsz /\ bufsz \in Nat /\ counted \in Nat /\ arrived \in Nat
  BY RxFacts, HeldFacts
<1>5. ASSUME NEW i \in 1 .. k
      PROVE  Contents[i] = b + i
  <2>1. i \in 1 .. Held
    BY <1>4
  <2>2. /\ Contents[i] \in 1 .. arrived /\ Contents[i] <= counted
        /\ Contents[i] = b + i \/ Contents[i] > counted
    BY <1>1, <1>2, <2>1
  <2>3. Contents[i] \in Int
    BY <1>4, <2>2
  <2>4. QED
    BY <1>4, <2>2, <2>3
<1>6. k \in 1 .. k
  BY <1>4
<1>7. QED
  BY <1>3, <1>5, <1>6

(* _serial_int_rx *)
LEMMA ReadIntKeeps ==
  ASSUME RxBounds, RxInv, ReadInt
  PROVE  RxInv'
<1>1. RxTypeOK /\ Written /\ NoticeOK /\ ByInterrupt /\ driver = "interrupt" /\ Runs
  BY DEF RxInv, ReadInt
<1>2. /\ HandOver(1) /\ get_index' = (get_index + 1) % bufsz /\ is_full' = FALSE
      /\ reader = "read" /\ driver' = driver /\ buffer' = buffer /\ put_index' = put_index
      /\ arrived' = arrived /\ quiet' = quiet /\ idle_flag' = idle_flag
      /\ dma_flag' = dma_flag /\ uart_isr' = uart_isr /\ dma_isr' = dma_isr
      /\ recv_len' = recv_len /\ last_index' = last_index /\ reader' = reader
      /\ notice' = notice /\ counted' = counted /\ unread' = unread /\ raced' = raced
      /\ calc_recved_len > 0
  BY DEF ReadInt, hardware, isr, user
<1>3. /\ bufsz \in Nat \ {0} /\ bufsz \in Nat /\ bufsz > 1 /\ bufsz \in Int
      /\ arrived \in Nat /\ got \in Nat /\ unread \in Nat /\ MaxBytes \in Nat
      /\ put_index \in Place /\ get_index \in Place /\ get_index \in Int
      /\ Held \in 0 .. bufsz /\ Held \in Int /\ Held > 0
  BY <1>1, <1>2, RxFacts, HeldFacts DEF RxBounds
<1>4. /\ get_index = (arrived - Held) % bufsz /\ (is_full => put_index # get_index)
      /\ got <= arrived /\ arrived - got <= unread /\ counted = arrived /\ ~ahead
      /\ Held = IF arrived - got < bufsz THEN arrived - got ELSE bufsz - 1
  BY <1>1 DEF ByInterrupt
<1>5. /\ (get_index + 1) % bufsz \in Place
      /\ Fill(put_index, (get_index + 1) % bufsz, FALSE) = Held - 1
  <2>1. Held = Fill(put_index, get_index, FALSE)
    BY <1>4 DEF Held, Fill
  <2>2. 1 \in 1 .. Fill(put_index, get_index, FALSE)
    <3>1. 1 \in 1 .. Held
      BY <1>3
    <3>2. QED
      BY <2>1, <3>1, Zenon
  <2>3. QED
    BY <1>3, <2>1, <2>2, FillAfterRead
<1>6. Held' = Held - 1
  BY <1>2, <1>5, Zenon DEF Held, Fill
<1>7. \A i \in 1 .. Held : Contents[i] \in 1 .. arrived
  BY <1>1, ContentsTyped
<1>8. 1 \in 1 .. Held
  BY <1>3
<1>9. /\ handed' \in Seq(1 .. MaxBytes) /\ got' \in 0 .. MaxBytes /\ ahead' \in BOOLEAN
      /\ ~ahead' <=> ~ahead /\ \A i \in 1 .. 1 : Contents[i] <= counted
  BY <1>1, <1>2, <1>7, <1>8, HandsOver
<1>10. ~ahead'
  <2>1. \A i \in 1 .. 1 : Contents[i] <= counted
    BY <1>3, <1>4, <1>7, <1>8
  <2>2. QED
    BY <1>4, <1>9, <2>1
<1>11. got' = (arrived - Held) + 1
  <2>1. InLine(counted - Held) /\ counted - Held \in Nat
    BY <1>1, InterruptInLine
  <2>2. counted <= arrived
    BY <1>3, <1>4
  <2>3. got' = (counted - Held) + 1
    BY <1>1, <1>2, <1>8, <1>10, <2>1, <2>2, ReadsInLine
  <2>4. QED
    BY <1>4, <2>3
<1>12. get_index' = (arrived' - Held') % bufsz
  <2>1. arrived - Held \in Int /\ 1 \in Int
    BY <1>3
  <2>2. ((arrived - Held) + 1) % bufsz = (((arrived - Held) % bufsz) + 1) % bufsz
    BY <1>3, <2>1, ShiftLemma, Zenon
  <2>3. arrived' - Held' = (arrived - Held) + 1
    BY <1>2, <1>3, <1>6
  <2>4. QED
    BY <1>2, <1>4, <2>2, <2>3, Zenon
<1>13. /\ Held' = IF arrived' - got' < bufsz THEN arrived' - got' ELSE bufsz - 1
       /\ got' <= arrived' /\ arrived' - got' <= unread'
  <2> DEFINE a == got'
             h == Held'
  <2>1. a = (arrived - Held) + 1 /\ h = Held - 1 /\ arrived' = arrived /\ unread' = unread
    BY <1>2, <1>6, <1>11
  <2>2. Held = IF arrived - got < bufsz THEN arrived - got ELSE bufsz - 1
    BY <1>4, Zenon
  <2>3. got <= arrived /\ arrived - got <= unread
    BY <1>4, Zenon
  <2> HIDE DEF a, h
  <2>4. h = (IF arrived - a < bufsz THEN arrived - a ELSE bufsz - 1)
        /\ a <= arrived /\ arrived - a <= unread
    BY <1>3, <2>1, <2>2, <2>3
  <2>5. QED
    BY <2>1, <2>4, Zenon DEF a, h
<1>14. ByInterrupt'
  <2>1. put_index' = arrived' % bufsz
    BY <1>1, <1>2, Zenon DEF ByInterrupt
  <2>2. ~is_full'
    BY <1>2
  <2>3. QED
    BY <1>1, <1>2, <1>10, <1>12, <1>13, <2>1, <2>2, Zenon DEF ByInterrupt
<1>15. NoticeOK'
  BY <1>2 DEF NoticeOK
<1>16. Written'
  BY <1>1, <1>2, SameBytes
<1>17. get_index' \in 0 .. bufsz - 1
  BY <1>2, <1>5, Zenon DEF Place
<1>18. RxTypeOK'
  BY <1>1, <1>2, <1>9, <1>17 DEF RxTypeOK
<1>19. QED
  BY <1>1, <1>2, <1>14, <1>15, <1>16, <1>18 DEF RxInv

(* rt_serial_read by DMA *)
LEMMA ReadDmaKeeps ==
  ASSUME RxBounds, RxInv, NEW length \in {1, bufsz}, ReadDma(length)
  PROVE  RxInv'
<1> DEFINE k == IF length < calc_recved_len THEN length ELSE calc_recved_len
<1>1. RxTypeOK /\ Written /\ NoticeOK /\ ByDma /\ driver # "interrupt" /\ Runs
  BY DEF RxInv, ReadDma
<1>2. /\ HandOver(k) /\ get_index' = (get_index + k) % bufsz
      /\ is_full' = (is_full /\ k = 0)
      /\ reader = "read" /\ driver' = driver /\ buffer' = buffer /\ put_index' = put_index
      /\ arrived' = arrived /\ quiet' = quiet /\ idle_flag' = idle_flag
      /\ dma_flag' = dma_flag /\ uart_isr' = uart_isr /\ dma_isr' = dma_isr
      /\ recv_len' = recv_len /\ last_index' = last_index /\ reader' = reader
      /\ notice' = notice /\ counted' = counted /\ unread' = unread /\ raced' = raced
      /\ calc_recved_len > 0
  BY DEF ReadDma, rt_dma_recv_update_get_index, hardware, isr, user
<1>3. /\ bufsz \in Nat \ {0} /\ bufsz \in Nat /\ bufsz > 1 /\ bufsz \in Int
      /\ arrived \in Nat /\ got \in Nat /\ unread \in Nat /\ MaxBytes \in Nat
      /\ put_index \in Place /\ get_index \in Place /\ get_index \in Int
      /\ put_index \in Int /\ counted \in Nat /\ is_full \in BOOLEAN
      /\ Held \in 0 .. bufsz /\ Held \in Int /\ Held > 0 /\ Held = calc_recved_len
  BY <1>1, <1>2, RxFacts, HeldFacts DEF RxBounds
<1>4. k \in 1 .. Held /\ k \in Int /\ k # 0
  BY <1>3
<1> HIDE DEF k
<1>5. ~is_full' /\ is_full' \in BOOLEAN
  BY <1>2, <1>3, <1>4
<1>6. is_full => put_index = get_index
  BY <1>1 DEF ByDma, IndexOK
<1>7. /\ get_index' \in Place /\ Held' = Held - k
      /\ ~is_full /\ get_index <= put_index =>
           get_index' = get_index + k /\ get_index' <= put_index
  <2>1. k \in 1 .. Fill(put_index, get_index, is_full)
    BY <1>4 DEF Held
  <2>2. /\ (get_index + k) % bufsz \in Place
        /\ Fill(put_index, (get_index + k) % bufsz, FALSE)
             = Fill(put_index, get_index, is_full) - k
        /\ ~is_full /\ get_index <= put_index =>
             (get_index + k) % bufsz = get_index + k /\ get_index + k <= put_index
    BY <1>3, <1>6, <2>1, FillAfterRead
  <2>3. Held' = Fill(put_index, (get_index + k) % bufsz, FALSE)
    BY <1>2, <1>5, Zenon DEF Held, Fill
  <2>4. Held' = Held - k
    BY <2>2, <2>3, Zenon DEF Held
  <2>5. QED
    BY <1>2, <2>2, <2>4, Zenon
<1>8. \A i \in 1 .. Held : Contents[i] \in 1 .. arrived
  BY <1>1, ContentsTyped
<1>9. /\ handed' \in Seq(1 .. MaxBytes) /\ got' \in 0 .. MaxBytes /\ ahead' \in BOOLEAN
      /\ ~ahead' <=> ~ahead /\ \A i \in 1 .. k : Contents[i] <= counted
      /\ got' = Contents[k]
  BY <1>1, <1>2, <1>4, <1>8, HandsOver
<1>10. InUart' = InUart /\ InDma' = InDma
  BY <1>2 DEF InUart, InDma
<1>11. \A c : Upto(c) => (c \in 0 .. counted' /\ put_index' = c % bufsz
                /\ (driver' = "callbacks" => c + InUart' + InDma' = counted')
                /\ (driver' = "idle" /\ uart_isr' # "counted" => c = counted'))
  BY <1>2, <1>10, Zenon DEF Upto
<1>12. HandlersOK' /\ CountOK'
  BY <1>1, <1>2, <1>10, Zenon DEF ByDma, HandlersOK, CountOK
<1>13. IndexOK'
  BY <1>1, <1>2, <1>5, <1>7, <1>10, Zenon DEF ByDma, IndexOK
<1>14. OrderOK'
  <2> SUFFICES ASSUME ~raced', ~ahead'
               PROVE  \E c \in Nat : Upto(c)' /\ got' + Held' <= c
    BY DEF OrderOK
  <2>1. ~raced /\ ~ahead
    BY <1>2, <1>9
  <2>2. PICK c \in Nat : Upto(c) /\ got + Held <= c
    BY <1>1, <2>1 DEF ByDma, OrderOK
  <2>3. InLine(counted - Held) /\ counted - Held \in Nat
    BY <1>1, <2>1, DmaInLine
  <2>4. counted <= arrived
    BY <1>1 DEF ByDma, CountOK
  <2>5. got' = (counted - Held) + k
    BY <1>1, <1>2, <1>4, <2>3, <2>4, ReadsInLine
  <2>6. c = counted
    BY <1>1, <2>2, EndOfFifo
  <2>7. got' + Held' <= c
    BY <1>3, <1>4, <1>7, <2>5, <2>6
  <2>8. Upto(c)'
    BY <1>11, <2>2 DEF Upto
  <2>9. QED
    BY <2>7, <2>8
<1>15. KeptOK'
  <2> SUFFICES ASSUME Kept'
               PROVE  /\ ~ahead' /\ arrived' - got' <= unread'
                      /\ get_index' = got' % bufsz /\ Upto(got + Held)'
    BY DEF KeptOK
  <2>1. Kept
    BY <1>2 DEF Kept, Room
  <2>2. /\ ~ahead /\ got + Held = counted /\ get_index = got % bufsz
        /\ \A i \in 1 .. Held : Contents[i] = got + i
    BY <1>1, <2>1, KeptContents
  <2>3. arrived - got <= unread /\ Upto(got + Held)
    BY <1>1, <2>1 DEF ByDma, KeptOK
  <2>4. \A i \in 1 .. k : Contents[i] <= counted
    BY <1>3, <1>4, <2>2
  <2>5. ~ahead'
    BY <1>9, <2>2, <2>4
  <2>6. got' = got + k
    BY <1>4, <1>9, <2>2
  <2>7. arrived' - got' <= unread'
    <3>1. arrived - (got + k) <= unread
      BY <1>3, <1>4, <2>3
    <3>2. QED
      BY <1>2, <2>6, <3>1, Zenon
  <2>8. get_index' = got' % bufsz
    <3>1. got \in Int
      BY <1>3
    <3>2. (got + k) % bufsz = ((got % bufsz) + k) % bufsz
      BY <1>3, <1>4, <3>1, ShiftLemma, Zenon
    <3>3. QED
      BY <1>2, <2>2, <2>6, <3>2, Zenon
  <2>9. got' + Held' = got + Held
    BY <1>3, <1>4, <1>7, <2>6
  <2>10. Upto(got + Held)'
    <3> DEFINE c == got + Held
    <3>1. c \in 0 .. counted' /\ put_index' = c % bufsz
          /\ (driver' = "callbacks" => c + InUart' + InDma' = counted')
          /\ (driver' = "idle" /\ uart_isr' # "counted" => c = counted')
      BY <1>11, <2>3
    <3>2. c = got' + Held'
      BY <2>9
    <3> HIDE DEF c
    <3>3. QED
      BY <3>1, <3>2 DEF Upto
  <2>11. QED
    BY <2>5, <2>7, <2>8, <2>10
<1>16. ByDma'
  BY <1>12, <1>13, <1>14, <1>15 DEF ByDma
<1>17. NoticeOK'
  BY <1>2 DEF NoticeOK
<1>18. Written'
  BY <1>1, <1>2, SameBytes
<1>19. RxTypeOK'
  <2>1. get_index' \in 0 .. bufsz - 1
    BY <1>7, Zenon DEF Place
  <2>2. QED
    BY <1>1, <1>2, <1>5, <1>9, <2>1 DEF RxTypeOK
<1>20. QED
  BY <1>1, <1>2, <1>16, <1>17, <1>18, <1>19 DEF RxInv

(* A read of nothing *)
LEMMA ReadNothingKeeps ==
  ASSUME RxBounds, RxInv, ReadNothing
  PROVE  RxInv'
<1>1. /\ reader' = "take" /\ UNCHANGED fifo /\ driver' = driver /\ arrived' = arrived
      /\ quiet' = quiet /\ idle_flag' = idle_flag /\ dma_flag' = dma_flag
      /\ uart_isr' = uart_isr /\ dma_isr' = dma_isr /\ recv_len' = recv_len
      /\ last_index' = last_index /\ notice' = notice /\ counted' = counted
      /\ got' = got /\ handed' = handed /\ unread' = unread /\ raced' = raced
      /\ ahead' = ahead /\ calc_recved_len = 0
  BY DEF ReadNothing, hardware, isr, rx_history
<1>2. RxTypeOK /\ Written /\ NoticeOK
  BY DEF RxInv
<1>3. /\ Held' = Held /\ put_index' = put_index /\ get_index' = get_index
      /\ is_full' = is_full /\ buffer' = buffer
  BY <1>1, SameFifo
<1>4. InUart' = InUart /\ InDma' = InDma
  BY <1>1 DEF InUart, InDma
<1>5. Held = 0
  BY <1>1, <1>2, HeldFacts
<1>6. NoticeOK'
  BY <1>1, <1>3, <1>5 DEF NoticeOK
<1>7. Written'
  BY <1>1, <1>2, <1>3, SameBytes
<1>8. RxTypeOK'
  BY <1>1, <1>2, <1>3 DEF RxTypeOK
<1>9. ByInterrupt => ByInterrupt'
  BY <1>1, <1>3, Zenon DEF ByInterrupt
<1>10. ByDma => ByDma'
  BY <1>1, <1>3, <1>4, Zenon
     DEF ByDma, HandlersOK, CountOK, IndexOK, OrderOK, KeptOK, Upto, Kept, Room
<1>11. QED
  BY <1>1, <1>6, <1>7, <1>8, <1>9, <1>10 DEF RxInv

(* The invariant of the histories does not care about the reader and the *)
(* notice.                                                               *)
LEMMA SameDma ==
  ASSUME ByDma, UNCHANGED <<driver, fifo, hardware, isr, rx_history>>
  PROVE  ByDma'
<1>1. /\ Held' = Held /\ put_index' = put_index /\ get_index' = get_index
      /\ is_full' = is_full /\ buffer' = buffer
  BY SameFifo
<1>2. /\ driver' = driver /\ arrived' = arrived
      /\ quiet' = quiet /\ idle_flag' = idle_flag /\ dma_flag' = dma_flag
      /\ uart_isr' = uart_isr /\ dma_isr' = dma_isr /\ recv_len' = recv_len
      /\ last_index' = last_index /\ counted' = counted
      /\ got' = got /\ unread' = unread /\ raced' = raced /\ ahead' = ahead
  BY DEF hardware, isr, rx_history
<1>3. InUart' = InUart /\ InDma' = InDma
  BY <1>2 DEF InUart, InDma
<1>4. QED
  BY <1>1, <1>2, <1>3, Zenon
     DEF ByDma, HandlersOK, CountOK, IndexOK, OrderOK, KeptOK, Upto, Kept, Room

(* rt_sem_take, and the fresh start once an overrun is settled *)
LEMMA TakeKeeps ==
  ASSUME RxBounds, RxInv, Take
  PROVE  RxInv'
<1> DEFINE Anew == quiet /\ ~idle_flag /\ ~dma_flag /\ calc_recved_len = 0 /\ ~Kept
<1>1. /\ UNCHANGED fifo /\ driver' = driver /\ arrived' = arrived /\ quiet' = quiet
      /\ idle_flag' = idle_flag /\ dma_flag' = dma_flag /\ uart_isr' = uart_isr
      /\ dma_isr' = dma_isr /\ recv_len' = recv_len /\ last_index' = last_index
      /\ counted' = counted /\ handed' = handed /\ notice' = FALSE
      /\ Runs /\ reader = "take"
  BY DEF Take, hardware, isr
<1>2. \/ /\ notice /\ reader' = "read"
         /\ got' = got /\ unread' = unread /\ raced' = raced /\ ahead' = ahead
      \/ /\ ~notice /\ reader' = "wait" /\ ~Anew
         /\ got' = got /\ unread' = unread /\ raced' = raced /\ ahead' = ahead
      \/ /\ ~notice /\ reader' = "wait" /\ Anew
         /\ got' = arrived /\ unread' = 0 /\ raced' = FALSE /\ ahead' = FALSE
  BY DEF Take
<1> HIDE DEF Anew
<1>3. RxTypeOK /\ Written /\ NoticeOK
  BY DEF RxInv
<1>4. /\ Held' = Held /\ put_index' = put_index /\ get_index' = get_index
      /\ is_full' = is_full /\ buffer' = buffer
  BY <1>1, SameFifo
<1>5. InUart' = InUart /\ InDma' = InDma
  BY <1>1 DEF InUart, InDma
<1>6. /\ bufsz \in Nat \ {0} /\ bufsz \in Nat /\ bufsz > 1 /\ bufsz \in Int
      /\ arrived \in Nat /\ got \in Nat /\ counted \in Nat
      /\ put_index \in Place /\ put_index \in Int
      /\ Held \in 0 .. bufsz /\ Held \in Int /\ Held = calc_recved_len
      /\ Held = 0 => put_index = get_index
  BY <1>3, RxFacts, HeldFacts
<1>7. NoticeOK'
  <2>1. ~notice => Held = 0
    BY <1>1, <1>3, <1>6 DEF NoticeOK
  <2>2. reader' = "read" \/ (reader' = "wait" /\ ~notice)
    BY <1>2
  <2>3. QED
    BY <1>4, <2>1, <2>2 DEF NoticeOK
<1>8. Written'
  BY <1>1, <1>3, <1>4, SameBytes
<1>9. RxTypeOK'
  <2>1. MaxBytes \in Nat /\ arrived \in 0 .. MaxBytes /\ 0 \in 0 .. MaxBytes
    BY <1>3 DEF RxBounds, RxTypeOK
  <2>2. /\ got' \in 0 .. MaxBytes /\ unread' \in 0 .. MaxBytes /\ raced' \in BOOLEAN
        /\ ahead' \in BOOLEAN /\ reader' \in {"read", "take", "wait"}
    BY <1>2, <1>3, <2>1, Zenon DEF RxTypeOK
  <2>3. QED
    BY <1>1, <1>3, <1>4, <2>2 DEF RxTypeOK
<1>10. CASE got' = got /\ unread' = unread /\ raced' = raced /\ ahead' = ahead
  <2>1. ByInterrupt => ByInterrupt'
    BY <1>1, <1>4, <1>10, Zenon DEF ByInterrupt
  <2>2. ByDma => ByDma'
    BY <1>1, <1>4, <1>5, <1>10, Zenon
       DEF ByDma, HandlersOK, CountOK, IndexOK, OrderOK, KeptOK, Upto, Kept, Room
  <2>3. QED
    BY <1>1, <1>7, <1>8, <1>9, <2>1, <2>2 DEF RxInv
<1>11. CASE Anew /\ got' = arrived /\ unread' = 0 /\ raced' = FALSE /\ ahead' = FALSE
  <2>1. quiet /\ ~idle_flag /\ ~dma_flag /\ Held = 0
    BY <1>6, <1>11 DEF Anew
  <2>2. ASSUME driver = "interrupt"
        PROVE  ByInterrupt'
    <3>1. ByInterrupt
      BY <2>2 DEF RxInv
    <3>2. arrived' - got' = 0 /\ got' <= arrived' /\ arrived' - got' <= unread' /\ 0 < bufsz
      BY <1>1, <1>6, <1>11
    <3>3. Held' = IF arrived' - got' < bufsz THEN arrived' - got' ELSE bufsz - 1
      BY <1>4, <2>1, <3>2
    <3>4. QED
      BY <1>1, <1>4, <1>11, <3>1, <3>2, <3>3, Zenon DEF ByInterrupt
  <2>3. ASSUME driver # "interrupt"
        PROVE  ByDma'
    <3>1. ByDma /\ driver \in {"idle", "callbacks"}
      BY <2>3, DriversAre DEF RxInv
    <3>2. InUart = 0 /\ InDma = 0 /\ uart_isr # "counted"
      BY <1>1, <3>1 DEF ByDma, HandlersOK, Runs
    <3>3. counted = arrived
      BY <2>1, <3>1 DEF ByDma, HandlersOK
    <3>4. put_index = counted % bufsz
      <4>1. last_index = counted % bufsz
        BY <3>1 DEF ByDma, CountOK
      <4>2. CASE driver = "idle"
        <5>1. put_index + InUart = last_index
          BY <3>1, <4>2 DEF ByDma, IndexOK
        <5>2. put_index = last_index
          BY <1>6, <3>2, <5>1
        <5>3. QED
          BY <4>1, <5>2, Zenon
      <4>3. CASE driver = "callbacks"
        <5>1. (put_index + InUart + InDma) % bufsz = last_index
          BY <3>1, <4>3 DEF ByDma, IndexOK
        <5>2. put_index + InUart + InDma = put_index
          BY <1>6, <3>2
        <5>3. put_index % bufsz = put_index
          BY <1>6, SmallLemma DEF Place
        <5>4. QED
          BY <4>1, <5>1, <5>2, <5>3, Zenon
      <4>4. QED
        BY <3>1, <4>2, <4>3
    <3>5. HandlersOK' /\ CountOK'
      <4>1. HandlersOK'
        BY <1>1, <1>5, <1>11, <3>1, Zenon DEF ByDma, HandlersOK
      <4>2. CountOK'
        BY <1>1, <1>11, <2>1, <3>1, Zenon DEF ByDma, CountOK
      <4>3. QED
        BY <4>1, <4>2
    <3>6. IndexOK'
      <4>1. 0 >= 0
        OBVIOUS
      <4>2. QED
        BY <1>1, <1>4, <1>5, <1>11, <3>1, <3>2, <4>1, Zenon DEF ByDma, IndexOK
    <3>7. Upto(counted)'
      <4>1. counted \in 0 .. counted /\ counted + InUart + InDma = counted
        BY <1>6, <3>2
      <4>2. QED
        BY <1>1, <1>4, <1>5, <3>4, <4>1, Zenon DEF Upto
    <3>8. got' + Held' = counted' /\ counted' \in Nat
      BY <1>1, <1>4, <1>6, <1>11, <2>1, <3>3
    <3>9. OrderOK'
      <4>1. got' + Held' <= counted'
        BY <3>8
      <4>2. QED
        BY <3>7, <3>8, <4>1 DEF OrderOK
    <3>10. KeptOK'
      <4>1. arrived' - got' <= unread'
        BY <1>1, <1>6, <1>11
      <4>2. get_index' = got' % bufsz
        BY <1>4, <1>6, <1>11, <2>1, <3>3, <3>4, Zenon
      <4>3. Upto(got + Held)'
        <5> DEFINE c == counted'
        <5>1. /\ c \in 0 .. counted' /\ put_index' = c % bufsz
              /\ driver' = "callbacks" => c + InUart' + InDma' = counted'
              /\ driver' = "idle" /\ uart_isr' # "counted" => c = counted'
          BY <3>7 DEF Upto
        <5>2. c = got' + Held'
          BY <3>8
        <5> HIDE DEF c
        <5>3. QED
          BY <5>1, <5>2 DEF Upto
      <4>4. QED
        BY <1>11, <4>1, <4>2, <4>3 DEF KeptOK
    <3>11. QED
      BY <3>5, <3>6, <3>9, <3>10 DEF ByDma
  <2>4. QED
    BY <1>1, <1>7, <1>8, <1>9, <2>2, <2>3 DEF RxInv
<1>12. QED
  BY <1>2, <1>10, <1>11

(* A byte by DMA *)
LEMMA DmaWritesKeeps ==
  ASSUME RxBounds, RxInv, DmaWrites
  PROVE  RxInv'
<1>1. RxTypeOK /\ Written /\ NoticeOK /\ ByDma /\ driver \in {"idle", "callbacks"}
      /\ driver # "interrupt"
  BY DriversAre DEF DmaWrites
<1>2. /\ ~dma_flag /\ arrived < MaxBytes /\ arrived' = arrived + 1
      /\ unread' = IF arrived + 1 - got > unread THEN arrived + 1 - got ELSE unread
      /\ buffer' = [buffer EXCEPT ![arrived % bufsz] = arrived + 1]
      /\ dma_flag' = (driver = "callbacks" /\ (arrived + 1) % bufsz \in {0, bufsz \div 2})
      /\ quiet' = FALSE /\ driver' = driver /\ put_index' = put_index
      /\ get_index' = get_index /\ is_full' = is_full /\ idle_flag' = idle_flag
      /\ uart_isr' = uart_isr /\ dma_isr' = dma_isr /\ recv_len' = recv_len
      /\ last_index' = last_index /\ reader' = reader /\ notice' = notice
      /\ counted' = counted /\ got' = got /\ handed' = handed /\ raced' = raced
      /\ ahead' = ahead
  BY DEF DmaWrites, Received, isr, user
<1>3. /\ bufsz \in Nat \ {0} /\ bufsz \in Nat /\ bufsz > 1 /\ bufsz \in Int
      /\ arrived \in Nat /\ got \in Nat /\ counted \in Nat /\ unread \in Nat
      /\ last_index \in Place /\ last_index \in Int /\ MaxBytes \in Nat
  BY <1>1, RxFacts DEF RxBounds
<1>4. /\ Written' /\ arrived' \in 0 .. MaxBytes
      /\ buffer' \in [0 .. bufsz - 1 -> 0 .. MaxBytes]
  BY <1>1, <1>2, WrittenNext
<1>5. Held' = Held /\ InUart' = InUart /\ InDma' = InDma
  BY <1>2 DEF Held, InUart, InDma
<1>6. unread' >= arrived + 1 - got /\ unread' >= unread /\ unread' \in 0 .. MaxBytes
  <2>1. unread \in 0 .. MaxBytes
    BY <1>1 DEF RxTypeOK
  <2> DEFINE a == arrived + 1 - got
             u == unread'
  <2>2. a \in Int /\ a <= MaxBytes /\ u = IF a > unread THEN a ELSE unread
    BY <1>2, <1>3
  <2> HIDE DEF a, u
  <2>3. u >= a /\ u >= unread /\ u \in 0 .. MaxBytes
    BY <1>3, <2>1, <2>2
  <2>4. QED
    BY <2>3 DEF a, u
<1>7. dma_flag' \in BOOLEAN /\ (driver = "idle" => ~dma_flag')
  BY <1>2
<1>8. HandlersOK'
  <2>1. arrived' > 0
    BY <1>2, <1>3
  <2>2. QED
    BY <1>1, <1>2, <1>5, <1>7, <2>1, Zenon DEF ByDma, HandlersOK
<1>9. /\ counted <= arrived /\ last_index = counted % bufsz
      /\ driver = "callbacks" =>
           /\ arrived - counted <= bufsz - last_index
           /\ arrived - counted # bufsz - last_index
  BY <1>1, <1>2 DEF ByDma, CountOK
<1>10. ASSUME driver = "callbacks", arrived + 1 - counted = bufsz - last_index
       PROVE  dma_flag'
  <2> DEFINE k == bufsz - last_index
  <2>1. k \in 0 .. bufsz /\ counted \in Int
    BY <1>3 DEF Place
  <2>2. counted + k = arrived + 1
    BY <1>3, <1>10
  <2>3. (counted + k) % bufsz = IF (counted % bufsz) + k < bufsz
                                THEN (counted % bufsz) + k
                                ELSE (counted % bufsz) + k - bufsz
    BY <1>3, <2>1, StepLemma, Zenon
  <2>4. (counted + k) % bufsz = IF last_index + k < bufsz THEN last_index + k
                                                         ELSE last_index + k - bufsz
    BY <1>9, <2>3, Zenon
  <2>5. (IF last_index + k < bufsz THEN last_index + k ELSE last_index + k - bufsz) = 0
    BY <1>3
  <2>6. (arrived + 1) % bufsz = 0
    BY <2>2, <2>4, <2>5, Zenon
  <2>7. QED
    BY <1>2, <1>10, <2>6, Zenon
<1>11. CountOK'
  <2>1. counted <= arrived + 1 /\ arrived + 1 > counted
    <3>1. counted <= arrived
      BY <1>9, Zenon
    <3>2. QED
      BY <1>3, <3>1
  <2>2. driver = "callbacks" => arrived + 1 - counted <= bufsz - last_index
    <3>1. driver = "callbacks" => arrived - counted <= bufsz - last_index
                                  /\ arrived - counted # bufsz - last_index
      BY <1>9, Zenon
    <3>2. QED
      BY <1>3, <3>1
  <2>3. driver = "callbacks" /\ arrived + 1 - counted = bufsz - last_index => dma_flag'
    BY <1>10, Zenon
  <2>4. counted' <= arrived' /\ arrived' > counted' /\ last_index' = counted' % bufsz
    BY <1>2, <1>9, <2>1, Zenon
  <2>5. arrived' - counted' = arrived + 1 - counted
    <3>1. arrived' = arrived + 1 /\ counted' = counted
      BY <1>2
    <3>2. QED
      BY <1>3, <3>1
  <2>6. driver' = "callbacks" => arrived' - counted' <= bufsz - last_index'
    BY <1>2, <2>2, <2>5, Zenon
  <2>7. driver' = "callbacks" /\ arrived' - counted' = bufsz - last_index' => dma_flag'
    BY <1>2, <2>3, <2>5, Zenon
  <2>8. QED
    BY <2>4, <2>6, <2>7, Zenon DEF CountOK
<1>12. IndexOK'
  <2>1. arrived' < bufsz => arrived < bufsz
    BY <1>2, <1>3
  <2>2. QED
    BY <1>1, <1>2, <1>5, <2>1, Zenon DEF ByDma, IndexOK
<1>13. OrderOK'
  BY <1>1, <1>2, <1>5, Zenon DEF ByDma, OrderOK, Upto
<1>14. KeptOK'
  <2>1. Kept' => Kept
    <3> DEFINE u == unread'
    <3>1. Room' = Room /\ Room \in Int
      BY <1>2, <1>3 DEF Room
    <3>2. u >= unread /\ u \in Int
      BY <1>3, <1>6
    <3>3. Kept' => u <= Room /\ ~raced
      BY <1>2, <3>1, Zenon DEF Kept
    <3> HIDE DEF u
    <3>4. u <= Room => unread <= Room
      BY <1>3, <3>1, <3>2
    <3>5. QED
      BY <3>3, <3>4, Zenon DEF Kept
  <2>2. arrived' - got' <= unread'
    <3> DEFINE a == arrived + 1 - got
               u == unread'
    <3>1. a \in Int /\ u \in Int /\ u >= a
      BY <1>3, <1>6
    <3>2. arrived' - got' = a
      <4>1. arrived' = arrived + 1 /\ got' = got
        BY <1>2
      <4>2. QED
        BY <1>3, <4>1
    <3> HIDE DEF a, u
    <3>3. a <= u
      BY <3>1
    <3>4. QED
      BY <3>2, <3>3, Zenon DEF u
  <2>3. QED
    BY <1>1, <1>2, <1>5, <2>1, <2>2, Zenon DEF ByDma, KeptOK, Upto
<1>15. NoticeOK'
  BY <1>1, <1>2, <1>5 DEF NoticeOK
<1>16. RxTypeOK'
  BY <1>1, <1>2, <1>4, <1>6, <1>7, Zenon DEF RxTypeOK
<1>17. QED
  BY <1>1, <1>2, <1>4, <1>8, <1>11, <1>12, <1>13, <1>14, <1>15, <1>16 DEF RxInv, ByDma

(* The line has become idle. *)
LEMMA LineIdleKeeps ==
  ASSUME RxBounds, RxInv, LineIdle
  PROVE  RxInv'
<1>1. /\ ~quiet /\ uart_isr = "none" /\ quiet' = TRUE /\ idle_flag' = TRUE
      /\ UNCHANGED fifo /\ driver' = driver /\ arrived' = arrived /\ dma_flag' = dma_flag
      /\ uart_isr' = uart_isr /\ dma_isr' = dma_isr /\ recv_len' = recv_len
      /\ last_index' = last_index /\ reader' = reader /\ notice' = notice
      /\ counted' = counted /\ got' = got /\ handed' = handed /\ unread' = unread
      /\ raced' = raced /\ ahead' = ahead
  BY DEF LineIdle, isr, user, rx_history
<1>2. /\ Held' = Held /\ put_index' = put_index /\ get_index' = get_index
      /\ is_full' = is_full /\ buffer' = buffer
  BY <1>1, SameFifo
<1>3. RxTypeOK /\ Written /\ NoticeOK /\ ByDma /\ driver # "interrupt"
  BY <1>1, DriversAre DEF ByInterrupt
<1>4. InUart' = InUart /\ InDma' = InDma
  BY <1>1 DEF InUart, InDma
<1>5. ByDma'
  <2>1. HandlersOK'
    BY <1>1, <1>3, <1>4 DEF ByDma, HandlersOK
  <2>2. QED
    BY <1>1, <1>2, <1>3, <1>4, <2>1, Zenon
       DEF ByDma, CountOK, IndexOK, OrderOK, KeptOK, Upto, Kept, Room
<1>6. NoticeOK'
  BY <1>1, <1>2, <1>3 DEF NoticeOK
<1>7. Written'
  BY <1>1, <1>2, <1>3, SameBytes
<1>8. RxTypeOK'
  BY <1>1, <1>2, <1>3 DEF RxTypeOK
<1>9. QED
  BY <1>1, <1>3, <1>5, <1>6, <1>7, <1>8 DEF RxInv

(* uart_isr begins. *)
LEMMA IdleEnterKeeps ==
  ASSUME RxBounds, RxInv, IdleEnter
  PROVE  RxInv'
<1>1. /\ uart_isr = "none" /\ dma_isr = "none" /\ idle_flag /\ ~dma_flag
      /\ uart_isr' = "entered" /\ UNCHANGED fifo /\ driver' = driver
      /\ arrived' = arrived /\ quiet' = quiet /\ idle_flag' = idle_flag
      /\ dma_flag' = dma_flag /\ dma_isr' = dma_isr /\ recv_len' = recv_len
      /\ last_index' = last_index /\ reader' = reader /\ notice' = notice
      /\ counted' = counted /\ got' = got /\ handed' = handed /\ unread' = unread
      /\ raced' = raced /\ ahead' = ahead
  BY DEF IdleEnter, hardware, user, rx_history
<1>2. /\ Held' = Held /\ put_index' = put_index /\ get_index' = get_index
      /\ is_full' = is_full /\ buffer' = buffer
  BY <1>1, SameFifo
<1>3. RxTypeOK /\ Written /\ NoticeOK /\ ByDma /\ driver # "interrupt"
  BY <1>1, DriversAre DEF ByInterrupt
<1>4. InUart' = InUart /\ InDma' = InDma
  BY <1>1 DEF InUart, InDma
<1>5. ByDma'
  <2>1. uart_isr # "counted" /\ uart_isr' # "counted" /\ ~ (uart_isr' = "counted")
    BY <1>1
  <2>2. HandlersOK'
    BY <1>1, <1>3, <1>4 DEF ByDma, HandlersOK
  <2>3. \A c : Upto(c) => (c \in 0 .. counted' /\ put_index' = c % bufsz
                /\ (driver' = "callbacks" => c + InUart' + InDma' = counted')
                /\ (driver' = "idle" /\ uart_isr' # "counted" => c = counted'))
    BY <1>1, <1>2, <1>4, <2>1, Zenon DEF Upto
  <2>4. CountOK' /\ IndexOK'
    BY <1>1, <1>2, <1>3, <1>4, Zenon DEF ByDma, CountOK, IndexOK
  <2>5. OrderOK' /\ KeptOK'
    BY <1>1, <1>2, <1>3, <1>4, <2>1, Zenon DEF ByDma, OrderOK, KeptOK, Upto, Kept, Room
  <2>6. QED
    BY <2>2, <2>4, <2>5 DEF ByDma
<1>6. NoticeOK'
  BY <1>1, <1>2, <1>3 DEF NoticeOK
<1>7. Written'
  BY <1>1, <1>2, <1>3, SameBytes
<1>8. RxTypeOK'
  BY <1>1, <1>2, <1>3 DEF RxTypeOK
<1>9. QED
  BY <1>1, <1>3, <1>5, <1>6, <1>7, <1>8 DEF RxInv

(* uart_isr reads the counter. *)
LEMMA IdleCountKeeps ==
  ASSUME RxBounds, RxInv, IdleCount
  PROVE  RxInv'
<1> DEFINE w == arrived % bufsz
           len == w - last_index
<1>1. /\ uart_isr = "entered" /\ dma_isr = "none" /\ uart_isr' = "counted"
      /\ recv_len' = [recv_len EXCEPT !.uart = len] /\ last_index' = w
      /\ counted' = arrived /\ raced' = (raced \/ dma_flag)
      /\ UNCHANGED fifo /\ driver' = driver
      /\ arrived' = arrived /\ quiet' = quiet /\ idle_flag' = idle_flag
      /\ dma_flag' = dma_flag /\ dma_isr' = dma_isr
      /\ reader' = reader /\ notice' = notice
      /\ got' = got /\ handed' = handed /\ unread' = unread /\ ahead' = ahead
  BY DEF IdleCount, recv_total_index, hardware, user
<1>2. /\ Held' = Held /\ put_index' = put_index /\ get_index' = get_index
      /\ is_full' = is_full /\ buffer' = buffer
  BY <1>1, SameFifo
<1>3. /\ RxTypeOK /\ Written /\ NoticeOK /\ ByDma /\ driver # "interrupt"
      /\ driver \in {"idle", "callbacks"}
  BY <1>1, DriversAre DEF ByInterrupt
<1>4. /\ bufsz \in Nat \ {0} /\ bufsz \in Nat /\ bufsz > 1 /\ bufsz \in Int
      /\ arrived \in Nat /\ got \in Nat /\ counted \in Nat /\ arrived \in Int
      /\ put_index \in Place /\ put_index \in Int /\ last_index \in Place
      /\ last_index \in Int /\ w \in Place /\ w \in Int
  BY <1>3, RxFacts DEF Place
<1>5. /\ idle_flag /\ (driver = "idle" => ~dma_flag /\ ~raced)
      /\ InUart = 0 /\ InDma = 0 /\ uart_isr # "counted"
  BY <1>1, <1>3 DEF ByDma, HandlersOK
<1>6. /\ counted <= arrived /\ last_index = counted % bufsz
      /\ driver = "callbacks" =>
           /\ arrived - counted <= bufsz - last_index
           /\ arrived - counted = bufsz - last_index => dma_flag
  BY <1>3 DEF ByDma, CountOK
<1>7. len \in -bufsz .. bufsz /\ len \in Int
  <2> HIDE DEF w
  <2>1. QED
    BY <1>4 DEF Place
<1>8. put_index = last_index
  <2>1. CASE driver = "idle"
    <3>1. put_index + InUart = last_index
      BY <1>3, <2>1 DEF ByDma, IndexOK
    <3>2. QED
      BY <1>4, <1>5, <3>1
  <2>2. CASE driver = "callbacks"
    <3>1. (put_index + InUart + InDma) % bufsz = last_index
      BY <1>3, <2>2 DEF ByDma, IndexOK
    <3>2. put_index + InUart + InDma = put_index
      BY <1>4, <1>5
    <3>3. put_index % bufsz = put_index
      BY <1>4, SmallLemma DEF Place
    <3>4. QED
      BY <3>1, <3>2, <3>3, Zenon
  <2>3. QED
    BY <1>3, <2>1, <2>2
<1>9. /\ recv_len' \in [{"uart", "dma"} -> -bufsz .. bufsz]
      /\ InUart' = len /\ InDma' = 0
  <2>1. recv_len \in [{"uart", "dma"} -> -bufsz .. bufsz]
    BY <1>3 DEF RxTypeOK
  <2>2. /\ recv_len' \in [{"uart", "dma"} -> -bufsz .. bufsz]
        /\ recv_len'.uart = len /\ recv_len'.dma = recv_len.dma
    <3> HIDE DEF len
    <3>1. QED
      BY <1>1, <1>7, <2>1, Lengths
  <2>3. QED
    BY <1>5, <2>2, Zenon DEF InUart, InDma
<1>10. w % bufsz = w
  BY <1>4, SmallLemma DEF Place
<1>11. driver = "callbacks" /\ ~raced' => len = arrived - counted /\ len >= 0
  <2> SUFFICES ASSUME driver = "callbacks", ~raced'
               PROVE  len = arrived - counted /\ len >= 0
    OBVIOUS
  <2> DEFINE k == arrived - counted
  <2>1. k < bufsz - last_index /\ k \in 0 .. bufsz /\ k \in Int
    <3>1. ~dma_flag
      BY <1>1
    <3>2. k <= bufsz - last_index /\ k # bufsz - last_index /\ counted <= arrived
      BY <1>6, <3>1, Zenon
    <3>3. QED
      BY <1>4, <3>2 DEF Place
  <2>2. (counted + k) % bufsz = IF (counted % bufsz) + k < bufsz
                                THEN (counted % bufsz) + k
                                ELSE (counted % bufsz) + k - bufsz
    <3>1. counted \in Int
      BY <1>4
    <3>2. QED
      BY <1>4, <2>1, <3>1, StepLemma, Zenon
  <2>3. counted + k = arrived
    BY <1>4
  <2>4. w = IF last_index + k < bufsz THEN last_index + k ELSE last_index + k - bufsz
    BY <1>6, <2>2, <2>3, Zenon
  <2>5. k = arrived - counted
    OBVIOUS
  <2> HIDE DEF w, k
  <2>6. len = k /\ k >= 0
    BY <1>4, <2>1, <2>4
  <2>7. QED
    BY <2>5, <2>6
<1>12. arrived < bufsz => w = arrived /\ put_index = counted /\ last_index = counted
  <2> SUFFICES ASSUME arrived < bufsz
               PROVE  w = arrived /\ put_index = counted /\ last_index = counted
    OBVIOUS
  <2>1. put_index + InUart + InDma = counted
    BY <1>3 DEF ByDma, IndexOK
  <2>2. put_index = counted
    BY <1>4, <1>5, <2>1
  <2>3. arrived \in 0 .. bufsz - 1
    BY <1>4
  <2>4. w = arrived
    BY <1>4, <2>3, SmallLemma, Zenon
  <2>5. QED
    BY <1>8, <2>2, <2>4
<1>13. HandlersOK'
  <2>1. driver = "idle" => ~raced'
    BY <1>1, <1>5
  <2>2. QED
    BY <1>1, <1>3, <1>5, <1>9, <2>1, Zenon DEF ByDma, HandlersOK
<1>14. CountOK'
  <2>1. counted' <= arrived' /\ last_index' = counted' % bufsz
    <3>1. counted' <= arrived'
      BY <1>1, <1>4
    <3>2. QED
      BY <1>1, <3>1, Zenon
  <2>2. arrived' - counted' <= bufsz - last_index'
        /\ arrived' - counted' # bufsz - last_index'
    <3> HIDE DEF w
    <3>1. 0 <= bufsz - w /\ 0 # bufsz - w /\ arrived - arrived = 0
      BY <1>4 DEF Place
    <3>2. QED
      BY <1>1, <3>1, Zenon
  <2>3. dma_flag' => raced'
    BY <1>1
  <2>4. QED
    BY <2>1, <2>2, <2>3, Zenon DEF CountOK
<1> HIDE DEF w
<1>15. put_index + len = w
  BY <1>4, <1>8
<1>16. IndexOK'
  <2>1. is_full' => put_index' = get_index'
    BY <1>2, <1>3 DEF ByDma, IndexOK
  <2>2. put_index' + InUart' = last_index' /\ put_index' + InUart' + InDma' = w
    <3>1. put_index' + InUart' = w
      BY <1>2, <1>9, <1>15, Zenon
    <3>2. w + 0 = w
      BY <1>4
    <3>3. QED
      BY <1>1, <1>9, <3>1, <3>2, Zenon
  <2>3. (put_index' + InUart' + InDma') % bufsz = last_index'
    BY <1>1, <1>10, <2>2, Zenon
  <2>4. 0 >= 0
    OBVIOUS
  <2>5. driver' = "callbacks" /\ ~raced' => InUart' >= 0 /\ InDma' >= 0
    BY <1>1, <1>9, <1>11, <2>4, Zenon
  <2>6. ASSUME arrived' < bufsz
        PROVE  /\ put_index' + InUart' + InDma' = counted'
               /\ InUart' >= 0 /\ InDma' >= 0
               /\ ~is_full' /\ get_index' <= put_index'
    <3>1. arrived < bufsz
      BY <1>1, <2>6
    <3>2. w = arrived /\ last_index = counted
      BY <1>12, <3>1
    <3>3. len >= 0
      BY <1>4, <1>6, <3>2
    <3>4. ~is_full /\ get_index <= put_index
      BY <1>3, <3>1 DEF ByDma, IndexOK
    <3>5. QED
      BY <1>1, <1>2, <1>9, <2>2, <2>4, <3>2, <3>3, <3>4, Zenon
  <2>7. QED
    BY <2>1, <2>2, <2>3, <2>5, <2>6, Zenon DEF IndexOK
<1>17. ASSUME NEW c \in Nat, Upto(c), ~raced'
       PROVE  /\ c \in 0 .. counted' /\ put_index' = c % bufsz
              /\ driver' = "callbacks" => c + InUart' + InDma' = counted'
  <2>1. /\ c \in 0 .. counted /\ put_index = c % bufsz
        /\ driver = "callbacks" => c + InUart + InDma = counted
    BY <1>17 DEF Upto
  <2>2. c \in 0 .. arrived
    BY <1>4, <1>6, <2>1
  <2>3. driver = "callbacks" => c + len + 0 = arrived
    <3> HIDE DEF len
    <3>1. driver = "callbacks" => c = counted
      BY <1>4, <1>5, <2>1
    <3>2. driver = "callbacks" => len = arrived - counted
      BY <1>11, <1>17
    <3>3. QED
      BY <1>4, <3>1, <3>2
  <2>4. QED
    BY <1>1, <1>2, <1>9, <2>1, <2>2, <2>3, Zenon
<1>18. OrderOK'
  <2> SUFFICES ASSUME ~raced', ~ahead'
               PROVE  \E c \in Nat : Upto(c)' /\ got' + Held' <= c
    BY DEF OrderOK
  <2>1. ~raced /\ ~ahead
    BY <1>1
  <2>2. PICK c \in Nat : Upto(c) /\ got + Held <= c
    BY <1>3, <2>1 DEF ByDma, OrderOK
  <2>3. Upto(c)'
    BY <1>1, <1>17, <2>2, Zenon DEF Upto
  <2>4. got' + Held' <= c
    BY <1>1, <1>2, <2>2, Zenon
  <2>5. QED
    BY <2>2, <2>3, <2>4
<1>19. KeptOK'
  <2> SUFFICES ASSUME Kept'
               PROVE  /\ ~ahead' /\ arrived' - got' <= unread'
                      /\ get_index' = got' % bufsz /\ Upto(got + Held)'
    BY DEF KeptOK
  <2>1. Kept /\ ~raced'
    BY <1>1 DEF Kept, Room
  <2>2. ~ahead /\ arrived - got <= unread /\ get_index = got % bufsz /\ Upto(got + Held)
    BY <1>3, <2>1 DEF ByDma, KeptOK
  <2>3. got + Held \in Nat
    BY <1>3, <1>4, HeldFacts
  <2> DEFINE c == got + Held
  <2>4. /\ c \in 0 .. counted' /\ put_index' = c % bufsz
        /\ driver' = "callbacks" => c + InUart' + InDma' = counted'
    BY <1>17, <2>1, <2>2, <2>3, Zenon
  <2>5. c = got' + Held'
    BY <1>1, <1>2
  <2> HIDE DEF c
  <2>6. Upto(got + Held)'
    BY <1>1, <2>4, <2>5, Zenon DEF Upto
  <2>7. QED
    BY <1>1, <1>2, <2>2, <2>6, Zenon
<1>20. NoticeOK'
  BY <1>1, <1>2, <1>3 DEF NoticeOK
<1>21. Written'
  BY <1>1, <1>2, <1>3, SameBytes
<1>22. RxTypeOK'
  <2>1. w \in 0 .. bufsz - 1 /\ raced' \in BOOLEAN /\ arrived \in 0 .. MaxBytes
    BY <1>1, <1>3, <1>4 DEF RxTypeOK, Place
  <2>2. QED
    BY <1>1, <1>2, <1>3, <1>9, <2>1 DEF RxTypeOK
<1>23. ByDma'
  BY <1>13, <1>14, <1>16, <1>18, <1>19 DEF ByDma
<1>24. QED
  BY <1>1, <1>3, <1>20, <1>21, <1>22, <1>23 DEF RxInv

(* dma_isr reads the counter. *)
LEMMA DmaCountKeeps ==
  ASSUME RxBounds, RxInv, DmaCount
  PROVE  RxInv'
<1> DEFINE w == arrived % bufsz
           len == IF w = 0 THEN bufsz - last_index ELSE w - last_index
<1>1. /\ dma_flag /\ dma_isr = "none" /\ dma_flag' = FALSE /\ dma_isr' = "counted"
      /\ recv_len' = [recv_len EXCEPT !.dma = len] /\ last_index' = w
      /\ counted' = arrived /\ UNCHANGED fifo /\ driver' = driver
      /\ arrived' = arrived /\ quiet' = quiet /\ idle_flag' = idle_flag
      /\ uart_isr' = uart_isr /\ reader' = reader /\ notice' = notice
      /\ got' = got /\ handed' = handed /\ unread' = unread /\ raced' = raced
      /\ ahead' = ahead
  BY DEF DmaCount, recv_total_index, user
<1>2. /\ Held' = Held /\ put_index' = put_index /\ get_index' = get_index
      /\ is_full' = is_full /\ buffer' = buffer
  BY <1>1, SameFifo
<1>3. /\ RxTypeOK /\ Written /\ NoticeOK /\ ByDma /\ driver = "callbacks"
      /\ driver # "interrupt" /\ driver # "idle"
  <2>1. RxTypeOK /\ Written /\ NoticeOK /\ ByDma /\ driver \in {"idle", "callbacks"}
    BY <1>1, DriversAre DEF ByInterrupt
  <2>2. driver # "idle"
    BY <1>1, <2>1 DEF ByDma, HandlersOK
  <2>3. QED
    BY <2>1, <2>2
<1>4. /\ bufsz \in Nat \ {0} /\ bufsz \in Nat /\ bufsz > 1 /\ bufsz \in Int
      /\ arrived \in Nat /\ got \in Nat /\ counted \in Nat /\ arrived \in Int
      /\ put_index \in Place /\ put_index \in Int /\ last_index \in Place
      /\ last_index \in Int /\ w \in Place /\ w \in Int
      /\ InUart \in Int /\ InDma \in Int
  BY <1>3, RxFacts DEF Place
<1>5. InDma = 0 /\ arrived > 0
  BY <1>1, <1>3 DEF ByDma, HandlersOK
<1>6. /\ counted <= arrived /\ last_index = counted % bufsz
      /\ arrived - counted <= bufsz - last_index
      /\ ~raced => arrived > counted
  BY <1>1, <1>3 DEF ByDma, CountOK
<1>7. len \in -bufsz .. bufsz /\ len \in Int
  <2> HIDE DEF w
  <2>1. QED
    BY <1>4 DEF Place
<1>8. (put_index + InUart) % bufsz = last_index
  <2>1. (put_index + InUart + InDma) % bufsz = last_index
    BY <1>3 DEF ByDma, IndexOK
  <2>2. put_index + InUart + InDma = put_index + InUart
    BY <1>4, <1>5
  <2>3. QED
    BY <2>1, <2>2, Zenon
<1>9. /\ recv_len' \in [{"uart", "dma"} -> -bufsz .. bufsz]
      /\ InUart' = InUart /\ InDma' = len
  <2>1. recv_len \in [{"uart", "dma"} -> -bufsz .. bufsz]
    BY <1>3 DEF RxTypeOK
  <2>2. /\ recv_len' \in [{"uart", "dma"} -> -bufsz .. bufsz]
        /\ recv_len'.dma = len /\ recv_len'.uart = recv_len.uart
    <3> HIDE DEF len
    <3>1. QED
      BY <1>1, <1>7, <2>1, Lengths
  <2>3. QED
    BY <2>2, Zenon DEF InUart, InDma
<1>10. w % bufsz = w
  BY <1>4, SmallLemma DEF Place
<1>11. ~raced => len = arrived - counted /\ len >= 0
  <2> SUFFICES ASSUME ~raced
               PROVE  len = arrived - counted /\ len >= 0
    OBVIOUS
  <2> DEFINE k == arrived - counted
  <2>1. k \in 1 .. bufsz - last_index /\ k \in 0 .. bufsz /\ k \in Int
    <3>1. k <= bufsz - last_index /\ arrived > counted
      BY <1>6, Zenon
    <3>2. QED
      BY <1>4, <3>1 DEF Place
  <2>2. (counted + k) % bufsz = IF (counted % bufsz) + k < bufsz
                                THEN (counted % bufsz) + k
                                ELSE (counted % bufsz) + k - bufsz
    <3>1. counted \in Int
      BY <1>4
    <3>2. QED
      BY <1>4, <2>1, <3>1, StepLemma, Zenon
  <2>3. counted + k = arrived
    BY <1>4
  <2>4. w = IF last_index + k < bufsz THEN last_index + k ELSE last_index + k - bufsz
    BY <1>6, <2>2, <2>3, Zenon
  <2>5. k = arrived - counted /\ len = IF w = 0 THEN bufsz - last_index ELSE w - last_index
    OBVIOUS
  <2> HIDE DEF w, k, len
  <2>6. len = k /\ k >= 0
    BY <1>4, <2>1, <2>4, <2>5 DEF Place
  <2>7. QED
    BY <2>5, <2>6
<1>12. arrived < bufsz =>
         /\ put_index + InUart + len = arrived /\ len >= 0 /\ InUart >= 0
         /\ ~is_full /\ get_index <= put_index
  <2> SUFFICES ASSUME arrived < bufsz
               PROVE  /\ put_index + InUart + len = arrived /\ len >= 0 /\ InUart >= 0
                      /\ ~is_full /\ get_index <= put_index
    OBVIOUS
  <2>1. /\ put_index + InUart + InDma = counted /\ InUart >= 0
        /\ ~is_full /\ get_index <= put_index
    BY <1>3 DEF ByDma, IndexOK
  <2>2. arrived \in 0 .. bufsz - 1
    BY <1>4
  <2>3. w = arrived
    BY <1>4, <2>2, SmallLemma, Zenon
  <2>4. last_index = counted
    <3>1. counted \in 0 .. bufsz - 1
      <4>1. counted <= arrived
        BY <1>6, Zenon
      <4>2. QED
        BY <1>4, <4>1
    <3>2. QED
      BY <1>4, <1>6, <3>1, SmallLemma, Zenon
  <2>5. len = arrived - counted
    <3>1. w # 0
      BY <1>5, <2>3
    <3>2. len = w - last_index
      BY <3>1
    <3>3. QED
      BY <2>3, <2>4, <3>2, Zenon
  <2>6. counted <= arrived
    BY <1>6, Zenon
  <2> HIDE DEF len
  <2>7. put_index + InUart + len = arrived /\ len >= 0
    <3>1. put_index + InUart = counted
      BY <1>4, <1>5, <2>1
    <3>2. QED
      BY <1>4, <2>5, <2>6, <3>1
  <2>8. QED
    BY <2>1, <2>7
<1>13. HandlersOK'
  BY <1>1, <1>3, <1>5, <1>9, Zenon DEF ByDma, HandlersOK
<1>14. CountOK'
  <2>1. counted' <= arrived' /\ last_index' = counted' % bufsz
    <3>1. counted' <= arrived'
      BY <1>1, <1>4
    <3>2. QED
      BY <1>1, <3>1, Zenon
  <2>2. arrived' - counted' <= bufsz - last_index'
        /\ arrived' - counted' # bufsz - last_index'
    <3> HIDE DEF w
    <3>1. 0 <= bufsz - w /\ 0 # bufsz - w /\ arrived - arrived = 0
      BY <1>4 DEF Place
    <3>2. QED
      BY <1>1, <3>1, Zenon
  <2>3. ~dma_flag'
    BY <1>1
  <2>4. QED
    BY <2>1, <2>2, <2>3, Zenon DEF CountOK
<1>15. (put_index + InUart + len) % bufsz = w
  <2> DEFINE x == put_index + InUart
  <2>1. x \in Int
    BY <1>4
  <2>2. x % bufsz = last_index
    BY <1>8
  <2> HIDE DEF x
  <2>3. (x + len) % bufsz = ((x % bufsz) + len) % bufsz
    BY <1>4, <1>7, <2>1, ShiftLemma, Zenon
  <2>4. (last_index + len) % bufsz = w
    <3>1. CASE w = 0
      <4>1. last_index + len = bufsz * 1 + 0
        BY <1>4, <3>1
      <4>2. (bufsz * 1 + 0) % bufsz = 0 % bufsz
        <5>1. 1 \in Int /\ 0 \in Int
          OBVIOUS
        <5>2. QED
          BY <1>4, <5>1, LapsLemma, Zenon
      <4>3. QED
        BY <1>10, <3>1, <4>1, <4>2, Zenon
    <3>2. CASE w # 0
      <4>1. last_index + len = w
        <5>1. len = w - last_index
          BY <3>2
        <5> HIDE DEF w, len
        <5>2. QED
          BY <1>4, <5>1
      <4>2. QED
        BY <1>10, <4>1, Zenon
    <3>3. QED
      BY <3>1, <3>2
  <2>5. (x + len) % bufsz = w
    BY <2>2, <2>3, <2>4, Zenon
  <2>6. QED
    BY <2>5 DEF x
<1> HIDE DEF w, len
<1>16. IndexOK'
  <2>1. is_full' => put_index' = get_index'
    BY <1>2, <1>3 DEF ByDma, IndexOK
  <2>2. (put_index' + InUart' + InDma') % bufsz = last_index'
    BY <1>1, <1>2, <1>9, <1>15, Zenon
  <2>3. ~raced' => InUart' >= 0 /\ InDma' >= 0
    <3>1. ~raced => InUart >= 0
      BY <1>3 DEF ByDma, IndexOK
    <3>2. QED
      BY <1>1, <1>9, <1>11, <3>1, Zenon
  <2>4. ASSUME arrived' < bufsz
        PROVE  /\ put_index' + InUart' + InDma' = counted'
               /\ InUart' >= 0 /\ InDma' >= 0
               /\ ~is_full' /\ get_index' <= put_index'
    BY <1>1, <1>2, <1>9, <1>12, <2>4, Zenon
  <2>5. driver' # "idle"
    BY <1>1, <1>3
  <2>6. QED
    BY <2>1, <2>2, <2>3, <2>4, <2>5, Zenon DEF IndexOK
<1>17. ASSUME NEW c \in Nat, Upto(c), ~raced
       PROVE  /\ c \in 0 .. counted' /\ put_index' = c % bufsz
              /\ c + InUart' + InDma' = counted'
  <2>1. /\ c \in 0 .. counted /\ put_index = c % bufsz
        /\ c + InUart + InDma = counted
    BY <1>3, <1>17 DEF Upto
  <2>2. c \in 0 .. arrived
    <3>1. counted <= arrived
      BY <1>6, Zenon
    <3>2. QED
      BY <1>4, <2>1, <3>1
  <2>3. c + InUart + len = arrived
    <3>1. c + InUart = counted
      BY <1>4, <1>5, <2>1
    <3>2. len = arrived - counted
      BY <1>11, <1>17
    <3>3. QED
      BY <1>4, <3>1, <3>2
  <2>4. QED
    BY <1>1, <1>2, <1>9, <2>1, <2>2, <2>3, Zenon
<1>18. OrderOK'
  <2> SUFFICES ASSUME ~raced', ~ahead'
               PROVE  \E c \in Nat : Upto(c)' /\ got' + Held' <= c
    BY DEF OrderOK
  <2>1. ~raced /\ ~ahead
    BY <1>1
  <2>2. PICK c \in Nat : Upto(c) /\ got + Held <= c
    BY <1>3, <2>1 DEF ByDma, OrderOK
  <2>3. Upto(c)'
    BY <1>1, <1>3, <1>17, <2>1, <2>2, Zenon DEF Upto
  <2>4. got' + Held' <= c
    BY <1>1, <1>2, <2>2, Zenon
  <2>5. QED
    BY <2>2, <2>3, <2>4
<1>19. KeptOK'
  <2> SUFFICES ASSUME Kept'
               PROVE  /\ ~ahead' /\ arrived' - got' <= unread'
                      /\ get_index' = got' % bufsz /\ Upto(got + Held)'
    BY DEF KeptOK
  <2>1. Kept /\ ~raced
    BY <1>1 DEF Kept, Room
  <2>2. ~ahead /\ arrived - got <= unread /\ get_index = got % bufsz /\ Upto(got + Held)
    BY <1>3, <2>1 DEF ByDma, KeptOK
  <2>3. got + Held \in Nat
    BY <1>3, <1>4, HeldFacts
  <2> DEFINE c == got + Held
  <2>4. /\ c \in 0 .. counted' /\ put_index' = c % bufsz
        /\ c + InUart' + InDma' = counted'
    BY <1>17, <2>1, <2>2, <2>3, Zenon
  <2>5. c = got' + Held'
    BY <1>1, <1>2
  <2> HIDE DEF c
  <2>6. Upto(got + Held)'
    BY <1>1, <1>3, <2>4, <2>5, Zenon DEF Upto
  <2>7. QED
    BY <1>1, <1>2, <2>2, <2>6, Zenon
<1>20. NoticeOK'
  BY <1>1, <1>2, <1>3 DEF NoticeOK
<1>21. Written'
  BY <1>1, <1>2, <1>3, SameBytes
<1>22. RxTypeOK'
  <2>1. w \in 0 .. bufsz - 1 /\ arrived \in 0 .. MaxBytes
    BY <1>3, <1>4 DEF RxTypeOK, Place
  <2>2. QED
    BY <1>1, <1>2, <1>3, <1>9, <2>1 DEF RxTypeOK
<1>23. ByDma'
  BY <1>13, <1>14, <1>16, <1>18, <1>19 DEF ByDma
<1>24. QED
  BY <1>1, <1>3, <1>20, <1>21, <1>22, <1>23 DEF RxInv

(* uart_isr reports. *)
LEMMA IdleReportKeeps ==
  ASSUME RxBounds, RxInv, IdleReport
  PROVE  RxInv'
<1>1. /\ uart_isr = "counted" /\ dma_isr = "none" /\ uart_isr' = "none"
      /\ idle_flag' = FALSE /\ recv_len' = [recv_len EXCEPT !.uart = 0]
      /\ driver' = driver /\ buffer' = buffer /\ arrived' = arrived /\ quiet' = quiet
      /\ dma_flag' = dma_flag /\ dma_isr' = dma_isr /\ last_index' = last_index
      /\ counted' = counted /\ got' = got /\ handed' = handed /\ unread' = unread
      /\ raced' = raced /\ ahead' = ahead
  BY DEF IdleReport, rx_history
<1>2. Report(InUart)
  BY DEF IdleReport, Report, InUart
<1>3. /\ RxTypeOK /\ Written /\ NoticeOK /\ ByDma /\ driver # "interrupt"
      /\ driver \in {"idle", "callbacks"}
  BY <1>1, DriversAre DEF ByInterrupt
<1>4. /\ InUart \in Int /\ InUart \in -bufsz .. bufsz /\ bufsz \in Nat /\ InDma = 0
      /\ 0 \in -bufsz .. bufsz
  <2>1. InUart \in Int /\ InUart \in -bufsz .. bufsz /\ bufsz \in Nat
    BY <1>3, RxFacts
  <2>2. InDma = 0
    BY <1>1, <1>3 DEF ByDma, HandlersOK
  <2>3. QED
    BY <2>1, <2>2
<1>5. /\ recv_len' \in [{"uart", "dma"} -> -bufsz .. bufsz]
      /\ InUart' = 0 /\ InDma' = 0
  <2>1. recv_len \in [{"uart", "dma"} -> -bufsz .. bufsz]
    BY <1>3 DEF RxTypeOK
  <2>2. /\ recv_len' \in [{"uart", "dma"} -> -bufsz .. bufsz]
        /\ recv_len'.uart = 0 /\ recv_len'.dma = recv_len.dma
    BY <1>1, <1>4, <2>1, Lengths
  <2>3. QED
    BY <1>4, <2>2, Zenon DEF InUart, InDma
<1>6. /\ put_index' \in Place /\ get_index' \in Place /\ is_full' \in BOOLEAN
      /\ NoticeOK' /\ reader' \in {"read", "take", "wait"} /\ notice' \in BOOLEAN
  <2>1. is_full => put_index = get_index
    BY <1>3 DEF ByDma, IndexOK
  <2>2. QED
    BY <1>2, <1>3, <1>4, <2>1, ReportKeeps
<1>7. UNCHANGED <<driver, arrived, counted, last_index, got, unread, raced, ahead>>
  BY <1>1
<1>8. IndexOK' /\ OrderOK' /\ KeptOK'
  <2>1. CASE driver = "idle"
    BY <1>1, <1>2, <1>3, <1>5, <1>7, <2>1, IdleLineReport
  <2>2. CASE driver = "callbacks"
    BY <1>2, <1>3, <1>4, <1>5, <1>7, <2>2, CallbackReport
  <2>3. QED
    BY <1>3, <2>1, <2>2
<1>9. HandlersOK' /\ CountOK'
  <2>1. HandlersOK'
    BY <1>1, <1>3, <1>4, <1>5, Zenon DEF ByDma, HandlersOK
  <2>2. CountOK'
    BY <1>1, <1>3, Zenon DEF ByDma, CountOK
  <2>3. QED
    BY <2>1, <2>2
<1>10. Written'
  BY <1>1, <1>3, SameBytes
<1>11. RxTypeOK'
  BY <1>1, <1>3, <1>5, <1>6 DEF RxTypeOK, Place
<1>12. QED
  BY <1>1, <1>3, <1>6, <1>8, <1>9, <1>10, <1>11 DEF RxInv, ByDma

(* dma_isr reports. *)
LEMMA DmaReportKeeps ==
  ASSUME RxBounds, RxInv, DmaReport
  PROVE  RxInv'
<1>1. /\ dma_isr = "counted" /\ dma_isr' = "none"
      /\ recv_len' = [recv_len EXCEPT !.dma = 0]
      /\ driver' = driver /\ buffer' = buffer /\ arrived' = arrived /\ quiet' = quiet
      /\ idle_flag' = idle_flag /\ dma_flag' = dma_flag /\ uart_isr' = uart_isr
      /\ last_index' = last_index
      /\ counted' = counted /\ got' = got /\ handed' = handed /\ unread' = unread
      /\ raced' = raced /\ ahead' = ahead
  BY DEF DmaReport, hardware, rx_history
<1>2. Report(InDma)
  BY DEF DmaReport, Report, InDma
<1>3. /\ RxTypeOK /\ Written /\ NoticeOK /\ ByDma /\ driver = "callbacks"
      /\ driver # "interrupt"
  <2>1. RxTypeOK /\ Written /\ NoticeOK /\ ByDma /\ driver \in {"idle", "callbacks"}
    BY <1>1, DriversAre DEF ByInterrupt
  <2>2. driver # "idle"
    BY <1>1, <2>1 DEF ByDma, HandlersOK
  <2>3. QED
    BY <2>1, <2>2
<1>4. /\ InUart \in -bufsz .. bufsz /\ InDma \in -bufsz .. bufsz /\ InDma \in Int
      /\ bufsz \in Nat /\ 0 \in -bufsz .. bufsz
  <2>1. InUart \in -bufsz .. bufsz /\ InDma \in -bufsz .. bufsz /\ InDma \in Int /\ bufsz \in Nat
    BY <1>3, RxFacts
  <2>2. QED
    BY <2>1
<1>5. /\ recv_len' \in [{"uart", "dma"} -> -bufsz .. bufsz]
      /\ InDma' = 0 /\ InUart' = InUart
  <2>1. recv_len \in [{"uart", "dma"} -> -bufsz .. bufsz]
    BY <1>3 DEF RxTypeOK
  <2>2. /\ recv_len' \in [{"uart", "dma"} -> -bufsz .. bufsz]
        /\ recv_len'.dma = 0 /\ recv_len'.uart = recv_len.uart
    BY <1>1, <1>4, <2>1, Lengths
  <2>3. QED
    BY <2>2, Zenon DEF InUart, InDma
<1>6. /\ put_index' \in Place /\ get_index' \in Place /\ is_full' \in BOOLEAN
      /\ NoticeOK' /\ reader' \in {"read", "take", "wait"} /\ notice' \in BOOLEAN
  <2>1. is_full => put_index = get_index
    BY <1>3 DEF ByDma, IndexOK
  <2>2. QED
    BY <1>2, <1>3, <1>4, <2>1, ReportKeeps
<1>7. UNCHANGED <<driver, arrived, counted, last_index, got, unread, raced, ahead>>
  BY <1>1
<1>8. IndexOK' /\ OrderOK' /\ KeptOK'
  BY <1>2, <1>3, <1>4, <1>5, <1>7, CallbackReport
<1>9. HandlersOK' /\ CountOK'
  <2>1. HandlersOK'
    BY <1>1, <1>3, <1>4, <1>5, Zenon DEF ByDma, HandlersOK
  <2>2. CountOK'
    BY <1>1, <1>3, Zenon DEF ByDma, CountOK
  <2>3. QED
    BY <2>1, <2>2
<1>10. Written'
  BY <1>1, <1>3, SameBytes
<1>11. RxTypeOK'
  BY <1>1, <1>3, <1>5, <1>6 DEF RxTypeOK, Place
<1>12. QED
  BY <1>1, <1>3, <1>6, <1>8, <1>9, <1>10, <1>11 DEF RxInv, ByDma

(* RxInit *)
LEMMA RxBegins == ASSUME RxBounds, RxInit PROVE RxInv
<1>1. /\ bufsz \in Nat \ {0} /\ bufsz \in Nat /\ bufsz > 1 /\ bufsz \in Int
      /\ MaxBytes \in Nat
  BY DEF RxBounds
<1>2. RxTypeOK
  <2>1. /\ 0 \in 0 .. MaxBytes /\ 0 \in 0 .. bufsz - 1 /\ 0 \in -bufsz .. bufsz
        /\ buffer \in [0 .. bufsz - 1 -> 0 .. MaxBytes]
    BY <1>1 DEF RxInit
  <2>2. recv_len \in [{"uart", "dma"} -> -bufsz .. bufsz]
    BY <2>1 DEF RxInit
  <2>3. handed \in Seq(1 .. MaxBytes)
    BY DEF RxInit
  <2>4. QED
    BY <2>1, <2>2, <2>3 DEF RxInit, RxTypeOK
<1>3. Held = 0 /\ InUart = 0 /\ InDma = 0
  BY <1>1 DEF RxInit, Held, Fill, InUart, InDma
<1>4. 0 % bufsz = 0
  BY <1>1, SmallLemma
<1>5. Written
  BY DEF RxInit, Written
<1>6. NoticeOK
  BY <1>3 DEF NoticeOK
<1>7. /\ 0 - 0 = 0 /\ 0 <= 0 /\ 0 < bufsz /\ 0 + 0 = 0 /\ 0 + 0 + 0 = 0 /\ 0 >= 0
      /\ 0 <= bufsz - 0 /\ 0 # bufsz - 0 /\ 0 \in 0 .. 0 /\ 0 \in Nat
  BY <1>1
<1>8. ByInterrupt
  BY <1>3, <1>4, <1>7, Zenon DEF RxInit, ByInterrupt
<1>9. ByDma
  <2>1. HandlersOK
    BY <1>3 DEF RxInit, HandlersOK
  <2>2. CountOK
    BY <1>4, <1>7, Zenon DEF RxInit, CountOK
  <2>3. IndexOK
    BY <1>3, <1>4, <1>7, Zenon DEF RxInit, IndexOK
  <2>4. Upto(0)
    BY <1>3, <1>4, <1>7, Zenon DEF RxInit, Upto
  <2>5. got + Held = 0 /\ got + Held <= 0
    BY <1>3, <1>7, Zenon DEF RxInit
  <2>6. OrderOK
    BY <1>7, <2>4, <2>5, Zenon DEF OrderOK
  <2>7. KeptOK
    <3>1. ~ahead /\ arrived - got <= unread /\ get_index = got % bufsz
      BY <1>4, <1>7, Zenon DEF RxInit
    <3>2. Upto(got + Held)
      BY <2>4, <2>5, Zenon
    <3>3. QED
      BY <3>1, <3>2 DEF KeptOK
  <2>8. QED
    BY <2>1, <2>2, <2>3, <2>6, <2>7 DEF ByDma
<1>10. QED
  BY <1>2, <1>5, <1>6, <1>8, <1>9 DEF RxInv

(* A step that changes nothing *)
LEMMA RxStutters == ASSUME RxInv, UNCHANGED rx_vars PROVE RxInv'
<1>1. UNCHANGED <<driver, fifo, hardware, isr, user, rx_history>>
  BY DEF rx_vars
<1>2. /\ driver' = driver /\ arrived' = arrived /\ quiet' = quiet
      /\ idle_flag' = idle_flag /\ dma_flag' = dma_flag
      /\ uart_isr' = uart_isr /\ dma_isr' = dma_isr /\ recv_len' = recv_len
      /\ last_index' = last_index /\ reader' = reader /\ notice' = notice
      /\ counted' = counted /\ got' = got /\ handed' = handed /\ unread' = unread
      /\ raced' = raced /\ ahead' = ahead
  BY <1>1 DEF hardware, isr, user, rx_history
<1>3. /\ Held' = Held /\ put_index' = put_index /\ get_index' = get_index
      /\ is_full' = is_full /\ buffer' = buffer
  BY <1>1, SameFifo
<1>4. ByDma => ByDma'
  BY <1>1, SameDma
<1>5. ByInterrupt => ByInterrupt'
  BY <1>2, <1>3, Zenon DEF ByInterrupt
<1>6. NoticeOK => NoticeOK'
  BY <1>2, <1>3, Zenon DEF NoticeOK
<1>7. Written => Written'
  BY <1>2, <1>3, SameBytes
<1>8. RxTypeOK => RxTypeOK'
  BY <1>2, <1>3, Zenon DEF RxTypeOK
<1>9. QED
  BY <1>2, <1>4, <1>5, <1>6, <1>7, <1>8, Zenon DEF RxInv

(* Every step keeps the invariant. *)
LEMMA RxSteps == ASSUME RxBounds, RxInv, [RxNext]_rx_vars PROVE RxInv'
<1>1. CASE RxInd
  BY <1>1, RxIndKeeps
<1>2. CASE DmaWrites
  BY <1>2, DmaWritesKeeps
<1>3. CASE LineIdle
  BY <1>3, LineIdleKeeps
<1>4. CASE IdleEnter
  BY <1>4, IdleEnterKeeps
<1>5. CASE IdleCount
  BY <1>5, IdleCountKeeps
<1>6. CASE IdleReport
  BY <1>6, IdleReportKeeps
<1>7. CASE DmaCount
  BY <1>7, DmaCountKeeps
<1>8. CASE DmaReport
  BY <1>8, DmaReportKeeps
<1>9. CASE ReadInt
  BY <1>9, ReadIntKeeps
<1>10. CASE \E length \in {1, bufsz} : ReadDma(length)
  BY <1>10, ReadDmaKeeps
<1>11. CASE ReadNothing
  BY <1>11, ReadNothingKeeps
<1>12. CASE Take
  BY <1>12, TakeKeeps
<1>13. CASE UNCHANGED rx_vars
  BY <1>13, RxStutters
<1>14. QED
  BY <1>1, <1>2, <1>3, <1>4, <1>5, <1>6, <1>7, <1>8, <1>9, <1>10, <1>11, <1>12, <1>13
     DEF RxNext

(* The invariant says what NothingLost promises. *)
LEMMA NothingLostHolds == ASSUME RxBounds, RxInv PROVE NothingLost
<1>1. /\ RxTypeOK /\ Written /\ NoticeOK /\ driver \in {"interrupt", "idle", "callbacks"}
      /\ driver = "interrupt" => ByInterrupt
      /\ driver # "interrupt" => ByDma
  BY DriversAre
<1>2. /\ arrived \in Nat /\ counted \in Nat /\ got \in Nat /\ bufsz \in Nat /\ bufsz > 1
      /\ Held \in 0 .. bufsz /\ Held \in Int
  BY <1>1, RxFacts, HeldFacts
<1>3. Contents = [i \in 1 .. Held |-> buffer[(get_index + i - 1) % bufsz]]
      /\ \A i \in 1 .. Held : Contents[i] = buffer[(get_index + i - 1) % bufsz]
  BY <1>1, ContentsAre
<1>4. ASSUME Kept, Runs
      PROVE  /\ Contents = [i \in 1 .. counted - got |-> got + i]
             /\ reader = "wait" /\ quiet /\ ~idle_flag /\ ~dma_flag => got = arrived
  <2>1. got + Held = counted /\ \A i \in 1 .. Held : Contents[i] = got + i
    BY <1>1, <1>4, KeptContents
  <2>2. Held = counted - got
    BY <1>2, <2>1
  <2>3. \A i \in 1 .. Held : buffer[(get_index + i - 1) % bufsz] = got + i
    BY <1>3, <2>1, Zenon
  <2>4. [i \in 1 .. Held |-> buffer[(get_index + i - 1) % bufsz]]
          = [i \in 1 .. Held |-> got + i]
    BY <2>3, Zenon
  <2>5. Contents = [i \in 1 .. counted - got |-> got + i]
    BY <1>3, <2>2, <2>4, Zenon
  <2>6. ASSUME reader = "wait", quiet, ~idle_flag
        PROVE  got = arrived
    <3>1. Held = 0
      BY <1>1, <2>6 DEF NoticeOK
    <3>2. counted = arrived
      BY <1>1, <2>6 DEF ByInterrupt, ByDma, HandlersOK
    <3>3. QED
      BY <1>2, <2>1, <3>1, <3>2
  <2>7. QED
    BY <2>5, <2>6
<1>5. ASSUME driver = "interrupt"
      PROVE  LET k == IF arrived - got < bufsz THEN arrived - got ELSE bufsz - 1
             IN  Contents = [i \in 1 .. k |-> arrived - k + i]
  <2>1. ByInterrupt
    BY <1>1, <1>5
  <2>2. /\ InLine(counted - Held) /\ counted - Held \in Nat /\ Held < bufsz
        /\ counted = arrived
        /\ Held = IF arrived - got < bufsz THEN arrived - got ELSE bufsz - 1
    BY <1>1, <2>1, InterruptInLine DEF ByInterrupt
  <2>3. ASSUME NEW i \in 1 .. Held
        PROVE  Contents[i] = arrived - Held + i
    <3> DEFINE b == counted - Held
    <3>1. b \in Nat /\ InLine(b) /\ counted <= arrived
      BY <1>2, <2>2
    <3>2. arrived < b + i + bufsz
      BY <1>2, <2>2
    <3> HIDE DEF b
    <3>3. Contents[i] = b + i
      BY <1>1, <3>1, <3>2, InLineReads
    <3>4. QED
      BY <2>2, <3>3 DEF b
  <2>4. \A i \in 1 .. Held : buffer[(get_index + i - 1) % bufsz] = arrived - Held + i
    BY <1>3, <2>3, Zenon
  <2>5. [i \in 1 .. Held |-> buffer[(get_index + i - 1) % bufsz]]
          = [i \in 1 .. Held |-> arrived - Held + i]
    BY <2>4, Zenon
  <2>6. Contents = [i \in 1 .. Held |-> arrived - Held + i]
    BY <1>3, <2>5, Zenon
  <2>7. QED
    BY <2>2, <2>6, Zenon
<1>6. Kept => Complete
  BY <1>4 DEF Complete
<1>7. QED
  BY <1>1, <1>5, <1>6 DEF NothingLost

(* A reading step hands over what is in line. *)
LEMMA ReadsInOrder ==
  ASSUME RxBounds, RxInv, ReadInt \/ \E length \in {1, bufsz} : ReadDma(length),
         ~raced, ~ahead'
  PROVE  \A i \in 1 .. Len(handed') : handed'[i] > (<<got>> \o handed')[i]
<1>1. /\ RxTypeOK /\ Written /\ driver \in {"interrupt", "idle", "callbacks"}
      /\ driver = "interrupt" => ByInterrupt
      /\ driver # "interrupt" => ByDma
  BY DriversAre
<1>2. Runs /\ calc_recved_len > 0
  BY DEF ReadInt, ReadDma
<1>3. /\ arrived \in Nat /\ counted \in Nat /\ got \in Nat /\ bufsz \in Nat /\ bufsz > 1
      /\ Held \in 0 .. bufsz /\ Held \in Int /\ Held > 0 /\ Held = calc_recved_len
  BY <1>1, <1>2, RxFacts, HeldFacts
<1>4. PICK k \in 1 .. Held : HandOver(k)
  <2>1. CASE ReadInt
    <3>1. HandOver(1) /\ 1 \in 1 .. Held
      BY <1>3, <2>1 DEF ReadInt
    <3>2. QED
      BY <3>1
  <2>2. CASE \E length \in {1, bufsz} : ReadDma(length)
    <3>1. PICK length \in {1, bufsz} : ReadDma(length)
      BY <2>2
    <3> DEFINE k == IF length < calc_recved_len THEN length ELSE calc_recved_len
    <3>2. HandOver(k)
      BY <3>1 DEF ReadDma
    <3>3. k \in 1 .. Held
      BY <1>3
    <3> HIDE DEF k
    <3>4. QED
      BY <3>2, <3>3
  <2>3. QED
    BY <2>1, <2>2
<1>5. \A i \in 1 .. Held : Contents[i] \in 1 .. arrived
  BY <1>1, <1>2, ContentsTyped
<1>6. /\ Len(handed') = k /\ \A i \in 1 .. k : handed'[i] = Contents[i]
      /\ handed' \in Seq(1 .. MaxBytes) /\ ~ahead
  BY <1>1, <1>4, <1>5, HandsOver
<1>7. PICK b \in Nat : InLine(b) /\ counted <= arrived
  <2>1. CASE driver = "interrupt"
    <3>1. InLine(counted - Held) /\ counted - Held \in Nat
      BY <1>1, <2>1, InterruptInLine
    <3>2. counted <= arrived
      BY <1>1, <1>3, <2>1 DEF ByInterrupt
    <3>3. QED
      BY <3>1, <3>2
  <2>2. CASE driver # "interrupt"
    <3>1. InLine(counted - Held) /\ counted - Held \in Nat
      BY <1>1, <1>2, <1>6, <2>2, DmaInLine
    <3>2. counted <= arrived
      BY <1>1, <2>2 DEF ByDma, CountOK
    <3>3. QED
      BY <3>1, <3>2
  <2>3. QED
    BY <2>1, <2>2
<1>8. got <= b /\ \A i \in 1 .. k : handed'[i] = b + i
  BY <1>1, <1>4, <1>6, <1>7, ReadsInLine DEF InLine
<1> DEFINE s == handed'
<1>9. s \in Seq(1 .. MaxBytes) /\ Len(s) = k /\ \A i \in 1 .. k : s[i] = b + i
  BY <1>6, <1>8
<1> HIDE DEF s
<1>10. ASSUME NEW i \in 1 .. k
       PROVE  s[i] > (<<got>> \o s)[i]
  <2>1. k \in Nat /\ i \in Int /\ b \in Nat /\ got \in Nat /\ s[i] = b + i
    BY <1>3, <1>9
  <2>2. CASE i = 1
    <3>1. (<<got>> \o s)[i] = got
      BY <1>9, <2>1, <2>2
    <3>2. QED
      BY <1>8, <2>1, <2>2, <3>1
  <2>3. CASE i # 1
    <3>1. i - 1 \in 1 .. k
      BY <2>1, <2>3
    <3>2. (<<got>> \o s)[i] = s[i - 1]
      BY <1>9, <2>1, <2>3, <3>1
    <3>3. s[i - 1] = b + (i - 1)
      BY <1>9, <3>1
    <3>4. b + i > b + (i - 1)
      BY <2>1
    <3>5. QED
      BY <2>1, <3>2, <3>3, <3>4, Zenon
  <2>4. QED
    BY <2>2, <2>3
<1>11. QED
  BY <1>9, <1>10 DEF s

(* The inductive invariant of the serial device, for every buffer size that *)
(* a 16-bit index wraps around in step with, or any size without callbacks. *)
THEOREM RxInvariance ==
  ASSUME "callbacks" \in Driver => 2 ^ 16 % bufsz = 0
  PROVE  RxSpec => []RxInv
<1>1. RxBounds
  BY RxBoundsUsed
<1>2. RxInit => RxInv
  BY <1>1, RxBegins
<1>3. RxInv /\ [RxNext]_rx_vars => RxInv'
  BY <1>1, RxSteps
<1>4. QED
  BY <1>2, <1>3, PTL DEF RxSpec

(* drv_usart.c and serial.c lose, repeat or leave lying no byte as long as   *)
(* the unread ones fit; by interrupt the FIFO keeps the last that fit.       *)
THEOREM NothingIsLost ==
  ASSUME "callbacks" \in Driver => 2 ^ 16 % bufsz = 0
  PROVE  RxSpec => []NothingLost
<1>1. RxBounds
  BY RxBoundsUsed
<1>2. RxInv => NothingLost
  BY <1>1, NothingLostHolds
<1>3. QED
  BY <1>2, RxInvariance, PTL

(* _serial_int_rx and the read by DMA never hand out a byte twice or after a *)
(* later one, up to the first byte that the DMA has written over unseen.     *)
THEOREM BytesReadInOrder ==
  ASSUME "callbacks" \in Driver => 2 ^ 16 % bufsz = 0
  PROVE  RxSpec => ReadInOrder
<1>1. RxBounds
  BY RxBoundsUsed
<1>2. RxInv /\ [RxNext]_rx_vars =>
        [ (ReadInt \/ \E length \in {1, bufsz} : ReadDma(length))
            /\ ~raced /\ ~ahead' =>
              \A i \in 1 .. Len(handed') :
                handed'[i] > (<<got>> \o handed')[i] ]_rx_vars
  BY <1>1, ReadsInOrder
<1>3. QED
  BY <1>2, RxInvariance, PTL DEF RxSpec, ReadInOrder
=============================================================================
