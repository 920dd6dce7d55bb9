---------------------------- MODULE MutexProofs ----------------------------
(***************************************************************************)
(* Mutexes, any number of them between any threads: the hand-over to a     *)
(* waiter, and the priorities that are lent and given back.                *)
(***************************************************************************)
EXTENDS Mutex, KernelProofs

(***************************************************************************)
(* The inductive invariant.                                                *)
(***************************************************************************)
(* Only a thread that is leaving the processor is current without running. *)
CurrentRuns ==
  /\ kern.lock = 0
  /\ pc[kern.current] \notin {"take", "sleep"} =>
       kern.stat[kern.current] = "RUNNING"

(* Whoever waits for a mutex is in rt_mutex_take for it, without an answer.  *)
WaitersOK ==
  \A m \in Mutexes : \A t \in ToSet(kern.list[m]) :
    /\ pc[t] \in {"take", "taken"} /\ want[t] = m
    /\ owner[m] # t /\ kern.error[t] = "RT_EOK"

(* the priority an owner goes back to is one a thread may have *)
RecordedOK ==
  \A m \in Mutexes : owner[m] # NoOwner => original_priority[m] \in Priority

Waiting == CurrentRuns /\ WaitersOK /\ HandOverReturned

IInv == TypeOK /\ KernelOK(kern) /\ OwnerOK /\ RecordedOK /\ Waiting

(* The suspend lists of Kernel are those of the mutexes. *)
LEMMA Lists == List = Mutexes /\ \A m \in Mutexes : m # "rt_thread_defunct"
BY MutexAssumption

(* A thread that takes a step runs, so it waits for no mutex. *)
LEMMA OwnStep ==
  ASSUME IInv, NEW t \in Thread, NEW p, At(t, p), p \notin {"take", "sleep"}
  PROVE  /\ HasCpu(kern, t) /\ pc[t] = p
         /\ \A m \in Mutexes : t \notin ToSet(kern.list[m])
<1>1. HasCpu(kern, t) /\ pc[t] = p
  BY DEF IInv, Waiting, CurrentRuns, At, HasCpu
<1>2. QED
  BY <1>1, Lists DEF HasCpu, IInv, KernelOK, SuspendListOK, ListedStat

(***************************************************************************)
(* Steps that suspend and resume nobody.                                   *)
(***************************************************************************)
(* the kernel data of a step of thread t that keeps the processor: priorities *)
(* may change, and the thread's own error number                              *)
Quiet(t) ==
  /\ KernelOK(kern')
  /\ kern'.current = kern.current /\ kern'.stat = kern.stat
  /\ kern'.list = kern.list /\ kern'.lock = kern.lock
  /\ \A x \in Thread \ {t} : kern'.error[x] = kern.error[x]

(* mutexes change hands at most between t and nobody *)
OwnHands(t) ==
  \A m \in Mutexes :
    owner'[m] = owner[m] \/ (owner[m] \in {t, NoOwner} /\ owner'[m] \in {t, NoOwner})

(* A thread that keeps the processor disturbs no waiter. *)
LEMMA QuietStep ==
  ASSUME IInv, NEW t \in Thread, NEW p, At(t, p), p \notin {"take", "sleep"},
         Quiet(t), OwnHands(t), pc' = [pc EXCEPT ![t] = Run], UNCHANGED want
  PROVE  Waiting'
<1>1. /\ HasCpu(kern, t) /\ pc[t] = p
      /\ \A m \in Mutexes : t \notin ToSet(kern.list[m])
  BY OwnStep
<1>2. pc'[t] = Run /\ \A x \in Thread \ {t} : pc'[x] = pc[x]
  BY DEF IInv, TypeOK
<1>3. \A m \in Mutexes : ToSet(kern.list[m]) \subseteq Thread \ {t}
  BY <1>1, Lists, ListedThreads DEF IInv
<1>4. CurrentRuns'
  BY <1>1 DEF CurrentRuns, HasCpu, Quiet, IInv, Waiting
<1>5. WaitersOK'
  <2> SUFFICES ASSUME NEW m \in Mutexes, NEW x \in ToSet(kern.list[m])
               PROVE  /\ pc'[x] \in {"take", "taken"} /\ want[x] = m
                      /\ owner'[m] # x /\ kern'.error[x] = "RT_EOK"
    BY DEF WaitersOK, Quiet
  <2>1. x \in Thread \ {t} /\ x # NoOwner
    BY <1>3, MutexAssumption
  <2>2. QED
    BY <1>2, <2>1 DEF IInv, Waiting, WaitersOK, Quiet, OwnHands
<1>6. HandOverReturned'
  <2> SUFFICES ASSUME NEW x \in Thread, pc'[x] \in {"take", "taken"}
               PROVE  IF kern.stat[x] = "SUSPEND"
                      THEN Contains(kern.list[want[x]], x) /\ owner'[want[x]] # x
                      ELSE owner'[want[x]] = x <=> kern'.error[x] = "RT_EOK"
    BY DEF HandOverReturned, Quiet
  <2>1. x # t /\ x # NoOwner /\ pc[x] \in {"take", "taken"}
    BY <1>2, MutexAssumption DEF Run
  <2>2. want[x] \in Mutexes
    BY DEF IInv, TypeOK
  <2>3. kern'.error[x] = kern.error[x] /\ (owner'[want[x]] = x <=> owner[want[x]] = x)
    BY <2>1, <2>2 DEF Quiet, OwnHands
  <2>4. QED
    BY <2>1, <2>3 DEF IInv, Waiting, HandOverReturned
<1>7. QED
  BY <1>4, <1>5, <1>6 DEF Waiting

(* A new error number is a quiet step. *)
LEMMA ErrorStep ==
  ASSUME IInv, NEW t \in Thread, NEW e \in Error, kern' = SetError(kern, t, e)
  PROVE  Quiet(t) /\ kern'.priority = kern.priority
BY ErrorLemma DEF IInv, Quiet

(* So is no change of the kernel data at all. *)
LEMMA SameStep ==
  ASSUME IInv, NEW t \in Thread, UNCHANGED kern
  PROVE  Quiet(t) /\ kern'.priority = kern.priority
BY DEF IInv, Quiet

(* the mutexes after a step, each of a legal value *)
MutexesOK ==
  /\ value \in [Mutexes -> {0, 1}]
  /\ owner \in [Mutexes -> Thread \cup {NoOwner}]
  /\ hold \in [Mutexes -> 0 .. RT_MUTEX_HOLD_MAX]
  /\ original_priority \in [Mutexes -> Priority \cup {NoPriority}]
  /\ OwnerOK /\ RecordedOK

(* What is left to show of a step when the kernel data are dealt with *)
LEMMA Assembled ==
  ASSUME TypeOK, KernelOK(kern'), MutexesOK', Waiting', UNCHANGED flag,
         NEW t \in Thread,
         NEW p \in {Run, "take", "taken", "sched", "sleep", "slept"},
         pc' = [pc EXCEPT ![t] = p],
         NEW m \in Mutexes, want' = want \/ want' = [want EXCEPT ![t] = m]
  PROVE  IInv'
<1>1. kern' \in KernelState
  BY DEF KernelOK
<1>2. /\ pc' \in [Thread -> {Run, "take", "taken", "sched", "sleep", "slept"}]
      /\ want' \in [Thread -> Mutexes]
      /\ flag' \in [Mutexes -> {"RT_IPC_FLAG_FIFO", "RT_IPC_FLAG_PRIO"}]
  BY DEF TypeOK
<1>3. TypeOK'
  BY <1>1, <1>2 DEF TypeOK, MutexesOK
<1>4. QED
  BY <1>3 DEF IInv, MutexesOK

(* Mutexes that do not change, while nobody begins to wait for a free one *)
LEMMA SameMutexes ==
  ASSUME IInv, UNCHANGED mutexes,
         \A m \in Mutexes : owner[m] = NoOwner => kern'.list[m] = <<>>
  PROVE  MutexesOK' /\ UNCHANGED flag
<1>1. UNCHANGED <<value, owner, hold, original_priority, flag>>
  BY DEF mutexes
<1>2. OwnerOK'
  BY <1>1 DEF IInv, OwnerOK
<1>3. QED
  BY <1>1, <1>2 DEF IInv, TypeOK, MutexesOK, RecordedOK

(* A thread outside any call stays there. *)
LEMMA StaysOutside ==
  ASSUME IInv, NEW t \in Thread, At(t, Run), UNCHANGED pc
  PROVE  pc' = [pc EXCEPT ![t] = Run]
BY DEF IInv, TypeOK, At

(* A recursive take only counts. *)
LEMMA TakeAgainStep ==
  ASSUME IInv, NEW t \in Thread, NEW m \in Mutexes, TakeAgain(t, m)
  PROVE  IInv' /\ Quiet(t) /\ kern'.priority = kern.priority
<1>1. /\ At(t, Run) /\ owner[m] = t /\ kern' = SetError(kern, t, "RT_EOK")
      /\ UNCHANGED <<pc, value, owner, original_priority, flag, want>>
      /\ hold' = IF hold[m] < RT_MUTEX_HOLD_MAX THEN [hold EXCEPT ![m] = @ + 1] ELSE hold
  BY DEF TakeAgain, ClearError, SetError
<1>2. Quiet(t) /\ kern'.priority = kern.priority
  BY <1>1, ErrorStep DEF Error
<1>3. pc' = [pc EXCEPT ![t] = Run]
  BY <1>1, StaysOutside
<1>4. Waiting'
  BY <1>1, <1>2, <1>3, QuietStep DEF OwnHands, Run
<1>5. t # NoOwner /\ RT_MUTEX_HOLD_MAX \in Nat
  BY MutexAssumption
<1>6. /\ hold' \in [Mutexes -> 0 .. RT_MUTEX_HOLD_MAX]
      /\ \A n \in Mutexes : hold'[n] = 0 <=> hold[n] = 0
  <2>1. hold \in [Mutexes -> 0 .. RT_MUTEX_HOLD_MAX] /\ hold[m] # 0
    BY <1>1, <1>5 DEF IInv, TypeOK, OwnerOK
  <2>2. QED
    BY <1>1, <1>5, <2>1
<1>7. MutexesOK'
  <2>1. OwnerOK'
    BY <1>1, <1>2, <1>6 DEF IInv, OwnerOK, Quiet
  <2>2. QED
    BY <1>1, <1>6, <2>1 DEF IInv, TypeOK, MutexesOK, RecordedOK
<1>8. KernelOK(kern') /\ TypeOK
  BY <1>2 DEF Quiet, IInv
<1>9. IInv'
  BY <1>1, <1>3, <1>4, <1>7, <1>8, Assembled
<1>10. QED
  BY <1>2, <1>9

(* A free mutex goes to the thread that asks. *)
LEMMA TakeFreeStep ==
  ASSUME IInv, NEW t \in Thread, NEW m \in Mutexes, TakeFree(t, m)
  PROVE  IInv' /\ Quiet(t) /\ kern'.priority = kern.priority
<1>1. /\ At(t, Run) /\ owner[m] # t /\ value[m] > 0
      /\ kern' = SetError(kern, t, "RT_EOK")
      /\ value' = [value EXCEPT ![m] = @ - 1]
      /\ owner' = [owner EXCEPT ![m] = t]
      /\ original_priority' = [original_priority EXCEPT ![m] = kern.priority[t]]
      /\ hold' = [hold EXCEPT ![m] = @ + 1]
      /\ UNCHANGED <<pc, flag, want>>
  BY DEF TakeFree, ClearError, SetError
<1>2. Quiet(t) /\ kern'.priority = kern.priority
  BY <1>1, ErrorStep DEF Error
<1>3. pc' = [pc EXCEPT ![t] = Run]
  BY <1>1, StaysOutside
<1>4. /\ value[m] = 1 /\ owner[m] = NoOwner /\ hold[m] = 0
      /\ kern.priority[t] \in Priority
      /\ t # NoOwner /\ RT_MUTEX_HOLD_MAX \in Nat \ {0}
  BY <1>1, MutexAssumption DEF IInv, TypeOK, OwnerOK, KernelState
<1>5. OwnHands(t)
  BY <1>1, <1>4 DEF OwnHands, IInv, TypeOK
<1>6. Waiting'
  BY <1>1, <1>2, <1>3, <1>5, QuietStep DEF Run
<1>7. /\ value'[m] = 0 /\ owner'[m] = t /\ hold'[m] = 1
      /\ original_priority'[m] \in Priority
      /\ \A n \in Mutexes \ {m} :
           /\ value'[n] = value[n] /\ owner'[n] = owner[n] /\ hold'[n] = hold[n]
           /\ original_priority'[n] = original_priority[n]
  BY <1>1, <1>4 DEF IInv, TypeOK
<1>8. MutexesOK'
  <2>1. OwnerOK'
    BY <1>2, <1>4, <1>7 DEF IInv, OwnerOK, Quiet
  <2>2. RecordedOK'
    BY <1>7 DEF IInv, RecordedOK
  <2>3. /\ value' \in [Mutexes -> {0, 1}]
        /\ owner' \in [Mutexes -> Thread \cup {NoOwner}]
        /\ hold' \in [Mutexes -> 0 .. RT_MUTEX_HOLD_MAX]
        /\ original_priority' \in [Mutexes -> Priority \cup {NoPriority}]
    BY <1>1, <1>4 DEF IInv, TypeOK
  <2>4. QED
    BY <2>1, <2>2, <2>3 DEF MutexesOK
<1>9. KernelOK(kern') /\ TypeOK
  BY <1>2 DEF Quiet, IInv
<1>10. IInv'
  BY <1>1, <1>3, <1>6, <1>8, <1>9, Assembled
<1>11. QED
  BY <1>2, <1>10

(* A step of a thread that keeps the processor and changes no mutex *)
LEMMA PlainStep ==
  ASSUME IInv, NEW t \in Thread, NEW p, At(t, p), p \notin {"take", "sleep"},
         Quiet(t), pc' = [pc EXCEPT ![t] = Run], UNCHANGED <<mutexes, want>>
  PROVE  IInv'
<1>1. OwnHands(t)
  BY DEF OwnHands, mutexes
<1>2. Waiting'
  BY <1>1, QuietStep
<1>3. MutexesOK' /\ UNCHANGED flag
  BY SameMutexes DEF Quiet, IInv, OwnerOK
<1>4. want[t] \in Mutexes /\ KernelOK(kern') /\ TypeOK
  BY DEF IInv, TypeOK, Quiet
<1>5. QED
  BY <1>2, <1>3, <1>4, Assembled

(* A take that does not wait for a held mutex, and the release of a mutex of  *)
(* another thread, leave an error number.                                     *)
LEMMA FailStep ==
  ASSUME IInv, NEW t \in Thread, NEW m \in Mutexes,
         TryTakeFails(t, m) \/ ReleaseFails(t, m)
  PROVE  IInv' /\ Quiet(t) /\ kern'.priority = kern.priority
<1>1. /\ At(t, Run) /\ UNCHANGED <<pc, mutexes, want>>
      /\ \E e \in Error : kern' = SetError(kern, t, e)
  BY DEF TryTakeFails, ReleaseFails, SetError, Error
<1>2. Quiet(t) /\ kern'.priority = kern.priority
  BY <1>1, ErrorStep
<1>3. pc' = [pc EXCEPT ![t] = Run]
  BY <1>1, StaysOutside
<1>4. IInv'
  BY <1>1, <1>2, <1>3, PlainStep DEF Run
<1>5. QED
  BY <1>2, <1>4

(* The return of a take that waited *)
LEMMA TakeReturnStep ==
  ASSUME IInv, NEW t \in Thread, TakeReturn(t)
  PROVE  IInv' /\ Quiet(t) /\ kern'.priority = kern.priority
<1>1. Quiet(t) /\ kern'.priority = kern.priority
  BY SameStep DEF TakeReturn
<1>2. IInv'
  BY <1>1, PlainStep DEF TakeReturn, Goto
<1>3. QED
  BY <1>1, <1>2

(* The end of rt_thread_sleep *)
LEMMA SleepEndStep ==
  ASSUME IInv, NEW t \in Thread, SleepEnd(t), UNCHANGED <<mutexes, want>>
  PROVE  IInv' /\ Quiet(t) /\ kern'.priority = kern.priority
<1>1. /\ At(t, "slept") /\ pc' = [pc EXCEPT ![t] = Run]
      /\ kern' = IF kern.error[t] = "RT_ETIMEOUT"
                 THEN SetError(kern, t, "RT_EOK") ELSE kern
  BY DEF SleepEnd, Goto, SetError
<1>2. Quiet(t) /\ kern'.priority = kern.priority
  <2>1. CASE kern.error[t] = "RT_ETIMEOUT"
    BY <1>1, <2>1, ErrorStep DEF Error
  <2>2. CASE kern.error[t] # "RT_ETIMEOUT"
    BY <1>1, <2>2, SameStep
  <2>3. QED
    BY <2>1, <2>2
<1>3. IInv'
  BY <1>1, <1>2, PlainStep
<1>4. QED
  BY <1>2, <1>3

(* A release of a mutex that was taken several times only counts. *)
LEMMA ReleaseInnerStep ==
  ASSUME IInv, NEW t \in Thread, NEW m \in Mutexes, ReleaseInner(t, m)
  PROVE  IInv' /\ Quiet(t) /\ kern'.priority = kern.priority
<1>1. /\ At(t, Run) /\ owner[m] = t /\ hold[m] > 1 /\ UNCHANGED kern
      /\ UNCHANGED <<pc, value, owner, original_priority, flag, want>>
      /\ hold' = [hold EXCEPT ![m] = @ - 1]
  BY DEF ReleaseInner
<1>2. Quiet(t) /\ kern'.priority = kern.priority
  BY <1>1, SameStep
<1>3. pc' = [pc EXCEPT ![t] = Run]
  BY <1>1, StaysOutside
<1>4. Waiting'
  BY <1>1, <1>2, <1>3, QuietStep DEF OwnHands, Run
<1>5. /\ hold' \in [Mutexes -> 0 .. RT_MUTEX_HOLD_MAX]
      /\ \A n \in Mutexes : hold'[n] = 0 <=> hold[n] = 0
  <2>1. hold \in [Mutexes -> 0 .. RT_MUTEX_HOLD_MAX] /\ RT_MUTEX_HOLD_MAX \in Nat
    BY MutexAssumption DEF IInv, TypeOK
  <2>2. QED
    BY <1>1, <2>1
<1>6. MutexesOK'
  <2>1. OwnerOK'
    BY <1>1, <1>5 DEF IInv, OwnerOK
  <2>2. QED
    BY <1>1, <1>5, <2>1 DEF IInv, TypeOK, MutexesOK, RecordedOK
<1>7. KernelOK(kern') /\ TypeOK
  BY <1>2 DEF Quiet, IInv
<1>8. IInv'
  BY <1>1, <1>3, <1>4, <1>6, <1>7, Assembled
<1>9. QED
  BY <1>2, <1>8

(* The owner of a mutex goes back to the recorded priority. *)
LEMMA RestoredLemma ==
  ASSUME IInv, NEW t \in Thread, NEW m \in Mutexes, owner[m] = t
  PROVE  Reprioritized(kern, Restored(t, m), t, original_priority[m])
<1>1. original_priority[m] \in Priority /\ KernelOK(kern)
  BY MutexAssumption DEF IInv, RecordedOK
<1>2. CASE original_priority[m] # kern.priority[t]
  BY <1>1, <1>2, ChangePriorityLemma DEF Restored
<1>3. CASE original_priority[m] = kern.priority[t]
  BY <1>1, <1>3 DEF Restored, Reprioritized
<1>4. QED
  BY <1>2, <1>3

(* A release without a waiter frees the mutex. *)
LEMMA ReleaseFreeStep ==
  ASSUME IInv, NEW t \in Thread, NEW m \in Mutexes, ReleaseFree(t, m)
  PROVE  /\ IInv' /\ Quiet(t)
         /\ kern'.priority[t] = original_priority[m]
         /\ \A x \in Thread \ {t} : kern'.priority[x] = kern.priority[x]
<1>1. /\ At(t, Run) /\ owner[m] = t /\ kern.list[m] = <<>>
      /\ kern' = Restored(t, m)
      /\ value' = [value EXCEPT ![m] = @ + 1]
      /\ owner' = [owner EXCEPT ![m] = NoOwner]
      /\ original_priority' = [original_priority EXCEPT ![m] = NoPriority]
      /\ hold' = [hold EXCEPT ![m] = 0]
      /\ UNCHANGED <<pc, flag, want>>
  BY DEF ReleaseFree
<1>2. /\ Quiet(t) /\ kern'.priority[t] = original_priority[m]
      /\ \A x \in Thread \ {t} : kern'.priority[x] = kern.priority[x]
  BY <1>1, RestoredLemma DEF Reprioritized, Quiet
<1>3. pc' = [pc EXCEPT ![t] = Run]
  BY <1>1, StaysOutside
<1>4. OwnHands(t)
  BY <1>1 DEF OwnHands, IInv, TypeOK
<1>5. Waiting'
  BY <1>1, <1>2, <1>3, <1>4, QuietStep DEF Run
<1>6. value[m] = 0 /\ t # NoOwner /\ RT_MUTEX_HOLD_MAX \in Nat
  BY <1>1, MutexAssumption DEF IInv, TypeOK, OwnerOK
<1>7. /\ value'[m] = 1 /\ owner'[m] = NoOwner /\ hold'[m] = 0
      /\ \A n \in Mutexes \ {m} :
           /\ value'[n] = value[n] /\ owner'[n] = owner[n] /\ hold'[n] = hold[n]
           /\ original_priority'[n] = original_priority[n]
  BY <1>1, <1>6 DEF IInv, TypeOK
<1>8. MutexesOK'
  <2>1. OwnerOK'
    BY <1>1, <1>2, <1>7 DEF IInv, OwnerOK, Quiet
  <2>2. RecordedOK'
    BY <1>7 DEF IInv, RecordedOK
  <2>3. /\ value' \in [Mutexes -> {0, 1}]
        /\ owner' \in [Mutexes -> Thread \cup {NoOwner}]
        /\ hold' \in [Mutexes -> 0 .. RT_MUTEX_HOLD_MAX]
        /\ original_priority' \in [Mutexes -> Priority \cup {NoPriority}]
    BY <1>1, <1>6 DEF IInv, TypeOK
  <2>4. QED
    BY <2>1, <2>2, <2>3 DEF MutexesOK
<1>9. KernelOK(kern') /\ TypeOK
  BY <1>2 DEF Quiet, IInv
<1>10. IInv'
  BY <1>1, <1>3, <1>5, <1>8, <1>9, Assembled
<1>11. QED
  BY <1>2, <1>10

(***************************************************************************)
(* rt_mutex_take of a held mutex.                                          *)
(***************************************************************************)
(* thread t now waits for m, and its owner may have become more urgent *)
NowWaits(t, m) ==
  /\ KernelOK(kern')
  /\ ToSet(kern'.list[m]) = ToSet(kern.list[m]) \cup {t}
  /\ kern'.list[m] = InsertAt(kern.list[m],
                       SuspendPosition(kern', kern.list[m], t, flag[m]), t)
  /\ \A n \in Mutexes \ {m} : kern'.list[n] = kern.list[n]
  /\ kern'.current = kern.current /\ kern'.lock = kern.lock
  /\ kern'.stat[t] = "SUSPEND" /\ kern'.error[t] = "RT_EOK"
  /\ \A x \in Thread \ {t} : /\ kern'.stat[x] = kern.stat[x]
                             /\ kern'.error[x] = kern.error[x]
  /\ kern'.priority[owner[m]] <= kern.priority[owner[m]]
  /\ kern'.priority[owner[m]] <= kern.priority[t]
  /\ \A x \in Thread \ {owner[m]} : kern'.priority[x] = kern.priority[x]

(* The owner gets the priority of a more urgent waiter, which is suspended. *)
LEMMA TakeWaitKernel ==
  ASSUME IInv, NEW t \in Thread \ {Idle}, NEW m \in Mutexes, NEW timed \in BOOLEAN,
         TakeWait(t, m, timed)
  PROVE  /\ NowWaits(t, m)
         /\ owner[m] \in Thread \ {t}
         /\ At(t, Run) /\ pc' = [pc EXCEPT ![t] = "take"]
         /\ want' = [want EXCEPT ![t] = m] /\ UNCHANGED mutexes
<1> DEFINE o == owner[m]
           c == SetError(kern, t, "RT_EOK")
           e == IF kern.priority[t] < kern.priority[o]
                THEN ChangePriority(c, o, kern.priority[t]) ELSE c
           s == rt_ipc_list_suspend(e, m, t, flag[m])
           r == rt_timer_start(s, t)
<1>1. /\ At(t, Run) /\ o # t /\ value[m] = 0
      /\ kern' = IF timed THEN r ELSE s
      /\ pc' = [pc EXCEPT ![t] = "take"]
      /\ want' = [want EXCEPT ![t] = m] /\ UNCHANGED mutexes
  BY DEF TakeWait, ClearError, SetError, Goto
<1>2. o \in Thread \ {t} /\ t \in Thread
  BY <1>1 DEF IInv, TypeOK, OwnerOK
<1>3. /\ kern.priority[t] \in Priority /\ kern.priority[o] \in Priority
      /\ Priority \subseteq Int
      /\ KernelOK(kern) /\ HasCpu(kern, t)
  <2>1. HasCpu(kern, t)
    BY <1>1, <1>2, OwnStep DEF Run
  <2>2. RT_THREAD_PRIORITY_MAX \in Nat
    BY KernelAssumption
  <2>3. QED
    BY <1>2, <2>1, <2>2 DEF IInv, KernelOK, KernelState, Priority
<1> HIDE DEF r, s, e, c, o
<1>0. kern.priority[t] \in Int /\ kern.priority[o] \in Int
  BY <1>3
<1>4. /\ KernelOK(c)
      /\ c.current = kern.current /\ c.stat = kern.stat /\ c.list = kern.list
      /\ c.priority = kern.priority /\ c.lock = kern.lock
      /\ c.error[t] = "RT_EOK" /\ \A x \in Thread \ {t} : c.error[x] = kern.error[x]
  BY <1>2, <1>3, ErrorLemma DEF c, Error
<1>5. /\ KernelOK(e)
      /\ e.current = kern.current /\ e.stat = kern.stat /\ e.list = kern.list
      /\ e.lock = kern.lock /\ e.error = c.error
      /\ e.priority[o] <= kern.priority[o] /\ e.priority[o] <= kern.priority[t]
      /\ \A x \in Thread \ {o} : e.priority[x] = kern.priority[x]
  <2>1. CASE kern.priority[t] < kern.priority[o]
    <3>1. Reprioritized(c, e, o, kern.priority[t])
      BY <1>2, <1>3, <1>4, <2>1, ChangePriorityLemma DEF e
    <3>2. /\ e.priority[o] = kern.priority[t]
          /\ \A x \in Thread \ {o} : e.priority[x] = kern.priority[x]
      BY <1>4, <3>1 DEF Reprioritized
    <3>3. e.priority[o] <= kern.priority[o] /\ e.priority[o] <= kern.priority[t]
      BY <1>0, <2>1, <3>2
    <3>4. QED
      BY <1>4, <3>1, <3>2, <3>3 DEF Reprioritized
  <2>2. CASE ~ (kern.priority[t] < kern.priority[o])
    <3>1. e = c
      BY <2>2 DEF e
    <3>2. e.priority[o] <= kern.priority[o] /\ e.priority[o] <= kern.priority[t]
      BY <1>0, <1>4, <2>2, <3>1
    <3>3. QED
      BY <1>4, <3>1, <3>2
  <2>3. QED
    BY <2>1, <2>2
<1>6. /\ KernelOK(s)
      /\ ToSet(s.list[m]) = ToSet(e.list[m]) \cup {t}
      /\ s.list[m] = InsertAt(e.list[m], SuspendPosition(e, e.list[m], t, flag[m]), t)
      /\ \A n \in List \ {m} : s.list[n] = e.list[n]
      /\ s.current = e.current /\ s.error = e.error
      /\ s.priority = e.priority /\ s.lock = e.lock
      /\ s.stat[t] = "SUSPEND" /\ \A x \in Thread \ {t} : s.stat[x] = e.stat[x]
  <2>1. HasCpu(e, t)
    BY <1>3, <1>5 DEF HasCpu
  <2>2. m \in List /\ m # "rt_thread_defunct"
    BY Lists
  <2>3. QED
    BY <1>5, <2>1, <2>2, SuspendLemma DEF s
<1>7. /\ KernelOK(kern')
      /\ kern'.current = s.current /\ kern'.stat = s.stat /\ kern'.error = s.error
      /\ kern'.priority = s.priority /\ kern'.lock = s.lock /\ kern'.list = s.list
  <2>1. CASE timed
    BY <1>1, <1>2, <1>6, <2>1, StartTimerLemma DEF r
  <2>2. CASE ~ timed
    BY <1>1, <1>6, <2>2
  <2>3. QED
    BY <2>1, <2>2
<1>8. NowWaits(t, m)
  <2>1. SuspendPosition(kern', kern.list[m], t, flag[m])
          = SuspendPosition(e, kern.list[m], t, flag[m])
    BY <1>6, <1>7, PositionByPriority
  <2>2. kern'.list[m] = InsertAt(kern.list[m],
                          SuspendPosition(kern', kern.list[m], t, flag[m]), t)
    BY <1>5, <1>6, <1>7, <2>1
  <2>3. QED
    BY <1>4, <1>5, <1>6, <1>7, <2>2, Lists DEF NowWaits, o
<1>9. QED
  BY <1>1, <1>2, <1>8 DEF o

(* The new waiter is in rt_mutex_take for a mutex of another thread. *)
LEMMA TakeWaitStep ==
  ASSUME IInv, NEW t \in Thread \ {Idle}, NEW m \in Mutexes, NEW timed \in BOOLEAN,
         TakeWait(t, m, timed)
  PROVE  IInv'
<1>1. /\ NowWaits(t, m)
      /\ owner[m] \in Thread \ {t}
      /\ At(t, Run) /\ pc' = [pc EXCEPT ![t] = "take"]
      /\ want' = [want EXCEPT ![t] = m] /\ UNCHANGED mutexes
  BY TakeWaitKernel
<1>2. HasCpu(kern, t) /\ \A n \in Mutexes : t \notin ToSet(kern.list[n])
  BY <1>1, OwnStep DEF Run
<1>3. /\ pc'[t] = "take" /\ \A x \in Thread \ {t} : pc'[x] = pc[x]
      /\ want'[t] = m /\ \A x \in Thread \ {t} : want'[x] = want[x]
      /\ owner' = owner
  BY <1>1 DEF IInv, TypeOK, mutexes
<1>4. CurrentRuns'
  BY <1>1, <1>2, <1>3 DEF IInv, Waiting, CurrentRuns, HasCpu, NowWaits
<1>5. WaitersOK'
  <2> SUFFICES ASSUME NEW n \in Mutexes, NEW x \in ToSet(kern'.list[n])
               PROVE  /\ pc'[x] \in {"take", "taken"} /\ want'[x] = n
                      /\ owner'[n] # x /\ kern'.error[x] = "RT_EOK"
    BY DEF WaitersOK
  <2>1. CASE x = t
    <3>1. n = m
      BY <1>1, <1>2, <2>1 DEF NowWaits
    <3>2. QED
      BY <1>1, <1>3, <2>1, <3>1 DEF NowWaits
  <2>2. CASE x # t
    <3>1. x \in ToSet(kern.list[n]) /\ x \in Thread \ {t}
      BY <1>1, <2>2, Lists, ListedThreads DEF NowWaits, IInv
    <3>2. QED
      BY <1>1, <1>3, <3>1 DEF IInv, Waiting, WaitersOK, NowWaits
  <2>3. QED
    BY <2>1, <2>2
<1>6. HandOverReturned'
  <2> SUFFICES ASSUME NEW x \in Thread, pc'[x] \in {"take", "taken"}
               PROVE  IF kern'.stat[x] = "SUSPEND"
                      THEN Contains(kern'.list[want'[x]], x) /\ owner'[want'[x]] # x
                      ELSE owner'[want'[x]] = x <=> kern'.error[x] = "RT_EOK"
    BY DEF HandOverReturned
  <2>0. \A n \in Mutexes : kern.list[n] \in Seq(Thread) /\ kern'.list[n] \in Seq(Thread)
    BY <1>1, Lists, ListedThreads DEF IInv, NowWaits
  <2>1. CASE x = t
    <3>1. t \in ToSet(kern'.list[m]) /\ kern'.stat[t] = "SUSPEND"
      BY <1>1 DEF NowWaits
    <3>2. Contains(kern'.list[m], t)
      BY <2>0, <3>1, ContainsToSet
    <3>3. QED
      BY <1>1, <1>3, <2>1, <3>1, <3>2
  <2>2. CASE x # t
    <3>1. want[x] \in Mutexes /\ want'[x] = want[x] /\ pc'[x] = pc[x]
          /\ kern'.stat[x] = kern.stat[x] /\ kern'.error[x] = kern.error[x]
      BY <1>1, <1>3, <2>2 DEF IInv, TypeOK, NowWaits
    <3>2. ToSet(kern.list[want[x]]) \subseteq ToSet(kern'.list[want[x]])
      BY <1>1, <3>1 DEF NowWaits
    <3>3. Contains(kern.list[want[x]], x) => Contains(kern'.list[want[x]], x)
      BY <2>0, <3>1, <3>2, ContainsToSet
    <3>4. QED
      BY <1>3, <3>1, <3>3 DEF IInv, Waiting, HandOverReturned
  <2>3. QED
    BY <2>1, <2>2
<1>7. MutexesOK' /\ UNCHANGED flag
  <2>1. ASSUME NEW n \in Mutexes, owner[n] = NoOwner PROVE kern'.list[n] = <<>>
    BY <1>1, <2>1, MutexAssumption DEF IInv, OwnerOK, NowWaits
  <2>2. QED
    BY <1>1, <2>1, SameMutexes
<1>8. KernelOK(kern') /\ TypeOK /\ Waiting'
  BY <1>1, <1>4, <1>5, <1>6 DEF NowWaits, IInv, Waiting
<1>9. QED
  BY <1>1, <1>7, <1>8, Assembled

(***************************************************************************)
(* rt_mutex_release with a waiter.                                         *)
(***************************************************************************)
(* thread t has its recorded priority again and the first waiter, next, goes  *)
(* on; in a FIFO list it is as urgent as the most urgent waiter               *)
HandedOver(t, m, next) ==
  /\ KernelOK(kern')
  /\ Unlisting(kern, kern', next) /\ Unlinked(kern, kern', next)
  /\ next \in Thread \ {t} /\ next \in ToSet(kern.list[m])
  /\ kern.stat[next] = "SUSPEND" /\ kern'.stat[next] \in {"READY", "RUNNING"}
  /\ kern'.current = kern.current /\ kern'.lock = kern.lock
  /\ \A x \in Thread \ {next} : kern'.stat[x] = kern.stat[x]
  /\ \A x \in Thread : kern'.error[x] = kern.error[x]
  /\ kern'.priority[t] = original_priority[m]
  /\ \A x \in Thread \ {t, next} : kern'.priority[x] = kern.priority[x]
  /\ IF flag[m] = "RT_IPC_FLAG_FIFO"
     THEN \A x \in ToSet(kern.list[m]) : kern'.priority[next] <= kern.priority[x]
     ELSE kern'.priority[next] = kern.priority[next]

(* what a release that hands the mutex over does to the kernel data *)
LEMMA HandOverKernel ==
  ASSUME IInv, NEW t \in Thread, NEW m \in Mutexes, ReleaseHandOver(t, m)
  PROVE  LET next == Head(kern.list[m])
         IN  /\ HandedOver(t, m, next)
             /\ At(t, Run) /\ owner[m] = t /\ pc' = [pc EXCEPT ![t] = "sched"]
             /\ owner' = [owner EXCEPT ![m] = next]
             /\ original_priority' =
                  [original_priority EXCEPT ![m] = kern.priority[next]]
             /\ UNCHANGED <<value, hold, flag, want>>
<1> DEFINE k == Restored(t, m)
           next == Head(kern.list[m])
           high == rt_ipc_get_highest_priority(k, m)
           e == IF flag[m] = "RT_IPC_FLAG_FIFO" /\ k.priority[next] # high
                THEN ChangePriority(k, next, high) ELSE k
<1>1. /\ At(t, Run) /\ owner[m] = t /\ kern.list[m] # <<>>
      /\ UNCHANGED <<value, hold, flag, want>>
      /\ pc' = [pc EXCEPT ![t] = "sched"]
  BY DEF ReleaseHandOver, Goto
<1>2. Reprioritized(kern, k, t, original_priority[m])
  BY <1>1, RestoredLemma
<1>3. k.list = kern.list
  BY <1>2 DEF Reprioritized
<1>4. /\ kern' = rt_ipc_list_resume(e, m)
      /\ owner' = [owner EXCEPT ![m] = next]
      /\ original_priority' = [original_priority EXCEPT ![m] = k.priority[next]]
  BY <1>3 DEF ReleaseHandOver
<1> HIDE DEF k, e, high
<1>5. /\ m \in List /\ m # "rt_thread_defunct"
      /\ KernelOK(kern) /\ KernelOK(k)
  BY <1>2, Lists DEF Reprioritized, IInv
<1>6. /\ next \in Thread /\ next \in ToSet(kern.list[m])
      /\ kern.stat[next] = "SUSPEND"
  BY <1>1, <1>5, HeadSuspended
<1>7. t \notin ToSet(kern.list[m])
  BY <1>1, OwnStep DEF Run
<1> HIDE DEF next
<1>8. /\ \A x \in ToSet(kern.list[m]) : k.priority[x] = kern.priority[x]
      /\ \A x \in ToSet(kern.list[m]) : high <= kern.priority[x]
      /\ high \in Priority
  <2>1. ToSet(kern.list[m]) \subseteq Thread \ {t}
    BY <1>5, <1>7, ListedThreads
  <2>2. high \in Priority /\ \A x \in ToSet(k.list[m]) : high <= k.priority[x]
    BY <1>5, HighestWaiter DEF high
  <2>3. \A x \in ToSet(kern.list[m]) : k.priority[x] = kern.priority[x]
    BY <1>2, <2>1 DEF Reprioritized
  <2>4. QED
    BY <1>3, <2>2, <2>3
<1>9. /\ KernelOK(e)
      /\ e.current = kern.current /\ e.stat = kern.stat /\ e.list = kern.list
      /\ e.error = kern.error /\ e.lock = kern.lock
      /\ \A x \in Thread \ {next} : e.priority[x] = k.priority[x]
      /\ IF flag[m] = "RT_IPC_FLAG_FIFO"
         THEN e.priority[next] = high ELSE e.priority[next] = k.priority[next]
  <2>1. CASE flag[m] = "RT_IPC_FLAG_FIFO" /\ k.priority[next] # high
    <3>1. Reprioritized(k, e, next, high)
      BY <1>5, <1>6, <1>8, <2>1, ChangePriorityLemma DEF e
    <3>2. QED
      BY <1>2, <2>1, <3>1 DEF Reprioritized
  <2>2. CASE ~ (flag[m] = "RT_IPC_FLAG_FIFO" /\ k.priority[next] # high)
    BY <1>2, <1>5, <2>2 DEF Reprioritized, e
  <2>3. QED
    BY <2>1, <2>2
<1>10. /\ ResumedHere(e, kern', next, e.error[next])
       /\ Unlinked(e, kern', next)
  <2>1. kern' = rt_thread_resume(e, next)
    BY <1>4, <1>9 DEF rt_ipc_list_resume, next
  <2>2. e.stat[next] = "SUSPEND"
    BY <1>6, <1>9
  <2>3. QED
    BY <1>6, <1>9, <2>1, <2>2, ResumeHere, ResumeLemma
<1>11. /\ kern'.priority[t] = original_priority[m]
       /\ \A x \in Thread \ {t, next} : kern'.priority[x] = kern.priority[x]
  BY <1>2, <1>6, <1>7, <1>9, <1>10 DEF Reprioritized, ResumedHere, ResumedWith
<1>12. IF flag[m] = "RT_IPC_FLAG_FIFO"
       THEN \A x \in ToSet(kern.list[m]) : kern'.priority[next] <= kern.priority[x]
       ELSE kern'.priority[next] = kern.priority[next]
  BY <1>6, <1>8, <1>9, <1>10 DEF ResumedHere, ResumedWith
<1>13. HandedOver(t, m, next)
  <2>1. \A x \in Thread : kern'.error[x] = kern.error[x]
    BY <1>9, <1>10 DEF ResumedHere, ResumedWith
  <2>2. Unlisting(kern, kern', next) /\ Unlinked(kern, kern', next)
    BY <1>9, <1>10 DEF ResumedHere, ResumedWith, Unlisting, Unlinked
  <2>3. QED
    BY <1>6, <1>7, <1>9, <1>10, <1>11, <1>12, <2>1, <2>2
       DEF HandedOver, ResumedHere, ResumedWith
<1>14. QED
  BY <1>1, <1>4, <1>6, <1>8, <1>13 DEF next

(* The first waiter becomes the owner and is going to return RT_EOK. *)
LEMMA HandOverStep ==
  ASSUME IInv, NEW t \in Thread, NEW m \in Mutexes, ReleaseHandOver(t, m)
  PROVE  IInv'
<1> DEFINE next == Head(kern.list[m])
<1>1. /\ HandedOver(t, m, next)
      /\ At(t, Run) /\ owner[m] = t /\ pc' = [pc EXCEPT ![t] = "sched"]
      /\ owner' = [owner EXCEPT ![m] = next]
      /\ original_priority' = [original_priority EXCEPT ![m] = kern.priority[next]]
      /\ UNCHANGED <<value, hold, flag, want>>
  BY HandOverKernel
<1> HIDE DEF next
<1>2. HasCpu(kern, t) /\ \A n \in Mutexes : t \notin ToSet(kern.list[n])
  BY <1>1, OwnStep DEF Run
<1>3. /\ pc'[t] = "sched" /\ \A x \in Thread \ {t} : pc'[x] = pc[x]
      /\ owner'[m] = next /\ \A n \in Mutexes \ {m} : owner'[n] = owner[n]
      /\ next \in Thread /\ next # NoOwner /\ t # NoOwner
  BY <1>1, MutexAssumption DEF IInv, TypeOK, HandedOver
<1>4. CurrentRuns'
  BY <1>1, <1>2 DEF IInv, Waiting, CurrentRuns, HasCpu, HandedOver
<1>5. \A n \in Mutexes : /\ ToSet(kern'.list[n]) = ToSet(kern.list[n]) \ {next}
                         /\ ToSet(kern.list[n]) \subseteq Thread \ {t}
                         /\ kern.list[n] \in Seq(Thread)
                         /\ kern'.list[n] \in Seq(Thread)
  BY <1>1, <1>2, Lists, ListedThreads DEF HandedOver, Unlisting, IInv
<1>6. WaitersOK'
  <2> SUFFICES ASSUME NEW n \in Mutexes, NEW x \in ToSet(kern'.list[n])
               PROVE  /\ pc'[x] \in {"take", "taken"} /\ want'[x] = n
                      /\ owner'[n] # x /\ kern'.error[x] = "RT_EOK"
    BY DEF WaitersOK
  <2>1. x \in Thread \ {t, next} /\ x \in ToSet(kern.list[n])
    BY <1>5
  <2>2. QED
    BY <1>1, <1>3, <2>1 DEF IInv, Waiting, WaitersOK, HandedOver
<1>7. HandOverReturned'
  <2> SUFFICES ASSUME NEW x \in Thread, pc'[x] \in {"take", "taken"}
               PROVE  IF kern'.stat[x] = "SUSPEND"
                      THEN Contains(kern'.list[want'[x]], x) /\ owner'[want'[x]] # x
                      ELSE owner'[want'[x]] = x <=> kern'.error[x] = "RT_EOK"
    BY DEF HandOverReturned
  <2>1. x # t /\ pc[x] \in {"take", "taken"} /\ want'[x] = want[x] /\ want[x] \in Mutexes
    BY <1>1, <1>3 DEF IInv, TypeOK
  <2>2. CASE x = next
    <3>1. want[x] = m /\ kern.error[x] = "RT_EOK"
      BY <1>1, <2>2 DEF IInv, Waiting, WaitersOK, HandedOver
    <3>2. QED
      BY <1>1, <1>3, <2>1, <2>2, <3>1 DEF HandedOver
  <2>3. CASE x # next
    <3>1. kern'.stat[x] = kern.stat[x] /\ kern'.error[x] = kern.error[x]
      BY <1>1, <2>3 DEF HandedOver
    <3>2. owner'[want[x]] = x <=> owner[want[x]] = x
      BY <1>1, <1>3, <2>1, <2>3
    <3>3. Contains(kern.list[want[x]], x) => Contains(kern'.list[want[x]], x)
      BY <1>5, <2>1, <2>3, ContainsToSet
    <3>4. QED
      BY <2>1, <3>1, <3>2, <3>3 DEF IInv, Waiting, HandOverReturned
  <2>4. QED
    BY <2>2, <2>3
<1>8. kern.priority[next] \in Priority
  BY <1>3 DEF IInv, TypeOK, KernelState
<1>9. MutexesOK'
  <2>1. OwnerOK'
    <3> SUFFICES ASSUME NEW n \in Mutexes
                 PROVE  /\ owner'[n] = NoOwner <=> value[n] = 1
                        /\ owner'[n] = NoOwner <=> hold[n] = 0
                        /\ owner'[n] = NoOwner => kern'.list[n] = <<>>
      BY <1>1 DEF OwnerOK
    <3>1. owner'[n] = NoOwner <=> owner[n] = NoOwner
      BY <1>1, <1>3
    <3>2. kern.list[n] = <<>> => kern'.list[n] = <<>>
      BY <1>5, EmptyToSet
    <3>3. QED
      BY <3>1, <3>2 DEF IInv, OwnerOK
  <2>2. RecordedOK'
    BY <1>1, <1>3, <1>8 DEF IInv, TypeOK, RecordedOK
  <2>3. QED
    BY <1>1, <1>3, <1>8, <2>1, <2>2 DEF IInv, TypeOK, MutexesOK
<1>10. KernelOK(kern') /\ TypeOK /\ Waiting'
  BY <1>1, <1>4, <1>6, <1>7 DEF HandedOver, IInv, Waiting
<1>11. QED
  BY <1>1, <1>9, <1>10, Assembled

(***************************************************************************)
(* The steps that give the processor away: rt_schedule, the ticks, and     *)
(* rt_thread_sleep.                                                        *)
(***************************************************************************)
(* a thread that is in rt_mutex_take stays there, and nobody else gets there *)
SameTakers ==
  \A x \in Thread : pc'[x] \in {"take", "taken"} <=> pc[x] \in {"take", "taken"}

(* The processor changes hands: for the mutexes nothing has happened. *)
LEMMA SwitchStep ==
  ASSUME IInv, KernelOK(kern'), Switched(kern, kern'), MostUrgent(kern'),
         NEW t \in Thread,
         NEW p \in {Run, "take", "taken", "sched", "sleep", "slept"},
         pc' = [pc EXCEPT ![t] = p], SameTakers, UNCHANGED <<mutexes, want>>
  PROVE  IInv'
<1>1. UNCHANGED <<value, owner, hold, original_priority, flag, want>>
  BY DEF mutexes
<1>2. CurrentRuns'
  BY DEF CurrentRuns, IInv, Waiting, MostUrgent, Switched
<1>3. WaitersOK'
  <2> SUFFICES ASSUME NEW m \in Mutexes, NEW x \in ToSet(kern.list[m])
               PROVE  /\ pc'[x] \in {"take", "taken"} /\ want[x] = m
                      /\ owner[m] # x /\ kern.error[x] = "RT_EOK"
    BY <1>1 DEF WaitersOK, Switched
  <2>1. x \in Thread
    BY Lists, ListedThreads DEF IInv
  <2>2. QED
    BY <2>1 DEF IInv, Waiting, WaitersOK, SameTakers
<1>4. HandOverReturned'
  <2> SUFFICES ASSUME NEW x \in Thread, pc'[x] \in {"take", "taken"}
               PROVE  IF kern'.stat[x] = "SUSPEND"
                      THEN Contains(kern.list[want[x]], x) /\ owner[want[x]] # x
                      ELSE owner[want[x]] = x <=> kern.error[x] = "RT_EOK"
    BY <1>1 DEF HandOverReturned, Switched
  <2>1. pc[x] \in {"take", "taken"}
    BY DEF SameTakers
  <2>2. kern'.stat[x] = "SUSPEND" <=> kern.stat[x] = "SUSPEND"
    BY DEF Switched
  <2>3. QED
    BY <2>1, <2>2 DEF IInv, Waiting, HandOverReturned
<1>5. MutexesOK' /\ UNCHANGED flag
  <2>1. \A m \in Mutexes : owner[m] = NoOwner => kern'.list[m] = <<>>
    BY DEF IInv, OwnerOK, Switched
  <2>2. QED
    BY <2>1, SameMutexes
<1>6. want[t] \in Mutexes /\ TypeOK /\ Waiting'
  BY <1>2, <1>3, <1>4 DEF IInv, TypeOK, Waiting
<1>7. QED
  BY <1>1, <1>5, <1>6, Assembled

(* The calls of rt_schedule at the end of a take, a release and a sleep *)
LEMMA ScheduleStep ==
  ASSUME IInv, NEW t \in Thread, NEW p, NEW q, Reschedule(t, p, q),
         <<p, q>> \in {<<"take", "taken">>, <<"sched", Run>>, <<"sleep", "slept">>},
         UNCHANGED <<mutexes, want>>
  PROVE  IInv' /\ MostUrgent(kern')
<1>1. /\ t = kern.current /\ pc[t] = p /\ pc' = [pc EXCEPT ![t] = q]
      /\ KernelOK(kern') /\ Switched(kern, kern') /\ MostUrgent(kern')
  <2>1. KernelOK(kern) /\ kern.lock = 0
    BY DEF IInv, Waiting, CurrentRuns
  <2>2. QED
    BY <2>1, RescheduleLemma
<1>2. SameTakers
  BY <1>1 DEF SameTakers, IInv, TypeOK, Run
<1>3. IInv'
  BY <1>1, <1>2, SwitchStep
<1>4. QED
  BY <1>1, <1>3

(* the tick that ends a time slice *)
LEMMA SliceStep ==
  ASSUME IInv, SliceExpires, UNCHANGED <<mutexes, want>>
  PROVE  IInv' /\ MostUrgent(kern')
<1>1. /\ UNCHANGED pc /\ KernelOK(kern')
      /\ Switched(kern, kern') /\ MostUrgent(kern')
  BY SliceLemma DEF IInv, Waiting, CurrentRuns
<1>2. PICK p \in {Run, "take", "taken", "sched", "sleep", "slept"} : p = pc[Idle]
  BY KernelAssumption DEF IInv, TypeOK
<1>3. Idle \in Thread /\ pc' = [pc EXCEPT ![Idle] = p] /\ SameTakers
  BY <1>1, <1>2, KernelAssumption DEF IInv, TypeOK, SameTakers
<1>4. IInv'
  BY <1>1, <1>3, SwitchStep
<1>5. QED
  BY <1>1, <1>4

(* The tick that ends a wait: a waiter that has not got the mutex will never  *)
(* get it, whatever the owner does from now on.                               *)
LEMMA TimerStep ==
  ASSUME IInv, NEW t, TimerExpires(t), UNCHANGED <<mutexes, want>>
  PROVE  /\ IInv' /\ MostUrgent(kern')
         /\ t \in Thread /\ UNCHANGED pc
         /\ ResumedWith(kern, kern', t, "RT_ETIMEOUT")
<1>1. /\ t \in Thread /\ UNCHANGED pc
      /\ ResumedWith(kern, kern', t, "RT_ETIMEOUT") /\ MostUrgent(kern')
  BY TimerLemma DEF IInv, Waiting, CurrentRuns
<1>2. UNCHANGED <<value, owner, hold, original_priority, flag, want>>
  BY DEF mutexes
<1>3. CurrentRuns'
  BY <1>1 DEF CurrentRuns, IInv, Waiting, MostUrgent, ResumedWith
<1>4. \A m \in Mutexes : /\ ToSet(kern'.list[m]) = ToSet(kern.list[m]) \ {t}
                         /\ ToSet(kern.list[m]) \subseteq Thread
                         /\ kern.list[m] \in Seq(Thread)
                         /\ kern'.list[m] \in Seq(Thread)
  BY <1>1, Lists, ListedThreads DEF ResumedWith, Unlisting, IInv
<1>5. WaitersOK'
  <2> SUFFICES ASSUME NEW m \in Mutexes, NEW x \in ToSet(kern'.list[m])
               PROVE  /\ pc[x] \in {"take", "taken"} /\ want[x] = m
                      /\ owner[m] # x /\ kern'.error[x] = "RT_EOK"
    BY <1>1, <1>2 DEF WaitersOK
  <2>1. x \in Thread \ {t} /\ x \in ToSet(kern.list[m])
    BY <1>4
  <2>2. QED
    BY <1>1, <2>1 DEF IInv, Waiting, WaitersOK, ResumedWith
<1>6. HandOverReturned'
  <2> SUFFICES ASSUME NEW x \in Thread, pc[x] \in {"take", "taken"}
               PROVE  IF kern'.stat[x] = "SUSPEND"
                      THEN Contains(kern'.list[want[x]], x) /\ owner[want[x]] # x
                      ELSE owner[want[x]] = x <=> kern'.error[x] = "RT_EOK"
    BY <1>1, <1>2 DEF HandOverReturned
  <2>1. want[x] \in Mutexes
    BY DEF IInv, TypeOK
  <2>2. CASE x = t
    BY <1>1, <2>2 DEF IInv, Waiting, HandOverReturned, ResumedWith
  <2>3. CASE x # t
    <3>1. /\ kern'.error[x] = kern.error[x]
          /\ kern'.stat[x] = "SUSPEND" <=> kern.stat[x] = "SUSPEND"
      BY <1>1, <2>3 DEF ResumedWith
    <3>2. Contains(kern.list[want[x]], x) => Contains(kern'.list[want[x]], x)
      BY <1>4, <2>1, <2>3, ContainsToSet
    <3>3. QED
      BY <3>1, <3>2 DEF IInv, Waiting, HandOverReturned
  <2>4. QED
    BY <2>2, <2>3
<1>7. MutexesOK' /\ UNCHANGED flag
  <2>1. \A m \in Mutexes : kern.list[m] = <<>> => kern'.list[m] = <<>>
    BY <1>4, EmptyToSet
  <2>2. QED
    BY <2>1, SameMutexes DEF IInv, OwnerOK
<1>8. PICK p \in {Run, "take", "taken", "sched", "sleep", "slept"} : p = pc[t]
  BY <1>1 DEF IInv, TypeOK
<1>9. pc' = [pc EXCEPT ![t] = p]
  BY <1>1, <1>8 DEF IInv, TypeOK
<1>10. want[t] \in Mutexes /\ TypeOK /\ Waiting' /\ KernelOK(kern')
  BY <1>1, <1>3, <1>5, <1>6 DEF IInv, TypeOK, Waiting, ResumedWith
<1>11. IInv'
  BY <1>1, <1>2, <1>7, <1>9, <1>10, Assembled
<1>12. QED
  BY <1>1, <1>11

(* A thread that sleeps is suspended, but waits for no mutex. *)
LEMMA SleepBeginStep ==
  ASSUME IInv, NEW t \in Thread \ {Idle}, SleepBegin(t), UNCHANGED <<mutexes, want>>
  PROVE  /\ IInv' /\ pc'[kern'.current] = "sleep"
         /\ kern'.list = kern.list /\ kern'.priority = kern.priority
<1>1. /\ At(t, Run) /\ pc' = [pc EXCEPT ![t] = "sleep"]
      /\ kern' = rt_timer_start(rt_thread_suspend(kern, t), t)
  BY DEF SleepBegin, Goto
<1>2. HasCpu(kern, t) /\ \A m \in Mutexes : t \notin ToSet(kern.list[m])
  BY <1>1, OwnStep DEF Run
<1>3. /\ KernelOK(kern')
      /\ kern'.current = kern.current /\ kern'.list = kern.list
      /\ kern'.error = kern.error
      /\ kern'.priority = kern.priority /\ kern'.lock = kern.lock
      /\ kern'.stat[t] = "SUSPEND"
      /\ \A x \in Thread \ {t} : kern'.stat[x] = kern.stat[x]
  BY <1>1, <1>2, SleepLemma DEF IInv
<1>4. pc'[t] = "sleep" /\ \A x \in Thread \ {t} : pc'[x] = pc[x]
  BY <1>1 DEF IInv, TypeOK
<1>5. UNCHANGED <<value, owner, hold, original_priority, flag, want>>
  BY DEF mutexes
<1>6. pc'[kern'.current] = "sleep"
  BY <1>2, <1>3, <1>4 DEF HasCpu
<1>7. CurrentRuns'
  BY <1>3, <1>6 DEF IInv, Waiting, CurrentRuns
<1>8. WaitersOK'
  <2> SUFFICES ASSUME NEW m \in Mutexes, NEW x \in ToSet(kern.list[m])
               PROVE  /\ pc'[x] \in {"take", "taken"} /\ want[x] = m
                      /\ owner[m] # x /\ kern.error[x] = "RT_EOK"
    BY <1>3, <1>5 DEF WaitersOK
  <2>1. x \in Thread \ {t}
    BY <1>2, Lists, ListedThreads DEF IInv
  <2>2. QED
    BY <1>4, <2>1 DEF IInv, Waiting, WaitersOK
<1>9. HandOverReturned'
  <2> SUFFICES ASSUME NEW x \in Thread, pc'[x] \in {"take", "taken"}
               PROVE  IF kern'.stat[x] = "SUSPEND"
                      THEN Contains(kern.list[want[x]], x) /\ owner[want[x]] # x
                      ELSE owner[want[x]] = x <=> kern.error[x] = "RT_EOK"
    BY <1>3, <1>5 DEF HandOverReturned
  <2>1. x # t /\ pc[x] \in {"take", "taken"}
    BY <1>4
  <2>2. QED
    BY <1>3, <2>1 DEF IInv, Waiting, HandOverReturned
<1>10. MutexesOK' /\ UNCHANGED flag
  BY <1>3, SameMutexes DEF IInv, OwnerOK
<1>11. want[t] \in Mutexes /\ TypeOK /\ Waiting' /\ KernelOK(kern')
  BY <1>3, <1>7, <1>8, <1>9 DEF IInv, TypeOK, Waiting
<1>12. IInv'
  BY <1>1, <1>5, <1>10, <1>11, Assembled
<1>13. QED
  BY <1>3, <1>6, <1>12

(***************************************************************************)
(* The invariant and what follows from it.                                 *)
(***************************************************************************)
(* Every mutex is free, and no thread is in a call. *)
LEMMA InitInvariant == Init => IInv
<1> SUFFICES ASSUME Init PROVE IInv
  OBVIOUS
<1>1. /\ CpuInit
      /\ value = [m \in Mutexes |-> 1]
      /\ owner = [m \in Mutexes |-> NoOwner]
      /\ hold = [m \in Mutexes |-> 0]
      /\ original_priority = [m \in Mutexes |-> NoPriority]
      /\ flag \in [Mutexes -> {"RT_IPC_FLAG_FIFO", "RT_IPC_FLAG_PRIO"}]
      /\ want \in [Thread -> Mutexes]
  BY DEF Init
<1>2. /\ KernelOK(kern) /\ kern.lock = 0 /\ kern.stat[kern.current] = "RUNNING"
      /\ \A m \in Mutexes : kern.list[m] = <<>>
      /\ pc = [t \in Thread |-> Run]
  BY <1>1, BootLemma, KernelAssumption, Lists DEF CpuInit
<1>3. TypeOK
  <2>1. RT_MUTEX_HOLD_MAX \in Nat
    BY MutexAssumption
  <2>2. kern \in KernelState /\ pc \in [Thread -> {Run, "take", "taken", "sched", "sleep", "slept"}]
    BY <1>2 DEF KernelOK
  <2>3. QED
    BY <1>1, <2>1, <2>2 DEF TypeOK
<1>4. OwnerOK /\ RecordedOK
  BY <1>1, <1>2 DEF OwnerOK, RecordedOK
<1>5. ToSet(<<>>) = {}
  BY DEF ToSet
<1>6. Waiting
  BY <1>2, <1>5 DEF Waiting, CurrentRuns, WaitersOK, HandOverReturned, Run
<1>7. QED
  BY <1>2, <1>3, <1>4, <1>6 DEF IInv

(* one lemma for each action *)
LEMMA NextInvariant == IInv /\ [Next]_vars => IInv'
<1> SUFFICES ASSUME IInv, [Next]_vars PROVE IInv'
  OBVIOUS
<1>1. ASSUME NEW t \in Thread \ {Idle}, Call(t) PROVE IInv'
  <2>1. PICK m \in Mutexes :
          \/ TakeAgain(t, m) \/ TakeFree(t, m) \/ TryTakeFails(t, m)
          \/ \E timed \in BOOLEAN : TakeWait(t, m, timed)
          \/ ReleaseFails(t, m) \/ ReleaseInner(t, m)
          \/ ReleaseFree(t, m) \/ ReleaseHandOver(t, m)
    BY <1>1 DEF Call
  <2>2. CASE TakeAgain(t, m)
    BY <2>2, TakeAgainStep
  <2>3. CASE TakeFree(t, m)
    BY <2>3, TakeFreeStep
  <2>4. CASE TryTakeFails(t, m) \/ ReleaseFails(t, m)
    BY <2>4, FailStep
  <2>5. CASE \E timed \in BOOLEAN : TakeWait(t, m, timed)
    BY <2>5, TakeWaitStep
  <2>6. CASE ReleaseInner(t, m)
    BY <2>6, ReleaseInnerStep
  <2>7. CASE ReleaseFree(t, m)
    BY <2>7, ReleaseFreeStep
  <2>8. CASE ReleaseHandOver(t, m)
    BY <2>8, HandOverStep
  <2>9. QED
    BY <2>1, <2>2, <2>3, <2>4, <2>5, <2>6, <2>7, <2>8
<1>2. ASSUME NEW t \in Thread \ {Idle}, Continue(t) PROVE IInv'
  <2>1. CASE TakeReturn(t)
    BY <2>1, TakeReturnStep
  <2>2. CASE TakeSchedule(t)
    BY <2>2, ScheduleStep DEF TakeSchedule
  <2>3. CASE Schedule(t)
    BY <2>3, ScheduleStep DEF Schedule
  <2>4. QED
    BY <1>2, <2>1, <2>2, <2>3 DEF Continue
<1>3. ASSUME NEW t \in Thread \ {Idle}, Sleep(t) PROVE IInv'
  <2>1. CASE SleepBegin(t)
    BY <1>3, <2>1, SleepBeginStep DEF Sleep
  <2>2. CASE Reschedule(t, "sleep", "slept")
    BY <1>3, <2>2, ScheduleStep DEF Sleep
  <2>3. CASE SleepEnd(t)
    BY <1>3, <2>3, SleepEndStep DEF Sleep
  <2>4. QED
    BY <1>3, <2>1, <2>2, <2>3 DEF Sleep
<1>4. ASSUME Tick PROVE IInv'
  BY <1>4, SliceStep, TimerStep DEF Tick
<1>5. ASSUME UNCHANGED vars PROVE IInv'
  BY <1>5 DEF vars, mutexes, IInv, TypeOK, OwnerOK, RecordedOK, Waiting,
              CurrentRuns, WaitersOK, HandOverReturned, Run
<1>6. QED
  BY <1>1, <1>2, <1>3, <1>4, <1>5 DEF Next

(* The invariant holds in every state, for any mutexes, threads and           *)
(* priorities.                                                                *)
THEOREM Invariance == Spec => []IInv
<1>1. QED
  BY InitInvariant, NextInvariant, PTL DEF Spec

(* Lending a priority moves a thread between ready queues and never loses it,  *)
(* and a mutex is free exactly when it has no owner, no count and no waiter.   *)
THEOREM KernelStaysConsistent == Spec => []KernelConsistent
<1>1. IInv => KernelConsistent
  BY DEF IInv, KernelConsistent
<1>2. QED
  BY <1>1, Invariance, PTL

(* A hand-over and the timeout of the waiter never both win: a take that       *)
(* waited returns RT_EOK exactly to the new owner.                             *)
THEOREM HandOversReturned == Spec => []HandOverReturned
<1>1. IInv => HandOverReturned
  BY DEF IInv, Waiting
<1>2. QED
  BY <1>1, Invariance, PTL

(***************************************************************************)
(* Where a more urgent thread is left waiting for the processor.           *)
(***************************************************************************)
(* A step after which the most urgent thread runs, or that is followed by a   *)
(* call of rt_schedule, overlooks nobody.                                     *)
LEMMA MostUrgentKept ==
  ASSUME \/ MostUrgent(kern')
         \/ pc'[kern'.current] \notin {Run, "taken", "slept"}
  PROVE  MostUrgentRuns'
BY DEF MostUrgent, MostUrgentRuns

(* A step that keeps the processor, all priorities and the place where the     *)
(* most urgent thread has to run, overlooks nobody that was not overlooked.    *)
LEMMA QuietKept ==
  ASSUME MostUrgentRuns, NEW t \in Thread, NEW p \in {Run, "taken", "slept"},
         At(t, p), Quiet(t), kern'.priority = kern.priority
  PROVE  MostUrgentRuns'
BY DEF MostUrgentRuns, At, Quiet

(* Without an interrupt, only a release that gives a lent priority back        *)
(* leaves a more urgent thread waiting for the processor.                      *)
THEOREM PreemptionMissedOnce == Spec => PreemptionMissedByReleaseOnly
<1> DEFINE GivesBack ==
      \E m \in Mutexes :
        /\ ReleaseFree(kern.current, m)
        /\ kern.priority[kern.current] < kern'.priority[kern.current]
<1>1. ASSUME IInv, Next, MostUrgentRuns, ~ MostUrgentRuns'
      PROVE  GivesBack
  <2>1. ASSUME NEW t \in Thread \ {Idle}, Call(t) PROVE GivesBack
    <3>1. PICK m \in Mutexes :
            \/ TakeAgain(t, m) \/ TakeFree(t, m) \/ TryTakeFails(t, m)
            \/ \E timed \in BOOLEAN : TakeWait(t, m, timed)
            \/ ReleaseFails(t, m) \/ ReleaseInner(t, m)
            \/ ReleaseFree(t, m) \/ ReleaseHandOver(t, m)
      BY <2>1 DEF Call
    <3>2. At(t, Run) /\ t \in Thread
      BY <3>1 DEF TakeAgain, TakeFree, TryTakeFails, TakeWait, ReleaseFails,
                  ReleaseInner, ReleaseFree, ReleaseHandOver
    <3>3. CASE \/ TakeAgain(t, m) \/ TakeFree(t, m) \/ TryTakeFails(t, m)
               \/ ReleaseFails(t, m) \/ ReleaseInner(t, m)
      <4>1. Quiet(t) /\ kern'.priority = kern.priority
        BY <1>1, <3>3, TakeAgainStep, TakeFreeStep, FailStep, ReleaseInnerStep
      <4>2. QED
        BY <1>1, <3>2, <4>1, QuietKept
    <3>4. CASE \E timed \in BOOLEAN : TakeWait(t, m, timed)
      <4>1. kern'.current = t /\ pc' = [pc EXCEPT ![t] = "take"]
        BY <1>1, <3>2, <3>4, TakeWaitKernel DEF NowWaits, At
      <4>2. pc'[kern'.current] = "take"
        BY <1>1, <4>1 DEF IInv, TypeOK
      <4>3. QED
        BY <1>1, <4>2, MostUrgentKept DEF Run
    <3>5. CASE ReleaseHandOver(t, m)
      <4>1. kern'.current = t /\ pc' = [pc EXCEPT ![t] = "sched"]
        BY <1>1, <3>2, <3>5, HandOverKernel DEF HandedOver, At
      <4>2. pc'[kern'.current] = "sched"
        BY <1>1, <4>1 DEF IInv, TypeOK
      <4>3. QED
        BY <1>1, <4>2, MostUrgentKept DEF Run
    <3>6. CASE ReleaseFree(t, m)
      <4>1. /\ Quiet(t) /\ \A x \in Thread \ {t} : kern'.priority[x] = kern.priority[x]
            /\ IInv' /\ t = kern.current
        BY <1>1, <3>2, <3>6, ReleaseFreeStep DEF At
      <4>2. \A x \in Thread : kern.priority[x] \in Int /\ kern'.priority[x] \in Int
        <5>1. Priority \subseteq Int
          BY KernelAssumption DEF Priority
        <5>2. QED
          BY <1>1, <4>1, <5>1 DEF IInv, TypeOK, KernelState
      <4>3. HasCpu(kern, t)
        BY <1>1, <3>2, OwnStep DEF Run
      <4>4. kern.priority[t] < kern'.priority[t]
        <5>1. SUFFICES ASSUME kern'.priority[t] <= kern.priority[t]
                       PROVE  MostUrgentRuns'
          BY <1>1, <3>2, <4>2
        <5>2. ASSUME NEW x \in Thread, kern'.stat[x] = "READY"
              PROVE  kern'.priority[t] <= kern'.priority[x]
          <6>1. x # t /\ kern.stat[x] = "READY"
            BY <4>1, <4>3, <5>2 DEF Quiet, HasCpu
          <6>2. kern.priority[t] <= kern.priority[x]
            BY <1>1, <3>2, <6>1 DEF MostUrgentRuns, At
          <6>3. QED
            BY <3>2, <4>1, <4>2, <5>1, <6>1, <6>2
        <5>3. QED
          BY <4>1, <5>2 DEF MostUrgentRuns, Quiet
      <4>5. QED
        BY <3>6, <4>1, <4>4
    <3>7. QED
      BY <3>1, <3>3, <3>4, <3>5, <3>6
  <2>2. ASSUME NEW t \in Thread \ {Idle}, Continue(t) PROVE GivesBack
    <3>1. CASE TakeReturn(t)
      <4>1. /\ Quiet(t) /\ kern'.priority = kern.priority
            /\ At(t, "taken") /\ t \in Thread
        BY <1>1, <3>1, TakeReturnStep DEF TakeReturn
      <4>2. QED
        BY <1>1, <4>1, QuietKept
    <3>2. CASE TakeSchedule(t) \/ Schedule(t)
      BY <1>1, <3>2, ScheduleStep, MostUrgentKept DEF TakeSchedule, Schedule
    <3>3. QED
      BY <2>2, <3>1, <3>2 DEF Continue
  <2>3. ASSUME NEW t \in Thread \ {Idle}, Sleep(t) PROVE GivesBack
    <3>1. CASE SleepBegin(t)
      <4>1. pc'[kern'.current] = "sleep"
        BY <1>1, <2>3, <3>1, SleepBeginStep DEF Sleep
      <4>2. QED
        BY <1>1, <4>1, MostUrgentKept DEF Run
    <3>2. CASE Reschedule(t, "sleep", "slept")
      BY <1>1, <2>3, <3>2, ScheduleStep, MostUrgentKept DEF Sleep
    <3>3. CASE SleepEnd(t)
      <4>1. /\ Quiet(t) /\ kern'.priority = kern.priority
            /\ At(t, "slept") /\ t \in Thread
        BY <1>1, <2>3, <3>3, SleepEndStep DEF Sleep, SleepEnd
      <4>2. QED
        BY <1>1, <4>1, QuietKept
    <3>4. QED
      BY <2>3, <3>1, <3>2, <3>3 DEF Sleep
  <2>4. ASSUME Tick PROVE GivesBack
    BY <1>1, <2>4, SliceStep, TimerStep, MostUrgentKept DEF Tick
  <2>5. QED
    BY <1>1, <2>1, <2>2, <2>3, <2>4 DEF Next
<1>2. IInv /\ [Next]_vars => [MostUrgentRuns /\ ~ MostUrgentRuns' => GivesBack]_vars
  BY <1>1
<1>3. QED
  BY <1>2, Invariance, PTL DEF Spec, PreemptionMissedByReleaseOnly

(***************************************************************************)
(* Lending and giving back.  A priority goes back to what it was when its  *)
(* mutex was taken, and to the owner of that mutex only, so nested mutexes *)
(* are beyond it.  What follows is about threads that take one mutex at a  *)
(* time: which thread has which priority, and that no owner is less urgent *)
(* than a thread that waits for it.                                        *)
(***************************************************************************)
(* whoever owns a mutex neither owns nor waits for another one *)
OneAtATime ==
  \A t \in Thread : \A m, n \in Mutexes :
    owner[m] = t /\ (owner[n] = t \/ t \in ToSet(kern.list[n])) => m = n

(* the priority that a mutex gives back is the one its owner was created with *)
OwnRecorded ==
  \A m \in Mutexes :
    owner[m] # NoOwner => original_priority[m] = InitPriority[owner[m]]

(* a priority list is in the order of its threads' priorities *)
QueueOrdered ==
  \A m \in Mutexes :
    flag[m] = "RT_IPC_FLAG_PRIO" => Ordered(InitPriority, kern.list[m])

Lent == PriorityRestored /\ OwnRecorded /\ QueueOrdered /\ NoInversion

LInv == IInv /\ OneAtATime /\ Lent

(* Whoever waits for a mutex owns none, and has the priority it was created   *)
(* with.                                                                      *)
LEMMA WaiterOwnsNone ==
  ASSUME LInv, NEW m \in Mutexes, NEW x \in ToSet(kern.list[m])
  PROVE  /\ x \in Thread /\ \A n \in Mutexes : owner[n] # x
         /\ kern.priority[x] = InitPriority[x]
<1>1. x \in Thread
  BY Lists, ListedThreads DEF LInv, IInv
<1>2. ASSUME NEW n \in Mutexes, owner[n] = x PROVE FALSE
  <2>1. n = m
    BY <1>1, <1>2 DEF LInv, OneAtATime
  <2>2. owner[m] # x
    BY DEF LInv, IInv, Waiting, WaitersOK
  <2>3. QED
    BY <1>2, <2>1, <2>2
<1>3. QED
  BY <1>1, <1>2 DEF LInv, Lent, PriorityRestored

(* A mutex that somebody waits for has an owner. *)
LEMMA WaitedIsOwned ==
  ASSUME IInv, NEW m \in Mutexes, NEW x \in ToSet(kern.list[m])
  PROVE  owner[m] \in Thread
<1>1. kern.list[m] # <<>>
  <2>1. ToSet(<<>>) = {}
    BY DEF ToSet
  <2>2. QED
    BY <2>1
<1>2. QED
  BY <1>1 DEF IInv, OwnerOK, TypeOK

(* A step that changes no priority, list, owner or record lends nothing. *)
LEMMA NothingLent ==
  ASSUME LInv, UNCHANGED <<owner, original_priority, flag>>,
         kern'.priority = kern.priority, kern'.list = kern.list
  PROVE  Lent'
BY DEF LInv, Lent, PriorityRestored, OwnRecorded, QueueOrdered, NoInversion

(* The thread that takes a free mutex has the priority that it goes back to. *)
LEMMA TakeFreeLent ==
  ASSUME LInv, OneAtATime', NEW t \in Thread, NEW m \in Mutexes, TakeFree(t, m)
  PROVE  Lent'
<1>1. /\ owner[m] # t /\ value[m] > 0
      /\ owner' = [owner EXCEPT ![m] = t]
      /\ original_priority' = [original_priority EXCEPT ![m] = kern.priority[t]]
      /\ UNCHANGED flag
  BY DEF TakeFree
<1>2. kern'.list = kern.list /\ kern'.priority = kern.priority
  BY TakeFreeStep DEF LInv, Quiet
<1>3. owner[m] = NoOwner /\ kern.list[m] = <<>> /\ t # NoOwner
  BY <1>1, MutexAssumption DEF LInv, IInv, TypeOK, OwnerOK
<1>4. /\ owner'[m] = t /\ original_priority'[m] = kern.priority[t]
      /\ \A n \in Mutexes \ {m} : /\ owner'[n] = owner[n]
                                  /\ original_priority'[n] = original_priority[n]
  BY <1>1 DEF LInv, IInv, TypeOK
<1>5. \A n \in Mutexes : owner[n] # t
  <2> SUFFICES ASSUME NEW n \in Mutexes, owner[n] = t PROVE FALSE
    OBVIOUS
  <2>1. n # m /\ owner'[n] = t
    BY <1>1, <1>4
  <2>2. QED
    BY <1>4, <2>1 DEF OneAtATime
<1>6. kern.priority[t] = InitPriority[t]
  BY <1>5 DEF LInv, Lent, PriorityRestored
<1>7. PriorityRestored'
  <2> SUFFICES ASSUME NEW x \in Thread, \A n \in Mutexes : owner'[n] # x
               PROVE  kern.priority[x] = InitPriority[x]
    BY <1>2 DEF PriorityRestored
  <2>1. \A n \in Mutexes : owner[n] # x
    BY <1>3, <1>4, MutexAssumption
  <2>2. QED
    BY <2>1 DEF LInv, Lent, PriorityRestored
<1>8. OwnRecorded'
  BY <1>4, <1>6 DEF LInv, Lent, OwnRecorded
<1>9. QueueOrdered'
  BY <1>1, <1>2 DEF LInv, Lent, QueueOrdered
<1>10. NoInversion'
  <2> SUFFICES ASSUME NEW n \in Mutexes, NEW x \in ToSet(kern.list[n])
               PROVE  kern.priority[owner'[n]] <= kern.priority[x]
    BY <1>2 DEF NoInversion
  <2>1. ToSet(<<>>) = {}
    BY DEF ToSet
  <2>2. n # m
    BY <1>3, <2>1
  <2>3. QED
    BY <1>4, <2>2 DEF LInv, Lent, NoInversion
<1>11. QED
  BY <1>7, <1>8, <1>9, <1>10 DEF Lent

(* The owner becomes as urgent as the new waiter, which enters the list at the *)
(* place of its own priority.                                                  *)
LEMMA TakeWaitLent ==
  ASSUME LInv, OneAtATime', NEW t \in Thread \ {Idle}, NEW m \in Mutexes,
         NEW timed \in BOOLEAN, TakeWait(t, m, timed)
  PROVE  Lent'
<1>1. /\ NowWaits(t, m)
      /\ owner[m] \in Thread \ {t} /\ At(t, Run)
      /\ UNCHANGED <<owner, original_priority, flag>>
  BY TakeWaitKernel DEF LInv, mutexes
<1>2. /\ ToSet(kern'.list[m]) = ToSet(kern.list[m]) \cup {t}
      /\ \A n \in Mutexes \ {m} : kern'.list[n] = kern.list[n]
      /\ kern'.priority[owner[m]] <= kern.priority[owner[m]]
      /\ kern'.priority[owner[m]] <= kern.priority[t]
      /\ \A x \in Thread \ {owner[m]} : kern'.priority[x] = kern.priority[x]
  BY <1>1 DEF NowWaits
<1>3. \A n \in Mutexes : owner[n] # t
  <2> SUFFICES ASSUME NEW n \in Mutexes, owner[n] = t PROVE FALSE
    OBVIOUS
  <2>1. n = m
    BY <1>1, <1>2 DEF OneAtATime
  <2>2. QED
    BY <1>1, <2>1
<1>4. kern.priority[t] = InitPriority[t]
  BY <1>3 DEF LInv, Lent, PriorityRestored
<1>5. \A n \in Mutexes : \A x \in ToSet(kern.list[n]) :
        /\ x \in Thread /\ x # owner[m]
        /\ kern'.priority[x] = kern.priority[x]
        /\ kern.priority[x] = InitPriority[x]
  BY <1>2, WaiterOwnsNone
<1>6. PriorityRestored'
  BY <1>1, <1>2 DEF LInv, Lent, PriorityRestored
<1>7. OwnRecorded'
  BY <1>1 DEF LInv, Lent, OwnRecorded
<1>8. QueueOrdered'
  <2> SUFFICES ASSUME NEW n \in Mutexes, flag[n] = "RT_IPC_FLAG_PRIO"
               PROVE  Ordered(InitPriority, kern'.list[n])
    BY <1>1 DEF QueueOrdered
  <2>1. Ordered(InitPriority, kern.list[n])
    BY DEF LInv, Lent, QueueOrdered
  <2>2. CASE n # m
    BY <1>2, <2>1, <2>2
  <2>3. CASE n = m
    <3>1. kern.list[m] \in Seq(Thread)
      BY Lists, ListedThreads DEF LInv, IInv
    <3>2. \A x \in ToSet(kern.list[m]) \cup {t} : kern'.priority[x] = InitPriority[x]
      BY <1>1, <1>2, <1>4, <1>5
    <3>3. InitPriority \in [Thread -> Int]
      BY KernelAssumption DEF Priority
    <3>4. Ordered(InitPriority,
                  InsertAt(kern.list[m],
                    SuspendPosition(kern', kern.list[m], t, "RT_IPC_FLAG_PRIO"), t))
      BY <2>1, <2>3, <3>1, <3>2, <3>3, PositionKeepsOrder
    <3>5. QED
      BY <1>1, <2>3, <3>4 DEF NowWaits
  <2>4. QED
    BY <2>2, <2>3
<1>9. NoInversion'
  <2> SUFFICES ASSUME NEW n \in Mutexes, NEW x \in ToSet(kern'.list[n])
               PROVE  kern'.priority[owner[n]] <= kern'.priority[x]
    BY <1>1 DEF NoInversion
  <2>1. CASE x = t /\ n = m
    BY <1>1, <1>2, <2>1
  <2>2. CASE x \in ToSet(kern.list[n])
    <3>1. kern.priority[owner[n]] <= kern.priority[x] /\ owner[n] \in Thread
      BY <2>2, WaitedIsOwned DEF LInv, Lent, NoInversion
    <3>2. /\ kern.priority[x] \in Int
          /\ kern.priority[owner[n]] \in Int /\ kern'.priority[owner[n]] \in Int
      <4>1. Priority \subseteq Int
        BY KernelAssumption DEF Priority
      <4>2. kern \in KernelState /\ kern' \in KernelState /\ x \in Thread
        BY <1>1, <1>5, <2>2 DEF LInv, IInv, KernelOK, NowWaits
      <4>3. QED
        BY <3>1, <4>1, <4>2 DEF KernelState
    <3>3. kern'.priority[owner[n]] <= kern.priority[owner[n]]
      BY <1>2, <3>1, <3>2
    <3>4. QED
      BY <1>5, <2>2, <3>1, <3>2, <3>3
  <2>3. QED
    BY <1>2, <2>1, <2>2
<1>10. QED
  BY <1>6, <1>7, <1>8, <1>9 DEF Lent

(* The owner that frees its mutex has the priority it was created with again. *)
LEMMA ReleaseFreeLent ==
  ASSUME LInv, NEW t \in Thread, NEW m \in Mutexes, ReleaseFree(t, m)
  PROVE  Lent'
<1>1. /\ At(t, Run) /\ owner[m] = t /\ kern.list[m] = <<>>
      /\ owner' = [owner EXCEPT ![m] = NoOwner]
      /\ original_priority' = [original_priority EXCEPT ![m] = NoPriority]
      /\ UNCHANGED flag
  BY DEF ReleaseFree
<1>2. /\ kern'.list = kern.list
      /\ kern'.priority[t] = original_priority[m]
      /\ \A x \in Thread \ {t} : kern'.priority[x] = kern.priority[x]
  BY ReleaseFreeStep DEF LInv, Quiet
<1>3. /\ owner'[m] = NoOwner /\ t # NoOwner
      /\ \A n \in Mutexes \ {m} : /\ owner'[n] = owner[n] /\ owner[n] # t
                                  /\ original_priority'[n] = original_priority[n]
  BY <1>1, MutexAssumption DEF LInv, IInv, TypeOK, OneAtATime
<1>4. original_priority[m] = InitPriority[t]
  BY <1>1, <1>3 DEF LInv, Lent, OwnRecorded
<1>5. PriorityRestored'
  <2> SUFFICES ASSUME NEW x \in Thread, \A n \in Mutexes : owner'[n] # x
               PROVE  kern'.priority[x] = InitPriority[x]
    BY DEF PriorityRestored
  <2>1. CASE x = t
    BY <1>2, <1>4, <2>1
  <2>2. CASE x # t
    <3>1. \A n \in Mutexes : owner[n] # x
      BY <1>1, <1>3, <2>2
    <3>2. QED
      BY <1>2, <2>2, <3>1 DEF LInv, Lent, PriorityRestored
  <2>3. QED
    BY <2>1, <2>2
<1>6. OwnRecorded'
  BY <1>3 DEF LInv, Lent, OwnRecorded
<1>7. QueueOrdered'
  BY <1>1, <1>2 DEF LInv, Lent, QueueOrdered
<1>8. NoInversion'
  <2> SUFFICES ASSUME NEW n \in Mutexes, NEW x \in ToSet(kern.list[n])
               PROVE  kern'.priority[owner'[n]] <= kern'.priority[x]
    BY <1>2 DEF NoInversion
  <2>1. ToSet(<<>>) = {}
    BY DEF ToSet
  <2>2. n # m
    BY <1>1, <2>1
  <2>3. /\ x \in Thread \ {t} /\ owner[n] \in Thread \ {t}
    BY <1>1, <1>3, <2>2, WaiterOwnsNone, WaitedIsOwned DEF LInv
  <2>4. QED
    BY <1>2, <1>3, <2>2, <2>3 DEF LInv, Lent, NoInversion
<1>9. QED
  BY <1>5, <1>6, <1>7, <1>8 DEF Lent

(* The new owner is as urgent as every thread that still waits: the first of a *)
(* priority list is, and the first of a FIFO list is made so.                  *)
LEMMA HandOverLent ==
  ASSUME LInv, NEW t \in Thread, NEW m \in Mutexes, ReleaseHandOver(t, m)
  PROVE  Lent'
<1> DEFINE next == Head(kern.list[m])
<1>1. /\ HandedOver(t, m, next)
      /\ At(t, Run) /\ owner[m] = t
      /\ owner' = [owner EXCEPT ![m] = next]
      /\ original_priority' = [original_priority EXCEPT ![m] = kern.priority[next]]
      /\ UNCHANGED flag
  BY HandOverKernel DEF LInv
<1>0. next = Head(kern.list[m])
  OBVIOUS
<1> HIDE DEF next
<1>2. /\ next \in Thread \ {t} /\ next \in ToSet(kern.list[m])
      /\ kern'.priority[t] = original_priority[m]
      /\ \A x \in Thread \ {t, next} : kern'.priority[x] = kern.priority[x]
      /\ Unlinked(kern, kern', next)
      /\ \A n \in Mutexes : ToSet(kern'.list[n]) = ToSet(kern.list[n]) \ {next}
  BY <1>1, Lists DEF HandedOver, Unlisting
<1>3. /\ owner'[m] = next /\ t # NoOwner
      /\ original_priority'[m] = kern.priority[next]
      /\ \A n \in Mutexes \ {m} : /\ owner'[n] = owner[n] /\ owner[n] # t
                                  /\ original_priority'[n] = original_priority[n]
  BY <1>1, MutexAssumption DEF LInv, IInv, TypeOK, OneAtATime
<1>4. original_priority[m] = InitPriority[t]
  BY <1>1, <1>3 DEF LInv, Lent, OwnRecorded
<1>5. kern.priority[next] = InitPriority[next] /\ \A n \in Mutexes : owner[n] # next
  BY <1>2, WaiterOwnsNone
<1>6. PriorityRestored'
  <2> SUFFICES ASSUME NEW x \in Thread, \A n \in Mutexes : owner'[n] # x
               PROVE  kern'.priority[x] = InitPriority[x]
    BY DEF PriorityRestored
  <2>1. CASE x = t
    BY <1>2, <1>4, <2>1
  <2>2. CASE x # t
    <3>1. x # next /\ \A n \in Mutexes : owner[n] # x
      BY <1>1, <1>3, <2>2
    <3>2. QED
      BY <1>2, <2>2, <3>1 DEF LInv, Lent, PriorityRestored
  <2>3. QED
    BY <2>1, <2>2
<1>7. OwnRecorded'
  BY <1>3, <1>5 DEF LInv, Lent, OwnRecorded
<1>8. QueueOrdered'
  <2> SUFFICES ASSUME NEW n \in Mutexes, flag[n] = "RT_IPC_FLAG_PRIO"
               PROVE  Ordered(InitPriority, kern'.list[n])
    BY <1>1 DEF QueueOrdered
  <2>1. kern.list[n] \in Seq(Thread) /\ Ordered(InitPriority, kern.list[n])
    BY Lists, ListedThreads DEF LInv, IInv, Lent, QueueOrdered
  <2>2. kern'.list[n] = RemoveFirst(kern.list[n], next)
    BY <1>2, Lists DEF Unlinked
  <2>3. QED
    BY <2>1, <2>2, RemoveKeepsOrder
<1>9. \A x \in ToSet(kern.list[m]) : kern'.priority[next] <= kern.priority[x]
  <2>1. CASE flag[m] = "RT_IPC_FLAG_FIFO"
    BY <1>1, <2>1 DEF HandedOver
  <2>2. CASE flag[m] = "RT_IPC_FLAG_PRIO"
    <3>1. kern'.priority[next] = InitPriority[next]
      BY <1>1, <1>5, <2>2 DEF HandedOver
    <3>2. /\ kern.list[m] \in Seq(Thread) /\ Ordered(InitPriority, kern.list[m])
          /\ InitPriority \in [Thread -> Int]
      BY <2>2, Lists, ListedThreads, KernelAssumption
         DEF LInv, IInv, Lent, QueueOrdered, Priority
    <3>3. kern.list[m] # <<>>
      <4>1. ToSet(<<>>) = {}
        BY DEF ToSet
      <4>2. QED
        BY <1>2, <4>1
    <3>4. \A x \in ToSet(kern.list[m]) : InitPriority[next] <= InitPriority[x]
      BY <1>0, <3>2, <3>3, HeadIsLeast
    <3>5. QED
      BY <3>1, <3>4, WaiterOwnsNone
  <2>3. QED
    BY <2>1, <2>2 DEF LInv, IInv, TypeOK
<1>10. NoInversion'
  <2> SUFFICES ASSUME NEW n \in Mutexes, NEW x \in ToSet(kern'.list[n])
               PROVE  kern'.priority[owner'[n]] <= kern'.priority[x]
    BY DEF NoInversion
  <2>1. x \in ToSet(kern.list[n]) /\ x # next
    BY <1>2
  <2>2. x \in Thread \ {t, next} /\ kern'.priority[x] = kern.priority[x]
    BY <1>1, <1>2, <2>1, WaiterOwnsNone
  <2>3. CASE n = m
    BY <1>3, <1>9, <2>1, <2>2, <2>3
  <2>4. CASE n # m
    <3>1. owner[n] \in Thread \ {t, next}
      BY <1>3, <1>5, <2>1, <2>4, WaitedIsOwned DEF LInv
    <3>2. QED
      BY <1>2, <1>3, <2>1, <2>2, <2>4, <3>1 DEF LInv, Lent, NoInversion
  <2>5. QED
    BY <2>3, <2>4
<1>11. QED
  BY <1>6, <1>7, <1>8, <1>10 DEF Lent

(* A waiter that gives up leaves its list in order; what it has lent stays     *)
(* with the owner until the release.                                           *)
LEMMA TimerLent ==
  ASSUME LInv, NEW t, TimerExpires(t), UNCHANGED <<mutexes, want>>
  PROVE  Lent'
<1>1. ResumedWith(kern, kern', t, "RT_ETIMEOUT")
  BY TimerStep DEF LInv
<1>2. Unlinked(kern, kern', t)
  BY TimeoutLemma DEF TimerExpires, LInv, IInv
<1>3. /\ kern'.priority = kern.priority
      /\ \A n \in Mutexes : ToSet(kern'.list[n]) \subseteq ToSet(kern.list[n])
      /\ UNCHANGED <<owner, original_priority, flag>>
  BY <1>1, Lists DEF ResumedWith, Unlisting, mutexes
<1>4. PriorityRestored' /\ OwnRecorded'
  BY <1>3 DEF LInv, Lent, PriorityRestored, OwnRecorded
<1>5. QueueOrdered'
  <2> SUFFICES ASSUME NEW n \in Mutexes, flag[n] = "RT_IPC_FLAG_PRIO"
               PROVE  Ordered(InitPriority, kern'.list[n])
    BY <1>3 DEF QueueOrdered
  <2>1. kern.list[n] \in Seq(Thread) /\ Ordered(InitPriority, kern.list[n])
    BY Lists, ListedThreads DEF LInv, IInv, Lent, QueueOrdered
  <2>2. kern'.list[n] = RemoveFirst(kern.list[n], t)
    BY <1>2, Lists DEF Unlinked
  <2>3. QED
    BY <2>1, <2>2, RemoveKeepsOrder
<1>6. NoInversion'
  BY <1>3 DEF LInv, Lent, NoInversion
<1>7. QED
  BY <1>4, <1>5, <1>6 DEF Lent

(* Nobody owns a mutex, and everybody has the priority it was created with. *)
LEMMA InitLent == Init => Lent
<1> SUFFICES ASSUME Init PROVE Lent
  OBVIOUS
<1>1. /\ owner = [m \in Mutexes |-> NoOwner]
      /\ CpuInit
  BY DEF Init
<1>2. \A m \in Mutexes : kern.list[m] = <<>>
  BY <1>1, BootLemma, KernelAssumption, Lists DEF CpuInit
<1>3. kern.priority = InitPriority
  BY <1>1 DEF CpuInit, Booted, BootState
<1>4. ToSet(<<>>) = {} /\ Ordered(InitPriority, <<>>)
  BY DEF ToSet, Ordered
<1>5. QED
  BY <1>1, <1>2, <1>3, <1>4
     DEF Lent, PriorityRestored, OwnRecorded, QueueOrdered, NoInversion

(* Each action lends and gives back as it should. *)
LEMMA NextLent ==
  ASSUME LInv, [Next]_vars, OneAtATime'
  PROVE  LInv'
<1>1. ASSUME NEW t \in Thread \ {Idle}, Call(t) PROVE Lent'
  <2>1. PICK m \in Mutexes :
          \/ TakeAgain(t, m) \/ TakeFree(t, m) \/ TryTakeFails(t, m)
          \/ \E timed \in BOOLEAN : TakeWait(t, m, timed)
          \/ ReleaseFails(t, m) \/ ReleaseInner(t, m)
          \/ ReleaseFree(t, m) \/ ReleaseHandOver(t, m)
    BY <1>1 DEF Call
  <2>2. CASE \/ TakeAgain(t, m) \/ TryTakeFails(t, m)
             \/ ReleaseFails(t, m) \/ ReleaseInner(t, m)
    <3>1. kern'.list = kern.list /\ kern'.priority = kern.priority
      BY <2>2, TakeAgainStep, FailStep, ReleaseInnerStep DEF LInv, Quiet
    <3>2. UNCHANGED <<owner, original_priority, flag>>
      BY <2>2 DEF TakeAgain, TryTakeFails, ReleaseFails, ReleaseInner, mutexes
    <3>3. QED
      BY <3>1, <3>2, NothingLent
  <2>3. CASE TakeFree(t, m)
    BY <2>3, TakeFreeLent
  <2>4. CASE \E timed \in BOOLEAN : TakeWait(t, m, timed)
    BY <2>4, TakeWaitLent
  <2>5. CASE ReleaseFree(t, m)
    BY <2>5, ReleaseFreeLent
  <2>6. CASE ReleaseHandOver(t, m)
    BY <2>6, HandOverLent
  <2>7. QED
    BY <2>1, <2>2, <2>3, <2>4, <2>5, <2>6
<1>2. ASSUME NEW t \in Thread, NEW p, NEW q, Reschedule(t, p, q),
             UNCHANGED <<mutexes, want>>
      PROVE  Lent'
  <2>1. KernelOK(kern) /\ kern.lock = 0
    BY DEF LInv, IInv, Waiting, CurrentRuns
  <2>2. Switched(kern, kern')
    BY <1>2, <2>1, RescheduleLemma
  <2>3. QED
    BY <1>2, <2>2, NothingLent DEF Switched, mutexes
<1>3. ASSUME NEW t \in Thread \ {Idle}, Continue(t) PROVE Lent'
  <2>1. CASE TakeReturn(t)
    BY <2>1, NothingLent DEF TakeReturn, mutexes
  <2>2. CASE TakeSchedule(t) \/ Schedule(t)
    BY <1>2, <2>2 DEF TakeSchedule, Schedule
  <2>3. QED
    BY <1>3, <2>1, <2>2 DEF Continue
<1>4. ASSUME NEW t \in Thread \ {Idle}, Sleep(t) PROVE Lent'
  <2>1. UNCHANGED <<owner, original_priority, flag>> /\ UNCHANGED <<mutexes, want>>
    BY <1>4 DEF Sleep, mutexes
  <2>2. CASE SleepBegin(t)
    BY <2>1, <2>2, SleepBeginStep, NothingLent DEF LInv
  <2>3. CASE Reschedule(t, "sleep", "slept")
    BY <1>2, <2>1, <2>3
  <2>4. CASE SleepEnd(t)
    BY <2>1, <2>4, SleepEndStep, NothingLent DEF LInv, Quiet
  <2>5. QED
    BY <1>4, <2>2, <2>3, <2>4 DEF Sleep
<1>5. ASSUME Tick PROVE Lent'
  <2>1. CASE SliceExpires /\ UNCHANGED <<mutexes, want>>
    <3>1. Switched(kern, kern')
      BY <2>1, SliceLemma DEF LInv, IInv, Waiting, CurrentRuns
    <3>2. QED
      BY <2>1, <3>1, NothingLent DEF Switched, mutexes
  <2>2. CASE (\E t \in Thread : TimerExpires(t)) /\ UNCHANGED <<mutexes, want>>
    BY <2>2, TimerLent
  <2>3. QED
    BY <1>5, <2>1, <2>2 DEF Tick
<1>6. ASSUME UNCHANGED vars PROVE Lent'
  BY <1>6, NothingLent DEF vars, mutexes
<1>7. Lent'
  BY <1>1, <1>3, <1>4, <1>5, <1>6 DEF Next
<1>8. IInv'
  BY NextInvariant DEF LInv
<1>9. QED
  BY <1>7, <1>8 DEF LInv

(* What holds of the lent priorities as long as nobody takes a mutex while it  *)
(* owns another one                                                            *)
LEMMA LentAlways == Spec /\ []OneAtATime => []LInv
<1>1. Init /\ OneAtATime => LInv
  BY InitInvariant, InitLent DEF LInv
<1>2. LInv /\ [Next]_vars /\ OneAtATime' => LInv'
  BY NextLent
<1>3. QED
  BY <1>1, <1>2, PTL DEF Spec

(* A lent priority is given back: if no thread takes a mutex while it owns     *)
(* another one, a thread without a mutex has the priority it was created with. *)
THEOREM LentIsGivenBack == Spec /\ []OneAtATime => []PriorityRestored
<1>1. LInv => PriorityRestored
  BY DEF LInv, Lent
<1>2. QED
  BY <1>1, LentAlways, PTL

(* No priority inversion: under the same discipline, the owner of a mutex is   *)
(* at least as urgent as every thread that waits for it, in either kind of     *)
(* list, whoever joins, gives up or is served.                                 *)
THEOREM OwnerIsUrgentEnough == Spec /\ []OneAtATime => []NoInversion
<1>1. LInv => NoInversion
  BY DEF LInv, Lent
<1>2. QED
  BY <1>1, LentAlways, PTL

(* A system with one mutex keeps the discipline, so both hold there without    *)
(* any condition on the threads.                                               *)
THEOREM OneMutexSuffices ==
  ASSUME NEW m, Mutexes = {m}
  PROVE  Spec => [](PriorityRestored /\ NoInversion)
<1>1. OneAtATime
  BY DEF OneAtATime
<1>2. LInv => PriorityRestored /\ NoInversion
  BY DEF LInv, Lent
<1>3. QED
  BY <1>1, <1>2, LentAlways, PTL
=============================================================================
