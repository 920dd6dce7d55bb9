-------------------------- MODULE SemaphoreProofs --------------------------
(***************************************************************************)
(* The semaphore keeps the kernel data consistent and every token, for any *)
(* number of threads and priorities and any largest value.                 *)
(***************************************************************************)
EXTENDS Semaphore, KernelProofs

(***************************************************************************)
(* The inductive invariant.  KernelOK alone is not inductive: what a step  *)
(* does to the thread that makes it depends on where the thread is.        *)
(***************************************************************************)
PlaceOK ==
  /\ kern.lock = 0
  /\ \A t \in Thread : kern.stat[t] \in {"READY", "RUNNING", "SUSPEND"}
  /\ \A t \in Thread : kern.stat[t] = "SUSPEND" => pc[t] \in {"take", "taken"}
  /\ pc[kern.current] # "take" => kern.stat[kern.current] = "RUNNING"
  /\ pc[Idle] = Run

(* a waiter's error number is the one rt_sem_take has put there *)
WaiterOK == \A t \in ToSet(Waiting) : kern.error[t] = "RT_EOK"

IInv ==
  /\ TypeOK
  /\ KernelOK(kern)
  /\ PlaceOK
  /\ WaiterOK
  /\ TokensConserved
  /\ PreemptionNotMissed

(* The woken takers are threads, and can be counted. *)
LEMMA GrantedCount == Granted \subseteq Thread /\ Cardinality(Granted) \in Nat
<1>1. Granted \in SUBSET Thread
  BY DEF Granted
<1>2. QED
  BY <1>1, ThreadSets

(* The semaphore's suspend list is the only list, and holds suspended threads. *)
LEMMA SemList == "sem" \in List /\ List = {"sem"} /\ "sem" # "rt_thread_defunct"
BY SemaphoreAssumption

(* The invariant holds once the scheduler has started. *)
LEMMA InitOK == Init => IInv
<1> SUFFICES ASSUME Init PROVE IInv
  OBVIOUS
<1>1. /\ KernelOK(kern)
      /\ kern.lock = 0 /\ kern.stat[kern.current] = "RUNNING"
      /\ \A t \in Thread : kern.error[t] = "RT_EOK"
      /\ \A t \in Thread : kern.stat[t] \in {"READY", "RUNNING"}
      /\ \A l \in List : kern.list[l] = <<>>
  BY BootLemma, KernelAssumption DEF Init, CpuInit
<1>2. pc = [t \in Thread |-> Run]
  BY DEF Init, CpuInit
<1>3. Waiting = <<>> /\ ToSet(Waiting) = {}
  BY <1>1, SemList DEF Waiting, ToSet
<1>4. Granted = {}
  BY <1>2 DEF Granted, Run
<1>5. TypeOK
  BY <1>1, <1>2, SemaphoreAssumption DEF Init, TypeOK, KernelOK, Run
<1>6. PlaceOK
  BY <1>1, <1>2, KernelAssumption DEF PlaceOK
<1>7. TokensConserved
  BY <1>3, <1>4, FS_EmptySet, SemaphoreAssumption DEF Init, TokensConserved
<1>8. PreemptionNotMissed
  <2>1. \A x \in Thread : kern.stat[x] = "READY" =>
          kern.priority[kern.current] <= kern.priority[x]
    BY BootLemma, KernelAssumption DEF Init, CpuInit
  <2>2. QED
    BY <1>1, <2>1 DEF PreemptionNotMissed, MostUrgentRunsAt
<1>9. QED
  BY <1>1, <1>3, <1>5, <1>6, <1>7, <1>8 DEF IInv, WaiterOK

(* A thread that takes a step runs, so it is in no suspend list. *)
LEMMA Runs ==
  ASSUME IInv, NEW t \in Thread, NEW p, At(t, p), p # "take"
  PROVE  /\ t = kern.current /\ pc[t] = p /\ kern.stat[t] = "RUNNING"
         /\ t \notin ToSet(Waiting)
<1>1. t = kern.current /\ pc[t] = p /\ kern.stat[t] = "RUNNING"
  BY DEF IInv, PlaceOK, At
<1>2. QED
  BY <1>1, SemList DEF IInv, KernelOK, SuspendListOK, ListedStat, Waiting

(* The head of the suspend list is a suspended thread. *)
LEMMA WaiterHead ==
  ASSUME IInv, Waiting # <<>>
  PROVE  /\ Head(Waiting) \in Thread \ {Idle}
         /\ Head(Waiting) \in ToSet(Waiting)
         /\ kern.stat[Head(Waiting)] = "SUSPEND"
         /\ pc[Head(Waiting)] \in {"take", "taken"}
         /\ kern.error[Head(Waiting)] = "RT_EOK"
<1> DEFINE h == Head(Waiting)
<1>1. Waiting \in Seq(Thread)
  BY SemList DEF IInv, KernelOK, KernelState, Waiting
<1>2. h = Waiting[1] /\ 1 \in DOMAIN Waiting /\ h \in Thread
  BY <1>1, EmptySeq, LenProperties, HeadTailProperties, ElementOfSeq
<1>3. h \in ToSet(Waiting)
  BY <1>2 DEF ToSet
<1> HIDE DEF h
<1>4. kern.stat[h] = "SUSPEND"
  BY <1>3, SemList DEF IInv, KernelOK, SuspendListOK, ListedStat, Waiting
<1>5. h # Idle
  BY <1>4 DEF IInv, KernelOK, CurrentOK
<1>6. pc[h] \in {"take", "taken"} /\ kern.error[h] = "RT_EOK"
  BY <1>2, <1>3, <1>4 DEF IInv, PlaceOK, WaiterOK
<1>7. QED
  BY <1>2, <1>3, <1>4, <1>5, <1>6 DEF h

(* After rt_schedule a most urgent thread runs, wherever it is. *)
LEMMA UrgentHolds ==
  ASSUME MostUrgent(kern')
  PROVE  PreemptionNotMissed'
BY DEF MostUrgent, PreemptionNotMissed, MostUrgentRunsAt

(* a call of rt_schedule, from a thread or from the tick interrupt *)
LEMMA ScheduleStep ==
  ASSUME IInv, NEW t \in Thread \ {Idle},
         TakeSchedule(t) \/ Schedule(t)
  PROVE  IInv'
<1>0. kern' = rt_schedule(kern) /\ UNCHANGED <<value, flag, balance>>
      /\ \/ pc[t] = "take" /\ pc' = [pc EXCEPT ![t] = "taken"]
         \/ pc[t] = "sched" /\ pc' = [pc EXCEPT ![t] = Run]
  BY DEF TakeSchedule, Schedule, Reschedule, At, Goto
<1>1. /\ KernelOK(kern') /\ Switched(kern, kern')
      /\ kern'.stat[kern'.current] = "RUNNING" /\ MostUrgent(kern')
  BY <1>0, ScheduleLemma DEF IInv, PlaceOK
<1>2. \A x \in Thread :
        /\ kern'.stat[x] \in {"READY", "RUNNING", "SUSPEND"}
        /\ kern'.stat[x] = "SUSPEND" <=> kern.stat[x] = "SUSPEND"
  BY <1>1 DEF Switched, IInv, PlaceOK
<1>3. /\ pc' \in [Thread -> {Run, "take", "taken", "sched", "reset"}]
      /\ \A x \in Thread : pc'[x] \in {"take", "taken"} <=> pc[x] \in {"take", "taken"}
      /\ pc'[Idle] = pc[Idle]
  BY <1>0, KernelAssumption DEF IInv, TypeOK, Run
<1>4. Granted' = Granted
  BY <1>1, <1>2, <1>3 DEF Granted, Switched
<1>5. Waiting' = Waiting
  BY <1>1 DEF Waiting, Switched
<1>6. TypeOK'
  BY <1>0, <1>1, <1>3 DEF IInv, TypeOK, KernelOK
<1>7. PlaceOK'
  BY <1>1, <1>2, <1>3 DEF IInv, PlaceOK, Switched
<1>8. WaiterOK'
  BY <1>1, <1>5 DEF IInv, WaiterOK, Switched
<1>9. TokensConserved'
  BY <1>0, <1>4, <1>5 DEF IInv, TokensConserved
<1>10. QED
  BY <1>1, <1>6, <1>7, <1>8, <1>9, UrgentHolds DEF IInv

(* The tick that ends a time slice sets the yield flag and reschedules. *)
LEMMA SliceStep ==
  ASSUME IInv, SliceExpires, UNCHANGED <<value, flag, balance>>
  PROVE  IInv'
<1>1. /\ UNCHANGED pc
      /\ KernelOK(kern') /\ Switched(kern, kern') /\ MostUrgent(kern')
  BY SliceLemma DEF IInv, PlaceOK
<1>2. \A x \in Thread :
        /\ kern'.stat[x] \in {"READY", "RUNNING", "SUSPEND"}
        /\ kern'.stat[x] = "SUSPEND" <=> kern.stat[x] = "SUSPEND"
  BY <1>1 DEF Switched, IInv, PlaceOK
<1>3. Granted' = Granted /\ Waiting' = Waiting
  BY <1>1, <1>2 DEF Granted, Waiting, Switched
<1>4. TypeOK'
  BY <1>1 DEF IInv, TypeOK, KernelOK
<1>5. PlaceOK'
  BY <1>1, <1>2 DEF IInv, PlaceOK, Switched, MostUrgent
<1>6. WaiterOK'
  BY <1>1, <1>3 DEF IInv, WaiterOK, Switched
<1>7. TokensConserved'
  BY <1>3 DEF IInv, TokensConserved
<1>8. QED
  BY <1>1, <1>4, <1>5, <1>6, <1>7, UrgentHolds DEF IInv

(* A waiter whose timer fires gets -RT_ETIMEOUT and no token. *)
LEMMA TimeoutStep ==
  ASSUME IInv, NEW t \in Thread, TimerExpires(t),
         UNCHANGED <<value, flag, balance>>
  PROVE  IInv'
<1>0. /\ UNCHANGED pc /\ KernelOK(kern')
      /\ ResumedWith(kern, kern', t, "RT_ETIMEOUT") /\ MostUrgent(kern')
  BY TimerLemma DEF IInv, PlaceOK, ResumedWith
<1>1. /\ kern'.lock = kern.lock
      /\ \A x \in Thread \ {t} :
           \/ kern'.stat[x] = kern.stat[x]
           \/ /\ kern.stat[x] \in {"READY", "RUNNING"}
              /\ kern'.stat[x] \in {"READY", "RUNNING"}
      /\ kern'.stat[t] \in {"READY", "RUNNING"}
      /\ kern'.stat[kern'.current] = "RUNNING"
      /\ Unlisting(kern, kern', t)
      /\ kern.stat[t] = "SUSPEND"
      /\ kern'.error[t] = "RT_ETIMEOUT"
      /\ \A x \in Thread \ {t} : kern'.error[x] = kern.error[x]
  BY <1>0 DEF ResumedWith, MostUrgent
<1>3. \A x \in Thread :
        /\ kern'.stat[x] \in {"READY", "RUNNING", "SUSPEND"}
        /\ kern'.stat[x] = "SUSPEND" => kern.stat[x] = "SUSPEND"
        /\ x # t => (kern'.stat[x] = "SUSPEND" <=> kern.stat[x] = "SUSPEND")
  BY <1>1 DEF IInv, PlaceOK
<1>5. Granted' = Granted
  BY <1>0, <1>1, <1>3 DEF Granted
<1>6. ToSet(Waiting') = ToSet(Waiting) \ {t}
  BY <1>1, SemList DEF Waiting, Unlisting
<1>7. Waiting = <<>> => Waiting' = <<>>
  <2>1. Waiting \in Seq(Thread) /\ Waiting' \in Seq(Thread)
    BY <1>0, SemList DEF Waiting, IInv, KernelOK, KernelState
  <2>2. QED
    BY <1>6, <2>1, EmptyToSet
<1>8. TypeOK'
  BY <1>0, <1>1 DEF IInv, TypeOK, KernelOK
<1>9. PlaceOK'
  BY <1>0, <1>1, <1>3 DEF IInv, PlaceOK
<1>10. WaiterOK'
  <2>1. ToSet(Waiting) \subseteq Thread
    BY SemList, ToSetType DEF Waiting, IInv, KernelOK, KernelState
  <2>2. QED
    BY <1>1, <1>6, <2>1 DEF IInv, WaiterOK
<1>11. TokensConserved'
  BY <1>5, <1>7 DEF IInv, TokensConserved
<1>12. QED
  BY <1>0, <1>8, <1>9, <1>10, <1>11, UrgentHolds DEF IInv

(* The steps that leave the kernel data and the suspend list alone *)
LEMMA ValueStep ==
  ASSUME IInv, NEW t \in Thread \ {Idle},
         TakeToken(t) \/ ResetBegin(t)
  PROVE  IInv'
<1>1. CASE TakeToken(t)
  <2>1. /\ UNCHANGED <<kern, pc, flag>> /\ value > 0
        /\ value' = value - 1 /\ balance' = balance - 1
    BY <1>1 DEF TakeToken
  <2>2. Granted' = Granted /\ Waiting' = Waiting
    BY <2>1 DEF Granted, Waiting
  <2>3. value \in 0 .. RT_SEM_VALUE_MAX /\ RT_SEM_VALUE_MAX \in Nat
        /\ Cardinality(Granted) \in Nat
    BY SemaphoreAssumption, GrantedCount DEF IInv, TypeOK
  <2>4. TokensConserved' /\ balance' \in Nat
    BY <2>1, <2>2, <2>3 DEF IInv, TokensConserved, TypeOK
  <2>5. TypeOK'
    BY <2>1, <2>3, <2>4 DEF IInv, TypeOK
  <2>6. QED
    BY <2>1, <2>2, <2>4, <2>5
       DEF IInv, PlaceOK, WaiterOK, PreemptionNotMissed, MostUrgentRunsAt
<1>2. CASE ResetBegin(t)
  <2>1. /\ UNCHANGED <<kern, value, flag, balance>>
        /\ pc' = [pc EXCEPT ![t] = "reset"] /\ pc[t] = Run
        /\ t = kern.current
    BY <1>2 DEF ResetBegin, At, Goto
  <2>2. /\ pc' \in [Thread -> {Run, "take", "taken", "sched", "reset"}]
        /\ \A x \in Thread : pc'[x] \in {"take", "taken"} <=> pc[x] \in {"take", "taken"}
        /\ pc'[Idle] = pc[Idle]
    BY <2>1, KernelAssumption DEF IInv, TypeOK, Run
  <2>3. Granted' = Granted /\ Waiting' = Waiting
    BY <2>1, <2>2 DEF Granted, Waiting
  <2>4. kern.stat[kern.current] = "RUNNING"
    BY <2>1 DEF IInv, PlaceOK, Run
  <2>5. PlaceOK'
    BY <2>1, <2>2, <2>4 DEF IInv, PlaceOK
  <2>6. PreemptionNotMissed'
    <3>1. pc'[kern'.current] = "reset"
      BY <2>1 DEF IInv, TypeOK, KernelState
    <3>2. QED
      BY <3>1 DEF PreemptionNotMissed, MostUrgentRunsAt, Run
  <2>7. QED
    BY <2>1, <2>2, <2>3, <2>5, <2>6 DEF IInv, TypeOK, WaiterOK, TokensConserved
<1>3. QED
  BY <1>1, <1>2

(* A release without a waiter adds its token to the value. *)
LEMMA ReleaseToValueStep ==
  ASSUME IInv, ReleaseToValue
  PROVE  IInv'
<1>1. /\ UNCHANGED <<kern, pc, flag>> /\ Waiting = <<>>
      /\ value < RT_SEM_VALUE_MAX
      /\ value' = value + 1 /\ balance' = balance + 1
  BY DEF ReleaseToValue
<1>2. Granted' = Granted /\ Waiting' = Waiting
  BY <1>1 DEF Granted, Waiting
<1>3. value \in 0 .. RT_SEM_VALUE_MAX /\ RT_SEM_VALUE_MAX \in Nat
      /\ Cardinality(Granted) \in Nat
  BY SemaphoreAssumption, GrantedCount DEF IInv, TypeOK
<1>4. TokensConserved' /\ balance' \in Nat
  BY <1>1, <1>2, <1>3 DEF IInv, TokensConserved, TypeOK
<1>5. TypeOK'
  BY <1>1, <1>3, <1>4 DEF IInv, TypeOK
<1>6. QED
  BY <1>1, <1>2, <1>4, <1>5
     DEF IInv, PlaceOK, WaiterOK, PreemptionNotMissed, MostUrgentRunsAt

(* The running thread finds no token and enters the suspend list. *)
LEMMA TakeSuspendStep ==
  ASSUME IInv, NEW t \in Thread \ {Idle}, NEW timed \in BOOLEAN,
         TakeSuspend(t, timed)
  PROVE  IInv'
<1>0. /\ At(t, Run) /\ value = 0 /\ UNCHANGED <<value, flag, balance>>
      /\ WaitIn(t, "sem", flag, timed, "take")
  BY DEF TakeSuspend
<1>1. t = kern.current /\ pc[t] = Run /\ kern.stat[t] = "RUNNING" /\ t \notin ToSet(Waiting)
  BY <1>0, Runs DEF Run
<1>2. SuspendedIn(kern, kern', t, "sem") /\ pc' = [pc EXCEPT ![t] = "take"]
  <2>1. KernelOK(kern) /\ HasCpu(kern, t)
    BY <1>1 DEF IInv, HasCpu
  <2>2. QED
    BY <1>0, <2>1, SemList, WaitLemma
<1>12. /\ KernelOK(kern') /\ kern'.current = kern.current /\ kern'.lock = kern.lock
       /\ kern'.stat[t] = "SUSPEND" /\ kern'.error[t] = "RT_EOK"
       /\ \A x \in Thread \ {t} : /\ kern'.stat[x] = kern.stat[x]
                                  /\ kern'.error[x] = kern.error[x]
       /\ ToSet(Waiting') = ToSet(Waiting) \cup {t}
  BY <1>2 DEF SuspendedIn, Waiting
<1>13. /\ pc' \in [Thread -> {Run, "take", "taken", "sched", "reset"}]
       /\ pc'[t] = "take" /\ \A x \in Thread \ {t} : pc'[x] = pc[x]
  BY <1>2 DEF IInv, TypeOK
<1>14. Granted' = Granted
  BY <1>1, <1>12, <1>13 DEF Granted, Run
<1>15. TypeOK'
  BY <1>0, <1>12, <1>13 DEF IInv, TypeOK, KernelOK
<1>16. PlaceOK'
  BY <1>1, <1>12, <1>13, KernelAssumption DEF IInv, PlaceOK
<1>17. WaiterOK'
  <2>1. ToSet(Waiting) \subseteq Thread
    BY SemList, ToSetType DEF Waiting, IInv, KernelOK, KernelState
  <2>2. QED
    BY <1>12, <2>1 DEF IInv, WaiterOK
<1>18. TokensConserved'
  BY <1>0, <1>14 DEF IInv, TokensConserved
<1>19. PreemptionNotMissed'
  BY <1>1, <1>12, <1>13 DEF PreemptionNotMissed, MostUrgentRunsAt, Run
<1>20. QED
  BY <1>12, <1>15, <1>16, <1>17, <1>18, <1>19 DEF IInv

(* A thread that is back from rt_schedule with RT_EOK has its token. *)
LEMMA TakeReturnStep ==
  ASSUME IInv, NEW t \in Thread \ {Idle}, TakeReturn(t)
  PROVE  IInv'
<1>0. /\ At(t, "taken") /\ UNCHANGED <<kern, value, flag>>
      /\ pc' = [pc EXCEPT ![t] = Run]
      /\ balance' = IF kern.error[t] = "RT_EOK" THEN balance - 1 ELSE balance
  BY DEF TakeReturn, Goto
<1>1. t = kern.current /\ pc[t] = "taken" /\ kern.stat[t] = "RUNNING"
  BY <1>0, Runs
<1>2. /\ pc' \in [Thread -> {Run, "take", "taken", "sched", "reset"}]
      /\ pc'[t] = Run /\ \A x \in Thread \ {t} : pc'[x] = pc[x]
  BY <1>0 DEF IInv, TypeOK
<1>3. Granted' = Granted \ {t} /\ Waiting' = Waiting
  BY <1>0, <1>2 DEF Granted, Waiting, Run
<1>4. t \in Granted <=> kern.error[t] = "RT_EOK"
  BY <1>1 DEF Granted
<1>5. value \in Nat /\ balance \in Nat /\ Cardinality(Granted) \in Nat
      /\ Cardinality(Granted') \in Nat
      /\ (t \in Granted => Cardinality(Granted') = Cardinality(Granted) - 1)
      /\ (t \notin Granted => Granted' = Granted)
  <2>1. Granted \subseteq Thread
    BY DEF Granted
  <2>2. Granted' \subseteq Thread
    BY <1>3, <2>1
  <2>3. value \in Nat /\ balance \in Nat
    BY SemaphoreAssumption DEF IInv, TypeOK
  <2>4. QED
    BY <1>3, <2>1, <2>2, <2>3, ThreadSets
<1>6. TokensConserved' /\ balance' \in Nat
  <2>1. value + Cardinality(Granted) = balance /\ (value > 0 => Waiting = <<>>)
    BY DEF IInv, TokensConserved
  <2>2. value' + Cardinality(Granted') = balance' /\ balance' \in Nat
    <3>1. CASE t \in Granted
      BY <1>0, <1>4, <1>5, <2>1, <3>1
    <3>2. CASE t \notin Granted
      BY <1>0, <1>4, <1>5, <2>1, <3>2
    <3>3. QED
      BY <3>1, <3>2
  <2>3. QED
    BY <1>0, <1>3, <2>1, <2>2 DEF TokensConserved
<1>7. TypeOK'
  BY <1>0, <1>2, <1>6 DEF IInv, TypeOK
<1>8. PlaceOK'
  BY <1>0, <1>1, <1>2, KernelAssumption DEF IInv, PlaceOK, Run
<1>9. PreemptionNotMissed'
  BY <1>0, <1>1 DEF IInv, PreemptionNotMissed, MostUrgentRunsAt
<1>10. QED
  BY <1>0, <1>3, <1>6, <1>7, <1>8, <1>9 DEF IInv, WaiterOK

(* A release hands its token to the head of the suspend list. *)
LEMMA ReleaseStep ==
  ASSUME IInv, Waiting # <<>>,
         ResumedWith(kern, kern', Head(Waiting), "RT_EOK"),
         balance' = balance + 1, UNCHANGED <<value, flag>>,
         pc' \in [Thread -> {Run, "take", "taken", "sched", "reset"}],
         \A x \in Thread : pc'[x] \in {"take", "taken"} <=> pc[x] \in {"take", "taken"},
         pc'[Idle] = Run,
         pc'[kern'.current] # "take" => kern'.stat[kern'.current] = "RUNNING",
         PreemptionNotMissed'
  PROVE  IInv'
<1> DEFINE h == Head(Waiting)
<1>1. /\ h \in Thread \ {Idle} /\ h \in ToSet(Waiting) /\ kern.stat[h] = "SUSPEND"
      /\ pc[h] \in {"take", "taken"}
  BY WaiterHead
<1>2. /\ KernelOK(kern') /\ kern'.lock = kern.lock
      /\ kern'.stat[h] \in {"READY", "RUNNING"} /\ kern'.error[h] = "RT_EOK"
      /\ \A x \in Thread \ {h} :
           /\ kern'.error[x] = kern.error[x]
           /\ \/ kern'.stat[x] = kern.stat[x]
              \/ /\ kern.stat[x] \in {"READY", "RUNNING"}
                 /\ kern'.stat[x] \in {"READY", "RUNNING"}
      /\ ToSet(Waiting') = ToSet(Waiting) \ {h}
  BY SemList DEF ResumedWith, Unlisting, Waiting
<1> HIDE DEF h
<1>3. Granted' = Granted \cup {h} /\ h \in Thread \ Granted
  <2>1. h \notin Granted
    BY <1>1 DEF Granted
  <2>2. \A x \in Thread \ {h} : kern'.stat[x] # "SUSPEND" <=> kern.stat[x] # "SUSPEND"
    BY <1>2
  <2>4. ASSUME NEW x \in Thread PROVE x \in Granted' <=> x \in Granted \cup {h}
    <3>1. CASE x = h
      BY <1>1, <1>2, <3>1 DEF Granted
    <3>2. CASE x # h
      BY <1>2, <2>2, <3>2 DEF Granted
    <3>3. QED
      BY <3>1, <3>2
  <2>5. Granted \subseteq Thread /\ Granted' \subseteq Thread
    BY DEF Granted
  <2>6. QED
    BY <1>1, <2>1, <2>4, <2>5
<1>4. TokensConserved' /\ balance' \in Nat
  <2>1. value + Cardinality(Granted) = balance /\ (value > 0 => Waiting = <<>>)
    BY DEF IInv, TokensConserved
  <2>2. Cardinality(Granted') = Cardinality(Granted) + 1 /\ Cardinality(Granted) \in Nat
    <3>1. Granted \subseteq Thread
      BY DEF Granted
    <3>2. QED
      BY <1>3, <3>1, ThreadSets
  <2>3. value \in Nat /\ balance \in Nat
    BY SemaphoreAssumption DEF IInv, TypeOK
  <2>4. QED
    BY <2>1, <2>2, <2>3 DEF TokensConserved
<1>5. TypeOK'
  BY <1>2, <1>4 DEF IInv, TypeOK, KernelOK
<1>6. PlaceOK'
  <2>1. \A x \in Thread : kern'.stat[x] \in {"READY", "RUNNING", "SUSPEND"}
                          /\ (kern'.stat[x] = "SUSPEND" => kern.stat[x] = "SUSPEND")
    BY <1>2 DEF IInv, PlaceOK
  <2>2. QED
    BY <1>2, <2>1 DEF IInv, PlaceOK
<1>7. WaiterOK'
  <2>1. ToSet(Waiting) \subseteq Thread
    BY SemList, ToSetType DEF Waiting, IInv, KernelOK, KernelState
  <2>2. QED
    BY <1>2, <2>1, ZenonT(60) DEF IInv, WaiterOK
<1>8. QED
  BY <1>2, <1>4, <1>5, <1>6, <1>7 DEF IInv

(* rt_sem_release of a thread, up to the point where it calls rt_schedule *)
LEMMA ReleaseToWaiterStep ==
  ASSUME IInv, NEW t \in Thread \ {Idle}, ReleaseToWaiter(t)
  PROVE  IInv'
<1> DEFINE h == Head(Waiting)
<1>0. /\ At(t, Run) /\ Waiting # <<>> /\ UNCHANGED <<value, flag>>
      /\ kern' = rt_thread_resume(kern, h) /\ balance' = balance + 1
      /\ pc' = [pc EXCEPT ![t] = "sched"]
  BY DEF ReleaseToWaiter, Goto, rt_ipc_list_resume, Waiting
<1>1. t = kern.current /\ pc[t] = Run /\ kern.stat[t] = "RUNNING" /\ t \notin ToSet(Waiting)
  BY <1>0, Runs DEF Run
<1>2. /\ h \in Thread /\ h # t /\ kern.stat[h] = "SUSPEND"
      /\ kern.error[h] = "RT_EOK" /\ KernelOK(kern)
  BY <1>0, <1>1, WaiterHead DEF IInv
<1> HIDE DEF h
<1>3. ResumedHere(kern, kern', h, "RT_EOK")
  BY <1>0, <1>2, ResumeHere
<1>4. kern'.current = t /\ kern'.stat[t] = "RUNNING"
  BY <1>1, <1>2, <1>3 DEF ResumedHere
<1>5. /\ pc' \in [Thread -> {Run, "take", "taken", "sched", "reset"}]
      /\ \A x \in Thread : pc'[x] \in {"take", "taken"} <=> pc[x] \in {"take", "taken"}
      /\ pc'[Idle] = Run /\ pc'[t] = "sched"
  BY <1>0, <1>1, KernelAssumption DEF IInv, TypeOK, PlaceOK, Run
<1>6. PreemptionNotMissed'
  BY <1>4, <1>5 DEF PreemptionNotMissed, MostUrgentRunsAt, Run
<1>7. ResumedWith(kern, kern', h, "RT_EOK")
  BY <1>3 DEF ResumedHere
<1>8. QED
  BY <1>0, <1>4, <1>5, <1>6, <1>7, ReleaseStep DEF h

(* rt_sem_release of an interrupt handler, its rt_schedule included *)
LEMMA IsrReleaseStep ==
  ASSUME IInv, IsrRelease
  PROVE  IInv'
<1>1. CASE /\ Waiting # <<>>
           /\ kern' = rt_schedule(rt_ipc_list_resume(kern, "sem"))
           /\ balance' = balance + 1
           /\ UNCHANGED <<pc, value, flag>>
  <2> DEFINE h == Head(Waiting)
             r == rt_thread_resume(kern, h)
  <2>1. kern' = rt_schedule(r)
    BY <1>1 DEF rt_ipc_list_resume, Waiting
  <2>2. /\ h \in Thread /\ kern.stat[h] = "SUSPEND" /\ kern.error[h] = "RT_EOK"
        /\ KernelOK(kern) /\ kern.lock = 0
    BY <1>1, WaiterHead DEF IInv, PlaceOK
  <2> HIDE DEF h
  <2>3. ResumedWith(kern, r, h, "RT_EOK")
    BY <2>2, ResumeHere DEF ResumedHere
  <2> HIDE DEF r
  <2>4. ResumedWith(kern, kern', h, "RT_EOK") /\ MostUrgent(kern')
    BY <2>1, <2>2, <2>3, ThenSchedule
  <2>5. /\ pc' \in [Thread -> {Run, "take", "taken", "sched", "reset"}]
        /\ \A x \in Thread : pc'[x] \in {"take", "taken"} <=> pc[x] \in {"take", "taken"}
        /\ pc'[Idle] = Run
    BY <1>1 DEF IInv, TypeOK, PlaceOK
  <2>6. PreemptionNotMissed' /\ kern'.stat[kern'.current] = "RUNNING"
    BY <2>4, UrgentHolds DEF MostUrgent
  <2>7. QED
    BY <1>1, <2>4, <2>5, <2>6, ReleaseStep DEF h
<1>2. CASE ReleaseToValue
  BY <1>2, ReleaseToValueStep
<1>3. QED
  BY <1>1, <1>2 DEF IsrRelease

(* A reset resumes the head of the suspend list without a token. *)
LEMMA ResetResumeStep ==
  ASSUME IInv, NEW t \in Thread \ {Idle}, ResetResume(t)
  PROVE  IInv'
<1> DEFINE h == Head(Waiting)
<1>0. /\ At(t, "reset") /\ Waiting # <<>> /\ UNCHANGED <<pc, value, flag, balance>>
      /\ kern' = ResumeWithError(kern, "sem")
  BY DEF ResetResume
<1>1. /\ t = kern.current /\ pc[t] = "reset" /\ kern.stat[t] = "RUNNING"
      /\ t \notin ToSet(Waiting)
  BY <1>0, Runs
<1>2. /\ h \in Thread /\ h # t /\ h \in ToSet(Waiting) /\ kern.stat[h] = "SUSPEND"
      /\ KernelOK(kern)
  BY <1>0, <1>1, WaiterHead DEF IInv
<1>3. ResumedHere(kern, kern', h, "RT_ERROR")
  BY <1>0, <1>2, SemList, ResumeErrorLemma DEF Waiting
<1> HIDE DEF h
<1>4. /\ KernelOK(kern') /\ kern'.current = kern.current /\ kern'.lock = kern.lock
      /\ kern'.stat[h] \in {"READY", "RUNNING"} /\ kern'.error[h] = "RT_ERROR"
      /\ \A x \in Thread \ {h} : kern'.stat[x] = kern.stat[x] /\ kern'.error[x] = kern.error[x]
  BY <1>3 DEF ResumedHere, ResumedWith
<1>5. ToSet(Waiting') = ToSet(Waiting) \ {h}
  BY <1>3, SemList DEF Waiting, ResumedHere, ResumedWith, Unlisting
<1>6. Granted' = Granted
  BY <1>0, <1>2, <1>4 DEF Granted
<1>7. TypeOK'
  BY <1>0, <1>4 DEF IInv, TypeOK, KernelOK
<1>8. PlaceOK'
  BY <1>0, <1>1, <1>2, <1>4 DEF IInv, PlaceOK
<1>9. WaiterOK'
  <2>1. ToSet(Waiting) \subseteq Thread
    BY SemList, ToSetType DEF Waiting, IInv, KernelOK, KernelState
  <2>2. QED
    BY <1>0, <1>4, <1>5, <2>1 DEF IInv, WaiterOK
<1>10. TokensConserved'
  <2>1. value' + Cardinality(Granted') = balance'
    BY <1>0, <1>6 DEF IInv, TokensConserved
  <2>2. ~ (value > 0) /\ value' = value
    BY <1>0 DEF IInv, TokensConserved
  <2>3. QED
    BY <2>1, <2>2 DEF TokensConserved
<1>11. PreemptionNotMissed'
  BY <1>0, <1>1, <1>4 DEF PreemptionNotMissed, MostUrgentRunsAt, Run
<1>12. QED
  BY <1>4, <1>7, <1>8, <1>9, <1>10, <1>11 DEF IInv

(* The end of a reset starts a new account of tokens. *)
LEMMA ResetEndStep ==
  ASSUME IInv, NEW t \in Thread \ {Idle}, ResetEnd(t)
  PROVE  IInv'
<1>0. /\ At(t, "reset") /\ Waiting = <<>> /\ UNCHANGED <<kern, flag>>
      /\ value' = InitValue /\ balance' = InitValue + Cardinality(Granted)
      /\ pc' = [pc EXCEPT ![t] = "sched"]
  BY DEF ResetEnd, Goto
<1>1. t = kern.current /\ pc[t] = "reset" /\ kern.stat[t] = "RUNNING"
  BY <1>0, Runs
<1>2. /\ pc' \in [Thread -> {Run, "take", "taken", "sched", "reset"}]
      /\ \A x \in Thread : pc'[x] \in {"take", "taken"} <=> pc[x] \in {"take", "taken"}
      /\ pc'[Idle] = Run
  BY <1>0, <1>1, KernelAssumption DEF IInv, TypeOK, PlaceOK
<1>3. Granted' = Granted /\ Waiting' = Waiting
  BY <1>0, <1>2 DEF Granted, Waiting
<1>4. Cardinality(Granted) \in Nat /\ InitValue \in 0 .. RT_SEM_VALUE_MAX
      /\ RT_SEM_VALUE_MAX \in Nat
  BY GrantedCount, SemaphoreAssumption
<1>5. TypeOK' /\ TokensConserved'
  BY <1>0, <1>2, <1>3, <1>4 DEF IInv, TypeOK, TokensConserved
<1>6. PlaceOK'
  BY <1>0, <1>1, <1>2 DEF IInv, PlaceOK
<1>7. PreemptionNotMissed'
  <2>1. pc'[kern'.current] = "sched"
    BY <1>0, <1>1 DEF IInv, TypeOK, KernelOK, KernelState
  <2>2. QED
    BY <2>1 DEF PreemptionNotMissed, MostUrgentRunsAt, Run
<1>8. QED
  BY <1>0, <1>3, <1>5, <1>6, <1>7 DEF IInv, WaiterOK

(* Every step keeps the invariant. *)
LEMMA NextOK == IInv /\ [Next]_vars => IInv'
<1> SUFFICES ASSUME IInv, [Next]_vars PROVE IInv'
  OBVIOUS
<1>1. ASSUME NEW t \in Thread \ {Idle}, Call(t) PROVE IInv'
  BY <1>1, ValueStep, TakeSuspendStep, ReleaseToWaiterStep, ReleaseToValueStep
     DEF Call, Release
<1>2. ASSUME NEW t \in Thread \ {Idle}, Continue(t) PROVE IInv'
  BY <1>2, ScheduleStep, TakeReturnStep, ResetResumeStep, ResetEndStep DEF Continue
<1>3. CASE IsrRelease
  BY <1>3, IsrReleaseStep
<1>4. CASE Tick
  BY <1>4, SliceStep, TimeoutStep DEF Tick
<1>5. CASE UNCHANGED vars
  BY <1>5 DEF vars, IInv, TypeOK, PlaceOK, WaiterOK, TokensConserved, Granted, Waiting,
              PreemptionNotMissed, MostUrgentRunsAt
<1>6. QED
  BY <1>1, <1>2, <1>3, <1>4, <1>5 DEF Next

(* What the code relies on in every reachable state, for any constants *)
THEOREM Invariance == Spec => []IInv
<1>1. IInv /\ [Next]_vars => IInv'
  BY NextOK
<1>2. QED
  BY <1>1, InitOK, PTL DEF Spec

(* The values stay in their ranges: the count never passes RT_SEM_VALUE_MAX,  *)
(* whatever releases come, and no thread is at a point the code does not have. *)
THEOREM TypeCorrect == Spec => []TypeOK
<1>1. IInv => TypeOK
  BY DEF IInv
<1>2. QED
  BY <1>1, Invariance, PTL

(* The ready queues, the bitmap, the suspend list and the thread states agree  *)
(* in every reachable state, so no list operation of ipc.c or scheduler.c ever *)
(* meets a node that is linked elsewhere, and rt_schedule never an empty queue. *)
THEOREM KernelStaysConsistent == Spec => []KernelConsistent
<1>1. IInv => KernelConsistent
  BY DEF IInv, KernelConsistent
<1>2. QED
  BY <1>1, Invariance, PTL

(* No token is lost or made up, whichever of timeout, release, reset and      *)
(* preemption meet: rt_sem_take and rt_sem_release account for every one.     *)
THEOREM TokensStayConserved == Spec => []TokensConserved
<1>1. IInv => TokensConserved
  BY DEF IInv
<1>2. QED
  BY <1>1, Invariance, PTL

(* No release, timeout or reset that makes a more urgent thread ready goes     *)
(* without the reschedule that rt_sem_release, rt_thread_timeout and           *)
(* rt_sem_control owe it: where none is due, a most urgent thread runs.        *)
THEOREM PreemptionNeverMissed == Spec => []PreemptionNotMissed
<1>1. IInv => PreemptionNotMissed
  BY DEF IInv
<1>2. QED
  BY <1>1, Invariance, PTL

(***************************************************************************)
(* The order of the suspend list.  What a step can do to it is little: one  *)
(* waiter leaves, at the head or without a token, or one thread enters at   *)
(* the place rt_ipc_list_suspend finds for it.                             *)
(***************************************************************************)
QueueOK == flag = "RT_IPC_FLAG_PRIO" => Ordered(kern.priority, Waiting)

WaiterLeaves(x) ==
  /\ x \in ToSet(Waiting)
  /\ Waiting' = RemoveFirst(Waiting, x)
  /\ x = Head(Waiting) \/ x \notin Granted'

WaiterEnters(x) ==
  /\ x \in Thread /\ x \notin ToSet(Waiting)
  /\ Waiting' = InsertAt(Waiting, SuspendPosition(kern, Waiting, x, flag), x)

(* A resumed thread is taken out of the suspend list. *)
LEMMA ResumeLeaves ==
  ASSUME NEW k, KernelOK(k), NEW t \in Thread, k.stat[t] = "SUSPEND"
  PROVE  LET u == rt_thread_resume(k, t)
         IN  /\ KernelOK(u) /\ u.priority = k.priority
             /\ u.list["sem"] = RemoveFirst(k.list["sem"], t)
<1> DEFINE u == rt_thread_resume(k, t)
<1>1. KernelOK(u) /\ u.priority = k.priority /\ Unlinked(k, u, t)
  BY ResumeLemma
<1> HIDE DEF u
<1>2. u.list["sem"] = RemoveFirst(k.list["sem"], t)
  BY <1>1, SemList DEF Unlinked
<1>3. QED
  BY <1>1, <1>2 DEF u

(* rt_schedule moves no waiter and changes no priority. *)
LEMMA ScheduleKeepsQueue ==
  ASSUME NEW k, KernelOK(k)
  PROVE  rt_schedule(k).list = k.list /\ rt_schedule(k).priority = k.priority
BY ScheduleLemma DEF Switched

(* What a step does to the suspend list *)
LEMMA QueueStep ==
  ASSUME IInv, Next
  PROVE  /\ flag' = flag /\ kern'.priority = kern.priority
         /\ \/ Waiting' = Waiting
            \/ \E x \in Thread : WaiterLeaves(x) \/ WaiterEnters(x)
<1> DEFINE Change == /\ flag' = flag /\ kern'.priority = kern.priority
                     /\ \/ Waiting' = Waiting
                        \/ \E x \in Thread : WaiterLeaves(x) \/ WaiterEnters(x)
<1>0. KernelOK(kern) /\ kern.lock = 0
  BY DEF IInv, PlaceOK
<1>1. ASSUME UNCHANGED <<kern, flag>> PROVE Change
  BY <1>1 DEF Waiting
<1>2. ASSUME kern' = rt_schedule(kern), flag' = flag PROVE Change
  BY <1>0, <1>2, ScheduleKeepsQueue DEF Waiting
<1>3. ASSUME Waiting # <<>>, flag' = flag,
             \/ kern' = rt_ipc_list_resume(kern, "sem")
             \/ kern' = rt_schedule(rt_ipc_list_resume(kern, "sem"))
      PROVE  Change
  <2> DEFINE h == Head(Waiting)
             r == rt_thread_resume(kern, h)
  <2>1. h \in Thread /\ h \in ToSet(Waiting) /\ kern.stat[h] = "SUSPEND"
    BY <1>3, WaiterHead
  <2>2. kern' = r \/ kern' = rt_schedule(r)
    BY <1>3 DEF rt_ipc_list_resume, Waiting
  <2> HIDE DEF h
  <2>3. /\ KernelOK(r) /\ r.priority = kern.priority
        /\ r.list["sem"] = RemoveFirst(Waiting, h)
    BY <1>0, <2>1, ResumeLeaves DEF Waiting
  <2> HIDE DEF r
  <2>4. kern'.priority = kern.priority /\ Waiting' = RemoveFirst(Waiting, h)
    BY <2>2, <2>3, ScheduleKeepsQueue DEF Waiting
  <2>5. WaiterLeaves(h)
    BY <2>1, <2>4 DEF WaiterLeaves, h
  <2>6. QED
    BY <1>3, <2>1, <2>4, <2>5
<1>4. ASSUME NEW t \in Thread \ {Idle}, NEW timed \in BOOLEAN, TakeSuspend(t, timed)
      PROVE  Change
  <2>1. /\ At(t, Run) /\ flag' = flag /\ WaitIn(t, "sem", flag, timed, "take")
    BY <1>4 DEF TakeSuspend
  <2>2. t = kern.current /\ kern.stat[t] = "RUNNING" /\ t \notin ToSet(Waiting)
    BY <2>1, Runs DEF Run
  <2>3. HasCpu(kern, t)
    BY <2>2 DEF HasCpu
  <2>4. /\ SuspendedIn(kern, kern', t, "sem")
        /\ kern'.list["sem"] = InsertAt(kern.list["sem"],
                                 SuspendPosition(kern, kern.list["sem"], t, flag), t)
    BY <1>0, <2>1, <2>3, SemList, WaitPlaceLemma
  <2>5. WaiterEnters(t) /\ kern'.priority = kern.priority
    BY <2>2, <2>4 DEF WaiterEnters, Waiting, SuspendedIn
  <2>6. QED
    BY <2>1, <2>5
<1>5. ASSUME NEW t \in Thread \ {Idle}, ResetResume(t)
      PROVE  Change
  <2> DEFINE h == Head(Waiting)
             e == SetError(kern, h, "RT_ERROR")
  <2>1. /\ Waiting # <<>> /\ flag' = flag /\ kern' = ResumeWithError(kern, "sem")
    BY <1>5 DEF ResetResume
  <2>2. h \in Thread /\ h \in ToSet(Waiting) /\ kern.stat[h] = "SUSPEND"
    BY <2>1, WaiterHead
  <2>3. kern' = rt_thread_resume(e, h)
    BY <2>1 DEF ResumeWithError, SetError, Waiting
  <2>4. ResumedHere(kern, kern', h, "RT_ERROR")
    BY <1>0, <2>1, SemList, ResumeErrorLemma DEF Waiting
  <2> HIDE DEF h
  <2>5. /\ KernelOK(e) /\ e.list = kern.list /\ e.priority = kern.priority
        /\ e.stat = kern.stat
    BY <1>0, <2>2, ErrorLemma DEF Error
  <2> HIDE DEF e
  <2>6. kern'.priority = kern.priority /\ Waiting' = RemoveFirst(Waiting, h)
    BY <2>2, <2>3, <2>5, ResumeLeaves DEF Waiting
  <2>7. h \notin Granted'
    BY <2>4 DEF ResumedHere, ResumedWith, Granted
  <2>8. QED
    BY <2>1, <2>2, <2>6, <2>7 DEF WaiterLeaves
<1>6. ASSUME NEW t \in Thread, TimerExpires(t), flag' = flag
      PROVE  Change
  <2>1. ResumedWith(kern, kern', t, "RT_ETIMEOUT")
    BY <1>0, <1>6, TimerLemma
  <2>2. /\ kern'.priority = kern.priority
        /\ kern'.list["sem"] = RemoveFirst(kern.list["sem"], t)
    BY <1>0, <1>6, SemList, TimeoutLemma DEF TimerExpires, Unlinked
  <2>3. t \notin Granted'
    BY <2>1 DEF ResumedWith, Granted
  <2>4. Waiting \in Seq(Thread)
    BY <1>0, SemList DEF KernelOK, KernelState, Waiting
  <2>5. t \notin ToSet(Waiting) => Waiting' = Waiting
    BY <2>2, <2>4, ContainsToSet, RemoveFirstLemma DEF Waiting
  <2>6. t \in ToSet(Waiting) => WaiterLeaves(t)
    BY <2>2, <2>3 DEF WaiterLeaves, Waiting
  <2>7. QED
    BY <1>6, <2>2, <2>5, <2>6
<1>7. ASSUME SliceExpires, flag' = flag
      PROVE  Change
  <2>1. Switched(kern, kern')
    BY <1>0, <1>7, SliceLemma
  <2>2. QED
    BY <1>7, <2>1 DEF Switched, Waiting
<1>8. ASSUME NEW t \in Thread \ {Idle}, Call(t) PROVE Change
  <2>1. CASE TakeToken(t) \/ ResetBegin(t) \/ ReleaseToValue
    BY <1>1, <2>1 DEF TakeToken, ResetBegin, ReleaseToValue
  <2>2. CASE ReleaseToWaiter(t)
    BY <1>3, <2>2 DEF ReleaseToWaiter
  <2>3. QED
    BY <1>4, <1>8, <2>1, <2>2 DEF Call, Release
<1>9. ASSUME NEW t \in Thread \ {Idle}, Continue(t) PROVE Change
  <2>1. CASE TakeReturn(t) \/ ResetEnd(t)
    BY <1>1, <2>1 DEF TakeReturn, ResetEnd
  <2>2. CASE TakeSchedule(t) \/ Schedule(t)
    BY <1>2, <2>2 DEF TakeSchedule, Schedule, Reschedule
  <2>3. QED
    BY <1>5, <1>9, <2>1, <2>2 DEF Continue
<1>10. CASE IsrRelease
  BY <1>1, <1>3, <1>10 DEF IsrRelease, ReleaseToValue
<1>11. CASE Tick
  BY <1>6, <1>7, <1>11 DEF Tick
<1>12. QED
  BY <1>8, <1>9, <1>10, <1>11 DEF Next

(* A list that loses one thread keeps the others in their order. *)
LEMMA RemovalKeepsAhead ==
  ASSUME NEW T, NEW s \in Seq(T), NEW x, x \in ToSet(s), NEW t, NEW u,
         Ahead(RemoveFirst(s, x), u, t)
  PROVE  Ahead(s, u, t)
<1> DEFINE r == RemoveFirst(s, x)
<1>0. Len(s) \in Nat /\ DOMAIN s = 1 .. Len(s)
  BY LenProperties
<1>a. Contains(s, x)
  BY ContainsToSet
<1>1. r \in Seq(T) /\ Len(r) = Len(s) - 1
  BY <1>a, RemoveFirstPlaces
<1>2. PICK n \in 1 .. Len(s) :
        \A j \in 1 .. Len(s) - 1 : r[j] = IF j < n THEN s[j] ELSE s[j + 1]
  BY <1>a, RemoveFirstPlaces
<1> HIDE DEF r
<1>3. DOMAIN r = 1 .. Len(s) - 1
  BY <1>1, LenProperties
<1>4. PICK i \in DOMAIN r, j \in DOMAIN r : i < j /\ r[i] = u /\ r[j] = t
  BY DEF Ahead, r
<1> DEFINE a == IF i < n THEN i ELSE i + 1
           b == IF j < n THEN j ELSE j + 1
<1>5. a \in DOMAIN s /\ b \in DOMAIN s /\ a < b
  BY <1>0, <1>3, <1>4
<1>6. s[a] = u /\ s[b] = t
  BY <1>0, <1>2, <1>3, <1>4
<1> HIDE DEF a, b
<1>7. QED
  BY <1>5, <1>6 DEF Ahead

(* A thread that enters overtakes the less urgent ones only, and none of them *)
(* without RT_IPC_FLAG_PRIO.                                                  *)
LEMMA EntryOvertakes ==
  ASSUME NEW k, NEW s \in Seq(Thread), NEW x \in Thread, x \notin ToSet(s), NEW fl,
         k.priority \in [Thread -> Int],
         fl = "RT_IPC_FLAG_PRIO" => Ordered(k.priority, s),
         NEW t \in ToSet(s), NEW u,
         Ahead(InsertAt(s, SuspendPosition(k, s, x, fl), x), u, t), ~ Ahead(s, u, t)
  PROVE  fl = "RT_IPC_FLAG_PRIO" /\ k.priority[u] < k.priority[t]
<1> DEFINE n == SuspendPosition(k, s, x, fl)
           r == InsertAt(s, n, x)
           behind == {i \in DOMAIN s : k.priority[x] < k.priority[s[i]]}
<1>0. /\ Len(s) \in Nat /\ DOMAIN s = 1 .. Len(s) /\ n \in 1 .. Len(s) + 1
      /\ \A i \in 1 .. Len(s) : s[i] \in Thread /\ s[i] \in ToSet(s)
  BY LenProperties, ElementOfSeq, PositionLemma DEF ToSet
<1>1. /\ r \in Seq(Thread) /\ Len(r) = Len(s) + 1
      /\ \A j \in 1 .. Len(s) + 1 :
           r[j] = IF j < n THEN s[j] ELSE IF j = n THEN x ELSE s[j - 1]
  <2> HIDE DEF n
  <2>1. n \in 1 .. Len(s) + 1
    BY <1>0
  <2>2. QED
    BY <2>1, InsertAtPlaces, SMTT(30)
<1>2. n = IF fl = "RT_IPC_FLAG_PRIO" /\ behind # {} THEN Min(behind) ELSE Len(s) + 1
  BY DEF SuspendPosition
<1>3. behind # {} => Min(behind) \in behind
  <2>1. behind \in SUBSET (0 .. Len(s))
    BY <1>0
  <2> HIDE DEF behind
  <2>2. QED
    BY <1>0, <2>1, MinLemma
<1> HIDE DEF r, n
<1>4. DOMAIN r = 1 .. Len(s) + 1
  BY <1>1, LenProperties
<1>5. PICK i \in DOMAIN r, j \in DOMAIN r : i < j /\ r[i] = u /\ r[j] = t
  BY DEF Ahead, r, n
<1>6. j # n
  BY <1>0, <1>1, <1>4, <1>5
<1>7. i = n
  <2>1. SUFFICES ASSUME i # n PROVE FALSE
    OBVIOUS
  <2> DEFINE a == IF i < n THEN i ELSE i - 1
             b == IF j < n THEN j ELSE j - 1
  <2>2. a \in DOMAIN s /\ b \in DOMAIN s /\ a < b
    BY <1>0, <1>4, <1>5, <1>6, <2>1
  <2>3. s[a] = u /\ s[b] = t
    BY <1>0, <1>1, <1>4, <1>5, <1>6, <2>1
  <2> HIDE DEF a, b
  <2>4. QED
    BY <2>2, <2>3 DEF Ahead
<1>8. u = x /\ n \in 1 .. Len(s) /\ j - 1 \in 1 .. Len(s) /\ n <= j - 1 /\ t = s[j - 1]
  BY <1>0, <1>1, <1>4, <1>5, <1>7
<1>9. fl = "RT_IPC_FLAG_PRIO" /\ n \in behind
  <2> HIDE DEF behind
  <2>1. n # Len(s) + 1
    BY <1>0, <1>8
  <2>2. QED
    BY <1>2, <1>3, <2>1
<1>10. k.priority[x] < k.priority[s[n]]
  BY <1>9
<1>11. k.priority[s[n]] <= k.priority[s[j - 1]]
  <2>1. CASE n = j - 1
    BY <1>0, <1>8, <2>1
  <2>2. CASE n < j - 1
    BY <1>8, <1>9, <2>2 DEF Ordered
  <2>3. QED
    BY <1>8, <2>1, <2>2
<1>12. QED
  BY <1>0, <1>8, <1>9, <1>10, <1>11

(* The suspend list starts empty, in any order. *)
LEMMA QueueInit == Init => QueueOK
<1> SUFFICES ASSUME Init PROVE QueueOK
  OBVIOUS
<1>1. Waiting = <<>>
  BY BootLemma, KernelAssumption, SemList DEF Init, CpuInit, Waiting
<1>2. QED
  BY <1>1 DEF QueueOK, Ordered

(* Every step keeps that order. *)
LEMMA QueueNext == IInv /\ QueueOK /\ [Next]_vars => QueueOK'
<1> SUFFICES ASSUME IInv, QueueOK, [Next]_vars PROVE QueueOK'
  OBVIOUS
<1>0. /\ Waiting \in Seq(Thread) /\ kern.priority \in [Thread -> Int]
  BY SemList, KernelAssumption DEF IInv, KernelOK, KernelState, Waiting, Priority
<1>1. CASE UNCHANGED vars
  BY <1>1 DEF vars, QueueOK, Waiting
<1>2. CASE Next
  <2>1. flag' = flag /\ kern'.priority = kern.priority
    BY <1>2, QueueStep
  <2>2. CASE Waiting' = Waiting
    BY <2>1, <2>2 DEF QueueOK
  <2>3. ASSUME NEW x \in Thread, WaiterLeaves(x) PROVE QueueOK'
    BY <1>0, <2>1, <2>3, RemoveKeepsOrder DEF QueueOK, WaiterLeaves
  <2>4. ASSUME NEW x \in Thread, WaiterEnters(x) PROVE QueueOK'
    <3>1. SUFFICES ASSUME flag = "RT_IPC_FLAG_PRIO"
                   PROVE  Ordered(kern.priority, Waiting')
      BY <2>1 DEF QueueOK
    <3>2. Ordered(kern.priority, Waiting)
      BY <3>1 DEF QueueOK
    <3>3. Ordered(kern.priority,
            InsertAt(Waiting, SuspendPosition(kern, Waiting, x, "RT_IPC_FLAG_PRIO"), x))
      BY <1>0, <3>2, PositionKeepsOrder
    <3>4. QED
      BY <2>4, <3>1, <3>3 DEF WaiterEnters
  <2>5. QED
    BY <1>2, <2>2, <2>3, <2>4, QueueStep
<1>3. QED
  BY <1>1, <1>2

(* The two promises, for one step *)
LEMMA NoOvertakingStep ==
  ASSUME IInv, QueueOK, Next, IInv', NEW t \in Thread, NEW u \in Thread
  PROVE  /\ Ahead(Waiting', u, t) /\ Contains(Waiting, t) /\ ~Ahead(Waiting, u, t)
              => flag = "RT_IPC_FLAG_PRIO" /\ kern.priority[u] < kern.priority[t]
         /\ Ahead(Waiting, t, u) /\ Contains(Waiting', t)
              => u \notin Granted'
<1>0. /\ Waiting \in Seq(Thread) /\ kern.priority \in [Thread -> Int]
      /\ IsInjective(Waiting)
  BY SemList, KernelAssumption
     DEF IInv, KernelOK, KernelState, SuspendListOK, Waiting, Priority
<1>a. Len(Waiting) \in Nat /\ DOMAIN Waiting = 1 .. Len(Waiting)
  BY <1>0, LenProperties
<1>b. \A x \in ToSet(Waiting') : x \notin Granted'
  BY SemList DEF IInv, KernelOK, SuspendListOK, ListedStat, Waiting, Granted
<1>1. ASSUME Ahead(Waiting', u, t), Contains(Waiting, t), ~Ahead(Waiting, u, t)
      PROVE  flag = "RT_IPC_FLAG_PRIO" /\ kern.priority[u] < kern.priority[t]
  <2>0. t \in ToSet(Waiting)
    BY <1>0, <1>1, ContainsToSet
  <2>1. CASE Waiting' = Waiting
    BY <1>1, <2>1
  <2>2. ASSUME NEW x \in Thread, WaiterLeaves(x) PROVE FALSE
    BY <1>0, <1>1, <2>2, RemovalKeepsAhead DEF WaiterLeaves
  <2>3. ASSUME NEW x \in Thread, WaiterEnters(x)
        PROVE  flag = "RT_IPC_FLAG_PRIO" /\ kern.priority[u] < kern.priority[t]
    <3>1. flag = "RT_IPC_FLAG_PRIO" => Ordered(kern.priority, Waiting)
      BY DEF QueueOK
    <3>2. /\ x \notin ToSet(Waiting)
          /\ Ahead(InsertAt(Waiting, SuspendPosition(kern, Waiting, x, flag), x), u, t)
      BY <1>1, <2>3 DEF WaiterEnters
    <3>3. QED
      BY <1>0, <1>1, <2>0, <3>1, <3>2, EntryOvertakes
  <2>4. QED
    BY <2>1, <2>2, <2>3, QueueStep
<1>2. ASSUME Ahead(Waiting, t, u) PROVE u \notin Granted'
  <2>1. PICK i \in DOMAIN Waiting, j \in DOMAIN Waiting :
          i < j /\ Waiting[i] = t /\ Waiting[j] = u
    BY <1>2 DEF Ahead
  <2>2. u \in ToSet(Waiting)
    BY <2>1 DEF ToSet
  <2>3. CASE Waiting' = Waiting
    BY <1>b, <2>2, <2>3
  <2>4. ASSUME NEW x \in Thread, WaiterLeaves(x) PROVE u \notin Granted'
    <3>1. CASE u # x
      <4>1. ToSet(Waiting') = ToSet(Waiting) \ {x}
        BY <1>0, <2>4, RemoveFirstLemma DEF WaiterLeaves
      <4>2. QED
        BY <1>b, <2>2, <3>1, <4>1
    <3>2. CASE u = x /\ x = Head(Waiting)
      <4>1. 1 \in DOMAIN Waiting /\ Waiting[1] = u
        BY <1>0, <1>a, <2>1, <3>2, HeadTailProperties, EmptySeq
      <4>2. j = 1
        BY <1>0, <2>1, <4>1 DEF IsInjective
      <4>3. QED
        BY <1>a, <2>1, <4>2
    <3>3. QED
      BY <2>4, <3>1, <3>2 DEF WaiterLeaves
  <2>5. ASSUME NEW x \in Thread, WaiterEnters(x) PROVE u \notin Granted'
    <3>1. ToSet(Waiting') = ToSet(Waiting) \cup {x}
      BY <1>0, <2>5, PositionLemma, InsertAtLemma DEF WaiterEnters
    <3>2. QED
      BY <1>b, <2>2, <3>1
  <2>6. QED
    BY <2>3, <2>4, <2>5, QueueStep
<1>3. QED
  BY <1>1, <1>2

(* A waiter is passed only by a more urgent one and only with                  *)
(* RT_IPC_FLAG_PRIO, and a release lets the first one through: the order that  *)
(* rt_ipc_list_suspend gives the suspend list survives timeouts, resets and    *)
(* every preemption.                                                           *)
THEOREM NobodyOvertakes == Spec => NoOvertaking
<1> DEFINE Step == \A t, u \in Thread :
          /\ Ahead(Waiting', u, t) /\ Contains(Waiting, t) /\ ~Ahead(Waiting, u, t)
               => flag = "RT_IPC_FLAG_PRIO" /\ kern.priority[u] < kern.priority[t]
          /\ Ahead(Waiting, t, u) /\ Contains(Waiting', t)
               => u \notin Granted'
<1>1. Init => IInv /\ QueueOK
  BY InitOK, QueueInit
<1>2. IInv /\ QueueOK /\ [Next]_vars => (IInv /\ QueueOK)'
  BY NextOK, QueueNext
<1>3. IInv /\ QueueOK /\ [Next]_vars => [Step]_vars
  BY NextOK, NoOvertakingStep
<1>4. QED
  BY <1>1, <1>2, <1>3, PTL DEF Spec, NoOvertaking
=============================================================================
