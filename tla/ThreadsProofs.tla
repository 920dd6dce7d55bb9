--------------------------- MODULE ThreadsProofs ---------------------------
(***************************************************************************)
(* The life of threads: the windows that rt_thread_resume, _suspend and    *)
(* _delete leave open to interrupts do no harm, and memory is released     *)
(* only behind the last list, timer and call, as long as there is one      *)
(* controller, more urgent than the threads it manages, and those do not   *)
(* sleep.                                                                  *)
(***************************************************************************)
EXTENDS Threads, KernelProofs

(* The discipline under which that holds; the run about deletion shows what *)
(* happens without its last part.                                           *)
Disciplined ==
  /\ \A c, d \in Controller : c = d
  /\ \A c \in Controller, u \in Managed : InitPriority[c] < InitPriority[u]
  /\ Managed \cap Sleeper = {}

(***************************************************************************)
(* The inductive invariant.                                                *)
(***************************************************************************)
(* the points inside a call on another thread *)
Mid == {"resume", "insert", "suspend", "delete", "close"}

(* Kernel data with the threads of C counted as closed.                     *)
Veil(k, C) ==
  [k EXCEPT !.stat = [t \in Thread |-> IF t \in C THEN "CLOSE" ELSE @[t]]]

Seen == Veil(kern, Closing)

(* Only a thread that is leaving the processor is current without running,  *)
(* which it cannot do with the scheduler locked; and where no call of       *)
(* rt_schedule is due a most urgent thread runs.                            *)
CurrentRuns ==
  /\ \/ kern.stat[kern.current] = "RUNNING"
     \/ /\ kern.lock = 0 /\ kern.stat[kern.current] = "SUSPEND"
        /\ pc[kern.current] \in {"sched", "sleep"}
  /\ kern.lock = 0 /\ pc[kern.current] \in Mid \cup {Run, "slept"} => MostUrgent(Seen)

(* What a call has found out about its thread stays true until the call acts *)
(* on it.                                                                    *)
StillTrue(p, u) ==
  /\ p \in {"resume", "insert"} => kern.stat[u] = "SUSPEND"
  /\ p = "suspend" => kern.stat[u] = "READY"
  /\ p \in {"delete", "close"} => /\ kern.stat[u] \notin {"CLOSE", "RUNNING"}
                                  /\ u \notin ToSet(kern.list[Defunct])

(* That is so because no managed thread gets the processor in between. *)
CallsOK ==
  \A c \in Controller : pc[c] \in Mid =>
    /\ target[c] \in Managed \cap allocated
    /\ kern.current \notin Managed
    /\ kern.stat[c] \in {"READY", "RUNNING"}
    /\ StillTrue(pc[c], target[c])

LessUrgent ==
  \A c \in Controller :
    /\ kern.priority[c] = InitPriority[c]
    /\ \A u \in Managed : InitPriority[c] < kern.priority[u]

(* The closed threads whose memory is not released yet are in               *)
(* rt_thread_defunct, and nothing reaches the others.                       *)
DefunctOK ==
  \A t \in Thread :
    /\ t \in ToSet(kern.list[Defunct]) <=> t \in allocated /\ kern.stat[t] = "CLOSE"
    /\ t \notin allocated => kern.stat[t] \in {"INIT", "CLOSE"}

IInv ==
  /\ TypeOK
  /\ KernelOK(Seen)
  /\ CurrentRuns
  /\ CallsOK
  /\ LessUrgent
  /\ DefunctOK
  /\ kern.timer \subseteq Sleeper

(***************************************************************************)
(* A kernel function that does not work on the threads of C does the same   *)
(* whether or not they count as closed, and leaves their state.             *)
(***************************************************************************)
Unseen(k, r, v, C) ==
  /\ r \in KernelState
  /\ v = Veil(r, C)
  /\ \A u \in C : r.stat[u] = k.stat[u]

(* The veil changes the states only. *)
LEMMA VeilFields ==
  ASSUME NEW k \in KernelState, NEW C
  PROVE  LET v == Veil(k, C)
         IN  /\ v \in KernelState
             /\ v.current = k.current /\ v.yield = k.yield /\ v.priority = k.priority
             /\ v.error = k.error /\ v.timer = k.timer /\ v.ready = k.ready
             /\ v.group = k.group /\ v.list = k.list /\ v.lock = k.lock
             /\ v.fault = k.fault
             /\ v.stat = [t \in Thread |-> IF t \in C THEN "CLOSE" ELSE k.stat[t]]
BY DEF Veil, KernelState, Stat

(* the fields that the veil leaves alone *)
LEMMA VeilPlain ==
  ASSUME NEW k \in KernelState, NEW C
  PROVE  /\ Veil(k, C).current = k.current /\ Veil(k, C).priority = k.priority
         /\ Veil(k, C).timer = k.timer /\ Veil(k, C).ready = k.ready
         /\ Veil(k, C).group = k.group /\ Veil(k, C).list = k.list
         /\ Veil(k, C).lock = k.lock /\ Veil(k, C).fault = k.fault
BY DEF Veil, KernelState

(* The operators keep the types of every record. *)
LEMMA UnreadyType ==
  ASSUME NEW k \in KernelState, NEW t \in Thread
  PROVE  /\ rt_list_remove(k, t) \in KernelState
         /\ rt_schedule_remove_thread(k, t) \in KernelState
<1> DEFINE u == rt_list_remove(k, t)
<1>1. /\ \A p \in Priority : RemoveFirst(k.ready[p], t) \in Seq(Thread)
      /\ \A l \in List : RemoveFirst(k.list[l], t) \in Seq(Thread)
  BY RemoveFirstLemma DEF KernelState
<1>2. u \in KernelState
  BY <1>1 DEF rt_list_remove, KernelState
<1>3. [u EXCEPT !.group = @ \ {u.priority[t]}] \in KernelState
  <2> HIDE DEF u
  <2> QED  BY <1>2 DEF KernelState
<1>4. QED
  BY <1>2, <1>3 DEF rt_schedule_remove_thread

(* the same of rt_schedule_insert_thread *)
LEMMA InsertType ==
  ASSUME NEW k \in KernelState, NEW t \in Thread
  PROVE  rt_schedule_insert_thread(k, t) \in KernelState
<1>1. k.priority[t] \in Priority /\ k.ready[k.priority[t]] \in Seq(Thread)
  BY DEF KernelState
<1>2. Append(k.ready[k.priority[t]], t) \in Seq(Thread)
  BY <1>1
<1>3. k.fault \/ Linked(k, t) \in BOOLEAN
  BY DEF Linked
<1>4. CASE t = k.current
  BY <1>4 DEF rt_schedule_insert_thread, KernelState, Stat
<1>5. CASE t # k.current
  BY <1>1, <1>2, <1>3, <1>5 DEF rt_schedule_insert_thread, KernelState, Stat
<1>6. QED
  BY <1>4, <1>5

(* Leaving the lists does not depend on the states. *)
LEMMA VeilUnready ==
  ASSUME NEW k \in KernelState, NEW C, C \subseteq Thread, NEW t \in Thread
  PROVE  /\ Unseen(k, rt_list_remove(k, t), rt_list_remove(Veil(k, C), t), C)
         /\ Unseen(k, rt_schedule_remove_thread(k, t),
                      rt_schedule_remove_thread(Veil(k, C), t), C)
<1>1. rt_list_remove(Veil(k, C), t) = Veil(rt_list_remove(k, t), C)
  BY DEF Veil, rt_list_remove, KernelState
<1>2. rt_schedule_remove_thread(Veil(k, C), t) = Veil(rt_schedule_remove_thread(k, t), C)
  BY DEF Veil, rt_list_remove, KernelState, rt_schedule_remove_thread
<1>3. /\ rt_list_remove(k, t).stat = k.stat
      /\ rt_schedule_remove_thread(k, t).stat = k.stat
  BY DEF rt_list_remove, KernelState, rt_schedule_remove_thread
<1>4. QED
  BY <1>1, <1>2, <1>3, UnreadyType DEF Unseen

(* the state function of a record, veiled *)
VeilStat(s, C) == [t \in Thread |-> IF t \in C THEN "CLOSE" ELSE s[t]]

(* A state written outside C shows through the veil. *)
LEMMA VeilStatExcept ==
  ASSUME NEW s, DOMAIN s = Thread, NEW C, NEW t \in Thread \ C, NEW v
  PROVE  [VeilStat(s, C) EXCEPT ![t] = v] = VeilStat([s EXCEPT ![t] = v], C)
BY DEF VeilStat

(* one state written *)
SetStat(k, t, s) == [k EXCEPT !.stat[t] = s]

(* writing a state, field by field *)
LEMMA SetStatFields ==
  ASSUME NEW k \in KernelState, NEW t \in Thread, NEW s \in Stat
  PROVE  LET v == SetStat(k, t, s)
         IN  /\ v \in KernelState
             /\ v.current = k.current /\ v.yield = k.yield /\ v.priority = k.priority
             /\ v.error = k.error /\ v.timer = k.timer /\ v.ready = k.ready
             /\ v.group = k.group /\ v.list = k.list /\ v.lock = k.lock
             /\ v.fault = k.fault
             /\ v.stat = [k.stat EXCEPT ![t] = s]
BY DEF SetStat, KernelState

(* Writing the state of a thread outside C commutes with the veil. *)
LEMMA VeilSet ==
  ASSUME NEW k \in KernelState, NEW C, C \subseteq Thread, NEW t \in Thread \ C, NEW s \in Stat
  PROVE  Unseen(k, SetStat(k, t, s), SetStat(Veil(k, C), t, s), C)
<1> DEFINE a == Veil(k, C)
           b == SetStat(a, t, s)
           c == SetStat(k, t, s)
           d == Veil(c, C)
<1>1. DOMAIN k.stat = Thread
  BY DEF KernelState
<1>2. a \in KernelState /\ b \in KernelState /\ c \in KernelState /\ d \in KernelState
  BY VeilFields, SetStatFields
<1> DEFINE Same(u, w) == /\ u.current = w.current /\ u.yield = w.yield
                         /\ u.priority = w.priority /\ u.error = w.error
                         /\ u.timer = w.timer /\ u.ready = w.ready
                         /\ u.group = w.group /\ u.list = w.list
                         /\ u.lock = w.lock /\ u.fault = w.fault
<1>3. Same(a, k) /\ a.stat = VeilStat(k.stat, C)
  BY VeilFields DEF VeilStat
<1>4. Same(b, a) /\ b.stat = [a.stat EXCEPT ![t] = s]
  <2> HIDE DEF a
  <2> QED  BY <1>2, SetStatFields
<1>5. Same(c, k) /\ c.stat = [k.stat EXCEPT ![t] = s]
  BY SetStatFields
<1>6. Same(d, c) /\ d.stat = VeilStat(c.stat, C)
  <2> HIDE DEF c
  <2> QED  BY <1>2, VeilFields DEF VeilStat
<1>7. b.stat = d.stat
  BY <1>1, <1>3, <1>4, <1>5, <1>6, VeilStatExcept
<1> HIDE DEF a, b, c, d
<1>8. b = d
  BY <1>2, <1>3, <1>4, <1>5, <1>6, <1>7, SameFields
<1>9. \A u \in C : c.stat[u] = k.stat[u]
  BY <1>1, <1>5
<1>10. QED
  BY <1>2, <1>8, <1>9 DEF a, b, c, d, Unseen

(* the functions in a row *)
LEMMA UnseenThen ==
  ASSUME NEW k, NEW C, NEW r, NEW v, Unseen(k, r, v, C), NEW q, NEW w, Unseen(r, q, w, C)
  PROVE  Unseen(k, q, w, C)
BY DEF Unseen

(* Doing nothing leaves C out of sight. *)
LEMMA UnseenHere ==
  ASSUME NEW k \in KernelState, NEW C
  PROVE  Unseen(k, k, Veil(k, C), C)
BY DEF Unseen

(* rt_schedule_insert_thread of a thread outside C *)
LEMMA VeilInsert ==
  ASSUME NEW k \in KernelState, NEW C, C \subseteq Thread, NEW t \in Thread \ C
  PROVE  Unseen(k, rt_schedule_insert_thread(k, t),
                   rt_schedule_insert_thread(Veil(k, C), t), C)
<1> DEFINE v == Veil(k, C)
<1>0. v.current = k.current /\ v.priority = k.priority /\ v \in KernelState
  BY VeilFields
<1>1. CASE t = k.current
  <2>1. /\ rt_schedule_insert_thread(v, t) = SetStat(v, t, "RUNNING")
        /\ rt_schedule_insert_thread(k, t) = SetStat(k, t, "RUNNING")
    BY <1>0, <1>1 DEF rt_schedule_insert_thread, SetStat
  <2>2. QED
    BY <2>1, VeilSet DEF Stat
<1>2. CASE t # k.current
  <2> DEFINE q == [k EXCEPT !.ready[k.priority[t]] = Append(@, t),
                            !.group = @ \cup {k.priority[t]},
                            !.fault = @ \/ Linked(k, t)]
             w == [v EXCEPT !.ready[k.priority[t]] = Append(@, t),
                            !.group = @ \cup {k.priority[t]},
                            !.fault = @ \/ Linked(k, t)]
  <2>1. Linked(v, t) <=> Linked(k, t)
    BY VeilPlain DEF Linked
  <2>2. w = Veil(q, C)
    BY DEF Veil, KernelState
  <2>3. rt_schedule_insert_thread(k, t) = SetStat(q, t, "READY")
    BY <1>2 DEF rt_schedule_insert_thread, SetStat, KernelState
  <2>4. rt_schedule_insert_thread(v, t) = SetStat(w, t, "READY")
    BY <1>0, <1>2, <2>1 DEF rt_schedule_insert_thread, SetStat, KernelState
  <2>5. q \in KernelState /\ q.stat = k.stat
    <3>1. k.priority[t] \in Priority /\ k.ready[k.priority[t]] \in Seq(Thread)
      BY DEF KernelState
    <3>2. Append(k.ready[k.priority[t]], t) \in Seq(Thread)
      BY <3>1
    <3>3. k.fault \/ Linked(k, t) \in BOOLEAN
      BY DEF Linked
    <3>4. QED
      BY <3>1, <3>2, <3>3 DEF KernelState
  <2>6. Unseen(q, SetStat(q, t, "READY"), SetStat(w, t, "READY"), C)
    <3> HIDE DEF q, w
    <3> QED  BY <2>2, <2>5, VeilSet DEF Stat
  <2>7. QED
    BY <2>3, <2>4, <2>5, <2>6 DEF Unseen
<1>3. QED
  BY <1>1, <1>2

(* rt_schedule looks at ready threads and the current one, none of them in C. *)
LEMMA VeilSchedule ==
  ASSUME NEW k \in KernelState, NEW C, C \subseteq Thread, KernelOK(Veil(k, C)),
         k.current \notin C
  PROVE  Unseen(k, rt_schedule(k), rt_schedule(Veil(k, C)), C)
<1> DEFINE v == Veil(k, C)
<1>0. /\ v \in KernelState
      /\ v.current = k.current /\ v.yield = k.yield /\ v.priority = k.priority
      /\ v.error = k.error /\ v.timer = k.timer /\ v.ready = k.ready
      /\ v.group = k.group /\ v.list = k.list /\ v.lock = k.lock
      /\ v.fault = k.fault
      /\ v.stat = [t \in Thread |-> IF t \in C THEN "CLOSE" ELSE k.stat[t]]
      /\ KernelOK(v) /\ k.current \in Thread /\ v.stat[k.current] = k.stat[k.current]
  <2>1. k.current \in Thread
    BY DEF KernelState
  <2>2. QED
    BY <2>1, VeilFields
<1>1. CASE k.lock > 0 \/ k.group = {}
  <2>1. rt_schedule(k) = k
    BY <1>1 DEF rt_schedule
  <2>2. rt_schedule(v) = v
    <3> HIDE DEF v
    <3> QED  BY <1>0, <1>1 DEF rt_schedule
  <2>3. QED
    BY <2>1, <2>2, UnseenHere
<1>2. CASE ~ (k.lock > 0 \/ k.group = {})
  <2> DEFINE highest == Min(k.group)
             from == k.current
             running == k.stat[from] = "RUNNING"
             to == Head(k.ready[highest])
             cleared(x) == IF running THEN [x EXCEPT !.yield = @ \ {from}] ELSE x
             chosen(x) == [cleared(x) EXCEPT !.current = to]
             queued(x) == IF running THEN rt_schedule_insert_thread(chosen(x), from)
                          ELSE chosen(x)
             removed(x) == rt_schedule_remove_thread(queued(x), to)
  <2>1. k.ready[highest] # <<>> /\ to \in Thread /\ v.stat[to] = "READY"
    BY <1>0, <1>2, HighestReady
  <2>2. to \in Thread \ C /\ from \in Thread \ C
    BY <1>0, <2>1
  <2>3. KeepsRunning(v, highest) <=> KeepsRunning(k, highest)
    BY <1>0 DEF KeepsRunning
  <2>4. rt_schedule(k) = IF KeepsRunning(k, highest)
                         THEN rt_schedule_remove_thread(cleared(k), from)
                         ELSE SetStat(removed(k), to, "RUNNING")
    BY <1>2, <2>1, ZenonT(60) DEF rt_schedule, SetStat
  <2>5. rt_schedule(v) = IF KeepsRunning(k, highest)
                         THEN rt_schedule_remove_thread(cleared(v), from)
                         ELSE SetStat(removed(v), to, "RUNNING")
    <3> HIDE DEF v
    <3> QED  BY <1>0, <1>2, <2>1, <2>3, ZenonT(60) DEF rt_schedule, SetStat
  <2>6. Unseen(k, cleared(k), cleared(v), C)
    <3> DEFINE y == [k EXCEPT !.yield = @ \ {from}]
    <3>1. y \in KernelState /\ y.stat = k.stat /\ [v EXCEPT !.yield = @ \ {from}] = Veil(y, C)
      BY DEF KernelState, Veil
    <3>2. Unseen(k, y, [v EXCEPT !.yield = @ \ {from}], C)
      BY <3>1 DEF Unseen
    <3> HIDE DEF y
    <3>3. QED
      BY <3>2, UnseenHere DEF y
  <2>7. Unseen(cleared(k), chosen(k), chosen(v), C)
    <3> DEFINE w == cleared(k)
    <3>1. w \in KernelState /\ to \in Thread
      BY <2>1, <2>6 DEF Unseen
    <3>2. chosen(k) = [w EXCEPT !.current = to]
          /\ chosen(v) = [Veil(w, C) EXCEPT !.current = to]
      BY <2>6 DEF Unseen
    <3> HIDE DEF w, to, cleared, chosen
    <3>3. /\ [w EXCEPT !.current = to] \in KernelState
          /\ [Veil(w, C) EXCEPT !.current = to] = Veil([w EXCEPT !.current = to], C)
          /\ [w EXCEPT !.current = to].stat = w.stat
      BY <3>1 DEF KernelState, Veil
    <3>4. QED
      BY <3>2, <3>3 DEF w, Unseen
  <2> HIDE DEF v, cleared, chosen, to, from
  <2>8. Unseen(chosen(k), queued(k), queued(v), C)
    BY <2>2, <2>7, VeilInsert, UnseenHere DEF Unseen
  <2> HIDE DEF queued
  <2>9. Unseen(queued(k), removed(k), removed(v), C)
    BY <2>2, <2>8, VeilUnready DEF Unseen
  <2> HIDE DEF removed
  <2>10. Unseen(removed(k), SetStat(removed(k), to, "RUNNING"),
                            SetStat(removed(v), to, "RUNNING"), C)
    BY <2>2, <2>9, VeilSet DEF Stat, Unseen
  <2>11. Unseen(cleared(k), rt_schedule_remove_thread(cleared(k), from),
                            rt_schedule_remove_thread(cleared(v), from), C)
    BY <2>2, <2>6, VeilUnready DEF Unseen
  <2>12. Unseen(k, SetStat(removed(k), to, "RUNNING"), SetStat(removed(v), to, "RUNNING"), C)
    BY <2>6, <2>7, <2>8, <2>9, <2>10, UnseenThen
  <2>13. QED
    BY <2>4, <2>5, <2>6, <2>11, <2>12, UnseenThen DEF v
<1>3. QED
  BY <1>1, <1>2

(* rt_thread_resume of a thread outside C *)
LEMMA VeilResume ==
  ASSUME NEW k \in KernelState, NEW C, C \subseteq Thread, NEW t \in Thread \ C
  PROVE  Unseen(k, rt_thread_resume(k, t), rt_thread_resume(Veil(k, C), t), C)
<1> DEFINE v == Veil(k, C)
           a(x) == rt_list_remove(x, t)
           b(x) == [a(x) EXCEPT !.timer = @ \ {t}]
           c(x) == rt_schedule_insert_thread(b(x), t)
<1>1. v.stat[t] = k.stat[t]
  <2>1. v.stat = [x \in Thread |-> IF x \in C THEN "CLOSE" ELSE k.stat[x]]
    BY VeilFields
  <2>2. QED
    BY <2>1
<1>2. Unseen(k, a(k), a(v), C)
  BY VeilUnready
<1>3. Unseen(a(k), b(k), b(v), C)
  <2> DEFINE w == a(k)
  <2>1. w \in KernelState /\ a(v) = Veil(w, C)
    BY <1>2 DEF Unseen
  <2> HIDE DEF a, v, w
  <2>2. /\ [w EXCEPT !.timer = @ \ {t}] \in KernelState
        /\ [Veil(w, C) EXCEPT !.timer = @ \ {t}] = Veil([w EXCEPT !.timer = @ \ {t}], C)
        /\ [w EXCEPT !.timer = @ \ {t}].stat = w.stat
    BY <2>1 DEF KernelState, Veil
  <2>3. QED
    BY <2>1, <2>2 DEF Unseen, w
<1> HIDE DEF b
<1>4. Unseen(b(k), c(k), c(v), C)
  BY <1>3, VeilInsert DEF Unseen
<1>5. Unseen(k, c(k), c(v), C)
  BY <1>2, <1>3, <1>4, UnseenThen
<1>6. /\ rt_thread_resume(k, t) = IF k.stat[t] # "SUSPEND" THEN k ELSE c(k)
      /\ rt_thread_resume(v, t) = IF k.stat[t] # "SUSPEND" THEN v ELSE c(v)
  BY <1>1 DEF rt_thread_resume, ResumeUnlink, b
<1>7. QED
  BY <1>5, <1>6, UnseenHere

(* rt_thread_suspend of a thread outside C *)
LEMMA VeilSuspend ==
  ASSUME NEW k \in KernelState, NEW C, C \subseteq Thread, NEW t \in Thread \ C
  PROVE  Unseen(k, rt_thread_suspend(k, t), rt_thread_suspend(Veil(k, C), t), C)
<1> DEFINE v == Veil(k, C)
           a(x) == rt_schedule_remove_thread(x, t)
           b(x) == SetStat(a(x), t, "SUSPEND")
           c(x) == [b(x) EXCEPT !.timer = @ \ {t}]
<1>1. v.stat[t] = k.stat[t]
  <2>1. v.stat = [x \in Thread |-> IF x \in C THEN "CLOSE" ELSE k.stat[x]]
    BY VeilFields
  <2>2. QED
    BY <2>1
<1>2. Unseen(k, a(k), a(v), C)
  BY VeilUnready
<1>3. Unseen(a(k), b(k), b(v), C)
  <2> HIDE DEF a
  <2> QED  BY <1>2, VeilSet DEF Unseen, Stat
<1>4. Unseen(b(k), c(k), c(v), C)
  <2> DEFINE w == b(k)
  <2>1. w \in KernelState /\ b(v) = Veil(w, C)
    BY <1>3 DEF Unseen
  <2> HIDE DEF b, v, w
  <2>2. /\ [w EXCEPT !.timer = @ \ {t}] \in KernelState
        /\ [Veil(w, C) EXCEPT !.timer = @ \ {t}] = Veil([w EXCEPT !.timer = @ \ {t}], C)
        /\ [w EXCEPT !.timer = @ \ {t}].stat = w.stat
    BY <2>1 DEF KernelState, Veil
  <2>3. QED
    BY <2>1, <2>2 DEF Unseen, w
<1>5. Unseen(k, c(k), c(v), C)
  BY <1>2, <1>3, <1>4, UnseenThen
<1>6. \A x : c(x) = [a(x) EXCEPT !.stat[t] = "SUSPEND", !.timer = @ \ {t}]
  <2> HIDE DEF a
  <2> QED  BY DEF SetStat
<1>7. /\ rt_thread_suspend(k, t) = IF k.stat[t] \notin {"READY", "RUNNING"} THEN k ELSE c(k)
      /\ rt_thread_suspend(v, t) = IF k.stat[t] \notin {"READY", "RUNNING"} THEN v ELSE c(v)
  <2> HIDE DEF c, v
  <2> QED  BY <1>1, <1>6 DEF rt_thread_suspend
<1>8. QED
  BY <1>5, <1>7, UnseenHere

(* writes of single fields *)
LEMMA VeilWrites ==
  ASSUME NEW k \in KernelState, NEW C, NEW t \in Thread
  PROVE  LET v == Veil(k, C)
         IN  /\ \A e \in Error : Unseen(k, SetError(k, t, e), SetError(v, t, e), C)
             /\ Unseen(k, rt_timer_start(k, t), rt_timer_start(v, t), C)
             /\ Unseen(k, [k EXCEPT !.yield = @ \cup {t}], [v EXCEPT !.yield = @ \cup {t}], C)
             /\ \A n \in Nat : Unseen(k, [k EXCEPT !.lock = n], [v EXCEPT !.lock = n], C)
<1> DEFINE v == Veil(k, C)
<1>1. ASSUME NEW e \in Error PROVE Unseen(k, SetError(k, t, e), SetError(v, t, e), C)
  BY <1>1 DEF SetError, Veil, KernelState, Unseen
<1>2. Unseen(k, rt_timer_start(k, t), rt_timer_start(v, t), C)
  BY DEF rt_timer_start, Veil, KernelState, Unseen
<1>3. Unseen(k, [k EXCEPT !.yield = @ \cup {t}], [v EXCEPT !.yield = @ \cup {t}], C)
  BY DEF Veil, KernelState, Unseen
<1>4. ASSUME NEW n \in Nat PROVE Unseen(k, [k EXCEPT !.lock = n], [v EXCEPT !.lock = n], C)
  BY <1>4 DEF Veil, KernelState, Unseen
<1>5. QED
  BY <1>1, <1>2, <1>3, <1>4

(***************************************************************************)
(* Steps that go on beside a call on another thread.                       *)
(***************************************************************************)
(* A thread that is being deleted is managed, so it does not run, nor sleep. *)
LEMMA ClosingApart ==
  ASSUME IInv, Disciplined
  PROVE  /\ Closing \subseteq Managed \cap Thread
         /\ kern.current \in Thread \ Closing
         /\ Closing \cap Sleeper = {}
         /\ Controller \subseteq Thread /\ Managed \subseteq Thread /\ Sleeper \subseteq Thread
         /\ Managed \cap Controller = {} /\ Idle \notin Managed \cup Controller \cup Sleeper
         /\ kern \in KernelState
<1>1. /\ Controller \subseteq Thread /\ Managed \subseteq Thread /\ Sleeper \subseteq Thread
      /\ Managed \cap Controller = {} /\ Idle \notin Managed \cup Controller \cup Sleeper
  BY ThreadsAssumption
<1>2. kern \in KernelState /\ kern.current \in Thread
  BY DEF IInv, TypeOK, KernelState
<1>3. ASSUME NEW u \in Closing
      PROVE  u \in Managed /\ kern.current # u
  <2>1. PICK c \in Controller : pc[c] \in {"delete", "close"} /\ target[c] = u
    BY DEF Closing
  <2>2. QED
    BY <2>1 DEF IInv, CallsOK, Mid
<1>4. QED
  BY <1>1, <1>2, <1>3 DEF Disciplined

(* what Seen is, field by field *)
LEMMA SeenFields ==
  ASSUME IInv
  PROVE  /\ Seen \in KernelState
         /\ Seen.current = kern.current /\ Seen.priority = kern.priority
         /\ Seen.error = kern.error /\ Seen.timer = kern.timer
         /\ Seen.list = kern.list /\ Seen.lock = kern.lock
         /\ \A t \in Thread : Seen.stat[t] = IF t \in Closing THEN "CLOSE" ELSE kern.stat[t]
<1>1. kern \in KernelState /\ Seen = Veil(kern, Closing)
  BY DEF Seen, IInv, TypeOK
<1>2. Seen.stat = [t \in Thread |-> IF t \in Closing THEN "CLOSE" ELSE kern.stat[t]]
  BY <1>1, VeilFields
<1>3. /\ Seen \in KernelState
      /\ Seen.current = kern.current /\ Seen.priority = kern.priority
      /\ Seen.error = kern.error /\ Seen.timer = kern.timer
      /\ Seen.list = kern.list /\ Seen.lock = kern.lock
  BY <1>1, VeilFields
<1>4. QED
  BY <1>2, <1>3

(* the points a step moves beside a call *)
PointsApart ==
  \A x \in Thread :
    \/ pc'[x] = pc[x]
    \/ /\ x = kern.current /\ pc[x] \notin Mid
       /\ pc'[x] \in {Run, "sched", "sleep", "slept"}

(* Such a step neither begins nor ends a deletion. *)
LEMMA ClosingKept ==
  ASSUME IInv, PointsApart, target' = target
  PROVE  Closing' = Closing
<1>1. Controller \subseteq Thread
  BY ThreadsAssumption
<1>2. \A c \in Controller : pc'[c] \in {"delete", "close"} <=> pc[c] \in {"delete", "close"}
  BY <1>1 DEF PointsApart, Mid, Run
<1>3. QED
  BY <1>2 DEF Closing

(* The state of a thread that such a step may change: it stays alive, and is *)
(* the stepping thread, a sleeper that wakes up, or only changes between     *)
(* READY and RUNNING.                                                        *)
StatesApart(w) ==
  \A x \in Thread :
    \/ w.stat[x] = Seen.stat[x]
    \/ {Seen.stat[x], w.stat[x]} \subseteq {"READY", "RUNNING"}
    \/ /\ {Seen.stat[x], w.stat[x]} \subseteq {"READY", "RUNNING", "SUSPEND"}
       /\ \/ x = kern.current /\ pc[x] \notin Mid
          \/ x \in Sleeper /\ Seen.stat[x] = "SUSPEND"

(* CurrentRuns for the record after the step *)
Runs(w, p) ==
  /\ \/ w.stat[w.current] = "RUNNING"
     \/ w.lock = 0 /\ w.stat[w.current] = "SUSPEND" /\ p \in {"sched", "sleep"}
  /\ w.lock = 0 /\ p \in Mid \cup {Run, "slept"} => MostUrgent(w)

Background(w) ==
  /\ Unseen(kern, kern', w, Closing)
  /\ KernelOK(w)
  /\ UNCHANGED <<allocated, target>>
  /\ pc' \in [Thread -> {Run, "resume", "insert", "suspend", "delete", "close",
                         "sched", "sleep", "slept"}]
  /\ PointsApart
  /\ StatesApart(w)
  /\ w.priority = Seen.priority /\ w.list = Seen.list /\ w.timer \subseteq Sleeper
  /\ Runs(w, pc'[w.current])
  /\ w.current = Seen.current \/ MostUrgent(w)

(* A step beside a call keeps the invariant: it neither changes what a call   *)
(* has found out nor gives a managed thread the processor during the call.    *)
LEMMA BackgroundInv ==
  ASSUME IInv, Disciplined, NEW w, Background(w)
  PROVE  IInv'
<1> USE DEF Background
<1>1. Closing' = Closing /\ kern' \in KernelState /\ w = Veil(kern', Closing)
  BY ClosingKept DEF Unseen
<1>2. Seen' = w
  BY <1>1 DEF Seen
<1>3. /\ kern'.current = w.current /\ kern'.priority = w.priority /\ kern'.timer = w.timer
      /\ kern'.list = w.list /\ kern'.lock = w.lock
      /\ \A t \in Thread : w.stat[t] = IF t \in Closing THEN "CLOSE" ELSE kern'.stat[t]
  <2>1. w.stat = [t \in Thread |-> IF t \in Closing THEN "CLOSE" ELSE kern'.stat[t]]
    BY <1>1, VeilFields
  <2>2. /\ kern'.current = w.current /\ kern'.priority = w.priority /\ kern'.timer = w.timer
        /\ kern'.list = w.list /\ kern'.lock = w.lock
    BY <1>1, VeilPlain
  <2>3. QED
    BY <2>1, <2>2
<1>4. /\ kern'.priority = kern.priority /\ kern'.list = kern.list /\ kern'.timer \subseteq Sleeper
      /\ kern'.current \in Thread
      /\ \A t \in Closing : kern'.stat[t] = kern.stat[t]
  BY <1>1, <1>3, SeenFields DEF Unseen, KernelState
<1>5. \A x \in Thread :
        \/ kern'.stat[x] = kern.stat[x]
        \/ {kern.stat[x], kern'.stat[x]} \subseteq {"READY", "RUNNING"}
        \/ /\ {kern.stat[x], kern'.stat[x]} \subseteq {"READY", "RUNNING", "SUSPEND"}
           /\ \/ x = kern.current /\ pc[x] \notin Mid
              \/ x \in Sleeper /\ kern.stat[x] = "SUSPEND"
  BY <1>3, <1>4, SeenFields DEF StatesApart
<1>6. TypeOK'
  BY <1>1 DEF TypeOK, IInv
<1>7. CurrentRuns'
  BY <1>2, <1>3, <1>4 DEF Runs, CurrentRuns
<1>8. LessUrgent'
  BY <1>4 DEF LessUrgent, IInv
<1>9. DefunctOK'
  BY <1>4, <1>5 DEF DefunctOK, IInv
<1>10. CallsOK'
  <2> SUFFICES ASSUME NEW c \in Controller, pc'[c] \in Mid
               PROVE  /\ target[c] \in Managed \cap allocated
                      /\ kern'.current \notin Managed
                      /\ kern'.stat[c] \in {"READY", "RUNNING"}
                      /\ StillTrue(pc[c], target[c])' /\ pc'[c] = pc[c]
    BY DEF CallsOK
  <2>1. c \in Thread /\ c \notin Managed /\ pc'[c] = pc[c] /\ pc[c] \in Mid
    BY ClosingApart DEF PointsApart, Mid, Run
  <2>2. /\ target[c] \in Managed \cap allocated /\ kern.current \notin Managed
        /\ kern.stat[c] \in {"READY", "RUNNING"} /\ StillTrue(pc[c], target[c])
    BY <2>1 DEF IInv, CallsOK
  <2>3. kern'.stat[c] \in {"READY", "RUNNING"}
    BY <1>5, <2>1, <2>2
  <2>4. kern'.current \notin Managed
    <3>1. CASE w.current = Seen.current
      BY <1>3, <2>2, <3>1, SeenFields
    <3>2. CASE MostUrgent(w) /\ kern'.current # c
      <4>1. c \notin Closing /\ w.stat[c] = kern'.stat[c]
        BY <1>3, <2>1, ClosingApart
      <4>2. kern'.stat[c] = "READY"
        <5>1. w.stat[c] = "RUNNING" => c = w.current
          BY <2>1 DEF KernelOK, CurrentOK
        <5>2. QED
          BY <1>3, <2>3, <3>2, <4>1, <5>1
      <4>3. kern.priority[kern'.current] <= kern.priority[c]
        BY <1>3, <1>4, <2>1, <3>2, <4>1, <4>2 DEF MostUrgent
      <4>4. \A u \in Managed : kern.priority[c] < kern.priority[u]
        BY DEF IInv, LessUrgent
      <4>5. kern.priority[c] \in Int /\ kern.priority[kern'.current] \in Int
        BY <1>4, <2>1, KernelAssumption DEF IInv, TypeOK, KernelState, Priority
      <4>6. QED
        BY <4>3, <4>4, <4>5
    <3>3. CASE kern'.current = c
      BY <2>1, <3>3
    <3>4. QED
      BY <3>1, <3>2, <3>3
  <2>5. StillTrue(pc[c], target[c])'
    <3> DEFINE u == target[c]
    <3>1. u \in Thread /\ u \notin Sleeper /\ u # kern.current /\ u # kern'.current
      BY <2>2, <2>4, ClosingApart DEF Disciplined
    <3>2. \/ kern'.stat[u] = kern.stat[u]
          \/ {kern.stat[u], kern'.stat[u]} \subseteq {"READY", "RUNNING"}
      BY <1>5, <3>1
    <3>3. u \in Closing \/ kern'.stat[u] # "RUNNING"
      <4>1. w.stat[u] = "RUNNING" => u = w.current
        BY <3>1 DEF KernelOK, CurrentOK
      <4>2. QED
        BY <1>3, <3>1, <4>1
    <3>4. pc[c] \in {"resume", "insert"} => kern'.stat[u] = "SUSPEND"
      BY <2>2, <3>2 DEF StillTrue
    <3>5. pc[c] = "suspend" => kern'.stat[u] = "READY"
      <4>1. CASE u \in Closing
        BY <1>4, <2>2, <4>1 DEF StillTrue
      <4>2. CASE u \notin Closing
        BY <2>2, <3>2, <3>3, <4>2 DEF StillTrue
      <4>3. QED
        BY <4>1, <4>2
    <3>6. pc[c] \in {"delete", "close"} =>
            kern'.stat[u] \notin {"CLOSE", "RUNNING"} /\ u \notin ToSet(kern'.list[Defunct])
      <4>1. pc[c] \in {"delete", "close"} => u \in Closing
        BY DEF Closing
      <4>2. QED
        BY <1>4, <2>2, <4>1 DEF StillTrue
    <3>7. QED
      BY <2>1, <3>4, <3>5, <3>6 DEF StillTrue
  <2>6. QED
    BY <2>1, <2>2, <2>3, <2>4, <2>5
<1>11. QED
  BY <1>2, <1>4, <1>6, <1>7, <1>8, <1>9, <1>10 DEF IInv

(* At most the running thread, outside a call, moves its point. *)
LEMMA PointsBeside ==
  ASSUME IInv, NEW t, t = kern.current,
         \/ pc' = pc
         \/ pc[t] \notin Mid /\ \E q \in {Run, "sched", "sleep", "slept"} : pc' = [pc EXCEPT ![t] = q]
  PROVE  /\ pc' \in [Thread -> {Run, "resume", "insert", "suspend", "delete", "close",
                                "sched", "sleep", "slept"}]
         /\ PointsApart
BY DEF IInv, TypeOK, PointsApart

(* the step ends with a call of rt_schedule *)
LEMMA ScheduleBeside ==
  ASSUME IInv, Disciplined, NEW k, NEW w, Unseen(kern, k, w, Closing), KernelOK(w),
         w.current = Seen.current, w.priority = Seen.priority, w.list = Seen.list,
         w.timer \subseteq Sleeper, StatesApart(w),
         w.lock > 0 => w.stat[w.current] = "RUNNING",
         kern' = rt_schedule(k), UNCHANGED <<allocated, target>>,
         pc' \in [Thread -> {Run, "resume", "insert", "suspend", "delete", "close",
                             "sched", "sleep", "slept"}],
         PointsApart
  PROVE  Background(rt_schedule(w))
<1> DEFINE u == rt_schedule(w)
<1>1. /\ k \in KernelState /\ w = Veil(k, Closing) /\ k.current = w.current
      /\ kern.current \notin Closing /\ Closing \subseteq Thread /\ Seen.current = kern.current
      /\ w.lock \in Nat /\ w.stat \in [Thread -> Stat]
  <2>1. k \in KernelState /\ w = Veil(k, Closing)
    BY DEF Unseen
  <2>2. k.current = w.current
    BY <2>1, VeilPlain
  <2>3. QED
    BY <2>1, <2>2, ClosingApart, SeenFields DEF KernelOK, KernelState
<1>2. Unseen(kern, kern', u, Closing)
  <2>1. Unseen(k, rt_schedule(k), u, Closing)
    BY <1>1, VeilSchedule
  <2>2. QED
    BY <2>1, UnseenThen
<1>3. KernelOK(u) /\ Switched(w, u) /\ (w.lock = 0 => MostUrgent(u))
  BY ScheduleLemma
<1>4. w.lock > 0 => u = w
  BY DEF rt_schedule
<1> HIDE DEF u
<1>5. StatesApart(u)
  BY <1>3 DEF StatesApart, Switched
<1>6. Runs(u, pc'[u.current])
  <2>1. CASE w.lock = 0
    BY <1>3, <2>1 DEF Runs, MostUrgent
  <2>2. CASE w.lock > 0
    BY <1>1, <1>4, <2>2 DEF Runs
  <2>3. QED
    BY <1>1, <2>1, <2>2
<1>7. u.current = Seen.current \/ MostUrgent(u)
  BY <1>1, <1>3, <1>4
<1>8. u.priority = Seen.priority /\ u.list = Seen.list /\ u.timer \subseteq Sleeper
  BY <1>3 DEF Switched
<1>9. QED
  BY <1>2, <1>3, <1>5, <1>6, <1>7, <1>8 DEF u, Background

(* the processor's state, through the veil *)
LEMMA SeenRuns ==
  ASSUME IInv, Disciplined
  PROVE  /\ KernelOK(Seen) /\ Unseen(kern, kern, Seen, Closing)
         /\ Seen.stat[Seen.current] = kern.stat[kern.current]
         /\ Seen.lock > 0 => Seen.stat[Seen.current] = "RUNNING"
         /\ Seen.timer \subseteq Sleeper
         /\ kern.current \in Thread \ Closing
         /\ \A t \in Thread \ Closing : Seen.stat[t] = kern.stat[t]
<1>1. kern \in KernelState /\ kern.lock \in Nat
  BY DEF IInv, TypeOK, KernelState
<1>2. QED
  BY <1>1, ClosingApart, SeenFields, UnseenHere DEF IInv, CurrentRuns, Seen

(* rt_schedule at the end of a service or a sleep *)
LEMMA RescheduleStays ==
  ASSUME IInv, Disciplined, NEW t \in Thread,
         Reschedule(t, "sched", Run) \/ Reschedule(t, "sleep", "slept"),
         UNCHANGED <<allocated, target>>
  PROVE  IInv'
<1>1. /\ kern' = rt_schedule(kern) /\ t = kern.current /\ pc[t] \notin Mid
      /\ \E q \in {Run, "sched", "sleep", "slept"} : pc' = [pc EXCEPT ![t] = q]
  BY DEF Reschedule, At, Goto, Mid
<1>2. StatesApart(Seen)
  BY DEF StatesApart
<1>3. Background(rt_schedule(Seen))
  BY <1>1, <1>2, PointsBeside, SeenRuns, ScheduleBeside
<1>4. QED
  BY <1>3, BackgroundInv

(* rt_thread_yield, and the end of a time slice *)
LEMMA YieldStays ==
  ASSUME IInv, Disciplined,
         kern' = rt_schedule([kern EXCEPT !.yield = @ \cup {kern.current}]),
         UNCHANGED <<pc, allocated, target>>
  PROVE  IInv'
<1> DEFINE c == kern.current
           k == [kern EXCEPT !.yield = @ \cup {c}]
           w == [Seen EXCEPT !.yield = @ \cup {c}]
<1>1. kern \in KernelState /\ c \in Thread /\ Seen = Veil(kern, Closing) /\ Seen \in KernelState
  BY SeenFields, ClosingApart DEF Seen
<1>2. Unseen(kern, k, w, Closing)
  BY <1>1, VeilWrites
<1>3. /\ w \in KernelState
      /\ w.current = Seen.current /\ w.stat = Seen.stat /\ w.error = Seen.error
      /\ w.priority = Seen.priority /\ w.timer = Seen.timer /\ w.lock = Seen.lock
      /\ w.ready = Seen.ready /\ w.group = Seen.group /\ w.list = Seen.list
      /\ w.fault = Seen.fault
  BY <1>1 DEF KernelState
<1> HIDE DEF w
<1>4. KernelOK(w)
  <2>1. KernelOK(Seen) /\ \A x \in w.timer : Seen.stat[x] = "SUSPEND"
    BY <1>3 DEF IInv, KernelOK, CurrentOK
  <2>2. QED
    BY <1>3, <2>1, Unlisted
<1>5. StatesApart(w)
  BY <1>3 DEF StatesApart
<1>6. Background(rt_schedule(w))
  BY <1>2, <1>3, <1>4, <1>5, PointsBeside, SeenRuns, ScheduleBeside
<1>7. QED
  BY <1>6, BackgroundInv

(* A timeout is a resume with an error, for a thread that is suspended. *)
LEMMA TimeoutIsResume ==
  ASSUME NEW k \in KernelState, NEW t \in Thread, k.stat[t] = "SUSPEND"
  PROVE  rt_thread_timeout(k, t) =
           rt_schedule(rt_thread_resume(SetError(k, t, "RT_ETIMEOUT"), t))
<1> DEFINE e == SetError(k, t, "RT_ETIMEOUT")
           a == [rt_list_remove(k, t) EXCEPT !.timer = @ \ {t}, !.error[t] = "RT_ETIMEOUT",
                                             !.fault = @ \/ k.stat[t] # "SUSPEND"]
           b == [rt_list_remove(e, t) EXCEPT !.timer = @ \ {t}]
<1>1. e.stat[t] = "SUSPEND"
  BY DEF SetError, KernelState
<1>2. rt_list_remove(k, t) \in KernelState
  BY UnreadyType
<1>3. rt_list_remove(e, t) = SetError(rt_list_remove(k, t), t, "RT_ETIMEOUT")
  BY DEF rt_list_remove, SetError, KernelState
<1>4. a = b
  <2> DEFINE r == rt_list_remove(k, t)
  <2>1. b = [SetError(r, t, "RT_ETIMEOUT") EXCEPT !.timer = @ \ {t}]
    BY <1>3
  <2>2. a = [r EXCEPT !.timer = @ \ {t}, !.error[t] = "RT_ETIMEOUT",
                      !.fault = @ \/ k.stat[t] # "SUSPEND"]
    OBVIOUS
  <2> HIDE DEF a, b, r
  <2>3. r \in KernelState
    BY <1>2 DEF r
  <2>4. QED
    BY <2>1, <2>2, <2>3 DEF SetError, KernelState
<1>5. rt_thread_timeout(k, t) = rt_schedule(rt_schedule_insert_thread(a, t))
  BY DEF rt_thread_timeout
<1>6. rt_thread_resume(e, t) = rt_schedule_insert_thread(b, t)
  BY <1>1 DEF rt_thread_resume, ResumeUnlink
<1>7. QED
  BY <1>4, <1>5, <1>6

(* a timeout: only sleepers have one *)
LEMMA TimerStays ==
  ASSUME IInv, Disciplined, NEW t \in Thread, TimerExpires(t),
         UNCHANGED <<allocated, target>>
  PROVE  IInv'
<1>1. /\ kern' = rt_thread_timeout(kern, t) /\ pc' = pc
      /\ t \in Sleeper /\ t \in Thread \ Closing /\ t \in Seen.timer
  BY ClosingApart, SeenFields DEF TimerExpires, IInv
<1>2. Seen.stat[t] = "SUSPEND" /\ kern.stat[t] = "SUSPEND"
  <2>1. Seen.stat[t] = "SUSPEND"
    BY <1>1 DEF IInv, KernelOK, CurrentOK
  <2>2. QED
    BY <1>1, <2>1, SeenRuns
<1> DEFINE e(x) == SetError(x, t, "RT_ETIMEOUT")
           r(x) == rt_thread_resume(e(x), t)
           w == r(Seen)
<1>3. kern \in KernelState /\ Seen = Veil(kern, Closing) /\ Closing \subseteq Thread
  BY ClosingApart DEF Seen
<1>4. kern' = rt_schedule(r(kern))
  BY <1>1, <1>2, <1>3, TimeoutIsResume
<1>5. Unseen(kern, r(kern), w, Closing)
  <2>1. Unseen(kern, e(kern), e(Seen), Closing)
    BY <1>3, VeilWrites DEF Error
  <2> HIDE DEF e
  <2>2. Unseen(e(kern), r(kern), r(Seen), Closing)
    BY <1>1, <1>3, <2>1, VeilResume DEF Unseen
  <2>3. QED
    BY <2>1, <2>2, UnseenThen
<1>6. /\ KernelOK(e(Seen))
      /\ e(Seen).current = Seen.current /\ e(Seen).stat = Seen.stat
      /\ e(Seen).list = Seen.list /\ e(Seen).priority = Seen.priority
      /\ e(Seen).timer = Seen.timer /\ e(Seen).lock = Seen.lock
  BY <1>1, SeenRuns, ErrorLemma DEF Error
<1> HIDE DEF e
<1>7. /\ KernelOK(w) /\ Unlinked(e(Seen), w, t) /\ w.current = Seen.current
      /\ w.priority = Seen.priority /\ w.lock = Seen.lock
      /\ w.timer = Seen.timer \ {t}
      /\ w.stat = [Seen.stat EXCEPT ![t] = IF t = Seen.current
                                           THEN "RUNNING" ELSE "READY"]
  BY <1>2, <1>6, ResumeLemma
<1>8. /\ w.stat[t] \in {"READY", "RUNNING"} /\ \A x \in Thread \ {t} : w.stat[x] = Seen.stat[x]
      /\ Seen.stat \in [Thread -> Stat]
  BY <1>7, SeenFields DEF KernelState
<1>9. w.list = Seen.list
  <2>1. \A l \in List : t \notin ToSet(Seen.list[l])
    <3>1. \A l \in List : \A x \in ToSet(Seen.list[l]) : Seen.stat[x] = ListedStat(l)
      BY DEF IInv, KernelOK, SuspendListOK
    <3>2. \A l \in List : ListedStat(l) = "CLOSE"
      BY ThreadsAssumption DEF ListedStat, Defunct
    <3>3. QED
      BY <1>2, <3>1, <3>2
  <2>2. \A l \in List : w.list[l] = Seen.list[l]
    <3>1. ASSUME NEW l \in List PROVE RemoveFirst(Seen.list[l], t) = Seen.list[l]
      <4>1. Seen.list[l] \in Seq(Thread)
        BY SeenFields DEF KernelState
      <4>2. ~ Contains(Seen.list[l], t)
        BY <2>1, <4>1, ContainsToSet
      <4>3. QED
        BY <4>1, <4>2, RemoveFirstLemma
    <3>2. QED
      BY <1>6, <1>7, <3>1 DEF Unlinked
  <2>3. w.list \in [List -> Seq(Thread)] /\ Seen.list \in [List -> Seq(Thread)]
    BY <1>7, SeenFields DEF KernelOK, KernelState
  <2>4. QED
    BY <2>2, <2>3
<1> HIDE DEF w
<1>10. StatesApart(w)
  BY <1>1, <1>2, <1>8 DEF StatesApart
<1>11. w.lock > 0 => w.stat[w.current] = "RUNNING"
  BY <1>2, <1>7, <1>8, SeenRuns, ClosingApart, SeenFields
<1>12. Background(rt_schedule(w))
  <2>1. w.timer \subseteq Sleeper
    BY <1>7, SeenRuns
  <2> HIDE DEF r
  <2>2. QED
    BY <1>1, <1>4, <1>5, <1>7, <1>9, <1>10, <1>11, <2>1, PointsBeside, ScheduleBeside
<1>13. QED
  BY <1>12, BackgroundInv

(* A thread outside a call, or back from one, runs. *)
LEMMA StepperHasCpu ==
  ASSUME IInv, Disciplined, NEW t, NEW p, p \notin {"sched", "sleep"}, At(t, p)
  PROVE  /\ t = kern.current /\ pc[t] = p /\ t \in Thread \ Closing
         /\ kern.stat[t] = "RUNNING" /\ HasCpu(Seen, t) /\ HasCpu(kern, t)
         /\ kern.lock = 0 /\ p \in Mid \cup {Run, "slept"} => MostUrgent(Seen)
BY SeenRuns, SeenFields DEF At, IInv, CurrentRuns, HasCpu

(* rt_thread_suspend of the running thread *)
LEMMA SuspendSelfStays ==
  ASSUME IInv, Disciplined, NEW t \in Thread \ {Idle}, SuspendSelf(t)
  PROVE  IInv'
<1> DEFINE w == rt_thread_suspend(Seen, t)
<1>1. /\ At(t, Run) /\ kern.lock = 0 /\ kern' = rt_thread_suspend(kern, t)
      /\ pc' = [pc EXCEPT ![t] = "sched"] /\ UNCHANGED <<allocated, target>>
      /\ Run \notin {"sched", "sleep"} /\ Run \notin Mid
  BY DEF SuspendSelf, Goto, Run, Mid
<1>2. /\ t = kern.current /\ pc[t] = Run /\ t \in Thread \ Closing /\ HasCpu(Seen, t)
  BY <1>1, StepperHasCpu
<1>3. kern \in KernelState /\ Seen = Veil(kern, Closing) /\ Closing \subseteq Thread
  BY ClosingApart DEF Seen
<1>4. Unseen(kern, kern', w, Closing)
  BY <1>1, <1>2, <1>3, VeilSuspend
<1>5. /\ KernelOK(w)
      /\ w.current = Seen.current /\ w.list = Seen.list
      /\ w.priority = Seen.priority /\ w.lock = Seen.lock
      /\ w.timer = Seen.timer \ {t}
      /\ w.stat[t] = "SUSPEND"
      /\ \A x \in Thread \ {t} : w.stat[x] = Seen.stat[x]
  BY <1>2, SeenRuns, SuspendThreadLemma DEF HasCpu
<1> HIDE DEF w
<1>6. StatesApart(w)
  BY <1>1, <1>2, <1>5 DEF StatesApart, HasCpu
<1>7. Runs(w, pc'[w.current])
  <2>1. w.current = t /\ w.lock = 0 /\ pc'[t] = "sched"
    BY <1>1, <1>2, <1>5, SeenFields DEF IInv, TypeOK
  <2>2. QED
    BY <1>5, <2>1 DEF Runs, Mid, Run
<1>8. Background(w)
  BY <1>1, <1>2, <1>4, <1>5, <1>6, <1>7, PointsBeside, SeenRuns DEF Background
<1>9. QED
  BY <1>8, BackgroundInv

(* rt_thread_sleep up to its rt_schedule *)
LEMMA SleepBeginStays ==
  ASSUME IInv, Disciplined, NEW t \in Sleeper, kern.lock = 0, SleepBegin(t),
         UNCHANGED <<allocated, target>>
  PROVE  IInv'
<1> DEFINE v == rt_thread_suspend(Seen, t)
           w == rt_timer_start(v, t)
<1>0. t \in Thread \ {Idle}
  BY ClosingApart
<1>1. /\ At(t, Run) /\ kern' = rt_timer_start(rt_thread_suspend(kern, t), t)
      /\ pc' = [pc EXCEPT ![t] = "sleep"]
      /\ Run \notin {"sched", "sleep"} /\ Run \notin Mid
  BY DEF SleepBegin, Goto, Run, Mid
<1>2. /\ t = kern.current /\ pc[t] = Run /\ t \in Thread \ Closing /\ HasCpu(Seen, t)
  BY <1>1, StepperHasCpu
<1>3. kern \in KernelState /\ Seen = Veil(kern, Closing) /\ Closing \subseteq Thread
  BY ClosingApart DEF Seen
<1>4. Unseen(kern, kern', w, Closing)
  <2>1. Unseen(kern, rt_thread_suspend(kern, t), v, Closing)
    BY <1>2, <1>3, VeilSuspend
  <2> DEFINE k == rt_thread_suspend(kern, t)
  <2>2. Unseen(k, kern', w, Closing)
    <3>1. k \in KernelState /\ v = Veil(k, Closing) /\ kern' = rt_timer_start(k, t)
      BY <1>1, <2>1 DEF Unseen
    <3> HIDE DEF v, k
    <3>2. QED
      BY <1>0, <3>1, VeilWrites
  <2>3. QED
    BY <2>1, <2>2, UnseenThen
<1>5. /\ KernelOK(w)
      /\ w.current = Seen.current /\ w.list = Seen.list
      /\ w.priority = Seen.priority /\ w.lock = Seen.lock
      /\ w.timer = Seen.timer \cup {t}
      /\ w.stat[t] = "SUSPEND"
      /\ \A x \in Thread \ {t} : w.stat[x] = Seen.stat[x]
  BY <1>0, <1>2, SeenRuns, SleepLemma
<1> HIDE DEF w
<1>6. StatesApart(w)
  BY <1>1, <1>2, <1>5 DEF StatesApart, HasCpu
<1>7. Runs(w, pc'[w.current])
  <2>1. w.current = t /\ w.lock = 0 /\ pc'[t] = "sleep"
    BY <1>1, <1>2, <1>5, SeenFields DEF IInv, TypeOK
  <2>2. QED
    BY <1>5, <2>1 DEF Runs, Mid, Run
<1>8. Background(w)
  BY <1>1, <1>2, <1>4, <1>5, <1>6, <1>7, PointsBeside, SeenRuns DEF Background
<1>9. QED
  BY <1>8, BackgroundInv

(* A step that changes neither lists nor states. *)
LEMMA QuietStays ==
  ASSUME IInv, Disciplined, NEW t, NEW p \in {Run, "slept"}, At(t, p),
         NEW w, Unseen(kern, kern', w, Closing), UNCHANGED <<allocated, target>>,
         w \in KernelState, w.current = Seen.current, w.stat = Seen.stat,
         w.priority = Seen.priority, w.timer = Seen.timer,
         w.ready = Seen.ready, w.group = Seen.group, w.list = Seen.list,
         w.fault = Seen.fault,
         NEW q \in {Run, "sched"}, pc' = [pc EXCEPT ![t] = q],
         w.lock = 0 /\ q = Run => Seen.lock = 0
  PROVE  IInv'
<1>1. /\ t = kern.current /\ pc[t] = p /\ t \in Thread /\ HasCpu(Seen, t)
      /\ kern.lock = 0 => MostUrgent(Seen)
      /\ pc[t] \notin Mid
  BY StepperHasCpu DEF Run, Mid
<1>2. KernelOK(w)
  <2>1. KernelOK(Seen) /\ \A x \in w.timer : Seen.stat[x] = "SUSPEND"
    BY DEF IInv, KernelOK, CurrentOK
  <2>2. QED
    BY <2>1, Unlisted
<1>3. StatesApart(w)
  BY DEF StatesApart
<1>4. Runs(w, pc'[w.current])
  <2>1. w.current = t /\ pc'[t] = q /\ w.stat[t] = "RUNNING" /\ Seen.lock = kern.lock
    BY <1>1, SeenFields DEF IInv, TypeOK, HasCpu
  <2>2. q \in Mid \cup {Run, "slept"} => q = Run
    BY DEF Mid
  <2>3. MostUrgent(Seen) => MostUrgent(w)
    BY DEF MostUrgent
  <2>4. QED
    BY <1>1, <2>1, <2>2, <2>3 DEF Runs
<1>5. Background(w)
  BY <1>1, <1>2, <1>3, <1>4, PointsBeside, SeenRuns DEF Background
<1>6. QED
  BY <1>5, BackgroundInv

(* rt_thread_sleep after its rt_schedule *)
LEMMA SleepEndStays ==
  ASSUME IInv, Disciplined, NEW t \in Thread, SleepEnd(t), UNCHANGED <<allocated, target>>
  PROVE  IInv'
<1>1. kern \in KernelState /\ Seen = Veil(kern, Closing) /\ Seen \in KernelState
  BY ClosingApart, SeenFields DEF Seen
<1>2. At(t, "slept") /\ pc' = [pc EXCEPT ![t] = Run]
  BY DEF SleepEnd, Goto
<1>3. CASE kern' = kern
  BY <1>1, <1>2, <1>3, QuietStays, SeenRuns
<1>4. CASE kern' = [kern EXCEPT !.error[t] = "RT_EOK"]
  <2> DEFINE w == SetError(Seen, t, "RT_EOK")
  <2>1. kern' = SetError(kern, t, "RT_EOK") /\ "RT_EOK" \in Error
    BY <1>4 DEF SetError, Error
  <2>2. Unseen(kern, kern', w, Closing)
    BY <1>1, <2>1, VeilWrites
  <2>3. /\ w \in KernelState /\ w.current = Seen.current /\ w.stat = Seen.stat
        /\ w.priority = Seen.priority /\ w.timer = Seen.timer
        /\ w.ready = Seen.ready /\ w.group = Seen.group /\ w.list = Seen.list
        /\ w.fault = Seen.fault /\ w.lock = Seen.lock
    BY <1>1 DEF SetError, KernelState, Error
  <2> HIDE DEF w
  <2>4. QED
    BY <1>2, <2>2, <2>3, QuietStays
<1>5. QED
  BY <1>3, <1>4 DEF SleepEnd

(* rt_enter_critical and rt_exit_critical *)
LEMMA CriticalStays ==
  ASSUME IInv, Disciplined, NEW t \in Thread, EnterCritical(t) \/ ExitCritical(t)
  PROVE  IInv'
<1>1. kern \in KernelState /\ Seen = Veil(kern, Closing) /\ Seen \in KernelState
      /\ Seen.lock = kern.lock /\ kern.lock \in Nat
  BY ClosingApart, SeenFields DEF Seen, KernelState
<1>2. PICK n \in Nat, q \in {Run, "sched"} :
        /\ kern' = [kern EXCEPT !.lock = n] /\ pc' = [pc EXCEPT ![t] = q]
        /\ n = 0 => q = "sched"
  <2>0. At(t, Run) /\ pc = [pc EXCEPT ![t] = Run]
    BY DEF EnterCritical, ExitCritical, At, IInv, TypeOK
  <2>1. CASE EnterCritical(t)
    <3>1. /\ kern' = [kern EXCEPT !.lock = kern.lock + 1] /\ pc' = [pc EXCEPT ![t] = Run]
          /\ kern.lock + 1 \in Nat /\ kern.lock + 1 # 0
      BY <1>1, <2>0, <2>1 DEF EnterCritical, KernelState
    <3>2. QED
      BY <3>1
  <2>2. CASE ExitCritical(t)
    <3>1. /\ kern' = [kern EXCEPT !.lock = kern.lock - 1]
          /\ kern.lock - 1 \in Nat /\ (kern.lock - 1 = 0 <=> kern.lock = 1)
      BY <1>1, <2>2 DEF ExitCritical, KernelState
    <3>2. IF kern.lock = 1 THEN pc' = [pc EXCEPT ![t] = "sched"]
                           ELSE pc' = [pc EXCEPT ![t] = Run]
      BY <2>0, <2>2 DEF ExitCritical, Goto
    <3>3. QED
      BY <3>1, <3>2
  <2>3. QED
    BY <2>1, <2>2
<1> DEFINE w == [Seen EXCEPT !.lock = n]
<1>3. Unseen(kern, kern', w, Closing)
  BY <1>1, <1>2, VeilWrites
<1>4. /\ w \in KernelState /\ w.current = Seen.current /\ w.stat = Seen.stat
      /\ w.priority = Seen.priority /\ w.timer = Seen.timer
      /\ w.ready = Seen.ready /\ w.group = Seen.group /\ w.list = Seen.list
      /\ w.fault = Seen.fault /\ w.lock = n
  BY <1>1 DEF KernelState
<1> HIDE DEF w
<1>5. w.lock = 0 /\ q = Run => Seen.lock = 0
  BY <1>2, <1>4 DEF Run
<1>6. At(t, Run) /\ UNCHANGED <<allocated, target>>
  BY DEF EnterCritical, ExitCritical
<1>7. QED
  BY <1>2, <1>3, <1>4, <1>5, <1>6, QuietStays

(***************************************************************************)
(* Kernel functions that work on another thread than the current one.      *)
(***************************************************************************)
Unlisted1(k, u) ==
  /\ \A p \in Priority : u \notin ToSet(k.ready[p])
  /\ \A l \in List : u \notin ToSet(k.list[l])

(* A thread that is in no list may be left out of sight. *)
LEMMA UnlistedBut ==
  ASSUME NEW k, KernelOK(k), NEW u \in Thread, Unlisted1(k, u)
  PROVE  KernelBut(k, u)
BY DEF KernelOK, KernelBut, Unlisted1, ReadyQueueOK, SuspendListOK, CurrentOK

(* and its record may change as long as it stays out of the lists *)
LEMMA Relabelled ==
  ASSUME NEW k, NEW u \in Thread \ {Idle}, KernelBut(k, u), u # k.current,
         k.stat[k.current] # "READY",
         NEW r \in KernelState, ~ r.fault,
         r.current = k.current, r.ready = k.ready, r.group = k.group, r.list = k.list,
         \A x \in Thread \ {u} :
           r.stat[x] = k.stat[x] /\ r.priority[x] = k.priority[x],
         r.stat[u] \in {"INIT", "SUSPEND", "CLOSE"},
         r.timer \subseteq k.timer \ {u}
  PROVE  KernelOK(r)
<1>1. k \in KernelState /\ k.current \in Thread /\ r.timer \subseteq Thread
  BY DEF KernelBut, KernelState
<1>2. ReadyQueueOK(r)
  <2>1. ASSUME NEW p \in Priority
        PROVE  /\ p \in r.group <=> r.ready[p] # <<>>
               /\ IsInjective(r.ready[p])
               /\ \A t \in ToSet(r.ready[p]) : r.stat[t] = "READY" /\ r.priority[t] = p
    <3>1. \A t \in ToSet(k.ready[p]) : t \in Thread \ {u}
      BY <1>1, ToSetType DEF KernelBut, KernelState
    <3>2. QED
      BY <3>1 DEF KernelBut
  <2>2. \A t \in Thread : r.stat[t] = "READY" => t \in ToSet(r.ready[r.priority[t]])
    BY DEF KernelBut
  <2>3. QED
    BY <2>1, <2>2 DEF ReadyQueueOK
<1>3. SuspendListOK(r)
  <2>1. ASSUME NEW l \in List
        PROVE  \A t \in ToSet(k.list[l]) : t \in Thread \ {u}
    BY <1>1, ToSetType DEF KernelBut, KernelState
  <2>2. QED
    BY <2>1 DEF SuspendListOK, KernelBut
<1>4. CurrentOK(r)
  <2>1. /\ r.stat[r.current] # "READY"
        /\ \A t \in Thread : r.stat[t] = "RUNNING" => t = r.current
        /\ r.stat[Idle] \in {"READY", "RUNNING"}
    BY <1>1, KernelAssumption DEF KernelBut
  <2>2. \A t \in r.timer : r.stat[t] = "SUSPEND"
    BY <1>1 DEF KernelBut
  <2>3. QED
    BY <2>1, <2>2 DEF CurrentOK
<1>5. QED
  BY <1>2, <1>3, <1>4 DEF KernelOK

(* the same with the thread counted as closed *)
LEMMA ClosedBut ==
  ASSUME NEW k, NEW u \in Thread \ {Idle}, KernelBut(k, u), u # k.current,
         k.stat[k.current] # "READY", u \notin k.timer
  PROVE  KernelOK(Veil(k, {u}))
<1> DEFINE C == {u}
           r == Veil(k, C)
<1>1. k \in KernelState /\ ~ k.fault
  BY DEF KernelBut
<1>2. /\ r \in KernelState /\ r.fault = k.fault
      /\ r.current = k.current /\ r.priority = k.priority /\ r.timer = k.timer
      /\ r.ready = k.ready /\ r.group = k.group /\ r.list = k.list
  BY <1>1 DEF Veil, KernelState, Stat
<1>3. r.stat = [t \in Thread |-> IF t \in C THEN "CLOSE" ELSE k.stat[t]]
  <2> HIDE DEF C
  <2> QED  BY <1>1, VeilFields
<1> HIDE DEF r
<1>4. r.stat[u] = "CLOSE" /\ \A x \in Thread \ {u} : r.stat[x] = k.stat[x]
  BY <1>3
<1>5. KernelOK(r)
  BY <1>1, <1>2, <1>4, Relabelled
<1>6. QED
  BY <1>5 DEF r

(* A thread that is in no list is linked into rt_thread_defunct. *)
LEMMA CloseLemma ==
  ASSUME NEW k, NEW u \in Thread \ {Idle}, KernelBut(k, u), u \notin k.timer,
         u # k.current => k.stat[k.current] # "READY"
  PROVE  LET r == Close(k, u)
         IN  /\ KernelOK(r)
             /\ r.current = k.current /\ r.priority = k.priority /\ r.lock = k.lock
             /\ r.timer = k.timer
             /\ ToSet(r.list[Defunct]) = ToSet(k.list[Defunct]) \cup {u}
             /\ r.stat[u] = "CLOSE" /\ \A x \in Thread \ {u} : r.stat[x] = k.stat[x]
<1> DEFINE r == Close(k, u)
           s == InsertAt(k.list[Defunct], 1, u)
<1>1. /\ k \in KernelState /\ ~ k.fault /\ ~ Linked(k, u)
      /\ Defunct \in List /\ List = {Defunct}
      /\ k.list[Defunct] \in Seq(Thread) /\ IsInjective(k.list[Defunct])
      /\ u \notin ToSet(k.list[Defunct])
  <2>1. k \in KernelState /\ ~ k.fault /\ ~ Linked(k, u) /\ List = {Defunct}
    BY NotLinked, ThreadsAssumption DEF KernelBut
  <2>2. QED
    BY <2>1 DEF KernelBut, KernelState
<1>2. /\ s \in Seq(Thread) /\ IsInjective(s)
      /\ ToSet(s) = ToSet(k.list[Defunct]) \cup {u}
  <2>1. Len(k.list[Defunct]) \in Nat
    BY <1>1, LenProperties
  <2>2. 1 \in 1 .. Len(k.list[Defunct]) + 1
    BY <2>1
  <2>3. QED
    BY <1>1, <2>2, InsertAtLemma
<1> HIDE DEF s
<1>3. /\ r \in KernelState /\ ~ r.fault
      /\ r.current = k.current /\ r.priority = k.priority /\ r.lock = k.lock
      /\ r.timer = k.timer /\ r.ready = k.ready /\ r.group = k.group
      /\ r.list[Defunct] = s
      /\ r.stat = [k.stat EXCEPT ![u] = "CLOSE"]
  <2>1. r = [k EXCEPT !.list = [k.list EXCEPT ![Defunct] = s],
                      !.fault = k.fault \/ Linked(k, u),
                      !.stat = [k.stat EXCEPT ![u] = "CLOSE"]]
    BY <1>1 DEF Close, ListInsert, KernelState, s
  <2>2. /\ [k.list EXCEPT ![Defunct] = s] \in [List -> Seq(Thread)]
        /\ [k.list EXCEPT ![Defunct] = s][Defunct] = s
        /\ [k.stat EXCEPT ![u] = "CLOSE"] \in [Thread -> Stat]
    BY <1>1, <1>2 DEF KernelState, Stat
  <2> HIDE DEF r
  <2>3. QED
    BY <1>1, <2>1, <2>2 DEF KernelState
<1> HIDE DEF r
<1>4. r.stat[u] = "CLOSE" /\ \A x \in Thread \ {u} : r.stat[x] = k.stat[x]
  BY <1>1, <1>3 DEF KernelState
<1>5. ReadyQueueOK(r)
  <2>1. ASSUME NEW p \in Priority
        PROVE  \A t \in ToSet(k.ready[p]) : t \in Thread \ {u}
    BY <1>1, ToSetType DEF KernelBut, KernelState
  <2>2. QED
    BY <1>3, <1>4, <2>1 DEF KernelBut, ReadyQueueOK
<1>6. SuspendListOK(r)
  <2>1. \A t \in ToSet(k.list[Defunct]) : t \in Thread \ {u} /\ k.stat[t] = "CLOSE"
    <3>1. ListedStat(Defunct) = "CLOSE"
      BY DEF ListedStat, Defunct
    <3>2. QED
      BY <1>1, <3>1, ToSetType DEF KernelBut
  <2>2. \A t \in ToSet(r.list[Defunct]) : r.stat[t] = ListedStat(Defunct)
    BY <1>2, <1>3, <1>4, <2>1 DEF ListedStat, Defunct
  <2>3. QED
    BY <1>1, <1>2, <1>3, <2>2 DEF SuspendListOK
<1>7. CurrentOK(r)
  <2>1. k.current \in Thread /\ k.timer \subseteq Thread
    BY <1>1 DEF KernelState
  <2>2. r.stat[r.current] # "READY"
    BY <1>3, <1>4, <2>1
  <2>3. QED
    BY <1>3, <1>4, <2>1, <2>2, KernelAssumption DEF CurrentOK, KernelBut
<1>8. KernelOK(r)
  BY <1>3, <1>5, <1>6, <1>7 DEF KernelOK
<1>9. QED
  BY <1>2, <1>3, <1>4, <1>8 DEF r

(***************************************************************************)
(* The steps of a controller's calls.                                      *)
(***************************************************************************)
(* With no thread counted as closed nothing changes. *)
LEMMA VeilNone ==
  ASSUME NEW k \in KernelState
  PROVE  Veil(k, {}) = k
<1>1. Veil(k, {}) = [k EXCEPT !.stat = k.stat]
  BY DEF Veil, KernelState
<1>2. QED
  BY <1>1 DEF KernelState

(* a controller at work, which is the only one *)
LEMMA CallStart ==
  ASSUME IInv, Disciplined, NEW t \in Controller, NEW p \in Mid \cup {Run}, At(t, p)
  PROVE  /\ kern \in KernelState /\ t \in Thread /\ t \notin Managed
         /\ t = kern.current /\ pc[t] = p /\ kern.stat[t] = "RUNNING"
         /\ Controller = {t}
         /\ Closing = IF p \in {"delete", "close"} THEN {target[t]} ELSE {}
         /\ KernelOK(Seen)
         /\ kern.lock = 0 => MostUrgent(Seen)
         /\ p \in Mid => target[t] \in Managed \cap allocated /\ StillTrue(p, target[t])
         /\ p \notin {"delete", "close"} => Seen = kern
<1>1. Controller = {t}
  BY DEF Disciplined
<1>2. /\ t = kern.current /\ pc[t] = p /\ kern.stat[t] = "RUNNING" /\ t \in Thread
      /\ kern.lock = 0 => MostUrgent(Seen)
  BY StepperHasCpu DEF Mid, Run
<1>3. Closing = IF p \in {"delete", "close"} THEN {target[t]} ELSE {}
  <2>1. {c \in Controller : pc[c] \in {"delete", "close"}} =
          IF p \in {"delete", "close"} THEN {t} ELSE {}
    BY <1>1, <1>2
  <2>2. QED
    BY <2>1 DEF Closing
<1>4. p \in Mid => target[t] \in Managed \cap allocated /\ StillTrue(p, target[t])
  BY <1>2 DEF IInv, CallsOK
<1>5. p \notin {"delete", "close"} => Seen = kern
  BY <1>3, VeilNone, ClosingApart DEF Seen
<1>6. QED
  BY <1>1, <1>2, <1>3, <1>4, <1>5, ClosingApart DEF IInv

(* A step of t's call on u, from point p to point q, works on u only. *)
CallStep(t, u, p, q) ==
  /\ p \in Mid \cup {Run} /\ At(t, p) /\ (p \in Mid => target[t] = u)
  /\ q \in Mid \cup {Run, "sched"}
  /\ \/ pc' = [pc EXCEPT ![t] = q]
     \/ q = p /\ p = Run /\ pc' = [pc EXCEPT ![u] = Run]
  /\ target' \in {target, [target EXCEPT ![t] = u]} /\ (q \in Mid => target'[t] = u)
  /\ kern' \in KernelState /\ kern'.current = kern.current /\ kern'.lock = kern.lock
  /\ kern'.timer \subseteq Sleeper /\ allocated' \subseteq Thread
  /\ \A x \in Thread \ {u} :
       /\ kern'.stat[x] = kern.stat[x] /\ kern'.priority[x] = kern.priority[x]
       /\ x \in allocated' <=> x \in allocated
       /\ x \in ToSet(kern'.list[Defunct]) <=> x \in ToSet(kern.list[Defunct])
  /\ InitPriority[t] < kern'.priority[u]
  /\ q \in {"delete", "close"} => KernelOK(Veil(kern', {u}))
  /\ q \notin {"delete", "close"} => KernelOK(kern')
  /\ u \in ToSet(kern'.list[Defunct]) <=> u \in allocated' /\ kern'.stat[u] = "CLOSE"
  /\ u \notin allocated' => kern'.stat[u] \in {"INIT", "CLOSE"}
  /\ q \in Mid => u \in allocated' /\ StillTrue(q, u)'

(* Such a step keeps the invariant. *)
LEMMA CallStays ==
  ASSUME IInv, Disciplined, NEW t \in Controller, NEW u \in Managed, NEW p, NEW q,
         CallStep(t, u, p, q)
  PROVE  IInv'
<1> USE DEF CallStep
<1>1. /\ kern \in KernelState /\ t \in Thread /\ t \notin Managed
      /\ t = kern.current /\ pc[t] = p /\ kern.stat[t] = "RUNNING"
      /\ Controller = {t}
      /\ Closing = IF p \in {"delete", "close"} THEN {target[t]} ELSE {}
      /\ kern.lock = 0 => MostUrgent(Seen)
  BY CallStart
<1>2. u \in Thread /\ u # t /\ Managed \subseteq Thread
  BY <1>1, ClosingApart
<1>3. TypeOK'
  BY <1>1, <1>2 DEF TypeOK, IInv, Mid
<1>4. pc'[t] = q /\ pc'[kern'.current] = q
  BY <1>1, <1>2 DEF IInv, TypeOK
<1>5. Closing' = IF q \in {"delete", "close"} THEN {u} ELSE {}
  BY <1>1, <1>4 DEF Closing, Mid
<1>6. Seen' = IF q \in {"delete", "close"} THEN Veil(kern', {u}) ELSE kern'
  BY <1>5, VeilNone DEF Seen
<1>7. \A x \in Thread \ {u} : Seen.stat[x] = kern.stat[x]
  <2>1. Closing \subseteq {u}
    BY <1>1 DEF Mid
  <2>2. QED
    BY <2>1, SeenFields
<1>8. \A x \in Thread \ {u} : Seen'.stat[x] = kern'.stat[x]
  <2> DEFINE v == Veil(kern', {u})
  <2>1. v.stat = [x \in Thread |-> IF x \in {u} THEN "CLOSE" ELSE kern'.stat[x]]
    BY VeilFields
  <2>2. QED
    BY <1>6, <2>1
<1>9. /\ Seen'.current = t /\ Seen'.priority = kern'.priority
      /\ Seen.current = t /\ Seen.priority = kern.priority
  <2>1. Seen'.current = kern'.current /\ Seen'.priority = kern'.priority
    BY <1>6, VeilPlain
  <2>2. QED
    BY <1>1, <2>1, SeenFields
<1>10. kern.lock = 0 => MostUrgent(Seen')
  <2> SUFFICES ASSUME kern.lock = 0
               PROVE  /\ kern'.stat[t] = "RUNNING"
                      /\ \A x \in Thread : Seen'.stat[x] = "READY" =>
                           kern'.priority[t] <= kern'.priority[x]
    BY <1>1, <1>2, <1>8, <1>9 DEF MostUrgent
  <2>1. \A x \in Thread \ {u} : kern.stat[x] = "READY" => kern.priority[t] <= kern.priority[x]
    BY <1>1, <1>7, <1>9 DEF MostUrgent
  <2>2. kern.priority[t] = InitPriority[t] /\ kern'.priority[t] = kern.priority[t]
    BY <1>1, <1>2 DEF IInv, LessUrgent
  <2>3. InitPriority[t] \in Int /\ kern'.priority[u] \in Int
    BY <1>1, <1>2, KernelAssumption DEF KernelState, Priority
  <2>4. kern'.priority[t] <= kern'.priority[u]
    BY <2>2, <2>3
  <2>5. QED
    BY <1>1, <1>2, <1>8, <2>1, <2>4
<1>11. CurrentRuns'
  BY <1>1, <1>2, <1>10 DEF CurrentRuns
<1>12. CallsOK'
  BY <1>1, <1>2, <1>4 DEF CallsOK
<1>13. LessUrgent'
  BY <1>1, <1>2 DEF LessUrgent, IInv
<1>14. DefunctOK'
  BY <1>2 DEF DefunctOK, IInv
<1>15. QED
  BY <1>3, <1>6, <1>11, <1>12, <1>13, <1>14 DEF IInv

(* the thread a call is about *)
LEMMA ManagedThread ==
  ASSUME IInv, Disciplined, NEW t \in Controller, NEW p \in Mid \cup {Run}, At(t, p),
         NEW u \in Managed
  PROVE  /\ u \in Thread \ {Idle} /\ u # t /\ u # kern.current /\ u \notin kern.timer
         /\ kern.stat[u] # "RUNNING" /\ kern.stat[u] \in Stat
         /\ InitPriority[t] < kern.priority[u]
         /\ u \in ToSet(kern.list[Defunct]) <=> u \in allocated /\ kern.stat[u] = "CLOSE"
         /\ u \notin allocated => kern.stat[u] \in {"INIT", "CLOSE"}
         /\ kern.timer \subseteq Sleeper /\ allocated \subseteq Thread
<1>1. /\ kern \in KernelState /\ t = kern.current /\ t \notin Managed
      /\ KernelOK(Seen)
      /\ Closing = IF p \in {"delete", "close"} THEN {target[t]} ELSE {}
  BY CallStart
<1>2. u \in Thread \ {Idle} /\ u # t
  BY <1>1, ClosingApart
<1>3. u \notin kern.timer /\ kern.timer \subseteq Sleeper
  BY DEF IInv, Disciplined
<1>4. kern.stat[u] # "RUNNING"
  <2>1. CASE u \in Closing
    <3>1. p \in Mid /\ u = target[t] /\ p \in {"delete", "close"}
      BY <1>1, <2>1 DEF Mid
    <3>2. StillTrue(p, u)
      BY <3>1, CallStart
    <3>3. QED
      BY <3>1, <3>2 DEF StillTrue
  <2>2. CASE u \notin Closing
    <3>1. Seen.stat[u] = kern.stat[u] /\ Seen.current = t
      BY <1>1, <1>2, <2>2, SeenFields
    <3>2. QED
      BY <1>1, <1>2, <3>1 DEF KernelOK, CurrentOK
  <2>3. QED
    BY <2>1, <2>2
<1>5. kern.stat[u] \in Stat
  BY <1>1, <1>2 DEF KernelState
<1>6. QED
  BY <1>1, <1>2, <1>3, <1>4, <1>5 DEF IInv, LessUrgent, DefunctOK, TypeOK

(* A thread that is neither ready nor waits for the idle thread is in no list. *)
LEMMA InNoList ==
  ASSUME NEW k, KernelOK(k), NEW u \in Thread, k.stat[u] # "READY",
         u \notin ToSet(k.list[Defunct])
  PROVE  Unlisted1(k, u) /\ KernelBut(k, u)
<1>1. Unlisted1(k, u)
  BY ThreadsAssumption DEF KernelOK, ReadyQueueOK, Unlisted1
<1>2. QED
  BY <1>1, UnlistedBut

(* the record a call works on when nothing is being deleted *)
LEMMA PlainStart ==
  ASSUME IInv, Disciplined, NEW t \in Controller,
         NEW p \in {Run, "resume", "insert", "suspend"}, At(t, p)
  PROVE  /\ p \in Mid \cup {Run}
         /\ kern \in KernelState /\ KernelOK(kern) /\ kern.stat[kern.current] = "RUNNING"
BY CallStart DEF Mid, Run

(* rt_thread_create: the thread is in no list yet. *)
LEMMA CreateStays ==
  ASSUME IInv, Disciplined, NEW t \in Controller, NEW u \in Managed, Create(t, u)
  PROVE  IInv'
<1>1. /\ At(t, Run) /\ u \notin allocated /\ allocated' = allocated \cup {u}
      /\ pc' = [pc EXCEPT ![u] = Run] /\ target' = target
      /\ Run \in {Run, "resume", "insert", "suspend"} /\ Run \notin Mid
  BY DEF Create, Mid, Run
<1>2. /\ kern \in KernelState /\ KernelOK(kern) /\ Run \in Mid \cup {Run}
      /\ kern.stat[kern.current] = "RUNNING"
  BY <1>1, PlainStart
<1>3. /\ u \in Thread \ {Idle} /\ u # kern.current /\ u \notin kern.timer
      /\ kern.stat[u] \in {"INIT", "CLOSE"} /\ u \notin ToSet(kern.list[Defunct])
      /\ kern.timer \subseteq Sleeper /\ allocated \subseteq Thread
  BY <1>1, <1>2, ManagedThread
<1>4. /\ kern' \in KernelState /\ kern'.fault = kern.fault
      /\ kern'.current = kern.current /\ kern'.lock = kern.lock /\ kern'.timer = kern.timer
      /\ kern'.ready = kern.ready /\ kern'.group = kern.group /\ kern'.list = kern.list
      /\ kern'.stat = [kern.stat EXCEPT ![u] = "INIT"]
      /\ kern'.priority = [kern.priority EXCEPT ![u] = InitPriority[u]]
  <2>1. InitPriority[u] \in Priority
    BY <1>3, KernelAssumption
  <2>2. /\ [kern.stat EXCEPT ![u] = "INIT"] \in [Thread -> Stat]
        /\ [kern.priority EXCEPT ![u] = InitPriority[u]] \in [Thread -> Priority]
        /\ [kern.error EXCEPT ![u] = "RT_EOK"] \in [Thread -> Error]
        /\ kern.yield \ {u} \in SUBSET Thread
    BY <1>2, <2>1 DEF KernelState, Stat, Error
  <2>3. kern' = [kern EXCEPT !.stat = [kern.stat EXCEPT ![u] = "INIT"],
                             !.priority = [kern.priority EXCEPT ![u] = InitPriority[u]],
                             !.error = [kern.error EXCEPT ![u] = "RT_EOK"],
                             !.yield = kern.yield \ {u}]
    BY <1>2 DEF Create
  <2>4. QED
    BY <1>2, <2>2, <2>3 DEF KernelState
<1>5. /\ kern'.stat[u] = "INIT" /\ kern'.priority[u] = InitPriority[u]
      /\ \A x \in Thread \ {u} :
           kern'.stat[x] = kern.stat[x] /\ kern'.priority[x] = kern.priority[x]
  BY <1>2, <1>3, <1>4 DEF KernelState
<1>6. KernelBut(kern, u)
  BY <1>2, <1>3, InNoList
<1>7. KernelOK(kern')
  <2>1. /\ ~ kern'.fault /\ kern'.timer \subseteq kern.timer \ {u}
        /\ kern'.stat[u] \in {"INIT", "SUSPEND", "CLOSE"}
        /\ kern.stat[kern.current] # "READY"
    BY <1>2, <1>3, <1>4, <1>5 DEF KernelOK
  <2>2. /\ kern' \in KernelState /\ kern'.current = kern.current
        /\ kern'.ready = kern.ready /\ kern'.group = kern.group /\ kern'.list = kern.list
    BY <1>4
  <2>3. QED
    BY <1>3, <1>5, <1>6, <2>1, <2>2, Relabelled
<1>8. InitPriority[t] < kern'.priority[u]
  BY <1>5 DEF Disciplined
<1>9. QED
  <2>1. CallStep(t, u, Run, Run)
    BY <1>1, <1>3, <1>4, <1>5, <1>7, <1>8 DEF CallStep, Run
  <2>2. QED
    BY <2>1, CallStays

(* rt_thread_startup: the thread is in no list yet, so its state may change. *)
LEMMA StartupStays ==
  ASSUME IInv, Disciplined, NEW t \in Controller, NEW u \in Managed, Startup(t, u)
  PROVE  IInv'
<1>1. /\ At(t, Run) /\ u \in allocated /\ kern.stat[u] = "INIT" /\ allocated' = allocated
      /\ pc' = [pc EXCEPT ![t] = "resume"] /\ target' = [target EXCEPT ![t] = u]
      /\ Run \in {Run, "resume", "insert", "suspend"} /\ Run \notin Mid
      /\ "resume" \in Mid \ {"delete", "close"}
  BY DEF Startup, Enter, Goto, Mid, Run
<1>2. /\ kern \in KernelState /\ KernelOK(kern) /\ Run \in Mid \cup {Run}
      /\ kern.stat[kern.current] = "RUNNING"
  BY <1>1, PlainStart
<1>3. /\ u \in Thread \ {Idle} /\ u # kern.current /\ u \notin kern.timer
      /\ u \notin ToSet(kern.list[Defunct])
      /\ kern.timer \subseteq Sleeper /\ allocated \subseteq Thread
  BY <1>1, <1>2, ManagedThread
<1>4. /\ kern' \in KernelState /\ kern'.fault = kern.fault
      /\ kern'.current = kern.current /\ kern'.lock = kern.lock /\ kern'.timer = kern.timer
      /\ kern'.ready = kern.ready /\ kern'.group = kern.group /\ kern'.list = kern.list
      /\ kern'.stat = [kern.stat EXCEPT ![u] = "SUSPEND"]
      /\ kern'.priority = [kern.priority EXCEPT ![u] = InitPriority[u]]
  <2>1. InitPriority[u] \in Priority
    BY <1>3, KernelAssumption
  <2>2. /\ [kern.stat EXCEPT ![u] = "SUSPEND"] \in [Thread -> Stat]
        /\ [kern.priority EXCEPT ![u] = InitPriority[u]] \in [Thread -> Priority]
    BY <1>2, <2>1 DEF KernelState, Stat
  <2>3. kern' = [kern EXCEPT !.stat = [kern.stat EXCEPT ![u] = "SUSPEND"],
                             !.priority = [kern.priority EXCEPT ![u] = InitPriority[u]]]
    BY <1>2 DEF Startup
  <2>4. QED
    BY <1>2, <2>2, <2>3 DEF KernelState
<1>5. /\ kern'.stat[u] = "SUSPEND" /\ kern'.priority[u] = InitPriority[u]
      /\ \A x \in Thread \ {u} :
           kern'.stat[x] = kern.stat[x] /\ kern'.priority[x] = kern.priority[x]
  BY <1>2, <1>3, <1>4 DEF KernelState
<1>6. KernelBut(kern, u)
  BY <1>1, <1>2, <1>3, InNoList
<1>7. KernelOK(kern')
  <2>1. /\ ~ kern'.fault /\ kern'.timer \subseteq kern.timer \ {u}
        /\ kern'.stat[u] \in {"INIT", "SUSPEND", "CLOSE"}
        /\ kern.stat[kern.current] # "READY"
    BY <1>2, <1>3, <1>4, <1>5 DEF KernelOK
  <2>2. /\ kern' \in KernelState /\ kern'.current = kern.current
        /\ kern'.ready = kern.ready /\ kern'.group = kern.group /\ kern'.list = kern.list
    BY <1>4
  <2>3. QED
    BY <1>3, <1>5, <1>6, <2>1, <2>2, Relabelled
<1>8. InitPriority[t] < kern'.priority[u]
  BY <1>5 DEF Disciplined
<1>9. target'[t] = u /\ StillTrue("resume", u)'
  BY <1>1, <1>5 DEF StillTrue, IInv, TypeOK
<1>10. QED
  <2>1. /\ kern' \in KernelState /\ kern'.current = kern.current
        /\ kern'.lock = kern.lock /\ kern'.timer \subseteq Sleeper
        /\ \A x \in Thread \ {u} :
             x \in ToSet(kern'.list[Defunct]) <=> x \in ToSet(kern.list[Defunct])
        /\ u \notin ToSet(kern'.list[Defunct]) /\ kern'.stat[u] # "CLOSE"
    BY <1>3, <1>4, <1>5
  <2>2. Run \in Mid \cup {Run} /\ allocated \subseteq Thread
    BY <1>2, <1>3
  <2>3. CallStep(t, u, Run, "resume")
    BY <1>1, <1>5, <1>7, <1>8, <1>9, <2>1, <2>2 DEF CallStep
  <2>4. QED
    BY <2>3, CallStays

(* what rt_thread_resume and rt_thread_suspend do with interrupts enabled: *)
(* they only look at the state                                             *)
LEMMA LookStays ==
  ASSUME IInv, Disciplined, NEW t \in Controller, NEW u \in Managed,
         Resume(t, u) \/ Suspend(t, u)
  PROVE  IInv'
<1>1. PICK q \in {"resume", "suspend"} :
        /\ At(t, Run) /\ u \in allocated /\ UNCHANGED <<kern, allocated>>
        /\ pc' = [pc EXCEPT ![t] = q] /\ target' = [target EXCEPT ![t] = u]
        /\ StillTrue(q, u)
  BY DEF Resume, Suspend, Enter, Goto, StillTrue
<1>2. /\ Run \in {Run, "resume", "insert", "suspend"} /\ Run \notin Mid
      /\ q \in Mid \ {"delete", "close"}
  BY DEF Mid, Run
<1>3. kern \in KernelState /\ KernelOK(kern) /\ Run \in Mid \cup {Run}
  BY <1>1, <1>2, PlainStart
<1>4. /\ kern.timer \subseteq Sleeper /\ allocated \subseteq Thread
      /\ InitPriority[t] < kern.priority[u]
      /\ u \in ToSet(kern.list[Defunct]) <=> u \in allocated /\ kern.stat[u] = "CLOSE"
      /\ u \notin allocated => kern.stat[u] \in {"INIT", "CLOSE"}
  BY <1>1, <1>3, ManagedThread
<1>5. target'[t] = u /\ StillTrue(q, u)'
  BY <1>1 DEF StillTrue, IInv, TypeOK
<1>6. QED
  <2>1. CallStep(t, u, Run, q)
    BY <1>1, <1>2, <1>3, <1>4, <1>5 DEF CallStep
  <2>2. QED
    BY <1>2, <2>1, CallStays

(* rt_thread_resume takes the thread out of its list, ... *)
LEMMA ResumeFirstStays ==
  ASSUME IInv, Disciplined, NEW t \in Controller, ResumeFirst(t)
  PROVE  IInv'
<1> DEFINE u == target[t]
           v == rt_list_remove(kern, u)
<1>1. /\ At(t, "resume") /\ allocated' = allocated /\ target' = target
      /\ kern' = [v EXCEPT !.timer = @ \ {u}] /\ pc' = [pc EXCEPT ![t] = "insert"]
      /\ "resume" \in {Run, "resume", "insert", "suspend"} /\ "resume" \in Mid
      /\ "insert" \in Mid \ {"delete", "close"}
  BY DEF ResumeFirst, ResumeUnlink, Goto, Mid
<1>2. /\ kern \in KernelState /\ KernelOK(kern) /\ "resume" \in Mid \cup {Run}
      /\ kern.stat[kern.current] = "RUNNING"
      /\ u \in Managed \cap allocated /\ kern.stat[u] = "SUSPEND"
  BY <1>1, PlainStart, CallStart DEF StillTrue
<1>3. /\ u \in Thread \ {Idle} /\ u # kern.current /\ u \notin kern.timer
      /\ InitPriority[t] < kern.priority[u]
      /\ u \notin ToSet(kern.list[Defunct])
      /\ kern.timer \subseteq Sleeper /\ allocated \subseteq Thread
  BY <1>1, <1>2, ManagedThread
<1> HIDE DEF u
<1>4. /\ KernelBut(v, u) /\ v = [kern EXCEPT !.list = v.list]
      /\ \A l \in List : ToSet(v.list[l]) = ToSet(kern.list[l]) \ {u}
  BY <1>2, <1>3, IsolateSuspended, KernelOKLoose
<1>5. /\ v \in KernelState /\ ~ v.fault /\ v.current = kern.current /\ v.lock = kern.lock
      /\ v.timer = kern.timer /\ v.ready = kern.ready /\ v.group = kern.group
      /\ v.stat = kern.stat /\ v.priority = kern.priority
  <2> HIDE DEF v
  <2> QED  BY <1>2, <1>4 DEF KernelBut, KernelState
<1> HIDE DEF v
<1>6. /\ kern' \in KernelState /\ ~ kern'.fault
      /\ kern'.current = kern.current /\ kern'.lock = kern.lock
      /\ kern'.timer = kern.timer \ {u}
      /\ kern'.ready = v.ready /\ kern'.group = v.group /\ kern'.list = v.list
      /\ kern'.stat = kern.stat /\ kern'.priority = kern.priority
  BY <1>1, <1>5 DEF KernelState
<1>7. KernelOK(kern')
  <2>1. /\ v.stat[v.current] # "READY" /\ u # v.current
        /\ kern'.stat[u] \in {"INIT", "SUSPEND", "CLOSE"}
    BY <1>2, <1>3, <1>5, <1>6
  <2>2. QED
    BY <1>3, <1>4, <1>5, <1>6, <2>1, Relabelled
<1>8. ToSet(kern'.list[Defunct]) = ToSet(kern.list[Defunct]) \ {u}
  BY <1>4, <1>6, ThreadsAssumption
<1>9. StillTrue("insert", u)'
  <2>1. kern'.stat[target'[t]] = "SUSPEND"
    BY <1>1, <1>2, <1>6 DEF u
  <2>2. QED
    BY <2>1, <1>1 DEF StillTrue, u
<1>10. QED
  <2>1. CallStep(t, u, "resume", "insert")
    BY <1>1, <1>2, <1>3, <1>6, <1>7, <1>8, <1>9 DEF CallStep, u
  <2>2. QED
    BY <1>2, <2>1, CallStays

(* ... and links it into its ready queue. *)
LEMMA ResumeInsertStays ==
  ASSUME IInv, Disciplined, NEW t \in Controller, ResumeInsert(t)
  PROVE  IInv'
<1> DEFINE u == target[t]
           v == rt_schedule_insert_thread(kern, u)
<1>1. /\ At(t, "insert") /\ allocated' = allocated /\ target' = target
      /\ kern' = v /\ pc' = [pc EXCEPT ![t] = "sched"]
      /\ "insert" \in {Run, "resume", "insert", "suspend"} /\ "insert" \in Mid
      /\ "sched" \notin Mid
  BY DEF ResumeInsert, Goto, Mid
<1>2. /\ kern \in KernelState /\ KernelOK(kern) /\ "insert" \in Mid \cup {Run}
      /\ kern.stat[kern.current] = "RUNNING"
      /\ u \in Managed \cap allocated /\ kern.stat[u] = "SUSPEND"
  BY <1>1, PlainStart, CallStart DEF StillTrue
<1>3. /\ u \in Thread \ {Idle} /\ u # kern.current /\ u \notin kern.timer
      /\ InitPriority[t] < kern.priority[u]
      /\ u \notin ToSet(kern.list[Defunct])
      /\ kern.timer \subseteq Sleeper /\ allocated \subseteq Thread
  BY <1>1, <1>2, ManagedThread
<1> HIDE DEF u
<1>4. KernelBut(kern, u)
  BY <1>2, <1>3, InNoList
<1>5. /\ Loose(v)
      /\ v = [kern EXCEPT !.stat = v.stat, !.ready = v.ready, !.group = v.group]
      /\ v.stat = [kern.stat EXCEPT ![u] = "READY"]
  BY <1>3, <1>4, InsertThread
<1> HIDE DEF v
<1>6. /\ v \in KernelState /\ v.current = kern.current /\ v.lock = kern.lock
      /\ v.timer = kern.timer /\ v.priority = kern.priority /\ v.list = kern.list
      /\ v.stat[u] = "READY" /\ \A x \in Thread \ {u} : v.stat[x] = kern.stat[x]
  <2>1. /\ v \in KernelState /\ v.current = kern.current /\ v.lock = kern.lock
        /\ v.timer = kern.timer /\ v.priority = kern.priority /\ v.list = kern.list
    BY <1>2, <1>5 DEF Loose, KernelState
  <2>2. v.stat[u] = "READY" /\ \A x \in Thread \ {u} : v.stat[x] = kern.stat[x]
    BY <1>2, <1>3, <1>5 DEF KernelState
  <2>3. QED
    BY <2>1, <2>2
<1>7. KernelOK(v)
  <2>1. v.stat[v.current] # "READY"
    BY <1>2, <1>3, <1>6 DEF KernelState
  <2>2. QED
    BY <1>5, <2>1, KernelOKLoose
<1>8. QED
  <2>1. CallStep(t, u, "insert", "sched")
    BY <1>1, <1>2, <1>3, <1>6, <1>7 DEF CallStep, u
  <2>2. QED
    BY <1>2, <2>1, CallStays

(* the rest of rt_thread_suspend: the thread is still ready *)
LEMMA SuspendRestStays ==
  ASSUME IInv, Disciplined, NEW t \in Controller, NEW u, u = target[t], SuspendRest(t)
  PROVE  IInv'
<1> DEFINE v == rt_thread_suspend(kern, u)
<1>1. /\ At(t, "suspend") /\ allocated' = allocated /\ target' = target
      /\ kern' = [rt_schedule_remove_thread(kern, u)
                    EXCEPT !.stat[u] = "SUSPEND", !.timer = @ \ {u}]
      /\ pc' = [pc EXCEPT ![t] = Run]
      /\ "suspend" \in {Run, "resume", "insert", "suspend"} /\ "suspend" \in Mid
      /\ Run \notin Mid
  BY DEF SuspendRest, Goto, Mid, Run
<1>2. /\ kern \in KernelState /\ KernelOK(kern) /\ "suspend" \in Mid \cup {Run}
      /\ u \in Managed \cap allocated /\ kern.stat[u] = "READY"
  BY <1>1, PlainStart, CallStart DEF StillTrue
<1>3. /\ u \in Thread \ {Idle} /\ u # kern.current
      /\ InitPriority[t] < kern.priority[u]
      /\ u \notin ToSet(kern.list[Defunct])
      /\ kern.timer \subseteq Sleeper /\ allocated \subseteq Thread
  BY <1>1, <1>2, ManagedThread
<1>4. kern' = v
  BY <1>1, <1>2 DEF rt_thread_suspend
<1>5. /\ KernelOK(v)
      /\ v.current = kern.current /\ v.list = kern.list
      /\ v.priority = kern.priority /\ v.lock = kern.lock
      /\ v.timer = kern.timer \ {u}
      /\ v.stat[u] = "SUSPEND"
      /\ \A x \in Thread \ {u} : v.stat[x] = kern.stat[x]
  BY <1>2, <1>3, SuspendThreadLemma
<1> HIDE DEF v
<1>6. v \in KernelState
  BY <1>5 DEF KernelOK
<1>7. QED
  <2>1. Run \in Mid \cup {Run, "sched"} /\ Run \notin {"delete", "close"} /\ target[t] = u
    BY DEF Run
  <2>2. kern' \in KernelState /\ KernelOK(kern') /\ kern'.timer \subseteq Sleeper
        /\ kern'.stat[u] # "CLOSE" /\ u \in allocated' /\ u \notin ToSet(kern'.list[Defunct])
    BY <1>1, <1>2, <1>3, <1>4, <1>5, <1>6
  <2>3. /\ kern'.current = kern.current /\ kern'.lock = kern.lock
        /\ InitPriority[t] < kern'.priority[u]
        /\ \A x \in Thread \ {u} :
             /\ kern'.stat[x] = kern.stat[x] /\ kern'.priority[x] = kern.priority[x]
             /\ x \in ToSet(kern'.list[Defunct]) <=> x \in ToSet(kern.list[Defunct])
    BY <1>3, <1>4, <1>5
  <2>4. CallStep(t, u, "suspend", Run)
    BY <1>1, <1>2, <1>3, <2>1, <2>2, <2>3 DEF CallStep
  <2>5. QED
    BY <1>2, <2>4, CallStays

(* rt_thread_control: the thread stays less urgent than the controller. *)
LEMMA SetPriorityStays ==
  ASSUME IInv, Disciplined, NEW t \in Controller, NEW u \in Managed, NEW p \in Priority,
         InitPriority[t] < p, SetPriority(t, u, p)
  PROVE  IInv'
<1>1. /\ At(t, Run) /\ u \in allocated /\ kern.stat[u] \in {"READY", "SUSPEND"}
      /\ kern' = ChangePriority(kern, u, p)
      /\ allocated' = allocated /\ target' = target /\ pc' = pc
      /\ Run \in {Run, "resume", "insert", "suspend"} /\ Run \notin Mid
  BY DEF SetPriority, Mid, Run
<1>2. kern \in KernelState /\ KernelOK(kern) /\ Run \in Mid \cup {Run}
  BY <1>1, PlainStart
<1>3. /\ u \in Thread \ {Idle} /\ u \notin ToSet(kern.list[Defunct])
      /\ kern.timer \subseteq Sleeper /\ allocated \subseteq Thread
  BY <1>1, <1>2, ManagedThread
<1>4. Reprioritized(kern, kern', u, p)
  BY <1>1, <1>2, <1>3, ChangePriorityLemma
<1>5. kern' \in KernelState
  BY <1>4 DEF Reprioritized, KernelOK
<1>6. pc' = [pc EXCEPT ![t] = Run]
  BY <1>1 DEF At, IInv, TypeOK
<1>7. QED
  <2>1. Run \in Mid \cup {Run, "sched"} /\ Run \notin {"delete", "close"}
    BY DEF Run
  <2>2. /\ KernelOK(kern') /\ kern'.timer \subseteq Sleeper
        /\ kern'.stat[u] # "CLOSE" /\ u \in allocated' /\ u \notin ToSet(kern'.list[Defunct])
    BY <1>1, <1>3, <1>4 DEF Reprioritized
  <2>3. /\ kern'.current = kern.current /\ kern'.lock = kern.lock
        /\ InitPriority[t] < kern'.priority[u]
        /\ \A x \in Thread \ {u} :
             /\ kern'.stat[x] = kern.stat[x] /\ kern'.priority[x] = kern.priority[x]
             /\ x \in ToSet(kern'.list[Defunct]) <=> x \in ToSet(kern.list[Defunct])
    BY <1>4 DEF Reprioritized
  <2>4. CallStep(t, u, Run, Run)
    BY <1>1, <1>2, <1>3, <1>5, <1>6, <2>1, <2>2, <2>3 DEF CallStep
  <2>5. QED
    BY <2>4, CallStays

(***************************************************************************)
(* rt_thread_delete.                                                       *)
(***************************************************************************)
(* the thread leaves the lists *)
LEMMA DeleteStays ==
  ASSUME IInv, Disciplined, NEW t \in Controller, NEW u \in Managed, Delete(t, u)
  PROVE  IInv'
<1> DEFINE v == rt_schedule_remove_thread(kern, u)
<1>1. /\ At(t, Run) /\ u \in allocated /\ kern.stat[u] # "CLOSE" /\ allocated' = allocated
      /\ pc' = [pc EXCEPT ![t] = "delete"] /\ target' = [target EXCEPT ![t] = u]
      /\ kern' = IF kern.stat[u] = "INIT" THEN kern ELSE v
      /\ Run \in {Run, "resume", "insert", "suspend"} /\ Run \notin Mid
      /\ "delete" \in Mid
  BY DEF Delete, Enter, Goto, Mid, Run
<1>2. /\ kern \in KernelState /\ KernelOK(kern) /\ Run \in Mid \cup {Run}
      /\ kern.stat[kern.current] = "RUNNING"
  BY <1>1, PlainStart
<1>3. /\ u \in Thread \ {Idle} /\ u # kern.current /\ u \notin kern.timer
      /\ kern.stat[u] # "RUNNING" /\ InitPriority[t] < kern.priority[u]
      /\ u \notin ToSet(kern.list[Defunct])
      /\ kern.timer \subseteq Sleeper /\ allocated \subseteq Thread
  BY <1>1, <1>2, ManagedThread
<1>4. /\ KernelBut(kern', u)
      /\ kern'.stat = kern.stat /\ kern'.priority = kern.priority
      /\ kern'.current = kern.current /\ kern'.lock = kern.lock /\ kern'.timer = kern.timer
      /\ ToSet(kern'.list[Defunct]) = ToSet(kern.list[Defunct])
  <2>1. CASE kern.stat[u] = "INIT"
    <3>1. KernelBut(kern, u)
      BY <1>2, <1>3, <2>1, InNoList
    <3>2. QED
      BY <1>1, <2>1, <3>1
  <2>2. CASE kern.stat[u] # "INIT"
    <3>1. /\ KernelBut(v, u)
          /\ v = [kern EXCEPT !.ready = v.ready, !.group = v.group, !.list = v.list]
          /\ \A l \in List : ToSet(v.list[l]) = ToSet(kern.list[l]) \ {u}
      BY <1>2, <1>3, Isolate, KernelOKLoose
    <3>2. kern' = v
      BY <1>1, <2>2
    <3> HIDE DEF v
    <3>3. /\ v.stat = kern.stat /\ v.priority = kern.priority
          /\ v.current = kern.current /\ v.lock = kern.lock /\ v.timer = kern.timer
      BY <1>2, <3>1 DEF KernelState
    <3>4. ToSet(v.list[Defunct]) = ToSet(kern.list[Defunct])
      BY <1>3, <3>1, ThreadsAssumption
    <3>5. QED
      BY <3>1, <3>2, <3>3, <3>4
  <2>3. QED
    BY <2>1, <2>2
<1>5. kern' \in KernelState /\ KernelOK(Veil(kern', {u}))
  <2>1. kern'.stat[kern'.current] # "READY" /\ u # kern'.current /\ u \notin kern'.timer
    BY <1>2, <1>3, <1>4
  <2>2. QED
    BY <1>3, <1>4, <2>1, ClosedBut DEF KernelBut
<1>6. target'[t] = u /\ StillTrue("delete", u)'
  BY <1>1, <1>3, <1>4 DEF StillTrue, IInv, TypeOK
<1>7. QED
  <2>1. CallStep(t, u, Run, "delete")
    BY <1>1, <1>2, <1>3, <1>4, <1>5, <1>6 DEF CallStep
  <2>2. QED
    BY <1>2, <2>1, CallStays

(* The timer of a managed thread is not running. *)
LEMMA DeleteTimerStays ==
  ASSUME IInv, Disciplined, NEW t \in Controller, NEW u, u = target[t], DeleteTimer(t)
  PROVE  IInv'
<1>1. /\ At(t, "delete") /\ allocated' = allocated /\ target' = target
      /\ pc' = [pc EXCEPT ![t] = "close"]
      /\ kern' = [kern EXCEPT !.timer = @ \ {u}]
      /\ "delete" \in Mid /\ "close" \in Mid /\ "delete" \in Mid \cup {Run}
  BY DEF DeleteTimer, Goto, Mid
<1>2. /\ kern \in KernelState /\ u \in Managed \cap allocated
      /\ StillTrue("delete", u) /\ KernelOK(Seen) /\ Closing = {u}
  BY <1>1, CallStart
<1>3. /\ u \notin kern.timer /\ InitPriority[t] < kern.priority[u]
      /\ kern.timer \subseteq Sleeper /\ allocated \subseteq Thread
  BY <1>1, <1>2, ManagedThread
<1>4. kern' = kern
  <2>1. kern.timer \ {u} = kern.timer
    BY <1>3
  <2>2. kern' = [kern EXCEPT !.timer = kern.timer]
    BY <1>1, <2>1
  <2>3. QED
    BY <1>2, <2>2 DEF KernelState
<1>5. KernelOK(Veil(kern, {u})) /\ StillTrue("close", u)
  BY <1>2 DEF Seen, StillTrue
<1>6. StillTrue("close", u)'
  BY <1>4, <1>5 DEF StillTrue
<1>7. /\ u \notin ToSet(kern.list[Defunct]) /\ kern.stat[u] # "CLOSE"
  BY <1>2 DEF StillTrue
<1>8. QED
  <2>1. CallStep(t, u, "delete", "close")
    BY <1>1, <1>2, <1>3, <1>4, <1>5, <1>6, <1>7 DEF CallStep
  <2>2. QED
    BY <1>2, <2>1, CallStays

(* The thread is in no list when it is linked into rt_thread_defunct. *)
LEMMA DeleteCloseStays ==
  ASSUME IInv, Disciplined, NEW t \in Controller, NEW u, u = target[t], DeleteClose(t)
  PROVE  IInv'
<1> DEFINE v == Veil(kern, {u})
           r == Close(kern, u)
<1>1. /\ At(t, "close") /\ allocated' = allocated /\ target' = target
      /\ pc' = [pc EXCEPT ![t] = Run] /\ kern' = r
      /\ "close" \in Mid /\ "close" \in Mid \cup {Run}
      /\ Run \in Mid \cup {Run, "sched"} /\ Run \notin Mid
      /\ Run \notin {"delete", "close"}
  BY DEF DeleteClose, Goto, Mid, Run
<1>2. /\ kern \in KernelState /\ u \in Managed \cap allocated
      /\ StillTrue("close", u) /\ KernelOK(Seen) /\ Closing = {u}
      /\ kern.stat[kern.current] = "RUNNING"
  BY <1>1, CallStart
<1>3. /\ u \in Thread \ {Idle} /\ u # kern.current
      /\ u \notin kern.timer /\ InitPriority[t] < kern.priority[u]
      /\ kern.timer \subseteq Sleeper /\ allocated \subseteq Thread
      /\ u \notin ToSet(kern.list[Defunct])
  <2>1. u \notin ToSet(kern.list[Defunct])
    BY <1>2 DEF StillTrue
  <2>2. QED
    BY <1>1, <1>2, <2>1, ManagedThread
<1>4. KernelBut(kern, u)
  <2>1. KernelOK(v)
    BY <1>2 DEF Seen
  <2>2. /\ v.current = kern.current /\ v.priority = kern.priority /\ v.ready = kern.ready
        /\ v.group = kern.group /\ v.list = kern.list /\ v.timer = kern.timer
        /\ v.fault = kern.fault
    BY <1>2 DEF Veil, KernelState
  <2>3. v.stat[u] = "CLOSE" /\ \A x \in Thread \ {u} : v.stat[x] = kern.stat[x]
    <3>1. v.stat = [x \in Thread |-> IF x \in {u} THEN "CLOSE" ELSE kern.stat[x]]
      BY <1>2, VeilFields
    <3>2. QED
      BY <1>3, <3>1
  <2> HIDE DEF v
  <2>4. KernelBut(v, u)
    BY <1>3, <2>1, <2>2, <2>3, InNoList
  <2>5. ~ kern.fault
    BY <2>1, <2>2 DEF KernelOK
  <2>6. QED
    BY <1>2, <1>3, <2>2, <2>3, <2>4, <2>5, Detached
<1>5. /\ KernelOK(r)
      /\ r.current = kern.current /\ r.priority = kern.priority /\ r.lock = kern.lock
      /\ r.timer = kern.timer
      /\ ToSet(r.list[Defunct]) = ToSet(kern.list[Defunct]) \cup {u}
      /\ r.stat[u] = "CLOSE" /\ \A x \in Thread \ {u} : r.stat[x] = kern.stat[x]
  <2>1. kern.stat[kern.current] # "READY"
    BY <1>2
  <2>2. QED
    BY <1>3, <1>4, <2>1, CloseLemma
<1> HIDE DEF r, v
<1>6. r \in KernelState
  BY <1>5 DEF KernelOK
<1>7. /\ kern' \in KernelState /\ KernelOK(kern') /\ kern'.timer \subseteq Sleeper
      /\ kern'.current = kern.current /\ kern'.lock = kern.lock
      /\ InitPriority[t] < kern'.priority[u]
      /\ \A x \in Thread \ {u} :
           /\ kern'.stat[x] = kern.stat[x] /\ kern'.priority[x] = kern.priority[x]
           /\ x \in allocated' <=> x \in allocated
           /\ x \in ToSet(kern'.list[Defunct]) <=> x \in ToSet(kern.list[Defunct])
      /\ u \in ToSet(kern'.list[Defunct]) <=> u \in allocated' /\ kern'.stat[u] = "CLOSE"
      /\ u \notin allocated' => kern'.stat[u] \in {"INIT", "CLOSE"}
      /\ allocated' \subseteq Thread /\ target' \in {target, [target EXCEPT ![t] = u]}
  BY <1>1, <1>2, <1>3, <1>5, <1>6
<1>8. u \in Managed /\ target[t] = u
  BY <1>2
<1>9. QED
  <2>1. CallStep(t, u, "close", Run)
    BY <1>1, <1>7, <1>8 DEF CallStep
  <2>2. QED
    BY <1>8, <2>1, CallStays

(* every step of a call *)
LEMMA CallsStay ==
  ASSUME IInv, Disciplined, NEW t \in Controller, NEW u \in Managed, Call(t, u)
  PROVE  IInv'
<1>1. CASE Create(t, u)
  BY <1>1, CreateStays
<1>2. CASE Startup(t, u)
  BY <1>2, StartupStays
<1>3. CASE Resume(t, u) \/ Suspend(t, u)
  BY <1>3, LookStays
<1>4. CASE ResumeFirst(t)
  BY <1>4, ResumeFirstStays
<1>5. CASE ResumeInsert(t)
  BY <1>5, ResumeInsertStays
<1>6. CASE SuspendRest(t)
  BY <1>6, SuspendRestStays
<1>7. CASE Delete(t, u)
  BY <1>7, DeleteStays
<1>8. CASE DeleteTimer(t)
  BY <1>8, DeleteTimerStays
<1>9. CASE DeleteClose(t)
  BY <1>9, DeleteCloseStays
<1>10. CASE \E p \in Priority :
              InitPriority[t] < p /\ p < InitPriority[Idle] /\ SetPriority(t, u, p)
  BY <1>10, SetPriorityStays
<1>11. QED
  BY <1>1, <1>2, <1>3, <1>4, <1>5, <1>6, <1>7, <1>8, <1>9, <1>10 DEF Call

(***************************************************************************)
(* The end of a thread.                                                    *)
(***************************************************************************)
(* A thread that exits is the running one, so no call is in its middle. *)
LEMMA ExitStays ==
  ASSUME IInv, Disciplined, NEW t \in Managed, Exit(t)
  PROVE  IInv'
<1> DEFINE a == rt_schedule_remove_thread(kern, t)
           b == [a EXCEPT !.timer = @ \ {t}]
           c == Close(b, t)
<1>1. /\ At(t, Run) /\ kern.lock = 0 /\ kern' = rt_schedule(c)
      /\ pc' = pc /\ allocated' = allocated /\ target' = target
      /\ Run \notin {"sched", "sleep"}
  BY DEF Exit, Run
<1>2. /\ t = kern.current /\ kern.stat[t] = "RUNNING" /\ t \in Thread \ {Idle}
      /\ kern \in KernelState
  BY <1>1, StepperHasCpu, ClosingApart
<1>3. \A d \in Controller : pc[d] \notin Mid
  BY <1>2 DEF IInv, CallsOK
<1>4. Closing = {} /\ Closing' = {}
  BY <1>1, <1>3 DEF Closing, Mid
<1>5. KernelOK(kern)
  <2>1. Seen = kern
    BY <1>2, <1>4, VeilNone DEF Seen
  <2>2. QED
    BY <2>1 DEF IInv
<1>6. /\ KernelBut(a, t)
      /\ a = [kern EXCEPT !.ready = a.ready, !.group = a.group, !.list = a.list]
      /\ a.list = kern.list
  BY <1>2, <1>5, Isolate, KernelOKLoose
<1> HIDE DEF a
<1>7. /\ a \in KernelState /\ ~ a.fault /\ a.stat = kern.stat /\ a.priority = kern.priority
      /\ a.current = kern.current /\ a.lock = kern.lock /\ a.timer = kern.timer
  <2>1. a \in KernelState /\ ~ a.fault
    BY <1>6 DEF KernelBut
  <2>2. /\ a.stat = kern.stat /\ a.priority = kern.priority
        /\ a.current = kern.current /\ a.lock = kern.lock /\ a.timer = kern.timer
    BY <1>2, <1>6 DEF KernelState
  <2>3. QED
    BY <2>1, <2>2
<1>8. /\ b \in KernelState /\ ~ b.fault /\ b.stat = kern.stat /\ b.priority = kern.priority
      /\ b.current = kern.current /\ b.lock = kern.lock /\ b.timer = kern.timer \ {t}
      /\ b.ready = a.ready /\ b.group = a.group /\ b.list = a.list
  BY <1>7 DEF KernelState
<1> HIDE DEF b
<1>9. KernelBut(b, t)
  BY <1>2, <1>6, <1>7, <1>8, Detached
<1>10. /\ KernelOK(c)
       /\ c.current = b.current /\ c.priority = b.priority /\ c.lock = b.lock
       /\ c.timer = b.timer
       /\ ToSet(c.list[Defunct]) = ToSet(b.list[Defunct]) \cup {t}
       /\ c.stat[t] = "CLOSE" /\ \A x \in Thread \ {t} : c.stat[x] = b.stat[x]
  <2>1. t \notin b.timer /\ t = b.current
    BY <1>2, <1>8
  <2>2. QED
    BY <1>2, <1>9, <2>1, CloseLemma
<1> HIDE DEF c
<1>11. KernelOK(kern') /\ Switched(c, kern') /\ MostUrgent(kern')
  BY <1>1, <1>8, <1>10, ScheduleLemma
<1>12. /\ kern' \in KernelState
       /\ kern'.priority = kern.priority /\ kern'.timer = kern.timer \ {t}
       /\ ToSet(kern'.list[Defunct]) = ToSet(kern.list[Defunct]) \cup {t}
       /\ kern'.stat[t] = "CLOSE"
       /\ \A x \in Thread \ {t} :
            \/ kern'.stat[x] = kern.stat[x]
            \/ kern.stat[x] \in {"READY", "RUNNING"} /\ kern'.stat[x] \in {"READY", "RUNNING"}
  <2>1. kern' \in KernelState
    BY <1>11 DEF KernelOK
  <2>2. kern'.list = c.list /\ kern'.priority = kern.priority /\ kern'.timer = kern.timer \ {t}
    BY <1>8, <1>10, <1>11 DEF Switched
  <2>3. ToSet(kern'.list[Defunct]) = ToSet(kern.list[Defunct]) \cup {t}
    BY <1>6, <1>8, <1>10, <2>2
  <2>4. kern'.stat[t] = "CLOSE"
    BY <1>2, <1>10, <1>11 DEF Switched
  <2>5. ASSUME NEW x \in Thread \ {t}
        PROVE  \/ kern'.stat[x] = kern.stat[x]
               \/ kern.stat[x] \in {"READY", "RUNNING"} /\ kern'.stat[x] \in {"READY", "RUNNING"}
    BY <1>8, <1>10, <1>11 DEF Switched
  <2>6. QED
    BY <2>1, <2>2, <2>3, <2>4, <2>5
<1>13. Seen' = kern'
  BY <1>4, <1>12, VeilNone DEF Seen
<1>14. TypeOK'
  BY <1>1, <1>12 DEF TypeOK, IInv
<1>15. CurrentRuns'
  BY <1>11, <1>13 DEF CurrentRuns, MostUrgent
<1>16. CallsOK'
  BY <1>1, <1>3 DEF CallsOK
<1>17. LessUrgent'
  BY <1>12 DEF LessUrgent, IInv
<1>18. DefunctOK'
  BY <1>1, <1>2, <1>12 DEF DefunctOK, IInv
<1>19. kern'.timer \subseteq Sleeper
  BY <1>12 DEF IInv
<1>20. QED
  BY <1>11, <1>13, <1>14, <1>15, <1>16, <1>17, <1>18, <1>19 DEF IInv

(* The idle thread takes the first closed thread, which no call is about. *)
LEMMA ReapStays ==
  ASSUME IInv, Disciplined, Reap
  PROVE  IInv'
<1> DEFINE u == Head(kern.list[Defunct])
           w == rt_list_remove(Seen, u)
<1>1. /\ At(Idle, Run) /\ kern.list[Defunct] # <<>> /\ kern' = rt_list_remove(kern, u)
      /\ allocated' = allocated \ {u} /\ pc' = pc /\ target' = target
      /\ Run \notin {"sched", "sleep"} /\ Run \in Mid \cup {Run, "slept"}
  BY DEF Reap, Run
<1>2. /\ kern.current = Idle /\ kern.stat[Idle] = "RUNNING" /\ pc[Idle] = Run
      /\ kern.lock = 0 => MostUrgent(Seen)
      /\ kern \in KernelState /\ Seen = Veil(kern, Closing) /\ Closing \subseteq Thread
      /\ KernelOK(Seen) /\ Seen.list = kern.list
  BY <1>1, StepperHasCpu, ClosingApart, SeenRuns, SeenFields DEF Seen
<1>3. u \in ToSet(kern.list[Defunct]) /\ u \in Thread
  <2>1. kern.list[Defunct] \in Seq(Thread)
    BY <1>2, ThreadsAssumption DEF KernelState
  <2> DEFINE s == kern.list[Defunct]
  <2>2. s \in Seq(Thread) /\ s # <<>>
    BY <1>1, <2>1
  <2> HIDE DEF s
  <2>3. Head(s) = s[1] /\ 1 \in DOMAIN s
    BY <2>2
  <2>4. Head(s) \in ToSet(s) /\ Head(s) \in Thread
    BY <2>2, <2>3 DEF ToSet
  <2>5. QED
    BY <2>4 DEF s
<1> HIDE DEF u
<1>4. u \in allocated /\ kern.stat[u] = "CLOSE" /\ u # Idle
  BY <1>2, <1>3 DEF IInv, DefunctOK
<1>5. Seen.stat[u] = "CLOSE"
  BY <1>3, <1>4, SeenFields
<1>6. /\ KernelBut(w, u) /\ w = [Seen EXCEPT !.list = w.list]
      /\ \A l \in List : ToSet(w.list[l]) = ToSet(Seen.list[l]) \ {u}
  BY <1>2, <1>3, <1>5, IsolateSuspended, KernelOKLoose
<1>7. Unseen(kern, kern', w, Closing)
  BY <1>1, <1>2, <1>3, VeilUnready
<1> HIDE DEF w
<1>8. /\ w \in KernelState /\ ~ w.fault /\ w.current = Seen.current
      /\ w.stat = Seen.stat /\ w.priority = Seen.priority /\ w.timer = Seen.timer
      /\ w.lock = Seen.lock
  BY <1>6, SeenFields DEF KernelBut, KernelState
<1>9. u \notin Seen.timer
  BY <1>2, <1>5 DEF KernelOK, CurrentOK
<1>10. KernelOK(w)
  <2>1. /\ Seen.current = Idle /\ Seen.stat[Idle] = "RUNNING"
    BY <1>2, SeenRuns, SeenFields
  <2>2. /\ u \in Thread \ {Idle} /\ u # w.current /\ w.stat[w.current] # "READY"
        /\ w.stat[u] \in {"INIT", "SUSPEND", "CLOSE"} /\ w.timer \subseteq w.timer \ {u}
    BY <1>3, <1>4, <1>5, <1>8, <1>9, <2>1
  <2>3. QED
    BY <1>6, <1>8, <2>2, Relabelled
<1>11. Closing' = Closing
  BY <1>1 DEF Closing
<1>12. Seen' = w /\ kern' \in KernelState
  BY <1>7, <1>11 DEF Seen, Unseen
<1>13. /\ kern'.current = kern.current /\ kern'.priority = kern.priority
       /\ kern'.timer = kern.timer /\ kern'.lock = kern.lock
       /\ ToSet(kern'.list[Defunct]) = ToSet(kern.list[Defunct]) \ {u}
       /\ kern'.stat = kern.stat
  <2>1. /\ kern' \in KernelState /\ w = Veil(kern', Closing)
    BY <1>7 DEF Unseen
  <2>2. /\ w.current = kern'.current /\ w.priority = kern'.priority
        /\ w.timer = kern'.timer /\ w.lock = kern'.lock /\ w.list = kern'.list
    BY <2>1, VeilPlain
  <2>3. kern'.stat = kern.stat
    BY <1>1, <1>2 DEF rt_list_remove, KernelState
  <2>4. ToSet(w.list[Defunct]) = ToSet(Seen.list[Defunct]) \ {u}
    BY <1>6, ThreadsAssumption
  <2>5. QED
    BY <1>2, <1>8, <2>2, <2>3, <2>4, SeenFields
<1>14. TypeOK'
  BY <1>1, <1>12 DEF TypeOK, IInv
<1>15. CurrentRuns'
  <2>1. kern.lock = 0 => MostUrgent(w)
    BY <1>2, <1>8 DEF MostUrgent
  <2>2. QED
    BY <1>2, <1>12, <1>13, <2>1 DEF CurrentRuns
<1>16. CallsOK'
  <2> SUFFICES ASSUME NEW d \in Controller, pc[d] \in Mid
               PROVE  /\ target[d] \in Managed \cap allocated'
                      /\ kern'.current \notin Managed
                      /\ kern'.stat[d] \in {"READY", "RUNNING"}
                      /\ StillTrue(pc[d], target[d])'
    BY <1>1 DEF CallsOK
  <2>1. /\ target[d] \in Managed \cap allocated /\ kern.current \notin Managed
        /\ kern.stat[d] \in {"READY", "RUNNING"} /\ StillTrue(pc[d], target[d])
    BY DEF IInv, CallsOK
  <2>2. target[d] # u
    BY <1>4, <2>1 DEF StillTrue, Mid
  <2>3. StillTrue(pc[d], target[d])'
    BY <1>1, <1>13, <2>1 DEF StillTrue
  <2>4. QED
    BY <1>1, <1>13, <2>1, <2>2, <2>3
<1>17. LessUrgent'
  BY <1>13 DEF LessUrgent, IInv
<1>18. DefunctOK'
  BY <1>1, <1>4, <1>13 DEF DefunctOK, IInv
<1>19. QED
  BY <1>10, <1>12, <1>13, <1>14, <1>15, <1>16, <1>17, <1>18 DEF IInv

(***************************************************************************)
(* The theorems.                                                           *)
(***************************************************************************)
(* The invariant holds when the threads that nobody manages are started. *)
LEMMA InitInvariant ==
  ASSUME Init, Disciplined
  PROVE  IInv
<1>1. PICK c \in allocated : kern = BootState(allocated, c)
  BY DEF Init, Booted
<1>2. /\ allocated = Thread \ Managed /\ pc = [t \in Thread |-> Run]
      /\ target = [t \in Controller |-> t] /\ allocated \in SUBSET Thread
      /\ Idle \in allocated /\ Booted(kern, allocated)
  BY ThreadsAssumption, KernelAssumption DEF Init
<1>3. /\ KernelOK(kern)
      /\ kern.lock = 0 /\ kern.stat[kern.current] = "RUNNING"
      /\ \A t \in Thread : kern.stat[t] = "READY" =>
           kern.priority[kern.current] <= kern.priority[t]
      /\ \A l \in List : kern.list[l] = <<>>
  <2>1. Idle \in allocated /\ Booted(kern, allocated) /\ allocated \in SUBSET Thread
    BY <1>2
  <2>2. KernelOK(kern)
    BY <2>1, BootLemma
  <2>3. kern.lock = 0 /\ kern.stat[kern.current] = "RUNNING"
    BY <2>1, BootLemma
  <2>4. \A t \in Thread : kern.stat[t] = "READY" =>
          kern.priority[kern.current] <= kern.priority[t]
    BY <2>1, BootLemma
  <2>5. \A l \in List : kern.list[l] = <<>>
    BY <2>1, BootLemma
  <2>6. QED
    BY <2>2, <2>3, <2>4, <2>5
<1>4. /\ kern.timer = {} /\ kern.priority = InitPriority /\ kern.current = c
      /\ \A t \in Thread : kern.stat[t] = IF t = c THEN "RUNNING"
                                          ELSE IF t \in allocated \ {c} THEN "READY"
                                          ELSE "INIT"
  BY <1>1 DEF BootState
<1>5. kern \in KernelState /\ c \in Thread
  BY <1>2, <1>3 DEF KernelOK
<1>6. \A d \in Controller : pc[d] = Run
  BY <1>2, ThreadsAssumption
<1>7. Closing = {} /\ Seen = kern
  <2>1. Closing = {}
    BY <1>6 DEF Closing, Run
  <2>2. QED
    BY <1>5, <2>1, VeilNone DEF Seen
<1>8. TypeOK
  BY <1>2, <1>5 DEF TypeOK
<1>9. CurrentRuns
  BY <1>3, <1>7 DEF CurrentRuns, MostUrgent
<1>10. CallsOK
  BY <1>6 DEF CallsOK, Mid, Run
<1>11. LessUrgent
  BY <1>4 DEF LessUrgent, Disciplined
<1>12. DefunctOK
  <2>1. kern.list[Defunct] = <<>>
    BY <1>3, ThreadsAssumption
  <2>2. ToSet(kern.list[Defunct]) = {}
    BY <2>1 DEF ToSet
  <2>3. QED
    BY <1>2, <1>4, <2>2 DEF DefunctOK
<1>13. QED
  BY <1>3, <1>4, <1>7, <1>8, <1>9, <1>10, <1>11, <1>12 DEF IInv

(* Every step keeps the invariant. *)
LEMMA NextInvariant ==
  ASSUME IInv, Disciplined, [Next]_vars
  PROVE  IInv'
<1>1. CASE \E t \in Controller, u \in Managed : Call(t, u)
  BY <1>1, CallsStay
<1>2. ASSUME NEW t \in Thread \ {Idle}, Self(t)
      PROVE  IInv'
  <2>1. CASE Yield(t)
    <3>1. /\ t = kern.current
          /\ kern' = rt_schedule([kern EXCEPT !.yield = @ \cup {t}])
          /\ UNCHANGED <<pc, allocated, target>>
      BY <2>1 DEF Yield, At
    <3>2. QED
      BY <3>1, YieldStays
  <2>2. CASE SuspendSelf(t)
    BY <2>2, SuspendSelfStays
  <2>3. CASE Schedule(t)
    BY <2>3, RescheduleStays DEF Schedule
  <2>4. CASE EnterCritical(t) \/ ExitCritical(t)
    BY <2>4, CriticalStays
  <2>5. CASE t \in Managed /\ Exit(t)
    BY <2>5, ExitStays
  <2>6. CASE t \in Sleeper /\ Sleep(t)
    <3>1. UNCHANGED <<allocated, target>>
      BY <2>6 DEF Sleep
    <3>2. CASE kern.lock = 0 /\ SleepBegin(t)
      BY <2>6, <3>1, <3>2, SleepBeginStays
    <3>3. CASE Reschedule(t, "sleep", "slept")
      BY <3>1, <3>3, RescheduleStays
    <3>4. CASE SleepEnd(t)
      BY <3>1, <3>4, SleepEndStays
    <3>5. QED
      BY <2>6, <3>2, <3>3, <3>4 DEF Sleep
  <2>7. QED
    BY <1>2, <2>1, <2>2, <2>3, <2>4, <2>5, <2>6 DEF Self
<1>3. CASE Reap
  BY <1>3, ReapStays
<1>4. CASE Tick
  <2>1. UNCHANGED <<allocated, target>>
    BY <1>4 DEF Tick
  <2>2. CASE SliceExpires
    BY <2>1, <2>2, YieldStays DEF SliceExpires
  <2>3. CASE \E t \in Thread : TimerExpires(t)
    BY <2>1, <2>3, TimerStays
  <2>4. QED
    BY <1>4, <2>2, <2>3 DEF Tick
<1>5. CASE UNCHANGED vars
  <2>1. UNCHANGED <<kern, pc, allocated, target>>
    BY <1>5 DEF vars
  <2>2. Seen' = Seen /\ TypeOK' = TypeOK /\ CurrentRuns' = CurrentRuns
        /\ CallsOK' = CallsOK /\ LessUrgent' = LessUrgent /\ DefunctOK' = DefunctOK
    BY <2>1 DEF Seen, Closing, TypeOK, CurrentRuns, CallsOK, LessUrgent, DefunctOK, StillTrue
  <2>3. QED
    BY <2>1, <2>2 DEF IInv
<1>6. QED
  BY <1>1, <1>2, <1>3, <1>4, <1>5 DEF Next

(* The invariant holds throughout. *)
THEOREM Invariance ==
  ASSUME Disciplined
  PROVE  Spec => []IInv
<1>1. Init => IInv
  BY InitInvariant
<1>2. IInv /\ [Next]_vars => IInv'
  BY NextInvariant
<1>3. QED
  BY <1>1, <1>2, PTL DEF Spec

(* Under the discipline a thread is in the list its state says, through all *)
(* the windows in which a call of another thread is interrupted.            *)
THEOREM KernelStaysConsistent ==
  ASSUME Disciplined
  PROVE  Spec => []KernelConsistent
<1>1. IInv => KernelConsistent
  BY DEF IInv, KernelConsistent, Seen, Veil
<1>2. QED
  BY <1>1, Invariance, PTL

(* The memory of a thread is released only when no list, timer or call in   *)
(* progress reaches it any more, and a closed thread waits for the idle     *)
(* thread until then.                                                       *)
THEOREM MemoryReleasedSafely ==
  ASSUME Disciplined
  PROVE  Spec => []ReleasedSafely
<1>1. ASSUME IInv
      PROVE  ReleasedSafely
  <2>1. /\ KernelOK(Seen) /\ kern \in KernelState /\ Seen = Veil(kern, Closing)
        /\ kern.current \in Thread
    BY <1>1, ClosingApart, SeenRuns DEF Seen
  <2>2. Seen.list = kern.list /\ Seen.ready = kern.ready /\ Seen.timer = kern.timer
    BY <2>1, VeilPlain
  <2> SUFFICES ASSUME NEW t \in Thread
               PROVE  /\ t \notin allocated =>
                           /\ ~ Linked(kern, t) /\ t # kern.current /\ t \notin kern.timer
                           /\ \A c \in Controller :
                                target[c] = t => pc[c] \in {Run, "sched", "sleep", "slept"}
                      /\ Contains(kern.list[Defunct], t) <=>
                           t \in allocated /\ kern.stat[t] = "CLOSE"
    BY DEF ReleasedSafely
  <2>3. Contains(kern.list[Defunct], t) <=> t \in ToSet(kern.list[Defunct])
    <3>1. kern.list[Defunct] \in Seq(Thread)
      BY <2>1, ThreadsAssumption DEF KernelState
    <3>2. QED
      BY <3>1, ContainsToSet
  <2>4. t \in ToSet(kern.list[Defunct]) <=> t \in allocated /\ kern.stat[t] = "CLOSE"
    BY <1>1 DEF IInv, DefunctOK
  <2>5. ASSUME t \notin allocated
        PROVE  /\ ~ Linked(kern, t) /\ t # kern.current /\ t \notin kern.timer
               /\ \A c \in Controller :
                    target[c] = t => pc[c] \in {Run, "sched", "sleep", "slept"}
    <3>1. kern.stat[t] \in {"INIT", "CLOSE"}
      BY <1>1, <2>5 DEF IInv, DefunctOK
    <3>2. Seen.stat[t] \in {"INIT", "CLOSE"}
      BY <1>1, <3>1, SeenFields
    <3>3. ~ Linked(Seen, t)
      BY <2>1, <2>2, <2>4, <2>5, <3>2, InNoList, NotLinked
    <3>4. ~ Linked(kern, t)
      BY <2>2, <3>3 DEF Linked
    <3>5. t # kern.current
      BY <1>1, <3>1 DEF IInv, CurrentRuns
    <3>6. t \notin kern.timer
      BY <2>1, <2>2, <3>2 DEF KernelOK, CurrentOK
    <3>7. ASSUME NEW c \in Controller, target[c] = t
          PROVE  pc[c] \in {Run, "sched", "sleep", "slept"}
      <4>1. pc[c] \notin Mid
        BY <1>1, <2>5, <3>7 DEF IInv, CallsOK
      <4>2. c \in Thread
        BY <1>1, ClosingApart
      <4>3. QED
        BY <1>1, <4>1, <4>2 DEF IInv, TypeOK, Mid
    <3>8. QED
      BY <3>4, <3>5, <3>6, <3>7
  <2>6. QED
    BY <2>3, <2>4, <2>5
<1>2. QED
  BY <1>1, Invariance, PTL

(* Then the thread that runs is the most urgent one whenever the scheduler *)
(* is not locked, so no preemption is missed at all: a controller only     *)
(* makes threads less urgent than itself.                                  *)
THEOREM NoPreemptionMissed ==
  ASSUME Disciplined
  PROVE  Spec => []MostUrgentRuns /\ PreemptionMissedByPriorityOnly
<1>1. ASSUME IInv
      PROVE  MostUrgentRuns
  <2> SUFFICES ASSUME pc[kern.current] = Run, kern.lock = 0,
                      NEW t \in Thread, kern.stat[t] = "READY"
               PROVE  kern.priority[kern.current] <= kern.priority[t]
    BY DEF MostUrgentRuns
  <2>1. MostUrgent(Seen) /\ Seen.priority = kern.priority /\ Seen.current = kern.current
    BY <1>1, SeenFields DEF IInv, CurrentRuns
  <2>2. CASE t \notin Closing
    BY <1>1, <2>1, <2>2, SeenFields DEF MostUrgent
  <2>3. CASE t \in Closing
    <3>1. PICK c \in Controller : pc[c] \in {"delete", "close"} /\ target[c] = t
      BY <2>3 DEF Closing
    <3>2. /\ t \in Managed /\ kern.stat[c] \in {"READY", "RUNNING"}
          /\ c \in Thread /\ c \notin Closing
          /\ kern.priority[c] < kern.priority[t]
      BY <1>1, <3>1, ClosingApart DEF IInv, CallsOK, LessUrgent, Mid
    <3>3. kern.priority[kern.current] <= kern.priority[c]
      <4>1. Seen.stat[c] = kern.stat[c]
        BY <1>1, <3>2, SeenFields
      <4>2. CASE kern.stat[c] = "READY"
        BY <2>1, <3>2, <4>1, <4>2 DEF MostUrgent
      <4>3. CASE kern.stat[c] = "RUNNING"
        <5>1. c = kern.current
          BY <1>1, <2>1, <3>2, <4>1, <4>3 DEF IInv, KernelOK, CurrentOK
        <5>2. pc[c] = Run
          BY <5>1
        <5>3. QED
          BY <3>1, <5>2 DEF Run
      <4>4. QED
        BY <3>2, <4>2, <4>3
    <3>4. /\ kern.priority[kern.current] \in Int /\ kern.priority[c] \in Int
          /\ kern.priority[t] \in Int
      BY <1>1, <3>2, ClosingApart, KernelAssumption DEF KernelState, Priority
    <3>5. QED
      BY <3>2, <3>3, <3>4
  <2>4. QED
    BY <2>2, <2>3
<1>2. MostUrgentRuns /\ MostUrgentRuns' =>
        [ MostUrgentRuns /\ ~MostUrgentRuns' =>
            kern'.priority # kern.priority /\ kern'.lock = 0 ]_vars
  OBVIOUS
<1>3. QED
  BY <1>1, <1>2, Invariance, PTL DEF PreemptionMissedByPriorityOnly

=============================================================================
