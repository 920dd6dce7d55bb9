--------------------------- MODULE MailboxProofs ---------------------------
(***************************************************************************)
(* A mailbox of any size, between any threads, loses no wakeup and no mail:*)
(* it implements the bounded queue that its callers see.                   *)
(***************************************************************************)
EXTENDS Mailbox, KernelProofs

(* the mailbox as KernelProofs sees a service *)
Service ==
  [way     |-> [l \in List |-> IF l = "receivers" THEN {"recv", "receiving"}
                               ELSE {"send", "sending"}],
   leave   |-> {"send", "recv"},
   settled |-> {Run, "sending", "receiving"},
   points  |-> {Run, "send", "sending", "recv", "receiving", "sched",
                "reset", "reset_senders"}]

(***************************************************************************)
(* The inductive invariant.                                                *)
(***************************************************************************)
(* the offset n places after out_offset *)
Slot(n) == IF out_offset + n < size THEN out_offset + n ELSE out_offset + n - size

(* the next mail goes behind the entry mails that are in the ring *)
RingOK == in_offset = Slot(entry)

(* a sender that waits still has its mail *)
SenderOK == \A t \in Thread : pc[t] \in {"send", "sending"} => mail[t] \in Mail

IInv ==
  /\ TypeOK
  /\ Steady(Service)
  /\ NoLostWakeup
  /\ RingOK
  /\ SenderOK

(* What the parameters of the shared layer of KernelProofs are here: the two   *)
(* suspend lists of struct rt_mailbox, and the points of a send and a receive. *)
LEMMA ServiceFields ==
  /\ "receivers" \in List /\ "senders" \in List
  /\ List \ {"receivers"} = {"senders"} /\ List \ {"senders"} = {"receivers"}
  /\ Way(Service, "receivers") = {"recv", "receiving"}
  /\ Way(Service, "senders") = {"send", "sending"}
  /\ LeavePoints(Service) = {"send", "recv"}
  /\ SettledPoints(Service) = {Run, "sending", "receiving"}
  /\ CallPoints(Service) = {Run, "send", "sending", "recv", "receiving", "sched",
                       "reset", "reset_senders"}
  /\ ServiceOK(Service)
<1>1. /\ "receivers" \in List /\ "senders" \in List
      /\ List \ {"receivers"} = {"senders"} /\ List \ {"senders"} = {"receivers"}
      /\ "rt_thread_defunct" \notin List
  BY MailboxAssumption
<1>2. /\ Way(Service, "receivers") = {"recv", "receiving"}
      /\ Way(Service, "senders") = {"send", "sending"}
      /\ LeavePoints(Service) = {"send", "recv"}
      /\ SettledPoints(Service) = {Run, "sending", "receiving"}
      /\ CallPoints(Service) = {Run, "send", "sending", "recv", "receiving", "sched",
                           "reset", "reset_senders"}
  BY <1>1 DEF Service, Way, LeavePoints, SettledPoints, CallPoints
<1>3. ServiceOK(Service)
  <2>1. \A l \in List : l = "receivers" \/ l = "senders"
    BY MailboxAssumption
  <2>2. QED
    BY <1>1, <1>2, <2>1 DEF ServiceOK, Run
<1>4. QED
  BY <1>1, <1>2, <1>3

(* The part of ServiceFields that most steps use. *)
LEMMA ServiceLists ==
  ServiceOK(Service) /\ "receivers" \in List /\ "senders" \in List
BY ServiceFields

(* What the mailbox promises, in the terms of the shared lemmas *)
LEMMA WakeupsServed ==
  /\ NoLostWakeup <=> /\ Served(Service, "receivers", entry)
                      /\ Served(Service, "senders", size - entry)
  /\ NoLostWakeup' <=> /\ ServedNext(Service, "receivers", entry')
                       /\ ServedNext(Service, "senders", size - entry')
<1>1. /\ Woken("recv", "receiving") = Awake(Way(Service, "receivers"))
      /\ Woken("send", "sending") = Awake(Way(Service, "senders"))
  BY ServiceFields DEF Woken, Awake
<1>2. /\ Woken("recv", "receiving")' = Awake(Way(Service, "receivers"))'
      /\ Woken("send", "sending")' = Awake(Way(Service, "senders"))'
  BY ServiceFields DEF Woken, Awake
<1>3. NoLostWakeup <=> /\ Served(Service, "receivers", entry)
                       /\ Served(Service, "senders", size - entry)
  BY <1>1 DEF NoLostWakeup, Served
<1>4. NoLostWakeup' <=> /\ ServedNext(Service, "receivers", entry')
                        /\ ServedNext(Service, "senders", size - entry')
  BY <1>2 DEF NoLostWakeup, ServedNext
<1>5. QED
  BY <1>3, <1>4

(***************************************************************************)
(* The ring                                                                *)
(***************************************************************************)
RingTyped ==
  /\ entry \in 0 .. size
  /\ in_offset \in 0 .. size - 1 /\ out_offset \in 0 .. size - 1
  /\ msg_pool \in [0 .. size - 1 -> Mail \cup {NoMail}]

(* A put, at the tail (rt_mb_send_wait) or at the head (rt_mb_urgent), keeps   *)
(* the offsets entry apart, modulo the size.                                   *)
LEMMA PutRing ==
  ASSUME RingTyped, RingOK, NEW m \in Mail, PutMail(m) \/ PutUrgentMail(m)
  PROVE  RingTyped' /\ RingOK' /\ entry < size /\ entry' = entry + 1
<1>1. CASE PutMail(m)
  BY <1>1, MailboxAssumption DEF PutMail, Next1, RingTyped, RingOK, Slot
<1>2. CASE PutUrgentMail(m)
  BY <1>2, MailboxAssumption DEF PutUrgentMail, Prev1, RingTyped, RingOK, Slot
<1>3. QED
  BY <1>1, <1>2

(* And so does a fetch (rt_mb_recv). *)
LEMMA FetchRing ==
  ASSUME RingTyped, RingOK, FetchMail
  PROVE  /\ RingTyped' /\ RingOK' /\ entry > 0 /\ entry' = entry - 1
         /\ received' \in Mail \cup {NoMail}
BY MailboxAssumption DEF FetchMail, Next1, RingTyped, RingOK, Slot

(***************************************************************************)
(* The wakeups                                                             *)
(***************************************************************************)
(* A mail more in the ring, and the first receiver is awake. *)
LEMMA PutWakes ==
  ASSUME NoLostWakeup, Shrunk, OneMore(Service, "receivers"),
         AtMostOneLess(Service, "senders"),
         entry \in 0 .. size, entry' = entry + 1, entry < size
  PROVE  NoLostWakeup'
<1>1. /\ entry \in Nat /\ size - entry \in Nat /\ size - entry' = (size - entry) - 1
      /\ "receivers" \in List /\ "senders" \in List
  BY MailboxAssumption
<1>2. Served(Service, "receivers", entry) /\ Served(Service, "senders", size - entry)
  BY WakeupsServed
<1>3. ServedNext(Service, "receivers", entry + 1)
  BY <1>1, <1>2, ServedMore
<1>4. ServedNext(Service, "senders", (size - entry) - 1)
  BY <1>1, <1>2, ServedFewer
<1>5. QED
  BY <1>1, <1>3, <1>4, WakeupsServed

(* A mail less in the ring, and the first sender is awake. *)
LEMMA FetchWakes ==
  ASSUME NoLostWakeup, Shrunk, OneMore(Service, "senders"),
         AtMostOneLess(Service, "receivers"),
         entry \in 0 .. size, entry' = entry - 1
  PROVE  NoLostWakeup'
<1>1. /\ entry \in Nat /\ size - entry \in Nat /\ size - entry' = (size - entry) + 1
      /\ "receivers" \in List /\ "senders" \in List
  BY MailboxAssumption
<1>2. Served(Service, "receivers", entry) /\ Served(Service, "senders", size - entry)
  BY WakeupsServed
<1>3. ServedNext(Service, "receivers", entry - 1)
  BY <1>1, <1>2, ServedFewer
<1>4. ServedNext(Service, "senders", (size - entry) + 1)
  BY <1>1, <1>2, ServedMore
<1>5. QED
  BY <1>1, <1>3, <1>4, WakeupsServed

(* Nobody enters a list, and nobody who was to look at the ring goes away. *)
LEMMA QuietWakes ==
  ASSUME NoLostWakeup, Shrunk, UNCHANGED entry, entry \in 0 .. size,
         \A l \in List : SameAwake(Service, l)
  PROVE  NoLostWakeup'
<1>1. /\ entry \in Nat /\ size - entry \in Nat
      /\ "receivers" \in List /\ "senders" \in List
  BY MailboxAssumption
<1>2. Served(Service, "receivers", entry) /\ Served(Service, "senders", size - entry)
  BY WakeupsServed
<1>3. entry <= entry /\ size - entry <= size - entry
  BY <1>1
<1>4. /\ ServedNext(Service, "receivers", entry)
      /\ ServedNext(Service, "senders", size - entry)
  BY <1>1, <1>2, <1>3, ServedKept
<1>5. QED
  BY <1>4, WakeupsServed

(***************************************************************************)
(* The steps                                                               *)
(***************************************************************************)
(* The invariant holds once the scheduler has started. *)
LEMMA InitOK == Init => IInv
<1> SUFFICES ASSUME Init PROVE IInv
  OBVIOUS
<1>1. /\ Steady(Service)
      /\ kern.list["receivers"] = <<>> /\ kern.list["senders"] = <<>>
  BY SteadyInit, ServiceFields DEF Init
<1>2. pc = [t \in Thread |-> Run]
  BY DEF Init, CpuInit
<1>3. TypeOK
  BY <1>1, <1>2, MailboxAssumption DEF Init, TypeOK, Steady, KernelOK, Run
<1>4. NoLostWakeup
  BY <1>1 DEF NoLostWakeup
<1>5. RingOK
  BY MailboxAssumption DEF Init, RingOK, Slot
<1>6. SenderOK
  BY <1>2 DEF SenderOK, Run
<1>7. QED
  BY <1>1, <1>3, <1>4, <1>5, <1>6 DEF IInv

(* The rest of the invariant follows from what a step does to the kernel    *)
(* data, the points and the ring.                                           *)
LEMMA Typed ==
  ASSUME TypeOK, Steady(Service)', RingTyped',
         mail' \in [Thread -> Mail \cup {NoMail}], timed' \subseteq Thread,
         received' \in Mail \cup {NoMail}, UNCHANGED flag
  PROVE  TypeOK'
<1>1. kern' \in KernelState /\ pc' \in [Thread -> CallPoints(Service)]
  BY DEF Steady, KernelOK
<1>2. QED
  BY <1>1, ServiceFields DEF TypeOK, RingTyped

(* A thread that runs, puts a mail and wakes a receiver *)
LEMMA PutStep ==
  ASSUME IInv, NEW t \in Thread, NEW p \in {Run, "sending"}, At(t, p),
         NEW m \in Mail, PutMail(m) \/ PutUrgentMail(m),
         WakeFirst(t, "receivers"), UNCHANGED <<flag, received>>,
         mail' = mail \/ mail' = [mail EXCEPT ![t] = NoMail],
         timed' \subseteq Thread
  PROVE  IInv'
<1>1. TypeOK /\ RingTyped /\ RingOK /\ entry \in 0 .. size
  BY DEF IInv, TypeOK, RingTyped
<1>2. RingTyped' /\ RingOK' /\ entry' = entry + 1 /\ entry < size
  BY <1>1, PutRing
<1>3. /\ Steady(Service)' /\ Shrunk
      /\ Moved(t, Run) \/ Moved(t, "sched")
      /\ OneMore(Service, "receivers") /\ AtMostOneLess(Service, "senders")
  <2>1. p \in SettledPoints(Service) /\ p \notin Way(Service, "receivers")
    BY ServiceFields DEF Run
  <2>2. /\ Steady(Service)' /\ Shrunk
        /\ Moved(t, Run) \/ Moved(t, "sched")
        /\ OneMore(Service, "receivers")
        /\ \A l \in List \ {"receivers"} : AllBut(Service, l, t)
    BY <2>1, ServiceLists, WakeFirstStep DEF IInv
  <2>3. QED
    BY <2>2, ServiceLists DEF AtMostOneLess
<1>4. NoLostWakeup'
  BY <1>1, <1>2, <1>3, PutWakes DEF IInv
<1>5. mail' \in [Thread -> Mail \cup {NoMail}] /\ received' \in Mail \cup {NoMail}
  BY <1>1 DEF TypeOK
<1>6. TypeOK'
  BY <1>1, <1>2, <1>3, <1>5, Typed
<1>7. SenderOK'
  BY <1>1, <1>3 DEF IInv, SenderOK, Moved, TypeOK, Run
<1>8. QED
  BY <1>2, <1>3, <1>4, <1>6, <1>7 DEF IInv

(* A thread that runs, takes a mail and wakes a sender *)
LEMMA FetchStep ==
  ASSUME IInv, NEW t \in Thread, NEW p \in {Run, "receiving"}, At(t, p),
         FetchMail, WakeFirst(t, "senders"), UNCHANGED flag,
         mail' = mail \/ mail' = [mail EXCEPT ![t] = NoMail],
         timed' \subseteq Thread
  PROVE  IInv'
<1>1. TypeOK /\ RingTyped /\ RingOK /\ entry \in 0 .. size
  BY DEF IInv, TypeOK, RingTyped
<1>2. /\ RingTyped' /\ RingOK' /\ entry' = entry - 1
      /\ received' \in Mail \cup {NoMail}
  BY <1>1, FetchRing
<1>3. /\ Steady(Service)' /\ Shrunk
      /\ Moved(t, Run) \/ Moved(t, "sched")
      /\ OneMore(Service, "senders") /\ AtMostOneLess(Service, "receivers")
  <2>1. p \in SettledPoints(Service) /\ p \notin Way(Service, "senders")
    BY ServiceFields DEF Run
  <2>2. /\ Steady(Service)' /\ Shrunk
        /\ Moved(t, Run) \/ Moved(t, "sched")
        /\ OneMore(Service, "senders")
        /\ \A l \in List \ {"senders"} : AllBut(Service, l, t)
    BY <2>1, ServiceLists, WakeFirstStep DEF IInv
  <2>3. QED
    BY <2>2, ServiceLists DEF AtMostOneLess
<1>4. NoLostWakeup'
  BY <1>1, <1>2, <1>3, FetchWakes DEF IInv
<1>5. mail' \in [Thread -> Mail \cup {NoMail}]
  BY <1>1 DEF TypeOK
<1>6. TypeOK'
  BY <1>1, <1>2, <1>3, <1>5, Typed
<1>7. SenderOK'
  BY <1>1, <1>3 DEF IInv, SenderOK, Moved, TypeOK, Run
<1>8. QED
  BY <1>2, <1>3, <1>4, <1>6, <1>7 DEF IInv

(* the same by an interrupt handler, its rt_schedule included *)
LEMMA IsrSendStep ==
  ASSUME IInv, NEW m \in Mail, IsrSend(m)
  PROVE  IInv'
<1>0. /\ PutMail(m) \/ PutUrgentMail(m)
      /\ IsrWakeFirst("receivers")
      /\ UNCHANGED <<pc, flag, mail, timed, received>>
  BY DEF IsrSend
<1>1. TypeOK /\ RingTyped /\ RingOK /\ entry \in 0 .. size
  BY DEF IInv, TypeOK, RingTyped
<1>2. RingTyped' /\ RingOK' /\ entry' = entry + 1 /\ entry < size
  BY <1>0, <1>1, PutRing
<1>3. /\ Steady(Service)' /\ Shrunk /\ OneMore(Service, "receivers")
      /\ AtMostOneLess(Service, "senders")
  <2>1. /\ Steady(Service)' /\ Shrunk /\ OneMore(Service, "receivers")
        /\ \A l \in List \ {"receivers"} : SameAwake(Service, l)
    BY <1>0, ServiceLists, IsrWakeFirstStep DEF IInv
  <2>2. QED
    BY <2>1, ServiceLists DEF AtMostOneLess
<1>4. NoLostWakeup'
  BY <1>1, <1>2, <1>3, PutWakes DEF IInv
<1>5. TypeOK'
  BY <1>0, <1>1, <1>2, <1>3, Typed DEF TypeOK
<1>6. SenderOK'
  BY <1>0 DEF IInv, SenderOK
<1>7. QED
  BY <1>2, <1>3, <1>4, <1>5, <1>6 DEF IInv

(* A receive from an interrupt handler: a mail less, and the first sender is   *)
(* awake.                                                                      *)
LEMMA IsrRecvStep ==
  ASSUME IInv, IsrRecv
  PROVE  IInv'
<1>0. /\ FetchMail /\ IsrWakeFirst("senders")
      /\ UNCHANGED <<pc, flag, mail, timed>>
  BY DEF IsrRecv
<1>1. TypeOK /\ RingTyped /\ RingOK /\ entry \in 0 .. size
  BY DEF IInv, TypeOK, RingTyped
<1>2. /\ RingTyped' /\ RingOK' /\ entry' = entry - 1
      /\ received' \in Mail \cup {NoMail}
  BY <1>0, <1>1, FetchRing
<1>3. /\ Steady(Service)' /\ Shrunk /\ OneMore(Service, "senders")
      /\ AtMostOneLess(Service, "receivers")
  <2>1. /\ Steady(Service)' /\ Shrunk /\ OneMore(Service, "senders")
        /\ \A l \in List \ {"senders"} : SameAwake(Service, l)
    BY <1>0, ServiceLists, IsrWakeFirstStep DEF IInv
  <2>2. QED
    BY <2>1, ServiceLists DEF AtMostOneLess
<1>4. NoLostWakeup'
  BY <1>1, <1>2, <1>3, FetchWakes DEF IInv
<1>5. TypeOK'
  BY <1>0, <1>1, <1>2, <1>3, Typed DEF TypeOK
<1>6. SenderOK'
  BY <1>0 DEF IInv, SenderOK
<1>7. QED
  BY <1>2, <1>3, <1>4, <1>5, <1>6 DEF IInv

(* A thread that runs waits for a place in the ring. *)
LEMMA SendWaitStep ==
  ASSUME IInv, NEW t \in Thread \ {Idle}, NEW p \in {Run, "sending"}, At(t, p),
         entry = size, NEW timed0 \in BOOLEAN,
         WaitIn(t, "senders", flag, timed0, "send"),
         NEW m \in Mail, mail' = [mail EXCEPT ![t] = m], timed' \subseteq Thread,
         UNCHANGED <<ring, flag, received>>
  PROVE  IInv'
<1>1. TypeOK /\ RingTyped
  BY DEF IInv, TypeOK, RingTyped
<1>2. RingTyped' /\ RingOK'
  BY <1>1 DEF IInv, ring, RingTyped, RingOK, Slot
<1>3. /\ Steady(Service)' /\ Moved(t, "send")
      /\ kern'.list["receivers"] = kern.list["receivers"]
      /\ SameAwake(Service, "receivers")
  <2>1. p \notin LeavePoints(Service) /\ WaitPoint(Service, "send", "senders")
    BY ServiceFields DEF Run, WaitPoint
  <2>2. /\ Steady(Service)' /\ Moved(t, "send")
        /\ Enters(t, "senders") /\ \A l \in List : AllBut(Service, l, t)
    BY <2>1, ServiceLists, WaitStep DEF IInv
  <2>3. t \notin Awake(Way(Service, "receivers"))
    BY ServiceFields DEF Awake, At, Run
  <2>4. QED
    BY <2>2, <2>3, ServiceFields DEF Enters, AllBut, SameAwake
<1>4. NoLostWakeup'
  <2>1. size - entry' = 0 /\ UNCHANGED entry
    BY MailboxAssumption DEF ring
  <2>2. Served(Service, "receivers", entry)
    BY WakeupsServed DEF IInv
  <2>3. ServedNext(Service, "receivers", entry)
    BY <1>3, <2>2 DEF Served, ServedNext, SameAwake
  <2>4. ServedNext(Service, "senders", 0)
    BY ServiceLists, ServedNone
  <2>5. QED
    BY <2>1, <2>3, <2>4, WakeupsServed
<1>5. TypeOK'
  BY <1>1, <1>2, <1>3, Typed DEF TypeOK
<1>6. SenderOK'
  BY <1>1, <1>3 DEF IInv, SenderOK, Moved, TypeOK
<1>7. QED
  BY <1>2, <1>3, <1>4, <1>5, <1>6 DEF IInv

(* A thread that runs waits for a mail. *)
LEMMA RecvWaitStep ==
  ASSUME IInv, NEW t \in Thread \ {Idle}, NEW p \in {Run, "receiving"}, At(t, p),
         entry = 0, NEW timed0 \in BOOLEAN,
         WaitIn(t, "receivers", flag, timed0, "recv"),
         timed' \subseteq Thread, UNCHANGED <<ring, flag, mail, received>>
  PROVE  IInv'
<1>1. TypeOK /\ RingTyped
  BY DEF IInv, TypeOK, RingTyped
<1>2. RingTyped' /\ RingOK'
  BY <1>1 DEF IInv, ring, RingTyped, RingOK, Slot
<1>3. /\ Steady(Service)' /\ Moved(t, "recv")
      /\ kern'.list["senders"] = kern.list["senders"]
      /\ SameAwake(Service, "senders")
  <2>1. p \notin LeavePoints(Service) /\ WaitPoint(Service, "recv", "receivers")
    BY ServiceFields DEF Run, WaitPoint
  <2>2. /\ Steady(Service)' /\ Moved(t, "recv")
        /\ Enters(t, "receivers") /\ \A l \in List : AllBut(Service, l, t)
    BY <2>1, ServiceLists, WaitStep DEF IInv
  <2>3. t \notin Awake(Way(Service, "senders"))
    BY ServiceFields DEF Awake, At, Run
  <2>4. QED
    BY <2>2, <2>3, ServiceFields DEF Enters, AllBut, SameAwake
<1>4. NoLostWakeup'
  <2>1. entry' = 0 /\ UNCHANGED entry
    BY MailboxAssumption DEF ring
  <2>2. Served(Service, "senders", size - entry)
    BY WakeupsServed DEF IInv
  <2>3. ServedNext(Service, "senders", size - entry)
    BY <1>3, <2>2 DEF Served, ServedNext, SameAwake
  <2>4. ServedNext(Service, "receivers", 0)
    BY ServiceLists, ServedNone
  <2>5. QED
    BY <2>1, <2>3, <2>4, WakeupsServed
<1>5. TypeOK'
  BY <1>1, <1>2, <1>3, Typed DEF TypeOK
<1>6. SenderOK'
  BY <1>1, <1>3 DEF IInv, SenderOK, Moved
<1>7. QED
  BY <1>2, <1>3, <1>4, <1>5, <1>6 DEF IInv

(* A thread that runs goes on without a change of the ring: it owes nobody  *)
(* a wakeup, since it was not resumed with RT_EOK or finds nothing.         *)
LEMMA ReturnStep ==
  ASSUME IInv, NEW t \in Thread, NEW p \in CallPoints(Service) \ LeavePoints(Service), At(t, p),
         NEW q \in {Run, "reset", "reset_senders", "sched"}, Goto(t, q),
         q = Run => p \in SettledPoints(Service),
         kern' = kern \/ \E e \in Error : kern' = SetError(kern, t, e),
         p = "sending" => kern.error[t] # "RT_EOK" \/ entry = size,
         p = "receiving" => kern.error[t] # "RT_EOK" \/ entry = 0,
         mail' = mail \/ mail' = [mail EXCEPT ![t] = NoMail],
         timed' \subseteq Thread, UNCHANGED <<ring, flag, received>>
  PROVE  IInv'
<1>1. TypeOK /\ RingTyped
  BY DEF IInv, TypeOK, RingTyped
<1>2. RingTyped' /\ RingOK'
  BY <1>1 DEF IInv, ring, RingTyped, RingOK, Slot
<1>3. /\ Steady(Service)' /\ Moved(t, q) /\ kern'.list = kern.list
      /\ \A l \in List : AllBut(Service, l, t)
  <2>1. /\ p \notin LeavePoints(Service) /\ q \in CallPoints(Service) \ LeavePoints(Service)
        /\ q \in SettledPoints(Service) => p \in SettledPoints(Service)
        /\ \A l \in List : q \notin Way(Service, l)
    BY ServiceFields, MailboxAssumption DEF Run
  <2>2. PICK e \in Error : kern' = kern \/ kern' = SetError(kern, t, e)
    BY DEF Error
  <2>3. QED
    BY <2>1, <2>2, ServiceLists, GoStep DEF IInv
<1>4. NoLostWakeup'
  <2>1. /\ t \in Awake(Way(Service, "receivers")) => entry = 0
        /\ t \in Awake(Way(Service, "senders")) => size - entry = 0
    <3>1. pc[t] = p /\ p \notin {"send", "recv"}
      BY ServiceFields DEF At
    <3>2. QED
      BY <3>1, ServiceFields, MailboxAssumption DEF Awake
  <2>2. Served(Service, "receivers", entry) /\ Served(Service, "senders", size - entry)
    BY WakeupsServed DEF IInv
  <2>3. ASSUME NEW l \in List, NEW n, Served(Service, l, n),
               t \in Awake(Way(Service, l)) => n = 0
        PROVE  ServedNext(Service, l, n)
    <3>1. CASE n = 0
      BY <3>1, ServedNone
    <3>2. CASE t \notin Awake(Way(Service, l))
      BY <1>3, <2>3, <3>2 DEF AllBut, Served, ServedNext
    <3>3. QED
      BY <2>3, <3>1, <3>2
  <2>4. ServedNext(Service, "receivers", entry) /\ ServedNext(Service, "senders", size - entry)
    BY <2>1, <2>2, <2>3, ServiceLists
  <2>5. QED
    BY <2>4, WakeupsServed DEF ring
<1>5. TypeOK'
  BY <1>1, <1>2, <1>3, Typed DEF TypeOK
<1>6. SenderOK'
  BY <1>1, <1>3 DEF IInv, SenderOK, Moved, TypeOK, Run
<1>7. QED
  BY <1>2, <1>3, <1>4, <1>5, <1>6 DEF IInv

(* The steps that change nothing but the kernel data *)
LEMMA QuietStep ==
  ASSUME IInv, Steady(Service)', Shrunk,
         \A l \in List : SameAwake(Service, l),
         \A x \in Thread : pc'[x] \in {"send", "sending"} => pc[x] \in {"send", "sending"},
         UNCHANGED <<ring, flag, mail, timed, received>>
  PROVE  IInv'
<1>1. TypeOK /\ RingTyped
  BY DEF IInv, TypeOK, RingTyped
<1>2. RingTyped' /\ RingOK'
  BY <1>1 DEF IInv, ring, RingTyped, RingOK, Slot
<1>3. NoLostWakeup'
  BY <1>1, QuietWakes DEF IInv, ring, RingTyped
<1>4. TypeOK'
  BY <1>1, <1>2, Typed DEF TypeOK
<1>5. SenderOK'
  BY DEF IInv, SenderOK
<1>6. QED
  BY <1>2, <1>3, <1>4, <1>5 DEF IInv

(* The rt_schedule at the end of a call, or after the suspension, only chooses *)
(* who runs.                                                                   *)
LEMMA ScheduleStep ==
  ASSUME IInv, NEW t \in Thread, SendSchedule(t) \/ RecvSchedule(t) \/ Schedule(t)
  PROVE  IInv'
<1> SUFFICES ASSUME NEW p, NEW q,
                    <<p, q>> \in {<<"send", "sending">>, <<"recv", "receiving">>,
                                  <<"sched", Run>>},
                    Reschedule(t, p, q), UNCHANGED <<ring, flag, mail, timed, received>>
             PROVE  IInv'
  BY DEF SendSchedule, RecvSchedule, Schedule
<1>1. q \in CallPoints(Service) /\ \A l \in List : p \in Way(Service, l) <=> q \in Way(Service, l)
  BY ServiceFields, MailboxAssumption DEF Run
<1>2. /\ Steady(Service)' /\ Moved(t, q) /\ kern'.list = kern.list
      /\ \A l \in List : SameAwake(Service, l)
  BY <1>1, ServiceFields, RescheduleStep DEF IInv
<1>3. Shrunk
  BY <1>2 DEF Shrunk
<1>4. \A x \in Thread : pc'[x] \in {"send", "sending"} => pc[x] \in {"send", "sending"}
  BY <1>2 DEF Moved, Reschedule, At, Run
<1>5. QED
  BY <1>2, <1>3, <1>4, QuietStep

(* A tick may end the wait of a thread, which the lists it leaves can afford.  *)
LEMMA MailTick ==
  ASSUME IInv, Tick
  PROVE  IInv'
<1>1. /\ Steady(Service)' /\ UNCHANGED pc /\ Shrunk
      /\ \A l \in List : SameAwake(Service, l)
  BY ServiceFields, TickStep DEF Tick, IInv
<1>2. QED
  BY <1>1, QuietStep DEF Tick

(* A reset resumes the first receiver, and later the first sender. *)
LEMMA ResetWakesStep ==
  ASSUME IInv, NEW t \in Thread,
         \/ At(t, "reset") /\ kern' = ResumeWithError(kern, "receivers")
              /\ kern.list["receivers"] # <<>>
         \/ At(t, "reset_senders") /\ kern' = ResumeWithError(kern, "senders")
              /\ kern.list["senders"] # <<>>,
         UNCHANGED <<pc, ring, flag, mail, timed, received>>
  PROVE  IInv'
<1>1. "reset" \notin LeavePoints(Service) \cup SettledPoints(Service)
      /\ "reset_senders" \notin LeavePoints(Service) \cup SettledPoints(Service)
  BY ServiceFields DEF Run
<1>2. /\ Steady(Service)' /\ Shrunk
      /\ \A l \in List : SameAwake(Service, l)
  BY <1>1, ServiceFields, ResetStep DEF IInv
<1>3. QED
  BY <1>2, QuietStep

(* A reset ends with an empty ring and nobody in a list of senders. *)
LEMMA ResetEndStep ==
  ASSUME IInv, NEW t \in Thread, ResetEnd(t)
  PROVE  IInv'
<1>0. /\ At(t, "reset_senders") /\ kern.list["senders"] = <<>>
      /\ entry' = 0 /\ in_offset' = 0 /\ out_offset' = 0
      /\ Goto(t, "sched")
      /\ UNCHANGED <<kern, msg_pool, flag, mail, timed, received>>
  BY DEF ResetEnd
<1>1. TypeOK /\ RingTyped
  BY DEF IInv, TypeOK, RingTyped
<1>2. RingTyped' /\ RingOK'
  BY <1>0, <1>1, MailboxAssumption DEF RingTyped, RingOK, Slot
<1>3. Steady(Service)' /\ Moved(t, "sched")
  <2>1. /\ "reset_senders" \notin LeavePoints(Service)
        /\ "sched" \in CallPoints(Service) \ LeavePoints(Service)
        /\ "sched" \notin SettledPoints(Service)
        /\ \A l \in List : "sched" \notin Way(Service, l)
        /\ "RT_EOK" \in Error
    BY ServiceFields, MailboxAssumption DEF Run, Error
  <2>2. QED
    BY <1>0, <2>1, ServiceFields, GoStep DEF IInv
<1>4. NoLostWakeup'
  BY <1>0, ServiceLists, ServedNone, WakeupsServed DEF ServedNext
<1>5. TypeOK'
  BY <1>0, <1>1, <1>2, <1>3, Typed DEF TypeOK
<1>6. SenderOK'
  BY <1>0, <1>3 DEF IInv, SenderOK, Moved
<1>7. QED
  BY <1>2, <1>3, <1>4, <1>5, <1>6 DEF IInv

(* the call of a thread *)
LEMMA CallOK ==
  ASSUME IInv, NEW t \in Thread \ {Idle}, Call(t)
  PROVE  IInv'
<1>0. t \in Thread /\ TypeOK
  BY DEF IInv
<1>1. ASSUME NEW m \in Mail, Send(t, m) \/ Urgent(t, m) PROVE IInv'
  <2>1. /\ At(t, Run) /\ WakeFirst(t, "receivers")
        /\ PutMail(m) \/ PutUrgentMail(m)
        /\ UNCHANGED <<flag, mail, timed, received>>
    BY <1>1 DEF Send, Urgent
  <2>2. timed' \subseteq Thread
    BY <1>0, <2>1 DEF TypeOK
  <2>3. QED
    BY <1>0, <2>1, <2>2, PutStep
<1>2. ASSUME NEW m \in Mail, NEW hasTimeout \in BOOLEAN, SendWait(t, m, hasTimeout)
      PROVE  IInv'
  <2>1. /\ At(t, Run) /\ entry = size /\ WaitIn(t, "senders", flag, hasTimeout, "send")
        /\ mail' = [mail EXCEPT ![t] = m] /\ UNCHANGED <<ring, flag, received>>
        /\ timed' \subseteq Thread
    BY <1>0, <1>2 DEF SendWait, TypeOK
  <2>2. QED
    BY <2>1, SendWaitStep
<1>3. CASE Recv(t)
  <2>1. /\ At(t, Run) /\ FetchMail /\ WakeFirst(t, "senders")
        /\ UNCHANGED <<flag, mail, timed>> /\ timed' \subseteq Thread
    BY <1>0, <1>3 DEF Recv, TypeOK
  <2>2. QED
    BY <1>0, <2>1, FetchStep
<1>4. ASSUME NEW hasTimeout \in BOOLEAN, RecvWait(t, hasTimeout)
      PROVE  IInv'
  <2>1. /\ At(t, Run) /\ entry = 0 /\ WaitIn(t, "receivers", flag, hasTimeout, "recv")
        /\ UNCHANGED <<ring, flag, mail, received>> /\ timed' \subseteq Thread
    BY <1>0, <1>4 DEF RecvWait, TypeOK
  <2>2. QED
    BY <2>1, RecvWaitStep
<1>5. CASE ResetBegin(t)
  <2>1. /\ At(t, Run) /\ Goto(t, "reset")
        /\ UNCHANGED <<kern, ring, flag, mail, timed, received>>
        /\ timed' \subseteq Thread
    BY <1>0, <1>5 DEF ResetBegin, TypeOK
  <2>2. /\ Run \in CallPoints(Service) \ LeavePoints(Service)
        /\ Run # "sending" /\ Run # "receiving" /\ "reset" # Run
    BY ServiceFields DEF Run
  <2>3. QED
    BY <1>0, <2>1, <2>2, ReturnStep
<1>6. QED
  BY <1>1, <1>2, <1>3, <1>4, <1>5 DEF Call

(* what a thread does after it has waited, and the steps of a reset *)
LEMMA ContinueOK ==
  ASSUME IInv, NEW t \in Thread \ {Idle}, Continue(t)
  PROVE  IInv'
<1>0. t \in Thread /\ TypeOK /\ Run \in {Run, "reset", "reset_senders", "sched"}
  BY DEF IInv
<1>1. /\ \A p \in {"sending", "receiving", "reset"} :
           p \in CallPoints(Service) \ LeavePoints(Service)
      /\ "sending" \in SettledPoints(Service) /\ "receiving" \in SettledPoints(Service)
      /\ "reset_senders" # Run
  BY ServiceFields DEF Run
<1>2. CASE SendSchedule(t) \/ RecvSchedule(t) \/ Schedule(t)
  BY <1>0, <1>2, ScheduleStep
<1>3. CASE SendFails(t)
  <2>1. /\ At(t, "sending") /\ Goto(t, Run) /\ kern.error[t] # "RT_EOK"
        /\ UNCHANGED <<kern, ring, flag, received>>
        /\ mail' = [mail EXCEPT ![t] = NoMail] /\ timed' \subseteq Thread
    BY <1>0, <1>3 DEF SendFails, Leave, TypeOK
  <2>2. QED
    BY <1>0, <1>1, <2>1, ReturnStep
<1>4. CASE RecvFails(t)
  <2>1. /\ At(t, "receiving") /\ Goto(t, Run) /\ kern.error[t] # "RT_EOK"
        /\ UNCHANGED <<kern, ring, flag, received>>
        /\ mail' = [mail EXCEPT ![t] = NoMail] /\ timed' \subseteq Thread
    BY <1>0, <1>4 DEF RecvFails, Leave, TypeOK
  <2>2. QED
    BY <1>0, <1>1, <2>1, ReturnStep
<1>5. CASE SendResumed(t)
  <2>1. /\ At(t, "sending") /\ PutMail(mail[t]) /\ WakeFirst(t, "receivers")
        /\ UNCHANGED <<flag, received>>
        /\ mail' = [mail EXCEPT ![t] = NoMail] /\ timed' \subseteq Thread
    BY <1>0, <1>5 DEF SendResumed, Leave, TypeOK
  <2>2. mail[t] \in Mail
    BY <2>1 DEF IInv, SenderOK, At
  <2>3. QED
    BY <1>0, <2>1, <2>2, PutStep
<1>6. CASE RecvResumed(t)
  <2>1. /\ At(t, "receiving") /\ FetchMail /\ WakeFirst(t, "senders")
        /\ UNCHANGED flag
        /\ mail' = [mail EXCEPT ![t] = NoMail] /\ timed' \subseteq Thread
    BY <1>0, <1>6 DEF RecvResumed, Leave, TypeOK
  <2>2. QED
    BY <1>0, <2>1, FetchStep
<1>7. CASE SendAgain(t)
  <2>1. /\ At(t, "sending") /\ entry = size /\ UNCHANGED <<ring, flag, received>>
        /\ timed' \subseteq Thread /\ (t \in timed) \in BOOLEAN
    BY <1>0, <1>7 DEF SendAgain, Leave, TypeOK
  <2>2. CASE Goto(t, Run) /\ Leave(t) /\ UNCHANGED kern
    <3>1. mail' = [mail EXCEPT ![t] = NoMail]
      BY <2>2 DEF Leave
    <3>2. QED
      BY <1>0, <1>1, <2>1, <2>2, <3>1, ReturnStep
  <2>3. CASE WaitIn(t, "senders", flag, t \in timed, "send") /\ UNCHANGED <<mail, timed>>
    <3>1. mail[t] \in Mail /\ mail' = [mail EXCEPT ![t] = mail[t]]
      BY <1>0, <2>1, <2>3 DEF IInv, SenderOK, At, TypeOK
    <3>2. QED
      BY <2>1, <2>3, <3>1, SendWaitStep
  <2>4. QED
    BY <1>7, <2>2, <2>3 DEF SendAgain
<1>8. CASE RecvAgain(t)
  <2>1. /\ At(t, "receiving") /\ entry = 0 /\ UNCHANGED <<ring, flag, received>>
        /\ timed' \subseteq Thread /\ (t \in timed) \in BOOLEAN
    BY <1>0, <1>8 DEF RecvAgain, Leave, TypeOK
  <2>2. CASE /\ kern' = [kern EXCEPT !.error[t] = "RT_ETIMEOUT"]
             /\ Goto(t, Run) /\ Leave(t)
    <3>1. /\ mail' = [mail EXCEPT ![t] = NoMail]
          /\ \E e \in Error : kern' = SetError(kern, t, e)
      BY <2>2 DEF Leave, SetError, Error
    <3>2. QED
      BY <1>0, <1>1, <2>1, <2>2, <3>1, ReturnStep
  <2>3. CASE WaitIn(t, "receivers", flag, t \in timed, "recv") /\ UNCHANGED <<mail, timed>>
    BY <2>1, <2>3, RecvWaitStep
  <2>4. QED
    BY <1>8, <2>2, <2>3 DEF RecvAgain
<1>9. CASE ResetReceiver(t)
  <2>1. /\ At(t, "reset") /\ UNCHANGED <<ring, flag, mail, timed, received>>
        /\ timed' \subseteq Thread
    BY <1>0, <1>9 DEF ResetReceiver, TypeOK
  <2>2. CASE kern.list["receivers"] # <<>>
    BY <1>0, <1>9, <2>1, <2>2, ResetWakesStep DEF ResetReceiver
  <2>3. CASE kern.list["receivers"] = <<>>
    <3>1. Goto(t, "reset_senders") /\ UNCHANGED kern
      BY <1>9, <2>3 DEF ResetReceiver
    <3>2. QED
      BY <1>0, <1>1, <2>1, <3>1, ReturnStep
  <2>4. QED
    BY <2>2, <2>3
<1>10. CASE ResetSender(t)
  BY <1>0, <1>10, ResetWakesStep DEF ResetSender
<1>11. CASE ResetEnd(t)
  BY <1>0, <1>11, ResetEndStep
<1>12. QED
  BY <1>2, <1>3, <1>4, <1>5, <1>6, <1>7, <1>8, <1>9, <1>10, <1>11 DEF Continue

(* Every step keeps the invariant. *)
LEMMA NextOK == IInv /\ [Next]_vars => IInv'
<1> SUFFICES ASSUME IInv, [Next]_vars PROVE IInv'
  OBVIOUS
<1>1. ASSUME NEW t \in Thread \ {Idle}, Call(t) \/ Continue(t) PROVE IInv'
  BY <1>1, CallOK, ContinueOK
<1>2. ASSUME NEW m \in Mail, IsrSend(m) PROVE IInv'
  BY <1>2, IsrSendStep
<1>3. CASE IsrRecv
  BY <1>3, IsrRecvStep
<1>4. CASE Tick
  BY <1>4, MailTick
<1>5. CASE UNCHANGED vars
  <2>1. UNCHANGED <<kern, pc, ring, flag, mail, timed, received>>
    BY <1>5 DEF vars
  <2>2. /\ Steady(Service)' /\ Shrunk
        /\ \A l \in List : SameAwake(Service, l)
    BY <2>1 DEF IInv, Steady, ListedOnWay, MostUrgentRunsAt, Awake, Shrunk,
       SameAwake
  <2>3. QED
    BY <2>1, <2>2, QuietStep
<1>6. QED
  BY <1>1, <1>2, <1>3, <1>4, <1>5 DEF Next

(***************************************************************************)
(* The theorems                                                            *)
(***************************************************************************)
(* The inductive invariant, for any threads, mails and size of the ring *)
THEOREM Invariance == Spec => []IInv
<1>1. Init => IInv
  BY InitOK
<1>2. IInv /\ [Next]_vars => IInv'
  BY NextOK
<1>3. QED
  BY <1>1, <1>2, PTL DEF Spec

(* Every thread is in the list its state says, and no send or receive that  *)
(* resumed a more urgent thread goes on before it (rt_schedule, ipc.c).     *)
THEOREM KernelStaysConsistent == Spec => []KernelConsistent
<1>1. IInv => KernelConsistent
  BY ServiceFields DEF IInv, KernelConsistent, Steady
<1>2. QED
  BY <1>1, Invariance, PTL

(* Nobody waits for a mail or for a place while one is there and no resumed *)
(* thread is on its way to it (rt_mb_send_wait, rt_mb_recv, the reset).     *)
THEOREM WakeupsNeverLost == Spec => []NoLostWakeup
<1>1. IInv => NoLostWakeup
  BY DEF IInv
<1>2. QED
  BY <1>1, Invariance, PTL

(***************************************************************************)
(* The bounded queue                                                       *)
(***************************************************************************)
(* The place of an item of the queue, as the ring wraps round *)
LEMMA Wrapped ==
  ASSUME NEW n \in Nat \ {0}, NEW a \in 0 .. 2 * n - 1
  PROVE  a % n = IF a < n THEN a ELSE a - n
<1>1. CASE a < n
  BY <1>1
<1>2. CASE a >= n
  BY <1>2
<1>3. QED
  BY <1>1, <1>2

(* n mails of a ring, from offset o on *)
Place(o, i) == IF o + i < size THEN o + i ELSE o + i - size
Mails(o, n, pool) == [i \in 1 .. n |-> pool[Place(o, i - 1)]]

RingItems == Mail \cup {NoMail}

(* The queue of the refinement, without the remainder *)
LEMMA QueueIsMails ==
  ASSUME NEW o \in 0 .. size - 1, NEW n \in 0 .. size, NEW pool
  PROVE  [i \in 1 .. n |-> pool[(o + i - 1) % size]] = Mails(o, n, pool)
<1>1. ASSUME NEW i \in 1 .. n
      PROVE  (o + i - 1) % size = Place(o, i - 1)
  <2> DEFINE a == o + i - 1
  <2>1. a \in 0 .. 2 * size - 1 /\ a = o + (i - 1) /\ size \in Nat \ {0}
    BY <1>1, MailboxAssumption
  <2> HIDE DEF a
  <2>2. a % size = IF a < size THEN a ELSE a - size
    BY <2>1, Wrapped
  <2>3. a % size = Place(o, i - 1)
    BY <2>1, <2>2 DEF Place
  <2>4. QED
    BY <2>3 DEF a
<1>2. QED
  BY <1>1 DEF Mails

(* It is a sequence of that many mails. *)
LEMMA MailsTyped ==
  ASSUME NEW o \in 0 .. size - 1, NEW n \in 0 .. size,
         NEW pool \in [0 .. size - 1 -> RingItems]
  PROVE  /\ Mails(o, n, pool) \in Seq(RingItems) /\ Len(Mails(o, n, pool)) = n
         /\ \A i \in 1 .. n : /\ Mails(o, n, pool)[i] = pool[Place(o, i - 1)]
                              /\ Place(o, i - 1) \in 0 .. size - 1
<1>1. size \in Nat /\ n \in Nat
  BY MailboxAssumption
<1>2. ASSUME NEW i \in 1 .. n PROVE Place(o, i - 1) \in 0 .. size - 1
  BY <1>1, <1>2 DEF Place
<1>3. QED
  BY <1>1, <1>2 DEF Mails

(* A mail put behind the others is the last of the queue, *)
LEMMA PutAppends ==
  ASSUME NEW o \in 0 .. size - 1, NEW n \in 0 .. size - 1,
         NEW pool \in [0 .. size - 1 -> RingItems], NEW m \in RingItems
  PROVE  Mails(o, n + 1, [pool EXCEPT ![Place(o, n)] = m]) = Append(Mails(o, n, pool), m)
<1> DEFINE after == [pool EXCEPT ![Place(o, n)] = m]
           r == Mails(o, n + 1, after)
           s == Mails(o, n, pool)
           a == Append(s, m)
<1>1. size \in Nat /\ n \in 0 .. size /\ n + 1 \in 0 .. size
      /\ Place(o, n) \in 0 .. size - 1
  BY MailboxAssumption DEF Place
<1>2. after \in [0 .. size - 1 -> RingItems]
      /\ \A j \in 0 .. size - 1 : after[j] = IF j = Place(o, n) THEN m ELSE pool[j]
  BY <1>1
<1> HIDE DEF after
<1>3. /\ r \in Seq(RingItems) /\ Len(r) = n + 1
      /\ \A i \in 1 .. n + 1 : /\ r[i] = after[Place(o, i - 1)]
                              /\ Place(o, i - 1) \in 0 .. size - 1
  BY <1>1, <1>2, MailsTyped
<1>4. /\ s \in Seq(RingItems) /\ Len(s) = n
      /\ \A i \in 1 .. n : s[i] = pool[Place(o, i - 1)]
  BY <1>1, MailsTyped
<1> HIDE DEF r, s
<1>5. /\ a \in Seq(RingItems) /\ Len(a) = n + 1
      /\ \A i \in 1 .. n + 1 : a[i] = IF i = n + 1 THEN m ELSE s[i]
  BY <1>4
<1> HIDE DEF a
<1>6. ASSUME NEW i \in 1 .. n + 1 PROVE r[i] = a[i]
  <2>1. Place(o, i - 1) = Place(o, n) <=> i = n + 1
    BY <1>1, <1>6 DEF Place
  <2>2. r[i] = IF i = n + 1 THEN m ELSE pool[Place(o, i - 1)]
    BY <1>2, <1>3, <2>1
  <2>3. i # n + 1 => i \in 1 .. n
    BY <1>1
  <2>4. QED
    BY <1>4, <1>5, <2>2, <2>3
<1>7. r = a
  BY <1>3, <1>5, <1>6, SeqEqual
<1>8. QED
  BY <1>7 DEF r, a, s, after

(* one put in front of them the first, *)
LEMMA PutPrepends ==
  ASSUME NEW o \in 0 .. size - 1, NEW n \in 0 .. size - 1,
         NEW pool \in [0 .. size - 1 -> RingItems], NEW m \in RingItems
  PROVE  Mails(Prev1(o), n + 1, [pool EXCEPT ![Prev1(o)] = m]) = <<m>> \o Mails(o, n, pool)
<1> DEFINE p == Prev1(o)
           after == [pool EXCEPT ![p] = m]
           r == Mails(p, n + 1, after)
           s == Mails(o, n, pool)
           a == <<m>> \o s
<1>1. /\ size \in Nat /\ n \in 0 .. size /\ n + 1 \in 0 .. size
      /\ p \in 0 .. size - 1
  BY MailboxAssumption DEF Prev1
<1>2. after \in [0 .. size - 1 -> RingItems]
      /\ \A j \in 0 .. size - 1 : after[j] = IF j = p THEN m ELSE pool[j]
  BY <1>1
<1>3. /\ Place(p, 0) = p
      /\ \A i \in 2 .. n + 1 : Place(p, i - 1) = Place(o, i - 2) /\ Place(p, i - 1) # p
  BY <1>1 DEF Place, Prev1
<1> HIDE DEF after, p
<1>4. /\ r \in Seq(RingItems) /\ Len(r) = n + 1
      /\ \A i \in 1 .. n + 1 : /\ r[i] = after[Place(p, i - 1)]
                              /\ Place(p, i - 1) \in 0 .. size - 1
  BY <1>1, <1>2, MailsTyped
<1>5. /\ s \in Seq(RingItems) /\ Len(s) = n
      /\ \A i \in 1 .. n : s[i] = pool[Place(o, i - 1)]
  BY <1>1, MailsTyped
<1> HIDE DEF r, s
<1>6. /\ a \in Seq(RingItems) /\ Len(a) = n + 1
      /\ \A i \in 1 .. n + 1 : a[i] = IF i = 1 THEN m ELSE s[i - 1]
  BY <1>1, <1>5
<1> HIDE DEF a
<1>7. ASSUME NEW i \in 1 .. n + 1 PROVE r[i] = a[i]
  <2>1. CASE i = 1
    BY <1>1, <1>2, <1>3, <1>4, <1>6, <2>1
  <2>2. CASE i # 1
    <3>1. i \in 2 .. n + 1 /\ i - 1 \in 1 .. n /\ (i - 1) - 1 = i - 2
      BY <1>1, <2>2
    <3>2. s[i - 1] = pool[Place(o, i - 2)]
      BY <1>5, <3>1
    <3>3. QED
      BY <1>2, <1>3, <1>4, <1>6, <2>2, <3>1, <3>2
  <2>3. QED
    BY <2>1, <2>2
<1>8. r = a
  BY <1>4, <1>6, <1>7, SeqEqual
<1>9. QED
  BY <1>8 DEF r, a, s, after, p

(* and the one taken out of the ring was the first. *)
LEMMA FetchTakesFirst ==
  ASSUME NEW o \in 0 .. size - 1, NEW n \in 1 .. size,
         NEW pool \in [0 .. size - 1 -> RingItems]
  PROVE  /\ Mails(o, n, pool) # <<>>
         /\ Head(Mails(o, n, pool)) = pool[o]
         /\ Mails(Next1(o), n - 1, pool) = Tail(Mails(o, n, pool))
<1> DEFINE p == Next1(o)
           r == Mails(p, n - 1, pool)
           s == Mails(o, n, pool)
           a == Tail(s)
<1>1. /\ size \in Nat /\ n \in 0 .. size /\ n - 1 \in 0 .. size
      /\ p \in 0 .. size - 1
  BY MailboxAssumption DEF Next1
<1>2. /\ Place(o, 0) = o
      /\ \A i \in 1 .. n - 1 : Place(p, i - 1) = Place(o, i)
  BY <1>1 DEF Place, Next1
<1> HIDE DEF p
<1>3. /\ r \in Seq(RingItems) /\ Len(r) = n - 1
      /\ \A i \in 1 .. n - 1 : r[i] = pool[Place(p, i - 1)]
  BY <1>1, MailsTyped
<1>4. /\ s \in Seq(RingItems) /\ Len(s) = n
      /\ \A i \in 1 .. n : s[i] = pool[Place(o, i - 1)]
  BY <1>1, MailsTyped
<1> HIDE DEF r, s
<1>5. s # <<>> /\ s[1] = pool[o] /\ Head(s) = s[1]
  <2>1. 1 \in 1 .. n /\ 1 - 1 = 0
    BY <1>1
  <2>2. s # <<>> /\ Head(s) = s[1]
    BY <1>1, <1>4
  <2>3. QED
    BY <1>2, <1>4, <2>1, <2>2
<1>6. /\ a \in Seq(RingItems) /\ Len(a) = n - 1
      /\ \A i \in 1 .. n - 1 : a[i] = s[i + 1]
  <2>1. /\ a \in Seq(RingItems) /\ Len(a) = Len(s) - 1
        /\ \A i \in 1 .. Len(a) : a[i] = s[i + 1]
    BY <1>4, <1>5, HeadTailProperties
  <2>2. QED
    BY <1>4, <2>1
<1> HIDE DEF a
<1>7. ASSUME NEW i \in 1 .. n - 1 PROVE r[i] = a[i]
  <2>1. i + 1 \in 1 .. n /\ (i + 1) - 1 = i
    BY <1>1
  <2>2. a[i] = pool[Place(o, i)]
    BY <1>4, <1>6, <2>1
  <2>3. QED
    BY <1>2, <1>3, <2>2
<1>8. r = a
  BY <1>3, <1>6, <1>7, SeqEqual
<1>9. QED
  BY <1>5, <1>8 DEF r, a, s, p

(* What BoundedQueue sees of the ring, before and after a step *)
LEMMA QueueSeen ==
  /\ RingTyped => [i \in 1 .. entry |-> msg_pool[(out_offset + i - 1) % size]]
                    = Mails(out_offset, entry, msg_pool)
  /\ RingTyped' => [i \in 1 .. entry |-> msg_pool[(out_offset + i - 1) % size]]'
                     = Mails(out_offset', entry', msg_pool')
<1>1. RingTyped => [i \in 1 .. entry |-> msg_pool[(out_offset + i - 1) % size]]
                    = Mails(out_offset, entry, msg_pool)
  BY QueueIsMails DEF RingTyped
<1>2. RingTyped' => [i \in 1 .. entry' |-> msg_pool'[(out_offset' + i - 1) % size]]
                     = Mails(out_offset', entry', msg_pool')
  BY QueueIsMails DEF RingTyped
<1>3. QED
  BY <1>1, <1>2

(* a send *)
LEMMA SendRefines ==
  ASSUME RingTyped, RingOK, NEW m \in Mail, PutMail(m), UNCHANGED received
  PROVE  Q!Send(m)
<1>1. RingTyped' /\ entry' = entry + 1 /\ entry < size
  BY PutRing
<1>2. /\ out_offset \in 0 .. size - 1 /\ entry \in 0 .. size - 1 /\ entry \in 0 .. size
      /\ msg_pool \in [0 .. size - 1 -> RingItems] /\ m \in RingItems
  BY <1>1, MailboxAssumption DEF RingTyped, RingItems
<1>3. /\ out_offset' = out_offset
      /\ msg_pool' = [msg_pool EXCEPT ![Place(out_offset, entry)] = m]
  BY DEF PutMail, RingOK, Slot, Place
<1>4. Mails(out_offset', entry', msg_pool') = Append(Mails(out_offset, entry, msg_pool), m)
  BY <1>1, <1>2, <1>3, PutAppends
<1>5. Len(Mails(out_offset, entry, msg_pool)) < size
  BY <1>1, <1>2, MailsTyped
<1>6. QED
  BY <1>1, <1>4, <1>5, QueueSeen DEF Q!Send

(* an urgent send *)
LEMMA UrgentRefines ==
  ASSUME RingTyped, RingOK, NEW m \in Mail, PutUrgentMail(m), UNCHANGED received
  PROVE  Q!Urgent(m)
<1>1. RingTyped' /\ entry' = entry + 1 /\ entry < size
  BY PutRing
<1>2. /\ out_offset \in 0 .. size - 1 /\ entry \in 0 .. size - 1 /\ entry \in 0 .. size
      /\ msg_pool \in [0 .. size - 1 -> RingItems] /\ m \in RingItems
  BY <1>1, MailboxAssumption DEF RingTyped, RingItems
<1>3. /\ out_offset' = Prev1(out_offset)
      /\ msg_pool' = [msg_pool EXCEPT ![Prev1(out_offset)] = m]
  BY DEF PutUrgentMail
<1>4. Mails(out_offset', entry', msg_pool') = <<m>> \o Mails(out_offset, entry, msg_pool)
  BY <1>1, <1>2, <1>3, PutPrepends
<1>5. Len(Mails(out_offset, entry, msg_pool)) < size
  BY <1>1, <1>2, MailsTyped
<1>6. QED
  BY <1>1, <1>4, <1>5, QueueSeen DEF Q!Urgent

(* a receive *)
LEMMA FetchRefines ==
  ASSUME RingTyped, RingOK, FetchMail
  PROVE  Q!Recv
<1>1. RingTyped' /\ entry' = entry - 1 /\ entry > 0
  BY FetchRing
<1>2. /\ out_offset \in 0 .. size - 1 /\ entry \in 1 .. size
      /\ msg_pool \in [0 .. size - 1 -> RingItems]
  BY <1>1, MailboxAssumption DEF RingTyped, RingItems
<1>3. /\ out_offset' = Next1(out_offset) /\ msg_pool' = msg_pool
      /\ received' = msg_pool[out_offset]
  BY DEF FetchMail
<1>4. /\ Mails(out_offset, entry, msg_pool) # <<>>
      /\ Head(Mails(out_offset, entry, msg_pool)) = msg_pool[out_offset]
      /\ Mails(out_offset', entry', msg_pool') = Tail(Mails(out_offset, entry, msg_pool))
  BY <1>1, <1>2, <1>3, FetchTakesFirst
<1>5. QED
  BY <1>1, <1>3, <1>4, QueueSeen DEF Q!Recv

(* Every step sends, takes or clears, or leaves the queue alone. *)
LEMMA StepRefines ==
  ASSUME IInv, [Next]_vars
  PROVE  \/ Q!Next
         \/ UNCHANGED <<ring, received>>
<1>1. RingTyped /\ RingOK
  BY DEF IInv, TypeOK, RingTyped
<1>2. \/ UNCHANGED <<ring, received>>
      \/ \E m \in Mail : PutMail(m) /\ UNCHANGED received
      \/ \E m \in Mail : PutUrgentMail(m) /\ UNCHANGED received
      \/ FetchMail
      \/ \E t \in Thread : ResetEnd(t)
  <2>1. ASSUME NEW t \in Thread \ {Idle}, SendResumed(t) PROVE mail[t] \in Mail
    BY <2>1 DEF SendResumed, IInv, SenderOK, At
  <2>2. ASSUME NEW t \in Thread \ {Idle}, Call(t)
        PROVE  \/ UNCHANGED <<ring, received>>
               \/ \E m \in Mail : PutMail(m) /\ UNCHANGED received
               \/ \E m \in Mail : PutUrgentMail(m) /\ UNCHANGED received
               \/ FetchMail
    BY <2>2 DEF Call, Send, Urgent, SendWait, Recv, RecvWait, ResetBegin
  <2>3. ASSUME NEW t \in Thread \ {Idle}, Continue(t)
        PROVE  \/ UNCHANGED <<ring, received>>
               \/ \E m \in Mail : PutMail(m) /\ UNCHANGED received
               \/ FetchMail
               \/ ResetEnd(t)
    BY <2>1, <2>3 DEF Continue, SendSchedule, SendFails, SendResumed, SendAgain,
       RecvSchedule, RecvFails, RecvResumed, RecvAgain, ResetReceiver, ResetSender, Schedule
  <2>4. QED
    BY <2>2, <2>3 DEF Next, IsrSend, IsrRecv, Tick, vars
<1>3. ASSUME NEW t \in Thread, ResetEnd(t) PROVE Q!Clear
  <2>1. /\ RingTyped' /\ entry' = 0 /\ UNCHANGED received
    BY <1>1, <1>3, MailboxAssumption DEF ResetEnd, RingTyped
  <2>2. Mails(out_offset', entry', msg_pool') = <<>>
    BY <2>1 DEF Mails
  <2>3. QED
    BY <2>1, <2>2, QueueSeen DEF Q!Clear
<1>4. QED
  BY <1>1, <1>2, <1>3, SendRefines, UrgentRefines, FetchRefines DEF Q!Next

(* A mailbox is a bounded queue, whatever its threads wait for, time out of *)
(* or are preempted in, and wherever in the ring the offsets are: mails in  *)
(* order, none lost and none handed out twice (rt_mb_send_wait,             *)
(* rt_mb_urgent, rt_mb_recv, rt_mb_control).                                *)
THEOREM IsABoundedQueue == Spec => ImplementsQueue
<1>1. Init => Q!Init
  <2>1. SUFFICES ASSUME Init PROVE Q!Init
    OBVIOUS
  <2>2. RingTyped /\ entry = 0 /\ received = NoMail
    BY <2>1, MailboxAssumption DEF Init, RingTyped
  <2>3. Mails(out_offset, entry, msg_pool) = <<>>
    BY <2>2 DEF Mails
  <2>4. QED
    BY <2>2, <2>3, QueueSeen DEF Q!Init
<1>2. IInv /\ [Next]_vars
        => [Q!Next]_<<[i \in 1 .. entry |-> msg_pool[(out_offset + i - 1) % size]], received>>
  BY StepRefines DEF ring
<1>3. QED
  BY <1>1, <1>2, Invariance, PTL DEF Spec, ImplementsQueue, Q!Spec
=============================================================================
