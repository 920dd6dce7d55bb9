---------------------------- MODULE EventProofs ----------------------------
(***************************************************************************)
(* An event, between any threads, for any flags and requests: one pass     *)
(* over the waiters finds all that can go on, and gives out a flag once.   *)
(***************************************************************************)
EXTENDS Event, KernelProofs

(* the event as KernelProofs sees a service *)
Service ==
  [way     |-> [l \in List |-> {"recv", "receiving"}],
   leave   |-> {"recv"},
   settled |-> {Run, "receiving"},
   points  |-> {Run, "recv", "receiving", "sched", "reset"}]

(***************************************************************************)
(* The inductive invariant.                                                *)
(***************************************************************************)
(* who is in rt_event_recv has said what it asks for *)
AskedOK == \A t \in Thread : pc[t] \in {"recv", "receiving"} => request[t] \in Request

Sound ==
  /\ Steady(Service)
  /\ AskedOK
  /\ ReceivedAsRequested
  /\ NoWaiterForgotten

IInv == TypeOK /\ Sound

(* The event's points satisfy what the shared lemmas ask of a service. *)
LEMMA ServiceFields ==
  /\ List = {"event"}
  /\ Way(Service, "event") = {"recv", "receiving"}
  /\ LeavePoints(Service) = {"recv"}
  /\ SettledPoints(Service) = {Run, "receiving"}
  /\ CallPoints(Service) = {Run, "recv", "receiving", "sched", "reset"}
  /\ ServiceOK(Service)
<1>1. List = {"event"}
  BY EventAssumption
<1>2. /\ Way(Service, "event") = {"recv", "receiving"}
      /\ LeavePoints(Service) = {"recv"}
      /\ SettledPoints(Service) = {Run, "receiving"}
      /\ CallPoints(Service) = {Run, "recv", "receiving", "sched", "reset"}
  BY <1>1 DEF Service, Way, LeavePoints, SettledPoints, CallPoints
<1>3. ServiceOK(Service)
  BY <1>1, <1>2 DEF ServiceOK, Run
<1>4. QED
  BY <1>1, <1>2, <1>3

(* Fewer flags satisfy fewer requests; what they give is part of both. *)
LEMMA MatchLemma ==
  ASSUME NEW s, NEW asked, NEW and
  PROVE  /\ Match(s, asked, and) \subseteq asked \cap s
         /\ and /\ Match(s, asked, and) # {} => Match(s, asked, and) = asked
         /\ \A u \in SUBSET s : Match(s, asked, and) = {} => Match(u, asked, and) = {}
BY DEF Match

(***************************************************************************)
(* Several threads leave their suspend list in one step.                   *)
(***************************************************************************)
(* the suspended threads in H have left their list and can run *)
AllResumed(k, u, H) ==
  /\ KernelOK(u) /\ H \subseteq Thread
  /\ \A l \in List : ToSet(u.list[l]) = ToSet(k.list[l]) \ H
  /\ u.error = k.error /\ u.lock = k.lock
  /\ \A x \in H : k.stat[x] = "SUSPEND" /\ u.stat[x] # "SUSPEND"
  /\ \A x \in Thread \ H : u.stat[x] = "SUSPEND" <=> k.stat[x] = "SUSPEND"

(* the same, and the processor has not changed hands *)
AllResumedHere(k, u, H) ==
  /\ AllResumed(k, u, H)
  /\ u.current = k.current
  /\ \A x \in Thread \ H : u.stat[x] = k.stat[x]

(* rt_thread_resume adds one of them. *)
LEMMA ResumeOneMore ==
  ASSUME NEW k, NEW u, NEW H, AllResumedHere(k, u, H),
         NEW t \in Thread \ H, k.stat[t] = "SUSPEND"
  PROVE  AllResumedHere(k, rt_thread_resume(u, t), H \cup {t})
<1> DEFINE v == rt_thread_resume(u, t)
<1>1. KernelOK(u) /\ u.stat[t] = "SUSPEND"
  BY DEF AllResumedHere, AllResumed
<1>2. ResumedHere(u, v, t, u.error[t])
  BY <1>1, ResumeHere
<1>3. /\ KernelOK(v) /\ Unlisting(u, v, t) /\ v.lock = u.lock /\ v.current = u.current
      /\ v.stat[t] # "SUSPEND"
      /\ \A x \in Thread \ {t} : v.stat[x] = u.stat[x]
  BY <1>2 DEF ResumedHere, ResumedWith
<1>4. v.error = u.error
  BY <1>1, ResumeLemma
<1> HIDE DEF v
<1>5. \A l \in List : ToSet(v.list[l]) = ToSet(k.list[l]) \ (H \cup {t})
  BY <1>3 DEF Unlisting, AllResumedHere, AllResumed
<1>6. \A x \in Thread \ (H \cup {t}) : v.stat[x] = k.stat[x]
  BY <1>3 DEF AllResumedHere
<1>7. \A x \in H \cup {t} : k.stat[x] = "SUSPEND" /\ v.stat[x] # "SUSPEND"
  BY <1>3 DEF AllResumedHere, AllResumed
<1>8. AllResumed(k, v, H \cup {t})
  BY <1>3, <1>4, <1>5, <1>6, <1>7 DEF AllResumedHere, AllResumed
<1>9. QED
  BY <1>3, <1>6, <1>8 DEF AllResumedHere, v

(* A call of rt_schedule after threads have been resumed *)
LEMMA ThenScheduleAll ==
  ASSUME NEW k, NEW u, NEW H, AllResumed(k, u, H), k.lock = 0
  PROVE  AllResumed(k, rt_schedule(u), H) /\ MostUrgent(rt_schedule(u))
<1> DEFINE v == rt_schedule(u)
<1>1. KernelOK(v) /\ Switched(u, v) /\ MostUrgent(v)
  BY ScheduleLemma DEF AllResumed
<1> HIDE DEF v
<1>2. AllResumed(k, v, H)
  BY <1>1 DEF AllResumed, Switched
<1>3. QED
  BY <1>1, <1>2 DEF v

(* Those who stay in a list wait there as before. *)
LEMMA AllResumedListed ==
  ASSUME KernelOK(kern), ListedOnWay(Service), NEW H, AllResumed(kern, kern', H),
         \A l \in List : \A x \in ToSet(kern.list[l]) : pc'[x] = pc[x]
  PROVE  ListedOnWay(Service)'
<1>1. ASSUME NEW l \in List, NEW x \in ToSet(kern'.list[l])
      PROVE  pc'[x] \in Way(Service, l) /\ kern'.error[x] = "RT_EOK"
  <2>1. x \in ToSet(kern.list[l])
    BY <1>1 DEF AllResumed
  <2>2. QED
    BY <2>1 DEF ListedOnWay, AllResumed
<1>2. QED
  BY <1>1 DEF ListedOnWay

(***************************************************************************)
(* The search of rt_event_send                                             *)
(***************************************************************************)
(* the state of the search before the first waiter is looked at *)
Start(flags) ==
  [kern |-> kern, set |-> set \cup flags, event_set |-> event_set, need_schedule |-> FALSE]

(* f[i] is the state of the search after i waiters of w *)
IsSearch(f, from, w) ==
  \A i \in 0 .. Len(w) : f[i] = IF i = 0 THEN from ELSE Look(f[i - 1], w[i])

(* The recursion of Search is defined. *)
LEMMA SearchDefined ==
  ASSUME NEW w \in Seq(Thread), w = Waiting, NEW flags
  PROVE  \E f : IsSearch(f, Start(flags), w) /\ Search(flags) = f[Len(w)]
<1> DEFINE from == Start(flags)
           F(f, n) == [i \in 0 .. n |-> IF i = 0 THEN from ELSE Look(f[i - 1], w[i])]
           Defined(n) == \E f : f = F(f, n)
           Bad == {n \in 0 .. Len(w) : ~ Defined(n)}
           m == Min(Bad)
           found == CHOOSE f : f = F(f, Len(w))
<1>1. Len(w) \in Nat
  BY LenProperties
<1>2. Defined(0)
  <2> DEFINE f == [i \in 0 .. 0 |-> from]
  <2> HIDE DEF from
  <2>1. f = F(f, 0)
    OBVIOUS
  <2>2. QED
    BY <2>1
<1>3. ASSUME NEW n \in 0 .. Len(w), n # 0, Defined(n - 1) PROVE Defined(n)
  <2>1. PICK f : f = F(f, n - 1)
    BY <1>3
  <2> DEFINE g == [i \in 0 .. n |-> IF i = n THEN Look(f[n - 1], w[n]) ELSE f[i]]
  <2> HIDE DEF from
  <2>2. ASSUME NEW i \in 0 .. n
        PROVE  g[i] = IF i = 0 THEN from ELSE Look(g[i - 1], w[i])
    <3>1. CASE i = n
      <4>1. n - 1 \in 0 .. n /\ n - 1 # n
        BY <1>1, <1>3
      <4>2. g[n - 1] = f[n - 1] /\ g[n] = Look(f[n - 1], w[n])
        BY <4>1
      <4>3. QED
        BY <1>3, <3>1, <4>2
    <3>2. CASE i # n
      <4>1. i \in 0 .. n - 1 /\ (i # 0 => i - 1 \in 0 .. n /\ i - 1 # n)
        BY <1>1, <3>2
      <4>2. g[i] = f[i] /\ (i # 0 => g[i - 1] = f[i - 1])
        BY <3>2, <4>1
      <4>3. f[i] = F(f, n - 1)[i]
        BY <2>1
      <4>4. f[i] = IF i = 0 THEN from ELSE Look(f[i - 1], w[i])
        BY <4>1, <4>3
      <4>5. QED
        BY <4>2, <4>4
    <3>3. QED
      BY <3>1, <3>2
  <2>3. g = F(g, n)
    BY <2>2
  <2> HIDE DEF g
  <2>4. QED
    BY <2>3
<1>4. Bad = {}
  <2>1. SUFFICES ASSUME Bad # {} PROVE FALSE
    OBVIOUS
  <2> HIDE DEF Defined
  <2>2. m \in Bad /\ \A y \in Bad : m <= y
    BY <1>1, <2>1, MinLemma
  <2> HIDE DEF m
  <2>3. m \in 0 .. Len(w) /\ ~ Defined(m) /\ m # 0
    BY <1>2, <2>2
  <2>4. m - 1 \in 0 .. Len(w) /\ m - 1 \notin Bad
    BY <1>1, <2>2, <2>3
  <2>5. QED
    BY <1>3, <2>3, <2>4
<1>5. found = F(found, Len(w))
  <2>1. Defined(Len(w))
    BY <1>1, <1>4
  <2> HIDE DEF F
  <2>2. QED
    BY <2>1
<1>6. Search(flags) = found[Len(w)]
  BY DEF Search, Start
<1>7. IsSearch(found, from, w)
  <2> HIDE DEF found, from
  <2>1. \A i \in 0 .. Len(w) : found[i] = F(found, Len(w))[i]
    BY <1>5
  <2>2. QED
    BY <2>1 DEF IsSearch
<1>8. QED
  BY <1>6, <1>7

(* what a receiver with request q may report *)
Fits(got, q) ==
  /\ got # {} /\ got \subseteq q.set
  /\ q.and => got = q.set

(* After i waiters: those in H have been resumed with flags that fit, no    *)
(* two that clear with the same one, and the others cannot go on.           *)
Searched(r, H, i, flags) ==
  /\ r = [kern |-> r.kern, set |-> r.set, event_set |-> r.event_set,
          need_schedule |-> r.need_schedule]
  /\ AllResumedHere(kern, r.kern, H)
  /\ H = {} => r.kern = kern
  /\ r.need_schedule = (H # {})
  /\ r.set \subseteq set \cup flags
  /\ r.event_set \in [Thread -> SUBSET Flag]
  /\ \A x \in Thread \ H : r.event_set[x] = event_set[x]
  /\ H \subseteq {Waiting[j] : j \in 1 .. i}
  /\ \A j \in 1 .. i : Waiting[j] \notin H =>
       Match(r.set, request[Waiting[j]].set, request[Waiting[j]].and) = {}
  /\ \A x \in H : Fits(r.event_set[x], request[x])
  /\ \A x \in H : request[x].clear =>
       /\ r.event_set[x] \cap r.set = {}
       /\ \A y \in H \ {x} : request[y].clear => r.event_set[x] \cap r.event_set[y] = {}

(* what a look at the waiter t changes when it gets something *)
Given(r, v, t, got) ==
  /\ v = [kern |-> v.kern, set |-> v.set, event_set |-> v.event_set, need_schedule |-> TRUE]
  /\ v.kern = rt_thread_resume(r.kern, t)
  /\ v.set = IF request[t].clear THEN r.set \ got ELSE r.set
  /\ v.event_set[t] = got
  /\ \A x \in Thread \ {t} : v.event_set[x] = r.event_set[x]
  /\ v.event_set \in [Thread -> SUBSET Flag]

(* A look at a waiter that cannot go on, and at one that can *)
LEMMA LookLemma ==
  ASSUME NEW r, NEW H, NEW i, NEW flags, Searched(r, H, i, flags), NEW t \in Thread,
         NEW got \in SUBSET Flag, got = Match(r.set, r.event_set[t], request[t].and)
  PROVE  /\ got = {} => Look(r, t) = r
         /\ got # {} => Given(r, Look(r, t), t, got)
<1> DEFINE s == IF request[t].clear THEN r.set \ got ELSE r.set
           v == [kern |-> rt_thread_resume(r.kern, t), set |-> s,
                 event_set |-> [r.event_set EXCEPT ![t] = got], need_schedule |-> TRUE]
<1>1. got = {} => Look(r, t) = r
  BY DEF Look
<1>2. got # {} => Look(r, t) = v
  BY DEF Look
<1> HIDE DEF s
<1>3. r.event_set \in [Thread -> SUBSET Flag]
  BY DEF Searched
<1>4. v = [kern |-> v.kern, set |-> v.set, event_set |-> v.event_set, need_schedule |-> TRUE]
  OBVIOUS
<1>5. /\ v.kern = rt_thread_resume(r.kern, t) /\ v.set = s
      /\ v.event_set = [r.event_set EXCEPT ![t] = got] /\ v.need_schedule = TRUE
  OBVIOUS
<1> HIDE DEF v
<1>6. Given(r, v, t, got)
  BY <1>3, <1>4, <1>5 DEF Given, s
<1>7. QED
  BY <1>1, <1>2, <1>6

(* A waiter asks for what its request says. *)
LEMMA WaiterAsks ==
  ASSUME IInv, NEW t \in ToSet(Waiting)
  PROVE  /\ t \in Thread /\ kern.stat[t] = "SUSPEND" /\ kern.error[t] = "RT_EOK"
         /\ pc[t] \in {"recv", "receiving"}
         /\ request[t] \in Request /\ event_set[t] = request[t].set
         /\ request[t].set \in SUBSET Flag \ {{}}
<1>1. KernelOK(kern) /\ "event" \in List /\ "event" # "rt_thread_defunct"
  BY ServiceFields DEF IInv, Sound, Steady
<1>2. t \in Thread
  BY <1>1, ListedThreads DEF Waiting
<1>3. kern.stat[t] = "SUSPEND"
  BY <1>1 DEF KernelOK, SuspendListOK, ListedStat, Waiting
<1>4. pc[t] \in {"recv", "receiving"} /\ kern.error[t] = "RT_EOK"
  BY <1>1, ServiceFields DEF IInv, Sound, Steady, ListedOnWay, Waiting
<1>5. request[t] \in Request /\ event_set[t] = request[t].set
  BY <1>2, <1>3, <1>4 DEF IInv, Sound, AskedOK, ReceivedAsRequested
<1>6. request[t].set \in SUBSET Flag \ {{}}
  BY <1>5, EventAssumption
<1>7. QED
  BY <1>2, <1>3, <1>4, <1>5, <1>6

(* Every look keeps what the search has established. *)
LEMMA LookStep ==
  ASSUME IInv, NEW flags \in SUBSET Flag, NEW i \in 1 .. Len(Waiting), NEW r, NEW H,
         Searched(r, H, i - 1, flags)
  PROVE  \E G : Searched(Look(r, Waiting[i]), G, i, flags)
<1> DEFINE t == Waiting[i]
           got == Match(r.set, r.event_set[t], request[t].and)
           v == Look(r, t)
<1>0. /\ Waiting \in Seq(Thread) /\ Len(Waiting) \in Nat
      /\ IsInjective(Waiting) /\ ToSet(Waiting) \subseteq Thread
  <2>1. KernelOK(kern) /\ "event" \in List
    BY ServiceFields DEF IInv, Sound, Steady
  <2>2. QED
    BY <2>1, ListedThreads, LenProperties DEF Waiting, KernelOK, SuspendListOK
<1>1. /\ t \in ToSet(Waiting) /\ t \in Thread
      /\ \A j \in 1 .. i - 1 : Waiting[j] # t
  BY <1>0, LenProperties DEF ToSet, IsInjective
<1>2. /\ kern.stat[t] = "SUSPEND" /\ event_set[t] = request[t].set
      /\ request[t].set \in SUBSET Flag
  BY <1>1, WaiterAsks
<1>3. t \notin H /\ H \subseteq Thread
  BY <1>1 DEF Searched, AllResumedHere, AllResumed
<1>4. r.event_set[t] = request[t].set
  BY <1>1, <1>2, <1>3 DEF Searched
<1>5. i - 1 \in Nat /\ 1 .. i = (1 .. i - 1) \cup {i}
  BY <1>0
<1>6. got \in SUBSET Flag
  BY <1>2, <1>4 DEF Match
<1>7. CASE got = {}
  <2>1. v = r
    BY <1>1, <1>6, <1>7, LookLemma
  <2>2. \A j \in 1 .. i : Waiting[j] \notin H =>
          Match(r.set, request[Waiting[j]].set, request[Waiting[j]].and) = {}
    BY <1>4, <1>5, <1>7 DEF Searched
  <2>3. H \subseteq {Waiting[j] : j \in 1 .. i}
    BY <1>5 DEF Searched
  <2>4. Searched(r, H, i, flags)
    BY <2>2, <2>3 DEF Searched
  <2>5. QED
    BY <2>1, <2>4
<1>8. CASE got # {}
  <2> DEFINE G == H \cup {t}
  <2>1. Given(r, v, t, got)
    BY <1>1, <1>6, <1>8, LookLemma
  <2> HIDE DEF v
  <2>2. AllResumedHere(kern, v.kern, G)
    BY <1>1, <1>2, <1>3, <2>1, ResumeOneMore DEF Given, Searched
  <2>3. /\ v = [kern |-> v.kern, set |-> v.set, event_set |-> v.event_set,
                need_schedule |-> v.need_schedule]
        /\ v.need_schedule = (G # {}) /\ G # {}
        /\ v.event_set \in [Thread -> SUBSET Flag]
    <3>1. v.need_schedule = TRUE
      BY <2>1 DEF Given
    <3>2. QED
      BY <2>1, <3>1 DEF Given
  <2>4. v.set \subseteq r.set /\ (request[t].clear => v.set \cap got = {})
    BY <2>1 DEF Given
  <2>5. v.set \subseteq set \cup flags
    BY <2>4 DEF Searched
  <2>6. \A x \in Thread \ G : v.event_set[x] = event_set[x]
    BY <2>1 DEF Given, Searched
  <2>7. G \subseteq {Waiting[j] : j \in 1 .. i}
    BY <1>5 DEF Searched
  <2>8. \A j \in 1 .. i : Waiting[j] \notin G =>
          Match(v.set, request[Waiting[j]].set, request[Waiting[j]].and) = {}
    <3>1. ASSUME NEW j \in 1 .. i, Waiting[j] \notin G
          PROVE  Match(v.set, request[Waiting[j]].set, request[Waiting[j]].and) = {}
      <4>1. j \in 1 .. i - 1 /\ Waiting[j] \notin H
        BY <1>5, <3>1
      <4>2. Match(r.set, request[Waiting[j]].set, request[Waiting[j]].and) = {}
        BY <4>1 DEF Searched
      <4>3. QED
        BY <2>4, <4>2, MatchLemma
    <3>2. QED
      BY <3>1
  <2>9. got \subseteq request[t].set /\ got \subseteq r.set
        /\ (request[t].and => got = request[t].set)
    BY <1>4, <1>8, MatchLemma
  <2> HIDE DEF got
  <2>10. v.event_set[t] = got /\ \A x \in H : v.event_set[x] = r.event_set[x]
    BY <1>3, <2>1 DEF Given
  <2>11. \A x \in G : Fits(v.event_set[x], request[x])
    BY <1>8, <2>9, <2>10 DEF Searched, Fits
  <2>12. \A x \in H : request[x].clear =>
           /\ r.event_set[x] \cap r.set = {}
           /\ \A y \in H \ {x} : request[y].clear => r.event_set[x] \cap r.event_set[y] = {}
    BY DEF Searched
  <2>13. \A x \in G : request[x].clear =>
           /\ v.event_set[x] \cap v.set = {}
           /\ \A y \in G \ {x} : request[y].clear => v.event_set[x] \cap v.event_set[y] = {}
    <3>1. \A x \in H : request[x].clear =>
            v.event_set[x] \cap v.set = {} /\ v.event_set[x] \cap got = {}
      BY <2>4, <2>9, <2>10, <2>12
    <3>2. ASSUME NEW x \in G, request[x].clear PROVE v.event_set[x] \cap v.set = {}
      BY <2>4, <2>10, <3>1, <3>2
    <3>3. ASSUME NEW x \in G, request[x].clear, NEW y \in G \ {x}, request[y].clear
          PROVE  v.event_set[x] \cap v.event_set[y] = {}
      <4>1. CASE x \in H /\ y \in H
        BY <2>10, <2>12, <3>3, <4>1
      <4>2. CASE x \in H /\ y = t
        BY <2>10, <3>1, <3>3, <4>2
      <4>3. CASE x = t /\ y \in H
        BY <2>10, <3>1, <3>3, <4>3
      <4>4. QED
        BY <3>3, <4>1, <4>2, <4>3
    <3>4. QED
      BY <3>2, <3>3
  <2> HIDE DEF G
  <2>14. Searched(v, G, i, flags)
    BY <2>2, <2>3, <2>5, <2>6, <2>7, <2>8, <2>11, <2>13 DEF Searched
  <2>15. QED
    BY <2>14 DEF v
<1>9. QED
  BY <1>7, <1>8

(* The whole search *)
LEMMA SearchLemma ==
  ASSUME IInv, NEW flags \in SUBSET Flag
  PROVE  \E H : Searched(Search(flags), H, Len(Waiting), flags)
<1> DEFINE n == Len(Waiting)
<1>0. Waiting \in Seq(Thread) /\ n \in Nat
  <2>1. KernelOK(kern) /\ "event" \in List
    BY ServiceFields DEF IInv, Sound, Steady
  <2>2. QED
    BY <2>1, ListedThreads, LenProperties DEF Waiting
<1>1. PICK f : IsSearch(f, Start(flags), Waiting) /\ Search(flags) = f[n]
  BY <1>0, SearchDefined
<1> DEFINE P(i) == \E H : Searched(f[i], H, i, flags)
           Bad == {i \in 0 .. n : ~ P(i)}
           m == Min(Bad)
<1>2. P(0)
  <2> DEFINE r == Start(flags)
  <2>1. f[0] = r
    BY <1>0, <1>1 DEF IsSearch
  <2>2. AllResumedHere(kern, kern, {})
    BY DEF AllResumedHere, AllResumed, IInv, Sound, Steady
  <2>3. event_set \in [Thread -> SUBSET Flag]
    BY DEF IInv, Sound, TypeOK
  <2>4. /\ r.kern = kern /\ r.set = set \cup flags /\ r.event_set = event_set
        /\ r.need_schedule = FALSE
        /\ r = [kern |-> r.kern, set |-> r.set, event_set |-> r.event_set,
                need_schedule |-> r.need_schedule]
    BY DEF Start
  <2> HIDE DEF r
  <2>5. 1 .. 0 = {}
    OBVIOUS
  <2>6. Searched(r, {}, 0, flags)
    BY <2>2, <2>3, <2>4, <2>5 DEF Searched
  <2>7. QED
    BY <2>1, <2>6
<1>3. ASSUME NEW i \in 1 .. n, P(i - 1) PROVE P(i)
  <2>1. PICK H : Searched(f[i - 1], H, i - 1, flags)
    BY <1>3
  <2>2. f[i] = Look(f[i - 1], Waiting[i])
    BY <1>0, <1>1 DEF IsSearch
  <2>3. QED
    BY <2>1, <2>2, LookStep
<1> HIDE DEF P
<1>4. Bad = {}
  <2>1. SUFFICES ASSUME Bad # {} PROVE FALSE
    OBVIOUS
  <2>2. m \in Bad /\ \A y \in Bad : m <= y
    BY <1>0, <2>1, MinLemma
  <2> HIDE DEF m
  <2>3. m \in 1 .. n /\ ~ P(m)
    BY <1>0, <1>2, <2>2
  <2>4. m - 1 \in 0 .. n /\ m - 1 \notin Bad
    BY <1>0, <2>2, <2>3
  <2>5. QED
    BY <1>3, <2>3, <2>4
<1>5. P(n)
  BY <1>0, <1>4
<1>6. QED
  BY <1>1, <1>5 DEF P
(***************************************************************************)
(* The steps                                                               *)
(***************************************************************************)
Waits == {"recv", "receiving"}

(* Receivers that stay in their call and are awake exactly if they were     *)
(* before have what they should have; so has one that has just been given   *)
(* flags, and one that enters the list.                                     *)
LEMMA ReportsKept ==
  ASSUME AskedOK, ReceivedAsRequested, NEW T,
         \A x \in Thread \ T : pc'[x] \in Waits =>
           /\ pc[x] \in Waits
           /\ request'[x] = request[x] /\ event_set'[x] = event_set[x]
           /\ x \in Awake(Waits)' <=> x \in Awake(Waits),
         \A x \in T : pc'[x] \in Waits =>
           /\ request'[x] \in Request
           /\ \/ event_set'[x] = request'[x].set /\ kern'.stat[x] = "SUSPEND"
              \/ Fits(event_set'[x], request'[x]) /\ x \in Awake(Waits)'
  PROVE  AskedOK' /\ ReceivedAsRequested'
<1>1. ASSUME NEW x \in Thread, pc'[x] \in Waits PROVE request'[x] \in Request
  BY <1>1 DEF AskedOK, Waits
<1>2. ASSUME NEW x \in Thread, pc'[x] \in Waits
      PROVE  IF kern'.stat[x] # "SUSPEND" /\ kern'.error[x] = "RT_EOK"
             THEN Fits(event_set'[x], request'[x])
             ELSE event_set'[x] = request'[x].set
  <2>1. kern'.stat[x] # "SUSPEND" /\ kern'.error[x] = "RT_EOK" <=> x \in Awake(Waits)'
    BY <1>2 DEF Awake
  <2>2. CASE x \in T
    BY <1>2, <2>1, <2>2 DEF Awake
  <2>3. CASE x \notin T
    <3>1. /\ pc[x] \in Waits
          /\ request'[x] = request[x] /\ event_set'[x] = event_set[x]
          /\ x \in Awake(Waits)' <=> x \in Awake(Waits)
      BY <1>2, <2>3
    <3>2. kern.stat[x] # "SUSPEND" /\ kern.error[x] = "RT_EOK" <=> x \in Awake(Waits)
      BY <3>1 DEF Awake
    <3>3. IF x \in Awake(Waits) THEN Fits(event_set[x], request[x])
          ELSE event_set[x] = request[x].set
      BY <3>1, <3>2 DEF ReceivedAsRequested, Fits, Waits
    <3>4. QED
      BY <2>1, <3>1, <3>3
  <2>4. QED
    BY <2>2, <2>3
<1>3. AskedOK'
  BY <1>1 DEF AskedOK, Waits
<1>4. ReceivedAsRequested'
  BY <1>2 DEF ReceivedAsRequested, Fits, Waits
<1>5. QED
  BY <1>3, <1>4

(* A step that changes no request and wakes nobody up *)
LEMMA ReportsSame ==
  ASSUME AskedOK, ReceivedAsRequested, UNCHANGED <<request, event_set>>,
         \A x \in Thread : pc'[x] \in Waits <=> pc[x] \in Waits,
         Awake(Waits)' = Awake(Waits)
  PROVE  AskedOK' /\ ReceivedAsRequested'
<1> DEFINE T == {}
<1>1. \A x \in Thread \ T : pc'[x] \in Waits =>
        /\ pc[x] \in Waits
        /\ request'[x] = request[x] /\ event_set'[x] = event_set[x]
        /\ x \in Awake(Waits)' <=> x \in Awake(Waits)
  OBVIOUS
<1>2. \A x \in T : pc'[x] \in Waits =>
        /\ request'[x] \in Request
        /\ \/ event_set'[x] = request'[x].set /\ kern'.stat[x] = "SUSPEND"
           \/ Fits(event_set'[x], request'[x]) /\ x \in Awake(Waits)'
  OBVIOUS
<1> HIDE DEF T
<1>3. QED
  BY <1>1, <1>2, ReportsKept

(* Nobody is forgotten while flags are only taken away, unless a reset that *)
(* has let everybody go has just ended.                                     *)
LEMMA ForgottenKept ==
  ASSUME NoWaiterForgotten, ToSet(Waiting)' \subseteq ToSet(Waiting),
         set' \subseteq set, \A x \in ToSet(Waiting)' : request'[x] = request[x],
         pc[kern.current] = "reset" => pc'[kern'.current] = "reset"
  PROVE  NoWaiterForgotten'
<1> SUFFICES ASSUME pc'[kern'.current] # "reset", NEW x \in ToSet(Waiting)'
             PROVE  Match(set', request'[x].set, request'[x].and) = {}
  BY DEF NoWaiterForgotten
<1>1. Match(set, request[x].set, request[x].and) = {}
  BY DEF NoWaiterForgotten
<1>2. Match(set', request[x].set, request[x].and) = {}
  BY <1>1, MatchLemma
<1>3. QED
  BY <1>2

(* Who waits in the list is in rt_event_recv. *)
LEMMA WaitersCalled ==
  ASSUME Steady(Service), Steady(Service)'
  PROVE  /\ \A x \in ToSet(Waiting) : x \in Thread /\ pc[x] \in Waits
         /\ \A x \in ToSet(Waiting)' : x \in Thread /\ pc'[x] \in Waits
<1>1. "event" \in List /\ Way(Service, "event") = Waits
  BY ServiceFields DEF Waits
<1>2. \A x \in ToSet(Waiting) : x \in Thread /\ pc[x] \in Waits
  BY <1>1, ListedThreads DEF Steady, ListedOnWay, Waiting
<1>3. KernelOK(kern') /\ ToSet(kern'.list["event"]) \subseteq Thread
  BY <1>1, ListedThreads DEF Steady
<1>4. \A x \in ToSet(kern'.list["event"]) : pc'[x] \in Waits
  BY <1>1 DEF Steady, ListedOnWay
<1>5. QED
  BY <1>2, <1>3, <1>4 DEF Waiting

(* Steps that leave the flags and who is awake alone, but for the thread t *)
(* that leaves its call.                                                    *)
LEMMA QuietStep ==
  ASSUME IInv, Steady(Service)', NEW t,
         pc'[t] \notin Waits, \A x \in Thread \ {t} : pc'[x] \in Waits <=> pc[x] \in Waits,
         \A x \in Thread \ {t} : /\ request'[x] = request[x]
                                 /\ event_set'[x] = event_set[x]
                                 /\ x \in Awake(Waits)' <=> x \in Awake(Waits),
         ToSet(Waiting)' \subseteq ToSet(Waiting), set' \subseteq set,
         pc[kern.current] = "reset" => pc'[kern'.current] = "reset"
  PROVE  Sound'
<1>1. AskedOK' /\ ReceivedAsRequested'
  <2>1. \A x \in Thread \ {t} : pc'[x] \in Waits =>
          /\ pc[x] \in Waits
          /\ request'[x] = request[x] /\ event_set'[x] = event_set[x]
          /\ x \in Awake(Waits)' <=> x \in Awake(Waits)
    OBVIOUS
  <2>2. \A x \in {t} : pc'[x] \in Waits =>
          /\ request'[x] \in Request
          /\ \/ event_set'[x] = request'[x].set /\ kern'.stat[x] = "SUSPEND"
             \/ Fits(event_set'[x], request'[x]) /\ x \in Awake(Waits)'
    OBVIOUS
  <2>3. QED
    BY <2>1, <2>2, ReportsKept DEF IInv, Sound
<1>2. NoWaiterForgotten'
  <2>1. \A x \in ToSet(Waiting)' : request'[x] = request[x]
    BY WaitersCalled DEF IInv, Sound
  <2>2. QED
    BY <2>1, ForgottenKept DEF IInv, Sound
<1>3. QED
  BY <1>1, <1>2 DEF IInv, Sound

(* Threads resumed by a call of the running thread, which reschedules then *)
LEMMA SendSteady ==
  ASSUME Steady(Service), NEW H, AllResumedHere(kern, kern', H), H # {} ,
         NEW t \in Thread, At(t, Run), Goto(t, "sched")
  PROVE  Steady(Service)'
<1>1. /\ HasCpu(kern, t) /\ pc[t] = Run /\ KernelOK(kern)
      /\ \A l \in List : t \notin ToSet(kern.list[l])
  BY ServiceFields, StepperRuns DEF Steady, Run
<1>2. Moved(t, "sched") /\ pc' \in [Thread -> CallPoints(Service)]
  BY ServiceFields DEF Goto, Moved, Steady
<1>3. \A l \in List : \A x \in ToSet(kern.list[l]) : pc'[x] = pc[x]
  BY <1>1, <1>2, ListedThreads DEF Moved
<1>4. ListedOnWay(Service)'
  BY <1>1, <1>3, AllResumedListed DEF Steady, AllResumedHere
<1>5. t \notin H
  BY <1>1 DEF AllResumedHere, AllResumed, HasCpu
<1>6. /\ KernelOK(kern') /\ kern'.lock = 0 /\ kern'.current = t
      /\ kern'.stat[t] = "RUNNING" /\ pc'[t] = "sched"
  BY <1>1, <1>2, <1>5 DEF AllResumedHere, AllResumed, HasCpu, Moved, Steady
<1>7. MostUrgentRunsAt(SettledPoints(Service))'
  BY <1>6, ServiceFields DEF MostUrgentRunsAt, Run
<1>8. QED
  BY <1>2, <1>4, <1>6, <1>7 DEF Steady

(* threads resumed by an interrupt handler *)
LEMMA IsrSendSteady ==
  ASSUME Steady(Service), NEW H, NEW k, AllResumed(kern, k, H),
         kern' = rt_schedule(k), UNCHANGED pc
  PROVE  Steady(Service)' /\ AllResumed(kern, kern', H)
<1>1. AllResumed(kern, kern', H) /\ MostUrgent(kern')
  BY ThenScheduleAll DEF Steady
<1>2. ListedOnWay(Service)'
  BY <1>1, AllResumedListed DEF Steady
<1>3. MostUrgentRunsAt(SettledPoints(Service))'
  BY <1>1 DEF MostUrgentRunsAt, MostUrgent
<1>4. QED
  BY <1>1, <1>2, <1>3 DEF Steady, MostUrgent, AllResumed

(* what a send leaves behind, with H the threads that it resumes *)
Sent(H, flags) ==
  /\ AllResumed(kern, kern', H)
  /\ H \subseteq ToSet(Waiting)
  /\ \A x \in Thread : pc'[x] \in Waits <=> pc[x] \in Waits
  /\ set' \subseteq set \cup flags
  /\ event_set' \in [Thread -> SUBSET Flag]
  /\ \A x \in Thread \ H : event_set'[x] = event_set[x]
  /\ \A x \in ToSet(Waiting) \ H : Match(set', request[x].set, request[x].and) = {}
  /\ \A x \in H : Fits(event_set'[x], request[x])
  /\ \A x \in H : request[x].clear =>
       /\ event_set'[x] \cap set' = {}
       /\ \A y \in H \ {x} : request[y].clear => event_set'[x] \cap event_set'[y] = {}

(* What the search found, after the step *)
LEMMA SearchedSent ==
  ASSUME IInv, NEW flags \in SUBSET Flag, NEW H, NEW r,
         Searched(r, H, Len(Waiting), flags),
         AllResumed(kern, kern', H), set' = r.set, event_set' = r.event_set,
         \A x \in Thread : pc'[x] \in Waits <=> pc[x] \in Waits
  PROVE  Sent(H, flags)
<1>1. "event" \in List /\ Waiting \in Seq(Thread)
  BY ServiceFields, ListedThreads DEF IInv, Sound, Steady, Waiting
<1>2. ToSet(Waiting) = {Waiting[j] : j \in 1 .. Len(Waiting)}
  BY <1>1, LenProperties DEF ToSet
<1>3. \A x \in ToSet(Waiting) \ H : Match(r.set, request[x].set, request[x].and) = {}
  BY <1>2 DEF Searched
<1>4. QED
  BY <1>2, <1>3 DEF Sent, Searched

(* The invariant after a send *)
LEMMA SentKeeps ==
  ASSUME IInv, Steady(Service)', NEW flags, NEW H, Sent(H, flags),
         UNCHANGED request
  PROVE  Sound'
<1>1. \A x \in Thread \ H : pc'[x] \in Waits =>
        /\ pc[x] \in Waits
        /\ request'[x] = request[x] /\ event_set'[x] = event_set[x]
        /\ x \in Awake(Waits)' <=> x \in Awake(Waits)
  BY DEF Sent, AllResumed, Awake
<1>2. \A x \in H : pc'[x] \in Waits =>
        /\ request'[x] \in Request
        /\ Fits(event_set'[x], request'[x]) /\ x \in Awake(Waits)'
  <2>1. ASSUME NEW x \in H
        PROVE  /\ request'[x] \in Request
               /\ Fits(event_set'[x], request'[x]) /\ x \in Awake(Waits)'
    <3>1. /\ x \in Thread /\ kern.error[x] = "RT_EOK" /\ pc[x] \in Waits
          /\ request[x] \in Request
      BY WaiterAsks DEF Sent, Waits
    <3>2. kern'.stat[x] # "SUSPEND" /\ kern'.error[x] = "RT_EOK" /\ pc'[x] \in Waits
      BY <3>1 DEF Sent, AllResumed
    <3>3. QED
      BY <3>1, <3>2 DEF Sent, Awake
  <2>2. QED
    BY <2>1
<1>3. AskedOK' /\ ReceivedAsRequested'
  BY <1>1, <1>2, ReportsKept DEF IInv, Sound
<1>4. NoWaiterForgotten'
  <2>1. "event" \in List
    BY ServiceFields
  <2>2. ToSet(kern'.list["event"]) = ToSet(Waiting) \ H
    BY <2>1 DEF Sent, AllResumed, Waiting
  <2>3. \A x \in ToSet(kern'.list["event"]) : Match(set', request'[x].set, request'[x].and) = {}
    BY <2>2 DEF Sent
  <2>4. QED
    BY <2>3 DEF NoWaiterForgotten, Waiting
<1>5. QED
  BY <1>3, <1>4 DEF IInv, Sound
(* rt_event_send by a thread *)
LEMMA SendStep ==
  ASSUME IInv, NEW t \in Thread, NEW flags \in SUBSET Flag, Send(t, flags)
  PROVE  Sound' /\ \E H : Sent(H, flags)
<1> DEFINE r == Search(flags)
<1>1. /\ At(t, Run) /\ kern' = r.kern /\ set' = r.set /\ event_set' = r.event_set
      /\ Goto(t, IF r.need_schedule THEN "sched" ELSE Run) /\ UNCHANGED request
  BY DEF Send
<1>2. PICK H : Searched(r, H, Len(Waiting), flags)
  BY SearchLemma
<1> HIDE DEF r
<1>3. /\ AllResumedHere(kern, kern', H) /\ r.need_schedule = (H # {})
      /\ H = {} => kern' = kern
  BY <1>1, <1>2 DEF Searched
<1>4. pc[t] = Run /\ \A x \in Thread \ {t} : pc'[x] = pc[x]
  BY <1>1 DEF At, Goto, IInv, Sound, TypeOK
<1>5. CASE H = {}
  <2>1. kern' = kern /\ Goto(t, Run)
    BY <1>1, <1>3, <1>5
  <2>2. pc' = pc
    BY <1>4, <2>1 DEF Goto, IInv, Sound, TypeOK
  <2>3. Steady(Service)'
    BY <2>1, <2>2 DEF IInv, Sound, Steady, MostUrgentRunsAt, ListedOnWay
  <2>4. QED
    BY <1>1, <1>2, <1>3, <2>2, <2>3, SearchedSent, SentKeeps DEF AllResumedHere
<1>6. CASE H # {}
  <2>1. Goto(t, "sched")
    BY <1>1, <1>3, <1>6
  <2>2. Steady(Service)'
    BY <1>1, <1>3, <1>6, <2>1, SendSteady DEF IInv, Sound
  <2>3. \A x \in Thread : pc'[x] \in Waits <=> pc[x] \in Waits
    BY <1>4, <2>1 DEF Goto, IInv, Sound, TypeOK, Waits, Run
  <2>4. QED
    BY <1>1, <1>2, <1>3, <2>2, <2>3, SearchedSent, SentKeeps DEF AllResumedHere
<1>7. QED
  BY <1>5, <1>6

(* rt_event_send by an interrupt handler *)
LEMMA IsrSendStep ==
  ASSUME IInv, NEW flags \in SUBSET Flag, IsrSend(flags)
  PROVE  Sound' /\ \E H : Sent(H, flags)
<1> DEFINE r == Search(flags)
<1>1. /\ kern' = IF r.need_schedule THEN rt_schedule(r.kern) ELSE r.kern
      /\ set' = r.set /\ event_set' = r.event_set /\ pc' = pc /\ UNCHANGED request
  BY DEF IsrSend
<1>2. PICK H : Searched(r, H, Len(Waiting), flags)
  BY SearchLemma
<1> HIDE DEF r
<1>3. /\ AllResumed(kern, r.kern, H) /\ r.need_schedule = (H # {})
      /\ H = {} => r.kern = kern
  BY <1>2 DEF Searched, AllResumedHere
<1>4. AllResumed(kern, kern', H) /\ Steady(Service)'
  <2>1. CASE H = {}
    BY <1>1, <1>3, <2>1 DEF IInv, Sound, Steady, MostUrgentRunsAt, ListedOnWay
  <2>2. CASE H # {}
    BY <1>1, <1>3, <2>2, IsrSendSteady DEF IInv, Sound
  <2>3. QED
    BY <2>1, <2>2
<1>5. QED
  BY <1>1, <1>2, <1>4, SearchedSent, SentKeeps

(* Nobody is resumed with RT_EOK by a step after which no more are awake. *)
LEMMA NoneResumed ==
  ASSUME IInv, Awake(Waits)' \subseteq Awake(Waits),
         \A x \in ToSet(Waiting) : pc'[x] \in Waits
  PROVE  Resumed = {}
<1> SUFFICES ASSUME NEW x \in Resumed PROVE FALSE
  OBVIOUS
<1>1. /\ x \in ToSet(Waiting) /\ x \in Thread
      /\ kern.stat[x] = "SUSPEND" /\ pc'[x] \in Waits
      /\ kern'.stat[x] # "SUSPEND" /\ kern'.error[x] = "RT_EOK"
  BY WaiterAsks DEF Resumed
<1>2. x \in Awake(Waits)' /\ x \notin Awake(Waits)
  BY <1>1 DEF Awake
<1>3. QED
  BY <1>2

(* a step of the running thread that leaves its error number or nothing *)
LEMMA GoQuiet ==
  ASSUME IInv, NEW t \in Thread, NEW p, At(t, p), p # "recv",
         NEW q \in {Run, "sched", "reset"}, Goto(t, q),
         q = Run => p \in {Run, "receiving"}, p = "reset" => q = "reset",
         NEW e \in Error, kern' = kern \/ kern' = SetError(kern, t, e),
         \A x \in Thread \ {t} : request'[x] = request[x] /\ event_set'[x] = event_set[x],
         set' \subseteq set
  PROVE  Sound' /\ Resumed = {}
<1>1. /\ ServiceOK(Service) /\ p \notin LeavePoints(Service)
      /\ q \in CallPoints(Service) \ LeavePoints(Service)
      /\ q \in SettledPoints(Service) => p \in SettledPoints(Service)
      /\ "event" \in List /\ Way(Service, "event") = Waits
      /\ \A l \in List : q \notin Way(Service, l)
  BY ServiceFields DEF Run, Waits
<1>2. /\ Steady(Service)' /\ Moved(t, q) /\ kern'.list = kern.list
      /\ AllBut(Service, "event", t)
  BY <1>1, GoStep DEF IInv, Sound
<1>3. /\ q \notin Waits /\ pc'[t] = q /\ \A x \in Thread \ {t} : pc'[x] = pc[x]
      /\ Awake(Waits)' = Awake(Waits) \ {t}
  BY <1>1, <1>2 DEF Moved, AllBut, Waits, Run
<1>4. pc[kern.current] = "reset" => pc'[kern'.current] = "reset"
  <2>1. kern.current = t /\ pc[t] = p /\ kern'.current = t
    BY DEF At, SetError, IInv, Sound, Steady, KernelOK, KernelState
  <2>2. QED
    BY <1>3, <2>1
<1>5. ToSet(Waiting)' \subseteq ToSet(Waiting)
  BY <1>2 DEF Waiting
<1>6. Resumed = {}
  <2>1. t \notin ToSet(Waiting)
    BY <1>1, StepperRuns DEF IInv, Sound, Waiting
  <2>2. \A x \in ToSet(Waiting) : x \in Thread /\ pc[x] \in Waits
    BY <1>2, WaitersCalled DEF IInv, Sound
  <2>3. QED
    BY <1>3, <2>1, <2>2, NoneResumed
<1>7. QED
  BY <1>2, <1>3, <1>4, <1>5, <1>6, QuietStep

(* rt_event_recv that waits: the condition of t does not hold *)
LEMMA WaitKeeps ==
  ASSUME IInv, NEW t \in Thread \ {Idle}, NEW q \in Request,
         NEW timed \in BOOLEAN, RecvWait(t, q, timed)
  PROVE  Sound' /\ Resumed = {}
<1>1. /\ ServiceOK(Service) /\ Run \notin LeavePoints(Service)
      /\ "event" \in List /\ Way(Service, "event") = Waits
      /\ WaitPoint(Service, "recv", "event")
  BY ServiceFields DEF Run, Waits, WaitPoint
<1>2. /\ At(t, Run) /\ Match(set, q.set, q.and) = {}
      /\ WaitIn(t, "event", flag, timed, "recv") /\ set' = set
      /\ event_set'[t] = q.set /\ request'[t] = q
      /\ \A x \in Thread \ {t} : event_set'[x] = event_set[x] /\ request'[x] = request[x]
  BY DEF RecvWait, IInv, Sound, TypeOK
<1>3. /\ Steady(Service)' /\ Moved(t, "recv") /\ Enters(t, "event")
      /\ AllBut(Service, "event", t)
  BY <1>1, <1>2, WaitStep DEF IInv, Sound
<1>4. /\ ToSet(kern'.list["event"]) = ToSet(kern.list["event"]) \cup {t}
      /\ Awake(Waits)' = Awake(Waits) \ {t}
      /\ pc'[t] = "recv" /\ \A x \in Thread \ {t} : pc'[x] = pc[x]
  BY <1>1, <1>3 DEF Enters, AllBut, Moved
<1>5. kern'.stat[t] = "SUSPEND"
  BY <1>1, <1>3, <1>4, ServiceFields DEF Steady, KernelOK, SuspendListOK, ListedStat
<1>6. AskedOK' /\ ReceivedAsRequested'
  <2>1. \A x \in Thread \ {t} : pc'[x] \in Waits =>
          /\ pc[x] \in Waits
          /\ request'[x] = request[x] /\ event_set'[x] = event_set[x]
          /\ x \in Awake(Waits)' <=> x \in Awake(Waits)
    BY <1>2, <1>4
  <2>2. \A x \in {t} : pc'[x] \in Waits =>
          /\ request'[x] \in Request
          /\ \/ event_set'[x] = request'[x].set /\ kern'.stat[x] = "SUSPEND"
             \/ Fits(event_set'[x], request'[x]) /\ x \in Awake(Waits)'
    BY <1>2, <1>5
  <2>3. QED
    BY <2>1, <2>2, ReportsKept DEF IInv, Sound
<1>7. NoWaiterForgotten'
  <2>1. pc[kern.current] # "reset"
    BY <1>2 DEF At, Run
  <2>2. \A x \in ToSet(kern.list["event"]) : Match(set, request[x].set, request[x].and) = {}
    BY <2>1 DEF IInv, Sound, NoWaiterForgotten, Waiting
  <2>3. \A x \in ToSet(kern'.list["event"]) : x \in Thread
    BY <1>3, WaitersCalled DEF IInv, Sound, Waiting
  <2>4. ASSUME NEW x \in ToSet(kern'.list["event"])
        PROVE  Match(set', request'[x].set, request'[x].and) = {}
    <3>1. CASE x = t
      BY <1>2, <3>1
    <3>2. CASE x # t
      BY <1>2, <1>4, <2>2, <2>3, <3>2
    <3>3. QED
      BY <3>1, <3>2
  <2>5. QED
    BY <2>4 DEF NoWaiterForgotten, Waiting
<1>8. Resumed = {}
  <2>1. \A x \in ToSet(Waiting) : x \in Thread /\ pc[x] \in Waits
    BY <1>3, WaitersCalled DEF IInv, Sound
  <2>2. \A x \in ToSet(Waiting) : pc'[x] \in Waits
    BY <1>4, <2>1 DEF Waits
  <2>3. QED
    BY <1>4, <2>2, NoneResumed
<1>9. QED
  BY <1>3, <1>6, <1>7, <1>8 DEF IInv, Sound

(* the rt_schedule of a receiver and of a sender *)
LEMMA RescheduleKeeps ==
  ASSUME IInv, NEW t \in Thread, NEW p, NEW q, Reschedule(t, p, q),
         <<p, q>> \in {<<"recv", "receiving">>, <<"sched", Run>>},
         UNCHANGED <<set, request, event_set>>
  PROVE  Sound' /\ Resumed = {}
<1>1. /\ ServiceOK(Service) /\ q \in CallPoints(Service)
      /\ "event" \in List /\ Way(Service, "event") = Waits
      /\ \A l \in List : p \in Way(Service, l) <=> q \in Way(Service, l)
      /\ p \in Waits <=> q \in Waits
  BY ServiceFields DEF Run, Waits
<1>2. /\ Steady(Service)' /\ Moved(t, q) /\ kern'.list = kern.list
      /\ SameAwake(Service, "event")
  BY <1>1, RescheduleStep DEF IInv, Sound
<1>3. /\ kern.current = t /\ pc[t] = p /\ p # "reset"
      /\ \A x \in Thread : pc'[x] \in Waits <=> pc[x] \in Waits
      /\ Awake(Waits)' = Awake(Waits)
  BY <1>1, <1>2 DEF Reschedule, At, Moved, SameAwake, Run
<1>4. AskedOK' /\ ReceivedAsRequested'
  <2>1. UNCHANGED <<request, event_set>>
    OBVIOUS
  <2>2. QED
    BY <1>3, <2>1, ReportsSame DEF IInv, Sound
<1>5. NoWaiterForgotten'
  BY <1>2, <1>3, ForgottenKept DEF IInv, Sound, Waiting
<1>6. Resumed = {}
  <2>1. \A x \in ToSet(Waiting) : x \in Thread /\ pc[x] \in Waits
    BY <1>2, WaitersCalled DEF IInv, Sound
  <2>2. QED
    BY <1>3, <2>1, NoneResumed
<1>7. QED
  BY <1>2, <1>4, <1>5, <1>6 DEF IInv, Sound

(* A step of the list that ends no call and changes no flag *)
LEMMA StillWaits ==
  ASSUME IInv, Steady(Service)', UNCHANGED <<pc, set, request, event_set>>,
         Shrunk, SameAwake(Service, "event"),
         pc[kern.current] = "reset" => kern'.current = kern.current
  PROVE  Sound' /\ Resumed = {}
<1>1. "event" \in List /\ Way(Service, "event") = Waits
  BY ServiceFields DEF Waits
<1>2. Awake(Waits)' = Awake(Waits)
  BY <1>1 DEF SameAwake
<1>3. AskedOK' /\ ReceivedAsRequested'
  BY <1>2, ReportsSame DEF IInv, Sound
<1>4. ToSet(Waiting)' \subseteq ToSet(Waiting)
  BY <1>1 DEF Shrunk, Waiting
<1>5. NoWaiterForgotten'
  BY <1>4, ForgottenKept DEF IInv, Sound
<1>6. Resumed = {}
  <2>1. \A x \in ToSet(Waiting) : x \in Thread /\ pc[x] \in Waits
    BY WaitersCalled DEF IInv, Sound
  <2>2. QED
    BY <1>2, <2>1, NoneResumed
<1>7. QED
  BY <1>3, <1>5, <1>6 DEF IInv, Sound

(* one turn of the loop of a reset *)
LEMMA ResetKeeps ==
  ASSUME IInv, NEW t \in Thread, ResetResume(t)
  PROVE  Sound' /\ Resumed = {}
<1>1. /\ ServiceOK(Service) /\ "event" \in List
      /\ "reset" \notin LeavePoints(Service) \cup SettledPoints(Service)
      /\ At(t, "reset") /\ kern.list["event"] # <<>>
      /\ kern' = ResumeWithError(kern, "event")
      /\ UNCHANGED <<pc, set, event_set, request>>
  BY ServiceFields DEF ResetResume, Waiting, Run
<1>2. Steady(Service)' /\ Shrunk /\ SameAwake(Service, "event")
  BY <1>1, ResetStep DEF IInv, Sound
<1>3. kern'.current = kern.current
  BY <1>1, ServiceFields, ResumeErrorLemma DEF IInv, Sound, Steady, ServiceOK, ResumedHere
<1>4. QED
  BY <1>1, <1>2, <1>3, StillWaits

(* the tick interrupt, which a reset holds off *)
LEMMA TickKeeps ==
  ASSUME IInv, Tick
  PROVE  Sound' /\ Resumed = {}
<1>1. /\ SliceExpires \/ \E t \in Thread : TimerExpires(t)
      /\ UNCHANGED <<set, event_set, request>>
  BY DEF Tick
<1>2. Steady(Service)' /\ UNCHANGED pc /\ Shrunk /\ SameAwake(Service, "event")
  BY <1>1, ServiceFields, TickStep DEF IInv, Sound
<1>3. pc[kern.current] # "reset"
  BY <1>1 DEF SliceExpires, TimerExpires, IrqEnabled, Masked
<1>4. QED
  BY <1>1, <1>2, <1>3, StillWaits

(* Types, once the shared lemmas have the kernel's and the points' *)
LEMMA TypeKept ==
  ASSUME IInv, [Next]_vars, Sound', set' \subseteq Flag,
         event_set' \in [Thread -> SUBSET Flag]
  PROVE  TypeOK'
<1>1. kern' \in KernelState /\ pc' \in [Thread -> {Run, "recv", "receiving", "sched", "reset"}]
  BY ServiceFields DEF Sound, Steady, KernelOK
<1>2. TypeOK
  BY DEF IInv
<1>3. flag' = flag
  BY DEF Next, Call, Continue, Send, RecvAtOnce, RecvFails, RecvWait, ResetBegin,
     RecvSchedule, RecvReturn, ResetResume, ResetEnd, Schedule, IsrSend, Tick, vars
<1>4. request' \in [Thread -> Request \cup {None}]
  BY <1>2 DEF TypeOK, Next, Call, Continue, Send, RecvAtOnce, RecvFails, RecvWait, ResetBegin,
     RecvSchedule, RecvReturn, ResetResume, ResetEnd, Schedule, IsrSend, Tick, vars
<1>5. QED
  BY <1>1, <1>2, <1>3, <1>4 DEF TypeOK
(* what ConsumedOnce says of a step *)
Once ==
  \A t \in Resumed : request[t].clear =>
    /\ event_set'[t] \cap set' = {}
    /\ \A u \in Resumed \ {t} : request[u].clear => event_set'[t] \cap event_set'[u] = {}

(* A send resumes with RT_EOK those that its search has given something. *)
LEMMA SentOnce ==
  ASSUME IInv, NEW H, NEW flags, Sent(H, flags)
  PROVE  Once
<1>1. Resumed \subseteq H
  <2>1. ASSUME NEW x \in Resumed PROVE x \in H
    <3>1. x \in ToSet(Waiting) /\ kern'.stat[x] # "SUSPEND"
      BY DEF Resumed
    <3>2. x \in Thread /\ kern.stat[x] = "SUSPEND"
      BY <3>1, WaiterAsks
    <3>3. QED
      BY <3>1, <3>2 DEF Sent, AllResumed
  <2>2. QED
    BY <2>1
<1>2. QED
  BY <1>1 DEF Sent, Once

(* the end of a reset, when nobody waits any more *)
LEMMA ResetEnds ==
  ASSUME IInv, NEW t \in Thread, At(t, "reset"), kern.list["event"] = <<>>,
         Goto(t, "sched"), kern' = kern, set' = {}, UNCHANGED <<event_set, request>>
  PROVE  Sound' /\ Resumed = {}
<1>1. /\ ServiceOK(Service) /\ "reset" \notin LeavePoints(Service)
      /\ "sched" \in CallPoints(Service) \ LeavePoints(Service)
      /\ "sched" \notin SettledPoints(Service)
      /\ "event" \in List /\ Way(Service, "event") = Waits
      /\ \A l \in List : "sched" \notin Way(Service, l)
      /\ "RT_EOK" \in Error
  BY ServiceFields DEF Run, Waits, Error
<1>2. /\ Steady(Service)' /\ Moved(t, "sched") /\ AllBut(Service, "event", t)
  BY <1>1, GoStep DEF IInv, Sound
<1>3. /\ "sched" \notin Waits /\ pc[t] \notin Waits
      /\ \A x \in Thread : pc'[x] \in Waits <=> pc[x] \in Waits
  BY <1>2 DEF Moved, Waits, At
<1>4. Awake(Waits)' = Awake(Waits)
  BY <1>1, <1>2, <1>3 DEF AllBut, Awake
<1>5. AskedOK' /\ ReceivedAsRequested'
  BY <1>3, <1>4, ReportsSame DEF IInv, Sound
<1>6. ToSet(<<>>) = {}
  BY DEF ToSet
<1>7. NoWaiterForgotten'
  BY <1>6 DEF NoWaiterForgotten, Waiting
<1>8. Resumed = {}
  BY <1>6 DEF Resumed, Waiting
<1>9. QED
  BY <1>2, <1>5, <1>7, <1>8 DEF Sound

(* The call of a thread *)
LEMMA CallStep ==
  ASSUME IInv, NEW t \in Thread \ {Idle}, Call(t)
  PROVE  /\ Sound' /\ Once
         /\ set' \subseteq Flag /\ event_set' \in [Thread -> SUBSET Flag]
<1>0. /\ set \subseteq Flag /\ event_set \in [Thread -> SUBSET Flag]
      /\ request \in [Thread -> Request \cup {None}] /\ Run # "recv"
      /\ "RT_EOK" \in Error /\ "RT_ETIMEOUT" \in Error
      /\ \A q \in Request : q.set \subseteq Flag
      /\ (Resumed = {} => Once)
  BY EventAssumption DEF IInv, TypeOK, Run, Error, Once
<1>1. ASSUME NEW flags \in SUBSET Flag, Send(t, flags)
      PROVE  /\ Sound' /\ Once
             /\ set' \subseteq Flag /\ event_set' \in [Thread -> SUBSET Flag]
  <2>1. Sound'
    BY <1>1, SendStep
  <2>2. PICK H : Sent(H, flags)
    BY <1>1, SendStep
  <2>3. Once
    BY <2>2, SentOnce
  <2>4. set' \subseteq set \cup flags /\ event_set' \in [Thread -> SUBSET Flag]
    BY <2>2 DEF Sent
  <2>5. QED
    BY <1>0, <2>1, <2>3, <2>4
<1>2. ASSUME NEW q \in Request, RecvAtOnce(t, q)
      PROVE  Sound' /\ Resumed = {} /\ set' \subseteq set /\ event_set' = event_set
  <2>1. /\ At(t, Run) /\ Goto(t, Run) /\ kern' = SetError(kern, t, "RT_EOK")
        /\ set' \subseteq set /\ UNCHANGED <<event_set, request>>
    BY <1>2 DEF RecvAtOnce, SetError, At, Goto, IInv, TypeOK
  <2>2. QED
    BY <1>0, <2>1, GoQuiet
<1>3. ASSUME NEW q \in Request, RecvFails(t, q)
      PROVE  Sound' /\ Resumed = {} /\ set' \subseteq set /\ event_set' = event_set
  <2>1. /\ At(t, Run) /\ Goto(t, Run) /\ kern' = SetError(kern, t, "RT_ETIMEOUT")
        /\ set' \subseteq set /\ UNCHANGED <<event_set, request>>
    BY <1>3 DEF RecvFails, SetError, At, Goto, IInv, TypeOK
  <2>2. QED
    BY <1>0, <2>1, GoQuiet
<1>4. ASSUME NEW q \in Request, NEW timed \in BOOLEAN, RecvWait(t, q, timed)
      PROVE  /\ Sound' /\ Resumed = {} /\ set' \subseteq Flag
             /\ event_set' \in [Thread -> SUBSET Flag]
  <2>1. Sound' /\ Resumed = {}
    BY <1>4, WaitKeeps
  <2>2. QED
    BY <1>0, <1>4, <2>1 DEF RecvWait
<1>5. ASSUME ResetBegin(t)
      PROVE  Sound' /\ Resumed = {} /\ set' \subseteq set /\ event_set' = event_set
  <2>1. /\ At(t, Run) /\ Goto(t, "reset") /\ kern' = kern
        /\ set' \subseteq set /\ UNCHANGED <<event_set, request>>
    BY <1>5 DEF ResetBegin
  <2>2. QED
    BY <1>0, <2>1, GoQuiet DEF Run
<1>6. QED
  BY <1>0, <1>1, <1>2, <1>3, <1>4, <1>5 DEF Call

(* A thread in the middle of a call goes on. *)
LEMMA ContinueStep ==
  ASSUME IInv, NEW t \in Thread \ {Idle}, Continue(t)
  PROVE  /\ Sound' /\ Resumed = {} /\ set' \subseteq set
         /\ event_set' \in [Thread -> SUBSET Flag]
<1>0. /\ set \subseteq Flag /\ event_set \in [Thread -> SUBSET Flag]
      /\ request \in [Thread -> Request \cup {None}] /\ "RT_EOK" \in Error
  BY DEF IInv, TypeOK, Error
<1>1. CASE RecvSchedule(t)
  <2>1. Reschedule(t, "recv", "receiving") /\ UNCHANGED <<set, request, event_set>>
    BY <1>1 DEF RecvSchedule
  <2>2. QED
    BY <1>0, <2>1, RescheduleKeeps
<1>2. CASE RecvReturn(t)
  <2>1. /\ At(t, "receiving") /\ Goto(t, Run) /\ kern' = kern /\ set' = set
        /\ \A x \in Thread \ {t} : request'[x] = request[x] /\ event_set'[x] = event_set[x]
        /\ event_set' \in [Thread -> SUBSET Flag]
    BY <1>0, <1>2 DEF RecvReturn
  <2>2. QED
    BY <1>0, <2>1, GoQuiet DEF Run
<1>3. CASE ResetResume(t)
  BY <1>0, <1>3, ResetKeeps DEF ResetResume
<1>4. CASE ResetEnd(t)
  <2>1. /\ At(t, "reset") /\ kern.list["event"] = <<>> /\ Goto(t, "sched")
        /\ kern' = kern /\ set' = {} /\ UNCHANGED <<event_set, request>>
    BY <1>4 DEF ResetEnd, Waiting
  <2>2. QED
    BY <1>0, <2>1, ResetEnds
<1>5. CASE Schedule(t)
  <2>1. Reschedule(t, "sched", Run) /\ UNCHANGED <<set, request, event_set>>
    BY <1>5 DEF Schedule
  <2>2. QED
    BY <1>0, <2>1, RescheduleKeeps
<1>6. QED
  BY <1>1, <1>2, <1>3, <1>4, <1>5 DEF Continue

(* Every step keeps the invariant and gives a flag out once. *)
LEMMA NextStep ==
  ASSUME IInv, [Next]_vars
  PROVE  IInv' /\ (Once \/ UNCHANGED vars)
<1>0. set \subseteq Flag /\ event_set \in [Thread -> SUBSET Flag] /\ (Resumed = {} => Once)
  BY DEF IInv, TypeOK, Once
<1>1. ASSUME NEW t \in Thread \ {Idle}, Call(t) \/ Continue(t)
      PROVE  /\ Sound' /\ Once
             /\ set' \subseteq Flag /\ event_set' \in [Thread -> SUBSET Flag]
  BY <1>0, <1>1, CallStep, ContinueStep
<1>2. ASSUME NEW flags \in SUBSET Flag, IsrSend(flags)
      PROVE  /\ Sound' /\ Once
             /\ set' \subseteq Flag /\ event_set' \in [Thread -> SUBSET Flag]
  <2>1. Sound'
    BY <1>2, IsrSendStep
  <2>2. PICK H : Sent(H, flags)
    BY <1>2, IsrSendStep
  <2>3. Once
    BY <2>2, SentOnce
  <2>4. set' \subseteq set \cup flags /\ event_set' \in [Thread -> SUBSET Flag]
    BY <2>2 DEF Sent
  <2>5. QED
    BY <1>0, <2>1, <2>3, <2>4
<1>3. ASSUME Tick
      PROVE  /\ Sound' /\ Once
             /\ set' \subseteq Flag /\ event_set' \in [Thread -> SUBSET Flag]
  BY <1>0, <1>3, TickKeeps DEF Tick
<1>4. CASE UNCHANGED vars
  BY <1>4 DEF vars, IInv, Sound, TypeOK, Steady, MostUrgentRunsAt, ListedOnWay, AskedOK,
     ReceivedAsRequested, NoWaiterForgotten, Waiting
<1>5. CASE Next
  <2>1. /\ Sound' /\ Once
        /\ set' \subseteq Flag /\ event_set' \in [Thread -> SUBSET Flag]
    BY <1>1, <1>2, <1>3, <1>5 DEF Next
  <2>2. QED
    BY <2>1, TypeKept DEF IInv
<1>6. QED
  BY <1>4, <1>5

(* the event that rt_event_init leaves *)
LEMMA InitOK == Init => IInv
<1> SUFFICES ASSUME Init PROVE IInv
  OBVIOUS
<1>1. /\ Steady(Service) /\ kern.list["event"] = <<>>
      /\ pc = [t \in Thread |-> Run]
  BY ServiceFields, SteadyInit DEF Init, CpuInit
<1>2. ToSet(<<>>) = {}
  BY DEF ToSet
<1>3. AskedOK /\ ReceivedAsRequested /\ NoWaiterForgotten
  BY <1>1, <1>2 DEF AskedOK, ReceivedAsRequested, NoWaiterForgotten, Waiting, Run
<1>4. kern \in KernelState /\ pc \in [Thread -> {Run, "recv", "receiving", "sched", "reset"}]
  BY <1>1 DEF Steady, KernelOK
<1>5. TypeOK
  BY <1>4 DEF Init, TypeOK, None
<1>6. QED
  BY <1>1, <1>3, <1>5 DEF IInv, Sound

(* The inductive invariant of the event *)
THEOREM Invariance == Spec => []IInv
<1>1. IInv /\ [Next]_vars => IInv'
  BY NextStep
<1>2. QED
  BY InitOK, <1>1, PTL DEF Spec

(* Every thread is in the list its state says, although one rt_event_send   *)
(* may take several threads out of the list it walks through; and the most  *)
(* urgent thread runs whenever no call is under way.                        *)
THEOREM KernelStaysConsistent == Spec => []KernelConsistent
<1>1. IInv => KernelConsistent
  BY ServiceFields DEF IInv, Sound, Steady, KernelConsistent
<1>2. QED
  BY <1>1, Invariance, PTL

(* One pass of rt_event_send over its list is enough, although receivers    *)
(* early in the pass clear flags: nobody stays suspended on flags that are  *)
(* set, whatever is sent, received, timed out or reset in between.          *)
THEOREM NobodyForgotten == Spec => []NoWaiterForgotten
<1>1. IInv => NoWaiterForgotten
  BY DEF IInv, Sound
<1>2. QED
  BY <1>1, Invariance, PTL

(* What rt_event_recv reports is what was asked for, all of it with         *)
(* RT_EVENT_FLAG_AND; without success the request is as it was.             *)
THEOREM ReportsFitRequests == Spec => []ReceivedAsRequested
<1>1. IInv => ReceivedAsRequested
  BY DEF IInv, Sound
<1>2. QED
  BY <1>1, Invariance, PTL

(* Of the receivers that one rt_event_send resumes, no two that clear get   *)
(* the same flag, and none of what they clear is left set.                  *)
THEOREM FlagsConsumedOnce == Spec => ConsumedOnce
<1>1. IInv /\ [Next]_vars => Once \/ UNCHANGED vars
  BY NextStep
<1>2. QED
  BY <1>1, Invariance, PTL DEF Spec, ConsumedOnce, Once
=============================================================================
