------------------------------- MODULE Event -------------------------------
(***************************************************************************)
(* An event of ipc.c: a set of flags that threads wait for, all or any of  *)
(* the flags they name, and that a receiver may clear.                     *)
(***************************************************************************)
EXTENDS Cpu

CONSTANTS
  Flag,      \* the bits of an event set
  Request    \* the arguments of rt_event_recv that threads use

(* option is RT_EVENT_FLAG_AND or else RT_EVENT_FLAG_OR; either may come    *)
(* with RT_EVENT_FLAG_CLEAR.                                                *)
ASSUME EventAssumption ==
  /\ Request \subseteq [set : SUBSET Flag \ {{}}, and : BOOLEAN, clear : BOOLEAN]
  /\ List = {"event"}

VARIABLES
  set,         \* event->set
  flag,        \* event->parent.parent.flag
  event_set,   \* thread->event_set, {} outside rt_event_recv
  request      \* the arguments of a thread's rt_event_recv, event_info in it

(* outside rt_event_recv no code reads the fields of the thread *)
None == [set |-> {}, and |-> FALSE, clear |-> FALSE]

vars == <<kern, pc, set, flag, event_set, request>>

Waiting == kern.list["event"]

Init ==
  /\ CpuInit
  /\ set = {}
  /\ flag \in {"RT_IPC_FLAG_FIFO", "RT_IPC_FLAG_PRIO"}
  /\ event_set = [t \in Thread |-> {}]
  /\ request = [t \in Thread |-> None]

(* mutant: one of the flags is enough with RT_EVENT_FLAG_AND *)
MatchAny(s, asked, and) == asked \cap s

(* what a receiver that wants the flags of asked gets out of the flags s;   *)
(* nothing when its condition is not satisfied                              *)
Match(s, asked, and) ==
  IF and /\ ~ asked \subseteq s THEN {} ELSE asked \cap s

(***************************************************************************)
(* rt_event_send.  The search of the suspend list is one stretch with      *)
(* interrupts disabled; r is its state before thread t is looked at.       *)
(***************************************************************************)
(* mutant: the search stops at the first receiver that can go on *)
LookForOne(r, t) ==
  LET got == Match(r.set, r.event_set[t], request[t].and)
  IN  IF got = {} \/ r.need_schedule THEN r
      ELSE [r EXCEPT
              !.event_set[t] = got,
              !.set  = IF request[t].clear THEN @ \ got ELSE @,
              !.kern = rt_thread_resume(@, t),
              !.need_schedule = TRUE]

(* mutant: the flags a receiver clears stay set *)
LookClearsNothing(r, t) ==
  LET got == Match(r.set, r.event_set[t], request[t].and)
  IN  IF got = {} THEN r
      ELSE [r EXCEPT !.event_set[t] = got,
                     !.kern = rt_thread_resume(@, t),
                     !.need_schedule = TRUE]

(* mutant: the caller is not told to reschedule *)
LookNoSchedule(r, t) ==
  LET got == Match(r.set, r.event_set[t], request[t].and)
  IN  IF got = {} THEN r
      ELSE [r EXCEPT
              !.event_set[t] = got,
              !.set  = IF request[t].clear THEN @ \ got ELSE @,
              !.kern = rt_thread_resume(@, t)]

Look(r, t) ==
  LET got == Match(r.set, r.event_set[t], request[t].and)
  IN  IF got = {} THEN r
      ELSE [kern      |-> rt_thread_resume(r.kern, t),
            set       |-> IF request[t].clear THEN r.set \ got ELSE r.set,
            event_set |-> [r.event_set EXCEPT ![t] = got],
            need_schedule |-> TRUE]

Search(flags) ==
  LET r[i \in 0 .. Len(Waiting)] ==
        IF i = 0
        THEN [kern |-> kern, set |-> set \cup flags, event_set |-> event_set,
              need_schedule |-> FALSE]
        ELSE Look(r[i - 1], Waiting[i])
  IN  r[Len(Waiting)]

Send(t, flags) ==
  /\ At(t, Run)
  /\ LET r == Search(flags)
     IN  /\ kern' = r.kern
         /\ set' = r.set
         /\ event_set' = r.event_set
         /\ Goto(t, IF r.need_schedule THEN "sched" ELSE Run)
  /\ UNCHANGED <<flag, request>>

IsrSend(flags) ==
  /\ IrqEnabled
  /\ LET r == Search(flags)
     IN  /\ kern' = IF r.need_schedule THEN rt_schedule(r.kern) ELSE r.kern
         /\ set' = r.set
         /\ event_set' = r.event_set
  /\ UNCHANGED <<pc, flag, request>>

(***************************************************************************)
(* rt_event_recv                                                           *)
(***************************************************************************)
RecvAtOnce(t, q) ==
  /\ At(t, Run)
  /\ Match(set, q.set, q.and) # {}
  /\ kern' = [kern EXCEPT !.error[t] = "RT_EOK"]
  /\ set' = IF q.clear THEN set \ q.set ELSE set
  /\ UNCHANGED <<pc, flag, event_set, request>>

(* timeout = 0 *)
RecvFails(t, q) ==
  /\ At(t, Run)
  /\ Match(set, q.set, q.and) = {}
  /\ kern' = [kern EXCEPT !.error[t] = "RT_ETIMEOUT"]
  /\ UNCHANGED <<pc, set, flag, event_set, request>>

RecvWait(t, q, timed) ==
  /\ At(t, Run)
  /\ Match(set, q.set, q.and) = {}
  /\ event_set' = [event_set EXCEPT ![t] = q.set]
  /\ request' = [request EXCEPT ![t] = q]
  /\ WaitIn(t, "event", flag, timed, "recv")
  /\ UNCHANGED <<set, flag>>

RecvSchedule(t) ==
  /\ Reschedule(t, "recv", "receiving")
  /\ UNCHANGED <<set, flag, event_set, request>>

(* with RT_EOK *recved is thread->event_set, otherwise the error is returned *)
RecvReturn(t) ==
  /\ At(t, "receiving")
  /\ event_set' = [event_set EXCEPT ![t] = {}]
  /\ request' = [request EXCEPT ![t] = None]
  /\ Goto(t, Run)
  /\ UNCHANGED <<kern, set, flag>>

(***************************************************************************)
(* rt_event_control(RT_IPC_CMD_RESET), with interrupts disabled            *)
(***************************************************************************)
ResetBegin(t) ==
  /\ At(t, Run)
  /\ Goto(t, "reset")
  /\ UNCHANGED <<kern, set, flag, event_set, request>>

ResetResume(t) ==
  /\ At(t, "reset")
  /\ Waiting # <<>>
  /\ kern' = ResumeWithError(kern, "event")
  /\ UNCHANGED <<pc, set, flag, event_set, request>>

ResetEnd(t) ==
  /\ At(t, "reset")
  /\ Waiting = <<>>
  /\ set' = {}
  /\ Goto(t, "sched")
  /\ UNCHANGED <<kern, flag, event_set, request>>

Schedule(t) ==
  /\ Reschedule(t, "sched", Run)
  /\ UNCHANGED <<set, flag, event_set, request>>

Call(t) ==
  \/ \E flags \in SUBSET Flag \ {{}} : Send(t, flags)
  \/ \E q \in Request :
       \/ RecvAtOnce(t, q) \/ RecvFails(t, q)
       \/ \E timed \in BOOLEAN : RecvWait(t, q, timed)
  \/ ResetBegin(t)

Continue(t) ==
  \/ RecvSchedule(t) \/ RecvReturn(t)
  \/ ResetResume(t) \/ ResetEnd(t) \/ Schedule(t)

Tick ==
  /\ SliceExpires \/ \E t \in Thread : TimerExpires(t)
  /\ UNCHANGED <<set, flag, event_set, request>>

Next ==
  \/ \E t \in Thread \ {Idle} : Call(t) \/ Continue(t)
  \/ \E flags \in SUBSET Flag \ {{}} : IsrSend(flags)
  \/ Tick

Spec == Init /\ [][Next]_vars

(***************************************************************************)
(* Properties                                                              *)
(***************************************************************************)
TypeOK ==
  /\ kern \in KernelState
  /\ pc \in [Thread -> {Run, "recv", "receiving", "sched", "reset"}]
  /\ set \subseteq Flag
  /\ flag \in {"RT_IPC_FLAG_FIFO", "RT_IPC_FLAG_PRIO"}
  /\ event_set \in [Thread -> SUBSET Flag]
  /\ request \in [Thread -> Request \cup {None}]

(* Every thread is in the list its state says, although one send may take   *)
(* several threads out of the list it is walking through; and whichever of  *)
(* them is the most urgent, the send does not go on before it.              *)
KernelConsistent ==
  /\ TypeOK
  /\ KernelOK(kern)
  /\ MostUrgentRunsAt({Run, "receiving"})

(* Nobody stays suspended on flags that are set: one pass over the list     *)
(* finds every receiver that can go on, although earlier receivers in the   *)
(* pass clear flags.                                                        *)
NoWaiterForgotten ==
  pc[kern.current] # "reset" =>
    \A t \in ToSet(Waiting) : Match(set, request[t].set, request[t].and) = {}

(* A receiver that is resumed with RT_EOK reports flags it has asked for,   *)
(* all of them with RT_EVENT_FLAG_AND, and one that is still suspended or   *)
(* resumed with an error has its request intact.                            *)
ReceivedAsRequested ==
  \A t \in Thread :
    pc[t] \in {"recv", "receiving"} =>
      IF kern.stat[t] # "SUSPEND" /\ kern.error[t] = "RT_EOK"
      THEN /\ event_set[t] # {}
           /\ event_set[t] \subseteq request[t].set
           /\ request[t].and => event_set[t] = request[t].set
      ELSE event_set[t] = request[t].set

(* the receivers that this step resumes with RT_EOK *)
Resumed == {t \in ToSet(Waiting) : /\ kern'.stat[t] # "SUSPEND"
                                   /\ kern'.error[t] = "RT_EOK"}

(* A flag is consumed once: of the receivers that one send resumes, no two  *)
(* that clear get the same flag, and what they clear is not left set.       *)
ConsumedOnce ==
  [][ \A t \in Resumed : request[t].clear =>
        /\ event_set'[t] \cap set' = {}
        /\ \A u \in Resumed \ {t} :
             request[u].clear => event_set'[t] \cap event_set'[u] = {} ]_vars
=============================================================================
