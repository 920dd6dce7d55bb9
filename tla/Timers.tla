------------------------------- MODULE Timers -------------------------------
(***************************************************************************)
(* The hard timers of timer.c: one list sorted by expiry, with a tick that *)
(* wraps around.  Timers are started, stopped and changed by threads, and  *)
(* by the timeout functions that rt_timer_check calls in the tick          *)
(* interrupt while the timer it works on hangs in a list of its own.       *)
(*                                                                         *)
(* RT_TIMER_SKIP_LIST_LEVEL is 1, so a timer has one node.  timeout_tick   *)
(* is written when a timer enters the list and read only there, so it is   *)
(* part of the list's entry.                                               *)
(***************************************************************************)
EXTENDS Integers, SequencesExt

CONSTANTS
  Timer,             \* the timer objects
  NoTimer,
  RT_TICK_MAX,       \* largest tick
  InitTick           \* the times given to timers

Half == RT_TICK_MAX \div 2

(* rt_timer_start asserts init_tick < RT_TICK_MAX / 2.  RT_TICK_MAX is      *)
(* RT_UINT32_MAX; from 4 on, a timer that is overdue by one tick can be     *)
(* told from one that is still to come.                                     *)
ASSUME TimersAssumption ==
  /\ RT_TICK_MAX \in Nat /\ RT_TICK_MAX >= 4
  /\ InitTick \subseteq 0 .. Half - 1 /\ InitTick # {}
  /\ NoTimer \notin Timer

VARIABLES
  tick,           \* rt_tick
  rt_timer_list,  \* its entries in order
  temporary,      \* the temporary list of rt_timer_check
  phase,          \* a thread, rt_timer_check or a timeout function executes
  firing,         \* the timer t of rt_timer_check
  valid,          \* timers that are initialized and not detached
  active,         \* timers with RT_TIMER_FLAG_ACTIVATED
  periodic,       \* timers with RT_TIMER_FLAG_PERIODIC
  init_tick,
  stopping        \* the timer that rt_timer_stop has found active

timer_lists == <<rt_timer_list, temporary>>
flags == <<valid, active, periodic, init_tick>>
check == <<tick, phase, firing>>
timer_vars == <<timer_lists, flags, check, stopping>>

Ticks == 0 .. RT_TICK_MAX

(* unsigned arithmetic on ticks *)
Plus(a, b) == (a + b) % (RT_TICK_MAX + 1)
Minus(a, b) == (a - b) % (RT_TICK_MAX + 1)

TimerInit ==
  /\ tick \in Ticks
  /\ rt_timer_list = <<>> /\ temporary = {}
  /\ phase = "thread" /\ firing = NoTimer
  /\ valid = {} /\ active = {} /\ periodic = {}
  /\ init_tick \in [Timer -> {Min(InitTick)}]
  /\ stopping = NoTimer

(* _rt_timer_remove; a timer is in the list once at most *)
Without(l, t) == RemoveFirstMatch(l, LAMBDA e : e.timer = t)

RemoveTimer(t) ==
  /\ rt_timer_list' = Without(rt_timer_list, t)
  /\ temporary' = temporary \ {t}

(* mutant: a timer expires now instead of after its time *)
EntryNow(t) == [timer |-> t, timeout_tick |-> tick, left |-> init_tick[t]]

(* left is a history variable: the ticks that are left until t expires *)
Entry(t) ==
  [timer |-> t, timeout_tick |-> Plus(tick, init_tick[t]), left |-> init_tick[t]]

(* mutant: a timer goes in front of those that expire at the same tick *)
BeforeEquals(l, e) ==
  LET later == {i \in DOMAIN l :
                  Minus(l[i].timeout_tick, e.timeout_tick) < Half}
  IN  IF later = {} THEN Len(l) + 1 ELSE Min(later)

(* mutant: ticks are compared as numbers *)
PositionByNumber(l, e) ==
  LET later == {i \in DOMAIN l : l[i].timeout_tick > e.timeout_tick}
  IN  IF later = {} THEN Len(l) + 1 ELSE Min(later)

(* in front of the first timer that expires later *)
Position(l, e) ==
  LET later == {i \in DOMAIN l :
                  Minus(l[i].timeout_tick, e.timeout_tick) \in 1 .. Half - 1}
  IN  IF later = {} THEN Len(l) + 1 ELSE Min(later)

Insert(l, e) == InsertAt(l, Position(l, e), e)

(* rt_timer_start *)
StartTimer(t) ==
  /\ rt_timer_list' = Insert(Without(rt_timer_list, t), Entry(t))
  /\ temporary' = temporary \ {t}
  /\ active' = active \cup {t}

(* rt_timer_stop past its look at the flag, and rt_timer_detach *)
StopTimer(t) == RemoveTimer(t) /\ active' = active \ {t}

(***************************************************************************)
(* Calls of threads and of timeout functions.  A timeout function that     *)
(* starts a timer with time 0, or a periodic timer with time 0, keeps      *)
(* rt_timer_check in its loop for good: callers give such timers a time.   *)
(***************************************************************************)
InTimeout == phase = "timeout"

MayCall == phase \in {"thread", "timeout"}

Start(t) ==
  /\ MayCall /\ t \in valid
  /\ InTimeout => init_tick[t] > 0
  /\ StartTimer(t)
  /\ UNCHANGED <<valid, periodic, init_tick, check, stopping>>

(* A thread looks at the flag before it disables interrupts. *)
StopLook(t) ==
  /\ phase = "thread" /\ stopping = NoTimer
  /\ t \in active
  /\ stopping' = t
  /\ UNCHANGED <<timer_lists, flags, check>>

StopRest ==
  /\ phase = "thread" /\ stopping # NoTimer
  /\ StopTimer(stopping)
  /\ stopping' = NoTimer
  /\ UNCHANGED <<valid, periodic, init_tick, check>>

StopInTimeout(t) ==
  /\ InTimeout
  /\ t \in active
  /\ StopTimer(t)
  /\ UNCHANGED <<valid, periodic, init_tick, check, stopping>>

(* rt_timer_control: a timer that runs keeps its timeout_tick *)
SetTime(t, time) ==
  /\ MayCall /\ t \in valid
  /\ t \in periodic => time > 0
  /\ init_tick' = [init_tick EXCEPT ![t] = time]
  /\ UNCHANGED <<timer_lists, valid, active, periodic, check, stopping>>

SetOneshot(t) ==
  /\ MayCall /\ t \in valid
  /\ periodic' = periodic \ {t}
  /\ UNCHANGED <<timer_lists, valid, active, init_tick, check, stopping>>

SetPeriodic(t) ==
  /\ MayCall /\ t \in valid
  /\ init_tick[t] > 0
  /\ periodic' = periodic \cup {t}
  /\ UNCHANGED <<timer_lists, valid, active, init_tick, check, stopping>>

(* rt_timer_init and rt_timer_detach, or rt_timer_create and _delete *)
InitTimer(t, time) ==
  /\ MayCall /\ t \notin valid
  /\ valid' = valid \cup {t}
  /\ active' = active \ {t}
  /\ periodic' \in {periodic \ {t}} \cup
                   (IF time > 0 THEN {periodic \cup {t}} ELSE {})
  /\ init_tick' = [init_tick EXCEPT ![t] = time]
  /\ UNCHANGED <<timer_lists, check, stopping>>

Detach(t) ==
  /\ MayCall /\ t \in valid /\ stopping # t
  /\ StopTimer(t)
  /\ valid' = valid \ {t}
  /\ UNCHANGED <<periodic, init_tick, check, stopping>>

(***************************************************************************)
(* The tick interrupt: rt_tick_increase and rt_timer_check.                *)
(***************************************************************************)
TickIncrease ==
  /\ phase = "thread"
  /\ tick' = Plus(tick, 1)
  /\ rt_timer_list' = [i \in DOMAIN rt_timer_list |->
                         [rt_timer_list[i] EXCEPT !.left = @ - 1]]
  /\ phase' = "check"
  /\ UNCHANGED <<temporary, flags, firing, stopping>>

Due(e) == Minus(tick, e.timeout_tick) < Half

(* mutant: a one-shot timer that has expired stays ACTIVATED *)
ExpireKeepsFlag ==
  /\ phase = "check"
  /\ rt_timer_list # <<>>
  /\ LET e == Head(rt_timer_list)
     IN  /\ Due(e)
         /\ rt_timer_list' = Tail(rt_timer_list)
         /\ temporary' = {e.timer}
         /\ firing' = e.timer
  /\ phase' = "timeout"
  /\ UNCHANGED <<tick, valid, active, periodic, init_tick, stopping>>

(* up to the call of the timeout function *)
Expire ==
  /\ phase = "check"
  /\ rt_timer_list # <<>>
  /\ LET e == Head(rt_timer_list)
     IN  /\ Due(e)
         /\ rt_timer_list' = Tail(rt_timer_list)
         /\ temporary' = {e.timer}
         /\ active' = IF e.timer \in periodic THEN active
                      ELSE active \ {e.timer}
         /\ firing' = e.timer
  /\ phase' = "timeout"
  /\ UNCHANGED <<tick, valid, periodic, init_tick, stopping>>

(* The timeout function returns.  Its timer is still in the temporary list  *)
(* unless it was detached, stopped or started again, and then goes back     *)
(* into rt_timer_list when it is periodic.                                  *)
TimeoutReturn ==
  /\ InTimeout
  /\ IF firing \in temporary \cap periodic \cap active
     THEN StartTimer(firing)
     ELSE temporary' = {} /\ UNCHANGED <<rt_timer_list, active>>
  /\ phase' = "check"
  /\ firing' = NoTimer
  /\ UNCHANGED <<tick, valid, periodic, init_tick, stopping>>

CheckEnd ==
  /\ phase = "check"
  /\ rt_timer_list # <<>> => ~ Due(Head(rt_timer_list))
  /\ phase' = "thread"
  /\ UNCHANGED <<tick, timer_lists, flags, firing, stopping>>

Interrupt == TickIncrease \/ Expire \/ TimeoutReturn \/ CheckEnd

TimerCall(t) ==
  \/ Start(t) \/ StopLook(t) \/ StopInTimeout(t)
  \/ SetOneshot(t) \/ SetPeriodic(t) \/ Detach(t)
  \/ \E time \in InitTick : SetTime(t, time) \/ InitTimer(t, time)

TimerNext == (\E t \in Timer : TimerCall(t)) \/ StopRest \/ Interrupt

TimerSpec == TimerInit /\ [][TimerNext]_timer_vars

(* A timeout function returns, and rt_timer_check goes on. *)
TimerFairSpec ==
  /\ TimerSpec
  /\ WF_timer_vars(Expire) /\ WF_timer_vars(TimeoutReturn)
  /\ WF_timer_vars(CheckEnd)

(***************************************************************************)
(* Properties                                                              *)
(***************************************************************************)
Listed == {e.timer : e \in ToSet(rt_timer_list)}

TimerTypeOK ==
  /\ tick \in Ticks
  /\ rt_timer_list \in
       Seq([timer : Timer, timeout_tick : Ticks, left : -1 .. Half - 1])
  /\ Len(rt_timer_list) = Cardinality(Listed)
  /\ temporary \subseteq {firing}
  /\ phase \in {"thread", "check", "timeout"}
  /\ firing \in Timer \cup {NoTimer}
  /\ valid \subseteq Timer /\ active \subseteq valid /\ periodic \subseteq Timer
  /\ init_tick \in [Timer -> InitTick]
  /\ stopping \in Timer \cup {NoTimer}

(* A timer expires in the tick its time is up, not before and not after,    *)
(* wherever the tick wraps around: rt_timer_check looks at the first timer  *)
(* only and leaves when that one is not due.                                *)
ExpiresOnTime ==
  [][ /\ Expire => Head(rt_timer_list).left <= 0
      /\ CheckEnd => \A e \in ToSet(rt_timer_list) : e.left > 0 ]_timer_vars

(* "If we have two timers that timeout at the same time, it's preferred     *)
(* that the timer inserted early get called early" (rt_timer_start): a      *)
(* timer that is started goes behind those that expire no later than it,    *)
(* and in front of all others, also when it was in the list before.         *)
StartedBehindEquals ==
  [][ \A t \in Timer :
        Start(t) \/ (t \in temporary /\ TimeoutReturn) =>
          \A i, j \in DOMAIN rt_timer_list' :
            i # j /\ rt_timer_list'[i].timer = t =>
              (j < i <=> rt_timer_list'[j].left <= rt_timer_list'[i].left) ]_timer_vars

(* the timer whose timeout function runs will be in no list when it returns *)
Doomed == phase = "timeout" /\ firing \in (temporary \cap active) \ periodic

Forgotten == active \ (Listed \cup temporary)

(* A timer that says RT_TIMER_FLAG_ACTIVATED "is start and run"             *)
(* (rt_timer_control): a timer in rt_timer_list says so, and one that says  *)
(* so is only lost from the list in one way.  rt_timer_check clears the     *)
(* flag of a one-shot timer before its timeout function and restarts a      *)
(* periodic one after it, so it forgets one that its own timeout function   *)
(* turns from periodic into one-shot.                                       *)
ActiveIsListed ==
  /\ [](TimerTypeOK /\ Listed \subseteq active)
  /\ [][ /\ Doomed' /\ ~Doomed => SetOneshot(firing)
         /\ Forgotten' \subseteq Forgotten \/ (Doomed /\ TimeoutReturn) ]_timer_vars

(* The tick interrupt returns, although timeout functions start timers      *)
(* while it goes through the list.                                          *)
CheckReturns == phase = "check" ~> phase = "thread"
=============================================================================
