# A verification project for the RT-Thread course board

The repository holds two board projects for an STM32F103. `src/ATK-ALL-Proj-ONENET` is the
complete one: the RT-Thread 4.0.3 kernel, its device framework, the AT client, and an
application that samples sensors and uploads them over an ESP8266 modem. `src/STemwin` is a
second board project with its own copy of the same kernel sources. All paths below are
relative to `src/ATK-ALL-Proj-ONENET`; `ipc.c`, `thread.c`, `scheduler.c`, `timer.c`,
`clock.c` and `idle.c` are in `rt-thread/src`, `at_client.c` in
`rt-thread/components/net/at/src`.

The configuration that is modelled is the one of `rtconfig.h`: one Cortex-M3 core, 32
priorities, a tick of 1 ms, one skip-list level for timers, no soft timer thread, no signals,
no power management.

## 1. The system

### Components

| component | state | operations | hard behaviour | what makes it correct |
|---|---|---|---|---|
| Scheduler (`scheduler.c`) | current thread, ready queue per priority, priority bitmap, lock nesting | `rt_schedule`, insert, remove, `rt_enter_critical`/`exit` | called from threads and interrupts; a switch held back by the lock | the bitmap tells the truth, every thread is in the one list its state says, the most urgent ready thread runs |
| Threads (`thread.c`, `idle.c`) | `stat`, `tlist`, priority, `error`, timer; `rt_thread_defunct` | create, startup, suspend, resume, delete, exit, sleep, yield, control, timeout, reaping | functions that open the interrupt mask between the changes they make | no list is broken by a tick in the middle; memory is released once, after the last use |
| Semaphore (`ipc.c`) | value, suspend list | take, trytake, release, control | a release, the timeout of the waiter it picks and a reset in any order | tokens are neither lost nor made up; waiters keep their order |
| Mutex (`ipc.c`) | owner, hold, recorded priority, suspend list | take, release | hand-over against timeout; the priority a waiter lends | one owner; no inversion; a lent priority is given back |
| Event (`ipc.c`) | flag set, suspend list, per-thread request | send, receive, control | one send wakes several waiters, some of which clear flags | nobody sleeps on flags that are set; a flag is consumed once |
| Mailbox (`ipc.c`) | ring of mails, two suspend lists | send, urgent send, receive, control | a resumed thread has to look again and may find the ring changed | no lost wakeup; the ring is a bounded queue |
| Message queue (`ipc.c`) | chains of free and of queued blocks, two suspend lists | send, urgent send, receive, control | messages copied with interrupts enabled, while the block is in neither chain | blocks are conserved and not written by two; no lost wakeup; a bounded queue |
| Memory pool (`mempool.c`) | free list, suspend list | alloc, free | last-in first-out waiters | blocks are conserved |
| Timers (`timer.c`, `clock.c`) | sorted list, tick, flags | start, stop, control, detach, `rt_timer_check` | timeout functions that change the timers being checked; wrap of the tick | a timer expires when its time is up; the flag agrees with the list; the interrupt returns |
| Work queue (`workqueue.c`) | list of works, list of delayed works, the work that runs; a timer per delayed work | submit, delayed submit, critical, cancel, cancel and wait; the worker | delays that end in the tick interrupt while the work is moved, cancelled or runs | no submitted work is forgotten, no cancelled one runs, who waits for a work is let go |
| Completion, data queue, wait queue (`components/drivers/src`) | flag or ring, waiters | wait/done, push/pop | looks with interrupts enabled, then waits | nobody waits for something that has happened |
| Serial device (`serial.c`, `drv_usart.c`) | receive FIFO with two indices, the DMA's position, the position seen last | interrupt or DMA fills, thread reads | two interrupt handlers that share a position; a burst overruns the reader | what is read was received, once, in order, and the reader is told of it |
| AT client (`at_client.c`) | response object, status, two semaphores, lock | send command, wait for connection, parse lines | late, missing and unexpected answers; the interrupt during a reset of the semaphore | a response goes to the command it answers; every call returns |
| Heap, objects, devices, SAL, DFS, shell, application, GUI | see `PROJECT.json` | | | not modelled, section 7 |

### Interaction

All blocking services share the kernel: they suspend the current thread with
`rt_ipc_list_suspend`, start its timer, and call `rt_schedule`; they let a thread go on with
`rt_thread_resume` and a second `rt_schedule`. A timeout comes from the tick interrupt, which
takes the thread out of whatever list it is in (`rt_thread_timeout`). The mutual exclusion
between all of these is the interrupt mask alone. The AT client is built from a mutex and two
semaphores and reads its lines from a serial device opened with DMA; the application from events (`ADC_th` to `app_mqtt`), mailboxes, a memory pool and
the receive semaphore of `UART_APP.c`.

## 2. The modules

| module | models | code |
|---|---|---|
| `Kernel` | kernel data as one record `k`; each C function as an operator of the same name from the record before to the record after the call | `scheduler.c`, `thread.c`, `ipc.c` (static functions) |
| `Cpu` | `kern` and `pc`: who has the processor and where each thread is; the tick interrupt; rescheduling; sleep | `clock.c`, `timer.c`, `thread.c` |
| `Semaphore`, `Mutex`, `Event`, `Mailbox` | one service each, EXTENDS `Cpu` | `ipc.c` |
| `MessageQueue` | the chains of blocks, sends and receives in two stretches each, EXTENDS `Cpu` | `ipc.c` |
| `BoundedQueue` | what a mailbox and a message queue promise: a bounded queue | abstract specification |
| `WorkQueue` | threads that submit and cancel, the worker, the timers of delayed works, EXTENDS `Cpu` | `workqueue.c` |
| `Threads` | life of threads, critical sections, idle thread, EXTENDS `Cpu` | `thread.c`, `scheduler.c`, `idle.c` |
| `Timers` | timer list and tick arithmetic, timeout functions | `timer.c`, `clock.c` |
| `AtClient` | callers, parser thread, receive interrupt, AT server | `at_client.c` |
| `SerialRx` | line, DMA channel, the two interrupt handlers, receive FIFO, reader | `serial.c`, `drv_usart.c` |
| `MC...` | constants for TLC | |
| `KernelProofs` | lemmas on sequences, on each kernel function, and on the steps the services share | |
| `SemaphoreProofs`, `MailboxProofs`, `MessageQueueProofs`, `EventProofs`, `MutexProofs`, `ThreadsProofs` | theorems about the module each EXTENDS | |
| `DeviceProofs` | theorems about `WorkQueue`, `Timers`, `AtClient` and `SerialRx` | |

`DeviceProofs` EXTENDS four modules at once, so those other than `WorkQueue` have a prefix where
names would meet: `ClientSpec`, `TimerSpec`, `RxSpec`, `RxTypeOK` and the like.

**Steps and interrupts.** A step of a model is what the code does between two points where an
interrupt can come, that is, between two changes of the interrupt mask. A thread that has left a
region with interrupts disabled and has not entered the next one is at a *point* `pc[t]`: for
instance `"take"` is in `rt_sem_take` between `rt_hw_interrupt_enable` and `rt_schedule`, and
`"taken"` is behind that `rt_schedule`. Between any two steps, the tick may end the running
thread's slice (`SliceExpires`) or the timeout of any thread (`TimerExpires`), and an interrupt
handler may use the service (`IsrRelease`, `IsrSend`, `IsrRecv`). Interrupts are held off only where the
code keeps them disabled over a loop that the model takes in several steps (`Masked`: the reset
of a service). Only the current thread takes steps (`At`); who is current follows from
`rt_schedule` alone.

**Kernel data.** `Kernel` keeps the node `tlist` of a thread by keeping the sequences it is in:
ready queues, suspend lists, `rt_thread_defunct`. A doubly linked list that is broken, or a
failing assertion, is recorded in `k.fault`, and `KernelOK` demands that it never happens. A
thread's timer is only active or not in these modules; how long it runs is left open, so that a
timeout may come at any moment. That is sound for safety (every real expiry is one of those), and
`Timers` shows separately that expiries come when they are due.

**Waiting and waking.** The services share three shapes of code, which are operators of `Cpu`:
suspend in a list with or without a timeout (`WaitIn`), resume the first of a list and reschedule
(`WakeFirst`), and the same from an interrupt handler (`IsrWakeFirst`). `MostUrgentRunsAt(points)`
says of a thread at one of these points that it is a most urgent one: whoever resumed a more urgent
thread has not gone on before it. The `KernelConsistent` of each module is its type invariant,
`KernelOK` and, where the service reschedules in all cases, this.

**Message queue.** A block is a value, `next` and `data` are functions on blocks, and the chain from
`head` or `free` is computed from `next` as the code walks it, so a block linked twice shows. `held`
is the local variable `msg`, which names the block while it is in neither chain.

**Work queue.** The timers of the works are hard timers: `DelayEnds` is the whole timeout handler,
in the tick. The semaphore that `rt_workqueue_cancel_work_sync` takes is a suspend list without a
value, because its value is positive only while the worker holds the scheduler lock. A work may
sleep and may call the services on any work, itself included.

**Serial receive.** A byte is the number of its arrival, so that what is lost or repeated shows in
what the reader gets. The DMA writes at any moment; `uart_isr` is three steps (entered, counter read
with interrupts disabled, reported) and the more urgent `dma_isr` two, between any of them. `Driver`
chooses between bytes by interrupt, the driver of this project, whose transfer callbacks do not call
`dma_isr`, and that of `src/STemwin`, whose do. A read copies in one step: a byte that the DMA writes
during the copy is one the model lets come just before or after.

**AT client.** The parser has priority 9 and the threads that send commands are less urgent, so
callers take steps only while the parser waits (`At`). Lines are values in a small set. The
server answers commands in order, each with up to `MaxData` data lines and an end line, or with
the one line that a response with `line_num` 1 asks for; at any time, late, or never.

## 3. The runs

| run | instance | distinct states | shows |
|---|---|---|---|
| `semaphore` | urgent thread, two equal ones, idle; value at most 2; FIFO and PRIO | 58 000 | consistent kernel data, tokens conserved, preemption, order of waiters, and the most urgent thread returns once its wait has ended |
| `mailbox` | urgent thread, another, idle, interrupt handlers; 2 slots, 2 different mails | 300 000 | no lost wakeup on either side, preemption, and the ring with its offsets implements `BoundedQueue`, through urgent mails, resets and the end of the ring |
| `message_queue` | the same threads; 2 blocks, 2 different messages | 527 000 | blocks conserved and not overwritten, no lost wakeup, preemption, and the chain of blocks implements `BoundedQueue` |
| `mutex` | three priorities and idle, one mutex, hold at most 2 | 174 000 | hand-over and timeout never both win; no inversion; lent priority given back; the one step without a reschedule |
| `event` | two flags, three requests | 742 000 | no receiver forgotten, reported flags fit the request, flags consumed once |
| `threads` | controller, two managed threads, idle | 41 000 | the interrupt windows of resume, suspend, delete; safe release of memory; critical sections |
| `threads_delete` | the same with managed threads that sleep | violation | a tick in the middle of `rt_thread_delete` (section 6) |
| `timers` | three timers, a tick that wraps after six, times 0 and 2 | 607 000 | expiry on time across the wrap, order of equal timers, flag against list, the interrupt returns |
| `work_queue` | worker between a more and a less urgent thread, idle; two works | 2 129 000 | no work forgotten, none run that was cancelled, waiting for a work ends, a sleeping work is not resumed |
| `work_queue_assert` | the same with one work | violation | an assertion fails in the tick interrupt (section 6) |
| `serial_rx` | buffer of 4, 12 bytes, three drivers | 649 000 | what the FIFO keeps, when the reader is told, the order of what it gets |
| `at_client` | two callers, three commands | 663 000 | response object and call, no line slept on, answers match, left-over notices, every call returns |

### Bounds and why they are enough

- *Threads and priorities.* Kernel code distinguishes an urgent thread, threads of equal
  priority (they share a ready queue and a place in a sorted list) and the idle thread that makes
  every `rt_schedule` succeed; three working threads give two waiters and a third thread that
  acts on them. The mailbox and the message queue have two threads, since the third party that
  takes a mail, a slot or a block first is an interrupt handler there, and two queues to wait in. For mutexes the middle priority is the one that an inversion needs.
- *`RT_SEM_VALUE_MAX` 2, `RT_MUTEX_HOLD_MAX` 2, `size` 2, two blocks, `MaxLock` 2.* Each reaches zero, an
  inner value and its limit, so every branch on them is taken; the initial value of the semaphore
  is 1, so a reset changes it in both directions.
- *`InitTick` {0, Half - 1}, `RT_TICK_MAX` 5.* The smallest and the largest time that
  `rt_timer_start` accepts, and a tick that wraps every six steps.
- *`MaxCmd` 3, `MaxTries` 2, `BufLines` 1, `MaxData` 1.* A stale answer needs a command that
  times out and one that follows; the third shows that left-over notices do not add up. A buffer
  of one line overflows with the second one.
- *Two works.* One runs while the other is listed, delayed or submitted; the lists have an order.
- *`bufsz` 4, `MaxBytes` 12.* Half a buffer and a whole one are different moments for the DMA, and
  the line fills the buffer three times, so that both indices and the position seen last wrap with
  every distance between them.
- *Symmetry.* `event` treats the two threads of equal priority as interchangeable and `work_queue`
  the works: no other constant names them and these runs have no liveness property.

### Fairness

- `FairSpec` of `Semaphore`: a thread that has the processor in the middle of a call goes on with it.
  The processor does not stop, and interrupts leave some time to threads. It is not assumed that
  an interrupt or a timeout ever comes, nor that a particular thread
  gets the processor: threads may starve, and `UrgentTakeReturns` shows that the most urgent one
  does not.
- `FairSpec` of `Threads`: strong fairness of `Reap`, because the idle loop looks at
  `rt_thread_defunct` each time it runs. `ClosedIsReleased` is conditional: only if the other
  threads leave the processor to the idle thread again and again and nobody is closed for ever.
- `TimerFairSpec`: the tick interrupt handler and the timeout functions it calls run on.
- `ClientFairSpec`: callers and parser run on, and a timed `rt_sem_take` ends. Nothing is
  assumed of the server. The number of commands, and so of lines, is bounded: under an endless
  stream of lines the parser keeps less urgent callers from running.

`CHECK_DEADLOCK FALSE` is used where the system may stop: for the AT client when all commands are
sent, for the serial device when all bytes have come and are read, and for the work queue when an
assertion has failed in an interrupt, which `rt_assert_handler` never leaves.

## 4. Proofs

The theorems hold for every finite set of threads with one of them idle, every number of
priorities, and every assignment of priorities to threads (`KernelAssumption`); each service adds
the assumptions of its module, which only give ranges and name its lists:

| module | proved for every | theorems, and the property of a run each one states |
|---|---|---|
| `SemaphoreProofs` | list policy, initial value, `RT_SEM_VALUE_MAX` | `TypeCorrect`, `KernelStaysConsistent` (`KernelConsistent`), `TokensStayConserved` (`TokensConserved`), `PreemptionNeverMissed` (`PreemptionNotMissed`), `NobodyOvertakes` (`NoOvertaking`) |
| `MailboxProofs` | size of the ring, set of mails | `KernelStaysConsistent`, `WakeupsNeverLost` (`NoLostWakeup`), `IsABoundedQueue` (`ImplementsQueue`) |
| `MessageQueueProofs` | finite set of blocks, set of messages | `KernelStaysConsistent`, `NoBlockIsLost` (`BlocksConserved`), `WakeupsNeverLost`, `IsABoundedQueue` |
| `EventProofs` | set of flags, set of requests | `KernelStaysConsistent`, `NobodyForgotten` (`NoWaiterForgotten`), `ReportsFitRequests` (`ReceivedAsRequested`), `FlagsConsumedOnce` (`ConsumedOnce`) |
| `MutexProofs` | set of mutexes, `RT_MUTEX_HOLD_MAX` | `KernelStaysConsistent`, `HandOversReturned` (`HandOverReturned`), `PreemptionMissedOnce` (`PreemptionMissedByReleaseOnly`); under a discipline `LentIsGivenBack` (`PriorityRestored`) and `OwnerIsUrgentEnough` (`NoInversion`) |
| `ThreadsProofs` | set of managed and of sleeping threads, `MaxLock` | under a discipline `KernelStaysConsistent`, `MemoryReleasedSafely` (`ReleasedSafely`), `NoPreemptionMissed` (`PreemptionMissedByPriorityOnly`) |
| `DeviceProofs`, work queue | set of threads and of works | `KernelStaysConsistent`, `NoWorkIsForgotten` (`NoWorkForgotten`), `WorksRunAsSubmitted` (`RunsAsSubmitted`), `WaitsForWorkEnd` (`SyncWaitEnds`) |
| `DeviceProofs`, AT client | finite set of callers, `MaxCmd`, `MaxTries`, `MaxData`, `BufLines` | `RespBelongsToOwner` (`RespOfOwner`), `ParserMissesNoLine` (`NoLineMissed`), `OrderlyCallsAnswered` (`OrderlyAnswers`), `NoticesAccountedFor` (`NoticeAccounted`) |
| `DeviceProofs`, timers | set of timers, `RT_TICK_MAX` from 4 on, times up to half of it | `ActiveTimersAreListed` (`ActiveIsListed`), `TimersExpireOnTime` (`ExpiresOnTime`), `TimersStartBehindEquals` (`StartedBehindEquals`) |
| `DeviceProofs`, serial device | `bufsz` from 2 on, `MaxBytes`, set of drivers; a condition on `bufsz`, below | `NothingIsLost` (`NothingLost`), `BytesReadInOrder` (`ReadInOrder`) |

Each component has a theorem that its inductive invariant always holds, on which its others rest:
`Invariance`, `Spec => []IInv`, and in `DeviceProofs` also `ClientInvariance`, `TimersInvariance` and
`RxInvariance`.

**Layers.** The first part of `KernelProofs` states what `Append`, `InsertAt`, `RemoveFirst` and `SubSeq` do to the set of
elements, to injectivity and to order. Then it has a lemma for each kernel function:
from a consistent record it returns a consistent record, and what it changes (`ScheduleLemma`,
`ResumeLemma`, `SuspendLemma`, `TimeoutLemma`). `MostUrgent` is carried along, because after
`rt_schedule` the current thread is a most urgent one (`HighestReady`).

On top of these it has the steps that services share: wait in a list, wake the first, the same from
an interrupt, the end of a slice, a timeout, the loop of a reset. A service is a record of points of
the code (`ServiceOK`): for each list the points of its waiters (`Way`), those at which a thread has
suspended itself and is about to leave the processor (`LeavePoints`), those at which a most urgent thread runs
(`SettledPoints`). The shared invariant is

    Steady(s) == KernelOK(kern) /\ kern.lock = 0 /\ pc \in [Thread -> CallPoints(s)]
                 /\ the current thread is RUNNING unless it is at a point of LeavePoints(s)
                 /\ MostUrgentRunsAt(SettledPoints(s))
                 /\ whoever is in a list is at a point of its Way, its error number RT_EOK

`KernelOK` alone is not inductive: whether `rt_schedule` may put the current thread back into a ready
queue depends on where that thread is. Wakeups are counted: `Awake(W)` are the threads at points W
that were resumed and still have `RT_EOK`, and `Served(s, l, n)` says that as many are awake as there
are things to take unless nobody waits. That a waiter's error number is `RT_EOK` is part of the
invariant: otherwise a resumed waiter could not be told from one that timed out. One lemma for each
shared step says how the count changes, and a service only adds what it does to its own data.

**Semaphore.** `IInv` is `TypeOK`, `KernelOK`, where the current thread is (`PlaceOK`), the error
number of waiters (`WaiterOK`), and the two properties. It does not use `Steady`, which came later.

**Mailbox.** Sends and receives meet in `NoLostWakeup`. For the refinement `IInv` has
`in_offset = Slot(entry)`, a distance of `entry` from `out_offset` modulo `size`, and that a sender at
its wait still has its mail. `SendRefines`, `UrgentRefines`, `FetchRefines` then show the one
step each that `BoundedQueue` sees; a reset is a step of the queue, everything else stutters.

**Message queue.** The chains are what `next` yields from `free` and from `head`. The invariant names
them as sequences, `\E fs, qs : BlocksAre(fs, qs)`: both are chained by `next`, no block occurs twice,
`tail` is the last of `qs`, and a block is in neither exactly if one thread holds it. Every
link and unlink is then an operation on one of the two sequences, and `Chain` as the run computes it
is shown to be that sequence. `BlocksConserved` and the refinement follow.

**Event.** `Look` is one turn of the loop of `rt_event_send`, `Search` the whole of it. The invariant of the loop says that the receivers passed so
far have either been resumed with flags that fit, or do not match what is left of `set`; since
flags are only cleared during the loop, who did not match before does not match at the end, which is
why one pass is enough.

**Mutex.** `IInv` has `OwnerOK` (owner, count and value agree; a free mutex has no waiter), the
recorded priority, and `Waiting`, which ties a waiter's state, error number and ownership together.
That a lent priority is given back is *false* for nested mutexes (section 6), so `LentIsGivenBack` and
`OwnerIsUrgentEnough` are theorems about `Spec /\ []OneAtATime`: no owner of a mutex owns or waits for
a second one. `LInv` adds that the recorded priority is the one its owner was created with, and that a
priority list is ordered by these. `OneMutexSuffices` shows that the discipline is no restriction for
a system with one mutex, the instance of the run.

**Threads.** `rt_thread_resume`, `suspend`, `delete` and `startup` open the interrupt mask between
their changes, so kernel data is really inconsistent in the middle of a deletion, and does real harm
without a discipline (`threads_delete`). `Disciplined` is what the run `threads` has: at most one
controller, more urgent than the threads it manages, and managed threads that do not sleep;
`threads_delete` gives up only the last part. Under it, `KernelOK` holds of `Seen`, the kernel data in
which threads whose closing has begun count as closed. `Veil...` lemmas show that a kernel function
that does not work on such a thread does the same whether or not it counts as closed. `CallsOK`
says that what a call found out before a window still holds after it: `BackgroundInv` preserves it
through interrupts and other threads, `CallStep` through the call's own steps. `NoPreemptionMissed` is
stronger than the property it states: under the discipline `MostUrgentRuns` always holds, so the
exception for a change of priority is not needed, since a controller only changes threads that stay
less urgent than it is.

**Order of waiters.** `NobodyOvertakes` is an action property, and rests on the order of the list
(`QueueOK`): under `RT_IPC_FLAG_PRIO` it is sorted by priority. A step does one of two things to it: a
thread enters, at the place `SuspendPosition` gives (`WaiterEnters`), or one leaves, at the head or
without a token (`WaiterLeaves`).

**Work queue.** Kernel consistency comes from the shared steps, with one difference: the worker completes a
work while it holds the scheduler lock, so a most urgent thread runs only outside that stretch
(`PlaceOK`). `ListsOK` and `TimersOK` relate the two lists to each other, to the pending flags, to the
work that runs, to the worker's sleep and to the timers: a delayed work has a timer that runs, or a thread is
between the two regions of its submission and about to start it. `NoWorkForgotten` and
`RunsAsSubmitted` are not inductive without `TimersOK`: what the end of a delay puts into `work_list` is
wanted because a submitted work that is bound to the queue is.

**AT client.** The step that makes the others follow is that whoever is inside a call is the head of the
lock's queue (`LockOK`), so there is one exchange at a time. `NoLineMissed` rests on `ParserOK`, which
says where the parser stands when it has looked at all lines. `Notices` adds up the tokens of
`resp_notice`, the one the parser is about to give and the one an unfinished response will yet give; there
are at most two, and two only while a call can still take one. `OrderlyAnswers` follows from
`ExchangeOK`: the exchange of the lock's owner is `Open`, with none or all of its answer sent, or
`Closed`, with nothing under way; a command that times out ends this, and with it `orderly`.

**Timers.** The list is sorted by ticks that wrap, and the order of wrapped ticks is one only among timers
that lie within half a turn of each other. The model's entry of a listed timer has the time `left`, at
least -1 (overdue in the check that is at work) and less than half a turn. The invariant says that
`timeout_tick` is where that time ends, modulo `RT_TICK_MAX + 1`, and that the list is sorted by
`left`. `LaterLemma` turns the comparison of `timer.c` into one of `left`, on every lap, and from there
insertion, removal and the check of the tick are about a sorted sequence. `RT_TICK_MAX` at least 4 makes half a
turn longer than one tick. A timer is in one list at most, and in the temporary one only while its
timeout function runs.

**Serial device.** `RxInv` has a part for each driver on top of types, `Written` and `NoticeOK`. `Written`
says what the DMA leaves behind: where byte x was put stands x, or a byte that came a whole lap later or
more. `NoticeOK` says that a reader on its way to sleep has a token or an empty FIFO. For the DMA,
`HandlersOK` and `CountOK` say what the two handlers may have seen and not reported, `IndexOK` that this is
the distance from `put_index` to `last_index` modulo `bufsz`, `OrderOK` that the bytes in the FIFO are none
that the reader has had, and `KeptOK` that they are exactly the ones behind its last as long as nothing
was overrun. Below these are the facts on `%` that a ring needs (`DivLemma`, `LapsLemma`, `ShiftLemma`,
`StepLemma`, `LapLemma`), proved from multiplication, since the prover knows nothing of remainders by a
variable.

The theorems on the serial device assume that `bufsz` divides 2^16 if `"callbacks"` is among the
drivers. `put_index` is a field of 16 bits, and after a race between the handlers (section 6) a
negative length is added to it, which wraps; taken modulo `bufsz`, that is harmless only if laps and
16 bits agree. The condition is needed: with buffers of 3 and of 5 and that driver TLC finds
`NothingLost` violated. Every configuration in the repository has it (`RT_SERIAL_RB_BUFSZ` is 64). The other two drivers need no
condition.

**Only model-checked.** All liveness: `UrgentTakeReturns`, `ClosedIsReleased`, `CallReturns` and
`CheckReturns`. Liveness under fairness, `ENABLED` and induction over data are out of the prover's
reach. No module declares a RECURSIVE operator; where the code walks a list, the models use recursive functions on the places of
the list, and the proofs speak of them through invariants of the walk. Every invariant and every action
property of the passing runs is stated by a theorem.

## 5. What the properties are about

`PROJECT.json` lists the hazards of this code at their lines with the properties that watch them.
The most telling ones:

- `TokensConserved`: a release picks a waiter while its timeout is pending. The waiter returns
  `RT_EOK` exactly if it was picked, and `value` is positive only if nobody waits.
- `NoLostWakeup`: a mailbox resumes one thread per mail without giving it the mail; a third thread
  may take it first, the woken one may be reset. Still no thread sleeps beside a mail or a free
  slot that nobody else is on the way to.
- `BlocksConserved`: a message is copied into and out of a block while interrupts are enabled. The
  block is then in the hands of one thread, and holds what that thread means until it is done.
- `ImplementsQueue`, of both: every step of the ring or of the chain of blocks is a send, an urgent
  send, a receive or a reset of one queue of bounded length, or is not seen from outside.
- `RunsAsSubmitted`, `NoWorkForgotten`, `SyncWaitEnds`: a work is in one list at most, and the list,
  the pending flag, the timer and the worker's sleep agree, whatever cancel, submit and the end of a
  delay do to each other. A waiter of `rt_workqueue_cancel_work_sync` waits for a completion to come,
  unless the work it looked for ended between its look and its wait.
- `NothingLost`, `ReadInOrder`: how much may lie unread before a byte is lost, for each driver; and
  that even then no byte is read twice or after a later one.
- `NoInversion` and `HandOverReturned`: the priority that a waiter lends, and the ownership that
  a release passes on before the new owner runs.
- `NoWaiterForgotten`, `ConsumedOnce`: one pass of `rt_event_send` over a list it shortens,
  in which each resumed receiver may clear flags that later ones have asked for.
- `ReleasedSafely`: no list, timer or call can reach a thread whose memory is released.
- `ExpiresOnTime`, `StartedBehindEquals`: the difference of wrapping ticks as an order.
- `OrderlyAnswers`, `NoLineMissed`: a shared response object and a semaphore that is reset.

The environment of the passing runs is the discipline the code asks of its callers, and is named
here because the properties depend on it. In `threads`, the controller is more urgent than the
threads it manages and those have no timeout running: otherwise the windows of `thread.c` do harm,
which is what `threads_delete` shows. In `timers`, a timeout function does not start a timer with
time 0 and no periodic timer has time 0: `rt_timer_check` would go on for ever in the interrupt.
In `at_client`, callers are less urgent than the parser, and `line_num` is the full number of lines
of the answer.

## 6. Where code and text disagree

- **Deleting a sleeping thread** (`threads_delete`, `thread.c:464`). A tick between the removal
  from the list and the detach of the timer makes the thread READY; it is then closed and linked
  into `rt_thread_defunct` while a ready queue still names it.
- **A work submitted again** (`work_queue_assert`, `workqueue.c:104`). A work that was submitted with
  a delay and is then submitted without one, or as critical, keeps its timer running. If the worker
  takes the work before the timer ends, `RT_ASSERT(queue != RT_NULL)` fails in the tick interrupt.

Noticed while modelling, and kept in the models as the code has it:

- `rt_mutex_release` without waiters does not call `rt_schedule` when it lowers the owner's
  priority (`PreemptionMissedByReleaseOnly` says this is the only such step). In the same way a
  change of priority does not reschedule (`PreemptionMissedByPriorityOnly`).
- A waiter of a mutex that times out leaves its priority with the owner until the release.
- `rt_thread_defunct` is filled and emptied at the front, so the oldest closed thread is released
  last.
- *Nested mutexes.* `rt_mutex_release` gives back the priority recorded when that mutex was taken
  (`ipc.c:898`). If the owner ran at a lent priority then, releasing two mutexes in the order they
  were taken leaves it at the lent priority without owning a mutex: `PriorityRestored` holds for one
  mutex and fails for two.
- *A periodic timer that turns one-shot in its own timeout function* (`timer.c:581`) is in no list
  and keeps `RT_TIMER_FLAG_ACTIVATED`; `ActiveIsListed` says that this is the only way to get there.
- *A late response* leaves a token in `resp_notice` (`at_client.c:322`), with which the next command
  returns `RT_EOK` before any response. `OrderlyAnswers` therefore speaks of runs in which no command
  has timed out, and `NoticeAccounted` counts the tokens left over.
- *A delay that ends while the same work runs* takes the work out of every list: it does not run
  again (`workqueue.c:101`).
- *Exactly one buffer of bytes* between two idle lines is not seen by this project's driver: the DMA
  counter is where it was (`drv_usart.c:335`), and with the calls of `dma_isr` commented out
  (`drv_usart.c:995` and 1010) nothing else counts them. `NothingLost` allows one byte less for it.
- *A counter read behind `dma_isr`'s back.* In `src/STemwin`, if `uart_isr` reads the counter after it
  was reloaded and before `dma_isr` has run, both count the stretch up to the end of the buffer, and
  the FIFO then reports bytes that have been read. The properties except such runs (`raced`).
- A receive FIFO that the DMA overruns counts as full of the last `bufsz` bytes, although the DMA
  may already be writing over the first of them (`ahead`).
- `AT_RESP_BUFF_FULL` never reaches the caller: the end line of the response overwrites it.
- `at_client_obj_wait_connect` frees its response object (line 403) before it clears
  `client->resp` (line 405), and takes an ERROR for a connection.

## 7. Not modelled

`PROJECT.json` names every component with its status. The main gaps and reasons: detach and
delete of services, which need a state of the freed object in every module; `cancel_all_work` and
`destroy` of work queues; transmission, opening and closing of serial devices; memory pool,
completion, data queue, wait queue and ring buffers (same kernel calls, not used by the
applications that the repository starts); the allocator (`memheap`); soft timers, signals
and the multi-core half of the scheduler (not compiled); objects, devices, formatting and start-up
(little state); AT sockets, SAL and netdev (the driver they need is a package that is not in the
repository); DFS over the vendored FatFs, shell, GUI and LCD (input and output). Of the AT client,
unsolicited results, the end sign, `at_client_obj_recv` and the CLI state are left out.

Most of the repository is vendored: the vendor's HAL and DSP libraries, LVGL, emWin, FatFs and two
copies of the kernel with its components. The models cover the part that is the system's own
concurrency.

## 8. Plan

Written, in the order of importance: `Kernel` and `Cpu`; `Semaphore`; `Mailbox` with
`BoundedQueue`; `Mutex`; `Event`; `Threads`; `Timers`; `AtClient`; `MessageQueue`; `WorkQueue`;
`SerialRx`. `Cpu` is composed with each service through EXTENDS; a service adds its variables and
lets them be UNCHANGED in the tick.

Next modules:

1. detach and delete of `Semaphore` and `Mailbox`: a resumed thread that returns through an object
   that has gone.
2. `MemPool` and `DataQueue` on `Cpu`: waiters in last-in first-out order; one waiter resumed where
   several could go on.
3. change of priority of a waiting thread, in `Semaphore` and `Mutex`; two nested mutexes on an
   instance that is still small enough.
4. `AtClient` on top of `SerialRx`: lines that arrive in pieces, and an overrun in a line.

Next proofs, for modules still to be written or changed:

1. detach and delete, on the shared layer: a waiter resumed by them is at a point of its own.
2. `LentIsGivenBack` for nested mutexes that are released in the reverse of the order they were taken in,
   which is weaker than `OneAtATime`.
3. the threads model for managed threads that sleep but are not deleted, a weaker discipline than
   `Disciplined`.
4. `AtClient` against `SerialRx`: lines as a refinement of the bytes that `ReadInOrder` orders.
