# A verification development for `stm32f103rct6_3g`

The repository is a Huawei LiteOS tree with one product target,
`targets/Cloud_STM32F103RCT6` (a Cortex-M3), and the code its author wrote
around it (`comnew/`: an AT command framework, an OS port layer, a shell).
Its core logic is the kernel: a priority-preemptive scheduler and the objects
tasks block on. That kernel is where the behaviour is that tests hardly reach:
a kernel call is cut in two by interrupts, a wake-up races a timeout, one list
node serves the ready queue and every wait list. On top of it stand two programs
with hard behaviour of their own: the AT framework, which matches the answers of a
modem to commands that may have timed out, and the firmware update, which a loss of
power may cut off anywhere.

This directory holds TLA+ modules translated from that code, TLC configurations
that check them on small instances, and proofs, checked by TLAPS, of what can be
shown for every value of the constants. File names below are under `src/`;
`los_task.c` and its like are in `kernel/base/core` and `kernel/base/ipc`,
`ota_default.c` is in `components/fota/ota`, `uart_at.c` in
`targets/Cloud_STM32F103RCT6/Src`.

## 1. Inventory

### Components

| Component | State | Operations | Modelled |
|---|---|---|---|
| Task scheduler (`los_task.c`, `los_priqueue.c`, `los_timeslice.c`, `los_tick.c`, `los_hw.c`, `los_dispatch_keil.S`) | TCBs (status flags, priority), 32 ready lists and a bitmap, `pstRunTask`/`pstNewTask`, scheduler lock, recycle list, time slice | create, resume, suspend, delete, delay, yield, set priority, lock and unlock, entry and exit; `osTaskWait`/`osTaskWake`; tick; PendSV | `LosTask` |
| Task timer wheel (`los_task.c`, `los_task.inc`) | 32 circular lists, cursor, per task an index and a delta of turns | add, delete, scan, next switch time | `TaskSortLink`, abstractly `TickCalendar` |
| Semaphore (`los_sem.c`) | count, maximum, wait list, used or not | create (counting, binary), delete, pend, post | `LosSem`, abstractly `SemContract` |
| Mutex (`los_mux.c`) | owner, nesting count, saved priority, wait list | create, delete, pend, post | `LosMux` |
| Message queue and mail (`los_queue.c`) | ring of slots, counts of readable and writable slots, two wait lists and the mail list | create, delete, read, write (head or tail), mail alloc and free | `LosQueue`, abstractly `QueueContract` |
| Static memory pool (`los_membox.c`) | free list, magic word per block | init, alloc, free | inside `LosQueue`, as the mail pool |
| Event flags (`los_event.c`) | event word, wait list | init, destroy, read, poll, write, clear | `LosEvent`, abstractly `EventContract` |
| Software timers (`los_swtmr.c`; the target switches them off) | control blocks, free list, sorted list with relative counts, handler queue, timer task | create, start, stop, delete, scan, call | `LosSwtmr`, abstractly `SwtmrContract` |
| Byte ring and UART frames (`comnew/osport/ring.c`, `uart_at.c`) | read index, fill; counting semaphore | interrupt at the end of a frame, receive | `UartAt`, abstractly `UartFrames` |
| AT framework (`comnew/at/at.c`) | current command and its mutex, command and response semaphores, receive task | install, command, receive | `AtCommand` |
| Firmware update (`ota_default.c`) | flag in two copies, images in flash | application: init, ask for an update, check; bootloader: process, copy, roll back, jump | `OtaDefault`, abstractly `AtomicFlag` |
| Tickless idle (`los_tickless.c`) | sleep ticks, flags | enter, wake, correct the tick count | no: the target switches it off; the sleep it computes is `SleepIsExact` |
| OS port layer (`comnew/osport`) | – | forwards to kernel calls | no, its calls are steps of `AtCommand` |
| Heap (`los_memory.c`, three variants) | block headers in raw memory | alloc, free | no: arithmetic on addresses. The scheduler's model has the failure of an allocation as an outcome |
| Start-up, errors, vectors, shell, drivers, CMSIS adapters, connectivity, file systems, libraries | – | – | no, see `PROJECT.json`: sequential set-up, pure I/O, argument translation, vendored |

### How they interact

* An IPC object blocks the running task with `osTaskWait`, which moves the TCB's
  `stPendList` node from the ready queue to the object's list and arms the TCB's
  `stTimerList` node, and unblocks one with `osTaskWake`, which does the reverse.
  Both run inside the caller's critical section; the caller then leaves the
  section and calls `LOS_Schedule`.
* `LOS_Schedule` computes `pstNewTask` and pends PendSV. PendSV, the lowest
  interrupt, makes `pstNewTask` the running task some time later.
* The tick interrupt counts down the time slice, then walks the expired tasks
  (`osTaskScan`), unlinking each from its wait list, and ends with `LOS_Schedule`.
* Interrupt handlers call the same API (resume, suspend, delete, post); they
  nest in the tick's walk and come between any two critical sections of a task.
* A mutex changes the priority of its owner, hence the ready queue.
* `osQueueOperate` and `osQueueMailAlloc` promise a slot or a block to the task they
  wake; the woken task takes it in a critical section of its own when it runs.
* The tick's scan of the software timers puts handlers into a message queue; the
  timer task takes them out and calls them.
* The UART interrupt writes a frame into the byte ring and posts a semaphore; the
  receiving task reads it and, under the command's mutex, compares it with the
  command that a caller of `at_command` has left there. A semaphore admits one
  caller at a time, another tells it of its answer; both waits may time out.
* Application and bootloader share the update flag in flash and the images.

### What is hard

* Interleaving: between the critical section of a blocking call and its
  `LOS_Schedule`, and between `LOS_Schedule` and PendSV, interrupts change
  everything those two steps rely on.
* Stale state: `pstNewTask` is a cached choice; `TIMEOUT` in a status word means
  "a timer is armed" while the task pends and "the wait timed out" afterwards.
* One node, many lists: `LOS_ListDelete` unlinks from whatever list a node is on,
  and writes through null pointers if it is on none.
* Timeouts against late answers; deletion of tasks that wait, or that have been
  granted something they have not returned with; deletion of the running task,
  whose stack is still in use.
* Promises: a reader that was woken for a message copies what is in the ring when
  it runs, after others have read and written at both ends.
* Streams: a byte lost from the ring shifts every frame after it.
* Answers that come when their command has timed out and the next one, with another
  buffer, has begun.
* Loss of power between the two writes of the flag, between the copy of a block and
  the record of it, during the roll back.
* Liveness: requests for a switch made under the scheduler lock, delays while the
  wheel's deltas are rearranged, time slices that start anew.

`PROJECT.json` lists the hazards at their lines, with the properties that cover
them or the reason none does yet.

### What makes each component correct

| Component | Properties |
|---|---|
| Scheduler | status and lists agree (`ReadyQueueExact`, `NoTaskLost`, `TimerExact`), no illegal unlink (`NoNullUnlink`), the processor executes a ready task of the highest priority (`RunnerIsReady`, `HighestRuns`), the lock is respected (`SwitchOnlyUnlocked`), a dead task's stack outlives its use (`DeadStackKept`), delays end, the top task gets the processor, time slices share it |
| Timer wheel | it implements a calendar: each wait ends on its tick (`WheelIsCalendar`); the tickless sleep is exact (`SleepIsExact`) |
| Semaphore | it implements the abstract semaphore (`KeepsContract`): each call has the effect the contract gives it and no other, a post is counted or granted, a wait ends and is answered in one way; no waiter beside a count (`CountOrWaiters`), none on a deleted object (`WaitersOnUsed`) |
| Mutex | the hand-over and the timeout agree (`GrantedIsOwner`), every waiter has an owner to wait for (`WaitersHaveOwner`), only the owner's own step releases (`OnlyOwnerReleases`), borrowed priority returns (`BorrowedReturned`) |
| Queue | it implements a bounded queue of messages with sleepers served in order (`KeepsContract`), nobody sleeps while what he waits for is there unpromised (`NoIdleSleeper`), a woken task finds the queue it went to sleep on (`ReturnsToLiveQueue`) |
| Mail | a block is free, with one task, or in the queue (`MailConserved`) |
| Events | it implements abstract flags (`KeepsContract`): a write wakes exactly the readers it satisfies; none sleeps through flags that satisfy it (`NoSleepingWinner`) |
| Software timers | relative counts keep every timer's time (`KeepsContract`); a control block is on one list (`OnOneList`) |
| UART frames | frames come out whole and in order, or are dropped whole (`KeepsFrames`); the semaphore counts them (`SyncCountsFrames`) |
| AT framework | one command at a time (`OneCommand`), an answered call has an answer to its own command (`AnswerIsMatched`), no buffer of a call that has returned is written (`NoLateWrite`), every call returns (`CallReturns`) |
| Firmware update | the two copies are one atomic flag (`KeepsFlag`), copying resumes only where the recorded blocks are those of the image (`ResumeSound`), a stored success is one (`SuccessIsWhole`), an update ends (`UpdateEnds`) |

## 2. Plan

In this order, the most important behaviour first:

1. `KernelLists`, `TaskSortLink`, `TickCalendar`, `LosTask`: done.
2. `LosSem` against `SemContract`, `LosMux`: done.
3. `KernelListsProofs`, `LosTaskProofs`, `LosSemProofs`, `LosMuxProofs`: types, the
   scheduler's state invariants, those of semaphore and mutex, the semaphore's
   contract, the scheduler's use of the calendar: done.
4. `LosQueue` (queue, mail and its memory pool) against `QueueContract`: done.
5. `LosEvent` against `EventContract`: done.
6. `LosSwtmr` against `SwtmrContract`: done.
7. `UartAt` against `UartFrames`, `AtCommand` over it: done.
8. `OtaDefault` against `AtomicFlag`, with loss of power: done.
9. `ComponentProofs` (the flag's two copies implement an atomic one, copying resumes
   where it is sound; one command at a time, matched answers, no late write; whole
   frames in order through the byte ring): done.
10. `LosQueueProofs` (types, sleepers, mail, the bounded queue's contract),
    `TimerProofs` (control blocks, the contract of the software timers, the wheel as a
    calendar, the tickless sleep): done.
11. `LosEventProofs` (types, sleepers, the contract of the event flags): done.

Left:

12. The walk of `osTaskScan` split at its unlocked reads; two mutexes at once, with
    the weaker `BorrowedReturned` that then holds.
13. `Tickless` over `TickCalendar`; the out-of-band table and the pass-through mode
    of the AT framework.

## 3. How the models are built

**Steps.** There is one processor. A step is what the code does between
`LOS_IntLock` and `LOS_IntRestore`; `pc[t]` says where task `t` is between two
critical sections of one call: `"sched"` about to call `LOS_Schedule`, `"create"`
between the two halves of `LOS_TaskCreate`, `"exit"` between the return of the
entry function and the deletion, `"ret"` back from the `LOS_Schedule` of an IPC
wait. A call of an interrupt handler is one step, its `LOS_Schedule` included,
since the handler is not interrupted by tasks. Interrupt handlers come at any
time, also between the rounds of the tick's walk. Tasks and PendSV make steps
only when no other interrupt is active, tasks only when PendSV is not pending.
`LosSwtmr` and `AtCommand` do not stand on `LosTask`: there every task may make its
step at any time, with one critical section, or one kernel call, to a step. What a
scheduler allows is among these interleavings. In `OtaDefault` a step ends where
something in the flash has changed; a write that the power cuts off leaves an
invalid copy.

**Lists.** A doubly linked list is the sequence of its owners. The one node
`stPendList` may be on the ready queue (`ready`) or on a wait list (`waiting`);
the code decides which by the status, and so do the actions. Each step that
calls `LOS_ListDelete` says through `Unlinking` whether its node is on a list;
`fault` remembers a call that was not legal.

**Timers.** `LosTask` reads the timer wheel as a calendar, `due[n]` the tasks
that expire in `n` ticks. `TaskSortLink` is the wheel itself, with its
cursor, its deltas and its index and roll fields, and refines `TickCalendar`
(`WheelIsCalendar`); `LosTask` uses the calendar as `TickCalendar` allows
(`UsesCalendar`). The two runs together justify the abstraction.

**IPC objects** extend `LosTask` and add variables; their next-state relation is
`(Next /\ UNCHANGED ...)` or an action of their own. A call whose guard fails
returns an error and changes nothing: it is left out.

**Assumptions on the application** are in `Known`: it names neither the idle task
nor an identifier that `LOS_TaskCreate` has not returned yet. `TaskOps` and
`IsrOps` choose the calls made by tasks and by interrupt handlers.

| Module | Code | Remarks |
|---|---|---|
| `KernelLists` | `los_list.h`, `los_priqueue.c` | the bitmap is the set of non-empty lists |
| `ListWalk` | the loop of `LOS_EventWrite` | what a walk along a list takes out of it, as a recursive function |
| `TaskSortLink` | `osTaskAdd2TimerList`, `osTimerListDelete`, `osTaskScan`, `osTaskNextSwitchTimeGet` | wheel length and width of the roll number are constants |
| `TickCalendar` | – | abstract: who may arm, cancel, expire, and when |
| `LosTask` | `los_task.c`, `los_timeslice.c`, `osTickHandler`, `LOS_Schedule`, `PendSV_Handler` | `slice` keeps the ticks left, the code the tick count at which the slice ends |
| `SemContract` | – | abstract: each step has the name of its call; a post goes to the count or to the longest waiter |
| `LosSem` | `los_sem.c` | `call` is a history variable: the call a step belongs to and its answer, for the contract |
| `LosMux` | `los_mux.c` | `IsrPosts` allows `LOS_MuxPost` in interrupt handlers, see section 8 |
| `QueueContract` | – | abstract: a message or a slot goes to the first sleeper and is kept for it |
| `LosQueue` | `los_queue.c`, `los_membox.c` | the wait lists of a queue are pairs `<<q, "read">>`, `<<q, "write">>`, `<<q, "mem">>` |
| `EventContract` | – | abstract: a write wakes the readers whose demand is met |
| `LosEvent` | `los_event.c` | a word is the set of its flags |
| `SwtmrContract` | – | abstract: each timer has a time; a bounded queue of calls |
| `LosSwtmr` | `los_swtmr.c` | the first round of a scan decrements, each further one expires a timer |
| `UartFrames` | – | abstract: a queue of whole frames |
| `UartAt` | `ring.c`, `uart_at.c` | the ring's memory byte by byte, a byte being a cell `<<f, k>>` |
| `AtCommand` | `comnew/at/at.c` | extends `UartAt`; `at[c]` is the place of a caller in `at_command` |
| `AtomicFlag` | – | abstract: writes take effect at one instant |
| `OtaDefault` | `ota_default.c` | `then` says where a write of the flag returns to; external: `board_*`, the two main programs |
| `MCLosTask`, `MCLosSem`, `MCLosMux`, `MCLosQueue`, `MCLosEvent`, `MCLosSwtmr`, `MCUartAt`, `MCAtCommand` | – | tasks, priorities, ready queues, symmetries, frames of the runs |
| `KernelListsProofs`, `LosTaskProofs`, `LosSemProofs`, `LosMuxProofs`, `LosQueueProofs`, `LosEventProofs`, `TimerProofs`, `ComponentProofs` | – | theorems |

Definitions marked "Mutant" in a comment are what a plausible bug would make of
the definition after them. No specification uses them; each shows that some
property is able to fail.

## 4. Runs

| Run | Instance | Shows |
|---|---|---|
| `wheel` | 2 lists, 4 turns, 3 tasks, timeouts 1..7 | the wheel implements the calendar, and the sleep is exact |
| `task` | two application tasks of one priority, one above them, and the idle task; all calls by tasks, deletion and creation at run time; resume and delete by interrupt handlers | the safety properties of the scheduler; its timers are used as the calendar allows |
| `sem` | two tasks, one semaphore, timeouts 1 and forever, tasks created, suspended and deleted, creation and deletion of the semaphore | each call has the effect its contract gives it, timed waits end |
| `mux` | three tasks of different priority, nesting 2, timeouts 1, 2 and forever, suspension and delay also of the owner | hand-over, ownership, inheritance, ready queue |
| `queue` | two tasks and interrupts, one queue of length 1 or 2, two messages, one mail block, timeouts 1 and forever, deletion | the queue implements its contract, mail is conserved |
| `event` | two tasks of one priority, two flags; demands: any and clear, all and clear, all and keep | the flags implement their contract; delays end, no request for a switch is lost, slices are shared |
| `swtmr` | three timers of every mode, periods 1 and 2, a handler queue of 2 | the timers implement their contract |
| `at` | two callers, three frames of two bytes, of which one answers nobody, a ring of 9 bytes | the framework's properties, with late, repeated and missing answers |
| `ota` | two images of 3 blocks, two losses of power, one failed write, one restart allowed | the flag is atomic, updates are sound and end |
| `sem_deleted_late`, `mux_preempt`, `at_full` | small instances of the same | the disagreements of section 8 |

**Bounds.** `MaxDelay` bounds the timeouts a task asks for. With 2 (`mux`) a later
waiter can expire before, with and after an earlier one; with 1 a timer can still be
cancelled before and during the walk, and two waits still expire in one walk.
`MaxLock` and `MaxNest` bound nesting. Two application tasks give every pair of roles
in a race (waiter and poster, deleter and deleted, reader and writer); the mutex
needs three for a waiter above, a waiter below and an owner, and the scheduler three
for a task above two that are equal. `Lowest` is the idle priority. `SliceLen` is at
least 2 where slices matter; where it is 1 each tick is the end of a slice, the
finest interleaving for tasks of one priority. The counts are those of a binary (1)
and a counting (2) semaphore, so that both limits are reached. In `wheel` the word of
2 x 4 turns is filled completely: multiples of the wheel's length, the largest
timeout and three tasks on one list all occur.

In `sem` a task that is created anew has the higher of the two priorities.

A queue of length 1 is full and empty by turns, one of length 2 wraps with a message
left. With one mail block there is always a task without. `MaxInterval` 2 and three
timers put two on one tick and one after or before them, and `QueueSize` 2 is
exceeded by three expiries in a tick. The ring of 9 holds two frames of 2 + 2 bytes
and one byte more: frames wrap at every place, and room for a frame implies room for
its length in front (5 bytes free or 1), so that the disagreement `at_full` does not
occur; there the ring has 7. `BufLen` 2 and `RespLen` 1 cut a response short.
`Blocks` 3 has a first, a middle and a last block; two losses of power can hit an
update and the resumption of it, `MaxCrash` and `MaxFails` bound faults and nothing
else.

Messages of a queue are interchangeable, and so are software timers: `SYMMETRY` is
used in those two runs, which check no liveness.

**Fairness.** `TickStart`, `ExpireOne` and `EndScan` are weakly fair: SysTick is
periodic and a handler ends. `PendSV` and the steps that finish a kernel call are
strongly fair, because every tick disables them for its duration: the processor
is not kept busy by interrupts for ever. No application call is fair: tasks need
not release, post or yield. In `AtCommand` the end of a timed wait is weakly fair,
which `TimedWaitEnds` justifies, and so are the steps of a task that is free to go
on; `Create` and `Clear` wait for a mutex, which `LOS_MuxPost` hands to the waiter, so
that they are strongly fair. The device is not fair at all. In `OtaDefault` the
processor runs the program: the steps of the bootloader and of a write are weakly
fair, those of the application are not.

**What the passing runs leave out**, each because of a disagreement of section 8:
`LOS_TaskSuspend` in interrupt handlers, `NoNullUnlink` for `LOS_TaskDelete` together
with timed waits (`sem_deleted_late`), a task above the two that share a slice in
`RoundRobin`, `HighestRuns` with mutexes (`mux_preempt`), the scheduler lock together
with waits for mail, frames of different length in a full ring (`at_full`), a second
failed write during an update.

The modules' type invariants are not repeated in the runs. Those of the scheduler,
the semaphore, the mutex, the queue, the event flags, the AT framework and the update
are proved (section 5); `SwtmrTypeOK` holds in `swtmr` and can be added to its
configuration.

## 5. Proofs

All theorems hold for any number of tasks, wait lists and priorities, any
timeouts, frames, images, bounds and choice of calls, under the assumptions the
modules name:
`TaskAssumption` (the names are distinct, the idle task is a task),
`NumberAssumption`, `BootAssumption` (the idle task is ready at boot and no task
is queued twice), `OpsAssumption`, `CountAssumption`. TLC evaluates them in every
run.

* `KernelListsProofs`: what `Unlink` returns and keeps, for lists of any length,
  from the definition of `RemoveFirst` by a least position; what `Only` takes out of a
  list, from its walk. It holds no property; the other proofs rest on it.
* `TypeCorrect` (`LosTaskProofs`): `Spec => []TypeOK`. `TypeOK` is not inductive.
  `TInv` adds that the idle task stays on its list (so `Top` is a task), that a
  slice with a task has ticks left (so the count never passes zero), that a task at
  `"create"` has created one, and that PendSV is pending only with the scheduler
  unlocked.
* `LockIsRespected`: `Spec => SwitchOnlyUnlocked`. `PendSV_Handler` does not look at
  the lock; the last conjunct above is the argument, and it is inductive because
  only a running task takes the lock and none runs while PendSV is pending.
* `DeadStackSafe`: `Spec => []DeadStackKept`. `LOS_TaskCreate`, which frees the
  recycle list, is called by the task that executes, and none does while
  `run = Dummy`.
* `ReadyQueueExactHolds`, `NoTaskLostHolds`, `TimerExactHolds`, `RunningIsRunHolds`
  (`LosTaskProofs`): status words, lists and the processor agree, whatever tasks
  and interrupt handlers call. None of the four is inductive; `ListInv` is. A call
  that makes a task ready appends it to the queue without looking whether it is
  there: that it is not follows from the flag that blocked it (`FlagInv`). A call
  that blocks its caller leaves it executing until `LOS_Schedule`; that it starts
  no other call until then is `BlockInv`: a task that waits is on its way to
  `LOS_Schedule`, or neither has the processor nor is chosen for it. The gap in
  `LOS_TaskCreate` needs `CreateInv`: nobody else touches the new task before it is
  made ready. How each part survives is a lemma of its own (`ReadyMore`,
  `BlockSchedule`, `CreateKeep`, ...), and there is one lemma for each action. As
  `Spec` is the scheduler alone, the clauses on wait lists hold with no task on
  any; they are there for the modules that add waits, where the lemmas `ListWait`,
  `ListWake` and `ListBack` carry them on. `CallInv` goes with them: a task on a wait
  list has a call under way that will return.
* `RunnerIsReadyHolds`, `HighestRunsHolds` (`LosTaskProofs`): the processor executes a
  ready task, and the most urgent one when nothing is pending. `ChoiceInv` says what
  a pending PendSV owes: the task chosen is ready and is either still the top of the
  queue or a tick in progress will choose again, and a runner that is neither ready
  nor on its way to `LOS_Schedule` has a switch pending. Both assume that
  `LOS_TaskSuspend` is not called by interrupt handlers, with which they are false in
  the code (section 8).
* `NoNullUnlinkHolds`: no unlinking of a node that is on no list, by the scheduler
  alone; there `NoTimeout` holds, no task carries `TIMEOUT` (which a timed IPC wait
  sets), and with it `LOS_TaskDelete` is wrong (`sem_deleted_late`).
* `UsesCalendarHolds`: each step of the scheduler is one of `TickCalendar` or leaves its
  lists alone: what the run `wheel` shows of the wheel holds below the scheduler.
* `SemTypeCorrect`, `CountOrWaitersHolds`, `WaitersOnUsedHolds` (`LosSemProofs`): the
  semaphore's variables keep their types (a count never passes its maximum), and
  the two state invariants, which need each other: a reused control block starts
  with any count, so it must have inherited no waiter. The scheduler's steps only
  ever shorten wait lists.
* `KeepsContractHolds` (`LosSemProofs`): the step simulation of `SemContract`, from
  `ListInv` and `CallInv`: a post is the contract's `Post` or `Grant`, a creation its
  `Make`, a return gives the answer of the outcome, and a step of the scheduler is the
  contract's `TimeOut`, its `Kill` of a task that ends, or touches no wait. The history
  variable `call` ties them: without it a post that does nothing would be a stuttering
  step, and a waiter that is woken with the flag `TIMEOUT` left set would look like one
  the tick has ended. A waiter is on one list, so that a post, a timeout and a
  deletion cannot both end the same wait; the outcome of a call is read off its `pc`
  and its flags, and every step of the scheduler leaves it or is the timeout.
* `MuxTypeCorrect` (`LosMuxProofs`): `MuxSpec => []MuxTypeOK`. A mutex writes the
  priorities of its owner and moves tasks on the ready queue; that the idle task
  keeps its priority and its place needs that it neither waits for a mutex nor
  owns one (`MuxInv`).
* `MuxReadyQueueExact`, `WaitersHaveOwnerHolds`: `ListInv` under inheritance, with
  `HoldInv`: a mutex with waiters is held, by somebody who does not wait for it.
* `GrantedIsOwnerHolds`, `OnlyOwnerReleasesHolds`: who returns with success owns the
  mutex, and only the owner's own step lets go of it; both for `IsrPosts = FALSE`,
  because a post in an interrupt handler acts for the interrupted task (section 8).
  `OnlyOwnerReleases` is in no run's list: the proof alone speaks for it.
* `BorrowedReturnedHolds`: a task that owns nothing has its own priority, from
  `LentInv`: the priority a mutex remembers is that of its owner, and nobody but a
  mutex has changed it. It assumes `UserPri = {}` (no `LOS_TaskPriSet`) and `NotNested`
  (no task takes a second mutex), without which it is false in the code.
* `NoIdleSleeperHolds` (`LosQueueProofs`): nobody sleeps on a queue while there is what
  he waits for, from `QueueInv`: types, and sleepers only on queues in use.
* `ReturnsToLiveQueueHolds`, `QueueTypeCorrect`: a task that was let in finds its queue,
  and no count passes the length. `PromiseInv`: what is readable and writable and
  promised never exceeds the length, which needs that a promise is counted once
  (`CallMatch`, `CallInv`); `SlotInv` bounds the counts. Both assume `MailUnlocked`, that
  no task waits for a mail while the scheduler is locked: `osQueueMailAlloc` does not
  test for it (section 8).
* `MailConservedHolds`: each block is free, with a task, or promised to exactly one
  waiter (`MailInv`), under `MailUnlocked` and `NoDeletion`: a deleted task takes with it
  the block or slot that was promised to it.
* `KeepsContractHolds` (`LosQueueProofs`): the step simulation of `QueueContract`. The
  invariant is `RingExact`: in a queue in use, the slots that are readable, writable
  or promised are as many as its length, and the tail is the head plus the messages
  stored, wrapped. The ring read from its head is then the sequence of the contract:
  a lemma for reading at the head, one for writing at the tail, one for writing
  before the head, for any length. One lemma follows for each kind of step; timeouts
  are `GiveUp`. Same conditions.
* `EventTypeCorrect`, `NoSleepingWinnerHolds` (`LosEventProofs`): the types, and no reader
  sleeps while the flags meet its demand. `LOS_EventWrite` wakes any number of readers in
  one critical section (`TaskWakeAll`), so that the scheduler's invariants are carried
  over a step that shortens one wait list and many expiry lists and lengthens many
  ready lists at once (`OnlyTakes`: what is taken, and that nobody is taken twice). The
  test of a write looks only at the written flags for a reader of any of its own: that
  this wakes everybody it should is inductive only with the invariant itself, since a
  flag that was set before and would do has woken the reader before.
* `KeepsContractHolds` (`LosEventProofs`): the step simulation of `EventContract`, under
  `NoDeletion`: a deleted reader's demand would end neither with flags nor with a timeout.
  A write is one step of the contract for all the readers it wakes; a woken one polls
  again when it runs, and returns without flags if a clear came first. `ServedInv` is
  `EventInv` with `DeadInv`: no dead task has a read under way.
* `OnOneListHolds` (`TimerProofs`): every timer is on one list, once; inductive with
  the states of timers under construction (`PlaceInv`).
* `KeepsContractHolds` (`TimerProofs`): the step simulation of `SwtmrContract`. The time of
  a timer is the sum of the counts up to it (`TimeTo`), and those that expire in `n` ticks
  are a stretch of the list (`ComingUp`); `KernelListsProofs` shows for lists of any length
  what inserting before the first later node, adding a removed node's count to its
  successor, and a tick do to both. The invariant adds `CountInv`: no timer is further away
  than `MaxInterval`, and between two scans the first one is not due, without which the
  next scan would decrement a count of zero.
* `WheelIsCalendarHolds` (`TimerProofs`): `Spec => WheelIsCalendar` for any length of the
  wheel and any number of rolls. `WheelInv`: a task is on one list at most, the one its index
  says, so that a deletion repairs the right list; and no list stands for a time beyond the
  longest timeout (`LinkLimit`, one turn less for the list under the cursor between two
  scans), so that the remaining roll count of no node overflows its field. Time and
  place determine each other (`TimePlace`): the arithmetic of `osTaskAdd2TimerList` with the
  case of a multiple of the wheel's length.
* `SleepIsExactHolds` (`TimerProofs`): from the same invariant; the earliest of the first
  nodes of the lists is the earliest of all waiting tasks.

* `OtaTypes`, `FlagIsAtomic` (`ComponentProofs`): the types, and `OtaSpec => KeepsFlag`, the
  two copies are one atomic flag for any image, number of blocks, losses of power
  and failures. The inductive invariant adds to the types that the first copy is not
  given up before the second is equal to it (`CopiesKept`), and that a write never
  returns into the copying of a block; the simulation has one lemma for each kind of
  step. A write takes effect when the first copy is whole; until then the flag that
  the next boot reads is the old one, from whichever place.
* `ResumeSoundHolds`, `SuccessIsWholeHolds` (`ComponentProofs`): copying resumes only where the
  blocks counted are those of the image, and a stored success is a whole image. The
  invariant `UpdateInv` requires of the stored flag, and of a flag being written, that
  they tell the truth of the images (`Truthful`); while blocks are copied the stored
  flag lags behind by at most what is written again; and when an image is started no
  unfinished update is stored (`Settled`), so that a later download cannot be mixed
  into it. The hypothesis is `FailureRecorded`: the record that an update failed is
  not itself lost; section 8 says what happens otherwise. Any number of other
  failures and of losses of power is allowed, and `OneFailureRecorded` derives the
  hypothesis from `MaxFails <= 1`, the instance of the run.
* `CommandsExclude`, `AnswersMatch`, `BuffersLetGo` (`ComponentProofs`): one command at a time,
  answers that match, no write into a buffer of a call that has returned, for any
  number of callers and any frames, whatever the ring does. The invariant's parts:
  `Token`, the right to send a command is in the semaphore or with exactly one
  caller; `Block`, the command the receiver sees is that of the caller between its
  `Create` and its `Clear`; `Matching`, while the receiver holds the mutex the frame it
  has copied answers that caller; `Answered`, a caller whose response semaphore has
  been posted, or who has taken the post, has an answer in its buffer. That `Create`
  empties the response semaphore is what keeps an old post out of the last.

* `SyncCountsHolds`, `KeepsFramesHolds`, `FramesStayIntact`, `AtTypeCorrect`
  (`ComponentProofs`): the frame channel, for a ring of any length, any buffer and any
  frames. `RingWriteBytes` and `RingReadBytes` say of `ring.c` what `At`, the byte at a place
  behind the offset, is after a write and a read in two pieces: the `%` of the code
  enters there and nowhere else. `Framed` says of the bytes in the ring that they are
  frames one behind the other, each complete; a frame written keeps that, and a read
  then finds the length and the bytes of the first frame (`FrameAhead`), so that
  `uart_at_receive` never resets the ring. `LineInv` adds that the semaphore, and a receiver
  it has woken, count the frames. The hypothesis is `RoomForLength`: no step of the
  interrupt cuts a frame off. The code does not see to it (section 8, `at_full`); it
  follows where all frames have one length that divides the ring well
  (`EqualFramesFit`, whose condition the instance of `at` satisfies), or where the
  receiver keeps up.

**Only model-checked.** Liveness and fairness (`DelayEnds`, `TopGetsProcessor`,
`RoundRobin`, `TimedWaitEnds`, `CallReturns`, `UpdateEnds`): TLAPS has no `ENABLED`. Every
invariant and every other action property or refinement of a passing run has its
theorem. The findings of section 8 are the reason for the hypotheses named above; the
runs check the same properties under the same ones.

## 6. Not modelled

Kernel: queries without effect (`LOS_TaskInfoGet`, stack water lines, the task
monitor), error codes and the error hook, the clock arithmetic of `los_tick.c`, kernel
calls before `LOS_Start`, `LOS_TaskCreate` in interrupt handlers, and deletion of a task
that owns a mutex or setting its priority, which the documentation forbids; deletion
of a task that waits for a queue; `LOS_EventInit` of an event word in use, which the
code does not check and which would strand its readers. One mutex per model: with two, `BorrowedReturned` is
false in the code. The reads that `osTaskScan`, `LOS_TaskYield` and `LOS_EventRead`
(`los_event.c:100`) make outside a critical section belong to the step that follows
them. The heap: arithmetic on addresses; the scheduler's model has the failure of an
allocation as an outcome.

Software timers: identifiers and their reuse (`usTimerID`), alignment and
`osSwTmrAdjust`, timer calls in interrupt handlers that nest in the scan.

AT framework: `at_workmode` and `at_oobregister` with its handlers, whose table is
checked and set without a lock (`at.c:358`); commands without an index or a buffer;
frames of no byte, which make the receiver reset the ring; the search of `strstr` in a
frame that fills its buffer. What the device sends is any sequence of frames.

Firmware update: a read of the flag that fails; reads of the image that fail, which the
application is told of before anything is written (`ota_default.c:239`) or which end like an image without integrity
(`ota_default.c:291`); a roll back whose copy fails (`ota_default.c:345`), which leaves the
flag alone and is tried again at the next boot, like one that loss of power cuts
off; `fota_package_storage_device.c` and
`sota.c`, whose result is the image found as the download. The `board_*` functions are
external: the copy of a block is assumed to fail only when its record fails, and an
image whose blocks do not belong together not to run.

The remaining components of section 1: sequential set-up, pure I/O, argument
translation, vendored code.

## 7. Reading guide

`LosTask.tla` first: variables, the operators offered to IPC modules, one action
per call in the order of the source, then the properties. `LosSem`, `LosMux`,
`LosQueue` and `LosEvent` need only `TaskWait`, `TaskWake` and `ThenSchedule` of it.
`LosSwtmr`, `UartAt` with `AtCommand`, and `OtaDefault` can be read by themselves; for
each, read the abstract module first.

## 8. Disagreements between code and documentation

Three are `violation` runs and findings of `PROJECT.json`, with the lines quoted.

* `sem_deleted_late`: a task whose timed wait has expired, and which has not run
  since, still carries `TIMEOUT`. `LOS_TaskDelete` takes that for an armed timer and
  unlinks a node that the walk has unlinked already.
* `mux_preempt`: an owner that gives a borrowed priority back when nobody waits any
  more goes on running although a more urgent task is ready.
* `at_full`: `atio_irq` compares the room in the ring with the bytes of a frame and
  writes its length as well. With room for the frame alone it is written short, and
  the receiver is handed a mixture of two frames.

Others are seen by changing a configuration:

* `LOS_TaskSuspend` of a task that is `pstNewTask` but not yet running leaves
  `pstNewTask` alone; PendSV switches to the suspended task (`task` with `"suspend"` in
  `IsrOps`: `RunnerIsReady` is false).
* A task that is interrupted by a more urgent one at the ticks at which its slice
  would be counted gets a new slice each time, and its peers of the same priority
  never run (the instance of `task` with `FairSpec`, `TaskOps = {"delay"}`, `MaxLock = 0`,
  no interrupt calls: `RoundRobin` is false).
* A mutex goes to the longest waiter, and the new owner inherits nothing from a more
  urgent task that still waits (`mux`: `OwnerInherits` is false).
* `los_mux.h` documents an error for `LOS_MuxPost` in an interrupt handler, which
  `los_mux.c` does not check for (`mux` with `IsrPosts = TRUE`: `OnlyOwnerReleases` is
  false).
* `osQueueMailAlloc` (`los_queue.c:581`) does not look at the scheduler lock before it
  waits. With the scheduler locked it goes on at once and returns no block where the
  comment at line 593 expects one (`queue` with `MaxLock = 1` and `TaskOps = {"lock"}`:
  `MailGranted` is false).
* The bootloader goes on with an update that was cut off without checking the
  integrity of the download again (`ota_default.c:303`). If the record of the last
  block and the record of the failure that follows both fail, the whole image runs
  with the update still under way in the stored flag; the application downloads
  another image, and the next boot copies the rest of that one (`ota` with
  `MaxFails = 2`: `ResumeSound` and `SuccessIsWhole` are false).
* `ota_default_set_reboot` leaves the count of restarts alone (`ota_default.c:235`), so
  that a new image may have fewer restarts to be confirmed; `ota.h:157` says of the
  operation that it also reboots the board, which it does not. In
  `ota_default_check_update_state` the state is tested for success after it was set to
  idle (`ota_default.c:265`): the length of the confirmed image is never recorded.
