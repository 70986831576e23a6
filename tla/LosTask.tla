------------------------------- MODULE LosTask -------------------------------
(***************************************************************************)
(* The task scheduler of the kernel: los_task.c, los_priqueue.c,           *)
(* los_timeslice.c, los_tick.c and, for Cortex-M, LOS_Schedule of los_hw.c *)
(* and the PendSV handler of los_dispatch.                                 *)
(*                                                                         *)
(* There is one processor.  A step of this specification is what the code  *)
(* does between LOS_IntLock and LOS_IntRestore; pc[t] is where task t is   *)
(* inside a kernel call.  Interrupts come between any two steps, PendSV    *)
(* (the context switch) when no other interrupt is active and before the   *)
(* thread goes on.  The tick interrupt has the lowest priority, so the     *)
(* other interrupts nest in it: its scan is one step per expired task.     *)
(***************************************************************************)
EXTENDS KernelLists

CONSTANTS
  Task,        (* the task control blocks, the idle task's included        *)
  Idle,        (* the idle task                                            *)
  Dummy,       (* the spare TCB g_pstTaskCBArray[g_uwTskMaxNum]            *)
  Isr,         (* the caller of a kernel call made by an interrupt handler *)
  NoArg,       (* no argument                                              *)
  WaitList,    (* the wait lists of the IPC objects                        *)
  Forever,     (* LOS_WAIT_FOREVER                                         *)
  Lowest,      (* OS_TASK_PRIORITY_LOWEST, the priority of the idle task   *)
  MaxDelay,    (* bound on the ticks a task asks to wait for               *)
  MaxLock,     (* bound on the nesting of LOS_TaskLock                     *)
  SliceLen,    (* LOSCFG_BASE_CORE_TIMESLICE_TIMEOUT                       *)
  BootReady,   (* the ready queue that main leaves to LOS_Start            *)
  BootPri,     (* the priorities main gave                                 *)
  UserPri,     (* the priorities the application uses                      *)
  TaskOps,     (* the kernel calls tasks make                              *)
  IsrOps       (* the kernel calls interrupt handlers make                 *)

Prio == 0 .. Lowest

Ops == {"create", "resume", "suspend", "delete", "delay", "priset", "yield",
        "lock", "exit"}

ASSUME TaskAssumption ==
  /\ Idle \in Task
  /\ Dummy \notin Task /\ Isr \notin Task /\ NoArg \notin Task \cup {Dummy}
  /\ WaitList \cap Task = {} /\ NoArg \notin WaitList

ASSUME NumberAssumption ==
  /\ Lowest \in Nat \ {0} /\ MaxDelay \in Nat /\ MaxLock \in Nat
  /\ SliceLen \in Nat \ {0}
  /\ UserPri \subseteq Prio

(* The idle task is ready, and no task is on the queue twice.              *)
ASSUME BootAssumption ==
  /\ BootPri \in [Task -> Prio] /\ BootPri[Idle] = Lowest
  /\ BootReady \in [Prio -> Seq(Task)]
  /\ Linked(BootReady[Lowest], Idle)
  /\ \A p \in Prio :
       /\ \A i \in DOMAIN BootReady[p] : BootPri[BootReady[p][i]] = p
       /\ \A i, j \in DOMAIN BootReady[p] : BootReady[p][i] = BootReady[p][j] => i = j

ASSUME OpsAssumption ==
  /\ TaskOps \subseteq Ops
  /\ IsrOps \subseteq {"resume", "suspend", "delete"}

VARIABLES
  status,    (* usTaskStatus, as the set of its flags                      *)
  pri,       (* usPriority                                                 *)
  ready,     (* g_pstLosPriorityQueueList                                  *)
  waiting,   (* the tasks on each IPC wait list (stPendList)               *)
  due,       (* the timer list, read as a calendar                         *)
  recycle,   (* g_stTskRecyleList                                          *)
  run,       (* g_stLosTask.pstRunTask                                     *)
  new,       (* g_stLosTask.pstNewTask                                     *)
  pendsv,    (* PendSV is pending                                          *)
  taskLock,  (* g_usLosTaskLock                                            *)
  slice,     (* g_stTaskTimeSlice: its task and the ticks it has left      *)
  tick,      (* "scan" while the tick interrupt walks the expired tasks    *)
  resched,   (* bNeedSchedule of that walk                                 *)
  pc,        (* where each task is: "user" is its own code                 *)
  arg,       (* the object of the call it is in                            *)
  fault      (* LOS_ListDelete was applied to a node that is on no list    *)

sched == <<run, new, pendsv, taskLock>>
tcb   == <<status, pri, ready, waiting, due, recycle>>
isr   == <<slice, tick, resched>>
vars  == <<tcb, sched, isr, pc, arg, fault>>

Flags == {"UNUSED", "SUSPEND", "READY", "PEND", "RUNNING", "DELAY", "TIMEOUT"}

Blocked == {"DELAY", "PEND", "SUSPEND"}

Places == {"user", "sched", "create", "exit", "ret"}

Is(t, flag) == flag \in status[t]

Live(t) == ~Is(t, "UNUSED")

(* The task's list node is on a wait list, as LOS_TaskDelete sees it.      *)
Pends(t) == Is(t, "PEND") /\ ~Is(t, "READY")

TypeOK ==
  /\ status \in [Task -> SUBSET Flags]
  /\ pri \in [Task -> Prio]
  /\ ready \in [Prio -> Seq(Task)]
  /\ waiting \in [WaitList -> Seq(Task)]
  /\ due \in [0 .. MaxDelay -> Seq(Task)]
  /\ recycle \subseteq Task
  /\ run \in Task \cup {Dummy}
  /\ new \in Task
  /\ pendsv \in BOOLEAN
  /\ taskLock \in 0 .. MaxLock
  /\ slice \in [task : Task \cup {Dummy, NoArg}, left : 0 .. SliceLen]
  /\ tick \in {"off", "scan"}
  /\ resched \in BOOLEAN
  /\ pc \in [Task -> Places]
  /\ arg \in [Task -> Task \cup WaitList \cup {NoArg}]
  /\ fault \in BOOLEAN
-----------------------------------------------------------------------------
(* Mutant: LOS_Schedule does not look at the scheduler lock.               *)
ScheduleUnderLock ==
  /\ new' = Top(ready')
  /\ pendsv' = (pendsv \/ run # new')

(* LOS_Schedule: recompute the highest ready task; ask for a switch unless *)
(* it is running already or the scheduler is locked.                       *)
Schedule ==
  /\ new' = Top(ready')
  /\ pendsv' = (pendsv \/ (run # new' /\ taskLock = 0))

(* The processor executes task t: no interrupt is active or pending.       *)
Running(t) == run = t /\ ~pendsv /\ tick = "off"

(* Caller c may enter the kernel: an interrupt at any time, a task from    *)
(* its own code.                                                           *)
Enters(c) == c = Isr \/ (c \in Task \ {Idle} /\ Running(c) /\ pc[c] = "user")

Calls(c, op) == Enters(c) /\ op \in (IF c = Isr THEN IsrOps ELSE TaskOps)

(* A task that a call of LOS_TaskCreate has not yet returned.              *)
Newborn(t) == \E c \in Task : pc[c] = "create" /\ arg[c] = t

(* The tasks a caller can name: the idle task and an identifier it has not *)
(* been given yet are outside the API.                                     *)
Known == {t \in Task \ {Idle} : Live(t) /\ ~Newborn(t)}

(* A call leaves the critical section and goes on to LOS_Schedule: at once *)
(* in an interrupt, as its next step in a task.                            *)
ThenSchedule(c) ==
  /\ UNCHANGED <<run, taskLock, arg>>
  /\ IF c = Isr THEN Schedule /\ UNCHANGED pc
                ELSE pc' = [pc EXCEPT ![c] = "sched"] /\ UNCHANGED <<new, pendsv>>

ThenReturn == UNCHANGED <<sched, pc, arg>>

(* Every LOS_ListDelete of the step finds its node on a list.              *)
Unlinking(legal) == fault' = (fault \/ ~legal)

NoUnlinking == UNCHANGED fault
-----------------------------------------------------------------------------
(***************************************************************************)
(* What los_task.c offers to the IPC modules.  q and p are the ready queue *)
(* and the priorities as the earlier calls of the same critical section    *)
(* leave them.                                                             *)
(***************************************************************************)

(* Mutant: the task stays on the list of its old priority.                 *)
PriModifyInPlace(q, t, p) == IF Is(t, "READY") THEN Enqueue(q, t, p) ELSE q

PriModify(q, t, p) ==
  IF Is(t, "READY") THEN Enqueue(Dequeue(q, t, pri[t]), t, p) ELSE q

TaskWait(q, t, w, n) ==
  /\ Unlinking(Linked(q[pri[t]], t))
  /\ ready' = Dequeue(q, t, pri[t])
  /\ waiting' = [waiting EXCEPT ![w] = Append(@, t)]
  /\ IF n = Forever
     THEN /\ status' = [status EXCEPT ![t] = (@ \ {"READY"}) \cup {"PEND"}]
          /\ UNCHANGED due
     ELSE /\ status' = [status EXCEPT
                           ![t] = (@ \ {"READY"}) \cup {"PEND", "TIMEOUT"}]
          /\ due' = AddTimer(due, t, n)

(* Mutant: a task that is woken in time still carries the mark of a        *)
(* timeout.                                                                *)
WokenLate(t) == status[t] \ {"PEND"}

(* The flags of a task that osTaskWake has woken, but for READY.           *)
Woken(t) == status[t] \ {"PEND", "TIMEOUT"}

TaskWake(q, p, t, w) ==
  LET timed == Is(t, "TIMEOUT")
      rest  == Woken(t)
  IN  /\ waiting' = [waiting EXCEPT ![w] = Unlink(@, t)]
      /\ Unlinking(timed => Armed(due, t))
      /\ due' = IF timed THEN CancelTimer(due, t) ELSE due
      /\ IF "SUSPEND" \in rest
         THEN status' = [status EXCEPT ![t] = rest] /\ ready' = q
         ELSE /\ status' = [status EXCEPT ![t] = rest \cup {"READY"}]
              /\ ready' = Enqueue(q, t, p[t])
-----------------------------------------------------------------------------
(* LOS_TaskCreateOnly, alone or as the first half of LOS_TaskCreate: the   *)
(* recycled TCBs are freed with their stacks and one TCB is initialised.   *)
TaskCreateOnly(c, t, p, place) ==
  /\ Calls(c, "create") /\ ~Live(t) /\ p < Lowest
  /\ recycle' = {}
  /\ status' = [status EXCEPT ![t] = {"SUSPEND"}]
  /\ pri' = [pri EXCEPT ![t] = p]
  /\ pc' = [pc EXCEPT ![t] = "user", ![c] = place]
  /\ arg' = [arg EXCEPT ![t] = NoArg,
                        ![c] = IF place = "create" THEN t ELSE NoArg]
  /\ UNCHANGED <<ready, waiting, due, sched, isr>> /\ NoUnlinking

(* The stack cannot be allocated: the TCB goes back to the free list.      *)
TaskCreateNoMemory(c) ==
  /\ Calls(c, "create") /\ \E t \in Task : ~Live(t)
  /\ recycle' = {}
  /\ UNCHANGED <<status, pri, ready, waiting, due, isr>>
  /\ ThenReturn /\ NoUnlinking

(* The second half of LOS_TaskCreate.                                      *)
TaskCreateReady(c) ==
  LET t == arg[c] IN
  /\ Running(c) /\ pc[c] = "create"
  /\ status' = [status EXCEPT ![t] = (@ \ {"SUSPEND"}) \cup {"READY"}]
  /\ ready' = Enqueue(ready, t, pri[t])
  /\ Schedule
  /\ pc' = [pc EXCEPT ![c] = "user"]
  /\ arg' = [arg EXCEPT ![c] = NoArg]
  /\ UNCHANGED <<pri, waiting, due, recycle, run, taskLock, isr>>
  /\ NoUnlinking

(* Mutant: a resumed task is made ready whatever else it waits for.        *)
UnblockedAlways(flags) == TRUE

(* Nothing but the suspension kept the task from being ready.              *)
Unblocked(flags) == flags \cap Blocked = {}

TaskResume(c, t) ==
  LET rest == status[t] \ {"SUSPEND"} IN
  /\ Calls(c, "resume") /\ t \in Known /\ Is(t, "SUSPEND")
  /\ IF Unblocked(rest)
     THEN /\ status' = [status EXCEPT ![t] = rest \cup {"READY"}]
          /\ ready' = Enqueue(ready, t, pri[t])
          /\ ThenSchedule(c)
     ELSE /\ status' = [status EXCEPT ![t] = rest]
          /\ UNCHANGED ready /\ ThenReturn
  /\ UNCHANGED <<pri, waiting, due, recycle, isr>> /\ NoUnlinking

(* Only the running task's own suspension is followed by LOS_Schedule.     *)
TaskSuspend(c, t) ==
  /\ Calls(c, "suspend") /\ t \in Known /\ ~Is(t, "SUSPEND")
  /\ ~(Is(t, "RUNNING") /\ taskLock > 0)
  /\ status' = [status EXCEPT ![t] = (@ \ {"READY"}) \cup {"SUSPEND"}]
  /\ IF Is(t, "READY")
     THEN /\ Unlinking(Linked(ready[pri[t]], t))
          /\ ready' = Dequeue(ready, t, pri[t])
     ELSE NoUnlinking /\ UNCHANGED ready
  /\ IF t = run THEN ThenSchedule(c) ELSE ThenReturn
  /\ UNCHANGED <<pri, waiting, due, recycle, isr>>

(* Mutant: the stack of a task deleted while running is not kept.          *)
LeaveAtOnce(t) ==
  /\ run' = Dummy /\ pendsv' = TRUE /\ taskLock' = 0
  /\ UNCHANGED recycle

(* A deleted task still has the processor: its TCB and stack wait on the   *)
(* recycle list, a copy in the spare TCB runs until PendSV.                *)
LeaveProcessor(t) ==
  /\ recycle' = recycle \cup {t}
  /\ run' = Dummy /\ pendsv' = TRUE /\ taskLock' = 0

(* The node of the task leaves the list its status names: the ready queue, *)
(* else a wait list; then the timer list if the status says it has a timer.*)
Delete(t) ==
  LET timed == Is(t, "DELAY") \/ Is(t, "TIMEOUT") IN
  /\ Unlinking(/\ Is(t, "READY") => Linked(ready[pri[t]], t)
               /\ Pends(t) => \E w \in WaitList : Linked(waiting[w], t)
               /\ timed => Armed(due, t))
  /\ ready' = IF Is(t, "READY") THEN Dequeue(ready, t, pri[t]) ELSE ready
  /\ waiting' = IF Pends(t)
                THEN [w \in WaitList |-> Unlink(waiting[w], t)] ELSE waiting
  /\ due' = IF timed THEN CancelTimer(due, t) ELSE due
  /\ status' = [status EXCEPT ![t] = {"UNUSED"}]
  /\ new' = Top(ready')
  /\ IF Is(t, "RUNNING")
     THEN LeaveProcessor(t)
     ELSE UNCHANGED <<recycle, run, pendsv, taskLock>>
  /\ pc' = [pc EXCEPT ![t] = "user"]
  /\ arg' = [arg EXCEPT ![t] = NoArg]
  /\ UNCHANGED <<pri, isr>>

TaskDelete(c, t) == Calls(c, "delete") /\ t \in Known /\ Delete(t)

(* The task's entry function returns to osTaskEntry, which drops the lock  *)
(* and then deletes the task.                                              *)
TaskExit(c) ==
  /\ Calls(c, "exit")
  /\ taskLock' = 0
  /\ pc' = [pc EXCEPT ![c] = "exit"]
  /\ UNCHANGED <<tcb, run, new, pendsv, isr, arg>> /\ NoUnlinking

TaskEntryEnd(c) == Running(c) /\ pc[c] = "exit" /\ Delete(c)

(* Mutant: LOS_TaskDelay does not look at the scheduler lock.              *)
TaskDelayUnderLock(c, n) ==
  /\ Calls(c, "delay")
  /\ Unlinking(Linked(ready[pri[c]], c))
  /\ ready' = Dequeue(ready, c, pri[c])
  /\ status' = [status EXCEPT ![c] = (@ \ {"READY"}) \cup {"DELAY"}]
  /\ due' = AddTimer(due, c, n)
  /\ ThenSchedule(c)
  /\ UNCHANGED <<pri, waiting, recycle, isr>>

(* LOS_TaskDelay of a positive number of ticks; of none it is a yield.     *)
TaskDelay(c, n) ==
  /\ Calls(c, "delay") /\ taskLock = 0
  /\ Unlinking(Linked(ready[pri[c]], c))
  /\ ready' = Dequeue(ready, c, pri[c])
  /\ status' = [status EXCEPT ![c] = (@ \ {"READY"}) \cup {"DELAY"}]
  /\ due' = AddTimer(due, c, n)
  /\ ThenSchedule(c)
  /\ UNCHANGED <<pri, waiting, recycle, isr>>

TaskPriSet(c, t, p) ==
  /\ Calls(c, "priset") /\ t \in Known
  /\ ready' = PriModify(ready, t, p)
  /\ pri' = [pri EXCEPT ![t] = p]
  /\ IF Is(t, "READY")
     THEN Unlinking(Linked(ready[pri[t]], t)) /\ ThenSchedule(c)
     ELSE NoUnlinking /\ ThenReturn
  /\ UNCHANGED <<status, waiting, due, recycle, isr>>

(* LOS_TaskYield: the running task, if it is ready and not alone at its    *)
(* priority, goes to the tail of its list.                                 *)
MayYield == run \in Task /\ Is(run, "READY") /\ Len(ready[pri[run]]) > 1

Rotate == ready' = Enqueue(Dequeue(ready, run, pri[run]), run, pri[run])

TaskYield(c) ==
  /\ Calls(c, "yield") /\ MayYield
  /\ Unlinking(Linked(ready[pri[run]], run)) /\ Rotate
  /\ ThenSchedule(c)
  /\ UNCHANGED <<status, pri, waiting, due, recycle, isr>>

TaskLock(c) ==
  /\ Calls(c, "lock") /\ taskLock < MaxLock
  /\ taskLock' = taskLock + 1
  /\ UNCHANGED <<tcb, run, new, pendsv, isr, pc, arg>> /\ NoUnlinking

(* Mutant: unlocking the scheduler does not call LOS_Schedule.             *)
TaskUnlockOnly(c) ==
  /\ Calls(c, "lock") /\ taskLock > 0
  /\ taskLock' = taskLock - 1
  /\ UNCHANGED <<tcb, run, new, pendsv, isr, pc, arg>> /\ NoUnlinking

TaskUnlock(c) ==
  /\ Calls(c, "lock") /\ taskLock > 0
  /\ taskLock' = taskLock - 1
  /\ pc' = IF taskLock = 1 THEN [pc EXCEPT ![c] = "sched"] ELSE pc
  /\ UNCHANGED <<tcb, run, new, pendsv, isr, arg>> /\ NoUnlinking

(* The call of LOS_Schedule that ends a task's kernel call; the waits of   *)
(* the IPC modules go on from "ret".                                       *)
LosSchedule(c) ==
  /\ Running(c) /\ pc[c] = "sched"
  /\ UNCHANGED <<tcb, run, taskLock, isr, arg>> /\ NoUnlinking
  /\ Schedule
  /\ pc' = [pc EXCEPT ![c] = IF arg[c] \in WaitList THEN "ret" ELSE "user"]
-----------------------------------------------------------------------------
(* PendSV_Handler: it looks at neither the lock nor the status of the task *)
(* it switches to.                                                         *)
PendSV ==
  /\ pendsv /\ tick = "off"
  /\ run' = new /\ pendsv' = FALSE
  /\ status' = [t \in Task |->
                  IF t = new THEN status[t] \cup {"RUNNING"}
                             ELSE status[t] \ {"RUNNING"}]
  /\ UNCHANGED <<pri, ready, waiting, due, recycle, new, taskLock, isr, pc, arg>>
  /\ NoUnlinking

(* Mutant: a tick does not count.                                          *)
SliceLeftStuck == IF slice.task = run THEN slice.left ELSE SliceLen - 1

(* osTimesliceCheck: the slice is that of the task found running at a      *)
(* tick; it starts anew whenever another task is found.                    *)
SliceLeft == IF slice.task = run THEN slice.left - 1 ELSE SliceLen - 1

(* osTickHandler up to the walk of osTaskScan: time slice, cursor.         *)
TickStart ==
  /\ tick = "off"
  /\ tick' = "scan" /\ resched' = FALSE
  /\ due' = NextTick(due)
  /\ IF SliceLeft = 0
     THEN /\ slice' = [task |-> NoArg, left |-> 0]
          /\ IF MayYield
             THEN /\ Unlinking(Linked(ready[pri[run]], run)) /\ Rotate
                  /\ Schedule
             ELSE UNCHANGED <<ready, new, pendsv>> /\ NoUnlinking
     ELSE /\ slice' = [task |-> run, left |-> SliceLeft]
          /\ UNCHANGED <<ready, new, pendsv>> /\ NoUnlinking
  /\ UNCHANGED <<status, pri, waiting, recycle, run, taskLock, pc, arg>>

(* Mutants: the delay, or the wait, of an expired task is not over.        *)
ExpiredDelayed(t) == status[t] \ {"PEND"}

ExpiredPending(t) == status[t] \ {"DELAY"}

(* The flags of a task whose time has come, but for READY.                 *)
Expired(t) == status[t] \ (IF Is(t, "PEND") THEN {"PEND"} ELSE {"DELAY"})

(* One round of osTaskScan: the head of the expired tasks leaves the timer *)
(* list and what it waits for; it is ready unless it is suspended.         *)
ExpireOne ==
  LET t    == Head(due[0])
      rest == Expired(t)
  IN
  /\ tick = "scan" /\ due[0] # << >>
  /\ Unlinking(Is(t, "PEND") => \E w \in WaitList : Linked(waiting[w], t))
  /\ due' = [due EXCEPT ![0] = Tail(@)]
  /\ waiting' = IF Is(t, "PEND")
                THEN [w \in WaitList |-> Unlink(waiting[w], t)] ELSE waiting
  /\ IF "SUSPEND" \in rest
     THEN status' = [status EXCEPT ![t] = rest] /\ UNCHANGED <<ready, resched>>
     ELSE /\ status' = [status EXCEPT ![t] = rest \cup {"READY"}]
          /\ ready' = Enqueue(ready, t, pri[t])
          /\ resched' = TRUE
  /\ UNCHANGED <<pri, recycle, sched, slice, tick, pc, arg>>

(* Mutant: the tick wakes tasks without LOS_Schedule.                      *)
EndScanSilent ==
  /\ tick = "scan" /\ due[0] = << >>
  /\ tick' = "off" /\ resched' = FALSE
  /\ UNCHANGED <<tcb, run, taskLock, slice, pc, arg, new, pendsv>>
  /\ NoUnlinking

(* The end of osTaskScan and of the tick interrupt.                        *)
EndScan ==
  /\ tick = "scan" /\ due[0] = << >>
  /\ tick' = "off" /\ resched' = FALSE
  /\ UNCHANGED <<tcb, run, taskLock, slice, pc, arg>> /\ NoUnlinking
  /\ IF resched THEN Schedule ELSE UNCHANGED <<new, pendsv>>
-----------------------------------------------------------------------------
(* main has created its tasks and LOS_StartToRun runs the highest.         *)
Init ==
  /\ pri = BootPri /\ ready = BootReady /\ run = Top(BootReady)
  /\ status = [t \in Task |->
        IF t = run THEN {"READY", "RUNNING"}
        ELSE IF Linked(BootReady[BootPri[t]], t) THEN {"READY"} ELSE {"UNUSED"}]
  /\ waiting = [w \in WaitList |-> << >>]
  /\ due = [n \in 0 .. MaxDelay |-> << >>]
  /\ recycle = {}
  /\ new = run /\ pendsv = FALSE /\ taskLock = 0
  /\ slice = [task |-> NoArg, left |-> 0]
  /\ tick = "off" /\ resched = FALSE
  /\ pc = [t \in Task |-> "user"]
  /\ arg = [t \in Task |-> NoArg]
  /\ fault = FALSE

CallStep(c) ==
  \/ \E t \in Task, p \in UserPri, place \in {"user", "create"} :
       TaskCreateOnly(c, t, p, place)
  \/ TaskCreateNoMemory(c)
  \/ \E t \in Task : TaskResume(c, t) \/ TaskSuspend(c, t) \/ TaskDelete(c, t)
  \/ TaskExit(c)
  \/ \E n \in 1 .. MaxDelay : TaskDelay(c, n)
  \/ \E t \in Task, p \in UserPri : TaskPriSet(c, t, p)
  \/ TaskYield(c) \/ TaskLock(c) \/ TaskUnlock(c)

TickStep == TickStart \/ ExpireOne \/ EndScan

TaskStep == \E c \in Task : LosSchedule(c) \/ TaskCreateReady(c) \/ TaskEntryEnd(c)

Next == (\E c \in Task \cup {Isr} : CallStep(c)) \/ TaskStep \/ TickStep \/ PendSV

Spec == Init /\ [][Next]_vars
-----------------------------------------------------------------------------
(* A task is on the ready queue exactly when its status says READY, once,  *)
(* and on the list of its current priority.  osPriqueueDequeue relies on   *)
(* it: it unlinks a node from whatever list it is on.                      *)
ReadyQueueExact ==
  /\ \A t \in Task : Is(t, "READY") => Linked(ready[pri[t]], t)
  /\ \A p \in Prio :
       /\ NoRepeat(ready[p])
       /\ \A t \in ToSet(ready[p]) : Is(t, "READY") /\ pri[t] = p

(* A task that no list will ever bring back is lost: every live task is    *)
(* either ready or blocked by something that ends, never both or neither,  *)
(* and it waits on one wait list exactly while it pends.                   *)
NoTaskLost ==
  \A t \in Task :
    /\ Live(t) => (Is(t, "READY") <=> status[t] \cap Blocked = {})
    /\ ~Live(t) => status[t] = {"UNUSED"}
    /\ Is(t, "PEND") <=> \E w \in WaitList : Linked(waiting[w], t)
    /\ t \in recycle => ~Live(t)

(* A delayed task, and only one with DELAY or TIMEOUT, has a timer.        *)
TimerExact ==
  \A t \in Task :
    /\ Is(t, "DELAY") => Armed(due, t)
    /\ Armed(due, t) => Is(t, "DELAY") \/ {"PEND", "TIMEOUT"} \subseteq status[t]

(* No call unlinks a node that is on no list: LOS_ListDelete would follow  *)
(* the null pointers that the earlier unlinking left in the node.          *)
NoNullUnlink == ~fault

(* The processor executes a ready task; a task that has just blocked       *)
(* itself goes no further than its call of LOS_Schedule.                   *)
RunnerIsReady ==
  run \in Task /\ Running(run) /\ pc[run] # "sched" => Is(run, "READY")

(* With the scheduler unlocked, and no switch under way, the processor     *)
(* executes application code of a task of the highest ready priority.      *)
HighestRuns ==
  run \in Task /\ Running(run) /\ pc[run] = "user" /\ taskLock = 0
    => pri[run] <= TopPri(ready)

(* RUNNING marks the task the processor executes and no other.             *)
RunningIsRun == \A t \in Task : Is(t, "RUNNING") <=> t = run

(* The stack the processor is still on after a task was deleted while it   *)
(* was running is kept until PendSV has left it.                           *)
DeadStackKept == run = Dummy => recycle # {}

(* LOS_TaskLock: no task is switched in while the scheduler is locked,     *)
(* though PendSV does not look at the lock.                                *)
SwitchOnlyUnlocked == [][run' # run /\ run' # Dummy => taskLock = 0]_vars

(* The timer list as its clients see it.                                   *)
Calendar == INSTANCE TickCalendar WITH
              Client <- Task, Horizon <- MaxDelay, scanning <- tick = "scan"

(* No call arms a timer twice, cancels or expires one out of order, or     *)
(* touches the calendar while it is scanned otherwise than by cancelling.  *)
UsesCalendar == Calendar!Spec
-----------------------------------------------------------------------------
(* The interrupts the scheduler depends on are taken: SysTick is periodic  *)
(* and its scan ends.  Interrupts leave the processor time for PendSV and  *)
(* for the kernel call of the running task; a tick disables both for its   *)
(* duration, hence strong fairness.                                        *)
KernelFairness ==
  /\ WF_vars(TickStart) /\ WF_vars(ExpireOne) /\ WF_vars(EndScan)
  /\ SF_vars(PendSV) /\ SF_vars(TaskStep)

FairSpec == Spec /\ KernelFairness

(* Every delay ends, suspended or not, whatever other calls are made.      *)
DelayEnds == \A t \in Task : Is(t, "DELAY") ~> ~Is(t, "DELAY")

(* A task that is ready at the highest priority runs, unless it stops      *)
(* being both: no lost request for a switch.                               *)
AtTop(t) == Is(t, "READY") /\ Top(ready) = t /\ taskLock = 0

TopGetsProcessor == \A t \in Task : AtTop(t) ~> (run = t \/ ~AtTop(t))

(* Time slices: of two tasks of one priority that both stay ready, neither *)
(* runs again and again while the other never does.                        *)
RoundRobin ==
  \A t, u \in Task :
    ([]<>(run = u) /\ <>[](Is(t, "READY") /\ pri[t] = pri[u])) => []<>(run = t)
=============================================================================
