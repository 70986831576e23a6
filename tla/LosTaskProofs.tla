---------------------------- MODULE LosTaskProofs ----------------------------
(***************************************************************************)
(* Theorems of the scheduler, for any number of tasks and priorities, any  *)
(* timeouts and any choice of the calls that tasks and interrupts make.    *)
(* Four parts: the types (TInv); the lists and the status words (ListInv); *)
(* what the modules of the IPC objects build on (CallInv, and osTaskWait   *)
(* and osTaskWake as lemmas); the choice of the task that runs.            *)
(***************************************************************************)
EXTENDS LosTask, KernelListsProofs

(***************************************************************************)
(* The lists of the ready queue and of the calendar.                       *)
(***************************************************************************)
LEMMA QueueType ==
  ASSUME NEW D, NEW q \in [D -> Seq(Task)], NEW t \in Task, NEW p \in D
  PROVE  /\ Enqueue(q, t, p) \in [D -> Seq(Task)]
         /\ Dequeue(q, t, p) \in [D -> Seq(Task)]
         /\ AddTimer(q, t, p) \in [D -> Seq(Task)]
         /\ CancelTimer(q, t) \in [D -> Seq(Task)]
<1>1. Append(q[p], t) \in Seq(Task)
  BY AppendLinks
<1>2. \A r \in D : Unlink(q[r], t) \in Seq(Task)
  BY UnlinkType
<1> QED
  BY <1>1, <1>2 DEF Enqueue, Dequeue, AddTimer, CancelTimer

(* Taking a node from one list and putting another on another list does    *)
(* not unlink a third one.                                                 *)
LEMMA QueueKeeps ==
  ASSUME NEW D, NEW q \in [D -> Seq(Task)], NEW t \in Task, NEW p \in D,
         NEW r \in D, NEW y
  PROVE  /\ Linked(q[r], y) => Linked(Enqueue(q, t, p)[r], y)
         /\ Linked(q[r], y) /\ y # t => Linked(Dequeue(q, t, p)[r], y)
         /\ Linked(Enqueue(q, t, p)[p], t)
<1>1. /\ Linked(Append(q[p], t), t)
      /\ Linked(q[p], y) => Linked(Append(q[p], t), y)
  BY AppendLinks
<1>2. y # t /\ Linked(q[p], y) => Linked(Unlink(q[p], t), y)
  BY UnlinkKeeps
<1> QED
  BY <1>1, <1>2 DEF Enqueue, Dequeue

LEMMA NextTickType ==
  ASSUME NEW q \in [0 .. MaxDelay -> Seq(Task)]
  PROVE  NextTick(q) \in [0 .. MaxDelay -> Seq(Task)]
BY EmptySeq DEF NextTick

(* osPriqueueTop is a task of the queue if the queue is not empty, and no  *)
(* task of a higher priority is on the queue.                              *)
LEMMA TopProperties ==
  ASSUME NEW q \in [Prio -> Seq(Task)], NEW p \in Prio, q[p] # << >>
  PROVE  /\ TopPri(q) \in Prio
         /\ Linked(q[TopPri(q)], Top(q))
         /\ Top(q) \in Task
         /\ \A r \in Prio : q[r] # << >> => TopPri(q) <= r
<1>1. Occupied(q) # {} /\ Occupied(q) \in SUBSET Nat /\ Occupied(q) \subseteq Prio
  <2>1. DOMAIN q = Prio
    OBVIOUS
  <2>2. p \in Occupied(q) /\ Occupied(q) \subseteq Prio
    BY <2>1 DEF Occupied
  <2>3. Prio \subseteq Nat
    BY NumberAssumption DEF Prio
  <2> QED
    BY <2>2, <2>3
<1>2. \E m \in Occupied(q) : \A n \in Occupied(q) : m <= n
  BY <1>1, LeastExists
<1>3. TopPri(q) \in Occupied(q) /\ \A n \in Occupied(q) : TopPri(q) <= n
  BY <1>2 DEF TopPri
<1>4. q[TopPri(q)] \in Seq(Task) /\ q[TopPri(q)] # << >>
  BY <1>1, <1>3 DEF Occupied
<1>5. Linked(q[TopPri(q)], Top(q)) /\ Top(q) \in Task
  BY <1>4, TailLinks DEF Top
<1> QED
  BY <1>1, <1>3, <1>5 DEF Occupied

LEMMA LinkedNotEmpty ==
  ASSUME NEW list, NEW x, Linked(list, x)
  PROVE  list # << >>
BY DEF Linked, ToSet
-----------------------------------------------------------------------------
(***************************************************************************)
(* The type invariant is not inductive: that LOS_Schedule finds a task     *)
(* rests on the idle task never leaving the queue, that the time slice     *)
(* counts down to zero and no further on osTimesliceCheck forgetting its   *)
(* task there, and that the second half of LOS_TaskCreate has a task to    *)
(* make ready on the first half having left one.  A switch is asked for    *)
(* only with the scheduler unlocked, and whoever could lock it runs only   *)
(* after the switch.  The parts follow the variables.                      *)
(***************************************************************************)
TcbInv ==
  /\ status \in [Task -> SUBSET Flags] /\ Live(Idle)
  /\ pri \in [Task -> Prio] /\ pri[Idle] = Lowest
  /\ ready \in [Prio -> Seq(Task)] /\ Linked(ready[Lowest], Idle)
  /\ waiting \in [WaitList -> Seq(Task)]
  /\ due \in [0 .. MaxDelay -> Seq(Task)]
  /\ recycle \subseteq Task
  /\ fault \in BOOLEAN

SchedInv ==
  /\ run \in Task \cup {Dummy} /\ new \in Task
  /\ taskLock \in 0 .. MaxLock
  /\ pendsv \in BOOLEAN /\ (pendsv => taskLock = 0)

PlaceInv ==
  /\ pc \in [Task -> Places] /\ pc[Idle] = "user"
  /\ arg \in [Task -> Task \cup WaitList \cup {NoArg}]
  /\ \A c \in Task : pc[c] = "create" => arg[c] \in Task

IsrInv ==
  /\ slice \in [task : Task \cup {Dummy, NoArg}, left : 0 .. SliceLen]
  /\ slice.task # NoArg => slice.left > 0
  /\ tick \in {"off", "scan"} /\ resched \in BOOLEAN

TInv == TcbInv /\ SchedInv /\ PlaceInv /\ IsrInv

LEMMA TInvTypes ==
  ASSUME TInv PROVE TypeOK
BY DEF TInv, TcbInv, SchedInv, PlaceInv, IsrInv, TypeOK

LEMMA TInvInit ==
  ASSUME Init PROVE TInv
<1> USE TaskAssumption, NumberAssumption, BootAssumption
<1>1. BootReady \in [Prio -> Seq(Task)] /\ Lowest \in Prio
  BY DEF Prio
<1>2. BootReady[Lowest] # << >>
  BY LinkedNotEmpty
<1>3. Top(BootReady) \in Task
  BY <1>1, <1>2, TopProperties
<1>4. TcbInv
  <2>1. status \in [Task -> SUBSET Flags] /\ Live(Idle)
    BY <1>3 DEF Init, Flags, Live, Is
  <2>2. waiting \in [WaitList -> Seq(Task)] /\ due \in [0 .. MaxDelay -> Seq(Task)]
    BY EmptySeq DEF Init
  <2> QED
    BY <1>1, <2>1, <2>2 DEF Init, TcbInv
<1>5. SchedInv
  <2>1. run = Top(BootReady) /\ new = run /\ pendsv = FALSE /\ taskLock = 0
    BY DEF Init
  <2>2. taskLock \in 0 .. MaxLock
    BY <2>1
  <2> QED
    BY <1>3, <2>1, <2>2 DEF SchedInv
<1>6. PlaceInv
  BY DEF Init, PlaceInv, Places
<1>7. IsrInv
  <2>1. slice = [task |-> NoArg, left |-> 0] /\ tick = "off" /\ resched = FALSE
    BY DEF Init
  <2>2. 0 \in 0 .. SliceLen
    OBVIOUS
  <2> QED
    BY <2>1, <2>2 DEF IsrInv
<1> QED
  BY <1>4, <1>5, <1>6, <1>7 DEF TInv

(***************************************************************************)
(* The pieces the kernel calls share.                                      *)
(***************************************************************************)
LEMMA ScheduleInv ==
  ASSUME SchedInv, TcbInv', Schedule, UNCHANGED <<run, taskLock>>
  PROVE  SchedInv'
<1>1. Lowest \in Prio
  BY NumberAssumption DEF Prio
<1>2. Top(ready') \in Task
  BY <1>1, LinkedNotEmpty, TopProperties DEF TcbInv
<1>3. new' = Top(ready') /\ pendsv' = (pendsv \/ (run # new' /\ taskLock = 0))
  BY DEF Schedule
<1>4. pendsv' \in BOOLEAN
  BY <1>3
<1>5. pendsv' => taskLock = 0
  BY <1>3 DEF SchedInv
<1> QED
  BY <1>2, <1>3, <1>4, <1>5 DEF SchedInv

LEMMA ThenScheduleInv ==
  ASSUME SchedInv, PlaceInv, TcbInv',
         NEW c \in Task \cup {Isr}, c # Idle, ThenSchedule(c)
  PROVE  SchedInv' /\ PlaceInv'
<1>1. CASE c = Isr
  <2>1. Schedule /\ UNCHANGED <<run, taskLock, arg, pc>>
    BY <1>1 DEF ThenSchedule
  <2> QED
    BY <2>1, ScheduleInv DEF PlaceInv
<1>2. CASE c # Isr
  <2>1. pc' = [pc EXCEPT ![c] = "sched"]
        /\ UNCHANGED <<run, new, pendsv, taskLock, arg>>
    BY <1>2 DEF ThenSchedule
  <2> QED
    BY <2>1, TaskAssumption DEF SchedInv, PlaceInv, Places
<1> QED
  BY <1>1, <1>2

LEMMA ThenReturnInv ==
  ASSUME SchedInv, PlaceInv, ThenReturn
  PROVE  SchedInv' /\ PlaceInv'
BY DEF ThenReturn, sched, SchedInv, PlaceInv

LEMMA IsrSame ==
  ASSUME IsrInv, UNCHANGED isr
  PROVE  IsrInv'
BY DEF isr, IsrInv

LEMMA Callers ==
  ASSUME NEW c \in Task \cup {Isr}, Enters(c)
  PROVE  c # Idle
BY TaskAssumption DEF Enters

LEMMA FaultType ==
  ASSUME fault \in BOOLEAN, NEW legal, Unlinking(legal) \/ NoUnlinking
  PROVE  fault' \in BOOLEAN
BY DEF Unlinking, NoUnlinking

(* A task other than the idle task leaves the ready queue, or goes to the  *)
(* tail of one of its lists, and the idle task stays.                      *)
LEMMA ReadyKeepsIdle ==
  ASSUME NEW q \in [Prio -> Seq(Task)], Linked(q[Lowest], Idle),
         NEW t \in Task, NEW p \in Prio
  PROVE  /\ Enqueue(q, t, p) \in [Prio -> Seq(Task)]
         /\ Linked(Enqueue(q, t, p)[Lowest], Idle)
         /\ Dequeue(q, t, p) \in [Prio -> Seq(Task)]
         /\ t # Idle => Linked(Dequeue(q, t, p)[Lowest], Idle)
<1>1. Lowest \in Prio
  BY NumberAssumption DEF Prio
<1> QED
  BY <1>1, QueueType, QueueKeeps

(* Moving a task from one list of the ready queue to another.              *)
LEMMA RequeueKeepsIdle ==
  ASSUME TcbInv, NEW t \in Task, NEW p \in Prio, t = Idle => p = Lowest
  PROVE  /\ Enqueue(Dequeue(ready, t, pri[t]), t, p) \in [Prio -> Seq(Task)]
         /\ Linked(Enqueue(Dequeue(ready, t, pri[t]), t, p)[Lowest], Idle)
<1> DEFINE q == Dequeue(ready, t, pri[t])
<1>1. Lowest \in Prio /\ pri[t] \in Prio
  BY NumberAssumption DEF Prio, TcbInv
<1>2. q \in [Prio -> Seq(Task)]
  BY <1>1, QueueType DEF TcbInv
<1> HIDE DEF q
<1>3. CASE t = Idle
  <2>1. /\ Enqueue(q, t, p) \in [Prio -> Seq(Task)]
        /\ Linked(Enqueue(q, t, p)[p], t)
    BY <1>2, QueueType, QueueKeeps
  <2> QED
    BY <1>3, <2>1 DEF q
<1>4. CASE t # Idle
  <2>1. Linked(q[Lowest], Idle)
    BY <1>1, <1>4, QueueKeeps DEF TcbInv, q
  <2> QED
    BY <1>1, <1>2, <2>1, ReadyKeepsIdle DEF q
<1> QED
  BY <1>3, <1>4

LEMMA DeleteInv ==
  ASSUME TInv, NEW t \in Task, t # Idle, Delete(t)
  PROVE  TInv'
<1> USE TaskAssumption, NumberAssumption DEF TInv
<1>1. pri[t] \in Prio /\ Lowest \in Prio
  BY DEF TcbInv, Prio
<1>2. /\ Dequeue(ready, t, pri[t]) \in [Prio -> Seq(Task)]
      /\ Linked(Dequeue(ready, t, pri[t])[Lowest], Idle)
  BY <1>1, ReadyKeepsIdle DEF TcbInv
<1>3. ready' \in [Prio -> Seq(Task)] /\ Linked(ready'[Lowest], Idle)
  BY <1>2 DEF Delete, LeaveProcessor, TcbInv
<1>4. CancelTimer(due, t) \in [0 .. MaxDelay -> Seq(Task)]
  BY UnlinkType DEF CancelTimer, TcbInv
<1>5. [w \in WaitList |-> Unlink(waiting[w], t)] \in [WaitList -> Seq(Task)]
  BY UnlinkType DEF TcbInv
<1>6. due' \in [0 .. MaxDelay -> Seq(Task)] /\ waiting' \in [WaitList -> Seq(Task)]
  BY <1>4, <1>5 DEF Delete, LeaveProcessor, TcbInv
<1>7. status' \in [Task -> SUBSET Flags] /\ Live(Idle)'
  BY DEF Delete, TcbInv, Flags, Live, Is
<1>8. recycle' \subseteq Task
  BY DEF Delete, LeaveProcessor, TcbInv
<1>9. fault' \in BOOLEAN
  BY FaultType DEF Delete, LeaveProcessor, TcbInv
<1>10. TcbInv'
  BY <1>3, <1>6, <1>7, <1>8, <1>9 DEF Delete, LeaveProcessor, TcbInv
<1>11. new' \in Task
  BY <1>1, <1>3, LinkedNotEmpty, TopProperties DEF Delete, LeaveProcessor
<1>12. SchedInv'
  <2>1. CASE Is(t, "RUNNING")
    <3>1. run' = Dummy /\ pendsv' = TRUE /\ taskLock' = 0
      BY <2>1 DEF Delete, LeaveProcessor
    <3>2. taskLock' \in 0 .. MaxLock
      BY <3>1
    <3> QED
      BY <1>11, <3>1, <3>2 DEF SchedInv
  <2>2. CASE ~Is(t, "RUNNING")
    <3>1. UNCHANGED <<run, pendsv, taskLock>>
      BY <2>2 DEF Delete, LeaveProcessor
    <3> QED
      BY <1>11, <3>1 DEF SchedInv
  <2> QED
    BY <2>1, <2>2
<1>13. PlaceInv'
  BY DEF Delete, PlaceInv, Places
<1> QED
  BY <1>10, <1>12, <1>13, IsrSame DEF Delete, LeaveProcessor

(***************************************************************************)
(* Every step preserves TInv: the calls, the rest of a task's call, the    *)
(* tick and PendSV.                                                        *)
(***************************************************************************)
LEMMA TInvCall ==
  ASSUME TInv, NEW c \in Task \cup {Isr}, CallStep(c)
  PROVE  TInv'
<1> USE TaskAssumption, NumberAssumption DEF TInv
<1>0. c # Idle /\ Lowest \in Prio
  <2>1. Enters(c)
    BY DEF CallStep, TaskCreateOnly, TaskCreateNoMemory, TaskResume, TaskSuspend,
       TaskDelete, TaskExit, TaskDelay, TaskPriSet, TaskYield, TaskLock,
       TaskUnlock, Calls
  <2> QED
    BY <2>1, Callers DEF Prio
<1>1. ASSUME NEW t \in Task, NEW p \in UserPri, NEW place \in {"user", "create"},
             TaskCreateOnly(c, t, p, place)
      PROVE  TInv'
  <2>1. t # Idle /\ p \in Prio
    BY <1>1 DEF TaskCreateOnly, TcbInv
  <2>2. TcbInv'
    BY <1>1, <2>1 DEF TaskCreateOnly, TcbInv, Flags, Live, Is, NoUnlinking
  <2>3. SchedInv'
    BY <1>1 DEF TaskCreateOnly, SchedInv, sched
  <2>4. PlaceInv'
    BY <1>0, <1>1, <2>1 DEF TaskCreateOnly, PlaceInv, Places
  <2>5. IsrInv'
    BY <1>1, IsrSame DEF TaskCreateOnly
  <2> QED
    BY <2>2, <2>3, <2>4, <2>5
<1>2. ASSUME TaskCreateNoMemory(c) PROVE TInv'
  <2>1. TcbInv'
    BY <1>2 DEF TaskCreateNoMemory, TcbInv, Live, Is, NoUnlinking
  <2> QED
    BY <1>2, <2>1, ThenReturnInv, IsrSame DEF TaskCreateNoMemory
<1>3. ASSUME NEW t \in Task, TaskResume(c, t) PROVE TInv'
  <2>1. pri[t] \in Prio
    BY DEF TcbInv
  <2>2. /\ Enqueue(ready, t, pri[t]) \in [Prio -> Seq(Task)]
        /\ Linked(Enqueue(ready, t, pri[t])[Lowest], Idle)
    BY <2>1, ReadyKeepsIdle DEF TcbInv
  <2>3. TcbInv'
    <3> SUFFICES status' \in [Task -> SUBSET Flags] /\ Live(Idle)'
      <4>1. ready' = ready \/ ready' = Enqueue(ready, t, pri[t])
        BY <1>3 DEF TaskResume
      <4>2. UNCHANGED <<pri, waiting, due, recycle, fault>>
        BY <1>3 DEF TaskResume, NoUnlinking
      <4> QED
        BY <2>2, <4>1, <4>2 DEF TcbInv
    <3>1. CASE (status[t] \ {"SUSPEND"}) \cap Blocked = {}
      <4>1. status' = [status EXCEPT ![t] = (status[t] \ {"SUSPEND"}) \cup {"READY"}]
        BY <1>3, <3>1 DEF TaskResume, Unblocked
      <4> QED
        BY <4>1 DEF TcbInv, Flags, Live, Is
    <3>2. CASE (status[t] \ {"SUSPEND"}) \cap Blocked # {}
      <4>1. status' = [status EXCEPT ![t] = status[t] \ {"SUSPEND"}]
        BY <1>3, <3>2 DEF TaskResume, Unblocked
      <4> QED
        BY <4>1 DEF TcbInv, Flags, Live, Is
    <3> QED
      BY <3>1, <3>2
  <2>4. ThenSchedule(c) \/ ThenReturn
    BY <1>3 DEF TaskResume
  <2> QED
    BY <1>0, <1>3, <2>3, <2>4, ThenScheduleInv, ThenReturnInv, IsrSame DEF TaskResume
<1>4. ASSUME NEW t \in Task, TaskSuspend(c, t) PROVE TInv'
  <2>1. t # Idle /\ pri[t] \in Prio
    BY <1>4 DEF TaskSuspend, Known, TcbInv
  <2>2. /\ Dequeue(ready, t, pri[t]) \in [Prio -> Seq(Task)]
        /\ Linked(Dequeue(ready, t, pri[t])[Lowest], Idle)
    BY <2>1, ReadyKeepsIdle DEF TcbInv
  <2>3. fault' \in BOOLEAN
    BY <1>4, FaultType DEF TaskSuspend, TcbInv
  <2>4. TcbInv'
    BY <1>4, <2>1, <2>2, <2>3 DEF TaskSuspend, TcbInv, Flags, Live, Is
  <2>5. ThenSchedule(c) \/ ThenReturn
    BY <1>4 DEF TaskSuspend
  <2> QED
    BY <1>0, <1>4, <2>4, <2>5, ThenScheduleInv, ThenReturnInv, IsrSame DEF TaskSuspend
<1>5. ASSUME NEW t \in Task, TaskDelete(c, t) PROVE TInv'
  BY <1>5, DeleteInv DEF TaskDelete, Known
<1>6. ASSUME TaskExit(c) PROVE TInv'
  <2>1. c \in Task
    BY <1>6, OpsAssumption DEF TaskExit, Calls
  <2>2. TcbInv'
    BY <1>6 DEF TaskExit, tcb, TcbInv, Live, Is, NoUnlinking
  <2>3. SchedInv'
    BY <1>6 DEF TaskExit, SchedInv
  <2>4. PlaceInv'
    BY <1>0, <1>6, <2>1 DEF TaskExit, PlaceInv, Places
  <2> QED
    BY <1>6, <2>2, <2>3, <2>4, IsrSame DEF TaskExit
<1>7. ASSUME NEW n \in 1 .. MaxDelay, TaskDelay(c, n) PROVE TInv'
  <2>1. c \in Task /\ c # Idle
    BY <1>0, <1>7, OpsAssumption DEF TaskDelay, Calls
  <2>2. pri[c] \in Prio /\ n \in 0 .. MaxDelay
    BY <2>1 DEF TcbInv
  <2>3. /\ Dequeue(ready, c, pri[c]) \in [Prio -> Seq(Task)]
        /\ Linked(Dequeue(ready, c, pri[c])[Lowest], Idle)
    BY <2>1, <2>2, ReadyKeepsIdle DEF TcbInv
  <2>4. AddTimer(due, c, n) \in [0 .. MaxDelay -> Seq(Task)]
    BY <2>1, <2>2, QueueType DEF TcbInv
  <2>5. fault' \in BOOLEAN
    BY <1>7, FaultType DEF TaskDelay, TcbInv
  <2>6. TcbInv'
    BY <1>7, <2>1, <2>3, <2>4, <2>5 DEF TaskDelay, TcbInv, Flags, Live, Is
  <2>7. ThenSchedule(c)
    BY <1>7 DEF TaskDelay
  <2> QED
    BY <1>0, <1>7, <2>6, <2>7, ThenScheduleInv, IsrSame DEF TaskDelay
<1>8. ASSUME NEW t \in Task, NEW p \in UserPri, TaskPriSet(c, t, p) PROVE TInv'
  <2>1. t # Idle /\ p \in Prio /\ pri[t] \in Prio
    BY <1>8 DEF TaskPriSet, Known, TcbInv
  <2>2. /\ PriModify(ready, t, p) \in [Prio -> Seq(Task)]
        /\ Linked(PriModify(ready, t, p)[Lowest], Idle)
    BY <2>1, RequeueKeepsIdle DEF PriModify, TcbInv
  <2>3. fault' \in BOOLEAN
    BY <1>8, FaultType DEF TaskPriSet, TcbInv
  <2>4. TcbInv'
    BY <1>8, <2>1, <2>2, <2>3 DEF TaskPriSet, TcbInv, Live, Is
  <2>5. ThenSchedule(c) \/ ThenReturn
    BY <1>8 DEF TaskPriSet
  <2> QED
    BY <1>0, <1>8, <2>4, <2>5, ThenScheduleInv, ThenReturnInv, IsrSame DEF TaskPriSet
<1>9. ASSUME TaskYield(c) PROVE TInv'
  <2>1. run \in Task /\ (run = Idle => pri[run] = Lowest) /\ pri[run] \in Prio
    BY <1>9 DEF TaskYield, MayYield, TcbInv
  <2>2. ready' \in [Prio -> Seq(Task)] /\ Linked(ready'[Lowest], Idle)
    BY <1>9, <2>1, RequeueKeepsIdle DEF TaskYield, Rotate
  <2>3. fault' \in BOOLEAN
    BY <1>9, FaultType DEF TaskYield, TcbInv
  <2>4. TcbInv'
    BY <1>9, <2>2, <2>3 DEF TaskYield, TcbInv, Live, Is
  <2>5. ThenSchedule(c)
    BY <1>9 DEF TaskYield
  <2> QED
    BY <1>0, <1>9, <2>4, <2>5, ThenScheduleInv, IsrSame DEF TaskYield
<1>10. ASSUME TaskLock(c) \/ TaskUnlock(c) PROVE TInv'
  <2>1. c \in Task /\ ~pendsv
    BY <1>10, OpsAssumption DEF TaskLock, TaskUnlock, Calls, Enters, Running
  <2>2. TcbInv'
    BY <1>10 DEF TaskLock, TaskUnlock, tcb, TcbInv, Live, Is, NoUnlinking
  <2>3. SchedInv'
    BY <1>10, <2>1 DEF TaskLock, TaskUnlock, SchedInv
  <2>4. PlaceInv'
    BY <1>0, <1>10, <2>1 DEF TaskLock, TaskUnlock, PlaceInv, Places
  <2> QED
    BY <1>10, <2>2, <2>3, <2>4, IsrSame DEF TaskLock, TaskUnlock
<1> QED
  BY <1>1, <1>2, <1>3, <1>4, <1>5, <1>6, <1>7, <1>8, <1>9, <1>10 DEF CallStep

LEMMA TInvTask ==
  ASSUME TInv, TaskStep
  PROVE  TInv'
<1> USE TaskAssumption, NumberAssumption DEF TInv
<1>1. PICK c \in Task : LosSchedule(c) \/ TaskCreateReady(c) \/ TaskEntryEnd(c)
  BY DEF TaskStep
<1>2. c # Idle
  BY <1>1 DEF LosSchedule, TaskCreateReady, TaskEntryEnd, PlaceInv
<1>3. CASE LosSchedule(c)
  <2>1. TcbInv'
    BY <1>3 DEF LosSchedule, tcb, TcbInv, Live, Is, NoUnlinking
  <2>2. SchedInv'
    BY <1>3, <2>1, ScheduleInv DEF LosSchedule
  <2>3. PlaceInv'
    BY <1>2, <1>3 DEF LosSchedule, PlaceInv, Places
  <2> QED
    BY <1>3, <2>1, <2>2, <2>3, IsrSame DEF LosSchedule
<1>4. CASE TaskCreateReady(c)
  <2> DEFINE t == arg[c]
  <2>1. t \in Task /\ pri[t] \in Prio
    BY <1>4 DEF TaskCreateReady, PlaceInv, TcbInv
  <2>2. /\ Enqueue(ready, t, pri[t]) \in [Prio -> Seq(Task)]
        /\ Linked(Enqueue(ready, t, pri[t])[Lowest], Idle)
    BY <2>1, ReadyKeepsIdle DEF TcbInv
  <2>3. TcbInv'
    BY <1>4, <2>1, <2>2 DEF TaskCreateReady, TcbInv, Flags, Live, Is, NoUnlinking
  <2>4. SchedInv'
    BY <1>4, <2>3, ScheduleInv DEF TaskCreateReady
  <2>5. PlaceInv'
    BY <1>2, <1>4 DEF TaskCreateReady, PlaceInv, Places
  <2> QED
    BY <1>4, <2>3, <2>4, <2>5, IsrSame DEF TaskCreateReady
<1>5. CASE TaskEntryEnd(c)
  BY <1>2, <1>5, DeleteInv DEF TaskEntryEnd
<1> QED
  BY <1>1, <1>3, <1>4, <1>5

LEMMA TInvTickStart ==
  ASSUME TInv, TickStart
  PROVE  TInv'
<1> USE TaskAssumption, NumberAssumption DEF TInv
<1>1. due' \in [0 .. MaxDelay -> Seq(Task)] /\ tick' = "scan" /\ resched' = FALSE
  BY NextTickType DEF TickStart, TcbInv
<1>2. UNCHANGED <<status, pri, waiting, recycle, run, taskLock, pc, arg>>
  BY DEF TickStart
<1>3. \/ ready' = ready
      \/ MayYield /\ Rotate
  BY DEF TickStart
<1>4. ready' \in [Prio -> Seq(Task)] /\ Linked(ready'[Lowest], Idle)
  <2>1. CASE ready' = ready
    BY <2>1 DEF TcbInv
  <2>2. CASE MayYield /\ Rotate
    <3>1. run \in Task /\ (run = Idle => pri[run] = Lowest) /\ pri[run] \in Prio
      BY <2>2 DEF MayYield, TcbInv
    <3> QED
      BY <2>2, <3>1, RequeueKeepsIdle DEF Rotate
  <2> QED
    BY <1>3, <2>1, <2>2
<1>5. fault' \in BOOLEAN
  BY FaultType DEF TickStart, TcbInv
<1>6. TcbInv'
  BY <1>1, <1>2, <1>4, <1>5 DEF TcbInv, Live, Is
<1>7. SchedInv'
  <2>1. Schedule \/ UNCHANGED <<new, pendsv>>
    BY DEF TickStart
  <2> QED
    BY <1>2, <1>6, <2>1, ScheduleInv DEF SchedInv
<1>8. PlaceInv'
  BY <1>2 DEF PlaceInv
<1>9. slice' \in [task : Task \cup {Dummy, NoArg}, left : 0 .. SliceLen]
      /\ (slice'.task # NoArg => slice'.left > 0)
  <2>1. slice.left \in 0 .. SliceLen /\ run # NoArg /\ run \in Task \cup {Dummy}
    BY DEF IsrInv, SchedInv
  <2>2. SliceLeft \in 0 .. SliceLen
    BY <2>1 DEF SliceLeft, IsrInv
  <2>3. CASE SliceLeft = 0
    <3>1. slice' = [task |-> NoArg, left |-> 0]
      BY <2>3 DEF TickStart
    <3> QED
      BY <2>2, <2>3, <3>1
  <2>4. CASE SliceLeft # 0
    <3>1. slice' = [task |-> run, left |-> SliceLeft]
      BY <2>4 DEF TickStart
    <3> QED
      BY <2>1, <2>2, <2>4, <3>1
  <2> QED
    BY <2>3, <2>4
<1>10. IsrInv'
  BY <1>1, <1>9 DEF IsrInv
<1> QED
  BY <1>6, <1>7, <1>8, <1>10

LEMMA TInvScan ==
  ASSUME TInv, ExpireOne \/ EndScan
  PROVE  TInv'
<1> USE TaskAssumption, NumberAssumption DEF TInv
<1>1. CASE ExpireOne
  <2> DEFINE t == Head(due[0])
  <2>1. due[0] \in Seq(Task) /\ due[0] # << >>
    BY <1>1 DEF ExpireOne, TcbInv
  <2>2. t \in Task /\ Tail(due[0]) \in Seq(Task)
    BY <2>1, TailLinks
  <2>3. due' \in [0 .. MaxDelay -> Seq(Task)]
    BY <1>1, <2>2 DEF ExpireOne, TcbInv
  <2>4. waiting' \in [WaitList -> Seq(Task)]
    <3>1. [w \in WaitList |-> Unlink(waiting[w], t)] \in [WaitList -> Seq(Task)]
      BY UnlinkType DEF TcbInv
    <3> QED
      BY <1>1, <3>1 DEF ExpireOne, TcbInv
  <2>5. pri[t] \in Prio
    BY <2>2 DEF TcbInv
  <2>6. /\ Enqueue(ready, t, pri[t]) \in [Prio -> Seq(Task)]
        /\ Linked(Enqueue(ready, t, pri[t])[Lowest], Idle)
    BY <2>2, <2>5, ReadyKeepsIdle DEF TcbInv
  <2>7. /\ ready' \in [Prio -> Seq(Task)] /\ Linked(ready'[Lowest], Idle)
        /\ resched' \in BOOLEAN
    BY <1>1, <2>6 DEF ExpireOne, TcbInv, IsrInv
  <2>8. status' \in [Task -> SUBSET Flags] /\ Live(Idle)'
    <3> DEFINE rest == status[t] \ (IF Is(t, "PEND") THEN {"PEND"} ELSE {"DELAY"})
    <3>1. \/ status' = [status EXCEPT ![t] = rest]
          \/ status' = [status EXCEPT ![t] = rest \cup {"READY"}]
      BY <1>1 DEF ExpireOne, Expired
    <3>2. rest \subseteq Flags /\ ("UNUSED" \in rest => "UNUSED" \in status[t])
      BY <2>2 DEF TcbInv
    <3> HIDE DEF rest, t
    <3>3. PICK flags \in {rest, rest \cup {"READY"}} :
                 status' = [status EXCEPT ![t] = flags]
      BY <3>1
    <3>4. flags \in SUBSET Flags /\ ("UNUSED" \in flags => "UNUSED" \in status[t])
      BY <3>2 DEF Flags
    <3> QED
      BY <2>2, <3>3, <3>4, TaskAssumption DEF TcbInv, Live, Is
  <2>9. /\ UNCHANGED <<pri, recycle, run, new, pendsv, taskLock, slice, tick, pc, arg>>
        /\ fault' \in BOOLEAN
    BY <1>1 DEF ExpireOne, sched, TcbInv, Unlinking
  <2>10. TcbInv'
    BY <2>3, <2>4, <2>7, <2>8, <2>9 DEF TcbInv
  <2> QED
    BY <2>7, <2>9, <2>10 DEF SchedInv, PlaceInv, IsrInv
<1>2. CASE EndScan
  <2>1. TcbInv'
    BY <1>2 DEF EndScan, tcb, TcbInv, Live, Is, NoUnlinking
  <2>2. Schedule \/ UNCHANGED <<new, pendsv>>
    BY <1>2 DEF EndScan
  <2>3. SchedInv'
    BY <1>2, <2>1, <2>2, ScheduleInv DEF EndScan, SchedInv
  <2> QED
    BY <1>2, <2>1, <2>3 DEF EndScan, PlaceInv, IsrInv
<1> QED
  BY <1>1, <1>2

LEMMA TInvPendSV ==
  ASSUME TInv, PendSV
  PROVE  TInv'
<1> USE DEF TInv
<1>1. TcbInv'
  <2>1. status' = [t \in Task |->
                     IF t = new THEN status[t] \cup {"RUNNING"}
                                ELSE status[t] \ {"RUNNING"}]
    BY DEF PendSV
  <2>2. status' \in [Task -> SUBSET Flags]
    BY <2>1 DEF TcbInv, Flags
  <2>3. Live(Idle)'
    BY <2>1, TaskAssumption DEF TcbInv, Live, Is
  <2> QED
    BY <2>2, <2>3 DEF PendSV, TcbInv, NoUnlinking
<1>2. SchedInv'
  BY DEF PendSV, SchedInv
<1> QED
  BY <1>1, <1>2, IsrSame DEF PendSV, PlaceInv

LEMMA TInvStep ==
  ASSUME TInv, [Next]_vars
  PROVE  TInv'
<1>1. CASE UNCHANGED vars
  BY <1>1 DEF vars, tcb, sched, isr, TInv, TcbInv, SchedInv, PlaceInv, IsrInv, Live, Is
<1>2. CASE Next
  BY <1>2, TInvCall, TInvTask, TInvTickStart, TInvScan, TInvPendSV DEF Next, TickStep
<1> QED
  BY <1>1, <1>2

LEMMA TInvAlways == Spec => []TInv
BY TInvInit, TInvStep, PTL DEF Spec

(* The scheduler's variables keep their types: in particular, LOS_Schedule *)
(* always finds a task, and the time slice never counts past zero.         *)
THEOREM TypeCorrect == Spec => []TypeOK
BY TInvAlways, TInvTypes, PTL

(* LOS_TaskLock holds whatever interrupts do and although PendSV_Handler   *)
(* does not look at the lock: a step that switches a task in is taken with *)
(* the scheduler unlocked.                                                 *)
THEOREM LockIsRespected == Spec => SwitchOnlyUnlocked
<1>1. TInv /\ [Next]_vars => [run' # run /\ run' # Dummy => taskLock = 0]_vars
  <2> SUFFICES ASSUME TInv, Next, run' # run, run' # Dummy
               PROVE  taskLock = 0
    OBVIOUS
  <2>1. CASE PendSV
    BY <2>1 DEF PendSV, TInv, SchedInv
  <2>2. ASSUME NEW c \in Task \cup {Isr}, CallStep(c) PROVE FALSE
    BY <2>2 DEF CallStep, TaskCreateOnly, TaskCreateNoMemory, TaskResume,
       TaskSuspend, TaskDelete, Delete, LeaveProcessor, TaskExit, TaskDelay, TaskPriSet,
       TaskYield, TaskLock, TaskUnlock, ThenSchedule, ThenReturn, sched
  <2>3. CASE TaskStep
    BY <2>3 DEF TaskStep, LosSchedule, TaskCreateReady, TaskEntryEnd, Delete, LeaveProcessor
  <2>4. CASE TickStep
    BY <2>4 DEF TickStep, TickStart, ExpireOne, EndScan, sched
  <2> QED
    BY <2>1, <2>2, <2>3, <2>4 DEF Next
<1> QED
  BY <1>1, TInvAlways, PTL DEF Spec, SwitchOnlyUnlocked

(* The stack of a task deleted while it was running is not freed before    *)
(* PendSV has left it: LOS_TaskCreate, which frees it, is called by a task *)
(* and no task executes in between.                                        *)
THEOREM DeadStackSafe == Spec => []DeadStackKept
<1>1. Init => DeadStackKept
  <2> SUFFICES ASSUME Init PROVE run # Dummy
    BY DEF DeadStackKept
  <2>1. TInv /\ new = run
    BY TInvInit DEF Init
  <2> QED
    BY <2>1, TaskAssumption DEF TInv, SchedInv
<1>2. TInv /\ DeadStackKept /\ [Next]_vars => DeadStackKept'
  <2> SUFFICES ASSUME TInv, DeadStackKept, [Next]_vars
               PROVE  DeadStackKept'
    OBVIOUS
  <2> USE TaskAssumption
  <2>1. ASSUME NEW t, Delete(t) PROVE DeadStackKept'
    <3>1. CASE Is(t, "RUNNING")
      BY <2>1, <3>1 DEF Delete, LeaveProcessor, DeadStackKept
    <3>2. CASE ~Is(t, "RUNNING")
      BY <2>1, <3>2 DEF Delete, DeadStackKept
    <3> QED
      BY <3>1, <3>2
  <2>2. ASSUME NEW c \in Task \cup {Isr}, Calls(c, "create"), UNCHANGED run
        PROVE  DeadStackKept'
    <3>1. c # Isr
      BY <2>2, OpsAssumption DEF Calls
    <3>2. run = c /\ c \in Task
      BY <2>2, <3>1 DEF Calls, Enters, Running
    <3> QED
      BY <2>2, <3>2 DEF DeadStackKept
  <2>3. ASSUME UNCHANGED <<run, recycle>> PROVE DeadStackKept'
    BY <2>3 DEF DeadStackKept
  <2>4. CASE UNCHANGED vars
    BY <2>3, <2>4 DEF vars, tcb, sched
  <2>5. ASSUME NEW c \in Task \cup {Isr}, CallStep(c) PROVE DeadStackKept'
    <3>1. CASE \E t \in Task : TaskDelete(c, t)
      BY <2>1, <3>1 DEF TaskDelete
    <3>2. CASE \/ TaskCreateNoMemory(c)
               \/ \E t \in Task, p \in UserPri, place \in {"user", "create"} :
                    TaskCreateOnly(c, t, p, place)
      BY <2>2, <3>2 DEF TaskCreateNoMemory, TaskCreateOnly, ThenReturn, sched
    <3>3. CASE \/ \E t \in Task : TaskResume(c, t) \/ TaskSuspend(c, t)
               \/ TaskExit(c)
               \/ \E n \in 1 .. MaxDelay : TaskDelay(c, n)
               \/ \E t \in Task, p \in UserPri : TaskPriSet(c, t, p)
               \/ TaskYield(c) \/ TaskLock(c) \/ TaskUnlock(c)
      BY <2>3, <3>3 DEF TaskResume, TaskSuspend, TaskExit, TaskDelay, TaskPriSet,
         TaskYield, TaskLock, TaskUnlock, ThenSchedule, ThenReturn, tcb, sched
    <3> QED
      BY <2>5, <3>1, <3>2, <3>3 DEF CallStep
  <2>6. CASE TaskStep
    BY <2>1, <2>3, <2>6 DEF TaskStep, LosSchedule, TaskCreateReady, TaskEntryEnd, tcb
  <2>7. CASE TickStep
    BY <2>3, <2>7 DEF TickStep, TickStart, ExpireOne, EndScan, tcb, sched
  <2>8. CASE PendSV
    BY <2>8 DEF PendSV, DeadStackKept, TInv, SchedInv
  <2> QED
    BY <2>4, <2>5, <2>6, <2>7, <2>8 DEF Next
<1> QED
  BY <1>1, <1>2, TInvAlways, PTL DEF Spec
-----------------------------------------------------------------------------
(***************************************************************************)
(* The scheduler's lists agree with the status words: theorems for any     *)
(* number of tasks and any calls, those of interrupt handlers included.    *)
(*                                                                         *)
(* The invariant speaks of wait lists too, although the scheduler alone    *)
(* has no step that makes a task wait, so that the modules of the IPC      *)
(* objects can use the lemmas.                                             *)
(***************************************************************************)
(***************************************************************************)
(* Families of lists: the ready queue, the calendar, the wait lists.       *)
(* A node is on one list at most, and there once.                          *)
(***************************************************************************)
Distinct(f) ==
  /\ \A d \in DOMAIN f : NoRepeat(f[d])
  /\ \A d, e \in DOMAIN f, x \in Task : Linked(f[d], x) /\ Linked(f[e], x) => d = e

LEMMA DistinctEnqueue ==
  ASSUME NEW D, NEW f \in [D -> Seq(Task)], Distinct(f),
         NEW d \in D, NEW x \in Task, ~Armed(f, x)
  PROVE  /\ Distinct(Enqueue(f, x, d)) /\ DOMAIN Enqueue(f, x, d) = D
         /\ \A e \in D, y \in Task :
              Linked(Enqueue(f, x, d)[e], y) <=> Linked(f[e], y) \/ (e = d /\ y = x)
<1> DEFINE g == Enqueue(f, x, d)
<1>1. /\ Append(f[d], x) \in Seq(Task) /\ NoRepeat(Append(f[d], x))
      /\ \A y : Linked(Append(f[d], x), y) <=> Linked(f[d], y) \/ y = x
  BY AppendLinks DEF Distinct, Armed
<1>2. g = [f EXCEPT ![d] = Append(f[d], x)] /\ DOMAIN g = D
  BY DEF Enqueue
<1> HIDE DEF g
<1>3. \A e \in D, y \in Task :
         Linked(g[e], y) <=> Linked(f[e], y) \/ (e = d /\ y = x)
  BY <1>1, <1>2
<1>4. \A e \in D : NoRepeat(g[e])
  BY <1>1, <1>2 DEF Distinct
<1>5. ASSUME NEW a \in D, NEW b \in D, NEW y \in Task, Linked(g[a], y), Linked(g[b], y)
      PROVE  a = b
  <2>1. /\ Linked(f[a], y) \/ (a = d /\ y = x)
        /\ Linked(f[b], y) \/ (b = d /\ y = x)
    BY <1>3, <1>5
  <2>2. Linked(f[a], y) /\ Linked(f[b], y) => a = b
    BY DEF Distinct
  <2>3. ~Linked(f[a], x) /\ ~Linked(f[b], x)
    BY DEF Armed
  <2> QED
    BY <2>1, <2>2, <2>3
<1>6. Distinct(g)
  BY <1>2, <1>4, <1>5 DEF Distinct
<1> QED
  BY <1>2, <1>3, <1>6 DEF g

LEMMA DistinctCancel ==
  ASSUME NEW D, NEW f \in [D -> Seq(Task)], Distinct(f), NEW x \in Task
  PROVE  /\ Distinct(CancelTimer(f, x)) /\ DOMAIN CancelTimer(f, x) = D
         /\ \A e \in D, y \in Task :
              Linked(CancelTimer(f, x)[e], y) <=> Linked(f[e], y) /\ y # x
<1> DEFINE g == CancelTimer(f, x)
<1>1. \A e \in D :
        /\ NoRepeat(Unlink(f[e], x))
        /\ \A y : Linked(Unlink(f[e], x), y) <=> Linked(f[e], y) /\ y # x
  BY UnlinkKeeps, UnlinkDrops DEF Distinct
<1>2. g = [e \in D |-> Unlink(f[e], x)] /\ DOMAIN g = D
  BY DEF CancelTimer
<1> HIDE DEF g
<1>3. \A e \in D : NoRepeat(g[e])
  BY <1>1, <1>2
<1>4. \A e \in D, y \in Task : Linked(g[e], y) <=> Linked(f[e], y) /\ y # x
  BY <1>1, <1>2
<1>5. ASSUME NEW a \in D, NEW b \in D, NEW y \in Task, Linked(g[a], y), Linked(g[b], y)
      PROVE  a = b
  <2>1. Linked(f[a], y) /\ Linked(f[b], y)
    BY <1>4, <1>5
  <2> QED
    BY <2>1 DEF Distinct
<1>6. Distinct(g)
  BY <1>2, <1>3, <1>5 DEF Distinct
<1> QED
  BY <1>2, <1>4, <1>6 DEF g

(* The scan takes the first node of a list.                                *)
DropHead(f, d) == [f EXCEPT ![d] = Tail(@)]

LEMMA DistinctDropHead ==
  ASSUME NEW D, NEW f \in [D -> Seq(Task)], Distinct(f), NEW d \in D, f[d] # << >>
  PROVE  /\ Distinct(DropHead(f, d)) /\ DOMAIN DropHead(f, d) = D
         /\ \A e \in D, y \in Task :
              Linked(DropHead(f, d)[e], y) <=> Linked(f[e], y) /\ y # Head(f[d])
<1> DEFINE g == DropHead(f, d)
<1>1. /\ Tail(f[d]) \in Seq(Task) /\ NoRepeat(Tail(f[d]))
      /\ \A y : Linked(Tail(f[d]), y) <=> Linked(f[d], y) /\ y # Head(f[d])
      /\ Linked(f[d], Head(f[d]))
  BY TailLinks, TailDrops DEF Distinct
<1>2. g = [f EXCEPT ![d] = Tail(f[d])] /\ DOMAIN g = D
  BY DEF DropHead
<1> HIDE DEF g
<1>3. \A e \in D, y \in Task :
         Linked(g[e], y) <=> Linked(f[e], y) /\ y # Head(f[d])
  BY <1>1, <1>2 DEF Distinct, Linked
<1>4. \A e \in D : NoRepeat(g[e])
  BY <1>1, <1>2 DEF Distinct
<1>5. ASSUME NEW a \in D, NEW b \in D, NEW y \in Task, Linked(g[a], y), Linked(g[b], y)
      PROVE  a = b
  <2>1. Linked(f[a], y) /\ Linked(f[b], y)
    BY <1>3, <1>5
  <2> QED
    BY <2>1 DEF Distinct
<1>6. Distinct(g)
  BY <1>2, <1>4, <1>5 DEF Distinct
<1> QED
  BY <1>2, <1>3, <1>6 DEF g

(* Every client of the calendar moves one tick nearer; none is lost if the *)
(* current tick has none left.                                             *)
LEMMA DistinctShift ==
  ASSUME NEW N \in Nat, NEW f \in [0 .. N -> Seq(Task)], Distinct(f),
         f[0] = << >>
  PROVE  /\ Distinct(NextTick(f))
         /\ \A y : Armed(NextTick(f), y) <=> Armed(f, y)
<1> DEFINE g == NextTick(f)
<1>1. /\ DOMAIN f = 0 .. N /\ DOMAIN g = 0 .. N
      /\ \A n \in 0 .. N : g[n] = IF n + 1 \in 0 .. N THEN f[n + 1] ELSE << >>
  BY DEF NextTick
<1> HIDE DEF g
<1>2. NoRepeat(<< >>) /\ \A y : ~Linked(<< >>, y)
  BY DEF Linked, ToSet, NoRepeat
<1>3. \A n \in 0 .. N : NoRepeat(g[n])
  BY <1>1, <1>2 DEF Distinct
<1>4. ASSUME NEW y, NEW n \in 0 .. N, Linked(g[n], y)
      PROVE  n + 1 \in 0 .. N /\ Linked(f[n + 1], y)
  BY <1>1, <1>2, <1>4
<1>5. ASSUME NEW a \in 0 .. N, NEW b \in 0 .. N, NEW y \in Task, Linked(g[a], y), Linked(g[b], y)
      PROVE  a = b
  <2>1. a + 1 = b + 1
    BY <1>1, <1>4, <1>5 DEF Distinct
  <2> QED
    BY <2>1
<1>6. ASSUME NEW y, NEW n \in 0 .. N, Linked(f[n], y) PROVE Armed(g, y)
  <2>1. n # 0
    BY <1>2, <1>6
  <2>2. n - 1 \in 0 .. N /\ (n - 1) + 1 = n
    BY <2>1
  <2>3. Linked(g[n - 1], y)
    BY <1>1, <1>6, <2>2
  <2> QED
    BY <1>1, <2>2, <2>3 DEF Armed
<1>7. Distinct(g)
  BY <1>1, <1>3, <1>5 DEF Distinct
<1>8. \A y : Armed(g, y) <=> Armed(f, y)
  BY <1>1, <1>4, <1>6 DEF Armed
<1> QED
  BY <1>7, <1>8 DEF g

(***************************************************************************)
(* Filing: every task of R is on the list at[t] of the family f, once, and *)
(* no other task is on any.                                                *)
(***************************************************************************)
Filed(f, at, R) ==
  /\ Distinct(f)
  /\ \A d \in DOMAIN f, t \in Task : Linked(f[d], t) <=> t \in R /\ at[t] = d

LEMMA FiledSame ==
  ASSUME NEW f, NEW at, NEW R, Filed(f, at, R),
         NEW at2, \A u \in R : at2[u] = at[u]
  PROVE  Filed(f, at2, R)
BY DEF Filed

LEMMA FiledEnqueue ==
  ASSUME NEW D, NEW f \in [D -> Seq(Task)], NEW at, NEW R, Filed(f, at, R),
         NEW t \in Task, t \notin R, NEW d \in D,
         NEW at2, at2[t] = d, \A u \in R : at2[u] = at[u]
  PROVE  Filed(Enqueue(f, t, d), at2, R \cup {t})
<1> DEFINE g == Enqueue(f, t, d)
<1>1. DOMAIN f = D /\ Distinct(f) /\ ~Armed(f, t)
  BY DEF Filed, Armed
<1>2. /\ Distinct(g) /\ DOMAIN g = D
      /\ \A e \in D, y \in Task : Linked(g[e], y) <=> Linked(f[e], y) \/ (e = d /\ y = t)
  BY <1>1, DistinctEnqueue
<1> HIDE DEF g
<1>3. \A e \in D, u \in Task : Linked(g[e], u) <=> u \in R \cup {t} /\ at2[u] = e
  BY <1>1, <1>2 DEF Filed
<1>4. Filed(g, at2, R \cup {t})
  BY <1>2, <1>3 DEF Filed
<1> QED
  BY <1>4 DEF g

LEMMA FiledDequeue ==
  ASSUME NEW D, NEW f \in [D -> Seq(Task)], NEW at, NEW R, Filed(f, at, R),
         NEW t \in Task, NEW d \in D, t \in R => at[t] = d,
         NEW at2, \A u \in R \ {t} : at2[u] = at[u]
  PROVE  Filed(Dequeue(f, t, d), at2, R \ {t})
<1> DEFINE g == Dequeue(f, t, d)
<1>1. DOMAIN f = D /\ Distinct(f)
  BY DEF Filed
<1>2. /\ NoRepeat(Unlink(f[d], t))
      /\ \A y : Linked(Unlink(f[d], t), y) <=> Linked(f[d], y) /\ y # t
  BY <1>1, UnlinkKeeps, UnlinkDrops DEF Distinct
<1>3. g = [f EXCEPT ![d] = Unlink(f[d], t)] /\ DOMAIN g = D
  BY DEF Dequeue
<1> HIDE DEF g
<1>4. /\ \A y : Linked(g[d], y) <=> Linked(f[d], y) /\ y # t
      /\ \A e \in D : e # d => g[e] = f[e]
  BY <1>2, <1>3
<1>5. \A e \in D : NoRepeat(g[e])
  BY <1>1, <1>2, <1>3 DEF Distinct
<1>6. ASSUME NEW a \in D, NEW b \in D, NEW y \in Task, Linked(g[a], y), Linked(g[b], y)
      PROVE  a = b
  <2>1. Linked(f[a], y) /\ Linked(f[b], y)
    BY <1>4, <1>6
  <2> QED
    BY <1>1, <2>1 DEF Distinct
<1>7. Distinct(g)
  BY <1>3, <1>5, <1>6 DEF Distinct
<1>8. ASSUME NEW e \in D, NEW u \in Task
      PROVE  Linked(g[e], u) <=> u \in R \ {t} /\ at2[u] = e
  <2>1. Linked(f[e], u) <=> u \in R /\ at[u] = e
    BY <1>1 DEF Filed
  <2>2. CASE e = d
    BY <1>4, <2>1, <2>2
  <2>3. CASE e # d
    BY <1>4, <2>1, <2>3
  <2> QED
    BY <2>2, <2>3
<1>9. Filed(g, at2, R \ {t})
  BY <1>3, <1>7, <1>8 DEF Filed
<1> QED
  BY <1>9 DEF g

LEMMA FiledCancel ==
  ASSUME NEW D, NEW f \in [D -> Seq(Task)], NEW at, NEW R, Filed(f, at, R),
         NEW t \in Task, NEW at2, \A u \in R \ {t} : at2[u] = at[u]
  PROVE  Filed(CancelTimer(f, t), at2, R \ {t})
<1> DEFINE g == CancelTimer(f, t)
<1>1. DOMAIN f = D /\ Distinct(f)
  BY DEF Filed
<1>2. /\ Distinct(g) /\ DOMAIN g = D
      /\ \A e \in D, y \in Task : Linked(g[e], y) <=> Linked(f[e], y) /\ y # t
  BY <1>1, DistinctCancel
<1> HIDE DEF g
<1>3. \A e \in D, u \in Task : Linked(g[e], u) <=> u \in R \ {t} /\ at2[u] = e
  BY <1>1, <1>2 DEF Filed
<1>4. Filed(g, at2, R \ {t})
  BY <1>2, <1>3 DEF Filed
<1> QED
  BY <1>4 DEF g
-----------------------------------------------------------------------------
(***************************************************************************)
(* The inductive invariant.                                                *)
(*                                                                         *)
(* A call that makes a task ready does not look whether it is on the ready *)
(* queue already: that it is not follows from what blocks it (FlagOK), and *)
(* that a blocked task stays off the queue from its not executing any more *)
(* kernel calls: whoever has blocked itself is on its way to LOS_Schedule  *)
(* or is neither executing nor chosen to be next (BlockInv).               *)
(***************************************************************************)
FlagOK(s) ==
  /\ "UNUSED" \in s => s = {"UNUSED"}
  /\ "UNUSED" \notin s => ("READY" \in s <=> s \cap Blocked = {})
  /\ ~("DELAY" \in s /\ "PEND" \in s)

FlagInv == \A t \in Task : FlagOK(status[t])

ReadyTasks == {t \in Task : Is(t, "READY")}

PendTasks == {t \in Task : Is(t, "PEND")}

ReadyInv == Filed(ready, pri, ReadyTasks)

WaitInv == Filed(waiting, arg, PendTasks) /\ \A t \in PendTasks : arg[t] \in WaitList

DueInv ==
  /\ Distinct(due)
  /\ \A t \in Task :
       /\ Armed(due, t) => Is(t, "DELAY") \/ (Is(t, "PEND") /\ Is(t, "TIMEOUT"))
       /\ Is(t, "DELAY") => Armed(due, t)
  /\ tick = "off" => due[0] = << >>

RunInv == (\A t \in Task : Is(t, "RUNNING") <=> t = run) /\ Live(new)

Halted(t) == Is(t, "DELAY") \/ Is(t, "PEND")

Stopping(t) == run = t /\ ~pendsv /\ pc[t] = "sched" /\ taskLock = 0

Away(t) == new # t /\ (run = t => pendsv)

BlockInv == \A t \in Task : Halted(t) => Stopping(t) \/ Away(t)

CreateInv ==
  /\ \A c \in Task : pc[c] = "create" => status[arg[c]] = {"SUSPEND"} /\ new # arg[c]
  /\ \A c, d \in Task :
       pc[c] = "create" /\ pc[d] = "create" /\ arg[c] = arg[d] => c = d

RecycleInv == \A t \in recycle : ~Live(t)

ListInv ==
  /\ FlagInv /\ ReadyInv /\ WaitInv /\ DueInv
  /\ RunInv /\ BlockInv /\ CreateInv /\ RecycleInv

(* What the properties of LosTask say of the lists.                        *)
LEMMA ListInvReadyQueue ==
  ASSUME TInv, ListInv PROVE ReadyQueueExact
<1>1. DOMAIN ready = Prio /\ \A t \in Task : pri[t] \in Prio
  BY DEF TInv, TcbInv
<1>2. \A p \in Prio : ToSet(ready[p]) \subseteq Task
  <2> SUFFICES ASSUME NEW p \in Prio PROVE ToSet(ready[p]) \subseteq Task
    OBVIOUS
  <2>1. ready[p] \in Seq(Task)
    BY DEF TInv, TcbInv
  <2> QED
    BY <2>1, LenProperties, ElementOfSeq DEF ToSet
<1> QED
  BY <1>1, <1>2 DEF ListInv, ReadyInv, ReadyTasks, Filed, Distinct, Linked, ReadyQueueExact

LEMMA ListInvLost ==
  ASSUME TInv, ListInv PROVE NoTaskLost
<1>1. DOMAIN waiting = WaitList
  BY DEF TInv, TcbInv
<1>2. \A t \in Task : Is(t, "PEND") <=> \E w \in WaitList : Linked(waiting[w], t)
  BY <1>1 DEF ListInv, WaitInv, PendTasks, Filed
<1> QED
  BY <1>2 DEF ListInv, FlagInv, FlagOK, RecycleInv, Live, Is, NoTaskLost

LEMMA ListInvTimer ==
  ASSUME ListInv PROVE TimerExact
BY DEF ListInv, DueInv, Is, TimerExact

LEMMA ListInvInit ==
  ASSUME Init PROVE ListInv
<1> USE TaskAssumption, NumberAssumption
<1>0. TInv /\ Lowest \in Prio /\ ready = BootReady /\ pri = BootPri
  <2>1. Lowest \in Prio
    BY DEF Prio
  <2> QED
    BY <2>1, TInvInit DEF Init
<1>1. /\ BootReady \in [Prio -> Seq(Task)] /\ BootPri \in [Task -> Prio]
      /\ Linked(BootReady[Lowest], Idle)
      /\ \A p \in Prio : NoRepeat(BootReady[p])
      /\ \A p \in Prio : \A i \in DOMAIN BootReady[p] : BootPri[BootReady[p][i]] = p
  BY BootAssumption DEF NoRepeat
<1>2. \A p \in Prio : \A t : Linked(BootReady[p], t) => BootPri[t] = p
  <2> SUFFICES ASSUME NEW p \in Prio, NEW t, Linked(BootReady[p], t)
               PROVE  BootPri[t] = p
    OBVIOUS
  <2>1. PICK i \in DOMAIN BootReady[p] : BootReady[p][i] = t
    BY LenProperties, <1>1 DEF Linked, ToSet
  <2> QED
    BY <1>1, <2>1
<1>3. run \in Task /\ Linked(BootReady[BootPri[run]], run) /\ new = run
  <2>1. TopPri(BootReady) \in Prio /\ Linked(BootReady[TopPri(BootReady)], Top(BootReady))
        /\ Top(BootReady) \in Task
    BY <1>0, <1>1, LinkedNotEmpty, TopProperties
  <2> QED
    BY <1>2, <2>1 DEF Init
<1>4. \A t \in Task :
        /\ status[t] \in {{"READY", "RUNNING"}, {"READY"}, {"UNUSED"}}
        /\ Is(t, "RUNNING") <=> t = run
        /\ Is(t, "READY") <=> Linked(BootReady[BootPri[t]], t)
  BY <1>3 DEF Init, Is
<1>5. FlagInv
  BY <1>4 DEF FlagInv, FlagOK, Blocked
<1>6. RunInv
  BY <1>3, <1>4 DEF RunInv, Live, Is
<1>7. ReadyInv
  <2>1. Distinct(BootReady)
    <3>1. DOMAIN BootReady = Prio
      BY <1>1
    <3> QED
      BY <1>1, <1>2, <3>1 DEF Distinct
  <2>2. \A p \in Prio, t \in Task :
          Linked(BootReady[p], t) <=> t \in ReadyTasks /\ BootPri[t] = p
    BY <1>2, <1>4 DEF ReadyTasks
  <2> QED
    BY <1>0, <1>1, <2>1, <2>2 DEF ReadyInv, Filed
<1>8. NoRepeat(<< >>) /\ \A t : ~Linked(<< >>, t)
  BY DEF Linked, ToSet, NoRepeat
<1>9. \A t \in Task : ~Is(t, "PEND") /\ ~Is(t, "DELAY")
  BY <1>4 DEF Is
<1>10. WaitInv
  BY <1>8, <1>9 DEF Init, WaitInv, PendTasks, Filed, Distinct
<1>11. DueInv
  BY <1>8, <1>9 DEF Init, DueInv, Distinct, Armed
<1>12. BlockInv /\ CreateInv /\ RecycleInv
  BY <1>9 DEF Init, BlockInv, Halted, CreateInv, RecycleInv
<1> QED
  BY <1>5, <1>6, <1>7, <1>10, <1>11, <1>12 DEF ListInv
-----------------------------------------------------------------------------
(***************************************************************************)
(* How the parts of the invariant survive, in terms of what a step does to *)
(* flags and lists.                                                        *)
(***************************************************************************)
Timing == {"DELAY", "PEND", "TIMEOUT"}

SameFlag(flag, t) == flag \in status'[t] <=> flag \in status[t]

LEMMA FlagOne ==
  ASSUME TcbInv, FlagInv, NEW t \in Task, NEW s, FlagOK(s),
         status' = [status EXCEPT ![t] = s]
  PROVE  FlagInv'
BY DEF TcbInv, FlagInv, FlagOK

LEMMA ReadyKeep ==
  ASSUME ReadyInv, UNCHANGED <<ready, pri>>,
         \A u \in Task : SameFlag("READY", u)
  PROVE  ReadyInv'
<1>1. ReadyTasks' = ReadyTasks
  BY DEF ReadyTasks, Is, SameFlag
<1> QED
  BY <1>1 DEF ReadyInv

LEMMA ReadyMore ==
  ASSUME TcbInv, ReadyInv, NEW t \in Task, ~Is(t, "READY"),
         "READY" \in status'[t], \A u \in Task \ {t} : SameFlag("READY", u),
         ready' = Enqueue(ready, t, pri[t]), UNCHANGED pri
  PROVE  ReadyInv'
<1>1. ReadyTasks' = ReadyTasks \cup {t} /\ t \notin ReadyTasks
  BY DEF ReadyTasks, Is, SameFlag
<1>2. ready \in [Prio -> Seq(Task)] /\ pri[t] \in Prio
  BY DEF TcbInv
<1>3. Filed(Enqueue(ready, t, pri[t]), pri, ReadyTasks \cup {t})
  BY <1>1, <1>2, FiledEnqueue DEF ReadyInv
<1> QED
  BY <1>1, <1>3 DEF ReadyInv

LEMMA ReadyLess ==
  ASSUME TcbInv, ReadyInv, NEW t \in Task,
         "READY" \notin status'[t], \A u \in Task \ {t} : SameFlag("READY", u),
         ready' = Dequeue(ready, t, pri[t]), UNCHANGED pri
  PROVE  ReadyInv'
<1>1. ReadyTasks' = ReadyTasks \ {t}
  BY DEF ReadyTasks, Is, SameFlag
<1>2. ready \in [Prio -> Seq(Task)] /\ pri[t] \in Prio
  BY DEF TcbInv
<1>3. Filed(Dequeue(ready, t, pri[t]), pri, ReadyTasks \ {t})
  BY <1>2, FiledDequeue DEF ReadyInv
<1> QED
  BY <1>1, <1>3 DEF ReadyInv

LEMMA ReadyMove ==
  ASSUME TcbInv, ReadyInv, NEW t \in Task, Is(t, "READY"),
         \A u \in Task : SameFlag("READY", u),
         NEW p \in Prio, pri'[t] = p, \A u \in Task \ {t} : pri'[u] = pri[u],
         ready' = Enqueue(Dequeue(ready, t, pri[t]), t, p)
  PROVE  ReadyInv'
<1> DEFINE q == Dequeue(ready, t, pri[t])
<1>1. ReadyTasks' = (ReadyTasks \ {t}) \cup {t} /\ ReadyTasks \subseteq Task
  BY DEF ReadyTasks, Is, SameFlag
<1>2. ready \in [Prio -> Seq(Task)] /\ pri[t] \in Prio
  BY DEF TcbInv
<1>3. Filed(q, pri, ReadyTasks \ {t}) /\ q \in [Prio -> Seq(Task)]
  BY <1>2, FiledDequeue, QueueType DEF ReadyInv
<1> HIDE DEF q
<1>4. \A u \in ReadyTasks \ {t} : pri'[u] = pri[u]
  BY <1>1
<1>5. Filed(Enqueue(q, t, p), pri', (ReadyTasks \ {t}) \cup {t})
  BY <1>3, <1>4, FiledEnqueue
<1> QED
  BY <1>1, <1>5 DEF ReadyInv, q

LEMMA WaitKeep ==
  ASSUME WaitInv, UNCHANGED waiting, \A u \in Task : SameFlag("PEND", u),
         \A u \in Task : Is(u, "PEND") => arg'[u] = arg[u]
  PROVE  WaitInv'
<1>1. PendTasks' = PendTasks /\ \A u \in PendTasks : arg'[u] = arg[u]
  BY DEF PendTasks, Is, SameFlag
<1>2. Filed(waiting, arg', PendTasks)
  BY <1>1, FiledSame DEF WaitInv
<1> QED
  BY <1>1, <1>2 DEF WaitInv

LEMMA WaitLess ==
  ASSUME TcbInv, WaitInv, NEW t \in Task,
         waiting' = [w \in WaitList |-> Unlink(waiting[w], t)],
         "PEND" \notin status'[t], \A u \in Task \ {t} : SameFlag("PEND", u),
         \A u \in Task \ {t} : Is(u, "PEND") => arg'[u] = arg[u]
  PROVE  WaitInv'
<1>1. /\ PendTasks' = PendTasks \ {t} /\ \A u \in PendTasks \ {t} : arg'[u] = arg[u]
      /\ waiting \in [WaitList -> Seq(Task)]
  BY DEF PendTasks, Is, SameFlag, TcbInv
<1>2. waiting' = CancelTimer(waiting, t)
  BY <1>1 DEF CancelTimer
<1>3. Filed(CancelTimer(waiting, t), arg', PendTasks \ {t})
  BY <1>1, FiledCancel DEF WaitInv
<1>4. \A u \in PendTasks \ {t} : arg'[u] \in WaitList
  BY <1>1 DEF WaitInv
<1> QED
  BY <1>1, <1>2, <1>3, <1>4 DEF WaitInv

LEMMA DueKeep ==
  ASSUME DueInv, UNCHANGED <<due, tick>>,
         \A u \in Task : \A flag \in Timing : SameFlag(flag, u)
  PROVE  DueInv'
BY DEF DueInv, Timing, SameFlag, Is

LEMMA RunKeep ==
  ASSUME RunInv, UNCHANGED run, \A u \in Task : SameFlag("RUNNING", u),
         "UNUSED" \notin status'[new']
  PROVE  RunInv'
BY DEF RunInv, SameFlag, Is, Live

LEMMA RecycleKeep ==
  ASSUME TcbInv, RecycleInv, recycle' \subseteq recycle,
         \A u \in Task : SameFlag("UNUSED", u)
  PROVE  RecycleInv'
BY DEF RecycleInv, SameFlag, Is, Live, TcbInv

LEMMA CreateKeep ==
  ASSUME PlaceInv, CreateInv,
         \A c \in Task : pc'[c] = "create" =>
           pc[c] = "create" /\ arg'[c] = arg[c] /\ status'[arg[c]] = status[arg[c]],
         new' = new \/ "READY" \in status'[new']
  PROVE  CreateInv'
<1>1. ASSUME NEW c \in Task, pc'[c] = "create"
      PROVE  status'[arg'[c]] = {"SUSPEND"} /\ new' # arg'[c]
  <2>1. /\ arg'[c] = arg[c] /\ status'[arg[c]] = {"SUSPEND"}
        /\ new # arg[c]
    BY <1>1 DEF CreateInv
  <2> QED
    BY <2>1
<1>2. ASSUME NEW c \in Task, NEW d \in Task,
             pc'[c] = "create", pc'[d] = "create", arg'[c] = arg'[d]
      PROVE  c = d
  BY <1>2 DEF CreateInv
<1> QED
  BY <1>1, <1>2 DEF CreateInv

(* LOS_Schedule chooses a ready task.                                      *)
LEMMA TopReady ==
  ASSUME TcbInv', ReadyInv', FlagInv'
  PROVE  /\ Top(ready') \in Task
         /\ "READY" \in status'[Top(ready')]
         /\ "UNUSED" \notin status'[Top(ready')]
         /\ \A u \in Task : Halted(u)' => Top(ready') # u
<1>1. Lowest \in Prio /\ ready' \in [Prio -> Seq(Task)]
  BY NumberAssumption DEF Prio, TcbInv
<1>2. /\ TopPri(ready') \in Prio /\ Top(ready') \in Task
      /\ Linked(ready'[TopPri(ready')], Top(ready'))
  BY <1>1, LinkedNotEmpty, TopProperties DEF TcbInv
<1>3. Top(ready') \in ReadyTasks'
  BY <1>1, <1>2 DEF ReadyInv, Filed
<1>4. "READY" \in status'[Top(ready')]
  BY <1>3 DEF ReadyTasks, Is
<1>5. FlagOK(status'[Top(ready')])
  BY <1>2 DEF FlagInv
<1> QED
  BY <1>2, <1>4, <1>5 DEF FlagOK, Blocked, Halted, Is

(* A task that is executing has not blocked itself, unless it is on its    *)
(* way to LOS_Schedule.                                                    *)
LEMMA RunnerNotHalted ==
  ASSUME BlockInv, NEW c \in Task, Running(c), pc[c] # "sched"
  PROVE  ~Halted(c)
BY DEF BlockInv, Stopping, Away, Running

LEMMA BlockKeep ==
  ASSUME BlockInv, UNCHANGED <<run, new, pendsv>>,
         \A u \in Task : Halted(u)' => Halted(u),
         \A u \in Task : Halted(u)' /\ Stopping(u) => pc'[u] = "sched" /\ taskLock' = 0
  PROVE  BlockInv'
BY DEF BlockInv, Stopping, Away

LEMMA BlockSchedule ==
  ASSUME BlockInv, Schedule, UNCHANGED <<run, taskLock>>,
         TcbInv', ReadyInv', FlagInv',
         \A u \in Task : Halted(u)' => Halted(u)
  PROVE  BlockInv'
<1> SUFFICES ASSUME NEW u \in Task, Halted(u)' PROVE Away(u)'
  BY DEF BlockInv
<1>1. new' = Top(ready') /\ new' # u
  BY TopReady DEF Schedule
<1>2. Stopping(u) \/ Away(u)
  BY DEF BlockInv
<1>3. pendsv' = (pendsv \/ (run # new' /\ taskLock = 0)) /\ run' = run
  BY DEF Schedule
<1>4. run = u => pendsv'
  BY <1>1, <1>2, <1>3 DEF Stopping, Away
<1> QED
  BY <1>1, <1>3, <1>4 DEF Away

(* The end of a call that may have made a task ready, or its caller not.   *)
LEMMA BlockThen ==
  ASSUME BlockInv, PlaceInv, NEW c \in Task \cup {Isr}, ThenSchedule(c),
         TcbInv', ReadyInv', FlagInv',
         \A u \in Task : Halted(u)' =>
           Halted(u) \/ (u = c /\ Running(c) /\ taskLock = 0)
  PROVE  BlockInv'
<1>1. CASE c = Isr
  <2>1. Schedule /\ UNCHANGED <<run, taskLock>> /\ c \notin Task
    BY <1>1, TaskAssumption DEF ThenSchedule
  <2> QED
    BY <2>1, BlockSchedule
<1>2. CASE c # Isr
  <2>1. pc' = [pc EXCEPT ![c] = "sched"] /\ c \in Task
        /\ UNCHANGED <<run, new, pendsv, taskLock>>
    BY <1>2 DEF ThenSchedule
  <2>2. ASSUME NEW u \in Task, Halted(u)' PROVE Stopping(u)' \/ Away(u)'
    <3>1. CASE Halted(u)
      <4>1. Stopping(u) \/ Away(u)
        BY <3>1 DEF BlockInv
      <4> QED
        BY <2>1, <4>1 DEF Stopping, Away, PlaceInv
    <3>2. CASE u = c /\ Running(c) /\ taskLock = 0
      BY <2>1, <3>2 DEF Stopping, Running, PlaceInv
    <3> QED
      BY <2>2, <3>1, <3>2
  <2> QED
    BY <2>2 DEF BlockInv
<1> QED
  BY <1>1, <1>2
-----------------------------------------------------------------------------
(***************************************************************************)
(* Every step preserves the invariant.  TInv' is assumed: LosTaskProofs    *)
(* has shown it of every step.                                             *)
(***************************************************************************)
StepFrom == TInv /\ ListInv /\ TInv'

LEMMA TaskCalls ==
  ASSUME ListInv, NEW c \in Task \cup {Isr}, NEW op \in Ops, Calls(c, op),
         op \notin {"resume", "suspend", "delete"}
  PROVE  /\ c \in Task /\ c # Idle /\ Running(c) /\ pc[c] = "user"
         /\ ~Halted(c) /\ Is(c, "RUNNING")
<1>1. c # Isr
  BY OpsAssumption DEF Calls
<1>2. c \in Task /\ c # Idle /\ Running(c) /\ pc[c] = "user"
  BY <1>1 DEF Calls, Enters
<1> QED
  BY <1>2, RunnerNotHalted DEF ListInv, RunInv, Running

LEMMA ThenScheduleNew ==
  ASSUME RunInv, TcbInv', ReadyInv', FlagInv', SchedInv, TcbInv,
         NEW c, ThenSchedule(c), \A u \in Task : SameFlag("UNUSED", u)
  PROVE  /\ UNCHANGED run /\ "UNUSED" \notin status'[new']
         /\ new' = new \/ "READY" \in status'[new']
<1>1. CASE c = Isr
  BY <1>1, TopReady DEF ThenSchedule, Schedule
<1>2. CASE c # Isr
  <2>1. UNCHANGED <<run, new>> /\ new \in Task
    BY <1>2 DEF ThenSchedule, SchedInv
  <2> QED
    BY <2>1 DEF RunInv, Live, Is, SameFlag
<1> QED
  BY <1>1, <1>2

(* A new task is created over a TCB that is on no list.                    *)
LEMMA ListCreateOnly ==
  ASSUME StepFrom, NEW c \in Task \cup {Isr}, NEW t \in Task, NEW p \in UserPri,
         NEW place \in {"user", "create"}, TaskCreateOnly(c, t, p, place)
  PROVE  ListInv'
<1> USE DEF StepFrom, ListInv
<1>1. /\ c \in Task /\ Running(c) /\ pc[c] = "user" /\ ~Halted(c)
      /\ status[t] = {"UNUSED"} /\ Is(c, "RUNNING") /\ c # t
  <2>1. c \in Task /\ Running(c) /\ pc[c] = "user" /\ ~Halted(c) /\ Is(c, "RUNNING")
    BY TaskCalls DEF TaskCreateOnly, Ops
  <2>2. status[t] = {"UNUSED"}
    BY DEF TaskCreateOnly, FlagInv, FlagOK, Live, Is
  <2> QED
    BY <2>1, <2>2 DEF Is
<1>2. /\ status' = [status EXCEPT ![t] = {"SUSPEND"}] /\ recycle' = {}
      /\ UNCHANGED <<ready, waiting, due, run, new, pendsv, taskLock, tick>>
      /\ pri' = [pri EXCEPT ![t] = p]
      /\ pc' = [pc EXCEPT ![t] = "user", ![c] = place]
      /\ arg' = [arg EXCEPT ![t] = NoArg,
                            ![c] = IF place = "create" THEN t ELSE NoArg]
  BY DEF TaskCreateOnly, sched, isr
<1>3. status'[t] = {"SUSPEND"} /\ \A u \in Task \ {t} : status'[u] = status[u]
  BY <1>2 DEF TInv, TcbInv
<1>4. FlagInv'
  BY <1>2, FlagOne DEF TInv, FlagOK, Blocked
<1>5. ReadyInv'
  <2>1. ReadyTasks' = ReadyTasks /\ t \notin ReadyTasks
    BY <1>1, <1>3 DEF ReadyTasks, Is
  <2>2. \A u \in ReadyTasks : pri'[u] = pri[u]
    BY <1>2, <2>1 DEF ReadyTasks, TInv, TcbInv
  <2>3. Filed(ready, pri', ReadyTasks)
    BY <2>2, FiledSame DEF ReadyInv
  <2> QED
    BY <1>2, <2>1, <2>3 DEF ReadyInv
<1>6. WaitInv'
  <2>1. \A u \in Task : SameFlag("PEND", u)
    BY <1>1, <1>3 DEF SameFlag
  <2>2. \A u \in Task : Is(u, "PEND") => u # c /\ u # t
    BY <1>1 DEF Halted, Is
  <2>3. \A u \in Task : Is(u, "PEND") => arg'[u] = arg[u]
    BY <1>2, <2>2 DEF TInv, PlaceInv
  <2> QED
    BY <1>2, <2>1, <2>3, WaitKeep
<1>7. DueInv'
  BY <1>1, <1>2, <1>3, DueKeep DEF SameFlag, Timing
<1>8. RunInv'
  <2>1. new # t /\ new \in Task
    BY <1>1 DEF RunInv, Live, Is, TInv, SchedInv
  <2>2. "UNUSED" \notin status'[new']
    BY <1>2, <1>3, <2>1 DEF RunInv, Live, Is
  <2> QED
    BY <1>1, <1>2, <1>3, <2>2, RunKeep DEF SameFlag
<1>9. BlockInv'
  <2>1. \A u \in Task : Halted(u)' => Halted(u)
    BY <1>3 DEF Halted, Is
  <2>2. \A u \in Task : ~Stopping(u)
    BY <1>1 DEF Stopping, Running
  <2> QED
    BY <1>2, <2>1, <2>2, BlockKeep
<1>10. CreateInv'
  <2>1. new # t
    BY <1>1 DEF RunInv, Live, Is
  <2>2. \A d \in Task : pc[d] = "create" => arg[d] # t
    BY <1>1 DEF CreateInv
  <2>3. \A d \in Task : pc'[d] = "create" =>
          IF d = c THEN arg'[d] = t ELSE pc[d] = "create" /\ arg'[d] = arg[d]
    BY <1>1, <1>2 DEF TInv, PlaceInv
  <2>4. \A d \in Task : pc'[d] = "create" =>
          status'[arg'[d]] = {"SUSPEND"} /\ new' # arg'[d]
    <3> SUFFICES ASSUME NEW d \in Task, pc'[d] = "create"
                 PROVE  status'[arg'[d]] = {"SUSPEND"} /\ new' # arg'[d]
      OBVIOUS
    <3>1. CASE d = c
      BY <1>2, <1>3, <2>1, <2>3, <3>1
    <3>2. CASE d # c
      <4>1. pc[d] = "create" /\ arg'[d] = arg[d] /\ arg[d] # t
        BY <2>2, <2>3, <3>2
      <4>2. arg[d] \in Task /\ status[arg[d]] = {"SUSPEND"} /\ new # arg[d]
        BY <4>1 DEF CreateInv, TInv, PlaceInv
      <4> QED
        BY <1>2, <1>3, <4>1, <4>2
    <3> QED
      BY <3>1, <3>2
  <2>5. \A d, e \in Task :
          pc'[d] = "create" /\ pc'[e] = "create" /\ arg'[d] = arg'[e] => d = e
    BY <2>2, <2>3 DEF CreateInv
  <2> QED
    BY <2>4, <2>5 DEF CreateInv
<1>11. RecycleInv'
  BY <1>2 DEF RecycleInv
<1> QED
  BY <1>4, <1>5, <1>6, <1>7, <1>8, <1>9, <1>10, <1>11

LEMMA ListCreateReady ==
  ASSUME StepFrom, NEW c \in Task, TaskCreateReady(c)
  PROVE  ListInv'
<1> USE DEF StepFrom, ListInv
<1> DEFINE t == arg[c]
<1>1. /\ t \in Task /\ status[t] = {"SUSPEND"} /\ new # t
      /\ Running(c) /\ pc[c] = "create"
  BY DEF TaskCreateReady, CreateInv, TInv, PlaceInv
<1>2. /\ status' = [status EXCEPT ![t] = (status[t] \ {"SUSPEND"}) \cup {"READY"}]
      /\ ready' = Enqueue(ready, t, pri[t]) /\ Schedule
      /\ pc' = [pc EXCEPT ![c] = "user"]
      /\ arg' = [arg EXCEPT ![c] = NoArg]
      /\ UNCHANGED <<pri, waiting, due, recycle, run, taskLock, tick>>
  BY DEF TaskCreateReady, isr
<1> HIDE DEF t
<1>3. status'[t] = {"READY"} /\ \A u \in Task \ {t} : status'[u] = status[u]
  BY <1>1, <1>2 DEF TInv, TcbInv
<1>4. FlagInv'
  <2>1. FlagOK({"READY"}) /\ status' = [status EXCEPT ![t] = {"READY"}]
    BY <1>1, <1>2 DEF FlagOK, Blocked
  <2> QED
    BY <1>1, <2>1, FlagOne DEF TInv
<1>5. ReadyInv'
  BY <1>1, <1>2, <1>3, ReadyMore DEF TInv, Is, SameFlag
<1>6. ~Halted(c)
  BY <1>1, RunnerNotHalted
<1>7. WaitInv'
  <2>1. \A u \in Task : Is(u, "PEND") => arg'[u] = arg[u]
    BY <1>2, <1>6 DEF Halted, TInv, PlaceInv
  <2> QED
    BY <1>1, <1>2, <1>3, <2>1, WaitKeep DEF SameFlag
<1>8. DueInv'
  BY <1>1, <1>2, <1>3, DueKeep DEF SameFlag, Timing
<1>9. new' = Top(ready') /\ "READY" \in status'[new'] /\ "UNUSED" \notin status'[new']
  BY <1>2, <1>4, <1>5, TopReady DEF TInv, Schedule
<1>10. RunInv'
  BY <1>1, <1>2, <1>3, <1>9, RunKeep DEF SameFlag
<1>11. BlockInv'
  <2>1. \A u \in Task : Halted(u)' => Halted(u)
    BY <1>3 DEF Halted, Is
  <2> QED
    BY <1>2, <1>4, <1>5, <2>1, BlockSchedule DEF TInv
<1>12. CreateInv'
  <2>1. ASSUME NEW d \in Task, pc'[d] = "create"
        PROVE  pc[d] = "create" /\ arg'[d] = arg[d] /\ status'[arg[d]] = status[arg[d]]
    <3>1. d # c /\ pc[d] = "create" /\ arg'[d] = arg[d]
      BY <1>2, <2>1 DEF TInv, PlaceInv
    <3>2. arg[d] # t /\ arg[d] \in Task
      BY <1>1, <3>1 DEF CreateInv, t, TInv, PlaceInv
    <3> QED
      BY <1>3, <3>1, <3>2
  <2> QED
    BY <1>9, <2>1, CreateKeep DEF TInv
<1>13. RecycleInv'
  BY <1>1, <1>2, <1>3, RecycleKeep DEF SameFlag, TInv
<1> QED
  BY <1>4, <1>5, <1>7, <1>8, <1>10, <1>11, <1>12, <1>13

(* The tasks a caller can name are not being created.                      *)
LEMMA KnownNotNewborn ==
  ASSUME NEW t \in Known, NEW d \in Task, pc[d] = "create"
  PROVE  arg[d] # t
BY DEF Known, Newborn

(* A step that moves no task, but may let some task go on.                 *)
LEMMA ListSame ==
  ASSUME StepFrom, UNCHANGED tcb, UNCHANGED <<run, new, pendsv, tick>>,
         \A u \in Task : pc'[u] = "create" => pc[u] = "create" /\ arg'[u] = arg[u],
         \A u \in Task : Halted(u) => arg'[u] = arg[u],
         \A u \in Task : Halted(u) /\ Stopping(u) => pc'[u] = "sched" /\ taskLock' = 0
  PROVE  ListInv'
<1> USE DEF StepFrom, ListInv, tcb
<1>1. \A u \in Task : \A flag \in Flags : SameFlag(flag, u)
  BY DEF SameFlag
<1>2. FlagInv' /\ RecycleInv' /\ ReadyInv'
  BY DEF FlagInv, RecycleInv, Live, Is, ReadyInv, ReadyTasks
<1>3. WaitInv'
  BY <1>1, WaitKeep DEF Halted, Flags
<1>4. DueInv' /\ RunInv'
  BY DEF DueInv, RunInv, Live, Is
<1>5. BlockInv'
  BY BlockKeep DEF Halted, Is
<1>6. CreateInv'
  BY CreateKeep DEF TInv
<1> QED
  BY <1>2, <1>3, <1>4, <1>5, <1>6

LEMMA ListResume ==
  ASSUME StepFrom, NEW c \in Task \cup {Isr}, NEW t \in Task, TaskResume(c, t)
  PROVE  ListInv'
<1> USE DEF StepFrom, ListInv
<1> DEFINE rest == status[t] \ {"SUSPEND"}
           s    == IF Unblocked(rest) THEN rest \cup {"READY"} ELSE rest
<1>1. /\ t \in Known /\ Is(t, "SUSPEND") /\ ~Is(t, "READY") /\ Live(t)
      /\ FlagOK(status[t])
  BY DEF TaskResume, FlagInv, FlagOK, Known, Live, Is, Blocked
<1>2. /\ status' = [status EXCEPT ![t] = s]
      /\ UNCHANGED <<pri, waiting, due, recycle, tick, arg>>
      /\ IF Unblocked(rest) THEN ready' = Enqueue(ready, t, pri[t]) /\ ThenSchedule(c)
                            ELSE UNCHANGED ready /\ ThenReturn
  BY DEF TaskResume, isr, ThenSchedule, ThenReturn
<1>3. FlagOK(s) /\ (\A flag \in Flags \ {"SUSPEND", "READY"} : flag \in s <=> flag \in status[t])
      /\ ("READY" \in s <=> Unblocked(rest))
  BY <1>1 DEF FlagOK, Live, Is, Unblocked, Blocked
<1> HIDE DEF s
<1>4. status'[t] = s /\ \A u \in Task \ {t} : status'[u] = status[u]
  BY <1>2 DEF TInv, TcbInv
<1>5. \A u \in Task : \A flag \in Flags \ {"SUSPEND", "READY"} : SameFlag(flag, u)
  BY <1>3, <1>4 DEF SameFlag
<1>6. FlagInv'
  BY <1>2, <1>3, FlagOne DEF TInv
<1>7. ReadyInv'
  <2>1. CASE Unblocked(rest)
    BY <1>1, <1>2, <1>3, <1>4, <2>1, ReadyMore DEF TInv, SameFlag
  <2>2. CASE ~Unblocked(rest)
    BY <1>1, <1>2, <1>3, <1>4, <2>2, ReadyKeep DEF TInv, SameFlag, Is
  <2> QED
    BY <2>1, <2>2
<1>8. WaitInv'
  BY <1>2, <1>5, WaitKeep DEF Flags
<1>9. DueInv'
  BY <1>2, <1>5, DueKeep DEF Flags, Timing
<1>10. \A u \in Task : Halted(u)' => Halted(u)
  BY <1>5 DEF Halted, Is, SameFlag, Flags
<1>11. /\ UNCHANGED run /\ "UNUSED" \notin status'[new']
       /\ new' = new \/ "READY" \in status'[new']
  <2>1. CASE Unblocked(rest)
    BY <1>2, <1>5, <1>6, <1>7, <2>1, ThenScheduleNew DEF TInv, Flags
  <2>2. CASE ~Unblocked(rest)
    BY <1>2, <1>5, <2>2 DEF ThenReturn, sched, RunInv, Live, Is, SameFlag, Flags, TInv, SchedInv
  <2> QED
    BY <2>1, <2>2
<1>12. RunInv'
  BY <1>5, <1>11, RunKeep DEF Flags
<1>13. BlockInv'
  <2>1. CASE Unblocked(rest)
    BY <1>2, <1>6, <1>7, <1>10, <2>1, BlockThen DEF TInv
  <2>2. CASE ~Unblocked(rest)
    BY <1>2, <1>10, <2>2, BlockKeep DEF ThenReturn, sched, Stopping
  <2> QED
    BY <2>1, <2>2
<1>14. CreateInv'
  <2>1. ASSUME NEW d \in Task, pc'[d] = "create"
        PROVE  pc[d] = "create" /\ arg'[d] = arg[d] /\ status'[arg[d]] = status[arg[d]]
    <3>1. pc[d] = "create" /\ arg'[d] = arg[d]
      BY <1>2, <2>1 DEF ThenSchedule, ThenReturn, TInv, PlaceInv
    <3>2. arg[d] # t /\ arg[d] \in Task
      BY <1>1, <3>1, KnownNotNewborn DEF TInv, PlaceInv
    <3> QED
      BY <1>4, <3>1, <3>2
  <2> QED
    BY <1>11, <2>1, CreateKeep DEF TInv
<1>15. RecycleInv'
  BY <1>2, <1>5, RecycleKeep DEF Flags, TInv
<1> QED
  BY <1>6, <1>7, <1>8, <1>9, <1>12, <1>13, <1>14, <1>15

LEMMA ListSuspend ==
  ASSUME StepFrom, NEW c \in Task \cup {Isr}, NEW t \in Task, TaskSuspend(c, t)
  PROVE  ListInv'
<1> USE DEF StepFrom, ListInv
<1> DEFINE s == (status[t] \ {"READY"}) \cup {"SUSPEND"}
<1>1. t \in Known /\ Live(t) /\ FlagOK(status[t])
  BY DEF TaskSuspend, FlagInv, Known
<1>2. /\ status' = [status EXCEPT ![t] = s]
      /\ UNCHANGED <<pri, waiting, due, recycle, tick, arg>>
      /\ IF Is(t, "READY") THEN ready' = Dequeue(ready, t, pri[t]) ELSE UNCHANGED ready
      /\ IF t = run THEN ThenSchedule(c) ELSE ThenReturn
  BY DEF TaskSuspend, isr, ThenSchedule, ThenReturn
<1>3. FlagOK(s) /\ (\A flag \in Flags \ {"SUSPEND", "READY"} : flag \in s <=> flag \in status[t])
      /\ "READY" \notin s
  BY <1>1 DEF FlagOK, Live, Is, Blocked
<1> HIDE DEF s
<1>4. status'[t] = s /\ \A u \in Task \ {t} : status'[u] = status[u]
  BY <1>2 DEF TInv, TcbInv
<1>5. \A u \in Task : \A flag \in Flags \ {"SUSPEND", "READY"} : SameFlag(flag, u)
  BY <1>3, <1>4 DEF SameFlag
<1>6. FlagInv'
  BY <1>2, <1>3, FlagOne DEF TInv
<1>7. ReadyInv'
  <2>1. CASE Is(t, "READY")
    BY <1>1, <1>2, <1>3, <1>4, <2>1, ReadyLess DEF TInv, SameFlag
  <2>2. CASE ~Is(t, "READY")
    BY <1>1, <1>2, <1>3, <1>4, <2>2, ReadyKeep DEF TInv, SameFlag, Is
  <2> QED
    BY <2>1, <2>2
<1>8. WaitInv'
  BY <1>2, <1>5, WaitKeep DEF Flags
<1>9. DueInv'
  BY <1>2, <1>5, DueKeep DEF Flags, Timing
<1>10. \A u \in Task : Halted(u)' => Halted(u)
  BY <1>5 DEF Halted, Is, SameFlag, Flags
<1>11. /\ UNCHANGED run /\ "UNUSED" \notin status'[new']
       /\ new' = new \/ "READY" \in status'[new']
  <2>1. CASE t = run
    BY <1>2, <1>5, <1>6, <1>7, <2>1, ThenScheduleNew DEF TInv, Flags
  <2>2. CASE t # run
    BY <1>2, <1>5, <2>2 DEF ThenReturn, sched, RunInv, Live, Is, SameFlag, Flags, TInv, SchedInv
  <2> QED
    BY <2>1, <2>2
<1>12. RunInv'
  BY <1>5, <1>11, RunKeep DEF Flags
<1>13. BlockInv'
  <2>1. CASE t = run
    BY <1>2, <1>6, <1>7, <1>10, <2>1, BlockThen DEF TInv
  <2>2. CASE t # run
    BY <1>2, <1>10, <2>2, BlockKeep DEF ThenReturn, sched, Stopping
  <2> QED
    BY <2>1, <2>2
<1>14. CreateInv'
  <2>1. ASSUME NEW d \in Task, pc'[d] = "create"
        PROVE  pc[d] = "create" /\ arg'[d] = arg[d] /\ status'[arg[d]] = status[arg[d]]
    <3>1. pc[d] = "create" /\ arg'[d] = arg[d]
      BY <1>2, <2>1 DEF ThenSchedule, ThenReturn, TInv, PlaceInv
    <3>2. arg[d] # t /\ arg[d] \in Task
      BY <1>1, <3>1, KnownNotNewborn DEF TInv, PlaceInv
    <3> QED
      BY <1>4, <3>1, <3>2
  <2> QED
    BY <1>11, <2>1, CreateKeep DEF TInv
<1>15. RecycleInv'
  BY <1>2, <1>5, RecycleKeep DEF Flags, TInv
<1> QED
  BY <1>6, <1>7, <1>8, <1>9, <1>12, <1>13, <1>14, <1>15

LEMMA ListDelete ==
  ASSUME StepFrom, NEW t \in Task, Delete(t),
         \A d \in Task : pc[d] = "create" => arg[d] # t
  PROVE  ListInv'
<1> USE DEF StepFrom, ListInv
<1> DEFINE timed == Is(t, "DELAY") \/ Is(t, "TIMEOUT")
<1>1. /\ status' = [status EXCEPT ![t] = {"UNUSED"}]
      /\ ready' = IF Is(t, "READY") THEN Dequeue(ready, t, pri[t]) ELSE ready
      /\ waiting' = IF Pends(t)
                    THEN [w \in WaitList |-> Unlink(waiting[w], t)] ELSE waiting
      /\ due' = IF timed THEN CancelTimer(due, t) ELSE due
      /\ new' = Top(ready')
      /\ pc' = [pc EXCEPT ![t] = "user"]
      /\ arg' = [arg EXCEPT ![t] = NoArg]
      /\ UNCHANGED <<pri, tick>>
      /\ IF Is(t, "RUNNING") THEN LeaveProcessor(t)
                             ELSE UNCHANGED <<recycle, run, pendsv, taskLock>>
  BY DEF Delete, isr
<1>2. status'[t] = {"UNUSED"} /\ \A u \in Task \ {t} : status'[u] = status[u]
  BY <1>1 DEF TInv, TcbInv
<1>3. FlagOK(status[t])
  BY DEF FlagInv
<1>4. FlagInv'
  <2>1. FlagOK({"UNUSED"})
    BY DEF FlagOK
  <2> QED
    BY <1>1, <2>1, FlagOne DEF TInv
<1>5. ReadyInv'
  <2>1. CASE Is(t, "READY")
    BY <1>1, <1>2, <2>1, ReadyLess DEF TInv, SameFlag
  <2>2. CASE ~Is(t, "READY")
    BY <1>1, <1>2, <2>2, ReadyKeep DEF SameFlag, Is
  <2> QED
    BY <2>1, <2>2
<1>6. WaitInv'
  <2>1. \A u \in Task \ {t} : arg'[u] = arg[u]
    BY <1>1 DEF TInv, PlaceInv
  <2>2. CASE Pends(t)
    BY <1>1, <1>2, <2>1, <2>2, WaitLess DEF TInv, SameFlag
  <2>3. CASE ~Pends(t)
    <3>1. ~Is(t, "PEND")
      BY <1>3, <2>3 DEF FlagOK, Pends, Blocked, Is
    <3> QED
      BY <1>1, <1>2, <2>1, <2>3, <3>1, WaitKeep DEF SameFlag, Is
  <2> QED
    BY <2>2, <2>3
<1>7. DueInv'
  <2>1. CASE timed
    <3>1. due' = CancelTimer(due, t) /\ due \in [0 .. MaxDelay -> Seq(Task)]
      BY <1>1, <2>1 DEF TInv, TcbInv
    <3>2. /\ Distinct(due') /\ DOMAIN due' = 0 .. MaxDelay /\ DOMAIN due = 0 .. MaxDelay
          /\ \A e \in 0 .. MaxDelay, y \in Task : Linked(due'[e], y) <=> Linked(due[e], y) /\ y # t
      BY <3>1, DistinctCancel DEF DueInv
    <3>3. \A u \in Task : Armed(due', u) <=> Armed(due, u) /\ u # t
      BY <3>2 DEF Armed
    <3>4. tick = "off" => due'[0] = << >>
      <4>1. SUFFICES ASSUME tick = "off" PROVE due'[0] = << >>
        OBVIOUS
      <4>2. due[0] = << >> /\ 0 \in 0 .. MaxDelay
        BY <4>1, NumberAssumption DEF DueInv
      <4>3. ~Linked(due[0], t) /\ due[0] \in Seq(Task)
        BY <3>1, <4>2 DEF Linked, ToSet
      <4>4. Unlink(due[0], t) = due[0]
        BY <4>3, UnlinkNone
      <4> QED
        BY <3>1, <3>2, <4>2, <4>4 DEF CancelTimer
    <3> QED
      BY <1>1, <1>2, <3>2, <3>3, <3>4 DEF DueInv, Is
  <2>2. CASE ~timed
    <3>1. ~Armed(due, t) /\ due' = due
      BY <1>1, <2>2 DEF DueInv
    <3> QED
      BY <1>1, <1>2, <3>1 DEF DueInv, Is
  <2> QED
    BY <2>1, <2>2
<1>8. /\ new' = Top(ready') /\ "READY" \in status'[new'] /\ "UNUSED" \notin status'[new']
      /\ \A u \in Task : Halted(u)' => new' # u
  BY <1>1, <1>4, <1>5, TopReady DEF TInv
<1>9. RunInv'
  <2>1. Is(t, "RUNNING") <=> t = run
    BY DEF RunInv
  <2>2. run' = IF t = run THEN Dummy ELSE run
    BY <1>1, <2>1 DEF LeaveProcessor
  <2>3. \A u \in Task : Is(u, "RUNNING")' <=> u = run'
    BY <1>2, <2>1, <2>2, TaskAssumption DEF RunInv, Is
  <2> QED
    BY <1>8, <2>3 DEF RunInv, Live, Is
<1>10. BlockInv'
  <2> SUFFICES ASSUME NEW u \in Task, Halted(u)'
               PROVE  Stopping(u)' \/ Away(u)'
    BY DEF BlockInv
  <2>1. u # t /\ Halted(u)
    BY <1>2 DEF Halted, Is
  <2>2. CASE Is(t, "RUNNING")
    <3>1. run' = Dummy
      BY <1>1, <2>2 DEF LeaveProcessor
    <3> QED
      BY <1>8, <3>1, TaskAssumption DEF Away
  <2>3. CASE ~Is(t, "RUNNING")
    <3>1. UNCHANGED <<run, pendsv, taskLock>> /\ pc'[u] = pc[u]
      BY <1>1, <2>1, <2>3 DEF TInv, PlaceInv
    <3>2. Stopping(u) \/ Away(u)
      BY <2>1 DEF BlockInv
    <3> QED
      BY <1>8, <3>1, <3>2 DEF Stopping, Away
  <2> QED
    BY <2>2, <2>3
<1>11. CreateInv'
  <2>1. ASSUME NEW d \in Task, pc'[d] = "create"
        PROVE  pc[d] = "create" /\ arg'[d] = arg[d] /\ status'[arg[d]] = status[arg[d]]
    <3>1. pc[d] = "create" /\ arg'[d] = arg[d]
      BY <1>1, <2>1 DEF TInv, PlaceInv
    <3>2. arg[d] # t /\ arg[d] \in Task
      BY <3>1 DEF TInv, PlaceInv
    <3> QED
      BY <1>2, <3>1, <3>2
  <2> QED
    BY <1>8, <2>1, CreateKeep DEF TInv
<1>12. RecycleInv'
  <2>1. recycle' \subseteq recycle \cup {t} /\ recycle \subseteq Task
    BY <1>1 DEF LeaveProcessor, TInv, TcbInv
  <2> QED
    BY <1>2, <2>1 DEF RecycleInv, Live, Is
<1> QED
  BY <1>4, <1>5, <1>6, <1>7, <1>9, <1>10, <1>11, <1>12

LEMMA ListDelay ==
  ASSUME StepFrom, NEW c \in Task \cup {Isr}, NEW n \in 1 .. MaxDelay, TaskDelay(c, n)
  PROVE  ListInv'
<1> USE DEF StepFrom, ListInv
<1> DEFINE s == (status[c] \ {"READY"}) \cup {"DELAY"}
<1>1. /\ c \in Task /\ Running(c) /\ pc[c] = "user" /\ ~Halted(c)
      /\ taskLock = 0 /\ FlagOK(status[c]) /\ Is(c, "RUNNING")
  BY TaskCalls DEF TaskDelay, Ops, FlagInv
<1>2. /\ status' = [status EXCEPT ![c] = s]
      /\ ready' = Dequeue(ready, c, pri[c]) /\ due' = AddTimer(due, c, n)
      /\ ThenSchedule(c)
      /\ UNCHANGED <<pri, waiting, recycle, tick, arg>>
  BY DEF TaskDelay, isr, ThenSchedule
<1>3. /\ FlagOK(s) /\ "READY" \notin s /\ "DELAY" \in s
      /\ \A flag \in Flags \ {"DELAY", "READY"} : flag \in s <=> flag \in status[c]
  BY <1>1 DEF FlagOK, Halted, Is, Blocked
<1> HIDE DEF s
<1>4. status'[c] = s /\ \A u \in Task \ {c} : status'[u] = status[u]
  BY <1>1, <1>2 DEF TInv, TcbInv
<1>5. \A u \in Task : \A flag \in Flags \ {"DELAY", "READY"} : SameFlag(flag, u)
  BY <1>3, <1>4 DEF SameFlag
<1>6. FlagInv'
  BY <1>1, <1>2, <1>3, FlagOne DEF TInv
<1>7. ReadyInv'
  BY <1>1, <1>2, <1>3, <1>4, ReadyLess DEF TInv, SameFlag
<1>8. WaitInv'
  BY <1>2, <1>5, WaitKeep DEF Flags
<1>9. DueInv'
  <2>1. /\ due \in [0 .. MaxDelay -> Seq(Task)] /\ n \in 0 .. MaxDelay /\ n # 0
        /\ due' = Enqueue(due, c, n) /\ ~Armed(due, c)
    BY <1>1, <1>2 DEF TInv, TcbInv, AddTimer, Enqueue, DueInv, Halted
  <2>2. /\ Distinct(due') /\ DOMAIN due' = 0 .. MaxDelay /\ DOMAIN due = 0 .. MaxDelay
        /\ \A e \in 0 .. MaxDelay, y \in Task :
             Linked(due'[e], y) <=> Linked(due[e], y) \/ (e = n /\ y = c)
    <3>1. Distinct(due) /\ DOMAIN due = 0 .. MaxDelay
      BY <2>1 DEF DueInv
    <3>2. /\ Distinct(Enqueue(due, c, n)) /\ DOMAIN Enqueue(due, c, n) = 0 .. MaxDelay
          /\ \A e \in 0 .. MaxDelay, y \in Task :
               Linked(Enqueue(due, c, n)[e], y)
                 <=> Linked(due[e], y) \/ (e = n /\ y = c)
      BY <1>1, <2>1, <3>1, DistinctEnqueue, Zenon
    <3> QED
      BY <2>1, <3>1, <3>2
  <2>3. \A u \in Task : Armed(due', u) <=> Armed(due, u) \/ u = c
    BY <2>1, <2>2 DEF Armed
  <2>4. due'[0] = due[0]
    BY <2>1, NumberAssumption DEF Enqueue
  <2>5. \A u \in Task : Armed(due', u) =>
           Is(u, "DELAY")' \/ (Is(u, "PEND")' /\ Is(u, "TIMEOUT")')
    <3>1. \A u \in Task \ {c} : Armed(due, u) =>
             Is(u, "DELAY")' \/ (Is(u, "PEND")' /\ Is(u, "TIMEOUT")')
      BY <1>4 DEF DueInv, Is
    <3> QED
      BY <1>3, <1>4, <2>3, <3>1 DEF Is
  <2>6. \A u \in Task : Is(u, "DELAY")' => Armed(due', u)
    BY <1>4, <2>3 DEF DueInv, Is
  <2> QED
    BY <1>2, <2>2, <2>4, <2>5, <2>6 DEF DueInv
<1>10. /\ UNCHANGED run /\ "UNUSED" \notin status'[new']
       /\ new' = new \/ "READY" \in status'[new']
  BY <1>2, <1>5, <1>6, <1>7, ThenScheduleNew DEF TInv, Flags
<1>11. RunInv'
  BY <1>5, <1>10, RunKeep DEF Flags
<1>12. BlockInv'
  <2>1. \A u \in Task : Halted(u)' => Halted(u) \/ u = c
    BY <1>4 DEF Halted, Is
  <2> QED
    BY <1>1, <1>2, <1>6, <1>7, <2>1, BlockThen DEF TInv
<1>13. CreateInv'
  <2>1. ASSUME NEW d \in Task, pc'[d] = "create"
        PROVE  pc[d] = "create" /\ arg'[d] = arg[d] /\ status'[arg[d]] = status[arg[d]]
    <3>1. pc[d] = "create" /\ arg'[d] = arg[d]
      BY <1>2, <2>1 DEF ThenSchedule, TInv, PlaceInv
    <3>2. arg[d] # c /\ arg[d] \in Task
      BY <1>1, <3>1 DEF CreateInv, Is, TInv, PlaceInv
    <3> QED
      BY <1>4, <3>1, <3>2
  <2> QED
    BY <1>10, <2>1, CreateKeep DEF TInv
<1>14. RecycleInv'
  BY <1>2, <1>5, RecycleKeep DEF Flags, TInv
<1> QED
  BY <1>6, <1>7, <1>8, <1>9, <1>11, <1>12, <1>13, <1>14

(* A step that changes no status word: the ready queue may be reordered,   *)
(* the calendar may move on and LOS_Schedule may choose again.             *)
LEMMA ListReorder ==
  ASSUME StepFrom, UNCHANGED <<status, waiting, recycle, run, arg>>,
         ReadyInv', DueInv', BlockInv',
         \A u \in Task : pc'[u] = "create" => pc[u] = "create",
         new' = new \/ new' = Top(ready')
  PROVE  ListInv'
<1> USE DEF StepFrom, ListInv
<1>1. FlagInv' /\ RecycleInv'
  BY DEF FlagInv, RecycleInv, Live, Is
<1>2. \A u \in Task : \A flag \in Flags : SameFlag(flag, u)
  BY DEF SameFlag
<1>3. WaitInv'
  BY <1>2, WaitKeep DEF Flags
<1>4. /\ "UNUSED" \notin status'[new']
      /\ new' = new \/ "READY" \in status'[new']
  <2>1. CASE new' = new
    BY <2>1 DEF RunInv, Live, Is
  <2>2. CASE new' = Top(ready')
    BY <1>1, <2>2, TopReady DEF TInv
  <2> QED
    BY <2>1, <2>2
<1>5. RunInv'
  BY <1>2, <1>4, RunKeep DEF Flags
<1>6. CreateInv'
  BY <1>4, CreateKeep DEF TInv
<1> QED
  BY <1>1, <1>3, <1>5, <1>6

LEMMA ListPriSet ==
  ASSUME StepFrom, NEW c \in Task \cup {Isr}, NEW t \in Task, NEW p \in UserPri,
         TaskPriSet(c, t, p)
  PROVE  ListInv'
<1> USE DEF StepFrom, ListInv
<1>1. /\ UNCHANGED <<status, waiting, due, recycle, tick, arg, run>>
      /\ pri' = [pri EXCEPT ![t] = p] /\ p \in Prio
      /\ IF Is(t, "READY")
         THEN ready' = Enqueue(Dequeue(ready, t, pri[t]), t, p) /\ ThenSchedule(c)
         ELSE ready' = ready /\ ThenReturn
  BY NumberAssumption DEF TaskPriSet, PriModify, isr, ThenSchedule, ThenReturn, sched
<1>2. pri'[t] = p /\ \A u \in Task \ {t} : pri'[u] = pri[u]
  BY <1>1 DEF TInv, TcbInv
<1>3. DueInv' /\ FlagInv' /\ \A u \in Task : Halted(u)' => Halted(u)
  BY <1>1 DEF DueInv, FlagInv, Halted, Is
<1>4. CASE Is(t, "READY")
  <2>1. ReadyInv'
    BY <1>1, <1>2, <1>4, ReadyMove DEF TInv, SameFlag
  <2>2. BlockInv'
    BY <1>1, <1>3, <1>4, <2>1, BlockThen DEF TInv
  <2>3. /\ \A u \in Task : pc'[u] = "create" => pc[u] = "create"
        /\ new' = new \/ new' = Top(ready')
    BY <1>1, <1>4 DEF ThenSchedule, Schedule, TInv, PlaceInv
  <2> QED
    BY <1>1, <1>3, <2>1, <2>2, <2>3, ListReorder
<1>5. CASE ~Is(t, "READY")
  <2>1. ReadyInv'
    <3>1. ReadyTasks' = ReadyTasks /\ \A u \in ReadyTasks : pri'[u] = pri[u]
      BY <1>1, <1>2, <1>5 DEF ReadyTasks, Is
    <3>2. Filed(ready, pri', ReadyTasks)
      BY <3>1, FiledSame DEF ReadyInv
    <3> QED
      BY <1>1, <1>5, <3>1, <3>2 DEF ReadyInv
  <2>2. BlockInv' /\ UNCHANGED <<pc, new>>
    BY <1>1, <1>3, <1>5, BlockKeep DEF ThenReturn, sched, Stopping
  <2> QED
    BY <1>1, <1>3, <2>1, <2>2, ListReorder
<1> QED
  BY <1>4, <1>5

(* LOS_TaskYield and osTimesliceCheck: the ready queue stays exact.        *)
LEMMA RotateReady ==
  ASSUME TInv, ReadyInv, MayYield, Rotate, UNCHANGED <<status, pri>>
  PROVE  ReadyInv'
<1>1. run \in Task /\ Is(run, "READY") /\ pri[run] \in Prio
  BY DEF MayYield, TInv, TcbInv
<1> QED
  BY <1>1, ReadyMove DEF Rotate, TInv, SameFlag

LEMMA ListYield ==
  ASSUME StepFrom, NEW c \in Task \cup {Isr}, TaskYield(c)
  PROVE  ListInv'
<1> USE DEF StepFrom, ListInv
<1>1. /\ UNCHANGED <<status, pri, waiting, due, recycle, tick, arg, run>>
      /\ MayYield /\ Rotate /\ ThenSchedule(c)
  BY DEF TaskYield, isr, ThenSchedule
<1>2. DueInv' /\ FlagInv' /\ \A u \in Task : Halted(u)' => Halted(u)
  BY <1>1 DEF DueInv, FlagInv, Halted, Is
<1>3. ReadyInv'
  BY <1>1, RotateReady
<1>4. BlockInv'
  BY <1>1, <1>2, <1>3, BlockThen DEF TInv
<1>5. /\ \A u \in Task : pc'[u] = "create" => pc[u] = "create"
      /\ new' = new \/ new' = Top(ready')
  BY <1>1 DEF ThenSchedule, Schedule, TInv, PlaceInv
<1> QED
  BY <1>1, <1>2, <1>3, <1>4, <1>5, ListReorder

LEMMA ListSchedule ==
  ASSUME StepFrom, NEW c \in Task, LosSchedule(c)
  PROVE  ListInv'
<1> USE DEF StepFrom, ListInv
<1>1. /\ UNCHANGED <<status, pri, ready, waiting, due, recycle, tick, arg, run, taskLock>>
      /\ Schedule
      /\ pc' = [pc EXCEPT ![c] = IF arg[c] \in WaitList THEN "ret" ELSE "user"]
  BY DEF LosSchedule, tcb, isr
<1>2. /\ DueInv' /\ FlagInv' /\ ReadyInv'
      /\ \A u \in Task : Halted(u)' => Halted(u)
  BY <1>1 DEF DueInv, FlagInv, ReadyInv, ReadyTasks, Halted, Is
<1>3. BlockInv'
  BY <1>1, <1>2, BlockSchedule DEF TInv
<1>4. \A u \in Task : pc'[u] = "create" => pc[u] = "create"
  BY <1>1 DEF TInv, PlaceInv
<1> QED
  BY <1>1, <1>2, <1>3, <1>4, ListReorder DEF Schedule

LEMMA ListTickStart ==
  ASSUME StepFrom, TickStart
  PROVE  ListInv'
<1> USE DEF StepFrom, ListInv
<1>1. /\ UNCHANGED <<status, pri, waiting, recycle, run, taskLock, pc, arg>>
      /\ tick = "off" /\ tick' = "scan" /\ due' = NextTick(due)
      /\ \/ MayYield /\ Rotate /\ Schedule
         \/ UNCHANGED <<ready, new, pendsv>>
  BY DEF TickStart
<1>2. FlagInv' /\ \A u \in Task : Halted(u)' => Halted(u)
  BY <1>1 DEF FlagInv, Halted, Is
<1>3. ReadyInv'
  BY <1>1, RotateReady, ReadyKeep DEF SameFlag
<1>4. DueInv'
  <2>1. due \in [0 .. MaxDelay -> Seq(Task)] /\ due[0] = << >> /\ Distinct(due)
    BY <1>1 DEF TInv, TcbInv, DueInv
  <2>2. Distinct(due') /\ \A u : Armed(due', u) <=> Armed(due, u)
    BY <1>1, <2>1, NumberAssumption, DistinctShift
  <2> QED
    BY <1>1, <2>2 DEF DueInv, Is
<1>5. BlockInv' /\ (new' = new \/ new' = Top(ready'))
  <2>1. CASE Schedule
    BY <1>1, <1>2, <1>3, <2>1, BlockSchedule DEF TInv, Schedule
  <2>2. CASE UNCHANGED <<new, pendsv>>
    BY <1>1, <1>2, <2>2, BlockKeep DEF Stopping
  <2> QED
    BY <1>1, <2>1, <2>2
<1> QED
  BY <1>1, <1>3, <1>4, <1>5, ListReorder

LEMMA ListEndScan ==
  ASSUME StepFrom, EndScan
  PROVE  ListInv'
<1> USE DEF StepFrom, ListInv
<1>1. /\ UNCHANGED <<status, pri, ready, waiting, due, recycle, run, taskLock, pc, arg>>
      /\ due[0] = << >>
      /\ Schedule \/ UNCHANGED <<new, pendsv>>
  BY DEF EndScan, tcb
<1>2. /\ DueInv' /\ FlagInv' /\ ReadyInv'
      /\ \A u \in Task : Halted(u)' => Halted(u)
  BY <1>1 DEF DueInv, FlagInv, ReadyInv, ReadyTasks, Halted, Is
<1>3. BlockInv' /\ (new' = new \/ new' = Top(ready'))
  <2>1. CASE Schedule
    BY <1>1, <1>2, <2>1, BlockSchedule DEF TInv, Schedule
  <2>2. CASE UNCHANGED <<new, pendsv>>
    BY <1>1, <1>2, <2>2, BlockKeep DEF Stopping
  <2> QED
    BY <1>1, <2>1, <2>2
<1> QED
  BY <1>1, <1>2, <1>3, ListReorder

LEMMA ListPendSV ==
  ASSUME StepFrom, PendSV
  PROVE  ListInv'
<1> USE DEF StepFrom, ListInv
<1>1. /\ pendsv /\ run' = new /\ pendsv' = FALSE
      /\ status' = [t \in Task |->
                      IF t = new THEN status[t] \cup {"RUNNING"}
                                 ELSE status[t] \ {"RUNNING"}]
      /\ UNCHANGED <<pri, ready, waiting, due, recycle, new, taskLock, tick, pc, arg>>
  BY DEF PendSV, isr
<1>2. \A u \in Task : \A flag \in Flags \ {"RUNNING"} : SameFlag(flag, u)
  BY <1>1 DEF SameFlag
<1>3. FlagInv'
  <2> SUFFICES ASSUME NEW u \in Task PROVE FlagOK(status'[u])
    BY DEF FlagInv
  <2>1. FlagOK(status[u]) /\ (u = new => "UNUSED" \notin status[u])
    BY DEF FlagInv, RunInv, Live, Is
  <2>2. CASE u = new
    <3>1. status'[u] = status[u] \cup {"RUNNING"}
      BY <1>1, <2>2
    <3> QED
      BY <2>1, <2>2, <3>1 DEF FlagOK, Blocked
  <2>3. CASE u # new
    <3>1. status'[u] = status[u] \ {"RUNNING"}
      BY <1>1, <2>3
    <3> QED
      BY <2>1, <2>3, <3>1 DEF FlagOK, Blocked
  <2> QED
    BY <2>2, <2>3
<1>4. ReadyInv' /\ WaitInv' /\ DueInv'
  BY <1>1, <1>2, ReadyKeep, WaitKeep, DueKeep DEF Flags, Timing
<1>5. RunInv'
  BY <1>1 DEF RunInv, Live, Is, TInv, SchedInv
<1>6. BlockInv'
  <2> SUFFICES ASSUME NEW u \in Task, Halted(u)' PROVE Away(u)'
    BY DEF BlockInv
  <2>1. Halted(u)
    BY <1>2 DEF Halted, Is, SameFlag, Flags
  <2>2. Away(u)
    BY <1>1, <2>1 DEF BlockInv, Stopping
  <2> QED
    BY <1>1, <2>2 DEF Away
<1>7. CreateInv'
  <2>1. ASSUME NEW d \in Task, pc[d] = "create"
        PROVE  status'[arg[d]] = status[arg[d]]
    <3>1. status[arg[d]] = {"SUSPEND"} /\ new # arg[d] /\ arg[d] \in Task
      BY <2>1 DEF CreateInv, TInv, PlaceInv
    <3> QED
      BY <1>1, <3>1
  <2> QED
    BY <1>1, <2>1, CreateKeep DEF TInv
<1>8. RecycleInv'
  BY <1>1, <1>2, RecycleKeep DEF Flags, TInv
<1> QED
  BY <1>3, <1>4, <1>5, <1>6, <1>7, <1>8

LEMMA ListExpireOne ==
  ASSUME StepFrom, ExpireOne
  PROVE  ListInv'
<1> USE DEF StepFrom, ListInv
<1> DEFINE t    == Head(due[0])
           rest == Expired(t)
           s    == IF "SUSPEND" \in rest THEN rest ELSE rest \cup {"READY"}
<1>1. /\ 0 \in 0 .. MaxDelay /\ due \in [0 .. MaxDelay -> Seq(Task)]
      /\ due[0] # << >> /\ tick = "scan" /\ Distinct(due)
  BY NumberAssumption DEF ExpireOne, TInv, TcbInv, DueInv
<1>2. t \in Task /\ Linked(due[0], t)
  BY <1>1, TailLinks
<1>3. Armed(due, t)
  BY <1>1, <1>2 DEF Armed
<1>4. /\ due' = [due EXCEPT ![0] = Tail(due[0])]
      /\ waiting' = IF Is(t, "PEND")
                    THEN [w \in WaitList |-> Unlink(waiting[w], t)] ELSE waiting
      /\ status' = [status EXCEPT ![t] = s]
      /\ ready' = IF "SUSPEND" \in rest THEN ready ELSE Enqueue(ready, t, pri[t])
      /\ UNCHANGED <<pri, recycle, run, new, pendsv, taskLock, tick, pc, arg>>
  BY DEF ExpireOne, sched
<1>5. /\ Distinct(due')
      /\ \A e \in 0 .. MaxDelay, y \in Task : Linked(due'[e], y) <=> Linked(due[e], y) /\ y # t
  <2>1. /\ Distinct(DropHead(due, 0))
        /\ \A e \in 0 .. MaxDelay, y \in Task :
             Linked(DropHead(due, 0)[e], y) <=> Linked(due[e], y) /\ y # Head(due[0])
    BY <1>1, DistinctDropHead, Zenon
  <2>2. due' = DropHead(due, 0)
    BY <1>4 DEF DropHead
  <2> QED
    BY <2>1, <2>2
<1>6. \A u \in Task : Armed(due', u) <=> Armed(due, u) /\ u # t
  <2>1. DOMAIN due' = 0 .. MaxDelay /\ DOMAIN due = 0 .. MaxDelay
    BY <1>1, <1>4
  <2> QED
    BY <1>5, <2>1 DEF Armed
<1>7. /\ FlagOK(status[t]) /\ "READY" \notin status[t] /\ Halted(t)
      /\ rest = status[t] \ {"PEND", "DELAY"}
  <2>1. FlagOK(status[t])
    BY <1>2 DEF FlagInv
  <2>2. Is(t, "DELAY") \/ (Is(t, "PEND") /\ Is(t, "TIMEOUT"))
    BY <1>2, <1>3 DEF DueInv
  <2> QED
    BY <2>1, <2>2 DEF FlagOK, Blocked, Is, Halted, Expired
<1>8. /\ FlagOK(s) /\ "PEND" \notin s /\ "DELAY" \notin s
      /\ "READY" \in s <=> "SUSPEND" \notin rest
      /\ \A flag \in Flags \ {"PEND", "DELAY", "READY"} :
           flag \in s <=> flag \in status[t]
  BY <1>7 DEF FlagOK, Blocked, Halted, Is
<1> HIDE DEF s, t, rest
<1>9. status'[t] = s /\ \A u \in Task \ {t} : status'[u] = status[u]
  BY <1>2, <1>4 DEF TInv, TcbInv
<1>10. \A u \in Task : \A flag \in Flags \ {"PEND", "DELAY", "READY"} : SameFlag(flag, u)
  BY <1>8, <1>9 DEF SameFlag
<1>11. FlagInv'
  BY <1>2, <1>4, <1>8, FlagOne DEF TInv
<1>12. ReadyInv'
  <2>1. CASE "SUSPEND" \in rest
    BY <1>4, <1>7, <1>8, <1>9, <2>1, ReadyKeep DEF SameFlag
  <2>2. CASE "SUSPEND" \notin rest
    BY <1>2, <1>4, <1>7, <1>8, <1>9, <2>2, ReadyMore DEF TInv, SameFlag, Is
  <2> QED
    BY <2>1, <2>2
<1>13. WaitInv'
  <2>1. CASE Is(t, "PEND")
    BY <1>2, <1>4, <1>8, <1>9, <2>1, WaitLess DEF TInv, SameFlag
  <2>2. CASE ~Is(t, "PEND")
    BY <1>4, <1>8, <1>9, <2>2, WaitKeep DEF SameFlag, Is
  <2> QED
    BY <2>1, <2>2
<1>14. DueInv'
  <2>1. \A u \in Task : Armed(due', u) =>
           Is(u, "DELAY")' \/ (Is(u, "PEND")' /\ Is(u, "TIMEOUT")')
    BY <1>6, <1>9 DEF DueInv, Is
  <2>2. \A u \in Task : Is(u, "DELAY")' => Armed(due', u)
    BY <1>6, <1>8, <1>9 DEF DueInv, Is
  <2> QED
    BY <1>1, <1>4, <1>5, <2>1, <2>2 DEF DueInv
<1>15. "UNUSED" \notin status'[new']
  BY <1>4, <1>10 DEF RunInv, Live, Is, SameFlag, Flags, TInv, SchedInv
<1>16. RunInv'
  BY <1>4, <1>10, <1>15, RunKeep DEF Flags
<1>17. BlockInv'
  <2>1. \A u \in Task : Halted(u)' => Halted(u)
    BY <1>7, <1>9 DEF Halted, Is
  <2> QED
    BY <1>4, <2>1, BlockKeep DEF Stopping
<1>18. CreateInv'
  <2>1. ASSUME NEW d \in Task, pc[d] = "create"
        PROVE  status'[arg[d]] = status[arg[d]]
    <3>1. status[arg[d]] = {"SUSPEND"} /\ arg[d] \in Task
      BY <2>1 DEF CreateInv, TInv, PlaceInv
    <3>2. arg[d] # t
      BY <1>7, <3>1 DEF Halted, Is
    <3> QED
      BY <1>9, <3>1, <3>2
  <2> QED
    BY <1>4, <2>1, CreateKeep DEF TInv
<1>19. RecycleInv'
  BY <1>4, <1>10, RecycleKeep DEF Flags, TInv
<1> QED
  BY <1>11, <1>12, <1>13, <1>14, <1>16, <1>17, <1>18, <1>19

(* The calls that touch no list: no memory, exit, lock and unlock.         *)
LEMMA ListNoList ==
  ASSUME StepFrom, NEW c \in Task \cup {Isr},
         TaskCreateNoMemory(c) \/ TaskExit(c) \/ TaskLock(c) \/ TaskUnlock(c)
  PROVE  ListInv'
<1> USE DEF StepFrom, ListInv
<1>1. c \in Task /\ Running(c) /\ ~Halted(c)
  BY TaskCalls DEF TaskCreateNoMemory, TaskExit, TaskLock, TaskUnlock, Ops
<1>2. UNCHANGED <<run, new, pendsv, tick, arg, status, pri, ready, waiting, due>>
  BY DEF TaskCreateNoMemory, TaskExit, TaskLock, TaskUnlock, ThenReturn, sched, isr, tcb
<1>3. \A u \in Task : pc'[u] = "create" => pc[u] = "create"
  BY <1>1 DEF TaskCreateNoMemory, TaskExit, TaskLock, TaskUnlock, ThenReturn,
     TInv, PlaceInv
<1>4. \A u \in Task : Halted(u) => ~Stopping(u)
  BY <1>1 DEF Stopping, Running
<1>5. CASE TaskCreateNoMemory(c)
  <2>1. recycle' = {}
    BY <1>5 DEF TaskCreateNoMemory
  <2>2. FlagInv' /\ RecycleInv' /\ ReadyInv' /\ WaitInv' /\ DueInv' /\ RunInv'
    BY <1>2, <2>1 DEF FlagInv, RecycleInv, ReadyInv, ReadyTasks, WaitInv, PendTasks,
       DueInv, RunInv, Live, Is
  <2>3. BlockInv'
    BY <1>2, <1>4, BlockKeep DEF Halted, Is
  <2>4. CreateInv'
    BY <1>2, <1>3, CreateKeep DEF TInv
  <2> QED
    BY <2>2, <2>3, <2>4
<1>6. CASE ~TaskCreateNoMemory(c)
  <2>1. UNCHANGED tcb
    BY <1>6 DEF TaskExit, TaskLock, TaskUnlock
  <2> QED
    BY <1>2, <1>3, <1>4, <2>1, ListSame
<1> QED
  BY <1>5, <1>6

LEMMA ListInvStep ==
  ASSUME TInv, ListInv, [Next]_vars
  PROVE  ListInv'
<1>1. StepFrom
  BY TInvStep DEF StepFrom
<1>2. CASE UNCHANGED vars
  <2>1. UNCHANGED tcb /\ UNCHANGED <<run, new, pendsv, taskLock, tick, pc, arg>>
    BY <1>2 DEF vars, sched, isr
  <2> QED
    BY <1>1, <2>1, ListSame DEF Stopping
<1>3. ASSUME NEW c \in Task \cup {Isr}, CallStep(c) PROVE ListInv'
  <2>1. ASSUME NEW t \in Task, TaskDelete(c, t) PROVE ListInv'
    BY <1>1, <2>1, KnownNotNewborn, ListDelete DEF TaskDelete
  <2> QED
    BY <1>1, <1>3, <2>1, ListCreateOnly, ListNoList, ListResume, ListSuspend,
       ListDelay, ListPriSet, ListYield DEF CallStep
<1>4. ASSUME NEW c \in Task, TaskEntryEnd(c) PROVE ListInv'
  <2>1. Is(c, "RUNNING") /\ Delete(c)
    BY <1>4 DEF TaskEntryEnd, Running, ListInv, RunInv
  <2>2. \A d \in Task : pc[d] = "create" => arg[d] # c
    BY <2>1 DEF ListInv, CreateInv, Is
  <2> QED
    BY <1>1, <2>1, <2>2, ListDelete
<1>5. CASE TaskStep
  BY <1>1, <1>4, <1>5, ListSchedule, ListCreateReady DEF TaskStep
<1>6. CASE TickStep \/ PendSV
  BY <1>1, <1>6, ListTickStart, ListExpireOne, ListEndScan, ListPendSV DEF TickStep
<1> QED
  BY <1>2, <1>3, <1>5, <1>6 DEF Next

LEMMA ListInvAlways == Spec => []ListInv
BY TInvAlways, ListInvInit, ListInvStep, PTL DEF Spec

(* A task is on the ready queue exactly while its status says READY, once, *)
(* on the list of its current priority: what every osPriqueueDequeue and   *)
(* every walk of a priority list in los_task.c takes for granted.          *)
THEOREM ReadyQueueExactHolds == Spec => []ReadyQueueExact
BY TInvAlways, ListInvAlways, ListInvReadyQueue, PTL

(* No live task is lost: it is ready or blocked by something that ends.    *)
THEOREM NoTaskLostHolds == Spec => []NoTaskLost
BY TInvAlways, ListInvAlways, ListInvLost, PTL

(* The timer list holds every delayed task, and no task that does not wait *)
(* for a time.                                                             *)
THEOREM TimerExactHolds == Spec => []TimerExact
BY ListInvAlways, ListInvTimer, PTL

LEMMA ListInvRunning ==
  ASSUME ListInv PROVE RunningIsRun
BY DEF ListInv, RunInv, RunningIsRun

(* OS_TASK_STATUS_RUNNING marks the task that has the processor and no     *)
(* other, through deletions of the running task too.                       *)
THEOREM RunningIsRunHolds == Spec => []RunningIsRun
BY ListInvAlways, ListInvRunning, PTL
-----------------------------------------------------------------------------
(***************************************************************************)
(* What osTaskWait and osTaskWake do to the scheduler's invariant, for the *)
(* modules of the IPC objects: lemmas on the pieces of their calls.  q is  *)
(* the ready queue as the earlier calls of the critical section leave it,  *)
(* pri' the priorities.                                                    *)
(***************************************************************************)
WaitTime(n) == n = Forever \/ n \in 1 .. MaxDelay

(* The steps that use LOS_TaskWait and what follows it in every module.    *)
Waits(q, c, w, n) ==
  /\ TaskWait(q, c, w, n)
  /\ pc' = [pc EXCEPT ![c] = "sched"]
  /\ arg' = [arg EXCEPT ![c] = w]
  /\ UNCHANGED <<recycle, sched, isr>>

LEMMA TcbWait ==
  ASSUME TcbInv, NEW q \in [Prio -> Seq(Task)], Linked(q[Lowest], Idle),
         NEW c \in Task, c # Idle, NEW w \in WaitList, NEW n, WaitTime(n),
         TaskWait(q, c, w, n), UNCHANGED recycle,
         pri' \in [Task -> Prio], pri'[Idle] = Lowest
  PROVE  TcbInv'
<1> USE TaskAssumption, NumberAssumption
<1>1. pri[c] \in Prio
  BY DEF TcbInv
<1>2. /\ Dequeue(q, c, pri[c]) \in [Prio -> Seq(Task)]
      /\ Linked(Dequeue(q, c, pri[c])[Lowest], Idle)
  BY <1>1, ReadyKeepsIdle
<1>3. waiting' \in [WaitList -> Seq(Task)]
  BY AppendLinks DEF TaskWait, TcbInv
<1>4. due' \in [0 .. MaxDelay -> Seq(Task)]
  <2>1. CASE n = Forever
    BY <2>1 DEF TaskWait, TcbInv
  <2>2. CASE n # Forever
    <3>1. n \in 0 .. MaxDelay
      BY <2>2 DEF WaitTime
    <3>2. AddTimer(due, c, n) \in [0 .. MaxDelay -> Seq(Task)]
      BY <3>1, QueueType DEF TcbInv
    <3> QED
      BY <2>2, <3>2 DEF TaskWait
  <2> QED
    BY <2>1, <2>2
<1>5. status' \in [Task -> SUBSET Flags] /\ Live(Idle)'
  <2>1. \E flags \in {{"PEND"}, {"PEND", "TIMEOUT"}} :
           status' = [status EXCEPT ![c] = (status[c] \ {"READY"}) \cup flags]
    BY DEF TaskWait
  <2> QED
    BY <2>1 DEF TcbInv, Flags, Live, Is
<1> QED
  BY <1>2, <1>3, <1>4, <1>5, FaultType DEF TaskWait, TcbInv

LEMMA TcbWake ==
  ASSUME TcbInv, NEW q \in [Prio -> Seq(Task)], Linked(q[Lowest], Idle),
         NEW p \in [Task -> Prio], NEW t \in Task, NEW w \in WaitList,
         TaskWake(q, p, t, w), UNCHANGED recycle,
         pri' \in [Task -> Prio], pri'[Idle] = Lowest
  PROVE  TcbInv'
<1> USE TaskAssumption, NumberAssumption
<1>1. waiting' \in [WaitList -> Seq(Task)]
  BY UnlinkType DEF TaskWake, TcbInv
<1>2. due' \in [0 .. MaxDelay -> Seq(Task)]
  <2>1. due' = due \/ due' = CancelTimer(due, t)
    BY DEF TaskWake
  <2>2. CancelTimer(due, t) \in [0 .. MaxDelay -> Seq(Task)]
    BY UnlinkType DEF CancelTimer, TcbInv
  <2> QED
    BY <2>1, <2>2 DEF TcbInv
<1>3. ready' \in [Prio -> Seq(Task)] /\ Linked(ready'[Lowest], Idle)
  <2>1. ready' = q \/ ready' = Enqueue(q, t, p[t])
    BY DEF TaskWake
  <2>2. /\ Enqueue(q, t, p[t]) \in [Prio -> Seq(Task)]
        /\ Linked(Enqueue(q, t, p[t])[Lowest], Idle)
    BY ReadyKeepsIdle
  <2> QED
    BY <2>1, <2>2
<1>4. status' \in [Task -> SUBSET Flags] /\ Live(Idle)'
  <2>1. \E flags \in {{}, {"READY"}} :
           status' = [status EXCEPT ![t] = Woken(t) \cup flags]
    <3>1. Woken(t) \cup {} = Woken(t)
      OBVIOUS
    <3> QED
      BY <3>1 DEF TaskWake
  <2> QED
    BY <2>1 DEF TcbInv, Flags, Live, Is, Woken
<1>5. fault' \in BOOLEAN
  BY FaultType DEF TaskWake, TcbInv
<1> QED
  BY <1>1, <1>2, <1>3, <1>4, <1>5 DEF TcbInv

LEMMA TypeWait ==
  ASSUME TInv, NEW q \in [Prio -> Seq(Task)], Linked(q[Lowest], Idle),
         NEW c \in Task, c # Idle, NEW w \in WaitList, NEW n, WaitTime(n),
         Waits(q, c, w, n), pri' \in [Task -> Prio], pri'[Idle] = Lowest
  PROVE  TInv'
<1>1. TcbInv'
  BY TcbWait DEF TInv, Waits
<1>2. PlaceInv'
  BY TaskAssumption DEF TInv, Waits, PlaceInv, Places
<1>3. SchedInv' /\ IsrInv'
  BY IsrSame DEF TInv, Waits, SchedInv, sched
<1> QED
  BY <1>1, <1>2, <1>3 DEF TInv

LEMMA TypeWake ==
  ASSUME TInv, NEW q \in [Prio -> Seq(Task)], Linked(q[Lowest], Idle),
         NEW c \in Task \cup {Isr}, c # Idle,
         NEW p \in [Task -> Prio], NEW t \in Task, NEW w \in WaitList,
         TaskWake(q, p, t, w), ThenSchedule(c), UNCHANGED <<recycle, isr>>,
         pri' \in [Task -> Prio], pri'[Idle] = Lowest
  PROVE  TInv'
<1>1. TcbInv'
  BY TcbWake DEF TInv
<1>2. SchedInv' /\ PlaceInv' /\ IsrInv'
  BY <1>1, ThenScheduleInv, IsrSame DEF TInv
<1> QED
  BY <1>1, <1>2 DEF TInv

(* The return from the call that waited.                                   *)
Back(c) ==
  /\ status' \in {status, [status EXCEPT ![c] = @ \ {"TIMEOUT"}]}
  /\ pc' = [pc EXCEPT ![c] = "user"]
  /\ arg' = [arg EXCEPT ![c] = NoArg]
  /\ UNCHANGED <<pri, ready, waiting, due, recycle, sched, isr, fault>>

LEMMA TypeBack ==
  ASSUME TInv, NEW c \in Task, Back(c)
  PROVE  TInv'
<1>1. TcbInv'
  <2>1. status' \in [Task -> SUBSET Flags] /\ Live(Idle)'
    <3>1. CASE status' = status
      BY <3>1 DEF TInv, TcbInv, Live, Is
    <3>2. CASE status' = [status EXCEPT ![c] = status[c] \ {"TIMEOUT"}]
      BY <3>2 DEF TInv, TcbInv, Flags, Live, Is
    <3> QED
      BY <3>1, <3>2 DEF Back
  <2> QED
    BY <2>1 DEF Back, TInv, TcbInv
<1>2. SchedInv' /\ IsrInv'
  BY IsrSame DEF Back, TInv, SchedInv, sched
<1>3. PlaceInv'
  BY DEF Back, TInv, PlaceInv, Places
<1> QED
  BY <1>1, <1>2, <1>3 DEF TInv
-----------------------------------------------------------------------------
(* A timer is added to the calendar.                                       *)
LEMMA ArmMore ==
  ASSUME NEW D, NEW f \in [D -> Seq(Task)], NEW n \in D, NEW x \in Task,
         Distinct(f), ~Armed(f, x)
  PROVE  /\ Distinct(AddTimer(f, x, n))
         /\ \A u \in Task : Armed(AddTimer(f, x, n), u) <=> Armed(f, u) \/ u = x
<1>1. /\ Distinct(Enqueue(f, x, n)) /\ DOMAIN Enqueue(f, x, n) = D
      /\ \A e \in D, y \in Task :
           Linked(Enqueue(f, x, n)[e], y) <=> Linked(f[e], y) \/ (e = n /\ y = x)
  BY DistinctEnqueue
<1>2. Enqueue(f, x, n) = AddTimer(f, x, n) /\ DOMAIN f = D
  BY DEF Enqueue, AddTimer
<1> QED
  BY <1>1, <1>2 DEF Armed

(* osTaskWait: the running task goes from the ready queue to a wait list.  *)
LEMMA ListWait ==
  ASSUME StepFrom, NEW q \in [Prio -> Seq(Task)],
         Filed(q, pri', ReadyTasks), NEW c \in Task, pri'[c] = pri[c],
         Running(c), pc[c] = "user", taskLock = 0,
         NEW w \in WaitList, NEW n, WaitTime(n), Waits(q, c, w, n)
  PROVE  ListInv'
<1> USE DEF StepFrom, ListInv
<1> DEFINE s == (status[c] \ {"READY"}) \cup
                  (IF n = Forever THEN {"PEND"} ELSE {"PEND", "TIMEOUT"})
<1>1. /\ ~Halted(c) /\ Is(c, "RUNNING") /\ FlagOK(status[c]) /\ tick = "off"
      /\ ~pendsv /\ run = c
  BY RunnerNotHalted DEF RunInv, Running, FlagInv
<1>2. /\ status' = [status EXCEPT ![c] = s]
      /\ ready' = Dequeue(q, c, pri[c])
      /\ waiting' = [waiting EXCEPT ![w] = Append(waiting[w], c)]
      /\ due' = IF n = Forever THEN due ELSE AddTimer(due, c, n)
      /\ pc' = [pc EXCEPT ![c] = "sched"] /\ arg' = [arg EXCEPT ![c] = w]
      /\ UNCHANGED <<recycle, run, new, pendsv, taskLock, tick>>
  BY DEF Waits, TaskWait, sched, isr
<1>3. /\ FlagOK(s) /\ "READY" \notin s /\ "PEND" \in s
      /\ \A flag \in {"UNUSED", "RUNNING", "SUSPEND", "DELAY"} :
           flag \in s <=> flag \in status[c]
      /\ n # Forever => "TIMEOUT" \in s
  BY <1>1 DEF FlagOK, Is, Blocked, Halted
<1> HIDE DEF s
<1>4. status'[c] = s /\ \A u \in Task \ {c} : status'[u] = status[u]
  BY <1>2 DEF TInv, TcbInv
<1>5. FlagInv'
  BY <1>2, <1>3, FlagOne DEF TInv
<1>6. ReadyInv'
  <2>1. ReadyTasks' = ReadyTasks \ {c} /\ pri[c] \in Prio
    BY <1>3, <1>4 DEF ReadyTasks, Is, TInv, TcbInv
  <2>2. Filed(Dequeue(q, c, pri[c]), pri', ReadyTasks \ {c})
    BY <2>1, FiledDequeue
  <2> QED
    BY <1>2, <2>1, <2>2 DEF ReadyInv
<1>7. WaitInv'
  <2>1. PendTasks' = PendTasks \cup {c} /\ c \notin PendTasks
    BY <1>1, <1>3, <1>4 DEF PendTasks, Is, Halted
  <2>2. arg'[c] = w /\ \A u \in PendTasks : arg'[u] = arg[u]
    BY <1>2, <2>1 DEF PendTasks, TInv, PlaceInv
  <2>3. waiting \in [WaitList -> Seq(Task)] /\ waiting' = Enqueue(waiting, c, w)
    BY <1>2 DEF TInv, TcbInv, Enqueue
  <2>4. Filed(waiting', arg', PendTasks \cup {c})
    BY <2>1, <2>2, <2>3, FiledEnqueue DEF WaitInv
  <2> QED
    BY <2>1, <2>2, <2>4 DEF WaitInv
<1>8. DueInv'
  <2>1. CASE n = Forever
    BY <1>1, <1>2, <1>3, <1>4, <2>1 DEF DueInv, Is, Halted
  <2>2. CASE n # Forever
    <3>1. n \in 0 .. MaxDelay /\ n # 0 /\ 0 \in 0 .. MaxDelay
      BY <2>2, NumberAssumption DEF WaitTime
    <3>2. due \in [0 .. MaxDelay -> Seq(Task)] /\ Distinct(due) /\ ~Armed(due, c)
      BY <1>1 DEF TInv, TcbInv, DueInv, Halted
    <3>3. due' = AddTimer(due, c, n)
      BY <1>2, <2>2
    <3>4. Distinct(due') /\ \A u \in Task : Armed(due', u) <=> Armed(due, u) \/ u = c
      BY <3>1, <3>2, <3>3, ArmMore
    <3>6. due'[0] = due[0]
      BY <3>1, <3>2, <3>3 DEF AddTimer
    <3> QED
      BY <1>2, <1>3, <1>4, <2>2, <3>4, <3>6 DEF DueInv, Is
  <2> QED
    BY <2>1, <2>2
<1>9. \A u \in Task : SameFlag("RUNNING", u) /\ SameFlag("UNUSED", u)
  BY <1>3, <1>4 DEF SameFlag
<1>10. RunInv'
  <2>1. new \in Task /\ "UNUSED" \notin status'[new']
    BY <1>2, <1>9 DEF RunInv, Live, Is, SameFlag, TInv, SchedInv
  <2> QED
    BY <1>2, <1>9, <2>1, RunKeep
<1>11. BlockInv'
  <2> SUFFICES ASSUME NEW u \in Task, Halted(u)'
               PROVE  Stopping(u)' \/ Away(u)'
    BY DEF BlockInv
  <2>1. CASE u = c
    BY <1>1, <1>2, <2>1 DEF Stopping, TInv, PlaceInv
  <2>2. CASE u # c
    <3>1. Halted(u)
      BY <1>4, <2>2 DEF Halted, Is
    <3> QED
      BY <1>2, <2>2, <3>1 DEF BlockInv, Stopping, Away, TInv, PlaceInv
  <2> QED
    BY <2>1, <2>2
<1>12. CreateInv'
  <2>1. ASSUME NEW d \in Task, pc'[d] = "create"
        PROVE  pc[d] = "create" /\ arg'[d] = arg[d] /\ status'[arg[d]] = status[arg[d]]
    <3>1. d # c /\ pc[d] = "create" /\ arg'[d] = arg[d]
      BY <1>2, <2>1 DEF TInv, PlaceInv
    <3>2. arg[d] \in Task /\ status[arg[d]] = {"SUSPEND"}
      BY <3>1 DEF CreateInv, TInv, PlaceInv
    <3>3. "RUNNING" \in status[c] /\ "RUNNING" \notin status[arg[d]]
      BY <1>1, <3>2 DEF Is
    <3>4. arg[d] # c
      BY <3>3
    <3> QED
      BY <1>4, <3>1, <3>2, <3>4
  <2> QED
    BY <1>2, <2>1, CreateKeep DEF TInv
<1>13. RecycleInv'
  BY <1>2, <1>9, RecycleKeep DEF TInv
<1> QED
  BY <1>5, <1>6, <1>7, <1>8, <1>10, <1>11, <1>12, <1>13

(* The task first on a wait list is on no other, and waits.                *)
LEMMA WaiterPends ==
  ASSUME TInv, ListInv, NEW w \in WaitList, NEW t \in Task, Linked(waiting[w], t)
  PROVE  Is(t, "PEND") /\ arg[t] = w /\ FlagOK(status[t]) /\ ~Is(t, "READY")
         /\ ~Is(t, "DELAY") /\ ~Is(t, "UNUSED")
<1>1. DOMAIN waiting = WaitList
  BY DEF TInv, TcbInv
<1>2. t \in PendTasks /\ arg[t] = w
  BY <1>1 DEF ListInv, WaitInv, Filed
<1> QED
  BY <1>2 DEF PendTasks, ListInv, FlagInv, FlagOK, Is, Blocked

(* osTaskWake, but for what the caller does next.                          *)
LEMMA WakeLists ==
  ASSUME TInv, ListInv, TcbInv', NEW q \in [Prio -> Seq(Task)],
         Filed(q, pri', ReadyTasks), pri' \in [Task -> Prio],
         NEW w \in WaitList, NEW t \in Task, Linked(waiting[w], t),
         TaskWake(q, pri', t, w), UNCHANGED <<recycle, tick, run>>,
         \A u \in Task \ {t} : Is(u, "PEND") => arg'[u] = arg[u]
  PROVE  /\ FlagInv' /\ ReadyInv' /\ WaitInv' /\ DueInv' /\ RecycleInv'
         /\ \A u \in Task : SameFlag("RUNNING", u) /\ SameFlag("UNUSED", u)
         /\ \A u \in Task : Halted(u)' => Halted(u) /\ u # t
         /\ \A d \in Task : pc[d] = "create" => status'[arg[d]] = status[arg[d]]
<1> USE DEF ListInv
<1> DEFINE timed == Is(t, "TIMEOUT")
           rest  == Woken(t)
           s     == IF "SUSPEND" \in rest THEN rest ELSE rest \cup {"READY"}
<1>1. Is(t, "PEND") /\ arg[t] = w /\ FlagOK(status[t]) /\ ~Is(t, "READY")
      /\ ~Is(t, "DELAY") /\ ~Is(t, "UNUSED")
  BY WaiterPends
<1>2. /\ status' = [status EXCEPT ![t] = s]
      /\ ready' = IF "SUSPEND" \in rest THEN q ELSE Enqueue(q, t, pri'[t])
      /\ waiting' = [waiting EXCEPT ![w] = Unlink(waiting[w], t)]
      /\ due' = IF timed THEN CancelTimer(due, t) ELSE due
  BY DEF TaskWake
<1>3. /\ FlagOK(s) /\ "PEND" \notin s /\ "TIMEOUT" \notin s /\ "DELAY" \notin s
      /\ "READY" \in s <=> "SUSPEND" \notin rest
      /\ \A flag \in {"UNUSED", "RUNNING", "SUSPEND"} : flag \in s <=> flag \in status[t]
  BY <1>1 DEF FlagOK, Is, Blocked, Woken
<1> HIDE DEF s, rest
<1>4. status'[t] = s /\ \A u \in Task \ {t} : status'[u] = status[u]
  BY <1>2 DEF TInv, TcbInv
<1>5. FlagInv'
  BY <1>2, <1>3, FlagOne DEF TInv
<1>6. ReadyInv'
  <2>1. CASE "SUSPEND" \in rest
    <3>1. ReadyTasks' = ReadyTasks
      BY <1>1, <1>3, <1>4, <2>1 DEF ReadyTasks, Is
    <3> QED
      BY <1>2, <2>1, <3>1 DEF ReadyInv
  <2>2. CASE "SUSPEND" \notin rest
    <3>1. ReadyTasks' = ReadyTasks \cup {t} /\ t \notin ReadyTasks /\ pri'[t] \in Prio
      BY <1>1, <1>3, <1>4, <2>2 DEF ReadyTasks, Is
    <3>2. Filed(Enqueue(q, t, pri'[t]), pri', ReadyTasks \cup {t})
      BY <3>1, FiledEnqueue
    <3> QED
      BY <1>2, <2>2, <3>1, <3>2 DEF ReadyInv
  <2> QED
    BY <2>1, <2>2
<1>7. WaitInv'
  <2>1. PendTasks' = PendTasks \ {t} /\ \A u \in PendTasks \ {t} : arg'[u] = arg[u]
    BY <1>3, <1>4 DEF PendTasks, Is
  <2>2. waiting \in [WaitList -> Seq(Task)] /\ waiting' = Dequeue(waiting, t, w)
    BY <1>2 DEF TInv, TcbInv, Dequeue
  <2>3. Filed(waiting', arg', PendTasks \ {t})
    BY <1>1, <2>1, <2>2, FiledDequeue DEF WaitInv
  <2>4. \A u \in PendTasks \ {t} : arg'[u] \in WaitList
    BY <2>1 DEF WaitInv
  <2> QED
    BY <2>1, <2>3, <2>4 DEF WaitInv
<1>8. DueInv'
  <2>1. due \in [0 .. MaxDelay -> Seq(Task)] /\ Distinct(due) /\ 0 \in 0 .. MaxDelay
    BY NumberAssumption DEF TInv, TcbInv, DueInv
  <2>2. CASE timed
    <3>1. due' = CancelTimer(due, t)
      BY <1>2, <2>2
    <3>2. /\ Distinct(due') /\ DOMAIN due' = 0 .. MaxDelay /\ DOMAIN due = 0 .. MaxDelay
          /\ \A e \in 0 .. MaxDelay, y \in Task : Linked(due'[e], y) <=> Linked(due[e], y) /\ y # t
      BY <2>1, <3>1, DistinctCancel
    <3>3. \A u \in Task : Armed(due', u) <=> Armed(due, u) /\ u # t
      BY <3>2 DEF Armed
    <3>4. due[0] = << >> => due'[0] = << >>
      BY <2>1, <3>1, UnlinkEmpty DEF CancelTimer
    <3> QED
      BY <1>3, <1>4, <3>2, <3>3, <3>4 DEF DueInv, Is
  <2>3. CASE ~timed
    <3>1. ~Armed(due, t) /\ due' = due
      BY <1>1, <1>2, <2>3 DEF DueInv
    <3> QED
      BY <1>3, <1>4, <3>1 DEF DueInv, Is
  <2> QED
    BY <2>2, <2>3
<1>9. \A u \in Task : SameFlag("RUNNING", u) /\ SameFlag("UNUSED", u)
  BY <1>3, <1>4 DEF SameFlag
<1>10. RecycleInv'
  BY <1>9, RecycleKeep DEF TInv
<1>11. \A u \in Task : Halted(u)' => Halted(u) /\ u # t
  BY <1>3, <1>4 DEF Halted, Is
<1>12. ASSUME NEW d \in Task, pc[d] = "create"
       PROVE  status'[arg[d]] = status[arg[d]]
  <2>1. arg[d] \in Task /\ status[arg[d]] = {"SUSPEND"}
    BY <1>12 DEF CreateInv, TInv, PlaceInv
  <2>2. "PEND" \in status[t] /\ "PEND" \notin status[arg[d]]
    BY <1>1, <2>1 DEF Is
  <2>3. arg[d] # t
    BY <2>2
  <2> QED
    BY <1>4, <2>1, <2>3
<1> QED
  BY <1>5, <1>6, <1>7, <1>8, <1>9, <1>10, <1>11, <1>12

LEMMA ListWake ==
  ASSUME StepFrom, NEW q \in [Prio -> Seq(Task)],
         Filed(q, pri', ReadyTasks), pri' \in [Task -> Prio],
         NEW w \in WaitList, NEW t \in Task, Linked(waiting[w], t),
         TaskWake(q, pri', t, w), NEW c \in Task \cup {Isr}, ThenSchedule(c),
         UNCHANGED <<recycle, isr>>
  PROVE  ListInv'
<1> USE DEF StepFrom
<1>1. UNCHANGED <<tick, run, arg>>
  BY DEF ThenSchedule, isr
<1>2. /\ FlagInv' /\ ReadyInv' /\ WaitInv' /\ DueInv' /\ RecycleInv'
      /\ \A u \in Task : SameFlag("RUNNING", u) /\ SameFlag("UNUSED", u)
      /\ \A u \in Task : Halted(u)' => Halted(u) /\ u # t
      /\ \A d \in Task : pc[d] = "create" => status'[arg[d]] = status[arg[d]]
  BY <1>1, WakeLists DEF TInv
<1>3. /\ "UNUSED" \notin status'[new'] /\ (new' = new \/ "READY" \in status'[new'])
  BY <1>2, ThenScheduleNew DEF TInv, ListInv
<1>4. RunInv'
  BY <1>1, <1>2, <1>3, RunKeep DEF ListInv
<1>5. BlockInv'
  BY <1>2, BlockThen DEF TInv, ListInv
<1>6. CreateInv'
  <2>1. \A d \in Task : pc'[d] = "create" => pc[d] = "create" /\ arg'[d] = arg[d]
    BY DEF ThenSchedule, TInv, PlaceInv
  <2> QED
    BY <1>2, <1>3, <2>1, CreateKeep DEF TInv, ListInv
<1> QED
  BY <1>2, <1>4, <1>5, <1>6 DEF ListInv

LEMMA ListBack ==
  ASSUME StepFrom, NEW c \in Task, Running(c), pc[c] = "ret", Back(c)
  PROVE  ListInv'
<1> USE DEF StepFrom, ListInv
<1>1. ~Halted(c) /\ Is(c, "RUNNING") /\ FlagOK(status[c]) /\ run = c
  BY RunnerNotHalted DEF RunInv, Running, FlagInv
<1>2. /\ status' \in {status, [status EXCEPT ![c] = status[c] \ {"TIMEOUT"}]}
      /\ pc' = [pc EXCEPT ![c] = "user"] /\ arg' = [arg EXCEPT ![c] = NoArg]
      /\ UNCHANGED <<pri, ready, waiting, due, recycle, run, new, pendsv, taskLock, tick>>
  BY DEF Back, sched, isr
<1>3. /\ status'[c] \in {status[c], status[c] \ {"TIMEOUT"}}
      /\ \A u \in Task \ {c} : status'[u] = status[u]
  BY <1>2 DEF TInv, TcbInv
<1>4. \A u \in Task : \A flag \in Flags \ {"TIMEOUT"} : SameFlag(flag, u)
  BY <1>3 DEF SameFlag
<1>5. FlagInv'
  <2> SUFFICES ASSUME NEW u \in Task PROVE FlagOK(status'[u])
    BY DEF FlagInv
  <2>1. FlagOK(status[u])
    BY DEF FlagInv
  <2>2. CASE u # c
    BY <1>3, <2>1, <2>2
  <2>3. CASE u = c
    <3>1. "UNUSED" \notin status[c]
      BY <1>1 DEF FlagOK, Is
    <3> QED
      BY <1>3, <2>1, <2>3, <3>1 DEF FlagOK, Blocked
  <2> QED
    BY <2>2, <2>3
<1>6. ReadyInv'
  BY <1>2, <1>4, ReadyKeep DEF Flags
<1>7. WaitInv'
  <2>1. \A u \in Task : Is(u, "PEND") => arg'[u] = arg[u]
    BY <1>1, <1>2 DEF Halted, TInv, PlaceInv
  <2> QED
    BY <1>2, <1>4, <2>1, WaitKeep DEF Flags
<1>8. DueInv'
  <2>1. ~Armed(due, c)
    BY <1>1 DEF DueInv, Halted
  <2> QED
    BY <1>2, <1>3, <1>4, <2>1 DEF DueInv, SameFlag, Is, Flags
<1>9. RunInv'
  <2>1. "UNUSED" \notin status'[new']
    BY <1>2, <1>4 DEF RunInv, Live, Is, SameFlag, Flags, TInv, SchedInv
  <2> QED
    BY <1>2, <1>4, <2>1, RunKeep DEF Flags
<1>10. BlockInv'
  <2>1. \A u \in Task : Halted(u)' => Halted(u)
    BY <1>4 DEF Halted, Is, SameFlag, Flags
  <2>2. \A u \in Task : Halted(u) => u # c /\ pc'[u] = pc[u]
    BY <1>1, <1>2 DEF TInv, PlaceInv
  <2> QED
    BY <1>2, <2>1, <2>2, BlockKeep DEF Stopping
<1>11. CreateInv'
  <2>1. ASSUME NEW d \in Task, pc'[d] = "create"
        PROVE  pc[d] = "create" /\ arg'[d] = arg[d] /\ status'[arg[d]] = status[arg[d]]
    <3>1. d # c /\ pc[d] = "create" /\ arg'[d] = arg[d]
      BY <1>2, <2>1 DEF TInv, PlaceInv
    <3>2. arg[d] \in Task /\ status[arg[d]] = {"SUSPEND"}
      BY <3>1 DEF CreateInv, TInv, PlaceInv
    <3>3. arg[d] # c
      BY <1>1, <3>2 DEF Is
    <3> QED
      BY <1>3, <3>1, <3>2, <3>3
  <2> QED
    BY <1>2, <2>1, CreateKeep DEF TInv
<1>12. RecycleInv'
  BY <1>2, <1>4, RecycleKeep DEF Flags, TInv
<1> QED
  BY <1>5, <1>6, <1>7, <1>8, <1>9, <1>10, <1>11, <1>12
-----------------------------------------------------------------------------
(***************************************************************************)
(* Where a task is while it waits: in the call, from LOS_Schedule to the   *)
(* test of the flag TIMEOUT, and only there; and a wait with a timeout     *)
(* that has not ended has its timer.                                       *)
(***************************************************************************)
CallInv ==
  /\ \A t \in Task : arg[t] \in WaitList => pc[t] \in {"sched", "ret"}
  /\ \A t \in Task : pc[t] = "ret" => arg[t] \in WaitList
  /\ \A t \in Task : Is(t, "TIMEOUT") => arg[t] \in WaitList
  /\ \A t \in Task : Is(t, "PEND") /\ Is(t, "TIMEOUT") => Armed(due, t)

LEMMA CallInvInit ==
  ASSUME Init PROVE CallInv
<1>1. \A t \in Task : status[t] \in {{"READY", "RUNNING"}, {"READY"}, {"UNUSED"}}
  BY DEF Init
<1> QED
  BY <1>1, TaskAssumption DEF Init, CallInv, Is

(* A step that begins no wait and wakes nobody by force.                   *)
LEMMA CallKeep ==
  ASSUME CallInv,
         \A u \in Task : arg'[u] \in WaitList =>
           arg'[u] = arg[u] /\ (pc'[u] = pc[u] \/ pc'[u] \in {"sched", "ret"}),
         \A u \in Task : pc'[u] = "ret" =>
           arg'[u] \in WaitList \/ (pc[u] = "ret" /\ arg'[u] = arg[u]),
         \A u \in Task : Is(u, "TIMEOUT")' => Is(u, "TIMEOUT") /\ arg'[u] = arg[u],
         \A u \in Task : Is(u, "PEND")' /\ Is(u, "TIMEOUT")' =>
           Is(u, "PEND") /\ (Armed(due, u) => Armed(due', u))
  PROVE  CallInv'
<1>1. \A t \in Task : (arg[t] \in WaitList)' => (pc[t] \in {"sched", "ret"})'
  BY DEF CallInv
<1>2. \A t \in Task : (pc[t] = "ret")' => (arg[t] \in WaitList)'
  BY DEF CallInv
<1>3. \A t \in Task : Is(t, "TIMEOUT")' => (arg[t] \in WaitList)'
  BY DEF CallInv
<1>4. \A t \in Task : Is(t, "PEND")' /\ Is(t, "TIMEOUT")' => Armed(due, t)'
  BY DEF CallInv
<1> QED
  BY <1>1, <1>2, <1>3, <1>4 DEF CallInv

LEMMA CallOutside ==
  ASSUME CallInv, NEW c \in Task, pc[c] \notin {"sched", "ret"}
  PROVE  arg[c] \notin WaitList /\ ~Is(c, "TIMEOUT")
BY DEF CallInv

(* The calls that leave the calendar alone.                                *)
LEMMA CallNoTimer ==
  ASSUME TInv, CallInv, UNCHANGED due,
         \A u \in Task : \A flag \in {"PEND", "TIMEOUT"} :
           flag \in status'[u] => flag \in status[u],
         \A u \in Task : (pc'[u] = pc[u] \/ pc'[u] = "sched") /\ arg'[u] = arg[u]
  PROVE  CallInv'
BY CallKeep DEF Is

LEMMA CallThen ==
  ASSUME TInv, NEW c \in Task \cup {Isr}, ThenSchedule(c) \/ ThenReturn
  PROVE  \A u \in Task : (pc'[u] = pc[u] \/ pc'[u] = "sched") /\ arg'[u] = arg[u]
BY DEF ThenSchedule, ThenReturn, TInv, PlaceInv

LEMMA CallDelete ==
  ASSUME TInv, CallInv, NEW t \in Task, Delete(t)
  PROVE  CallInv'
<1>1. /\ status' = [status EXCEPT ![t] = {"UNUSED"}]
      /\ due' = due \/ due' = CancelTimer(due, t)
      /\ pc' = [pc EXCEPT ![t] = "user"]
      /\ arg' = [arg EXCEPT ![t] = NoArg]
  BY DEF Delete
<1>2. /\ status'[t] = {"UNUSED"} /\ pc'[t] = "user" /\ arg'[t] = NoArg
      /\ \A u \in Task \ {t} :
           status'[u] = status[u] /\ pc'[u] = pc[u] /\ arg'[u] = arg[u]
  BY <1>1 DEF TInv, TcbInv, PlaceInv
<1>3. \A u \in Task \ {t} : Armed(due, u) => Armed(due', u)
  <2>1. due \in [0 .. MaxDelay -> Seq(Task)]
    BY DEF TInv, TcbInv
  <2>2. \A u \in Task \ {t} : \A n \in 0 .. MaxDelay :
           Linked(due[n], u) => Linked(Unlink(due[n], t), u)
    BY <2>1, UnlinkKeeps
  <2>3. CASE due' = CancelTimer(due, t)
    BY <2>1, <2>2, <2>3 DEF Armed, CancelTimer
  <2> QED
    BY <1>1, <2>3
<1> QED
  BY <1>2, <1>3, CallKeep, TaskAssumption DEF Is

LEMMA CallCall ==
  ASSUME TInv, ListInv, CallInv, NEW c \in Task \cup {Isr}, CallStep(c)
  PROVE  CallInv'
<1>1. ASSUME NEW t \in Task, NEW p \in UserPri, NEW place \in {"user", "create"},
             TaskCreateOnly(c, t, p, place)
      PROVE  CallInv'
  <2>1. c \in Task /\ pc[c] = "user" /\ ~Halted(c)
    BY <1>1, TaskCalls DEF TaskCreateOnly, Ops
  <2>2. arg[c] \notin WaitList /\ ~Is(c, "TIMEOUT")
    BY <2>1, CallOutside
  <2>3. /\ status' = [status EXCEPT ![t] = {"SUSPEND"}] /\ due' = due
        /\ pc' = [pc EXCEPT ![t] = "user", ![c] = place]
        /\ arg' = [arg EXCEPT ![t] = NoArg, ![c] = IF place = "create" THEN t ELSE NoArg]
    BY <1>1 DEF TaskCreateOnly
  <2>4. /\ status'[t] = {"SUSPEND"} /\ arg'[c] \in Task \cup {NoArg}
        /\ arg'[t] \in Task \cup {NoArg} /\ pc'[t] # "ret" /\ pc'[c] # "ret"
        /\ \A u \in Task \ {t} : status'[u] = status[u]
        /\ \A u \in Task \ {t, c} : pc'[u] = pc[u] /\ arg'[u] = arg[u]
    BY <2>1, <2>3 DEF TInv, TcbInv, PlaceInv
  <2>5. \A u \in {t, c} : arg'[u] \notin WaitList /\ ~Is(u, "TIMEOUT")'
    <3>1. \A u \in {t, c} : arg'[u] \notin WaitList
      BY <2>4, TaskAssumption
    <3>2. ~Is(t, "TIMEOUT")'
      BY <2>4 DEF Is
    <3>3. c # t => ~Is(c, "TIMEOUT")'
      BY <2>1, <2>2, <2>4 DEF Is
    <3> QED
      BY <3>1, <3>2, <3>3
  <2> QED
    BY <2>3, <2>4, <2>5, CallKeep DEF Is
<1>2. CASE TaskCreateNoMemory(c) \/ TaskYield(c)
           \/ \E t \in Task, p \in UserPri : TaskPriSet(c, t, p)
  <2>1. UNCHANGED <<due, status>> /\ (ThenSchedule(c) \/ ThenReturn)
    BY <1>2 DEF TaskCreateNoMemory, TaskYield, TaskPriSet
  <2> QED
    BY <2>1, CallThen, CallNoTimer
<1>3. ASSUME NEW t \in Task, TaskResume(c, t) \/ TaskSuspend(c, t)
      PROVE  CallInv'
  <2>1. UNCHANGED due /\ (ThenSchedule(c) \/ ThenReturn)
    BY <1>3 DEF TaskResume, TaskSuspend
  <2>2. \E s : /\ status' = [status EXCEPT ![t] = s]
               /\ \A flag \in {"PEND", "TIMEOUT"} : flag \in s => flag \in status[t]
    <3>1. CASE TaskResume(c, t)
      BY <3>1 DEF TaskResume
    <3>2. CASE TaskSuspend(c, t)
      <4> WITNESS (status[t] \ {"READY"}) \cup {"SUSPEND"}
      <4> QED
        BY <3>2 DEF TaskSuspend
    <3> QED
      BY <1>3, <3>1, <3>2
  <2>3. \A u \in Task : \A flag \in {"PEND", "TIMEOUT"} :
           flag \in status'[u] => flag \in status[u]
    BY <2>2 DEF TInv, TcbInv
  <2> QED
    BY <2>1, <2>3, CallThen, CallNoTimer
<1>4. ASSUME NEW t \in Task, TaskDelete(c, t) PROVE CallInv'
  BY <1>4, CallDelete DEF TaskDelete
<1>5. CASE TaskExit(c) \/ TaskLock(c) \/ TaskUnlock(c)
  <2>1. c \in Task /\ pc[c] = "user"
    BY <1>5, TaskCalls DEF TaskExit, TaskLock, TaskUnlock, Ops
  <2>2. arg[c] \notin WaitList
    BY <2>1, CallOutside
  <2>3. /\ UNCHANGED <<due, status, arg>>
        /\ \A u \in Task : u # c => pc'[u] = pc[u]
        /\ pc'[c] # "ret"
    BY <1>5, <2>1 DEF TaskExit, TaskLock, TaskUnlock, tcb, TInv, PlaceInv
  <2> QED
    BY <2>2, <2>3, CallKeep DEF Is
<1>6. ASSUME NEW n \in 1 .. MaxDelay, TaskDelay(c, n) PROVE CallInv'
  <2>1. c \in Task /\ pc[c] = "user"
    BY <1>6, TaskCalls DEF TaskDelay, Ops
  <2>2. /\ status' = [status EXCEPT ![c] = (status[c] \ {"READY"}) \cup {"DELAY"}]
        /\ due' = AddTimer(due, c, n) /\ ThenSchedule(c)
    BY <1>6 DEF TaskDelay
  <2>3. \A u \in Task : \A flag \in {"PEND", "TIMEOUT"} :
           flag \in status'[u] => flag \in status[u]
    BY <2>1, <2>2 DEF TInv, TcbInv
  <2>4. \A u : Armed(due, u) => Armed(due', u)
    <3>1. n \in 0 .. MaxDelay /\ due \in [0 .. MaxDelay -> Seq(Task)]
      BY DEF TInv, TcbInv
    <3>2. \A u : Linked(due[n], u) => Linked(Append(due[n], c), u)
      BY <2>1, <3>1, AppendLinks
    <3> QED
      BY <2>2, <3>1, <3>2 DEF Armed, AddTimer
  <2> QED
    BY <2>2, <2>3, <2>4, CallThen, CallKeep DEF Is
<1> QED
  BY <1>1, <1>2, <1>3, <1>4, <1>5, <1>6 DEF CallStep

LEMMA CallTick ==
  ASSUME TInv, ListInv, CallInv, TickStep \/ PendSV
  PROVE  CallInv'
<1>1. CASE TickStart
  <2>1. /\ UNCHANGED <<status, pc, arg>> /\ due' = NextTick(due)
        /\ tick = "off"
    BY <1>1 DEF TickStart
  <2>2. due \in [0 .. MaxDelay -> Seq(Task)] /\ due[0] = << >> /\ Distinct(due)
    BY <2>1 DEF TInv, TcbInv, ListInv, DueInv
  <2>3. \A u : Armed(due', u) <=> Armed(due, u)
    BY <2>1, <2>2, NumberAssumption, DistinctShift
  <2> QED
    BY <2>1, <2>3, CallKeep DEF Is
<1>2. CASE ExpireOne
  <2> DEFINE t == Head(due[0])
  <2>1. /\ 0 \in 0 .. MaxDelay /\ due \in [0 .. MaxDelay -> Seq(Task)]
        /\ due[0] # << >>
    BY <1>2, NumberAssumption DEF ExpireOne, TInv, TcbInv
  <2>2. t \in Task /\ \A u : Linked(due[0], u) /\ u # t => Linked(Tail(due[0]), u)
    BY <2>1, TailDrops, TailLinks DEF ListInv, DueInv, Distinct
  <2>3. /\ due' = [due EXCEPT ![0] = Tail(due[0])] /\ UNCHANGED <<pc, arg>>
        /\ \E flags \in {{}, {"READY"}} :
             status' = [status EXCEPT ![t] = Expired(t) \cup flags]
    <3>1. Expired(t) \cup {} = Expired(t)
      OBVIOUS
    <3> QED
      BY <1>2, <3>1 DEF ExpireOne
  <2> HIDE DEF t
  <2>4. \A u \in Task \ {t} : Armed(due, u) => Armed(due', u)
    BY <2>1, <2>2, <2>3 DEF Armed
  <2>5. /\ \A u \in Task \ {t} : status'[u] = status[u]
        /\ "TIMEOUT" \in status'[t] => "TIMEOUT" \in status[t]
        /\ "PEND" \notin status'[t]
    BY <2>2, <2>3 DEF TInv, TcbInv, Expired, Is
  <2>6. \A u \in Task : Is(u, "TIMEOUT")' => Is(u, "TIMEOUT") /\ arg'[u] = arg[u]
    BY <2>3, <2>5 DEF Is
  <2>7. \A u \in Task : Is(u, "PEND")' /\ Is(u, "TIMEOUT")' =>
           Is(u, "PEND") /\ (Armed(due, u) => Armed(due', u))
    BY <2>4, <2>5 DEF Is
  <2> QED
    BY <2>3, <2>6, <2>7, CallKeep
<1>3. CASE EndScan
  BY <1>3, CallNoTimer DEF EndScan, tcb
<1>4. CASE PendSV
  <2>1. \A u \in Task : \A flag \in {"PEND", "TIMEOUT"} :
           flag \in status'[u] => flag \in status[u]
    BY <1>4 DEF PendSV
  <2> QED
    BY <1>4, <2>1, CallNoTimer DEF PendSV
<1> QED
  BY <1>1, <1>2, <1>3, <1>4 DEF TickStep

LEMMA CallTask ==
  ASSUME TInv, ListInv, CallInv, TaskStep
  PROVE  CallInv'
<1>1. ASSUME NEW c \in Task, LosSchedule(c) PROVE CallInv'
  <2>1. /\ UNCHANGED <<status, due, arg>>
        /\ pc' = [pc EXCEPT ![c] = IF arg[c] \in WaitList THEN "ret" ELSE "user"]
    BY <1>1 DEF LosSchedule, tcb
  <2>2. /\ \A u \in Task \ {c} : pc'[u] = pc[u]
        /\ pc'[c] = IF arg[c] \in WaitList THEN "ret" ELSE "user"
    BY <2>1 DEF TInv, PlaceInv
  <2> QED
    BY <2>1, <2>2, CallKeep DEF Is
<1>2. ASSUME NEW c \in Task, TaskCreateReady(c) PROVE CallInv'
  <2> DEFINE t == arg[c]
  <2>1. pc[c] = "create" /\ t \in Task /\ ~Is(c, "TIMEOUT")
    BY <1>2, CallOutside DEF TaskCreateReady, TInv, PlaceInv
  <2>2. /\ status' = [status EXCEPT ![t] = (status[t] \ {"SUSPEND"}) \cup {"READY"}]
        /\ pc' = [pc EXCEPT ![c] = "user"] /\ arg' = [arg EXCEPT ![c] = NoArg]
        /\ due' = due
    BY <1>2 DEF TaskCreateReady
  <2> HIDE DEF t
  <2>3. /\ \A u \in Task : \A flag \in {"PEND", "TIMEOUT"} :
             flag \in status'[u] => flag \in status[u]
        /\ pc'[c] = "user" /\ arg'[c] = NoArg
        /\ \A u \in Task \ {c} : pc'[u] = pc[u] /\ arg'[u] = arg[u]
    BY <2>1, <2>2 DEF TInv, TcbInv, PlaceInv
  <2> QED
    BY <2>1, <2>2, <2>3, CallKeep, TaskAssumption DEF Is
<1>3. ASSUME NEW c \in Task, TaskEntryEnd(c) PROVE CallInv'
  BY <1>3, CallDelete DEF TaskEntryEnd
<1> QED
  BY <1>1, <1>2, <1>3 DEF TaskStep

LEMMA CallInvStep ==
  ASSUME TInv, ListInv, CallInv, Next
  PROVE  CallInv'
BY CallCall, CallTask, CallTick DEF Next

(* The steps of the IPC objects.                                           *)
LEMMA CallWait ==
  ASSUME TInv, CallInv, NEW q, NEW c \in Task, pc[c] = "user",
         NEW w \in WaitList, NEW n, WaitTime(n), Waits(q, c, w, n)
  PROVE  CallInv'
<1>1. /\ status' = [status EXCEPT ![c] = (status[c] \ {"READY"}) \cup
                      (IF n = Forever THEN {"PEND"} ELSE {"PEND", "TIMEOUT"})]
      /\ due' = IF n = Forever THEN due ELSE AddTimer(due, c, n)
      /\ pc' = [pc EXCEPT ![c] = "sched"] /\ arg' = [arg EXCEPT ![c] = w]
  BY DEF Waits, TaskWait
<1>2. /\ \A u \in Task \ {c} :
           status'[u] = status[u] /\ pc'[u] = pc[u] /\ arg'[u] = arg[u]
      /\ pc'[c] = "sched" /\ arg'[c] = w
      /\ n = Forever => ("TIMEOUT" \in status'[c] => "TIMEOUT" \in status[c])
  BY <1>1 DEF TInv, TcbInv, PlaceInv
<1>3. due \in [0 .. MaxDelay -> Seq(Task)] /\ "TIMEOUT" \notin status[c]
  BY CallOutside DEF TInv, TcbInv, Is
<1>4. CASE n = Forever
  <2>1. due' = due /\ "TIMEOUT" \notin status'[c]
    BY <1>1, <1>2, <1>3, <1>4
  <2>2. \A u \in Task : Is(u, "PEND")' /\ Is(u, "TIMEOUT")' => Armed(due', u)
    BY <1>2, <2>1 DEF CallInv, Is
  <2> QED
    BY <1>2, <2>2 DEF CallInv, Is
<1>5. CASE n # Forever
  <2>1. n \in 0 .. MaxDelay /\ due' = AddTimer(due, c, n)
    BY <1>1, <1>5 DEF WaitTime
  <2>2. \A u : Linked(Append(due[n], c), u) <=> Linked(due[n], u) \/ u = c
    BY <1>3, <2>1, AppendLinks
  <2>3. Armed(due', c) /\ \A u : Armed(due, u) => Armed(due', u)
    BY <1>3, <2>1, <2>2 DEF Armed, AddTimer
  <2> QED
    BY <1>2, <2>3 DEF CallInv, Is
<1> QED
  BY <1>4, <1>5

LEMMA CallWake ==
  ASSUME TInv, CallInv, NEW q, NEW p, NEW t \in Task, NEW w,
         TaskWake(q, p, t, w),
         \A u \in Task : arg'[u] \in WaitList =>
           arg'[u] = arg[u] /\ (pc'[u] = pc[u] \/ pc'[u] \in {"sched", "ret"}),
         \A u \in Task : pc'[u] = "ret" => pc[u] = "ret" /\ arg'[u] = arg[u],
         \A u \in Task \ {t} : Is(u, "TIMEOUT") => arg'[u] = arg[u]
  PROVE  CallInv'
<1>1. \E flags \in {{}, {"READY"}} :
         status' = [status EXCEPT ![t] = Woken(t) \cup flags]
  <2>1. Woken(t) \cup {} = Woken(t)
    OBVIOUS
  <2> QED
    BY <2>1 DEF TaskWake
<1>2. /\ \A u \in Task \ {t} : status'[u] = status[u]
      /\ "PEND" \notin status'[t] /\ "TIMEOUT" \notin status'[t]
  BY <1>1 DEF TInv, TcbInv, Woken
<1>3. \A u \in Task \ {t} : Armed(due, u) => Armed(due', u)
  <2>1. due \in [0 .. MaxDelay -> Seq(Task)]
    BY DEF TInv, TcbInv
  <2>2. \A u \in Task \ {t} : \A n \in 0 .. MaxDelay :
           Linked(due[n], u) => Linked(Unlink(due[n], t), u)
    BY <2>1, UnlinkKeeps
  <2>3. CASE due' = CancelTimer(due, t)
    BY <2>1, <2>2, <2>3 DEF Armed, CancelTimer
  <2> QED
    BY <2>3 DEF TaskWake
<1>4. \A u \in Task : Is(u, "TIMEOUT")' => Is(u, "TIMEOUT") /\ arg'[u] = arg[u]
  BY <1>2 DEF CallInv, Is
<1>5. \A u \in Task : Is(u, "PEND")' /\ Is(u, "TIMEOUT")' =>
         Is(u, "PEND") /\ (Armed(due, u) => Armed(due', u))
  BY <1>2, <1>3 DEF Is
<1> QED
  BY <1>4, <1>5, CallKeep

LEMMA CallBack ==
  ASSUME TInv, CallInv, NEW c \in Task, Back(c), "TIMEOUT" \notin status'[c]
  PROVE  CallInv'
<1>1. /\ \A u \in Task \ {c} :
           status'[u] = status[u] /\ pc'[u] = pc[u] /\ arg'[u] = arg[u]
      /\ pc'[c] = "user" /\ arg'[c] = NoArg /\ due' = due
  BY DEF Back, TInv, TcbInv, PlaceInv
<1> QED
  BY <1>1, CallKeep, TaskAssumption DEF Is

(***************************************************************************)
(* What the scheduler's own steps do to the tasks in a call that waits:    *)
(* nothing, or one of them is gone (deleted, or its TCB used anew), or the *)
(* timer of one ends its wait and leaves it the flag TIMEOUT.              *)
(***************************************************************************)
KeepsWait(t) ==
  arg[t] \in WaitList \/ arg'[t] \in WaitList =>
    arg'[t] = arg[t] /\ SameFlag("PEND", t) /\ SameFlag("TIMEOUT", t)

NoWaitEnds == UNCHANGED waiting /\ \A u \in Task : KeepsWait(u)

LeavesWait(t) ==
  /\ waiting' = [w \in WaitList |-> Unlink(waiting[w], t)]
  /\ \A u \in Task \ {t} : KeepsWait(u)

Gone(t) ==
  /\ LeavesWait(t) /\ arg'[t] \notin WaitList
  /\ Is(t, "UNUSED") \/ Is(t, "UNUSED")'

Expires(t) ==
  /\ LeavesWait(t)
  /\ Is(t, "PEND") /\ Is(t, "TIMEOUT") /\ arg'[t] = arg[t]
  /\ ~Is(t, "PEND")' /\ Is(t, "TIMEOUT")'

LEMMA UnlinkNobody ==
  ASSUME TInv, ListInv, NEW t \in Task, ~Is(t, "PEND")
  PROVE  waiting = [w \in WaitList |-> Unlink(waiting[w], t)]
<1>1. \A w \in WaitList : waiting[w] \in Seq(Task) /\ ~Linked(waiting[w], t)
  BY DEF TInv, TcbInv, ListInv, WaitInv, Filed, PendTasks
<1>2. \A w \in WaitList : Unlink(waiting[w], t) = waiting[w]
  BY <1>1, UnlinkNone
<1> QED
  BY <1>2 DEF TInv, TcbInv

LEMMA SameFlagsKeepWaits ==
  ASSUME UNCHANGED <<waiting, arg>>,
         \A u \in Task : \A flag \in {"PEND", "TIMEOUT"} : SameFlag(flag, u)
  PROVE  NoWaitEnds
BY DEF NoWaitEnds, KeepsWait

LEMMA DeleteGone ==
  ASSUME TInv, ListInv, NEW t \in Task, Delete(t)
  PROVE  Gone(t)
<1>1. waiting' = [w \in WaitList |-> Unlink(waiting[w], t)]
  <2>1. CASE Pends(t)
    BY <2>1 DEF Delete
  <2>2. CASE ~Pends(t)
    <3>1. ~Is(t, "PEND")
      BY <2>2 DEF Pends, ListInv, FlagInv, FlagOK, Is, Blocked
    <3> QED
      BY <2>2, <3>1, UnlinkNobody DEF Delete
  <2> QED
    BY <2>1, <2>2
<1>2. arg'[t] \notin WaitList
  BY TaskAssumption DEF Delete, TInv, PlaceInv
<1>3. \A u \in Task \ {t} : arg'[u] = arg[u] /\ status'[u] = status[u]
  BY DEF Delete, TInv, TcbInv, PlaceInv
<1>4. Is(t, "UNUSED")'
  BY DEF Delete, TInv, TcbInv, Is
<1> QED
  BY <1>1, <1>2, <1>3, <1>4 DEF Gone, LeavesWait, KeepsWait, SameFlag

LEMMA CallWaits ==
  ASSUME TInv, ListInv, CallInv, NEW c \in Task \cup {Isr}, CallStep(c)
  PROVE  NoWaitEnds \/ \E t \in Task : Gone(t)
<1>1. ASSUME NEW u \in Task, TaskDelete(c, u) PROVE Gone(u)
  BY <1>1, DeleteGone DEF TaskDelete
<1>2. ASSUME NEW u \in Task, NEW p \in UserPri, NEW place \in {"user", "create"},
             TaskCreateOnly(c, u, p, place)
      PROVE  Gone(u)
  <2>1. c \in Task /\ pc[c] = "user" /\ "RUNNING" \in status[c]
    BY <1>2, TaskCalls DEF TaskCreateOnly, Ops, Is
  <2>2. status[u] = {"UNUSED"}
    BY <1>2 DEF TaskCreateOnly, Live, Is, ListInv, FlagInv, FlagOK
  <2>3. u # c
    BY <2>1, <2>2
  <2>4. /\ status' = [status EXCEPT ![u] = {"SUSPEND"}] /\ waiting' = waiting
        /\ arg' = [arg EXCEPT ![u] = NoArg, ![c] = IF place = "create" THEN u ELSE NoArg]
    BY <1>2 DEF TaskCreateOnly
  <2>5. /\ arg'[u] \notin WaitList /\ arg'[c] \notin WaitList
        /\ \A v \in Task \ {u, c} : arg'[v] = arg[v]
        /\ \A v \in Task \ {u} : status'[v] = status[v]
    BY <2>1, <2>3, <2>4, TaskAssumption DEF TInv, TcbInv, PlaceInv
  <2>6. arg[c] \notin WaitList
    BY <2>1, CallOutside
  <2>7. waiting' = [w \in WaitList |-> Unlink(waiting[w], u)]
    BY <2>2, <2>4, UnlinkNobody DEF Is
  <2>8. Is(u, "UNUSED")
    BY <2>2 DEF Is
  <2> QED
    BY <2>5, <2>6, <2>7, <2>8 DEF Gone, LeavesWait, KeepsWait, SameFlag
<1>3. ASSUME NEW u \in Task, TaskResume(c, u) \/ TaskSuspend(c, u)
      PROVE  NoWaitEnds
  <2>1. UNCHANGED <<waiting, arg>>
    BY <1>3 DEF TaskResume, TaskSuspend, ThenSchedule, ThenReturn
  <2>2. \E s : /\ status' = [status EXCEPT ![u] = s]
               /\ \A flag \in {"PEND", "TIMEOUT"} : flag \in s <=> flag \in status[u]
    <3>1. CASE TaskResume(c, u)
      BY <3>1 DEF TaskResume
    <3>2. CASE TaskSuspend(c, u)
      <4> WITNESS (status[u] \ {"READY"}) \cup {"SUSPEND"}
      <4> QED
        BY <3>2 DEF TaskSuspend
    <3> QED
      BY <1>3, <3>1, <3>2
  <2>3. \A v \in Task : \A flag \in {"PEND", "TIMEOUT"} : SameFlag(flag, v)
    BY <2>2 DEF TInv, TcbInv, SameFlag
  <2> QED
    BY <2>1, <2>3, SameFlagsKeepWaits
<1>4. ASSUME NEW n \in 1 .. MaxDelay, TaskDelay(c, n) PROVE NoWaitEnds
  <2>1. c \in Task
    BY <1>4, TaskCalls DEF TaskDelay, Ops
  <2>2. /\ UNCHANGED <<waiting, arg>>
        /\ status' = [status EXCEPT ![c] = (status[c] \ {"READY"}) \cup {"DELAY"}]
    BY <1>4 DEF TaskDelay, ThenSchedule
  <2>3. \A v \in Task : \A flag \in {"PEND", "TIMEOUT"} : SameFlag(flag, v)
    BY <2>1, <2>2 DEF TInv, TcbInv, SameFlag
  <2> QED
    BY <2>2, <2>3, SameFlagsKeepWaits
<1>5. CASE \/ TaskCreateNoMemory(c) \/ TaskYield(c)
           \/ \E u \in Task, p \in UserPri : TaskPriSet(c, u, p)
           \/ TaskExit(c) \/ TaskLock(c) \/ TaskUnlock(c)
  <2>1. UNCHANGED <<status, waiting, arg>>
    BY <1>5 DEF TaskCreateNoMemory, TaskYield, TaskPriSet, TaskExit, TaskLock, TaskUnlock,
       ThenSchedule, ThenReturn, tcb
  <2> QED
    BY <2>1, SameFlagsKeepWaits DEF SameFlag
<1> QED
  BY <1>1, <1>2, <1>3, <1>4, <1>5 DEF CallStep

LEMMA ExpireWaits ==
  ASSUME TInv, ListInv, ExpireOne
  PROVE  NoWaitEnds \/ \E t \in Task : Expires(t)
<1>1. PICK t \in Task : t = Head(due[0]) /\ Armed(due, t)
  <2>1. /\ 0 \in 0 .. MaxDelay /\ due \in [0 .. MaxDelay -> Seq(Task)]
        /\ due[0] # << >>
    BY NumberAssumption DEF ExpireOne, TInv, TcbInv
  <2> QED
    BY <2>1, TailLinks DEF Armed
<1>2. /\ arg' = arg
      /\ waiting' = IF Is(t, "PEND") THEN [w \in WaitList |-> Unlink(waiting[w], t)]
                                     ELSE waiting
      /\ \E flags \in {{}, {"READY"}} :
           status' = [status EXCEPT ![t] = Expired(t) \cup flags]
  <2>1. Expired(t) \cup {} = Expired(t)
    OBVIOUS
  <2> QED
    BY <1>1, <2>1 DEF ExpireOne
<1>3. /\ \E flags \in {{}, {"READY"}} : status'[t] = Expired(t) \cup flags
      /\ \A u \in Task \ {t} : status'[u] = status[u]
  BY <1>2 DEF TInv, TcbInv
<1>4. CASE Is(t, "PEND")
  <2>1. Is(t, "DELAY") \/ Is(t, "TIMEOUT")
    BY <1>1 DEF ListInv, DueInv
  <2>2. Is(t, "TIMEOUT")
    BY <1>4, <2>1 DEF ListInv, FlagInv, FlagOK, Is
  <2>3. ~Is(t, "PEND")' /\ Is(t, "TIMEOUT")'
    BY <1>3, <1>4, <2>2 DEF Expired, Is
  <2>4. LeavesWait(t)
    BY <1>2, <1>3, <1>4 DEF LeavesWait, KeepsWait, SameFlag
  <2> QED
    BY <1>2, <1>4, <2>2, <2>3, <2>4 DEF Expires
<1>5. CASE ~Is(t, "PEND")
  <2>1. \A flag \in {"PEND", "TIMEOUT"} : SameFlag(flag, t)
    BY <1>3, <1>5 DEF Expired, Is, SameFlag
  <2>2. \A u \in Task : \A flag \in {"PEND", "TIMEOUT"} : SameFlag(flag, u)
    BY <1>3, <2>1 DEF SameFlag
  <2> QED
    BY <1>2, <1>5, <2>2, SameFlagsKeepWaits
<1> QED
  BY <1>4, <1>5

LEMMA SchedulerWaits ==
  ASSUME TInv, ListInv, CallInv, Next
  PROVE  NoWaitEnds \/ \E t \in Task : Gone(t) \/ Expires(t)
<1>1. CASE TickStart \/ EndScan
  BY <1>1, SameFlagsKeepWaits DEF TickStart, EndScan, tcb, SameFlag
<1>2. CASE PendSV
  <2>1. \A u \in Task : \A flag \in {"PEND", "TIMEOUT"} : SameFlag(flag, u)
    BY <1>2 DEF PendSV, SameFlag
  <2> QED
    BY <1>2, <2>1, SameFlagsKeepWaits DEF PendSV
<1>3. ASSUME NEW c \in Task, LosSchedule(c) PROVE NoWaitEnds
  BY <1>3, SameFlagsKeepWaits DEF LosSchedule, tcb, SameFlag
<1>4. ASSUME NEW c \in Task, TaskCreateReady(c) PROVE NoWaitEnds
  <2> DEFINE u == arg[c]
  <2>1. /\ pc[c] = "create" /\ waiting' = waiting
        /\ status' = [status EXCEPT ![u] = (status[u] \ {"SUSPEND"}) \cup {"READY"}]
        /\ arg' = [arg EXCEPT ![c] = NoArg]
    BY <1>4 DEF TaskCreateReady
  <2> HIDE DEF u
  <2>2. /\ arg[c] \notin WaitList /\ arg'[c] \notin WaitList
        /\ \A v \in Task \ {c} : arg'[v] = arg[v]
    BY <2>1, CallOutside, TaskAssumption DEF TInv, PlaceInv
  <2>3. \A v \in Task : \A flag \in {"PEND", "TIMEOUT"} : SameFlag(flag, v)
    BY <2>1 DEF SameFlag, TInv, TcbInv
  <2> QED
    BY <2>1, <2>2, <2>3 DEF NoWaitEnds, KeepsWait
<1>5. ASSUME NEW c \in Task, TaskEntryEnd(c) PROVE Gone(c)
  BY <1>5, DeleteGone DEF TaskEntryEnd
<1> QED
  BY <1>1, <1>2, <1>3, <1>4, <1>5, CallWaits, ExpireWaits DEF Next, TaskStep, TickStep

(* A task in a call that waits: no step of the scheduler ends the wait,    *)
(* but for the expiry of its timer, which leaves the flag TIMEOUT.         *)
SameWait(t) ==
  /\ arg'[t] = arg[t]
  /\ SameFlag("TIMEOUT", t)
  /\ SameFlag("PEND", t) \/ (Is(t, "PEND") /\ ~Is(t, "PEND")' /\ Is(t, "TIMEOUT"))

LEMMA WaitKept ==
  ASSUME TInv, ListInv, CallInv, Next, NEW t \in Task, arg'[t] \in WaitList
  PROVE  SameWait(t)
<1>1. KeepsWait(t) => SameWait(t)
  BY DEF KeepsWait, SameWait
<1>2. ASSUME NEW u \in Task, Expires(u) PROVE SameWait(t)
  BY <1>1, <1>2 DEF Expires, LeavesWait, SameWait, SameFlag, Is
<1> QED
  BY <1>1, <1>2, SchedulerWaits DEF NoWaitEnds, Gone, LeavesWait

(* The scheduler's own steps take at most one task off the wait lists.     *)
LEMMA SchedulerUnlinks ==
  ASSUME Next
  PROVE  \/ UNCHANGED waiting
         \/ \E t : waiting' = [w \in WaitList |-> Unlink(waiting[w], t)]
<1>1. ASSUME NEW t, Delete(t)
      PROVE  \/ UNCHANGED waiting
             \/ \E u : waiting' = [w \in WaitList |-> Unlink(waiting[w], u)]
  BY <1>1 DEF Delete
<1>2. ASSUME NEW c \in Task \cup {Isr}, CallStep(c)
      PROVE  UNCHANGED waiting \/ \E t : Delete(t)
  BY <1>2
     DEF CallStep, TaskCreateOnly, TaskCreateNoMemory, TaskResume, TaskSuspend,
         TaskDelete, TaskExit, TaskDelay, TaskPriSet, TaskYield, TaskLock, TaskUnlock, tcb
<1>3. CASE TaskStep
  BY <1>1, <1>3 DEF TaskStep, LosSchedule, TaskCreateReady, TaskEntryEnd, tcb
<1>4. CASE TickStep
  BY <1>4 DEF TickStep, TickStart, ExpireOne, EndScan, tcb
<1>5. CASE PendSV
  BY <1>5 DEF PendSV
<1> QED
  BY <1>1, <1>2, <1>3, <1>4, <1>5 DEF Next
-----------------------------------------------------------------------------
(***************************************************************************)
(* The choice of the task that runs: what LOS_Schedule, PendSV and the     *)
(* tick make of the ready queue, and that no call unlinks a task from a    *)
(* list it is not on.                                                      *)
(*                                                                         *)
(* The theorems suppose that no interrupt handler suspends a task.  The    *)
(* code does not forbid it, but LOS_TaskSuspend calls LOS_Schedule for the *)
(* running task only: a task that has been chosen to run next and is       *)
(* suspended before PendSV is switched to all the same.                    *)
(***************************************************************************)
(* A task that leaves the ready queue without being its top leaves the top *)
(* where it is.                                                            *)
LEMMA TopStays ==
  ASSUME NEW q \in [Prio -> Seq(Task)], NEW p \in Prio, q[p] # << >>,
         NEW t, NEW d \in Prio, t # Top(q)
  PROVE  Top(Dequeue(q, t, d)) = Top(q)
<1> DEFINE less == Dequeue(q, t, d)
           m    == TopPri(q)
<1>1. /\ m \in Prio /\ Linked(q[m], Top(q))
      /\ \A r \in Prio : q[r] # << >> => m <= r
  BY TopProperties
<1>2. q[m] # << >>
  BY <1>1, LinkedNotEmpty
<1>3. DOMAIN less = Prio /\ less = [q EXCEPT ![d] = Unlink(q[d], t)]
  BY DEF Dequeue
<1> HIDE DEF less, m
<1>4. less[m] # << >> /\ Head(less[m]) = Top(q)
  <2>1. Top(q) = Head(q[m]) /\ q[m] \in Seq(Task)
    BY <1>1 DEF Top, m
  <2>2. Unlink(q[m], t) # << >> /\ Head(Unlink(q[m], t)) = Top(q)
    BY <1>2, <2>1, UnlinkHead
  <2> QED
    BY <1>1, <1>2, <1>3, <2>1, <2>2
<1>5. \A r \in Prio : less[r] # << >> => m <= r
  BY <1>1, <1>3, UnlinkEmpty
<1>6. m \in Occupied(less) /\ \A r \in Occupied(less) : m <= r
  BY <1>1, <1>3, <1>4, <1>5 DEF Occupied
<1>7. \A r \in Occupied(less) : (\A s \in Occupied(less) : r <= s) => r = m
  <2>1. Occupied(less) \subseteq Nat
    BY <1>3, NumberAssumption DEF Occupied, Prio
  <2> SUFFICES ASSUME NEW r \in Occupied(less), \A s \in Occupied(less) : r <= s
               PROVE  r = m
    OBVIOUS
  <2>2. r <= m /\ m <= r /\ r \in Nat /\ m \in Nat
    BY <1>6, <2>1
  <2> QED
    BY <2>2
<1>8. TopPri(less) = m
  BY <1>6, <1>7 DEF TopPri
<1> QED
  BY <1>4, <1>8 DEF Top, less
-----------------------------------------------------------------------------
(***************************************************************************)
(* The inductive invariant.  While a switch is pending, the task chosen is *)
(* the top of the ready queue, except that the scan of a tick may have     *)
(* made others ready: it remembers to call LOS_Schedule.  While none is,   *)
(* the running task is the top, unless it is on its way to LOS_Schedule or *)
(* to its end, the scheduler is locked, or the scan has made others ready. *)
(***************************************************************************)
ScanInv == tick = "off" => ~resched

ChosenInv == pendsv => Is(new, "READY") /\ (resched \/ new = Top(ready))

RunnerInv ==
  run \in Task /\ ~pendsv =>
    /\ Is(run, "READY") \/ (pc[run] = "sched" /\ taskLock = 0)
    /\ \/ pc[run] \in {"sched", "exit"} \/ taskLock # 0 \/ resched
       \/ run = Top(ready)

ChoiceInv == ScanInv /\ ChosenInv /\ RunnerInv

ReadyKept == \A u \in Task : Is(u, "READY") => Is(u, "READY")'

LEMMA ChoiceRunnerReady ==
  ASSUME ChoiceInv PROVE RunnerIsReady
BY DEF ChoiceInv, RunnerInv, RunnerIsReady, Running

LEMMA ReadyTop ==
  ASSUME TInv, ReadyInv
  PROVE  /\ ready \in [Prio -> Seq(Task)] /\ TopPri(ready) \in Prio
         /\ ready[TopPri(ready)] # << >>
         /\ Top(ready) \in Task /\ Is(Top(ready), "READY")
         /\ pri[Top(ready)] = TopPri(ready)
<1>1. Lowest \in Prio /\ ready \in [Prio -> Seq(Task)]
  BY NumberAssumption DEF Prio, TInv, TcbInv
<1>2. /\ TopPri(ready) \in Prio /\ Top(ready) \in Task
      /\ Linked(ready[TopPri(ready)], Top(ready))
  BY <1>1, LinkedNotEmpty, TopProperties DEF TInv, TcbInv
<1>3. Top(ready) \in ReadyTasks /\ pri[Top(ready)] = TopPri(ready)
  BY <1>1, <1>2 DEF ReadyInv, Filed
<1> QED
  BY <1>1, <1>2, <1>3, LinkedNotEmpty DEF ReadyTasks

LEMMA ChoiceHighest ==
  ASSUME TInv, ListInv, ChoiceInv PROVE HighestRuns
<1> SUFFICES ASSUME run \in Task, Running(run), pc[run] = "user", taskLock = 0
             PROVE  pri[run] <= TopPri(ready)
  BY DEF HighestRuns
<1>1. run = Top(ready)
  BY DEF ChoiceInv, RunnerInv, ScanInv, Running
<1>2. pri[run] = TopPri(ready) /\ TopPri(ready) \in Nat
  BY <1>1, ReadyTop, NumberAssumption DEF ListInv, Prio
<1> QED
  BY <1>2

LEMMA ChoiceInit ==
  ASSUME Init PROVE ChoiceInv
<1>1. TInv /\ ListInv
  BY TInvInit, ListInvInit
<1>2. run = Top(ready) /\ pendsv = FALSE /\ tick = "off" /\ resched = FALSE
  BY DEF Init
<1> QED
  BY <1>1, <1>2, ReadyTop DEF ChoiceInv, ScanInv, ChosenInv, RunnerInv, ListInv

(***************************************************************************)
(* How the parts survive.                                                  *)
(***************************************************************************)
LEMMA ChoiceSchedule ==
  ASSUME ChoiceInv, TInv', ListInv', Schedule, UNCHANGED <<run, taskLock>>,
         ScanInv', ReadyKept
  PROVE  ChoiceInv'
<1>1. /\ new' = Top(ready') /\ Is(Top(ready), "READY")'
      /\ pendsv' = (pendsv \/ (run # new' /\ taskLock = 0))
  BY TopReady DEF Schedule, TInv, ListInv, Is
<1>2. ChosenInv'
  BY <1>1 DEF ChosenInv, Is
<1>3. ASSUME run \in Task, ~pendsv'
      PROVE  /\ Is(run, "READY")'
             /\ taskLock # 0 \/ run = Top(ready')
  <2>1. ~pendsv /\ (taskLock = 0 => run = new')
    BY <1>1, <1>3
  <2>2. Is(run, "READY") \/ taskLock = 0
    BY <1>3, <2>1 DEF ChoiceInv, RunnerInv
  <2>3. Is(run, "READY") => Is(run, "READY")'
    BY <1>3 DEF ReadyKept, Is
  <2> QED
    BY <1>1, <2>1, <2>2, <2>3 DEF Is
<1>4. RunnerInv'
  BY <1>3 DEF RunnerInv, Is
<1> QED
  BY <1>2, <1>4 DEF ChoiceInv

(* The end of a call after which LOS_Schedule is called.                   *)
LEMMA ChoiceThen ==
  ASSUME ChoiceInv, TInv, TInv', ListInv', NEW c \in Task \cup {Isr}, ThenSchedule(c),
         UNCHANGED <<tick, resched>>,
         c \in Task => Running(c) /\ (Is(c, "READY")' \/ taskLock = 0),
         c = Isr => ReadyKept
  PROVE  ChoiceInv'
<1>1. ScanInv'
  BY DEF ChoiceInv, ScanInv
<1>2. CASE c = Isr
  BY <1>1, <1>2, ChoiceSchedule DEF ThenSchedule
<1>3. CASE c # Isr
  <2>1. /\ c \in Task /\ run = c /\ ~pendsv
        /\ pc' = [pc EXCEPT ![c] = "sched"] /\ UNCHANGED <<run, new, pendsv, taskLock>>
    BY <1>3 DEF ThenSchedule, Running
  <2>2. pc'[run'] = "sched"
    BY <2>1 DEF TInv, PlaceInv
  <2>3. ChosenInv' /\ RunnerInv'
    BY <2>1, <2>2 DEF ChosenInv, RunnerInv, Is
  <2> QED
    BY <1>1, <2>3 DEF ChoiceInv
<1> QED
  BY <1>2, <1>3

(* A step that leaves the choice alone: the running task may go on in its  *)
(* call, and no task has joined the ready queue or left its top.           *)
LEMMA ChoiceKeep ==
  ASSUME ChoiceInv, UNCHANGED <<run, new, pendsv, tick, resched>>,
         Top(ready') = Top(ready),
         pendsv => (Is(new, "READY") => Is(new, "READY")'),
         run \in Task /\ ~pendsv =>
           /\ Is(run, "READY") => Is(run, "READY")'
           /\ pc[run] = "sched" => pc'[run] = "sched" /\ taskLock' = taskLock
           /\ \/ pc'[run] \in {"sched", "exit"} \/ taskLock' # 0
              \/ taskLock = 0 /\ pc[run] \notin {"sched", "exit"}
  PROVE  ChoiceInv'
<1>1. ScanInv'
  BY DEF ChoiceInv, ScanInv
<1>2. ChosenInv'
  BY DEF ChoiceInv, ChosenInv, Is
<1>3. RunnerInv'
  BY DEF ChoiceInv, RunnerInv, Is
<1> QED
  BY <1>1, <1>2, <1>3 DEF ChoiceInv
-----------------------------------------------------------------------------
(***************************************************************************)
(* Every step preserves it.                                                *)
(***************************************************************************)
ChoiceFrom == TInv /\ ListInv /\ ChoiceInv /\ TInv' /\ ListInv'

(* A task that may call the kernel is ready.                               *)
LEMMA CallerReady ==
  ASSUME ChoiceInv, NEW c \in Task \cup {Isr}, NEW op \in Ops, Calls(c, op)
  PROVE  /\ c \in Task => /\ Running(c) /\ run = c /\ ~pendsv /\ Is(c, "READY")
                          /\ pc[c] = "user"
                          /\ taskLock # 0 \/ c = Top(ready)
         /\ op \notin {"resume", "suspend", "delete"} => c \in Task
<1>1. op \notin {"resume", "suspend", "delete"} => c # Isr
  BY OpsAssumption DEF Calls
<1>2. ASSUME c \in Task
      PROVE  Running(c) /\ pc[c] = "user"
  BY <1>2, TaskAssumption DEF Calls, Enters
<1> QED
  BY <1>1, <1>2 DEF ChoiceInv, RunnerInv, ScanInv, Running

(* A task other than the top leaves the ready queue.                       *)
LEMMA TopStaysReady ==
  ASSUME TInv, ListInv, NEW t \in Task, t # Top(ready)
  PROVE  Top(Dequeue(ready, t, pri[t])) = Top(ready)
<1>1. pri[t] \in Prio
  BY DEF TInv, TcbInv
<1> QED
  BY <1>1, ReadyTop, TopStays DEF ListInv

LEMMA ChoiceCreateOnly ==
  ASSUME ChoiceFrom, NEW c \in Task \cup {Isr}, NEW t \in Task, NEW p \in UserPri,
         NEW place \in {"user", "create"}, TaskCreateOnly(c, t, p, place)
  PROVE  ChoiceInv'
<1> USE DEF ChoiceFrom
<1>1. /\ c \in Task /\ run = c /\ ~pendsv /\ Is(c, "READY") /\ pc[c] = "user"
  BY CallerReady DEF TaskCreateOnly, Ops
<1>2. /\ status' = [status EXCEPT ![t] = {"SUSPEND"}] /\ ~Live(t)
      /\ UNCHANGED <<ready, run, new, pendsv, taskLock, tick, resched>>
      /\ pc' = [pc EXCEPT ![t] = "user", ![c] = place]
  BY DEF TaskCreateOnly, sched, isr
<1>3. t # c
  BY <1>1, <1>2 DEF ListInv, FlagInv, FlagOK, Live, Is
<1>4. Is(c, "READY")' /\ pc'[c] = place
  BY <1>1, <1>2, <1>3 DEF TInv, TcbInv, PlaceInv, Is
<1> QED
  BY <1>1, <1>2, <1>4, ChoiceKeep DEF ChoiceInv, RunnerInv, Is

LEMMA ChoiceCreateReady ==
  ASSUME ChoiceFrom, NEW c \in Task, TaskCreateReady(c)
  PROVE  ChoiceInv'
<1> USE DEF ChoiceFrom
<1>1. /\ Schedule /\ UNCHANGED <<run, taskLock, tick, resched>>
      /\ status' = [status EXCEPT ![arg[c]] = (status[arg[c]] \ {"SUSPEND"}) \cup {"READY"}]
  BY DEF TaskCreateReady, isr
<1>2. ReadyKept
  BY <1>1 DEF ReadyKept, Is, TInv, TcbInv
<1>3. ScanInv'
  BY <1>1 DEF ChoiceInv, ScanInv
<1> QED
  BY <1>1, <1>2, <1>3, ChoiceSchedule

LEMMA ChoiceResume ==
  ASSUME ChoiceFrom, NEW c \in Task \cup {Isr}, NEW t \in Task, TaskResume(c, t)
  PROVE  ChoiceInv'
<1> USE DEF ChoiceFrom
<1>1. c \in Task => Running(c) /\ run = c /\ Is(c, "READY")
  BY CallerReady DEF TaskResume, Ops
<1>2. UNCHANGED <<tick, resched>> /\ Is(t, "SUSPEND")
  BY DEF TaskResume, isr
<1>3. ReadyKept
  BY DEF TaskResume, ReadyKept, Is, TInv, TcbInv
<1>4. CASE ThenSchedule(c)
  BY <1>1, <1>2, <1>3, <1>4, ChoiceThen DEF ReadyKept
<1>5. CASE ThenReturn /\ UNCHANGED ready
  <2>1. UNCHANGED <<run, new, pendsv, taskLock, pc>> /\ new \in Task
    BY <1>5 DEF ThenReturn, sched, TInv, SchedInv
  <2> QED
    BY <1>2, <1>3, <1>5, <2>1, ChoiceKeep DEF ReadyKept, Is
<1> QED
  BY <1>4, <1>5 DEF TaskResume

LEMMA ChoiceSuspend ==
  ASSUME ChoiceFrom, "suspend" \notin IsrOps,
         NEW c \in Task \cup {Isr}, NEW t \in Task, TaskSuspend(c, t)
  PROVE  ChoiceInv'
<1> USE DEF ChoiceFrom
<1>1. /\ c \in Task /\ Running(c) /\ run = c /\ ~pendsv /\ Is(c, "READY") /\ pc[c] = "user"
      /\ taskLock # 0 \/ c = Top(ready)
  BY CallerReady DEF TaskSuspend, Ops, Calls
<1>2. /\ UNCHANGED <<tick, resched>>
      /\ status' = [status EXCEPT ![t] = (status[t] \ {"READY"}) \cup {"SUSPEND"}]
      /\ ready' = IF Is(t, "READY") THEN Dequeue(ready, t, pri[t]) ELSE ready
      /\ IF t = run THEN ThenSchedule(c) ELSE ThenReturn
      /\ ~(Is(t, "RUNNING") /\ taskLock > 0)
  BY DEF TaskSuspend, isr
<1>3. CASE t = run
  <2>1. taskLock = 0
    BY <1>2, <1>3 DEF ListInv, RunInv, TInv, SchedInv
  <2> QED
    BY <1>1, <1>2, <1>3, <2>1, TaskAssumption, ChoiceThen
<1>4. CASE t # run
  <2>1. UNCHANGED <<run, new, pendsv, taskLock, pc>>
    BY <1>2, <1>4 DEF ThenReturn, sched
  <2>2. Is(run, "READY")'
    BY <1>1, <1>2, <1>4, <2>1 DEF Is, TInv, TcbInv
  <2>3. CASE taskLock # 0
    BY <1>1, <1>2, <2>1, <2>2, <2>3 DEF ChoiceInv, ScanInv, ChosenInv, RunnerInv, Is
  <2>4. CASE taskLock = 0
    <3>1. Top(ready') = Top(ready)
      BY <1>1, <1>2, <1>4, <2>4, TopStaysReady
    <3> QED
      BY <1>1, <1>2, <2>1, <2>2, <3>1 DEF ChoiceInv, ScanInv, ChosenInv, RunnerInv, Is
  <2> QED
    BY <2>3, <2>4
<1> QED
  BY <1>3, <1>4

LEMMA ChoiceDelete ==
  ASSUME ChoiceFrom, NEW t \in Task, Delete(t)
  PROVE  ChoiceInv'
<1> USE DEF ChoiceFrom
<1>1. /\ status' = [status EXCEPT ![t] = {"UNUSED"}]
      /\ ready' = IF Is(t, "READY") THEN Dequeue(ready, t, pri[t]) ELSE ready
      /\ new' = Top(ready')
      /\ pc' = [pc EXCEPT ![t] = "user"]
      /\ UNCHANGED <<tick, resched>>
      /\ IF Is(t, "RUNNING") THEN LeaveProcessor(t)
                             ELSE UNCHANGED <<recycle, run, pendsv, taskLock>>
  BY DEF Delete, isr
<1>2. ScanInv'
  BY <1>1 DEF ChoiceInv, ScanInv
<1>3. ChosenInv'
  <2>1. "READY" \in status'[Top(ready')]
    BY TopReady DEF TInv, ListInv
  <2> QED
    BY <1>1, <2>1 DEF ChosenInv, Is
<1>4. RunnerInv'
  <2>1. CASE Is(t, "RUNNING")
    BY <1>1, <2>1, TaskAssumption DEF LeaveProcessor, RunnerInv
  <2>2. CASE ~Is(t, "RUNNING")
    <3>1. t # run /\ UNCHANGED <<run, pendsv, taskLock>>
      BY <1>1, <2>2 DEF ListInv, RunInv
    <3>2. run \in Task => status'[run] = status[run] /\ pc'[run] = pc[run]
      BY <1>1, <3>1 DEF TInv, TcbInv, PlaceInv
    <3>3. run = Top(ready) => Top(ready') = Top(ready)
      BY <1>1, <3>1, TopStaysReady
    <3> QED
      BY <1>1, <3>1, <3>2, <3>3 DEF ChoiceInv, RunnerInv, Is
  <2> QED
    BY <2>1, <2>2
<1> QED
  BY <1>2, <1>3, <1>4 DEF ChoiceInv

LEMMA ChoiceDelay ==
  ASSUME ChoiceFrom, NEW c \in Task \cup {Isr}, NEW n \in 1 .. MaxDelay, TaskDelay(c, n)
  PROVE  ChoiceInv'
<1>1. c \in Task /\ Running(c)
  BY CallerReady DEF TaskDelay, Ops, ChoiceFrom
<1>2. ThenSchedule(c) /\ taskLock = 0 /\ UNCHANGED <<tick, resched>>
  BY DEF TaskDelay, isr
<1> QED
  BY <1>1, <1>2, TaskAssumption, ChoiceThen DEF ChoiceFrom

LEMMA ChoicePriSet ==
  ASSUME ChoiceFrom, NEW c \in Task \cup {Isr}, NEW t \in Task, NEW p \in UserPri,
         TaskPriSet(c, t, p)
  PROVE  ChoiceInv'
<1>1. c \in Task /\ Running(c) /\ Is(c, "READY")
  BY CallerReady DEF TaskPriSet, Ops, ChoiceFrom
<1>2. /\ UNCHANGED <<status, tick, resched>>
      /\ IF Is(t, "READY") THEN ThenSchedule(c) ELSE ready' = ready /\ ThenReturn
  BY DEF TaskPriSet, PriModify, isr
<1>3. CASE Is(t, "READY")
  BY <1>1, <1>2, <1>3, TaskAssumption, ChoiceThen DEF ChoiceFrom, Is
<1>4. CASE ~Is(t, "READY")
  BY <1>2, <1>4, ChoiceKeep DEF ChoiceFrom, ThenReturn, sched, Is
<1> QED
  BY <1>3, <1>4

LEMMA ChoiceYield ==
  ASSUME ChoiceFrom, NEW c \in Task \cup {Isr}, TaskYield(c)
  PROVE  ChoiceInv'
<1>1. c \in Task /\ Running(c) /\ Is(c, "READY")
  BY CallerReady DEF TaskYield, Ops, ChoiceFrom
<1>2. UNCHANGED <<status, tick, resched>> /\ ThenSchedule(c)
  BY DEF TaskYield, isr
<1> QED
  BY <1>1, <1>2, TaskAssumption, ChoiceThen DEF ChoiceFrom, Is

(* The calls that touch no list.                                           *)
LEMMA ChoiceNoList ==
  ASSUME ChoiceFrom, NEW c \in Task \cup {Isr},
         TaskCreateNoMemory(c) \/ TaskExit(c) \/ TaskLock(c) \/ TaskUnlock(c)
  PROVE  ChoiceInv'
<1> USE DEF ChoiceFrom
<1>1. c \in Task /\ run = c /\ ~pendsv /\ pc[c] = "user" /\ taskLock \in Nat
  BY CallerReady, NumberAssumption
     DEF TaskCreateNoMemory, TaskExit, TaskLock, TaskUnlock, Ops, TInv, SchedInv
<1>2. UNCHANGED <<run, new, pendsv, tick, resched, status, ready>>
  BY DEF TaskCreateNoMemory, TaskExit, TaskLock, TaskUnlock, ThenReturn, sched, isr, tcb
<1>3. \/ pc'[c] \in {"sched", "exit"} \/ taskLock' # 0
      \/ taskLock = 0 /\ pc'[c] = "user" /\ taskLock' = 0
  <2>1. CASE TaskCreateNoMemory(c)
    BY <1>1, <2>1 DEF TaskCreateNoMemory, ThenReturn, sched
  <2>2. CASE TaskExit(c)
    BY <1>1, <2>2 DEF TaskExit, TInv, PlaceInv
  <2>3. CASE TaskLock(c)
    BY <1>1, <2>3 DEF TaskLock
  <2>4. CASE TaskUnlock(c)
    <3>1. taskLock = 1 => pc'[c] = "sched"
      BY <1>1, <2>4 DEF TaskUnlock, TInv, PlaceInv
    <3>2. taskLock # 1 => taskLock' # 0
      BY <1>1, <2>4 DEF TaskUnlock
    <3> QED
      BY <3>1, <3>2
  <2> QED
    BY <2>1, <2>2, <2>3, <2>4
<1> QED
  BY <1>1, <1>2, <1>3, ChoiceKeep DEF Is

LEMMA ChoiceLosSchedule ==
  ASSUME ChoiceFrom, NEW c \in Task, LosSchedule(c)
  PROVE  ChoiceInv'
<1>1. Schedule /\ UNCHANGED <<status, run, taskLock, tick, resched>>
  BY DEF LosSchedule, tcb, isr
<1> QED
  BY <1>1, ChoiceSchedule DEF ChoiceFrom, ChoiceInv, ScanInv, ReadyKept, Is

LEMMA ChoicePendSV ==
  ASSUME ChoiceFrom, PendSV
  PROVE  ChoiceInv'
<1> USE DEF ChoiceFrom
<1>1. /\ pendsv /\ tick = "off" /\ run' = new /\ pendsv' = FALSE
      /\ status' = [t \in Task |->
                      IF t = new THEN status[t] \cup {"RUNNING"}
                                 ELSE status[t] \ {"RUNNING"}]
      /\ UNCHANGED <<ready, new, taskLock, tick, resched, pc>>
  BY DEF PendSV, isr
<1>2. Is(new, "READY") /\ new = Top(ready) /\ new \in Task
  BY <1>1 DEF ChoiceInv, ScanInv, ChosenInv, TInv, SchedInv
<1>3. "READY" \in status'[new]
  BY <1>1, <1>2 DEF Is
<1> QED
  BY <1>1, <1>2, <1>3 DEF ChoiceInv, ScanInv, ChosenInv, RunnerInv, Is

LEMMA ChoiceTickStart ==
  ASSUME ChoiceFrom, TickStart
  PROVE  ChoiceInv'
<1> USE DEF ChoiceFrom
<1>1. /\ UNCHANGED <<status, run, taskLock, pc>>
      /\ tick = "off" /\ tick' = "scan" /\ resched' = FALSE
      /\ Schedule \/ UNCHANGED <<ready, new, pendsv>>
  BY DEF TickStart
<1>2. ScanInv' /\ ReadyKept /\ ~resched
  BY <1>1 DEF ChoiceInv, ScanInv, ReadyKept, Is
<1>3. CASE Schedule
  BY <1>1, <1>2, <1>3, ChoiceSchedule
<1>4. CASE UNCHANGED <<ready, new, pendsv>>
  BY <1>1, <1>2, <1>4 DEF ChoiceInv, ChosenInv, RunnerInv, Is
<1> QED
  BY <1>1, <1>3, <1>4

LEMMA ChoiceExpireOne ==
  ASSUME ChoiceFrom, ExpireOne
  PROVE  ChoiceInv'
<1> USE DEF ChoiceFrom
<1> DEFINE t == Head(due[0])
<1>1. t \in Task
  <2>1. 0 \in 0 .. MaxDelay /\ due \in [0 .. MaxDelay -> Seq(Task)] /\ due[0] # << >>
    BY NumberAssumption DEF ExpireOne, TInv, TcbInv
  <2> QED
    BY <2>1, TailLinks
<1>2. /\ tick = "scan" /\ UNCHANGED <<run, new, pendsv, taskLock, tick, pc>>
      /\ \/ status' = [status EXCEPT ![t] = Expired(t)] /\ UNCHANGED <<ready, resched>>
         \/ status' = [status EXCEPT ![t] = Expired(t) \cup {"READY"}] /\ resched' = TRUE
  BY DEF ExpireOne, sched
<1>3. \A u \in Task : Is(u, "READY") => "READY" \in status'[u]
  BY <1>1, <1>2 DEF Is, Expired, TInv, TcbInv
<1>4. new \in Task
  BY DEF TInv, SchedInv
<1> HIDE DEF t
<1>5. ScanInv'
  BY <1>2 DEF ScanInv
<1>6. ChosenInv'
  BY <1>2, <1>3, <1>4 DEF ChoiceInv, ChosenInv, Is
<1>7. RunnerInv'
  BY <1>2, <1>3 DEF ChoiceInv, RunnerInv, Is
<1> QED
  BY <1>5, <1>6, <1>7 DEF ChoiceInv

LEMMA ChoiceEndScan ==
  ASSUME ChoiceFrom, EndScan
  PROVE  ChoiceInv'
<1> USE DEF ChoiceFrom
<1>1. /\ UNCHANGED <<status, ready, run, taskLock, pc>>
      /\ tick' = "off" /\ resched' = FALSE
      /\ IF resched THEN Schedule ELSE UNCHANGED <<new, pendsv>>
  BY DEF EndScan, tcb
<1>2. ScanInv' /\ ReadyKept
  BY <1>1 DEF ScanInv, ReadyKept, Is
<1>3. CASE resched
  BY <1>1, <1>2, <1>3, ChoiceSchedule
<1>4. CASE ~resched
  BY <1>1, <1>2, <1>4 DEF ChoiceInv, ChosenInv, RunnerInv, Is
<1> QED
  BY <1>3, <1>4

LEMMA ChoiceInvStep ==
  ASSUME "suspend" \notin IsrOps, TInv, ListInv, ChoiceInv, [Next]_vars
  PROVE  ChoiceInv'
<1>1. ChoiceFrom
  BY TInvStep, ListInvStep DEF ChoiceFrom
<1>2. CASE UNCHANGED vars
  BY <1>2 DEF vars, tcb, sched, isr, ChoiceInv, ScanInv, ChosenInv, RunnerInv, Is
<1>3. ASSUME NEW c \in Task \cup {Isr}, CallStep(c) PROVE ChoiceInv'
  BY <1>1, <1>3, ChoiceCreateOnly, ChoiceNoList, ChoiceResume, ChoiceSuspend,
     ChoiceDelete, ChoiceDelay, ChoicePriSet, ChoiceYield DEF CallStep, TaskDelete
<1>4. CASE TaskStep
  BY <1>1, <1>4, ChoiceLosSchedule, ChoiceCreateReady, ChoiceDelete
     DEF TaskStep, TaskEntryEnd
<1>5. CASE TickStep \/ PendSV
  BY <1>1, <1>5, ChoiceTickStart, ChoiceExpireOne, ChoiceEndScan, ChoicePendSV DEF TickStep
<1> QED
  BY <1>2, <1>3, <1>4, <1>5 DEF Next

LEMMA ChoiceInvAlways ==
  ASSUME "suspend" \notin IsrOps PROVE Spec => []ChoiceInv
<1>1. TInv /\ ListInv /\ ChoiceInv /\ [Next]_vars => ChoiceInv'
  BY ChoiceInvStep
<1> QED
  BY <1>1, TInvAlways, ListInvAlways, ChoiceInit, PTL DEF Spec

(* The processor executes a ready task, or one that has just blocked       *)
(* itself and is on its way to LOS_Schedule: no deletion, resumption or    *)
(* tick leaves it in the code of a task that is blocked.                   *)
THEOREM RunnerIsReadyHolds ==
  ASSUME "suspend" \notin IsrOps PROVE Spec => []RunnerIsReady
BY ChoiceInvAlways, ChoiceRunnerReady, PTL

(* No priority inversion by the scheduler itself: with the scheduler       *)
(* unlocked, no interrupt active and no switch pending, a task that runs   *)
(* its own code has the highest priority of the ready tasks.               *)
THEOREM HighestRunsHolds ==
  ASSUME "suspend" \notin IsrOps PROVE Spec => []HighestRuns
BY TInvAlways, ListInvAlways, ChoiceInvAlways, ChoiceHighest, PTL
-----------------------------------------------------------------------------
(***************************************************************************)
(* Unlinking.  The scheduler alone never marks a timeout, so the flag that *)
(* sends LOS_TaskDelete to the timer list is DELAY.                        *)
(***************************************************************************)
NoTimeout == \A t \in Task : ~Is(t, "TIMEOUT")

LEMMA NoTimeoutOne ==
  ASSUME TcbInv, NoTimeout, NEW t \in Task, NEW s, "TIMEOUT" \notin s,
         status' = [status EXCEPT ![t] = s]
  PROVE  NoTimeout'
BY DEF TcbInv, NoTimeout, Is

LEMMA NoTimeoutDelete ==
  ASSUME TcbInv, NoTimeout, NEW t \in Task, Delete(t)
  PROVE  NoTimeout'
<1>1. status' = [status EXCEPT ![t] = {"UNUSED"}]
  BY DEF Delete
<1> QED
  BY <1>1, NoTimeoutOne

LEMMA NoTimeoutCall ==
  ASSUME TInv, NoTimeout, NEW c \in Task \cup {Isr}, CallStep(c)
  PROVE  NoTimeout'
<1> USE DEF TInv
<1>1. ASSUME NEW t \in Task, NEW p \in UserPri, NEW place \in {"user", "create"},
             TaskCreateOnly(c, t, p, place)
      PROVE  NoTimeout'
  <2>1. status' = [status EXCEPT ![t] = {"SUSPEND"}]
    BY <1>1 DEF TaskCreateOnly
  <2> QED
    BY <2>1, NoTimeoutOne
<1>2. ASSUME NEW t \in Task, TaskResume(c, t) PROVE NoTimeout'
  <2>1. \E s : s \subseteq status[t] \cup {"READY"} /\ status' = [status EXCEPT ![t] = s]
    BY <1>2 DEF TaskResume
  <2> QED
    BY <2>1, NoTimeoutOne DEF NoTimeout, Is
<1>3. ASSUME NEW t \in Task, TaskSuspend(c, t) PROVE NoTimeout'
  <2>1. status' = [status EXCEPT ![t] = (status[t] \ {"READY"}) \cup {"SUSPEND"}]
    BY <1>3 DEF TaskSuspend
  <2> QED
    BY <2>1, NoTimeoutOne DEF NoTimeout, Is
<1>4. ASSUME NEW t \in Task, TaskDelete(c, t) PROVE NoTimeout'
  BY <1>4, NoTimeoutDelete DEF TaskDelete
<1>5. ASSUME NEW n \in 1 .. MaxDelay, TaskDelay(c, n) PROVE NoTimeout'
  <2>1. c \in Task
    BY <1>5, OpsAssumption DEF TaskDelay, Calls
  <2>2. status' = [status EXCEPT ![c] = (status[c] \ {"READY"}) \cup {"DELAY"}]
    BY <1>5 DEF TaskDelay
  <2> QED
    BY <2>1, <2>2, NoTimeoutOne DEF NoTimeout, Is
<1>6. CASE UNCHANGED status
  BY <1>6 DEF NoTimeout, Is
<1>7. ASSUME \/ TaskCreateNoMemory(c) \/ TaskExit(c) \/ TaskYield(c)
             \/ TaskLock(c) \/ TaskUnlock(c)
             \/ \E t \in Task, p \in UserPri : TaskPriSet(c, t, p)
      PROVE  UNCHANGED status
  BY <1>7 DEF TaskCreateNoMemory, TaskExit, TaskYield, TaskLock, TaskUnlock,
     TaskPriSet, tcb
<1> QED
  BY <1>1, <1>2, <1>3, <1>4, <1>5, <1>6, <1>7 DEF CallStep

LEMMA NoTimeoutStep ==
  ASSUME TInv, NoTimeout, [Next]_vars
  PROVE  NoTimeout'
<1> USE DEF TInv
<1>1. CASE UNCHANGED status
  BY <1>1 DEF NoTimeout, Is
<1>2. ASSUME NEW c \in Task, LosSchedule(c) \/ TaskCreateReady(c) \/ TaskEntryEnd(c)
      PROVE  NoTimeout'
  <2>1. CASE LosSchedule(c)
    BY <1>1, <2>1 DEF LosSchedule, tcb
  <2>2. CASE TaskCreateReady(c)
    <3>1. /\ arg[c] \in Task
          /\ status' = [status EXCEPT ![arg[c]] =
                            (status[arg[c]] \ {"SUSPEND"}) \cup {"READY"}]
      BY <2>2 DEF TaskCreateReady, PlaceInv
    <3> QED
      BY <3>1, NoTimeoutOne DEF NoTimeout, Is
  <2>3. CASE TaskEntryEnd(c)
    BY <2>3, NoTimeoutDelete DEF TaskEntryEnd
  <2> QED
    BY <1>2, <2>1, <2>2, <2>3
<1>3. CASE ExpireOne
  <2>1. Head(due[0]) \in Task
    <3>1. 0 \in 0 .. MaxDelay /\ due \in [0 .. MaxDelay -> Seq(Task)] /\ due[0] # << >>
      BY <1>3, NumberAssumption DEF ExpireOne, TcbInv
    <3> QED
      BY <3>1, TailLinks
  <2>2. \E s : /\ s \subseteq status[Head(due[0])] \cup {"READY"}
               /\ status' = [status EXCEPT ![Head(due[0])] = s]
    BY <1>3 DEF ExpireOne, Expired
  <2> QED
    BY <2>1, <2>2, NoTimeoutOne DEF NoTimeout, Is
<1>4. CASE TickStart \/ EndScan
  BY <1>1, <1>4 DEF TickStart, EndScan, tcb
<1>5. CASE PendSV
  BY <1>5 DEF PendSV, NoTimeout, Is
<1>6. CASE UNCHANGED vars
  BY <1>1, <1>6 DEF vars, tcb
<1> QED
  BY <1>2, <1>3, <1>4, <1>5, <1>6, NoTimeoutCall DEF Next, TaskStep, TickStep

LEMMA NoTimeoutAlways == Spec => []NoTimeout
<1>1. Init => NoTimeout
  BY DEF Init, NoTimeout, Is
<1>2. TInv /\ NoTimeout /\ [Next]_vars => NoTimeout'
  BY NoTimeoutStep
<1> QED
  BY <1>1, <1>2, TInvAlways, PTL DEF Spec

(* A ready task is on the list of its priority.                            *)
LEMMA ReadyLinked ==
  ASSUME TInv, ListInv, NEW t \in Task, Is(t, "READY")
  PROVE  Linked(ready[pri[t]], t)
BY ListInvReadyQueue DEF ReadyQueueExact

LEMMA DeleteUnlinks ==
  ASSUME TInv, ListInv, NoTimeout, ~fault, NEW t \in Task, Delete(t)
  PROVE  ~fault'
<1>1. Is(t, "READY") => Linked(ready[pri[t]], t)
  BY ReadyLinked
<1>2. Pends(t) => \E w \in WaitList : Linked(waiting[w], t)
  BY ListInvLost DEF NoTaskLost, Pends
<1>3. Is(t, "DELAY") \/ Is(t, "TIMEOUT") => Armed(due, t)
  BY DEF ListInv, DueInv, NoTimeout
<1> QED
  BY <1>1, <1>2, <1>3 DEF Delete, Unlinking

LEMMA NoFaultStep ==
  ASSUME TInv, ListInv, ChoiceInv, NoTimeout, ~fault, [Next]_vars
  PROVE  ~fault'
<1>1. CASE UNCHANGED fault
  BY <1>1
<1>2. ASSUME NEW c \in Task \cup {Isr}, CallStep(c) PROVE ~fault'
  <2>1. ASSUME NEW t \in Task, TaskSuspend(c, t) PROVE ~fault'
    BY <2>1, ReadyLinked DEF TaskSuspend, Unlinking, NoUnlinking
  <2>2. ASSUME NEW t \in Task, TaskDelete(c, t) PROVE ~fault'
    BY <2>2, DeleteUnlinks DEF TaskDelete
  <2>3. ASSUME NEW n \in 1 .. MaxDelay, TaskDelay(c, n) PROVE ~fault'
    <3>1. c \in Task /\ Is(c, "READY")
      BY <2>3, CallerReady DEF TaskDelay, Ops
    <3> QED
      BY <2>3, <3>1, ReadyLinked DEF TaskDelay, Unlinking
  <2>4. ASSUME NEW t \in Task, NEW p \in UserPri, TaskPriSet(c, t, p) PROVE ~fault'
    BY <2>4, ReadyLinked DEF TaskPriSet, Unlinking, NoUnlinking
  <2>5. ASSUME TaskYield(c) PROVE ~fault'
    BY <2>5, ReadyLinked DEF TaskYield, MayYield, Unlinking
  <2>6. ASSUME \/ \E t \in Task, p \in UserPri, place \in {"user", "create"} :
                    TaskCreateOnly(c, t, p, place)
               \/ TaskCreateNoMemory(c) \/ TaskExit(c) \/ TaskLock(c) \/ TaskUnlock(c)
               \/ \E t \in Task : TaskResume(c, t)
        PROVE  ~fault'
    BY <1>1, <2>6 DEF TaskCreateOnly, TaskCreateNoMemory, TaskExit, TaskLock,
       TaskUnlock, TaskResume, NoUnlinking
  <2> QED
    BY <1>2, <2>1, <2>2, <2>3, <2>4, <2>5, <2>6 DEF CallStep
<1>3. CASE TaskStep
  BY <1>1, <1>3, DeleteUnlinks
     DEF TaskStep, LosSchedule, TaskCreateReady, TaskEntryEnd, NoUnlinking
<1>4. CASE TickStart
  BY <1>4, ReadyLinked DEF TickStart, MayYield, Unlinking, NoUnlinking
<1>5. CASE ExpireOne
  <2>1. PICK t \in Task : t = Head(due[0])
    BY <1>5, NumberAssumption, TailLinks DEF ExpireOne, TInv, TcbInv
  <2>2. Is(t, "PEND") => \E w \in WaitList : Linked(waiting[w], t)
    BY ListInvLost DEF NoTaskLost
  <2> QED
    BY <1>5, <2>1, <2>2 DEF ExpireOne, Unlinking
<1>6. CASE EndScan \/ PendSV \/ UNCHANGED vars
  BY <1>1, <1>6 DEF EndScan, PendSV, NoUnlinking, vars
<1> QED
  BY <1>2, <1>3, <1>4, <1>5, <1>6 DEF Next, TickStep

(* No call of the scheduler, and no tick, unlinks a node that is on no     *)
(* list: LOS_ListDelete never follows the null pointers of an unlinked     *)
(* node.                                                                   *)
THEOREM NoNullUnlinkHolds ==
  ASSUME "suspend" \notin IsrOps PROVE Spec => []NoNullUnlink
<1>1. Init => ~fault
  BY DEF Init
<1>2. TInv /\ ListInv /\ ChoiceInv /\ NoTimeout /\ ~fault /\ [Next]_vars => ~fault'
  BY NoFaultStep
<1> QED
  BY <1>1, <1>2, TInvAlways, ListInvAlways, ChoiceInvAlways, NoTimeoutAlways, PTL
     DEF Spec, NoNullUnlink
-----------------------------------------------------------------------------
(***************************************************************************)
(* The timer list: every step of the scheduler is one of its clients'      *)
(* steps, or does not touch it.                                            *)
(***************************************************************************)
CalendarStep == [Calendar!Next]_<<due, tick = "scan">>

(* The instance has its own copies of the operators on lists.              *)
LEMMA CalendarOperators ==
  ASSUME NEW x, NEW n
  PROVE  /\ Calendar!Armed(due, x) <=> Armed(due, x)
         /\ Calendar!AddTimer(due, x, n) = AddTimer(due, x, n)
         /\ Calendar!CancelTimer(due, x) = CancelTimer(due, x)
         /\ Calendar!NextTick(due) = NextTick(due)
<1>1. Calendar!Armed(due, x) <=> Armed(due, x)
  BY DEF Calendar!Armed, Armed, Calendar!Linked, Linked, Calendar!ToSet, ToSet
<1>2. Calendar!AddTimer(due, x, n) = AddTimer(due, x, n)
  BY DEF Calendar!AddTimer, AddTimer
<1>3. Calendar!CancelTimer(due, x) = CancelTimer(due, x)
  <2>1. \A I : Calendar!Min(I) = Min(I)
    BY DEF Calendar!Min, Min
  <2>2. \A list : Calendar!Unlink(list, x) = Unlink(list, x)
    BY <2>1 DEF Calendar!Unlink, Unlink, Calendar!RemoveFirst, RemoveFirst,
       Calendar!RemoveAt, RemoveAt, Calendar!SelectInSeq, SelectInSeq
  <2> QED
    BY <2>2 DEF Calendar!CancelTimer, CancelTimer
<1>4. Calendar!NextTick(due) = NextTick(due)
  BY DEF Calendar!NextTick, NextTick
<1> QED
  BY <1>1, <1>2, <1>3, <1>4

LEMMA CalendarDelete ==
  ASSUME TInv, ListInv, NoTimeout, NEW t \in Task, Delete(t)
  PROVE  CalendarStep
<1>1. UNCHANGED tick /\ due' = IF Is(t, "DELAY") THEN CancelTimer(due, t) ELSE due
  BY DEF Delete, isr, NoTimeout
<1>2. Is(t, "DELAY") => Armed(due, t)
  BY DEF ListInv, DueInv
<1>3. CASE Is(t, "DELAY")
  <2>1. Calendar!Cancel(t)
    BY <1>1, <1>2, <1>3, CalendarOperators DEF Calendar!Cancel
  <2> QED
    BY <2>1 DEF CalendarStep, Calendar!Next
<1>4. CASE ~Is(t, "DELAY")
  BY <1>1, <1>4 DEF CalendarStep
<1> QED
  BY <1>3, <1>4

LEMMA CalendarDelay ==
  ASSUME ListInv, NEW c \in Task \cup {Isr}, NEW n \in 1 .. MaxDelay, TaskDelay(c, n)
  PROVE  CalendarStep
<1>1. c \in Task /\ Running(c) /\ ~Halted(c)
  BY TaskCalls DEF TaskDelay, Ops
<1>2. ~Armed(due, c) /\ tick = "off"
  BY <1>1 DEF ListInv, DueInv, Halted, Running
<1>3. due' = AddTimer(due, c, n) /\ UNCHANGED tick
  BY DEF TaskDelay, isr
<1>4. Calendar!Arm(c, n)
  BY <1>2, <1>3, CalendarOperators DEF Calendar!Arm
<1> QED
  BY <1>1, <1>4 DEF CalendarStep, Calendar!Next

LEMMA CalendarNext ==
  ASSUME TInv, ListInv, NoTimeout, [Next]_vars
  PROVE  CalendarStep
<1>1. CASE UNCHANGED <<due, tick>>
  BY <1>1 DEF CalendarStep
<1>2. ASSUME NEW c \in Task \cup {Isr}, CallStep(c) PROVE CalendarStep
  <2>1. ASSUME \/ \E t \in Task, p \in UserPri, place \in {"user", "create"} :
                    TaskCreateOnly(c, t, p, place)
               \/ TaskCreateNoMemory(c) \/ TaskExit(c) \/ TaskYield(c)
               \/ TaskLock(c) \/ TaskUnlock(c)
               \/ \E t \in Task : TaskResume(c, t) \/ TaskSuspend(c, t)
               \/ \E t \in Task, p \in UserPri : TaskPriSet(c, t, p)
        PROVE  UNCHANGED <<due, tick>>
    BY <2>1 DEF TaskCreateOnly, TaskCreateNoMemory, TaskExit, TaskYield, TaskLock,
       TaskUnlock, TaskResume, TaskSuspend, TaskPriSet, tcb, isr
  <2> QED
    BY <1>1, <1>2, <2>1, CalendarDelete, CalendarDelay DEF CallStep, TaskDelete
<1>3. CASE TaskStep
  BY <1>1, <1>3, CalendarDelete
     DEF TaskStep, LosSchedule, TaskCreateReady, TaskEntryEnd, tcb, isr
<1>4. CASE TickStart
  <2>1. tick = "off" /\ tick' = "scan" /\ due' = NextTick(due)
    BY <1>4 DEF TickStart
  <2>2. tick # "scan"
    BY <2>1
  <2>3. Calendar!StartTick
    BY <2>1, <2>2, CalendarOperators, Zenon DEF Calendar!StartTick
  <2> QED
    BY <2>3 DEF CalendarStep, Calendar!Next
<1>5. CASE ExpireOne
  BY <1>5 DEF ExpireOne, CalendarStep, Calendar!Next, Calendar!Expire
<1>6. CASE EndScan
  BY <1>6 DEF EndScan, tcb, CalendarStep, Calendar!Next, Calendar!EndTick
<1>7. CASE PendSV \/ UNCHANGED vars
  BY <1>1, <1>7 DEF PendSV, vars, tcb, isr
<1> QED
  BY <1>2, <1>3, <1>4, <1>5, <1>6, <1>7 DEF Next, TickStep

(* The scheduler is a client of the timer list that keeps to its rules: it *)
(* arms a task only while it is not armed and no scan is under way, and    *)
(* cancels armed tasks only.                                               *)
THEOREM UsesCalendarHolds == Spec => UsesCalendar
<1>1. Init => Calendar!Init
  BY DEF Init, Calendar!Init
<1>2. TInv /\ ListInv /\ NoTimeout /\ [Next]_vars => [Calendar!Next]_<<due, tick = "scan">>
  BY CalendarNext DEF CalendarStep
<1> QED
  BY <1>1, <1>2, TInvAlways, ListInvAlways, NoTimeoutAlways, PTL
     DEF Spec, UsesCalendar, Calendar!Spec, Calendar!calendar
-----------------------------------------------------------------------------
(***************************************************************************)
(* A task that is deleted takes along what it was promised.  Where no task *)
(* is deleted by another, a wait ends by a wake-up or a timeout, and what  *)
(* was promised changes only by the calls of the component.                *)
(***************************************************************************)
NoDeletion == "delete" \notin TaskOps \cup IsrOps

DeadInv == \A t \in Task : ~Live(t) => arg[t] \notin WaitList

LEMMA DeadKeep ==
  ASSUME DeadInv,
         \A u \in Task : arg'[u] \in WaitList =>
           (arg'[u] = arg[u] /\ SameFlag("UNUSED", u)) \/ Live(u)'
  PROVE  DeadInv'
BY DEF DeadInv, Live, Is, SameFlag

LEMMA DeadDelete ==
  ASSUME TInv, DeadInv, NEW t \in Task, Delete(t)
  PROVE  DeadInv'
<1>1. /\ arg'[t] = NoArg
      /\ \A u \in Task \ {t} : arg'[u] = arg[u] /\ status'[u] = status[u]
  BY DEF Delete, TInv, TcbInv, PlaceInv
<1> QED
  BY <1>1, DeadKeep, TaskAssumption DEF SameFlag

LEMMA DeadNext ==
  ASSUME TInv, ListInv, CallInv, DeadInv, Next
  PROVE  DeadInv'
<1>1. CASE \E t \in Task : Delete(t)
  BY <1>1, DeadDelete
<1>2. ASSUME \A u \in Task : "UNUSED" \in status'[u] => "UNUSED" \in status[u]
      PROVE  DeadInv'
  <2>1. \A u \in Task : arg'[u] \in WaitList => arg'[u] = arg[u]
    BY WaitKept DEF SameWait
  <2> QED
    BY <1>2, <2>1 DEF DeadInv, Live, Is
<1>3. CASE UNCHANGED status
  BY <1>2, <1>3
<1>4. ASSUME NEW t, NEW s, status' = [status EXCEPT ![t] = s],
             "UNUSED" \in s => "UNUSED" \in status[t]
      PROVE  DeadInv'
  BY <1>2, <1>4 DEF TInv, TcbInv
<1>5. ASSUME NEW c \in Task \cup {Isr}, CallStep(c), ~\E t \in Task : Delete(t)
      PROVE  DeadInv'
  <2>1. CASE \E t \in Task, p \in UserPri, place \in {"user", "create"} :
               TaskCreateOnly(c, t, p, place)
    BY <1>4, <2>1 DEF TaskCreateOnly
  <2>2. CASE \E t \in Task : TaskResume(c, t)
    <3> PICK t \in Task : TaskResume(c, t)
      BY <2>2
    <3>1. CASE status' = [status EXCEPT ![t] = status[t] \ {"SUSPEND"}]
      BY <1>4, <3>1
    <3>2. CASE status' = [status EXCEPT ![t] = (status[t] \ {"SUSPEND"}) \cup {"READY"}]
      BY <1>4, <3>2
    <3> QED
      BY <3>1, <3>2 DEF TaskResume
  <2>3. CASE \E t \in Task : TaskSuspend(c, t)
    BY <1>4, <2>3 DEF TaskSuspend
  <2>4. CASE \E n \in 1 .. MaxDelay : TaskDelay(c, n)
    BY <1>4, <2>4 DEF TaskDelay
  <2> QED
    BY <1>3, <1>5, <2>1, <2>2, <2>3, <2>4
       DEF CallStep, TaskCreateNoMemory, TaskDelete, TaskExit, TaskPriSet, TaskYield,
           TaskLock, TaskUnlock, tcb
<1>6. CASE TaskStep
  <2>1. ASSUME NEW c \in Task, TaskCreateReady(c) PROVE DeadInv'
    BY <1>4, <2>1 DEF TaskCreateReady
  <2> QED
    BY <1>1, <1>3, <1>6, <2>1 DEF TaskStep, LosSchedule, TaskEntryEnd, tcb
<1>7. CASE TickStep
  <2>1. CASE ExpireOne
    <3> PICK t : t = Head(due[0])
      OBVIOUS
    <3>1. \E flags \in {{}, {"READY"}} :
            status' = [status EXCEPT ![t] = Expired(t) \cup flags]
      <4>1. Expired(t) \cup {} = Expired(t)
        OBVIOUS
      <4> QED
        BY <2>1, <4>1 DEF ExpireOne
    <3> QED
      BY <1>4, <3>1 DEF Expired
  <2> QED
    BY <1>3, <1>7, <2>1 DEF TickStep, TickStart, EndScan, tcb
<1>8. CASE PendSV
  <2>1. \A u \in Task : "UNUSED" \in status'[u] => "UNUSED" \in status[u]
    BY <1>8 DEF PendSV
  <2> QED
    BY <1>2, <2>1
<1> QED
  BY <1>1, <1>5, <1>6, <1>7, <1>8 DEF Next

(* Then the steps of the scheduler end no wait but by the expiry of its    *)
(* timer.                                                                  *)
LEMMA SchedulerExpires ==
  ASSUME TInv, ListInv, CallInv, DeadInv, Next, NoDeletion
  PROVE  NoWaitEnds \/ \E t \in Task : Expires(t)
<1>1. ASSUME NEW t \in Task, arg[t] \notin WaitList, Gone(t)
      PROVE  NoWaitEnds
  <2>1. ~Is(t, "PEND")
    BY <1>1 DEF ListInv, WaitInv, PendTasks
  <2>2. waiting' = waiting
    BY <1>1, <2>1, UnlinkNobody DEF Gone, LeavesWait
  <2> QED
    BY <1>1, <2>2 DEF Gone, LeavesWait, KeepsWait, NoWaitEnds
<1>2. ASSUME NEW c \in Task \cup {Isr}, CallStep(c)
      PROVE  \A t \in Task : arg[t] \in WaitList => arg'[t] = arg[t]
  <2>1. \A t \in Task : ~TaskDelete(c, t)
    BY DEF TaskDelete, Calls, NoDeletion
  <2>2. ASSUME NEW u \in Task, NEW p \in UserPri, NEW place \in {"user", "create"},
               TaskCreateOnly(c, u, p, place)
        PROVE  \A t \in Task : arg[t] \in WaitList => arg'[t] = arg[t]
    <3>1. arg[c] \notin WaitList /\ arg[u] \notin WaitList
      BY <2>2, TaskCalls, CallOutside DEF TaskCreateOnly, Ops, DeadInv
    <3> QED
      BY <2>2, <3>1 DEF TaskCreateOnly, TInv, PlaceInv
  <2> QED
    BY <1>2, <2>1, <2>2
       DEF CallStep, TaskCreateNoMemory, TaskResume, TaskSuspend, TaskDelay, TaskExit,
           TaskPriSet, TaskYield, TaskLock, TaskUnlock, ThenSchedule, ThenReturn
<1>3. \A t \in Task : arg[t] \in WaitList => arg'[t] = arg[t]
  <2>1. ASSUME NEW c \in Task, TaskEntryEnd(c) \/ TaskCreateReady(c)
        PROVE  \A t \in Task : arg[t] \in WaitList => arg'[t] = arg[t]
    <3>1. arg[c] \notin WaitList /\ arg' = [arg EXCEPT ![c] = NoArg]
      BY <2>1, CallOutside DEF TaskEntryEnd, TaskCreateReady, Delete
    <3> QED
      BY <3>1 DEF TInv, PlaceInv
  <2> QED
    BY <1>2, <2>1
       DEF Next, TaskStep, LosSchedule, TickStep, TickStart, ExpireOne, EndScan, PendSV
<1>4. \A t \in Task : Gone(t) => arg[t] \notin WaitList
  BY <1>3 DEF Gone
<1> QED
  BY <1>1, <1>4, SchedulerWaits
=============================================================================
