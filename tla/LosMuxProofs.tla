---------------------------- MODULE LosMuxProofs ----------------------------
(***************************************************************************)
(* Theorems of the mutexes, for any number of tasks and mutexes.           *)
(***************************************************************************)
EXTENDS LosMux, LosTaskProofs

(***************************************************************************)
(* LOS_MuxPend writes the priority of the owner and LOS_MuxPost that of    *)
(* the running task.  That the idle task keeps the lowest priority, on     *)
(* which it rests that LOS_Schedule always finds a task, needs that it     *)
(* neither waits for a mutex nor owns one.                                 *)
(***************************************************************************)
Waiter == Task \ {Idle}

MuxStateInv ==
  /\ muxUsed \subseteq WaitList
  /\ muxCount \in [WaitList -> 0 .. MaxNest]
  /\ muxOwner \in [WaitList -> Waiter \cup {NoArg}]
  /\ muxPri \in [WaitList -> Prio]
  /\ \A m \in WaitList : Held(m) => muxOwner[m] \in Waiter

WaiterInv == waiting \in [WaitList -> Seq(Waiter)]

MuxInv == TInv /\ MuxStateInv /\ WaiterInv

LEMMA MuxInvTypes ==
  ASSUME MuxInv
  PROVE  MuxTypeOK
BY TInvTypes DEF MuxInv, MuxStateInv, Waiter, MuxTypeOK

LEMMA MuxInvInit ==
  ASSUME MuxInit
  PROVE  MuxInv
<1>1. TInv
  BY TInvInit DEF MuxInit
<1>2. MuxStateInv
  BY NestAssumption, NumberAssumption DEF MuxInit, MuxStateInv, Held, Prio
<1>3. WaiterInv
  BY EmptySeq DEF MuxInit, Init, WaiterInv
<1> QED
  BY <1>1, <1>2, <1>3 DEF MuxInv

(***************************************************************************)
(* The scheduler's own steps only unlink waiters.                          *)
(***************************************************************************)
LEMMA WaiterSame ==
  ASSUME WaiterInv, UNCHANGED waiting
  PROVE  WaiterInv'
BY DEF WaiterInv

LEMMA WaiterUnlink ==
  ASSUME WaiterInv, NEW t,
         waiting' = [w \in WaitList |-> Unlink(waiting[w], t)]
  PROVE  WaiterInv'
<1>1. \A w \in WaitList : Unlink(waiting[w], t) \in Seq(Waiter)
  BY UnlinkType DEF WaiterInv
<1> QED
  BY <1>1 DEF WaiterInv

LEMMA WaiterScheduler ==
  ASSUME WaiterInv, Next
  PROVE  WaiterInv'
BY SchedulerUnlinks, WaiterSame, WaiterUnlink

LEMMA MuxStateSame ==
  ASSUME MuxStateInv, UNCHANGED mux
  PROVE  MuxStateInv'
BY DEF MuxStateInv, mux, Held

LEMMA TInvSame ==
  ASSUME TInv, UNCHANGED vars
  PROVE  TInv'
BY TInvStep DEF vars
-----------------------------------------------------------------------------
(***************************************************************************)
(* What the waits and posts of los_mux.c do to the control blocks.         *)
(***************************************************************************)

(* osTaskPriModify of a task that is not the idle task.                    *)
LEMMA PriModifyKeepsIdle ==
  ASSUME TcbInv, NEW t \in Waiter, NEW p \in Prio
  PROVE  /\ PriModify(ready, t, p) \in [Prio -> Seq(Task)]
         /\ Linked(PriModify(ready, t, p)[Lowest], Idle)
BY RequeueKeepsIdle DEF PriModify, TcbInv, Waiter

LEMMA MuxWaitInv ==
  ASSUME MuxInv, NEW c \in Task \cup {Isr}, NEW m \in WaitList,
         NEW n \in Timeouts, MuxWait(c, m, n)
  PROVE  MuxInv'
<1> USE TaskAssumption, NumberAssumption DEF MuxInv, TInv
<1> DEFINE owner    == muxOwner[m]
           inherits == pri[owner] > pri[c]
           q == IF inherits THEN PriModify(ready, owner, pri[c]) ELSE ready
<1>1. c \in Waiter /\ owner \in Waiter /\ pri[c] \in Prio
  BY Callers DEF MuxWait, MuxStateInv, Waiter, TcbInv
<1>2. q \in [Prio -> Seq(Task)] /\ Linked(q[Lowest], Idle)
  BY <1>1, PriModifyKeepsIdle DEF TcbInv
<1>3. /\ TaskWait(q, c, m, n)
      /\ pri' = IF inherits THEN [pri EXCEPT ![owner] = pri[c]] ELSE pri
      /\ UNCHANGED <<recycle, sched, isr, mux>>
      /\ pc' = [pc EXCEPT ![c] = "sched"] /\ arg' = [arg EXCEPT ![c] = m]
  BY DEF MuxWait
<1> HIDE DEF q
<1>4. pri' \in [Task -> Prio] /\ pri'[Idle] = Lowest
  BY <1>1, <1>3 DEF TcbInv, Waiter
<1>5. TcbInv'
  BY <1>1, <1>2, <1>3, <1>4, TcbWait DEF Timeouts, WaitTime, Waiter
<1>6. PlaceInv'
  BY <1>1, <1>3 DEF PlaceInv, Places, Waiter
<1>7. SchedInv'
  BY <1>3 DEF SchedInv, sched
<1>8. WaiterInv'
  <2>1. waiting' = [waiting EXCEPT ![m] = Append(waiting[m], c)]
    BY <1>3 DEF TaskWait
  <2> QED
    BY <1>1, <2>1, AppendLinks DEF WaiterInv
<1> QED
  BY <1>3, <1>5, <1>6, <1>7, <1>8, IsrSame, MuxStateSame

LEMMA MuxPostInv ==
  ASSUME MuxInv, NEW c \in Task \cup {Isr}, NEW m \in WaitList, MuxPost(c, m)
  PROVE  MuxInv'
<1> USE TaskAssumption, NumberAssumption DEF MuxInv, TInv
<1> DEFINE restored == [pri EXCEPT ![run] = muxPri[m]]
           q == IF pri[run] # muxPri[m]
                THEN PriModify(ready, run, muxPri[m]) ELSE ready
           t == Head(waiting[m])
<1>1. c # Idle /\ run \in Waiter /\ muxPri[m] \in Prio
  BY Callers DEF MuxPost, Owns, MuxStateInv
<1>2. q \in [Prio -> Seq(Task)] /\ Linked(q[Lowest], Idle)
  BY <1>1, PriModifyKeepsIdle DEF TcbInv
<1>3. restored \in [Task -> Prio] /\ restored[Idle] = Lowest
  BY <1>1 DEF TcbInv, Waiter
<1>4. pri' = restored /\ UNCHANGED <<muxUsed, recycle, isr>>
  BY DEF MuxPost
<1>5. CASE waiting[m] # << >>
  <2>1. /\ muxOwner' = [muxOwner EXCEPT ![m] = t]
        /\ muxPri' = [muxPri EXCEPT ![m] = restored[t]]
        /\ TaskWake(q, restored, t, m) /\ ThenSchedule(c)
        /\ UNCHANGED muxCount
    BY <1>5 DEF MuxPost
  <2>2. t \in Waiter
    BY <1>5, TailLinks DEF WaiterInv
  <2> HIDE DEF q, restored, t
  <2>3. TcbInv'
    BY <1>2, <1>3, <1>4, <2>1, <2>2, TcbWake DEF Waiter
  <2>4. SchedInv' /\ PlaceInv'
    BY <1>1, <2>1, <2>3, ThenScheduleInv
  <2>5. MuxStateInv'
    BY <1>3, <1>4, <2>1, <2>2 DEF MuxStateInv, Held, Waiter
  <2>6. waiting' = [waiting EXCEPT ![m] = Unlink(waiting[m], t)]
    BY <2>1 DEF TaskWake
  <2>7. WaiterInv'
    BY <2>6, UnlinkType DEF WaiterInv
  <2> QED
    BY <1>4, <2>3, <2>4, <2>5, <2>7, IsrSame
<1>6. CASE waiting[m] = << >>
  <2>1. /\ muxCount' = [muxCount EXCEPT ![m] = 0]
        /\ ready' = q /\ ThenReturn /\ NoUnlinking
        /\ UNCHANGED <<muxOwner, muxPri, status, waiting, due>>
    BY <1>6 DEF MuxPost
  <2> HIDE DEF q, restored
  <2>2. TcbInv'
    BY <1>2, <1>3, <1>4, <2>1 DEF TcbInv, NoUnlinking, Live, Is
  <2>3. SchedInv' /\ PlaceInv'
    BY <2>1, ThenReturnInv
  <2>4. MuxStateInv'
    BY <1>4, <2>1, NestAssumption DEF MuxStateInv, Held
  <2>5. WaiterInv'
    BY <2>1, WaiterSame
  <2> QED
    BY <1>4, <2>2, <2>3, <2>4, <2>5, IsrSame
<1> QED
  BY <1>5, <1>6

LEMMA MuxReturnInv ==
  ASSUME MuxInv, NEW c \in Task, MuxPendReturn(c)
  PROVE  MuxInv'
<1> USE TaskAssumption DEF MuxInv, TInv
<1>1. TcbInv'
  <2>1. status' = [status EXCEPT ![c] = status[c] \ {"TIMEOUT"}]
    BY DEF MuxPendReturn
  <2>2. status' \in [Task -> SUBSET Flags] /\ Live(Idle)'
    BY <2>1 DEF TcbInv, Flags, Live, Is
  <2> QED
    BY <2>2 DEF MuxPendReturn, NoUnlinking, TcbInv
<1>2. SchedInv'
  BY DEF MuxPendReturn, SchedInv, sched
<1>3. PlaceInv'
  BY DEF MuxPendReturn, PlaceInv, Places
<1>4. IsrInv' /\ MuxStateInv' /\ WaiterInv'
  BY IsrSame, MuxStateSame, WaiterSame DEF MuxPendReturn
<1> QED
  BY <1>1, <1>2, <1>3, <1>4

LEMMA MuxStepInv ==
  ASSUME MuxInv, MuxStep
  PROVE  MuxInv'
<1> PICK c \in Task \cup {Isr}, m \in WaitList :
      \/ MuxCreate(c, m) \/ MuxDelete(c, m)
      \/ MuxTake(c, m) \/ MuxNest(c, m) \/ \E n \in Timeouts : MuxWait(c, m, n)
      \/ MuxUnnest(c, m) \/ MuxPost(c, m)
  BY DEF MuxStep
<1>1. ASSUME UNCHANGED vars, MuxStateInv' PROVE MuxInv'
  BY <1>1, TInvSame, WaiterSame DEF MuxInv, vars, tcb
<1>2. CASE MuxCreate(c, m)
  <2>1. 0 \in 0 .. MaxNest /\ 0 \in Prio
    BY NestAssumption, NumberAssumption DEF Prio
  <2>2. MuxStateInv'
    BY <1>2, <2>1 DEF MuxCreate, MuxInv, MuxStateInv, Held
  <2> QED
    BY <1>1, <1>2, <2>2 DEF MuxCreate
<1>3. CASE MuxDelete(c, m)
  <2>1. MuxStateInv'
    BY <1>3 DEF MuxDelete, MuxInv, MuxStateInv, Held
  <2> QED
    BY <1>1, <1>3, <2>1 DEF MuxDelete
<1>4. CASE MuxTake(c, m)
  <2>1. c \in Waiter /\ pri[c] \in Prio
    BY <1>4, Callers DEF MuxTake, MuxInv, TInv, TcbInv, Waiter
  <2>2. muxCount[m] + 1 \in 0 .. MaxNest
    BY <1>4, NestAssumption DEF MuxTake, MuxInv, MuxStateInv, Held
  <2>3. MuxStateInv'
    BY <1>4, <2>1, <2>2 DEF MuxTake, MuxInv, MuxStateInv, Held
  <2> QED
    BY <1>1, <1>4, <2>3 DEF MuxTake
<1>5. CASE MuxNest(c, m)
  <2>1. muxCount[m] + 1 \in 0 .. MaxNest /\ muxOwner[m] \in Waiter
    BY <1>5, NestAssumption DEF MuxNest, Owns, MuxInv, MuxStateInv
  <2>2. MuxStateInv'
    BY <1>5, <2>1 DEF MuxNest, MuxInv, MuxStateInv, Held
  <2> QED
    BY <1>1, <1>5, <2>2 DEF MuxNest
<1>6. CASE MuxUnnest(c, m)
  <2>1. muxCount[m] - 1 \in 0 .. MaxNest /\ muxOwner[m] \in Waiter
    BY <1>6, NestAssumption DEF MuxUnnest, Owns, MuxInv, MuxStateInv
  <2>2. MuxStateInv'
    BY <1>6, <2>1 DEF MuxUnnest, MuxInv, MuxStateInv, Held
  <2> QED
    BY <1>1, <1>6, <2>2 DEF MuxUnnest
<1> QED
  BY <1>2, <1>3, <1>4, <1>5, <1>6, MuxWaitInv, MuxPostInv

LEMMA MuxInvStep ==
  ASSUME MuxInv, [MuxNext]_muxvars
  PROVE  MuxInv'
<1>1. CASE UNCHANGED muxvars
  BY <1>1, TInvSame, WaiterSame, MuxStateSame DEF muxvars, MuxInv, vars, tcb
<1>2. CASE Next /\ UNCHANGED mux
  BY <1>2, TInvStep, WaiterScheduler, MuxStateSame DEF MuxInv
<1> QED
  BY <1>1, <1>2, MuxStepInv, MuxReturnInv DEF MuxNext, Returns

LEMMA MuxInvAlways == MuxSpec => []MuxInv
BY MuxInvInit, MuxInvStep, PTL DEF MuxSpec

(* The mutexes' variables keep their types, and the scheduler's keep       *)
(* theirs although mutexes rewrite priorities and the ready queue: the     *)
(* idle task keeps its place, and a locked mutex has a task for its owner. *)
THEOREM MuxTypeCorrect == MuxSpec => []MuxTypeOK
BY MuxInvAlways, MuxInvTypes, PTL
-----------------------------------------------------------------------------
(***************************************************************************)
(* The lists of the scheduler, and who owns what.  A task waits only for a *)
(* mutex that somebody else owns: LOS_MuxPost unlinks the task it hands    *)
(* the mutex to, which is on the list once only, and nobody joins the list *)
(* of a mutex of his own.                                                  *)
(***************************************************************************)
HeldUsed == \A m \in WaitList : Held(m) => m \in muxUsed

HoldInv == ListInv /\ CallInv /\ HeldUsed /\ WaitersHaveOwner

(* Every step starts from here; that it keeps MuxInv is shown above.       *)
MuxFrom == MuxInv /\ HoldInv /\ MuxInv'

LEMMA HoldInit ==
  ASSUME MuxInit PROVE HoldInv
<1>1. ListInv /\ CallInv
  BY ListInvInit, CallInvInit DEF MuxInit
<1>2. HeldUsed /\ WaitersHaveOwner
  BY DEF MuxInit, Init, HeldUsed, WaitersHaveOwner, Held
<1> QED
  BY <1>1, <1>2 DEF HoldInv

LEMMA FiledPriModify ==
  ASSUME TInv, ListInv, NEW t \in Task, NEW p \in Prio, NEW r,
         r[t] = p, \A u \in Task \ {t} : r[u] = pri[u]
  PROVE  Filed(PriModify(ready, t, p), r, ReadyTasks)
<1>1. ready \in [Prio -> Seq(Task)] /\ pri[t] \in Prio /\ Filed(ready, pri, ReadyTasks)
  BY DEF TInv, TcbInv, ListInv, ReadyInv
<1>2. CASE Is(t, "READY")
  <2> DEFINE q == Dequeue(ready, t, pri[t])
  <2>1. ReadyTasks = (ReadyTasks \ {t}) \cup {t} /\ ReadyTasks \subseteq Task
    BY <1>2 DEF ReadyTasks
  <2>2. Filed(q, pri, ReadyTasks \ {t}) /\ q \in [Prio -> Seq(Task)]
    BY <1>1, FiledDequeue, QueueType
  <2>3. PriModify(ready, t, p) = Enqueue(q, t, p)
    BY <1>2 DEF PriModify
  <2> HIDE DEF q
  <2>4. \A u \in ReadyTasks \ {t} : r[u] = pri[u]
    BY <2>1
  <2>5. Filed(Enqueue(q, t, p), r, (ReadyTasks \ {t}) \cup {t})
    BY <2>2, <2>4, FiledEnqueue
  <2> QED
    BY <2>1, <2>3, <2>5
<1>3. CASE ~Is(t, "READY")
  <2>1. \A u \in ReadyTasks : r[u] = pri[u]
    BY <1>3 DEF ReadyTasks
  <2> QED
    BY <1>1, <1>3, <2>1, FiledSame DEF PriModify
<1> QED
  BY <1>2, <1>3

(* Unlinking a waiter strands nobody.                                      *)
LEMMA OwnerUnlink ==
  ASSUME MuxInv, ListInv, WaitersHaveOwner, UNCHANGED mux,
         NEW t, waiting' = [w \in WaitList |-> Unlink(waiting[w], t)]
  PROVE  WaitersHaveOwner'
<1>1. \A m \in WaitList : waiting[m] \in Seq(Task) /\ NoRepeat(waiting[m])
  BY DEF MuxInv, TInv, TcbInv, ListInv, WaitInv, Filed, Distinct
<1>2. ASSUME NEW m \in WaitList, waiting'[m] # << >>
      PROVE  m \in muxUsed /\ Held(m) /\ ~Linked(waiting'[m], muxOwner[m])
  <2>1. waiting[m] # << >>
    BY <1>2, UnlinkEmpty
  <2>2. \A y : Linked(waiting'[m], y) => Linked(waiting[m], y)
    BY <1>1, UnlinkKeeps, UnlinkDrops
  <2> QED
    BY <2>1, <2>2 DEF WaitersHaveOwner
<1> QED
  BY <1>2 DEF WaitersHaveOwner, mux, Held

LEMMA OwnerScheduler ==
  ASSUME MuxInv, ListInv, WaitersHaveOwner, UNCHANGED mux, Next
  PROVE  WaitersHaveOwner'
<1>1. CASE UNCHANGED waiting
  BY <1>1 DEF WaitersHaveOwner, mux, Held
<1> QED
  BY <1>1, SchedulerUnlinks, OwnerUnlink

LEMMA HoldWait ==
  ASSUME MuxFrom, NEW c \in Task \cup {Isr}, NEW m \in WaitList,
         NEW n \in Timeouts, MuxWait(c, m, n)
  PROVE  HoldInv'
<1> USE DEF MuxFrom, MuxInv, HoldInv
<1> DEFINE owner    == muxOwner[m]
           inherits == pri[owner] > pri[c]
           q == IF inherits THEN PriModify(ready, owner, pri[c]) ELSE ready
<1>1. /\ c \in Task /\ Running(c) /\ pc[c] = "user" /\ owner \in Waiter
      /\ owner # c /\ taskLock = 0 /\ m \in muxUsed /\ Held(m) /\ WaitTime(n)
  BY DEF MuxWait, Enters, MuxStateInv, Timeouts, WaitTime
<1>2. /\ Waits(q, c, m, n) /\ UNCHANGED mux
      /\ pri' = IF inherits THEN [pri EXCEPT ![owner] = pri[c]] ELSE pri
  BY DEF MuxWait, Waits
<1>3. pri[c] \in Prio /\ owner \in Task
  BY <1>1 DEF TInv, TcbInv, Waiter
<1>4. q \in [Prio -> Seq(Task)]
  BY <1>1, <1>3, PriModifyKeepsIdle DEF TInv, TcbInv
<1>5. Filed(q, pri', ReadyTasks) /\ pri'[c] = pri[c]
  <2>1. CASE inherits
    <3>1. pri'[owner] = pri[c] /\ \A u \in Task \ {owner} : pri'[u] = pri[u]
      BY <1>2, <1>3, <2>1 DEF TInv, TcbInv
    <3> QED
      BY <1>1, <1>3, <2>1, <3>1, FiledPriModify
  <2>2. CASE ~inherits
    BY <1>2, <2>2 DEF ListInv, ReadyInv
  <2> QED
    BY <2>1, <2>2
<1>6. waiting' = [waiting EXCEPT ![m] = Append(waiting[m], c)]
  BY <1>2 DEF Waits, TaskWait
<1> HIDE DEF q
<1>7. ListInv'
  BY <1>1, <1>2, <1>4, <1>5, ListWait DEF StepFrom
<1>8. CallInv'
  BY <1>1, <1>2, CallWait
<1>9. HeldUsed'
  BY <1>2 DEF HeldUsed, Held, mux
<1>10. WaitersHaveOwner'
  <2>1. /\ \A w \in WaitList \ {m} : waiting'[w] = waiting[w]
        /\ waiting'[m] = Append(waiting[m], c)
        /\ waiting[m] \in Seq(Task)
    BY <1>6 DEF TInv, TcbInv
  <2>2. ~Linked(waiting[m], owner)
    <3>1. CASE waiting[m] = << >>
      BY <3>1 DEF Linked, ToSet
    <3>2. CASE waiting[m] # << >>
      BY <3>2 DEF WaitersHaveOwner
    <3> QED
      BY <3>1, <3>2
  <2>3. ~Linked(waiting'[m], owner)
    BY <1>1, <2>1, <2>2, AppendLinks
  <2> QED
    BY <1>1, <1>2, <2>1, <2>3 DEF WaitersHaveOwner, Held, mux
<1> QED
  BY <1>7, <1>8, <1>9, <1>10

LEMMA HoldPost ==
  ASSUME MuxFrom, NEW c \in Task \cup {Isr}, NEW m \in WaitList, MuxPost(c, m)
  PROVE  HoldInv'
<1> USE DEF MuxFrom, MuxInv, HoldInv
<1> DEFINE restored == [pri EXCEPT ![run] = muxPri[m]]
           q == IF pri[run] # muxPri[m]
                THEN PriModify(ready, run, muxPri[m]) ELSE ready
           t == Head(waiting[m])
<1>1. /\ run \in Waiter /\ run \in Task /\ muxPri[m] \in Prio /\ Held(m)
      /\ muxOwner[m] = run /\ pri' = restored /\ UNCHANGED <<muxUsed, recycle, isr>>
      /\ c # Isr => c \in Task /\ Running(c) /\ pc[c] = "user"
  BY DEF MuxPost, Owns, MuxStateInv, Waiter, Enters
<1>2. restored[run] = muxPri[m] /\ \A u \in Task \ {run} : restored[u] = pri[u]
  BY <1>1 DEF TInv, TcbInv
<1>3. q \in [Prio -> Seq(Task)] /\ Filed(q, restored, ReadyTasks)
  <2>1. CASE pri[run] # muxPri[m]
    <3>1. PriModify(ready, run, muxPri[m]) \in [Prio -> Seq(Task)]
      BY <1>1, PriModifyKeepsIdle DEF TInv
    <3>2. Filed(PriModify(ready, run, muxPri[m]), restored, ReadyTasks)
      BY <1>1, <1>2, FiledPriModify
    <3> QED
      BY <2>1, <3>1, <3>2
  <2>2. CASE pri[run] = muxPri[m]
    <3>1. \A u \in ReadyTasks : restored[u] = pri[u]
      BY <1>2, <2>2 DEF ReadyTasks
    <3> QED
      BY <2>2, <3>1, FiledSame DEF ListInv, ReadyInv, TInv, TcbInv
  <2> QED
    BY <2>1, <2>2
<1>4. waiting[m] \in Seq(Task) /\ NoRepeat(waiting[m])
  BY DEF TInv, TcbInv, ListInv, WaitInv, Filed, Distinct
<1>5. CASE waiting[m] # << >>
  <2>1. /\ muxOwner' = [muxOwner EXCEPT ![m] = t]
        /\ TaskWake(q, restored, t, m) /\ ThenSchedule(c)
        /\ UNCHANGED muxCount
    BY <1>5 DEF MuxPost
  <2>2. t \in Task /\ Linked(waiting[m], t)
    BY <1>4, <1>5, TailLinks
  <2>3. /\ waiting' = [waiting EXCEPT ![m] = Unlink(waiting[m], t)]
        /\ ~Linked(Unlink(waiting[m], t), t)
    BY <1>4, <2>1, UnlinkDrops DEF TaskWake
  <2> HIDE DEF q, t
  <2>4. TaskWake(q, pri', t, m) /\ pri' \in [Task -> Prio] /\ Filed(q, pri', ReadyTasks)
    BY <1>1, <1>3, <2>1 DEF TInv, TcbInv
  <2>5. ListInv'
    BY <1>1, <1>3, <2>1, <2>2, <2>4, ListWake DEF StepFrom
  <2>6. CallInv'
    <3>1. \A u \in Task : (pc'[u] = pc[u] \/ pc'[u] = "sched") /\ arg'[u] = arg[u]
      BY <2>1, CallThen
    <3> QED
      BY <2>2, <2>4, <3>1, CallWake
  <2>7. HeldUsed'
    BY <1>1, <2>1 DEF HeldUsed, Held
  <2>8. WaitersHaveOwner'
    <3>1. /\ \A w \in WaitList \ {m} : waiting'[w] = waiting[w] /\ muxOwner'[w] = muxOwner[w]
          /\ ~Linked(waiting'[m], muxOwner'[m])
      BY <2>1, <2>3 DEF MuxStateInv, TInv, TcbInv
    <3>2. m \in muxUsed
      BY <1>1 DEF HeldUsed
    <3> QED
      BY <1>1, <2>1, <3>1, <3>2 DEF WaitersHaveOwner, Held
  <2> QED
    BY <2>5, <2>6, <2>7, <2>8
<1>6. CASE waiting[m] = << >>
  <2>1. /\ muxCount' = [muxCount EXCEPT ![m] = 0]
        /\ ready' = q /\ ThenReturn
        /\ UNCHANGED <<muxOwner, status, waiting, due>>
    BY <1>6 DEF MuxPost
  <2> HIDE DEF q, restored
  <2>2. ReadyInv'
    <3>1. ReadyTasks' = ReadyTasks
      BY <2>1 DEF ReadyTasks, Is
    <3> QED
      BY <1>1, <1>3, <2>1, <3>1 DEF ReadyInv
  <2>3. DueInv' /\ BlockInv'
    <3>1. DueInv' /\ \A u \in Task : Halted(u)' => Halted(u)
      BY <1>1, <2>1 DEF ListInv, DueInv, Halted, Is, isr
    <3> QED
      BY <2>1, <3>1, BlockKeep DEF ThenReturn, sched, ListInv, Stopping
  <2>4. ListInv'
    BY <1>1, <2>1, <2>2, <2>3, ListReorder DEF StepFrom, ThenReturn, sched
  <2>5. CallInv'
    BY <2>1, CallNoTimer DEF ThenReturn
  <2>6. HeldUsed' /\ WaitersHaveOwner'
    <3>1. \A w \in WaitList \ {m} : muxCount'[w] = muxCount[w]
      BY <2>1 DEF MuxStateInv
    <3>2. ~Held(m)'
      BY <2>1 DEF Held, MuxStateInv
    <3> QED
      BY <1>1, <1>6, <2>1, <3>1, <3>2 DEF HeldUsed, WaitersHaveOwner, Held
  <2> QED
    BY <2>4, <2>5, <2>6
<1> QED
  BY <1>5, <1>6

LEMMA HoldReturn ==
  ASSUME MuxFrom, NEW c \in Task, MuxPendReturn(c)
  PROVE  HoldInv'
<1> USE DEF MuxFrom, MuxInv, HoldInv
<1>1. /\ Running(c) /\ pc[c] = "ret" /\ UNCHANGED mux
      /\ status' = [status EXCEPT ![c] = status[c] \ {"TIMEOUT"}]
      /\ Back(c)
  BY DEF MuxPendReturn, Back, NoUnlinking
<1>2. ListInv'
  BY <1>1, ListBack DEF StepFrom
<1>3. CallInv'
  BY <1>1, CallBack DEF TInv, TcbInv
<1>4. HeldUsed' /\ WaitersHaveOwner'
  BY <1>1 DEF HeldUsed, WaitersHaveOwner, Held, mux, Back
<1> QED
  BY <1>2, <1>3, <1>4

(* The steps of a mutex that leave the scheduler alone.                    *)
LEMMA HoldAlone ==
  ASSUME MuxFrom, UNCHANGED vars, HeldUsed', WaitersHaveOwner'
  PROVE  HoldInv'
<1>1. ListInv'
  BY ListInvStep DEF MuxFrom, MuxInv, HoldInv
<1>2. CallInv'
  BY CallKeep DEF vars, tcb, MuxFrom, HoldInv, Is
<1> QED
  BY <1>1, <1>2 DEF HoldInv

LEMMA HoldStep ==
  ASSUME MuxFrom, MuxStep
  PROVE  HoldInv'
<1> PICK c \in Task \cup {Isr}, m \in WaitList :
      \/ MuxCreate(c, m) \/ MuxDelete(c, m)
      \/ MuxTake(c, m) \/ MuxNest(c, m) \/ \E n \in Timeouts : MuxWait(c, m, n)
      \/ MuxUnnest(c, m) \/ MuxPost(c, m)
  BY DEF MuxStep
<1> USE DEF MuxFrom, MuxInv, HoldInv
<1>1. CASE MuxCreate(c, m)
  <2>1. UNCHANGED <<vars, waiting>> /\ waiting[m] = << >>
    BY <1>1 DEF MuxCreate, vars, tcb, WaitersHaveOwner
  <2>2. /\ muxUsed' = muxUsed \cup {m} /\ muxCount'[m] = 0
        /\ \A w \in WaitList \ {m} : muxCount'[w] = muxCount[w] /\ muxOwner'[w] = muxOwner[w]
    BY <1>1 DEF MuxCreate, MuxStateInv
  <2>3. HeldUsed' /\ WaitersHaveOwner'
    BY <2>1, <2>2 DEF HeldUsed, WaitersHaveOwner, Held
  <2> QED
    BY <2>1, <2>3, HoldAlone
<1>2. CASE MuxDelete(c, m)
  <2>1. UNCHANGED <<vars, waiting>>
    BY <1>2 DEF MuxDelete, vars, tcb
  <2>2. HeldUsed' /\ WaitersHaveOwner'
    BY <1>2, <2>1 DEF MuxDelete, HeldUsed, WaitersHaveOwner, Held
  <2> QED
    BY <2>1, <2>2, HoldAlone
<1>3. CASE MuxTake(c, m)
  <2>1. UNCHANGED <<vars, waiting, muxUsed>> /\ waiting[m] = << >> /\ m \in muxUsed
    BY <1>3 DEF MuxTake, vars, tcb, WaitersHaveOwner
  <2>2. \A w \in WaitList \ {m} : muxCount'[w] = muxCount[w] /\ muxOwner'[w] = muxOwner[w]
    BY <1>3 DEF MuxTake, MuxStateInv
  <2>3. HeldUsed' /\ WaitersHaveOwner'
    BY <2>1, <2>2 DEF HeldUsed, WaitersHaveOwner, Held
  <2> QED
    BY <2>1, <2>3, HoldAlone
<1>4. CASE MuxNest(c, m) \/ MuxUnnest(c, m)
  <2>1. UNCHANGED <<vars, waiting, muxUsed, muxOwner>>
    BY <1>4 DEF MuxNest, MuxUnnest, vars, tcb
  <2>2. muxCount[m] > 0 /\ muxCount'[m] > 0
    BY <1>4 DEF MuxNest, MuxUnnest, MuxStateInv, Owns, Held
  <2>3. \A w \in WaitList \ {m} : muxCount'[w] = muxCount[w]
    BY <1>4 DEF MuxNest, MuxUnnest, MuxStateInv
  <2>4. HeldUsed' /\ WaitersHaveOwner'
    BY <2>1, <2>2, <2>3 DEF HeldUsed, WaitersHaveOwner, Held
  <2> QED
    BY <2>1, <2>4, HoldAlone
<1> QED
  BY <1>1, <1>2, <1>3, <1>4, HoldWait, HoldPost

LEMMA HoldInvStep ==
  ASSUME MuxInv, HoldInv, [MuxNext]_muxvars
  PROVE  HoldInv'
<1>1. MuxFrom
  BY MuxInvStep DEF MuxFrom
<1>2. CASE UNCHANGED muxvars
  <2>1. UNCHANGED <<vars, mux, waiting>>
    BY <1>2 DEF muxvars, vars, tcb
  <2>2. HeldUsed' /\ WaitersHaveOwner'
    BY <2>1 DEF HeldUsed, WaitersHaveOwner, Held, mux, HoldInv
  <2> QED
    BY <1>1, <2>1, <2>2, HoldAlone
<1>3. CASE Next /\ UNCHANGED mux
  <2>1. HeldUsed'
    BY <1>3 DEF HeldUsed, Held, mux, HoldInv
  <2> QED
    BY <1>3, <2>1, ListInvStep, CallInvStep, OwnerScheduler DEF HoldInv, MuxInv
<1> QED
  BY <1>1, <1>2, <1>3, HoldStep, HoldReturn DEF MuxNext, Returns

LEMMA HoldInvAlways == MuxSpec => [](MuxInv /\ HoldInv)
BY MuxInvAlways, HoldInit, HoldInvStep, PTL DEF MuxSpec

(* Mutexes rewrite priorities and the ready queue, and no task falls out   *)
(* of it or is filed under a priority it no longer has.                    *)
THEOREM MuxReadyQueueExact == MuxSpec => []ReadyQueueExact
<1>1. MuxInv /\ HoldInv => ReadyQueueExact
  BY ListInvReadyQueue DEF MuxInv, HoldInv
<1> QED
  BY <1>1, HoldInvAlways, PTL

(* Nobody waits for a mutex that is free, deleted or his own: whoever      *)
(* waits can be handed the mutex by a LOS_MuxPost.                         *)
THEOREM WaitersHaveOwnerHolds == MuxSpec => []WaitersHaveOwner
BY HoldInvAlways, PTL DEF HoldInv
-----------------------------------------------------------------------------
(***************************************************************************)
(* The outcome of a wait.  Without LOS_MuxPost in interrupt handlers the   *)
(* owner of a mutex changes only while its owner executes its own code, so *)
(* that a task that was handed the mutex still owns it when it returns     *)
(* from LOS_MuxPend, and a task whose time has come is handed nothing.     *)
(***************************************************************************)
LEMMA OwnerReleases ==
  ASSUME IsrPosts = FALSE, MuxInv, HoldInv, MuxNext, NEW m \in WaitList, Held(m),
         ~Held(m)' \/ muxOwner'[m] # muxOwner[m]
  PROVE  /\ Running(muxOwner[m]) /\ pc[muxOwner[m]] = "user"
         /\ \E c \in Task : MuxPost(c, m)
<1> USE DEF MuxInv, HoldInv, MuxStateInv
<1>1. ~UNCHANGED mux
  BY DEF mux, Held
<1>2. PICK c \in Task \cup {Isr}, w \in WaitList :
        \/ MuxCreate(c, w) \/ MuxDelete(c, w)
        \/ MuxTake(c, w) \/ MuxNest(c, w) \/ MuxUnnest(c, w) \/ MuxPost(c, w)
  BY <1>1 DEF MuxNext, MuxStep, Returns, MuxPendReturn, MuxWait
<1>3. ~MuxCreate(c, w)
  BY DEF MuxCreate, HeldUsed, Held
<1>4. ~MuxDelete(c, w) /\ ~MuxTake(c, w)
  BY DEF MuxDelete, MuxTake, Held
<1>5. ~MuxNest(c, w) /\ ~MuxUnnest(c, w)
  BY DEF MuxNest, MuxUnnest, Held
<1>6. MuxPost(c, w) /\ w = m
  BY <1>2, <1>3, <1>4, <1>5 DEF MuxPost, Held
<1>7. c \in Task /\ Running(c) /\ pc[c] = "user" /\ muxOwner[m] = run
  BY <1>6 DEF MuxPost, Enters, Owns
<1> QED
  BY <1>6, <1>7 DEF Running

LEMMA GrantScheduler ==
  ASSUME MuxInv, HoldInv, GrantedIsOwner, Next, UNCHANGED mux
  PROVE  GrantedIsOwner'
<1> SUFFICES ASSUME NEW t \in Task, arg'[t] \in WaitList, ~Is(t, "PEND")'
             PROVE  Owns(t, arg[t])' <=> ~Is(t, "TIMEOUT")'
  BY DEF GrantedIsOwner
<1>1. SameWait(t) /\ arg[t] \in WaitList /\ arg'[t] = arg[t]
  BY WaitKept DEF MuxInv, HoldInv, SameWait
<1>2. Owns(t, arg[t])' <=> Owns(t, arg[t])
  BY <1>1 DEF Owns, Held, mux
<1>3. CASE ~Is(t, "PEND")
  BY <1>1, <1>2, <1>3 DEF GrantedIsOwner, SameWait, SameFlag, Is
<1>4. CASE Is(t, "PEND")
  <2>1. Is(t, "TIMEOUT") /\ Is(t, "TIMEOUT")'
    BY <1>1, <1>4 DEF SameWait, SameFlag, Is
  <2>2. Linked(waiting[arg[t]], t)
    BY <1>1, <1>4 DEF MuxInv, TInv, TcbInv, HoldInv, ListInv, WaitInv, Filed, PendTasks
  <2>3. waiting[arg[t]] # << >>
    BY <2>2 DEF Linked, ToSet
  <2>4. ~Owns(t, arg[t])
    BY <1>1, <2>2, <2>3 DEF HoldInv, WaitersHaveOwner, Owns
  <2> QED
    BY <1>2, <2>1, <2>4
<1> QED
  BY <1>3, <1>4

LEMMA GrantWait ==
  ASSUME MuxInv, HoldInv, GrantedIsOwner, NEW c \in Task \cup {Isr},
         NEW m \in WaitList, NEW n \in Timeouts, MuxWait(c, m, n)
  PROVE  GrantedIsOwner'
<1> SUFFICES ASSUME NEW t \in Task, arg'[t] \in WaitList, ~Is(t, "PEND")'
             PROVE  Owns(t, arg[t])' <=> ~Is(t, "TIMEOUT")'
  BY DEF GrantedIsOwner
<1>1. c \in Task /\ arg' = [arg EXCEPT ![c] = m] /\ UNCHANGED mux
  BY DEF MuxWait, Enters
<1>2. \E flags \in {{"PEND"}, {"PEND", "TIMEOUT"}} :
        status' = [status EXCEPT ![c] = (status[c] \ {"READY"}) \cup flags]
  BY DEF MuxWait, TaskWait
<1>3. "PEND" \in status'[c]
  BY <1>1, <1>2 DEF MuxInv, TInv, TcbInv
<1>4. t # c
  BY <1>3 DEF Is
<1>5. status'[t] = status[t] /\ arg'[t] = arg[t]
  BY <1>1, <1>2, <1>4 DEF MuxInv, TInv, TcbInv, PlaceInv
<1> QED
  BY <1>1, <1>5 DEF GrantedIsOwner, Is, Owns, Held, mux

LEMMA GrantPost ==
  ASSUME MuxInv, HoldInv, GrantedIsOwner, NEW c \in Task, NEW m \in WaitList,
         MuxPost(c, m)
  PROVE  GrantedIsOwner'
<1> USE DEF MuxInv, HoldInv
<1> SUFFICES ASSUME NEW t \in Task, arg'[t] \in WaitList, ~Is(t, "PEND")'
             PROVE  Owns(t, arg[t])' <=> ~Is(t, "TIMEOUT")'
  BY DEF GrantedIsOwner
<1>1. /\ muxOwner[m] = c /\ pc[c] = "user" /\ arg[c] \notin WaitList
      /\ arg' = arg /\ t # c
  <2>1. muxOwner[m] = c /\ pc[c] = "user"
    BY TaskAssumption DEF MuxPost, Enters, Running, Owns
  <2>2. arg[c] \notin WaitList /\ arg' = arg
    BY <2>1, CallOutside DEF MuxPost, ThenSchedule, ThenReturn
  <2> QED
    BY <2>1, <2>2
<1> DEFINE h == Head(waiting[m])
<1>2. ~Owns(t, m)
  BY <1>1 DEF Owns
<1>3. CASE waiting[m] = << >>
  <2>1. muxCount' = [muxCount EXCEPT ![m] = 0] /\ UNCHANGED <<muxOwner, status>>
    BY <1>3 DEF MuxPost
  <2>2. Owns(t, arg[t])' <=> Owns(t, arg[t])
    BY <1>1, <1>2, <2>1 DEF Owns, Held, MuxStateInv
  <2> QED
    BY <1>1, <2>1, <2>2 DEF GrantedIsOwner, Is
<1>4. CASE waiting[m] # << >>
  <2>1. /\ muxOwner' = [muxOwner EXCEPT ![m] = h] /\ UNCHANGED muxCount
        /\ \E flags \in {{}, {"READY"}} :
             status' = [status EXCEPT ![h] = Woken(h) \cup flags]
    <3>1. Woken(h) \cup {} = Woken(h)
      OBVIOUS
    <3> QED
      BY <1>4, <3>1 DEF MuxPost, TaskWake
  <2>2. h \in Task /\ Linked(waiting[m], h)
    BY <1>4, TailLinks DEF TInv, TcbInv
  <2>3. arg[h] = m
    BY <2>2, WaiterPends
  <2> HIDE DEF h
  <2>4. CASE t = h
    <3>1. "TIMEOUT" \notin status'[t]
      BY <2>1, <2>2, <2>4 DEF TInv, TcbInv, Woken
    <3>2. muxOwner'[m] = t /\ muxCount'[m] > 0
      BY <2>1, <2>4 DEF MuxPost, MuxStateInv, Owns, Held
    <3> QED
      BY <1>1, <2>3, <2>4, <3>1, <3>2 DEF Is, Owns, Held
  <2>5. CASE t # h
    <3>1. status'[t] = status[t]
      BY <2>1, <2>2, <2>5 DEF TInv, TcbInv
    <3>2. Owns(t, arg[t])' <=> Owns(t, arg[t])
      BY <1>1, <1>2, <2>1, <2>5 DEF Owns, Held, MuxStateInv
    <3> QED
      BY <1>1, <3>1, <3>2 DEF GrantedIsOwner, Is
  <2> QED
    BY <2>4, <2>5
<1> QED
  BY <1>3, <1>4

LEMMA GrantAlone ==
  ASSUME MuxInv, HoldInv, GrantedIsOwner, UNCHANGED vars,
         \A t \in Task, m \in WaitList : arg[t] = m => (Owns(t, m)' <=> Owns(t, m))
  PROVE  GrantedIsOwner'
BY DEF GrantedIsOwner, vars, tcb, Is

LEMMA GrantStep ==
  ASSUME IsrPosts = FALSE, MuxInv, HoldInv, GrantedIsOwner, MuxStep
  PROVE  GrantedIsOwner'
<1> PICK c \in Task \cup {Isr}, m \in WaitList :
      \/ MuxCreate(c, m) \/ MuxDelete(c, m)
      \/ MuxTake(c, m) \/ MuxNest(c, m) \/ \E n \in Timeouts : MuxWait(c, m, n)
      \/ MuxUnnest(c, m) \/ MuxPost(c, m)
  BY DEF MuxStep
<1> USE DEF MuxInv, HoldInv, MuxStateInv
<1>1. CASE MuxCreate(c, m)
  <2>1. /\ UNCHANGED vars /\ ~Held(m) /\ muxCount' = [muxCount EXCEPT ![m] = 0]
        /\ muxOwner' = [muxOwner EXCEPT ![m] = NoArg]
    BY <1>1 DEF MuxCreate, HeldUsed
  <2> QED
    BY <2>1, GrantAlone DEF Owns, Held
<1>2. CASE MuxDelete(c, m)
  BY <1>2, GrantAlone DEF MuxDelete, Owns, Held
<1>3. CASE MuxTake(c, m)
  <2>1. c \in Task /\ pc[c] = "user"
    BY <1>3 DEF MuxTake, Enters
  <2>2. arg[c] \notin WaitList
    BY <2>1, CallOutside
  <2> QED
    BY <1>3, <2>1, <2>2, GrantAlone DEF MuxTake, Owns, Held
<1>4. CASE MuxNest(c, m) \/ MuxUnnest(c, m)
  <2>1. /\ UNCHANGED <<vars, muxOwner>> /\ Held(m) /\ Held(m)'
        /\ \A w \in WaitList \ {m} : muxCount'[w] = muxCount[w]
    BY <1>4 DEF MuxNest, MuxUnnest, Owns, Held
  <2>2. \A w \in WaitList : Held(w)' <=> Held(w)
    BY <2>1 DEF Held
  <2> QED
    BY <2>1, <2>2, GrantAlone DEF Owns
<1>5. CASE MuxPost(c, m)
  <2>1. c \in Task
    BY <1>5 DEF MuxPost
  <2> QED
    BY <1>5, <2>1, GrantPost
<1> QED
  BY <1>1, <1>2, <1>3, <1>4, <1>5, GrantWait

LEMMA GrantReturn ==
  ASSUME MuxInv, HoldInv, GrantedIsOwner, NEW c \in Task, MuxPendReturn(c)
  PROVE  GrantedIsOwner'
<1> SUFFICES ASSUME NEW t \in Task, arg'[t] \in WaitList, ~Is(t, "PEND")'
             PROVE  Owns(t, arg[t])' <=> ~Is(t, "TIMEOUT")'
  BY DEF GrantedIsOwner
<1>1. /\ status' = [status EXCEPT ![c] = status[c] \ {"TIMEOUT"}]
      /\ arg' = [arg EXCEPT ![c] = NoArg] /\ UNCHANGED mux
  BY DEF MuxPendReturn
<1>2. t # c
  BY <1>1, TaskAssumption DEF MuxInv, TInv, PlaceInv
<1>3. status'[t] = status[t] /\ arg'[t] = arg[t]
  BY <1>1, <1>2 DEF MuxInv, TInv, TcbInv, PlaceInv
<1> QED
  BY <1>1, <1>3 DEF GrantedIsOwner, Is, Owns, Held, mux

LEMMA GrantInvStep ==
  ASSUME IsrPosts = FALSE, MuxInv, HoldInv, GrantedIsOwner, [MuxNext]_muxvars
  PROVE  GrantedIsOwner'
<1>1. CASE UNCHANGED muxvars
  BY <1>1, GrantAlone DEF muxvars, mux, Owns, Held
<1> QED
  BY <1>1, GrantScheduler, GrantStep, GrantReturn DEF MuxNext, Returns

(* LOS_MuxPend after a wait returns LOS_OK exactly to the task the mutex   *)
(* was handed to, whichever of the timeout and the hand-over came first.   *)
(* Interrupt handlers must not call LOS_MuxPost, which acts for whatever   *)
(* task they interrupt: the run mux_preempt shows what happens otherwise.  *)
THEOREM GrantedIsOwnerHolds ==
  ASSUME IsrPosts = FALSE
  PROVE  MuxSpec => []GrantedIsOwner
<1>1. MuxInit => GrantedIsOwner
  BY TaskAssumption DEF MuxInit, Init, GrantedIsOwner
<1>2. MuxInv /\ HoldInv /\ GrantedIsOwner /\ [MuxNext]_muxvars => GrantedIsOwner'
  BY GrantInvStep
<1> QED
  BY <1>1, <1>2, HoldInvAlways, PTL DEF MuxSpec

(* No call, timeout or deletion of another task takes a mutex away from    *)
(* its owner, under the same condition.                                    *)
THEOREM OnlyOwnerReleasesHolds ==
  ASSUME IsrPosts = FALSE
  PROVE  MuxSpec => OnlyOwnerReleases
<1> DEFINE A == \A m \in WaitList : Held(m) /\ (~Held(m)' \/ muxOwner'[m] # muxOwner[m])
                  => Running(muxOwner[m]) /\ pc[muxOwner[m]] = "user"
<1>1. MuxInv /\ HoldInv /\ [MuxNext]_muxvars => [A]_muxvars
  BY OwnerReleases
<1> QED
  BY <1>1, HoldInvAlways, PTL DEF MuxSpec, OnlyOwnerReleases
-----------------------------------------------------------------------------
(***************************************************************************)
(* The priorities that are lent.  LOS_MuxPost gives the owner back what    *)
(* LOS_MuxPend or the hand-over recorded, so that the record must be the   *)
(* owner's own priority: it is if the owner held nothing else by then.     *)
(***************************************************************************)
NotNested ==
  \A t \in Task, m, n \in WaitList : Owns(t, m) /\ Owns(t, n) => m = n

LentInv ==
  /\ \A m \in WaitList : Held(m) => muxPri[m] = BootPri[muxOwner[m]]
  /\ \A t \in Task : pri[t] = BootPri[t] \/ \E m \in WaitList : Owns(t, m)

LEMMA LentKeep ==
  ASSUME LentInv, UNCHANGED pri,
         \A m \in WaitList : Held(m)' =>
           Held(m) /\ muxOwner'[m] = muxOwner[m] /\ muxPri'[m] = muxPri[m],
         \A m \in WaitList : Held(m) => Held(m)'
  PROVE  LentInv'
BY DEF LentInv, Owns

LEMMA LentScheduler ==
  ASSUME UserPri = {}, LentInv, Next, UNCHANGED mux
  PROVE  LentInv'
<1>1. ASSUME NEW c \in Task \cup {Isr}, CallStep(c) PROVE UNCHANGED pri
  BY <1>1 DEF CallStep, TaskCreateOnly, TaskCreateNoMemory, TaskResume, TaskSuspend,
     TaskDelete, Delete, TaskExit, TaskDelay, TaskPriSet, TaskYield, TaskLock, TaskUnlock, tcb
<1>2. UNCHANGED pri
  BY <1>1 DEF Next, TaskStep, LosSchedule, TaskCreateReady, TaskEntryEnd, Delete,
     TickStep, TickStart, ExpireOne, EndScan, PendSV, tcb
<1> QED
  BY <1>2, LentKeep DEF mux, Held

LEMMA LentTake ==
  ASSUME MuxInv, LentInv, NotNested', NEW c \in Task \cup {Isr}, NEW m \in WaitList,
         MuxTake(c, m)
  PROVE  LentInv'
<1> USE DEF MuxInv, MuxStateInv
<1>1. /\ c \in Task /\ ~Held(m) /\ UNCHANGED pri
      /\ muxCount'[m] > 0 /\ muxOwner'[m] = c /\ muxPri'[m] = pri[c]
      /\ \A w \in WaitList \ {m} : /\ muxCount'[w] = muxCount[w]
                                   /\ muxOwner'[w] = muxOwner[w]
                                   /\ muxPri'[w] = muxPri[w]
  BY DEF MuxTake, Enters, vars, tcb, Held
<1>2. \A t \in Task, w \in WaitList : Owns(t, w) => w # m /\ Owns(t, w)'
  BY <1>1 DEF Owns, Held
<1>3. Owns(c, m)'
  BY <1>1 DEF Owns, Held
<1>4. \A w \in WaitList : ~Owns(c, w)
  BY <1>1, <1>2, <1>3 DEF NotNested
<1>5. pri[c] = BootPri[c]
  BY <1>1, <1>4 DEF LentInv
<1>6. ASSUME NEW w \in WaitList, Held(w)' PROVE muxPri'[w] = BootPri[muxOwner'[w]]
  BY <1>1, <1>5, <1>6 DEF LentInv, Held
<1>7. ASSUME NEW t \in Task PROVE pri'[t] = BootPri[t] \/ \E w \in WaitList : Owns(t, w)'
  BY <1>1, <1>2 DEF LentInv
<1> QED
  BY <1>6, <1>7 DEF LentInv

LEMMA LentWait ==
  ASSUME MuxInv, LentInv, NEW c \in Task \cup {Isr}, NEW m \in WaitList,
         NEW n \in Timeouts, MuxWait(c, m, n)
  PROVE  LentInv'
<1>1. /\ Held(m) /\ UNCHANGED mux
      /\ \A u \in Task : u # muxOwner[m] => pri'[u] = pri[u]
  BY DEF MuxWait, MuxInv, TInv, TcbInv
<1> QED
  BY <1>1 DEF LentInv, Owns, Held, mux

LEMMA LentPost ==
  ASSUME MuxInv, HoldInv, LentInv, NotNested', NEW c \in Task \cup {Isr},
         NEW m \in WaitList, MuxPost(c, m)
  PROVE  LentInv'
<1> USE DEF MuxInv, MuxStateInv
<1>1. /\ Held(m) /\ muxOwner[m] = run /\ run \in Task /\ muxPri[m] = BootPri[run]
      /\ pri' = [pri EXCEPT ![run] = muxPri[m]]
  BY DEF MuxPost, Owns, LentInv, Waiter
<1>2. pri'[run] = BootPri[run] /\ \A u \in Task \ {run} : pri'[u] = pri[u]
  BY <1>1 DEF TInv, TcbInv
<1>3. /\ \A w \in WaitList \ {m} : /\ muxCount'[w] = muxCount[w]
                                   /\ muxOwner'[w] = muxOwner[w]
                                   /\ muxPri'[w] = muxPri[w]
  BY DEF MuxPost
<1>4. \A u \in Task \ {run}, w \in WaitList : Owns(u, w) => w # m /\ Owns(u, w)'
  BY <1>1, <1>3 DEF Owns, Held
<1>5. ASSUME NEW u \in Task PROVE pri'[u] = BootPri[u] \/ \E w \in WaitList : Owns(u, w)'
  BY <1>2, <1>4 DEF LentInv
<1>6. ASSUME NEW w \in WaitList \ {m}, Held(w)' PROVE muxPri'[w] = BootPri[muxOwner'[w]]
  BY <1>3, <1>6 DEF LentInv, Held
<1>7. CASE waiting[m] = << >>
  <2>1. ~Held(m)'
    BY <1>7 DEF MuxPost, Held
  <2> QED
    BY <1>5, <1>6, <2>1 DEF LentInv
<1>8. CASE waiting[m] # << >>
  <2>1. PICK h \in Task : h = Head(waiting[m]) /\ Linked(waiting[m], h)
    BY <1>8, TailLinks DEF TInv, TcbInv
  <2>2. /\ muxOwner'[m] = h /\ muxCount'[m] > 0
        /\ muxPri'[m] = [pri EXCEPT ![run] = muxPri[m]][h]
    BY <1>1, <1>8, <2>1 DEF MuxPost, Held
  <2>3. h # run
    BY <1>1, <1>8, <2>1 DEF HoldInv, WaitersHaveOwner
  <2>4. Owns(h, m)' /\ muxPri'[m] = pri[h]
    BY <1>1, <2>2, <2>1, <2>3 DEF Owns, Held, TInv, TcbInv
  <2>5. \A w \in WaitList : ~Owns(h, w)
    BY <1>4, <2>1, <2>3, <2>4 DEF NotNested
  <2>6. muxPri'[m] = BootPri[muxOwner'[m]]
    BY <2>2, <2>1, <2>4, <2>5 DEF LentInv
  <2> QED
    BY <1>5, <1>6, <2>6 DEF LentInv
<1> QED
  BY <1>7, <1>8

LEMMA LentInvStep ==
  ASSUME UserPri = {}, MuxInv, HoldInv, LentInv, NotNested', [MuxNext]_muxvars
  PROVE  LentInv'
<1>1. CASE UNCHANGED muxvars
  BY <1>1, LentKeep DEF muxvars, mux, vars, tcb, Held
<1>2. CASE Returns
  BY <1>2, LentKeep DEF Returns, MuxPendReturn, mux, Held
<1>3. CASE MuxStep
  <2> PICK c \in Task \cup {Isr}, m \in WaitList :
        \/ MuxCreate(c, m) \/ MuxDelete(c, m)
        \/ MuxTake(c, m) \/ MuxNest(c, m) \/ \E n \in Timeouts : MuxWait(c, m, n)
        \/ MuxUnnest(c, m) \/ MuxPost(c, m)
    BY <1>3 DEF MuxStep
  <2>1. CASE MuxCreate(c, m)
    <3>1. UNCHANGED pri /\ ~Held(m) /\ ~Held(m)'
      BY <2>1 DEF MuxCreate, vars, tcb, HoldInv, HeldUsed, MuxInv, MuxStateInv, Held
    <3>2. \A w \in WaitList \ {m} : /\ muxCount'[w] = muxCount[w]
                                    /\ muxOwner'[w] = muxOwner[w]
                                    /\ muxPri'[w] = muxPri[w]
      BY <2>1 DEF MuxCreate, MuxInv, MuxStateInv
    <3> QED
      BY <3>1, <3>2, LentKeep DEF Held
  <2>2. CASE MuxDelete(c, m)
    BY <2>2, LentKeep DEF MuxDelete, vars, tcb, Held
  <2>3. CASE MuxNest(c, m) \/ MuxUnnest(c, m)
    <3>1. /\ UNCHANGED <<pri, muxOwner, muxPri>> /\ Held(m) /\ Held(m)'
          /\ \A w \in WaitList \ {m} : muxCount'[w] = muxCount[w]
      BY <2>3 DEF MuxNest, MuxUnnest, vars, tcb, MuxInv, MuxStateInv, Owns, Held
    <3> QED
      BY <3>1, LentKeep DEF Held
  <2> QED
    BY <2>1, <2>2, <2>3, LentTake, LentWait, LentPost
<1> QED
  BY <1>1, <1>2, <1>3, LentScheduler DEF MuxNext

(* A task that owns no mutex has its own priority back, however many       *)
(* waiters raised it and however their waits ended, while no task owns two *)
(* mutexes at a time (with two, LOS_MuxPost may restore a lent priority)   *)
(* and nobody sets priorities by hand.                                     *)
THEOREM BorrowedReturnedHolds ==
  ASSUME UserPri = {}
  PROVE  MuxSpec /\ []NotNested => []BorrowedReturned
<1>1. MuxInit => LentInv
  BY DEF MuxInit, Init, LentInv, Held
<1>2. MuxInv /\ HoldInv /\ LentInv /\ NotNested' /\ [MuxNext]_muxvars => LentInv'
  BY LentInvStep
<1>3. LentInv => BorrowedReturned
  BY DEF LentInv, BorrowedReturned
<1> QED
  BY <1>1, <1>2, <1>3, HoldInvAlways, PTL DEF MuxSpec
=============================================================================
