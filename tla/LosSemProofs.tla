---------------------------- MODULE LosSemProofs ----------------------------
(***************************************************************************)
(* Theorems of the semaphores, for any number of tasks and semaphores, any *)
(* counts and timeouts, and any calls of the scheduler between theirs.     *)
(***************************************************************************)
EXTENDS LosSem, LosTaskProofs

(***************************************************************************)
(* The scheduler's own steps only shorten wait lists.                      *)
(***************************************************************************)
NoneJoins == \A s \in WaitList : waiting[s] = << >> => waiting'[s] = << >>

LEMMA NoneJoinsSame ==
  ASSUME UNCHANGED waiting
  PROVE  NoneJoins
BY DEF NoneJoins

LEMMA NoneJoinsUnlink ==
  ASSUME NEW t, waiting' = [w \in WaitList |-> Unlink(waiting[w], t)]
  PROVE  NoneJoins
BY UnlinkEmpty DEF NoneJoins

LEMMA SchedulerShortens ==
  ASSUME Next
  PROVE  NoneJoins
BY SchedulerUnlinks, NoneJoinsSame, NoneJoinsUnlink
-----------------------------------------------------------------------------
(***************************************************************************)
(* The inductive invariant.  That a count stays within its type rests on   *)
(* it never passing the semaphore's own maximum, which LOS_SemPost tests   *)
(* for equality only; that a count excludes waiters, on a control block    *)
(* that is not in use having none, since LOS_SemCreate sets any count.     *)
(***************************************************************************)
CountInv ==
  /\ semUsed \subseteq WaitList
  /\ semMax \in [WaitList -> {BinaryMax, CountingMax}]
  /\ semCount \in [WaitList -> Nat]
  /\ \A s \in WaitList : semCount[s] <= semMax[s]

SemInv == TInv /\ CountInv /\ CountOrWaiters /\ WaitersOnUsed

LEMMA SemInvTypes ==
  ASSUME SemInv
  PROVE  SemTypeOK
<1>1. semCount \in [WaitList -> 0 .. CountingMax]
  BY CountAssumption DEF SemInv, CountInv
<1> QED
  BY <1>1, TInvTypes DEF SemInv, CountInv, SemTypeOK

LEMMA SemInvInit ==
  ASSUME SemInit
  PROVE  SemInv
<1>1. TInv
  BY TInvInit DEF SemInit
<1>2. CountInv /\ CountOrWaiters /\ WaitersOnUsed
  BY CountAssumption DEF SemInit, Init, CountInv, CountOrWaiters, WaitersOnUsed
<1> QED
  BY <1>1, <1>2 DEF SemInv

(* What a step that touches no semaphore leaves of the invariant.          *)
LEMMA SemInvSame ==
  ASSUME SemInv, NoneJoins, UNCHANGED sem
  PROVE  CountInv' /\ CountOrWaiters' /\ WaitersOnUsed'
BY DEF SemInv, NoneJoins, sem, CountInv, CountOrWaiters, WaitersOnUsed

LEMMA TInvSame ==
  ASSUME TInv, UNCHANGED vars
  PROVE  TInv'
BY TInvStep DEF vars

(***************************************************************************)
(* The steps of los_sem.c.                                                 *)
(***************************************************************************)
LEMMA SemWaitInv ==
  ASSUME SemInv, NEW c \in Task, NEW s \in WaitList, NEW n \in Timeouts,
         SemWait(c, s, n)
  PROVE  SemInv'
<1> USE TaskAssumption, NumberAssumption
<1>1. c # Idle /\ TInv /\ UNCHANGED <<pri, sem>> /\ WaitTime(n)
  BY Callers DEF SemWait, SemInv, Timeouts, WaitTime
<1>2. TInv'
  BY <1>1, TypeWait DEF SemWait, Waits, TInv, TcbInv
<1>3. waiting' = [waiting EXCEPT ![s] = Append(waiting[s], c)]
  BY DEF SemWait, TaskWait
<1>4. CountInv'
  BY <1>1 DEF SemInv, CountInv, sem
<1>5. CountOrWaiters' /\ WaitersOnUsed'
  BY <1>1, <1>3 DEF SemWait, SemInv, CountOrWaiters, WaitersOnUsed, sem, TInv, TcbInv
<1> QED
  BY <1>2, <1>4, <1>5 DEF SemInv

LEMMA SemPostInv ==
  ASSUME SemInv, NEW c \in Task \cup {Isr}, NEW s \in WaitList, SemPost(c, s)
  PROVE  SemInv'
<1> USE TaskAssumption, NumberAssumption
<1>1. TInv /\ TcbInv /\ c # Idle
  BY Callers DEF SemPost, SemInv, TInv
<1>2. CASE waiting[s] = << >>
  <2>1. /\ semCount' = [semCount EXCEPT ![s] = semCount[s] + 1]
        /\ UNCHANGED <<semUsed, semMax, vars>>
        /\ s \in semUsed /\ semCount[s] # semMax[s]
    BY <1>2 DEF SemPost
  <2>2. semMax[s] \in Nat /\ semCount[s] \in Nat /\ semCount[s] <= semMax[s]
    BY CountAssumption DEF SemInv, CountInv
  <2>3. semCount[s] + 1 \in Nat /\ semCount[s] + 1 <= semMax[s]
    BY <2>1, <2>2
  <2>4. CountInv'
    BY <2>1, <2>3 DEF SemInv, CountInv
  <2>5. waiting' = waiting
    BY <2>1 DEF vars, tcb
  <2>6. CountOrWaiters' /\ WaitersOnUsed'
    BY <1>2, <2>1, <2>5 DEF SemInv, CountInv, CountOrWaiters, WaitersOnUsed
  <2> QED
    BY <1>1, <2>1, <2>4, <2>6, TInvSame DEF SemInv
<1>3. CASE waiting[s] # << >>
  <2> DEFINE t == Head(waiting[s])
  <2>1. /\ TaskWake(ready, pri, t, s) /\ ThenSchedule(c)
        /\ UNCHANGED <<pri, recycle, isr, sem>>
    BY <1>3 DEF SemPost
  <2>2. t \in Task /\ waiting[s] \in Seq(Task)
    BY <1>1, <1>3, TailLinks DEF TcbInv
  <2> HIDE DEF t
  <2>3. TInv'
    BY <1>1, <2>1, <2>2, TypeWake DEF TcbInv
  <2>4. waiting' = [waiting EXCEPT ![s] = Unlink(waiting[s], t)]
    BY <2>1 DEF TaskWake
  <2>5. NoneJoins
    BY <1>1, <2>4, UnlinkEmpty DEF NoneJoins, TcbInv
  <2> QED
    BY <2>1, <2>3, <2>5, SemInvSame DEF SemInv
<1> QED
  BY <1>2, <1>3

LEMMA SemStepInv ==
  ASSUME SemInv, SemStep
  PROVE  SemInv'
<1>1. ASSUME NEW c \in Task \cup {Isr}, NEW s \in WaitList,
             NEW max \in {BinaryMax, CountingMax}, NEW n \in 0 .. CountingMax,
             SemCreate(c, s, n, max)
      PROVE  SemInv'
  <2>1. TInv' /\ waiting' = waiting
    BY <1>1, TInvSame DEF SemCreate, SemInv, vars, tcb
  <2>2. CountInv'
    BY <1>1, CountAssumption DEF SemCreate, SemInv, CountInv
  <2>3. CountOrWaiters' /\ WaitersOnUsed'
    BY <1>1, <2>1 DEF SemCreate, SemInv, CountInv, CountOrWaiters, WaitersOnUsed
  <2> QED
    BY <2>1, <2>2, <2>3 DEF SemInv
<1>2. ASSUME NEW c \in Task \cup {Isr}, NEW s \in WaitList, SemDelete(c, s)
      PROVE  SemInv'
  <2>1. TInv' /\ waiting' = waiting
    BY <1>2, TInvSame DEF SemDelete, SemInv, vars, tcb
  <2>2. CountInv' /\ CountOrWaiters' /\ WaitersOnUsed'
    BY <1>2, <2>1 DEF SemDelete, SemInv, CountInv, CountOrWaiters, WaitersOnUsed
  <2> QED
    BY <2>1, <2>2 DEF SemInv
<1>3. ASSUME NEW c \in Task \cup {Isr}, NEW s \in WaitList, SemTake(c, s)
      PROVE  SemInv'
  <2>1. TInv' /\ waiting' = waiting
    BY <1>3, TInvSame DEF SemTake, SemInv, vars, tcb
  <2>2. /\ semCount[s] \in Nat /\ semMax[s] \in Nat
        /\ semCount[s] > 0 /\ semCount[s] <= semMax[s]
    BY <1>3, CountAssumption DEF SemTake, SemInv, CountInv
  <2>3. semCount[s] - 1 \in Nat /\ semCount[s] - 1 <= semMax[s]
    BY <2>2
  <2>4. CountInv'
    BY <1>3, <2>3 DEF SemTake, SemInv, CountInv
  <2>5. CountOrWaiters' /\ WaitersOnUsed'
    BY <1>3, <2>1, <2>2 DEF SemTake, SemInv, CountInv, CountOrWaiters, WaitersOnUsed
  <2> QED
    BY <2>1, <2>4, <2>5 DEF SemInv
<1> QED
  BY <1>1, <1>2, <1>3, SemPostInv, SemWaitInv DEF SemStep

LEMMA SemReturnInv ==
  ASSUME SemInv, NEW c \in Task, SemPendReturn(c)
  PROVE  SemInv'
<1>1. Back(c) /\ UNCHANGED <<sem, waiting>>
  BY DEF SemPendReturn, Back, NoUnlinking
<1> QED
  BY <1>1, TypeBack, NoneJoinsSame, SemInvSame DEF SemInv

LEMMA SemInvStep ==
  ASSUME SemInv, [SemNext]_semvars
  PROVE  SemInv'
<1>1. CASE UNCHANGED semvars
  <2>1. TInv' /\ NoneJoins /\ UNCHANGED sem
    BY <1>1, TInvSame, NoneJoinsSame DEF semvars, SemInv, vars, tcb
  <2> QED
    BY <2>1, SemInvSame DEF SemInv
<1>2. CASE Next /\ UNCHANGED sem
  <2>1. TInv'
    BY <1>2, TInvStep DEF SemInv
  <2> QED
    BY <1>2, <2>1, SchedulerShortens, SemInvSame DEF SemInv
<1> QED
  BY <1>1, <1>2, SemStepInv, SemReturnInv DEF SemNext, Returns

LEMMA SemInvAlways == SemSpec => []SemInv
BY SemInvInit, SemInvStep, PTL DEF SemSpec

(* The semaphores' variables keep their types, and the scheduler's keep    *)
(* theirs with semaphores in use: no count passes zero or its maximum.     *)
THEOREM SemTypeCorrect == SemSpec => []SemTypeOK
BY SemInvAlways, SemInvTypes, PTL

(* A semaphore never has a count and a waiter at once, whatever timeouts,  *)
(* deletions of waiters and reuses of its control block come in between.   *)
THEOREM CountOrWaitersHolds == SemSpec => []CountOrWaiters
<1>1. SemInv => CountOrWaiters
  BY DEF SemInv
<1> QED
  BY <1>1, SemInvAlways, PTL

(* Nobody ever waits for a semaphore that has been deleted.                *)
THEOREM WaitersOnUsedHolds == SemSpec => []WaitersOnUsed
<1>1. SemInv => WaitersOnUsed
  BY DEF SemInv
<1> QED
  BY <1>1, SemInvAlways, PTL
-----------------------------------------------------------------------------
(***************************************************************************)
(* The lists of the scheduler under the steps of los_sem.c.                *)
(***************************************************************************)
HoldInv == ListInv /\ CallInv

(* Every step starts from here; that it keeps SemInv is shown above.       *)
SemFrom == SemInv /\ HoldInv /\ SemInv'

LEMMA HoldWait ==
  ASSUME SemFrom, NEW c \in Task, NEW s \in WaitList, NEW n \in Timeouts,
         SemWait(c, s, n)
  PROVE  HoldInv'
<1> USE DEF SemFrom, SemInv, HoldInv
<1>1. /\ Running(c) /\ pc[c] = "user" /\ taskLock = 0 /\ WaitTime(n)
      /\ Waits(ready, c, s, n) /\ UNCHANGED pri
  BY TaskAssumption DEF SemWait, Enters, Timeouts, WaitTime, Waits
<1>2. ready \in [Prio -> Seq(Task)] /\ Filed(ready, pri', ReadyTasks) /\ pri'[c] = pri[c]
  BY <1>1 DEF TInv, TcbInv, ListInv, ReadyInv
<1> QED
  BY <1>1, <1>2, ListWait, CallWait DEF StepFrom

LEMMA HoldPost ==
  ASSUME SemFrom, NEW c \in Task \cup {Isr}, NEW s \in WaitList, SemPost(c, s),
         waiting[s] # << >>
  PROVE  HoldInv'
<1> USE DEF SemFrom, SemInv, HoldInv
<1> DEFINE t == Head(waiting[s])
<1>1. /\ TaskWake(ready, pri, t, s) /\ ThenSchedule(c)
      /\ UNCHANGED <<pri, recycle, isr>>
      /\ c # Isr => c \in Task /\ Running(c) /\ pc[c] = "user"
  BY DEF SemPost, Enters
<1>2. t \in Task /\ Linked(waiting[s], t)
  BY TailLinks DEF TInv, TcbInv
<1> HIDE DEF t
<1>3. ready \in [Prio -> Seq(Task)] /\ Filed(ready, pri', ReadyTasks)
      /\ pri' \in [Task -> Prio] /\ TaskWake(ready, pri', t, s)
  BY <1>1 DEF TInv, TcbInv, ListInv, ReadyInv
<1>4. ListInv'
  BY <1>1, <1>2, <1>3, ListWake DEF StepFrom
<1>5. \A u \in Task : (pc'[u] = pc[u] \/ pc'[u] = "sched") /\ arg'[u] = arg[u]
  BY <1>1, CallThen
<1>6. CallInv'
  BY <1>2, <1>3, <1>5, CallWake
<1> QED
  BY <1>4, <1>6

LEMMA HoldReturn ==
  ASSUME SemFrom, NEW c \in Task, SemPendReturn(c)
  PROVE  HoldInv'
<1>1. /\ Running(c) /\ pc[c] = "ret" /\ Back(c)
      /\ status' = [status EXCEPT ![c] = status[c] \ {"TIMEOUT"}]
  BY DEF SemPendReturn, Back, NoUnlinking
<1>2. "TIMEOUT" \notin status'[c]
  BY <1>1 DEF SemFrom, SemInv, TInv, TcbInv
<1> QED
  BY <1>1, <1>2, ListBack, CallBack DEF SemFrom, SemInv, HoldInv, StepFrom

LEMMA HoldAlone ==
  ASSUME SemFrom, UNCHANGED vars
  PROVE  HoldInv'
<1>1. ListInv'
  BY ListInvStep DEF SemFrom, SemInv, HoldInv
<1>2. CallInv'
  BY CallKeep DEF vars, tcb, SemFrom, HoldInv, Is
<1> QED
  BY <1>1, <1>2 DEF HoldInv

LEMMA HoldInvStep ==
  ASSUME SemInv, HoldInv, [SemNext]_semvars
  PROVE  HoldInv'
<1>1. SemFrom
  BY SemInvStep DEF SemFrom
<1>2. CASE UNCHANGED vars
  BY <1>1, <1>2, HoldAlone
<1>3. CASE Next
  BY <1>3, ListInvStep, CallInvStep DEF SemInv, HoldInv
<1>4. CASE SemStep
  <2>1. ASSUME NEW c \in Task \cup {Isr}, NEW s \in WaitList, SemPost(c, s)
        PROVE  HoldInv'
    BY <1>1, <1>2, <2>1, HoldPost DEF SemPost
  <2>2. ASSUME NEW c \in Task \cup {Isr}, NEW s \in WaitList,
               \/ SemDelete(c, s) \/ SemTake(c, s)
               \/ \E max \in {BinaryMax, CountingMax}, n \in 0 .. CountingMax :
                    SemCreate(c, s, n, max)
        PROVE  HoldInv'
    BY <1>2, <2>2 DEF SemDelete, SemTake, SemCreate
  <2> QED
    BY <1>1, <1>4, <2>1, <2>2, HoldWait DEF SemStep
<1> QED
  BY <1>1, <1>2, <1>3, <1>4, HoldReturn DEF SemNext, Returns, semvars

LEMMA HoldInvAlways == SemSpec => [](SemInv /\ HoldInv)
<1>1. SemInit => HoldInv
  BY ListInvInit, CallInvInit DEF SemInit, HoldInv
<1> QED
  BY <1>1, SemInvAlways, HoldInvStep, PTL DEF SemSpec
-----------------------------------------------------------------------------
(***************************************************************************)
(* The semaphores implement the contract: every call is the contract's     *)
(* step of its name, and a step of the scheduler is one of the kernel's.   *)
(***************************************************************************)
Outcomes == [t \in Task |-> Outcome(t)]

LiveTasks == {t \in Task : Live(t)}

ContractVars == <<LiveTasks, semUsed, semCount, waiting, Outcomes, call>>

(* The instance has its own copies of the operators on lists.              *)
LEMMA ContractOperators ==
  ASSUME NEW list, NEW x
  PROVE  /\ Contract!Linked(list, x) <=> Linked(list, x)
         /\ Contract!Unlink(list, x) = Unlink(list, x)
<1>1. Contract!Linked(list, x) <=> Linked(list, x)
  BY DEF Contract!Linked, Linked, Contract!ToSet, ToSet
<1>2. \A I : Contract!Min(I) = Min(I)
  BY DEF Contract!Min, Min
<1>3. Contract!Unlink(list, x) = Unlink(list, x)
  BY <1>2 DEF Contract!Unlink, Unlink, Contract!RemoveFirst, RemoveFirst,
     Contract!RemoveAt, RemoveAt, Contract!SelectInSeq, SelectInSeq
<1> QED
  BY <1>1, <1>3

(* The outcome of a wait is read off the call, PEND and TIMEOUT.           *)
LEMMA OutcomeKept ==
  ASSUME NEW t \in Task, KeepsWait(t)
  PROVE  Outcome(t)' = Outcome(t)
BY DEF KeepsWait, SameFlag, Outcome, Is

LEMMA OutcomeSame ==
  ASSUME NEW t \in Task, arg'[t] = arg[t], status'[t] = status[t]
  PROVE  Outcome(t)' = Outcome(t)
BY DEF Outcome, Is

LEMMA OutcomesOne ==
  ASSUME NEW t \in Task, \A u \in Task \ {t} : Outcome(u)' = Outcome(u)
  PROVE  Outcomes' = [Outcomes EXCEPT ![t] = Outcome(t)']
BY DEF Outcomes

LEMMA OutcomesSame ==
  ASSUME \A u \in Task : Outcome(u)' = Outcome(u)
  PROVE  Outcomes' = Outcomes
BY DEF Outcomes

LEMMA LivesSame ==
  ASSUME \A u \in Task : SameFlag("UNUSED", u)
  PROVE  LiveTasks' = LiveTasks
BY DEF LiveTasks, Live, SameFlag, Is

LEMMA ContractScheduler ==
  ASSUME SemInv, HoldInv, Next, UNCHANGED sem, call' = <<"kernel">>
  PROVE  Contract!Next
<1> USE DEF SemInv, HoldInv
<1>1. Contract!Kernel
  BY DEF sem, Contract!Kernel
<1>2. CASE NoWaitEnds
  <2>1. Contract!Rest
    BY <1>1, <1>2, OutcomeKept, OutcomesSame DEF NoWaitEnds, Contract!Rest, Outcomes
  <2> QED
    BY <2>1 DEF Contract!Next
<1>3. ASSUME NEW t \in Task, Gone(t) PROVE Contract!Next
  <2>1. Outcome(t)' = "none" /\ \A u \in Task \ {t} : Outcome(u)' = Outcome(u)
    BY <1>3, OutcomeKept DEF Gone, LeavesWait, Outcome
  <2>2. Outcomes' = [Outcomes EXCEPT ![t] = "none"]
    BY <2>1, OutcomesOne
  <2>3. waiting' = [s \in WaitList |-> Contract!Unlink(waiting[s], t)]
    BY <1>3, ContractOperators DEF Gone, LeavesWait
  <2>4. t \notin LiveTasks \/ t \notin LiveTasks'
    BY <1>3 DEF Gone, LiveTasks, Live
  <2>5. Contract!Kill(t)
    BY <1>1, <2>2, <2>3, <2>4 DEF Contract!Kill, Outcomes, LiveTasks
  <2> QED
    BY <2>5 DEF Contract!Next
<1>4. ASSUME NEW t \in Task, Expires(t) PROVE Contract!Next
  <2> DEFINE s == arg[t]
  <2>1. s \in WaitList /\ Linked(waiting[s], t)
        /\ \A w \in WaitList \ {s} : ~Linked(waiting[w], t)
    BY <1>4 DEF Expires, ListInv, WaitInv, Filed, PendTasks, TInv, TcbInv
  <2>2. Outcome(t)' = "timeout" /\ \A u \in Task \ {t} : Outcome(u)' = Outcome(u)
    BY <1>4, <2>1, OutcomeKept DEF Expires, LeavesWait, Outcome
  <2>3. Outcomes' = [Outcomes EXCEPT ![t] = "timeout"]
    BY <2>2, OutcomesOne
  <2>4. \A w \in WaitList \ {s} : Unlink(waiting[w], t) = waiting[w]
    BY <2>1, UnlinkNone DEF TInv, TcbInv
  <2>5. waiting' = [w \in WaitList |-> Unlink(waiting[w], t)]
    BY <1>4 DEF Expires, LeavesWait
  <2> HIDE DEF s
  <2>6. waiting' = [waiting EXCEPT ![s] = Contract!Unlink(waiting[s], t)]
    BY <2>1, <2>4, <2>5, ContractOperators DEF TInv, TcbInv
  <2>7. Contract!Linked(waiting[s], t)
    BY <2>1, ContractOperators
  <2>8. Contract!TimeOut(t, s)
    BY <1>1, <2>3, <2>6, <2>7 DEF Contract!TimeOut, Outcomes
  <2> QED
    BY <2>1, <2>8 DEF Contract!Next
<1> QED
  BY <1>2, <1>3, <1>4, SchedulerWaits

LEMMA ContractWait ==
  ASSUME SemInv, HoldInv, NEW c \in Task, NEW s \in WaitList, NEW n \in Timeouts,
         SemWait(c, s, n), call' = <<"wait", c, s>>
  PROVE  Contract!Next
<1> USE DEF SemInv, HoldInv
<1>1. /\ Running(c) /\ pc[c] = "user" /\ s \in semUsed /\ semCount[s] = 0
      /\ UNCHANGED <<semUsed, semCount>>
      /\ waiting' = [waiting EXCEPT ![s] = Append(waiting[s], c)]
      /\ arg' = [arg EXCEPT ![c] = s]
      /\ \E flags \in {{"PEND"}, {"PEND", "TIMEOUT"}} :
           status' = [status EXCEPT ![c] = (status[c] \ {"READY"}) \cup flags]
  BY TaskAssumption DEF SemWait, Enters, sem, TaskWait
<1>2. /\ "PEND" \in status'[c] /\ SameFlag("UNUSED", c)
      /\ \A u \in Task \ {c} : arg'[u] = arg[u] /\ status'[u] = status[u]
  <2>1. PICK flags \in {{"PEND"}, {"PEND", "TIMEOUT"}} :
          status' = [status EXCEPT ![c] = (status[c] \ {"READY"}) \cup flags]
    BY <1>1
  <2>2. status'[c] = (status[c] \ {"READY"}) \cup flags
    BY <2>1 DEF TInv, TcbInv
  <2>3. "PEND" \in flags /\ "UNUSED" \notin flags
    BY <2>1
  <2> QED
    BY <1>1, <2>1, <2>2, <2>3 DEF TInv, TcbInv, PlaceInv, SameFlag
<1>3. arg[c] \notin WaitList
  BY <1>1, CallOutside
<1>4. ~ \E w \in WaitList : Contract!Linked(waiting[w], c)
  <2>1. ~Is(c, "PEND")
    BY <1>1, RunnerNotHalted DEF Halted, ListInv
  <2> QED
    BY <2>1, WaiterPends, ContractOperators
<1>5. Outcome(c) = "none" /\ Outcome(c)' = "none"
  BY <1>2, <1>3 DEF Outcome, Is
<1>6. Outcomes' = Outcomes /\ Outcomes[c] = "none"
  BY <1>2, <1>5, OutcomeSame, OutcomesSame DEF Outcomes
<1>7. LiveTasks' = LiveTasks
  BY <1>2, LivesSame DEF SameFlag
<1>8. Contract!Wait(c, s)
  BY <1>1, <1>4, <1>6, <1>7 DEF Contract!Wait, Contract!Waits, Outcomes, LiveTasks
<1> QED
  BY <1>8 DEF Contract!Next

LEMMA ContractPost ==
  ASSUME SemInv, HoldInv, NEW c \in Task \cup {Isr}, NEW s \in WaitList, SemPost(c, s),
         call' = <<"post", s>>
  PROVE  Contract!Next
<1> USE DEF SemInv, HoldInv
<1>1. CASE waiting[s] = << >>
  <2>1. /\ semCount' = [semCount EXCEPT ![s] = semCount[s] + 1]
        /\ UNCHANGED <<arg, status, waiting, semUsed>>
        /\ s \in semUsed /\ semCount[s] # semMax[s]
    BY <1>1 DEF SemPost, vars, tcb
  <2>2. semCount[s] < CountingMax
    BY <2>1, CountAssumption DEF CountInv
  <2>3. Outcomes' = Outcomes /\ LiveTasks' = LiveTasks
    BY <2>1, OutcomeSame, OutcomesSame, LivesSame DEF SameFlag
  <2>4. Contract!Post(s)
    BY <1>1, <2>1, <2>2, <2>3 DEF Contract!Post, Outcomes, LiveTasks
  <2> QED
    BY <2>4 DEF Contract!Next
<1>2. CASE waiting[s] # << >>
  <2> PICK t \in Task : t = Head(waiting[s])
    BY <1>2, TailLinks DEF TInv, TcbInv
  <2>1. /\ TaskWake(ready, pri, t, s) /\ s \in semUsed
        /\ UNCHANGED <<arg, semUsed, semCount>>
    BY <1>2 DEF SemPost, ThenSchedule, sem
  <2>2. /\ waiting[s] \in Seq(Task) /\ NoRepeat(waiting[s])
        /\ t \in Task /\ Linked(waiting[s], t)
    BY <1>2, TailLinks DEF TInv, TcbInv, ListInv, WaitInv, Filed, Distinct
  <2>3. waiting' = [waiting EXCEPT ![s] = Tail(waiting[s])]
    BY <1>2, <2>1, <2>2, UnlinkFirst DEF TaskWake
  <2>4. \E flags \in {{}, {"READY"}} :
           status' = [status EXCEPT ![t] = Woken(t) \cup flags]
    <3>1. Woken(t) \cup {} = Woken(t)
      OBVIOUS
    <3> QED
      BY <2>1, <3>1 DEF TaskWake
  <2>5. /\ "PEND" \notin status'[t] /\ "TIMEOUT" \notin status'[t]
        /\ SameFlag("UNUSED", t)
        /\ \A u \in Task \ {t} : arg'[u] = arg[u] /\ status'[u] = status[u]
    BY <2>1, <2>2, <2>4 DEF TInv, TcbInv, Woken, SameFlag
  <2>6. arg'[t] = s
    BY <2>1, <2>2, WaiterPends
  <2>7. Outcome(t)' = "granted" /\ \A u \in Task \ {t} : Outcome(u)' = Outcome(u)
    BY <2>5, <2>6, OutcomeSame DEF Outcome, Is
  <2>8. Outcomes' = [Outcomes EXCEPT ![t] = "granted"]
    BY <2>2, <2>7, OutcomesOne
  <2>9. LiveTasks' = LiveTasks
    BY <2>5, LivesSame DEF SameFlag
  <2>10. Contract!Grant(s)
    BY <1>2, <2>1, <2>3, <2>8, <2>9 DEF Contract!Grant, Outcomes, LiveTasks
  <2> QED
    BY <2>10 DEF Contract!Next
<1> QED
  BY <1>1, <1>2

LEMMA ContractReturn ==
  ASSUME SemInv, HoldInv, NEW c \in Task, SemPendReturn(c),
         call' = <<"return", c, PendAnswer(c)>>
  PROVE  Contract!Next
<1> USE DEF SemInv, HoldInv
<1>1. /\ Running(c) /\ pc[c] = "ret" /\ UNCHANGED <<semUsed, semCount, waiting>>
      /\ status' = [status EXCEPT ![c] = status[c] \ {"TIMEOUT"}]
      /\ arg' = [arg EXCEPT ![c] = NoArg]
  BY DEF SemPendReturn, sem
<1>2. /\ arg'[c] \notin WaitList /\ arg[c] \in WaitList /\ SameFlag("UNUSED", c)
      /\ \A u \in Task \ {c} : arg'[u] = arg[u] /\ status'[u] = status[u]
  BY <1>1, TaskAssumption DEF TInv, TcbInv, PlaceInv, CallInv, SameFlag
<1>3. ~Is(c, "PEND")
  BY <1>1, RunnerNotHalted DEF Halted, ListInv
<1>4. /\ Outcome(c) = PendAnswer(c) /\ Outcome(c) # "none" /\ Outcome(c)' = "none"
      /\ \A u \in Task \ {c} : Outcome(u)' = Outcome(u)
  BY <1>2, <1>3, OutcomeSame DEF Outcome, PendAnswer
<1>5. Outcomes' = [Outcomes EXCEPT ![c] = "none"] /\ Outcomes[c] = PendAnswer(c)
      /\ Outcomes[c] # "none"
  BY <1>4, OutcomesOne DEF Outcomes
<1>6. LiveTasks' = LiveTasks
  BY <1>2, LivesSame DEF SameFlag
<1>7. Contract!Return(c)
  BY <1>1, <1>5, <1>6 DEF Contract!Return, Outcomes, LiveTasks
<1> QED
  BY <1>7 DEF Contract!Next

LEMMA ContractAlone ==
  ASSUME SemInv, NEW c \in Task \cup {Isr}, NEW s \in WaitList, UNCHANGED vars,
         \/ \E max \in {BinaryMax, CountingMax}, n \in 0 .. CountingMax :
              SemCreate(c, s, n, max) /\ call' = <<"create", s, n>>
         \/ SemDelete(c, s) /\ call' = <<"delete", s>>
         \/ SemTake(c, s) /\ call' = <<"take", s>>
  PROVE  Contract!Next
<1>1. Outcomes' = Outcomes /\ LiveTasks' = LiveTasks /\ waiting' = waiting
  BY OutcomeSame, OutcomesSame, LivesSame DEF vars, tcb, SameFlag
<1>2. ASSUME NEW max \in {BinaryMax, CountingMax}, NEW n \in 0 .. CountingMax,
             SemCreate(c, s, n, max), call' = <<"create", s, n>>
      PROVE  Contract!Next
  <2>1. Contract!Make(s, n)
    BY <1>1, <1>2 DEF SemCreate, Contract!Make, Outcomes, LiveTasks
  <2> QED
    BY <2>1 DEF Contract!Next
<1>3. CASE SemDelete(c, s) /\ call' = <<"delete", s>>
  <2>1. Contract!Destroy(s)
    BY <1>1, <1>3 DEF SemDelete, Contract!Destroy, Outcomes, LiveTasks
  <2> QED
    BY <2>1 DEF Contract!Next
<1>4. CASE SemTake(c, s) /\ call' = <<"take", s>>
  <2>1. Contract!Take(s)
    BY <1>1, <1>4 DEF SemTake, Contract!Take, Outcomes, LiveTasks
  <2> QED
    BY <2>1 DEF Contract!Next
<1> QED
  BY <1>2, <1>3, <1>4

LEMMA ContractStepHolds ==
  ASSUME SemInv, HoldInv, [SemNext]_semvars
  PROVE  [Contract!Next]_ContractVars
<1>1. CASE UNCHANGED semvars
  <2>1. UNCHANGED <<semUsed, semCount, waiting, arg, status, call>>
    BY <1>1 DEF semvars, sem, vars, tcb
  <2>2. Outcomes' = Outcomes /\ LiveTasks' = LiveTasks
    BY <2>1, OutcomeSame, OutcomesSame, LivesSame DEF SameFlag
  <2> QED
    BY <2>1, <2>2 DEF ContractVars
<1>2. CASE SemNext
  <2>1. CASE SemStep
    BY <1>2, <2>1, ContractAlone, ContractWait, ContractPost
       DEF SemStep, SemCreate, SemDelete, SemTake
  <2> QED
    BY <1>2, <2>1, ContractScheduler, ContractReturn DEF SemNext, Returns
<1> QED
  BY <1>1, <1>2

(* Every call of los_sem.c has the effect of the contract's step of its    *)
(* name, for any number of tasks and semaphores: a post is counted or      *)
(* grants the first wait, a granted wait is answered LOS_OK and a wait     *)
(* that the tick has ended LOS_ERRNO_SEM_TIMEOUT, whatever timeouts,       *)
(* deletions and interrupts come between.                                  *)
THEOREM KeepsContractHolds == SemSpec => KeepsContract
<1>1. SemInit => Contract!Init
  <2> SUFFICES ASSUME SemInit PROVE Contract!Init
    OBVIOUS
  <2>1. semCount \in [WaitList -> 0 .. CountingMax] /\ waiting = [s \in WaitList |-> << >>]
    BY CountAssumption DEF SemInit, Init
  <2>2. Outcomes = [t \in Task |-> "none"]
    BY TaskAssumption DEF SemInit, Init, Outcomes, Outcome
  <2>3. semUsed = {} /\ call = <<"kernel">>
    BY DEF SemInit
  <2> QED
    BY <2>1, <2>2, <2>3 DEF Contract!Init, Outcomes
<1>2. SemInv /\ HoldInv /\ [SemNext]_semvars => [Contract!Next]_(Contract!semaphore)
  BY ContractStepHolds DEF ContractVars, Outcomes, LiveTasks, Contract!semaphore
<1> QED
  BY <1>1, <1>2, HoldInvAlways, PTL
     DEF SemSpec, KeepsContract, Contract!Spec
=============================================================================
