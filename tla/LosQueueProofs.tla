--------------------------- MODULE LosQueueProofs ---------------------------
(***************************************************************************)
(* Theorems of the message queues and mails, for any number of tasks and   *)
(* queues, any lengths, messages and blocks.                               *)
(***************************************************************************)
EXTENDS LosQueue, LosTaskProofs, FiniteSetTheorems

(***************************************************************************)
(* The types of the state of los_queue.c, and who may sleep.               *)
(***************************************************************************)
RingInv ==
  /\ queUsed \in SUBSET Queue
  /\ queLen \in [Queue -> Nat]
  /\ count \in [Queue -> [Side -> Nat]]
  /\ call \in [Task -> Operation \cup {NoCall}]

PoolInv ==
  /\ box \in [Queue -> Seq(Block)]
  /\ held \in [Queue -> SUBSET Block]
  /\ puwMsg \in [Task -> Block \cup {NoArg}]

SleepersInUse == \A w \in WaitList : waiting[w] # << >> => w[1] \in queUsed

(* A task comes back from a wait only where it has waited.                 *)
ReturnInv == \A t \in Task : pc[t] = "ret" => arg[t] \in WaitList

QueueInv == TInv /\ RingInv /\ PoolInv /\ NoIdleSleeper /\ SleepersInUse /\ ReturnInv

(* The wait lists of a queue.                                              *)
LEMMA WaitLists ==
  /\ \A q \in Queue : /\ <<q, "read">> \in WaitList /\ <<q, "write">> \in WaitList
                      /\ <<q, "mem">> \in WaitList
  /\ \A w \in WaitList : \E q \in Queue, s \in {"read", "write", "mem"} : w = <<q, s>>
BY QueueAssumption DEF Side

LEMMA OtherSide ==
  ASSUME NEW side \in Side
  PROVE  Opposite(side) \in Side /\ Opposite(side) # side
BY DEF Opposite, Side

LEMMA OperationSide ==
  ASSUME NEW op \in Operation
  PROVE  op.side \in Side /\ op # NoCall
BY DEF Operation, Side, NoCall

(* All the blocks of a pool are on its first free list, once.              *)
LEMMA AllBlocks ==
  /\ SetToSeq(Block) \in Seq(Block) /\ NoRepeat(SetToSeq(Block))
  /\ \A b \in Block : Linked(SetToSeq(Block), b)
<1> DEFINE n    == Cardinality(Block)
           list == SetToSeq(Block)
<1>1. IsFiniteSet(Block) /\ n \in Nat /\ ExistsBijection(1 .. n, Block)
  BY QueueAssumption, FS_CardinalityType
<1>2. \E f \in [1 .. n -> Block] : IsInjective(f)
  BY <1>1 DEF ExistsBijection, Bijection, Injection, IsInjective
<1>3. list \in [1 .. n -> Block] /\ IsInjective(list)
  BY <1>2 DEF SetToSeq
<1>4. IsFiniteSet(1 .. n) /\ Cardinality(1 .. n) = n
  BY <1>1, FS_Interval
<1> HIDE DEF n, list
<1>5. list \in Injection(1 .. n, Block)
  BY <1>3 DEF Injection, IsInjective
<1>6. list \in Surjection(1 .. n, Block)
  BY <1>1, <1>4, <1>5, FS_Injection DEF n
<1>7. \A b \in Block : \E k \in 1 .. n : list[k] = b
  BY <1>6 DEF Surjection
<1>8. list \in Seq(Block)
  BY <1>1, <1>3, SeqDef
<1> QED
  BY <1>3, <1>7, <1>8 DEF NoRepeat, Linked, ToSet, IsInjective, list

LEMMA QueueInvInit ==
  ASSUME QueueInit PROVE QueueInv
<1>1. TInv
  BY TInvInit DEF QueueInit
<1>2. RingInv
  BY DEF QueueInit, RingInv
<1>3. PoolInv
  BY AllBlocks DEF QueueInit, PoolInv
<1>4. NoIdleSleeper /\ SleepersInUse
  BY WaitLists DEF QueueInit, Init, NoIdleSleeper, SleepersInUse, Side
<1>5. ReturnInv
  BY DEF QueueInit, Init, ReturnInv
<1> QED
  BY <1>1, <1>2, <1>3, <1>4, <1>5 DEF QueueInv
-----------------------------------------------------------------------------
(* A step in which nobody falls asleep and nothing is offered.             *)
NoneJoins == \A w \in WaitList : waiting[w] = << >> => waiting'[w] = << >>

LEMMA JoinsSame ==
  ASSUME UNCHANGED waiting PROVE NoneJoins
BY DEF NoneJoins

LEMMA JoinsUnlink ==
  ASSUME NEW t, waiting' = [w \in WaitList |-> Unlink(waiting[w], t)]
  PROVE  NoneJoins
BY UnlinkEmpty DEF NoneJoins

LEMMA JoinsWake ==
  ASSUME TInv, NEW q, NEW p, NEW t, NEW w \in WaitList, TaskWake(q, p, t, w)
  PROVE  NoneJoins
<1>1. waiting' = [waiting EXCEPT ![w] = Unlink(waiting[w], t)]
  BY DEF TaskWake
<1> QED
  BY <1>1, UnlinkEmpty DEF NoneJoins, TInv, TcbInv

LEMMA SleepSame ==
  ASSUME QueueInv, NoneJoins, UNCHANGED <<queUsed, count, box>>
  PROVE  NoIdleSleeper' /\ SleepersInUse'
<1>1. SleepersInUse'
  BY DEF QueueInv, NoneJoins, SleepersInUse
<1>2. NoIdleSleeper'
  <2> SUFFICES ASSUME NEW q \in Queue
               PROVE  /\ \A side \in Side :
                           waiting'[<<q, side>>] # << >> => count'[q][side] = 0
                      /\ waiting'[<<q, "mem">>] # << >> => box'[q] = << >>
    BY DEF NoIdleSleeper
  <2>1. \A side \in Side : <<q, side>> \in WaitList
    BY WaitLists DEF Side
  <2>2. <<q, "mem">> \in WaitList
    BY WaitLists
  <2> QED
    BY <2>1, <2>2 DEF QueueInv, NoneJoins, NoIdleSleeper
<1> QED
  BY <1>1, <1>2

LEMMA TInvSame ==
  ASSUME TInv, UNCHANGED vars
  PROVE  TInv'
BY TInvStep DEF vars

LEMMA SideApart ==
  ASSUME NEW q \in Queue, NEW side \in Side, NEW r \in Queue, NEW other \in Side
  PROVE  /\ <<q, side>> # <<r, "mem">>
         /\ <<q, side>> = <<r, other>> <=> q = r /\ side = other
BY DEF Side

(* A task falls asleep on a list where there is nothing for it.            *)
LEMMA SleepOne ==
  ASSUME QueueInv, NEW w \in WaitList, w[1] \in queUsed,
         NEW c \in Task, waiting' = [waiting EXCEPT ![w] = Append(@, c)],
         \A q \in Queue, side \in Side : w = <<q, side>> => count[q][side] = 0,
         \A q \in Queue : w = <<q, "mem">> => box[q] = << >>,
         UNCHANGED <<queUsed, count, box>>
  PROVE  NoIdleSleeper' /\ SleepersInUse'
<1>1. \A v \in WaitList \ {w} : waiting'[v] = waiting[v]
  BY DEF QueueInv, TInv, TcbInv
<1>2. SleepersInUse'
  BY <1>1 DEF QueueInv, SleepersInUse
<1>3. \A q \in Queue, side \in Side :
        waiting'[<<q, side>>] # << >> => count'[q][side] = 0
  BY <1>1, WaitLists DEF QueueInv, NoIdleSleeper, Side
<1>4. \A q \in Queue : waiting'[<<q, "mem">>] # << >> => box'[q] = << >>
  BY <1>1, WaitLists DEF QueueInv, NoIdleSleeper
<1> QED
  BY <1>2, <1>3, <1>4 DEF NoIdleSleeper

LEMMA ReturnKeep ==
  ASSUME ReturnInv,
         \A u \in Task : pc'[u] = "ret" =>
           arg'[u] = arg[u] /\ (pc[u] = "ret" \/ arg[u] \in WaitList)
  PROVE  ReturnInv'
BY DEF ReturnInv

LEMMA ReturnDelete ==
  ASSUME TInv, ReturnInv, NEW t \in Task, Delete(t)
  PROVE  ReturnInv'
<1>1. pc' = [pc EXCEPT ![t] = "user"] /\ arg' = [arg EXCEPT ![t] = NoArg]
  BY DEF Delete
<1>2. \A u \in Task : pc'[u] = "ret" => u # t /\ pc[u] = "ret" /\ arg'[u] = arg[u]
  BY <1>1 DEF TInv, PlaceInv
<1> QED
  BY <1>2, ReturnKeep

LEMMA ReturnCall ==
  ASSUME TInv, ReturnInv, NEW c \in Task \cup {Isr}, CallStep(c)
  PROVE  ReturnInv'
<1>1. ASSUME NEW t \in Task, NEW p \in UserPri, NEW place \in {"user", "create"},
             TaskCreateOnly(c, t, p, place)
      PROVE  ReturnInv'
  <2>1. /\ pc' = [pc EXCEPT ![t] = "user", ![c] = place]
        /\ arg' = [arg EXCEPT ![t] = NoArg, ![c] = IF place = "create" THEN t ELSE NoArg]
    BY <1>1 DEF TaskCreateOnly
  <2>2. \A u \in Task : pc'[u] = "ret" =>
           u # t /\ u # c /\ pc[u] = "ret" /\ arg'[u] = arg[u]
    BY <2>1 DEF TInv, PlaceInv
  <2> QED
    BY <2>2, ReturnKeep
<1>2. ASSUME NEW t \in Task, TaskDelete(c, t) PROVE ReturnInv'
  BY <1>2, ReturnDelete DEF TaskDelete
<1>3. ASSUME ThenSchedule(c) \/ ThenReturn \/ TaskExit(c) \/ TaskLock(c) \/ TaskUnlock(c)
      PROVE  ReturnInv'
  <2>1. arg' = arg /\ \A u \in Task : pc'[u] = "ret" => pc[u] = "ret"
    BY <1>3 DEF ThenSchedule, ThenReturn, TaskExit, TaskLock, TaskUnlock, TInv, PlaceInv
  <2> QED
    BY <2>1, ReturnKeep
<1> QED
  BY <1>1, <1>2, <1>3
     DEF CallStep, TaskCreateNoMemory, TaskResume, TaskSuspend, TaskDelay, TaskPriSet,
         TaskYield

LEMMA ReturnNext ==
  ASSUME TInv, ReturnInv, Next
  PROVE  ReturnInv'
<1>1. ASSUME NEW c \in Task, LosSchedule(c) PROVE ReturnInv'
  <2>1. /\ arg' = arg
        /\ pc' = [pc EXCEPT ![c] = IF arg[c] \in WaitList THEN "ret" ELSE "user"]
    BY <1>1 DEF LosSchedule
  <2>2. \A u \in Task : pc'[u] = "ret" => pc[u] = "ret" \/ arg[u] \in WaitList
    BY <2>1 DEF TInv, PlaceInv
  <2> QED
    BY <2>1, <2>2, ReturnKeep
<1>2. ASSUME NEW c \in Task, TaskCreateReady(c) PROVE ReturnInv'
  <2>1. pc' = [pc EXCEPT ![c] = "user"] /\ arg' = [arg EXCEPT ![c] = NoArg]
    BY <1>2 DEF TaskCreateReady
  <2>2. \A u \in Task : pc'[u] = "ret" => pc[u] = "ret" /\ arg'[u] = arg[u]
    BY <2>1 DEF TInv, PlaceInv
  <2> QED
    BY <2>2, ReturnKeep
<1>3. ASSUME NEW c \in Task, TaskEntryEnd(c) PROVE ReturnInv'
  BY <1>3, ReturnDelete DEF TaskEntryEnd
<1>4. CASE TickStep \/ PendSV
  <2>1. UNCHANGED <<pc, arg>>
    BY <1>4 DEF TickStep, TickStart, ExpireOne, EndScan, PendSV
  <2> QED
    BY <2>1, ReturnKeep
<1> QED
  BY <1>1, <1>2, <1>3, <1>4, ReturnCall DEF Next, TaskStep
-----------------------------------------------------------------------------
(***************************************************************************)
(* The steps of los_queue.c.                                               *)
(***************************************************************************)
LEMMA QueueMakeInv ==
  ASSUME QueueInv, NEW c \in Task \cup {Isr}, NEW q \in Queue,
         (\E n \in Lengths : QueueCreate(c, q, n)) \/ QueueDelete(c, q)
  PROVE  QueueInv'
<1>1. UNCHANGED <<vars, waiting, pc, arg, call, mail>>
  BY DEF QueueCreate, QueueDelete, vars, tcb
<1>2. TInv' /\ ReturnInv'
  BY <1>1, TInvSame DEF QueueInv, ReturnInv
<1>3. RingInv' /\ PoolInv'
  <2>1. PoolInv'
    BY <1>1 DEF QueueInv, PoolInv, mail
  <2>2. CASE QueueDelete(c, q)
    BY <2>1, <2>2 DEF QueueDelete, QueueInv, RingInv
  <2>3. ASSUME NEW n \in Lengths, QueueCreate(c, q, n) PROVE RingInv'
    <3>1. n \in Nat
      BY QueueAssumption
    <3>2. [read |-> 0, write |-> n] \in [Side -> Nat]
      BY <3>1 DEF Side
    <3> QED
      BY <2>3, <3>1, <3>2 DEF QueueCreate, QueueInv, RingInv
  <2> QED
    BY <2>1, <2>2, <2>3
<1>4. SleepersInUse'
  BY <1>1 DEF QueueCreate, QueueDelete, QueueInv, SleepersInUse
<1>5. \A s \in {"read", "write", "mem"} : waiting[<<q, s>>] = << >>
  <2>1. \A s \in {"read", "write", "mem"} : <<q, s>> \in WaitList /\ <<q, s>>[1] = q
    BY WaitLists
  <2> QED
    BY <2>1 DEF QueueCreate, QueueDelete, QueueInv, SleepersInUse
<1>6. \A r \in Queue \ {q} : count'[r] = count[r]
  BY DEF QueueCreate, QueueDelete, QueueInv, RingInv
<1>7. NoIdleSleeper'
  BY <1>1, <1>5, <1>6 DEF QueueInv, NoIdleSleeper, Side, mail
<1> QED
  BY <1>2, <1>3, <1>4, <1>7 DEF QueueInv

LEMMA QueueBackInv ==
  ASSUME QueueInv, NEW c \in Task, QueueTimedOut(c) \/ MailGoOn(c)
  PROVE  QueueInv'
<1>1. Back(c) /\ UNCHANGED <<qcb, box, waiting>>
  BY DEF QueueTimedOut, MailGoOn, Back, NoUnlinking, mail, tcb
<1>2. TInv'
  BY <1>1, TypeBack DEF QueueInv
<1>3. ReturnInv'
  <2>1. \A u \in Task : pc'[u] = "ret" => pc[u] = "ret" /\ arg'[u] = arg[u]
    BY <1>1 DEF Back, QueueInv, TInv, PlaceInv
  <2> QED
    BY <2>1, ReturnKeep DEF QueueInv
<1>4. NoIdleSleeper' /\ SleepersInUse'
  BY <1>1, JoinsSame, SleepSame DEF qcb
<1>5. RingInv'
  BY DEF QueueTimedOut, MailGoOn, QueueInv, RingInv, qcb
<1>6. PoolInv'
  <2>1. CASE QueueTimedOut(c)
    BY <2>1 DEF QueueTimedOut, QueueInv, PoolInv, mail
  <2>2. CASE MailGoOn(c)
    <3>1. {puwMsg[c]} \ {NoArg} \in SUBSET Block
      BY DEF QueueInv, PoolInv
    <3> QED
      BY <2>2, <3>1 DEF MailGoOn, QueueInv, PoolInv
  <2> QED
    BY <2>1, <2>2
<1> QED
  BY <1>2, <1>3, <1>4, <1>5, <1>6 DEF QueueInv

LEMMA QueueSleepInv ==
  ASSUME QueueInv, NEW c \in Task, NEW q \in Queue, NEW n \in Timeouts,
         MailWait(c, q, n) \/ \E op \in Operation : QueueWait(c, q, op, n)
  PROVE  QueueInv'
<1>1. c # Idle /\ WaitTime(n) /\ UNCHANGED <<pri, qcb, mail>>
  BY Callers DEF MailWait, QueueWait, Timeouts, WaitTime
<1>2. PICK w \in WaitList :
        /\ w[1] = q /\ Waits(ready, c, w, n) /\ q \in queUsed
        /\ \/ w = <<q, "mem">> /\ box[q] = << >>
           \/ \E side \in Side : w = <<q, side>> /\ count[q][side] = 0
  <2>1. CASE MailWait(c, q, n)
    BY <2>1, WaitLists DEF MailWait, Waits
  <2>2. ASSUME NEW op \in Operation, QueueWait(c, q, op, n)
        PROVE  /\ <<q, op.side>> \in WaitList /\ <<q, op.side>>[1] = q
               /\ Waits(ready, c, <<q, op.side>>, n) /\ q \in queUsed
               /\ op.side \in Side /\ count[q][op.side] = 0
    BY <2>2, WaitLists, OperationSide DEF QueueWait, Waits, Side
  <2> QED
    BY <2>1, <2>2
<1>3. TInv'
  BY <1>1, <1>2, TypeWait DEF QueueInv, TInv, TcbInv
<1>4. waiting' = [waiting EXCEPT ![w] = Append(waiting[w], c)]
  BY <1>2 DEF Waits, TaskWait
<1>5. NoIdleSleeper' /\ SleepersInUse'
  <2>1. \A r \in Queue, side \in Side : w = <<r, side>> => count[r][side] = 0
    BY <1>2, SideApart
  <2>2. \A r \in Queue : w = <<r, "mem">> => box[r] = << >>
    BY <1>2, SideApart
  <2> QED
    BY <1>1, <1>2, <1>4, <2>1, <2>2, SleepOne DEF qcb, mail
<1>6. ReturnInv'
  <2>1. pc' = [pc EXCEPT ![c] = "sched"] /\ arg' = [arg EXCEPT ![c] = w]
    BY <1>2 DEF Waits
  <2>2. \A u \in Task : pc'[u] = "ret" => pc[u] = "ret" /\ arg'[u] = arg[u]
    BY <2>1 DEF QueueInv, TInv, PlaceInv
  <2> QED
    BY <2>2, ReturnKeep DEF QueueInv
<1>7. RingInv'
  BY <1>1 DEF MailWait, QueueWait, QueueInv, RingInv, qcb
<1>8. PoolInv'
  BY <1>1 DEF QueueInv, PoolInv, mail
<1> QED
  BY <1>3, <1>5, <1>6, <1>7, <1>8 DEF QueueInv

(* The first waiter is woken by a call.                                    *)
LEMMA WakeFirst ==
  ASSUME QueueInv, NEW c \in Task \cup {Isr}, Enters(c),
         NEW w \in WaitList, waiting[w] # << >>,
         TaskWake(ready, pri, Head(waiting[w]), w), ThenSchedule(c),
         UNCHANGED <<pri, recycle, isr>>
  PROVE  TInv' /\ ReturnInv' /\ NoneJoins
<1> DEFINE t == Head(waiting[w])
<1>1. t \in Task
  BY TailLinks DEF QueueInv, TInv, TcbInv
<1> HIDE DEF t
<1>2. TaskWake(ready, pri, t, w)
  BY DEF t
<1>3. TInv' /\ NoneJoins
  BY <1>1, <1>2, Callers, TypeWake, JoinsWake DEF QueueInv, TInv, TcbInv
<1>4. ReturnInv'
  <2>1. arg' = arg /\ \A u \in Task : pc'[u] = "ret" => pc[u] = "ret"
    BY DEF ThenSchedule, QueueInv, TInv, PlaceInv
  <2> QED
    BY <2>1, ReturnKeep DEF QueueInv
<1> QED
  BY <1>3, <1>4

(* A message less on one side of the queue, a slot more on the other.      *)
LEMMA CountLess ==
  ASSUME RingInv, NEW q \in Queue, NEW side \in Side, count[q][side] > 0
  PROVE  /\ [count EXCEPT ![q][side] = @ - 1] \in [Queue -> [Side -> Nat]]
         /\ [count EXCEPT ![q][side] = @ - 1, ![q][Opposite(side)] = @ + 1]
              \in [Queue -> [Side -> Nat]]
         /\ [count EXCEPT ![q][Opposite(side)] = @ + 1] \in [Queue -> [Side -> Nat]]
<1>1. count[q] \in [Side -> Nat] /\ Opposite(side) \in Side /\ Opposite(side) # side
  BY OtherSide DEF RingInv
<1>2. count[q][side] - 1 \in Nat /\ count[q][Opposite(side)] + 1 \in Nat
  BY <1>1
<1> QED
  BY <1>1, <1>2 DEF RingInv

LEMMA QueueOperateInv ==
  ASSUME QueueInv, NEW c \in Task \cup {Isr}, NEW q \in Queue, NEW op \in Operation,
         QueueOperate(c, q, op)
  PROVE  QueueInv'
<1> DEFINE here  == op.side
           there == Opposite(op.side)
<1>1. /\ here \in Side /\ there \in Side /\ here # there
      /\ <<q, here>> \in WaitList /\ <<q, there>> \in WaitList
  BY WaitLists, OperationSide, OtherSide DEF Side
<1>2. /\ Enters(c) /\ q \in queUsed /\ count[q][here] > 0
      /\ UNCHANGED <<queUsed, queLen, call, mail>>
  BY DEF QueueOperate
<1>3. PoolInv' /\ waiting[<<q, here>>] = << >>
  <2>1. count[q][here] # 0
    BY <1>2
  <2>2. waiting[<<q, here>>] # << >> => count[q][here] = 0
    BY <1>1 DEF QueueInv, NoIdleSleeper
  <2> QED
    BY <1>2, <2>1, <2>2 DEF QueueInv, PoolInv, mail
<1>4. CASE waiting[<<q, there>>] # << >>
  <2>1. /\ count' = [count EXCEPT ![q][here] = @ - 1]
        /\ TaskWake(ready, pri, Head(waiting[<<q, there>>]), <<q, there>>)
        /\ ThenSchedule(c) /\ UNCHANGED <<pri, recycle, isr>>
    BY <1>4 DEF QueueOperate
  <2>2. TInv' /\ ReturnInv' /\ NoneJoins
    BY <1>1, <1>2, <1>4, <2>1, WakeFirst
  <2>3. RingInv'
    BY <1>1, <1>2, <2>1, CountLess DEF QueueInv, RingInv
  <2>4. /\ count'[q][there] = count[q][there]
        /\ \A r \in Queue \ {q} : count'[r] = count[r]
    BY <1>1, <2>1 DEF QueueInv, RingInv
  <2>6. NoIdleSleeper'
    <3> SUFFICES ASSUME NEW r \in Queue
                 PROVE  /\ \A side \in Side :
                             waiting'[<<r, side>>] # << >> => count'[r][side] = 0
                        /\ waiting'[<<r, "mem">>] # << >> => box'[r] = << >>
      BY DEF NoIdleSleeper
    <3>1. waiting'[<<r, "mem">>] # << >> => box'[r] = << >>
      BY <1>2, <2>2, WaitLists DEF NoneJoins, QueueInv, NoIdleSleeper, mail
    <3>2. ASSUME NEW side \in Side, waiting'[<<r, side>>] # << >>
          PROVE  count'[r][side] = 0
      <4>1. <<r, side>> \in WaitList
        BY WaitLists DEF Side
      <4>2. waiting[<<r, side>>] # << >>
        BY <2>2, <3>2, <4>1 DEF NoneJoins
      <4>3. count[r][side] = 0
        BY <4>2 DEF QueueInv, NoIdleSleeper
      <4>4. r = q => side = there
        BY <1>1, <1>3, <4>2 DEF Side
      <4> QED
        BY <2>4, <4>3, <4>4
    <3> QED
      BY <3>1, <3>2
  <2>7. SleepersInUse'
    BY <1>2, <2>2 DEF NoneJoins, QueueInv, SleepersInUse
  <2> QED
    BY <1>3, <2>2, <2>3, <2>6, <2>7 DEF QueueInv
<1>5. CASE waiting[<<q, there>>] = << >>
  <2>1. /\ count' = [count EXCEPT ![q][here] = @ - 1, ![q][there] = @ + 1]
        /\ UNCHANGED vars
    BY <1>5 DEF QueueOperate
  <2>2. TInv' /\ ReturnInv' /\ UNCHANGED waiting
    BY <2>1, TInvSame DEF QueueInv, ReturnInv, vars, tcb
  <2>3. RingInv'
    BY <1>1, <1>2, <2>1, CountLess DEF QueueInv, RingInv
  <2>4. \A r \in Queue \ {q} : count'[r] = count[r]
    BY <2>1 DEF QueueInv, RingInv
  <2>5. \A side \in Side : waiting[<<q, side>>] = << >>
    BY <1>1, <1>3, <1>5 DEF Side
  <2>6. NoIdleSleeper'
    BY <1>2, <2>2, <2>4, <2>5 DEF QueueInv, NoIdleSleeper, mail
  <2>7. SleepersInUse'
    BY <1>2, <2>2 DEF QueueInv, SleepersInUse
  <2> QED
    BY <1>3, <2>2, <2>3, <2>6, <2>7 DEF QueueInv
<1> QED
  BY <1>4, <1>5

LEMMA QueueGoOnInv ==
  ASSUME QueueInv, NEW c \in Task, QueueGoOn(c)
  PROVE  QueueInv'
<1> DEFINE q     == arg[c][1]
           there == Opposite(call[c].side)
<1>1. /\ call[c] \in Operation /\ arg[c] \in WaitList /\ c # Idle
  BY DEF QueueGoOn, QueueInv, RingInv, ReturnInv, TInv, PlaceInv
<1>2. /\ q \in Queue /\ there \in Side /\ <<q, there>> \in WaitList
  <2>1. PICK r \in Queue, s \in {"read", "write", "mem"} : arg[c] = <<r, s>>
    BY <1>1, WaitLists
  <2>2. there \in Side
    BY <1>1, OperationSide, OtherSide
  <2>3. q = r
    BY <2>1
  <2> HIDE DEF q, there
  <2>4. there = "read" \/ there = "write"
    BY <2>2 DEF Side
  <2> QED
    BY <2>2, <2>3, <2>4, WaitLists
<1>3. /\ arg' = [arg EXCEPT ![c] = NoArg]
      /\ call' = [call EXCEPT ![c] = NoCall]
      /\ UNCHANGED <<pri, recycle, sched, isr, queUsed, queLen, mail>>
      /\ \E place \in {"sched", "user"} : pc' = [pc EXCEPT ![c] = place]
  BY DEF QueueGoOn
<1> HIDE DEF q, there
<1>4. PlaceInv' /\ ReturnInv'
  <2>1. PlaceInv'
    BY <1>1, <1>3 DEF QueueInv, TInv, PlaceInv, Places
  <2>2. \A u \in Task : pc'[u] = "ret" => pc[u] = "ret" /\ arg'[u] = arg[u]
    BY <1>3 DEF QueueInv, TInv, PlaceInv
  <2> QED
    BY <2>1, <2>2, ReturnKeep DEF QueueInv
<1>5. SchedInv' /\ IsrInv' /\ PoolInv'
  BY <1>3, IsrSame DEF QueueInv, TInv, SchedInv, sched, PoolInv, mail
<1>6. CASE waiting[<<q, there>>] # << >>
  <2> DEFINE t == Head(waiting[<<q, there>>])
  <2>1. TaskWake(ready, pri, t, <<q, there>>) /\ UNCHANGED count
    BY <1>6 DEF QueueGoOn, q, there
  <2>2. t \in Task
    BY <1>2, <1>6, TailLinks DEF QueueInv, TInv, TcbInv
  <2> HIDE DEF t
  <2>3. TcbInv' /\ NoneJoins
    BY <1>2, <1>3, <2>1, <2>2, TcbWake, JoinsWake DEF QueueInv, TInv, TcbInv
  <2>4. NoIdleSleeper' /\ SleepersInUse'
    BY <1>3, <2>1, <2>3, SleepSame DEF mail
  <2>5. RingInv'
    BY <1>3, <2>1 DEF QueueInv, RingInv
  <2> QED
    BY <1>4, <1>5, <2>3, <2>4, <2>5 DEF QueueInv, TInv
<1>7. CASE waiting[<<q, there>>] = << >>
  <2>1. /\ count' = [count EXCEPT ![q][there] = @ + 1]
        /\ UNCHANGED <<status, ready, waiting, due, fault>>
    BY <1>7 DEF QueueGoOn, NoUnlinking, q, there
  <2>2. TcbInv'
    BY <1>3, <2>1 DEF QueueInv, TInv, TcbInv, Live, Is
  <2>3. RingInv'
    <3>1. count[q][there] + 1 \in Nat
      BY <1>2 DEF QueueInv, RingInv
    <3> QED
      BY <1>2, <1>3, <2>1, <3>1 DEF QueueInv, RingInv
  <2>4. /\ \A r \in Queue \ {q} : count'[r] = count[r]
        /\ \A side \in Side \ {there} : count'[q][side] = count[q][side]
    BY <1>2, <2>1 DEF QueueInv, RingInv
  <2>5. NoIdleSleeper'
    <3>1. ASSUME NEW r \in Queue, NEW side \in Side, waiting'[<<r, side>>] # << >>
          PROVE  count'[r][side] = 0
      <4>1. waiting[<<r, side>>] # << >> /\ count[r][side] = 0
        BY <2>1, <3>1 DEF QueueInv, NoIdleSleeper
      <4>2. ~(r = q /\ side = there)
        BY <1>7, <4>1
      <4> QED
        BY <2>4, <4>1, <4>2
    <3>2. \A r \in Queue : waiting'[<<r, "mem">>] # << >> => box'[r] = << >>
      BY <1>3, <2>1 DEF QueueInv, NoIdleSleeper, mail
    <3> QED
      BY <3>1, <3>2 DEF NoIdleSleeper
  <2>6. SleepersInUse'
    BY <1>3, <2>1 DEF QueueInv, SleepersInUse
  <2> QED
    BY <1>4, <1>5, <2>2, <2>3, <2>5, <2>6 DEF QueueInv, TInv
<1> QED
  BY <1>6, <1>7

LEMMA MailAllocInv ==
  ASSUME QueueInv, NEW c \in Task \cup {Isr}, NEW q \in Queue, MailAlloc(c, q)
  PROVE  QueueInv'
<1>1. /\ box[q] # << >> /\ box' = [box EXCEPT ![q] = Tail(box[q])]
      /\ held' = [held EXCEPT ![q] = held[q] \cup {Head(box[q])}]
      /\ UNCHANGED <<vars, qcb, call, puwMsg>>
  BY DEF MailAlloc
<1>2. Head(box[q]) \in Block /\ Tail(box[q]) \in Seq(Block)
  BY <1>1, TailLinks DEF QueueInv, PoolInv
<1>3. TInv' /\ ReturnInv' /\ UNCHANGED waiting
  BY <1>1, TInvSame DEF QueueInv, ReturnInv, vars, tcb
<1>4. RingInv' /\ PoolInv'
  BY <1>1, <1>2 DEF QueueInv, RingInv, PoolInv, qcb
<1>5. SleepersInUse'
  BY <1>1, <1>3 DEF QueueInv, SleepersInUse, qcb
<1>6. NoIdleSleeper'
  BY <1>1, <1>3 DEF QueueInv, NoIdleSleeper, PoolInv, qcb
<1> QED
  BY <1>3, <1>4, <1>5, <1>6 DEF QueueInv

LEMMA MailFreeInv ==
  ASSUME QueueInv, NEW c \in Task \cup {Isr}, NEW q \in Queue, NEW b \in Block,
         MailFree(c, q, b)
  PROVE  QueueInv'
<1> DEFINE mem == <<q, "mem">>
<1>1. /\ Enters(c) /\ held' = [held EXCEPT ![q] = held[q] \ {b}]
      /\ UNCHANGED <<qcb, call>> /\ mem \in WaitList
  BY WaitLists DEF MailFree
<1>2. RingInv' /\ held' \in [Queue -> SUBSET Block]
  BY <1>1 DEF QueueInv, RingInv, PoolInv, qcb
<1>3. CASE q \in queUsed /\ waiting[mem] # << >>
  <2>1. /\ TaskWake(ready, pri, Head(waiting[mem]), mem) /\ ThenSchedule(c)
        /\ puwMsg' = [puwMsg EXCEPT ![Head(waiting[mem])] = b]
        /\ UNCHANGED <<pri, recycle, isr, box>>
    BY <1>3 DEF MailFree
  <2>2. TInv' /\ ReturnInv' /\ NoneJoins
    BY <1>1, <1>3, <2>1, WakeFirst
  <2>3. PoolInv'
    BY <1>2, <2>1 DEF QueueInv, PoolInv
  <2>4. NoIdleSleeper' /\ SleepersInUse'
    BY <1>1, <2>1, <2>2, SleepSame DEF qcb
  <2> QED
    BY <1>2, <2>2, <2>3, <2>4 DEF QueueInv
<1>4. CASE ~(q \in queUsed /\ waiting[mem] # << >>)
  <2>1. /\ box' = [box EXCEPT ![q] = <<b>> \o box[q]]
        /\ UNCHANGED <<puwMsg, vars>>
    BY <1>4 DEF MailFree
  <2>2. TInv' /\ ReturnInv' /\ UNCHANGED waiting
    BY <2>1, TInvSame DEF QueueInv, ReturnInv, vars, tcb
  <2>3. PoolInv'
    BY <1>2, <2>1 DEF QueueInv, PoolInv
  <2>4. waiting[mem] = << >>
    BY <1>1, <1>4 DEF QueueInv, SleepersInUse
  <2>5. NoIdleSleeper'
    BY <1>1, <2>1, <2>2, <2>4 DEF QueueInv, NoIdleSleeper, PoolInv, qcb
  <2>6. SleepersInUse'
    BY <1>1, <2>2 DEF QueueInv, SleepersInUse, qcb
  <2> QED
    BY <1>2, <2>2, <2>3, <2>5, <2>6 DEF QueueInv
<1> QED
  BY <1>3, <1>4

LEMMA QueueInvStep ==
  ASSUME QueueInv, [QueueNext]_quevars
  PROVE  QueueInv'
<1>1. ASSUME NoneJoins, TInv', ReturnInv', UNCHANGED <<qcb, call, mail>>
      PROVE  QueueInv'
  <2>1. NoIdleSleeper' /\ SleepersInUse'
    BY <1>1, SleepSame DEF qcb, mail
  <2> QED
    BY <1>1, <2>1 DEF QueueInv, RingInv, PoolInv, qcb, mail
<1>2. CASE UNCHANGED quevars
  <2>1. TInv' /\ ReturnInv' /\ NoneJoins
    BY <1>2, TInvSame, JoinsSame DEF QueueInv, ReturnInv, quevars, vars, tcb
  <2> QED
    BY <1>1, <1>2, <2>1 DEF quevars
<1>3. CASE Next /\ UNCHANGED <<qcb, call, mail>>
  <2>1. TInv' /\ ReturnInv' /\ NoneJoins
    BY <1>3, TInvStep, ReturnNext, SchedulerUnlinks, JoinsSame, JoinsUnlink DEF QueueInv
  <2> QED
    BY <1>1, <1>3, <2>1
<1>4. CASE QueueStep
  <2>1. ASSUME NEW c \in Task \cup {Isr}, c = Isr, NEW q, NEW n,
               MailWait(c, q, n) \/ \E op \in Operation : QueueWait(c, q, op, n)
        PROVE  FALSE
    BY <2>1 DEF MailWait, QueueWait
  <2> QED
    BY <1>4, <2>1, QueueMakeInv, QueueOperateInv, QueueSleepInv, MailAllocInv, MailFreeInv
       DEF QueueStep
<1>5. CASE Returns
  BY <1>5, QueueGoOnInv, QueueBackInv DEF Returns
<1> QED
  BY <1>2, <1>3, <1>4, <1>5 DEF QueueNext

LEMMA QueueInvAlways == QueueSpec => []QueueInv
BY QueueInvInit, QueueInvStep, PTL DEF QueueSpec

(* Nobody sleeps while there is what it waits for: a woken reader or       *)
(* writer passes its turn on when it comes back, in whatever order calls,  *)
(* timeouts and deletions of the tasks in between go.                      *)
THEOREM NoIdleSleeperHolds == QueueSpec => []NoIdleSleeper
<1>1. QueueInv => NoIdleSleeper
  BY DEF QueueInv
<1> QED
  BY <1>1, QueueInvAlways, PTL
-----------------------------------------------------------------------------
(***************************************************************************)
(* The lists of the scheduler under the steps of los_queue.c, and what a   *)
(* task in a call will do when it is let in.                               *)
(*                                                                         *)
(* osQueueMailAlloc waits without looking at the scheduler lock: a task    *)
(* that calls it with the lock held goes on while it is on a wait list,    *)
(* and nothing that follows is as los_task.c supposes.  What rests on the  *)
(* lists is proved for applications that do not.                           *)
(***************************************************************************)
MailWaitUnlocked ==
  \A c \in Task, q \in Queue, n \in Timeouts : MailWait(c, q, n) => taskLock = 0

MailUnlocked == [][MailWaitUnlocked]_quevars

CallMatch ==
  \A t \in Task : arg[t] \in WaitList =>
    IF call[t] = NoCall THEN arg[t][2] = "mem" ELSE arg[t][2] = call[t].side

HoldInv == ListInv /\ CallInv /\ CallMatch

QueueFrom == QueueInv /\ HoldInv /\ QueueInv'

LEMMA MatchKeep ==
  ASSUME CallMatch,
         \A u \in Task : arg'[u] \in WaitList => arg'[u] = arg[u] /\ call'[u] = call[u]
  PROVE  CallMatch'
BY DEF CallMatch

LEMMA HoldSleep ==
  ASSUME QueueFrom, NEW c \in Task, NEW q \in Queue, NEW n \in Timeouts, taskLock = 0,
         MailWait(c, q, n) \/ \E op \in Operation : QueueWait(c, q, op, n)
  PROVE  HoldInv'
<1> USE DEF QueueFrom, QueueInv, HoldInv
<1>1. /\ Running(c) /\ pc[c] = "user" /\ WaitTime(n) /\ UNCHANGED pri
  BY TaskAssumption DEF MailWait, QueueWait, Enters, Timeouts, WaitTime
<1>2. PICK w \in WaitList, op \in Operation \cup {NoCall} :
        /\ Waits(ready, c, w, n) /\ call' = [call EXCEPT ![c] = op]
        /\ IF op = NoCall THEN w[2] = "mem" ELSE w[2] = op.side
  <2>1. ASSUME MailWait(c, q, n)
        PROVE  /\ <<q, "mem">> \in WaitList /\ Waits(ready, c, <<q, "mem">>, n)
               /\ call' = [call EXCEPT ![c] = NoCall] /\ <<q, "mem">>[2] = "mem"
    BY <2>1, WaitLists DEF MailWait, Waits
  <2>2. ASSUME NEW op \in Operation, QueueWait(c, q, op, n)
        PROVE  /\ <<q, op.side>> \in WaitList /\ Waits(ready, c, <<q, op.side>>, n)
               /\ call' = [call EXCEPT ![c] = op] /\ <<q, op.side>>[2] = op.side
               /\ op # NoCall
    BY <2>2, WaitLists, OperationSide DEF QueueWait, Waits, Side
  <2> QED
    BY <2>1, <2>2
<1>3. ready \in [Prio -> Seq(Task)] /\ Filed(ready, pri', ReadyTasks) /\ pri'[c] = pri[c]
  BY <1>1 DEF TInv, TcbInv, ListInv, ReadyInv
<1>4. ListInv' /\ CallInv'
  BY <1>1, <1>2, <1>3, ListWait, CallWait DEF StepFrom
<1>5. /\ arg'[c] = w /\ call'[c] = op
      /\ \A u \in Task \ {c} : arg'[u] = arg[u] /\ call'[u] = call[u]
  BY <1>2 DEF Waits, TInv, PlaceInv, RingInv
<1>6. CallMatch'
  BY <1>2, <1>5 DEF CallMatch
<1> QED
  BY <1>4, <1>6

LEMMA HoldWake ==
  ASSUME QueueFrom, NEW c \in Task \cup {Isr}, UNCHANGED call,
         NEW w \in WaitList, waiting[w] # << >>,
         TaskWake(ready, pri, Head(waiting[w]), w), ThenSchedule(c),
         UNCHANGED <<pri, recycle, isr>>
  PROVE  HoldInv'
<1> USE DEF QueueFrom, QueueInv, HoldInv
<1> DEFINE t == Head(waiting[w])
<1>1. t \in Task /\ Linked(waiting[w], t) /\ TaskWake(ready, pri, t, w)
  BY TailLinks DEF TInv, TcbInv
<1> HIDE DEF t
<1>2. ready \in [Prio -> Seq(Task)] /\ Filed(ready, pri', ReadyTasks)
      /\ pri' \in [Task -> Prio] /\ TaskWake(ready, pri', t, w)
  BY <1>1 DEF TInv, TcbInv, ListInv, ReadyInv
<1>3. ListInv'
  BY <1>1, <1>2, ListWake DEF StepFrom
<1>4. \A u \in Task : (pc'[u] = pc[u] \/ pc'[u] = "sched") /\ arg'[u] = arg[u]
  BY CallThen
<1>5. CallInv'
  BY <1>1, <1>2, <1>4, CallWake
<1>6. CallMatch'
  BY <1>4, MatchKeep
<1> QED
  BY <1>3, <1>5, <1>6

LEMMA HoldBack ==
  ASSUME QueueFrom, NEW c \in Task, QueueTimedOut(c) \/ MailGoOn(c)
  PROVE  HoldInv'
<1> USE DEF QueueFrom, QueueInv, HoldInv
<1>1. /\ Running(c) /\ pc[c] = "ret" /\ Back(c)
      /\ \A u \in Task \ {c} : call'[u] = call[u]
  BY DEF QueueTimedOut, MailGoOn, Back, NoUnlinking, tcb, RingInv
<1>2. "TIMEOUT" \notin status'[c]
  BY DEF QueueTimedOut, MailGoOn, tcb, TInv, TcbInv, Is
<1>3. ListInv' /\ CallInv'
  BY <1>1, <1>2, ListBack, CallBack DEF StepFrom
<1>4. \A u \in Task : arg'[u] \in WaitList => u # c /\ arg'[u] = arg[u]
  BY <1>1, TaskAssumption DEF Back, TInv, PlaceInv
<1>5. CallMatch'
  BY <1>1, <1>4, MatchKeep
<1> QED
  BY <1>3, <1>5

LEMMA HoldAlone ==
  ASSUME QueueFrom, UNCHANGED vars, UNCHANGED call
  PROVE  HoldInv'
<1>1. ListInv' /\ CallMatch'
  BY ListInvStep, MatchKeep DEF QueueFrom, QueueInv, HoldInv, vars
<1>2. CallInv'
  BY CallKeep DEF vars, tcb, QueueFrom, HoldInv, Is
<1> QED
  BY <1>1, <1>2 DEF HoldInv

(* Where a task that goes on stands, and whom it may wake.                 *)
LEMMA GoOnPlace ==
  ASSUME QueueInv, HoldInv, NEW c \in Task, QueueGoOn(c)
  PROVE  \E q \in Queue, side \in Side :
           /\ arg[c] = <<q, side>> /\ call[c] \in Operation /\ call[c].side = side
           /\ <<q, side>> \in WaitList /\ <<q, Opposite(side)>> \in WaitList
           /\ Opposite(side) \in Side
           /\ ~Is(c, "PEND") /\ ~Is(c, "TIMEOUT") /\ ~Halted(c)
<1>1. /\ call[c] \in Operation /\ call[c] # NoCall /\ arg[c] \in WaitList
      /\ ~Is(c, "TIMEOUT") /\ ~Halted(c)
  BY RunnerNotHalted DEF QueueGoOn, QueueInv, RingInv, ReturnInv, HoldInv, ListInv
<1>2. PICK q \in Queue, s \in {"read", "write", "mem"} : arg[c] = <<q, s>>
  BY <1>1, WaitLists
<1>3. s = call[c].side
  BY <1>1, <1>2 DEF HoldInv, CallMatch
<1>4. s \in Side /\ Opposite(s) \in Side
  BY <1>1, <1>3, OperationSide, OtherSide
<1>5. <<q, s>> \in WaitList /\ <<q, Opposite(s)>> \in WaitList
  BY <1>4, WaitLists DEF Side
<1> QED
  BY <1>1, <1>2, <1>3, <1>4, <1>5 DEF Halted

LEMMA HoldGoOn ==
  ASSUME QueueFrom, NEW c \in Task, QueueGoOn(c)
  PROVE  HoldInv'
<1> USE DEF QueueFrom, QueueInv, HoldInv
<1>1. PICK q \in Queue, side \in Side :
        /\ arg[c] = <<q, side>> /\ call[c] \in Operation /\ call[c].side = side
        /\ <<q, Opposite(side)>> \in WaitList /\ ~Halted(c) /\ ~Is(c, "TIMEOUT")
  BY GoOnPlace
<1>2. /\ Running(c) /\ pc[c] = "ret"
      /\ arg' = [arg EXCEPT ![c] = NoArg] /\ call' = [call EXCEPT ![c] = NoCall]
      /\ UNCHANGED <<pri, recycle, run, new, pendsv, taskLock, tick>>
  BY DEF QueueGoOn, sched, isr
<1>3. /\ arg'[c] = NoArg /\ arg'[c] \notin WaitList
      /\ \A u \in Task \ {c} : arg'[u] = arg[u] /\ call'[u] = call[u]
  BY <1>2, TaskAssumption DEF TInv, PlaceInv, RingInv
<1>4. CallMatch'
  BY <1>3, MatchKeep
<1>5. CASE waiting[<<q, Opposite(side)>>] = << >>
  <2>1. Back(c) /\ "TIMEOUT" \notin status'[c]
    BY <1>1, <1>5 DEF QueueGoOn, Back, NoUnlinking, Is
  <2> QED
    BY <1>2, <1>4, <2>1, ListBack, CallBack DEF StepFrom
<1>6. CASE waiting[<<q, Opposite(side)>>] # << >>
  <2> DEFINE w == <<q, Opposite(side)>>
             t == Head(waiting[w])
  <2>1. TaskWake(ready, pri, t, w) /\ pc' = [pc EXCEPT ![c] = "sched"]
    BY <1>1, <1>6 DEF QueueGoOn
  <2>2. w \in WaitList /\ t \in Task /\ Linked(waiting[w], t)
    BY <1>1, <1>6, TailLinks DEF TInv, TcbInv
  <2> HIDE DEF t, w
  <2>3. ready \in [Prio -> Seq(Task)] /\ Filed(ready, pri', ReadyTasks)
        /\ pri' \in [Task -> Prio] /\ TaskWake(ready, pri', t, w)
    BY <1>2, <2>1 DEF TInv, TcbInv, ListInv, ReadyInv
  <2>4. \A u \in Task : Is(u, "PEND") => arg'[u] = arg[u]
    BY <1>1, <1>3 DEF Halted
  <2>5. /\ FlagInv' /\ ReadyInv' /\ WaitInv' /\ DueInv' /\ RecycleInv'
        /\ \A u \in Task : SameFlag("RUNNING", u) /\ SameFlag("UNUSED", u)
        /\ \A u \in Task : Halted(u)' => Halted(u) /\ u # t
        /\ \A d \in Task : pc[d] = "create" => status'[arg[d]] = status[arg[d]]
    BY <1>2, <2>2, <2>3, <2>4, WakeLists DEF TInv
  <2>6. RunInv'
    <3>1. "UNUSED" \notin status'[new']
      BY <1>2, <2>5 DEF ListInv, RunInv, Live, Is, SameFlag, TInv, SchedInv
    <3> QED
      BY <1>2, <2>5, <3>1, RunKeep DEF ListInv
  <2>7. pc'[c] = "sched" /\ \A u \in Task \ {c} : pc'[u] = pc[u]
    BY <2>1 DEF TInv, PlaceInv
  <2>8. BlockInv'
    BY <1>2, <2>5, <2>7, BlockKeep DEF ListInv, Stopping
  <2>9. CreateInv'
    BY <1>2, <1>3, <2>5, <2>7, CreateKeep DEF ListInv, TInv
  <2>10. CallInv'
    <3>1. \A u \in Task : arg'[u] \in WaitList => arg'[u] = arg[u] /\ pc'[u] = pc[u]
      BY <1>3, <2>7
    <3>2. \A u \in Task : pc'[u] = "ret" => pc[u] = "ret" /\ arg'[u] = arg[u]
      BY <1>3, <2>7
    <3>3. \A u \in Task : Is(u, "TIMEOUT") => arg'[u] = arg[u]
      BY <1>1, <1>3
    <3> QED
      BY <2>2, <2>3, <3>1, <3>2, <3>3, CallWake
  <2> QED
    BY <1>4, <2>5, <2>6, <2>8, <2>9, <2>10 DEF ListInv
<1> QED
  BY <1>5, <1>6

LEMMA HoldInvStep ==
  ASSUME QueueInv, HoldInv, [QueueNext]_quevars, [MailWaitUnlocked]_quevars
  PROVE  HoldInv'
<1>1. QueueFrom
  BY QueueInvStep DEF QueueFrom
<1>2. CASE UNCHANGED vars /\ UNCHANGED call
  BY <1>1, <1>2, HoldAlone
<1>3. CASE Next /\ UNCHANGED call
  <2>1. ListInv' /\ CallInv'
    BY <1>3, ListInvStep, CallInvStep DEF QueueInv, HoldInv
  <2>2. \A u \in Task : arg'[u] \in WaitList => arg'[u] = arg[u]
    BY <1>3, WaitKept DEF QueueInv, HoldInv, SameWait
  <2>3. CallMatch'
    BY <1>3, <2>2, MatchKeep DEF HoldInv
  <2> QED
    BY <2>1, <2>3 DEF HoldInv
<1>4. CASE QueueStep /\ MailWaitUnlocked
  <2>1. ASSUME NEW c \in Task \cup {Isr}, NEW q \in Queue,
               \/ \E n \in Lengths : QueueCreate(c, q, n)
               \/ QueueDelete(c, q) \/ MailAlloc(c, q)
        PROVE  HoldInv'
    BY <1>2, <2>1 DEF QueueCreate, QueueDelete, MailAlloc
  <2>2. ASSUME NEW c \in Task \cup {Isr}, NEW q \in Queue, NEW op \in Operation,
               QueueOperate(c, q, op)
        PROVE  HoldInv'
    <3>1. <<q, Opposite(op.side)>> \in WaitList
      BY OperationSide, OtherSide, WaitLists DEF Side
    <3> QED
      BY <1>1, <1>2, <2>2, <3>1, HoldWake DEF QueueOperate
  <2>3. ASSUME NEW c \in Task \cup {Isr}, NEW q \in Queue, NEW n \in Timeouts,
               MailWait(c, q, n) \/ \E op \in Operation : QueueWait(c, q, op, n)
        PROVE  HoldInv'
    <3>1. c \in Task
      BY <2>3 DEF MailWait, QueueWait
    <3>2. taskLock = 0
      BY <1>4, <2>3, <3>1 DEF MailWaitUnlocked, QueueWait
    <3> QED
      BY <1>1, <2>3, <3>1, <3>2, HoldSleep
  <2>4. ASSUME NEW c \in Task \cup {Isr}, NEW q \in Queue, NEW b \in Block,
               MailFree(c, q, b)
        PROVE  HoldInv'
    <3>1. CASE q \in queUsed /\ waiting[<<q, "mem">>] # << >>
      BY <1>1, <2>4, <3>1, HoldWake, WaitLists DEF MailFree
    <3>2. CASE ~(q \in queUsed /\ waiting[<<q, "mem">>] # << >>)
      BY <1>2, <2>4, <3>2 DEF MailFree
    <3> QED
      BY <3>1, <3>2
  <2> QED
    BY <1>4, <2>1, <2>2, <2>3, <2>4 DEF QueueStep
<1>5. CASE Returns
  BY <1>1, <1>5, HoldGoOn, HoldBack DEF Returns
<1> QED
  BY <1>2, <1>3, <1>4, <1>5 DEF QueueNext, quevars

LEMMA HoldInvAlways == QueueSpec /\ MailUnlocked => [](QueueInv /\ HoldInv)
<1>1. QueueInit => HoldInv
  <2>1. QueueInit => CallMatch
    BY TaskAssumption DEF QueueInit, Init, CallMatch
  <2> QED
    BY <2>1, ListInvInit, CallInvInit DEF QueueInit, HoldInv
<1> QED
  BY <1>1, QueueInvAlways, HoldInvStep, PTL DEF QueueSpec, MailUnlocked
-----------------------------------------------------------------------------
(***************************************************************************)
(* The tasks that were let in.  In a queue in use what is readable, what   *)
(* is writable and what was promised never exceed its length together, and *)
(* nothing is promised of a queue that is not in use: a task that was let  *)
(* in keeps the counts below the length, and LOS_QueueDelete away.         *)
(***************************************************************************)
Awaited(q, side) == Cardinality(Promised(<<q, side>>))

Taken(q) ==
  count[q]["read"] + count[q]["write"] + Awaited(q, "read") + Awaited(q, "write")

PromiseInv ==
  \A q \in Queue :
    /\ \A side \in Side : IsFiniteSet(Promised(<<q, side>>))
    /\ q \in queUsed => Taken(q) <= queLen[q]
    /\ q \notin queUsed => \A side \in Side : Promised(<<q, side>>) = {}

(* Nobody new is let in to side of q.                                      *)
Fewer(q, side) == Promised(<<q, side>>)' \subseteq Promised(<<q, side>>)

LEMMA TakenNat ==
  ASSUME RingInv, PromiseInv, NEW q \in Queue, NEW side \in Side
  PROVE  /\ Awaited(q, side) \in Nat /\ Awaited(q, Opposite(side)) \in Nat
         /\ count[q][side] \in Nat /\ count[q][Opposite(side)] \in Nat
         /\ Taken(q) = count[q][side] + count[q][Opposite(side)]
                         + Awaited(q, side) + Awaited(q, Opposite(side))
         /\ queLen[q] \in Nat
<1>1. \A s \in Side : Awaited(q, s) \in Nat /\ count[q][s] \in Nat
  BY FS_CardinalityType DEF PromiseInv, RingInv, Awaited
<1> QED
  BY <1>1 DEF Side, Opposite, Taken, RingInv

LEMMA FewerNat ==
  ASSUME PromiseInv, NEW q \in Queue, NEW side \in Side, Fewer(q, side)
  PROVE  /\ IsFiniteSet(Promised(<<q, side>>)')
         /\ Awaited(q, side)' \in Nat /\ Awaited(q, side)' <= Awaited(q, side)
<1>1. IsFiniteSet(Promised(<<q, side>>))
  BY DEF PromiseInv
<1>2. /\ IsFiniteSet(Promised(<<q, side>>)')
      /\ Cardinality(Promised(<<q, side>>)') <= Cardinality(Promised(<<q, side>>))
  BY <1>1, FS_Subset DEF Fewer
<1> QED
  BY <1>2, FS_CardinalityType DEF Awaited

LEMMA FewerTaken ==
  ASSUME PromiseInv, RingInv, NEW q \in Queue, count'[q] = count[q],
         \A side \in Side : Fewer(q, side)
  PROVE  /\ Taken(q)' \in Nat /\ Taken(q) \in Nat /\ Taken(q)' <= Taken(q)
         /\ \A side \in Side : IsFiniteSet(Promised(<<q, side>>)')
<1>1. "read" \in Side /\ "write" \in Side
  BY DEF Side
<1>2. /\ Awaited(q, "read")' \in Nat /\ Awaited(q, "read")' <= Awaited(q, "read")
      /\ Awaited(q, "write")' \in Nat /\ Awaited(q, "write")' <= Awaited(q, "write")
      /\ Awaited(q, "read") \in Nat /\ Awaited(q, "write") \in Nat
      /\ count[q]["read"] \in Nat /\ count[q]["write"] \in Nat
  BY <1>1, FewerNat, TakenNat
<1>3. Taken(q)' = count[q]["read"] + count[q]["write"] + Awaited(q, "read")'
                    + Awaited(q, "write")'
  BY DEF Taken
<1>4. Taken(q) = count[q]["read"] + count[q]["write"] + Awaited(q, "read")
                    + Awaited(q, "write")
  BY DEF Taken
<1>5. \A side \in Side : IsFiniteSet(Promised(<<q, side>>)')
  BY FewerNat
<1>6. Taken(q)' \in Nat /\ Taken(q) \in Nat /\ Taken(q)' <= Taken(q)
  BY <1>2, <1>3, <1>4
<1> QED
  BY <1>5, <1>6

(* A step that touches one queue.                                          *)
LEMMA PromiseOne ==
  ASSUME PromiseInv, RingInv, NEW q \in Queue,
         \A r \in Queue \ {q}, side \in Side :
           /\ Fewer(r, side) /\ count'[r] = count[r] /\ queLen'[r] = queLen[r]
           /\ r \in queUsed' <=> r \in queUsed,
         \A side \in Side : IsFiniteSet(Promised(<<q, side>>)'),
         q \in queUsed' => Taken(q)' <= queLen'[q],
         q \notin queUsed' => \A side \in Side : Promised(<<q, side>>)' = {}
  PROVE  PromiseInv'
<1> SUFFICES ASSUME NEW r \in Queue, r # q
             PROVE  /\ \A side \in Side : IsFiniteSet(Promised(<<r, side>>)')
                    /\ r \in queUsed' => Taken(r)' <= queLen'[r]
                    /\ r \notin queUsed' => \A side \in Side : Promised(<<r, side>>)' = {}
  BY DEF PromiseInv
<1>1. /\ "read" \in Side /\ \A side \in Side : Fewer(r, side)
      /\ count'[r] = count[r] /\ queLen'[r] = queLen[r] /\ queLen[r] \in Nat
      /\ r \in queUsed' <=> r \in queUsed
  BY DEF Side, RingInv
<1>2. /\ Taken(r)' \in Nat /\ Taken(r) \in Nat /\ Taken(r)' <= Taken(r)
      /\ \A side \in Side : IsFiniteSet(Promised(<<r, side>>)')
  BY <1>1, FewerTaken
<1>3. /\ r \in queUsed => Taken(r) <= queLen[r]
      /\ r \notin queUsed => \A side \in Side : Promised(<<r, side>>) = {}
  BY DEF PromiseInv
<1>4. r \in queUsed' => Taken(r)' <= queLen'[r]
  BY <1>1, <1>2, <1>3
<1>5. r \notin queUsed' => \A side \in Side : Promised(<<r, side>>)' = {}
  BY <1>1, <1>3 DEF Fewer
<1> QED
  BY <1>2, <1>4, <1>5

LEMMA PromiseFewer ==
  ASSUME PromiseInv, RingInv, UNCHANGED <<queUsed, queLen, count>>,
         \A q \in Queue, side \in Side : Fewer(q, side)
  PROVE  PromiseInv'
<1> SUFFICES ASSUME NEW q \in Queue PROVE PromiseInv'
  BY DEF PromiseInv
<1>1. /\ Taken(q)' \in Nat /\ Taken(q) \in Nat /\ Taken(q)' <= Taken(q)
      /\ \A side \in Side : IsFiniteSet(Promised(<<q, side>>)')
  BY FewerTaken
<1>2. /\ q \in queUsed => Taken(q) <= queLen[q]
      /\ q \notin queUsed => \A side \in Side : Promised(<<q, side>>) = {}
      /\ queLen[q] \in Nat
  BY DEF PromiseInv, RingInv
<1>3. q \in queUsed' => Taken(q)' <= queLen'[q]
  BY <1>1, <1>2
<1>4. q \notin queUsed' => \A side \in Side : Promised(<<q, side>>)' = {}
  BY <1>2 DEF Fewer
<1> QED
  BY <1>1, <1>3, <1>4, PromiseOne

(* Who is let in, and who is not any more.                                 *)
LEMMA PromisedScheduler ==
  ASSUME TInv, ListInv, CallInv, Next, NEW w \in WaitList
  PROVE  Promised(w)' \subseteq Promised(w)
<1> SUFFICES ASSUME NEW t \in Task, arg'[t] = w, ~Is(t, "PEND")', ~Is(t, "TIMEOUT")'
             PROVE  t \in Promised(w)
  BY DEF Promised
<1>1. SameWait(t)
  BY WaitKept
<1> QED
  BY <1>1 DEF SameWait, SameFlag, Promised, Is

LEMMA PromisedSame ==
  ASSUME UNCHANGED <<status, arg>>, NEW w
  PROVE  Promised(w)' = Promised(w)
BY DEF Promised, Is

LEMMA PromisedWait ==
  ASSUME TInv, NEW q, NEW c \in Task, NEW v, NEW n, Waits(q, c, v, n),
         NEW w \in WaitList
  PROVE  Promised(w)' \subseteq Promised(w)
<1>1. \E flags \in {{"PEND"}, {"PEND", "TIMEOUT"}} :
         status' = [status EXCEPT ![c] = (status[c] \ {"READY"}) \cup flags]
  BY DEF Waits, TaskWait
<1>2. /\ Is(c, "PEND")'
      /\ \A u \in Task \ {c} : status'[u] = status[u] /\ arg'[u] = arg[u]
  BY <1>1 DEF Waits, TInv, TcbInv, PlaceInv, Is
<1> QED
  BY <1>2 DEF Promised, Is

LEMMA PromisedBack ==
  ASSUME TInv, NEW c \in Task, Back(c), NEW w \in WaitList
  PROVE  Promised(w)' \subseteq Promised(w) \ {c}
<1>1. /\ arg'[c] = NoArg
      /\ \A u \in Task \ {c} : status'[u] = status[u] /\ arg'[u] = arg[u]
  BY DEF Back, TInv, TcbInv, PlaceInv
<1> QED
  BY <1>1, TaskAssumption DEF Promised, Is

LEMMA PromisedWake ==
  ASSUME TInv, NEW q, NEW p, NEW t \in Task, NEW v \in WaitList, arg[t] = v,
         TaskWake(q, p, t, v),
         \A u \in Task : arg'[u] \in WaitList => arg'[u] = arg[u],
         NEW w \in WaitList
  PROVE  Promised(w)' \subseteq Promised(w) \cup (IF w = v THEN {t} ELSE {})
<1>1. \E flags \in {{}, {"READY"}} :
         status' = [status EXCEPT ![t] = Woken(t) \cup flags]
  <2>1. Woken(t) \cup {} = Woken(t)
    OBVIOUS
  <2> QED
    BY <2>1 DEF TaskWake
<1>2. \A u \in Task \ {t} : status'[u] = status[u]
  BY <1>1 DEF TInv, TcbInv
<1> QED
  BY <1>2 DEF Promised, Is

LEMMA OneMore ==
  ASSUME NEW S, NEW T, NEW x, IsFiniteSet(S), T \subseteq S \cup {x}
  PROVE  IsFiniteSet(T) /\ Cardinality(T) \in Nat /\ Cardinality(T) <= Cardinality(S) + 1
<1>1. /\ IsFiniteSet(S \cup {x}) /\ Cardinality(S) \in Nat
      /\ Cardinality(S \cup {x}) \in {Cardinality(S), Cardinality(S) + 1}
  BY FS_AddElement, FS_CardinalityType
<1>2. IsFiniteSet(T) /\ Cardinality(T) <= Cardinality(S \cup {x})
  BY <1>1, FS_Subset
<1>3. Cardinality(T) \in Nat
  BY <1>2, FS_CardinalityType
<1> QED
  BY <1>1, <1>2, <1>3

LEMMA OneLess ==
  ASSUME NEW S, NEW T, NEW x \in S, IsFiniteSet(S), T \subseteq S \ {x}
  PROVE  IsFiniteSet(T) /\ Cardinality(T) \in Nat /\ Cardinality(T) + 1 <= Cardinality(S)
<1>1. /\ IsFiniteSet(S \ {x}) /\ Cardinality(S) \in Nat
      /\ Cardinality(S \ {x}) = Cardinality(S) - 1
  BY FS_RemoveElement, FS_CardinalityType
<1>2. IsFiniteSet(T) /\ Cardinality(T) <= Cardinality(S \ {x})
  BY <1>1, FS_Subset
<1>3. Cardinality(T) \in Nat
  BY <1>2, FS_CardinalityType
<1> QED
  BY <1>1, <1>2, <1>3
-----------------------------------------------------------------------------
LEMMA TakenBoth ==
  ASSUME NEW q \in Queue, NEW here \in Side, NEW there \in Side, here # there,
         count'[q][here] \in Nat, count'[q][there] \in Nat,
         Awaited(q, here)' \in Nat, Awaited(q, there)' \in Nat
  PROVE  Taken(q)' = count'[q][here] + count'[q][there]
                       + Awaited(q, here)' + Awaited(q, there)'
<1>1. CASE here = "read" /\ there = "write"
  BY <1>1 DEF Taken
<1>2. CASE here = "write" /\ there = "read"
  <2>1. Taken(q)' = count'[q][there] + count'[q][here]
                      + Awaited(q, there)' + Awaited(q, here)'
    BY <1>2 DEF Taken
  <2> QED
    BY <2>1
<1> QED
  BY <1>1, <1>2 DEF Side

LEMMA PromiseOperate ==
  ASSUME QueueInv, HoldInv, PromiseInv, NEW c \in Task \cup {Isr},
         NEW q \in Queue, NEW op \in Operation, QueueOperate(c, q, op)
  PROVE  PromiseInv'
<1> PICK here \in Side : here = op.side
  BY OperationSide
<1> PICK there \in Side : there = Opposite(here) /\ there # here
  BY OtherSide
<1>1. /\ q \in queUsed /\ count[q][here] > 0 /\ UNCHANGED <<queUsed, queLen, arg>>
      /\ <<q, here>> \in WaitList /\ <<q, there>> \in WaitList
      /\ \A r \in Queue, s \in Side : <<r, s>> \in WaitList
  BY WaitLists DEF QueueOperate, ThenSchedule, vars, Side
<1>2. /\ Awaited(q, here) \in Nat /\ Awaited(q, there) \in Nat
      /\ count[q][here] \in Nat /\ count[q][there] \in Nat /\ queLen[q] \in Nat
      /\ count[q][here] + count[q][there] + Awaited(q, here) + Awaited(q, there)
           <= queLen[q]
      /\ \A s \in Side : IsFiniteSet(Promised(<<q, s>>))
  BY <1>1, TakenNat DEF PromiseInv, QueueInv
<1>3. ASSUME count'[q][here] \in Nat, count'[q][there] \in Nat,
             Awaited(q, here)' \in Nat, Awaited(q, there)' \in Nat
      PROVE  Taken(q)' = count'[q][here] + count'[q][there]
                           + Awaited(q, here)' + Awaited(q, there)'
  BY <1>3, TakenBoth
<1>4. Side = {here, there}
  BY DEF Side
<1>5. CASE waiting[<<q, there>>] = << >>
  <2>1. /\ count' = [count EXCEPT ![q][here] = @ - 1, ![q][there] = @ + 1]
        /\ UNCHANGED status
    BY <1>5 DEF QueueOperate, vars, tcb
  <2>2. /\ count'[q][here] = count[q][here] - 1 /\ count'[q][there] = count[q][there] + 1
        /\ \A r \in Queue \ {q} : count'[r] = count[r]
    BY <2>1 DEF QueueInv, RingInv
  <2>3. \A r \in Queue, s \in Side : Promised(<<r, s>>)' = Promised(<<r, s>>)
    BY <1>1, <2>1, PromisedSame
  <2>4. Awaited(q, here)' = Awaited(q, here) /\ Awaited(q, there)' = Awaited(q, there)
    BY <2>3 DEF Awaited
  <2>5. Taken(q)' <= queLen'[q]
    BY <1>1, <1>2, <1>3, <2>2, <2>4
  <2> QED
    BY <1>1, <1>2, <2>2, <2>3, <2>5, PromiseOne DEF QueueInv, Fewer
<1>6. CASE waiting[<<q, there>>] # << >>
  <2> DEFINE t == Head(waiting[<<q, there>>])
  <2>1. /\ count' = [count EXCEPT ![q][here] = @ - 1]
        /\ TaskWake(ready, pri, t, <<q, there>>)
    BY <1>6 DEF QueueOperate
  <2>2. t \in Task /\ Linked(waiting[<<q, there>>], t)
    BY <1>1, <1>6, TailLinks DEF QueueInv, TInv, TcbInv
  <2> HIDE DEF t
  <2>3. arg[t] = <<q, there>>
    BY <1>1, <2>2, WaiterPends DEF QueueInv, HoldInv
  <2>4. /\ count'[q][here] = count[q][here] - 1 /\ count'[q][there] = count[q][there]
        /\ \A r \in Queue \ {q} : count'[r] = count[r]
    BY <2>1 DEF QueueInv, RingInv
  <2>5. \A w \in WaitList :
          Promised(w)' \subseteq Promised(w) \cup (IF w = <<q, there>> THEN {t} ELSE {})
    <3> PICK v \in WaitList : v = <<q, there>>
      BY <1>1
    <3> SUFFICES ASSUME NEW w \in WaitList
                 PROVE  Promised(w)' \subseteq Promised(w) \cup (IF w = v THEN {t} ELSE {})
      OBVIOUS
    <3>1. TInv /\ \A u \in Task : arg'[u] \in WaitList => arg'[u] = arg[u]
      BY <1>1 DEF QueueInv
    <3>2. TaskWake(ready, pri, t, v) /\ arg[t] = v
      BY <2>1, <2>3
    <3> QED
      BY <2>2, <3>1, <3>2, PromisedWake
  <2>6. Fewer(q, here) /\ \A r \in Queue \ {q}, s \in Side : Fewer(r, s)
    BY <1>1, <2>5, SideApart DEF Fewer
  <2>7. /\ IsFiniteSet(Promised(<<q, there>>)') /\ Awaited(q, there)' \in Nat
        /\ Awaited(q, there)' <= Awaited(q, there) + 1
    BY <1>1, <1>2, <2>5, OneMore DEF Awaited
  <2>8. /\ IsFiniteSet(Promised(<<q, here>>)') /\ Awaited(q, here)' \in Nat
        /\ Awaited(q, here)' <= Awaited(q, here)
    BY <2>6, FewerNat
  <2>9. Taken(q)' <= queLen'[q]
    BY <1>1, <1>2, <1>3, <2>4, <2>7, <2>8
  <2>10. \A s \in Side : IsFiniteSet(Promised(<<q, s>>)')
    BY <1>4, <2>7, <2>8
  <2> QED
    BY <1>1, <2>4, <2>6, <2>9, <2>10, PromiseOne DEF QueueInv
<1> QED
  BY <1>5, <1>6

LEMMA PromiseGoOn ==
  ASSUME QueueInv, HoldInv, PromiseInv, NEW c \in Task, QueueGoOn(c)
  PROVE  PromiseInv'
<1> PICK q \in Queue, here \in Side :
      /\ arg[c] = <<q, here>> /\ call[c] \in Operation /\ call[c].side = here
      /\ <<q, here>> \in WaitList /\ <<q, Opposite(here)>> \in WaitList
      /\ Opposite(here) \in Side
      /\ ~Is(c, "PEND") /\ ~Is(c, "TIMEOUT") /\ ~Halted(c)
  BY GoOnPlace
<1> PICK there \in Side : there = Opposite(here) /\ there # here
  BY OtherSide
<1>1. /\ UNCHANGED <<queUsed, queLen>> /\ arg' = [arg EXCEPT ![c] = NoArg]
      /\ \A r \in Queue, s \in Side : <<r, s>> \in WaitList
  BY WaitLists DEF QueueGoOn, Side
<1>2. arg'[c] \notin WaitList /\ \A u \in Task \ {c} : arg'[u] = arg[u]
  BY <1>1, TaskAssumption DEF QueueInv, TInv, PlaceInv
<1>3. c \in Promised(<<q, here>>) /\ \A w \in WaitList : c \notin Promised(w)'
  BY <1>2 DEF Promised
<1>4. q \in queUsed
  BY <1>3 DEF PromiseInv
<1>5. /\ Awaited(q, here) \in Nat /\ Awaited(q, there) \in Nat
      /\ count[q][here] \in Nat /\ count[q][there] \in Nat /\ queLen[q] \in Nat
      /\ count[q][here] + count[q][there] + Awaited(q, here) + Awaited(q, there)
           <= queLen[q]
      /\ \A s \in Side : IsFiniteSet(Promised(<<q, s>>))
  BY <1>4, TakenNat DEF PromiseInv, QueueInv
<1>6. Side = {here, there}
  BY DEF Side
<1>7. ASSUME Fewer(q, here), \A r \in Queue \ {q}, s \in Side : Fewer(r, s),
             \A r \in Queue \ {q} : count'[r] = count[r],
             IsFiniteSet(Promised(<<q, there>>)'), Awaited(q, there)' \in Nat,
             count'[q][here] = count[q][here], count'[q][there] \in Nat,
             count'[q][there] + Awaited(q, there)'
               <= count[q][there] + Awaited(q, there) + 1
      PROVE  PromiseInv'
  <2>1. Promised(<<q, here>>)' \subseteq Promised(<<q, here>>) \ {c}
    BY <1>3, <1>7 DEF Fewer
  <2>2. /\ IsFiniteSet(Promised(<<q, here>>)') /\ Awaited(q, here)' \in Nat
        /\ Awaited(q, here)' + 1 <= Awaited(q, here)
    BY <1>3, <1>5, <2>1, OneLess DEF Awaited
  <2>3. Taken(q)' = count'[q][here] + count'[q][there]
                      + Awaited(q, here)' + Awaited(q, there)'
    BY <1>5, <1>7, <2>2, TakenBoth
  <2>4. Taken(q)' <= queLen'[q]
    BY <1>1, <1>5, <1>7, <2>2, <2>3
  <2>5. \A s \in Side : IsFiniteSet(Promised(<<q, s>>)')
    BY <1>6, <1>7, <2>2
  <2> QED
    BY <1>1, <1>4, <1>7, <2>4, <2>5, PromiseOne DEF QueueInv
<1>8. CASE waiting[<<q, there>>] = << >>
  <2>1. /\ count' = [count EXCEPT ![q][there] = @ + 1] /\ status' = status
    BY <1>8 DEF QueueGoOn
  <2>2. /\ count'[q][here] = count[q][here] /\ count'[q][there] = count[q][there] + 1
        /\ \A r \in Queue \ {q} : count'[r] = count[r]
    BY <2>1 DEF QueueInv, RingInv
  <2>3. \A w \in WaitList : Promised(w)' \subseteq Promised(w)
    BY <1>2, <2>1 DEF Promised, Is
  <2>4. \A r \in Queue, s \in Side : Fewer(r, s)
    BY <1>1, <2>3 DEF Fewer
  <2>5. /\ IsFiniteSet(Promised(<<q, there>>)') /\ Awaited(q, there)' \in Nat
        /\ Awaited(q, there)' <= Awaited(q, there)
    BY <2>4, FewerNat
  <2> QED
    BY <1>5, <1>7, <2>2, <2>4, <2>5
<1>9. CASE waiting[<<q, there>>] # << >>
  <2> DEFINE t == Head(waiting[<<q, there>>])
  <2>1. count' = count /\ TaskWake(ready, pri, t, <<q, there>>)
    BY <1>9 DEF QueueGoOn
  <2>2. t \in Task /\ Linked(waiting[<<q, there>>], t)
    BY <1>1, <1>9, TailLinks DEF QueueInv, TInv, TcbInv
  <2> HIDE DEF t
  <2> PICK v \in WaitList : v = <<q, there>>
    BY <1>1
  <2>3. arg[t] = v
    BY <2>2, WaiterPends DEF QueueInv, HoldInv
  <2>4. \A w \in WaitList :
          Promised(w)' \subseteq Promised(w) \cup (IF w = v THEN {t} ELSE {})
    <3> SUFFICES ASSUME NEW w \in WaitList
                 PROVE  Promised(w)' \subseteq Promised(w) \cup (IF w = v THEN {t} ELSE {})
      OBVIOUS
    <3>1. TInv /\ \A u \in Task : arg'[u] \in WaitList => arg'[u] = arg[u]
      BY <1>2 DEF QueueInv
    <3>2. TaskWake(ready, pri, t, v)
      BY <2>1
    <3> QED
      BY <2>2, <2>3, <3>1, <3>2, PromisedWake
  <2>5. Fewer(q, here) /\ \A r \in Queue \ {q}, s \in Side : Fewer(r, s)
    BY <1>1, <2>4, SideApart DEF Fewer
  <2>6. /\ IsFiniteSet(Promised(<<q, there>>)') /\ Awaited(q, there)' \in Nat
        /\ Awaited(q, there)' <= Awaited(q, there) + 1
    BY <1>1, <1>5, <2>4, OneMore DEF Awaited
  <2> QED
    BY <1>5, <1>7, <2>1, <2>5, <2>6
<1> QED
  BY <1>8, <1>9

LEMMA PromiseMake ==
  ASSUME QueueInv, PromiseInv, NEW c \in Task \cup {Isr}, NEW q \in Queue,
         (\E n \in Lengths : QueueCreate(c, q, n)) \/ QueueDelete(c, q)
  PROVE  PromiseInv'
<1> USE DEF QueueInv
<1>1. UNCHANGED <<status, arg>>
  BY DEF QueueCreate, QueueDelete, vars, tcb
<1>2. \A w : Promised(w)' = Promised(w)
  BY <1>1, PromisedSame
<1>3. \A r \in Queue, s \in Side : /\ Fewer(r, s) /\ Awaited(r, s)' = Awaited(r, s)
                                   /\ IsFiniteSet(Promised(<<r, s>>)')
  BY <1>2 DEF Fewer, Awaited, PromiseInv
<1>4. /\ \A r \in Queue \ {q} : /\ r \in queUsed' <=> r \in queUsed
                              /\ count'[r] = count[r] /\ queLen'[r] = queLen[r]
      /\ "read" \in Side /\ "write" \in Side
  BY DEF QueueCreate, QueueDelete, RingInv, Side
<1>5. ASSUME \A s \in Side : Promised(<<q, s>>) = {}
      PROVE  Awaited(q, "read")' = 0 /\ Awaited(q, "write")' = 0
  BY <1>2, <1>4, <1>5, FS_EmptySet DEF Awaited
<1>6. ASSUME NEW n \in Lengths, QueueCreate(c, q, n) PROVE PromiseInv'
  <2>1. /\ q \notin queUsed /\ q \in queUsed' /\ queLen'[q] = n
        /\ count'[q]["read"] = 0 /\ count'[q]["write"] = n
    BY <1>6 DEF QueueCreate, RingInv
  <2>2. n \in Nat
    BY QueueAssumption
  <2>3. Taken(q)' <= queLen'[q]
    BY <1>5, <2>1, <2>2 DEF PromiseInv, Taken
  <2> QED
    BY <1>3, <1>4, <2>1, <2>3, PromiseOne
<1>7. CASE QueueDelete(c, q)
  <2>1. /\ q \in queUsed /\ q \notin queUsed'
        /\ count[q]["read"] + count[q]["write"] = queLen[q]
    BY <1>7 DEF QueueDelete
  <2>2. /\ Awaited(q, "read") \in Nat /\ Awaited(q, "write") \in Nat
        /\ count[q]["read"] \in Nat /\ count[q]["write"] \in Nat /\ queLen[q] \in Nat
    BY <1>4, TakenNat
  <2>3. Taken(q) <= queLen[q]
    BY <2>1 DEF PromiseInv
  <2>4. Awaited(q, "read") = 0 /\ Awaited(q, "write") = 0
    BY <2>1, <2>2, <2>3 DEF Taken
  <2>5. \A s \in Side : Promised(<<q, s>>) = {}
    BY <2>4, FS_EmptySet DEF Awaited, PromiseInv, Side
  <2> QED
    BY <1>2, <1>3, <1>4, <2>1, <2>5, PromiseOne
<1> QED
  BY <1>6, <1>7

(* The other steps let nobody in that waits for a queue.                   *)
LEMMA PromiseRest ==
  ASSUME QueueInv, HoldInv, PromiseInv, [QueueNext]_quevars,
         \/ UNCHANGED quevars
         \/ Next /\ UNCHANGED <<qcb, call, mail>>
         \/ \E c \in Task \cup {Isr}, q \in Queue, n \in Timeouts :
              MailWait(c, q, n) \/ \E op \in Operation : QueueWait(c, q, op, n)
         \/ \E c \in Task \cup {Isr}, q \in Queue, b \in Block : MailFree(c, q, b)
         \/ \E c \in Task : MailGoOn(c) \/ QueueTimedOut(c)
  PROVE  PromiseInv'
<1> USE DEF QueueInv, HoldInv
<1>1. UNCHANGED <<queUsed, queLen, count>>
  BY DEF quevars, qcb, MailWait, QueueWait, MailFree, MailGoOn, QueueTimedOut
<1>2. \A q \in Queue, side \in Side : <<q, side>> \in WaitList
  BY WaitLists DEF Side
<1>3. ASSUME \A w \in WaitList : Promised(w)' \subseteq Promised(w)
      PROVE  PromiseInv'
  BY <1>1, <1>2, <1>3, PromiseFewer DEF Fewer
<1>4. CASE UNCHANGED <<status, arg>>
  BY <1>3, <1>4, PromisedSame
<1>5. CASE Next
  BY <1>3, <1>5, PromisedScheduler
<1>6. ASSUME NEW c \in Task \cup {Isr}, NEW q \in Queue, NEW n \in Timeouts,
             MailWait(c, q, n) \/ \E op \in Operation : QueueWait(c, q, op, n)
      PROVE  PromiseInv'
  <2>1. c \in Task /\ \E v : Waits(ready, c, v, n)
    BY <1>6 DEF MailWait, QueueWait, Waits
  <2>2. \A w \in WaitList : Promised(w)' \subseteq Promised(w)
    BY <2>1, PromisedWait
  <2> QED
    BY <1>3, <2>2
<1>7. ASSUME NEW c \in Task \cup {Isr}, NEW q \in Queue, NEW b \in Block,
             MailFree(c, q, b), q \in queUsed, waiting[<<q, "mem">>] # << >>
      PROVE  PromiseInv'
  <2> PICK v \in WaitList : v = <<q, "mem">>
    BY WaitLists
  <2> PICK t : t = Head(waiting[v])
    OBVIOUS
  <2>1. TaskWake(ready, pri, t, v) /\ arg' = arg
    BY <1>7 DEF MailFree, ThenSchedule
  <2>2. t \in Task /\ Linked(waiting[v], t)
    BY <1>7, TailLinks DEF TInv, TcbInv
  <2>3. arg[t] = v
    BY <2>2, WaiterPends
  <2>4. \A r \in Queue, side \in Side : <<r, side>> # v
    BY SideApart
  <2>5. \A w \in WaitList :
          Promised(w)' \subseteq Promised(w) \cup (IF w = v THEN {t} ELSE {})
    <3>1. /\ TInv /\ t \in Task /\ v \in WaitList /\ TaskWake(ready, pri, t, v)
          /\ \A u \in Task : arg'[u] \in WaitList => arg'[u] = arg[u]
      BY <2>1, <2>2
    <3> QED
      BY ONLY <2>3, <3>1, PromisedWake
  <2>6. \A r \in Queue, side \in Side : Fewer(r, side)
    BY <1>2, <2>4, <2>5 DEF Fewer
  <2> QED
    BY <1>1, <2>6, PromiseFewer
<1>8. ASSUME NEW c \in Task, MailGoOn(c) \/ QueueTimedOut(c)
      PROVE  PromiseInv'
  <2>1. Back(c)
    BY <1>8 DEF QueueTimedOut, MailGoOn, Back, NoUnlinking, tcb
  <2> QED
    BY <1>3, <2>1, PromisedBack
<1>9. ASSUME NEW c \in Task \cup {Isr}, NEW q \in Queue, NEW b \in Block,
             MailFree(c, q, b)
      PROVE  PromiseInv'
  BY <1>4, <1>7, <1>9 DEF MailFree, vars, tcb
<1> QED
  BY <1>4, <1>5, <1>6, <1>8, <1>9 DEF quevars, vars, tcb

LEMMA PromiseInvStep ==
  ASSUME QueueInv, HoldInv, PromiseInv, [QueueNext]_quevars
  PROVE  PromiseInv'
<1>1. CASE UNCHANGED quevars \/ (Next /\ UNCHANGED <<qcb, call, mail>>)
  BY <1>1, PromiseRest
<1>2. ASSUME NEW c \in Task \cup {Isr}, NEW q \in Queue,
             \/ \E n \in Lengths : QueueCreate(c, q, n)
             \/ QueueDelete(c, q)
             \/ \E op \in Operation :
                  QueueOperate(c, q, op) \/ \E n \in Timeouts : QueueWait(c, q, op, n)
             \/ MailAlloc(c, q)
             \/ \E n \in Timeouts : MailWait(c, q, n)
             \/ \E b \in Block : MailFree(c, q, b)
      PROVE  PromiseInv'
  <2>1. CASE \E b \in Block : MailFree(c, q, b)
    BY <2>1, PromiseRest
  <2>2. CASE MailAlloc(c, q)
    <3>1. UNCHANGED <<vars, queUsed, queLen, count>>
      BY <2>2 DEF MailAlloc, qcb
    <3>2. \A r \in Queue, side \in Side : Fewer(r, side)
      BY <3>1, PromisedSame DEF Fewer, vars, tcb
    <3> QED
      BY <3>1, <3>2, PromiseFewer DEF QueueInv
  <2>3. CASE \E n \in Timeouts :
               MailWait(c, q, n) \/ \E op \in Operation : QueueWait(c, q, op, n)
    BY <2>3, PromiseRest
  <2>4. CASE (\E n \in Lengths : QueueCreate(c, q, n)) \/ QueueDelete(c, q)
    BY <2>4, PromiseMake
  <2>5. CASE \E op \in Operation : QueueOperate(c, q, op)
    BY <2>5, PromiseOperate
  <2> QED
    BY <1>2, <2>1, <2>2, <2>3, <2>4, <2>5
<1>3. ASSUME NEW c \in Task, QueueGoOn(c) \/ MailGoOn(c) \/ QueueTimedOut(c)
      PROVE  PromiseInv'
  BY <1>3, PromiseGoOn, PromiseRest
<1> QED
  BY <1>1, <1>2, <1>3 DEF QueueNext, QueueStep, Returns

LEMMA PromiseInvAlways ==
  QueueSpec /\ MailUnlocked => [](QueueInv /\ HoldInv /\ PromiseInv)
<1>1. QueueInit => PromiseInv
  <2> SUFFICES ASSUME QueueInit PROVE PromiseInv
    OBVIOUS
  <2>1. \A w \in WaitList : Promised(w) = {}
    BY TaskAssumption DEF QueueInit, Init, Promised
  <2>2. \A q \in Queue, side \in Side : Promised(<<q, side>>) = {}
    BY <2>1, WaitLists DEF Side
  <2> QED
    BY <2>2, FS_EmptySet DEF QueueInit, PromiseInv
<1> QED
  BY <1>1, HoldInvAlways, PromiseInvStep, PTL DEF QueueSpec

(* A task that was let in finds its queue: LOS_QueueDelete refuses while   *)
(* the counts are below the length, and they are as long as anybody is on  *)
(* his way, whatever is read, written, timed out or deleted meanwhile.     *)
THEOREM ReturnsToLiveQueueHolds == QueueSpec /\ MailUnlocked => []ReturnsToLiveQueue
<1>1. QueueInv /\ PromiseInv => ReturnsToLiveQueue
  <2> SUFFICES ASSUME QueueInv, PromiseInv, NEW q \in Queue, NEW side \in Side,
                      Promised(<<q, side>>) # {}
               PROVE  q \in queUsed /\ count[q]["read"] + count[q]["write"] < queLen[q]
    BY DEF ReturnsToLiveQueue
  <2>1. q \in queUsed /\ Taken(q) <= queLen[q] /\ IsFiniteSet(Promised(<<q, side>>))
    BY DEF PromiseInv
  <2>2. Awaited(q, side) # 0
    BY <2>1, FS_EmptySet DEF Awaited
  <2>3. "read" \in Side /\ side \in {"read", "write"}
    BY DEF Side
  <2>4. /\ Awaited(q, "read") \in Nat /\ Awaited(q, "write") \in Nat
        /\ count[q]["read"] \in Nat /\ count[q]["write"] \in Nat /\ queLen[q] \in Nat
    BY <2>3, TakenNat DEF QueueInv, Opposite
  <2> QED
    BY <2>1, <2>2, <2>3, <2>4 DEF Taken
<1> QED
  BY <1>1, PromiseInvAlways, PTL
-----------------------------------------------------------------------------
(***************************************************************************)
(* The ring and the counts stay within the length of the queue.            *)
(***************************************************************************)
SlotInv ==
  /\ queLen \in [Queue -> 0 .. MaxLen]
  /\ head \in [Queue -> Nat] /\ tail \in [Queue -> Nat]
  /\ slot \in [Queue -> [0 .. MaxLen - 1 -> Msg]]
  /\ \A q \in Queue : {head[q], tail[q]} \subseteq {0} \cup 0 .. queLen[q] - 1
  /\ \A q \in queUsed : queLen[q] > 0
  /\ \A q \in Queue \ queUsed : count[q]["read"] + count[q]["write"] <= queLen[q]

LEMMA RingPlaces ==
  ASSUME SlotInv, RingInv, NEW q \in queUsed
  PROVE  /\ queLen[q] \in 1 .. MaxLen /\ q \in Queue
         /\ head[q] \in 0 .. queLen[q] - 1 /\ tail[q] \in 0 .. queLen[q] - 1
         /\ \A n \in 0 .. queLen[q] - 1 : /\ After(q, n) \in 0 .. queLen[q] - 1
                                         /\ Before(q, n) \in 0 .. queLen[q] - 1
         /\ 0 .. queLen[q] - 1 \subseteq 0 .. MaxLen - 1
<1>1. q \in Queue /\ queLen[q] \in 0 .. MaxLen /\ queLen[q] > 0 /\ MaxLen \in Nat
  BY QueueAssumption DEF SlotInv, RingInv
<1>2. head[q] \in 0 .. queLen[q] - 1 /\ tail[q] \in 0 .. queLen[q] - 1
  BY <1>1 DEF SlotInv
<1>3. ASSUME NEW n \in 0 .. queLen[q] - 1
      PROVE  /\ After(q, n) \in 0 .. queLen[q] - 1
             /\ Before(q, n) \in 0 .. queLen[q] - 1
  BY <1>1, <1>3 DEF After, Before
<1> QED
  BY <1>1, <1>2, <1>3

LEMMA SlotOperate ==
  ASSUME SlotInv, RingInv, NEW q \in queUsed, NEW op \in Operation,
         BufferOperate(q, op), UNCHANGED <<queUsed, queLen>>,
         \A r \in Queue \ {q} : count'[r] = count[r]
  PROVE  SlotInv'
<1>1. /\ q \in Queue
      /\ head[q] \in 0 .. queLen[q] - 1 /\ tail[q] \in 0 .. queLen[q] - 1
      /\ After(q, head[q]) \in 0 .. queLen[q] - 1
      /\ After(q, tail[q]) \in 0 .. queLen[q] - 1
      /\ Before(q, head[q]) \in 0 .. queLen[q] - 1
      /\ 0 .. queLen[q] - 1 \subseteq 0 .. MaxLen - 1
  BY RingPlaces
<1>2. /\ head' \in [Queue -> Nat] /\ tail' \in [Queue -> Nat]
      /\ head'[q] \in 0 .. queLen[q] - 1 /\ tail'[q] \in 0 .. queLen[q] - 1
      /\ \A r \in Queue \ {q} : head'[r] = head[r] /\ tail'[r] = tail[r]
  <2>1. \E m, n \in 0 .. queLen[q] - 1 :
          head' = [head EXCEPT ![q] = m] /\ tail' = [tail EXCEPT ![q] = n]
    <3>1. /\ head = [head EXCEPT ![q] = head[q]] /\ tail = [tail EXCEPT ![q] = tail[q]]
      BY DEF SlotInv
    <3> QED
      BY <1>1, <3>1 DEF BufferOperate
  <2>2. \A n \in 0 .. queLen[q] - 1 : n \in Nat
    BY <1>1 DEF RingInv
  <2> QED
    BY <1>1, <2>1, <2>2 DEF SlotInv
<1>3. slot' \in [Queue -> [0 .. MaxLen - 1 -> Msg]]
  <2>1. CASE op.side = "read"
    BY <2>1 DEF BufferOperate, SlotInv
  <2>2. CASE op.side = "write"
    <3>1. op.msg \in Msg
      BY <2>2 DEF Operation
    <3>2. \E n \in 0 .. MaxLen - 1 : slot' = [slot EXCEPT ![q][n] = op.msg]
      BY <1>1, <1>2, <2>2 DEF BufferOperate
    <3>3. slot[q] \in [0 .. MaxLen - 1 -> Msg]
      BY <1>1 DEF SlotInv
    <3>4. \A n : [slot[q] EXCEPT ![n] = op.msg] \in [0 .. MaxLen - 1 -> Msg]
      BY <3>1, <3>3
    <3> QED
      BY <3>2, <3>4 DEF SlotInv
  <2> QED
    BY <2>1, <2>2, OperationSide DEF Side
<1>4. \A r \in Queue : {head'[r], tail'[r]} \subseteq {0} \cup 0 .. queLen[r] - 1
  BY <1>2 DEF SlotInv
<1> QED
  BY <1>2, <1>3, <1>4 DEF SlotInv

LEMMA SlotInvStep ==
  ASSUME QueueInv, HoldInv, PromiseInv, SlotInv, [QueueNext]_quevars
  PROVE  SlotInv'
<1> USE DEF QueueInv
<1>1. CASE UNCHANGED qcb
  BY <1>1 DEF SlotInv, qcb
<1>2. ASSUME NEW c \in Task \cup {Isr}, NEW q \in Queue, NEW n \in Lengths,
             QueueCreate(c, q, n)
      PROVE  SlotInv'
  <2>1. n \in 1 .. MaxLen /\ MaxLen \in Nat
    BY QueueAssumption
  <2>2. /\ queLen' \in [Queue -> 0 .. MaxLen] /\ slot' = slot
        /\ head' \in [Queue -> Nat] /\ tail' \in [Queue -> Nat]
        /\ queLen'[q] = n /\ head'[q] = 0 /\ tail'[q] = 0 /\ queUsed' = queUsed \cup {q}
        /\ \A r \in Queue \ {q} : /\ queLen'[r] = queLen[r] /\ count'[r] = count[r]
                                /\ head'[r] = head[r] /\ tail'[r] = tail[r]
    BY <1>2, <2>1 DEF QueueCreate, SlotInv, RingInv
  <2>3. \A r \in Queue : {head'[r], tail'[r]} \subseteq {0} \cup 0 .. queLen'[r] - 1
    BY <2>1, <2>2 DEF SlotInv
  <2>4. \A r \in queUsed' : queLen'[r] > 0
    BY <2>1, <2>2 DEF SlotInv, RingInv
  <2>5. \A r \in Queue \ queUsed' : count'[r]["read"] + count'[r]["write"] <= queLen'[r]
    BY <2>2 DEF SlotInv
  <2> QED
    BY <2>2, <2>3, <2>4, <2>5 DEF SlotInv
<1>3. ASSUME NEW c \in Task \cup {Isr}, NEW q \in Queue, QueueDelete(c, q)
      PROVE  SlotInv'
  <2>1. /\ queUsed' = queUsed \ {q} /\ UNCHANGED <<queLen, count, head, tail, slot>>
        /\ count[q]["read"] + count[q]["write"] = queLen[q] /\ queLen[q] \in Nat
    BY <1>3 DEF QueueDelete, RingInv
  <2>2. \A r \in Queue \ queUsed' : count'[r]["read"] + count'[r]["write"] <= queLen'[r]
    <3>1. count[q]["read"] + count[q]["write"] <= queLen[q]
      BY <2>1
    <3> QED
      BY <2>1, <3>1 DEF SlotInv
  <2>3. \A r \in queUsed' : queLen'[r] > 0
    BY <2>1 DEF SlotInv
  <2>4. /\ queLen' = queLen /\ head' = head /\ tail' = tail /\ slot' = slot
    BY <2>1
  <2> QED
    BY <2>2, <2>3, <2>4 DEF SlotInv
<1>4. ASSUME NEW c \in Task \cup {Isr}, NEW q \in Queue, NEW op \in Operation,
             QueueOperate(c, q, op)
      PROVE  SlotInv'
  <2>1. /\ q \in queUsed /\ BufferOperate(q, op) /\ UNCHANGED <<queUsed, queLen>>
        /\ \A r \in Queue \ {q} : count'[r] = count[r]
    BY <1>4 DEF QueueOperate, RingInv
  <2> QED
    BY <2>1, SlotOperate
<1>5. ASSUME NEW c \in Task, QueueGoOn(c)
      PROVE  SlotInv'
  <2> PICK q \in Queue, side \in Side :
        /\ arg[c] = <<q, side>> /\ call[c] \in Operation /\ call[c].side = side
        /\ ~Is(c, "PEND") /\ ~Is(c, "TIMEOUT")
    BY <1>5, GoOnPlace
  <2>1. c \in Promised(<<q, side>>)
    BY DEF Promised
  <2>2. /\ q \in queUsed /\ BufferOperate(q, call[c]) /\ UNCHANGED <<queUsed, queLen>>
        /\ \A r \in Queue \ {q} : count'[r] = count[r]
    BY <1>5, <2>1 DEF QueueGoOn, RingInv, PromiseInv
  <2> QED
    BY <2>2, SlotOperate
<1> QED
  BY <1>1, <1>2, <1>3, <1>4, <1>5
     DEF QueueNext, QueueStep, Returns, QueueWait, MailAlloc, MailWait, MailFree, MailGoOn,
         QueueTimedOut, quevars

(* The variables of los_queue.c keep their types, and the scheduler's keep *)
(* theirs with queues in use: no count passes the length of its queue and  *)
(* no end of the ring leaves it, whoever is let in and goes on later.      *)
THEOREM QueueTypeCorrect == QueueSpec /\ MailUnlocked => []QueueTypeOK
<1>1. QueueInit => SlotInv
  <2>1. QueueInit => \A q \in Queue : count[q]["read"] + count[q]["write"] = 0
    BY DEF QueueInit, Side
  <2> QED
    BY <2>1, QueueAssumption DEF QueueInit, SlotInv
<1>2. QueueInv /\ PromiseInv /\ SlotInv => QueueTypeOK
  <2> SUFFICES ASSUME QueueInv, PromiseInv, SlotInv PROVE QueueTypeOK
    OBVIOUS
  <2>1. ASSUME NEW q \in Queue
        PROVE  count[q] \in [Side -> 0 .. MaxLen]
    <3>1. "read" \in Side /\ Opposite("read") = "write"
      BY DEF Side, Opposite
    <3>2. /\ Awaited(q, "read") \in Nat /\ Awaited(q, "write") \in Nat
          /\ count[q]["read"] \in Nat /\ count[q]["write"] \in Nat
          /\ Taken(q) = count[q]["read"] + count[q]["write"]
                          + Awaited(q, "read") + Awaited(q, "write")
      BY <3>1, TakenNat DEF QueueInv
    <3>3. q \in queUsed => Taken(q) <= queLen[q]
      BY DEF PromiseInv
    <3>4. queLen[q] \in 0 .. MaxLen /\ MaxLen \in Nat
      BY QueueAssumption DEF SlotInv
    <3>5. count[q]["read"] + count[q]["write"] <= queLen[q]
      BY <3>2, <3>3, <3>4 DEF SlotInv
    <3>6. count[q]["read"] \in 0 .. MaxLen /\ count[q]["write"] \in 0 .. MaxLen
      BY <3>2, <3>4, <3>5
    <3> QED
      BY <3>6 DEF QueueInv, RingInv, Side
  <2>2. TypeOK
    BY TInvTypes DEF QueueInv
  <2> QED
    BY <2>1, <2>2 DEF QueueTypeOK, QueueInv, RingInv, PoolInv, SlotInv
<1>3. QueueInv /\ HoldInv /\ PromiseInv /\ SlotInv /\ [QueueNext]_quevars => SlotInv'
  BY SlotInvStep
<1> QED
  BY <1>1, <1>2, <1>3, PromiseInvAlways, PTL DEF QueueSpec
-----------------------------------------------------------------------------
(***************************************************************************)
(* Where the messages and the blocks are.  A task that is deleted takes    *)
(* what was promised to it along, and nothing gives it back: no task is     *)
(* deleted by another here.  Then the tasks that were let in change only   *)
(* by the calls of los_queue.c.                                            *)
(***************************************************************************)
LEMMA SchedulerKeeps ==
  ASSUME TInv, ListInv, CallInv, DeadInv, Next, NoDeletion
  PROVE  /\ \A w \in WaitList : Promised(w)' = Promised(w)
         /\ waiting' = waiting \/ \E t \in Task : Expires(t)
<1>1. CASE NoWaitEnds
  BY <1>1 DEF NoWaitEnds, KeepsWait, SameFlag, Promised, Is
<1>2. CASE \E t \in Task : Expires(t)
  BY <1>2 DEF Expires, LeavesWait, KeepsWait, SameFlag, Promised, Is
<1> QED
  BY <1>1, <1>2, SchedulerExpires

LEMMA UnusedKept ==
  ASSUME TInv, QueueStep \/ Returns, NEW u \in Task
  PROVE  SameFlag("UNUSED", u)
<1> USE DEF SameFlag, TInv, TcbInv
<1>1. CASE UNCHANGED status
  BY <1>1
<1>2. ASSUME NEW t, NEW w, TaskWake(ready, pri, t, w) PROVE SameFlag("UNUSED", u)
  <2>1. \E flags \in {{}, {"READY"}} :
           status' = [status EXCEPT ![t] = Woken(t) \cup flags]
    <3>1. Woken(t) \cup {} = Woken(t)
      OBVIOUS
    <3> QED
      BY <1>2, <3>1 DEF TaskWake
  <2> QED
    BY <2>1 DEF Woken
<1>3. ASSUME NEW t, NEW w, NEW n, TaskWait(ready, t, w, n) PROVE SameFlag("UNUSED", u)
  <2>1. \E flags \in {{"PEND"}, {"PEND", "TIMEOUT"}} :
           status' = [status EXCEPT ![t] = (status[t] \ {"READY"}) \cup flags]
    BY <1>3 DEF TaskWait
  <2> QED
    BY <2>1
<1>4. ASSUME NEW c \in Task, QueueTimedOut(c) PROVE SameFlag("UNUSED", u)
  BY <1>4 DEF QueueTimedOut
<1>5. CASE Returns
  BY <1>1, <1>2, <1>4, <1>5 DEF Returns, QueueGoOn, MailGoOn, tcb
<1>6. ASSUME NEW c \in Task \cup {Isr}, NEW q \in Queue,
             \E n \in Timeouts :
               MailWait(c, q, n) \/ \E op \in Operation : QueueWait(c, q, op, n)
      PROVE  SameFlag("UNUSED", u)
  BY <1>3, <1>6 DEF MailWait, QueueWait
<1>7. ASSUME NEW c \in Task \cup {Isr}, NEW q \in Queue,
             \/ \E op \in Operation : QueueOperate(c, q, op)
             \/ \E b \in Block : MailFree(c, q, b)
      PROVE  SameFlag("UNUSED", u)
  BY <1>1, <1>2, <1>7 DEF QueueOperate, MailFree, vars, tcb
<1>8. CASE QueueStep
  BY <1>1, <1>6, <1>7, <1>8
     DEF QueueStep, QueueCreate, QueueDelete, MailAlloc, vars, tcb
<1> QED
  BY <1>5, <1>8

LEMMA DeadInvStep ==
  ASSUME QueueInv, HoldInv, DeadInv, [QueueNext]_quevars
  PROVE  DeadInv'
<1> USE DEF QueueInv, HoldInv
<1>1. CASE UNCHANGED vars
  BY <1>1 DEF vars, tcb, DeadInv, Live, Is
<1>2. CASE Next
  BY <1>2, DeadNext
<1>3. ASSUME QueueStep \/ Returns,
             \A u \in Task : arg'[u] \in WaitList => arg'[u] = arg[u] \/ Running(u)
      PROVE  DeadInv'
  <2>1. \A u \in Task : SameFlag("UNUSED", u)
    BY <1>3, UnusedKept
  <2>2. \A u \in Task : Running(u) => Live(u)
    BY DEF Running, ListInv, RunInv, FlagInv, FlagOK, Live, Is
  <2> QED
    BY <1>3, <2>1, <2>2, DeadKeep DEF Live, Is, SameFlag
<1>4. CASE Returns
  BY <1>3, <1>4, TaskAssumption
     DEF Returns, QueueGoOn, MailGoOn, QueueTimedOut, TInv, PlaceInv
<1>5. CASE QueueStep
  <2>1. ASSUME NEW c \in Task \cup {Isr}, NEW q \in Queue, NEW n \in Timeouts,
               MailWait(c, q, n) \/ \E op \in Operation : QueueWait(c, q, op, n)
        PROVE  DeadInv'
    <3>1. Running(c) /\ \E v : arg' = [arg EXCEPT ![c] = v]
      BY <2>1 DEF MailWait, QueueWait, Enters
    <3>2. \A u \in Task \ {c} : arg'[u] = arg[u]
      BY <3>1 DEF TInv, PlaceInv
    <3> QED
      BY <1>3, <1>5, <3>1, <3>2
  <2>2. ASSUME NEW c \in Task \cup {Isr}, NEW q \in Queue,
               \/ \E n \in Lengths : QueueCreate(c, q, n)
               \/ QueueDelete(c, q) \/ \E op \in Operation : QueueOperate(c, q, op)
               \/ MailAlloc(c, q) \/ \E b \in Block : MailFree(c, q, b)
        PROVE  arg' = arg
    BY <2>2
       DEF QueueCreate, QueueDelete, QueueOperate, MailAlloc, MailFree, ThenSchedule, vars
  <2> QED
    BY <1>3, <1>5, <2>1, <2>2 DEF QueueStep
<1> QED
  BY <1>1, <1>2, <1>4, <1>5 DEF QueueNext, quevars

(* Who is let in, exactly.                                                 *)
LEMMA WaitPromises ==
  ASSUME TInv, CallInv, NEW q, NEW c \in Task, pc[c] = "user", NEW v, NEW n,
         Waits(q, c, v, n), NEW w \in WaitList
  PROVE  Promised(w)' = Promised(w)
<1>1. \E flags \in {{"PEND"}, {"PEND", "TIMEOUT"}} :
         status' = [status EXCEPT ![c] = (status[c] \ {"READY"}) \cup flags]
  BY DEF Waits, TaskWait
<1>2. /\ Is(c, "PEND")'
      /\ \A u \in Task \ {c} : status'[u] = status[u] /\ arg'[u] = arg[u]
  BY <1>1 DEF Waits, TInv, TcbInv, PlaceInv, Is
<1>3. arg[c] \notin WaitList
  BY CallOutside
<1> QED
  BY <1>2, <1>3 DEF Promised, Is

LEMMA BackPromises ==
  ASSUME TInv, NEW c \in Task, Back(c), NEW w \in WaitList
  PROVE  Promised(w)' = Promised(w) \ {c}
<1>1. /\ arg'[c] = NoArg
      /\ \A u \in Task \ {c} : status'[u] = status[u] /\ arg'[u] = arg[u]
  BY DEF Back, TInv, TcbInv, PlaceInv
<1> QED
  BY <1>1, TaskAssumption DEF Promised, Is

LEMMA WakePromises ==
  ASSUME TInv, ListInv, NEW q, NEW p, NEW v \in WaitList, NEW t \in Task,
         Linked(waiting[v], t), TaskWake(q, p, t, v),
         NEW away, t \notin away, \A u \in Task \ away : arg'[u] = arg[u],
         \A u \in Task \cap away : arg'[u] \notin WaitList,
         NEW w \in WaitList
  PROVE  /\ Promised(w)' = (Promised(w) \ away) \cup (IF w = v THEN {t} ELSE {})
         /\ t \notin Promised(w)
<1>1. \E flags \in {{}, {"READY"}} :
         status' = [status EXCEPT ![t] = Woken(t) \cup flags]
  <2>1. Woken(t) \cup {} = Woken(t)
    OBVIOUS
  <2> QED
    BY <2>1 DEF TaskWake
<1>2. \A u \in Task \ {t} : status'[u] = status[u]
  BY <1>1 DEF TInv, TcbInv
<1>3. ~Is(t, "PEND")' /\ ~Is(t, "TIMEOUT")'
  BY <1>1 DEF TInv, TcbInv, Woken, Is
<1>4. Is(t, "PEND") /\ arg[t] = v /\ arg'[t] = v
  BY WaiterPends
<1>5. \A u \in Task : u \in Promised(w)' <=>
        u \in Promised(w) \ away \/ (u = t /\ w = v)
  BY <1>2, <1>3, <1>4 DEF Promised, Is
<1> QED
  BY <1>4, <1>5 DEF Promised

LEMMA WakeHere ==
  ASSUME TInv, ListInv, NEW v \in WaitList, NEW t \in Task,
         Linked(waiting[v], t), TaskWake(ready, pri, t, v), UNCHANGED arg,
         NEW w \in WaitList
  PROVE  /\ Promised(w)' = Promised(w) \cup (IF w = v THEN {t} ELSE {})
         /\ t \notin Promised(w)
<1>1. \E flags \in {{}, {"READY"}} :
         status' = [status EXCEPT ![t] = Woken(t) \cup flags]
  <2>1. Woken(t) \cup {} = Woken(t)
    OBVIOUS
  <2> QED
    BY <2>1 DEF TaskWake
<1>2. \A u \in Task \ {t} : status'[u] = status[u]
  BY <1>1 DEF TInv, TcbInv
<1>3. ~Is(t, "PEND")' /\ ~Is(t, "TIMEOUT")'
  BY <1>1 DEF TInv, TcbInv, Woken, Is
<1>4. Is(t, "PEND") /\ arg[t] = v /\ arg'[t] = v
  BY WaiterPends
<1>5. \A u \in Task : u \in Promised(w)' <=>
        u \in Promised(w) \/ (u = t /\ w = v)
  BY <1>2, <1>3, <1>4 DEF Promised, Is
<1> QED
  BY <1>4, <1>5 DEF Promised

LEMMA FirstPromised ==
  ASSUME QueueInv, HoldInv, NEW v \in WaitList, waiting[v] # << >>,
         TaskWake(ready, pri, Head(waiting[v]), v), UNCHANGED arg
  PROVE  \E t \in Task :
           /\ t = Head(waiting[v])
           /\ \A w \in WaitList :
                /\ Promised(w)' = Promised(w) \cup (IF w = v THEN {t} ELSE {})
                /\ t \notin Promised(w)
<1>2. TInv /\ ListInv
  BY DEF QueueInv, HoldInv
<1>3. ASSUME NEW t, t = Head(waiting[v])
      PROVE  t \in Task /\ Linked(waiting[v], t) /\ TaskWake(ready, pri, t, v)
  BY <1>3, TailLinks DEF QueueInv, TInv, TcbInv
<1>4. ASSUME NEW t \in Task, Linked(waiting[v], t), TaskWake(ready, pri, t, v)
      PROVE  \A w \in WaitList :
                /\ Promised(w)' = Promised(w) \cup (IF w = v THEN {t} ELSE {})
                /\ t \notin Promised(w)
  BY <1>2, <1>4, WakeHere
<1> QED
  BY <1>3, <1>4
-----------------------------------------------------------------------------
(***************************************************************************)
(* The blocks of the mails.                                                *)
(***************************************************************************)
Bearers(q, b) == {t \in Promised(<<q, "mem">>) : puwMsg[t] = b}

OnePlace(free, out, bearers) ==
  \/ free /\ ~out /\ bearers = {}
  \/ ~free /\ out /\ bearers = {}
  \/ ~free /\ ~out /\ \E t : bearers = {t}

MailInv ==
  \A q \in Queue :
    /\ NoRepeat(box[q])
    /\ \A b \in Block : OnePlace(Linked(box[q], b), b \in held[q], Bearers(q, b))

LEMMA MailKeep ==
  ASSUME MailInv, UNCHANGED mail,
         \A q \in Queue : Promised(<<q, "mem">>)' = Promised(<<q, "mem">>)
  PROVE  MailInv'
<1>1. /\ \A q \in Queue, b \in Block : Bearers(q, b)' = Bearers(q, b)
      /\ box' = box /\ held' = held
  BY DEF mail, Bearers
<1>2. ASSUME NEW q \in Queue, NEW b \in Block
      PROVE  /\ NoRepeat(box'[q])
             /\ OnePlace(Linked(box'[q], b), b \in held'[q], Bearers(q, b)')
  BY <1>1, <1>2 DEF MailInv
<1>3. \A q \in Queue : NoRepeat(box'[q])
  BY <1>1 DEF MailInv
<1> QED
  BY <1>2, <1>3 DEF MailInv

LEMMA MailAllocPlace ==
  ASSUME QueueInv, MailInv, NEW c \in Task \cup {Isr}, NEW q \in Queue, MailAlloc(c, q)
  PROVE  MailInv'
<1>1. /\ box' = [box EXCEPT ![q] = Tail(box[q])] /\ box[q] # << >>
      /\ held' = [held EXCEPT ![q] = held[q] \cup {Head(box[q])}]
      /\ UNCHANGED <<status, arg, puwMsg>>
  BY DEF MailAlloc, vars, tcb
<1>2. /\ box[q] \in Seq(Block) /\ NoRepeat(box[q])
      /\ box'[q] = Tail(box[q]) /\ held'[q] = held[q] \cup {Head(box[q])}
      /\ \A r \in Queue \ {q} : box'[r] = box[r] /\ held'[r] = held[r]
  BY <1>1 DEF QueueInv, PoolInv, MailInv
<1>3. /\ NoRepeat(Tail(box[q])) /\ Linked(box[q], Head(box[q]))
      /\ \A b : Linked(Tail(box[q]), b) <=> Linked(box[q], b) /\ b # Head(box[q])
  BY <1>1, <1>2, TailDrops, TailLinks
<1>4. \A r \in Queue : Promised(<<r, "mem">>)' = Promised(<<r, "mem">>)
  BY <1>1, PromisedSame
<1>5. \A r \in Queue, b \in Block : Bearers(r, b)' = Bearers(r, b)
  BY <1>1, <1>4 DEF Bearers
<1>6. \A r \in Queue : NoRepeat(box'[r])
  BY <1>2, <1>3 DEF MailInv
<1>7. ASSUME NEW r \in Queue, NEW b \in Block
      PROVE  OnePlace(Linked(box'[r], b), b \in held'[r], Bearers(r, b)')
  <2>1. OnePlace(Linked(box[r], b), b \in held[r], Bearers(r, b))
    BY DEF MailInv
  <2> QED
    BY <1>2, <1>3, <1>5, <2>1 DEF OnePlace
<1> QED
  BY <1>6, <1>7 DEF MailInv

LEMMA MailFreePlace ==
  ASSUME QueueInv, HoldInv, MailInv, NEW c \in Task \cup {Isr}, NEW q \in Queue,
         NEW b \in Block, MailFree(c, q, b)
  PROVE  MailInv'
<1>1. /\ held' = [held EXCEPT ![q] = held[q] \ {b}] /\ b \in held[q]
      /\ held'[q] = held[q] \ {b} /\ \A r \in Queue \ {q} : held'[r] = held[r]
  BY DEF MailFree, QueueInv, PoolInv
<1>2. ~Linked(box[q], b) /\ Bearers(q, b) = {}
  BY <1>1 DEF MailInv, OnePlace
<1>3. CASE q \in queUsed /\ waiting[<<q, "mem">>] # << >>
  <2> PICK v \in WaitList : v = <<q, "mem">>
    BY WaitLists
  <2>1. /\ TaskWake(ready, pri, Head(waiting[v]), v) /\ UNCHANGED <<arg, box>>
        /\ puwMsg' = [puwMsg EXCEPT ![Head(waiting[v])] = b]
    BY <1>3 DEF MailFree, ThenSchedule
  <2>2. PICK t \in Task :
          /\ t = Head(waiting[v])
          /\ \A w \in WaitList :
               /\ Promised(w)' = Promised(w) \cup (IF w = v THEN {t} ELSE {})
               /\ t \notin Promised(w)
    BY <1>3, <2>1, FirstPromised
  <2>3. puwMsg'[t] = b /\ \A u \in Task \ {t} : puwMsg'[u] = puwMsg[u]
    BY <2>1, <2>2 DEF QueueInv, PoolInv
  <2>5. ASSUME NEW r \in Queue, NEW e \in Block
        PROVE  OnePlace(Linked(box'[r], e), e \in held'[r], Bearers(r, e)')
    <3>1. PICK w \in WaitList : w = <<r, "mem">>
      BY WaitLists
    <3>2. w = v <=> r = q
      BY <3>1
    <3>3. Promised(w)' = Promised(w) \cup (IF r = q THEN {t} ELSE {}) /\ t \notin Promised(w)
      BY <2>2, <3>2
    <3>4. Promised(w) \subseteq Task
      BY DEF Promised
    <3>5. Bearers(r, e)' = Bearers(r, e) \cup (IF r = q /\ e = b THEN {t} ELSE {})
      BY <2>2, <2>3, <3>1, <3>3, <3>4 DEF Bearers
    <3>6. OnePlace(Linked(box[r], e), e \in held[r], Bearers(r, e))
      BY DEF MailInv
    <3> QED
      BY <1>1, <1>2, <2>1, <3>5, <3>6 DEF OnePlace
  <2> QED
    BY <2>1, <2>5 DEF MailInv
<1>4. CASE ~(q \in queUsed /\ waiting[<<q, "mem">>] # << >>)
  <2>1. box' = [box EXCEPT ![q] = <<b>> \o box[q]] /\ UNCHANGED <<status, arg, puwMsg>>
    BY <1>4 DEF MailFree, vars, tcb
  <2>2. /\ box[q] \in Seq(Block) /\ NoRepeat(box[q]) /\ box'[q] = <<b>> \o box[q]
        /\ \A r \in Queue \ {q} : box'[r] = box[r]
    BY <2>1 DEF QueueInv, PoolInv, MailInv
  <2>3. /\ NoRepeat(<<b>> \o box[q])
        /\ \A e : Linked(<<b>> \o box[q], e) <=> Linked(box[q], e) \/ e = b
    BY <1>2, <2>2, ConsLinks
  <2>4. \A r \in Queue : Promised(<<r, "mem">>)' = Promised(<<r, "mem">>)
    BY <2>1, PromisedSame
  <2>5. \A r \in Queue, e \in Block : Bearers(r, e)' = Bearers(r, e)
    BY <2>1, <2>4 DEF Bearers
  <2>6. \A r \in Queue : NoRepeat(box'[r])
    BY <2>2, <2>3 DEF MailInv
  <2>7. ASSUME NEW r \in Queue, NEW e \in Block
        PROVE  OnePlace(Linked(box'[r], e), e \in held'[r], Bearers(r, e)')
    <3>1. OnePlace(Linked(box[r], e), e \in held[r], Bearers(r, e))
      BY DEF MailInv
    <3> QED
      BY <1>1, <1>2, <2>2, <2>3, <2>5, <3>1 DEF OnePlace
  <2> QED
    BY <2>6, <2>7 DEF MailInv
<1> QED
  BY <1>3, <1>4

LEMMA MailGoOnPlace ==
  ASSUME QueueInv, HoldInv, MailInv, NEW c \in Task, MailGoOn(c)
  PROVE  MailInv'
<1> USE DEF QueueInv, HoldInv
<1>1. /\ arg[c] \in WaitList /\ ~Is(c, "TIMEOUT") /\ ~Halted(c) /\ Back(c)
      /\ call[c] = NoCall
  BY RunnerNotHalted DEF MailGoOn, ReturnInv, ListInv, Back, NoUnlinking, tcb
<1>2. PICK q \in Queue : arg[c] = <<q, "mem">>
  BY <1>1, WaitLists DEF CallMatch
<1>3. c \in Promised(arg[c]) /\ \A w \in WaitList : w # arg[c] => c \notin Promised(w)
  BY <1>1 DEF Promised, Halted
<1>4. /\ held' = [held EXCEPT ![q] = held[q] \cup ({puwMsg[c]} \ {NoArg})]
      /\ puwMsg' = [puwMsg EXCEPT ![c] = NoArg] /\ box' = box
  BY <1>2 DEF MailGoOn
<1>5. /\ held'[q] = held[q] \cup ({puwMsg[c]} \ {NoArg})
      /\ \A r \in Queue \ {q} : held'[r] = held[r]
      /\ \A u \in Task \ {c} : puwMsg'[u] = puwMsg[u]
  BY <1>4 DEF PoolInv
<1>6. ASSUME NEW r \in Queue, NEW b \in Block
      PROVE  OnePlace(Linked(box'[r], b), b \in held'[r], Bearers(r, b)')
  <2>1. PICK w \in WaitList : w = <<r, "mem">>
    BY WaitLists
  <2>2. Promised(w)' = Promised(w) \ {c} /\ Promised(w) \subseteq Task
    BY <1>1, BackPromises DEF Promised
  <2>3. Bearers(r, b)' = Bearers(r, b) \ {c}
    BY <1>5, <2>1, <2>2 DEF Bearers
  <2>4. w = arg[c] <=> r = q
    BY <1>2, <2>1
  <2>5. c \in Bearers(r, b) <=> r = q /\ b = puwMsg[c]
    BY <1>3, <2>1, <2>4 DEF Bearers
  <2>6. OnePlace(Linked(box[r], b), b \in held[r], Bearers(r, b)) /\ b # NoArg
    BY QueueAssumption DEF MailInv
  <2>7. b \in held'[r] <=> b \in held[r] \/ c \in Bearers(r, b)
    BY <1>5, <2>5, <2>6
  <2>8. c \in Bearers(r, b) => Bearers(r, b) = {c}
    BY <2>6 DEF OnePlace
  <2> QED
    BY <1>4, <2>3, <2>6, <2>7, <2>8 DEF OnePlace
<1> QED
  BY <1>4, <1>6 DEF MailInv

(* The other steps move no block.                                          *)
LEMMA MailElsewhere ==
  ASSUME QueueInv, HoldInv, MailInv,
         \/ \E c \in Task \cup {Isr}, q \in Queue, op \in Operation : QueueOperate(c, q, op)
         \/ \E c \in Task \cup {Isr}, q \in Queue, n \in Timeouts :
              MailWait(c, q, n) \/ \E op \in Operation : QueueWait(c, q, op, n)
         \/ \E c \in Task : QueueGoOn(c) \/ QueueTimedOut(c)
  PROVE  MailInv'
<1> USE DEF QueueInv, HoldInv
<1>1. UNCHANGED mail
  BY DEF QueueOperate, MailWait, QueueWait, QueueGoOn, QueueTimedOut
<1>2. ASSUME \A w \in WaitList : w[2] = "mem" => Promised(w)' = Promised(w)
      PROVE  MailInv'
  <2>1. \A q \in Queue : Promised(<<q, "mem">>)' = Promised(<<q, "mem">>)
    BY <1>2, WaitLists
  <2> QED
    BY <1>1, <2>1, MailKeep
<1>3. CASE UNCHANGED <<status, arg>>
  BY <1>2, <1>3, PromisedSame
<1>4. ASSUME NEW v \in WaitList, waiting[v] # << >>, v[2] # "mem",
             TaskWake(ready, pri, Head(waiting[v]), v),
             NEW away, \A u \in Task \cap away : arg'[u] = NoArg /\ arg[u][2] # "mem",
             \A u \in Task \cap away : ~Is(u, "PEND"),
             \A u \in Task \ away : arg'[u] = arg[u]
      PROVE  MailInv'
  <2> PICK t : t = Head(waiting[v])
    OBVIOUS
  <2>1. t \in Task /\ Linked(waiting[v], t) /\ TaskWake(ready, pri, t, v)
    BY <1>4, TailLinks DEF TInv, TcbInv
  <2>2. t \notin away
    BY <1>4, <2>1, WaiterPends
  <2>3. \A u \in Task \cap away : arg'[u] \notin WaitList
    BY <1>4, TaskAssumption
  <2>4. ASSUME NEW w \in WaitList, w[2] = "mem" PROVE Promised(w)' = Promised(w)
    <3>1. Promised(w)' = (Promised(w) \ away) \cup (IF w = v THEN {t} ELSE {})
      BY <1>4, <2>1, <2>2, <2>3, WakePromises
    <3>2. w # v /\ Promised(w) \cap away = {}
      BY <1>4, <2>4 DEF Promised
    <3> QED
      BY <3>1, <3>2
  <2> QED
    BY <1>2, <2>4
<1>5. ASSUME NEW c \in Task \cup {Isr}, NEW q \in Queue, NEW op \in Operation,
             QueueOperate(c, q, op)
      PROVE  MailInv'
  <2> PICK v \in WaitList : v = <<q, Opposite(op.side)>> /\ v[2] # "mem"
    BY OperationSide, OtherSide, WaitLists DEF Side
  <2>1. CASE waiting[v] = << >>
    BY <1>3, <1>5, <2>1 DEF QueueOperate, vars, tcb
  <2>2. CASE waiting[v] # << >>
    <3>1. TaskWake(ready, pri, Head(waiting[v]), v) /\ arg' = arg
      BY <1>5, <2>2 DEF QueueOperate, ThenSchedule
    <3>2. /\ \A u \in Task \cap {} :
               arg'[u] = NoArg /\ arg[u][2] # "mem" /\ ~Is(u, "PEND")
          /\ \A u \in Task \ {} : arg'[u] = arg[u]
      BY <3>1
    <3> QED
      BY <1>4, <2>2, <3>1, <3>2
  <2> QED
    BY <2>1, <2>2
<1>6. ASSUME NEW c \in Task \cup {Isr}, NEW q \in Queue, NEW n \in Timeouts,
             MailWait(c, q, n) \/ \E op \in Operation : QueueWait(c, q, op, n)
      PROVE  MailInv'
  <2>1. /\ c \in Task /\ pc[c] = "user" /\ \E v : Waits(ready, c, v, n)
    BY <1>6 DEF MailWait, QueueWait, Waits, Enters
  <2>2. \A w \in WaitList : Promised(w)' = Promised(w)
    BY <2>1, WaitPromises
  <2> QED
    BY <1>2, <2>2
<1>7. ASSUME NEW c \in Task, QueueTimedOut(c) PROVE MailInv'
  <2>1. Back(c) /\ Is(c, "TIMEOUT")
    BY <1>7 DEF QueueTimedOut, Back, NoUnlinking
  <2>2. \A w \in WaitList : Promised(w)' = Promised(w) \ {c}
    BY <2>1, BackPromises
  <2>3. \A w \in WaitList : c \notin Promised(w)
    BY <2>1 DEF Promised
  <2> QED
    BY <1>2, <2>2, <2>3
<1>8. ASSUME NEW c \in Task, QueueGoOn(c) PROVE MailInv'
  <2> PICK q \in Queue, side \in Side :
        /\ arg[c] = <<q, side>> /\ call[c].side = side
        /\ <<q, Opposite(side)>> \in WaitList /\ Opposite(side) \in Side
        /\ ~Is(c, "PEND")
    BY <1>8, GoOnPlace
  <2> PICK v \in WaitList : v = <<q, Opposite(side)>> /\ v[2] # "mem"
    BY DEF Side
  <2>1. /\ arg[c][2] # "mem" /\ arg' = [arg EXCEPT ![c] = NoArg]
    BY <1>8 DEF QueueGoOn, Side
  <2>2. arg'[c] = NoArg /\ \A u \in Task \ {c} : arg'[u] = arg[u]
    BY <2>1 DEF TInv, PlaceInv
  <2>3. CASE waiting[v] = << >>
    <3>1. Back(c)
      BY <1>8, <2>3 DEF QueueGoOn, Back, NoUnlinking
    <3>2. \A w \in WaitList : w[2] = "mem" => c \notin Promised(w)
      BY <2>1 DEF Promised
    <3>3. \A w \in WaitList : Promised(w)' = Promised(w) \ {c}
      BY <3>1, BackPromises
    <3> QED
      BY <1>2, <3>2, <3>3
  <2>4. CASE waiting[v] # << >>
    <3>1. TaskWake(ready, pri, Head(waiting[v]), v)
      BY <1>8, <2>4 DEF QueueGoOn
    <3> QED
      BY <1>4, <2>1, <2>2, <2>4, <3>1
  <2> QED
    BY <2>3, <2>4
<1> QED
  BY <1>5, <1>6, <1>7, <1>8

LEMMA MailInvStep ==
  ASSUME NoDeletion, QueueInv, HoldInv, DeadInv, MailInv, [QueueNext]_quevars
  PROVE  MailInv'
<1>1. \A q \in Queue : <<q, "mem">> \in WaitList
  BY WaitLists
<1>2. CASE UNCHANGED <<vars, mail>>
  <2>1. \A q \in Queue : Promised(<<q, "mem">>)' = Promised(<<q, "mem">>)
    BY <1>2, PromisedSame DEF vars, tcb
  <2> QED
    BY <1>2, <2>1, MailKeep
<1>3. CASE Next /\ UNCHANGED mail
  <2>1. \A w \in WaitList : Promised(w)' = Promised(w)
    BY <1>3, SchedulerKeeps DEF QueueInv, HoldInv
  <2> QED
    BY <1>1, <1>3, <2>1, MailKeep
<1>4. CASE QueueStep
  <2>1. ASSUME NEW c \in Task \cup {Isr}, NEW q \in Queue,
               (\E n \in Lengths : QueueCreate(c, q, n)) \/ QueueDelete(c, q)
        PROVE  MailInv'
    BY <1>2, <2>1 DEF QueueCreate, QueueDelete
  <2> QED
    BY <1>4, <2>1, MailElsewhere, MailAllocPlace, MailFreePlace DEF QueueStep
<1>5. CASE Returns
  BY <1>5, MailElsewhere, MailGoOnPlace DEF Returns
<1> QED
  BY <1>2, <1>3, <1>4, <1>5 DEF QueueNext, quevars

LEMMA MailInvAlways ==
  ASSUME NoDeletion
  PROVE  QueueSpec /\ MailUnlocked => [](QueueInv /\ HoldInv /\ PromiseInv /\ DeadInv /\ MailInv)
<1>1. QueueInit => DeadInv /\ MailInv
  <2> SUFFICES ASSUME QueueInit PROVE DeadInv /\ MailInv
    OBVIOUS
  <2>1. DeadInv /\ \A w \in WaitList : Promised(w) = {}
    BY TaskAssumption DEF QueueInit, Init, Promised, DeadInv
  <2>2. \A q \in Queue, b \in Block : Bearers(q, b) = {}
    BY <2>1, WaitLists DEF Bearers
  <2>3. \A q \in Queue : box[q] = SetToSeq(Block) /\ held[q] = {}
    BY DEF QueueInit
  <2> QED
    BY <2>1, <2>2, <2>3, AllBlocks DEF MailInv, OnePlace
<1>2. QueueInv /\ HoldInv /\ DeadInv /\ [QueueNext]_quevars => DeadInv'
  BY DeadInvStep
<1>3. QueueInv /\ HoldInv /\ DeadInv /\ MailInv /\ [QueueNext]_quevars => MailInv'
  BY MailInvStep
<1> QED
  BY <1>1, <1>2, <1>3, PromiseInvAlways, PTL DEF QueueSpec

(* Every block of a mail pool is in one place, whatever is freed and       *)
(* allocated by tasks and interrupt handlers while tasks wait, time out    *)
(* and come back: osQueueMailFree hands a block to a waiter or to the pool *)
(* and never to both, and a waiter's block is not lost on the way.         *)
THEOREM MailConservedHolds ==
  ASSUME NoDeletion
  PROVE  QueueSpec /\ MailUnlocked => []MailConserved
<1>1. QueueInv /\ MailInv => MailConserved
  <2> SUFFICES ASSUME QueueInv, MailInv, NEW q \in Queue, NEW b \in Block
               PROVE  Cardinality(Bearers(q, b)) + (IF b \in held[q] THEN 1 ELSE 0)
                        + Cardinality({k \in DOMAIN box[q] : box[q][k] = b}) = 1
    BY DEF MailConserved, Bearers
  <2> DEFINE places == {k \in DOMAIN box[q] : box[q][k] = b}
  <2>1. OnePlace(Linked(box[q], b), b \in held[q], Bearers(q, b)) /\ NoRepeat(box[q])
    BY DEF MailInv
  <2>2. Linked(box[q], b) => \E k : places = {k}
    BY <2>1 DEF NoRepeat, Linked, ToSet
  <2>3. ~Linked(box[q], b) => places = {}
    BY DEF Linked, ToSet
  <2> HIDE DEF places
  <2>4. Cardinality(places) = IF Linked(box[q], b) THEN 1 ELSE 0
    BY <2>2, <2>3, FS_Singleton, FS_EmptySet
  <2>5. Cardinality(Bearers(q, b)) = IF Bearers(q, b) = {} THEN 0 ELSE 1
    BY <2>1, FS_Singleton, FS_EmptySet DEF OnePlace
  <2> QED
    BY <2>1, <2>4, <2>5 DEF OnePlace, places
<1> QED
  BY <1>1, MailInvAlways, PTL
-----------------------------------------------------------------------------
(***************************************************************************)
(* The ring of the slots holds the content of the bounded queue.           *)
(***************************************************************************)
Wrap(n, len) == IF n < len THEN n ELSE n - len

Prior(n, len) == IF n = 0 THEN len - 1 ELSE n - 1

(* The k messages from slot h on.                                          *)
Ring(h, len, s, k) == [i \in 1 .. k |-> s[(h + i - 1) % len]]

IsRing(h, len, s, k) ==
  /\ len \in 1 .. MaxLen /\ h \in 0 .. len - 1 /\ k \in 0 .. len
  /\ s \in [0 .. MaxLen - 1 -> Msg]

IsContent(content, h, len, s, k) ==
  /\ content \in Seq(Msg) /\ Len(content) = k
  /\ \A i \in 1 .. k : content[i] = s[Wrap(h + i - 1, len)]

LEMMA WrapMod ==
  ASSUME NEW len \in Nat \ {0}, NEW n \in Nat, n < len + len
  PROVE  n % len = Wrap(n, len) /\ Wrap(n, len) \in 0 .. len - 1
<1>1. CASE n < len
  <2>1. n % len = n
    BY <1>1
  <2> QED
    BY <1>1, <2>1 DEF Wrap
<1>2. CASE n >= len
  <2>1. n % len = n - len
    BY <1>2
  <2> QED
    BY <1>2, <2>1 DEF Wrap
<1> QED
  BY <1>1, <1>2

LEMMA RingSeq ==
  ASSUME NEW h \in Nat, NEW len \in Nat, NEW s, NEW k \in Nat, IsRing(h, len, s, k)
  PROVE  IsContent(Ring(h, len, s, k), h, len, s, k)
<1>1. MaxLen \in Nat /\ len \in Nat \ {0} /\ h \in Nat /\ k \in Nat
  BY QueueAssumption DEF IsRing
<1>2. ASSUME NEW i \in 1 .. k
      PROVE  /\ (h + i - 1) % len = Wrap(h + i - 1, len)
             /\ Wrap(h + i - 1, len) \in 0 .. MaxLen - 1
  <2>1. h + i - 1 \in Nat /\ h + i - 1 < len + len
    BY <1>1 DEF IsRing
  <2>2. /\ (h + i - 1) % len = Wrap(h + i - 1, len)
        /\ Wrap(h + i - 1, len) \in 0 .. len - 1
    BY <1>1, <2>1, WrapMod
  <2> QED
    BY <1>1, <2>2 DEF IsRing
<1>3. Ring(h, len, s, k) \in [1 .. k -> Msg]
  BY <1>2 DEF Ring, IsRing
<1>4. Ring(h, len, s, k) \in Seq(Msg) /\ DOMAIN Ring(h, len, s, k) = 1 .. k
  BY <1>1, <1>3, SeqDef
<1>5. Len(Ring(h, len, s, k)) = k
  BY <1>1, <1>4, LenProperties
<1> QED
  BY <1>2, <1>4, <1>5 DEF Ring, IsContent

(* A message is taken from the head.                                       *)
LEMMA RingRead ==
  ASSUME NEW h \in Nat, NEW len \in Nat, NEW s, NEW k \in Nat, IsRing(h, len, s, k), k > 0
  PROVE  /\ IsRing(Wrap(h + 1, len), len, s, k - 1)
         /\ Ring(h, len, s, k) # << >>
         /\ Ring(Wrap(h + 1, len), len, s, k - 1) = Tail(Ring(h, len, s, k))
         /\ Wrap(Wrap(h + 1, len) + (k - 1), len) = Wrap(h + k, len)
<1>1. MaxLen \in Nat /\ len \in Nat \ {0} /\ h \in Nat /\ k \in Nat \ {0}
  BY QueueAssumption DEF IsRing
<1> DEFINE h2 == Wrap(h + 1, len)
           R  == Ring(h, len, s, k)
           T  == Ring(h2, len, s, k - 1)
<1>2. h2 \in 0 .. len - 1
  BY <1>1 DEF Wrap, IsRing
<1>3. IsRing(h2, len, s, k - 1) /\ h2 \in Nat /\ k - 1 \in Nat
  BY <1>1, <1>2 DEF IsRing
<1>4. /\ R \in Seq(Msg) /\ Len(R) = k
      /\ \A i \in 1 .. k : R[i] = s[Wrap(h + i - 1, len)]
  BY RingSeq DEF IsContent
<1>5. /\ T \in Seq(Msg) /\ Len(T) = k - 1
      /\ \A i \in 1 .. k - 1 : T[i] = s[Wrap(h2 + i - 1, len)]
  BY <1>3, RingSeq DEF IsContent
<1>6. ASSUME NEW i \in 1 .. k - 1
      PROVE  Wrap(h2 + i - 1, len) = Wrap(h + i, len) /\ i + 1 \in 1 .. k
  BY <1>1, <1>2 DEF Wrap, IsRing
<1>7. Wrap(h2 + (k - 1), len) = Wrap(h + k, len)
  BY <1>1, <1>2 DEF Wrap, IsRing
<1> HIDE DEF R, T, h2
<1>8. R # << >>
  BY <1>1, <1>4, EmptySeq
<1>9. /\ Tail(R) \in Seq(Msg) /\ Len(Tail(R)) = k - 1
      /\ \A i \in 1 .. k - 1 : Tail(R)[i] = R[i + 1]
  BY <1>4, <1>8, HeadTailProperties
<1>10. \A i \in 1 .. k - 1 : T[i] = Tail(R)[i]
  <2> SUFFICES ASSUME NEW i \in 1 .. k - 1 PROVE T[i] = Tail(R)[i]
    OBVIOUS
  <2>1. T[i] = s[Wrap(h + i, len)]
    BY <1>5, <1>6
  <2>2. R[i + 1] = s[Wrap(h + (i + 1) - 1, len)]
    BY <1>4, <1>6
  <2>3. h + (i + 1) - 1 = h + i
    BY <1>1
  <2> QED
    BY <1>9, <2>1, <2>2, <2>3
<1>11. T = Tail(R)
  BY <1>5, <1>9, <1>10, SeqEqual
<1> QED
  BY <1>3, <1>7, <1>8, <1>11 DEF R, T, h2

(* A message is added at the tail.                                         *)
LEMMA RingAppend ==
  ASSUME NEW h \in Nat, NEW len \in Nat, NEW s, NEW k \in Nat, IsRing(h, len, s, k), k < len,
         NEW m \in Msg
  PROVE  /\ Ring(h, len, [s EXCEPT ![Wrap(h + k, len)] = m], k + 1)
              = Append(Ring(h, len, s, k), m)
         /\ Wrap(Wrap(h + k, len) + 1, len) = Wrap(h + (k + 1), len)
<1>1. MaxLen \in Nat /\ len \in Nat \ {0} /\ h \in Nat /\ k \in Nat
  BY QueueAssumption DEF IsRing
<1> PICK s2 : s2 = [s EXCEPT ![Wrap(h + k, len)] = m]
  OBVIOUS
<1> DEFINE R == Ring(h, len, s, k)
           T == Ring(h, len, s2, k + 1)
<1>2. Wrap(h + k, len) \in 0 .. MaxLen - 1
  BY <1>1 DEF Wrap, IsRing
<1>3. IsRing(h, len, s2, k + 1) /\ k + 1 \in Nat
  BY <1>1, <1>2 DEF IsRing
<1>4. /\ R \in Seq(Msg) /\ Len(R) = k
      /\ \A i \in 1 .. k : R[i] = s[Wrap(h + i - 1, len)]
  BY RingSeq DEF IsContent
<1>5. /\ T \in Seq(Msg) /\ Len(T) = k + 1
      /\ \A i \in 1 .. k + 1 : T[i] = s2[Wrap(h + i - 1, len)]
  <2>1. IsContent(T, h, len, s2, k + 1)
    BY <1>3, RingSeq
  <2> QED
    BY <2>1 DEF IsContent
<1>6. ASSUME NEW i \in 1 .. k
      PROVE  /\ Wrap(h + i - 1, len) \in 0 .. MaxLen - 1
             /\ Wrap(h + i - 1, len) # Wrap(h + k, len)
  BY <1>1 DEF Wrap, IsRing
<1>7. Wrap(Wrap(h + k, len) + 1, len) = Wrap(h + (k + 1), len)
  BY <1>1 DEF Wrap, IsRing
<1> HIDE DEF R, T
<1>8. /\ Append(R, m) \in Seq(Msg) /\ Len(Append(R, m)) = k + 1
      /\ \A i \in 1 .. k : Append(R, m)[i] = R[i]
      /\ Append(R, m)[k + 1] = m
  BY <1>4, AppendProperties
<1>9. \A i \in 1 .. k + 1 : T[i] = Append(R, m)[i]
  <2> SUFFICES ASSUME NEW i \in 1 .. k + 1 PROVE T[i] = Append(R, m)[i]
    OBVIOUS
  <2>1. CASE i = k + 1
    <3>1. h + i - 1 = h + k
      BY <1>1, <2>1
    <3>2. T[i] = s2[Wrap(h + k, len)]
      BY <1>5, <3>1
    <3>3. s2[Wrap(h + k, len)] = m
      BY <1>2 DEF IsRing
    <3> QED
      BY <1>8, <2>1, <3>2, <3>3
  <2>2. CASE i \in 1 .. k
    <3>1. s2[Wrap(h + i - 1, len)] = s[Wrap(h + i - 1, len)]
      BY <1>6, <2>2 DEF IsRing
    <3> QED
      BY <1>4, <1>5, <1>8, <2>2, <3>1
  <2>3. i = k + 1 \/ i \in 1 .. k
    BY <1>1
  <2> QED
    BY <2>1, <2>2, <2>3
<1>10. T = Append(R, m)
  BY <1>5, <1>8, <1>9, SeqEqual
<1> QED
  BY <1>7, <1>10 DEF R, T

(* A message is added in front of the head.                                *)
LEMMA RingPush ==
  ASSUME NEW h \in Nat, NEW len \in Nat, NEW s, NEW k \in Nat, IsRing(h, len, s, k), k < len,
         NEW m \in Msg
  PROVE  /\ Ring(Prior(h, len), len, [s EXCEPT ![Prior(h, len)] = m], k + 1)
              = <<m>> \o Ring(h, len, s, k)
         /\ Wrap(Prior(h, len) + (k + 1), len) = Wrap(h + k, len)
<1>1. MaxLen \in Nat /\ len \in Nat \ {0} /\ h \in Nat /\ k \in Nat
  BY QueueAssumption DEF IsRing
<1> PICK h2 : h2 = Prior(h, len)
  OBVIOUS
<1> PICK s2 : s2 = [s EXCEPT ![h2] = m]
  OBVIOUS
<1> DEFINE R == Ring(h, len, s, k)
           T == Ring(h2, len, s2, k + 1)
<1>2. h2 \in 0 .. len - 1 /\ h2 \in 0 .. MaxLen - 1 /\ h2 \in Nat
  BY <1>1 DEF IsRing, Prior
<1>3. IsRing(h2, len, s2, k + 1) /\ k + 1 \in Nat
  BY <1>1, <1>2 DEF IsRing
<1>4. /\ R \in Seq(Msg) /\ Len(R) = k
      /\ \A i \in 1 .. k : R[i] = s[Wrap(h + i - 1, len)]
  BY RingSeq DEF IsContent
<1>5. /\ T \in Seq(Msg) /\ Len(T) = k + 1
      /\ \A i \in 1 .. k + 1 : T[i] = s2[Wrap(h2 + i - 1, len)]
  <2>1. IsContent(T, h2, len, s2, k + 1)
    BY <1>1, <1>2, <1>3, RingSeq
  <2> QED
    BY <2>1 DEF IsContent
<1>6. ASSUME NEW i \in 1 .. k
      PROVE  /\ Wrap(h2 + (i + 1) - 1, len) = Wrap(h + i - 1, len)
             /\ Wrap(h + i - 1, len) \in 0 .. MaxLen - 1
             /\ Wrap(h + i - 1, len) # h2
  BY <1>1 DEF Wrap, IsRing, Prior
<1>7. Wrap(h2 + (k + 1), len) = Wrap(h + k, len)
  BY <1>1 DEF Wrap, IsRing, Prior
<1>8. Wrap(h2 + 1 - 1, len) = h2
  BY <1>1, <1>2 DEF Wrap
<1> HIDE DEF R, T
<1>9. <<m>> \in Seq(Msg) /\ Len(<<m>>) = 1 /\ <<m>>[1] = m
  OBVIOUS
<1>10. /\ <<m>> \o R \in Seq(Msg) /\ Len(<<m>> \o R) = 1 + k
       /\ \A i \in 1 .. 1 + k :
            (<<m>> \o R)[i] = IF i <= 1 THEN <<m>>[i] ELSE R[i - 1]
  BY <1>4, <1>9, ConcatProperties
<1>11. \A i \in 1 .. k + 1 : T[i] = (<<m>> \o R)[i]
  <2> SUFFICES ASSUME NEW i \in 1 .. k + 1 PROVE T[i] = (<<m>> \o R)[i]
    OBVIOUS
  <2>1. CASE i = 1
    <3>1. T[i] = s2[h2]
      BY <1>5, <1>8, <2>1
    <3>2. s2[h2] = m
      BY <1>2 DEF IsRing
    <3>3. i \in 1 .. 1 + k
      BY <1>1
    <3>4. (<<m>> \o R)[i] = <<m>>[i]
      BY <1>10, <2>1, <3>3
    <3> QED
      BY <1>9, <2>1, <3>1, <3>2, <3>4
  <2>2. CASE i # 1
    <3>1. i - 1 \in 1 .. k /\ (i - 1) + 1 = i
      BY <1>1, <2>2
    <3>2. Wrap(h2 + i - 1, len) = Wrap(h + (i - 1) - 1, len)
      BY <1>6, <3>1
    <3>3. s2[Wrap(h + (i - 1) - 1, len)] = s[Wrap(h + (i - 1) - 1, len)]
      BY <1>6, <3>1 DEF IsRing
    <3>4. i \in 1 .. 1 + k /\ ~(i <= 1)
      BY <1>1, <2>2
    <3>5. (<<m>> \o R)[i] = R[i - 1]
      BY <1>10, <3>4
    <3> QED
      BY <1>4, <1>5, <3>1, <3>2, <3>3, <3>5
  <2> QED
    BY <2>1, <2>2
<1>12. Len(T) = Len(<<m>> \o R)
  BY <1>1, <1>5, <1>10
<1>13. T = <<m>> \o R
  BY <1>5, <1>10, <1>11, <1>12, SeqEqual
<1> QED
  BY <1>7, <1>13 DEF R, T
-----------------------------------------------------------------------------
(***************************************************************************)
(* In a queue in use every slot is readable, writable or on its way, and   *)
(* the tail is where the messages from the head on end.                    *)
(***************************************************************************)
Share(q, side) == count[q][side] + Awaited(q, side)

RingExact ==
  \A q \in queUsed :
    /\ Share(q, "read") + Share(q, "write") = queLen[q]
    /\ tail[q] = Wrap(head[q] + Share(q, "read"), queLen[q])

SideLists == Queue \X Side

Contents == [q \in Queue |-> Content(q)]

Sleepers == [w \in SideLists |-> waiting[w]]

Admitted == [w \in SideLists |-> Promised(w)]

ExactInv == QueueInv /\ HoldInv /\ PromiseInv /\ SlotInv /\ DeadInv /\ RingExact

LEMMA ShareNat ==
  ASSUME RingInv, PromiseInv, NEW q \in Queue, NEW side \in Side
  PROVE  /\ Share(q, side) \in Nat /\ count[q][side] \in Nat
         /\ Awaited(q, side) \in Nat /\ IsFiniteSet(Promised(<<q, side>>))
<1>1. count[q][side] \in Nat /\ IsFiniteSet(Promised(<<q, side>>))
  BY DEF RingInv, PromiseInv
<1>2. Awaited(q, side) \in Nat
  BY <1>1, FS_CardinalityType DEF Awaited
<1> QED
  BY <1>1, <1>2 DEF Share

LEMMA StoredShare ==
  ASSUME NEW q PROVE Stored(q) = Share(q, "read")
BY DEF Stored, Share, Awaited

LEMMA StoredShareNext ==
  ASSUME NEW q PROVE Stored(q)' = Share(q, "read")'
BY DEF Stored, Share, Awaited

LEMMA ContentRing ==
  ASSUME NEW q
  PROVE  /\ Content(q) = Ring(head[q], queLen[q], slot[q], Share(q, "read"))
         /\ Content(q)' = Ring(head'[q], queLen'[q], slot'[q], Share(q, "read")')
<1>1. Content(q) = Ring(head[q], queLen[q], slot[q], Stored(q))
  BY DEF Content, Ring
<1>2. Content(q)' = Ring(head'[q], queLen'[q], slot'[q], Stored(q)')
  BY DEF Content, Ring
<1> QED
  BY <1>1, <1>2, StoredShare, StoredShareNext

LEMMA UsedRing ==
  ASSUME ExactInv, NEW q \in queUsed
  PROVE  /\ q \in Queue
         /\ Share(q, "read") \in Nat /\ Share(q, "write") \in Nat
         /\ Share(q, "read") + Share(q, "write") = queLen[q]
         /\ tail[q] = Wrap(head[q] + Share(q, "read"), queLen[q])
         /\ IsRing(head[q], queLen[q], slot[q], Share(q, "read"))
<1>1. /\ q \in Queue /\ RingInv /\ PromiseInv /\ SlotInv
  BY DEF ExactInv, QueueInv, RingInv
<1>2. Share(q, "read") \in Nat /\ Share(q, "write") \in Nat
  BY <1>1, ShareNat DEF Side
<1>3. /\ Share(q, "read") + Share(q, "write") = queLen[q]
      /\ tail[q] = Wrap(head[q] + Share(q, "read"), queLen[q])
  BY DEF ExactInv, RingExact
<1>4. /\ queLen[q] \in 1 .. MaxLen /\ head[q] \in 0 .. queLen[q] - 1
  BY <1>1, RingPlaces
<1>5. slot[q] \in [0 .. MaxLen - 1 -> Msg]
  BY <1>1 DEF SlotInv
<1>6. Share(q, "read") \in 0 .. queLen[q]
  BY <1>2, <1>3
<1> QED
  BY <1>1, <1>2, <1>3, <1>4, <1>5, <1>6 DEF IsRing

LEMMA AfterWrap ==
  ASSUME NEW q, NEW n \in Nat, n < queLen[q], queLen[q] \in Nat
  PROVE  After(q, n) = Wrap(n + 1, queLen[q])
BY DEF After, Wrap

(* The copy of one message.                                                *)
LEMMA Copies ==
  ASSUME ExactInv, NEW q \in queUsed, NEW op \in Operation, BufferOperate(q, op),
         UNCHANGED queLen, Share(q, op.side) > 0,
         Share(q, op.side)' = Share(q, op.side) - 1,
         Share(q, Opposite(op.side))' = Share(q, Opposite(op.side)) + 1
  PROVE  /\ tail'[q] = Wrap(head'[q] + Share(q, "read")', queLen[q])
         /\ op.side = "read" => Content(q) # << >> /\ Content(q)' = Tail(Content(q))
         /\ op.side = "write" =>
              /\ Len(Content(q)) < queLen[q] /\ op.msg \in Msg
              /\ Content(q)' \in {Append(Content(q), op.msg), <<op.msg>> \o Content(q)}
<1> DEFINE h == head[q]
           len == queLen[q]
           s == slot[q]
           k == Share(q, "read")
<1>1. /\ q \in Queue /\ k \in Nat /\ Share(q, "write") \in Nat
      /\ k + Share(q, "write") = len
      /\ tail[q] = Wrap(h + k, len) /\ IsRing(h, len, s, k)
  BY UsedRing
<1>2. h \in Nat /\ h < len /\ len \in Nat /\ tail[q] \in Nat /\ tail[q] < len /\ queLen' = queLen
  <2>1. SlotInv /\ RingInv
    BY DEF ExactInv, QueueInv
  <2> QED
    BY <1>1, <2>1, RingPlaces
<1>3. Content(q) = Ring(h, len, s, k)
      /\ Content(q)' = Ring(head'[q], len, slot'[q], Share(q, "read")')
  BY <1>2, ContentRing
<1>4. Len(Content(q)) = k
  BY <1>1, <1>2, <1>3, RingSeq DEF IsContent
<1>5. /\ op.side \in Side /\ head \in [Queue -> Nat] /\ tail \in [Queue -> Nat]
      /\ slot \in [Queue -> [0 .. MaxLen - 1 -> Msg]]
  BY OperationSide DEF ExactInv, SlotInv
<1> HIDE DEF h, len, s, k
<1>6. CASE op.side = "read"
  <2>1. /\ head'[q] = After(q, head[q]) /\ slot' = slot /\ tail' = tail
    BY <1>1, <1>5, <1>6 DEF BufferOperate
  <2>2. k > 0 /\ Share(q, "read")' = k - 1
    BY <1>6 DEF k
  <2>3. head'[q] = Wrap(h + 1, len) /\ slot'[q] = s
    BY <1>2, <2>1, AfterWrap DEF h, len, s
  <2>4. /\ Ring(h, len, s, k) # << >>
        /\ Ring(Wrap(h + 1, len), len, s, k - 1) = Tail(Ring(h, len, s, k))
        /\ Wrap(Wrap(h + 1, len) + (k - 1), len) = Wrap(h + k, len)
    BY <1>1, <1>2, <2>2, RingRead
  <2>5. tail'[q] = Wrap(head'[q] + Share(q, "read")', len)
    BY <1>1, <2>1, <2>2, <2>3, <2>4
  <2>6. Content(q) # << >> /\ Content(q)' = Tail(Content(q))
    BY <1>3, <2>2, <2>3, <2>4
  <2> QED
    BY <1>6, <2>5, <2>6 DEF len
<1>7. ASSUME op.side = "write"
      PROVE  op.msg \in Msg /\ k < len /\ Share(q, "read")' = k + 1
  <2>1. op.msg \in Msg
    BY <1>7 DEF Operation
  <2>2. Opposite(op.side) = "read" /\ Share(q, "write") > 0
    BY <1>7 DEF Opposite
  <2>3. Share(q, "read")' = k + 1
    BY <2>2 DEF k
  <2> QED
    BY <1>1, <2>1, <2>2, <2>3
<1>8. CASE op.side = "write" /\ op.end = "tail"
  <2>1. /\ head' = head /\ tail'[q] = After(q, tail[q])
        /\ slot'[q] = [slot[q] EXCEPT ![tail[q]] = op.msg]
    BY <1>1, <1>5, <1>8 DEF BufferOperate
  <2>2. op.msg \in Msg /\ k < len /\ Share(q, "read")' = k + 1
    BY <1>7, <1>8
  <2>3. slot'[q] = [s EXCEPT ![Wrap(h + k, len)] = op.msg] /\ head'[q] = h
    BY <1>1, <2>1 DEF s, h
  <2>4. tail'[q] = Wrap(Wrap(h + k, len) + 1, len)
    <3>1. After(q, tail[q]) = Wrap(tail[q] + 1, queLen[q])
      BY <1>2, AfterWrap DEF len
    <3> QED
      BY <1>1, <2>1, <3>1 DEF len
  <2>5. /\ Ring(h, len, [s EXCEPT ![Wrap(h + k, len)] = op.msg], k + 1)
             = Append(Ring(h, len, s, k), op.msg)
        /\ Wrap(Wrap(h + k, len) + 1, len) = Wrap(h + (k + 1), len)
    <3>1. h \in Nat /\ len \in Nat /\ k \in Nat /\ IsRing(h, len, s, k) /\ k < len
      BY <1>1, <1>2, <2>2
    <3>2. op.msg \in Msg
      BY <2>2
    <3> QED
      BY <3>1, <3>2, RingAppend
  <2>7. tail'[q] = Wrap(head'[q] + Share(q, "read")', len)
    BY <2>2, <2>3, <2>4, <2>5
  <2>8. Content(q)' = Append(Content(q), op.msg)
    BY <1>3, <2>2, <2>3, <2>5
  <2> QED
    BY <1>4, <1>8, <2>2, <2>7, <2>8 DEF len
<1>9. CASE op.side = "write" /\ op.end = "head"
  <2>1. /\ head'[q] = Before(q, head[q]) /\ tail' = tail
        /\ slot'[q] = [slot[q] EXCEPT ![head'[q]] = op.msg]
    BY <1>1, <1>5, <1>9 DEF BufferOperate
  <2>2. op.msg \in Msg /\ k < len /\ Share(q, "read")' = k + 1
    BY <1>7, <1>9
  <2>3. head'[q] = Prior(h, len)
    BY <2>1 DEF Before, Prior, h, len
  <2>4. /\ Ring(Prior(h, len), len, [s EXCEPT ![Prior(h, len)] = op.msg], k + 1)
             = <<op.msg>> \o Ring(h, len, s, k)
        /\ Wrap(Prior(h, len) + (k + 1), len) = Wrap(h + k, len)
    <3>1. h \in Nat /\ len \in Nat /\ k \in Nat /\ IsRing(h, len, s, k) /\ k < len
      BY <1>1, <1>2, <2>2
    <3>2. op.msg \in Msg
      BY <2>2
    <3> QED
      BY <3>1, <3>2, RingPush
  <2>6. slot'[q] = [s EXCEPT ![Prior(h, len)] = op.msg]
    BY <2>1, <2>3 DEF s
  <2>7. tail'[q] = Wrap(head'[q] + Share(q, "read")', len)
    BY <1>1, <2>1, <2>2, <2>3, <2>4
  <2>8. Content(q)' = <<op.msg>> \o Content(q)
    BY <1>3, <2>2, <2>3, <2>4, <2>6
  <2> QED
    BY <1>4, <1>9, <2>2, <2>7, <2>8 DEF len
<1>10. op.side = "read" \/ (op.side = "write" /\ op.end \in {"tail", "head"})
  BY DEF Operation
<1> QED
  BY <1>6, <1>8, <1>9, <1>10
-----------------------------------------------------------------------------
(***************************************************************************)
(* A message moves: what side here of queue q has less, the other has      *)
(* more, and the first sleeper of the other side is let in.                *)
(***************************************************************************)
Moves(q, here, gone) ==
  /\ Share(q, here) > 0 /\ Share(q, here)' = Share(q, here) - 1
  /\ Share(q, Opposite(here))' = Share(q, Opposite(here)) + 1
  /\ \A r \in Queue \ {q}, side \in Side : Share(r, side)' = Share(r, side)
  /\ Contract!LetIn(<<q, Opposite(here)>>, gone)

LEMMA SidesWait == SideLists \subseteq WaitList
BY QueueAssumption DEF SideLists

LEMMA LetInNobody ==
  ASSUME NEW v \in SideLists, waiting[v] = << >>, UNCHANGED waiting,
         NEW gone \in [SideLists -> SUBSET Task],
         \A w \in SideLists : Promised(w)' = gone[w]
  PROVE  Contract!LetIn(v, gone)
<1>1. Sleepers[v] = << >> /\ Sleepers' = Sleepers
  BY DEF Sleepers
<1>2. Admitted' = gone
  BY DEF Admitted
<1> QED
  BY <1>1, <1>2 DEF Contract!LetIn, Sleepers, Admitted, SideLists

LEMMA LetInFirst ==
  ASSUME QueueInv, HoldInv, NEW v \in SideLists, waiting[v] # << >>,
         TaskWake(ready, pri, Head(waiting[v]), v),
         NEW gone \in [SideLists -> SUBSET Task],
         \A w \in SideLists :
           Promised(w)' = gone[w] \cup (IF w = v THEN {Head(waiting[v])} ELSE {})
  PROVE  Contract!LetIn(v, gone)
<1>1. v \in WaitList /\ waiting[v] \in Seq(Task) /\ waiting \in [WaitList -> Seq(Task)]
  BY SidesWait DEF QueueInv, TInv, TcbInv
<1>2. NoRepeat(waiting[v])
  BY <1>1 DEF HoldInv, ListInv, WaitInv, Filed, Distinct
<1>3. Unlink(waiting[v], Head(waiting[v])) = Tail(waiting[v])
  BY <1>1, <1>2, UnlinkFirst
<1>4. waiting' = [waiting EXCEPT ![v] = Tail(waiting[v])]
  BY <1>3 DEF TaskWake
<1>5. \A w \in SideLists : w \in WaitList
  BY SidesWait
<1>6. Sleepers' = [Sleepers EXCEPT ![v] = Tail(Sleepers[v])]
  BY <1>1, <1>4, <1>5 DEF Sleepers
<1>7. Admitted' = [gone EXCEPT ![v] = gone[v] \cup {Head(Sleepers[v])}]
  BY DEF Admitted, Sleepers
<1>8. Sleepers[v] # << >>
  BY DEF Sleepers
<1> QED
  BY <1>6, <1>7, <1>8 DEF Contract!LetIn, Sleepers, Admitted, SideLists

LEMMA AdmittedType == Admitted \in [SideLists -> SUBSET Task]
BY DEF Admitted, Promised

(* The counts of one step, from those of its two sides.                    *)
LEMMA ShareElsewhere ==
  ASSUME NEW r, NEW side, count'[r] = count[r],
         Promised(<<r, side>>)' = Promised(<<r, side>>)
  PROVE  Share(r, side)' = Share(r, side)
BY DEF Share, Awaited

LEMMA OneIn ==
  ASSUME NEW w, NEW t, IsFiniteSet(Promised(w)), t \notin Promised(w),
         Promised(w)' = Promised(w) \cup {t}
  PROVE  Cardinality(Promised(w)') = Cardinality(Promised(w)) + 1
BY FS_AddElement

LEMMA OneOut ==
  ASSUME NEW w, NEW t, IsFiniteSet(Promised(w)), t \in Promised(w),
         Promised(w)' = Promised(w) \ {t}
  PROVE  Cardinality(Promised(w)') = Cardinality(Promised(w)) - 1
BY FS_RemoveElement

LEMMA OperateMoves ==
  ASSUME QueueInv, HoldInv, PromiseInv, NEW c \in Task \cup {Isr},
         NEW q \in Queue, NEW op \in Operation, QueueOperate(c, q, op)
  PROVE  \E gone \in [SideLists -> SUBSET Task] :
           gone = Admitted /\ Moves(q, op.side, gone)
<1> PICK gone \in [SideLists -> SUBSET Task] : gone = Admitted
  BY AdmittedType
<1> PICK here \in Side : here = op.side
  BY OperationSide
<1> PICK there \in Side : there = Opposite(here) /\ there # here
  BY OtherSide
<1> PICK v \in SideLists : v = <<q, there>>
  BY DEF SideLists
<1>1. /\ q \in queUsed /\ count[q][here] > 0 /\ UNCHANGED arg
      /\ \A r \in Queue, side \in Side : <<r, side>> \in WaitList
      /\ v \in WaitList
  BY SidesWait DEF QueueOperate, ThenSchedule, vars, tcb, SideLists
<1>2. /\ Awaited(q, here) \in Nat /\ Awaited(q, there) \in Nat
      /\ count[q][here] \in Nat /\ count[q][there] \in Nat
      /\ IsFiniteSet(Promised(v))
  BY ShareNat DEF QueueInv
<1>3. CASE waiting[v] = << >>
  <2>1. /\ count' = [count EXCEPT ![q][here] = @ - 1, ![q][there] = @ + 1]
        /\ UNCHANGED <<status, waiting>>
    BY <1>3 DEF QueueOperate, vars, tcb
  <2>2. /\ count'[q][here] = count[q][here] - 1 /\ count'[q][there] = count[q][there] + 1
        /\ \A r \in Queue \ {q} : count'[r] = count[r]
    BY <2>1 DEF QueueInv, RingInv
  <2>3. \A w : Promised(w)' = Promised(w)
    BY <1>1, <2>1, PromisedSame
  <2>4. Awaited(q, here)' = Awaited(q, here) /\ Awaited(q, there)' = Awaited(q, there)
    BY <2>3 DEF Awaited
  <2>5. /\ Share(q, here) > 0 /\ Share(q, here)' = Share(q, here) - 1
        /\ Share(q, there)' = Share(q, there) + 1
    BY <1>1, <1>2, <2>2, <2>4 DEF Share
  <2>6. \A r \in Queue \ {q}, side \in Side : Share(r, side)' = Share(r, side)
    BY <2>2, <2>3, ShareElsewhere
  <2>7. \A w \in SideLists : Promised(w)' = gone[w]
    BY <2>3 DEF Admitted
  <2>8. Contract!LetIn(v, gone)
    <3>1. ASSUME NEW u \in SideLists, waiting[u] = << >>
          PROVE  Contract!LetIn(u, gone)
      BY <2>1, <2>7, <3>1, LetInNobody
    <3> QED
      BY <1>3, <3>1
  <2> QED
    BY <2>5, <2>6, <2>8 DEF Moves
<1>4. CASE waiting[v] # << >>
  <2>1. /\ count' = [count EXCEPT ![q][here] = @ - 1]
        /\ TaskWake(ready, pri, Head(waiting[v]), v)
    BY <1>4 DEF QueueOperate
  <2>2. PICK t \in Task :
          /\ t = Head(waiting[v])
          /\ \A w \in WaitList :
               /\ Promised(w)' = Promised(w) \cup (IF w = v THEN {t} ELSE {})
               /\ t \notin Promised(w)
    BY <1>1, <1>4, <2>1, FirstPromised
  <2>3. /\ count'[q][here] = count[q][here] - 1 /\ count'[q][there] = count[q][there]
        /\ \A r \in Queue \ {q} : count'[r] = count[r]
    BY <2>1 DEF QueueInv, RingInv
  <2>4. ASSUME NEW w \in WaitList, w # v PROVE Promised(w)' = Promised(w)
    <3>1. Promised(w)' = Promised(w) \cup {}
      BY <2>2, <2>4
    <3> QED
      BY <3>1
  <2>5. Awaited(q, there)' = Awaited(q, there) + 1
    <3>1. Promised(v)' = Promised(v) \cup {t} /\ t \notin Promised(v)
      BY <1>1, <2>2
    <3> QED
      BY <1>2, <3>1, OneIn DEF Awaited
  <2>6. Awaited(q, here)' = Awaited(q, here)
    <3>1. <<q, here>> \in WaitList /\ <<q, here>> # v
      BY <1>1
    <3>2. Promised(<<q, here>>)' = Promised(<<q, here>>)
      BY <2>4, <3>1
    <3> QED
      BY <3>2 DEF Awaited
  <2>7. /\ Share(q, here) > 0 /\ Share(q, here)' = Share(q, here) - 1
        /\ Share(q, there)' = Share(q, there) + 1
    BY <1>1, <1>2, <2>3, <2>5, <2>6 DEF Share
  <2>8. ASSUME NEW r \in Queue \ {q}, NEW side \in Side
        PROVE  Share(r, side)' = Share(r, side)
    <3>1. <<r, side>> \in WaitList /\ <<r, side>> # v
      BY <1>1
    <3>2. Promised(<<r, side>>)' = Promised(<<r, side>>)
      BY <2>4, <3>1
    <3> QED
      BY <2>3, <3>2, ShareElsewhere
  <2>9. Contract!LetIn(v, gone)
    <3>1. \A w \in SideLists :
            Promised(w)' = gone[w] \cup (IF w = v THEN {Head(waiting[v])} ELSE {})
      BY <2>2, SidesWait DEF Admitted
    <3>2. ASSUME NEW u \in SideLists, waiting[u] # << >>,
                 TaskWake(ready, pri, Head(waiting[u]), u),
                 \A w \in SideLists :
                   Promised(w)' = gone[w] \cup (IF w = u THEN {Head(waiting[u])} ELSE {})
          PROVE  Contract!LetIn(u, gone)
      BY <3>2, LetInFirst
    <3> QED
      BY <1>4, <2>1, <3>1, <3>2
  <2> QED
    BY <2>7, <2>8, <2>9 DEF Moves
<1> QED
  BY <1>3, <1>4

(* The first sleeper is let in by a task that goes on.                     *)
LEMMA NextPromised ==
  ASSUME QueueInv, HoldInv, NEW v \in WaitList, waiting[v] # << >>,
         TaskWake(ready, pri, Head(waiting[v]), v),
         NEW c \in Task, ~Is(c, "PEND"), arg'[c] = NoArg,
         \A u \in Task \ {c} : arg'[u] = arg[u]
  PROVE  \E t \in Task :
           /\ t = Head(waiting[v])
           /\ \A w \in WaitList :
                /\ Promised(w)' = (Promised(w) \ {c}) \cup (IF w = v THEN {t} ELSE {})
                /\ t \notin Promised(w)
<1>1. TInv /\ ListInv
  BY DEF QueueInv, HoldInv
<1>2. ASSUME NEW t, t = Head(waiting[v])
      PROVE  t \in Task /\ Linked(waiting[v], t) /\ TaskWake(ready, pri, t, v)
  BY <1>2, TailLinks DEF QueueInv, TInv, TcbInv
<1>3. ASSUME NEW t \in Task, Linked(waiting[v], t), TaskWake(ready, pri, t, v), NEW away,
             t \notin away, \A u \in Task \ away : arg'[u] = arg[u],
             \A u \in Task \cap away : arg'[u] \notin WaitList
      PROVE  \A w \in WaitList :
               /\ Promised(w)' = (Promised(w) \ away) \cup (IF w = v THEN {t} ELSE {})
               /\ t \notin Promised(w)
  BY <1>1, <1>3, WakePromises
<1>4. ASSUME NEW t \in Task, Linked(waiting[v], t), TaskWake(ready, pri, t, v)
      PROVE  \A w \in WaitList :
               /\ Promised(w)' = (Promised(w) \ {c}) \cup (IF w = v THEN {t} ELSE {})
               /\ t \notin Promised(w)
  <2>1. t # c
    BY <1>1, <1>4, WaiterPends
  <2>2. t \notin {c} /\ \A u \in Task \ {c} : arg'[u] = arg[u]
    BY <2>1
  <2>3. \A u \in Task \cap {c} : arg'[u] \notin WaitList
    BY TaskAssumption
  <2> QED
    BY <1>3, <1>4, <2>2, <2>3, Zenon
<1> QED
  BY <1>2, <1>4

(* A task that goes on, when its wait is over.                             *)
LEMMA GoOnMoves ==
  ASSUME QueueInv, HoldInv, PromiseInv, NEW c \in Task, QueueGoOn(c),
         NEW q \in Queue, NEW here \in Side, arg[c] = <<q, here>>,
         call[c].side = here, ~Is(c, "PEND"), ~Is(c, "TIMEOUT")
  PROVE  \E gone \in [SideLists -> SUBSET Task] :
           /\ \A w \in SideLists : gone[w] = Promised(w) \ {c}
           /\ Moves(q, here, gone)
<1> PICK gone \in [SideLists -> SUBSET Task] : \A w \in SideLists : gone[w] = Promised(w) \ {c}
  <2>1. [w \in SideLists |-> Promised(w) \ {c}] \in [SideLists -> SUBSET Task]
    BY DEF Promised
  <2> QED
    BY <2>1
<1> PICK there \in Side : there = Opposite(here) /\ there # here
  BY OtherSide
<1> PICK v \in SideLists : v = <<q, there>>
  BY DEF SideLists
<1>1. /\ arg'[c] = NoArg /\ \A u \in Task \ {c} : arg'[u] = arg[u]
      /\ \A r \in Queue, side \in Side : <<r, side>> \in WaitList
      /\ v \in WaitList
  BY SidesWait DEF QueueGoOn, QueueInv, TInv, PlaceInv, SideLists
<1>2. /\ Awaited(q, here) \in Nat /\ Awaited(q, there) \in Nat
      /\ count[q][here] \in Nat /\ count[q][there] \in Nat
      /\ IsFiniteSet(Promised(v)) /\ IsFiniteSet(Promised(<<q, here>>))
  BY ShareNat DEF QueueInv
<1>3. /\ c \in Promised(<<q, here>>)
      /\ \A w : w # <<q, here>> => c \notin Promised(w)
  BY DEF Promised
<1>4. Cardinality(Promised(<<q, here>>)) > 0
  <2>1. Awaited(q, here) # 0
    BY <1>2, <1>3, FS_EmptySet DEF Awaited
  <2> QED
    BY <1>2, <2>1 DEF Awaited
<1>5. ASSUME Promised(<<q, here>>)' = Promised(<<q, here>>) \ {c}
      PROVE  Awaited(q, here)' = Awaited(q, here) - 1 /\ Awaited(q, here) > 0
  <2> PICK w : w = <<q, here>>
    OBVIOUS
  <2>1. Cardinality(Promised(w)') = Cardinality(Promised(w)) - 1
    BY <1>2, <1>3, <1>5, OneOut
  <2> QED
    BY <1>4, <2>1 DEF Awaited
<1>7. CASE waiting[v] = << >>
  <2>1. /\ count' = [count EXCEPT ![q][there] = @ + 1]
        /\ UNCHANGED waiting /\ Back(c)
    BY <1>7 DEF QueueGoOn, Back, NoUnlinking
  <2>2. /\ count'[q][here] = count[q][here] /\ count'[q][there] = count[q][there] + 1
        /\ \A r \in Queue \ {q} : count'[r] = count[r]
    BY <2>1 DEF QueueInv, RingInv
  <2>3. ASSUME NEW w \in WaitList PROVE Promised(w)' = Promised(w) \ {c}
    BY <2>1, BackPromises DEF QueueInv
  <2>4. ASSUME NEW w \in WaitList, w # <<q, here>> PROVE Promised(w)' = Promised(w)
    <3>1. Promised(w)' = Promised(w) \ {c} /\ c \notin Promised(w)
      BY <1>3, <2>3, <2>4
    <3> QED
      BY <3>1
  <2>5. Awaited(q, there)' = Awaited(q, there)
    <3>1. <<q, there>> \in WaitList /\ <<q, there>> # <<q, here>>
      BY <1>1
    <3>2. Promised(<<q, there>>)' = Promised(<<q, there>>)
      BY <2>4, <3>1
    <3> QED
      BY <3>2 DEF Awaited
  <2>6. Awaited(q, here)' = Awaited(q, here) - 1 /\ Awaited(q, here) > 0
    BY <1>1, <1>5, <2>3
  <2>7. /\ Share(q, here) > 0 /\ Share(q, here)' = Share(q, here) - 1
        /\ Share(q, there)' = Share(q, there) + 1
    BY <1>2, <2>2, <2>5, <2>6 DEF Share
  <2>8. ASSUME NEW r \in Queue \ {q}, NEW side \in Side
        PROVE  Share(r, side)' = Share(r, side)
    <3>1. <<r, side>> \in WaitList /\ <<r, side>> # <<q, here>>
      BY <1>1
    <3>2. Promised(<<r, side>>)' = Promised(<<r, side>>)
      BY <2>4, <3>1
    <3> QED
      BY <2>2, <3>2, ShareElsewhere
  <2>9. Contract!LetIn(v, gone)
    <3>1. \A w \in SideLists : Promised(w)' = gone[w]
      BY <2>3, SidesWait
    <3>2. ASSUME NEW u \in SideLists, waiting[u] = << >>
          PROVE  Contract!LetIn(u, gone)
      BY <2>1, <3>1, <3>2, LetInNobody
    <3> QED
      BY <1>7, <3>2
  <2> QED
    BY <2>7, <2>8, <2>9 DEF Moves
<1>8. CASE waiting[v] # << >>
  <2>1. count' = count /\ TaskWake(ready, pri, Head(waiting[v]), v)
    BY <1>8 DEF QueueGoOn
  <2>2. PICK t \in Task :
          /\ t = Head(waiting[v])
          /\ \A w \in WaitList :
               /\ Promised(w)' = (Promised(w) \ {c}) \cup (IF w = v THEN {t} ELSE {})
               /\ t \notin Promised(w)
    BY <1>1, <1>8, <2>1, NextPromised
  <2>4. ASSUME NEW w \in WaitList, w # v PROVE Promised(w)' = Promised(w) \ {c}
    <3>1. Promised(w)' = (Promised(w) \ {c}) \cup {}
      BY <2>2, <2>4
    <3> QED
      BY <3>1
  <2>5. Awaited(q, there)' = Awaited(q, there) + 1
    <3>1. Promised(v)' = (Promised(v) \ {c}) \cup {t} /\ t \notin Promised(v)
      BY <1>1, <2>2
    <3>2. Promised(v) \ {c} = Promised(v)
      BY <1>3
    <3> QED
      BY <1>2, <3>1, <3>2, OneIn DEF Awaited
  <2>6. Awaited(q, here)' = Awaited(q, here) - 1 /\ Awaited(q, here) > 0
    <3>1. <<q, here>> \in WaitList /\ <<q, here>> # v
      BY <1>1
    <3>2. Promised(<<q, here>>)' = Promised(<<q, here>>) \ {c}
      BY <2>4, <3>1
    <3> QED
      BY <1>5, <3>2
  <2>7. /\ Share(q, here) > 0 /\ Share(q, here)' = Share(q, here) - 1
        /\ Share(q, there)' = Share(q, there) + 1
    BY <1>2, <2>1, <2>5, <2>6 DEF Share
  <2>8. ASSUME NEW r \in Queue \ {q}, NEW side \in Side
        PROVE  Share(r, side)' = Share(r, side)
    <3>1. <<r, side>> \in WaitList /\ <<r, side>> # v /\ <<r, side>> # <<q, here>>
      BY <1>1
    <3>2. Promised(<<r, side>>)' = Promised(<<r, side>>) \ {c}
      BY <2>4, <3>1
    <3>3. c \notin Promised(<<r, side>>)
      BY <1>3, <3>1
    <3>4. Promised(<<r, side>>)' = Promised(<<r, side>>)
      BY <3>2, <3>3
    <3> QED
      BY <2>1, <3>4, ShareElsewhere
  <2>9. Contract!LetIn(v, gone)
    <3>1. \A w \in SideLists :
            Promised(w)' = gone[w] \cup (IF w = v THEN {Head(waiting[v])} ELSE {})
      BY <2>2, SidesWait
    <3>2. ASSUME NEW u \in SideLists, waiting[u] # << >>,
                 TaskWake(ready, pri, Head(waiting[u]), u),
                 \A w \in SideLists :
                   Promised(w)' = gone[w] \cup (IF w = u THEN {Head(waiting[u])} ELSE {})
          PROVE  Contract!LetIn(u, gone)
      BY <3>2, LetInFirst
    <3> QED
      BY <1>8, <2>1, <3>1, <3>2
  <2> QED
    BY <2>7, <2>8, <2>9 DEF Moves
<1> QED
  BY <1>7, <1>8
-----------------------------------------------------------------------------
(***************************************************************************)
(* Each step is a step of the bounded queue, or none.                      *)
(***************************************************************************)
ContractStep == [Contract!Next]_<<Contents, queLen, Sleepers, Admitted>>

LEMMA ContractNames ==
  ASSUME NEW list, NEW x
  PROVE  /\ Contract!Linked(list, x) <=> Linked(list, x)
         /\ Contract!Unlink(list, x) = Unlink(list, x)
<1>1. Contract!Linked(list, x) <=> Linked(list, x)
  BY DEF Contract!Linked, Linked, Contract!ToSet, ToSet
<1>2. \A I : Contract!Min(I) = Min(I)
  BY DEF Contract!Min, Min
<1>3. Contract!Unlink(list, x) = Unlink(list, x)
  BY <1>2 DEF Contract!Unlink, Unlink, Contract!RemoveFirst, RemoveFirst,
     Contract!RemoveAt, RemoveAt, Contract!SelectInSeq, SelectInSeq
<1> QED
  BY <1>1, <1>3

LEMMA ContractSides ==
  /\ Contract!Side = Side
  /\ \A side : Contract!Opposite(side) = Opposite(side)
BY DEF Contract!Side, Side, Contract!Opposite, Opposite

LEMMA ContractCount ==
  ASSUME NEW S PROVE Contract!Cardinality(S) = Cardinality(S)
BY DEF Contract!Cardinality, Cardinality, Contract!IsFiniteSet, IsFiniteSet

(* The sides of the queues as they were.                                   *)
LEMMA SidesStill ==
  ASSUME \A w \in SideLists : waiting'[w] = waiting[w] /\ Promised(w)' = Promised(w)
  PROVE  Sleepers' = Sleepers /\ Admitted' = Admitted
BY DEF Sleepers, Admitted

LEMMA ContractStill ==
  ASSUME ExactInv, UNCHANGED <<queLen, count, head, tail, slot>>, queUsed' \subseteq queUsed,
         \A w \in SideLists : waiting'[w] = waiting[w] /\ Promised(w)' = Promised(w)
  PROVE  RingExact' /\ ContractStep
<1>1. \A q \in Queue, side \in Side : Share(q, side)' = Share(q, side)
  <2> SUFFICES ASSUME NEW q \in Queue, NEW side \in Side
               PROVE  Share(q, side)' = Share(q, side)
    OBVIOUS
  <2>1. <<q, side>> \in SideLists
    BY DEF SideLists
  <2>2. Promised(<<q, side>>)' = Promised(<<q, side>>)
    BY <2>1
  <2> QED
    BY <2>2, ShareElsewhere
<1>2. RingExact'
  <2>1. "read" \in Side /\ "write" \in Side /\ queUsed \subseteq Queue
    BY DEF Side, ExactInv, QueueInv, RingInv
  <2> QED
    BY <1>1, <2>1 DEF ExactInv, RingExact
<1>3. \A q \in Queue : Content(q)' = Content(q)
  BY <1>1, ContentRing DEF Side
<1>4. Contents' = Contents
  BY <1>3 DEF Contents
<1> QED
  BY <1>2, <1>4, SidesStill DEF ContractStep

LEMMA ContractMake ==
  ASSUME ExactInv, NEW c \in Task \cup {Isr}, NEW q \in Queue, NEW n \in Lengths,
         QueueCreate(c, q, n)
  PROVE  RingExact' /\ ContractStep
<1>1. /\ q \notin queUsed /\ queUsed' = queUsed \cup {q} /\ queUsed \subseteq Queue
      /\ queLen' = [queLen EXCEPT ![q] = n] /\ queLen'[q] = n
      /\ count'[q]["read"] = 0 /\ count'[q]["write"] = n
      /\ head'[q] = 0 /\ tail'[q] = 0 /\ slot' = slot
      /\ UNCHANGED <<status, arg, waiting>>
      /\ \A r \in Queue \ {q} : /\ count'[r] = count[r] /\ queLen'[r] = queLen[r]
                              /\ head'[r] = head[r] /\ tail'[r] = tail[r]
  BY DEF QueueCreate, vars, tcb, ExactInv, QueueInv, RingInv, SlotInv
<1>2. n \in 1 .. MaxLen /\ n \in Nat /\ n > 0
  BY QueueAssumption
<1>3. \A w : Promised(w)' = Promised(w)
  BY <1>1, PromisedSame
<1>4. \A side \in Side : Promised(<<q, side>>) = {} /\ waiting[<<q, side>>] = << >>
  <2> SUFFICES ASSUME NEW side \in Side
               PROVE  Promised(<<q, side>>) = {} /\ waiting[<<q, side>>] = << >>
    OBVIOUS
  <2>1. <<q, side>> \in WaitList /\ <<q, side>>[1] = q
    BY SidesWait DEF SideLists
  <2> QED
    BY <1>1, <2>1 DEF ExactInv, PromiseInv, QueueInv, SleepersInUse
<1>5. \A r \in Queue \ {q}, side \in Side : Share(r, side)' = Share(r, side)
  BY <1>1, <1>3, ShareElsewhere
<1>6. Share(q, "read")' = 0 /\ Share(q, "write")' = n
  <2>1. Awaited(q, "read")' = 0 /\ Awaited(q, "write")' = 0
    BY <1>3, <1>4, FS_EmptySet DEF Awaited, Side
  <2> QED
    BY <1>1, <1>2, <2>1 DEF Share
<1>7. RingExact'
  <2> SUFFICES ASSUME NEW r \in queUsed'
               PROVE  /\ Share(r, "read")' + Share(r, "write")' = queLen'[r]
                      /\ tail'[r] = Wrap(head'[r] + Share(r, "read")', queLen'[r])
    BY DEF RingExact
  <2>1. CASE r = q
    BY <1>1, <1>2, <1>6, <2>1 DEF Wrap
  <2>2. CASE r # q
    BY <1>1, <1>5, <2>2 DEF ExactInv, RingExact, Side
  <2> QED
    BY <2>1, <2>2
<1>8. \A r \in Queue \ {q} : Content(r)' = Content(r)
  BY <1>1, <1>5, ContentRing DEF Side
<1>9. Content(q)' = << >>
  <2>1. Content(q)' = Ring(head'[q], queLen'[q], slot'[q], 0)
    BY <1>6, ContentRing
  <2> QED
    BY <2>1 DEF Ring
<1>10. Contents' = [Contents EXCEPT ![q] = << >>]
  BY <1>8, <1>9 DEF Contents
<1>11. Sleepers' = Sleepers /\ Admitted' = Admitted
  BY <1>1, <1>3, SidesStill
<1>12. \A side \in Side : Sleepers[<<q, side>>] = << >> /\ Admitted[<<q, side>>] = {}
  BY <1>4 DEF Sleepers, Admitted, SideLists
<1>13. Contract!Make(q, n)
  BY <1>1, <1>10, <1>11, <1>12, ContractSides
     DEF Contract!Make, Contents, Sleepers, Admitted, SideLists
<1> QED
  BY <1>2, <1>7, <1>13 DEF ContractStep, Contract!Next

(* One message moves.                                                      *)
LEMMA TransferStep ==
  ASSUME ExactInv, NEW q \in queUsed, NEW op \in Operation, BufferOperate(q, op),
         UNCHANGED <<queUsed, queLen>>, NEW gone, Moves(q, op.side, gone)
  PROVE  RingExact' /\ Contract!Transfer(q, op.side)
<1>1. /\ tail'[q] = Wrap(head'[q] + Share(q, "read")', queLen[q])
      /\ op.side = "read" => Content(q) # << >> /\ Content(q)' = Tail(Content(q))
      /\ op.side = "write" =>
           /\ Len(Content(q)) < queLen[q] /\ op.msg \in Msg
           /\ Content(q)' \in {Append(Content(q), op.msg), <<op.msg>> \o Content(q)}
  BY Copies DEF Moves
<1>2. /\ q \in Queue /\ Share(q, "read") \in Nat /\ Share(q, "write") \in Nat
      /\ Share(q, "read") + Share(q, "write") = queLen[q]
  BY UsedRing
<1>3. Share(q, "read")' + Share(q, "write")' = queLen[q]
  <2>1. op.side = "read" \/ op.side = "write"
    BY OperationSide DEF Side
  <2> QED
    BY <1>2, <2>1 DEF Moves, Opposite
<1>4. \A r \in Queue \ {q} : head'[r] = head[r] /\ tail'[r] = tail[r] /\ slot'[r] = slot[r]
  BY DEF BufferOperate, ExactInv, SlotInv
<1>5. \A r \in Queue \ {q} : /\ Share(r, "read")' = Share(r, "read")
                           /\ Share(r, "write")' = Share(r, "write")
  BY DEF Moves, Side
<1>6. RingExact'
  <2> SUFFICES ASSUME NEW r \in queUsed'
               PROVE  /\ Share(r, "read")' + Share(r, "write")' = queLen'[r]
                      /\ tail'[r] = Wrap(head'[r] + Share(r, "read")', queLen'[r])
    BY DEF RingExact
  <2>1. CASE r = q
    BY <1>1, <1>3, <2>1
  <2>2. CASE r # q
    <3>1. r \in Queue \ {q} /\ r \in queUsed
      BY <2>2 DEF ExactInv, QueueInv, RingInv
    <3> QED
      BY <1>4, <1>5, <3>1 DEF ExactInv, RingExact
  <2> QED
    BY <2>1, <2>2
<1>7. \A r \in Queue \ {q} : Content(r)' = Content(r)
  BY <1>4, <1>5, ContentRing
<1>8. /\ Contents' = [Contents EXCEPT ![q] = Content(q)']
      /\ Contents[q] = Content(q)
  BY <1>2, <1>7 DEF Contents
<1>9. CASE op.side = "read"
  BY <1>1, <1>6, <1>8, <1>9 DEF Contract!Transfer, Contents
<1>10. CASE op.side = "write"
  BY <1>1, <1>6, <1>8, <1>10 DEF Contract!Transfer, Contents
<1>11. op.side \in {"read", "write"}
  BY OperationSide DEF Side
<1> QED
  BY <1>6, <1>9, <1>10, <1>11

(* What a newcomer may take is what the code counts.                       *)
LEMMA AvailableCount ==
  ASSUME ExactInv, NEW q \in queUsed, NEW side \in Side
  PROVE  Contract!Available(q, side) = count[q][side]
<1>1. /\ q \in Queue /\ Share(q, "read") \in Nat /\ Share(q, "write") \in Nat
      /\ Share(q, "read") + Share(q, "write") = queLen[q]
      /\ IsRing(head[q], queLen[q], slot[q], Share(q, "read"))
  BY UsedRing
<1>2. head[q] \in Nat /\ queLen[q] \in Nat
  BY <1>1 DEF ExactInv, SlotInv, QueueInv, RingInv
<1>3. Len(Content(q)) = Share(q, "read")
  BY <1>1, <1>2, ContentRing, RingSeq DEF IsContent
<1>4. count[q][side] \in Nat /\ Awaited(q, side) \in Nat
      /\ Share(q, side) = count[q][side] + Awaited(q, side)
  BY <1>1, ShareNat DEF ExactInv, QueueInv, Share
<1>5. Contents[q] = Content(q) /\ Cardinality(Admitted[<<q, side>>]) = Awaited(q, side)
  BY <1>1 DEF Contents, Admitted, SideLists, Awaited
<1>6. Contract!Available(q, side)
        = (IF side = "read" THEN Len(Contents[q]) ELSE queLen[q] - Len(Contents[q]))
            - Cardinality(Admitted[<<q, side>>])
  BY ContractCount DEF Contract!Available, Contents, Admitted, SideLists
<1>7. CASE side = "read"
  BY <1>3, <1>4, <1>5, <1>6, <1>7
<1>8. CASE side = "write"
  BY <1>1, <1>3, <1>4, <1>5, <1>6, <1>8
<1> QED
  BY <1>7, <1>8 DEF Side


LEMMA ContractOperate ==
  ASSUME ExactInv, NEW c \in Task \cup {Isr}, NEW q \in Queue, NEW op \in Operation,
         QueueOperate(c, q, op)
  PROVE  RingExact' /\ ContractStep
<1> PICK side \in Side : side = op.side
  BY OperationSide
<1>1. /\ q \in queUsed /\ BufferOperate(q, op) /\ UNCHANGED <<queUsed, queLen>>
      /\ count[q][side] > 0
  BY DEF QueueOperate
<1>2. PICK gone \in [SideLists -> SUBSET Task] : gone = Admitted /\ Moves(q, side, gone)
  BY OperateMoves DEF ExactInv
<1>3. RingExact' /\ Contract!Transfer(q, side)
  BY <1>1, <1>2, TransferStep
<1>4. Contract!Available(q, side) > 0
  BY <1>1, AvailableCount
<1>5. Contract!LetIn(<<q, Contract!Opposite(side)>>, gone)
  BY <1>2, ContractSides DEF Moves
<1>6. gone = [w \in Queue \X Side |-> Promised(w)]
  BY <1>2 DEF Admitted, SideLists
<1>7. Contract!Operate(q, side)
  BY <1>1, <1>3, <1>4, <1>5, <1>6 DEF Contract!Operate, Contract!LetIn
<1> QED
  BY <1>3, <1>7, ContractSides DEF ContractStep, Contract!Next

LEMMA ContractGoOn ==
  ASSUME ExactInv, NEW c \in Task, QueueGoOn(c)
  PROVE  RingExact' /\ ContractStep
<1> PICK q \in Queue, side \in Side :
      /\ arg[c] = <<q, side>> /\ call[c] \in Operation /\ call[c].side = side
      /\ ~Is(c, "PEND") /\ ~Is(c, "TIMEOUT")
  BY GoOnPlace DEF ExactInv
<1>1. c \in Promised(<<q, side>>) /\ <<q, side>> \in SideLists
  BY DEF Promised, SideLists
<1>2. /\ q \in queUsed /\ BufferOperate(q, call[c]) /\ UNCHANGED <<queUsed, queLen>>
  BY <1>1 DEF QueueGoOn, ExactInv, PromiseInv
<1>3. PICK gone \in [SideLists -> SUBSET Task] :
        /\ \A w \in SideLists : gone[w] = Promised(w) \ {c}
        /\ Moves(q, side, gone)
  BY GoOnMoves DEF ExactInv
<1>4. RingExact' /\ Contract!Transfer(q, side)
  BY <1>2, <1>3, TransferStep
<1>5. Contract!LetIn(<<q, Contract!Opposite(side)>>, gone)
  BY <1>3, ContractSides DEF Moves
<1>6. gone = [Admitted EXCEPT ![<<q, side>>] = Admitted[<<q, side>>] \ {c}]
  <2>1. \A w \in SideLists : w # <<q, side>> => Promised(w) \ {c} = Promised(w)
    BY DEF Promised
  <2>2. \A w \in SideLists :
          gone[w] = [Admitted EXCEPT ![<<q, side>>] = Admitted[<<q, side>>] \ {c}][w]
    BY <1>1, <1>3, <2>1 DEF Admitted
  <2> QED
    BY <2>2 DEF Admitted
<1>7. Admitted = [w \in Queue \X Side |-> Promised(w)]
  BY DEF Admitted, SideLists
<1>8. c \in Admitted[<<q, side>>]
  BY <1>1 DEF Admitted
<1>9. Contract!GoOn(c, q, side)
  BY <1>2, <1>4, <1>5, <1>6, <1>7, <1>8 DEF Contract!GoOn, Contract!LetIn
<1> QED
  BY <1>4, <1>9, ContractSides DEF ContractStep, Contract!Next

LEMMA ContractSleep ==
  ASSUME ExactInv, NEW c \in Task, NEW q \in Queue, NEW op \in Operation,
         NEW n \in Timeouts, QueueWait(c, q, op, n)
  PROVE  RingExact' /\ ContractStep
<1> PICK side \in Side : side = op.side
  BY OperationSide
<1> PICK v \in SideLists : v = <<q, side>>
  BY DEF SideLists
<1>1. /\ q \in queUsed /\ count[q][side] = 0 /\ UNCHANGED qcb /\ pc[c] = "user"
      /\ Waits(ready, c, v, n)
  BY DEF QueueWait, Enters, Waits
<1>2. \A w \in WaitList : Promised(w)' = Promised(w)
  BY <1>1, WaitPromises DEF ExactInv, QueueInv, HoldInv
<1>3. waiting' = [waiting EXCEPT ![v] = Append(waiting[v], c)]
  BY <1>1 DEF Waits, TaskWait
<1>4. arg[c] \notin WaitList
  BY <1>1, CallOutside DEF ExactInv, HoldInv
<1>5. \A w \in SideLists : ~Contract!Linked(Sleepers[w], c) /\ c \notin Admitted[w]
  <2> SUFFICES ASSUME NEW w \in SideLists
               PROVE  ~Linked(waiting[w], c) /\ c \notin Promised(w)
    BY ContractNames DEF Sleepers, Admitted
  <2>1. w \in WaitList
    BY SidesWait
  <2> QED
    BY <1>4, <2>1, WaiterPends DEF ExactInv, QueueInv, HoldInv, Promised
<1>6. Contents' = Contents /\ RingExact' /\ Admitted' = Admitted
  <2>1. \A r \in Queue, s \in Side : Share(r, s)' = Share(r, s)
    <3> SUFFICES ASSUME NEW r \in Queue, NEW s \in Side PROVE Share(r, s)' = Share(r, s)
      OBVIOUS
    <3>1. <<r, s>> \in WaitList
      BY SidesWait DEF SideLists
    <3>2. Promised(<<r, s>>)' = Promised(<<r, s>>)
      BY <1>2, <3>1
    <3> QED
      BY <1>1, <3>2, ShareElsewhere DEF qcb
  <2>2. \A r \in Queue : Content(r)' = Content(r)
    BY <1>1, <2>1, ContentRing DEF Side, qcb
  <2>3. queUsed \subseteq Queue /\ "read" \in Side /\ "write" \in Side
    BY DEF ExactInv, QueueInv, RingInv, Side
  <2>4. RingExact'
    BY <1>1, <2>1, <2>3 DEF ExactInv, RingExact, qcb
  <2>5. Admitted' = Admitted
    BY <1>2, SidesWait DEF Admitted
  <2> QED
    BY <2>2, <2>4, <2>5 DEF Contents
<1>7. Sleepers' = [Sleepers EXCEPT ![v] = Append(Sleepers[v], c)]
  <2>1. \A w \in SideLists : w \in WaitList
    BY SidesWait
  <2> QED
    BY <1>3, <2>1 DEF Sleepers, ExactInv, QueueInv, TInv, TcbInv
<1>8. Contract!Available(q, side) = 0
  BY <1>1, AvailableCount
<1>9. Contract!Sleep(c, q, side)
  BY <1>1, <1>5, <1>6, <1>7, <1>8, ContractSides
     DEF Contract!Sleep, Contents, Sleepers, Admitted, SideLists, qcb
<1> QED
  BY <1>6, <1>9, ContractSides DEF ContractStep, Contract!Next

(* A timer ends the wait of t, which may wait for something else.          *)
LEMMA ContractExpires ==
  ASSUME ExactInv, NEW t \in Task, Expires(t), UNCHANGED qcb,
         \A w \in WaitList : Promised(w)' = Promised(w)
  PROVE  RingExact' /\ ContractStep
<1>1. \A w \in SideLists : /\ w \in WaitList /\ waiting[w] \in Seq(Task)
                           /\ waiting'[w] = Unlink(waiting[w], t)
                           /\ Promised(w)' = Promised(w)
  BY SidesWait DEF Expires, LeavesWait, ExactInv, QueueInv, TInv, TcbInv
<1>2. \A w \in SideLists : w # arg[t] => waiting'[w] = waiting[w]
  <2> SUFFICES ASSUME NEW w \in SideLists, w # arg[t] PROVE Unlink(waiting[w], t) = waiting[w]
    BY <1>1
  <2>1. ~Linked(waiting[w], t)
    BY <1>1, WaiterPends DEF ExactInv, QueueInv, HoldInv
  <2> QED
    BY <1>1, <2>1, UnlinkNone
<1>3. CASE arg[t] \notin SideLists \/ ~Linked(waiting[arg[t]], t)
  <2>1. \A w \in SideLists : waiting'[w] = waiting[w]
    <3> SUFFICES ASSUME NEW w \in SideLists PROVE waiting'[w] = waiting[w]
      OBVIOUS
    <3>1. CASE w # arg[t]
      BY <1>2, <3>1
    <3>2. CASE w = arg[t]
      BY <1>1, <1>3, <3>2, UnlinkNone
    <3> QED
      BY <3>1, <3>2
  <2> QED
    BY <1>1, <2>1, ContractStill DEF qcb
<1>4. ASSUME NEW v \in SideLists, v = arg[t], Linked(waiting[v], t)
      PROVE  RingExact' /\ ContractStep
  <2>1. \A r \in Queue, s \in Side : Share(r, s)' = Share(r, s)
    <3> SUFFICES ASSUME NEW r \in Queue, NEW s \in Side PROVE Share(r, s)' = Share(r, s)
      OBVIOUS
    <3>1. <<r, s>> \in SideLists
      BY DEF SideLists
    <3>2. Promised(<<r, s>>)' = Promised(<<r, s>>)
      BY <1>1, <3>1
    <3> QED
      BY <3>2, ShareElsewhere DEF qcb
  <2>2. \A r \in Queue : Content(r)' = Content(r)
    BY <2>1, ContentRing DEF Side, qcb
  <2>3. queUsed \subseteq Queue /\ "read" \in Side /\ "write" \in Side
    BY DEF ExactInv, QueueInv, RingInv, Side
  <2>4. RingExact'
    BY <2>1, <2>3 DEF ExactInv, RingExact, qcb
  <2>5. Admitted' = Admitted /\ Contents' = Contents
    BY <1>1, <2>2 DEF Admitted, Contents
  <2>6. Sleepers' = [Sleepers EXCEPT ![v] = Contract!Unlink(Sleepers[v], t)]
    BY <1>1, <1>2, <1>4, ContractNames DEF Sleepers
  <2>7. Contract!Linked(Sleepers[v], t)
    BY <1>4, ContractNames DEF Sleepers
  <2>8. Contract!GiveUp(t, v)
    BY <2>5, <2>6, <2>7 DEF Contract!GiveUp, Contents, Sleepers, Admitted, SideLists, qcb
  <2>9. PICK q \in Queue, side \in Side : v = <<q, side>>
    BY DEF SideLists
  <2>10. Contract!Next
    BY <2>8, <2>9, ContractSides DEF Contract!Next
  <2> QED
    BY <2>4, <2>10 DEF ContractStep
<1> QED
  BY <1>3, <1>4

(* The steps that are none of the bounded queue's.                         *)
LEMMA ContractRest ==
  ASSUME ExactInv, UNCHANGED qcb,
         \/ \E c \in Task : MailGoOn(c) \/ QueueTimedOut(c)
         \/ \E c \in Task \cup {Isr}, q \in Queue :
              \/ MailAlloc(c, q)
              \/ \E n \in Timeouts : MailWait(c, q, n)
              \/ \E b \in Block : MailFree(c, q, b)
  PROVE  RingExact' /\ ContractStep
<1> USE DEF ExactInv, QueueInv, HoldInv
<1>1. ASSUME \A w \in SideLists : waiting'[w] = waiting[w] /\ Promised(w)' = Promised(w)
      PROVE  RingExact' /\ ContractStep
  BY <1>1, ContractStill DEF qcb
<1>2. CASE UNCHANGED <<status, arg, waiting>>
  BY <1>1, <1>2, PromisedSame
<1>3. ASSUME NEW c \in Task, MailGoOn(c) \/ QueueTimedOut(c)
      PROVE  RingExact' /\ ContractStep
  <2>1. Back(c) /\ UNCHANGED waiting
    BY <1>3 DEF QueueTimedOut, MailGoOn, Back, NoUnlinking, tcb
  <2>2. ASSUME NEW w \in SideLists PROVE c \notin Promised(w) /\ w \in WaitList
    <3>1. w \in WaitList /\ w[2] # "mem"
      BY SidesWait DEF SideLists, Side
    <3>2. CASE QueueTimedOut(c)
      BY <3>1, <3>2 DEF QueueTimedOut, Promised
    <3>3. CASE MailGoOn(c)
      <4>1. arg[c] \in WaitList /\ call[c] = NoCall
        BY <3>3 DEF MailGoOn, ReturnInv
      <4>2. arg[c][2] = "mem"
        BY <4>1 DEF CallMatch
      <4> QED
        BY <3>1, <4>2 DEF Promised
    <3> QED
      BY <1>3, <3>1, <3>2, <3>3
  <2>3. ASSUME NEW w \in SideLists PROVE Promised(w)' = Promised(w)
    <3>1. Promised(w)' = Promised(w) \ {c}
      BY <2>1, <2>2, BackPromises
    <3> QED
      BY <2>2, <3>1
  <2> QED
    BY <1>1, <2>1, <2>3
<1>4. ASSUME NEW c \in Task \cup {Isr}, NEW q \in Queue, NEW n \in Timeouts,
             MailWait(c, q, n)
      PROVE  RingExact' /\ ContractStep
  <2> PICK v \in WaitList : v = <<q, "mem">>
    BY WaitLists
  <2>1. c \in Task /\ pc[c] = "user" /\ Waits(ready, c, v, n)
    BY <1>4 DEF MailWait, Waits, Enters
  <2>2. \A w \in WaitList : Promised(w)' = Promised(w)
    BY <2>1, WaitPromises
  <2>3. waiting' = [waiting EXCEPT ![v] = Append(waiting[v], c)]
    BY <2>1 DEF Waits, TaskWait
  <2>4. \A w \in SideLists : w \in WaitList /\ w # v
    BY SidesWait DEF SideLists, Side
  <2> QED
    BY <1>1, <2>2, <2>3, <2>4 DEF TInv, TcbInv
<1>5. ASSUME NEW c \in Task \cup {Isr}, NEW q \in Queue, NEW b \in Block,
             MailFree(c, q, b), q \in queUsed, waiting[<<q, "mem">>] # << >>
      PROVE  RingExact' /\ ContractStep
  <2> PICK v \in WaitList : v = <<q, "mem">>
    BY WaitLists
  <2>1. TaskWake(ready, pri, Head(waiting[v]), v) /\ UNCHANGED arg
    BY <1>5 DEF MailFree, ThenSchedule
  <2>2. PICK t \in Task :
          /\ t = Head(waiting[v])
          /\ \A w \in WaitList :
               /\ Promised(w)' = Promised(w) \cup (IF w = v THEN {t} ELSE {})
               /\ t \notin Promised(w)
    BY <1>5, <2>1, FirstPromised
  <2>3. waiting' = [waiting EXCEPT ![v] = Unlink(waiting[v], Head(waiting[v]))]
    BY <2>1 DEF TaskWake
  <2>4. \A w \in SideLists : w \in WaitList /\ w # v
    BY SidesWait DEF SideLists, Side
  <2>5. ASSUME NEW w \in SideLists PROVE Promised(w)' = Promised(w)
    <3>1. Promised(w)' = Promised(w) \cup {}
      BY <2>2, <2>4
    <3> QED
      BY <3>1
  <2> QED
    BY <1>1, <2>3, <2>4, <2>5 DEF TInv, TcbInv
<1>6. ASSUME NEW c \in Task \cup {Isr}, NEW q \in Queue, NEW b \in Block, MailFree(c, q, b)
      PROVE  RingExact' /\ ContractStep
  BY <1>2, <1>5, <1>6 DEF MailFree, vars, tcb
<1>7. ASSUME NEW c \in Task \cup {Isr}, NEW q \in Queue, MailAlloc(c, q)
      PROVE  RingExact' /\ ContractStep
  BY <1>2, <1>7 DEF MailAlloc, vars, tcb
<1> QED
  BY <1>3, <1>4, <1>6, <1>7

LEMMA ContractStepHolds ==
  ASSUME NoDeletion, ExactInv, [QueueNext]_quevars
  PROVE  RingExact' /\ ContractStep
<1>1. CASE UNCHANGED quevars
  <2>1. /\ UNCHANGED <<queLen, count, head, tail, slot>> /\ queUsed' = queUsed
        /\ UNCHANGED <<status, arg, waiting>>
    BY <1>1 DEF quevars, vars, tcb, qcb
  <2> QED
    BY <2>1, PromisedSame, ContractStill
<1>2. CASE Next /\ UNCHANGED qcb
  <2>1. /\ \A w \in WaitList : Promised(w)' = Promised(w)
        /\ waiting' = waiting \/ \E t \in Task : Expires(t)
    BY <1>2, SchedulerKeeps DEF ExactInv, QueueInv, HoldInv
  <2>2. CASE waiting' = waiting
    <3>1. /\ UNCHANGED <<queLen, count, head, tail, slot>> /\ queUsed' = queUsed
      BY <1>2 DEF qcb
    <3> QED
      BY <2>1, <2>2, <3>1, SidesWait, ContractStill
  <2> QED
    BY <1>2, <2>1, <2>2, ContractExpires
<1>3. ASSUME NEW c \in Task \cup {Isr}, NEW q \in Queue, QueueDelete(c, q)
      PROVE  RingExact' /\ ContractStep
  <2>1. /\ UNCHANGED <<queLen, count, head, tail, slot>> /\ queUsed' \subseteq queUsed
        /\ UNCHANGED <<status, arg, waiting>>
    BY <1>3 DEF QueueDelete, vars, tcb
  <2> QED
    BY <2>1, PromisedSame, ContractStill
<1>4. ASSUME NEW c \in Task \cup {Isr}, NEW q \in Queue, NEW op \in Operation,
             NEW n \in Timeouts, QueueWait(c, q, op, n)
      PROVE  RingExact' /\ ContractStep
  <2>1. c \in Task
    BY <1>4 DEF QueueWait
  <2> QED
    BY <1>4, <2>1, ContractSleep
<1>5. ASSUME NEW c \in Task \cup {Isr}, NEW q \in Queue,
             \/ MailAlloc(c, q) \/ \E n \in Timeouts : MailWait(c, q, n)
             \/ \E b \in Block : MailFree(c, q, b)
      PROVE  RingExact' /\ ContractStep
  <2>1. UNCHANGED qcb
    BY <1>5 DEF MailAlloc, MailWait, MailFree
  <2> QED
    BY <1>5, <2>1, ContractRest
<1>6. CASE QueueStep
  BY <1>3, <1>4, <1>5, <1>6, ContractMake, ContractOperate DEF QueueStep
<1>7. ASSUME NEW c \in Task, MailGoOn(c) \/ QueueTimedOut(c)
      PROVE  RingExact' /\ ContractStep
  <2>1. UNCHANGED qcb
    BY <1>7 DEF MailGoOn, QueueTimedOut
  <2> QED
    BY <1>7, <2>1, ContractRest
<1>8. CASE Returns
  BY <1>7, <1>8, ContractGoOn DEF Returns
<1> QED
  BY <1>1, <1>2, <1>6, <1>8 DEF QueueNext

LEMMA ExactInvAlways ==
  ASSUME NoDeletion
  PROVE  QueueSpec /\ MailUnlocked => []ExactInv
<1>1. QueueInit => SlotInv /\ RingExact
  <2> SUFFICES ASSUME QueueInit PROVE SlotInv /\ RingExact
    OBVIOUS
  <2>1. RingExact
    BY DEF QueueInit, RingExact
  <2>2. SlotInv
    BY QueueAssumption DEF QueueInit, SlotInv, Side
  <2> QED
    BY <2>1, <2>2
<1>2. QueueInv /\ HoldInv /\ PromiseInv /\ SlotInv /\ [QueueNext]_quevars => SlotInv'
  BY SlotInvStep
<1>3. ExactInv /\ [QueueNext]_quevars => RingExact'
  BY ContractStepHolds
<1> QED
  BY <1>1, <1>2, <1>3, MailInvAlways, PTL DEF QueueSpec, ExactInv

(* The queue is a bounded queue: messages leave in the order they were     *)
(* put at the tail, or from the head, none is lost, overwritten or copied  *)
(* twice, and what is promised to a woken task waits for it, for any       *)
(* number of tasks and handlers, lengths, timeouts and priorities.         *)
THEOREM KeepsContractHolds ==
  ASSUME NoDeletion
  PROVE  QueueSpec /\ MailUnlocked => KeepsContract
<1>1. QueueInit => Contract!Init
  <2> SUFFICES ASSUME QueueInit PROVE Contract!Init
    OBVIOUS
  <2>1. \A w \in SideLists : waiting[w] = << >> /\ Promised(w) = {}
    BY SidesWait, TaskAssumption DEF QueueInit, Init, Promised
  <2>2. ASSUME NEW q \in Queue PROVE Content(q) = << >>
    <3>1. Share(q, "read") = 0
      <4>1. <<q, "read">> \in SideLists
        BY DEF SideLists, Side
      <4>2. Awaited(q, "read") = 0
        BY <2>1, <4>1, FS_EmptySet DEF Awaited
      <4> QED
        BY <4>2 DEF QueueInit, Share, Side
    <3>2. Content(q) = Ring(head[q], queLen[q], slot[q], 0)
      BY <3>1, ContentRing
    <3> QED
      BY <3>2 DEF Ring
  <2>3. queLen = [q \in Queue |-> 0]
    BY DEF QueueInit
  <2> QED
    BY <2>1, <2>2, <2>3, ContractSides DEF Contract!Init, SideLists
<1>2. ExactInv /\ [QueueNext]_quevars => ContractStep
  BY ContractStepHolds
<1>3. ContractStep
        => [Contract!Next]_<<[q \in Queue |-> Content(q)], queLen,
                             [w \in Queue \X Side |-> waiting[w]],
                             [w \in Queue \X Side |-> Promised(w)]>>
  BY DEF ContractStep, Contents, Sleepers, Admitted, SideLists
<1> QED
  BY <1>1, <1>2, <1>3, ExactInvAlways, PTL
     DEF QueueSpec, KeepsContract, Contract!Spec, Contract!queues
=============================================================================
