----------------------------- MODULE TimerProofs -----------------------------
(***************************************************************************)
(* Theorems of the kernel's two timer lists.                               *)
(*                                                                         *)
(* The software timers, one list in order of expiry: for any number of     *)
(* timers, intervals of any length and a queue of calls of any size.       *)
(*                                                                         *)
(* The task timer wheel, a list for every slot: for any number of tasks,   *)
(* any length of the wheel and any width of the roll number.               *)
(*                                                                         *)
(* Both keep in a node the time after the node before it; the lemmas of    *)
(* KernelListsProofs on such lists serve both.                             *)
(***************************************************************************)
EXTENDS TaskSortLink, LosSwtmr, KernelListsProofs, FiniteSetTheorems

-----------------------------------------------------------------------------
(***************************************************************************)
(* The software timers.                                                    *)
(***************************************************************************)
(***************************************************************************)
(* The inductive invariant: where every control block is.  Where in the    *)
(* sorted list a timer is put does not matter here, only that it is within *)
(* the list.                                                               *)
(***************************************************************************)
BlockInv ==
  /\ state \in [Timer -> {"UNUSED", "CREATED", "TICKING"}]
  /\ mode \in [Timer -> Modes]
  /\ interval \in [Timer -> 1 .. MaxInterval]
  /\ sorted \in Seq(Timer) /\ free \in Seq(Timer)
  /\ creating \in SUBSET Timer

PlaceInv == BlockInv /\ OnOneList

LEMMA PassedType ==
  ASSUME NEW list \in Seq(Timer), NEW c, NEW n
  PROVE  Passed(list, c, n) \in 0 .. Len(list)
<1> DEFINE K == {0} \cup {k \in 1 .. Len(list) : TimeTo(list, c, k) <= n}
<1>1. Len(list) \in Nat
  BY LenProperties
<1>2. K \in SUBSET (0 .. Len(list)) /\ K # {}
  BY <1>1
<1>3. Max(K) \in 0 .. Len(list)
  BY <1>1, <1>2, GreatestExists
<1> QED
  BY <1>3 DEF Passed

(* osSwTmrStart adds the timer to the list and moves no other.             *)
LEMMA StartLinks ==
  ASSUME NEW list \in Seq(Timer), NEW c, NEW t \in Timer, Start(list, c, t)
  PROVE  /\ sorted' \in Seq(Timer)
         /\ \A u : Linked(sorted', u) <=> Linked(list, u) \/ u = t
         /\ NoRepeat(list) /\ ~Linked(list, t) => NoRepeat(sorted')
<1>1. PICK k \in 0 .. Len(list) : sorted' = InsertAt(list, k + 1, t)
  BY PassedType DEF Start
<1>2. /\ InsertAt(list, k + 1, t) \in Seq(Timer)
      /\ \A u : Linked(InsertAt(list, k + 1, t), u) <=> Linked(list, u) \/ u = t
      /\ NoRepeat(list) /\ ~Linked(list, t) => NoRepeat(InsertAt(list, k + 1, t))
  BY InsertLinks
<1> QED
  BY <1>1, <1>2

(* osSwtmrStop takes the timer off the list, once and for all.             *)
LEMMA StopLinks ==
  ASSUME BlockInv, OnOneList, NEW t \in Timer
  PROVE  /\ Unlink(sorted, t) \in Seq(Timer) /\ NoRepeat(Unlink(sorted, t))
         /\ \A u : Linked(Unlink(sorted, t), u) <=> Linked(sorted, u) /\ u # t
BY UnlinkType, UnlinkKeeps, UnlinkDrops DEF BlockInv, OnOneList

(* All the control blocks are on the first free list.                      *)
LEMMA AllFree ==
  ASSUME NEW list \in SetToSeqs(Timer)
  PROVE  /\ list \in Seq(Timer) /\ NoRepeat(list)
         /\ \A t \in Timer : Linked(list, t)
<1> DEFINE n == Cardinality(Timer)
<1>1. IsFiniteSet(Timer) /\ n \in Nat
  BY SwtmrAssumption, FS_CardinalityType
<1>2. list \in [1 .. n -> Timer] /\ \A i, j \in 1 .. n : i # j => list[i] # list[j]
  BY DEF SetToSeqs
<1>3. IsFiniteSet(1 .. n) /\ Cardinality(1 .. n) = n
  BY <1>1, FS_Interval
<1> HIDE DEF n
<1>4. list \in Injection(1 .. n, Timer)
  BY <1>2 DEF Injection, IsInjective
<1>5. list \in Surjection(1 .. n, Timer)
  BY <1>1, <1>3, <1>4, FS_Injection DEF n
<1>6. \A t \in Timer : \E i \in 1 .. n : list[i] = t
  BY <1>5 DEF Surjection
<1>7. list \in Seq(Timer)
  BY <1>1, <1>2, SeqDef
<1> QED
  BY <1>2, <1>6, <1>7 DEF NoRepeat, Linked, ToSet

LEMMA PlaceInit ==
  ASSUME SwtmrInit PROVE PlaceInv
<1>1. BlockInv
  BY AllFree, SwtmrAssumption, EmptySeq DEF SwtmrInit, BlockInv, Modes
<1>2. ~ \E t : Linked(sorted, t)
  BY DEF SwtmrInit, Linked, ToSet
<1>3. NoRepeat(sorted)
  BY DEF SwtmrInit, NoRepeat
<1>4. NoRepeat(free) /\ \A t \in Timer : Linked(free, t) /\ state[t] = "UNUSED"
  BY AllFree DEF SwtmrInit
<1>5. ToSet(free) \cap creating = {}
  BY DEF SwtmrInit
<1> QED
  BY <1>1, <1>2, <1>3, <1>4, <1>5 DEF PlaceInv, OnOneList

(* What a step must show of the lists it leaves.                           *)
LEMMA PlacesAre ==
  ASSUME BlockInv', NoRepeat(sorted'), NoRepeat(free'),
         \A t \in Timer : state'[t] = "TICKING" <=> Linked(sorted', t),
         \A t \in Timer : state'[t] = "UNUSED" <=> (Linked(free', t) \/ t \in creating'),
         \A t \in creating' : ~Linked(free', t)
  PROVE  PlaceInv'
<1>1. ToSet(free') \cap creating' = {}
  BY DEF Linked
<1> QED
  BY <1>1 DEF PlaceInv, OnOneList
-----------------------------------------------------------------------------
(***************************************************************************)
(* The steps.                                                              *)
(***************************************************************************)
LEMMA PlaceAlloc ==
  ASSUME PlaceInv, SwtmrAlloc
  PROVE  PlaceInv'
<1> USE DEF PlaceInv, BlockInv, OnOneList
<1> DEFINE x == Head(free)
<1>1. /\ free' = Tail(free) /\ creating' = creating \cup {x}
      /\ UNCHANGED <<state, mode, interval, sorted>>
  BY DEF SwtmrAlloc, cb
<1>2. /\ x \in Timer /\ Tail(free) \in Seq(Timer) /\ NoRepeat(Tail(free))
      /\ Linked(free, x)
      /\ \A t : Linked(Tail(free), t) <=> Linked(free, t) /\ t # x
  BY TailLinks, TailDrops DEF SwtmrAlloc
<1>3. \A t \in creating : ~Linked(free, t)
  BY DEF Linked
<1> HIDE DEF x
<1> QED
  BY <1>1, <1>2, <1>3, PlacesAre

LEMMA PlaceFill ==
  ASSUME PlaceInv, NEW t \in Timer, NEW n \in 1 .. MaxInterval, NEW m \in Modes,
         SwtmrFill(t, n, m)
  PROVE  PlaceInv'
<1> USE DEF PlaceInv, BlockInv, OnOneList
<1>1. /\ t \in creating /\ creating' = creating \ {t}
      /\ mode' = [mode EXCEPT ![t] = m] /\ interval' = [interval EXCEPT ![t] = n]
      /\ state' = [state EXCEPT ![t] = "CREATED"]
      /\ UNCHANGED <<sorted, free>>
  BY DEF SwtmrFill
<1>2. \A u \in creating : ~Linked(free, u)
  BY DEF Linked
<1>3. state[t] = "UNUSED" /\ ~Linked(sorted, t)
  BY <1>1
<1> QED
  BY <1>1, <1>2, <1>3, PlacesAre

(* What is left of the sorted list when a timer has been taken off it, if  *)
(* it was ticking.                                                         *)
Rest(t) == IF state[t] = "TICKING" THEN Unlink(sorted, t) ELSE sorted

LEMMA RestLinks ==
  ASSUME PlaceInv, NEW t \in Timer
  PROVE  /\ Rest(t) \in Seq(Timer) /\ NoRepeat(Rest(t))
         /\ \A u : Linked(Rest(t), u) <=> Linked(sorted, u) /\ u # t
BY StopLinks DEF PlaceInv, Rest, BlockInv, OnOneList

LEMMA PlaceStart ==
  ASSUME PlaceInv, NEW t \in Timer, SwtmrStart(t)
  PROVE  PlaceInv'
<1> USE DEF PlaceInv, BlockInv, OnOneList
<1>1. /\ \E c : Start(Rest(t), c, t)
      /\ state[t] # "UNUSED" /\ state' = [state EXCEPT ![t] = "TICKING"]
      /\ UNCHANGED <<mode, interval, free, creating>>
  BY DEF SwtmrStart, Rest
<1>2. /\ sorted' \in Seq(Timer) /\ NoRepeat(sorted')
      /\ \A u : Linked(sorted', u) <=> Linked(Rest(t), u) \/ u = t
  BY <1>1, RestLinks, StartLinks
<1>3. \A u : Linked(sorted', u) <=> Linked(sorted, u) \/ u = t
  BY <1>2, RestLinks
<1>4. \A u \in creating : ~Linked(free, u)
  BY DEF Linked
<1> QED
  BY <1>1, <1>2, <1>3, <1>4, PlacesAre

LEMMA PlaceStop ==
  ASSUME PlaceInv, NEW t \in Timer, SwtmrStop(t)
  PROVE  PlaceInv'
<1> USE DEF PlaceInv, BlockInv, OnOneList
<1>1. /\ sorted' = Rest(t) /\ state[t] = "TICKING"
      /\ state' = [state EXCEPT ![t] = "CREATED"]
      /\ UNCHANGED <<mode, interval, free, creating>>
  BY DEF SwtmrStop, Rest
<1>2. \A u \in creating : ~Linked(free, u)
  BY DEF Linked
<1> QED
  BY <1>1, <1>2, RestLinks, PlacesAre

LEMMA PlaceDelete ==
  ASSUME PlaceInv, NEW t \in Timer, SwtmrDelete(t)
  PROVE  PlaceInv'
<1> USE DEF PlaceInv, BlockInv, OnOneList
<1>1. /\ sorted' = Rest(t) /\ state[t] # "UNUSED" /\ free' = <<t>> \o free
      /\ state' = [state EXCEPT ![t] = "UNUSED"]
      /\ UNCHANGED <<mode, interval, creating>>
  BY DEF SwtmrDelete, Rest
<1>2. \A u \in creating : ~Linked(free, u)
  BY DEF Linked
<1>3. ~Linked(free, t) /\ t \notin creating
  BY <1>1
<1>4. /\ free' \in Seq(Timer) /\ NoRepeat(free')
      /\ \A u : Linked(free', u) <=> Linked(free, u) \/ u = t
  BY <1>1, <1>3, ConsLinks
<1> QED
  BY <1>1, <1>2, <1>3, <1>4, RestLinks, PlacesAre

LEMMA PlaceExpire ==
  ASSUME PlaceInv, SwtmrExpire
  PROVE  PlaceInv'
<1> USE DEF PlaceInv, BlockInv, OnOneList
<1> DEFINE x    == Head(sorted)
           rest == Tail(sorted)
<1>1. /\ x \in Timer /\ rest \in Seq(Timer) /\ NoRepeat(rest) /\ Linked(sorted, x)
      /\ \A u : Linked(rest, u) <=> Linked(sorted, u) /\ u # x
  BY TailLinks, TailDrops DEF SwtmrExpire
<1>2. UNCHANGED <<mode, interval, creating>>
  BY DEF SwtmrExpire
<1>3. \A u \in creating : ~Linked(free, u)
  BY DEF Linked
<1>4. state[x] = "TICKING" /\ ~Linked(free, x) /\ x \notin creating
  BY <1>1
<1>5. \/ /\ sorted' = rest /\ free' = <<x>> \o free
         /\ state' = [state EXCEPT ![x] = "UNUSED"]
      \/ Start(rest, cnt, x) /\ UNCHANGED <<free, state>>
      \/ sorted' = rest /\ state' = [state EXCEPT ![x] = "CREATED"] /\ UNCHANGED free
  BY DEF SwtmrExpire
<1> HIDE DEF x, rest
<1>6. CASE sorted' = rest /\ free' = <<x>> \o free /\ state' = [state EXCEPT ![x] = "UNUSED"]
  <2>1. /\ free' \in Seq(Timer) /\ NoRepeat(free')
        /\ \A u : Linked(free', u) <=> Linked(free, u) \/ u = x
    BY <1>1, <1>4, <1>6, ConsLinks
  <2> QED
    BY <1>1, <1>2, <1>3, <1>4, <1>6, <2>1, PlacesAre
<1>7. CASE Start(rest, cnt, x) /\ UNCHANGED <<free, state>>
  <2>1. /\ sorted' \in Seq(Timer) /\ NoRepeat(sorted')
        /\ \A u : Linked(sorted', u) <=> Linked(rest, u) \/ u = x
    BY <1>1, <1>7, StartLinks
  <2>2. \A u : Linked(sorted', u) <=> Linked(sorted, u)
    BY <1>1, <2>1
  <2> QED
    BY <1>2, <1>3, <1>7, <2>1, <2>2, PlacesAre
<1>8. CASE sorted' = rest /\ state' = [state EXCEPT ![x] = "CREATED"] /\ UNCHANGED free
  BY <1>1, <1>2, <1>3, <1>4, <1>8, PlacesAre
<1> QED
  BY <1>5, <1>6, <1>7, <1>8

LEMMA PlaceStep ==
  ASSUME PlaceInv, [SwtmrNext]_swtvars
  PROVE  PlaceInv'
<1>1. CASE SwtmrScanStart \/ SwtmrScanEnd \/ SwTmrTask \/ UNCHANGED swtvars
  <2>1. UNCHANGED <<state, mode, interval, lists>>
    BY <1>1 DEF SwtmrScanStart, SwtmrScanEnd, SwTmrTask, swtvars, cb
  <2> QED
    BY <2>1 DEF PlaceInv, BlockInv, OnOneList, lists
<1> QED
  BY <1>1, PlaceAlloc, PlaceFill, PlaceStart, PlaceStop, PlaceDelete, PlaceExpire
     DEF SwtmrNext

LEMMA PlaceInvAlways == SwtmrSpec => []PlaceInv
BY PlaceInit, PlaceStep, PTL DEF SwtmrSpec

(* Every control block is on one list, once, or in the hands of            *)
(* LOS_SwtmrCreate between its critical section and the filling of it:     *)
(* whatever is created, started, stopped, deleted and expired, a timer is  *)
(* never inserted twice, and osSwtmrStop finds it.                         *)
THEOREM OnOneListHolds == SwtmrSpec => []OnOneList
BY PlaceInvAlways, PTL DEF PlaceInv
-----------------------------------------------------------------------------
(***************************************************************************)
(* The list with relative counts keeps the contract.  The inductive        *)
(* invariant adds to the places of the blocks that no timer of the list is *)
(* further away than the longest interval, and that the first one is not   *)
(* due between two scans.                                                  *)
(***************************************************************************)
CountInv ==
  /\ cnt \in [Timer -> Nat]
  /\ TimeTo(sorted, cnt, Len(sorted)) <= MaxInterval
  /\ ~scan /\ sorted # << >> => cnt[Head(sorted)] > 0

TimerInv == PlaceInv /\ CountInv

(* What a list with counts stands for, as in the refinement mapping.       *)
DueOf(list, c) == [n \in 0 .. MaxInterval |-> ComingUp(list, c, n)]

Due == DueOf(sorted, cnt)

Ticks == 0 .. MaxInterval

LEMMA HorizonType == MaxInterval \in Nat /\ MaxInterval # 0 /\ 0 \in Ticks
                     /\ \A n \in Ticks : n \in Int /\ n \in Nat
BY SwtmrAssumption DEF Ticks

(* osSwTmrStart: the timer is the last of those that expire in its tick.   *)
LEMMA DueStart ==
  ASSUME NEW list \in Seq(Timer), NoRepeat(list), NEW c \in [Timer -> Nat],
         NEW t \in Timer, ~Linked(list, t), interval \in [Timer -> 1 .. MaxInterval],
         TimeTo(list, c, Len(list)) <= MaxInterval, Start(list, c, t)
  PROVE  /\ cnt' \in [Timer -> Nat]
         /\ TimeTo(sorted', cnt', Len(sorted')) <= MaxInterval
         /\ Due' = [DueOf(list, c) EXCEPT ![interval[t]] = Append(@, t)]
<1> DEFINE n == interval[t]
           k == Passed(list, c, n)
           after == [u \in Timer |-> IF u = t THEN n - TimeTo(list, c, k)
                       ELSE IF k < Len(list) /\ u = list[k + 1]
                            THEN c[u] - (n - TimeTo(list, c, k)) ELSE c[u]]
           longer == InsertAt(list, k + 1, t)
<1>1. sorted' = longer /\ cnt' = after
  BY DEF Start
<1>2. n \in 1 .. MaxInterval /\ n \in Nat /\ n <= MaxInterval /\ MaxInterval \in Nat
  BY HorizonType
<1>3. InsertedCounts(Timer, list, c, t, n, after)
  BY DEF InsertedCounts
<1> HIDE DEF n, after
<1>4. after \in [Timer -> Nat]
  BY <1>2, <1>3, InsertCountsType
<1>5. TimeTo(longer, after, Len(longer)) <= MaxInterval
  BY <1>2, <1>3, InsertedLast
<1>6. \A m \in Int : ComingUp(longer, after, m)
                       = IF m = n THEN Append(ComingUp(list, c, m), t)
                         ELSE ComingUp(list, c, m)
  <2> TAKE m \in Int
  <2> HIDE DEF k
  <2>1. k = Passed(list, c, n)
    BY DEF k
  <2> QED BY <1>2, <1>3, <2>1, InsertComingUp
<1> HIDE DEF longer, k
<1>7. \A m \in Ticks : ComingUp(longer, after, m)
                       = IF m = n THEN Append(ComingUp(list, c, m), t)
                         ELSE ComingUp(list, c, m)
  BY <1>6, HorizonType
<1>8. DueOf(longer, after) = [DueOf(list, c) EXCEPT ![n] = Append(@, t)]
  BY <1>7, <1>2 DEF DueOf, Ticks
<1>9. Due' = DueOf(longer, after)
  BY <1>1 DEF Due, DueOf
<1> QED
  BY <1>1, <1>4, <1>5, <1>8, <1>9 DEF n

(* Taking the timer at place p off the list.                               *)
LEMMA DueRemoved ==
  ASSUME NEW list \in Seq(Timer), NoRepeat(list), NEW c \in [Timer -> Nat],
         TimeTo(list, c, Len(list)) <= MaxInterval,
         NEW p \in 1 .. Len(list), NEW after, RemovedCounts(Timer, list, c, p, after)
  PROVE  /\ TimeTo(RemoveAt(list, p), after, Len(RemoveAt(list, p))) <= MaxInterval
         /\ DueOf(RemoveAt(list, p), after)
              = [n \in Ticks |-> Unlink(DueOf(list, c)[n], list[p])]
<1> DEFINE shorter == RemoveAt(list, p)
           t == list[p]
<1>1. TimeTo(shorter, after, Len(shorter)) <= TimeTo(list, c, Len(list))
  BY RemovedLast
<1>2. TimeTo(shorter, after, Len(shorter)) \in Nat /\ TimeTo(list, c, Len(list)) \in Nat
  <2>1. shorter \in Seq(Timer) /\ after \in [Timer -> Nat]
    BY RemovedInserted DEF RemovedCounts
  <2>2. Len(shorter) \in 0 .. Len(shorter) /\ Len(list) \in 0 .. Len(list)
    BY <2>1, LenProperties
  <2> QED BY <2>1, <2>2, TimeToNat
<1>3. \A n \in Int : ComingUp(shorter, after, n) = Unlink(ComingUp(list, c, n), t)
  BY RemoveComingUp
<1>4. \A n \in Ticks : ComingUp(shorter, after, n) = Unlink(DueOf(list, c)[n], t)
  BY <1>3, HorizonType DEF DueOf, Ticks
<1>5. DueOf(shorter, after) = [n \in Ticks |-> Unlink(DueOf(list, c)[n], t)]
  BY <1>4 DEF DueOf, Ticks
<1> QED
  BY <1>1, <1>2, <1>5, HorizonType

(* osSwtmrStop gives the count of the timer to the one behind it.          *)
LEMMA StoppedCounts ==
  ASSUME PlaceInv, CountInv, NEW t \in Timer, Linked(sorted, t)
  PROVE  \E p \in 1 .. Len(sorted) :
            /\ sorted[p] = t /\ Unlink(sorted, t) = RemoveAt(sorted, p)
            /\ RemovedCounts(Timer, sorted, cnt, p, Stopped(t))
<1> USE DEF PlaceInv, BlockInv, OnOneList, CountInv
<1>1. PICK p \in 1 .. Len(sorted) :
             sorted[p] = t /\ Unlink(sorted, t) = RemoveAt(sorted, p)
  BY UnlinkAt
<1>2. /\ Len(sorted) \in Nat /\ DOMAIN sorted = 1 .. Len(sorted)
  BY LenProperties
<1>3. ASSUME NEW u \in Timer
      PROVE  (\E k \in 2 .. Len(sorted) : sorted[k - 1] = t /\ sorted[k] = u)
               <=> p < Len(sorted) /\ u = sorted[p + 1]
  <2>1. ASSUME NEW k \in 2 .. Len(sorted), sorted[k - 1] = t, sorted[k] = u
        PROVE  p < Len(sorted) /\ u = sorted[p + 1]
    <3>1. k - 1 \in DOMAIN sorted /\ p \in DOMAIN sorted
      BY <1>2
    <3>2. k - 1 = p
      BY <1>1, <2>1, <3>1 DEF NoRepeat
    <3>3. k = p + 1 /\ p < Len(sorted)
      BY <1>2, <3>2
    <3> QED BY <2>1, <3>3
  <2>2. ASSUME p < Len(sorted), u = sorted[p + 1]
        PROVE  \E k \in 2 .. Len(sorted) : sorted[k - 1] = t /\ sorted[k] = u
    <3>1. p + 1 \in 2 .. Len(sorted) /\ (p + 1) - 1 = p
      BY <1>2, <2>2
    <3> QED BY <1>1, <2>2, <3>1
  <2> QED BY <2>1, <2>2
<1>4. \A u \in Timer : Stopped(t)[u] = IF p < Len(sorted) /\ u = sorted[p + 1]
                                       THEN cnt[u] + cnt[t] ELSE cnt[u]
  BY <1>3 DEF Stopped
<1>5. Stopped(t) \in [Timer -> Nat]
  <2>1. \A u \in Timer : Stopped(t)[u] \in Nat
    <3> TAKE u \in Timer
    <3>1. cnt[u] \in Nat /\ cnt[t] \in Nat
      OBVIOUS
    <3>2. Stopped(t)[u] = cnt[u] + cnt[t] \/ Stopped(t)[u] = cnt[u]
      BY DEF Stopped
    <3> QED BY <3>1, <3>2
  <2>2. Stopped(t) = [u \in Timer |-> Stopped(t)[u]]
    BY DEF Stopped
  <2> HIDE DEF Stopped
  <2> QED BY <2>1, <2>2
<1>6. RemovedCounts(Timer, sorted, cnt, p, Stopped(t))
  BY <1>1, <1>4, <1>5 DEF RemovedCounts
<1> QED
  BY <1>1, <1>6

LEMMA DueStop ==
  ASSUME PlaceInv, CountInv, NEW t \in Timer, Linked(sorted, t)
  PROVE  /\ Stopped(t) \in [Timer -> Nat]
         /\ TimeTo(Unlink(sorted, t), Stopped(t), Len(Unlink(sorted, t))) <= MaxInterval
         /\ DueOf(Unlink(sorted, t), Stopped(t)) = [n \in Ticks |-> Unlink(Due[n], t)]
<1> USE DEF PlaceInv, BlockInv, OnOneList, CountInv
<1> DEFINE shorter == Unlink(sorted, t)
           after == Stopped(t)
<1>1. PICK p \in 1 .. Len(sorted) :
            /\ sorted[p] = t /\ shorter = RemoveAt(sorted, p)
            /\ RemovedCounts(Timer, sorted, cnt, p, after)
  BY StoppedCounts
<1> HIDE DEF shorter, after
<1>2. /\ TimeTo(shorter, after, Len(shorter)) <= MaxInterval
      /\ DueOf(shorter, after) = [n \in Ticks |-> Unlink(DueOf(sorted, cnt)[n], t)]
  BY <1>1, DueRemoved
<1>3. after \in [Timer -> Nat]
  BY <1>1 DEF RemovedCounts
<1> QED
  BY <1>2, <1>3 DEF shorter, after, Due

(* A timer that is not on the list is not due.                             *)
LEMMA DueLinks ==
  ASSUME NEW list \in Seq(Timer), NEW c \in [Timer -> Nat],
         TimeTo(list, c, Len(list)) <= MaxInterval, NEW x
  PROVE  Linked(list, x) <=> \E n \in Ticks : Linked(DueOf(list, c)[n], x)
<1>1. /\ Len(list) \in Nat /\ DOMAIN list = 1 .. Len(list)
      /\ \A j \in 1 .. Len(list) : j \in 0 .. Len(list) /\ j <= Len(list)
      /\ Len(list) \in 0 .. Len(list)
  BY LenProperties
<1>2. \A j \in 1 .. Len(list) : TimeTo(list, c, j) \in Nat
                                /\ TimeTo(list, c, j) <= TimeTo(list, c, Len(list))
  BY <1>1, TimeToNat, TimeToGrows
<1>3. \A j \in 1 .. Len(list) : TimeTo(list, c, j) \in Ticks
  <2>1. TimeTo(list, c, Len(list)) \in Nat
    BY <1>1, TimeToNat
  <2> QED BY <1>2, <2>1, HorizonType DEF Ticks
<1>4. \A n \in Ticks : Linked(DueOf(list, c)[n], x)
        <=> \E j \in 1 .. Len(list) : list[j] = x /\ TimeTo(list, c, j) = n
  BY HorizonType, ComingUpLinks DEF DueOf, Ticks
<1>5. Linked(list, x) <=> \E j \in 1 .. Len(list) : list[j] = x
  BY <1>1 DEF Linked, ToSet
<1> QED
  BY <1>3, <1>4, <1>5

LEMMA DueType ==
  ASSUME NEW list \in Seq(Timer), NEW c \in [Timer -> Nat]
  PROVE  DueOf(list, c) \in [Ticks -> Seq(Timer)]
BY HorizonType, ComingUpSection DEF DueOf, Ticks

(* The head of the list is due now if its count is zero.                   *)
LEMMA DueNow ==
  ASSUME NEW list \in Seq(Timer), list # << >>, NoRepeat(list), NEW c \in [Timer -> Nat]
  PROVE  /\ c[Head(list)] > 0 => DueOf(list, c)[0] = << >>
         /\ c[Head(list)] = 0 => /\ DueOf(list, c)[0] # << >>
                                 /\ Head(DueOf(list, c)[0]) = Head(list)
<1> DEFINE up == ComingUp(list, c, 0)
<1>0. DueOf(list, c)[0] = up
  BY HorizonType DEF DueOf, Ticks
<1>1. c[Head(list)] > 0 => up = << >>
  BY NoneComingUpNow
<1>2. ASSUME c[Head(list)] = 0 PROVE up # << >> /\ Head(up) = Head(list)
  <2> DEFINE lo == Passed(list, c, 0 - 1)
             hi == Passed(list, c, 0)
  <2>1. /\ Len(list) \in Nat \ {0} /\ Head(list) = list[1] /\ 1 \in 1 .. Len(list)
    BY LenProperties, EmptySeq
  <2>2. TimeTo(list, c, 1) = 0 /\ \A j \in 1 .. Len(list) : TimeTo(list, c, j) \in Nat
    <3>1. TimeTo(list, c, 1) = TimeTo(list, c, 1 - 1) + c[list[1]] /\ TimeTo(list, c, 0) = 0
      BY <2>1, TimeToSteps
    <3>2. 1 - 1 = 0
      OBVIOUS
    <3>3. TimeTo(list, c, 1) = 0
      BY <1>2, <2>1, <3>1, <3>2
    <3> QED BY <2>1, <3>3, TimeToNat
  <2>3. Section(up, Timer, list, lo, hi)
    BY ComingUpIsSection
  <2>4. /\ lo \in 0 .. Len(list)
        /\ \A j \in 1 .. Len(list) : TimeTo(list, c, j) <= 0 - 1 <=> j <= lo
    <3>1. list \in Seq(Timer) /\ c \in [Timer -> Nat] /\ 0 - 1 \in Int
      OBVIOUS
    <3> QED BY ONLY <3>1, PassedDivides
  <2>5. /\ hi \in 0 .. Len(list)
        /\ \A j \in 1 .. Len(list) : TimeTo(list, c, j) <= 0 <=> j <= hi
    <3>1. list \in Seq(Timer) /\ c \in [Timer -> Nat] /\ 0 \in Int
      OBVIOUS
    <3> QED BY ONLY <3>1, PassedDivides
  <2> HIDE DEF lo, hi, up
  <2>6. lo = 0
    <3> SUFFICES ASSUME lo # 0 PROVE FALSE
      OBVIOUS
    <3>1. lo \in 1 .. Len(list) /\ lo <= lo
      BY <2>1, <2>4
    <3> QED BY <2>2, <2>4, <3>1
  <2>7. 1 <= hi
    BY <2>1, <2>2, <2>5
  <2>8. Len(up) = hi /\ up \in Seq(Timer) /\ up[1] = list[1]
    <3>1. 1 \in 1 .. hi - lo /\ lo + 1 = 1 /\ hi - lo = hi
      BY <2>1, <2>5, <2>6, <2>7
    <3> QED BY <2>3, <3>1 DEF Section
  <2>9. up # << >>
    BY <2>7, <2>8, EmptySeq
  <2> QED BY <2>1, <2>8, <2>9
<1> QED
  BY <1>0, <1>1, <1>2

(* The list and the counts when a timer has been stopped, if it ticked.    *)
RestCount(t) == IF state[t] = "TICKING" THEN Stopped(t) ELSE cnt

LEMMA DueWaits ==
  ASSUME TimerInv, ~scan
  PROVE  Due[0] = << >>
<1> USE DEF TimerInv, PlaceInv, BlockInv, OnOneList, CountInv
<1>1. CASE sorted = << >>
  BY <1>1, EmptyComingUp, HorizonType DEF Due, DueOf, Ticks
<1>2. CASE sorted # << >>
  BY <1>2, DueNow DEF Due
<1> QED
  BY <1>1, <1>2

LEMMA AfterStop ==
  ASSUME TimerInv, NEW t \in Timer
  PROVE  /\ Rest(t) \in Seq(Timer) /\ NoRepeat(Rest(t)) /\ ~Linked(Rest(t), t)
         /\ RestCount(t) \in [Timer -> Nat]
         /\ TimeTo(Rest(t), RestCount(t), Len(Rest(t))) <= MaxInterval
         /\ DueOf(Rest(t), RestCount(t)) = [n \in Ticks |-> Unlink(Due[n], t)]
<1> USE DEF TimerInv, PlaceInv, BlockInv, OnOneList, CountInv
<1>1. Rest(t) \in Seq(Timer) /\ NoRepeat(Rest(t)) /\ ~Linked(Rest(t), t)
  BY RestLinks
<1>2. CASE state[t] = "TICKING"
  <2>1. Linked(sorted, t) /\ Rest(t) = Unlink(sorted, t) /\ RestCount(t) = Stopped(t)
    BY <1>2 DEF Rest, RestCount
  <2> QED BY <1>1, <2>1, DueStop
<1>3. CASE state[t] # "TICKING"
  <2>1. ~Linked(sorted, t) /\ Rest(t) = sorted /\ RestCount(t) = cnt
    BY <1>3 DEF Rest, RestCount
  <2>2. Due \in [Ticks -> Seq(Timer)]
    BY DueType DEF Due
  <2>3. \A n \in Ticks : ~Linked(Due[n], t)
    BY <2>1, DueLinks DEF Due
  <2>4. \A n \in Ticks : Unlink(Due[n], t) = Due[n]
    BY <2>2, <2>3, UnlinkNone
  <2>5. Due = [n \in Ticks |-> Unlink(Due[n], t)]
    <3> HIDE DEF Due
    <3> QED BY <2>2, <2>4
  <2>6. DueOf(Rest(t), RestCount(t)) = Due
    BY <2>1 DEF Due
  <2> QED BY <1>1, <2>1, <2>5, <2>6
<1> QED
  BY <1>2, <1>3

(* The first timer is not due if no timer is.                              *)
LEMMA FirstWaits ==
  ASSUME sorted' \in Seq(Timer), NoRepeat(sorted'), cnt' \in [Timer -> Nat],
         Due'[0] = << >>, sorted' # << >>
  PROVE  cnt'[Head(sorted')] > 0
<1>1. ASSUME NEW list \in Seq(Timer), list # << >>, NoRepeat(list),
             NEW c \in [Timer -> Nat], DueOf(list, c)[0] = << >>
      PROVE  c[Head(list)] > 0
  <2>1. Head(list) \in Timer
    BY <1>1, TailLinks
  <2>2. c[Head(list)] # 0
    BY <1>1, DueNow
  <2> QED BY <2>1, <2>2
<1>2. Due' = DueOf(sorted', cnt')
  BY DEF Due, DueOf
<1> QED
  BY <1>1, <1>2
-----------------------------------------------------------------------------
(***************************************************************************)
(* The steps of the contract.                                              *)
(***************************************************************************)
Repeats == {t \in Timer : mode[t] = "PERIOD"}

SwtmrContractStep == [Contract!Next]_<<Due, scan, interval, Repeats, calls>>

(* The operators of the contract's own copy of KernelLists.                *)
LEMMA SwtmrContractOperators ==
  ASSUME NEW list, NEW x
  PROVE  /\ Contract!Linked(list, x) <=> Linked(list, x)
         /\ Contract!Unlink(list, x) = Unlink(list, x)
<1>1. Contract!Linked(list, x) <=> Linked(list, x)
  BY DEF Contract!Linked, Linked, Contract!ToSet, ToSet
<1>2. \A I : Contract!Min(I) = Min(I)
  BY DEF Contract!Min, Min
<1>3. Contract!Unlink(list, x) = Unlink(list, x)
  BY <1>2 DEF Contract!Unlink, Unlink, Contract!RemoveFirst, RemoveFirst,
     Contract!RemoveAt, RemoveAt, Contract!SelectInSeq, SelectInSeq
<1> QED
  BY <1>1, <1>3

(* The steps that leave the lists and the counts alone.                    *)
LEMMA SameDue ==
  ASSUME CountInv, UNCHANGED <<sorted, cnt>>, scan' = scan
  PROVE  CountInv' /\ Due' = Due
BY DEF CountInv, Due, DueOf

LEMMA DueAlloc ==
  ASSUME TimerInv, SwtmrAlloc
  PROVE  CountInv' /\ SwtmrContractStep
<1>1. UNCHANGED <<sorted, cnt, scan, interval, mode, calls>>
  BY DEF SwtmrAlloc, cb
<1>2. CountInv' /\ Due' = Due
  BY <1>1, SameDue DEF TimerInv
<1> QED
  BY <1>1, <1>2 DEF SwtmrContractStep, Repeats

LEMMA DueFill ==
  ASSUME TimerInv, NEW t \in Timer, NEW n \in 1 .. MaxInterval, NEW m \in Modes,
         SwtmrFill(t, n, m)
  PROVE  CountInv' /\ SwtmrContractStep
<1> USE DEF TimerInv, PlaceInv, BlockInv, OnOneList, CountInv
<1>1. /\ t \in creating /\ ~scan
      /\ mode' = [mode EXCEPT ![t] = m] /\ interval' = [interval EXCEPT ![t] = n]
      /\ cnt' = [cnt EXCEPT ![t] = 0]
      /\ UNCHANGED <<sorted, scan, calls>>
  BY DEF SwtmrFill
<1>2. ~Linked(sorted, t)
  BY <1>1
<1>3. /\ Len(sorted) \in Nat /\ DOMAIN sorted = 1 .. Len(sorted)
      /\ Len(sorted) \in 0 .. Len(sorted)
      /\ \A j \in 1 .. Len(sorted) : sorted[j] \in Timer
  BY LenProperties, ElementOfSeq
<1> DEFINE after == [cnt EXCEPT ![t] = 0]
<1>6. after \in [Timer -> Nat] /\ cnt' = after
  BY <1>1
<1>4. \A j \in 1 .. Len(sorted) : after[sorted[j]] = cnt[sorted[j]]
  BY <1>2, <1>3 DEF Linked, ToSet
<1> HIDE DEF after
<1>5. /\ \A k \in 0 .. Len(sorted) : TimeTo(sorted, after, k) = TimeTo(sorted, cnt, k)
      /\ \A i : ComingUp(sorted, after, i) = ComingUp(sorted, cnt, i)
  <2>1. SameCounts(sorted, cnt, after)
    BY <1>4 DEF SameCounts
  <2> QED BY <2>1, ComingUpSame
<1>7. Due' = Due
  BY <1>1, <1>5, <1>6 DEF Due, DueOf
<1>8. TimeTo(sorted', cnt', Len(sorted')) <= MaxInterval
  BY <1>1, <1>3, <1>5, <1>6
<1>9. sorted' # << >> => cnt'[Head(sorted')] > 0
  <2>1. sorted # << >> => Linked(sorted, Head(sorted)) /\ Head(sorted) \in Timer
    BY TailLinks
  <2> QED BY <1>1, <1>2, <2>1
<1>10. CountInv'
  BY <1>6, <1>8, <1>9
<1>11. ~ Contract!Armed(Due, t)
  <2>1. \A i \in Ticks : ~Linked(Due[i], t)
    BY <1>2, DueLinks DEF Due
  <2>2. DOMAIN Due = Ticks
    BY DEF Due, DueOf, Ticks
  <2> QED BY <2>1, <2>2, SwtmrContractOperators DEF Contract!Armed
<1> DEFINE again == (m = "PERIOD")
<1>12. Repeats' = IF again THEN Repeats \cup {t} ELSE Repeats \ {t}
  BY <1>1 DEF Repeats
<1>13. Contract!Set(t, n, again)
  BY <1>1, <1>7, <1>11, <1>12 DEF Contract!Set, Due, DueOf, Repeats
<1>14. again \in BOOLEAN
  OBVIOUS
<1> QED
  BY <1>10, <1>13, <1>14 DEF SwtmrContractStep, Contract!Next

LEMMA DueStartStep ==
  ASSUME TimerInv, PlaceInv', NEW t \in Timer, SwtmrStart(t)
  PROVE  CountInv' /\ SwtmrContractStep
<1> USE DEF TimerInv, PlaceInv, BlockInv, OnOneList, CountInv
<1> DEFINE list == Rest(t)
           c == RestCount(t)
<1>1. ~scan /\ Start(list, c, t) /\ UNCHANGED <<mode, interval, scan, calls>>
  BY DEF SwtmrStart, Rest, RestCount
<1>2. /\ list \in Seq(Timer) /\ NoRepeat(list) /\ ~Linked(list, t)
      /\ c \in [Timer -> Nat]
      /\ TimeTo(list, c, Len(list)) <= MaxInterval
      /\ DueOf(list, c) = [n \in Ticks |-> Unlink(Due[n], t)]
  BY AfterStop
<1> HIDE DEF list, c
<1>3. /\ cnt' \in [Timer -> Nat]
      /\ TimeTo(sorted', cnt', Len(sorted')) <= MaxInterval
      /\ Due' = [DueOf(list, c) EXCEPT ![interval[t]] = Append(@, t)]
  BY <1>1, <1>2, DueStart
<1>4. Due[0] = << >>
  BY <1>1, DueWaits
<1>5. interval[t] # 0 /\ interval[t] \in Ticks /\ 0 \in Ticks
  BY HorizonType DEF Ticks
<1>6. Due'[0] = << >>
  <2>1. DueOf(list, c)[0] = << >>
    BY <1>2, <1>4, <1>5, UnlinkEmpty
  <2> QED BY <1>2, <1>3, <1>5, <2>1
<1>7. sorted' # << >> => cnt'[Head(sorted')] > 0
  BY <1>3, <1>6, FirstWaits
<1>8. CountInv'
  BY <1>3, <1>7
<1>9. DOMAIN Due = Ticks
  BY DEF Due, DueOf, Ticks
<1>10. Due' = Contract!AddTimer(Contract!CancelTimer(Due, t), t, interval[t])
  <2>1. Contract!CancelTimer(Due, t) = [n \in DOMAIN Due |-> Unlink(Due[n], t)]
    BY SwtmrContractOperators DEF Contract!CancelTimer
  <2>2. Contract!CancelTimer(Due, t) = DueOf(list, c)
    BY <1>2, <1>9, <2>1
  <2> QED BY <1>3, <2>2 DEF Contract!AddTimer
<1>11. Contract!Start(t)
  BY <1>1, <1>10 DEF Contract!Start, Due, DueOf, Repeats
<1> QED
  BY <1>8, <1>11 DEF SwtmrContractStep, Contract!Next

LEMMA DueStopStep ==
  ASSUME TimerInv, PlaceInv', NEW t \in Timer, SwtmrStop(t) \/ SwtmrDelete(t)
  PROVE  CountInv' /\ SwtmrContractStep
<1> USE DEF TimerInv, PlaceInv, BlockInv, OnOneList, CountInv
<1> DEFINE list == Rest(t)
           c == RestCount(t)
<1>1. ~scan /\ sorted' = list /\ cnt' = c /\ UNCHANGED <<mode, interval, scan, calls>>
  BY DEF SwtmrStop, SwtmrDelete, Rest, RestCount
<1>2. /\ c \in [Timer -> Nat]
      /\ TimeTo(list, c, Len(list)) <= MaxInterval
      /\ DueOf(list, c) = [n \in Ticks |-> Unlink(Due[n], t)]
  BY AfterStop
<1> HIDE DEF list, c
<1>3. Due' = [n \in Ticks |-> Unlink(Due[n], t)]
  BY <1>1, <1>2 DEF Due, DueOf
<1>4. Due[0] = << >>
  BY <1>1, DueWaits
<1>5. Due'[0] = << >>
  BY <1>3, <1>4, HorizonType, UnlinkEmpty
<1>6. sorted' # << >> => cnt'[Head(sorted')] > 0
  BY <1>1, <1>2, <1>5, FirstWaits
<1>7. CountInv'
  BY <1>1, <1>2, <1>6
<1>8. DOMAIN Due = Ticks
  BY DEF Due, DueOf, Ticks
<1>9. Due' = Contract!CancelTimer(Due, t)
  <2>1. Contract!CancelTimer(Due, t) = [n \in DOMAIN Due |-> Unlink(Due[n], t)]
    BY SwtmrContractOperators DEF Contract!CancelTimer
  <2> QED BY <1>3, <1>8, <2>1
<1>10. Contract!Stop(t)
  BY <1>1, <1>9 DEF Contract!Stop, Due, DueOf, Repeats
<1> QED
  BY <1>7, <1>10 DEF SwtmrContractStep, Contract!Next

LEMMA DueScanStart ==
  ASSUME TimerInv, SwtmrScanStart
  PROVE  CountInv' /\ SwtmrContractStep
<1> USE DEF TimerInv, PlaceInv, BlockInv, OnOneList, CountInv
<1>1. /\ ~scan /\ scan' = TRUE /\ UNCHANGED <<mode, interval, sorted, calls>>
      /\ cnt' = IF sorted = << >> THEN cnt ELSE [cnt EXCEPT ![Head(sorted)] = @ - 1]
  BY DEF SwtmrScanStart, lists
<1>2. DOMAIN Due = Ticks /\ \A n \in Ticks : Due[n] = ComingUp(sorted, cnt, n)
  BY DEF Due, DueOf, Ticks
<1>3. CASE sorted = << >>
  <2>1. cnt' = cnt
    BY <1>1, <1>3
  <2>2. \A n \in Ticks : ComingUp(sorted, cnt, n) = << >>
    BY <1>3, EmptyComingUp
  <2>3. Due' = [n \in Ticks |-> ComingUp(sorted, cnt, n)]
    BY <1>1, <2>1 DEF Due, DueOf, Ticks
  <2>4. Due' = Contract!NextTick(Due)
    BY <1>2, <2>2, <2>3 DEF Contract!NextTick
  <2>5. Contract!StartTick
    BY <1>1, <2>4 DEF Contract!StartTick, Due, DueOf, Repeats
  <2>6. CountInv'
    BY <1>1, <2>1
  <2> QED
    BY <2>5, <2>6 DEF SwtmrContractStep, Contract!Next
<1>4. CASE sorted # << >>
  <2> DEFINE after == [cnt EXCEPT ![Head(sorted)] = @ - 1]
  <2>1. cnt' = after /\ cnt[Head(sorted)] > 0
    BY <1>1, <1>4
  <2>2. Ticked(sorted, cnt, after)
    BY DEF Ticked
  <2> HIDE DEF after
  <2>3. after \in [Timer -> Nat]
    BY <1>4, <2>1, <2>2, TickComingUp
  <2>4. \A j \in 1 .. Len(sorted) : TimeTo(sorted, after, j) = TimeTo(sorted, cnt, j) - 1
    BY <1>4, <2>1, <2>2, TickedTime
  <2>5. \A m \in Int : ComingUp(sorted, after, m) = ComingUp(sorted, cnt, m + 1)
    <3>1. sorted \in Seq(Timer) /\ NoRepeat(sorted) /\ cnt \in [Timer -> Nat]
      OBVIOUS
    <3> TAKE m \in Int
    <3> QED BY ONLY <1>4, <2>1, <2>2, <3>1, m \in Int, TickedComingUp
  <2>6. TimeTo(sorted, after, Len(sorted)) <= MaxInterval
    <3>1. Len(sorted) \in 1 .. Len(sorted) /\ Len(sorted) \in 0 .. Len(sorted)
      BY <1>4, LenProperties, EmptySeq
    <3>2. TimeTo(sorted, cnt, Len(sorted)) \in Nat
      BY <3>1, TimeToNat
    <3>3. TimeTo(sorted, after, Len(sorted)) = TimeTo(sorted, cnt, Len(sorted)) - 1
      BY <2>4, <3>1
    <3> QED BY <3>2, <3>3, HorizonType
  <2>7. ComingUp(sorted, cnt, MaxInterval + 1) = << >>
    <3>1. TimeTo(sorted, cnt, Len(sorted)) \in Nat
      <4>1. Len(sorted) \in 0 .. Len(sorted)
        BY LenProperties
      <4> QED BY <4>1, TimeToNat
    <3>2. MaxInterval + 1 \in Int /\ TimeTo(sorted, cnt, Len(sorted)) < MaxInterval + 1
      BY <3>1, HorizonType
    <3> QED BY <3>2, NoneComingUp
  <2>8. \A n \in Ticks : ComingUp(sorted, after, n)
                           = IF n + 1 \in Ticks THEN Due[n + 1] ELSE << >>
    <3> TAKE n \in Ticks
    <3>1. n \in Int /\ n \in Nat /\ (n + 1 \notin Ticks => n = MaxInterval)
      BY HorizonType DEF Ticks
    <3>2. ComingUp(sorted, after, n) = ComingUp(sorted, cnt, n + 1)
      BY <2>5, <3>1
    <3> QED BY <1>2, <2>7, <3>1, <3>2
  <2>9. Due' = [n \in Ticks |-> ComingUp(sorted, after, n)]
    BY <1>1, <2>1 DEF Due, DueOf, Ticks
  <2>10. Due' = Contract!NextTick(Due)
    BY <1>2, <2>8, <2>9 DEF Contract!NextTick
  <2>11. Contract!StartTick
    BY <1>1, <2>10 DEF Contract!StartTick, Due, DueOf, Repeats
  <2>12. CountInv'
    BY <1>1, <2>1, <2>3, <2>6
  <2> QED
    BY <2>11, <2>12 DEF SwtmrContractStep, Contract!Next
<1> QED
  BY <1>3, <1>4

(* The first timer, due now, taken off the list.                           *)
LEMMA DueFirst ==
  ASSUME TimerInv, sorted # << >>, cnt[Head(sorted)] = 0
  PROVE  /\ TimeTo(Tail(sorted), cnt, Len(Tail(sorted))) <= MaxInterval
         /\ DueOf(Tail(sorted), cnt) = [n \in Ticks |-> Unlink(Due[n], Head(sorted))]
<1> USE DEF TimerInv, PlaceInv, BlockInv, OnOneList, CountInv
<1> DEFINE t == Head(sorted)
           rest == Tail(sorted)
<1>1. t \in Timer /\ Linked(sorted, t) /\ Unlink(sorted, t) = rest
  BY TailLinks, UnlinkFirst
<1> HIDE DEF t, rest
<1>2. PICK p \in 1 .. Len(sorted) :
             sorted[p] = t /\ Unlink(sorted, t) = RemoveAt(sorted, p)
  BY <1>1, UnlinkAt
<1>3. RemovedCounts(Timer, sorted, cnt, p, cnt)
  <2>1. \A y \in Timer : cnt[y] \in Nat /\ cnt[y] + cnt[sorted[p]] = cnt[y]
    BY <1>2 DEF t
  <2> QED BY <2>1 DEF RemovedCounts
<1>4. /\ TimeTo(rest, cnt, Len(rest)) <= MaxInterval
      /\ DueOf(rest, cnt) = [n \in Ticks |-> Unlink(DueOf(sorted, cnt)[n], t)]
  <2>1. rest = RemoveAt(sorted, p) /\ t = sorted[p]
    BY <1>1, <1>2
  <2>2. /\ TimeTo(RemoveAt(sorted, p), cnt, Len(RemoveAt(sorted, p))) <= MaxInterval
        /\ DueOf(RemoveAt(sorted, p), cnt)
             = [n \in Ticks |-> Unlink(DueOf(sorted, cnt)[n], sorted[p])]
    <3>1. sorted \in Seq(Timer) /\ NoRepeat(sorted) /\ cnt \in [Timer -> Nat]
          /\ TimeTo(sorted, cnt, Len(sorted)) <= MaxInterval
      OBVIOUS
    <3> QED BY ONLY <1>3, <3>1, p \in 1 .. Len(sorted), DueRemoved
  <2> QED BY <2>1, <2>2
<1> QED
  BY <1>4 DEF t, rest, Due

LEMMA DueExpire ==
  ASSUME TimerInv, SwtmrExpire
  PROVE  CountInv' /\ SwtmrContractStep
<1> USE DEF TimerInv, PlaceInv, BlockInv, OnOneList, CountInv
<1> DEFINE t == Head(sorted)
           rest == Tail(sorted)
<1>1. /\ scan /\ scan' = scan /\ sorted # << >> /\ cnt[t] = 0
      /\ calls' = IF Len(calls) < QueueSize THEN Append(calls, t) ELSE calls
      /\ UNCHANGED <<mode, interval>>
  BY DEF SwtmrExpire
<1>2. \/ mode[t] # "PERIOD" /\ sorted' = rest /\ cnt' = cnt
      \/ mode[t] = "PERIOD" /\ Start(rest, cnt, t)
  BY DEF SwtmrExpire
<1>3. /\ t \in Timer /\ rest \in Seq(Timer) /\ NoRepeat(rest) /\ ~Linked(rest, t)
  BY <1>1, TailLinks, TailDrops
<1>4. /\ TimeTo(rest, cnt, Len(rest)) <= MaxInterval
      /\ DueOf(rest, cnt) = [n \in Ticks |-> Unlink(Due[n], t)]
  BY <1>1, DueFirst
<1>5. Due[0] # << >> /\ Head(Due[0]) = t
  BY <1>1, DueNow DEF Due
<1> HIDE DEF t, rest
<1>6. Contract!CancelTimer(Due, t) = DueOf(rest, cnt)
  <2>1. DOMAIN Due = Ticks
    BY DEF Due, DueOf, Ticks
  <2> QED BY <1>4, <2>1, SwtmrContractOperators DEF Contract!CancelTimer
<1>7. t \in Repeats <=> mode[t] = "PERIOD"
  BY <1>3 DEF Repeats
<1>8. CASE mode[t] # "PERIOD" /\ sorted' = rest /\ cnt' = cnt
  <2>1. Due' = DueOf(rest, cnt)
    BY <1>8 DEF Due, DueOf
  <2>2. Contract!Fire
    BY <1>1, <1>5, <1>6, <1>7, <1>8, <2>1 DEF Contract!Fire, Due, DueOf, Repeats
  <2>3. CountInv'
    BY <1>1, <1>4, <1>8
  <2> QED
    BY <2>2, <2>3 DEF SwtmrContractStep, Contract!Next
<1>9. CASE mode[t] = "PERIOD" /\ Start(rest, cnt, t)
  <2>1. /\ cnt' \in [Timer -> Nat]
        /\ TimeTo(sorted', cnt', Len(sorted')) <= MaxInterval
        /\ Due' = [DueOf(rest, cnt) EXCEPT ![interval[t]] = Append(@, t)]
    BY <1>3, <1>4, <1>9, DueStart
  <2>2. Due' = Contract!AddTimer(Contract!CancelTimer(Due, t), t, interval[t])
    BY <1>6, <2>1 DEF Contract!AddTimer
  <2>3. Contract!Fire
    BY <1>1, <1>5, <1>7, <1>9, <2>2 DEF Contract!Fire, Due, DueOf, Repeats
  <2>4. CountInv'
    BY <1>1, <2>1
  <2> QED
    BY <2>3, <2>4 DEF SwtmrContractStep, Contract!Next
<1> QED
  BY <1>2, <1>8, <1>9

LEMMA DueScanEnd ==
  ASSUME TimerInv, SwtmrScanEnd
  PROVE  CountInv' /\ SwtmrContractStep
<1> USE DEF TimerInv, PlaceInv, BlockInv, OnOneList, CountInv
<1>1. /\ scan /\ scan' = FALSE /\ (sorted # << >> => cnt[Head(sorted)] > 0)
      /\ UNCHANGED <<sorted, cnt, mode, interval, calls>>
  BY DEF SwtmrScanEnd, cb, lists
<1>2. Due' = Due
  BY <1>1 DEF Due, DueOf
<1>3. Due[0] = << >>
  <2>1. CASE sorted = << >>
    BY <2>1, EmptyComingUp, HorizonType DEF Due, DueOf, Ticks
  <2>2. CASE sorted # << >>
    BY <1>1, <2>2, DueNow DEF Due
  <2> QED BY <2>1, <2>2
<1>4. CountInv'
  BY <1>1
<1>5. Contract!EndTick
  BY <1>1, <1>2, <1>3 DEF Contract!EndTick, Due, DueOf, Repeats
<1> QED
  BY <1>4, <1>5 DEF SwtmrContractStep, Contract!Next

LEMMA DueStep ==
  ASSUME TimerInv, [SwtmrNext]_swtvars
  PROVE  TimerInv' /\ SwtmrContractStep
<1>0. PlaceInv'
  BY PlaceStep DEF TimerInv
<1>1. CASE UNCHANGED swtvars
  <2>1. UNCHANGED <<sorted, cnt, scan, interval, mode, calls>>
    BY <1>1 DEF swtvars, cb, lists
  <2>2. CountInv' /\ Due' = Due
    BY <2>1, SameDue DEF TimerInv
  <2> QED BY <1>0, <2>1, <2>2 DEF TimerInv, SwtmrContractStep, Repeats
<1>2. CASE SwTmrTask
  <2>1. ~scan /\ calls # << >> /\ calls' = Tail(calls)
        /\ UNCHANGED <<sorted, cnt, scan, interval, mode>>
    BY <1>2 DEF SwTmrTask, cb, lists
  <2>2. CountInv' /\ Due' = Due
    BY <2>1, SameDue DEF TimerInv
  <2>3. Contract!Call
    BY <2>1, <2>2 DEF Contract!Call, Due, DueOf, Repeats
  <2> QED BY <1>0, <2>2, <2>3 DEF TimerInv, SwtmrContractStep, Contract!Next
<1> QED
  BY <1>0, <1>1, <1>2, DueAlloc, DueFill, DueStartStep, DueStopStep, DueScanStart,
     DueExpire, DueScanEnd
     DEF SwtmrNext, TimerInv

LEMMA DueInit ==
  ASSUME SwtmrInit PROVE CountInv /\ Contract!Init
<1>1. /\ sorted = << >> /\ cnt = [t \in Timer |-> 0] /\ scan = FALSE /\ calls = << >>
      /\ interval = [t \in Timer |-> 1] /\ mode = [t \in Timer |-> "ONCE"]
  BY DEF SwtmrInit
<1>2. cnt \in [Timer -> Nat]
  BY <1>1
<1>3. TimeTo(sorted, cnt, Len(sorted)) = 0
  <2>1. << >> \in Seq(Timer) /\ Len(<< >>) = 0
    BY EmptySeq
  <2> QED BY <1>1, <2>1, TimeToSteps
<1>4. CountInv
  BY <1>1, <1>2, <1>3, HorizonType DEF CountInv
<1>5. Due = [n \in 0 .. MaxInterval |-> << >>]
  BY <1>1, EmptyComingUp DEF Due, DueOf
<1>6. interval \in [Timer -> 1 .. MaxInterval] /\ Repeats \in SUBSET Timer
  BY <1>1, HorizonType DEF Repeats
<1> QED
  BY <1>1, <1>4, <1>5, <1>6 DEF Contract!Init, Due, DueOf, Repeats

(* The list with relative counts keeps every timer's time.                 *)
THEOREM KeepsContractHolds == SwtmrSpec => KeepsContract
<1>1. SwtmrInit => TimerInv /\ Contract!Init
  BY PlaceInit, DueInit DEF TimerInv
<1>2. TimerInv /\ [SwtmrNext]_swtvars => TimerInv' /\ SwtmrContractStep
  BY DueStep
<1>3. SwtmrContractStep <=> [Contract!Next]_(Contract!timers)
  BY DEF SwtmrContractStep, Contract!timers, Due, DueOf, Repeats
<1> QED
  BY <1>1, <1>2, <1>3, PTL DEF SwtmrSpec, KeepsContract, Contract!Spec
-----------------------------------------------------------------------------
(***************************************************************************)
(* The task timer wheel.                                                   *)
(***************************************************************************)
(***************************************************************************)
(* Arithmetic of the wheel.                                                *)
(***************************************************************************)
LEMMA DivMod ==
  ASSUME NEW w \in Nat \ {0}, NEW n \in Int
  PROVE  n \div w \in Int /\ n % w \in 0 .. w - 1 /\ n = w * (n \div w) + (n % w)
OBVIOUS

LEMMA DivModIs ==
  ASSUME NEW w \in Nat \ {0}, NEW n \in Int, NEW q \in Int, NEW r \in 0 .. w - 1,
         n = w * q + r
  PROVE  n \div w = q /\ n % w = r
<1>1. /\ n \div w \in Int /\ n % w \in 0 .. w - 1 /\ n = w * (n \div w) + (n % w)
  BY DivMod
<1> DEFINE a == n \div w
           b == n % w
<1>2. a \in Int /\ b \in 0 .. w - 1 /\ w * (a - q) = r - b
  BY <1>1
<1> HIDE DEF a, b
<1>3. a - q = 0
  <2>1. a - q >= 1 => w * (a - q) >= w
    BY <1>2
  <2>2. a - q <= -1 => w * (a - q) <= -w
    BY <1>2
  <2>3. r - b < w /\ r - b > -w
    BY <1>2
  <2> QED BY <1>2, <2>1, <2>2, <2>3
<1>4. a = q
  BY <1>2, <1>3
<1>5. b = r
  BY <1>2, <1>4
<1> QED
  BY <1>4, <1>5 DEF a, b

LEMMA ModAdd ==
  ASSUME NEW w \in Nat \ {0}, NEW n \in Int, NEW c \in Int
  PROVE  ((n % w) + c) % w = (n + c) % w
<1> DEFINE a == n \div w
           b == n % w
           q == (b + c) \div w
           r == (b + c) % w
<1>1. a \in Int /\ b \in 0 .. w - 1 /\ n = w * a + b
  BY DivMod
<1> HIDE DEF a, b
<1>2. b + c \in Int
  BY <1>1
<1>3. q \in Int /\ r \in 0 .. w - 1 /\ b + c = w * q + r
  BY <1>2, DivMod
<1> HIDE DEF q, r
<1>4. n + c = w * (a + q) + r
  <2>1. w * (a + q) = w * a + w * q
    BY <1>1, <1>3
  <2> QED BY <1>1, <1>3, <2>1
<1>5. (n + c) % w = r
  <2>1. n + c \in Int /\ a + q \in Int
    BY <1>1, <1>3
  <2> QED BY <1>3, <1>4, <2>1, DivModIs
<1> QED
  BY <1>5 DEF r, b

LEMMA ModCancel ==
  ASSUME NEW w \in Nat \ {0}, NEW n \in Int, NEW m \in Int, NEW c \in Int,
         (n + c) % w = (m + c) % w
  PROVE  n % w = m % w
<1>1. n + c \in Int /\ m + c \in Int /\ -c \in Int
  OBVIOUS
<1>2. /\ (((n + c) % w) + (-c)) % w = ((n + c) + (-c)) % w
      /\ (((m + c) % w) + (-c)) % w = ((m + c) + (-c)) % w
  BY <1>1, ModAdd
<1>3. (n + c) + (-c) = n /\ (m + c) + (-c) = m
  OBVIOUS
<1> QED
  BY <1>2, <1>3

LEMMA ModNext ==
  ASSUME NEW w \in Nat \ {0}, NEW n \in Int
  PROVE  n \div w = ((n + 1) \div w) - (IF (n + 1) % w = 0 THEN 1 ELSE 0)
<1> DEFINE a == n \div w
           b == n % w
<1>1. a \in Int /\ b \in 0 .. w - 1 /\ n = w * a + b
  BY DivMod
<1> HIDE DEF a, b
<1>2. CASE b = w - 1
  <2>1. n + 1 = w * (a + 1) + 0 /\ a + 1 \in Int /\ 0 \in 0 .. w - 1 /\ n + 1 \in Int
    BY <1>1, <1>2
  <2>2. (n + 1) \div w = a + 1 /\ (n + 1) % w = 0
    BY <2>1, DivModIs
  <2> QED BY <1>1, <2>2 DEF a
<1>3. CASE b # w - 1
  <2>1. n + 1 = w * a + (b + 1) /\ b + 1 \in 0 .. w - 1 /\ n + 1 \in Int
    BY <1>1, <1>3
  <2>2. (n + 1) \div w = a /\ (n + 1) % w = b + 1
    BY <1>1, <2>1, DivModIs
  <2>3. (n + 1) % w # 0
    BY <1>1, <2>2
  <2> QED BY <1>1, <2>2, <2>3 DEF a
<1> QED
  BY <1>2, <1>3

LEMMA ModSmall ==
  ASSUME NEW w \in Nat \ {0}, NEW n \in 0 .. w - 1
  PROVE  n % w = n /\ n \div w = 0
<1>1. n = w * 0 + n
  OBVIOUS
<1> QED
  BY <1>1, DivModIs

(***************************************************************************)
(* The wheel read as a calendar: what stands where.                        *)
(***************************************************************************)
Turn(n, under) == (n \div WheelLen) - (IF n % WheelLen = 0 /\ ~under THEN 1 ELSE 0)

LEMMA PlaceIsTime ==
  ASSUME NEW c \in Slots, NEW under, NEW n \in Int, NEW m \in Int,
         (n + c) % WheelLen = (m + c) % WheelLen, Turn(n, under) = Turn(m, under)
  PROVE  n = m
<1>1. WheelLen \in Nat \ {0} /\ c \in Int
  BY WheelAssumption DEF Slots
<1>2. n % WheelLen = m % WheelLen
  BY <1>1, ModCancel
<1>3. /\ n \div WheelLen \in Int /\ m \div WheelLen \in Int
      /\ n = WheelLen * (n \div WheelLen) + (n % WheelLen)
      /\ m = WheelLen * (m \div WheelLen) + (m % WheelLen)
  BY <1>1, DivMod
<1>4. n \div WheelLen = m \div WheelLen
  BY <1>2, <1>3 DEF Turn
<1> QED
  BY <1>2, <1>3, <1>4

(* Every place within the limit is a time of the calendar.                 *)
LEMMA PlaceHasTime ==
  ASSUME NEW c \in Slots, NEW under \in BOOLEAN, NEW s \in Slots, NEW m \in Nat,
         m <= Rolls - 1 - (IF s = c /\ ~under THEN 1 ELSE 0)
  PROVE  \E n \in 0 .. MaxTimeout : (n + c) % WheelLen = s /\ Turn(n, under) = m
<1> DEFINE w == WheelLen
           k == (s - c) % w
           e == IF k = 0 /\ ~under THEN 1 ELSE 0
           n == w * (m + e) + k
<1>1. w \in Nat \ {0} /\ Rolls \in Nat \ {0} /\ c \in Int /\ s \in Int /\ s \in 0 .. w - 1
      /\ c \in 0 .. w - 1
  BY WheelAssumption DEF Slots
<1> HIDE DEF w
<1>2. s - c \in Int /\ (s - c) + c = s
  BY <1>1
<1>3. k \in 0 .. w - 1
  BY <1>1, <1>2, DivMod
<1>4. (k + c) % w = s
  <2>1. (k + c) % w = ((s - c) + c) % w
    BY <1>1, <1>2, ModAdd
  <2> QED BY <1>1, <1>2, <2>1, ModSmall
<1>5. k = 0 <=> s = c
  <2>1. k = 0 => s = c
    <3>1. (0 + c) % w = c
      BY <1>1, ModSmall
    <3> QED BY <1>4, <3>1
  <2>2. s = c => k = 0
    <3>1. s = c => s - c = 0
      BY <1>1
    <3> QED BY <1>1, <3>1, ModSmall
  <2> QED BY <2>1, <2>2
<1>6. e \in {0, 1} /\ m + e <= Rolls - 1
  BY <1>1, <1>5
<1>7. e = IF k = 0 /\ ~under THEN 1 ELSE 0
  OBVIOUS
<1> HIDE DEF k, e
<1>8. n \in Int /\ m + e \in Int /\ m + e \in Nat
  BY <1>1, <1>3, <1>6
<1>9. n \div w = m + e /\ n % w = k
  BY <1>1, <1>3, <1>8, DivModIs
<1>10. (n + c) % w = s
  <2>1. ((n % w) + c) % w = (n + c) % w
    BY <1>1, <1>8, ModAdd
  <2> QED BY <1>4, <1>9, <2>1
<1>11. n \in 0 .. MaxTimeout
  <2>1. w * (m + e) <= w * (Rolls - 1) /\ w * (m + e) \in Nat
    BY <1>1, <1>6, <1>8
  <2>2. w * (Rolls - 1) = w * Rolls - w
    BY <1>1
  <2>3. w * Rolls \in Nat
    BY <1>1
  <2>4. n >= 0 /\ n <= w * Rolls - 1
    BY <1>1, <1>3, <2>1, <2>2, <2>3
  <2> QED BY <1>8, <2>3, <2>4 DEF MaxTimeout, w
<1>12. Turn(n, under) = m
  BY <1>6, <1>7, <1>9 DEF Turn, w
<1> QED
  BY <1>10, <1>11, <1>12 DEF w
-----------------------------------------------------------------------------
(***************************************************************************)
(* The inductive invariant of the wheel: a task is on one list at most,    *)
(* once, the one its index says; and no list stands for a time beyond the  *)
(* longest timeout.                                                        *)
(***************************************************************************)
LinkLimit(s) == Rolls - 1 - (IF s = cursor /\ ~scanning THEN 1 ELSE 0)

WheelInv ==
  /\ cursor \in Slots /\ scanning \in BOOLEAN
  /\ link \in [Slots -> Seq(Client)] /\ roll \in [Client -> Nat]
  /\ index \in [Client -> Slots]
  /\ \A s \in Slots : NoRepeat(link[s])
  /\ \A s \in Slots, x \in Client : Linked(link[s], x) => index[x] = s
  /\ \A s \in Slots, m \in Int :
       m > LinkLimit(s) => ComingUp(link[s], roll, m) = << >>

Times == 0 .. MaxTimeout

LEMMA WheelNumbers ==
  /\ WheelLen \in Nat \ {0} /\ Rolls \in Nat \ {0} /\ MaxTimeout \in Nat
  /\ \A n \in Times : n \in Nat /\ n \in Int
  /\ \A s \in Slots : s \in Int /\ s \in 0 .. WheelLen - 1
<1>1. WheelLen \in Nat \ {0} /\ Rolls \in Nat \ {0}
  BY WheelAssumption
<1>2. WheelLen * Rolls \in Nat /\ WheelLen * Rolls >= 1
  BY <1>1
<1>3. MaxTimeout \in Nat
  BY <1>2 DEF MaxTimeout
<1> QED
  BY <1>1, <1>3 DEF Times, Slots

LEMMA TimePlace ==
  ASSUME cursor \in Slots, NEW n \in Int
  PROVE  SlotOf(n) \in Slots /\ TurnsOf(n) \in Int /\ TurnsOf(n) = Turn(n, scanning)
<1>1. WheelLen \in Nat \ {0} /\ cursor \in Int /\ n + cursor \in Int
  BY WheelNumbers
<1>2. (n + cursor) % WheelLen \in 0 .. WheelLen - 1 /\ n \div WheelLen \in Int
  BY <1>1, DivMod
<1> QED
  BY <1>2 DEF SlotOf, TurnsOf, Turn, Slots

LEMMA DueIs ==
  /\ DOMAIN WheelDue = Times
  /\ \A n \in Times : WheelDue[n] = ComingUp(link[SlotOf(n)], roll, TurnsOf(n))
BY DEF WheelDue, DueAt, Times

(* A task is on the wheel if it is in the calendar.                        *)
LEMMA OnWheelDue ==
  ASSUME WheelInv, NEW x \in Client
  PROVE  /\ OnWheel(x) <=> \E n \in Times : Linked(WheelDue[n], x)
         /\ \A s \in Slots : Linked(link[s], x) => OnWheel(x)
<1> USE DEF WheelInv
<1>1. ASSUME OnWheel(x) PROVE \E n \in Times : Linked(WheelDue[n], x)
  <2> DEFINE s == index[x]
             list == link[s]
  <2>1. s \in Slots /\ list \in Seq(Client) /\ Linked(list, x)
    BY <1>1 DEF OnWheel
  <2>2. DOMAIN list = 1 .. Len(list) /\ Len(list) \in Nat
    BY <2>1, LenProperties
  <2>3. PICK j \in 1 .. Len(list) : list[j] = x
    BY <2>1, <2>2 DEF Linked, ToSet
  <2> DEFINE m == TimeTo(list, roll, j)
  <2>4. m \in Nat
    <3>1. j \in 0 .. Len(list)
      BY <2>2
    <3> QED BY <2>1, <3>1, TimeToNat
  <2> HIDE DEF s
  <2>5. Linked(ComingUp(list, roll, m), x)
    BY <2>1, <2>3, <2>4, ComingUpLinks
  <2>6. ComingUp(list, roll, m) # << >>
    BY <2>5 DEF Linked, ToSet
  <2> HIDE DEF m
  <2>7. m \in Int /\ ~ (m > LinkLimit(s))
    BY <2>1, <2>4, <2>6
  <2>8. m <= Rolls - 1 - (IF s = cursor /\ ~scanning THEN 1 ELSE 0)
    BY <2>4, <2>7, WheelNumbers DEF LinkLimit
  <2>9. PICK n \in Times : (n + cursor) % WheelLen = s /\ Turn(n, scanning) = m
    BY <2>1, <2>4, <2>8, PlaceHasTime DEF Times
  <2>10. WheelDue[n] = ComingUp(link[SlotOf(n)], roll, TurnsOf(n))
    BY DueIs
  <2>11. SlotOf(n) = s /\ TurnsOf(n) = m
    BY <2>9, TimePlace, WheelNumbers DEF SlotOf
  <2> QED
    BY <2>5, <2>10, <2>11
<1>2. ASSUME NEW s \in Slots, Linked(link[s], x) PROVE OnWheel(x)
  BY <1>2 DEF OnWheel
<1>3. ASSUME NEW n \in Times, Linked(WheelDue[n], x) PROVE OnWheel(x)
  <2> DEFINE s == SlotOf(n)
             m == TurnsOf(n)
  <2>1. s \in Slots /\ m \in Int
    BY TimePlace, WheelNumbers
  <2>2. WheelDue[n] = ComingUp(link[s], roll, m)
    BY DueIs
  <2> HIDE DEF s, m
  <2>3. link[s] \in Seq(Client)
    BY <2>1
  <2>4. \E j \in 1 .. Len(link[s]) : link[s][j] = x
    <3>1. roll \in [Client -> Nat]
      OBVIOUS
    <3>2. Linked(ComingUp(link[s], roll, m), x)
      BY <1>3, <2>2
    <3> QED BY ONLY <2>1, <2>3, <3>1, <3>2, ComingUpLinks
  <2>5. Linked(link[s], x)
    BY <2>3, <2>4, LenProperties DEF Linked, ToSet
  <2> QED
    BY <1>2, <2>1, <2>5
<1> QED
  BY <1>1, <1>2, <1>3

(* What stands in every place after a task has been put on a list.         *)
AddedLink(x, s, m) ==
  [link EXCEPT ![s] = InsertAt(@, Passed(link[s], roll, m) + 1, x)]

AddedRoll(x, s, m) ==
  LET list == link[s]
      past == Passed(list, roll, m)
      own  == m - Turns(list, past)
  IN  [y \in Client |-> IF y = x THEN own
                        ELSE IF past < Len(list) /\ y = list[past + 1] THEN roll[y] - own
                        ELSE roll[y]]

LEMMA AddedCounts ==
  ASSUME WheelInv, NEW x \in Client, ~OnWheel(x), NEW s \in Slots, NEW m \in Nat
  PROVE  /\ InsertedCounts(Client, link[s], roll, x, m, AddedRoll(x, s, m))
         /\ AddedRoll(x, s, m) \in [Client -> Nat]
         /\ link[s] \in Seq(Client) /\ NoRepeat(link[s]) /\ ~Linked(link[s], x)
<1>1. /\ link[s] \in Seq(Client) /\ NoRepeat(link[s]) /\ ~Linked(link[s], x)
      /\ roll \in [Client -> Nat]
  BY DEF WheelInv, OnWheel
<1>2. InsertedCounts(Client, link[s], roll, x, m, AddedRoll(x, s, m))
  BY DEF InsertedCounts, AddedRoll, Turns
<1>3. AddedRoll(x, s, m) \in [Client -> Nat]
  BY ONLY <1>1, <1>2, x \in Client, m \in Nat, InsertCountsType
<1> QED
  BY <1>1, <1>2, <1>3

LEMMA AddedElsewhere ==
  ASSUME WheelInv, NEW x \in Client, ~OnWheel(x), NEW s \in Slots, NEW m \in Nat,
         NEW z \in Slots, z # s
  PROVE  SameCounts(link[z], roll, AddedRoll(x, s, m))
<1>1. /\ link[z] \in Seq(Client) /\ link[s] \in Seq(Client) /\ roll \in [Client -> Nat]
      /\ ~Linked(link[z], x)
      /\ \A y \in Client : Linked(link[z], y) => index[y] = z
      /\ \A y \in Client : Linked(link[s], y) => index[y] = s
  BY OnWheelDue DEF WheelInv, OnWheel
<1> DEFINE k == Passed(link[s], roll, m)
<1>2. k \in 0 .. Len(link[s])
  BY <1>1, PassedDivides
<1> SUFFICES ASSUME NEW j \in 1 .. Len(link[z])
             PROVE  AddedRoll(x, s, m)[link[z][j]] = roll[link[z][j]]
  BY DEF SameCounts
<1> DEFINE y == link[z][j]
<1>3. y \in Client /\ Linked(link[z], y)
  BY <1>1, LenProperties DEF Linked, ToSet
<1>4. y # x
  BY <1>1, <1>3
<1>5. ~ (k < Len(link[s]) /\ y = link[s][k + 1])
  <2> SUFFICES ASSUME k < Len(link[s]), y = link[s][k + 1] PROVE FALSE
    OBVIOUS
  <2>1. k + 1 \in DOMAIN link[s]
    BY <1>1, <1>2, LenProperties
  <2>2. Linked(link[s], y)
    BY <2>1 DEF Linked, ToSet
  <2> QED BY <1>1, <1>3, <2>2
<1> QED
  BY <1>3, <1>4, <1>5 DEF AddedRoll

LEMMA AddedComingUp ==
  ASSUME WheelInv, NEW x \in Client, ~OnWheel(x), NEW s \in Slots, NEW m \in Nat,
         NEW z \in Slots, NEW i \in Int
  PROVE  ComingUp(AddedLink(x, s, m)[z], AddedRoll(x, s, m), i)
           = IF z = s /\ i = m THEN Append(ComingUp(link[z], roll, i), x)
             ELSE ComingUp(link[z], roll, i)
<1>1. link \in [Slots -> Seq(Client)] /\ roll \in [Client -> Nat]
  BY DEF WheelInv
<1>2. CASE z = s
  <2> DEFINE after == AddedRoll(x, s, m)
             list == link[s]
             k == Passed(list, roll, m)
  <2>1. /\ InsertedCounts(Client, list, roll, x, m, after)
        /\ list \in Seq(Client) /\ NoRepeat(list) /\ ~Linked(list, x)
    BY AddedCounts
  <2>2. AddedLink(x, s, m)[z] = InsertAt(list, k + 1, x)
    BY <1>1, <1>2 DEF AddedLink
  <2>3. ComingUp(InsertAt(list, k + 1, x), after, i)
           = IF i = m THEN Append(ComingUp(list, roll, i), x) ELSE ComingUp(list, roll, i)
    <3> HIDE DEF after, list
    <3> QED BY ONLY <1>1, <2>1, x \in Client, m \in Nat, i \in Int, InsertComingUp
  <2> QED BY <1>2, <2>2, <2>3
<1>3. CASE z # s
  <2>1. AddedLink(x, s, m)[z] = link[z] /\ link[z] \in Seq(Client)
    BY <1>1, <1>3 DEF AddedLink
  <2>2. SameCounts(link[z], roll, AddedRoll(x, s, m))
    BY <1>3, AddedElsewhere
  <2>3. ComingUp(link[z], AddedRoll(x, s, m), i) = ComingUp(link[z], roll, i)
    BY ONLY <1>1, <2>1, <2>2, ComingUpSame
  <2> QED BY <1>3, <2>1, <2>3
<1> QED
  BY <1>2, <1>3

(* What stands there after a task has been taken off its list.             *)
RemovedLink(x) == [link EXCEPT ![index[x]] = Unlink(@, x)]

RemovedRoll(x) ==
  LET list == link[index[x]]
      pos  == CHOOSE j \in DOMAIN list : list[j] = x
  IN  IF pos < Len(list) THEN [roll EXCEPT ![list[pos + 1]] = @ + roll[x]] ELSE roll

LEMMA RemovedPlace ==
  ASSUME WheelInv, NEW x \in Client, OnWheel(x)
  PROVE  \E p \in 1 .. Len(link[index[x]]) :
           /\ link[index[x]][p] = x
           /\ Unlink(link[index[x]], x) = RemoveAt(link[index[x]], p)
           /\ RemovedCounts(Client, link[index[x]], roll, p, RemovedRoll(x))
<1> DEFINE list == link[index[x]]
           pos == CHOOSE j \in DOMAIN list : list[j] = x
<1>1. list \in Seq(Client) /\ roll \in [Client -> Nat] /\ NoRepeat(list) /\ Linked(list, x)
  BY DEF WheelInv, OnWheel
<1>2. DOMAIN list = 1 .. Len(list) /\ Len(list) \in Nat
  BY <1>1, LenProperties
<1>3. PICK p \in 1 .. Len(list) : list[p] = x /\ Unlink(list, x) = RemoveAt(list, p)
  BY <1>1, UnlinkAt
<1>4. pos = p
  <2>1. pos \in DOMAIN list /\ list[pos] = x
    BY <1>2, <1>3
  <2> QED BY <1>1, <1>2, <1>3, <2>1 DEF NoRepeat
<1>5. p < Len(list) => list[p + 1] \in Client
  BY <1>1, <1>2
<1>6. RemovedRoll(x) = IF p < Len(list) THEN [roll EXCEPT ![list[p + 1]] = @ + roll[x]]
                       ELSE roll
  <2>1. RemovedRoll(x) = IF pos < Len(list)
                         THEN [roll EXCEPT ![list[pos + 1]] = @ + roll[x]] ELSE roll
    BY Zenon DEF RemovedRoll
  <2> HIDE DEF pos, list
  <2> QED BY <1>4, <2>1
<1>7. RemovedCounts(Client, list, roll, p, RemovedRoll(x))
  <2>1. CASE p < Len(list)
    <3>1. RemovedRoll(x) = [roll EXCEPT ![list[p + 1]] = roll[list[p + 1]] + roll[x]]
      BY <1>6, <2>1
    <3>2. roll[list[p + 1]] + roll[x] \in Nat
      BY <1>1, <1>5, <2>1
    <3> QED BY <1>1, <1>3, <1>5, <2>1, <3>1, <3>2 DEF RemovedCounts
  <2>2. CASE ~ (p < Len(list))
    BY <1>1, <1>6, <2>2 DEF RemovedCounts
  <2> QED BY <2>1, <2>2
<1> QED
  BY <1>3, <1>7

LEMMA RemovedComingUp ==
  ASSUME WheelInv, NEW x \in Client, OnWheel(x), NEW z \in Slots, NEW i \in Int
  PROVE  ComingUp(RemovedLink(x)[z], RemovedRoll(x), i) = Unlink(ComingUp(link[z], roll, i), x)
<1>1. /\ link \in [Slots -> Seq(Client)] /\ roll \in [Client -> Nat] /\ index[x] \in Slots
      /\ \A t \in Slots : NoRepeat(link[t])
      /\ \A t \in Slots, y \in Client : Linked(link[t], y) => index[y] = t
  BY DEF WheelInv
<1> DEFINE list == link[index[x]]
           after == RemovedRoll(x)
<1>2. PICK p \in 1 .. Len(list) :
            /\ list[p] = x /\ Unlink(list, x) = RemoveAt(list, p)
            /\ RemovedCounts(Client, list, roll, p, after)
  BY RemovedPlace
<1>3. list \in Seq(Client) /\ NoRepeat(list)
  BY <1>1
<1> HIDE DEF after
<1>4. CASE z = index[x]
  <2>1. RemovedLink(x)[z] = RemoveAt(list, p)
    BY <1>1, <1>2, <1>4 DEF RemovedLink
  <2>2. ComingUp(RemoveAt(list, p), after, i) = Unlink(ComingUp(list, roll, i), list[p])
    <3>1. roll \in [Client -> Nat] /\ RemovedCounts(Client, list, roll, p, after)
      BY <1>1, <1>2
    <3> HIDE DEF list
    <3> QED BY ONLY <1>3, <3>1, i \in Int, p \in 1 .. Len(list), RemoveComingUp
  <2> QED BY <1>2, <1>4, <2>1, <2>2 DEF after
<1>5. CASE z # index[x]
  <2>1. RemovedLink(x)[z] = link[z] /\ link[z] \in Seq(Client)
    BY <1>1, <1>5 DEF RemovedLink
  <2>2. \A j \in 1 .. Len(link[z]) : link[z][j] \in Client /\ Linked(link[z], link[z][j])
    BY <2>1, LenProperties DEF Linked, ToSet
  <2>3. \A j \in 1 .. Len(list) : Linked(list, list[j]) /\ list[j] \in Client
    BY <1>3, LenProperties DEF Linked, ToSet
  <2>4. SameCounts(link[z], roll, after)
    <3> SUFFICES ASSUME NEW j \in 1 .. Len(link[z])
                 PROVE  after[link[z][j]] = roll[link[z][j]]
      BY DEF SameCounts
    <3>1. link[z][j] \in Client /\ index[link[z][j]] = z
      BY <1>1, <2>2
    <3>2. ~ (p < Len(list) /\ link[z][j] = list[p + 1])
      <4> SUFFICES ASSUME p < Len(list), link[z][j] = list[p + 1] PROVE FALSE
        OBVIOUS
      <4>1. p + 1 \in 1 .. Len(list)
        BY <1>3, LenProperties
      <4>2. index[list[p + 1]] = index[x]
        BY <1>1, <2>3, <4>1
      <4> QED BY <1>5, <3>1, <4>2
    <3> QED BY <1>2, <3>1, <3>2 DEF RemovedCounts
  <2>5. ComingUp(link[z], after, i) = ComingUp(link[z], roll, i)
    <3>1. roll \in [Client -> Nat]
      BY <1>1
    <3> QED BY ONLY <2>1, <2>4, <3>1, ComingUpSame
  <2>6. ~Linked(ComingUp(link[z], roll, i), x)
    <3> SUFFICES ASSUME Linked(ComingUp(link[z], roll, i), x) PROVE FALSE
      OBVIOUS
    <3>1. \E j \in 1 .. Len(link[z]) : link[z][j] = x
      BY ONLY <1>1, <2>1, Linked(ComingUp(link[z], roll, i), x), i \in Int, ComingUpLinks
    <3>2. Linked(link[z], x)
      BY <2>2, <3>1
    <3> QED BY <1>1, <1>5, <3>2
  <2>7. ComingUp(link[z], roll, i) \in Seq(Client)
    BY ONLY <1>1, <2>1, i \in Int, ComingUpSection
  <2>8. Unlink(ComingUp(link[z], roll, i), x) = ComingUp(link[z], roll, i)
    BY <2>6, <2>7, UnlinkNone
  <2> QED BY <2>1, <2>5, <2>8 DEF after
<1> QED
  BY <1>4, <1>5
-----------------------------------------------------------------------------
(***************************************************************************)
(* The steps of the wheel as steps of the calendar.                        *)
(***************************************************************************)
LEMMA CalendarOperators ==
  ASSUME NEW list, NEW x
  PROVE  /\ Calendar!Linked(list, x) <=> Linked(list, x)
         /\ Calendar!Unlink(list, x) = Unlink(list, x)
<1>1. Calendar!Linked(list, x) <=> Linked(list, x)
  BY DEF Calendar!Linked, Linked, Calendar!ToSet, ToSet
<1>2. \A I : Calendar!Min(I) = Min(I)
  BY DEF Calendar!Min, Min
<1>3. Calendar!Unlink(list, x) = Unlink(list, x)
  BY <1>2 DEF Calendar!Unlink, Unlink, Calendar!RemoveFirst, RemoveFirst,
     Calendar!RemoveAt, RemoveAt, Calendar!SelectInSeq, SelectInSeq
<1> QED
  BY <1>1, <1>3

LEMMA CalendarArmed ==
  ASSUME WheelInv, NEW x \in Client
  PROVE  Calendar!Armed(WheelDue, x) <=> OnWheel(x)
<1>1. Calendar!Armed(WheelDue, x) <=> \E n \in Times : Linked(WheelDue[n], x)
  BY CalendarOperators, DueIs DEF Calendar!Armed
<1> QED
  BY <1>1, OnWheelDue

LEMMA DueIsPrime ==
  /\ DOMAIN WheelDue' = Times
  /\ \A n \in Times :
       WheelDue'[n] = ComingUp(link'[(n + cursor') % WheelLen], roll', Turn(n, scanning'))
  /\ WheelDue' = [n \in Times |-> WheelDue'[n]]
BY DEF WheelDue, DueAt, Times, SlotOf, TurnsOf, Turn

(* The list and the turns the code computes are those of the calendar, and *)
(* within the limit: the list under the cursor takes one turn less.        *)
LEMMA AddPlace ==
  ASSUME WheelInv, ~scanning, NEW n \in 1 .. MaxTimeout
  PROVE  /\ ((n % WheelLen) + cursor) % WheelLen = SlotOf(n)
         /\ (n \div WheelLen) - (IF n % WheelLen > 0 THEN 0 ELSE 1) = TurnsOf(n)
         /\ SlotOf(n) \in Slots /\ TurnsOf(n) \in Nat /\ TurnsOf(n) <= LinkLimit(SlotOf(n))
<1> DEFINE w == WheelLen
           q == n \div w
           r == n % w
<1>1. /\ w \in Nat \ {0} /\ Rolls \in Nat \ {0} /\ n \in Int /\ n \in Nat /\ n >= 1
      /\ n <= w * Rolls - 1 /\ cursor \in Int /\ cursor \in 0 .. w - 1 /\ cursor \in Slots
  BY WheelNumbers DEF WheelInv, MaxTimeout
<1>2. q \in Int /\ r \in 0 .. w - 1 /\ n = w * q + r
  BY <1>1, DivMod
<1>3. (r + cursor) % w = SlotOf(n)
  BY <1>1, ModAdd DEF SlotOf
<1>4. TurnsOf(n) = q - (IF r > 0 THEN 0 ELSE 1)
  BY <1>2 DEF TurnsOf
<1>5. SlotOf(n) \in Slots
  BY <1>1, TimePlace
<1>6. SlotOf(n) = cursor => r = 0
  <2>1. (0 + cursor) % w = cursor /\ 0 \in Int /\ 0 % w = 0
    BY <1>1, ModSmall
  <2>2. SlotOf(n) = cursor => (n + cursor) % w = (0 + cursor) % w
    BY <2>1 DEF SlotOf
  <2> QED BY <1>1, <2>1, <2>2, ModCancel
<1> HIDE DEF w, q, r
<1>7. q >= 0 /\ q <= Rolls - 1 /\ (r = 0 => q >= 1)
  <2>1. q <= -1 => w * q <= -w
    BY <1>1, <1>2
  <2>2. q >= Rolls => w * q >= w * Rolls
    BY <1>1, <1>2
  <2>3. w * Rolls \in Nat /\ w * q \in Int
    BY <1>1, <1>2
  <2>4. q = 0 => w * q = 0
    BY <1>1, <1>2
  <2> QED BY <1>1, <1>2, <2>1, <2>2, <2>3, <2>4
<1>8. TurnsOf(n) \in Nat /\ TurnsOf(n) <= Rolls - 1
      /\ (r = 0 => TurnsOf(n) <= Rolls - 2)
  BY <1>1, <1>2, <1>4, <1>7
<1>9. LinkLimit(SlotOf(n)) = Rolls - 1 - (IF SlotOf(n) = cursor THEN 1 ELSE 0)
  BY DEF LinkLimit
<1>10. TurnsOf(n) <= LinkLimit(SlotOf(n))
  BY <1>1, <1>6, <1>8, <1>9
<1> QED
  BY <1>3, <1>4, <1>5, <1>8, <1>10 DEF q, r, w

(* osTaskAdd2TimerList.                                                    *)
LEMMA AddStep ==
  ASSUME WheelInv, NEW x \in Client, NEW timeout \in 1 .. MaxTimeout,
         Add2TimerList(x, timeout)
  PROVE  WheelInv' /\ Calendar!Arm(x, timeout)
<1> DEFINE s == SlotOf(timeout)
           m == TurnsOf(timeout)
<1>1. ~scanning /\ ~OnWheel(x) /\ cursor' = cursor /\ scanning' = scanning
  BY DEF Add2TimerList
<1>2. s \in Slots /\ m \in Nat /\ m <= LinkLimit(s)
  BY <1>1, AddPlace
<1>3. /\ link' = AddedLink(x, s, m) /\ roll' = AddedRoll(x, s, m)
      /\ index' = [index EXCEPT ![x] = s]
  BY <1>1, AddPlace DEF Add2TimerList, AddedLink, AddedRoll
<1> HIDE DEF s, m
<1>4. \A z \in Slots, i \in Int :
        ComingUp(link'[z], roll', i) = IF z = s /\ i = m
                                       THEN Append(ComingUp(link[z], roll, i), x)
                                       ELSE ComingUp(link[z], roll, i)
  BY <1>1, <1>2, <1>3, AddedComingUp
<1>5. \A n \in Times : WheelDue'[n] = IF n = timeout THEN Append(WheelDue[n], x)
                                      ELSE WheelDue[n]
  <2> TAKE n \in Times
  <2>1. n \in Int /\ timeout \in Int /\ cursor \in Slots
    BY WheelNumbers DEF WheelInv
  <2>2. SlotOf(n) \in Slots /\ TurnsOf(n) \in Int /\ TurnsOf(n) = Turn(n, scanning)
        /\ TurnsOf(timeout) = Turn(timeout, scanning)
    BY <2>1, TimePlace
  <2>3. WheelDue'[n] = ComingUp(link'[SlotOf(n)], roll', TurnsOf(n))
    BY <1>1, <2>2, DueIsPrime DEF SlotOf
  <2>4. WheelDue[n] = ComingUp(link[SlotOf(n)], roll, TurnsOf(n))
    BY DueIs
  <2>5. (SlotOf(n) = s /\ TurnsOf(n) = m) <=> n = timeout
    BY <2>1, <2>2, PlaceIsTime DEF SlotOf, s, m
  <2> QED BY <1>4, <2>2, <2>3, <2>4, <2>5
<1>6. WheelDue' = [WheelDue EXCEPT ![timeout] = Append(@, x)]
  <2>1. WheelDue = [n \in Times |-> WheelDue[n]] /\ timeout \in Times
    BY WheelNumbers DEF WheelDue, Times
  <2> QED BY <1>5, <2>1, DueIsPrime
<1>7. Calendar!Arm(x, timeout)
  BY <1>1, <1>6, CalendarArmed DEF Calendar!Arm, Calendar!AddTimer
<1>8. WheelInv'
  <2>1. AddedRoll(x, s, m) \in [Client -> Nat] /\ link[s] \in Seq(Client)
        /\ NoRepeat(link[s]) /\ ~Linked(link[s], x)
    BY <1>1, <1>2, AddedCounts
  <2> DEFINE k == Passed(link[s], roll, m)
  <2>2. /\ InsertAt(link[s], k + 1, x) \in Seq(Client)
        /\ \A y : Linked(InsertAt(link[s], k + 1, x), y) <=> Linked(link[s], y) \/ y = x
        /\ NoRepeat(InsertAt(link[s], k + 1, x))
    <3>1. k \in 0 .. Len(link[s])
      <4>1. roll \in [Client -> Nat] /\ m \in Int
        BY <1>2 DEF WheelInv
      <4> QED BY ONLY <2>1, <4>1, PassedDivides
    <3> HIDE DEF k
    <3> QED BY ONLY <2>1, <3>1, x \in Client, InsertLinks
  <2>3. \A z \in Slots : link'[z] = IF z = s THEN InsertAt(link[s], k + 1, x) ELSE link[z]
    BY <1>2, <1>3 DEF WheelInv, AddedLink
  <2>4. link' \in [Slots -> Seq(Client)]
    BY <1>2, <1>3, <2>2 DEF WheelInv, AddedLink
  <2>5. \A z \in Slots : NoRepeat(link'[z])
    BY <2>2, <2>3 DEF WheelInv
  <2>6. \A z \in Slots, y \in Client : Linked(link'[z], y) => index'[y] = z
    <3>1. \A z \in Slots : ~Linked(link[z], x)
      BY <1>1, OnWheelDue
    <3> QED BY <1>2, <1>3, <2>2, <2>3, <3>1 DEF WheelInv
  <2>7. \A z \in Slots, i \in Int : i > LinkLimit(z)' => ComingUp(link'[z], roll', i) = << >>
    <3>1. \A z : LinkLimit(z)' = LinkLimit(z)
      BY <1>1 DEF LinkLimit
    <3>2. \A z \in Slots : LinkLimit(z) \in Int
      BY WheelNumbers DEF LinkLimit
    <3> QED BY <1>2, <1>4, <3>1, <3>2 DEF WheelInv
  <2>8. index' \in [Client -> Slots] /\ roll' \in [Client -> Nat]
    BY <1>2, <1>3, <2>1 DEF WheelInv
  <2> QED BY <1>1, <2>4, <2>5, <2>6, <2>7, <2>8 DEF WheelInv
<1> QED
  BY <1>7, <1>8

(* osTimerListDelete.                                                      *)
LEMMA DeleteStep ==
  ASSUME WheelInv, NEW x \in Client, TimerListDelete(x)
  PROVE  WheelInv' /\ Calendar!Cancel(x)
<1>1. /\ OnWheel(x) /\ cursor' = cursor /\ scanning' = scanning /\ index' = index
      /\ link' = RemovedLink(x) /\ roll' = RemovedRoll(x)
  BY DEF TimerListDelete, RemovedLink, RemovedRoll
<1>2. \A z \in Slots, i \in Int :
        ComingUp(link'[z], roll', i) = Unlink(ComingUp(link[z], roll, i), x)
  BY <1>1, RemovedComingUp
<1>3. \A n \in Times : WheelDue'[n] = Unlink(WheelDue[n], x)
  <2> TAKE n \in Times
  <2>1. n \in Int /\ cursor \in Slots
    BY WheelNumbers DEF WheelInv
  <2>2. SlotOf(n) \in Slots /\ TurnsOf(n) \in Int /\ TurnsOf(n) = Turn(n, scanning)
    BY <2>1, TimePlace
  <2>3. WheelDue'[n] = ComingUp(link'[SlotOf(n)], roll', TurnsOf(n))
    BY <1>1, <2>2, DueIsPrime DEF SlotOf
  <2>4. WheelDue[n] = ComingUp(link[SlotOf(n)], roll, TurnsOf(n))
    BY DueIs
  <2> QED BY <1>2, <2>2, <2>3, <2>4
<1>4. WheelDue' = [n \in DOMAIN WheelDue |-> Unlink(WheelDue[n], x)]
  BY <1>3, DueIs, DueIsPrime
<1>5. Calendar!Cancel(x)
  <2>1. \A n : Calendar!Unlink(WheelDue[n], x) = Unlink(WheelDue[n], x)
    BY CalendarOperators
  <2>2. Calendar!CancelTimer(WheelDue, x) = WheelDue'
    BY <1>4, <2>1 DEF Calendar!CancelTimer
  <2>3. Calendar!Armed(WheelDue, x)
    BY <1>1, CalendarArmed
  <2> QED BY <1>1, <2>2, <2>3 DEF Calendar!Cancel
<1>6. WheelInv'
  <2>1. link \in [Slots -> Seq(Client)] /\ index[x] \in Slots
    BY DEF WheelInv
  <2>2. \A z \in Slots : link'[z] = IF z = index[x] THEN Unlink(link[z], x) ELSE link[z]
    BY <1>1, <2>1 DEF RemovedLink
  <2>3. \A z \in Slots : Unlink(link[z], x) \in Seq(Client)
    BY <2>1, UnlinkType
  <2>4. link' \in [Slots -> Seq(Client)]
    BY <1>1, <2>1, <2>3 DEF RemovedLink
  <2>5. \A z \in Slots : NoRepeat(link'[z]) /\ ~Linked(link'[z], x)
    <3>1. \A z \in Slots : NoRepeat(Unlink(link[z], x)) /\ ~Linked(Unlink(link[z], x), x)
      BY <2>1, UnlinkDrops DEF WheelInv
    <3>2. \A z \in Slots : NoRepeat(link[z]) /\ (Linked(link[z], x) => index[x] = z)
      BY DEF WheelInv
    <3> QED BY <2>2, <3>1, <3>2
  <2>6. \A z \in Slots, y \in Client : Linked(link'[z], y) => index'[y] = z
    <3>1. \A z \in Slots, y \in Client : y # x => (Linked(Unlink(link[z], x), y)
                                                     <=> Linked(link[z], y))
      BY <2>1, UnlinkKeeps
    <3> QED BY <1>1, <2>2, <2>5, <3>1 DEF WheelInv
  <2>7. \A z \in Slots, i \in Int : i > LinkLimit(z)' => ComingUp(link'[z], roll', i) = << >>
    <3>1. \A z : LinkLimit(z)' = LinkLimit(z)
      BY <1>1 DEF LinkLimit
    <3>2. \A z \in Slots, i \in Int : i > LinkLimit(z) => ComingUp(link[z], roll, i) = << >>
      BY DEF WheelInv
    <3>3. Unlink(<< >>, x) = << >>
      BY UnlinkEmpty
    <3> QED BY <1>2, <3>1, <3>2, <3>3
  <2>8. roll' \in [Client -> Nat]
    <3>1. PICK p \in 1 .. Len(link[index[x]]) :
                RemovedCounts(Client, link[index[x]], roll, p, RemovedRoll(x))
      BY <1>1, RemovedPlace
    <3> QED BY <1>1, <3>1 DEF RemovedCounts
  <2> QED BY <1>1, <2>4, <2>5, <2>6, <2>7, <2>8 DEF WheelInv
<1> QED
  BY <1>5, <1>6

(* The cursor goes on: every list is one tick nearer, and the list that    *)
(* was under the cursor is a full round away with one turn less.           *)
LEMMA StartStep ==
  ASSUME WheelInv, ScanStart
  PROVE  WheelInv' /\ Calendar!StartTick
<1>1. /\ ~scanning /\ scanning' = TRUE /\ cursor' = (cursor + 1) % WheelLen
      /\ link' = link /\ roll' = roll /\ index' = index
  BY DEF ScanStart
<1>2. /\ WheelLen \in Nat \ {0} /\ Rolls \in Nat \ {0} /\ cursor \in Slots /\ cursor \in Int
      /\ cursor + 1 \in Int /\ MaxTimeout \in Nat
  BY WheelNumbers DEF WheelInv
<1>3. cursor' \in Slots
  BY <1>1, <1>2, DivMod DEF Slots
<1>4. ASSUME NEW n \in Int
      PROVE  /\ (n + cursor') % WheelLen = SlotOf(n + 1)
             /\ Turn(n, scanning') = TurnsOf(n + 1)
  <2>1. (n + cursor') % WheelLen = SlotOf(n + 1)
    <3>1. (((cursor + 1) % WheelLen) + n) % WheelLen = ((cursor + 1) + n) % WheelLen
      BY <1>2, ModAdd
    <3>2. (cursor + 1) % WheelLen \in Int
      BY <1>2, DivMod
    <3>3. ((cursor + 1) % WheelLen) + n = n + ((cursor + 1) % WheelLen)
          /\ (cursor + 1) + n = (n + 1) + cursor
      BY <1>2, <3>2
    <3> QED BY <1>1, <3>1, <3>3 DEF SlotOf
  <2>2. n \div WheelLen = ((n + 1) \div WheelLen)
                            - (IF (n + 1) % WheelLen = 0 THEN 1 ELSE 0)
    BY <1>2, ModNext
  <2>3. n \div WheelLen \in Int
    BY <1>2, DivMod
  <2> QED BY <1>1, <2>1, <2>2, <2>3 DEF Turn, TurnsOf
<1>5. \A n \in Times : WheelDue'[n] = ComingUp(link[SlotOf(n + 1)], roll, TurnsOf(n + 1))
  BY <1>1, <1>4, DueIsPrime, WheelNumbers
<1>6. ComingUp(link[SlotOf(MaxTimeout + 1)], roll, TurnsOf(MaxTimeout + 1)) = << >>
  <2> DEFINE n == MaxTimeout + 1
  <2>1. n \in Int /\ n = WheelLen * Rolls + 0 /\ 0 \in 0 .. WheelLen - 1 /\ Rolls \in Int
    BY <1>2 DEF MaxTimeout
  <2>2. n \div WheelLen = Rolls /\ n % WheelLen = 0
    BY <1>2, <2>1, DivModIs
  <2>3. TurnsOf(n) = Rolls - 1
    BY <1>1, <1>2, <2>2 DEF TurnsOf
  <2>4. SlotOf(n) = cursor
    <3>1. ((n % WheelLen) + cursor) % WheelLen = (n + cursor) % WheelLen
      BY <1>2, <2>1, ModAdd
    <3>2. cursor % WheelLen = cursor /\ 0 + cursor = cursor
      BY <1>2, ModSmall DEF Slots
    <3> QED BY <2>2, <3>1, <3>2 DEF SlotOf
  <2>5. LinkLimit(cursor) = Rolls - 2
    BY <1>1, <1>2 DEF LinkLimit
  <2> QED BY <1>2, <2>3, <2>4, <2>5 DEF WheelInv
<1>7. \A n \in Times : WheelDue'[n] = IF n + 1 \in Times THEN WheelDue[n + 1] ELSE << >>
  <2> TAKE n \in Times
  <2>1. CASE n + 1 \in Times
    BY <1>5, <2>1, DueIs
  <2>2. CASE n + 1 \notin Times
    <3>1. n + 1 = MaxTimeout + 1
      BY <1>2, <2>2 DEF Times
    <3> QED BY <1>5, <1>6, <2>2, <3>1
  <2> QED BY <2>1, <2>2
<1>8. Calendar!StartTick
  <2>1. WheelDue' = [n \in DOMAIN WheelDue |->
                       IF n + 1 \in DOMAIN WheelDue THEN WheelDue[n + 1] ELSE << >>]
    BY <1>7, DueIs, DueIsPrime
  <2> QED BY <1>1, <2>1 DEF Calendar!StartTick, Calendar!NextTick
<1>9. WheelInv'
  <2>1. \A z \in Slots : LinkLimit(z)' >= LinkLimit(z) /\ LinkLimit(z) \in Int
                         /\ LinkLimit(z)' \in Int
    BY <1>1, <1>2 DEF LinkLimit
  <2>2. \A z \in Slots, i \in Int : i > LinkLimit(z)' => ComingUp(link'[z], roll', i) = << >>
    BY <1>1, <2>1 DEF WheelInv
  <2> QED BY <1>1, <1>3, <2>2 DEF WheelInv
<1> QED
  BY <1>8, <1>9

(* The place under the cursor while it is scanned: now, and whole turns    *)
(* from now.                                                               *)
LEMMA ScanPlace ==
  ASSUME cursor \in Slots, NEW n \in Int
  PROVE  SlotOf(n) = cursor <=> n % WheelLen = 0
<1>1. /\ WheelLen \in Nat \ {0} /\ cursor \in Int /\ cursor \in 0 .. WheelLen - 1
      /\ n \in Int /\ 0 \in Int /\ 0 \in 0 .. WheelLen - 1
  BY WheelNumbers
<1>2. cursor % WheelLen = cursor /\ 0 % WheelLen = 0 /\ 0 + cursor = cursor
  BY <1>1, ModSmall
<1>3. SlotOf(n) = cursor => n % WheelLen = 0 % WheelLen
  <2> SUFFICES ASSUME SlotOf(n) = cursor PROVE n % WheelLen = 0 % WheelLen
    OBVIOUS
  <2>1. (n + cursor) % WheelLen = (0 + cursor) % WheelLen
    BY <1>2 DEF SlotOf
  <2> QED BY <1>1, <2>1, ModCancel
<1>4. ((n % WheelLen) + cursor) % WheelLen = SlotOf(n)
  BY <1>1, ModAdd DEF SlotOf
<1> QED
  BY <1>2, <1>3, <1>4

LEMMA NowPlace ==
  ASSUME cursor \in Slots, scanning
  PROVE  /\ SlotOf(0) = cursor /\ TurnsOf(0) = 0 /\ 0 \in Times
         /\ \A n \in Int : SlotOf(n) = cursor /\ TurnsOf(n) = 0 => n = 0
<1>1. /\ WheelLen \in Nat \ {0} /\ 0 \in Int /\ 0 \in 0 .. WheelLen - 1 /\ 0 \in Times
  BY WheelNumbers DEF Times
<1>2. 0 % WheelLen = 0 /\ 0 \div WheelLen = 0
  BY <1>1, ModSmall
<1>3. SlotOf(0) = cursor /\ TurnsOf(0) = 0 /\ Turn(0, scanning) = 0
  BY <1>1, <1>2, ScanPlace DEF TurnsOf, Turn
<1>4. ASSUME NEW n \in Int, SlotOf(n) = cursor, TurnsOf(n) = 0 PROVE n = 0
  <2>1. (n + cursor) % WheelLen = (0 + cursor) % WheelLen
    BY <1>3, <1>4 DEF SlotOf
  <2>2. Turn(n, scanning) = Turn(0, scanning)
    BY <1>3, <1>4 DEF TurnsOf, Turn
  <2> QED BY <1>1, <2>1, <2>2, PlaceIsTime
<1> QED
  BY <1>1, <1>3, <1>4

(* One round of osTaskScan's loop: the first node has no turns left.       *)
LEMMA ExpireStep ==
  ASSUME WheelInv, ScanExpire
  PROVE  WheelInv' /\ Calendar!Expire
<1> DEFINE list == link[cursor]
           x == Head(list)
<1>1. /\ scanning /\ list # << >> /\ roll[x] = 0
      /\ link' = [link EXCEPT ![cursor] = Tail(list)]
      /\ cursor' = cursor /\ roll' = roll /\ index' = index /\ scanning' = scanning
  BY DEF ScanExpire
<1>2. /\ cursor \in Slots /\ list \in Seq(Client) /\ NoRepeat(list)
      /\ roll \in [Client -> Nat] /\ link \in [Slots -> Seq(Client)]
  BY DEF WheelInv
<1>3. /\ 1 \in 1 .. Len(list) /\ list[1] = x /\ x \in Client /\ Len(list) \in Nat
      /\ 0 \in 0 .. Len(list) /\ 1 \in 0 .. Len(list)
  BY <1>1, <1>2, LenProperties
<1>4. Unlink(list, x) = RemoveAt(list, 1) /\ Unlink(list, x) = Tail(list)
  <2>1. Linked(list, x)
    BY <1>1, <1>2, TailLinks
  <2>2. PICK k \in 1 .. Len(list) : list[k] = x /\ Unlink(list, x) = RemoveAt(list, k)
    BY <1>2, <2>1, UnlinkAt
  <2>3. k = 1
    BY <1>2, <1>3, <2>2, LenProperties DEF NoRepeat
  <2> QED BY <1>1, <1>2, <2>2, <2>3, UnlinkFirst
<1>5. RemovedCounts(Client, list, roll, 1, roll)
  BY <1>1, <1>2, <1>3 DEF RemovedCounts
<1>6. TimeTo(list, roll, 1) = 0
  BY <1>1, <1>3, TimeToSteps
<1>7. ASSUME NEW i \in Int
      PROVE  /\ ComingUp(Tail(list), roll, i) = Unlink(ComingUp(list, roll, i), x)
             /\ Linked(ComingUp(list, roll, i), x) <=> i = 0
             /\ ComingUp(list, roll, i) \in Seq(Client)
             /\ NoRepeat(ComingUp(list, roll, i))
  <2> HIDE DEF list
  <2> HIDE DEF x
  <2>1. ComingUp(RemoveAt(list, 1), roll, i) = Unlink(ComingUp(list, roll, i), list[1])
    BY ONLY <1>2, <1>3, <1>5, i \in Int, RemoveComingUp
  <2>2. Linked(ComingUp(list, roll, i), x)
           <=> \E j \in 1 .. Len(list) : list[j] = x /\ TimeTo(list, roll, j) = i
    BY ONLY <1>2, i \in Int, ComingUpLinks
  <2>3. \A j \in 1 .. Len(list) : list[j] = x => j = 1
    BY <1>2, <1>3, LenProperties DEF NoRepeat
  <2>4. ComingUp(list, roll, i) \in Seq(Client)
    BY ONLY <1>2, i \in Int, ComingUpSection
  <2>5. NoRepeat(ComingUp(list, roll, i))
    <3>1. Section(ComingUp(list, roll, i), Client, list,
                  Passed(list, roll, i - 1), Passed(list, roll, i))
      BY ONLY <1>2, i \in Int, ComingUpIsSection
    <3> QED BY ONLY <1>2, <3>1, SectionNoRepeat
  <2> QED BY <1>3, <1>4, <1>6, <2>1, <2>2, <2>3, <2>4, <2>5
<1>8. x = Head(ComingUp(list, roll, 0)) /\ ComingUp(list, roll, 0) # << >>
  <2>1. /\ Passed(list, roll, 0 - 1) \in 0 .. Len(list)
        /\ Passed(list, roll, 0) \in 0 .. Len(list)
        /\ \A i \in 1 .. Passed(list, roll, 0) - Passed(list, roll, 0 - 1) :
             ComingUp(list, roll, 0)[i] = list[Passed(list, roll, 0 - 1) + i]
        /\ ComingUp(list, roll, 0) \in Seq(Client)
        /\ Len(ComingUp(list, roll, 0))
             = Passed(list, roll, 0) - Passed(list, roll, 0 - 1)
    <3> HIDE DEF list
    <3> QED BY ONLY <1>2, 0 \in Int, ComingUpSection
  <2>2. Passed(list, roll, 0 - 1) = 0
    <3>1. \A j \in 1 .. Len(list) : TimeTo(list, roll, j) <= 0 - 1 <=> j <= Passed(list, roll, 0 - 1)
      <4>1. 0 - 1 \in Int
        OBVIOUS
      <4> HIDE DEF list
      <4> QED BY ONLY <1>2, <4>1, PassedDivides
    <3> QED BY <1>3, <1>6, <2>1, <3>1
  <2>3. ComingUp(list, roll, 0) # << >>
    BY <1>7 DEF Linked, ToSet
  <2>4. Len(ComingUp(list, roll, 0)) \in Nat /\ Len(ComingUp(list, roll, 0)) # 0
        /\ Head(ComingUp(list, roll, 0)) = ComingUp(list, roll, 0)[1]
    BY <2>1, <2>3, LenProperties, EmptySeq
  <2>5. ComingUp(list, roll, 0)[1] = list[1]
    BY <2>1, <2>2, <2>4
  <2> QED BY <1>3, <2>3, <2>4, <2>5
<1>9. \A i \in Int : ComingUp(Tail(list), roll, i)
                       = IF i = 0 THEN Tail(ComingUp(list, roll, i)) ELSE ComingUp(list, roll, i)
  <2> TAKE i \in Int
  <2>1. CASE i = 0
    <3>1. Unlink(ComingUp(list, roll, 0), Head(ComingUp(list, roll, 0)))
            = Tail(ComingUp(list, roll, 0))
      <4> DEFINE up == ComingUp(list, roll, 0)
      <4>1. up \in Seq(Client) /\ up # << >> /\ NoRepeat(up)
        BY <1>7, <1>8
      <4> HIDE DEF up
      <4>2. Unlink(up, Head(up)) = Tail(up)
        BY ONLY <4>1, UnlinkFirst
      <4> QED BY <4>2 DEF up
    <3> QED BY <1>7, <1>8, <2>1, <3>1
  <2>2. CASE i # 0
    <3>1. Unlink(ComingUp(list, roll, i), x) = ComingUp(list, roll, i)
      BY <1>7, <2>2, UnlinkNone
    <3> QED BY <1>7, <2>2, <3>1
  <2> QED BY <2>1, <2>2
<1>10. \A z \in Slots : link'[z] = IF z = cursor THEN Tail(list) ELSE link[z]
  BY <1>1, <1>2
<1>11. \A n \in Times : WheelDue'[n] = IF n = 0 THEN Tail(WheelDue[n]) ELSE WheelDue[n]
  <2> TAKE n \in Times
  <2>1. n \in Int
    BY WheelNumbers
  <2>2. SlotOf(n) \in Slots /\ TurnsOf(n) \in Int /\ TurnsOf(n) = Turn(n, scanning)
    BY <1>2, <2>1, TimePlace
  <2>3. WheelDue'[n] = ComingUp(link'[SlotOf(n)], roll, TurnsOf(n))
    BY <1>1, <2>2, DueIsPrime DEF SlotOf
  <2>4. WheelDue[n] = ComingUp(link[SlotOf(n)], roll, TurnsOf(n))
    BY DueIs
  <2>5. (SlotOf(n) = cursor /\ TurnsOf(n) = 0) <=> n = 0
    BY <1>1, <1>2, <2>1, NowPlace
  <2> HIDE DEF list
  <2> QED BY <1>9, <1>10, <2>2, <2>3, <2>4, <2>5 DEF list
<1>12. Calendar!Expire
  <2>1. WheelDue = [n \in Times |-> WheelDue[n]] /\ 0 \in Times
    BY <1>1, <1>2, NowPlace DEF WheelDue, Times
  <2>2. WheelDue[0] = ComingUp(list, roll, 0)
    BY <1>1, <1>2, NowPlace, DueIs
  <2>3. WheelDue' = [WheelDue EXCEPT ![0] = Tail(@)]
    BY <1>11, <2>1, DueIsPrime
  <2> QED BY <1>1, <1>8, <2>2, <2>3 DEF Calendar!Expire
<1>13. WheelInv'
  <2>1. /\ Tail(list) \in Seq(Client) /\ NoRepeat(Tail(list))
        /\ \A y : Linked(Tail(list), y) => Linked(list, y)
    BY <1>1, <1>2, TailLinks, TailDrops
  <2>2. link' \in [Slots -> Seq(Client)]
    BY <1>1, <1>2, <2>1
  <2>3. \A z \in Slots : /\ NoRepeat(link'[z])
                         /\ \A y \in Client : Linked(link'[z], y) => index'[y] = z
    BY <1>1, <1>10, <2>1 DEF WheelInv
  <2>4. \A z \in Slots, i \in Int : i > LinkLimit(z)' => ComingUp(link'[z], roll', i) = << >>
    <3>1. \A z \in Slots : LinkLimit(z)' = LinkLimit(z) /\ LinkLimit(z) >= 0
                           /\ LinkLimit(z) \in Int
      BY <1>1, WheelNumbers DEF LinkLimit
    <3>2. \A z \in Slots, i \in Int : i > LinkLimit(z) => ComingUp(link[z], roll, i) = << >>
      BY DEF WheelInv
    <3> TAKE z \in Slots, i \in Int
    <3>3. CASE z = cursor
      BY <1>1, <1>9, <1>10, <3>1, <3>2, <3>3
    <3>4. CASE z # cursor
      BY <1>1, <1>10, <3>1, <3>2, <3>4
    <3> QED BY <3>3, <3>4
  <2> QED BY <1>1, <1>2, <2>2, <2>3, <2>4 DEF WheelInv
<1> QED
  BY <1>12, <1>13

(* The scan ends: a turn is taken off the first node of the list, if any,  *)
(* and the list under the cursor is a full round away again.               *)
LEMMA EndStep ==
  ASSUME WheelInv, ScanEnd
  PROVE  WheelInv' /\ Calendar!EndTick
<1> DEFINE list == link[cursor]
<1>1. /\ scanning /\ (list # << >> => roll[Head(list)] > 0) /\ scanning' = FALSE
      /\ cursor' = cursor /\ link' = link /\ index' = index
      /\ roll' = IF list = << >> THEN roll ELSE [roll EXCEPT ![Head(list)] = @ - 1]
  BY DEF ScanEnd
<1>2. /\ cursor \in Slots /\ list \in Seq(Client) /\ NoRepeat(list)
      /\ roll \in [Client -> Nat] /\ link \in [Slots -> Seq(Client)]
  BY DEF WheelInv
<1>3. list # << >> => Head(list) \in Client /\ Linked(list, Head(list))
  BY <1>2, TailLinks
<1>4. list # << >> => Ticked(list, roll, roll')
  BY <1>1 DEF Ticked
<1>5. roll' \in [Client -> Nat]
  <2>1. CASE list # << >>
    <3>1. roll[Head(list)] - 1 \in Nat
      BY <1>1, <1>2, <1>3, <2>1
    <3> QED BY <1>1, <1>2, <1>3, <2>1, <3>1
  <2> QED BY <1>1, <1>2, <2>1
<1>6. ComingUp(list, roll, 0) = << >>
  <2>1. CASE list # << >>
    <3>1. roll[Head(list)] > 0
      BY <1>1, <2>1
    <3> HIDE DEF list
    <3> QED BY ONLY <1>2, <2>1, <3>1, NoneComingUpNow
  <2> QED BY <2>1, EmptyComingUp
<1>7. ASSUME NEW i \in Int
      PROVE  ComingUp(list, roll', i) = ComingUp(list, roll, i + 1)
  <2>1. CASE list # << >>
    <3> DEFINE after == roll'
    <3>1. roll[Head(list)] > 0 /\ Ticked(list, roll, after)
      BY <1>1, <1>4, <2>1
    <3> HIDE DEF list, after
    <3>2. ComingUp(list, after, i) = ComingUp(list, roll, i + 1)
      BY ONLY <1>2, <2>1, <3>1, i \in Int, TickedComingUp
    <3> QED BY <3>2 DEF after
  <2>2. CASE list = << >>
    BY <2>2, EmptyComingUp
  <2> QED BY <2>1, <2>2
<1>8. ASSUME NEW z \in Slots, z # cursor, NEW i \in Int
      PROVE  ComingUp(link[z], roll', i) = ComingUp(link[z], roll, i)
  <2>1. link[z] \in Seq(Client)
    BY <1>2
  <2>2. SameCounts(link[z], roll, roll')
    <3> SUFFICES ASSUME NEW j \in 1 .. Len(link[z])
                 PROVE  roll'[link[z][j]] = roll[link[z][j]]
      BY DEF SameCounts
    <3>1. link[z][j] \in Client /\ Linked(link[z], link[z][j])
      BY <2>1, LenProperties DEF Linked, ToSet
    <3>2. index[link[z][j]] = z
      BY <3>1 DEF WheelInv
    <3>3. list # << >> => index[Head(list)] = cursor
      BY <1>2, <1>3 DEF WheelInv
    <3> QED BY <1>1, <1>2, <1>3, <1>8, <3>1, <3>2, <3>3
  <2> DEFINE after == roll'
  <2>3. SameCounts(link[z], roll, after) /\ roll \in [Client -> Nat]
    BY <1>2, <2>2
  <2> HIDE DEF after
  <2>4. ComingUp(link[z], after, i) = ComingUp(link[z], roll, i)
    BY ONLY <2>1, <2>3, ComingUpSame
  <2> QED BY <2>4 DEF after
<1>9. \A n \in Times : WheelDue'[n] = WheelDue[n]
  <2> TAKE n \in Times
  <2>1. n \in Int
    BY WheelNumbers
  <2>2. SlotOf(n) \in Slots /\ TurnsOf(n) \in Int
    BY <1>2, <2>1, TimePlace
  <2>3. WheelDue'[n] = ComingUp(link[SlotOf(n)], roll', Turn(n, FALSE))
    BY <1>1, DueIsPrime DEF SlotOf
  <2>4. WheelDue[n] = ComingUp(link[SlotOf(n)], roll, TurnsOf(n))
    BY DueIs
  <2>5. n \div WheelLen \in Int
    BY <2>1, DivMod, WheelNumbers
  <2>6. CASE SlotOf(n) = cursor
    <3>1. n % WheelLen = 0
      BY <1>2, <2>1, <2>6, ScanPlace
    <3>2. Turn(n, FALSE) = TurnsOf(n) - 1 /\ Turn(n, FALSE) \in Int
      BY <1>1, <2>5, <3>1 DEF Turn, TurnsOf
    <3>3. ComingUp(list, roll', Turn(n, FALSE)) = ComingUp(list, roll, Turn(n, FALSE) + 1)
      BY <1>7, <3>2
    <3>4. Turn(n, FALSE) + 1 = TurnsOf(n)
      <4> DEFINE t == Turn(n, FALSE)
      <4>1. t = TurnsOf(n) - 1
        BY <3>2
      <4> HIDE DEF t
      <4>2. t + 1 = TurnsOf(n)
        BY <2>2, <4>1
      <4> QED BY <4>2 DEF t
    <3> QED BY <2>3, <2>4, <2>6, <3>3, <3>4
  <2>7. CASE SlotOf(n) # cursor
    <3>1. n % WheelLen # 0
      BY <1>2, <2>1, <2>7, ScanPlace
    <3>2. Turn(n, FALSE) = TurnsOf(n)
      BY <3>1 DEF Turn, TurnsOf
    <3> QED BY <1>8, <2>2, <2>3, <2>4, <2>7, <3>2
  <2> QED BY <2>6, <2>7
<1>10. Calendar!EndTick
  <2>1. WheelDue' = WheelDue
    BY <1>9, DueIs, DueIsPrime DEF WheelDue, Times
  <2>2. WheelDue[0] = << >>
    BY <1>1, <1>2, <1>6, NowPlace, DueIs
  <2> QED BY <1>1, <2>1, <2>2 DEF Calendar!EndTick
<1>11. WheelInv'
  <2>1. \A z \in Slots, i \in Int : i > LinkLimit(z) => ComingUp(link[z], roll, i) = << >>
    BY DEF WheelInv
  <2>2. \A z \in Slots : /\ LinkLimit(z) \in Int
                         /\ LinkLimit(z)' = LinkLimit(z) - (IF z = cursor THEN 1 ELSE 0)
    BY <1>1, WheelNumbers DEF LinkLimit
  <2>3. \A z \in Slots, i \in Int : i > LinkLimit(z)' => ComingUp(link'[z], roll', i) = << >>
    <3> TAKE z \in Slots, i \in Int
    <3>1. CASE z = cursor
      <4>1. i > LinkLimit(z)' => i + 1 > LinkLimit(z) /\ i + 1 \in Int
        BY <2>2, <3>1
      <4> QED BY <1>1, <1>2, <1>7, <2>1, <3>1, <4>1
    <3>2. CASE z # cursor
      <4>1. i > LinkLimit(z)' => i > LinkLimit(z)
        BY <2>2, <3>2
      <4>2. ComingUp(link'[z], roll', i) = ComingUp(link[z], roll, i)
        BY <1>1, <1>8, <3>2
      <4> QED BY <2>1, <4>1, <4>2
    <3> QED BY <3>1, <3>2
  <2> QED BY <1>1, <1>2, <1>5, <2>3 DEF WheelInv
<1> QED
  BY <1>10, <1>11
-----------------------------------------------------------------------------
LEMMA WheelStart ==
  ASSUME Init PROVE WheelInv /\ Calendar!Init
<1>1. /\ cursor = 0 /\ link = [s \in Slots |-> << >>] /\ roll = [x \in Client |-> 0]
      /\ index = [x \in Client |-> 0] /\ scanning = FALSE
  BY DEF Init
<1>2. 0 \in Slots
  BY WheelNumbers DEF Slots
<1>3. << >> \in Seq(Client) /\ NoRepeat(<< >>) /\ \A x : ~Linked(<< >>, x)
  <2>1. DOMAIN << >> = {} /\ << >> \in Seq(Client)
    BY EmptySeq, LenProperties
  <2> QED BY <2>1 DEF NoRepeat, Linked, ToSet
<1>4. \A i : ComingUp(<< >>, roll, i) = << >>
  BY EmptyComingUp
<1>5. WheelInv
  BY <1>1, <1>2, <1>3, <1>4 DEF WheelInv
<1>6. \A n \in Times : SlotOf(n) \in Slots
  BY <1>1, <1>2, TimePlace, WheelNumbers
<1>7. WheelDue = [n \in Times |-> << >>]
  <2>1. \A n \in Times : DueAt(n) = << >>
    BY <1>1, <1>4, <1>6 DEF DueAt
  <2> QED BY <2>1 DEF WheelDue, Times
<1> QED
  BY <1>1, <1>5, <1>7 DEF Calendar!Init, Times

LEMMA WheelStep ==
  ASSUME WheelInv, [Next]_vars
  PROVE  WheelInv' /\ [Calendar!Next]_(Calendar!calendar)
<1>1. ASSUME NEW x \in Client, TimerListDelete(x)
      PROVE  WheelInv' /\ Calendar!Next
  BY <1>1, DeleteStep DEF Calendar!Next
<1>2. ASSUME NEW x \in Client, NEW n \in 1 .. MaxTimeout, Add2TimerList(x, n)
      PROVE  WheelInv' /\ Calendar!Next
  BY <1>2, AddStep DEF Calendar!Next
<1>3. ASSUME ScanStart PROVE WheelInv' /\ Calendar!Next
  BY <1>3, StartStep DEF Calendar!Next
<1>4. ASSUME ScanExpire PROVE WheelInv' /\ Calendar!Next
  BY <1>4, ExpireStep DEF Calendar!Next
<1>5. ASSUME ScanEnd PROVE WheelInv' /\ Calendar!Next
  BY <1>5, EndStep DEF Calendar!Next
<1>6. ASSUME UNCHANGED vars PROVE WheelInv' /\ UNCHANGED Calendar!calendar
  <2>1. /\ cursor' = cursor /\ link' = link /\ roll' = roll /\ index' = index
        /\ scanning' = scanning
    BY <1>6 DEF vars
  <2>2. WheelInv'
    BY <2>1 DEF WheelInv, LinkLimit
  <2>3. WheelDue' = WheelDue
    BY <2>1 DEF WheelDue, DueAt, SlotOf, TurnsOf
  <2> QED BY <2>1, <2>2, <2>3 DEF Calendar!calendar
<1> QED
  BY <1>1, <1>2, <1>3, <1>4, <1>5, <1>6 DEF Next

LEMMA WheelAlways == Spec => []WheelInv
<1>1. Init => WheelInv
  BY WheelStart
<1>2. WheelInv /\ [Next]_vars => WheelInv'
  BY WheelStep
<1> QED
  BY <1>1, <1>2, PTL DEF Spec

(* The timer wheel of los_task.c, osTaskAdd2TimerList, osTimerListDelete   *)
(* and osTaskScan, implements the calendar: every wait ends in the scan of *)
(* its tick, in the order of arming, whatever is armed or cancelled around *)
(* it, for any length of the wheel and any width of the roll number.       *)
THEOREM WheelIsCalendarHolds == Spec => WheelIsCalendar
<1>1. Init => Calendar!Init
  BY WheelStart
<1>2. WheelInv /\ [Next]_vars => [Calendar!Next]_(Calendar!calendar)
  BY WheelStep
<1> QED
  BY <1>1, <1>2, WheelAlways, PTL DEF Spec, WheelIsCalendar, Calendar!Spec
-----------------------------------------------------------------------------
(***************************************************************************)
(* The sleep of the tickless idle task.                                    *)
(***************************************************************************)
LEMMA SameMin ==
  ASSUME NEW A \in SUBSET Nat, NEW B \in SUBSET Nat, A \subseteq B,
         \A b \in B : \E a \in A : a <= b, B # {}
  PROVE  Min(A) = Min(B)
<1>1. A # {}
  OBVIOUS
<1>2. Min(A) \in A /\ \A a \in A : Min(A) <= a
  BY <1>1, LeastExists DEF Min
<1>3. Min(B) \in B /\ \A b \in B : Min(B) <= b
  BY LeastExists DEF Min
<1>4. Min(B) <= Min(A)
  BY <1>2, <1>3
<1>5. Min(A) <= Min(B)
  <2>1. PICK a \in A : a <= Min(B)
    BY <1>3
  <2>2. Min(A) <= a /\ a \in Nat /\ Min(A) \in Nat /\ Min(B) \in Nat
    BY <1>2, <1>3
  <2> QED BY <2>1, <2>2
<1>6. Min(A) \in Nat /\ Min(B) \in Nat
  BY <1>2, <1>3
<1> QED
  BY <1>4, <1>5, <1>6

(* The slots ahead of the cursor whose lists are not empty, and the time   *)
(* the code computes for the first node of one.                            *)
Ahead(k) == (cursor + k) % WheelLen

Waiting == {k \in Slots : link[Ahead(k)] # << >>}

FirstTime(k) == (IF k = 0 THEN WheelLen ELSE k) + roll[Head(link[Ahead(k)])] * WheelLen

LEMMA AheadPlace ==
  ASSUME cursor \in Slots, NEW n \in Int
  PROVE  n % WheelLen \in Slots /\ SlotOf(n) = Ahead(n % WheelLen)
<1>1. WheelLen \in Nat \ {0} /\ cursor \in Int
  BY WheelNumbers
<1>2. n % WheelLen \in 0 .. WheelLen - 1
  BY <1>1, DivMod
<1>3. (n % WheelLen) + cursor = cursor + (n % WheelLen)
  BY <1>1, <1>2
<1>4. ((n % WheelLen) + cursor) % WheelLen = (n + cursor) % WheelLen
  BY <1>1, ModAdd
<1> QED
  BY <1>2, <1>3, <1>4 DEF SlotOf, Ahead, Slots

(* The first node of a list that is not empty comes up at FirstTime.       *)
LEMMA FirstIsDue ==
  ASSUME WheelInv, ~scanning, NEW k \in Waiting
  PROVE  FirstTime(k) \in Times /\ WheelDue[FirstTime(k)] # << >>
<1> DEFINE s == Ahead(k)
           list == link[s]
           t == roll[Head(list)]
           n == FirstTime(k)
           e == IF k = 0 THEN 1 ELSE 0
<1>1. /\ WheelLen \in Nat \ {0} /\ cursor \in Slots /\ cursor \in Int /\ k \in Slots
      /\ k \in Int /\ k \in 0 .. WheelLen - 1 /\ list # << >>
  BY WheelNumbers DEF WheelInv, Waiting
<1>2. s \in Slots
  <2>1. cursor + k \in Int
    BY <1>1
  <2> QED BY <1>1, <2>1, DivMod DEF Ahead, Slots
<1>3. list \in Seq(Client) /\ roll \in [Client -> Nat]
  BY <1>2 DEF WheelInv
<1>4. /\ Head(list) \in Client /\ 1 \in 1 .. Len(list) /\ list[1] = Head(list)
      /\ Linked(list, Head(list))
  BY <1>1, <1>3, TailLinks, LenProperties
<1>5. t \in Nat /\ TimeTo(list, roll, 1) = t
  <2>1. Len(list) \in Nat
    BY <1>3, LenProperties
  <2>2. TimeTo(list, roll, 0) = 0 /\ TimeTo(list, roll, 1) = TimeTo(list, roll, 1 - 1) + roll[list[1]]
    BY <1>4, <2>1, TimeToSteps
  <2> QED BY <1>3, <1>4, <2>2
<1>6. ComingUp(list, roll, t) # << >>
  <2> HIDE DEF list, t
  <2>1. t \in Int
    BY <1>5
  <2>2. Linked(ComingUp(list, roll, t), Head(list))
          <=> \E j \in 1 .. Len(list) : list[j] = Head(list) /\ TimeTo(list, roll, j) = t
    BY ONLY <1>3, <2>1, ComingUpLinks
  <2>3. Linked(ComingUp(list, roll, t), Head(list))
    BY <1>4, <1>5, <2>2
  <2> QED BY <2>3 DEF Linked, ToSet
<1>7. t <= LinkLimit(s)
  <2>1. t \in Int /\ LinkLimit(s) \in Int
    BY <1>5, WheelNumbers DEF LinkLimit
  <2>2. t > LinkLimit(s) => ComingUp(list, roll, t) = << >>
    BY <1>2, <2>1 DEF WheelInv
  <2> HIDE DEF t, s, list
  <2> QED BY <1>6, <2>1, <2>2
<1>8. PICK m \in Times : (m + cursor) % WheelLen = s /\ Turn(m, scanning) = t
  <2> HIDE DEF t, s
  <2>1. t <= Rolls - 1 - (IF s = cursor /\ ~scanning THEN 1 ELSE 0) /\ scanning \in BOOLEAN
    BY <1>7 DEF LinkLimit, WheelInv
  <2>2. cursor \in Slots /\ t \in Nat
    BY <1>1, <1>5
  <2>3. \E m \in 0 .. MaxTimeout : (m + cursor) % WheelLen = s /\ Turn(m, scanning) = t
    BY ONLY <1>2, <2>1, <2>2, PlaceHasTime
  <2> QED BY <2>3 DEF Times
<1>9. n = WheelLen * (t + e) + k
  <2> HIDE DEF t
  <2>1. n = (IF k = 0 THEN WheelLen ELSE k) + t * WheelLen
    BY DEF FirstTime, t
  <2>2. t * WheelLen = WheelLen * t /\ WheelLen * (t + 1) = WheelLen * t + WheelLen
        /\ t * WheelLen \in Int /\ WheelLen * (t + 0) = WheelLen * t
    BY <1>1, <1>5
  <2> QED BY <1>1, <2>1, <2>2
<1> HIDE DEF n, t, s
<1>10. n \in Int /\ t + e \in Int
  BY <1>1, <1>5, <1>9
<1>11. n \div WheelLen = t + e /\ n % WheelLen = k
  BY <1>1, <1>9, <1>10, DivModIs
<1>12. (n + cursor) % WheelLen = s
  BY <1>1, <1>10, <1>11, AheadPlace DEF SlotOf, s
<1>13. Turn(n, scanning) = t
  BY <1>5, <1>11 DEF Turn
<1>14. n = m
  <2>1. m \in Int
    BY WheelNumbers
  <2> QED BY <1>1, <1>8, <1>10, <1>12, <1>13, <2>1, PlaceIsTime
<1>15. WheelDue[m] = ComingUp(list, roll, t)
  <2>1. SlotOf(m) = s /\ TurnsOf(m) = t
    BY <1>1, <1>8, TimePlace, WheelNumbers DEF SlotOf
  <2> QED BY <2>1, DueIs DEF s
<1> QED
  BY <1>6, <1>14, <1>15 DEF n

(* Whatever comes up, the first node of its list comes up no later.        *)
LEMMA FirstIsFirst ==
  ASSUME WheelInv, ~scanning, NEW n \in Times, WheelDue[n] # << >>
  PROVE  \E k \in Waiting : FirstTime(k) <= n
<1> DEFINE k == n % WheelLen
           s == Ahead(k)
           list == link[s]
           t == roll[Head(list)]
           m == TurnsOf(n)
<1>1. /\ WheelLen \in Nat \ {0} /\ cursor \in Slots /\ n \in Int /\ k \in Slots
      /\ SlotOf(n) = s /\ s \in Slots /\ m \in Int /\ k \in 0 .. WheelLen - 1
  <2>1. WheelLen \in Nat \ {0} /\ cursor \in Slots /\ n \in Int
    BY WheelNumbers DEF WheelInv
  <2>2. k \in Slots /\ SlotOf(n) = s
    BY <2>1, AheadPlace
  <2>3. SlotOf(n) \in Slots /\ m \in Int
    BY <2>1, TimePlace
  <2> HIDE DEF s
  <2> QED BY <2>1, <2>2, <2>3 DEF Slots
<1>2. list \in Seq(Client) /\ roll \in [Client -> Nat]
  BY <1>1 DEF WheelInv
<1>3. WheelDue[n] = ComingUp(list, roll, m)
  BY <1>1, DueIs
<1>4. ComingUp(list, roll, m) # << >> /\ list # << >>
  BY <1>3, EmptyComingUp
<1>5. k \in Waiting
  BY <1>1, <1>4 DEF Waiting
<1>6. /\ Head(list) \in Client /\ 1 \in 1 .. Len(list) /\ list[1] = Head(list)
      /\ Len(list) \in Nat
  BY <1>2, <1>4, TailLinks, LenProperties
<1>7. t \in Nat /\ TimeTo(list, roll, 1) = t
  <2>1. TimeTo(list, roll, 0) = 0 /\ TimeTo(list, roll, 1) = TimeTo(list, roll, 1 - 1) + roll[list[1]]
    BY <1>6, TimeToSteps
  <2> QED BY <1>2, <1>6, <2>1
<1>8. t <= m
  <2> HIDE DEF list, m, t
  <2> DEFINE up == ComingUp(list, roll, m)
  <2>1. up \in Seq(Client)
    BY ONLY <1>1, <1>2, ComingUpSection
  <2>2. up # << >>
    BY <1>4
  <2> HIDE DEF up
  <2>3. Linked(up, Head(up))
    BY <2>1, <2>2, TailLinks
  <2>4. PICK j \in 1 .. Len(list) : TimeTo(list, roll, j) = m
    <3> DEFINE h == Head(up)
    <3> HIDE DEF h
    <3>1. Linked(ComingUp(list, roll, m), h)
      BY <2>3 DEF h, up
    <3>2. \E j \in 1 .. Len(list) : list[j] = h /\ TimeTo(list, roll, j) = m
      BY ONLY <1>1, <1>2, <3>1, ComingUpLinks
    <3> QED BY <3>2
  <2>5. 1 \in 0 .. Len(list) /\ j \in 0 .. Len(list) /\ 1 <= j
    BY <1>6
  <2>6. TimeTo(list, roll, 1) <= TimeTo(list, roll, j)
    BY <1>2, <2>5, TimeToGrows
  <2> QED BY <1>7, <2>4, <2>6
<1>9. FirstTime(k) = (IF k = 0 THEN WheelLen ELSE k) + t * WheelLen
  BY DEF FirstTime
<1>10. /\ n \div WheelLen \in Int /\ n = WheelLen * (n \div WheelLen) + k
       /\ m = (n \div WheelLen) - (IF k = 0 THEN 1 ELSE 0)
  BY <1>1, DivMod DEF TurnsOf
<1> DEFINE q == n \div WheelLen
<1> HIDE DEF k, t, m, q
<1>11. FirstTime(k) <= n
  <2>1. q \in Int /\ n = WheelLen * q + k /\ m = q - (IF k = 0 THEN 1 ELSE 0)
    BY <1>10 DEF q
  <2>2. WheelLen * t <= WheelLen * m
    BY <1>1, <1>7, <1>8
  <2>3. t * WheelLen = WheelLen * t /\ WheelLen * (q - 1) = WheelLen * q - WheelLen
        /\ WheelLen * t \in Int /\ WheelLen * q \in Int
    BY <1>1, <1>7, <2>1
  <2>4. CASE k = 0
    <3>1. WheelLen * m = WheelLen * q - WheelLen
      BY <2>1, <2>3, <2>4
    <3> QED BY <1>1, <1>9, <2>1, <2>2, <2>3, <2>4, <3>1
  <2>5. CASE k # 0
    <3>1. WheelLen * m = WheelLen * q
      BY <2>1, <2>5
    <3> QED BY <1>1, <1>9, <2>1, <2>2, <2>3, <2>5, <3>1
  <2> QED BY <2>4, <2>5
<1> QED
  BY <1>5, <1>11

LEMMA SleepIs ==
  ASSUME WheelInv PROVE SleepIsExact
<1> SUFFICES ASSUME ~scanning
             PROVE  NextSwitchTime =
                      (IF \A n \in DOMAIN WheelDue : WheelDue[n] = << >> THEN 0
                       ELSE Min({n \in DOMAIN WheelDue : WheelDue[n] # << >>}))
  BY DEF SleepIsExact
<1> DEFINE times == {FirstTime(k) : k \in Waiting}
           dues == {n \in Times : WheelDue[n] # << >>}
<1>1. NextSwitchTime = IF times = {} THEN 0 ELSE Min(times)
  BY DEF NextSwitchTime, FirstTime, Waiting, Ahead
<1>2. times \subseteq dues
  BY FirstIsDue
<1>3. \A n \in dues : \E a \in times : a <= n
  BY FirstIsFirst
<1>4. dues \in SUBSET Nat /\ times \in SUBSET Nat
  BY <1>2, WheelNumbers
<1>5. times = {} <=> dues = {}
  BY <1>2, <1>3
<1>6. dues # {} => Min(times) = Min(dues)
  <2> HIDE DEF times, dues
  <2> QED BY <1>2, <1>3, <1>4, SameMin
<1>7. dues = {} <=> \A n \in DOMAIN WheelDue : WheelDue[n] = << >>
  BY DueIs
<1>8. dues = {n \in DOMAIN WheelDue : WheelDue[n] # << >>}
  BY DueIs
<1> HIDE DEF times, dues
<1> QED
  BY <1>1, <1>5, <1>6, <1>7, <1>8

(* osTaskNextSwitchTimeGet returns the time to the first expiry, and 0 if  *)
(* nothing waits.                                                          *)
THEOREM SleepIsExactHolds == Spec => []SleepIsExact
<1>1. WheelInv => SleepIsExact
  BY SleepIs
<1> QED
  BY <1>1, WheelAlways, PTL
=============================================================================
