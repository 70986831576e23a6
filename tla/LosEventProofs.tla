--------------------------- MODULE LosEventProofs ---------------------------
(***************************************************************************)
(* Theorems of the event flags, for any number of tasks and events, any    *)
(* flags, demands and timeouts, and any calls of the scheduler between     *)
(* theirs: that no reader sleeps while its demand is met, and, where no    *)
(* task is deleted by another, the contract.                               *)
(***************************************************************************)
EXTENDS LosEvent, LosTaskProofs

(***************************************************************************)
(* Families of lists under a write that wakes many tasks at once.          *)
(***************************************************************************)
Those(M, at, d) == {t \in M : at[t] = d}

LEMMA FiledMore ==
  ASSUME NEW D, NEW f \in [D -> Seq(Task)], NEW at \in [Task -> D], NEW R, Filed(f, at, R),
         NEW M \in SUBSET Task, M \cap R = {},
         NEW list \in Seq(Task), NoRepeat(list), \A t \in M : Linked(list, t),
         NEW g, DOMAIN g = D,
         \A d \in D : g[d] = f[d] \o Only(list, Those(M, at, d))
  PROVE  Filed(g, at, R \cup M)
<1> DEFINE Here(d) == Those(M, at, d)
<1>1. ASSUME NEW d \in D
      PROVE  /\ f[d] \in Seq(Task) /\ Only(list, Here(d)) \in Seq(Task)
             /\ NoRepeat(f[d]) /\ NoRepeat(Only(list, Here(d)))
             /\ \A x : Linked(Only(list, Here(d)), x) <=> x \in Here(d)
             /\ \A x \in Task : Linked(f[d], x) <=> x \in R /\ at[x] = d
  <2>1. /\ Only(list, Here(d)) \in Seq(Task) /\ NoRepeat(Only(list, Here(d)))
        /\ \A x : Linked(Only(list, Here(d)), x) <=> Linked(list, x) /\ x \in Here(d)
    BY OnlyLinks
  <2>2. DOMAIN f = D /\ f[d] \in Seq(Task)
    OBVIOUS
  <2>3. \A x \in Task : Linked(f[d], x) <=> x \in R /\ at[x] = d
    BY <2>2 DEF Filed
  <2> QED
    BY <2>1, <2>2, <2>3 DEF Filed, Distinct, Those
<1>2. ASSUME NEW d \in D
      PROVE  /\ NoRepeat(g[d]) /\ \A x \in Task : Linked(g[d], x) <=> x \in R \cup M /\ at[x] = d
  <2>1. g[d] = f[d] \o Only(list, Here(d))
    OBVIOUS
  <2> DEFINE b == Only(list, Here(d))
  <2>2. /\ f[d] \in Seq(Task) /\ b \in Seq(Task) /\ NoRepeat(f[d]) /\ NoRepeat(b)
        /\ \A x : Linked(b, x) <=> x \in M /\ at[x] = d
        /\ \A x \in Task : Linked(f[d], x) <=> x \in R /\ at[x] = d
    BY <1>1 DEF Those
  <2>3. \A x : ~ (Linked(f[d], x) /\ Linked(b, x))
    BY <2>2
  <2> HIDE DEF b
  <2>4. /\ \A x : Linked(f[d] \o b, x) <=> Linked(f[d], x) \/ Linked(b, x)
        /\ NoRepeat(f[d] \o b)
    BY ONLY <2>2, <2>3, ConcatLinks
  <2>5. g[d] = f[d] \o b
    BY <2>1 DEF b
  <2> QED
    BY <2>2, <2>4, <2>5
<1> QED
  BY <1>2 DEF Filed, Distinct

LEMMA FiledOnly ==
  ASSUME NEW D, NEW f \in [D -> Seq(Task)], Distinct(f), NEW M
  PROVE  /\ Distinct([d \in D |-> Only(f[d], Task \ M)])
         /\ \A d \in D, x \in Task :
              Linked(Only(f[d], Task \ M), x) <=> Linked(f[d], x) /\ x \notin M
<1> DEFINE g == [d \in D |-> Only(f[d], Task \ M)]
<1>1. ASSUME NEW d \in D
      PROVE  /\ NoRepeat(g[d]) /\ g[d] = Only(f[d], Task \ M)
             /\ \A x \in Task : Linked(g[d], x) <=> Linked(f[d], x) /\ x \notin M
  <2>1. f[d] \in Seq(Task) /\ NoRepeat(f[d])
    BY DEF Distinct
  <2>2. /\ \A x : Linked(Only(f[d], Task \ M), x) <=> Linked(f[d], x) /\ x \in Task \ M
        /\ NoRepeat(Only(f[d], Task \ M))
    BY <2>1, OnlyLinks
  <2> QED
    BY <2>2
<1>2. DOMAIN g = D /\ DOMAIN f = D
  OBVIOUS
<1> HIDE DEF g
<1>3. Distinct(g)
  BY <1>1, <1>2 DEF Distinct
<1> QED
  BY <1>1, <1>3 DEF g
-----------------------------------------------------------------------------
(***************************************************************************)
(* osTaskWake for many waiters.                                            *)
(***************************************************************************)
LEMMA TcbWakeAll ==
  ASSUME TcbInv, NEW w \in WaitList, NEW M \in SUBSET Task, TaskWakeAll(M, w),
         UNCHANGED <<pri, recycle>>
  PROVE  TcbInv'
<1>1. waiting' \in [WaitList -> Seq(Task)]
  <2>1. waiting[w] \in Seq(Task) /\ waiting' = [waiting EXCEPT ![w] = Only(waiting[w], Task \ M)]
    BY DEF TaskWakeAll, TcbInv
  <2>2. Only(waiting[w], Task \ M) \in Seq(Task)
    BY <2>1, OnlyLinks
  <2> QED
    BY <2>1, <2>2 DEF TcbInv
<1>2. due' \in [0 .. MaxDelay -> Seq(Task)]
  <2> DEFINE timed == {t \in M : Is(t, "TIMEOUT")}
  <2>1. due' = [n \in 0 .. MaxDelay |-> Only(due[n], Task \ timed)]
    BY DEF TaskWakeAll, TcbInv
  <2> HIDE DEF timed
  <2>2. \A n \in 0 .. MaxDelay : due[n] \in Seq(Task)
    BY DEF TcbInv
  <2>3. \A n \in 0 .. MaxDelay : Only(due[n], Task \ timed) \in Seq(Task)
    BY <2>2, OnlyLinks
  <2> QED
    BY <2>1, <2>3
<1>3. ready' \in [Prio -> Seq(Task)] /\ Linked(ready'[Lowest], Idle)
  <2> DEFINE awake == {t \in M : ~Is(t, "SUSPEND")}
             Here(p) == {t \in awake : pri[t] = p}
  <2>1. ready' = [p \in Prio |-> ready[p] \o Only(waiting[w], Here(p))]
    BY DEF TaskWakeAll
  <2> HIDE DEF awake, Here
  <2>2. ASSUME NEW p \in Prio
        PROVE  /\ ready[p] \o Only(waiting[w], Here(p)) \in Seq(Task)
               /\ \A x : Linked(ready[p], x) => Linked(ready[p] \o Only(waiting[w], Here(p)), x)
    <3>1. ready[p] \in Seq(Task) /\ waiting[w] \in Seq(Task)
      BY DEF TcbInv
    <3>2. Only(waiting[w], Here(p)) \in Seq(Task)
      BY <3>1, OnlyLinks
    <3> QED
      BY <3>1, <3>2, ConcatLinks
  <2>3. Lowest \in Prio
    BY NumberAssumption DEF Prio
  <2> QED
    BY <2>1, <2>2, <2>3 DEF TcbInv
<1>4. status' \in [Task -> SUBSET Flags] /\ Live(Idle)'
  <2>1. \A t \in Task : status'[t] \in {status[t], Woken(t), Woken(t) \cup {"READY"}}
    BY DEF TaskWakeAll
  <2>2. status' = [t \in Task |-> status'[t]]
    BY DEF TaskWakeAll
  <2>3. \A t \in Task : status'[t] \in SUBSET Flags
    BY <2>1 DEF TcbInv, Flags, Woken
  <2>4. "UNUSED" \notin status'[Idle]
    <3>1. "UNUSED" \notin status[Idle] /\ Idle \in Task
      BY TaskAssumption DEF TcbInv, Live, Is
    <3>2. "UNUSED" \notin Woken(Idle) /\ "UNUSED" \notin Woken(Idle) \cup {"READY"}
      BY <3>1 DEF Woken
    <3> QED
      BY <2>1, <3>1, <3>2
  <2> QED
    BY <2>2, <2>3, <2>4 DEF Live, Is
<1>5. fault' \in BOOLEAN
  BY FaultType DEF TaskWakeAll, TcbInv
<1> QED
  BY <1>1, <1>2, <1>3, <1>4, <1>5 DEF TcbInv

LEMMA TypeWakeAll ==
  ASSUME TInv, NEW w \in WaitList, NEW M \in SUBSET Task, TaskWakeAll(M, w),
         NEW c \in Task \cup {Isr}, c # Idle, ThenSchedule(c) \/ ThenReturn,
         UNCHANGED <<pri, recycle, isr>>
  PROVE  TInv'
<1>1. TcbInv'
  BY TcbWakeAll DEF TInv
<1>2. SchedInv' /\ PlaceInv' /\ IsrInv'
  BY <1>1, ThenScheduleInv, ThenReturnInv, IsrSame DEF TInv
<1> QED
  BY <1>1, <1>2 DEF TInv

(* The flags a woken waiter is left with.                                  *)
LEMMA WokenFlags ==
  ASSUME TInv, ListInv, NEW w \in WaitList, NEW M, \A t \in M : Linked(waiting[w], t),
         M \in SUBSET Task, TaskWakeAll(M, w), NEW t \in Task
  PROVE  /\ t \notin M => status'[t] = status[t]
         /\ t \in M =>
              /\ FlagOK(status'[t]) /\ status'[t] \cap Timing = {}
              /\ "READY" \in status'[t] <=> ~Is(t, "SUSPEND")
              /\ \A flag \in {"UNUSED", "RUNNING", "SUSPEND"} : SameFlag(flag, t)
<1>1. status'[t] = IF t \in M THEN (IF Is(t, "SUSPEND") THEN Woken(t) ELSE Woken(t) \cup {"READY"})
                   ELSE status[t]
  BY DEF TaskWakeAll
<1>2. CASE t \in M
  <2>1. Is(t, "PEND") /\ FlagOK(status[t]) /\ ~Is(t, "READY") /\ ~Is(t, "DELAY") /\ ~Is(t, "UNUSED")
    BY <1>2, WaiterPends
  <2> QED
    BY <1>1, <1>2, <2>1 DEF FlagOK, Is, Blocked, Woken, Timing, SameFlag
<1> QED
  BY <1>1, <1>2
(* The lists of the scheduler, but for what the caller does next.          *)
LEMMA WakeAllLists ==
  ASSUME TInv, ListInv, TcbInv', NEW w \in WaitList, NEW M \in SUBSET Task,
         \A t \in M : Linked(waiting[w], t), TaskWakeAll(M, w),
         UNCHANGED <<pri, recycle, tick, arg>>
  PROVE  /\ FlagInv' /\ ReadyInv' /\ WaitInv' /\ DueInv' /\ RecycleInv'
         /\ \A u \in Task : SameFlag("RUNNING", u) /\ SameFlag("UNUSED", u)
         /\ \A u \in Task : Halted(u)' => Halted(u)
         /\ \A d \in Task : pc[d] = "create" => status'[arg[d]] = status[arg[d]]
<1> USE DEF ListInv
<1> DEFINE timed == {t \in M : Is(t, "TIMEOUT")}
           awake == {t \in M : ~Is(t, "SUSPEND")}
<1>1. \A t \in M : /\ Is(t, "PEND") /\ arg[t] = w /\ ~Is(t, "READY") /\ ~Is(t, "DELAY")
  BY WaiterPends
<1>2. \A t \in Task :
         /\ t \notin M => status'[t] = status[t]
         /\ t \in M =>
              /\ FlagOK(status'[t]) /\ status'[t] \cap Timing = {}
              /\ "READY" \in status'[t] <=> ~Is(t, "SUSPEND")
              /\ \A flag \in {"UNUSED", "RUNNING", "SUSPEND"} : SameFlag(flag, t)
  BY WokenFlags
<1>3. FlagInv'
  BY <1>2 DEF FlagInv
<1>4. ReadyInv'
  <2>1. /\ ready \in [Prio -> Seq(Task)] /\ pri \in [Task -> Prio]
        /\ waiting[w] \in Seq(Task) /\ NoRepeat(waiting[w])
    BY DEF TInv, TcbInv, WaitInv, Filed, Distinct
  <2>2. awake \in SUBSET Task /\ awake \cap ReadyTasks = {}
        /\ \A t \in awake : Linked(waiting[w], t)
    BY <1>1 DEF ReadyTasks
  <2>3. ReadyTasks' = ReadyTasks \cup awake
    BY <1>1, <1>2 DEF ReadyTasks, Is
  <2>4. ready' = [p \in Prio |-> ready[p] \o Only(waiting[w], Those(awake, pri, p))]
    BY DEF TaskWakeAll, Those
  <2> HIDE DEF awake
  <2>5. Filed(ready, pri, ReadyTasks)
    BY DEF ReadyInv
  <2>6. Filed(ready', pri, ReadyTasks \cup awake)
    BY ONLY <2>1, <2>2, <2>4, <2>5, FiledMore
  <2> QED
    BY <2>3, <2>6 DEF ReadyInv
<1>5. WaitInv'
  <2>1. PendTasks' = PendTasks \ M
    BY <1>2 DEF PendTasks, Is, Timing
  <2>2. waiting \in [WaitList -> Seq(Task)] /\ Distinct(waiting)
    BY DEF TInv, TcbInv, WaitInv, Filed
  <2>3. \A v \in WaitList, x \in Task : Linked(waiting[v], x) <=> x \in PendTasks /\ arg[x] = v
    BY <2>2 DEF WaitInv, Filed
  <2>4. waiting' = [v \in WaitList |-> Only(waiting[v], Task \ M)]
    <3>1. ASSUME NEW v \in WaitList \ {w}
          PROVE  Only(waiting[v], Task \ M) = waiting[v]
      <4>1. \A x : Linked(waiting[v], x) => x \in Task
        BY <2>2, LenProperties, ElementOfSeq DEF Linked, ToSet
      <4>2. \A x : Linked(waiting[v], x) => x \in Task \ M
        BY <1>1, <2>3, <4>1
      <4> QED
        BY <2>2, <4>2, OnlyAll
    <3>2. waiting' = [waiting EXCEPT ![w] = Only(waiting[w], Task \ M)]
      BY DEF TaskWakeAll
    <3> QED
      BY <2>2, <3>1, <3>2
  <2>8. /\ Distinct([v \in WaitList |-> Only(waiting[v], Task \ M)])
        /\ \A v \in WaitList, x \in Task :
             Linked(Only(waiting[v], Task \ M), x) <=> Linked(waiting[v], x) /\ x \notin M
    BY ONLY <2>2, FiledOnly
  <2>5. /\ Distinct(waiting')
        /\ \A v \in WaitList, x \in Task :
             Linked(waiting'[v], x) <=> Linked(waiting[v], x) /\ x \notin M
    BY <2>4, <2>8
  <2>6. DOMAIN waiting' = WaitList
    BY <2>4
  <2>7. Filed(waiting', arg, PendTasks \ M)
    BY <2>3, <2>5, <2>6 DEF Filed
  <2> QED
    BY <2>1, <2>7 DEF WaitInv
<1>6. DueInv'
  <2>1. due \in [0 .. MaxDelay -> Seq(Task)] /\ Distinct(due) /\ 0 \in 0 .. MaxDelay
    BY NumberAssumption DEF TInv, TcbInv, DueInv
  <2>2. due' = [n \in 0 .. MaxDelay |-> Only(due[n], Task \ timed)]
    BY <2>1 DEF TaskWakeAll
  <2> HIDE DEF timed
  <2>8. /\ Distinct([n \in 0 .. MaxDelay |-> Only(due[n], Task \ timed)])
        /\ \A n \in 0 .. MaxDelay, x \in Task :
             Linked(Only(due[n], Task \ timed), x) <=> Linked(due[n], x) /\ x \notin timed
    BY ONLY <2>1, FiledOnly
  <2>3. /\ Distinct(due')
        /\ \A n \in 0 .. MaxDelay, x \in Task :
             Linked(due'[n], x) <=> Linked(due[n], x) /\ x \notin timed
    BY <2>2, <2>8
  <2>4. DOMAIN due' = 0 .. MaxDelay /\ DOMAIN due = 0 .. MaxDelay
    BY <2>1, <2>2
  <2>5. \A u \in Task : Armed(due', u) <=> Armed(due, u) /\ u \notin timed
    BY <2>3, <2>4 DEF Armed
  <2>6. due[0] = << >> => due'[0] = << >>
    <3>1. due[0] = << >> => \A x : ~Linked(due[0], x)
      BY DEF Linked, ToSet
    <3>2. due[0] \in Seq(Task) /\ due'[0] = Only(due[0], Task \ timed)
      BY <2>1, <2>2
    <3> QED
      BY <3>1, <3>2, OnlyNone
  <2>7. ASSUME NEW u \in Task
        PROVE  /\ Armed(due', u) => Is(u, "DELAY")' \/ (Is(u, "PEND")' /\ Is(u, "TIMEOUT")')
               /\ Is(u, "DELAY")' => Armed(due', u)
    <3>1. /\ Armed(due, u) => Is(u, "DELAY") \/ (Is(u, "PEND") /\ Is(u, "TIMEOUT"))
          /\ Is(u, "DELAY") => Armed(due, u)
      BY DEF DueInv
    <3>2. CASE u \in M
      <4>1. ~Armed(due', u)
        BY <1>1, <2>5, <3>1, <3>2 DEF timed
      <4> QED
        BY <1>2, <3>2, <4>1 DEF Is, Timing
    <3>3. CASE u \notin M
      BY <1>2, <2>5, <3>1, <3>3 DEF Is, timed
    <3> QED
      BY <3>2, <3>3
  <2> QED
    BY <2>3, <2>6, <2>7 DEF DueInv
<1>7. \A u \in Task : SameFlag("RUNNING", u) /\ SameFlag("UNUSED", u)
  BY <1>2 DEF SameFlag
<1>8. RecycleInv'
  BY <1>7, RecycleKeep DEF TInv
<1>9. \A u \in Task : Halted(u)' => Halted(u)
  BY <1>2 DEF Halted, Is, Timing
<1>10. ASSUME NEW d \in Task, pc[d] = "create"
       PROVE  status'[arg[d]] = status[arg[d]]
  <2>1. arg[d] \in Task /\ status[arg[d]] = {"SUSPEND"}
    BY <1>10 DEF CreateInv, TInv, PlaceInv
  <2>2. arg[d] \notin M
    BY <1>1, <2>1 DEF Is
  <2> QED
    BY <1>2, <2>1, <2>2
<1> QED
  BY <1>3, <1>4, <1>5, <1>6, <1>7, <1>8, <1>9, <1>10

LEMMA ListWakeAll ==
  ASSUME StepFrom, NEW w \in WaitList, NEW M \in SUBSET Task,
         \A t \in M : Linked(waiting[w], t), TaskWakeAll(M, w),
         NEW c \in Task \cup {Isr}, ThenSchedule(c), UNCHANGED <<pri, recycle, isr>>
  PROVE  ListInv'
<1> USE DEF StepFrom
<1>1. UNCHANGED <<tick, run, arg>>
  BY DEF ThenSchedule, isr
<1>2. /\ FlagInv' /\ ReadyInv' /\ WaitInv' /\ DueInv' /\ RecycleInv'
      /\ \A u \in Task : SameFlag("RUNNING", u) /\ SameFlag("UNUSED", u)
      /\ \A u \in Task : Halted(u)' => Halted(u)
      /\ \A d \in Task : pc[d] = "create" => status'[arg[d]] = status[arg[d]]
  BY <1>1, WakeAllLists DEF TInv
<1>3. /\ "UNUSED" \notin status'[new'] /\ (new' = new \/ "READY" \in status'[new'])
  BY <1>2, ThenScheduleNew DEF TInv, ListInv
<1>4. RunInv'
  BY <1>1, <1>2, <1>3, RunKeep DEF ListInv
<1>5. BlockInv'
  BY <1>2, BlockThen DEF TInv, ListInv
<1>6. CreateInv'
  <2>1. \A d \in Task : pc'[d] = "create" => pc[d] = "create" /\ arg'[d] = arg[d]
    BY DEF ThenSchedule, TInv, PlaceInv
  <2> QED
    BY <1>2, <1>3, <2>1, CreateKeep DEF TInv, ListInv
<1> QED
  BY <1>2, <1>4, <1>5, <1>6 DEF ListInv

LEMMA CallWakeAll ==
  ASSUME TInv, ListInv, CallInv, NEW w \in WaitList, NEW M \in SUBSET Task,
         \A t \in M : Linked(waiting[w], t), TaskWakeAll(M, w),
         NEW c \in Task \cup {Isr}, ThenSchedule(c)
  PROVE  CallInv'
<1>1. \A t \in Task :
         /\ t \notin M => status'[t] = status[t]
         /\ t \in M => status'[t] \cap Timing = {}
  BY WokenFlags
<1>2. \A u \in Task : (pc'[u] = pc[u] \/ pc'[u] = "sched") /\ arg'[u] = arg[u]
  BY CallThen
<1>3. ASSUME NEW u \in Task \ M, Armed(due, u) PROVE Armed(due', u)
  <2> DEFINE timed == {t \in M : Is(t, "TIMEOUT")}
  <2>1. due \in [0 .. MaxDelay -> Seq(Task)]
    BY DEF TInv, TcbInv
  <2>2. due' = [n \in 0 .. MaxDelay |-> Only(due[n], Task \ timed)] /\ u \in Task \ timed
    BY <2>1 DEF TaskWakeAll
  <2> HIDE DEF timed
  <2>3. PICK n \in 0 .. MaxDelay : Linked(due[n], u)
    BY <1>3, <2>1 DEF Armed
  <2>4. due[n] \in Seq(Task)
    BY <2>1
  <2>5. Linked(Only(due[n], Task \ timed), u)
    BY <2>2, <2>3, <2>4, OnlyLinks
  <2> QED
    BY <2>2, <2>5 DEF Armed
<1>4. \A u \in Task : Is(u, "TIMEOUT")' => Is(u, "TIMEOUT") /\ arg'[u] = arg[u]
  BY <1>1, <1>2 DEF Is, Timing
<1>5. \A u \in Task : Is(u, "PEND")' /\ Is(u, "TIMEOUT")' =>
         Is(u, "PEND") /\ (Armed(due, u) => Armed(due', u))
  BY <1>1, <1>3 DEF Is, Timing
<1> QED
  BY <1>2, <1>4, <1>5, CallKeep
-----------------------------------------------------------------------------
(* A wait that nobody ends, and a write that wakes nobody.                 *)
LEMMA WakeNone ==
  ASSUME TcbInv, NEW w \in WaitList, TaskWakeAll({}, w), ThenReturn,
         UNCHANGED <<pri, recycle, isr>>
  PROVE  UNCHANGED vars
<1>1. /\ waiting' = [waiting EXCEPT ![w] = Only(waiting[w], Task \ {})]
      /\ due' = [n \in DOMAIN due |-> Only(due[n], Task \ {})]
      /\ status' = [t \in Task |-> status[t]]
      /\ ready' = [p \in Prio |-> ready[p] \o Only(waiting[w], {})]
  <2>1. {t \in {} : Is(t, "TIMEOUT")} = {} /\ {t \in {} : ~Is(t, "SUSPEND")} = {}
        /\ \A p : {t \in {} : pri[t] = p} = {}
    OBVIOUS
  <2> QED
    BY <2>1 DEF TaskWakeAll
<1>2. ASSUME NEW list \in Seq(Task)
      PROVE  Only(list, Task \ {}) = list /\ Only(list, {}) = << >> /\ list \o << >> = list
  <2>1. \A x : Linked(list, x) => x \in Task \ {}
    BY LenProperties, ElementOfSeq DEF Linked, ToSet
  <2>2. Only(list, Task \ {}) = list
    BY <2>1, OnlyAll
  <2>3. Only(list, {}) = << >>
    BY OnlyNone
  <2> QED
    BY <2>2, <2>3, ConcatEmptySeq
<1>3. waiting' = waiting
  BY <1>1, <1>2 DEF TcbInv
<1>4. due' = due
  BY <1>1, <1>2 DEF TcbInv
<1>5. status' = status
  BY <1>1 DEF TcbInv
<1>6. ready' = ready
  <2>1. ready' = [p \in Prio |-> ready[p]]
    BY <1>1, <1>2 DEF TcbInv
  <2> QED
    BY <2>1 DEF TcbInv
<1>7. fault' = fault
  BY DEF TaskWakeAll, Unlinking, TcbInv
<1> QED
  BY <1>3, <1>4, <1>5, <1>6, <1>7 DEF ThenReturn, vars, tcb
-----------------------------------------------------------------------------
(***************************************************************************)
(* The lists of the scheduler under the steps of los_event.c.              *)
(***************************************************************************)
HoldInv == TInv /\ ListInv /\ CallInv

LEMMA HoldAlone ==
  ASSUME HoldInv, UNCHANGED vars
  PROVE  HoldInv'
<1>1. TInv'
  BY TInvStep DEF vars, HoldInv
<1>2. ListInv'
  BY <1>1, ListInvStep DEF HoldInv
<1>3. CallInv'
  BY CallKeep DEF vars, tcb, HoldInv, Is
<1> QED
  BY <1>1, <1>2, <1>3 DEF HoldInv

LEMMA HoldWait ==
  ASSUME HoldInv, NEW c \in Task \cup {Isr}, NEW e \in WaitList, NEW d, NEW n \in Timeouts,
         EventWait(c, e, d, n)
  PROVE  HoldInv'
<1> USE DEF HoldInv
<1>1. /\ c \in Task /\ c # Idle /\ Running(c) /\ pc[c] = "user" /\ taskLock = 0
      /\ Waits(ready, c, e, n) /\ UNCHANGED pri
  BY TaskAssumption DEF EventWait, Enters, Waits
<1>2. WaitTime(n)
  BY DemandAssumption DEF WaitTime
<1>3. ready \in [Prio -> Seq(Task)] /\ Filed(ready, pri', ReadyTasks) /\ pri'[c] = pri[c]
      /\ Linked(ready[Lowest], Idle) /\ pri' \in [Task -> Prio] /\ pri'[Idle] = Lowest
  BY <1>1 DEF TInv, TcbInv, ListInv, ReadyInv
<1>4. TInv'
  BY <1>1, <1>2, <1>3, TypeWait
<1>5. ListInv'
  BY <1>1, <1>2, <1>3, <1>4, ListWait DEF StepFrom
<1>6. CallInv'
  BY <1>1, <1>2, CallWait
<1> QED
  BY <1>4, <1>5, <1>6

(* The waiters that a write wakes.                                         *)
MetBy(e, bits) == {t \in ToSet(waiting[e]) : Met(t, e, bits)}

LEMMA MetWait ==
  ASSUME TInv, NEW e \in WaitList, NEW bits
  PROVE  /\ MetBy(e, bits) \in SUBSET Task
         /\ \A t \in MetBy(e, bits) : Linked(waiting[e], t)
<1>1. waiting[e] \in Seq(Task)
  BY DEF TInv, TcbInv
<1> QED
  BY <1>1, LenProperties, ElementOfSeq DEF MetBy, Linked, ToSet

LEMMA WriteWakes ==
  ASSUME NEW c, NEW e, NEW bits, EventWrite(c, e, bits)
  PROVE  /\ TaskWakeAll(MetBy(e, bits), e) /\ UNCHANGED <<pri, recycle, isr>>
         /\ IF MetBy(e, bits) # {} THEN ThenSchedule(c) ELSE ThenReturn
BY DEF EventWrite, MetBy

LEMMA HoldWrite ==
  ASSUME HoldInv, NEW c \in Task \cup {Isr}, NEW e \in WaitList, NEW bits,
         EventWrite(c, e, bits)
  PROVE  HoldInv'
<1> DEFINE M == MetBy(e, bits)
<1>1. /\ M \in SUBSET Task /\ \A t \in M : Linked(waiting[e], t)
      /\ TaskWakeAll(M, e) /\ UNCHANGED <<pri, recycle, isr>>
      /\ M # {} => ThenSchedule(c)
      /\ M = {} => ThenReturn
  BY WriteWakes, MetWait DEF HoldInv
<1>2. c # Idle
  BY Callers DEF EventWrite
<1> HIDE DEF M
<1>3. CASE M = {}
  BY <1>1, <1>3, WakeNone, HoldAlone DEF HoldInv, TInv
<1>4. CASE M # {}
  <2>1. TInv'
    BY <1>1, <1>2, <1>4, TypeWakeAll DEF HoldInv
  <2>2. ListInv'
    BY <1>1, <1>4, <2>1, ListWakeAll DEF HoldInv, StepFrom
  <2>3. CallInv'
    BY <1>1, <1>4, CallWakeAll DEF HoldInv
  <2> QED
    BY <2>1, <2>2, <2>3 DEF HoldInv
<1> QED
  BY <1>3, <1>4

LEMMA HoldReturn ==
  ASSUME HoldInv, NEW c \in Task, EventGoOn(c) \/ EventTimedOut(c)
  PROVE  HoldInv'
<1> USE DEF HoldInv
<1>1. Running(c) /\ pc[c] = "ret"
  BY DEF EventGoOn, EventTimedOut
<1>2. Back(c)
  BY DEF EventGoOn, EventTimedOut, Back, NoUnlinking, tcb
<1>3. "TIMEOUT" \notin status'[c]
  BY DEF EventGoOn, EventTimedOut, tcb, Is, TInv, TcbInv
<1>4. TInv'
  BY <1>2, TypeBack
<1> QED
  BY <1>1, <1>2, <1>3, <1>4, ListBack, CallBack DEF StepFrom

LEMMA HoldInvStep ==
  ASSUME HoldInv, [EventNext]_evvars
  PROVE  HoldInv'
<1>1. CASE UNCHANGED vars
  BY <1>1, HoldAlone
<1>2. CASE Next
  BY <1>2, TInvStep, ListInvStep, CallInvStep DEF HoldInv
<1>3. CASE EventStep
  <2>1. ASSUME NEW c \in Task \cup {Isr}, NEW e \in WaitList,
               \/ EventInit(c, e) \/ EventDestory(c, e)
               \/ \E d \in Demand : EventTake(c, e, d)
               \/ \E bits \in Writes : EventClear(c, e, bits)
        PROVE  HoldInv'
    BY <1>1, <2>1 DEF EventInit, EventDestory, EventTake, EventClear
  <2> QED
    BY <1>3, <2>1, HoldWait, HoldWrite DEF EventStep
<1> QED
  BY <1>1, <1>2, <1>3, HoldReturn DEF EventNext, Returns, evvars
-----------------------------------------------------------------------------
(***************************************************************************)
(* Who sleeps, and for what.                                               *)
(***************************************************************************)
EventTypes ==
  /\ evInit \subseteq WaitList
  /\ event \in [WaitList -> SUBSET Bit]
  /\ want \in [Task -> Demand \cup {NoDemand}]

(* A sleeper's event is in use, and what it wants is not there.            *)
SleeperInv ==
  \A e \in WaitList, t \in Task : Linked(waiting[e], t) =>
    e \in evInit /\ want[t] \in Demand /\ Polled(event[e], want[t]) = {}

EventInv == HoldInv /\ EventTypes /\ SleeperInv

(* Fewer flags do not meet a demand that more did not meet.                *)
LEMMA PolledFewer ==
  ASSUME NEW set, NEW less, less \subseteq set, NEW d, Polled(set, d) = {}
  PROVE  Polled(less, d) = {}
BY DEF Polled

LEMMA PollLeavesFewer ==
  ASSUME NEW set, NEW d
  PROVE  PollLeaves(set, d) \subseteq set
BY DEF PollLeaves

(* The test of LOS_EventWrite, which looks at the written flags only if    *)
(* any will do, finds just the sleepers whose demand is met.               *)
LEMMA MetIsPolled ==
  ASSUME EventTypes, NEW e \in WaitList, NEW t \in Task, want[t] \in Demand,
         Polled(event[e], want[t]) = {}, NEW bits
  PROVE  Met(t, e, bits) <=> Polled(event[e] \cup bits, want[t]) # {}
<1>1. want[t].mode \in {"or", "and"} /\ want[t].mask # {}
  BY DemandAssumption
<1> QED
  BY <1>1 DEF Met, Polled

(* No step of the scheduler links a task to a wait list.                   *)
LEMMA SchedulerLinks ==
  ASSUME TInv, Next, NEW w \in WaitList, NEW t, Linked(waiting'[w], t)
  PROVE  Linked(waiting[w], t)
<1>1. waiting[w] \in Seq(Task)
  BY DEF TInv, TcbInv
<1>2. \A x : Linked(Unlink(waiting[w], x), t) => Linked(waiting[w], t)
  <2> SUFFICES ASSUME NEW x, Linked(Unlink(waiting[w], x), t) PROVE Linked(waiting[w], t)
    OBVIOUS
  <2>1. CASE t = x
    BY <1>1, <2>1, UnlinkNone
  <2>2. CASE t # x
    BY <1>1, <2>2, UnlinkKeeps
  <2> QED
    BY <2>1, <2>2
<1>3. waiting' = waiting \/ \E x : waiting'[w] = Unlink(waiting[w], x)
  BY SchedulerUnlinks
<1> QED
  BY <1>2, <1>3

LEMMA RunnerAwake ==
  ASSUME HoldInv, NEW c \in Task, Running(c), pc[c] # "sched", NEW e \in WaitList
  PROVE  ~Linked(waiting[e], c)
BY RunnerNotHalted, WaiterPends DEF HoldInv, ListInv, Halted

LEMMA SleeperKeep ==
  ASSUME SleeperInv,
         \A e \in WaitList, t \in Task : Linked(waiting'[e], t) =>
           /\ Linked(waiting[e], t) /\ want'[t] = want[t]
           /\ e \in evInit => e \in evInit'
           /\ event'[e] \subseteq event[e]
  PROVE  SleeperInv'
BY PolledFewer DEF SleeperInv

LEMMA SleeperWait ==
  ASSUME EventInv, NEW c \in Task \cup {Isr}, NEW e \in WaitList, NEW d \in Demand,
         NEW n \in Timeouts, EventWait(c, e, d, n)
  PROVE  EventTypes' /\ SleeperInv'
<1>1. /\ c \in Task /\ Running(c) /\ pc[c] = "user" /\ e \in evInit
      /\ Polled(event[e], d) = {} /\ UNCHANGED <<evInit, event>>
      /\ want' = [want EXCEPT ![c] = d]
      /\ waiting' = [waiting EXCEPT ![e] = Append(waiting[e], c)]
  BY DEF EventWait, Enters, TaskWait
<1>2. waiting \in [WaitList -> Seq(Task)]
  BY DEF EventInv, HoldInv, TInv, TcbInv
<1>3. \A x : Linked(Append(waiting[e], c), x) <=> Linked(waiting[e], x) \/ x = c
  BY <1>1, <1>2, AppendLinks
<1>4. \A s \in WaitList : ~Linked(waiting[s], c)
  BY <1>1, RunnerAwake DEF EventInv
<1>5. EventTypes'
  BY <1>1 DEF EventInv, EventTypes
<1>6. ASSUME NEW s \in WaitList, NEW t \in Task, Linked(waiting'[s], t)
      PROVE  s \in evInit' /\ want'[t] \in Demand /\ Polled(event'[s], want'[t]) = {}
  <2>1. CASE t = c
    <3>1. s = e
      BY <1>1, <1>2, <1>4, <1>6, <2>1
    <3> QED
      BY <1>1, <2>1, <3>1 DEF EventInv, EventTypes
  <2>2. CASE t # c
    <3>1. Linked(waiting[s], t) /\ want'[t] = want[t]
      BY <1>1, <1>2, <1>3, <1>6, <2>2 DEF EventInv, EventTypes
    <3> QED
      BY <1>1, <3>1 DEF EventInv, SleeperInv
  <2> QED
    BY <2>1, <2>2
<1> QED
  BY <1>5, <1>6 DEF SleeperInv

LEMMA SleeperWrite ==
  ASSUME EventInv, NEW c \in Task \cup {Isr}, NEW e \in WaitList, NEW bits \in Writes,
         EventWrite(c, e, bits)
  PROVE  EventTypes' /\ SleeperInv'
<1> DEFINE M == MetBy(e, bits)
<1>1. /\ event' = [event EXCEPT ![e] = event[e] \cup bits] /\ UNCHANGED <<evInit, want>>
      /\ waiting' = [waiting EXCEPT ![e] = Only(waiting[e], Task \ M)]
  <2>1. event' = [event EXCEPT ![e] = event[e] \cup bits] /\ UNCHANGED <<evInit, want>>
    BY DEF EventWrite
  <2>2. TaskWakeAll(M, e)
    BY WriteWakes
  <2>3. waiting' = [waiting EXCEPT ![e] = Only(waiting[e], Task \ M)]
    BY <2>2 DEF TaskWakeAll
  <2> QED
    BY <2>1, <2>3
<1>2. waiting \in [WaitList -> Seq(Task)] /\ event \in [WaitList -> SUBSET Bit]
      /\ EventTypes
  BY DEF EventInv, HoldInv, TInv, TcbInv, EventTypes
<1>3. \A x : Linked(Only(waiting[e], Task \ M), x) <=> Linked(waiting[e], x) /\ x \in Task \ M
  BY <1>2, OnlyLinks
<1>4. EventTypes'
  <2>1. bits \subseteq Bit
    BY DemandAssumption
  <2> QED
    BY <1>1, <1>2, <2>1 DEF EventTypes
<1>5. ASSUME NEW s \in WaitList, NEW t \in Task, Linked(waiting'[s], t)
      PROVE  s \in evInit /\ want[t] \in Demand /\ Polled(event'[s], want[t]) = {}
  <2>1. CASE s # e
    <3>1. Linked(waiting[s], t) /\ event'[s] = event[s]
      BY <1>1, <1>2, <1>5, <2>1
    <3> QED
      BY <3>1 DEF EventInv, SleeperInv
  <2>2. CASE s = e
    <3>1. Linked(waiting[e], t) /\ t \notin M
      BY <1>1, <1>2, <1>3, <1>5, <2>2
    <3>2. s \in evInit /\ want[t] \in Demand /\ Polled(event[e], want[t]) = {}
      BY <2>2, <3>1 DEF EventInv, SleeperInv
    <3>3. ~Met(t, e, bits)
      BY <3>1 DEF MetBy, Linked
    <3>4. Polled(event[e] \cup bits, want[t]) = {}
      BY <1>2, <3>2, <3>3, MetIsPolled
    <3> QED
      BY <1>1, <1>2, <2>2, <3>2, <3>4
  <2> QED
    BY <2>1, <2>2
<1> QED
  BY <1>1, <1>4, <1>5 DEF SleeperInv

LEMMA SleeperFlags ==
  ASSUME EventInv, NEW c \in Task \cup {Isr}, NEW e \in WaitList,
         \/ EventInit(c, e) \/ EventDestory(c, e)
         \/ \E d \in Demand : EventTake(c, e, d)
         \/ \E bits \in Writes : EventClear(c, e, bits)
  PROVE  EventTypes' /\ SleeperInv'
<1> USE DEF EventInv
<1>1. UNCHANGED <<want, waiting>>
  BY DEF EventInit, EventDestory, EventTake, EventClear, vars, tcb
<1>2. CASE EventInit(c, e)
  <2>1. e \notin evInit /\ evInit' = evInit \cup {e} /\ event' = [event EXCEPT ![e] = {}]
    BY <1>2 DEF EventInit
  <2> QED
    BY <1>1, <2>1, SleeperKeep DEF EventTypes
<1>3. CASE EventDestory(c, e)
  <2>1. waiting[e] = << >> /\ evInit' = evInit \ {e} /\ event' = event
    BY <1>3 DEF EventDestory
  <2>2. \A t : ~Linked(waiting[e], t)
    BY <2>1 DEF Linked, ToSet
  <2> QED
    BY <1>1, <2>1, <2>2, SleeperKeep DEF EventTypes
<1>4. ASSUME NEW less, less \subseteq event[e], event' = [event EXCEPT ![e] = less],
             evInit' = evInit
      PROVE  EventTypes' /\ SleeperInv'
  <2>1. event \in [WaitList -> SUBSET Bit]
    BY DEF EventTypes
  <2>2. \A s \in WaitList : event'[s] \subseteq event[s]
    BY <1>4, <2>1
  <2> QED
    BY <1>1, <1>4, <2>1, <2>2, SleeperKeep DEF EventTypes
<1>5. ASSUME NEW d, EventTake(c, e, d) PROVE EventTypes' /\ SleeperInv'
  BY <1>4, <1>5, PollLeavesFewer DEF EventTake
<1>6. ASSUME NEW bits, EventClear(c, e, bits) PROVE EventTypes' /\ SleeperInv'
  BY <1>4, <1>6 DEF EventClear
<1> QED
  BY <1>2, <1>3, <1>5, <1>6

LEMMA SleeperReturn ==
  ASSUME EventInv, NEW c \in Task, EventGoOn(c) \/ EventTimedOut(c)
  PROVE  EventTypes' /\ SleeperInv'
<1> USE DEF EventInv
<1>1. /\ Running(c) /\ pc[c] = "ret" /\ want' = [want EXCEPT ![c] = NoDemand]
      /\ UNCHANGED <<waiting, evInit>>
  BY DEF EventGoOn, EventTimedOut, tcb
<1>2. \A s \in WaitList : ~Linked(waiting[s], c)
  BY <1>1, RunnerAwake
<1>3. event \in [WaitList -> SUBSET Bit] /\ want \in [Task -> Demand \cup {NoDemand}]
  BY DEF EventTypes
<1>4. event' \in [WaitList -> SUBSET Bit] /\ \A s \in WaitList : event'[s] \subseteq event[s]
  <2>1. CASE EventTimedOut(c)
    BY <1>3, <2>1 DEF EventTimedOut
  <2>2. CASE EventGoOn(c)
    <3> DEFINE left == PollLeaves(event[arg[c]], want[c])
    <3>1. arg[c] \in WaitList /\ left \subseteq event[arg[c]]
      BY <1>1, PollLeavesFewer DEF HoldInv, CallInv
    <3>2. event' = [event EXCEPT ![arg[c]] = left]
      BY <2>2 DEF EventGoOn
    <3> HIDE DEF left
    <3> QED
      BY <1>3, <3>1, <3>2
  <2> QED
    BY <2>1, <2>2
<1>5. EventTypes'
  BY <1>1, <1>3, <1>4 DEF EventTypes
<1>6. SleeperInv'
  BY <1>1, <1>2, <1>3, <1>4, SleeperKeep
<1> QED
  BY <1>5, <1>6

LEMMA EventInvStep ==
  ASSUME EventInv, [EventNext]_evvars
  PROVE  EventInv'
<1>1. HoldInv'
  BY HoldInvStep DEF EventInv
<1>2. CASE UNCHANGED evvars
  <2>1. UNCHANGED <<waiting, evInit, event, want>>
    BY <1>2 DEF evvars, events, vars, tcb
  <2> QED
    BY <1>1, <2>1, SleeperKeep DEF EventInv, EventTypes
<1>3. CASE Next /\ UNCHANGED events
  <2>1. UNCHANGED <<evInit, event, want>>
    BY <1>3 DEF events
  <2>2. \A w \in WaitList, t \in Task : Linked(waiting'[w], t) => Linked(waiting[w], t)
    BY <1>3, SchedulerLinks DEF EventInv, HoldInv
  <2> QED
    BY <1>1, <2>1, <2>2, SleeperKeep DEF EventInv, EventTypes
<1>4. EventStep => EventTypes' /\ SleeperInv'
  BY SleeperWait, SleeperWrite, SleeperFlags DEF EventStep
<1>5. Returns => EventTypes' /\ SleeperInv'
  BY SleeperReturn DEF Returns
<1> QED
  BY <1>1, <1>2, <1>3, <1>4, <1>5 DEF EventNext, EventInv

LEMMA EventInvAlways == EventSpec => []EventInv
<1>1. EvInit => EventInv
  <2> SUFFICES ASSUME EvInit PROVE EventInv
    OBVIOUS
  <2>1. HoldInv
    BY TInvInit, ListInvInit, CallInvInit DEF EvInit, HoldInv
  <2>2. \A w \in WaitList : \A t : ~Linked(waiting[w], t)
    BY DEF EvInit, Init, Linked, ToSet
  <2> QED
    BY <2>1, <2>2 DEF EvInit, EventInv, EventTypes, SleeperInv
<1> QED
  BY <1>1, EventInvStep, PTL DEF EventSpec

(* The variables of the event flags keep their types, and those of the     *)
(* scheduler theirs with writes that wake many tasks in one step.          *)
THEOREM EventTypeCorrect == EventSpec => []EventTypeOK
<1>1. EventInv => EventTypeOK
  BY TInvTypes DEF EventInv, HoldInv, EventTypes, EventTypeOK
<1> QED
  BY <1>1, EventInvAlways, PTL

(* No reader sleeps while the flags meet its demand: that LOS_EventWrite   *)
(* tests the written flags only for readers who want any of theirs misses  *)
(* nobody, whatever polls, clears, timeouts and deletions come between.    *)
THEOREM NoSleepingWinnerHolds == EventSpec => []NoSleepingWinner
<1>1. EventInv => NoSleepingWinner
  <2> SUFFICES ASSUME EventInv, NEW e \in WaitList, NEW t \in ToSet(waiting[e])
               PROVE  Polled(event[e], want[t]) = {}
    BY DEF NoSleepingWinner
  <2>1. waiting[e] \in Seq(Task) /\ Linked(waiting[e], t)
    BY DEF EventInv, HoldInv, TInv, TcbInv, Linked
  <2>2. t \in Task
    BY <2>1, LenProperties, ElementOfSeq DEF Linked, ToSet
  <2> QED
    BY <2>1, <2>2 DEF EventInv, SleeperInv
<1> QED
  BY <1>1, EventInvAlways, PTL
-----------------------------------------------------------------------------
(***************************************************************************)
(* The event flags keep the contract, where no task is deleted by another: *)
(* a reader deleted after the write that woke it would never take its      *)
(* flags.                                                                  *)
(***************************************************************************)
LEMMA DeadEvent ==
  ASSUME HoldInv, DeadInv, EventStep \/ Returns
  PROVE  DeadInv'
<1> USE DEF HoldInv, TInv, TcbInv, SameFlag
<1>1. CASE UNCHANGED vars
  BY <1>1, DeadKeep DEF vars, tcb
<1>2. ASSUME NEW c \in Task, Running(c), "UNUSED" \in status'[c] => "UNUSED" \in status[c],
             \A u \in Task \ {c} : arg'[u] = arg[u] /\ status'[u] = status[u]
      PROVE  DeadInv'
  <2>1. Live(c)'
    BY <1>2 DEF Running, ListInv, RunInv, FlagInv, FlagOK, Live, Is
  <2> QED
    BY <1>2, <2>1, DeadKeep
<1>3. ASSUME NEW c \in Task, EventGoOn(c) \/ EventTimedOut(c) PROVE DeadInv'
  <2>1. Running(c) /\ arg' = [arg EXCEPT ![c] = NoArg]
        /\ (status' = status \/ status' = [status EXCEPT ![c] = status[c] \ {"TIMEOUT"}])
    BY <1>3 DEF EventGoOn, EventTimedOut, tcb
  <2>2. /\ "UNUSED" \in status'[c] => "UNUSED" \in status[c]
        /\ \A u \in Task \ {c} : arg'[u] = arg[u] /\ status'[u] = status[u]
    BY <2>1 DEF PlaceInv
  <2> QED
    BY <1>2, <2>1, <2>2
<1>4. ASSUME NEW c \in Task \cup {Isr}, NEW e \in WaitList, NEW d, NEW n,
             EventWait(c, e, d, n)
      PROVE  DeadInv'
  <2>1. c \in Task /\ Running(c) /\ arg' = [arg EXCEPT ![c] = e]
    BY <1>4 DEF EventWait, Enters
  <2>2. \E flags \in {{"PEND"}, {"PEND", "TIMEOUT"}} :
           status' = [status EXCEPT ![c] = (status[c] \ {"READY"}) \cup flags]
    BY <1>4 DEF EventWait, TaskWait
  <2> QED
    BY <1>2, <2>1, <2>2 DEF PlaceInv
<1>5. ASSUME NEW c, NEW e \in WaitList, NEW bits, EventWrite(c, e, bits) PROVE DeadInv'
  <2>1. \A u \in Task : "UNUSED" \in status'[u] <=> "UNUSED" \in status[u]
    <3> SUFFICES ASSUME NEW u \in Task
                 PROVE  "UNUSED" \in status'[u] <=> "UNUSED" \in status[u]
      OBVIOUS
    <3>1. TaskWakeAll(MetBy(e, bits), e) /\ MetBy(e, bits) \in SUBSET Task
          /\ \A t \in MetBy(e, bits) : Linked(waiting[e], t)
      BY <1>5, WriteWakes, MetWait
    <3> QED
      BY <3>1, WokenFlags
  <2>2. arg' = arg
    BY <1>5 DEF EventWrite, ThenSchedule, ThenReturn
  <2> QED
    BY <2>1, <2>2, DeadKeep
<1> QED
  BY <1>1, <1>3, <1>4, <1>5
     DEF EventStep, Returns, EventInit, EventDestory, EventTake, EventClear

ServedInv == EventInv /\ DeadInv

LEMMA ServedInvAlways == EventSpec => []ServedInv
<1>1. EvInit => DeadInv
  BY TaskAssumption DEF EvInit, Init, DeadInv
<1>2. EventInv /\ DeadInv /\ [EventNext]_evvars => DeadInv'
  <2> SUFFICES ASSUME EventInv, DeadInv, [EventNext]_evvars PROVE DeadInv'
    OBVIOUS
  <2>1. CASE UNCHANGED vars
    BY <2>1, DeadKeep DEF vars, tcb, SameFlag
  <2> QED
    BY <2>1, DeadNext, DeadEvent DEF EventNext, EventInv, HoldInv, evvars
<1> QED
  BY <1>1, <1>2, EventInvAlways, PTL DEF EventSpec, ServedInv

(* What the contract sees.                                                 *)
Sleepers == [e \in WaitList |-> ToSet(waiting[e])]

Served == [e \in WaitList |-> Woke(e)]

Wants == [t \in Task |->
  IF \E e \in WaitList : t \in ToSet(waiting[e]) \cup Woke(e) THEN want[t] ELSE NoDemand]

ContractStep == [Contract!Next]_<<event, Wants, Sleepers, Served>>

(* The same from the state of the tasks.                                   *)
AsleepOn(t, e) == arg[t] = e /\ Is(t, "PEND")

WokenOn(t, e) == arg[t] = e /\ ~Is(t, "PEND") /\ ~Is(t, "TIMEOUT")

Engaged(t) == arg[t] \in WaitList /\ (Is(t, "PEND") \/ ~Is(t, "TIMEOUT"))

SeenBy(t) ==
  /\ \A e \in WaitList : (t \in Sleepers[e] <=> AsleepOn(t, e))
                         /\ (t \in Served[e] <=> WokenOn(t, e))
  /\ Wants[t] = IF Engaged(t) THEN want[t] ELSE NoDemand

Shape ==
  /\ Sleepers \in [WaitList -> SUBSET Task] /\ Served \in [WaitList -> SUBSET Task]
  /\ DOMAIN Wants = Task
  /\ \A t \in Task : SeenBy(t)

LEMMA ShapeIs == TInv /\ ListInv => Shape
<1> SUFFICES ASSUME TInv, ListInv PROVE Shape
  OBVIOUS
<1>1. ASSUME NEW e \in WaitList
      PROVE  /\ ToSet(waiting[e]) \in SUBSET Task
             /\ \A t \in Task : t \in ToSet(waiting[e]) <=> AsleepOn(t, e)
  <2>1. waiting[e] \in Seq(Task) /\ e \in DOMAIN waiting
    BY DEF TInv, TcbInv
  <2>2. \A t \in Task : t \in ToSet(waiting[e]) <=> Is(t, "PEND") /\ arg[t] = e
    BY <2>1 DEF ListInv, WaitInv, Filed, PendTasks, Linked
  <2> QED
    BY <2>1, <2>2, LenProperties, ElementOfSeq DEF ToSet, AsleepOn
<1>2. \A e \in WaitList, t \in Task : t \in Woke(e) <=> WokenOn(t, e)
  BY DEF Woke, WokenOn
<1>3. /\ Sleepers \in [WaitList -> SUBSET Task]
      /\ \A e \in WaitList, t \in Task : t \in Sleepers[e] <=> AsleepOn(t, e)
  BY <1>1 DEF Sleepers
<1>4. /\ Served \in [WaitList -> SUBSET Task]
      /\ \A e \in WaitList, t \in Task : t \in Served[e] <=> WokenOn(t, e)
  BY <1>2 DEF Served, Woke
<1>5. ASSUME NEW t \in Task
      PROVE  Wants[t] = IF Engaged(t) THEN want[t] ELSE NoDemand
  <2>1. (\E e \in WaitList : t \in ToSet(waiting[e]) \cup Woke(e)) <=> Engaged(t)
    BY <1>1, <1>2 DEF Engaged, AsleepOn, WokenOn
  <2> QED
    BY <2>1 DEF Wants
<1>6. DOMAIN Wants = Task
  BY DEF Wants
<1> QED
  BY <1>3, <1>4, <1>5, <1>6 DEF Shape, SeenBy

(* A task whose wait no step touched.                                      *)
Still(t) == KeepsWait(t) /\ want'[t] = want[t]

LEMMA StillSeen ==
  ASSUME Shape, Shape', NEW t \in Task, Still(t)
  PROVE  /\ \A e \in WaitList : (t \in Sleepers'[e] <=> t \in Sleepers[e])
                                /\ (t \in Served'[e] <=> t \in Served[e])
         /\ Wants'[t] = Wants[t]
BY DEF Shape, SeenBy, AsleepOn, WokenOn, Engaged, Still, KeepsWait, SameFlag, Is

LEMMA StillAll ==
  ASSUME Shape, Shape', \A t \in Task : Still(t)
  PROVE  UNCHANGED <<Wants, Sleepers, Served>>
<1>1. ASSUME NEW e \in WaitList
      PROVE  Sleepers'[e] = Sleepers[e] /\ Served'[e] = Served[e]
  <2>1. /\ Sleepers[e] \subseteq Task /\ Sleepers'[e] \subseteq Task
        /\ Served[e] \subseteq Task /\ Served'[e] \subseteq Task
    BY DEF Shape
  <2>2. \A t \in Task : (t \in Sleepers'[e] <=> t \in Sleepers[e])
                      /\ (t \in Served'[e] <=> t \in Served[e])
    BY StillSeen
  <2> QED
    BY <2>1, <2>2
<1>2. Wants' = Wants
  BY StillSeen DEF Wants
<1>3. Sleepers' = Sleepers
  BY <1>1 DEF Sleepers
<1>4. Served' = Served
  BY <1>1 DEF Served
<1> QED
  BY <1>2, <1>3, <1>4

(* A step that touches the wait of one task only.                          *)
LEMMA StillBut ==
  ASSUME Shape, Shape', NEW c \in Task, \A t \in Task \ {c} : Still(t)
  PROVE  /\ \A e \in WaitList : /\ Sleepers'[e] \ {c} = Sleepers[e] \ {c}
                                /\ Served'[e] \ {c} = Served[e] \ {c}
         /\ Wants' = [Wants EXCEPT ![c] = Wants'[c]]
<1>1. \A e \in WaitList : /\ Sleepers'[e] \ {c} = Sleepers[e] \ {c}
                          /\ Served'[e] \ {c} = Served[e] \ {c}
  <2> SUFFICES ASSUME NEW e \in WaitList
               PROVE  /\ Sleepers'[e] \ {c} = Sleepers[e] \ {c}
                      /\ Served'[e] \ {c} = Served[e] \ {c}
    OBVIOUS
  <2>1. /\ Sleepers[e] \subseteq Task /\ Sleepers'[e] \subseteq Task
        /\ Served[e] \subseteq Task /\ Served'[e] \subseteq Task
    BY DEF Shape
  <2>2. \A t \in Task \ {c} : (t \in Sleepers'[e] <=> t \in Sleepers[e])
                            /\ (t \in Served'[e] <=> t \in Served[e])
    BY StillSeen
  <2> QED
    BY <2>1, <2>2
<1>2. Wants' = [Wants EXCEPT ![c] = Wants'[c]]
  BY StillSeen DEF Wants
<1> QED
  BY <1>1, <1>2

(* What a step does to one member of a set.                                *)
LEMMA SameBut ==
  ASSUME NEW A, NEW B, NEW c, B \ {c} = A \ {c}, c \in A <=> c \in B
  PROVE  B = A
OBVIOUS

LEMMA MoreOf ==
  ASSUME NEW A, NEW B, NEW c, B \ {c} = A \ {c}, c \notin A, c \in B
  PROVE  B = A \cup {c}
OBVIOUS

LEMMA FewerOf ==
  ASSUME NEW A, NEW B, NEW c, B \ {c} = A \ {c}, c \notin B
  PROVE  B = A \ {c}
OBVIOUS

LEMMA ContractWait ==
  ASSUME EventInv, Shape, Shape', NEW c \in Task \cup {Isr}, NEW e \in WaitList,
         NEW d \in Demand, NEW n \in Timeouts, EventWait(c, e, d, n)
  PROVE  ContractStep
<1> USE DEF EventInv, HoldInv
<1>1. /\ c \in Task /\ Running(c) /\ pc[c] = "user" /\ Polled(event[e], d) = {}
      /\ event' = event /\ arg' = [arg EXCEPT ![c] = e] /\ want' = [want EXCEPT ![c] = d]
  BY DEF EventWait, Enters
<1>2. \E flags \in {{"PEND"}, {"PEND", "TIMEOUT"}} :
         status' = [status EXCEPT ![c] = (status[c] \ {"READY"}) \cup flags]
  BY DEF EventWait, TaskWait
<1>3. \A t \in Task \ {c} : Still(t)
  BY <1>1, <1>2 DEF TInv, TcbInv, EventTypes, Still, KeepsWait, SameFlag, PlaceInv
<1>4. arg[c] \notin WaitList
  BY <1>1, CallOutside
<1>5. arg'[c] = e /\ "PEND" \in status'[c] /\ want'[c] = d
  BY <1>1, <1>2 DEF TInv, TcbInv, PlaceInv, EventTypes
<1>6. /\ Wants[c] = NoDemand /\ Wants'[c] = d
      /\ \A s \in WaitList : /\ c \notin Sleepers[s] /\ c \notin Served[s]
                             /\ c \notin Served'[s]
                             /\ c \in Sleepers'[s] <=> s = e
  BY <1>1, <1>4, <1>5 DEF Shape, SeenBy, AsleepOn, WokenOn, Engaged, Is
<1>7. /\ Wants' = [Wants EXCEPT ![c] = d]
      /\ \A s \in WaitList : /\ Sleepers'[s] \ {c} = Sleepers[s] \ {c}
                             /\ Served'[s] \ {c} = Served[s] \ {c}
  BY <1>1, <1>3, <1>6, StillBut
<1>8. Sleepers' = [Sleepers EXCEPT ![e] = Sleepers[e] \cup {c}]
  <2>1. ASSUME NEW s \in WaitList, s # e PROVE Sleepers'[s] = Sleepers[s]
    BY <1>6, <1>7, <2>1, SameBut
  <2>2. Sleepers'[e] = Sleepers[e] \cup {c}
    BY <1>6, <1>7, MoreOf
  <2> QED
    BY <2>1, <2>2 DEF Sleepers
<1>9. Served' = Served
  <2>1. \A s \in WaitList : Served'[s] = Served[s]
    BY <1>6, <1>7, SameBut
  <2> QED
    BY <2>1 DEF Served
<1>10. Contract!Gets(event[e], d) = {}
  BY <1>1 DEF Contract!Gets, Polled
<1>11. Contract!Sleep(c, e, d)
  BY <1>1, <1>6, <1>7, <1>8, <1>9, <1>10
     DEF Contract!Sleep, Sleepers, Served, Wants
<1> QED
  BY <1>1, <1>11 DEF ContractStep, Contract!Next

LEMMA ContractReturn ==
  ASSUME EventInv, Shape, Shape', NEW c \in Task, EventGoOn(c) \/ EventTimedOut(c)
  PROVE  ContractStep
<1> USE DEF EventInv, HoldInv
<1>1. /\ Running(c) /\ pc[c] = "ret" /\ arg' = [arg EXCEPT ![c] = NoArg]
      /\ want' = [want EXCEPT ![c] = NoDemand]
      /\ status' = status \/ status' = [status EXCEPT ![c] = status[c] \ {"TIMEOUT"}]
  BY DEF EventGoOn, EventTimedOut, tcb
<1>2. \A t \in Task \ {c} : Still(t)
  BY <1>1 DEF TInv, TcbInv, EventTypes, Still, KeepsWait, SameFlag, PlaceInv
<1>3. arg[c] \in WaitList /\ ~Is(c, "PEND")
  BY <1>1, RunnerNotHalted DEF CallInv, ListInv, Halted
<1>4. arg'[c] \notin WaitList
  BY <1>1, TaskAssumption DEF TInv, PlaceInv
<1>5. /\ \A s \in WaitList : /\ Sleepers'[s] \ {c} = Sleepers[s] \ {c}
                             /\ Served'[s] \ {c} = Served[s] \ {c}
      /\ Wants' = [Wants EXCEPT ![c] = Wants'[c]]
  BY <1>2, StillBut
<1>6. /\ Wants'[c] = NoDemand
      /\ \A s \in WaitList : /\ c \notin Sleepers[s] /\ c \notin Sleepers'[s]
                             /\ c \notin Served'[s]
  BY <1>3, <1>4 DEF Shape, SeenBy, AsleepOn, WokenOn, Engaged
<1>7. Sleepers' = Sleepers
  <2>1. \A s \in WaitList : Sleepers'[s] = Sleepers[s]
    BY <1>5, <1>6, SameBut
  <2> QED
    BY <2>1 DEF Sleepers
<1>8. CASE EventTimedOut(c)
  <2>1. Is(c, "TIMEOUT") /\ event' = event
    BY <1>8 DEF EventTimedOut
  <2>2. Wants[c] = NoDemand /\ \A s \in WaitList : c \notin Served[s]
    BY <1>3, <2>1 DEF Shape, SeenBy, WokenOn, Engaged
  <2>3. Served' = Served
    <3>1. \A s \in WaitList : Served'[s] = Served[s]
      BY <1>5, <1>6, <2>2, SameBut
    <3> QED
      BY <3>1 DEF Served
  <2>4. Wants' = Wants
    BY <1>5, <1>6, <2>2 DEF Wants
  <2> QED
    BY <1>7, <2>1, <2>3, <2>4 DEF ContractStep
<1>9. CASE EventGoOn(c)
  <2> PICK e \in WaitList : e = arg[c]
    BY <1>3
  <2>1. ~Is(c, "TIMEOUT") /\ event' = [event EXCEPT ![e] = PollLeaves(event[e], want[c])]
    BY <1>9 DEF EventGoOn
  <2>2. /\ Wants[c] = want[c] /\ c \in Served[e]
        /\ \A s \in WaitList \ {e} : c \notin Served[s]
    BY <1>3, <2>1 DEF Shape, SeenBy, WokenOn, Engaged
  <2>3. Served' = [Served EXCEPT ![e] = Served[e] \ {c}]
    <3>1. ASSUME NEW s \in WaitList, s # e PROVE Served'[s] = Served[s]
      BY <1>5, <1>6, <2>2, <3>1, SameBut
    <3>2. Served'[e] = Served[e] \ {c}
      BY <1>5, <1>6, FewerOf
    <3> QED
      BY <3>1, <3>2 DEF Served
  <2>4. Contract!Left(event[e], Wants[c]) = PollLeaves(event[e], want[c])
    BY <2>2 DEF Contract!Left, Contract!Gets, PollLeaves, Polled
  <2>5. Wants' = [Wants EXCEPT ![c] = NoDemand]
    BY <1>5, <1>6
  <2>6. Contract!GoOn(c, e)
    BY <1>7, <2>1, <2>2, <2>3, <2>4, <2>5
       DEF Contract!GoOn, Sleepers, Served, Wants
  <2> QED
    BY <2>6 DEF ContractStep, Contract!Next
<1> QED
  BY <1>8, <1>9

(* The only wait the scheduler ends is one that expires.                   *)
LEMMA ContractScheduler ==
  ASSUME ServedInv, NoDeletion, Shape, Shape', Next, UNCHANGED events
  PROVE  ContractStep
<1> USE DEF ServedInv, EventInv, HoldInv
<1>1. event' = event /\ want' = want
  BY DEF events
<1>2. CASE NoWaitEnds
  BY <1>1, <1>2, StillAll DEF NoWaitEnds, Still, ContractStep
<1>3. ASSUME NEW t \in Task, Expires(t) PROVE ContractStep
  <2> PICK e \in WaitList : e = arg[t]
    BY <1>3 DEF Expires, ListInv, WaitInv, PendTasks
  <2>1. \A u \in Task \ {t} : Still(u)
    BY <1>1, <1>3 DEF Expires, LeavesWait, Still
  <2>2. /\ \A s \in WaitList : /\ Sleepers'[s] \ {t} = Sleepers[s] \ {t}
                               /\ Served'[s] \ {t} = Served[s] \ {t}
        /\ Wants' = [Wants EXCEPT ![t] = Wants'[t]]
    BY <2>1, StillBut
  <2>3. arg'[t] = arg[t] /\ Is(t, "PEND") /\ ~Is(t, "PEND")' /\ Is(t, "TIMEOUT")'
    BY <1>3 DEF Expires
  <2>4. /\ Wants'[t] = NoDemand /\ t \in Sleepers[e]
        /\ \A s \in WaitList : /\ t \in Sleepers[s] => s = e
                               /\ t \notin Sleepers'[s]
                               /\ t \notin Served[s] /\ t \notin Served'[s]
    BY <2>3 DEF Shape, SeenBy, AsleepOn, WokenOn, Engaged
  <2>5. Served' = Served
    <3>1. \A s \in WaitList : Served'[s] = Served[s]
      BY <2>2, <2>4, SameBut
    <3> QED
      BY <3>1 DEF Served
  <2>6. Sleepers' = [Sleepers EXCEPT ![e] = Sleepers[e] \ {t}]
    <3>1. ASSUME NEW s \in WaitList, s # e PROVE Sleepers'[s] = Sleepers[s]
      BY <2>2, <2>4, <3>1, SameBut
    <3>2. Sleepers'[e] = Sleepers[e] \ {t}
      BY <2>2, <2>4, FewerOf
    <3> QED
      BY <3>1, <3>2 DEF Sleepers
  <2>7. Wants' = [Wants EXCEPT ![t] = NoDemand]
    BY <2>2, <2>4
  <2>8. Contract!GiveUp(t, e)
    BY <1>1, <2>4, <2>5, <2>6, <2>7 DEF Contract!GiveUp, Sleepers, Served, Wants
  <2> QED
    BY <2>8 DEF ContractStep, Contract!Next
<1> QED
  BY <1>2, <1>3, SchedulerExpires

LEMMA ContractWrite ==
  ASSUME EventInv, Shape, Shape', NEW c, NEW e \in WaitList, NEW bits \in Writes,
         EventWrite(c, e, bits)
  PROVE  ContractStep
<1> USE DEF EventInv, HoldInv
<1> DEFINE M == MetBy(e, bits)
<1>1. /\ event' = [event EXCEPT ![e] = event[e] \cup bits]
      /\ want' = want /\ arg' = arg
  BY DEF EventWrite, ThenSchedule, ThenReturn
<1>2. /\ M \in SUBSET Task /\ \A t \in M : Linked(waiting[e], t)
      /\ TaskWakeAll(M, e)
  BY WriteWakes, MetWait
<1>3. \A t \in M : Is(t, "PEND") /\ arg[t] = e
  BY <1>2, WaiterPends
<1>4. ASSUME NEW t \in Task
      PROVE  /\ t \notin M => status'[t] = status[t]
             /\ t \in M => status'[t] \cap Timing = {}
  <2> HIDE DEF M
  <2> QED
    BY <1>2, WokenFlags
<1>5. \A t \in Task \ M : Still(t)
  BY <1>1, <1>4 DEF Still, KeepsWait, SameFlag
<1>6. ASSUME NEW t \in M
      PROVE  /\ Wants'[t] = Wants[t]
             /\ \A s \in WaitList : /\ t \in Sleepers[s] <=> s = e
                                    /\ t \notin Sleepers'[s]
                                    /\ t \notin Served[s]
                                    /\ t \in Served'[s] <=> s = e
  <2>1. t \in Task /\ Is(t, "PEND") /\ arg[t] = e /\ arg'[t] = e /\ want'[t] = want[t]
    BY <1>1, <1>2, <1>3
  <2>2. "PEND" \notin status'[t] /\ "TIMEOUT" \notin status'[t]
    BY <1>4, <2>1 DEF Timing
  <2> QED
    BY <2>1, <2>2 DEF Shape, SeenBy, AsleepOn, WokenOn, Engaged, Is
<1>7. ASSUME NEW t \in Task
      PROVE  /\ Wants'[t] = Wants[t]
             /\ \A s \in WaitList :
                  /\ t \in Sleepers'[s] <=> t \in Sleepers[s] /\ t \notin M
                  /\ t \in Served'[s] <=> t \in Served[s] \/ (s = e /\ t \in M)
  <2> HIDE DEF M
  <2>1. CASE t \in M
    BY <1>6, <2>1
  <2>2. CASE t \notin M
    BY <1>5, <2>2, StillSeen
  <2> QED
    BY <2>1, <2>2
<1>8. \A s \in WaitList : /\ Sleepers[s] \subseteq Task /\ Sleepers'[s] \subseteq Task
                          /\ Served[s] \subseteq Task /\ Served'[s] \subseteq Task
  BY DEF Shape
<1>9. Wants' = Wants
  BY <1>7 DEF Wants
<1>10. Sleepers' = [Sleepers EXCEPT ![e] = Sleepers[e] \ M]
  <2> HIDE DEF M
  <2>1. ASSUME NEW s \in WaitList, s # e PROVE Sleepers'[s] = Sleepers[s]
    <3>1. \A t \in Task : t \in Sleepers'[s] <=> t \in Sleepers[s]
      BY <1>6, <1>7, <2>1
    <3> QED
      BY <1>8, <3>1
  <2>2. Sleepers'[e] = Sleepers[e] \ M
    <3>1. \A t \in Task : t \in Sleepers'[e] <=> t \in Sleepers[e] /\ t \notin M
      BY <1>7
    <3> QED
      BY <1>8, <3>1
  <2> QED
    BY <2>1, <2>2 DEF Sleepers
<1>11. Served' = [Served EXCEPT ![e] = Served[e] \cup M]
  <2> HIDE DEF M
  <2>1. ASSUME NEW s \in WaitList, s # e PROVE Served'[s] = Served[s]
    <3>1. \A t \in Task : t \in Served'[s] <=> t \in Served[s]
      BY <1>7, <2>1
    <3> QED
      BY <1>8, <3>1
  <2>2. Served'[e] = Served[e] \cup M
    <3>1. \A t \in Task : t \in Served'[e] <=> t \in Served[e] \/ t \in M
      BY <1>7
    <3> QED
      BY <1>2, <1>8, <3>1
  <2> QED
    BY <2>1, <2>2 DEF Served
<1>12. M = {t \in Sleepers[e] : Contract!Gets(event[e] \cup bits, Wants[t]) # {}}
  <2>1. Sleepers[e] = ToSet(waiting[e])
    BY DEF Sleepers
  <2>2. ASSUME NEW t \in Sleepers[e]
        PROVE  Met(t, e, bits) <=> Contract!Gets(event[e] \cup bits, Wants[t]) # {}
    <3>1. t \in Task /\ Linked(waiting[e], t)
      BY <1>8, <2>1, <2>2 DEF Linked
    <3>2. want[t] \in Demand /\ Polled(event[e], want[t]) = {}
      BY <3>1 DEF SleeperInv
    <3>3. Met(t, e, bits) <=> Polled(event[e] \cup bits, want[t]) # {}
      BY <3>1, <3>2, MetIsPolled
    <3>4. Wants[t] = want[t]
      BY <2>2, <3>1 DEF Shape, SeenBy, AsleepOn, Engaged
    <3> QED
      BY <3>3, <3>4 DEF Contract!Gets, Polled
  <2> QED
    BY <2>1, <2>2 DEF MetBy
<1>13. bits \in SUBSET Bit
  BY DemandAssumption
<1> HIDE DEF M
<1>14. Contract!Write(e, bits)
  BY <1>1, <1>9, <1>10, <1>11, <1>12 DEF Contract!Write, Sleepers, Served, Wants
<1> QED
  BY <1>13, <1>14 DEF ContractStep, Contract!Next

LEMMA ContractFlags ==
  ASSUME EventInv, NEW c, NEW e \in WaitList,
         \/ EventInit(c, e) \/ EventDestory(c, e)
         \/ \E d \in Demand : EventTake(c, e, d)
         \/ \E bits \in Writes : EventClear(c, e, bits)
  PROVE  ContractStep
<1> USE DEF EventInv, HoldInv
<1>1. UNCHANGED <<vars, want>>
  BY DEF EventInit, EventDestory, EventTake, EventClear
<1>2. UNCHANGED <<Wants, Sleepers, Served>>
  BY <1>1 DEF vars, tcb, Wants, Sleepers, Served, Woke, Is
<1>3. CASE EventInit(c, e)
  <2>1. event' = [event EXCEPT ![e] = {}] /\ e \notin evInit
    BY <1>3 DEF EventInit
  <2>2. waiting[e] \in Seq(Task) /\ ToSet(waiting[e]) = {}
    <3>1. waiting[e] \in Seq(Task)
      BY DEF TInv, TcbInv
    <3>2. \A t \in Task : ~Linked(waiting[e], t)
      BY <2>1 DEF SleeperInv
    <3> QED
      BY <3>1, <3>2, LenProperties, ElementOfSeq DEF Linked, ToSet
  <2>3. Contract!Make(e)
    BY <1>2, <2>1, <2>2 DEF Contract!Make, Sleepers, Served, Wants
  <2> QED
    BY <2>3 DEF ContractStep, Contract!Next
<1>4. CASE EventDestory(c, e)
  BY <1>2, <1>4 DEF EventDestory, ContractStep
<1>5. ASSUME NEW d \in Demand, EventTake(c, e, d) PROVE ContractStep
  <2>1. event' = [event EXCEPT ![e] = PollLeaves(event[e], d)]
    BY <1>5 DEF EventTake
  <2>2. Contract!Left(event[e], d) = PollLeaves(event[e], d)
    BY DEF Contract!Left, Contract!Gets, PollLeaves, Polled
  <2>3. Contract!Take(e, d)
    BY <1>2, <2>1, <2>2 DEF Contract!Take, Sleepers, Served, Wants
  <2> QED
    BY <2>3 DEF ContractStep, Contract!Next
<1>6. ASSUME NEW bits \in Writes, EventClear(c, e, bits) PROVE ContractStep
  <2>1. event' = [event EXCEPT ![e] = event[e] \cap bits] /\ event[e] \subseteq Bit
    BY <1>6 DEF EventClear, EventTypes
  <2>2. event[e] \cap bits = event[e] \ (Bit \ bits)
    BY <2>1
  <2>3. Contract!Clear(e, Bit \ bits)
    BY <1>2, <2>1, <2>2 DEF Contract!Clear, Sleepers, Served, Wants
  <2> QED
    BY <2>3 DEF ContractStep, Contract!Next
<1> QED
  BY <1>3, <1>4, <1>5, <1>6

LEMMA ContractNext ==
  ASSUME NoDeletion, ServedInv, Shape, Shape', [EventNext]_evvars
  PROVE  ContractStep
<1> USE DEF ServedInv
<1>1. CASE UNCHANGED evvars
  BY <1>1 DEF evvars, events, vars, tcb, Wants, Sleepers, Served, Woke, Is, ContractStep
<1>2. CASE Next /\ UNCHANGED events
  BY <1>2, ContractScheduler
<1>3. CASE EventStep
  BY <1>3, ContractWait, ContractWrite, ContractFlags DEF EventStep
<1>4. CASE Returns
  BY <1>4, ContractReturn DEF Returns
<1> QED
  BY <1>1, <1>2, <1>3, <1>4 DEF EventNext

(* Where no task is deleted by another, the event flags do what            *)
(* EventContract promises: a write wakes every reader whose demand the     *)
(* flags then meet, and no other, though LOS_EventWrite tests only the     *)
(* written flags for a reader of any of its own; and a reader's demand     *)
(* ends with its return or its timeout, never both.                        *)
THEOREM KeepsContractHolds ==
  ASSUME NoDeletion PROVE EventSpec => KeepsContract
<1>1. EvInit => Contract!Init
  <2> SUFFICES ASSUME EvInit PROVE Contract!Init
    OBVIOUS
  <2>1. event \in [WaitList -> SUBSET Bit]
    BY DEF EvInit
  <2>2. \A e \in WaitList : ToSet(waiting[e]) = {} /\ Woke(e) = {}
    BY TaskAssumption DEF EvInit, Init, ToSet, Woke
  <2>3. \A t \in Task : want[t] = NoDemand
    BY DEF EvInit
  <2> QED
    BY <2>1, <2>2, <2>3 DEF Contract!Init
<1>2. ServedInv /\ Shape /\ Shape' /\ [EventNext]_evvars =>
         [Contract!Next]_<<event, Wants, Sleepers, Served>>
  BY ContractNext DEF ContractStep
<1>3. ServedInv => Shape
  BY ShapeIs DEF ServedInv, EventInv, HoldInv
<1> QED
  BY <1>1, <1>2, <1>3, ServedInvAlways, PTL
     DEF EventSpec, KeepsContract, Contract!Spec, Contract!flags, Wants, Sleepers, Served
=============================================================================
