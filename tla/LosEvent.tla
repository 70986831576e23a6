------------------------------ MODULE LosEvent ------------------------------
(***************************************************************************)
(* The event flags of los_event.c on top of the task scheduler.  The wait  *)
(* lists of LosTask are the stEventList of the event control blocks.  A    *)
(* call that returns an error, or finds no flag and does not wait, changes *)
(* nothing and is left out.                                                *)
(***************************************************************************)
EXTENDS LosTask

CONSTANTS
  Bit,        (* the flags of an event control block                       *)
  Demand,     (* what readers ask for: uwEventMask and uwMode              *)
  NoDemand,   (* none                                                      *)
  Writes,     (* the sets of flags written, or cleared, together           *)
  Timeouts    (* the timeouts readers use                                  *)

ASSUME DemandAssumption ==
  /\ Demand \subseteq [mask : (SUBSET Bit) \ {{}}, mode : {"or", "and"},
                       clear : BOOLEAN]
  /\ Writes \subseteq SUBSET Bit
  /\ Timeouts \subseteq {Forever} \cup 1 .. MaxDelay

VARIABLES
  evInit,   (* the control blocks that are initialised                     *)
  event,    (* uwEventID                                                   *)
  want      (* uwEventMask and uwEventMode of a waiting task               *)

events == <<evInit, event, want>>
evvars == <<vars, events>>

EventTypeOK ==
  /\ TypeOK
  /\ evInit \subseteq WaitList
  /\ event \in [WaitList -> SUBSET Bit]
  /\ want \in [Task -> Demand \cup {NoDemand}]
-----------------------------------------------------------------------------
(* LOS_EventPoll: the flags it returns, and those it leaves set.           *)
Polled(set, d) ==
  IF d.mode = "or" \/ d.mask \subseteq set THEN set \cap d.mask ELSE {}

(* Mutant: a reader clears all the flags it asked for.                     *)
PolledAway(set, d) == IF d.clear THEN set \ d.mask ELSE set

PollLeaves(set, d) == IF d.clear THEN set \ Polled(set, d) ELSE set

(* LOS_EventInit.  It does not see whether the word is in use: that the    *)
(* application initialises none it still uses is assumed.                  *)
EventInit(c, e) ==
  /\ Enters(c) /\ e \notin evInit
  /\ evInit' = evInit \cup {e}
  /\ event' = [event EXCEPT ![e] = {}]
  /\ UNCHANGED <<want, vars>>

(* LOS_EventDestory.                                                       *)
EventDestory(c, e) ==
  /\ Enters(c) /\ e \in evInit /\ waiting[e] = << >>
  /\ evInit' = evInit \ {e}
  /\ UNCHANGED <<event, want, vars>>

(* LOS_EventPoll, also from interrupts, or LOS_EventRead of flags that are *)
(* set: an effect only if it clears them.                                  *)
EventTake(c, e, d) ==
  /\ Enters(c) /\ e \in evInit /\ d.clear /\ Polled(event[e], d) # {}
  /\ event' = [event EXCEPT ![e] = PollLeaves(@, d)]
  /\ UNCHANGED <<evInit, want, vars>>

(* LOS_EventRead waits.                                                    *)
EventWait(c, e, d, n) ==
  /\ Enters(c) /\ c # Isr /\ e \in evInit
  /\ Polled(event[e], d) = {} /\ taskLock = 0
  /\ TaskWait(ready, c, e, n)
  /\ want' = [want EXCEPT ![c] = d]
  /\ pc' = [pc EXCEPT ![c] = "sched"]
  /\ arg' = [arg EXCEPT ![c] = e]
  /\ UNCHANGED <<pri, recycle, sched, isr, evInit, event>>

(* LOS_EventRead back from LOS_Schedule after a timeout.                   *)
EventTimedOut(c) ==
  /\ Running(c) /\ pc[c] = "ret" /\ Is(c, "TIMEOUT")
  /\ status' = [status EXCEPT ![c] = @ \ {"TIMEOUT"}]
  /\ want' = [want EXCEPT ![c] = NoDemand]
  /\ pc' = [pc EXCEPT ![c] = "user"]
  /\ arg' = [arg EXCEPT ![c] = NoArg]
  /\ UNCHANGED <<pri, ready, waiting, due, recycle, sched, isr, evInit, event>>
  /\ NoUnlinking

(* LOS_EventRead back from LOS_Schedule after a write: it polls again.     *)
EventGoOn(c) ==
  LET e == arg[c] IN
  /\ Running(c) /\ pc[c] = "ret" /\ ~Is(c, "TIMEOUT")
  /\ event' = [event EXCEPT ![e] = PollLeaves(@, want[c])]
  /\ want' = [want EXCEPT ![c] = NoDemand]
  /\ pc' = [pc EXCEPT ![c] = "user"]
  /\ arg' = [arg EXCEPT ![c] = NoArg]
  /\ UNCHANGED <<tcb, sched, isr, evInit>> /\ NoUnlinking

(* Mutant: the demand for several flags is tested on the written ones.     *)
MetByBits(t, e, bits) ==
  LET d == want[t] IN
  IF d.mode = "or" THEN d.mask \cap bits # {} ELSE d.mask \subseteq bits

(* The test of LOS_EventWrite: any of the flags must be a written one, all *)
(* of them may have been set before.                                       *)
Met(t, e, bits) ==
  LET d == want[t] IN
  IF d.mode = "or" THEN d.mask \cap bits # {}
                   ELSE d.mask \subseteq event[e] \cup bits

(* osTaskWake for every one of these waiters, in the order of the list.    *)
TaskWakeAll(waiters, e) ==
  LET timed == {t \in waiters : Is(t, "TIMEOUT")}
      awake == {t \in waiters : ~Is(t, "SUSPEND")}
  IN
  /\ waiting' = [waiting EXCEPT ![e] = Only(@, Task \ waiters)]
  /\ Unlinking(\A t \in timed : Armed(due, t))
  /\ due' = [n \in DOMAIN due |-> Only(due[n], Task \ timed)]
  /\ status' = [t \in Task |->
       IF t \in awake THEN Woken(t) \cup {"READY"}
       ELSE IF t \in waiters THEN Woken(t) ELSE status[t]]
  /\ ready' = [p \in Prio |->
       ready[p] \o Only(waiting[e], {t \in awake : pri[t] = p})]

(* LOS_EventWrite: every waiter whose test succeeds is woken, then one     *)
(* call of LOS_Schedule.                                                   *)
EventWrite(c, e, bits) ==
  LET met == {t \in ToSet(waiting[e]) : Met(t, e, bits)} IN
  /\ Enters(c) /\ e \in evInit
  /\ event' = [event EXCEPT ![e] = @ \cup bits]
  /\ TaskWakeAll(met, e)
  /\ IF met # {} THEN ThenSchedule(c) ELSE ThenReturn
  /\ UNCHANGED <<pri, recycle, isr, evInit, want>>

(* LOS_EventClear keeps the flags it is given.                             *)
EventClear(c, e, bits) ==
  /\ Enters(c) /\ e \in evInit
  /\ event' = [event EXCEPT ![e] = @ \cap bits]
  /\ UNCHANGED <<evInit, want, vars>>
-----------------------------------------------------------------------------
EvInit ==
  /\ Init
  /\ evInit = {}
  /\ event = [e \in WaitList |-> {}]
  /\ want = [t \in Task |-> NoDemand]

EventStep ==
  \E c \in Task \cup {Isr}, e \in WaitList :
    \/ EventInit(c, e) \/ EventDestory(c, e)
    \/ \E d \in Demand :
         EventTake(c, e, d) \/ \E n \in Timeouts : EventWait(c, e, d, n)
    \/ \E bits \in Writes : EventWrite(c, e, bits) \/ EventClear(c, e, bits)

Returns == \E c \in Task : EventGoOn(c) \/ EventTimedOut(c)

EventNext == (Next /\ UNCHANGED events) \/ EventStep \/ Returns

EventSpec == EvInit /\ [][EventNext]_evvars
-----------------------------------------------------------------------------
(* No reader sleeps while its demand is met: the write that met it has     *)
(* woken it, though it may have tested only the flags it wrote.            *)
NoSleepingWinner ==
  \A e \in WaitList : \A t \in ToSet(waiting[e]) : Polled(event[e], want[t]) = {}

Woke(e) == {t \in Task : arg[t] = e /\ ~Is(t, "PEND") /\ ~Is(t, "TIMEOUT")}

Contract == INSTANCE EventContract WITH
              Event <- WaitList, word <- event,
              asleep <- [e \in WaitList |-> ToSet(waiting[e])],
              woken <- [e \in WaitList |-> Woke(e)],
              want <- [t \in Task |->
                 IF \E e \in WaitList : t \in ToSet(waiting[e]) \cup Woke(e)
                 THEN want[t] ELSE NoDemand]

(* Every write wakes exactly the readers whose demand the flags then meet, *)
(* whichever of the two tests of LOS_EventWrite their mode selects, and a  *)
(* woken reader takes only what it asked for.                              *)
KeepsContract == Contract!Spec

EventFairness == KernelFairness /\ SF_evvars(Returns)

EventFairSpec == EventSpec /\ EventFairness
=============================================================================
