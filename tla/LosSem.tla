------------------------------- MODULE LosSem -------------------------------
(***************************************************************************)
(* The semaphores of los_sem.c on top of the task scheduler.  The wait     *)
(* lists of LosTask are the stSemList of the semaphore control blocks; a   *)
(* control block is named by its handle.  A call that returns an error     *)
(* changes nothing and is left out.                                        *)
(***************************************************************************)
EXTENDS LosTask

CONSTANTS
  CountingMax,  (* OS_SEM_COUNTING_MAX_COUNT                               *)
  BinaryMax,    (* OS_SEM_BINARY_MAX_COUNT                                 *)
  SemDeletes    (* whether the application deletes semaphores              *)

ASSUME CountAssumption ==
  CountingMax \in Nat \ {0} /\ BinaryMax \in 1 .. CountingMax

VARIABLES
  semUsed,   (* the control blocks whose usSemStat is OS_SEM_USED          *)
  semCount,  (* usSemCount                                                 *)
  semMax,    (* usMaxSemCount                                              *)
  call       (* history, nothing reads it: the call the last step belongs  *)
             (* to, as its caller sees it                                  *)

sem     == <<semUsed, semCount, semMax>>
semvars == <<vars, sem, call>>

Timeouts == {Forever} \cup 1 .. MaxDelay

SemTypeOK ==
  /\ TypeOK
  /\ semUsed \subseteq WaitList
  /\ semMax \in [WaitList -> {BinaryMax, CountingMax}]
  /\ semCount \in [WaitList -> 0 .. CountingMax]
-----------------------------------------------------------------------------
(* osSemCreate: the first free control block; any will do.                 *)
SemCreate(c, s, n, max) ==
  /\ Enters(c) /\ s \notin semUsed /\ n <= max
  /\ semUsed' = semUsed \cup {s}
  /\ semCount' = [semCount EXCEPT ![s] = n]
  /\ semMax' = [semMax EXCEPT ![s] = max]
  /\ UNCHANGED vars

(* Mutant: a semaphore is deleted under its waiters.                       *)
SemDeletePended(c, s) ==
  /\ Enters(c) /\ SemDeletes /\ s \in semUsed
  /\ semUsed' = semUsed \ {s}
  /\ UNCHANGED <<semCount, semMax, vars>>

SemDelete(c, s) ==
  /\ Enters(c) /\ SemDeletes /\ s \in semUsed /\ waiting[s] = << >>
  /\ semUsed' = semUsed \ {s}
  /\ UNCHANGED <<semCount, semMax, vars>>

(* LOS_SemPend finds a count: it takes one, from interrupts and under the  *)
(* scheduler lock too.                                                     *)
SemTake(c, s) ==
  /\ Enters(c) /\ s \in semUsed /\ semCount[s] > 0
  /\ semCount' = [semCount EXCEPT ![s] = @ - 1]
  /\ UNCHANGED <<semUsed, semMax, vars>>

(* Mutant: a task waits for a semaphore that has a count.                  *)
SemWaitUnseen(c, s, n) ==
  /\ Enters(c) /\ c # Isr /\ s \in semUsed /\ taskLock = 0
  /\ TaskWait(ready, c, s, n)
  /\ pc' = [pc EXCEPT ![c] = "sched"]
  /\ arg' = [arg EXCEPT ![c] = s]
  /\ UNCHANGED <<pri, recycle, sched, isr, sem>>

(* LOS_SemPend finds none: the running task waits.                         *)
SemWait(c, s, n) ==
  /\ Enters(c) /\ c # Isr /\ s \in semUsed
  /\ semCount[s] = 0 /\ taskLock = 0
  /\ TaskWait(ready, c, s, n)
  /\ pc' = [pc EXCEPT ![c] = "sched"]
  /\ arg' = [arg EXCEPT ![c] = s]
  /\ UNCHANGED <<pri, recycle, sched, isr, sem>>

(* What LOS_SemPend returns after a wait: LOS_ERRNO_SEM_TIMEOUT or LOS_OK. *)
PendAnswer(c) == IF Is(c, "TIMEOUT") THEN "timeout" ELSE "granted"

(* LOS_SemPend back from LOS_Schedule: the flag TIMEOUT is the outcome.    *)
SemPendReturn(c) ==
  /\ Running(c) /\ pc[c] = "ret"
  /\ status' = [status EXCEPT ![c] = @ \ {"TIMEOUT"}]
  /\ pc' = [pc EXCEPT ![c] = "user"]
  /\ arg' = [arg EXCEPT ![c] = NoArg]
  /\ UNCHANGED <<pri, ready, waiting, due, recycle, sched, isr, sem>>
  /\ NoUnlinking

(* Mutant: a post that finds no waiter is answered LOS_OK, but not counted.*)
SemPostLost(c, s) ==
  /\ Enters(c) /\ s \in semUsed /\ semCount[s] # semMax[s]
  /\ IF waiting[s] # << >>
     THEN /\ TaskWake(ready, pri, Head(waiting[s]), s)
          /\ ThenSchedule(c)
          /\ UNCHANGED <<pri, recycle, isr, sem>>
     ELSE UNCHANGED <<sem, vars>>

(* LOS_SemPost: to the first waiter, else to the count.                    *)
SemPost(c, s) ==
  /\ Enters(c) /\ s \in semUsed /\ semCount[s] # semMax[s]
  /\ IF waiting[s] # << >>
     THEN /\ TaskWake(ready, pri, Head(waiting[s]), s)
          /\ ThenSchedule(c)
          /\ UNCHANGED <<pri, recycle, isr, sem>>
     ELSE /\ semCount' = [semCount EXCEPT ![s] = @ + 1]
          /\ UNCHANGED <<semUsed, semMax, vars>>
-----------------------------------------------------------------------------
(* osSemInit: every control block is free.                                 *)
SemInit ==
  /\ Init
  /\ semUsed = {}
  /\ semCount = [s \in WaitList |-> 0]
  /\ semMax = [s \in WaitList |-> CountingMax]
  /\ call = <<"kernel">>

SemStep ==
  \/ \E c \in Task \cup {Isr}, s \in WaitList :
       \/ \E max \in {BinaryMax, CountingMax}, n \in 0 .. CountingMax :
            SemCreate(c, s, n, max) /\ call' = <<"create", s, n>>
       \/ SemDelete(c, s) /\ call' = <<"delete", s>>
       \/ SemTake(c, s) /\ call' = <<"take", s>>
       \/ SemPost(c, s) /\ call' = <<"post", s>>
  \/ \E c \in Task, s \in WaitList, n \in Timeouts :
       SemWait(c, s, n) /\ call' = <<"wait", c, s>>

Returns ==
  \E c \in Task : SemPendReturn(c) /\ call' = <<"return", c, PendAnswer(c)>>

SemNext == (Next /\ UNCHANGED sem /\ call' = <<"kernel">>) \/ SemStep \/ Returns

SemSpec == SemInit /\ [][SemNext]_semvars
-----------------------------------------------------------------------------
(* A semaphore with a count has no waiter: neither a post that finds a     *)
(* waiter nor a pend that finds a count, nor the timeout of a waiter, a    *)
(* deletion or a reuse of the control block between them leaves both.      *)
CountOrWaiters == \A s \in WaitList : semCount[s] > 0 => waiting[s] = << >>

(* Only a semaphore in use is waited for: LOS_SemDelete never strands a    *)
(* task, and the reuse of the control block never inherits one.            *)
WaitersOnUsed == \A s \in WaitList : waiting[s] # << >> => s \in semUsed

(* How the wait of a task has ended, if it has: the code's only record of  *)
(* it is the flag TIMEOUT, read when the task runs again.                  *)
Outcome(t) ==
  IF arg[t] \notin WaitList \/ Is(t, "PEND") THEN "none"
  ELSE IF Is(t, "TIMEOUT") THEN "timeout" ELSE "granted"

Contract == INSTANCE SemContract WITH
              Sem <- WaitList, Limit <- CountingMax,
              live <- {t \in Task : Live(t)}, made <- semUsed,
              count <- semCount, queue <- waiting,
              outcome <- [t \in Task |-> Outcome(t)]

(* Every call for a semaphore has the effect the contract gives it and no  *)
(* other, whatever posts, timeouts, deletions, suspensions and interrupts  *)
(* come between the wake-up of a waiter and its return from LOS_SemPend.   *)
(* A post is counted or wakes the first waiter, whose wait is then granted *)
(* and answered LOS_OK, never timed out; the kernel ends no other waits    *)
(* than those that time out or whose task ends, and touches no count.      *)
KeepsContract == Contract!Spec

SemFairness == KernelFairness /\ SF_semvars(Returns)

SemFairSpec == SemSpec /\ SemFairness

(* A wait with a timeout ends, posted or not.                              *)
TimedWaitEnds ==
  \A t \in Task : (Is(t, "PEND") /\ Is(t, "TIMEOUT")) ~> ~Is(t, "PEND")
=============================================================================
