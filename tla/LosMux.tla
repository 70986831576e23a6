------------------------------- MODULE LosMux -------------------------------
(***************************************************************************)
(* The mutexes of los_mux.c on top of the task scheduler: recursive, with  *)
(* priority inheritance, handed over to the first waiter.  The wait lists  *)
(* of LosTask are the stMuxList of the mutex control blocks.  A call that  *)
(* returns an error changes nothing and is left out.                       *)
(***************************************************************************)
EXTENDS LosTask

CONSTANTS
  MaxNest,    (* bound on the nesting of LOS_MuxPend                       *)
  IsrPosts    (* whether interrupt handlers call LOS_MuxPost               *)

ASSUME NestAssumption == MaxNest \in Nat \ {0} /\ IsrPosts \in BOOLEAN

VARIABLES
  muxUsed,    (* the control blocks whose ucMuxStat is OS_MUX_USED         *)
  muxCount,   (* usMuxCount                                                *)
  muxOwner,   (* pstOwner; stale while the count is zero                   *)
  muxPri      (* usPriority: what the owner's priority returns to          *)

mux     == <<muxUsed, muxCount, muxOwner, muxPri>>
muxvars == <<vars, mux>>

Timeouts == {Forever} \cup 1 .. MaxDelay

MuxTypeOK ==
  /\ TypeOK
  /\ muxUsed \subseteq WaitList
  /\ muxCount \in [WaitList -> 0 .. MaxNest]
  /\ muxOwner \in [WaitList -> Task \cup {NoArg}]
  /\ muxPri \in [WaitList -> Prio]

Held(m) == muxCount[m] > 0

Owns(t, m) == Held(m) /\ muxOwner[m] = t
-----------------------------------------------------------------------------
MuxCreate(c, m) ==
  /\ Enters(c) /\ m \notin muxUsed
  /\ muxUsed' = muxUsed \cup {m}
  /\ muxCount' = [muxCount EXCEPT ![m] = 0]
  /\ muxOwner' = [muxOwner EXCEPT ![m] = NoArg]
  /\ muxPri' = [muxPri EXCEPT ![m] = 0]
  /\ UNCHANGED vars

(* Mutant: a mutex is deleted under its owner and waiters.                 *)
MuxDeletePended(c, m) ==
  /\ Enters(c) /\ m \in muxUsed
  /\ muxUsed' = muxUsed \ {m}
  /\ UNCHANGED <<muxCount, muxOwner, muxPri, vars>>

MuxDelete(c, m) ==
  /\ Enters(c) /\ m \in muxUsed /\ waiting[m] = << >> /\ ~Held(m)
  /\ muxUsed' = muxUsed \ {m}
  /\ UNCHANGED <<muxCount, muxOwner, muxPri, vars>>

(* Mutant: the priority of the new owner is not recorded.                  *)
MuxTakeUnrecorded(c, m) ==
  /\ Enters(c) /\ c # Isr /\ m \in muxUsed /\ ~Held(m)
  /\ muxCount' = [muxCount EXCEPT ![m] = @ + 1]
  /\ muxOwner' = [muxOwner EXCEPT ![m] = c]
  /\ UNCHANGED <<muxUsed, muxPri, vars>>

(* LOS_MuxPend of a free mutex.                                            *)
MuxTake(c, m) ==
  /\ Enters(c) /\ c # Isr /\ m \in muxUsed /\ ~Held(m)
  /\ muxCount' = [muxCount EXCEPT ![m] = @ + 1]
  /\ muxOwner' = [muxOwner EXCEPT ![m] = c]
  /\ muxPri' = [muxPri EXCEPT ![m] = pri[c]]
  /\ UNCHANGED <<muxUsed, vars>>

(* LOS_MuxPend by its owner.                                               *)
MuxNest(c, m) ==
  /\ Enters(c) /\ c # Isr /\ m \in muxUsed /\ Owns(c, m)
  /\ muxCount[m] < MaxNest
  /\ muxCount' = [muxCount EXCEPT ![m] = @ + 1]
  /\ UNCHANGED <<muxUsed, muxOwner, muxPri, vars>>

(* LOS_MuxPend of another task's mutex: the owner inherits the priority of *)
(* the running task, if that is higher, and the running task waits.        *)
MuxWait(c, m, n) ==
  LET owner    == muxOwner[m]
      inherits == pri[owner] > pri[c]
  IN
  /\ Enters(c) /\ c # Isr /\ m \in muxUsed
  /\ Held(m) /\ owner # c /\ taskLock = 0
  /\ pri' = IF inherits THEN [pri EXCEPT ![owner] = pri[c]] ELSE pri
  /\ TaskWait(IF inherits THEN PriModify(ready, owner, pri[c]) ELSE ready, c, m, n)
  /\ pc' = [pc EXCEPT ![c] = "sched"]
  /\ arg' = [arg EXCEPT ![c] = m]
  /\ UNCHANGED <<recycle, sched, isr, mux>>

(* LOS_MuxPend back from LOS_Schedule: the flag TIMEOUT is the outcome.    *)
MuxPendReturn(c) ==
  /\ Running(c) /\ pc[c] = "ret"
  /\ status' = [status EXCEPT ![c] = @ \ {"TIMEOUT"}]
  /\ pc' = [pc EXCEPT ![c] = "user"]
  /\ arg' = [arg EXCEPT ![c] = NoArg]
  /\ UNCHANGED <<pri, ready, waiting, due, recycle, sched, isr, mux>>
  /\ NoUnlinking

(* LOS_MuxPost of a mutex taken more than once.                            *)
MuxUnnest(c, m) ==
  /\ Enters(c) /\ (c = Isr => IsrPosts)
  /\ m \in muxUsed /\ Owns(run, m) /\ muxCount[m] > 1
  /\ muxCount' = [muxCount EXCEPT ![m] = @ - 1]
  /\ UNCHANGED <<muxUsed, muxOwner, muxPri, vars>>

(* LOS_MuxPost that releases the mutex.  The owner's priority returns to   *)
(* what it was; the first waiter, if there is one, owns the mutex from     *)
(* here on, and only then is there a call of LOS_Schedule.                 *)
MuxPost(c, m) ==
  LET restored == [pri EXCEPT ![run] = muxPri[m]]
      queue    == IF pri[run] # muxPri[m]
                  THEN PriModify(ready, run, muxPri[m]) ELSE ready
      next     == Head(waiting[m])
  IN
  /\ Enters(c) /\ (c = Isr => IsrPosts)
  /\ m \in muxUsed /\ Owns(run, m) /\ muxCount[m] = 1
  /\ pri' = restored
  /\ IF waiting[m] # << >>
     THEN /\ muxOwner' = [muxOwner EXCEPT ![m] = next]
          /\ muxPri' = [muxPri EXCEPT ![m] = restored[next]]
          /\ TaskWake(queue, restored, next, m)
          /\ ThenSchedule(c)
          /\ UNCHANGED muxCount
     ELSE /\ muxCount' = [muxCount EXCEPT ![m] = 0]
          /\ ready' = queue
          /\ ThenReturn /\ NoUnlinking
          /\ UNCHANGED <<muxOwner, muxPri, status, waiting, due>>
  /\ UNCHANGED <<muxUsed, recycle, isr>>
-----------------------------------------------------------------------------
(* osMuxInit: every control block is free.                                 *)
MuxInit ==
  /\ Init
  /\ muxUsed = {}
  /\ muxCount = [m \in WaitList |-> 0]
  /\ muxOwner = [m \in WaitList |-> NoArg]
  /\ muxPri = [m \in WaitList |-> 0]

MuxStep ==
  \E c \in Task \cup {Isr}, m \in WaitList :
    \/ MuxCreate(c, m) \/ MuxDelete(c, m)
    \/ MuxTake(c, m) \/ MuxNest(c, m) \/ \E n \in Timeouts : MuxWait(c, m, n)
    \/ MuxUnnest(c, m) \/ MuxPost(c, m)

Returns == \E c \in Task : MuxPendReturn(c)

MuxNext == (Next /\ UNCHANGED mux) \/ MuxStep \/ Returns

MuxSpec == MuxInit /\ [][MuxNext]_muxvars
-----------------------------------------------------------------------------
(* A task that is about to return from LOS_MuxPend after a wait returns    *)
(* LOS_OK exactly if the mutex was handed to it: the hand-over and the     *)
(* timeout race while the task is not running.                             *)
GrantedIsOwner ==
  \A t \in Task : arg[t] \in WaitList /\ ~Is(t, "PEND")
    => (Owns(t, arg[t]) <=> ~Is(t, "TIMEOUT"))

(* Tasks wait only for a mutex that is in use and locked by another task,  *)
(* so that some LOS_MuxPost will hand it on; nobody is stranded by         *)
(* LOS_MuxDelete or on a mutex that is free.                               *)
WaitersHaveOwner ==
  \A m \in WaitList : waiting[m] # << >>
    => m \in muxUsed /\ Held(m) /\ ~Linked(waiting[m], muxOwner[m])

(* A locked mutex changes hands only by a step of the task that owns it,   *)
(* while the processor executes that task.                                 *)
OnlyOwnerReleases ==
  [][\A m \in WaitList : Held(m) /\ (~Held(m)' \/ muxOwner'[m] # muxOwner[m])
       => Running(muxOwner[m]) /\ pc[muxOwner[m]] = "user"]_muxvars

(* Inheritance is undone: a task that owns no mutex has the priority it    *)
(* was created with, however many waiters raised it and however their      *)
(* waits ended.  For nested mutexes the code does not have this property.  *)
BorrowedReturned ==
  \A t \in Task : Live(t) /\ (\A m \in WaitList : ~Owns(t, m))
    => pri[t] = BootPri[t]

(* The owner of a mutex is at least as urgent as every task waiting for    *)
(* it, which is what LOS_MuxPend raises it for.                            *)
OwnerInherits ==
  \A m \in WaitList : Held(m)
    => \A t \in ToSet(waiting[m]) : pri[muxOwner[m]] <= pri[t]
=============================================================================
