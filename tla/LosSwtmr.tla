------------------------------ MODULE LosSwtmr ------------------------------
(***************************************************************************)
(* The software timers of los_swtmr.c.  A step is a critical section of a  *)
(* task's call, or of the timer task, or one round of the tick's scan; as  *)
(* the scan runs in an interrupt no task makes a step before it ends.      *)
(* Other interrupt handlers make no timer calls here: the scan takes no    *)
(* interrupt lock and does not stand them.  A call that returns an error   *)
(* changes nothing and is left out; so is one with an identifier that      *)
(* CHECK_SWTMRID refuses, and with it the counting of usTimerID.           *)
(***************************************************************************)
EXTENDS KernelLists

CONSTANTS
  Timer,        (* the control blocks m_pstSwtmrCBArray                    *)
  MaxInterval,  (* bound on the intervals                                  *)
  QueueSize     (* OS_SWTMR_HANDLE_QUEUE_SIZE                              *)

ASSUME SwtmrAssumption ==
  /\ IsFiniteSet(Timer) /\ MaxInterval \in Nat \ {0}
  /\ QueueSize \in Nat \ {0}

VARIABLES
  state,      (* ucState                                                   *)
  mode,       (* ucMode                                                    *)
  interval,   (* uwInterval                                                *)
  cnt,        (* uwCount: ticks after the timer before it on the list      *)
  sorted,     (* m_pstSwtmrSortList                                        *)
  free,       (* m_pstSwtmrFreeList                                        *)
  creating,   (* control blocks LOS_SwtmrCreate has taken and not filled   *)
  scan,       (* the tick's scan is under way                              *)
  calls       (* m_uwSwTmrHandlerQueue                                     *)

cb      == <<state, mode, interval, cnt>>
lists   == <<sorted, free, creating>>
swtvars == <<cb, lists, scan, calls>>

Modes == {"ONCE", "PERIOD", "NO_SELFDELETE"}

SwtmrTypeOK ==
  /\ state \in [Timer -> {"UNUSED", "CREATED", "TICKING"}]
  /\ mode \in [Timer -> Modes]
  /\ interval \in [Timer -> 1 .. MaxInterval]
  /\ cnt \in [Timer -> 0 .. MaxInterval]
-----------------------------------------------------------------------------
(* osSwTmrStart, on the list and with the counts that the earlier steps of *)
(* the same critical section leave.                                        *)
Start(list, c, t) ==
  LET k    == Passed(list, c, interval[t])
      left == interval[t] - TimeTo(list, c, k)
  IN  /\ sorted' = InsertAt(list, k + 1, t)
      /\ cnt' = [u \in Timer |->
                   IF u = t THEN left
                   ELSE IF k < Len(list) /\ u = list[k + 1] THEN c[u] - left
                   ELSE c[u]]

(* Mutant: the ticks of a stopped timer are lost to those behind it.       *)
StoppedShort(t) == cnt

(* osSwtmrStop: the timer behind takes over the count.                     *)
Stopped(t) ==
  [u \in Timer |->
     IF \E k \in 2 .. Len(sorted) : sorted[k - 1] = t /\ sorted[k] = u
     THEN cnt[u] + cnt[t] ELSE cnt[u]]

(* LOS_SwtmrCreate takes a control block and, after the critical section,  *)
(* fills it.                                                               *)
SwtmrAlloc ==
  /\ ~scan /\ free # << >>
  /\ free' = Tail(free)
  /\ creating' = creating \cup {Head(free)}
  /\ UNCHANGED <<cb, sorted, scan, calls>>

SwtmrFill(t, n, m) ==
  /\ ~scan /\ t \in creating
  /\ creating' = creating \ {t}
  /\ mode' = [mode EXCEPT ![t] = m]
  /\ interval' = [interval EXCEPT ![t] = n]
  /\ cnt' = [cnt EXCEPT ![t] = 0]
  /\ state' = [state EXCEPT ![t] = "CREATED"]
  /\ UNCHANGED <<sorted, free, scan, calls>>

(* Mutant: a ticking timer is started without being stopped.               *)
SwtmrStartTicking(t) ==
  /\ ~scan /\ state[t] # "UNUSED"
  /\ Start(sorted, cnt, t)
  /\ state' = [state EXCEPT ![t] = "TICKING"]
  /\ UNCHANGED <<mode, interval, free, creating, scan, calls>>

(* LOS_SwtmrStart; a timer that is ticking is stopped first.               *)
SwtmrStart(t) ==
  /\ ~scan /\ state[t] # "UNUSED"
  /\ IF state[t] = "TICKING" THEN Start(Unlink(sorted, t), Stopped(t), t)
                             ELSE Start(sorted, cnt, t)
  /\ state' = [state EXCEPT ![t] = "TICKING"]
  /\ UNCHANGED <<mode, interval, free, creating, scan, calls>>

SwtmrStop(t) ==
  /\ ~scan /\ state[t] = "TICKING"
  /\ sorted' = Unlink(sorted, t) /\ cnt' = Stopped(t)
  /\ state' = [state EXCEPT ![t] = "CREATED"]
  /\ UNCHANGED <<mode, interval, free, creating, scan, calls>>

SwtmrDelete(t) ==
  /\ ~scan /\ state[t] # "UNUSED"
  /\ IF state[t] = "TICKING"
     THEN sorted' = Unlink(sorted, t) /\ cnt' = Stopped(t)
     ELSE UNCHANGED <<sorted, cnt>>
  /\ free' = <<t>> \o free
  /\ state' = [state EXCEPT ![t] = "UNUSED"]
  /\ UNCHANGED <<mode, interval, creating, scan, calls>>
-----------------------------------------------------------------------------
(* osSwtmrScan: only the count of the first timer is decremented.          *)
SwtmrScanStart ==
  /\ ~scan /\ scan' = TRUE
  /\ cnt' = IF sorted = << >> THEN cnt ELSE [cnt EXCEPT ![Head(sorted)] = @ - 1]
  /\ UNCHANGED <<state, mode, interval, lists, calls>>

(* One round of osSwTmrTimeoutHandle.  The message to the timer task is    *)
(* written with LOS_NO_WAIT and the result is ignored.                     *)
SwtmrExpire ==
  LET t    == Head(sorted)
      rest == Tail(sorted)
  IN
  /\ scan /\ sorted # << >> /\ cnt[t] = 0
  /\ calls' = IF Len(calls) < QueueSize THEN Append(calls, t) ELSE calls
  /\ \/ /\ mode[t] = "ONCE"
        /\ sorted' = rest
        /\ free' = <<t>> \o free
        /\ state' = [state EXCEPT ![t] = "UNUSED"]
        /\ UNCHANGED cnt
     \/ /\ mode[t] = "PERIOD"
        /\ Start(rest, cnt, t)
        /\ UNCHANGED <<free, state>>
     \/ /\ mode[t] = "NO_SELFDELETE"
        /\ sorted' = rest
        /\ state' = [state EXCEPT ![t] = "CREATED"]
        /\ UNCHANGED <<free, cnt>>
  /\ UNCHANGED <<mode, interval, creating, scan>>

SwtmrScanEnd ==
  /\ scan /\ (sorted # << >> => cnt[Head(sorted)] > 0)
  /\ scan' = FALSE
  /\ UNCHANGED <<cb, lists, calls>>

(* osSwTmrTask takes a message; the handler's own calls are calls like any *)
(* other.                                                                  *)
SwTmrTask ==
  /\ ~scan /\ calls # << >>
  /\ calls' = Tail(calls)
  /\ UNCHANGED <<cb, lists, scan>>
-----------------------------------------------------------------------------
(* osSwTmrInit.                                                            *)
SwtmrInit ==
  /\ state = [t \in Timer |-> "UNUSED"]
  /\ mode = [t \in Timer |-> "ONCE"]
  /\ interval = [t \in Timer |-> 1] /\ cnt = [t \in Timer |-> 0]
  /\ sorted = << >> /\ free \in SetToSeqs(Timer) /\ creating = {}
  /\ scan = FALSE /\ calls = << >>

SwtmrNext ==
  \/ SwtmrAlloc
  \/ \E t \in Timer :
       \/ \E n \in 1 .. MaxInterval, m \in Modes : SwtmrFill(t, n, m)
       \/ SwtmrStart(t) \/ SwtmrStop(t) \/ SwtmrDelete(t)
  \/ SwtmrScanStart \/ SwtmrExpire \/ SwtmrScanEnd \/ SwTmrTask

SwtmrSpec == SwtmrInit /\ [][SwtmrNext]_swtvars
-----------------------------------------------------------------------------
(* A control block is on one list, once: TICKING on the sorted list, UNUSED *)
(* on the free list unless it is about to become a timer.  osSwtmrStop      *)
(* looks for a ticking timer without looking for the end of the list, and   *)
(* LOS_SwtmrCreate fills the block after its critical section.              *)
OnOneList ==
  /\ NoRepeat(sorted) /\ NoRepeat(free)
  /\ \A t \in Timer : state[t] = "TICKING" <=> Linked(sorted, t)
  /\ \A t \in Timer : state[t] = "UNUSED" <=> (Linked(free, t) \/ t \in creating)
  /\ ToSet(free) \cap creating = {}

(* What the list with its relative counts stands for.                      *)
Contract == INSTANCE SwtmrContract WITH
  Horizon <- MaxInterval, Limit <- QueueSize, scanning <- scan,
  due <- [n \in 0 .. MaxInterval |-> ComingUp(sorted, cnt, n)],
  period <- interval, repeats <- {t \in Timer : mode[t] = "PERIOD"}

(* The list with relative counts, of which a tick decrements one, keeps    *)
(* every timer's time through starts, stops, deletions and restarts of the *)
(* others, and the handlers are called in the order of the expiries.       *)
KeepsContract == Contract!Spec
=============================================================================
