---------------------------- MODULE SwtmrContract ----------------------------
(***************************************************************************)
(* What the software timers promise.  A timer started with period n fires  *)
(* in the n-th tick from then, after those that were to fire in that tick  *)
(* already, unless it is stopped or started again before; a periodic one   *)
(* then starts again.  Each firing puts the timer at the end of a bounded  *)
(* queue of calls, from where its handler is called; a firing that finds   *)
(* the queue full is lost.                                                 *)
(***************************************************************************)
EXTENDS KernelLists

CONSTANTS
  Timer,    (* the timers                                                  *)
  Horizon,  (* the longest period, in ticks                                *)
  Limit     (* the length of the queue of calls                            *)

VARIABLES
  due,       (* due[n]: the timers that fire in n ticks, in order          *)
  scanning,  (* the timers of the current tick are firing                  *)
  period,    (* period[x]: how many ticks a start of x is for              *)
  repeats,   (* the periodic timers                                        *)
  calls      (* the handlers to be called                                  *)

timers == <<due, scanning, period, repeats, calls>>

Init ==
  /\ due = [n \in 0 .. Horizon |-> << >>] /\ scanning = FALSE
  /\ period \in [Timer -> 1 .. Horizon]
  /\ repeats \in SUBSET Timer
  /\ calls = << >>

Set(x, n, again) ==
  /\ ~Armed(due, x)
  /\ period' = [period EXCEPT ![x] = n]
  /\ repeats' = IF again THEN repeats \cup {x} ELSE repeats \ {x}
  /\ UNCHANGED <<due, scanning, calls>>

Start(x) ==
  /\ ~scanning
  /\ due' = AddTimer(CancelTimer(due, x), x, period[x])
  /\ UNCHANGED <<scanning, period, repeats, calls>>

Stop(x) ==
  /\ ~scanning
  /\ due' = CancelTimer(due, x)
  /\ UNCHANGED <<scanning, period, repeats, calls>>

StartTick ==
  /\ ~scanning /\ scanning' = TRUE
  /\ due' = NextTick(due)
  /\ UNCHANGED <<period, repeats, calls>>

Fire ==
  LET x == Head(due[0]) IN
  /\ scanning /\ due[0] # << >>
  /\ due' = IF x \in repeats THEN AddTimer(CancelTimer(due, x), x, period[x])
                             ELSE CancelTimer(due, x)
  /\ calls' = IF Len(calls) < Limit THEN Append(calls, x) ELSE calls
  /\ UNCHANGED <<scanning, period, repeats>>

EndTick ==
  /\ scanning /\ due[0] = << >> /\ scanning' = FALSE
  /\ UNCHANGED <<due, period, repeats, calls>>

Call ==
  /\ ~scanning /\ calls # << >> /\ calls' = Tail(calls)
  /\ UNCHANGED <<due, scanning, period, repeats>>

Next ==
  \/ \E x \in Timer : \/ Start(x) \/ Stop(x)
                      \/ \E n \in 1 .. Horizon, again \in BOOLEAN : Set(x, n, again)
  \/ StartTick \/ Fire \/ EndTick \/ Call

Spec == Init /\ [][Next]_timers
=============================================================================
