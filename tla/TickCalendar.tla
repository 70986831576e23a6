---------------------------- MODULE TickCalendar ----------------------------
(***************************************************************************)
(* What the kernel's timer lists promise to their clients: a client armed  *)
(* for n ticks leaves the list in the scan of the n-th tick from then,     *)
(* after the clients armed earlier for the same tick, unless it is         *)
(* cancelled first; it is armed at most once.                              *)
(***************************************************************************)
EXTENDS KernelLists

CONSTANTS
  Client,   (* who can wait                                                *)
  Horizon   (* the longest wait, in ticks, a natural number               *)

VARIABLES
  due,      (* due[n]: the clients that expire in n ticks, in order        *)
  scanning  (* the scan of the current tick is under way                   *)

calendar == <<due, scanning>>

Init ==
  /\ due = [n \in 0 .. Horizon |-> << >>]
  /\ scanning = FALSE

Arm(x, n) ==
  /\ ~scanning /\ ~Armed(due, x)
  /\ due' = AddTimer(due, x, n)
  /\ UNCHANGED scanning

Cancel(x) ==
  /\ Armed(due, x)
  /\ due' = CancelTimer(due, x)
  /\ UNCHANGED scanning

StartTick ==
  /\ ~scanning /\ scanning' = TRUE
  /\ due' = NextTick(due)

Expire ==
  /\ scanning /\ due[0] # << >>
  /\ due' = [due EXCEPT ![0] = Tail(@)]
  /\ UNCHANGED scanning

EndTick ==
  /\ scanning /\ due[0] = << >>
  /\ scanning' = FALSE /\ UNCHANGED due

Next ==
  \/ \E x \in Client : Cancel(x) \/ \E n \in 1 .. Horizon : Arm(x, n)
  \/ StartTick \/ Expire \/ EndTick

Spec == Init /\ [][Next]_calendar
=============================================================================
