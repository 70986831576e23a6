----------------------------- MODULE SemContract -----------------------------
(***************************************************************************)
(* What a counting semaphore promises.  Each step has the name of the call *)
(* that makes it, and a call has no other effect than the one stated here: *)
(* a post goes to exactly one place, the count or the task that has waited *)
(* longest; a wait that is granted has consumed one post and is answered   *)
(* so, and only the kernel, between the calls, ends a wait without a post: *)
(* by a timeout, or because the task ends.                                 *)
(***************************************************************************)
EXTENDS KernelLists

CONSTANTS
  Task,     (* who waits                                                   *)
  Sem,      (* the semaphores                                              *)
  Limit     (* the largest count                                           *)

VARIABLES
  live,     (* the tasks there are                                         *)
  made,     (* the semaphores there are                                    *)
  count,    (* the posts nobody has consumed                               *)
  queue,    (* who waits, in the order they came                           *)
  outcome,  (* how the wait a task has not yet returned from has ended     *)
  call      (* the call that was made last, and what it was answered       *)

semaphore == <<live, made, count, queue, outcome, call>>

Waits(t) == \E s \in Sem : Linked(queue[s], t)

Init ==
  /\ live \subseteq Task /\ made = {}
  /\ count \in [Sem -> 0 .. Limit]
  /\ queue = [s \in Sem |-> << >>]
  /\ outcome = [t \in Task |-> "none"]
  /\ call = <<"kernel">>

Make(s, n) ==
  /\ call' = <<"create", s, n>>
  /\ s \notin made /\ made' = made \cup {s}
  /\ count' = [count EXCEPT ![s] = n]
  /\ UNCHANGED <<live, queue, outcome>>

(* Nobody waits for a semaphore that goes.                                 *)
Destroy(s) ==
  /\ call' = <<"delete", s>>
  /\ s \in made /\ queue[s] = << >> /\ made' = made \ {s}
  /\ UNCHANGED <<live, count, queue, outcome>>

Take(s) ==
  /\ call' = <<"take", s>>
  /\ s \in made /\ count[s] > 0
  /\ count' = [count EXCEPT ![s] = @ - 1]
  /\ UNCHANGED <<live, made, queue, outcome>>

Wait(t, s) ==
  /\ call' = <<"wait", t, s>>
  /\ s \in made /\ count[s] = 0 /\ ~Waits(t) /\ outcome[t] = "none"
  /\ queue' = [queue EXCEPT ![s] = Append(@, t)]
  /\ UNCHANGED <<live, made, count, outcome>>

Post(s) ==
  /\ call' = <<"post", s>>
  /\ s \in made /\ queue[s] = << >> /\ count[s] < Limit
  /\ count' = [count EXCEPT ![s] = @ + 1]
  /\ UNCHANGED <<live, made, queue, outcome>>

Grant(s) ==
  /\ call' = <<"post", s>>
  /\ s \in made /\ queue[s] # << >>
  /\ queue' = [queue EXCEPT ![s] = Tail(@)]
  /\ outcome' = [outcome EXCEPT ![Head(queue[s])] = "granted"]
  /\ UNCHANGED <<live, made, count>>

(* The answer of a wait is the way it ended.                               *)
Return(t) ==
  /\ call' = <<"return", t, outcome[t]>>
  /\ outcome[t] # "none"
  /\ outcome' = [outcome EXCEPT ![t] = "none"]
  /\ UNCHANGED <<live, made, count, queue>>
-----------------------------------------------------------------------------
(* A step that is no call for a semaphore; tasks may come and go.          *)
Kernel ==
  /\ call' = <<"kernel">>
  /\ live' \subseteq Task
  /\ UNCHANGED <<made, count>>

Rest == Kernel /\ UNCHANGED <<queue, outcome>>

TimeOut(t, s) ==
  /\ Kernel
  /\ Linked(queue[s], t)
  /\ queue' = [queue EXCEPT ![s] = Unlink(@, t)]
  /\ outcome' = [outcome EXCEPT ![t] = "timeout"]

(* The task does not outlive the step: a wait of its ends with no outcome, *)
(* an outcome it has not returned with is lost, and with it the post of a  *)
(* granted one.                                                            *)
Kill(t) ==
  /\ Kernel
  /\ t \notin live \/ t \notin live'
  /\ queue' = [s \in Sem |-> Unlink(queue[s], t)]
  /\ outcome' = [outcome EXCEPT ![t] = "none"]

Next ==
  \/ \E s \in Sem : \/ Destroy(s) \/ Take(s) \/ Post(s) \/ Grant(s)
                    \/ \E n \in 0 .. Limit: Make(s, n)
                    \/ \E t \in Task : Wait(t, s) \/ TimeOut(t, s)
  \/ \E t \in Task : Return(t) \/ Kill(t)
  \/ Rest

Spec == Init /\ [][Next]_semaphore
=============================================================================
