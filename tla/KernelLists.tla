----------------------------- MODULE KernelLists -----------------------------
(***************************************************************************)
(* The kernel's lists as values.  A LOS_DL_LIST head with the nodes linked *)
(* behind it is the sequence of the nodes' owners; the priority queue is a *)
(* function from priorities to such sequences; the timer list is read at   *)
(* the level at which its clients see it, a calendar: due[n] holds, in     *)
(* expiry order, the clients that expire n ticks from now.                 *)
(* TaskSortLink shows that the timer wheel of los_task.c implements the    *)
(* calendar operators.                                                     *)
(***************************************************************************)
EXTENDS Integers, Sequences, SequencesExt, ListWalk

(* LOS_ListDelete: unlink a node from the list it is on.  The code has no  *)
(* notion of "not on the list": Linked says whether the call is legal.     *)
Unlink(list, x) == RemoveFirst(list, x)

Linked(list, x) == x \in ToSet(list)

NoRepeat(list) == \A j, k \in DOMAIN list : list[j] = list[k] => j = k

(***************************************************************************)
(* The priority queue of los_priqueue.c.  The bitmap of the code is the    *)
(* set of the priorities whose list is not empty.                          *)
(***************************************************************************)
Enqueue(ready, x, p) == [ready EXCEPT ![p] = Append(@, x)]

Dequeue(ready, x, p) == [ready EXCEPT ![p] = Unlink(@, x)]

Occupied(ready) == {p \in DOMAIN ready : ready[p] # << >>}

TopPri(ready) == CHOOSE p \in Occupied(ready) :
                    \A q \in Occupied(ready) : p <= q

Top(ready) == Head(ready[TopPri(ready)])

(***************************************************************************)
(* The calendar.  due[0] holds what the scan of the current tick has still *)
(* to expire.                                                              *)
(***************************************************************************)
Armed(due, x) == \E n \in DOMAIN due : Linked(due[n], x)

AddTimer(due, x, n) == [due EXCEPT ![n] = Append(@, x)]

(* Mutant: the timer of a waiter that is woken or deleted goes on.          *)
CancelTimerForgotten(due, x) == due

CancelTimer(due, x) == [n \in DOMAIN due |-> Unlink(due[n], x)]

NextTick(due) ==
    [n \in DOMAIN due |-> IF n + 1 \in DOMAIN due THEN due[n + 1] ELSE << >>]

(***************************************************************************)
(* Lists with relative counts, as the timer lists of the code keep them:   *)
(* the count of a node is the time after the node before it.               *)
(***************************************************************************)
(* The time until the k-th node of the list comes up.                      *)
TimeTo(list, count, k) ==
  LET sum[j \in 0 .. Len(list)] ==
        IF j = 0 THEN 0 ELSE sum[j - 1] + count[list[j]]
  IN  sum[k]

(* The loop that looks for the place of a node with n to go: how many      *)
(* nodes it walks past.                                                    *)
Passed(list, count, n) ==
  Max({0} \cup {k \in 1 .. Len(list) : TimeTo(list, count, k) <= n})

(* The nodes that come up in n, in order.                                  *)
ComingUp(list, count, n) ==
  SubSeq(list, Passed(list, count, n - 1) + 1, Passed(list, count, n))
=============================================================================
