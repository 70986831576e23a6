---------------------------- MODULE TaskSortLink ----------------------------
(***************************************************************************)
(* The timer wheel of los_task.c: 32 circular lists, a cursor, and in each *)
(* TCB one word uwIdxRollNum with the list's index in its top bits and, in *)
(* the other 27, the number of turns of the wheel left after the node      *)
(* before it on the list (a delta).  The wheel's length and the width of   *)
(* the roll number are parameters.                                         *)
(***************************************************************************)
EXTENDS KernelLists

CONSTANTS
  Client,   (* the tasks                                                   *)
  WheelLen, (* OS_TSK_SORTLINK_LEN                                         *)
  Rolls     (* 2^27 in the code: one more than the largest roll number     *)

ASSUME WheelAssumption == WheelLen \in Nat \ {0} /\ Rolls \in Nat \ {0}

VARIABLES
  cursor,   (* usCursor                                                    *)
  link,     (* pstSortLink                                                 *)
  roll,     (* UWROLLNUM of uwIdxRollNum                                   *)
  index,    (* UWSORTINDEX of uwIdxRollNum                                 *)
  scanning  (* osTaskScan is under way                                     *)

vars == <<cursor, link, roll, index, scanning>>

Slots == 0 .. WheelLen - 1

(* A timeout is a UINT32, the two fields together.                         *)
MaxTimeout == WheelLen * Rolls - 1

OnWheel(x) == Linked(link[index[x]], x)

TypeOK ==
  /\ cursor \in Slots
  /\ link \in [Slots -> Seq(Client)]
  /\ roll \in [Client -> 0 .. Rolls - 1]
  /\ index \in [Client -> Slots]
  /\ scanning \in BOOLEAN

Init ==
  /\ cursor = 0
  /\ link = [s \in Slots |-> << >>]
  /\ roll = [x \in Client |-> 0]
  /\ index = [x \in Client |-> 0]
  /\ scanning = FALSE

(* The turns left until the j-th node of a list: the sum of the deltas.    *)
Turns(list, j) == TimeTo(list, roll, j)

(* osTaskAdd2TimerList: walk past the nodes that expire no later, take     *)
(* their deltas off the own roll number, take the rest off the next one's. *)
Add2TimerList(x, timeout) ==
  LET low   == timeout % WheelLen
      turns == (timeout \div WheelLen) - (IF low > 0 THEN 0 ELSE 1)
      slot  == (low + cursor) % WheelLen
      list  == link[slot]
      past  == Passed(list, roll, turns)
      own   == turns - Turns(list, past)
  IN
  /\ ~scanning /\ ~OnWheel(x)
  /\ index' = [index EXCEPT ![x] = slot]
  /\ link' = [link EXCEPT ![slot] = InsertAt(@, past + 1, x)]
  /\ roll' = [y \in Client |->
               IF y = x THEN own
               ELSE IF past < Len(list) /\ y = list[past + 1] THEN roll[y] - own
               ELSE roll[y]]
  /\ UNCHANGED <<cursor, scanning>>

(* Mutant: the next node does not inherit the delta.                       *)
TimerListDeleteOnly(x) ==
  /\ OnWheel(x)
  /\ link' = [link EXCEPT ![index[x]] = Unlink(@, x)]
  /\ UNCHANGED <<cursor, roll, index, scanning>>

(* osTimerListDelete: the next node, if there is one, inherits the delta.  *)
TimerListDelete(x) ==
  LET list == link[index[x]]
      pos  == CHOOSE j \in DOMAIN list : list[j] = x
  IN
  /\ OnWheel(x)
  /\ link' = [link EXCEPT ![index[x]] = Unlink(@, x)]
  /\ roll' = IF pos < Len(list)
            THEN [roll EXCEPT ![list[pos + 1]] = @ + roll[x]]
            ELSE roll
  /\ UNCHANGED <<cursor, index, scanning>>

(* osTaskScan: advance the cursor; unlink the nodes whose time has come,   *)
(* one round each; take one turn off the first that stays.                 *)
ScanStart ==
  /\ ~scanning /\ scanning' = TRUE
  /\ cursor' = (cursor + 1) % WheelLen
  /\ UNCHANGED <<link, roll, index>>

ScanExpire ==
  LET list == link[cursor] IN
  /\ scanning /\ list # << >> /\ roll[Head(list)] = 0
  /\ link' = [link EXCEPT ![cursor] = Tail(@)]
  /\ UNCHANGED <<cursor, roll, index, scanning>>

ScanEnd ==
  LET list == link[cursor] IN
  /\ scanning /\ (list # << >> => roll[Head(list)] > 0)
  /\ scanning' = FALSE
  /\ roll' = IF list = << >> THEN roll ELSE [roll EXCEPT ![Head(list)] = @ - 1]
  /\ UNCHANGED <<cursor, link, index>>

Next ==
  \/ \E x \in Client : \/ TimerListDelete(x)
                       \/ \E n \in 1 .. MaxTimeout : Add2TimerList(x, n)
  \/ ScanStart \/ ScanExpire \/ ScanEnd

Spec == Init /\ [][Next]_vars
-----------------------------------------------------------------------------
(* The wheel read as a calendar: a node s slots ahead of the cursor with   *)
(* k turns left expires in s + k * WheelLen ticks.  The slot under the     *)
(* cursor is a whole turn away, except while it is being scanned.          *)
SlotOf(n)  == (n + cursor) % WheelLen

TurnsOf(n) ==
  (n \div WheelLen) - (IF n % WheelLen = 0 /\ ~scanning THEN 1 ELSE 0)

DueAt(n) == ComingUp(link[SlotOf(n)], roll, TurnsOf(n))

WheelDue == [n \in 0 .. MaxTimeout |-> DueAt(n)]

Calendar == INSTANCE TickCalendar
              WITH Horizon <- MaxTimeout, due <- WheelDue

(* The wheel implements the calendar: every wait ends on its tick exactly, *)
(* whatever is armed or cancelled around it, on the same slot or not, for  *)
(* every timeout the word can hold.                                        *)
WheelIsCalendar == Calendar!Spec

(* Mutant: the slot under the cursor counts as due now, not a turn away.   *)
NextSwitchTimeNow ==
  LET first(k) == k + roll[Head(link[(cursor + k) % WheelLen])] * WheelLen
      times == {first(k) : k \in {s \in Slots : link[(cursor + s) % WheelLen] # << >>}}
  IN  IF times = {} THEN 0 ELSE Min(times)

(* osTaskNextSwitchTimeGet, which the tickless idle task sleeps by.        *)
NextSwitchTime ==
  LET first(k) == (IF k = 0 THEN WheelLen ELSE k)
                    + roll[Head(link[(cursor + k) % WheelLen])] * WheelLen
      times == {first(k) : k \in {s \in Slots : link[(cursor + s) % WheelLen] # << >>}}
  IN  IF times = {} THEN 0 ELSE Min(times)

(* The sleep it computes is the time to the first expiry: the idle task    *)
(* neither oversleeps a waiter nor wakes for nothing.                      *)
SleepIsExact ==
  ~scanning => NextSwitchTime =
                 (IF \A n \in DOMAIN WheelDue : WheelDue[n] = << >> THEN 0
                  ELSE Min({n \in DOMAIN WheelDue : WheelDue[n] # << >>}))
=============================================================================
