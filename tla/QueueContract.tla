---------------------------- MODULE QueueContract ----------------------------
(***************************************************************************)
(* What a bounded message queue promises.  A call that cannot proceed      *)
(* sleeps in order; a message, or a slot, that becomes available goes to   *)
(* the first sleeper and is kept for it until it runs again.  Messages are *)
(* neither lost nor duplicated and leave from the head.                    *)
(***************************************************************************)
EXTENDS KernelLists

CONSTANTS
  Task,     (* who reads and writes                                        *)
  Queue,    (* the queues                                                  *)
  MaxLen,   (* the longest queue                                           *)
  Msg       (* the messages                                                *)

VARIABLES
  content,    (* the messages of each queue, from the head                 *)
  limit,      (* how many it may hold                                      *)
  sleepers,   (* the tasks that wait to read or write, in order            *)
  promised    (* those that were let in but have not gone on yet           *)

queues == <<content, limit, sleepers, promised>>

Side == {"read", "write"}

Opposite(side) == IF side = "read" THEN "write" ELSE "read"

(* What a newcomer may take: messages or free slots kept for nobody.       *)
Available(q, side) ==
  (IF side = "read" THEN Len(content[q]) ELSE limit[q] - Len(content[q]))
    - Cardinality(promised[<<q, side>>])

Init ==
  /\ content = [q \in Queue |-> << >>]
  /\ limit = [q \in Queue |-> 0]
  /\ sleepers = [w \in Queue \X Side |-> << >>]
  /\ promised = [w \in Queue \X Side |-> {}]

(* A new queue takes the place of one that nobody uses.                    *)
Make(q, n) ==
  /\ \A side \in Side : sleepers[<<q, side>>] = << >> /\ promised[<<q, side>>] = {}
  /\ content' = [content EXCEPT ![q] = << >>]
  /\ limit' = [limit EXCEPT ![q] = n]
  /\ UNCHANGED <<sleepers, promised>>

(* A message leaves from the head or enters at either end.                 *)
Transfer(q, side) ==
  \/ /\ side = "read" /\ content[q] # << >>
     /\ content' = [content EXCEPT ![q] = Tail(@)]
  \/ /\ side = "write" /\ Len(content[q]) < limit[q]
     /\ \E m \in Msg : \/ content' = [content EXCEPT ![q] = Append(@, m)]
                       \/ content' = [content EXCEPT ![q] = <<m>> \o @]

(* The first task of list w is let in; the tasks of gone have gone on.     *)
LetIn(w, gone) ==
  IF sleepers[w] = << >>
  THEN promised' = gone /\ UNCHANGED sleepers
  ELSE /\ promised' = [gone EXCEPT ![w] = @ \cup {Head(sleepers[w])}]
       /\ sleepers' = [sleepers EXCEPT ![w] = Tail(@)]

Operate(q, side) ==
  /\ Available(q, side) > 0
  /\ Transfer(q, side) /\ LetIn(<<q, Opposite(side)>>, promised)
  /\ UNCHANGED limit

Sleep(t, q, side) ==
  /\ Available(q, side) = 0
  /\ \A w \in Queue \X Side : ~Linked(sleepers[w], t) /\ t \notin promised[w]
  /\ sleepers' = [sleepers EXCEPT ![<<q, side>>] = Append(@, t)]
  /\ UNCHANGED <<content, limit, promised>>

GoOn(t, q, side) ==
  /\ t \in promised[<<q, side>>]
  /\ Transfer(q, side)
  /\ LetIn(<<q, Opposite(side)>>, [promised EXCEPT ![<<q, side>>] = @ \ {t}])
  /\ UNCHANGED limit

GiveUp(t, w) ==
  /\ Linked(sleepers[w], t)
  /\ sleepers' = [sleepers EXCEPT ![w] = Unlink(@, t)]
  /\ UNCHANGED <<content, limit, promised>>

Next ==
  \E q \in Queue :
    \/ \E n \in 1 .. MaxLen : Make(q, n)
    \/ \E side \in Side :
         \/ Operate(q, side)
         \/ \E t \in Task :
              Sleep(t, q, side) \/ GoOn(t, q, side) \/ GiveUp(t, <<q, side>>)

Spec == Init /\ [][Next]_queues
=============================================================================
