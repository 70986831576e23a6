------------------------------ MODULE LosQueue ------------------------------
(***************************************************************************)
(* The message queues and mails of los_queue.c on top of the task          *)
(* scheduler, with the block pools of los_membox.c.  The wait lists of     *)
(* LosTask are, for each queue, its readers, its writers and the tasks     *)
(* that wait for a block of its mail pool.  A call that returns an error   *)
(* changes nothing and is left out, but for the timeout of a wait.         *)
(***************************************************************************)
EXTENDS LosTask

CONSTANTS
  Queue,    (* the queue control blocks                                    *)
  MaxLen,   (* bound on the length of a queue                              *)
  Lengths,  (* the lengths of the queues the application creates           *)
  Msg,      (* the messages                                                *)
  Block     (* the blocks of a mail pool                                   *)

Side == {"read", "write"}

ASSUME QueueAssumption ==
  /\ WaitList = Queue \X (Side \cup {"mem"})
  /\ MaxLen \in Nat \ {0} /\ Lengths \subseteq 1 .. MaxLen
  /\ Msg # {} /\ IsFiniteSet(Block) /\ NoArg \notin Msg \cup Block

VARIABLES
  queUsed,   (* the control blocks whose usQueueState is OS_QUEUE_INUSED   *)
  queLen,    (* usQueueLen                                                 *)
  count,     (* usReadWriteableCnt                                         *)
  head,      (* usQueueHead                                                *)
  tail,      (* usQueueTail                                                *)
  slot,      (* pucQueue                                                   *)
  call,      (* what a blocked caller will do: uwOperateType, pBufferAddr  *)
  box,       (* stFreeList of the pool, one beside each queue              *)
  held,      (* the blocks the application has                             *)
  puwMsg     (* puwMsg of the task control blocks                          *)

qcb  == <<queUsed, queLen, count, head, tail, slot>>
mail == <<box, held, puwMsg>>
quevars == <<vars, qcb, call, mail>>

Timeouts == {Forever} \cup 1 .. MaxDelay

(* LOS_QueueRead, LOS_QueueWrite and LOS_QueueWriteHead; the variants that *)
(* copy the message and those that copy a pointer to it do not differ.     *)
Operation ==
  [side : {"read"}, end : {"head"}, msg : {NoArg}]
    \cup [side : {"write"}, end : {"head", "tail"}, msg : Msg]

NoCall == [side |-> "none", end |-> "none", msg |-> NoArg]

QueueTypeOK ==
  /\ TypeOK
  /\ queUsed \subseteq Queue
  /\ queLen \in [Queue -> 0 .. MaxLen]
  /\ count \in [Queue -> [Side -> 0 .. MaxLen]]
  /\ \A q \in Queue : {head[q], tail[q]} \subseteq {0} \cup 0 .. queLen[q] - 1
  /\ slot \in [Queue -> [0 .. MaxLen - 1 -> Msg]]
  /\ call \in [Task -> Operation \cup {NoCall}]
  /\ puwMsg \in [Task -> Block \cup {NoArg}]

Opposite(side) == IF side = "read" THEN "write" ELSE "read"
-----------------------------------------------------------------------------
(* The ring of the slots.                                                  *)
After(q, n) == IF n + 1 = queLen[q] THEN 0 ELSE n + 1

Before(q, n) == IF n = 0 THEN queLen[q] - 1 ELSE n - 1

(* Mutant: a write at the head does not move the head first.               *)
BufferOperateLate(q, op) ==
  \/ /\ op.side = "read"
     /\ head' = [head EXCEPT ![q] = After(q, @)]
     /\ UNCHANGED <<tail, slot>>
  \/ /\ op.side = "write" /\ op.end = "head"
     /\ head' = [head EXCEPT ![q] = Before(q, @)]
     /\ slot' = [slot EXCEPT ![q][head[q]] = op.msg]
     /\ UNCHANGED tail
  \/ /\ op.side = "write" /\ op.end = "tail"
     /\ slot' = [slot EXCEPT ![q][tail[q]] = op.msg]
     /\ tail' = [tail EXCEPT ![q] = After(q, @)]
     /\ UNCHANGED head

(* osQueueBufferOperate.  A read takes the message of the head's slot.     *)
BufferOperate(q, op) ==
  \/ /\ op.side = "read"
     /\ head' = [head EXCEPT ![q] = After(q, @)]
     /\ UNCHANGED <<tail, slot>>
  \/ /\ op.side = "write" /\ op.end = "head"
     /\ head' = [head EXCEPT ![q] = Before(q, @)]
     /\ slot' = [slot EXCEPT ![q][head'[q]] = op.msg]
     /\ UNCHANGED tail
  \/ /\ op.side = "write" /\ op.end = "tail"
     /\ slot' = [slot EXCEPT ![q][tail[q]] = op.msg]
     /\ tail' = [tail EXCEPT ![q] = After(q, @)]
     /\ UNCHANGED head

(* LOS_QueueCreate.                                                        *)
QueueCreate(c, q, n) ==
  /\ Enters(c) /\ q \notin queUsed
  /\ queUsed' = queUsed \cup {q}
  /\ queLen' = [queLen EXCEPT ![q] = n]
  /\ count' = [count EXCEPT ![q] = [read |-> 0, write |-> n]]
  /\ head' = [head EXCEPT ![q] = 0]
  /\ tail' = [tail EXCEPT ![q] = 0]
  /\ UNCHANGED <<slot, call, mail, vars>>

(* Mutant: a queue is deleted though a task was promised a slot of it.     *)
QueueDeletePromised(c, q) ==
  /\ Enters(c) /\ q \in queUsed
  /\ \A w \in WaitList : w[1] = q => waiting[w] = << >>
  /\ queUsed' = queUsed \ {q}
  /\ UNCHANGED <<queLen, count, head, tail, slot, call, mail, vars>>

(* LOS_QueueDelete: nobody waits, and no slot is promised to a task that   *)
(* has not run since it was woken.                                         *)
QueueDelete(c, q) ==
  /\ Enters(c) /\ q \in queUsed
  /\ \A w \in WaitList : w[1] = q => waiting[w] = << >>
  /\ count[q]["read"] + count[q]["write"] = queLen[q]
  /\ queUsed' = queUsed \ {q}
  /\ UNCHANGED <<queLen, count, head, tail, slot, call, mail, vars>>

(* osQueueOperate does not have to wait.                                   *)
QueueOperate(c, q, op) ==
  LET other == <<q, Opposite(op.side)>> IN
  /\ Enters(c) /\ q \in queUsed /\ count[q][op.side] > 0
  /\ BufferOperate(q, op)
  /\ IF waiting[other] # << >>
     THEN /\ count' = [count EXCEPT ![q][op.side] = @ - 1]
          /\ TaskWake(ready, pri, Head(waiting[other]), other)
          /\ ThenSchedule(c)
          /\ UNCHANGED <<pri, recycle, isr>>
     ELSE /\ count' = [count EXCEPT ![q][op.side] = @ - 1, ![q][other[2]] = @ + 1]
          /\ UNCHANGED vars
  /\ UNCHANGED <<queUsed, queLen, call, mail>>

(* osQueueOperate waits.                                                   *)
QueueWait(c, q, op, n) ==
  /\ Enters(c) /\ c # Isr /\ q \in queUsed
  /\ count[q][op.side] = 0 /\ taskLock = 0
  /\ TaskWait(ready, c, <<q, op.side>>, n)
  /\ pc' = [pc EXCEPT ![c] = "sched"]
  /\ arg' = [arg EXCEPT ![c] = <<q, op.side>>]
  /\ call' = [call EXCEPT ![c] = op]
  /\ UNCHANGED <<pri, recycle, sched, isr, qcb, mail>>

(* Mutant: a woken task takes its turn without passing it on.              *)
QueueGoOnAlone(c) ==
  LET q == arg[c][1] IN
  /\ Running(c) /\ pc[c] = "ret" /\ call[c] # NoCall /\ ~Is(c, "TIMEOUT")
  /\ BufferOperate(q, call[c])
  /\ count' = [count EXCEPT ![q][Opposite(call[c].side)] = @ + 1]
  /\ pc' = [pc EXCEPT ![c] = "user"]
  /\ call' = [call EXCEPT ![c] = NoCall]
  /\ arg' = [arg EXCEPT ![c] = NoArg]
  /\ UNCHANGED <<tcb, sched, isr, queUsed, queLen, mail>> /\ NoUnlinking

(* osQueueOperate back from LOS_Schedule: the slot or message was kept for *)
(* this task, the count does not change.                                   *)
QueueGoOn(c) ==
  LET q     == arg[c][1]
      other == <<q, Opposite(call[c].side)>>
  IN
  /\ Running(c) /\ pc[c] = "ret" /\ call[c] # NoCall /\ ~Is(c, "TIMEOUT")
  /\ BufferOperate(q, call[c])
  /\ IF waiting[other] # << >>
     THEN /\ TaskWake(ready, pri, Head(waiting[other]), other)
          /\ pc' = [pc EXCEPT ![c] = "sched"]
          /\ UNCHANGED count
     ELSE /\ count' = [count EXCEPT ![q][other[2]] = @ + 1]
          /\ pc' = [pc EXCEPT ![c] = "user"]
          /\ UNCHANGED <<status, ready, waiting, due>> /\ NoUnlinking
  /\ call' = [call EXCEPT ![c] = NoCall]
  /\ arg' = [arg EXCEPT ![c] = NoArg]
  /\ UNCHANGED <<pri, recycle, sched, isr, queUsed, queLen, mail>>

(* Either wait back from LOS_Schedule with the flag TIMEOUT.               *)
QueueTimedOut(c) ==
  /\ Running(c) /\ pc[c] = "ret" /\ Is(c, "TIMEOUT")
  /\ status' = [status EXCEPT ![c] = @ \ {"TIMEOUT"}]
  /\ pc' = [pc EXCEPT ![c] = "user"]
  /\ arg' = [arg EXCEPT ![c] = NoArg]
  /\ call' = [call EXCEPT ![c] = NoCall]
  /\ UNCHANGED <<pri, ready, waiting, due, recycle, sched, isr, qcb, mail>>
  /\ NoUnlinking
-----------------------------------------------------------------------------
(* osQueueMailAlloc finds a block.                                         *)
MailAlloc(c, q) ==
  /\ Enters(c) /\ q \in queUsed /\ box[q] # << >>
  /\ box' = [box EXCEPT ![q] = Tail(@)]
  /\ held' = [held EXCEPT ![q] = @ \cup {Head(box[q])}]
  /\ UNCHANGED <<vars, qcb, call, puwMsg>>

(* osQueueMailAlloc waits.  It does not look at the scheduler lock.  The   *)
(* task was in no other call: what a deleted one was about to do is gone.  *)
MailWait(c, q, n) ==
  /\ Enters(c) /\ c # Isr /\ q \in queUsed /\ box[q] = << >>
  /\ TaskWait(ready, c, <<q, "mem">>, n)
  /\ pc' = [pc EXCEPT ![c] = "sched"]
  /\ arg' = [arg EXCEPT ![c] = <<q, "mem">>]
  /\ call' = [call EXCEPT ![c] = NoCall]
  /\ UNCHANGED <<pri, recycle, sched, isr, qcb, mail>>

(* osQueueMailAlloc back from LOS_Schedule: it returns puwMsg.             *)
MailGoOn(c) ==
  LET q == arg[c][1] IN
  /\ Running(c) /\ pc[c] = "ret" /\ call[c] = NoCall /\ ~Is(c, "TIMEOUT")
  /\ held' = [held EXCEPT ![q] = @ \cup ({puwMsg[c]} \ {NoArg})]
  /\ puwMsg' = [puwMsg EXCEPT ![c] = NoArg]
  /\ pc' = [pc EXCEPT ![c] = "user"]
  /\ arg' = [arg EXCEPT ![c] = NoArg]
  /\ UNCHANGED <<tcb, sched, isr, qcb, call, box>> /\ NoUnlinking

(* Mutant: the block handed to a waiter stays in the pool as well.         *)
MailFreeTwice(c, q, b) ==
  LET mem == <<q, "mem">> IN
  /\ Enters(c) /\ b \in held[q]
  /\ held' = [held EXCEPT ![q] = @ \ {b}]
  /\ box' = [box EXCEPT ![q] = <<b>> \o @]
  /\ IF q \in queUsed /\ waiting[mem] # << >>
     THEN /\ TaskWake(ready, pri, Head(waiting[mem]), mem)
          /\ puwMsg' = [puwMsg EXCEPT ![Head(waiting[mem])] = b]
          /\ ThenSchedule(c)
          /\ UNCHANGED <<pri, recycle, isr>>
     ELSE UNCHANGED <<puwMsg, vars>>
  /\ UNCHANGED <<qcb, call>>

(* osQueueMailFree.  The block goes to the front of the free list, from    *)
(* where it is allocated again at once for the first waiter.               *)
MailFree(c, q, b) ==
  LET mem == <<q, "mem">> IN
  /\ Enters(c) /\ b \in held[q]
  /\ held' = [held EXCEPT ![q] = @ \ {b}]
  /\ IF q \in queUsed /\ waiting[mem] # << >>
     THEN /\ TaskWake(ready, pri, Head(waiting[mem]), mem)
          /\ puwMsg' = [puwMsg EXCEPT ![Head(waiting[mem])] = b]
          /\ ThenSchedule(c)
          /\ UNCHANGED <<pri, recycle, isr, box>>
     ELSE /\ box' = [box EXCEPT ![q] = <<b>> \o @]
          /\ UNCHANGED <<puwMsg, vars>>
  /\ UNCHANGED <<qcb, call>>
-----------------------------------------------------------------------------
(* osQueueInit; LOS_MemboxInit of each pool.  The memory of the slots      *)
(* holds anything.                                                         *)
QueueInit ==
  /\ Init
  /\ queUsed = {}
  /\ queLen = [q \in Queue |-> 0]
  /\ count = [q \in Queue |-> [side \in Side |-> 0]]
  /\ head = [q \in Queue |-> 0] /\ tail = [q \in Queue |-> 0]
  /\ slot \in [Queue -> [0 .. MaxLen - 1 -> Msg]]
  /\ call = [t \in Task |-> NoCall]
  /\ box = [q \in Queue |-> SetToSeq(Block)]
  /\ held = [q \in Queue |-> {}]
  /\ puwMsg = [t \in Task |-> NoArg]

QueueStep ==
  \E c \in Task \cup {Isr}, q \in Queue :
    \/ \E n \in Lengths : QueueCreate(c, q, n)
    \/ QueueDelete(c, q)
    \/ \E op \in Operation :
         QueueOperate(c, q, op) \/ \E n \in Timeouts : QueueWait(c, q, op, n)
    \/ MailAlloc(c, q)
    \/ \E n \in Timeouts : MailWait(c, q, n)
    \/ \E b \in Block : MailFree(c, q, b)

Returns == \E c \in Task : QueueGoOn(c) \/ MailGoOn(c) \/ QueueTimedOut(c)

QueueNext == (Next /\ UNCHANGED <<qcb, call, mail>>) \/ QueueStep \/ Returns

QueueSpec == QueueInit /\ [][QueueNext]_quevars
-----------------------------------------------------------------------------
(* The tasks woken for side w of a queue that have not gone on yet.        *)
Promised(w) == {t \in Task : arg[t] = w /\ ~Is(t, "PEND") /\ ~Is(t, "TIMEOUT")}

(* The messages of a queue: the readable ones and those kept for readers.  *)
Stored(q) == count[q]["read"] + Cardinality(Promised(<<q, "read">>))

Content(q) == [k \in 1 .. Stored(q) |-> slot[q][(head[q] + k - 1) % queLen[q]]]

Contract == INSTANCE QueueContract WITH
              content <- [q \in Queue |-> Content(q)], limit <- queLen,
              sleepers <- [w \in Queue \X Side |-> waiting[w]],
              promised <- [w \in Queue \X Side |-> Promised(w)]

(* The ring, its two counts and the wait lists implement a bounded queue:  *)
(* no message is lost, duplicated or overwritten and no slot leaks,        *)
(* although a woken reader or writer touches the ring only when it runs    *)
(* again, after others may have read and written at either end.            *)
KeepsContract == Contract!Spec

(* Nobody sleeps while there is what it waits for: a reader with a         *)
(* readable message, a writer with a free slot, a task that wants a mail   *)
(* with a free block.                                                      *)
NoIdleSleeper ==
  \A q \in Queue :
    /\ \A side \in Side : waiting[<<q, side>>] # << >> => count[q][side] = 0
    /\ waiting[<<q, "mem">>] # << >> => box[q] = << >>

(* A task that was let in finds its queue: it is not deleted, nor deleted  *)
(* and created anew, between the wake-up and the copy.                     *)
ReturnsToLiveQueue ==
  \A q \in Queue, side \in Side : Promised(<<q, side>>) # {} =>
    /\ q \in queUsed
    /\ count[q]["read"] + count[q]["write"] < queLen[q]

(* Every block of a mail pool is in one place: free, with the application, *)
(* or on its way to a task that waited for it.                             *)
MailConserved ==
  \A q \in Queue, b \in Block :
    LET onItsWay == {t \in Promised(<<q, "mem">>) : puwMsg[t] = b} IN
    Cardinality(onItsWay) + (IF b \in held[q] THEN 1 ELSE 0)
      + Cardinality({k \in DOMAIN box[q] : box[q][k] = b}) = 1

(* The comment at the end of osQueueMailAlloc: a wait that has not timed   *)
(* out has been given a block.                                             *)
MailGranted ==
  \A c \in Task :
    Running(c) /\ pc[c] = "ret" /\ arg[c] \in Queue \X {"mem"} /\ ~Is(c, "TIMEOUT")
      => puwMsg[c] # NoArg
=============================================================================
