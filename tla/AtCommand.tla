------------------------------ MODULE AtCommand ------------------------------
(***************************************************************************)
(* The AT framework of at.c over the frame channel of UartAt: tasks send   *)
(* commands with at_command, one at a time, and the receiving task looks   *)
(* in every frame for the index of the current command.  The device sends  *)
(* what it likes when it likes: an answer in time, late, twice or never.   *)
(* The commands have an index and a response buffer.  The framework is in  *)
(* its command mode; its table of out of band handlers is left out.        *)
(***************************************************************************)
EXTENDS UartAt

CONSTANTS
  Caller,    (* the tasks that call at_command                             *)
  Answers,   (* the frames in which the index of each is found             *)
  RespLen,   (* the length of their response buffers                       *)
  NoTask,    (* nobody                                                     *)
  Receiver   (* the task at_rcv                                            *)

ASSUME AtAssumption ==
  /\ Answers \in [Caller -> SUBSET Frame]
  /\ RespLen \in Nat \ {0}
  /\ NoTask \notin Caller /\ Receiver \notin Caller /\ NoTask # Receiver

VARIABLES
  at,          (* where each caller is in at_command                       *)
  cmdsync,     (* the counts of the two semaphores                         *)
  respsync,
  cmdlock,     (* who holds the mutex, between two steps                   *)
  owner,       (* whose index and respbuf the command block holds          *)
  respdatalen,
  resp,        (* the frame each response buffer holds                     *)
  result       (* what at_command is about to return                       *)

command == <<at, cmdsync, respsync, cmdlock, owner, respdatalen, resp, result>>
atvars  == <<uart, command>>

InCommand == {"create", "wait", "read", "clear", "post"}

AtTypeOK ==
  /\ UartTypeOK
  /\ at \in [Caller -> {"user", "cmdsync"} \cup InCommand]
  /\ cmdsync \in 0 .. 1 /\ respsync \in 0 .. 1
  /\ cmdlock \in {NoTask, Receiver}
  /\ owner \in Caller \cup {NoTask}
  /\ respdatalen \in 0 .. BufLen
  /\ resp \in [Caller -> Frame \cup {NoFrame}]
  /\ result \in [Caller -> 0 .. BufLen]

AtGoes(c, from, to) == at[c] = from /\ at' = [at EXCEPT ![c] = to]
-----------------------------------------------------------------------------
(* at_command: the call, with an empty response buffer.                    *)
AtCommand(c) ==
  /\ AtGoes(c, "user", "cmdsync")
  /\ resp' = [resp EXCEPT ![c] = NoFrame]
  /\ result' = [result EXCEPT ![c] = 0]
  /\ UNCHANGED <<cmdsync, respsync, cmdlock, owner, respdatalen, uart>>

(* __cmd_create: semp_pend of cmdsync succeeds, or times out.              *)
CmdSyncPend(c) ==
  /\ AtGoes(c, "cmdsync", "create") /\ cmdsync > 0
  /\ cmdsync' = cmdsync - 1
  /\ UNCHANGED <<respsync, cmdlock, owner, respdatalen, resp, result, uart>>

(* Mutant: a command that was not created is cleared all the same.         *)
CmdSyncTimeoutClears(c) ==
  /\ AtGoes(c, "cmdsync", "clear") /\ cmdsync = 0
  /\ UNCHANGED <<cmdsync, respsync, cmdlock, owner, respdatalen, resp, result,
                 uart>>

CmdSyncTimeout(c) ==
  /\ AtGoes(c, "cmdsync", "user") /\ cmdsync = 0
  /\ UNCHANGED <<cmdsync, respsync, cmdlock, owner, respdatalen, resp, result,
                 uart>>

(* Mutant: an answer left over from the last command stays posted.         *)
CreateStale(c) ==
  /\ AtGoes(c, "create", "wait") /\ cmdlock = NoTask
  /\ owner' = c
  /\ UNCHANGED <<respsync, cmdsync, cmdlock, respdatalen, resp, result, uart>>

(* The rest of it, with the mutex, and __cmd_send: what the device makes   *)
(* of the command is not determined.                                       *)
Create(c) ==
  /\ AtGoes(c, "create", "wait") /\ cmdlock = NoTask
  /\ owner' = c
  /\ respsync' = 0
  /\ UNCHANGED <<cmdsync, cmdlock, respdatalen, resp, result, uart>>

(* semp_pend of respsync succeeds, and then the length is read without the *)
(* mutex; or it times out.                                                 *)
RespSyncPend(c) ==
  /\ AtGoes(c, "wait", "read") /\ respsync > 0
  /\ respsync' = respsync - 1
  /\ UNCHANGED <<cmdsync, cmdlock, owner, respdatalen, resp, result, uart>>

ReadLength(c) ==
  /\ AtGoes(c, "read", "clear")
  /\ result' = [result EXCEPT ![c] = respdatalen]
  /\ UNCHANGED <<cmdsync, respsync, cmdlock, owner, respdatalen, resp, uart>>

(* Mutant: a command waits for its answer for ever.                        *)
RespSyncTimeoutNever(c) == FALSE /\ UNCHANGED atvars

RespSyncTimeout(c) ==
  /\ AtGoes(c, "wait", "clear") /\ respsync = 0
  /\ UNCHANGED <<cmdsync, respsync, cmdlock, owner, respdatalen, resp, result,
                 uart>>

(* Mutant: the block keeps the index and the buffer of the last command.   *)
ClearKeeps(c) ==
  /\ AtGoes(c, "clear", "post") /\ cmdlock = NoTask
  /\ respdatalen' = 0
  /\ UNCHANGED <<cmdsync, respsync, cmdlock, owner, resp, result, uart>>

(* __cmd_clear, with the mutex.                                            *)
Clear(c) ==
  /\ AtGoes(c, "clear", "post") /\ cmdlock = NoTask
  /\ owner' = NoTask
  /\ respdatalen' = 0
  /\ UNCHANGED <<cmdsync, respsync, cmdlock, resp, result, uart>>

(* The post of cmdsync at its end, and the return.                         *)
CmdSyncPost(c) ==
  /\ AtGoes(c, "post", "user")
  /\ cmdsync' = 1
  /\ UNCHANGED <<respsync, cmdlock, owner, respdatalen, resp, result, uart>>
-----------------------------------------------------------------------------
(* __cmd_match: the index is found, and the frame copied.                  *)
MatchCopy ==
  /\ rcv = "deal" /\ cmdlock = NoTask
  /\ owner # NoTask /\ hand \in Answers[owner]
  /\ cmdlock' = Receiver
  /\ resp' = [resp EXCEPT ![owner] = hand]
  /\ rcv' = "copied"
  /\ UNCHANGED <<at, cmdsync, respsync, owner, respdatalen, result,
                 ring, rcvsync, hand>>

(* The rest of it: the length, the post and the mutex.                     *)
MatchPost ==
  /\ rcv = "copied"
  /\ respdatalen' = Lesser(Size[hand], RespLen)
  /\ respsync' = 1
  /\ cmdlock' = NoTask
  /\ rcv' = "pend" /\ hand' = NoFrame
  /\ UNCHANGED <<at, cmdsync, owner, resp, result, ring, rcvsync>>

(* No command's: __oob_match, whose handlers do nothing to the framework.  *)
MatchNone ==
  /\ rcv = "deal" /\ cmdlock = NoTask
  /\ owner # NoTask => hand \notin Answers[owner]
  /\ rcv' = "pend" /\ hand' = NoFrame
  /\ UNCHANGED <<command, ring, rcvsync>>
-----------------------------------------------------------------------------
(* at_install and uart_at_init.                                            *)
AtInit ==
  /\ UartInit
  /\ at = [c \in Caller |-> "user"]
  /\ cmdsync = 1 /\ respsync = 0
  /\ cmdlock = NoTask /\ owner = NoTask
  /\ respdatalen = 0
  /\ resp = [c \in Caller |-> NoFrame]
  /\ result = [c \in Caller |-> 0]

CmdSyncEnds(c)  == CmdSyncPend(c) \/ CmdSyncTimeout(c)
RespSyncEnds(c) == RespSyncPend(c) \/ RespSyncTimeout(c)

CallStep(c) ==
  \/ AtCommand(c) \/ CmdSyncEnds(c) \/ Create(c) \/ RespSyncEnds(c)
  \/ ReadLength(c) \/ Clear(c) \/ CmdSyncPost(c)

ReceiverStep == MatchCopy \/ MatchPost \/ MatchNone

AtNext ==
  \/ UartStep /\ UNCHANGED command
  \/ ReceiverStep
  \/ \E c \in Caller : CallStep(c)

AtSpec == AtInit /\ [][AtNext]_atvars

(* A timed wait of LOS_SemPend ends, LOS_MuxPost hands the mutex to a      *)
(* waiter, and a task that has something to do gets the processor.         *)
AtFairness ==
  /\ WF_atvars(MatchPost)
  /\ \A c \in Caller :
       /\ WF_atvars(CmdSyncEnds(c)) /\ WF_atvars(RespSyncEnds(c))
       /\ WF_atvars(ReadLength(c)) /\ WF_atvars(CmdSyncPost(c))
       /\ SF_atvars(Create(c)) /\ SF_atvars(Clear(c))

AtFairSpec == AtSpec /\ AtFairness
-----------------------------------------------------------------------------
(* Only one command is executed at a time, and the right to execute one is *)
(* never lost: it is in cmdsync or with exactly one caller, however the    *)
(* waits of the callers end.                                               *)
OneCommand ==
  LET commanding == {c \in Caller : at[c] \in InCommand}
  IN Cardinality(commanding) = 1 - cmdsync

(* An answered command has an answer to its own index in its buffer, and   *)
(* finds a recorded length above zero: a frame that came too late for the  *)
(* last command is not taken for one that has not come.                    *)
AnswerIsMatched ==
  \A c \in Caller :
    /\ at[c] = "read" => resp[c] \in Answers[c] /\ respdatalen > 0
    /\ at[c] # "user" /\ result[c] > 0 => resp[c] \in Answers[c]

(* The receiver never writes the buffer of a call that has returned, which *)
(* is usually on the stack of the caller.                                  *)
NoLateWrite ==
  [][\A c \in Caller : at[c] = "user" /\ at'[c] = "user" => resp'[c] = resp[c]]_atvars

(* Every call returns, answered or not, whatever the other callers and the *)
(* device do.                                                              *)
CallReturns == \A c \in Caller : at[c] # "user" ~> at[c] = "user"
=============================================================================
