-------------------------------- MODULE UartAt --------------------------------
(***************************************************************************)
(* The frame channel of the AT framework: the UART interrupt of uart_at.c  *)
(* puts a frame, its length first, into the byte ring of ring.c, and the   *)
(* receiving task takes it out.  A byte is a cell <<f, k>>: the k-th byte  *)
(* of what is written for the frame f, the two bytes of its length first.  *)
(***************************************************************************)
EXTENDS Integers, Sequences, FiniteSets, ListWalk

CONSTANTS
  Frame,     (* the frames the line brings                                 *)
  Size,      (* how many bytes each has                                    *)
  RingLen,   (* CN_RCVMEM_LEN                                              *)
  BufLen,    (* CN_RCVBUF_LEN and cn_at_resp_maxlen                        *)
  NoFrame,   (* nothing is received                                        *)
  Garbled    (* bytes are received that are no frame                       *)

Header == 2  (* sizeof(framelen)                                           *)

ASSUME UartAssumption ==
  /\ RingLen \in Nat \ {0} /\ BufLen \in Nat
  /\ Size \in [Frame -> 1 .. BufLen]
  /\ NoFrame \notin Frame /\ Garbled \notin Frame /\ NoFrame # Garbled

VARIABLES
  ring,      (* rcvring: its memory, dataoff and datalen                   *)
  rcvsync,   (* the count of the semaphore                                 *)
  rcv,       (* where the receiving task is                                *)
  hand       (* what its read has returned                                 *)

uart == <<ring, rcvsync, rcv, hand>>

Index == 0 .. RingLen - 1
Cell  == {<<f, k>> : f \in Frame, k \in 1 .. Header + BufLen}
Stale == <<NoFrame, 0>>  (* a byte that has been read                      *)

UartTypeOK ==
  /\ ring \in [mem : [Index -> Cell \cup {Stale}], off : 0 .. RingLen,
               len : 0 .. RingLen]
  /\ rcvsync \in Nat
  /\ rcv \in {"pend", "woken", "deal", "copied", "oob"}
  /\ hand \in Frame \cup {NoFrame, Garbled}
-----------------------------------------------------------------------------
Lesser(m, n) == IF m < n THEN m ELSE n

(* memcpy into the memory of the ring, and out of it.                      *)
Copied(mem, to, bytes) ==
  [x \in Index |->
     IF x - to + 1 \in DOMAIN bytes THEN bytes[x - to + 1] ELSE mem[x]]
Taken(mem, from, n) == [k \in 1 .. n |-> mem[from + k - 1]]
Wiped(mem, from, n) == [x \in Index |->
                          IF x \in from .. from + n - 1 THEN Stale ELSE mem[x]]

(* Mutant: the copy never rolls back to the start of the memory.           *)
RingWriteStraight(r, bytes) ==
  LET n   == Lesser(Len(bytes), RingLen - r.len)
      end == r.off + r.len
  IN [r EXCEPT !.mem = Copied(@, end % RingLen, SubSeq(bytes, 1, n)),
               !.len = @ + n]

(* ring_write: as much as there is room for, in two pieces if the end of   *)
(* the memory is crossed.                                                  *)
RingWrite(r, bytes) ==
  LET n     == Lesser(Len(bytes), RingLen - r.len)
      end   == r.off + r.len
      first == IF end <= RingLen /\ end + n > RingLen THEN RingLen - end ELSE 0
  IN [r EXCEPT
        !.mem = Copied(Copied(@, end, SubSeq(bytes, 1, first)),
                       (end + first) % RingLen, SubSeq(bytes, first + 1, n)),
        !.len = @ + n]

(* ring_read: what it copies out, and the ring it leaves.                  *)
FirstPiece(r, n) == IF r.off + n >= RingLen THEN RingLen - r.off ELSE 0

RingData(r, n) ==
  LET m     == Lesser(n, r.len)
      first == FirstPiece(r, m)
  IN Taken(r.mem, r.off, first)
       \o Taken(r.mem, (r.off + first) % RingLen, m - first)

RingLeft(r, n) ==
  LET m     == Lesser(n, r.len)
      first == FirstPiece(r, m)
      rest  == (r.off + first) % RingLen
  IN [mem |-> Wiped(Wiped(r.mem, r.off, first), rest, m - first),
      off |-> rest + m - first,
      len |-> r.len - m]

(* ring_reset.                                                             *)
EmptyRing == [mem |-> [x \in Index |-> Stale], off |-> 0, len |-> 0]
-----------------------------------------------------------------------------
LengthOf(f) == << <<f, 1>>, <<f, 2>> >>
BytesOf(f)  == [k \in 1 .. Size[f] |-> <<f, Header + k>>]

(* Mutant: the semaphore is posted for a dropped frame too.                *)
AtioIrqPosts(f) ==
  /\ ring' = IF RingLen - ring.len < Size[f] THEN ring
             ELSE RingWrite(RingWrite(ring, LengthOf(f)), BytesOf(f))
  /\ rcvsync' = Lesser(rcvsync + 1, RingLen)
  /\ UNCHANGED <<rcv, hand>>

(* atio_irq, at the end of a frame: the room is compared with the bytes of *)
(* the frame, without its length.                                          *)
AtioIrq(f) ==
  /\ RingLen - ring.len >= Size[f]
  /\ ring' = RingWrite(RingWrite(ring, LengthOf(f)), BytesOf(f))
  /\ rcvsync' = Lesser(rcvsync + 1, RingLen)
  /\ UNCHANGED <<rcv, hand>>

(* uart_at_receive: semp_pend succeeds.  Interrupts come before the ring   *)
(* is locked.                                                              *)
ReceivePend ==
  /\ rcv = "pend" /\ rcvsync > 0
  /\ rcvsync' = rcvsync - 1
  /\ rcv' = "woken"
  /\ UNCHANGED <<ring, hand>>

(* The length that two bytes are taken for: any, unless they are one.      *)
Lengths(bytes) ==
  {n \in 0 .. RingLen + BufLen :
     \A f \in Frame : bytes = LengthOf(f) => n = Size[f]}

Whole(bytes) == \E f \in Frame : bytes = BytesOf(f)

(* The rest of it, under LOS_IntLock: the ring is reset if the length or   *)
(* the bytes are not all there or do not fit, or the length is zero.       *)
ReceiveFrame ==
  LET length == RingData(ring, Header)
      behind == RingLeft(ring, Header)
      Bytes(n) == RingData(behind, n)
      Failed == ring' = EmptyRing /\ hand' = NoFrame /\ rcv' = "pend"
  IN
  /\ rcv = "woken"
  /\ IF Len(length) # Header THEN Failed
     ELSE \E n \in Lengths(length) :
            IF n = 0 \/ n > BufLen \/ Len(Bytes(n)) # n THEN Failed
            ELSE /\ ring' = RingLeft(behind, n)
                 /\ hand' = IF Whole(Bytes(n)) THEN Bytes(n)[1][1] ELSE Garbled
                 /\ rcv' = "deal"
  /\ UNCHANGED rcvsync
-----------------------------------------------------------------------------
UartInit ==
  /\ ring = EmptyRing /\ rcvsync = 0
  /\ rcv = "pend" /\ hand = NoFrame

(* What the task does with the frame is the business of the AT framework.  *)
Dealt ==
  /\ rcv = "deal" /\ rcv' = "pend" /\ hand' = NoFrame
  /\ UNCHANGED <<ring, rcvsync>>

UartStep == (\E f \in Frame : AtioIrq(f)) \/ ReceivePend \/ ReceiveFrame

UartSpec == UartInit /\ [][UartStep \/ Dealt]_uart
-----------------------------------------------------------------------------
Contents ==
  [i \in 1 .. ring.len |-> ring.mem[(ring.off + i - 1) % RingLen]]

(* The frames whose first byte is in the ring.                             *)
Queued ==
  LET firsts == Only(Contents, Frame \X {1})
  IN [i \in DOMAIN firsts |-> firsts[i][1]]

(* What the receiver is given is a frame of the line, never a mixture: the *)
(* comment at the top of atio_irq says that a frame is written if the ring *)
(* has enough space.                                                       *)
FramesIntact == hand # Garbled

(* The semaphore counts the frames of the ring, so that a read never finds *)
(* the ring short and resets it, and no frame is left behind uncounted.    *)
SyncCountsFrames ==
  rcvsync + (IF rcv = "woken" THEN 1 ELSE 0) = Len(Queued)

Channel == INSTANCE UartFrames WITH queue <- Queued

(* The frames go through the ring in order, each once, whatever frames the *)
(* interrupt drops and wherever they cross the end of the memory.          *)
KeepsFrames == Channel!Spec
=============================================================================
