----------------------------- MODULE UartFrames -----------------------------
(***************************************************************************)
(* What the frame channel under the AT framework promises: a frame that    *)
(* the line brings is queued whole or dropped whole, and the frames that   *)
(* are received come out whole, each once, in the order they came in.      *)
(***************************************************************************)
EXTENDS Sequences

CONSTANTS Frame, NoFrame

VARIABLES
  queue,   (* the frames that wait to be received                          *)
  hand     (* the frame the receiver holds                                 *)

Init == queue = << >> /\ hand = NoFrame

Arrive(f) == queue' = Append(queue, f) /\ UNCHANGED hand

Receive ==
  /\ queue # << >> /\ hand = NoFrame
  /\ hand' = Head(queue)
  /\ queue' = Tail(queue)

Finish == hand # NoFrame /\ hand' = NoFrame /\ UNCHANGED queue

Next == (\E f \in Frame : Arrive(f)) \/ Receive \/ Finish

Spec == Init /\ [][Next]_<<queue, hand>>
=============================================================================
