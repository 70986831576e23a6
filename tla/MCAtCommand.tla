----------------------------- MODULE MCAtCommand -----------------------------
EXTENDS AtCommand, TLC

CONSTANTS p, q, ok, csq, urc

(* Frames of one length: with two bytes each, the ring is left with room   *)
(* for a frame and its length, or for neither.                             *)
MCSize == [f \in Frame |-> 2]

(* Both callers wait for OK, one of them for the signal quality as well.   *)
MCAnswers == (p :> {ok}) @@ (q :> {ok, csq})
=============================================================================
