----------------------------- MODULE AtomicFlag -----------------------------
(***************************************************************************)
(* What the storage of the firmware update promises: a flag that survives  *)
(* the loss of power.  A write takes effect at one instant or not at all,  *)
(* and what is stored is always the last write that took effect.           *)
(***************************************************************************)
CONSTANTS Flag, NoFlag

VARIABLES
  stored,    (* what a boot reads                                          *)
  writing    (* the flag that is being written                             *)

Init == stored = NoFlag /\ writing = NoFlag

Write(f) == writing = NoFlag /\ writing' = f /\ UNCHANGED stored

Finish == writing # NoFlag /\ stored' = writing /\ writing' = NoFlag

(* The power or the flash fails.                                           *)
Fail == writing # NoFlag /\ writing' = NoFlag /\ UNCHANGED stored

Next == (\E f \in Flag : Write(f)) \/ Finish \/ Fail

Spec == Init /\ [][Next]_<<stored, writing>>
=============================================================================
