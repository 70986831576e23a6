----------------------------- MODULE MCLosEvent -----------------------------
EXTENDS LosEvent

CONSTANTS a, b, i

(* Two application tasks of one priority and the idle task.                *)
MCTask == {a, b, i}
MCBootPri == [t \in MCTask |-> IF t = i THEN 1 ELSE 0]
MCBootReady == (0 :> <<a, b>>) @@ (1 :> <<i>>)

MCDemand ==
  {[mask |-> Bit, mode |-> "or", clear |-> TRUE],
   [mask |-> Bit, mode |-> "and", clear |-> TRUE],
   [mask |-> Bit, mode |-> "and", clear |-> FALSE]}

(* One flag at a time.                                                     *)
MCWrites == {{x} : x \in Bit}

MCTimeouts == {Forever, 1}
=============================================================================
