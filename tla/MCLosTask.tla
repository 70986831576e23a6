------------------------------ MODULE MCLosTask ------------------------------
EXTENDS LosTask

CONSTANTS a, b, h, i

(* Two application tasks of one priority, one above them, the idle task.   *)
MCTrio == {a, b, h, i}
MCTrioPri == (h :> 0) @@ (a :> 1) @@ (b :> 1) @@ (i :> 2)
MCTrioReady == (0 :> <<h>>) @@ (1 :> <<a, b>>) @@ (2 :> <<i>>)
=============================================================================
