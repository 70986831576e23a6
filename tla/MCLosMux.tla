------------------------------ MODULE MCLosMux ------------------------------
EXTENDS LosMux

CONSTANTS a, b, d, i

(* A high, a middle and a low application task, and the idle task.         *)
MCTask == {a, b, d, i}
MCBootPri == (a :> 0) @@ (b :> 1) @@ (d :> 2) @@ (i :> 3)
MCBootReady == (0 :> <<a>>) @@ (1 :> <<b>>) @@ (2 :> <<d>>) @@ (3 :> <<i>>)
=============================================================================
