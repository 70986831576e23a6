------------------------------ MODULE MCLosSem ------------------------------
EXTENDS LosSem

CONSTANTS a, b, i

(* Two application tasks of different priority and the idle task.          *)
MCTask == {a, b, i}
MCBootPri == (a :> 0) @@ (b :> 1) @@ (i :> 2)
MCBootReady == (0 :> <<a>>) @@ (1 :> <<b>>) @@ (2 :> <<i>>)
=============================================================================
