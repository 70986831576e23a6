------------------------------ MODULE ListWalk ------------------------------
(***************************************************************************)
(* A walk along a list that takes out the nodes of a set: those it takes,  *)
(* or with the complement those it leaves.  Written as a recursive         *)
(* function, so that it can be reasoned about.                             *)
(***************************************************************************)
EXTENDS Integers, Sequences

Only(list, set) ==
  LET taken[k \in 0 .. Len(list)] ==
        IF k = 0 THEN << >>
        ELSE IF list[k] \in set THEN Append(taken[k - 1], list[k])
        ELSE taken[k - 1]
  IN  taken[Len(list)]
=============================================================================
