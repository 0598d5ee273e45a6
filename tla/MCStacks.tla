----------------------------- MODULE MCStacks ------------------------------
(* 3 variables, 4 sets; two sets may be redundant at once, all be chosen.  *)
EXTENDS Stacks, TLC

CONSTANTS v1, v2, v3, s1, s2, s3, s4

MCVar == {v1, v2, v3}
MCSet == {s1, s2, s3, s4}

(* v1 can be covered four times, so that a count of 4 falls to 3 and a     *)
(* count of 3 to 2 with three different sets to have left.                 *)
MCVarSet == (v1 :> <<s3, s1, s2, s4>>) @@ (v2 :> <<s1, s2>>) @@ (v3 :> <<s2, s3>>)

MCCost == (s1 :> 1) @@ (s2 :> 3) @@ (s3 :> 2) @@ (s4 :> 1)
=============================================================================
