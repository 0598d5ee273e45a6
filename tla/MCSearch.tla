------------------------------ MODULE MCSearch ------------------------------
(* A small instance of Search: 3 variables, 4 sets.                        *)
EXTENDS Search, TLC

CONSTANTS v1, v2, v3, s1, s2, s3, s4

MCVar == {v1, v2, v3}
MCSet == {s1, s2, s3, s4}

(* The costly s1 covers nearly all, so that a first cover can be improved. *)
MCVarSet == (v1 :> <<s1, s2>>) @@ (v2 :> <<s1, s3>>) @@ (v3 :> <<s2, s3, s4>>)

MCCost == (s1 :> 4) @@ (s2 :> 1) @@ (s3 :> 2) @@ (s4 :> 1)
=============================================================================
