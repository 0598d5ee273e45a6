--------------------------- MODULE MCLocalSearch ----------------------------
(* A small instance of LocalSearch: 6 variables and 6 sets in a ring, each *)
(* set over two or three neighbours, so that covers have three sets or more*)
(* and the search takes many turns before its solution is empty.           *)
EXTENDS LocalSearch, TLC

CONSTANTS v1, v2, v3, v4, v5, v6, s1, s2, s3, s4, s5, s6

MCVar == {v1, v2, v3, v4, v5, v6}
MCSet == {s1, s2, s3, s4, s5, s6}

MCVarSet == (v1 :> <<s1, s6>>) @@ (v2 :> <<s2, s1>>) @@ (v3 :> <<s2, s3>>)
              @@ (v4 :> <<s4, s3>>) @@ (v5 :> <<s4, s5>>) @@ (v6 :> <<s6, s5, s2>>)

(* s5 is free, and s4 cheap enough to make it redundant; reduce_instance   *)
(* would change nothing here.                                              *)
MCCost == (s1 :> 1) @@ (s2 :> 3) @@ (s3 :> 2) @@ (s4 :> 1) @@ (s5 :> 0) @@ (s6 :> 2)
=============================================================================
