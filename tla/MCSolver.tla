------------------------------ MODULE MCSolver ------------------------------
(* Every instance of four rows over four sets, each row of two or three    *)
(* sets in the order of their numbers or of the first set alone.           *)
EXTENDS Solver, Listing

MCRow == {Ascending(S) : S \in {X \in SUBSET Set : Cardinality(X) \in {2, 3}}}
           \cup {<<0>>}

(* Costs that tie, that tie after a shift, and one that is shifted twice.  *)
MCPrice == {[s \in Set |-> p[s + 1]] :
              p \in {<<1, 2, 1, 3>>, <<3, 1, 1, 2>>, <<2, 1, 3, 1>>}}
=============================================================================
