------------------------------ MODULE Listing ------------------------------
EXTENDS Integers, FiniteSets

(* The numbers of S from the lowest to the highest.                        *)
Ascending(S) ==
  [k \in 1..Cardinality(S) |-> CHOOSE c \in S : Cardinality({d \in S : d < c}) = k - 1]
=============================================================================
