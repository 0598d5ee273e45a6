-------------------------------- MODULE Sums --------------------------------
EXTENDS Integers, FiniteSets

(***************************************************************************)
(* The sum of the natural numbers f[x] for x in S, as the size of a        *)
(* disjoint union: the library's facts on Cardinality then apply to sums.  *)
(***************************************************************************)
Units(f, S) == UNION {{x} \X (1 .. f[x]) : x \in S}

Total(f, S) == Cardinality(Units(f, S))
=============================================================================
