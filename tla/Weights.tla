------------------------------ MODULE Weights ------------------------------
(* What the comparisons of sets share (NuWSC-algorithm/NuWSC/wscp.h).      *)
EXTENDS Integers

CONSTANTS weight1, weight2 \* how compareV2 combines score and pscore

ASSUME WeightsAssumption == weight1 \in Int /\ weight2 \in Int

(* 1, 0 or -1 as a comparison has it.                                      *)
Sign(n) == IF n > 0 THEN 1 ELSE IF n = 0 THEN 0 ELSE -1
=============================================================================
