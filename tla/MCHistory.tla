----------------------------- MODULE MCHistory -----------------------------
(* Instances of History: three cells, enough samples to fill the last one. *)
EXTENDS History, TLC

(* Values of an unset float below, at and above the times of the samples.  *)
MCGarbage == {-1, 0, 100}
=============================================================================
