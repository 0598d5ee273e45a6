------------------------------ MODULE MCCores ------------------------------
(* Four cores on one or two processors, however they are numbered, and any *)
(* cores to begin with; lists of two items, whose ranges may exceed the    *)
(* machine.                                                                *)
EXTENDS Cores

FourCores == {m \in [0..3 -> 1..2] : m[0] = 1}
AllPlaces == 0..3
PlacesAndOneMore == 0..4
=============================================================================
