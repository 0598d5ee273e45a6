--------------------------- MODULE MCAccounting ---------------------------
(* The solver and two more processes, which may be its children or one the *)
(* other's; two units of CPU time, which may be lost one after the other   *)
(* and are the limit; four samples, of which the second and the fourth     *)
(* read all processes, as does that of stopSolver.  A sample that misses   *)
(* both units is far enough from wait4 for Jump.                           *)
EXTENDS Accounting
=============================================================================
