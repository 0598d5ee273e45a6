-------------------------- MODULE MCOutputFilter --------------------------
(* A beginning of two bytes and a buffer of three, for which calls of all  *)
(* lengths end before, at and after the edges of both.                     *)
EXTENDS OutputFilter
=============================================================================
