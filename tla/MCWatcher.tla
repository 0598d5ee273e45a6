----------------------------- MODULE MCWatcher -----------------------------
(* Every second sample reads all processes; the solver forks, or runsolver *)
(* gets a signal when the solver runs, not both.                           *)
EXTENDS Watcher
=============================================================================
