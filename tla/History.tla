------------------------------ MODULE History ------------------------------
(***************************************************************************)
(* The trees of processes runsolver keeps: class ProcessHistory            *)
(* (ProcessHistory.hh), with the ownership of procTree and lastProcTree in *)
(* RunSolver (runsolver.cc).  One sample a period is pushed; a cell of two *)
(* trees that overflows drops the newer one and passes the older one on to *)
(* the next cell, so that the past is kept ever more sparsely.             *)
(*                                                                         *)
(* Trees are numbered in the order in which they are created.              *)
(***************************************************************************)
EXTENDS Integers, Sequences, FiniteSets

CONSTANTS
  nbcell,   \* cells of the history (10 in RunSolver)
  MaxTrees, \* bound: trees created
  Garbage   \* what lastDisplayedElapsedTime may hold before it is written

ASSUME HistoryAssumption ==
  /\ nbcell \in Nat \ {0}
  /\ MaxTrees \in Nat \ {0}
  /\ Garbage \subseteq Int

NoTree == -1
Cells == 0..(nbcell - 1)
Tree == 0..(MaxTrees - 1)

VARIABLES
  nbitem,       \* nbitem[c]: trees in cell c
  history,      \* history[c][i] is history[2*c+i] of the code
  procTree, lastProcTree,
  pushed,       \* the trees pushed so far, the newest last
  deleted,      \* the trees deleted so far
  trees,        \* number of trees created
  elapsed,      \* seconds since the start, as of the last sample
  time,         \* time[t]: the elapsed time of tree t
  shown,        \* lastDisplayedElapsedTime
  displayed,    \* shown has been written
  rootEnded,    \* the watched process has been found gone
  stopSolverStarted,
  phase,        \* watching, dumped or destroyed
  dump          \* the trees that dumpHistory printed

vars == <<nbitem, history, procTree, lastProcTree, pushed, deleted, trees,
          elapsed, time, shown, displayed, rootEnded, stopSolverStarted, phase,
          dump>>

-----------------------------------------------------------------------------
(* ProcessHistory::push.                                                   *)

(* The loop comes to cell c: every cell before it was full.                *)
Reached(c) == \A d \in 0..(c - 1) : nbitem[d] = 2

(* What it brings there: the new tree, or what the cell before passes on.  *)
Incoming(c, elem) == IF c = 0 THEN elem ELSE history[c - 1][0]

Place(c) == IF nbitem[c] < 2 THEN nbitem[c] ELSE 0

(* The mutant deletes the tree that moves.                                 *)
DroppedMoving ==
  {history[c][0] : c \in {d \in Cells : Reached(d) /\ nbitem[d] = 2}}

(* The trees push deletes: the newer tree of each full cell, and the older *)
(* one of the last cell.                                                   *)
Dropped ==
  {history[c][1] : c \in {d \in Cells : Reached(d) /\ nbitem[d] = 2}}
    \cup {history[c][0] : c \in {d \in Cells : d = nbcell - 1 /\ Reached(nbcell)}}

(* The mutant passes a tree on to the place after the one that is free.    *)
PushLate(elem) ==
  /\ history' = [c \in Cells |-> [i \in 0..1 |->
                   IF Reached(c) /\ i = 1 - Place(c) THEN Incoming(c, elem)
                                                     ELSE history[c][i]]]
  /\ nbitem' = [c \in Cells |-> IF ~Reached(c) THEN nbitem[c] ELSE Place(c) + 1]
  /\ pushed' = Append(pushed, elem)

push(elem) ==
  /\ history' = [c \in Cells |-> [i \in 0..1 |->
                   IF Reached(c) /\ i = Place(c) THEN Incoming(c, elem)
                                                 ELSE history[c][i]]]
  /\ nbitem' = [c \in Cells |-> IF ~Reached(c) THEN nbitem[c] ELSE Place(c) + 1]
  /\ pushed' = Append(pushed, elem)

-----------------------------------------------------------------------------
(* RunSolver: the constructor, readProcessData, displayProcessData, and    *)
(* the end of run.                                                         *)

Init ==
  /\ trees = 1
  /\ procTree = 0
  /\ lastProcTree = NoTree
  /\ nbitem = [c \in Cells |-> IF c = 0 THEN 1 ELSE 0]
  /\ history = [c \in Cells |-> [i \in 0..1 |-> IF c = 0 /\ i = 0 THEN 0 ELSE NoTree]]
  /\ pushed = <<0>>
  /\ deleted = {}
  /\ elapsed = 0
  /\ time = [t \in Tree |-> 0]
  /\ shown \in Garbage
  /\ displayed = FALSE
  /\ rootEnded = FALSE
  /\ stopSolverStarted = FALSE
  /\ phase = "watching"
  /\ dump = <<>>

(* A copy of procTree is filled; if the root is gone it is deleted, and    *)
(* the tree it was copied from stays the current one.  The timer thread    *)
(* has moved elapsed on; the one sample that stopSolver takes for itself   *)
(* has the time of the sample before.                                      *)
NewTree(now) ==
  /\ phase = "watching"
  /\ trees < MaxTrees
  /\ \/ now = elapsed + 1 /\ UNCHANGED stopSolverStarted
     \/ now = elapsed /\ ~stopSolverStarted /\ stopSolverStarted' = TRUE
  /\ trees' = trees + 1
  /\ elapsed' = now
  /\ time' = [time EXCEPT ![trees] = now]
  /\ lastProcTree' = procTree
  /\ UNCHANGED <<shown, displayed, phase, dump>>

SampleEnded(now) ==
  /\ NewTree(now)
  /\ rootEnded' = TRUE
  /\ deleted' = deleted \cup {trees}
  /\ procTree' = procTree
  /\ UNCHANGED <<nbitem, history, pushed>>

Sample(now) ==
  /\ ~rootEnded
  /\ NewTree(now)
  /\ procTree' = trees
  /\ push(trees)
  /\ deleted' = deleted \cup Dropped
  /\ UNCHANGED rootEnded

displayProcessData ==
  /\ phase = "watching"
  /\ shown' = time[procTree]
  /\ displayed' = TRUE
  /\ UNCHANGED <<nbitem, history, procTree, lastProcTree, pushed, deleted, trees,
                 elapsed, time, rootEnded, stopSolverStarted, phase, dump>>

(* What dumpHistory prints: from the last cell to the first the older tree *)
(* of the cell, if it is newer than what was displayed, then the newer     *)
(* tree of the first cell.                                                 *)
Worth(c) == nbitem[c] # 0 /\ time[history[c][0]] > shown

DumpOf(c) == IF Worth(c) THEN <<history[c][0]>> ELSE <<>>

Newest == IF nbitem[0] = 2 THEN <<history[0][1]>> ELSE <<>>

(* What is printed when the loop has passed n cells, the last ones.        *)
dumped[n \in 0..nbcell] ==
  IF n = 0 THEN <<>> ELSE dumped[n - 1] \o DumpOf(nbcell - n)

(* The mutant starts with the newest cell.                                 *)
DumpedUpwards ==
  LET upwards[n \in 0..nbcell] == IF n = 0 THEN <<>> ELSE upwards[n - 1] \o DumpOf(n - 1)
  IN  upwards[nbcell] \o Newest

(* The mutant forgets the newest tree.                                     *)
DumpedOlder == dumped[nbcell]

Dumped == dumped[nbcell] \o Newest

dumpHistory ==
  /\ phase = "watching"
  /\ phase' = "dumped"
  /\ dump' = Dumped
  /\ UNCHANGED <<nbitem, history, procTree, lastProcTree, pushed, deleted, trees,
                 elapsed, time, shown, displayed, rootEnded, stopSolverStarted>>

(* The destructor deletes the trees of the cells before the first empty    *)
(* one.                                                                    *)
destroy ==
  /\ phase = "dumped"
  /\ phase' = "destroyed"
  /\ deleted' = deleted \cup
       UNION {{history[c][i] : i \in 0..(nbitem[c] - 1)} :
                c \in {d \in Cells : \A e \in 0..d : nbitem[e] > 0}}
  /\ UNCHANGED <<nbitem, history, procTree, lastProcTree, pushed, trees,
                 elapsed, time, shown, displayed, rootEnded, stopSolverStarted, dump>>

Next ==
  \/ \E now \in {elapsed, elapsed + 1} : Sample(now) \/ SampleEnded(now)
  \/ displayProcessData
  \/ dumpHistory
  \/ destroy

Spec == Init /\ [][Next]_vars
-----------------------------------------------------------------------------
(* Properties.                                                             *)

(* Place i of cell c is in use.                                            *)
Live(c, i) == i < nbitem[c]

(* The trees in the history.                                               *)
Held == {t \in Tree : \E c \in Cells : \E i \in 0..1 : Live(c, i) /\ history[c][i] = t}

TypeOK ==
  /\ nbitem \in [Cells -> 0..2]
  /\ history \in [Cells -> [0..1 -> Tree \cup {NoTree}]]
  /\ trees \in 1..MaxTrees
  /\ procTree \in 0..(trees - 1)
  /\ lastProcTree \in {NoTree} \cup 0..(trees - 1)
  /\ deleted \subseteq 0..(trees - 1)
  /\ elapsed \in Nat
  /\ time \in [Tree -> Nat]
  /\ shown \in Int
  /\ displayed \in BOOLEAN
  /\ rootEnded \in BOOLEAN
  /\ stopSolverStarted \in BOOLEAN
  /\ phase \in {"watching", "dumped", "destroyed"}

(* Every tree in the history is alive and is there once, so that no tree   *)
(* is deleted twice (drop, ProcessHistory.hh:122), and every tree alive is *)
(* in the history, so that none leaks.                                     *)
Owned ==
  phase # "destroyed" =>
    /\ \A c, d \in Cells : \A i, j \in 0..1 :
         Live(c, i) /\ Live(d, j) /\ history[c][i] = history[d][j] => c = d /\ i = j
    /\ Held = (0..(trees - 1)) \ deleted

(* The current tree is one the history owns: readProcessData may copy it,  *)
(* displayProcessData and the kill at the end may walk it, for push drops  *)
(* others only (ProcessHistory.hh:58).                                     *)
CurrentAlive == phase # "destroyed" => procTree \notin deleted

(* Older trees stand in higher cells, and in a cell the older one first:   *)
(* push keeps the order of time although it moves trees.                   *)
AgeOrder ==
  \A c, d \in Cells : \A i, j \in 0..1 :
    Live(c, i) /\ Live(d, j) /\ (c > d \/ (c = d /\ i < j)) =>
      history[c][i] < history[d][j]

(* The past thins out, but never faster than by half (ProcessHistory.hh:58 *)
(* to 88): for every sample within reach the history has that one or one   *)
(* before it that is at most twice as old.                                 *)
Kept == {k \in DOMAIN pushed : pushed[k] \notin deleted}
ThinsByHalf ==
  phase # "destroyed" =>
    \A k \in DOMAIN pushed :
      LET age == Len(pushed) - k
      IN  age <= 2^nbcell - 2 => \E m \in Kept : m <= k /\ k - m <= age

(* dumpHistory prints trees that are still there, each once and in the     *)
(* order of time, and nothing that is newer than the newest sample.        *)
DumpInOrder ==
  phase = "dumped" =>
    /\ \A i \in DOMAIN dump : dump[i] \notin deleted
    /\ \A i, j \in DOMAIN dump : i < j => dump[i] < dump[j]

(* The dump ends with the newest sample, unless that was displayed before. *)
DumpsNewest ==
  phase = "dumped" /\ displayed =>
    \/ dump # <<>> /\ dump[Len(dump)] = procTree
    \/ time[procTree] = shown

(* What is dumped when the solver ends (ProcessHistory.hh:93-107).         *)
DumpHolds == DumpInOrder /\ DumpsNewest

(* "Dumping a history of the last processes samples" (runsolver.cc:1343):  *)
(* whatever has been displayed or not, the newest sample is among what is  *)
(* dumped or displayed.  It does not hold: without a display shown has     *)
(* never been set.                                                         *)
AlwaysDumpsNewest ==
  phase = "dumped" =>
    \/ dump # <<>> /\ dump[Len(dump)] = procTree
    \/ displayed /\ time[procTree] = shown

(* The destructor deletes all that is left.                                *)
AllFreed == phase = "destroyed" => deleted = 0..(trees - 1)
=============================================================================
