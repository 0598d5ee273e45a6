--------------------------- MODULE WatcherProofs ---------------------------
(***************************************************************************)
(* Proofs about the two parts of run in runsolver.cc.                      *)
(*                                                                         *)
(* Watcher, for solvers that fork and signals that come in any number and  *)
(* at any moment: whoever clears solverIsRunning is right as long as no    *)
(* signal comes, and no thread that kills is created without a reason.     *)
(*                                                                         *)
(* Cores, for any machine of at most 32 cores and any lists: the lists     *)
(* hold the right cores in the right order, the ranges printed are a list  *)
(* of the same cores, and the solver gets what its list asks for.          *)
(***************************************************************************)
EXTENDS Watcher, Cores, SumProofs, SequenceTheorems

(* Where a caller is on its way through stopSolver.                        *)
Stopping == {"test", "set", "fill", "show", "reshow", "create", "note"}

(* Where a caller has a tree half filled.                                  *)
Filling == {"full", "update", "reread", "fill", "reshow"}

(* There is a root from the fork on.                                       *)
Born == main = "fork" <=> root = "unborn"

(* The tree that somebody fills has not become the same as procTree.       *)
LastIsOne == lastProcTree = Same => \A c \in Callers : filling[c] # "last"

Reasons ==
  \A c \in Callers :
    stop[c] \in Stopping \/ killer[c] # "none" => limitReached \/ signals > 0

(* Without a signal the timer is alone with the trees.                     *)
TimerAlone ==
  signals = 0 =>
    /\ stop["handler"] = "none" /\ filling["handler"] = "none"
    /\ stop["timer"] \in Filling => filling["timer"] = "cur"
    /\ main \in {"fork", "forked", "read"} => stop["timer"] = "none"

(* A tree that the timer has filled has the root, unless wait4 was faster. *)
RootInTree ==
  (signals = 0 /\ stop["timer"] \in {"loop", "update", "display", "test", "set", "show",
                                     "create", "note"}) =>
    "R" \in procTree.procs \/ root = "gone"

WInv == TypeOK /\ Born /\ LastIsOne /\ Reasons /\ TimerAlone /\ RootInTree /\ EndedWhenToldSo

-----------------------------------------------------------------------------
(* The trees.                                                              *)

(* A tree or the mark that it is the same as procTree.                     *)
Mark == [procs : SUBSET {"R", "K", "same"}, groups : SUBSET Groups, all : BOOLEAN,
         knows : BOOLEAN]

LEMMA SameIs ==
  /\ Same \in Mark /\ Same \notin Tree
  /\ Tree \subseteq Mark /\ NoTree \in Tree
  <1>1. Same \in Mark /\ Same.procs = {"same"}
    BY DEF Same, NoTree, Mark
  <1>2. "same" # "R" /\ "same" # "K"
    OBVIOUS
  <1>3. Same \notin Tree
    <2>. SUFFICES ASSUME Same \in Tree PROVE FALSE
      OBVIOUS
    <2>1. Same.procs \subseteq {"R", "K"}
      BY DEF Tree
    <2>. QED  BY <2>1, <1>1, <1>2
  <1>4. Tree \subseteq Mark
    BY DEF Mark, Tree
  <1>5. NoTree \in Tree
    BY DEF Tree, NoTree
  <1>. QED  BY <1>1, <1>3, <1>4, <1>5

(* readProcesses finds the root while there is one.                        *)
LEMMA ReadTrees ==
  ASSUME TypeOK, NEW t \in Mark
  PROVE  /\ \A u \in ReadRoot(t) :
              u \in Tree /\ (root \in {"run", "zombie"} => "R" \in u.procs)
         /\ \A u \in ReadAll(t) :
              u \in Tree /\ (main # "read" /\ root \in {"run", "zombie"} => "R" \in u.procs)
  <1>1. rootGroup \in Groups /\ kidGroup \in Groups
    BY DEF TypeOK, Groups
  <1>2. \A S \in SUBSET {"R", "K"}, G \in SUBSET Groups :
          /\ [t EXCEPT !.procs = S, !.groups = G, !.all = TRUE] \in Tree
          /\ [t EXCEPT !.procs = S, !.groups = G, !.all = TRUE].procs = S
    BY DEF Mark, Tree
  <1>3. \A G \in SUBSET Groups : Kept(t, G) \in SUBSET Groups
    BY DEF Kept
  <1>4. Listed \in SUBSET {"R", "K"} /\ (root \in {"run", "zombie"} => "R" \in Listed)
    BY DEF Listed
  <1>5. GroupsOf(Listed) \in SUBSET Groups
    BY <1>1 DEF GroupsOf
  <1>6. \A u \in ReadRoot(t) : u \in Tree /\ (root \in {"run", "zombie"} => "R" \in u.procs)
    <2>1. CASE root \in {"run", "zombie"}
      <3>1. ReadRoot(t)
              = {[t EXCEPT !.procs = Listed, !.groups = Kept(t, GroupsOf(Listed)), !.all = TRUE]}
        BY <2>1 DEF ReadRoot
      <3>2. Kept(t, GroupsOf(Listed)) \in SUBSET Groups
        BY <1>3, <1>5
      <3>. DEFINE u == [t EXCEPT !.procs = Listed, !.groups = Kept(t, GroupsOf(Listed)), !.all = TRUE]
      <3>3. u \in Tree /\ u.procs = Listed
        BY <1>2, <1>4, <3>2
      <3>. HIDE DEF u
      <3>4. ReadRoot(t) = {u}
        BY <3>1 DEF u
      <3>. QED  BY <3>3, <3>4, <1>4
    <2>2. CASE root \notin {"run", "zombie"}
      <3>1. ReadRoot(t)
              = {[t EXCEPT !.procs = {}, !.groups = {}, !.all = TRUE]}
                  \cup {[t EXCEPT !.procs = {"R"}, !.groups = Kept(t, {g}), !.all = TRUE] : g \in Groups}
        BY <2>2 DEF ReadRoot
      <3>2. \A g \in Groups : {g} \in SUBSET Groups
        OBVIOUS
      <3>3. \A g \in Groups :
              [t EXCEPT !.procs = {"R"}, !.groups = Kept(t, {g}), !.all = TRUE] \in Tree
        BY <1>2, <1>3, <3>2
      <3>4. [t EXCEPT !.procs = {}, !.groups = {}, !.all = TRUE] \in Tree
        BY <1>2
      <3>. QED  BY <2>2, <3>1, <3>3, <3>4
    <2>. QED  BY <2>1, <2>2
  <1>7. [t EXCEPT !.procs = {}, !.groups = {}, !.all = TRUE] \in Tree
    BY <1>2
  <1>. QED  BY <1>6, <1>7 DEF ReadAll

(* updateProcessesData keeps the root while there is one.                  *)
LEMMA UpdatedTree ==
  ASSUME NEW t \in Tree
  PROVE  Updated(t) \in Tree /\ ("R" \in t.procs => "R" \in Updated(t).procs \/ root = "gone")
  BY DEF Updated, Tree

LEMMA CopyTree ==
  ASSUME NEW t \in Tree
  PROVE  \A u \in Copy(t) : /\ u \in Tree /\ u.procs = t.procs
                            /\ [u EXCEPT !.procs = {}] \in Tree
  <1>1. \A k \in BOOLEAN : LET u == [NoTree EXCEPT !.procs = t.procs, !.knows = k]
                            IN /\ u \in Tree /\ u.procs = t.procs
                               /\ [u EXCEPT !.procs = {}] \in Tree
    BY DEF Tree, NoTree
  <1>. QED  BY <1>1 DEF Copy

Fillings == [Callers -> {"none", "cur", "last", "old"}]

LEMMA BeginSampleTrees ==
  ASSUME TypeOK, NEW c \in Callers, NEW full \in BOOLEAN, BeginSample(c, full)
  PROVE  /\ procTree' \in Tree /\ lastProcTree' \in Tree
         /\ filling' \in Fillings /\ LastIsOne'
         /\ filling'[c] = "cur"
         /\ \A d \in Callers : d # c /\ filling[d] = "none" => filling'[d] = "none"
         /\ ~full => procTree'.procs = procTree.procs
  <1>1. procTree \in Tree /\ filling \in Fillings
    BY DEF TypeOK, Fillings
  <1>2. PICK t \in Copy(procTree) : procTree' = IF full THEN [t EXCEPT !.procs = {}] ELSE t
    BY DEF BeginSample
  <1>3. /\ procTree' \in Tree /\ lastProcTree' \in Tree
        /\ ~full => procTree'.procs = procTree.procs
    BY <1>1, <1>2, CopyTree DEF BeginSample
  <1>4. \A d \in Callers : filling'[d] = IF d = c THEN "cur" ELSE Older[filling[d]]
    BY DEF BeginSample
  <1>5. /\ Older["none"] = "none" /\ Older["cur"] = "last" /\ Older["last"] = "old"
        /\ Older["old"] = "old"
    BY DEF Older
  <1>6. \A d \in Callers : filling[d] \in {"none", "cur", "last", "old"}
    BY <1>1 DEF Fillings
  <1>7. filling' \in Fillings
    <2>1. \A d \in Callers : filling'[d] \in {"none", "cur", "last", "old"}
      BY <1>4, <1>5, <1>6
    <2>2. filling' = [d \in Callers |-> filling'[d]]
      BY DEF BeginSample
    <2>. QED  BY <2>1, <2>2 DEF Fillings
  <1>8. LastIsOne'
    BY <1>3, SameIs DEF LastIsOne
  <1>. QED  BY <1>3, <1>4, <1>5, <1>7, <1>8

(* What becomes of the trees when c has filled its own, with or without a  *)
(* root.                                                                   *)
LEMMA EndSampleTrees ==
  ASSUME TypeOK, LastIsOne, NEW c \in Callers, NEW T \in SUBSET Tree, NEW ended \in BOOLEAN,
         EndSample(c, T, ended)
  PROVE  /\ procTree' \in Tree /\ lastProcTree' \in Tree \cup {Same}
         /\ filling' \in Fillings /\ LastIsOne'
         /\ \A d \in Callers : d = c \/ filling[d] = "none" => filling'[d] = "none"
         /\ filling[c] = "cur" /\ (\A t \in T : "R" \in t.procs) =>
              ~ended /\ "R" \in procTree'.procs
  <1>1. PICK t \in T :
          LET cur  == IF filling[c] = "cur" THEN t ELSE procTree
              last == IF filling[c] = "last" THEN t ELSE lastProcTree
          IN /\ ended = ("R" \notin cur.procs)
             /\ procTree' = IF ~ended \/ last = Same THEN cur ELSE last
             /\ lastProcTree' = IF ended THEN Same ELSE last
             /\ filling' = [d \in Callers |->
                  IF d = c THEN "none"
                  ELSE IF ~ended \/ lastProcTree = Same THEN filling[d]
                  ELSE [none |-> "none", cur |-> "old", last |-> "cur", old |-> "old"][filling[d]]]
    BY DEF EndSample
  <1>. DEFINE cur  == IF filling[c] = "cur" THEN t ELSE procTree
  <1>. DEFINE last == IF filling[c] = "last" THEN t ELSE lastProcTree
  <1>. DEFINE move == [none |-> "none", cur |-> "old", last |-> "cur", old |-> "old"]
  <1>2. /\ t \in Tree /\ procTree \in Tree /\ lastProcTree \in Tree \cup {Same}
        /\ \A d \in Callers : filling[d] \in {"none", "cur", "last", "old"}
    BY DEF TypeOK
  <1>3. /\ ended = ("R" \notin cur.procs)
        /\ procTree' = IF ~ended \/ last = Same THEN cur ELSE last
        /\ lastProcTree' = IF ended THEN Same ELSE last
        /\ filling' = [d \in Callers |->
             IF d = c THEN "none"
             ELSE IF ~ended \/ lastProcTree = Same THEN filling[d] ELSE move[filling[d]]]
    BY <1>1
  <1>4. cur \in Tree /\ last \in Tree \cup {Same} /\ (filling[c] = "cur" => cur = t)
        /\ (last = Same => lastProcTree = Same)
    BY <1>2, SameIs
  <1>5. /\ move["none"] = "none" /\ move["cur"] = "old" /\ move["last"] = "cur"
        /\ move["old"] = "old"
    OBVIOUS
  <1>. HIDE DEF cur, last, move
  <1>6. procTree' \in Tree /\ lastProcTree' \in Tree \cup {Same}
    BY <1>3, <1>4
  <1>7. \A d \in Callers :
          filling'[d] = IF d = c THEN "none"
                        ELSE IF ~ended \/ lastProcTree = Same THEN filling[d] ELSE move[filling[d]]
    BY <1>3
  <1>8. \A d \in Callers : /\ filling'[d] \in {"none", "cur", "last", "old"}
                           /\ d = c \/ filling[d] = "none" => filling'[d] = "none"
    BY <1>2, <1>5, <1>7
  <1>9. filling' \in Fillings
    <2>1. filling' = [d \in Callers |-> filling'[d]]
      BY <1>3
    <2>. QED  BY <2>1, <1>8 DEF Fillings
  <1>10. LastIsOne'
    <2>. SUFFICES ASSUME lastProcTree' = Same, NEW d \in Callers PROVE filling'[d] # "last"
      BY DEF LastIsOne
    <2>1. ended \/ lastProcTree = Same
      BY <1>3, <1>4
    <2>2. lastProcTree = Same => filling[d] # "last"
      BY DEF LastIsOne
    <2>. QED  BY <2>1, <2>2, <1>2, <1>5, <1>7
  <1>11. ASSUME filling[c] = "cur", \A u \in T : "R" \in u.procs
         PROVE  ~ended /\ "R" \in procTree'.procs
    BY <1>3, <1>4, <1>11
  <1>. QED  BY <1>6, <1>8, <1>9, <1>10, <1>11

-----------------------------------------------------------------------------
(* The steps that leave the trees and the callers as they are.             *)

Early == {"fork", "forked", "read"}

LEMMA CallersKept ==
  ASSUME WInv, UNCHANGED <<trees, stop, solverIsRunning, signals>>,
         main' = main \/ {main, main'} \cap Early = {},
         \A c \in Callers : killer'[c] # "none" => killer[c] # "none",
         limitReached => limitReached',
         root' = "unborn" <=> root = "unborn", root = "gone" => root' = "gone",
         root = "zombie" => root' \in {"zombie", "gone"}
  PROVE  Born' /\ LastIsOne' /\ Reasons' /\ TimerAlone' /\ RootInTree' /\ EndedWhenToldSo'
  <1>1. Born' /\ LastIsOne' /\ Reasons'
    BY DEF WInv, Born, LastIsOne, Reasons, trees, Early
  <1>2. TimerAlone' /\ RootInTree'
    BY DEF WInv, TimerAlone, RootInTree, trees, Early
  <1>3. EndedWhenToldSo'
    BY DEF WInv, EndedWhenToldSo, Early
  <1>. QED  BY <1>1, <1>2, <1>3

LEMMA SolverKeeps ==
  ASSUME WInv, Solver
  PROVE  WInv'
  <1>. USE DEF env, trees, flags
  <1>1. TypeOK'
    <2>1. UNCHANGED <<env, childpid, solverIsRunning, trees, flags, count, main, stop, killer,
                      selfKilled>>
      BY DEF Solver
    <2>2. CASE setpgid
      BY <2>1, <2>2 DEF WInv, TypeOK, setpgid
    <2>3. CASE Fork
      BY <2>1, <2>3, WatcherAssumption DEF WInv, TypeOK, Fork
    <2>4. CASE KidMoves
      BY <2>1, <2>4 DEF WInv, TypeOK, KidMoves
    <2>5. CASE RootExits
      BY <2>1, <2>5 DEF WInv, TypeOK, RootExits
    <2>. QED  BY <2>2, <2>3, <2>4, <2>5 DEF Solver
  <1>2. /\ root' = root \/ (root = "run" /\ root' = "zombie")
        /\ UNCHANGED <<trees, stop, solverIsRunning, signals, main, killer, limitReached>>
    BY DEF Solver, setpgid, Fork, KidMoves, RootExits
  <1>. QED  BY <1>1, <1>2, CallersKept DEF WInv

LEMMA LimitKeeps ==
  ASSUME WInv, LimitReached
  PROVE  WInv'
  <1>1. TypeOK'
    BY DEF WInv, TypeOK, LimitReached, solver, trees, flags
  <1>. QED  BY <1>1, CallersKept DEF WInv, LimitReached, solver

(* SIGKILL makes a zombie of the root.                                     *)
LEMMA KilledRoot ==
  ASSUME NEW S, Killed(S), TypeOK
  PROVE  /\ root' = root \/ (root = "run" /\ root' = "zombie")
         /\ rootGroup' = rootGroup /\ kidGroup' = kidGroup
         /\ kid' \in {"unborn", "run", "gone"}
         /\ kidHoldsPipe' \in BOOLEAN /\ kidOrphan' \in BOOLEAN
  BY DEF Killed, TypeOK

LEMMA KillerKeeps ==
  ASSUME WInv, NEW c \in Callers, Killer(c)
  PROVE  WInv'
  <1>. USE DEF env, trees, flags
  <1>1. CASE KillerBegins(c) \/ KillerLooks(c)
    <2>1. TypeOK'
      BY <1>1 DEF WInv, TypeOK, KillerBegins, KillerLooks, solver
    <2>2. /\ \A d \in Callers : killer'[d] # "none" => killer[d] # "none"
          /\ UNCHANGED <<trees, stop, solverIsRunning, signals, main, limitReached, root>>
      BY <1>1 DEF KillerBegins, KillerLooks, solver, WInv, TypeOK
    <2>. QED  BY <2>1, <2>2, CallersKept DEF WInv
  <1>2. CASE KillerKills(c)
    <2>1. TypeOK'
      BY <1>2, KilledRoot DEF WInv, TypeOK, KillerKills
    <2>2. /\ \A d \in Callers : killer'[d] # "none" => killer[d] # "none"
          /\ UNCHANGED <<trees, stop, solverIsRunning, signals, main, limitReached>>
      BY <1>2 DEF KillerKills, WInv, TypeOK
    <2>3. root' = root \/ (root = "run" /\ root' = "zombie")
      BY <1>2, KilledRoot DEF KillerKills, WInv
    <2>. QED  BY <2>1, <2>2, <2>3, CallersKept DEF WInv
  <1>. QED  BY <1>1, <1>2 DEF Killer

-----------------------------------------------------------------------------
(* run.                                                                    *)

LEMMA MainStarts ==
  ASSUME WInv, MainForks \/ MainRuns
  PROVE  WInv'
  <1>. USE DEF env, trees, flags, solver, MainStep
  <1>1. TypeOK'
    BY DEF WInv, TypeOK, MainForks, MainRuns
  <1>2. Born' /\ LastIsOne' /\ Reasons'
    BY DEF WInv, Born, LastIsOne, Reasons, MainForks, MainRuns
  <1>3. TimerAlone' /\ RootInTree'
    BY DEF WInv, TimerAlone, RootInTree, MainForks, MainRuns, Born
  <1>4. EndedWhenToldSo'
    BY DEF WInv, EndedWhenToldSo, MainForks, MainRuns
  <1>. QED  BY <1>1, <1>2, <1>3, <1>4 DEF WInv

(* The timer thread starts with the tree that run has read.                *)
LEMMA MainReadsKeeps ==
  ASSUME WInv, MainReads
  PROVE  WInv'
  <1>. USE DEF env, trees, flags, solver, MainStep
  <1>1. /\ main = "read" /\ main' = "wait" /\ stop' = [stop EXCEPT !["timer"] = "loop"]
        /\ UNCHANGED <<solver, env, childpid, solverIsRunning, lastProcTree, filling, flags,
                       count, killer, selfKilled>>
    BY DEF MainReads
  <1>2. procTree \in Tree /\ stop \in [Callers -> {"none", "loop", "full", "update", "display",
           "reread", "test", "set", "fill", "show", "reshow", "create", "note", "ended"}]
    BY DEF WInv, TypeOK
  <1>3. procTree' \in Tree /\ (root \in {"run", "zombie"} => "R" \in procTree'.procs)
    <2>1. procTree \in Mark /\ procTree' \in ReadRoot(procTree)
      BY <1>2, SameIs DEF MainReads
    <2>. QED  BY <2>1, ReadTrees DEF WInv
  <1>4. TypeOK'
    BY <1>1, <1>3 DEF WInv, TypeOK
  <1>5. Born' /\ LastIsOne' /\ Reasons'
    BY <1>1, <1>2 DEF WInv, Born, LastIsOne, Reasons, Stopping, Callers
  <1>6. TimerAlone'
    BY <1>1, <1>2 DEF WInv, TimerAlone, Filling, Callers
  <1>7. RootInTree'
    BY <1>1, <1>3 DEF WInv, RootInTree, Born, TypeOK
  <1>8. EndedWhenToldSo'
    BY <1>1 DEF WInv, EndedWhenToldSo
  <1>. QED  BY <1>4, <1>5, <1>6, <1>7, <1>8 DEF WInv

LEMMA MainWaitsKeeps ==
  ASSUME WInv, MainWaits
  PROVE  WInv'
  <1>. USE DEF env, trees, flags, solver, MainStep
  <1>1. TypeOK'
    BY DEF WInv, TypeOK, MainWaits
  <1>2. Born' /\ LastIsOne' /\ Reasons'
    BY DEF WInv, Born, LastIsOne, Reasons, MainWaits
  <1>3. TimerAlone' /\ RootInTree'
    BY DEF WInv, TimerAlone, RootInTree, MainWaits
  <1>4. EndedWhenToldSo'
    BY DEF EndedWhenToldSo, MainWaits
  <1>. QED  BY <1>1, <1>2, <1>3, <1>4 DEF WInv

LEMMA MainEnds ==
  ASSUME WInv,
         MainKills \/ MainKillsGroups \/ MainJoinsStamper \/ MainJoinsKiller \/ MainJoinsTimer
  PROVE  WInv'
  <1>. USE DEF env, trees, flags, MainStep
  <1>1. CASE MainKills \/ MainKillsGroups
    <2>1. PICK S : Killed(S)
      BY <1>1 DEF MainKills, MainKillsGroups
    <2>2. /\ root' = root \/ (root = "run" /\ root' = "zombie")
          /\ rootGroup' = rootGroup /\ kidGroup' = kidGroup
          /\ kid' \in {"unborn", "run", "gone"}
          /\ kidHoldsPipe' \in BOOLEAN /\ kidOrphan' \in BOOLEAN
      BY <2>1, KilledRoot DEF WInv
    <2>3. selfKilled' \in BOOLEAN /\ main' \in {"killGroups", "joinStamper"}
      <3>1. CASE MainKills
        BY <3>1 DEF MainKills, WInv, TypeOK
      <3>2. CASE MainKillsGroups
        <4>1. selfKilled' = ("rs" \in procTree.groups) /\ main' = "joinStamper"
          BY <3>2 DEF MainKillsGroups
        <4>. QED  BY <4>1
      <3>. QED  BY <1>1, <3>1, <3>2
    <2>4. UNCHANGED <<env, childpid, solverIsRunning, trees, flags, count, stop, killer>>
      BY <1>1 DEF MainKills, MainKillsGroups
    <2>5. TypeOK'
      BY <2>2, <2>3, <2>4 DEF WInv, TypeOK
    <2>6. {main, main'} \cap Early = {}
      BY <1>1 DEF MainKills, MainKillsGroups, Early
    <2>. QED  BY <2>2, <2>4, <2>5, <2>6, CallersKept DEF WInv
  <1>2. CASE MainJoinsStamper \/ MainJoinsKiller \/ MainJoinsTimer
    <2>1. TypeOK'
      BY <1>2 DEF MainJoinsStamper, MainJoinsKiller, MainJoinsTimer, WInv, TypeOK, solver
    <2>2. /\ {main, main'} \cap Early = {}
          /\ UNCHANGED <<trees, stop, solverIsRunning, signals, killer, limitReached, root>>
      BY <1>2 DEF MainJoinsStamper, MainJoinsKiller, MainJoinsTimer, Early, solver
    <2>. QED  BY <2>1, <2>2, CallersKept DEF WInv
  <1>. QED  BY <1>1, <1>2

LEMMA SignalKeeps ==
  ASSUME WInv, Signal
  PROVE  WInv'
  <1>. USE DEF env, trees, flags, solver
  <1>1. signals' > 0 /\ signals \in Nat /\ signals' \in 0..MaxEvents
    BY WatcherAssumption DEF WInv, TypeOK, Signal, Events
  <1>2. TypeOK'
    BY <1>1 DEF WInv, TypeOK, Signal
  <1>3. Born' /\ LastIsOne' /\ Reasons'
    BY <1>1 DEF WInv, Born, LastIsOne, Reasons, Signal
  <1>. QED  BY <1>1, <1>2, <1>3 DEF WInv, TimerAlone, RootInTree, EndedWhenToldSo

-----------------------------------------------------------------------------
(* timerThread.                                                            *)

Places ==
  {"none", "loop", "full", "update", "display", "reread", "test", "set", "fill", "show",
   "reshow", "create", "note", "ended"}

LEMMA TimerLoopKeeps ==
  ASSUME WInv, TimerLoop
  PROVE  WInv'
  <1>. USE DEF env, flags, solver
  <1>1. /\ stop["timer"] = "loop" /\ stop \in [Callers -> Places]
        /\ UNCHANGED <<solver, env, childpid, solverIsRunning, flags, main, killer, selfKilled>>
        /\ count \in 0..FullEvery /\ FullEvery \in Nat
    BY WatcherAssumption DEF WInv, TypeOK, TimerLoop, Places
  <1>2. CASE ~solverIsRunning
    <2>1. stop' = [stop EXCEPT !["timer"] = "ended"] /\ UNCHANGED <<trees, count>>
      BY <1>2 DEF TimerLoop
    <2>2. TypeOK'
      BY <1>1, <2>1 DEF WInv, TypeOK, trees
    <2>3. Born' /\ LastIsOne' /\ Reasons' /\ TimerAlone' /\ RootInTree'
      BY <1>1, <2>1 DEF WInv, Born, LastIsOne, Reasons, TimerAlone, RootInTree, trees, Stopping,
                        Filling, Callers
    <2>. QED  BY <1>1, <2>2, <2>3 DEF WInv, EndedWhenToldSo
  <1>3. CASE solverIsRunning
    <2>1. /\ BeginSample("timer", Full)
          /\ count' = IF Full THEN 0 ELSE count + 1
          /\ stop' = [stop EXCEPT !["timer"] = IF Full THEN "full" ELSE "update"]
      BY <1>3 DEF TimerLoop
    <2>2. "timer" \in Callers /\ Full \in BOOLEAN
      BY DEF Callers, Full
    <2>3. /\ procTree' \in Tree /\ lastProcTree' \in Tree
          /\ filling' \in Fillings /\ LastIsOne'
          /\ filling'["timer"] = "cur"
          /\ \A d \in Callers : d # "timer" /\ filling[d] = "none" => filling'[d] = "none"
          /\ ~Full => procTree'.procs = procTree.procs
      BY <2>1, <2>2, BeginSampleTrees DEF WInv
    <2>4. count' \in 0..FullEvery
      BY <1>1, <2>1 DEF Full
    <2>5. TypeOK'
      BY <1>1, <2>1, <2>3, <2>4 DEF WInv, TypeOK, Fillings
    <2>6. Born' /\ Reasons'
      BY <1>1, <2>1 DEF WInv, Born, Reasons, Stopping, Callers
    <2>7. TimerAlone'
      BY <1>1, <2>1, <2>3 DEF WInv, TimerAlone, Filling, Callers
    <2>8. RootInTree'
      <3>1. CASE Full
        BY <1>1, <2>1, <2>2, <3>1 DEF RootInTree
      <3>2. CASE ~Full
        BY <1>1, <2>1, <2>2, <2>3, <3>2 DEF WInv, RootInTree
      <3>. QED  BY <3>1, <3>2
    <2>. QED  BY <1>1, <2>3, <2>5, <2>6, <2>7, <2>8 DEF WInv, EndedWhenToldSo
  <1>. QED  BY <1>2, <1>3

(* The tree that c fills, or that another has put in its place.            *)
LEMMA FilledIs ==
  ASSUME WInv, NEW c \in Callers
  PROVE  /\ Filled(c) \in Tree \cup {Same} /\ Filled(c) \in Mark
         /\ filling[c] = "cur" => Filled(c) = procTree
         /\ Filled(c) \in Tree
  BY SameIs DEF WInv, TypeOK, LastIsOne, Filled

LEMMA TimerSampledKeeps ==
  ASSUME WInv, TimerSampled
  PROVE  WInv'
  <1>. USE DEF env, flags, solver
  <1>1. /\ stop["timer"] \in {"full", "update"} /\ stop \in [Callers -> Places]
        /\ UNCHANGED <<solver, env, childpid, flags, count, main, killer, selfKilled>>
        /\ "timer" \in Callers
    BY DEF WInv, TypeOK, TimerSampled, Places, Callers
  <1>. DEFINE t == Filled("timer")
  <1>. DEFINE T == IF stop["timer"] = "full" THEN ReadAll(t) ELSE {Updated(t)}
  <1>2. PICK ended \in BOOLEAN :
          /\ EndSample("timer", T, ended)
          /\ stop' = [stop EXCEPT !["timer"] = IF ended THEN "ended" ELSE AfterSample]
          /\ solverIsRunning' = (solverIsRunning /\ ~ended)
    BY DEF TimerSampled
  <1>3. T \in SUBSET Tree
    BY <1>1, FilledIs, ReadTrees, UpdatedTree DEF WInv
  <1>4. ASSUME signals = 0
        PROVE  /\ filling["timer"] = "cur" /\ main # "read"
               /\ (\A u \in T : "R" \in u.procs) \/ root \in {"unborn", "gone"}
    <2>1. filling["timer"] = "cur" /\ main # "read"
      BY <1>4, <1>1 DEF WInv, TimerAlone, Filling
    <2>2. t = procTree /\ t \in Tree /\ t \in Mark
      BY <2>1, <1>1, FilledIs
    <2>3. root \in {"unborn", "run", "zombie", "gone"}
      BY DEF WInv, TypeOK
    <2>4. CASE stop["timer"] = "full"
      BY <2>1, <2>2, <2>3, <2>4, ReadTrees DEF WInv
    <2>5. CASE stop["timer"] = "update"
      <3>1. "R" \in t.procs \/ root = "gone"
        BY <1>4, <2>2, <2>5 DEF WInv, RootInTree
      <3>2. "R" \in Updated(t).procs \/ root = "gone"
        BY <3>1, <2>2, UpdatedTree
      <3>3. T = {Updated(t)}
        BY <2>5
      <3>. HIDE DEF T
      <3>. QED  BY <2>1, <3>2, <3>3
    <2>6. stop["timer"] = "full" \/ stop["timer"] = "update"
      BY <1>1
    <2>. HIDE DEF T, t
    <2>. QED  BY <2>1, <2>4, <2>5, <2>6
  <1>. HIDE DEF T
  <1>5. /\ procTree' \in Tree /\ lastProcTree' \in Tree \cup {Same}
        /\ filling' \in Fillings /\ LastIsOne'
        /\ \A d \in Callers : d = "timer" \/ filling[d] = "none" => filling'[d] = "none"
        /\ filling["timer"] = "cur" /\ (\A u \in T : "R" \in u.procs) =>
             ~ended /\ "R" \in procTree'.procs
    BY <1>1, <1>2, <1>3, EndSampleTrees DEF WInv
  <1>6. AfterSample \in {"test", "display"} /\ (AfterSample = "test" => limitReached)
    BY DEF AfterSample
  <1>7. stop' = [stop EXCEPT !["timer"] = stop'["timer"]]
        /\ stop'["timer"] \in {"ended", "test", "display"}
        /\ (stop'["timer"] = "test" => limitReached)
        /\ (ended <=> stop'["timer"] = "ended")
    BY <1>1, <1>2, <1>6
  <1>8. solverIsRunning' \in BOOLEAN /\ (~solverIsRunning' => ~solverIsRunning \/ ended)
    BY <1>2
  <1>9. signals = 0 => ("R" \in procTree'.procs /\ ~ended) \/ root \in {"unborn", "gone"}
    BY <1>4, <1>5
  <1>10. TypeOK'
    BY <1>1, <1>5, <1>7, <1>8 DEF WInv, TypeOK, Fillings, Places
  <1>11. Born' /\ Reasons'
    BY <1>1, <1>7 DEF WInv, Born, Reasons, Stopping, Callers
  <1>12. TimerAlone'
    BY <1>1, <1>5, <1>7 DEF WInv, TimerAlone, Filling, Callers
  <1>13. signals = 0 => main \notin Early /\ root # "unborn"
    BY <1>1 DEF WInv, TimerAlone, Early, Born
  <1>14. RootInTree'
    BY <1>1, <1>9, <1>13 DEF RootInTree
  <1>15. EndedWhenToldSo'
    BY <1>1, <1>8, <1>9, <1>13 DEF WInv, EndedWhenToldSo
  <1>. QED  BY <1>5, <1>10, <1>11, <1>12, <1>14, <1>15 DEF WInv

-----------------------------------------------------------------------------
(* displayProcessData, and stopSolver.                                     *)

LEMMA DisplayKeeps ==
  ASSUME WInv, NEW c \in Callers, Display(c)
  PROVE  WInv'
  <1>. USE DEF env, flags, solver
  <1>1. /\ stop \in [Callers -> Places] /\ procTree \in Tree
        /\ UNCHANGED <<solver, env, childpid, solverIsRunning, flags, count, main, killer,
                       selfKilled>>
    BY DEF WInv, TypeOK, Places, Display, Displays, Rereads, Reread
  <1>2. /\ AfterDisplay["display"] = "loop" /\ AfterDisplay["show"] = "create"
        /\ AfterDisplay["reread"] = "loop" /\ AfterDisplay["reshow"] = "create"
    BY DEF AfterDisplay
  <1>3. EndedWhenToldSo' /\ Born'
    BY <1>1 DEF WInv, EndedWhenToldSo, Born
  <1>4. CASE Displays(c)
    <2>1. /\ \/ stop[c] = "display" /\ stop' = [stop EXCEPT ![c] = "loop"]
             \/ stop[c] = "show" /\ stop' = [stop EXCEPT ![c] = "create"]
          /\ UNCHANGED trees
      BY <1>2, <1>4 DEF Displays
    <2>2. TypeOK'
      BY <1>1, <2>1 DEF WInv, TypeOK, trees, Places
    <2>3. LastIsOne' /\ Reasons' /\ TimerAlone' /\ RootInTree'
      BY <1>1, <2>1 DEF WInv, LastIsOne, Reasons, TimerAlone, RootInTree, trees, Stopping,
                        Filling, Callers
    <2>. QED  BY <1>3, <2>2, <2>3 DEF WInv
  <1>5. CASE Rereads(c)
    <2>1. /\ \/ stop[c] = "display" /\ stop' = [stop EXCEPT ![c] = "reread"]
             \/ stop[c] = "show" /\ stop' = [stop EXCEPT ![c] = "reshow"]
          /\ procTree' = [procTree EXCEPT !.procs = {}, !.groups = {}]
          /\ filling' = [filling EXCEPT ![c] = "cur"]
          /\ UNCHANGED lastProcTree
      BY <1>5 DEF Rereads
    <2>2. procTree' \in Tree
      BY <1>1, <2>1 DEF Tree
    <2>3. TypeOK'
      BY <1>1, <2>1, <2>2 DEF WInv, TypeOK, Places
    <2>4. LastIsOne' /\ Reasons' /\ TimerAlone' /\ RootInTree'
      BY <1>1, <2>1 DEF WInv, TypeOK, LastIsOne, Reasons, TimerAlone, RootInTree, Stopping,
                        Filling, Callers
    <2>. QED  BY <1>3, <2>3, <2>4 DEF WInv
  <1>6. CASE Reread(c)
    <2>1. PICK t \in ReadAll(Filled(c)) :
            /\ procTree' = IF filling[c] = "cur" THEN t ELSE procTree
            /\ lastProcTree' = IF filling[c] = "last" THEN t ELSE lastProcTree
      BY <1>6 DEF Reread
    <2>2. /\ \/ stop[c] = "reread" /\ stop' = [stop EXCEPT ![c] = "loop"]
             \/ stop[c] = "reshow" /\ stop' = [stop EXCEPT ![c] = "create"]
          /\ filling' = [filling EXCEPT ![c] = "none"]
      BY <1>2, <1>6 DEF Reread
    <2>3. t \in Tree /\ (main # "read" /\ root \in {"run", "zombie"} => "R" \in t.procs)
      BY FilledIs, ReadTrees DEF WInv
    <2>4. procTree' \in Tree /\ lastProcTree' \in Tree \cup {Same}
      BY <2>1, <2>3 DEF WInv, TypeOK
    <2>5. TypeOK'
      BY <1>1, <2>2, <2>4 DEF WInv, TypeOK, Places
    <2>6. LastIsOne' /\ Reasons'
      BY <1>1, <2>1, <2>2, <2>3, SameIs DEF WInv, TypeOK, LastIsOne, Reasons, Stopping
    <2>7. TimerAlone'
      BY <1>1, <2>2 DEF WInv, TypeOK, TimerAlone, Filling, Callers
    <2>8. RootInTree'
      <3>. SUFFICES ASSUME signals = 0 PROVE "R" \in procTree'.procs \/ root = "gone"
        BY <1>1 DEF RootInTree
      <3>1. c = "timer" /\ filling["timer"] = "cur" /\ main \notin Early
        BY <1>1, <2>2 DEF WInv, TimerAlone, Filling, Callers, Early
      <3>. QED  BY <3>1, <2>1, <2>3 DEF WInv, TypeOK, Born, Early
    <2>. QED  BY <1>3, <2>5, <2>6, <2>7, <2>8 DEF WInv
  <1>. QED  BY <1>4, <1>5, <1>6 DEF Display

LEMMA StopKeeps ==
  ASSUME WInv, NEW c \in Callers, Stop(c)
  PROVE  WInv'
  <1>. USE DEF env, solver
  <1>1. /\ stop \in [Callers -> Places] /\ procTree \in Tree
        /\ UNCHANGED <<solver, env, childpid, solverIsRunning, count, main, selfKilled>>
    BY DEF WInv, TypeOK, Places, Stop, StopTests, StopSets, StopSampled, StopCreates, StopNotes, At
  <1>2. EndedWhenToldSo' /\ Born'
    BY <1>1 DEF WInv, EndedWhenToldSo, Born
  <1>3. Return(c) \in {"display", "none"} /\ (Return(c) = "display" => c = "timer")
    BY DEF Return
  <1>4. stop[c] \in Stopping => limitReached \/ signals > 0
    BY DEF WInv, Reasons
  <1>5. CASE StopTests(c) \/ StopCreates(c) \/ StopNotes(c)
    <2>1. PICK p \in Places \ Filling :
            /\ stop' = [stop EXCEPT ![c] = p]
            /\ p = "none" => stop[c] \in Stopping
            /\ p \notin Stopping => p \in {"display", "none"}
            /\ p = "loop" => FALSE
      BY <1>3, <1>5 DEF StopTests, StopCreates, StopNotes, At, Places, Filling, Stopping
    <2>2. stop[c] \in {"test", "create", "note"} /\ UNCHANGED trees
      BY <1>5 DEF StopTests, StopCreates, StopNotes, At
    <2>3. TypeOK'
      <3>1. stop' \in [Callers -> Places]
        BY <1>1, <2>1
      <3>2. CASE StopTests(c)
        BY <1>1, <2>2, <3>1, <3>2 DEF WInv, TypeOK, trees, Places, flags, StopTests
      <3>3. CASE StopCreates(c)
        BY <1>1, <2>2, <3>1, <3>3 DEF WInv, TypeOK, trees, Places, StopCreates
      <3>4. CASE StopNotes(c)
        BY <1>1, <2>2, <3>1, <3>4 DEF WInv, TypeOK, trees, Places, StopNotes
      <3>. QED  BY <1>5, <3>2, <3>3, <3>4
    <2>4. \A d \in Callers : killer'[d] # "none" => killer[d] # "none" \/ d = c
      BY <1>5 DEF StopTests, StopCreates, StopNotes, WInv, TypeOK
    <2>5. LastIsOne' /\ Reasons'
      BY <1>1, <1>4, <2>1, <2>2, <2>4 DEF WInv, LastIsOne, Reasons, trees, Stopping
    <2>6. TimerAlone' /\ RootInTree'
      BY <1>1, <2>1, <2>2 DEF WInv, TimerAlone, RootInTree, trees, Callers
    <2>. QED  BY <1>2, <2>3, <2>5, <2>6 DEF WInv
  <1>6. CASE StopSets(c)
    <2>1. /\ stop[c] = "set" /\ stopSolverStarted' = TRUE
          /\ UNCHANGED <<stopSolverThreadStarted, stopSolverThreadTID, killer>>
      BY <1>6 DEF StopSets
    <2>2. CASE childpid
      <3>1. BeginSample(c, TRUE) /\ stop' = [stop EXCEPT ![c] = "fill"]
        BY <1>6, <2>2 DEF StopSets
      <3>2. /\ procTree' \in Tree /\ lastProcTree' \in Tree
            /\ filling' \in Fillings /\ LastIsOne'
            /\ filling'[c] = "cur"
            /\ \A d \in Callers : d # c /\ filling[d] = "none" => filling'[d] = "none"
        BY <3>1, BeginSampleTrees DEF WInv
      <3>3. TypeOK'
        BY <1>1, <2>1, <3>1, <3>2 DEF WInv, TypeOK, Fillings, Places
      <3>4. Reasons'
        BY <1>1, <1>4, <2>1, <3>1 DEF WInv, Reasons, Stopping
      <3>5. TimerAlone' /\ RootInTree'
        BY <1>1, <2>1, <3>1, <3>2 DEF WInv, TimerAlone, RootInTree, Filling, Callers
      <3>. QED  BY <1>2, <3>2, <3>3, <3>4, <3>5 DEF WInv
    <2>3. CASE ~childpid
      <3>1. UNCHANGED trees /\ stop' = [stop EXCEPT ![c] = "create"]
        BY <1>6, <2>3 DEF StopSets
      <3>2. TypeOK'
        BY <1>1, <2>1, <3>1 DEF WInv, TypeOK, trees, Places
      <3>3. LastIsOne' /\ Reasons' /\ TimerAlone' /\ RootInTree'
        BY <1>1, <1>4, <2>1, <3>1 DEF WInv, LastIsOne, Reasons, TimerAlone, RootInTree, trees,
                                      Stopping, Filling, Callers
      <3>. QED  BY <1>2, <3>2, <3>3 DEF WInv
    <2>. QED  BY <2>2, <2>3
  <1>7. CASE StopSampled(c)
    <2>. DEFINE T == ReadAll(Filled(c))
    <2>1. /\ stop[c] = "fill" /\ stop' = [stop EXCEPT ![c] = "show"]
          /\ UNCHANGED <<flags, killer>>
      BY <1>7 DEF StopSampled, At
    <2>2. PICK ended \in BOOLEAN : EndSample(c, T, ended)
      BY <1>7 DEF StopSampled
    <2>3. /\ T \in SUBSET Tree
          /\ main # "read" /\ root \in {"run", "zombie"} => \A u \in T : "R" \in u.procs
      BY FilledIs, ReadTrees DEF WInv
    <2>. HIDE DEF T
    <2>4. /\ procTree' \in Tree /\ lastProcTree' \in Tree \cup {Same}
          /\ filling' \in Fillings /\ LastIsOne'
          /\ \A d \in Callers : d = c \/ filling[d] = "none" => filling'[d] = "none"
          /\ filling[c] = "cur" /\ (\A u \in T : "R" \in u.procs) => "R" \in procTree'.procs
      BY <2>2, <2>3, EndSampleTrees DEF WInv
    <2>5. TypeOK'
      BY <1>1, <2>1, <2>4 DEF WInv, TypeOK, Fillings, Places, flags
    <2>6. Reasons'
      BY <1>1, <1>4, <2>1 DEF WInv, Reasons, Stopping
    <2>7. TimerAlone'
      BY <1>1, <2>1, <2>4 DEF WInv, TimerAlone, Filling, Callers
    <2>8. RootInTree'
      <3>. SUFFICES ASSUME signals = 0 PROVE "R" \in procTree'.procs \/ root = "gone"
        BY <1>1 DEF RootInTree
      <3>1. c = "timer" /\ filling["timer"] = "cur" /\ main \notin Early
        BY <2>1 DEF WInv, TimerAlone, Filling, Callers, Early
      <3>. QED  BY <3>1, <2>3, <2>4 DEF WInv, TypeOK, Born, Early
    <2>. QED  BY <1>2, <2>4, <2>5, <2>6, <2>7, <2>8 DEF WInv
  <1>. QED  BY <1>5, <1>6, <1>7 DEF Stop

-----------------------------------------------------------------------------
LEMMA WInvInit == Init => WInv
  <1>. SUFFICES ASSUME Init PROVE WInv
    OBVIOUS
  <1>. USE DEF Init
  <1>1. NoTree \in Tree /\ NoTree # Same
    BY SameIs
  <1>2. TypeOK
    <2>1. 0 \in 0..MaxEvents /\ 0 \in 0..FullEvery
      BY WatcherAssumption
    <2>2. procTree \in Tree /\ lastProcTree \in Tree \cup {Same}
      BY <1>1
    <2>3. {kidOrphan, kidHoldsPipe, limitReached, childpid, solverIsRunning,
           stopSolverStarted, stopSolverThreadStarted, selfKilled} \subseteq BOOLEAN
      OBVIOUS
    <2>. QED  BY <2>1, <2>2, <2>3 DEF TypeOK
  <1>3. Born /\ LastIsOne /\ Reasons
    BY <1>1 DEF Born, LastIsOne, Reasons, Stopping
  <1>4. TimerAlone /\ RootInTree /\ EndedWhenToldSo
    BY DEF TimerAlone, RootInTree, EndedWhenToldSo, Filling, Callers
  <1>. QED  BY <1>2, <1>3, <1>4 DEF WInv

(* In every behaviour, with any number of signals and of samples between   *)
(* two complete readings, the timer is alone with the trees until a signal *)
(* comes, what it fills has the root, and the trees keep their types.      *)
THEOREM WatchInductive == Spec => []WInv
  <1>1. Init => WInv
    BY WInvInit
  <1>2. WInv /\ [Next]_vars => WInv'
    <2>. SUFFICES ASSUME WInv, [Next]_vars PROVE WInv'
      OBVIOUS
    <2>1. CASE UNCHANGED vars
      <3>1. TypeOK'
        BY <2>1 DEF WInv, TypeOK, vars, solver, env, trees, flags
      <3>. QED  BY <2>1, <3>1, CallersKept DEF WInv, vars, solver, env
    <2>2. CASE Main
      BY <2>2, MainStarts, MainReadsKeeps, MainWaitsKeeps, MainEnds DEF Main
    <2>3. CASE Timer
      BY <2>3, TimerLoopKeeps, TimerSampledKeeps DEF Timer
    <2>4. ASSUME NEW c \in Callers, Display(c) \/ Stop(c) \/ Killer(c) PROVE WInv'
      BY <2>4, DisplayKeeps, StopKeeps, KillerKeeps
    <2>. QED  BY <2>1, <2>2, <2>3, <2>4, SolverKeeps, LimitKeeps, SignalKeeps DEF Next
  <1>. QED  BY <1>1, <1>2, PTL DEF Spec

(* Whoever clears solverIsRunning is right as long as no signal comes      *)
(* (runsolver.cc:418, 1307 and 1627), and no thread that kills is created  *)
(* without a limit or a signal (runsolver.cc:376 and 531).                 *)
THEOREM ThreadsAgree == Spec => []WatchHolds
  <1>1. WInv => WatchHolds
    BY DEF WInv, WatchHolds, Reasons, KilledForAReason
  <1>. QED  BY <1>1, WatchInductive, PTL

-----------------------------------------------------------------------------
(* Cores.                                                                  *)

(* Machines whose masks are read as they were written.                     *)
FewCores == \A m \in Machines : DOMAIN m \subseteq 0..31

CoresOf(list) == {list[k] : k \in 1..Len(list)}

(* What an ascending list is.                                              *)
Rising(list) == \A j, k \in 1..Len(list) : j < k => list[j] < list[k]

LEMMA NumbersAre ==
  ASSUME NEW S \in SUBSET Numbers
  PROVE  IsFiniteSet(S) /\ S \in SUBSET Nat
  <1>1. MaxCore \in Nat
    BY CoresAssumption
  <1>2. IsFiniteSet(Numbers)
    <2>1. 0 \in Int /\ MaxCore \in Int
      BY <1>1
    <2>2. IsFiniteSet(0..MaxCore)
      BY <2>1, FS_Interval, Zenon
    <2>. QED  BY <2>2 DEF Numbers
  <1>3. S \in SUBSET Nat
    BY <1>1 DEF Numbers
  <1>. QED  BY <1>2, <1>3, FS_Subset

LEMMA RisingDiffers ==
  ASSUME NEW list \in Seq(Nat), Rising(list),
         NEW j \in 1..Len(list), NEW k \in 1..Len(list), list[j] = list[k]
  PROVE  j = k
  <1>1. list[j] \in Nat /\ list[k] \in Nat /\ Len(list) \in Nat
    OBVIOUS
  <1>2. j < k => list[j] < list[k]
    BY DEF Rising
  <1>3. k < j => list[k] < list[j]
    BY DEF Rising
  <1>. QED  BY <1>1, <1>2, <1>3

LEMMA AscendingCores ==
  ASSUME NEW S \in SUBSET Nat, IsFiniteSet(S)
  PROVE  /\ Ascending(S) \in Seq(S) /\ Ascending(S) \in Seq(Nat)
         /\ Len(Ascending(S)) = Cardinality(S)
         /\ CoresOf(Ascending(S)) = S
         /\ Rising(Ascending(S))
  <1>. DEFINE a == Ascending(S)
  <1>1. /\ a \in Seq(S) /\ Len(a) = Cardinality(S)
        /\ \A j, k \in 1..Len(a) : j < k => a[j] < a[k]
        /\ \A c \in S : \E k \in 1..Len(a) : a[k] = c
    BY AscendingLists
  <1>. HIDE DEF a
  <1>2. \A k \in 1..Len(a) : a[k] \in S
    BY <1>1
  <1>3. a \in Seq(Nat)
    <2>1. \A k \in 1..Len(a) : a[k] \in Nat
      BY <1>2
    <2>. QED  BY <1>1, <2>1, SeqDef
  <1>4. CoresOf(a) = S
    BY <1>1, <1>2 DEF CoresOf
  <1>. QED  BY <1>1, <1>3, <1>4 DEF a, Rising

(* The masks of few cores.                                                 *)
LEMMA DecodedIs ==
  ASSUME NEW S \in SUBSET (0..31)
  PROVE  Decoded(S) = S
  <1>1. ASSUME NEW c \in 0..31 PROVE 4 * Column(c) + (c % 4) = c
    <2>1. c \div 32 = 0
      OBVIOUS
    <2>2. 4 * (c \div 4) + (c % 4) = c
      OBVIOUS
    <2>. QED  BY <2>1, <2>2 DEF Column
  <1>2. \A c \in S : 4 * Column(c) + (c % 4) = c
    BY <1>1
  <1>3. Decoded(S) = {c : c \in S}
    BY <1>2 DEF Decoded
  <1>. QED  BY <1>3

(* A machine of few cores.                                                 *)
Machine ==
  processor \in Machines /\ Online \subseteq 0..31 /\ Online \subseteq Numbers

LEMMA BroughtIs ==
  ASSUME Machine, NEW c, NEW left
  PROVE  Brought(c, left) = Siblings(c) \cap left
  <1>1. Siblings(c) \in SUBSET (0..31)
    BY DEF Machine, Siblings
  <1>. QED  BY <1>1, DecodedIs DEF Brought

-----------------------------------------------------------------------------
(* The loop over the cores.                                                *)

Start(W) == [list |-> <<>>, left |-> W, stopped |-> FALSE]

LEMMA TurnsAre ==
  ASSUME NEW W
  PROVE  /\ Turns(W)[0] = Start(W)
         /\ \A n \in 0..MaxCore : Turns(W)[n + 1] = Turn(Turns(W)[n], n)
  <1>. DEFINE M == MaxCore + 1
  <1>. DEFINE More(st, n) == Turn(st, n - 1)
  <1>. DEFINE Begin == [list |-> <<>>, left |-> W, stopped |-> FALSE]
  <1>. DEFINE Loop(f, N) == [n \in 0..N |-> IF n = 0 THEN Begin ELSE More(f[n - 1], n)]
  <1>. DEFINE P == {N \in 0..M : \E f : f = Loop(f, N)}
  <1>0. M \in Nat /\ MaxCore \in Nat
    BY CoresAssumption
  <1>a. Turns(W) = CHOOSE f : f = Loop(f, M)
    BY Zenon DEF Turns
  <1>. HIDE DEF M, More, Begin
  <1>1. 0 \in P
    <2>. DEFINE f == [n \in 0..0 |-> Begin]
    <2>1. f = Loop(f, 0)
      OBVIOUS
    <2>2. 0 \in 0..M
      BY <1>0
    <2>. QED  BY <2>1, <2>2, Zenon
  <1>2. ASSUME NEW N \in 0..(M - 1), N \in P PROVE N + 1 \in P
    <2>1. PICK f : f = Loop(f, N)
      BY <1>2
    <2>. DEFINE g == [n \in 0..N + 1 |-> IF n = N + 1 THEN More(f[N], n) ELSE f[n]]
    <2>2. \A n \in 0..N + 1 : g[n] = IF n = 0 THEN Begin ELSE More(g[n - 1], n)
      <3>. SUFFICES ASSUME NEW n \in 0..N + 1
                    PROVE  g[n] = IF n = 0 THEN Begin ELSE More(g[n - 1], n)
        OBVIOUS
      <3>1. CASE n = 0
        BY <2>1, <3>1, <1>2
      <3>2. CASE n \in 1..N
        <4>1. f[n] = More(f[n - 1], n)
          BY <2>1, <3>2, <1>2
        <4>2. g[n] = f[n] /\ g[n - 1] = f[n - 1]
          BY <3>2, <1>2
        <4>. QED  BY <3>2, <4>1, <4>2
      <3>3. CASE n = N + 1
        <4>1. g[n] = More(f[N], n) /\ g[n - 1] = f[N] /\ n # 0
          BY <3>3, <1>2
        <4>. QED  BY <4>1
      <3>. QED  BY <3>1, <3>2, <3>3, <1>2
    <2>3. g = Loop(g, N + 1)
      BY <2>2, Zenon
    <2>4. N + 1 \in 0..M
      BY <1>0, <1>2
    <2>. QED  BY <2>3, <2>4, Zenon
  <1>3. M \in P
    <2>. HIDE DEF P
    <2>. QED  BY <1>0, <1>1, <1>2, CountUp
  <1>. DEFINE turn == CHOOSE f : f = Loop(f, M)
  <1>4. turn = Loop(turn, M)
    <2>1. \E f : f = Loop(f, M)
      BY <1>3
    <2>. HIDE DEF Loop
    <2>. QED  BY <2>1
  <1>5. Turns(W) = turn
    BY <1>a
  <1>. HIDE DEF turn
  <1>6. \A n \in 0..M : turn[n] = IF n = 0 THEN Begin ELSE More(turn[n - 1], n)
    BY <1>4
  <1>7. turn[0] = Begin
    <2>1. 0 \in 0..M
      BY <1>0
    <2>. QED  BY <1>6, <2>1
  <1>8. ASSUME NEW n \in 0..MaxCore PROVE turn[n + 1] = Turn(turn[n], n)
    <2>1. n + 1 \in 0..M /\ n + 1 # 0 /\ (n + 1) - 1 = n
      BY <1>0 DEF M
    <2>2. turn[n + 1] = More(turn[n], n + 1)
      BY <1>6, <2>1
    <2>. QED  BY <2>1, <2>2 DEF More
  <1>. QED  BY <1>5, <1>7, <1>8 DEF Begin, Start

Distinct(list) == \A j, k \in 1..Len(list) : list[j] = list[k] => j = k

(* Cores of one processor are listed by number; processors by the lowest   *)
(* of their cores in W.                                                    *)
InOrderOf(W, x, y) ==
  IF processor[x] = processor[y] THEN x < y
  ELSE \A f \in Siblings(y) \cap W : \E e \in Siblings(x) \cap W : e < f

Sorted(W, list) == \A j, k \in 1..Len(list) : j < k => InOrderOf(W, list[j], list[k])

State == [list : Seq(Nat), left : SUBSET Numbers, stopped : BOOLEAN]

(* When n cores have been looked at, of those in W: the processor of a core *)
(* listed is complete, and was brought by a core below n.                  *)
Complete(W, list, n) ==
  \A c \in CoresOf(list) :
    /\ Siblings(c) \cap W \subseteq CoresOf(list)
    /\ \E e \in Siblings(c) \cap W : e < n

Looked(W, st, n) ==
  IF st.stopped THEN \E c \in W \ Online : c < n
  ELSE \A c \in W : c < n => c \in CoresOf(st.list)

LoopOK(W, st, n) ==
  /\ st \in State
  /\ CoresOf(st.list) \subseteq W \cap Online
  /\ st.left = W \ CoresOf(st.list)
  /\ Distinct(st.list)
  /\ Complete(W, st.list, n)
  /\ Looked(W, st, n)
  /\ Sorted(W, st.list)
  /\ Together(st.list)

(* Two lists, one after the other.                                         *)
LEMMA CatIs ==
  ASSUME NEW a \in Seq(Nat), NEW b \in Seq(Nat)
  PROVE  /\ a \o b \in Seq(Nat) /\ Len(a \o b) = Len(a) + Len(b)
         /\ Len(a) \in Nat /\ Len(b) \in Nat
         /\ \A k \in 1..Len(a) : (a \o b)[k] = a[k]
         /\ \A k \in Len(a) + 1..Len(a) + Len(b) : (a \o b)[k] = b[k - Len(a)]
         /\ CoresOf(a \o b) = CoresOf(a) \cup CoresOf(b)
  <1>1. /\ a \o b \in Seq(Nat) /\ Len(a \o b) = Len(a) + Len(b)
        /\ Len(a) \in Nat /\ Len(b) \in Nat
    OBVIOUS
  <1>2. /\ \A k \in 1..Len(a) : (a \o b)[k] = a[k]
        /\ \A k \in Len(a) + 1..Len(a) + Len(b) : (a \o b)[k] = b[k - Len(a)]
    OBVIOUS
  <1>. DEFINE c == a \o b
  <1>3. /\ c \in Seq(Nat) /\ Len(c) = Len(a) + Len(b)
        /\ \A k \in 1..Len(a) : c[k] = a[k]
        /\ \A k \in Len(a) + 1..Len(a) + Len(b) : c[k] = b[k - Len(a)]
    BY <1>1, <1>2
  <1>. HIDE DEF c
  <1>4. ASSUME NEW k \in 1..Len(c) PROVE c[k] \in CoresOf(a) \cup CoresOf(b)
    <2>1. CASE k \in 1..Len(a)
      BY <1>3, <2>1 DEF CoresOf
    <2>2. CASE k \notin 1..Len(a)
      <3>1. k \in Len(a) + 1..Len(a) + Len(b) /\ k - Len(a) \in 1..Len(b)
        BY <1>1, <1>3, <2>2
      <3>. QED  BY <1>3, <3>1 DEF CoresOf
    <2>. QED  BY <2>1, <2>2
  <1>5. ASSUME NEW k \in 1..Len(a) PROVE a[k] \in CoresOf(c)
    <2>1. k \in 1..Len(c) /\ c[k] = a[k]
      BY <1>1, <1>3
    <2>. QED  BY <2>1 DEF CoresOf
  <1>6. ASSUME NEW k \in 1..Len(b) PROVE b[k] \in CoresOf(c)
    <2>1. /\ k + Len(a) \in 1..Len(c) /\ k + Len(a) \in Len(a) + 1..Len(a) + Len(b)
          /\ (k + Len(a)) - Len(a) = k
      BY <1>1, <1>3
    <2>2. c[k + Len(a)] = b[k]
      BY <1>3, <2>1
    <2>. QED  BY <2>1, <2>2 DEF CoresOf
  <1>7. CoresOf(c) = CoresOf(a) \cup CoresOf(b)
    <2>1. \A x \in CoresOf(c) : x \in CoresOf(a) \cup CoresOf(b)
      BY <1>4 DEF CoresOf
    <2>2. \A x \in CoresOf(a) \cup CoresOf(b) : x \in CoresOf(c)
      BY <1>5, <1>6 DEF CoresOf
    <2>. QED  BY <2>1, <2>2
  <1>. QED  BY <1>1, <1>2, <1>7 DEF c

(* A core brings the others of its processor.                              *)
LEMMA BringStep ==
  ASSUME Machine, NEW W \in SUBSET Numbers, NEW n \in 0..MaxCore, NEW st, LoopOK(W, st, n),
         ~st.stopped, n \in st.left, n \in Online
  PROVE  LoopOK(W, Turn(st, n), n + 1)
  <1>. DEFINE B == Siblings(n) \cap W
  <1>. DEFINE a == st.list
  <1>. DEFINE b == Ascending(B)
  <1>. DEFINE c == a \o b
  <1>. DEFINE u == Turn(st, n)
  <1>1. /\ st \in State /\ CoresOf(a) \subseteq W \cap Online /\ st.left = W \ CoresOf(a)
        /\ Distinct(a) /\ Complete(W, a, n) /\ Sorted(W, a) /\ Together(a)
        /\ \A x \in W : x < n => x \in CoresOf(a)
    BY DEF LoopOK, Looked
  <1>2. a \in Seq(Nat) /\ n \in W /\ n \notin CoresOf(a) /\ n \in Nat
    BY <1>1, CoresAssumption DEF State
  <1>3. \A x \in CoresOf(a) : processor[x] # processor[n]
    <2>. SUFFICES ASSUME NEW x \in CoresOf(a), processor[x] = processor[n] PROVE FALSE
      OBVIOUS
    <2>1. n \in Siblings(x) \cap W
      BY <1>1, <1>2 DEF Siblings
    <2>. QED  BY <1>1, <1>2, <2>1 DEF Complete
  <1>4. B \cap CoresOf(a) = {} /\ B = Siblings(n) \cap st.left
    BY <1>1, <1>3 DEF Siblings
  <1>5. B \in SUBSET Nat /\ IsFiniteSet(B) /\ B \subseteq W \cap Online /\ n \in B
    BY <1>2, NumbersAre DEF Siblings
  <1>6. /\ b \in Seq(Nat) /\ CoresOf(b) = B /\ Rising(b)
    BY <1>5, AscendingCores
  <1>7. Brought(n, st.left) = B
    BY <1>4, BroughtIs
  <1>8. u = [st EXCEPT !.list = a \o b, !.left = st.left \ B]
    BY <1>7 DEF Turn
  <1>9. /\ c \in Seq(Nat) /\ Len(c) = Len(a) + Len(b) /\ Len(a) \in Nat /\ Len(b) \in Nat
        /\ \A k \in 1..Len(a) : c[k] = a[k]
        /\ \A k \in Len(a) + 1..Len(a) + Len(b) : c[k] = b[k - Len(a)]
        /\ CoresOf(c) = CoresOf(a) \cup B
    <2>1. a \in Seq(Nat) /\ b \in Seq(Nat) /\ CoresOf(b) = B
      BY <1>2, <1>6
    <2>. HIDE DEF a, b, B
    <2>. QED  BY <2>1, CatIs
  <1>10. u.list = c /\ u.left = W \ CoresOf(c) /\ ~u.stopped /\ u \in State
    <2>1. st.left \ B \in SUBSET Numbers
      BY <1>1 DEF State
    <2>. QED  BY <1>1, <1>8, <1>9, <2>1 DEF State
  <1>. HIDE DEF a, b, c, u, B
  <1>11. \A k \in 1..Len(c) :
           \/ k \in 1..Len(a) /\ c[k] = a[k] /\ c[k] \in CoresOf(a)
           \/ /\ k \in Len(a) + 1..Len(c) /\ k - Len(a) \in 1..Len(b)
              /\ c[k] = b[k - Len(a)] /\ c[k] \in B
    <2>1. \A k \in 1..Len(c) : k \in 1..Len(a) \/ (k \in Len(a) + 1..Len(c) /\ k - Len(a) \in 1..Len(b))
      BY <1>9
    <2>2. \A k \in 1..Len(a) : a[k] \in CoresOf(a)
      BY DEF CoresOf
    <2>3. \A k \in 1..Len(b) : b[k] \in B
      BY <1>6 DEF CoresOf
    <2>. QED  BY <1>9, <2>1, <2>2, <2>3
  <1>12. Distinct(c)
    <2>. SUFFICES ASSUME NEW j \in 1..Len(c), NEW k \in 1..Len(c), c[j] = c[k] PROVE j = k
      BY DEF Distinct
    <2>1. CASE c[j] \in CoresOf(a)
      <3>1. j \in 1..Len(a) /\ k \in 1..Len(a) /\ a[j] = a[k]
        BY <1>4, <1>11, <2>1
      <3>. QED  BY <1>1, <3>1 DEF Distinct
    <2>2. CASE c[j] \notin CoresOf(a)
      <3>1. j - Len(a) \in 1..Len(b) /\ k - Len(a) \in 1..Len(b) /\ b[j - Len(a)] = b[k - Len(a)]
        BY <1>11, <2>2
      <3>2. j - Len(a) = k - Len(a)
        BY <1>6, <3>1, RisingDiffers
      <3>. QED  BY <1>9, <3>2
    <2>. QED  BY <2>1, <2>2
  <1>13. Complete(W, c, n + 1)
    <2>. SUFFICES ASSUME NEW x \in CoresOf(c)
                  PROVE  /\ Siblings(x) \cap W \subseteq CoresOf(c)
                         /\ \E e \in Siblings(x) \cap W : e < n + 1
      BY DEF Complete
    <2>1. CASE x \in CoresOf(a)
      <3>1. PICK e \in Siblings(x) \cap W : e < n
        BY <1>1, <2>1 DEF Complete
      <3>2. e \in Nat
        BY <3>1, NumbersAre
      <3>. QED  BY <1>1, <1>2, <1>9, <2>1, <3>1, <3>2 DEF Complete
    <2>2. CASE x \in B
      <3>1. Siblings(x) = Siblings(n) /\ n < n + 1
        BY <1>2, <2>2 DEF B, Siblings
      <3>2. Siblings(x) \cap W = B
        BY <3>1 DEF B
      <3>. QED  BY <1>5, <1>9, <3>1, <3>2
    <2>. QED  BY <1>9, <2>1, <2>2
  <1>14. Looked(W, u, n + 1)
    <2>1. \A x \in Nat : x < n + 1 => x < n \/ x = n
      BY <1>2
    <2>2. W \in SUBSET Nat
      BY NumbersAre
    <2>. QED  BY <1>1, <1>5, <1>9, <1>10, <2>1, <2>2 DEF Looked
  <1>15. Sorted(W, c)
    <2>. SUFFICES ASSUME NEW j \in 1..Len(c), NEW k \in 1..Len(c), j < k
                  PROVE  InOrderOf(W, c[j], c[k])
      BY DEF Sorted
    <2>1. CASE k \in 1..Len(a)
      <3>1. j \in 1..Len(a) /\ c[j] = a[j] /\ c[k] = a[k]
        BY <1>9, <2>1
      <3>. QED  BY <1>1, <2>1, <3>1 DEF Sorted
    <2>2. CASE j \in 1..Len(a) /\ k \notin 1..Len(a)
      <3>1. c[j] \in CoresOf(a) /\ c[k] \in B
        BY <1>4, <1>9, <1>11, <2>2
      <3>2. Siblings(c[k]) = Siblings(n) /\ processor[c[k]] = processor[n]
        BY <3>1 DEF B, Siblings
      <3>3. processor[c[j]] # processor[c[k]]
        BY <1>3, <3>1, <3>2
      <3>4. PICK e \in Siblings(c[j]) \cap W : e < n
        BY <1>1, <3>1 DEF Complete
      <3>5. ASSUME NEW f \in Siblings(c[k]) \cap W PROVE e < f
        <4>1. f \in B
          BY <3>2 DEF B
        <4>2. e \in Nat /\ f \in Nat /\ ~(f < n)
          BY <1>1, <1>4, <4>1, NumbersAre
        <4>. QED  BY <1>2, <3>4, <4>2
      <3>. QED  BY <3>3, <3>5 DEF InOrderOf
    <2>3. CASE j \notin 1..Len(a) /\ k \notin 1..Len(a)
      <3>1. /\ j - Len(a) \in 1..Len(b) /\ k - Len(a) \in 1..Len(b)
            /\ c[j] = b[j - Len(a)] /\ c[k] = b[k - Len(a)] /\ c[j] \in B /\ c[k] \in B
        BY <1>11, <2>3
      <3>2. j - Len(a) < k - Len(a)
        BY <1>9
      <3>3. c[j] < c[k]
        BY <1>6, <3>1, <3>2 DEF Rising
      <3>4. processor[c[j]] = processor[c[k]]
        BY <3>1 DEF B, Siblings
      <3>. QED  BY <3>3, <3>4 DEF InOrderOf
    <2>. QED
      <3>1. k \notin 1..Len(a) \/ k \in 1..Len(a)
        OBVIOUS
      <3>. QED  BY <2>1, <2>2, <2>3
  <1>16. Together(c)
    <2>1. DOMAIN c = 1..Len(c) /\ DOMAIN a = 1..Len(a)
      BY <1>2, <1>9 DEF a
    <2>. SUFFICES ASSUME NEW j \in 1..Len(c), NEW k \in 1..Len(c), NEW m \in j..k,
                         processor[c[j]] = processor[c[k]]
                  PROVE  processor[c[m]] = processor[c[j]]
      BY <2>1 DEF Together
    <2>2. m \in 1..Len(c)
      BY <1>9
    <2>3. CASE c[j] \in CoresOf(a)
      <3>1. j \in 1..Len(a) /\ c[j] = a[j]
        BY <1>4, <1>11, <2>3
      <3>2. c[k] \notin B
        BY <1>3, <2>3 DEF B, Siblings
      <3>3. k \in 1..Len(a) /\ c[k] = a[k]
        BY <1>11, <3>2
      <3>4. m \in 1..Len(a) /\ c[m] = a[m]
        BY <1>9, <3>1, <3>3
      <3>. QED  BY <1>1, <2>1, <3>1, <3>3, <3>4 DEF Together
    <2>4. CASE c[j] \notin CoresOf(a)
      <3>1. j \in Len(a) + 1..Len(c) /\ c[j] \in B
        BY <1>11, <2>4
      <3>2. m \notin 1..Len(a)
        BY <1>9, <3>1
      <3>3. c[m] \in B
        BY <1>11, <2>2, <3>2
      <3>. QED  BY <3>1, <3>3 DEF B, Siblings
    <2>. QED  BY <2>3, <2>4
  <1>. QED
    <2>1. CoresOf(c) \subseteq W \cap Online
      BY <1>1, <1>5, <1>9
    <2>. QED  BY <1>10, <1>12, <1>13, <1>14, <1>15, <1>16, <2>1 DEF LoopOK, u

LEMMA StartOK ==
  ASSUME NEW W \in SUBSET Numbers
  PROVE  LoopOK(W, Start(W), 0)
  <1>1. Start(W).list = <<>> /\ Start(W).left = W /\ Start(W).stopped = FALSE
    BY DEF Start
  <1>2. Start(W) \in State
    <2>1. <<>> \in Seq(Nat)
      OBVIOUS
    <2>. QED  BY <2>1 DEF Start, State
  <1>3. Len(<<>>) = 0 /\ DOMAIN <<>> = {} /\ CoresOf(<<>>) = {}
    BY DEF CoresOf
  <1>4. Complete(W, <<>>, 0) /\ Distinct(<<>>) /\ Sorted(W, <<>>) /\ Together(<<>>)
    BY <1>3 DEF Complete, Distinct, Sorted, Together
  <1>5. Looked(W, Start(W), 0)
    <2>1. \A c \in W : ~(c < 0)
      BY NumbersAre
    <2>. QED  BY <1>1, <2>1 DEF Looked
  <1>. QED  BY <1>1, <1>2, <1>3, <1>4, <1>5 DEF LoopOK

LEMMA TurnStep ==
  ASSUME Machine, NEW W \in SUBSET Numbers, NEW n \in 0..MaxCore, NEW st, LoopOK(W, st, n)
  PROVE  LoopOK(W, Turn(st, n), n + 1)
  <1>0. n \in Nat /\ W \in SUBSET Nat /\ n < n + 1
    BY CoresAssumption, NumbersAre
  <1>a. \A x \in Nat : (x < n + 1 => x < n \/ x = n) /\ (x < n => x < n + 1)
    BY <1>0
  <1>1. Complete(W, st.list, n + 1)
    <2>1. \A x \in CoresOf(st.list) : \E e \in Siblings(x) \cap W : e < n
      BY DEF LoopOK, Complete
    <2>2. \A x \in CoresOf(st.list) : \E e \in Siblings(x) \cap W : e < n + 1
      BY <1>0, <1>a, <2>1
    <2>. QED  BY <2>2 DEF LoopOK, Complete
  <1>2. CASE st.stopped
    <2>1. Turn(st, n) = st
      BY <1>2 DEF Turn
    <2>2. Looked(W, st, n + 1)
      BY <1>0, <1>a, <1>2 DEF LoopOK, Looked
    <2>. QED  BY <1>1, <2>1, <2>2 DEF LoopOK
  <1>3. CASE ~st.stopped /\ n \notin st.left
    <2>1. Turn(st, n) = st
      BY <1>3 DEF Turn
    <2>2. Looked(W, st, n + 1)
      BY <1>0, <1>a, <1>3 DEF LoopOK, Looked
    <2>. QED  BY <1>1, <2>1, <2>2 DEF LoopOK
  <1>4. CASE ~st.stopped /\ n \in st.left /\ n \notin Online
    <2>1. Turn(st, n) = [st EXCEPT !.stopped = TRUE]
      BY <1>4 DEF Turn
    <2>2. /\ Turn(st, n).list = st.list /\ Turn(st, n).left = st.left /\ Turn(st, n).stopped
          /\ Turn(st, n) \in State
      BY <2>1 DEF LoopOK, State
    <2>3. n \in W \ Online
      BY <1>4 DEF LoopOK
    <2>4. Looked(W, Turn(st, n), n + 1)
      BY <1>0, <2>2, <2>3 DEF Looked
    <2>. QED  BY <1>1, <2>2, <2>4 DEF LoopOK
  <1>. QED  BY <1>2, <1>3, <1>4, BringStep

LEMMA LoopHolds ==
  ASSUME Machine, NEW W \in SUBSET Numbers
  PROVE  \A n \in 0..MaxCore + 1 : LoopOK(W, Turns(W)[n], n)
  <1>. DEFINE M == MaxCore + 1
  <1>. DEFINE P == {n \in 0..M : LoopOK(W, Turns(W)[n], n)}
  <1>1. M \in Nat /\ MaxCore \in Nat /\ M - 1 = MaxCore
    BY CoresAssumption
  <1>2. 0 \in P
    BY <1>1, TurnsAre, StartOK
  <1>3. ASSUME NEW n \in 0..(M - 1), n \in P PROVE n + 1 \in P
    <2>1. n \in 0..MaxCore /\ n + 1 \in 0..M
      BY <1>1
    <2>2. LoopOK(W, Turns(W)[n], n)
      BY <1>3
    <2>3. LoopOK(W, Turn(Turns(W)[n], n), n + 1)
      BY <2>1, <2>2, TurnStep
    <2>. QED  BY <2>1, <2>3, TurnsAre
  <1>. HIDE DEF P
  <1>4. 0..M \subseteq P
    BY <1>1, <1>2, <1>3, CountUp
  <1>. QED  BY <1>4 DEF P

(* The list of some cores: those of the machine, each once, in order.      *)
LEMMA ListIs ==
  ASSUME Machine, NEW W \in SUBSET Numbers
  PROVE  /\ ByProcessor(W) \in Seq(Nat)
         /\ CoresOf(ByProcessor(W)) \subseteq W \cap Online
         /\ W \subseteq Online => CoresOf(ByProcessor(W)) = W
         /\ Distinct(ByProcessor(W)) /\ Sorted(W, ByProcessor(W)) /\ Together(ByProcessor(W))
  <1>. DEFINE st == Turns(W)[MaxCore + 1]
  <1>1. MaxCore \in Nat /\ MaxCore + 1 \in 0..MaxCore + 1
    BY CoresAssumption
  <1>2. LoopOK(W, st, MaxCore + 1)
    BY <1>1, LoopHolds
  <1>3. ByProcessor(W) = st.list
    BY DEF ByProcessor
  <1>. HIDE DEF st
  <1>4. W \subseteq Online => CoresOf(st.list) = W
    <2>. SUFFICES ASSUME W \subseteq Online PROVE CoresOf(st.list) = W
      OBVIOUS
    <2>1. \A c \in W : c < MaxCore + 1
      BY <1>1 DEF Numbers
    <2>. QED  BY <1>2, <2>1 DEF LoopOK, Looked
  <1>. QED  BY <1>2, <1>3, <1>4 DEF LoopOK, State

LEMMA ListedIs ==
  ASSUME NEW S, NEW list \in Seq(S)
  PROVE  ToSet(list) = CoresOf(list) /\ DOMAIN list = 1..Len(list) /\ CoresOf(list) \subseteq S
  BY DEF ToSet, CoresOf

LEMMA ListedType ==
  ASSUME NEW S, NEW list \in Seq(Nat), CoresOf(list) \subseteq S
  PROVE  list \in Seq(S)
  <1>1. \A k \in 1..Len(list) : list[k] \in S
    BY DEF CoresOf
  <1>. QED  BY <1>1, SeqDef

LEMMA MachineIs ==
  ASSUME FewCores, processor \in Machines
  PROVE  Machine
  BY CoresAssumption DEF FewCores, Machine, Online, Numbers

(* The list of the machine.                                                *)
LEMMA ExistingIs ==
  ASSUME Machine, NEW p \in BOOLEAN
  PROVE  getExistingCores(p) \in Seq(Numbers) /\ getExistingCores(p) \in Seq(Nat)
  <1>1. Numbers \in SUBSET Numbers /\ Numbers \in SUBSET Nat
    BY NumbersAre
  <1>2. CASE p
    <2>. DEFINE S == {c \in Numbers : 0..c \subseteq Online}
    <2>1. S \in SUBSET Nat /\ IsFiniteSet(S)
      BY NumbersAre
    <2>. HIDE DEF S
    <2>2. Ascending(S) \in Seq(S) /\ Ascending(S) \in Seq(Nat) /\ CoresOf(Ascending(S)) = S
      BY <2>1, AscendingCores
    <2>3. getExistingCores(p) = Ascending(S)
      BY <1>2 DEF getExistingCores, S
    <2>4. S \subseteq Numbers
      BY DEF S
    <2>. QED  BY <2>2, <2>3, <2>4, ListedType
  <1>3. CASE ~p
    <2>1. getExistingCores(p) = ByProcessor(Numbers)
      BY <1>3 DEF getExistingCores
    <2>2. ByProcessor(Numbers) \in Seq(Nat) /\ CoresOf(ByProcessor(Numbers)) \subseteq Numbers
      BY <1>1, ListIs
    <2>. QED  BY <2>1, <2>2, ListedType
  <1>. QED  BY <1>2, <1>3

(* The places where ranges begin, in order.                                *)
LEMMA BeginsAre ==
  ASSUME NEW list \in Seq(Nat)
  PROVE  /\ Ascending(Begins(list)) \in Seq(Nat)
         /\ CoresOf(Ascending(Begins(list))) = Begins(list)
         /\ Rising(Ascending(Begins(list)))
         /\ Begins(list) \subseteq 1..Len(list)
  <1>1. Begins(list) \subseteq 1..Len(list)
    BY DEF Begins
  <1>2. IsFiniteSet(1..Len(list))
    <2>1. Len(list) \in Int /\ 1 \in Int
      OBVIOUS
    <2>. QED  BY <2>1, FS_Interval, Zenon
  <1>3. Begins(list) \in SUBSET Nat /\ IsFiniteSet(Begins(list))
    BY <1>1, <1>2, FS_Subset
  <1>. QED  BY <1>1, <1>3, AscendingCores

LEMMA PrintedType ==
  ASSUME NEW list \in Seq(Nat)
  PROVE  printAllocatedCores(list) \in Seq(Item)
  <1>. DEFINE beg == Ascending(Begins(list))
  <1>1. /\ beg \in Seq(Nat) /\ CoresOf(beg) = Begins(list) /\ Rising(beg)
        /\ Begins(list) \subseteq 1..Len(list)
    BY BeginsAre
  <1>. HIDE DEF beg
  <1>. DEFINE end(n) == IF n = Len(beg) THEN Len(list) ELSE beg[n + 1] - 1
  <1>2. ASSUME NEW n \in 1..Len(beg) PROVE beg[n] \in 1..Len(list) /\ end(n) \in 1..Len(list)
    <2>1. \A k \in 1..Len(beg) : beg[k] \in 1..Len(list)
      BY <1>1 DEF CoresOf
    <2>2. CASE n = Len(beg)
      <3>1. beg[n] \in 1..Len(list)
        BY <2>1
      <3>. QED  BY <2>2, <3>1
    <2>3. CASE n # Len(beg)
      <3>1. n + 1 \in 1..Len(beg) /\ n < n + 1
        BY <1>1, <2>3
      <3>2. beg[n] < beg[n + 1] /\ beg[n] \in 1..Len(list) /\ beg[n + 1] \in 1..Len(list)
        BY <1>1, <2>1, <3>1 DEF Rising
      <3>3. Len(list) \in Nat /\ end(n) = beg[n + 1] - 1
        BY <2>3
      <3>4. \A m \in Nat : \A x, y \in 1..m : x < y => y - 1 \in 1..m
        OBVIOUS
      <3>. HIDE DEF end
      <3>5. beg[n] \in Nat /\ beg[n + 1] \in Nat
        BY <3>2
      <3>. QED  BY <3>2, <3>3, <3>4, <3>5
    <2>. QED  BY <2>2, <2>3
  <1>. HIDE DEF end
  <1>a. \A k \in 1..Len(list) : list[k] \in Nat
    OBVIOUS
  <1>3. \A n \in 1..Len(beg) : [first |-> list[beg[n]], last |-> list[end(n)]] \in Item
    <2>. SUFFICES ASSUME NEW n \in 1..Len(beg)
                  PROVE  [first |-> list[beg[n]], last |-> list[end(n)]] \in Item
      OBVIOUS
    <2>1. list[beg[n]] \in Nat /\ list[end(n)] \in Nat
      BY <1>2, <1>a
    <2>. QED  BY <2>1 DEF Item
  <1>4. DOMAIN beg = 1..Len(beg) /\ Len(beg) \in Nat
    BY <1>1
  <1>5. printAllocatedCores(list) = [n \in 1..Len(beg) |-> [first |-> list[beg[n]], last |-> list[end(n)]]]
    BY <1>4 DEF printAllocatedCores, beg, end
  <1>. QED  BY <1>3, <1>4, <1>5

-----------------------------------------------------------------------------
(* The ranges that are printed.                                            *)

(* The last place of a range.                                              *)
EndAt(list, beg, n) == IF n = Len(beg) THEN Len(list) ELSE beg[n + 1] - 1

RangesOK(list, beg) ==
  /\ beg \in Seq(Nat) /\ Len(beg) \in Nat /\ Len(list) \in Nat
  /\ CoresOf(beg) = Begins(list) /\ Rising(beg)
  /\ \A n \in 1..Len(beg) :
       /\ beg[n] \in 1..Len(list) /\ EndAt(list, beg, n) \in 1..Len(list)
       /\ beg[n] <= EndAt(list, beg, n)

LEMMA RangesAre ==
  ASSUME NEW list \in Seq(Nat)
  PROVE  RangesOK(list, Ascending(Begins(list)))
  <1>. DEFINE beg == Ascending(Begins(list))
  <1>1. /\ beg \in Seq(Nat) /\ CoresOf(beg) = Begins(list) /\ Rising(beg)
        /\ Begins(list) \subseteq 1..Len(list)
    BY BeginsAre
  <1>. HIDE DEF beg
  <1>2. ASSUME NEW n \in 1..Len(beg)
        PROVE  /\ beg[n] \in 1..Len(list) /\ EndAt(list, beg, n) \in 1..Len(list)
               /\ beg[n] <= EndAt(list, beg, n)
    <2>1. \A k \in 1..Len(beg) : beg[k] \in 1..Len(list)
      BY <1>1 DEF CoresOf
    <2>2. CASE n = Len(beg)
      <3>1. beg[n] \in 1..Len(list)
        BY <2>1
      <3>. QED  BY <2>2, <3>1 DEF EndAt
    <2>3. CASE n # Len(beg)
      <3>1. n + 1 \in 1..Len(beg) /\ n < n + 1
        BY <1>1, <2>3
      <3>2. beg[n] < beg[n + 1] /\ beg[n] \in 1..Len(list) /\ beg[n + 1] \in 1..Len(list)
        BY <1>1, <2>1, <3>1 DEF Rising
      <3>3. Len(list) \in Nat /\ EndAt(list, beg, n) = beg[n + 1] - 1
        BY <2>3 DEF EndAt
      <3>4. \A m \in Nat : \A x, y \in 1..m : x < y => y - 1 \in 1..m /\ x <= y - 1
        OBVIOUS
      <3>. QED  BY <3>2, <3>3, <3>4
    <2>. QED  BY <2>2, <2>3
  <1>3. Len(beg) \in Nat /\ Len(list) \in Nat
    BY <1>1
  <1>. QED  BY <1>1, <1>2, <1>3 DEF beg, RangesOK

(* Within a range no other begins, so that its cores are consecutive.      *)
LEMMA OneBegins ==
  ASSUME NEW list \in Seq(Nat), NEW beg, RangesOK(list, beg), NEW n \in 1..Len(beg),
         NEW k \in Begins(list), beg[n] < k
  PROVE  EndAt(list, beg, n) < k
  <1>1. PICK j \in 1..Len(beg) : beg[j] = k
    BY DEF RangesOK, CoresOf
  <1>2. Len(beg) \in Nat /\ beg[n] \in Nat /\ k \in Nat
    <2>1. Len(beg) \in Nat /\ beg[n] \in 1..Len(list) /\ Len(list) \in Nat
      BY DEF RangesOK
    <2>2. k \in 1..Len(list)
      BY DEF Begins
    <2>3. beg[n] \in Nat
      BY <2>1
    <2>4. k \in Nat
      BY <2>2
    <2>. QED  BY <2>1, <2>3, <2>4
  <1>3. j < n => beg[j] < beg[n]
    BY DEF RangesOK, Rising
  <1>4. n < j
    <2>1. ~(j < n) /\ n # j
      BY <1>1, <1>2, <1>3
    <2>. QED  BY <1>2, <2>1
  <1>5. n + 1 \in 1..Len(beg) /\ n # Len(beg) /\ (n + 1 < j \/ n + 1 = j)
    BY <1>2, <1>4
  <1>6. EndAt(list, beg, n) = beg[n + 1] - 1
    BY <1>5 DEF EndAt
  <1>7. beg[n + 1] \in 1..Len(list) /\ Len(list) \in Nat
    BY <1>5 DEF RangesOK
  <1>8. n + 1 < j => beg[n + 1] < beg[j]
    BY <1>5 DEF RangesOK, Rising
  <1>9. beg[n + 1] <= k /\ beg[n + 1] \in Nat
    <2>1. beg[n + 1] \in Nat
      BY <1>7
    <2>2. CASE n + 1 < j
      BY <1>1, <1>2, <1>8, <2>1, <2>2
    <2>3. CASE n + 1 = j
      BY <1>1, <1>2, <2>1, <2>3
    <2>. QED  BY <1>5, <2>1, <2>2, <2>3
  <1>. QED  BY <1>2, <1>6, <1>9

LEMMA Consecutive ==
  ASSUME NEW list \in Seq(Nat), NEW b \in 1..Len(list), NEW e \in 1..Len(list), b <= e,
         \A k \in Begins(list) : b < k => e < k
  PROVE  \A k \in b..e : list[k] = list[b] + (k - b)
  <1>. DEFINE M == e - b
  <1>. DEFINE P == {i \in 0..M : list[b + i] = list[b] + i}
  <1>1. M \in Nat /\ b \in Nat /\ e \in Nat /\ Len(list) \in Nat /\ e = b + M
    OBVIOUS
  <1>2. list[b] \in Nat
    OBVIOUS
  <1>3. 0 \in P
    BY <1>1, <1>2
  <1>4. ASSUME NEW i \in 0..(M - 1), i \in P PROVE i + 1 \in P
    <2>. DEFINE k == b + (i + 1)
    <2>1. /\ k \in 1..Len(list) /\ k # 1 /\ b < k /\ ~(e < k)
          /\ i + 1 \in 0..M /\ k - 1 = b + i /\ i \in Nat
      BY <1>1
    <2>2. list[b + i] = list[b] + i
      BY <1>4
    <2>. HIDE DEF k, M
    <2>3. k \notin Begins(list)
      BY <2>1
    <2>4. list[k] = list[k - 1] + 1
      BY <2>1, <2>3 DEF Begins
    <2>5. list[k] = list[b] + (i + 1)
      <3>1. list[k - 1] = list[b] + i
        BY <2>1, <2>2
      <3>2. list[k] = (list[b] + i) + 1
        BY <2>4, <3>1
      <3>3. \A x \in Nat : (x + i) + 1 = x + (i + 1)
        BY <2>1
      <3>. QED  BY <1>2, <3>2, <3>3
    <2>. QED  BY <2>1, <2>5 DEF k
  <1>5. 0..M \subseteq P
    <2>. HIDE DEF P, M
    <2>. QED  BY <1>1, <1>3, <1>4, CountUp
  <1>. SUFFICES ASSUME NEW k \in b..e PROVE list[k] = list[b] + (k - b)
    OBVIOUS
  <1>6. k - b \in 0..M /\ b + (k - b) = k
    BY <1>1
  <1>. HIDE DEF M
  <1>7. k - b \in P
    BY <1>5, <1>6
  <1>. QED  BY <1>6, <1>7

LEMMA RangeRuns ==
  ASSUME NEW list \in Seq(Nat), NEW beg, RangesOK(list, beg), NEW n \in 1..Len(beg)
  PROVE  \A k \in beg[n]..EndAt(list, beg, n) : list[k] = list[beg[n]] + (k - beg[n])
  <1>1. /\ beg[n] \in 1..Len(list) /\ EndAt(list, beg, n) \in 1..Len(list)
        /\ beg[n] <= EndAt(list, beg, n)
    BY DEF RangesOK
  <1>2. \A k \in Begins(list) : beg[n] < k => EndAt(list, beg, n) < k
    BY OneBegins
  <1>. QED  BY <1>1, <1>2, Consecutive

(* Every place is in a range.                                              *)
LEMMA RangesCover ==
  ASSUME NEW list \in Seq(Nat), NEW beg, RangesOK(list, beg), NEW k \in 1..Len(list)
  PROVE  \E n \in 1..Len(beg) : k \in beg[n]..EndAt(list, beg, n)
  <1>. DEFINE M == Len(list)
  <1>. DEFINE In(i) == \E n \in 1..Len(beg) : i \in beg[n]..EndAt(list, beg, n)
  <1>. DEFINE P == {i \in 0..M : i = 0 \/ In(i)}
  <1>1. M \in Nat /\ Len(beg) \in Nat /\ DOMAIN list = 1..M
    BY DEF RangesOK
  <1>a. Len(list) \in Nat
    OBVIOUS
  <1>2. 0 \in P
    BY <1>1
  <1>3. ASSUME NEW i \in 0..(M - 1), i \in P PROVE i + 1 \in P
    <2>1. i + 1 \in 1..M /\ i + 1 \in 0..M
      BY <1>1
    <2>2. CASE i + 1 \in Begins(list)
      <3>1. PICK n \in 1..Len(beg) : beg[n] = i + 1
        BY <2>2 DEF RangesOK, CoresOf
      <3>2. EndAt(list, beg, n) \in 1..M /\ beg[n] <= EndAt(list, beg, n)
        BY DEF RangesOK
      <3>3. i + 1 \in beg[n]..EndAt(list, beg, n)
        BY <2>1, <3>1, <3>2
      <3>. QED  BY <2>1, <3>3
    <2>3. CASE i + 1 \notin Begins(list)
      <3>1. i # 0
        BY <1>1, <2>1, <2>3 DEF Begins
      <3>2. PICK n \in 1..Len(beg) : i \in beg[n]..EndAt(list, beg, n)
        BY <1>3, <3>1
      <3>3. beg[n] \in 1..M /\ EndAt(list, beg, n) \in 1..M
        BY DEF RangesOK
      <3>4. i # EndAt(list, beg, n)
        <4>1. CASE n = Len(beg)
          <5>1. EndAt(list, beg, n) = M
            BY <4>1 DEF EndAt
          <5>2. i # M
            BY <1>a
          <5>. QED  BY <5>1, <5>2
        <4>2. CASE n # Len(beg)
          <5>1. n + 1 \in 1..Len(beg)
            BY <1>1, <4>2
          <5>2. beg[n + 1] \in Begins(list) /\ beg[n + 1] \in 1..M
            BY <5>1 DEF RangesOK, CoresOf
          <5>3. EndAt(list, beg, n) = beg[n + 1] - 1
            BY <4>2 DEF EndAt
          <5>4. beg[n + 1] # i + 1
            BY <2>3, <5>2
          <5>. QED
            <6>1. \A x \in Nat : x # i + 1 => i # x - 1
              BY <1>1
            <6>2. beg[n + 1] \in Nat
              BY <5>2
            <6>. QED  BY <5>3, <5>4, <6>1, <6>2
        <4>. QED  BY <4>1, <4>2
      <3>5. i + 1 \in beg[n]..EndAt(list, beg, n)
        <4>1. \A x, y \in 1..M : i \in x..y /\ i # y => i + 1 \in x..y
          BY <1>1
        <4>. QED  BY <3>2, <3>3, <3>4, <4>1
      <3>. QED  BY <2>1, <3>5
    <2>. QED  BY <2>2, <2>3
  <1>4. 0..M \subseteq P
    <2>. HIDE DEF P, M
    <2>. QED  BY <1>1, <1>2, <1>3, CountUp
  <1>5. k \in 0..M /\ k # 0
    BY <1>1
  <1>. HIDE DEF M, In
  <1>. QED
    <2>1. In(k)
      BY <1>4, <1>5
    <2>. QED  BY <2>1 DEF In

(* The ranges hold what the list holds.                                    *)
LEMMA RangesHold ==
  ASSUME NEW list \in Seq(Nat)
  PROVE  LET p == printAllocatedCores(list)
         IN  UNION {Span(p[n].first, p[n].last) : n \in DOMAIN p} = CoresOf(list)
  <1>. DEFINE beg == Ascending(Begins(list))
  <1>. DEFINE p == printAllocatedCores(list)
  <1>1. RangesOK(list, beg)
    BY RangesAre
  <1>2. /\ DOMAIN p = DOMAIN beg
        /\ \A n \in DOMAIN beg : p[n] = [first |-> list[beg[n]], last |-> list[EndAt(list, beg, n)]]
    BY DEF printAllocatedCores, EndAt
  <1>. HIDE DEF beg, p
  <1>3. DOMAIN beg = 1..Len(beg)
    BY <1>1 DEF RangesOK
  <1>4. ASSUME NEW n \in 1..Len(beg)
        PROVE  Span(p[n].first, p[n].last) = {list[k] : k \in beg[n]..EndAt(list, beg, n)}
    <2>. DEFINE b == beg[n]
    <2>. DEFINE e == EndAt(list, beg, n)
    <2>1. b \in 1..Len(list) /\ e \in 1..Len(list) /\ b <= e /\ Len(list) \in Nat
      BY <1>1 DEF RangesOK
    <2>2. \A k \in b..e : list[k] = list[b] + (k - b)
      BY <1>1, RangeRuns
    <2>3. p[n].first = list[b] /\ p[n].last = list[e]
      BY <1>2, <1>3
    <2>. HIDE DEF b, e
    <2>4. list[b] \in Nat /\ list[e] = list[b] + (e - b) /\ e - b \in Nat /\ b \in Nat
      <3>1. e \in b..e /\ e - b \in Nat /\ b \in Nat
        BY <2>1
      <3>2. list[b] \in Nat
        <4>1. \A k \in 1..Len(list) : list[k] \in Nat
          OBVIOUS
        <4>. QED  BY <2>1, <4>1
      <3>3. list[e] = list[b] + (e - b)
        BY <2>2, <3>1
      <3>. QED  BY <3>1, <3>2, <3>3
    <2>5. Span(p[n].first, p[n].last) = list[b]..list[b] + (e - b)
      <3>1. ~(list[e] < list[b])
        BY <2>4
      <3>. QED  BY <2>3, <2>4, <3>1 DEF Span
    <2>6. ASSUME NEW x \in list[b]..list[b] + (e - b) PROVE x \in {list[k] : k \in b..e}
      <3>. DEFINE k == b + (x - list[b])
      <3>1. \A l \in Nat : x \in l..l + (e - b) => /\ b + (x - l) \in b..e
                                                   /\ l + ((b + (x - l)) - b) = x
        BY <2>1, <2>4
      <3>2. k \in b..e /\ list[b] + (k - b) = x
        BY <2>4, <3>1
      <3>. HIDE DEF k
      <3>3. list[k] = x
        BY <2>2, <3>2
      <3>. QED  BY <3>2, <3>3
    <2>7. ASSUME NEW k \in b..e PROVE list[k] \in list[b]..list[b] + (e - b)
      <3>1. \A l \in Nat : l + (k - b) \in l..l + (e - b)
        BY <2>1, <2>4
      <3>. QED  BY <2>2, <2>4, <3>1
    <2>8. list[b]..list[b] + (e - b) = {list[k] : k \in b..e}
      <3>1. \A x \in {list[k] : k \in b..e} : x \in list[b]..list[b] + (e - b)
        BY <2>7
      <3>. QED  BY <2>6, <3>1
    <2>. QED  BY <2>5, <2>8 DEF b, e
  <1>. DEFINE U == UNION {Span(p[n].first, p[n].last) : n \in DOMAIN p}
  <1>5. ASSUME NEW x \in U PROVE x \in CoresOf(list)
    <2>1. PICK n \in 1..Len(beg) : x \in Span(p[n].first, p[n].last)
      BY <1>2, <1>3
    <2>2. PICK k \in beg[n]..EndAt(list, beg, n) : x = list[k]
      BY <1>4, <2>1
    <2>3. k \in 1..Len(list)
      <3>1. beg[n] \in 1..Len(list) /\ EndAt(list, beg, n) \in 1..Len(list) /\ Len(list) \in Nat
        BY <1>1 DEF RangesOK
      <3>. QED  BY <3>1
    <2>. QED  BY <2>2, <2>3 DEF CoresOf
  <1>6. ASSUME NEW x \in CoresOf(list) PROVE x \in U
    <2>1. PICK k \in 1..Len(list) : x = list[k]
      BY DEF CoresOf
    <2>2. PICK n \in 1..Len(beg) : k \in beg[n]..EndAt(list, beg, n)
      BY <1>1, RangesCover
    <2>3. x \in Span(p[n].first, p[n].last)
      BY <1>4, <2>1, <2>2
    <2>. QED  BY <1>2, <1>3, <2>3
  <1>7. U = CoresOf(list)
    BY <1>5, <1>6
  <1>. QED  BY <1>7 DEF p
-----------------------------------------------------------------------------
(* The invariant of the cores.                                             *)

CoresInv ==
  /\ CoresTypeOK
  /\ available = getExistingCores(physical)
  /\ PrintedReadsBack

LEMMA GrantedIs ==
  ASSUME NEW S, affinity \in (SUBSET Online) \ {{}}
  PROVE  Granted(S) \in (SUBSET Online) \ {{}}
  <1>1. CASE S \cap Online = {}
    BY <1>1 DEF Granted
  <1>2. CASE S \cap Online # {}
    <2>. DEFINE G == S \cap Online
    <2>1. G \in SUBSET Online /\ G # {} /\ Granted(S) = G
      BY <1>2 DEF Granted
    <2>. HIDE DEF G
    <2>. QED  BY <2>1
  <1>. QED  BY <1>1, <1>2

(* The lists only depend on the machine.                                   *)
TurnsGoOn ==
  \A W : /\ Turns(W)[0] = Start(W)
         /\ \A n \in 0..MaxCore : Turns(W)[n + 1] = Turn(Turns(W)[n], n)

LEMMA TurnsGo == TurnsGoOn
  BY TurnsAre DEF TurnsGoOn

LEMMA ListKept ==
  ASSUME UNCHANGED processor, NEW W
  PROVE  ByProcessor(W)' = ByProcessor(W)
  <1>. DEFINE M == MaxCore + 1
  <1>. DEFINE P == {n \in 0..M : Turns(W)'[n] = Turns(W)[n]}
  <1>1. TurnsGoOn'
    BY TurnsGo, PTL
  <1>2. /\ Turns(W)'[0] = Start(W)
        /\ \A n \in 0..MaxCore : Turns(W)'[n + 1] = (Turn(Turns(W)[n], n))'
    BY <1>1 DEF TurnsGoOn, Start
  <1>3. M \in Nat /\ MaxCore \in Nat /\ M - 1 = MaxCore
    BY CoresAssumption
  <1>4. 0 \in P
    BY <1>2, <1>3, TurnsAre
  <1>5. ASSUME NEW n \in 0..(M - 1), n \in P PROVE n + 1 \in P
    <2>1. n \in 0..MaxCore /\ n + 1 \in 0..M /\ Turns(W)'[n] = Turns(W)[n]
      BY <1>3, <1>5
    <2>2. (Turn(Turns(W)[n], n))' = Turn(Turns(W)[n], n)
      BY <2>1 DEF Turn, Brought, Siblings, Online
    <2>. QED  BY <1>2, <2>1, <2>2, TurnsAre
  <1>. HIDE DEF P
  <1>6. M \in P
    BY <1>3, <1>4, <1>5, CountUp
  <1>. QED  BY <1>6 DEF P, ByProcessor

LEMMA ListsKept ==
  ASSUME UNCHANGED processor
  PROVE  /\ Online' = Online
         /\ UNCHANGED physical => UNCHANGED getExistingCores(physical)
        /\ \A v \in BOOLEAN : physical' = v => getExistingCores(physical)' = getExistingCores(v)
  <1>1. Online' = Online
    BY DEF Online
  <1>2. ByProcessor(Numbers)' = ByProcessor(Numbers)
    <2>1. Numbers' = Numbers
      BY DEF Numbers
    <2>. QED  BY <2>1, ListKept
  <1>3. ASSUME UNCHANGED physical PROVE UNCHANGED getExistingCores(physical)
    <2>1. CASE physical
      BY <1>1, <1>3, <2>1 DEF getExistingCores, Numbers
    <2>2. CASE ~physical
      BY <1>2, <1>3, <2>2 DEF getExistingCores
    <2>. QED  BY <2>1, <2>2
  <1>4. ASSUME NEW v \in BOOLEAN, physical' = v
        PROVE  getExistingCores(physical)' = getExistingCores(v)
    <2>1. CASE v
      BY <1>1, <1>4, <2>1 DEF getExistingCores, Numbers
    <2>2. CASE ~v
      BY <1>2, <1>4, <2>2 DEF getExistingCores
    <2>. QED  BY <2>1, <2>2
  <1>. QED  BY <1>1, <1>3, <1>4

LEMMA CoresInvInit ==
  ASSUME FewCores, CoresInit
  PROVE  CoresInv
  <1>1. Machine
    BY MachineIs DEF CoresInit
  <1>2. available \in Seq(Numbers)
    BY <1>1, ExistingIs DEF CoresInit
  <1>3. <<>> \in Seq(Numbers) /\ <<>> \in Seq(Item)
    OBVIOUS
  <1>. QED  BY <1>2, <1>3 DEF CoresInit, CoresInv, CoresTypeOK, PrintedReadsBack

(* The places of a range that are in the list.                             *)
LEMMA WithinIs ==
  ASSUME NEW a \in Nat, NEW b \in Nat
  PROVE  LET S == {i \in Span(a, b) : i < Len(available)}
         IN  /\ S \in SUBSET Nat
             /\ Ascending(S) \in Seq(S) /\ Ascending(S) \in Seq(Nat) /\ CoresOf(Ascending(S)) = S
  <1>. DEFINE S == {i \in Span(a, b) : i < Len(available)}
  <1>1. IsFiniteSet(Span(a, b)) /\ Span(a, b) \subseteq Nat
    <2>1. IsFiniteSet(a..b) /\ IsFiniteSet(b..a)
      <3>1. a \in Int /\ b \in Int
        OBVIOUS
      <3>. QED  BY <3>1, FS_Interval, Zenon
    <2>2. a..b \subseteq Nat /\ b..a \subseteq Nat
      OBVIOUS
    <2>. QED  BY <2>1, <2>2 DEF Span
  <1>2. S \in SUBSET Nat /\ IsFiniteSet(S)
    <2>1. S \subseteq Span(a, b)
      OBVIOUS
    <2>. HIDE DEF S
    <2>. QED  BY <1>1, <2>1, FS_Subset
  <1>. HIDE DEF S
  <1>3. Ascending(S) \in Seq(S) /\ Ascending(S) \in Seq(Nat) /\ CoresOf(Ascending(S)) = S
    BY <1>2, AscendingCores
  <1>. QED  BY <1>2, <1>3 DEF S

LEMMA SelectType ==
  ASSUME CoresInv, NEW a \in Nat, NEW b \in Nat
  PROVE  /\ One(a) => selected' \in Seq(Numbers) /\ items' \in Seq(Item)
         /\ Several(a, b) => selected' \in Seq(Numbers) /\ items' \in Seq(Item)
  <1>1. /\ selected \in Seq(Numbers) /\ items \in Seq(Item) /\ available \in Seq(Numbers)
        /\ [first |-> a, last |-> a] \in Item /\ [first |-> a, last |-> b] \in Item
    BY DEF CoresInv, CoresTypeOK, Item
  <1>2. ASSUME One(a) PROVE selected' \in Seq(Numbers) /\ items' \in Seq(Item)
    <2>1. PICK c \in CoresAt(a) : selected' = Append(selected, c)
      BY <1>2 DEF One
    <2>2. c \in Numbers
      <3>1. a < Len(available) => a + 1 \in 1..Len(available)
        BY <1>1
      <3>. QED  BY <1>1, <3>1 DEF CoresAt
    <2>. QED  BY <1>1, <1>2, <2>1, <2>2 DEF One
  <1>3. ASSUME Several(a, b) PROVE selected' \in Seq(Numbers) /\ items' \in Seq(Item)
    <2>. DEFINE S == {i \in Span(a, b) : i < Len(available)}
    <2>. DEFINE within == Ascending(S)
    <2>. DEFINE more == [k \in DOMAIN within |-> available[within[k] + 1]]
    <2>1. within \in Seq(S) /\ S \in SUBSET Nat
      BY WithinIs
    <2>2. Several(a, b) => selected' = selected \o more /\ items' = Append(items, [first |-> a, last |-> b])
      BY DEF Several
    <2>3. \A i \in S : available[i + 1] \in Numbers
      BY <1>1, <2>1
    <2>. HIDE DEF S, within
    <2>4. DOMAIN within = 1..Len(within) /\ Len(within) \in Nat /\ \A k \in 1..Len(within) : within[k] \in S
      BY <2>1
    <2>5. more \in Seq(Numbers)
      BY <2>3, <2>4
    <2>6. selected' = selected \o more /\ items' = Append(items, [first |-> a, last |-> b])
      BY <1>3, <2>2
    <2>. HIDE DEF more
    <2>. QED  BY <1>1, <2>5, <2>6
  <1>. QED  BY <1>2, <1>3

LEMMA CoresInvNext ==
  ASSUME FewCores, CoresInv, [CoresNext]_cvars
  PROVE  CoresInv'
  <1>. USE DEF CoresInv, CoresTypeOK, PrintedReadsBack
  <1>0. Machine
    BY MachineIs
  <1>a. UNCHANGED processor => /\ Online' = Online
                               /\ UNCHANGED physical => UNCHANGED getExistingCores(physical)
    BY ListsKept
  <1>1. CASE ReadItem
    <2>. USE <1>1 DEF ReadItem
    <2>1. selected' \in Seq(Numbers) /\ items' \in Seq(Item)
      <3>1. Singles \subseteq Nat /\ Bounds \subseteq Nat
        BY CoresAssumption
      <3>2. \/ \E a \in Nat : One(a)
            \/ \E a, b \in Nat : Several(a, b)
        BY <3>1
      <3>. QED  BY <3>2, SelectType
    <2>2. pc' \in {"select", "setaffinity"} /\ Online' = Online
      BY <1>a
    <2>. QED  BY <1>a, <2>1, <2>2
  <1>2. CASE SyntaxError
    BY <1>a, <1>2 DEF SyntaxError
  <1>3. CASE setaffinity
    <2>1. affinity' \in (SUBSET Online) \ {{}}
      BY <1>a, <1>3, GrantedIs DEF setaffinity
    <2>. QED  BY <1>a, <1>3, <2>1 DEF setaffinity
  <1>4. CASE PrintCores
    <2>1. affinity \in SUBSET Numbers
      BY <1>0 DEF Machine
    <2>2. ByProcessor(affinity) \in Seq(Nat)
      BY <1>0, <2>1, ListIs
    <2>3. printed' \in Seq(Item)
      BY <1>4, <2>2, PrintedType DEF PrintCores, getAllocatedCoresByProcessorOrder
    <2>4. PrintedReadsBack'
      <3>1. CoresOf(ByProcessor(affinity)) = affinity
        BY <1>0, <2>1, ListIs
      <3>2. affinity = UNION {Span(printed'[n].first, printed'[n].last) : n \in DOMAIN printed'}
        BY <1>4, <2>2, <3>1, RangesHold DEF PrintCores, getAllocatedCoresByProcessorOrder
      <3>. QED  BY <1>4, <3>2 DEF PrintCores
    <2>. QED  BY <1>a, <1>4, <2>3, <2>4 DEF PrintCores
  <1>5. CASE ForkSolver
    BY <1>a, <1>5 DEF ForkSolver
  <1>6. CASE RunAside
    <2>1. affinity' \in (SUBSET Online) \ {{}}
      BY <1>a, <1>6, GrantedIs DEF RunAside
    <2>. QED  BY <1>a, <1>6, <2>1 DEF RunAside
  <1>7. CASE UNCHANGED cvars
    BY <1>a, <1>7 DEF cvars
  <1>8. CASE selectCores
    <2>1. PICK v \in BOOLEAN : physical' = v /\ available' = getExistingCores(v)
      BY <1>8 DEF selectCores
    <2>2. /\ selected' = <<>> /\ items' = <<>> /\ pc' = "select"
          /\ UNCHANGED <<processor, affinity, printed, solverCores>>
      BY <1>8 DEF selectCores
    <2>3. available' \in Seq(Numbers)
      BY <1>0, <2>1, ExistingIs
    <2>4. available' = getExistingCores(physical)' /\ Online' = Online
      BY <2>1, <2>2, ListsKept
    <2>5. <<>> \in Seq(Numbers) /\ <<>> \in Seq(Item)
      OBVIOUS
    <2>. QED  BY <2>1, <2>2, <2>3, <2>4, <2>5
  <1>. QED  BY <1>1, <1>2, <1>3, <1>4, <1>5, <1>6, <1>7, <1>8 DEF CoresNext


(* The list of the machine stays what it is, and what main has printed is  *)
(* what it runs on, through selecting, printing and the fork.              *)
THEOREM CoresInductive ==
  ASSUME FewCores
  PROVE  CoresSpec => []CoresInv
  <1>1. CoresInit => CoresInv
    BY CoresInvInit
  <1>2. CoresInv /\ [CoresNext]_cvars => CoresInv'
    BY CoresInvNext
  <1>. QED  BY <1>1, <1>2, PTL DEF CoresSpec

(* The lists hold the cores of runsolver and of the machine, each once, by *)
(* processors, on every machine of at most 32 cores.                       *)
THEOREM CoresAreListed ==
  ASSUME FewCores
  PROVE  CoresSpec => []CoresListed
  <1>1. CoresInv => CoresListed
    <2>. SUFFICES ASSUME CoresInv PROVE CoresListed
      OBVIOUS
    <2>1. Machine
      BY MachineIs DEF CoresInv, CoresTypeOK
    <2>2. affinity \in SUBSET Numbers /\ affinity \subseteq Online /\ Numbers \in SUBSET Numbers
      BY <2>1 DEF CoresInv, CoresTypeOK, Machine
    <2>. DEFINE list == ByProcessor(affinity)
    <2>3. list \in Seq(Nat) /\ CoresOf(list) = affinity /\ Distinct(list) /\ Together(list)
      BY <2>1, <2>2, ListIs
    <2>4. Together(ByProcessor(Numbers))
      BY <2>1, <2>2, ListIs
    <2>. HIDE DEF list
    <2>5. IsInjective(list) /\ ToSet(list) = affinity
      BY <2>3, ListedIs DEF IsInjective, Distinct
    <2>6. ListsAllocated
      BY <2>5 DEF ListsAllocated, getAllocatedCoresByProcessorOrder, list
    <2>7. GroupedByProcessor
      BY <2>3, <2>4 DEF GroupedByProcessor, getAllocatedCoresByProcessorOrder, list,
                        CoresInv, getExistingCores
    <2>. QED  BY <2>6, <2>7 DEF CoresListed, CoresInv
  <1>. QED  BY <1>1, CoresInductive, PTL

(* The ranges that main prints, read as a list of cores, are the cores.    *)
THEOREM PrintedRanges ==
  ASSUME FewCores
  PROVE  CoresSpec => []PrintedReadsBack
  <1>1. CoresInv => PrintedReadsBack
    BY DEF CoresInv
  <1>. QED  BY <1>1, CoresInductive, PTL

-----------------------------------------------------------------------------
(* Machines that number their cores without gaps, and lists whose single   *)
(* numbers are cores of the machine: those for which the solver gets what  *)
(* its list asks for.                                                      *)
Gapless == \A m \in Machines : \A c \in DOMAIN m : 0..c \subseteq DOMAIN m

SinglesListed == \A m \in Machines : Singles \subseteq DOMAIN m

NoGap == \A c \in Online : 0..c \subseteq Online

(* The list of the machine is that of its cores: the loop stops behind the *)
(* last one.                                                               *)
LEMMA AllCores ==
  ASSUME Machine, NoGap
  PROVE  ByProcessor(Numbers) = ByProcessor(Online)
  <1>. DEFINE M == MaxCore + 1
  <1>. DEFINE A == Turns(Numbers)
  <1>. DEFINE O == Turns(Online)
  <1>. DEFINE P == {n \in 0..M : A[n].list = O[n].list}
  <1>1. M \in Nat /\ MaxCore \in Nat /\ M - 1 = MaxCore
    BY CoresAssumption
  <1>2. Numbers \in SUBSET Numbers /\ Online \in SUBSET Numbers /\ Numbers \in SUBSET Nat
    BY NumbersAre DEF Machine
  <1>3. \A n \in 0..M : LoopOK(Numbers, A[n], n) /\ LoopOK(Online, O[n], n)
    BY <1>2, LoopHolds
  <1>4. /\ A[0] = Start(Numbers) /\ O[0] = Start(Online)
        /\ \A n \in 0..MaxCore : A[n + 1] = Turn(A[n], n) /\ O[n + 1] = Turn(O[n], n)
    BY TurnsAre
  <1>. HIDE DEF A, O
  <1>5. 0 \in P
    BY <1>1, <1>4 DEF Start
  <1>6. ASSUME NEW n \in 0..(M - 1), n \in P PROVE n + 1 \in P
    <2>1. n \in 0..MaxCore /\ n \in 0..M /\ n + 1 \in 0..M /\ n \in Nat /\ A[n].list = O[n].list
      BY <1>1, <1>6
    <2>2. LoopOK(Numbers, A[n], n) /\ LoopOK(Online, O[n], n)
      BY <1>3, <2>1
    <2>3. /\ A[n].left = Numbers \ CoresOf(A[n].list) /\ O[n].left = Online \ CoresOf(A[n].list)
          /\ A[n] \in State /\ O[n] \in State
      BY <2>1, <2>2 DEF LoopOK
    <2>4. ~O[n].stopped
      BY <2>2 DEF LoopOK, Looked
    <2>5. CASE A[n].stopped
      <3>1. PICK c \in Numbers \ Online : c < n
        BY <2>2, <2>5 DEF LoopOK, Looked
      <3>2. n \notin Online
        <4>1. c \in 0..n
          BY <1>2, <2>1, <3>1
        <4>. QED  BY <3>1, <4>1 DEF NoGap
      <3>3. Turn(A[n], n) = A[n] /\ Turn(O[n], n) = O[n]
        BY <2>3, <2>5, <3>2 DEF Turn
      <3>. QED  BY <1>4, <2>1, <3>3
    <2>6. CASE ~A[n].stopped /\ n \notin A[n].left
      <3>1. n \notin O[n].left
        BY <1>2, <2>3, <2>6
      <3>2. Turn(A[n], n) = A[n] /\ Turn(O[n], n) = O[n]
        BY <2>6, <3>1 DEF Turn
      <3>. QED  BY <1>4, <2>1, <3>2
    <2>7. CASE ~A[n].stopped /\ n \in A[n].left /\ n \notin Online
      <3>1. Turn(A[n], n).list = A[n].list
        BY <2>3, <2>7 DEF Turn, State
      <3>2. Turn(O[n], n) = O[n]
        BY <2>3, <2>7 DEF Turn
      <3>. QED  BY <1>4, <2>1, <3>1, <3>2
    <2>8. CASE ~A[n].stopped /\ n \in A[n].left /\ n \in Online
      <3>1. n \in O[n].left
        BY <2>3, <2>8
      <3>2. Brought(n, A[n].left) = Siblings(n) \cap A[n].left
        BY BroughtIs
      <3>3. Brought(n, O[n].left) = Siblings(n) \cap O[n].left
        BY BroughtIs
      <3>4. Brought(n, A[n].left) = Brought(n, O[n].left)
        BY <1>2, <2>3, <3>2, <3>3 DEF Siblings
      <3>5. Turn(A[n], n).list = A[n].list \o Ascending(Brought(n, A[n].left))
        BY <2>3, <2>8 DEF Turn, State
      <3>6. Turn(O[n], n).list = O[n].list \o Ascending(Brought(n, O[n].left))
        BY <2>3, <2>4, <2>8, <3>1 DEF Turn, State
      <3>. QED  BY <1>4, <2>1, <3>4, <3>5, <3>6
    <2>. QED  BY <2>5, <2>6, <2>7, <2>8
  <1>7. M \in P
    <2>. HIDE DEF P, M
    <2>. QED  BY <1>1, <1>5, <1>6, CountUp
  <1>. QED  BY <1>7 DEF ByProcessor, A, O

(* Without gaps, a core is at its own place of an ascending list.          *)
LEMMA OwnPlace ==
  ASSUME Machine, NoGap
  PROVE  \A c \in Nat : /\ c \in Online <=> c < Len(Ascending(Online))
                        /\ c \in Online => Ascending(Online)[c + 1] = c
  <1>. DEFINE a == Ascending(Online)
  <1>1. Online \in SUBSET Nat /\ IsFiniteSet(Online)
    BY NumbersAre DEF Machine
  <1>2. /\ a \in Seq(Online) /\ Len(a) \in Nat
        /\ \A k \in 1..Len(a) : Cardinality(Lower(Online, a[k])) = k - 1
        /\ \A c \in Online : \E k \in 1..Len(a) : a[k] = c
    BY <1>1, AscendingLists
  <1>. HIDE DEF a
  <1>a. a \in Seq(Online) /\ Len(a) \in Nat
    BY <1>2
  <1>b. \A k \in 1..Len(a) : a[k] \in Online
    BY <1>a
  <1>c. \A c \in Online : \E k \in 1..Len(a) : a[k] = c
    BY <1>2
  <1>3. ASSUME NEW k \in 1..Len(a) PROVE a[k] = k - 1
    <2>1. a[k] \in Online /\ a[k] \in Nat
      BY <1>1, <1>b
    <2>. DEFINE c == a[k]
    <2>2. Lower(Online, c) = 0..(c - 1)
      <3>1. 0..c \subseteq Online
        BY <2>1 DEF NoGap
      <3>2. \A d \in Online : d < c => d \in 0..(c - 1)
        BY <1>1, <2>1
      <3>3. \A d \in 0..(c - 1) : d \in 0..c /\ d < c
        BY <2>1
      <3>. HIDE DEF c
      <3>4. \A d \in 0..(c - 1) : d \in Online /\ d < c
        BY <3>1, <3>3
      <3>. QED  BY <3>2, <3>4 DEF Lower
    <2>3. Cardinality(0..(c - 1)) = c
      <3>1. 0 \in Int /\ c - 1 \in Int /\ c \in Nat
        BY <2>1
      <3>. HIDE DEF c
      <3>2. Cardinality(0..(c - 1)) = IF 0 > c - 1 THEN 0 ELSE (c - 1) - 0 + 1
        BY <3>1, FS_Interval, Zenon
      <3>. QED  BY <3>1, <3>2
    <2>. QED  BY <1>2, <2>2, <2>3
  <1>4. ASSUME NEW c \in Online PROVE c < Len(a) /\ a[c + 1] = c
    <2>1. PICK k \in 1..Len(a) : a[k] = c
      BY <1>c
    <2>2. k - 1 = c
      BY <1>3, <2>1
    <2>3. k \in Nat /\ c \in Nat /\ c + 1 = k /\ c < Len(a)
      <3>1. \A m \in Nat : \A x \in 1..m : x \in Nat /\ x - 1 \in Nat /\ (x - 1) + 1 = x /\ x - 1 < m
        OBVIOUS
      <3>. QED  BY <1>a, <2>2, <3>1
    <2>. QED  BY <2>1, <2>3
  <1>5. ASSUME NEW c \in Nat, c < Len(a) PROVE c \in Online
    <2>1. c + 1 \in 1..Len(a) /\ (c + 1) - 1 = c
      BY <1>a, <1>5
    <2>2. a[c + 1] = c
      BY <1>3, <2>1
    <2>. QED  BY <1>b, <2>1, <2>2
  <1>. QED  BY <1>4, <1>5 DEF a

(* As many places as cores.                                                *)
LEMMA AsManyPlaces ==
  ASSUME Machine, NoGap
  PROVE  Len(ByProcessor(Online)) = Len(Ascending(Online))
  <1>. DEFINE list == ByProcessor(Online)
  <1>1. Online \in SUBSET Numbers /\ Online \in SUBSET Nat /\ IsFiniteSet(Online)
    BY NumbersAre DEF Machine
  <1>2. list \in Seq(Nat) /\ CoresOf(list) = Online /\ Distinct(list)
    BY <1>1, ListIs
  <1>3. Len(Ascending(Online)) = Cardinality(Online)
    BY <1>1, AscendingLists
  <1>. HIDE DEF list
  <1>4. list \in Bijection(1..Len(list), Online)
    <2>1. DOMAIN list = 1..Len(list) /\ \A k \in 1..Len(list) : list[k] \in Online
      BY <1>2 DEF CoresOf
    <2>2. list \in [1..Len(list) -> Online]
      BY <1>2, <2>1
    <2>3. list \in Injection(1..Len(list), Online)
      BY <1>2, <2>1, <2>2 DEF Injection, IsInjective, Distinct
    <2>4. list \in Surjection(1..Len(list), Online)
      BY <1>2, <2>2 DEF Surjection, CoresOf
    <2>. QED  BY <2>3, <2>4 DEF Bijection
  <1>5. Cardinality(Online) = Cardinality(1..Len(list))
    <2>1. 1 \in Int /\ Len(list) \in Int
      BY <1>2
    <2>2. IsFiniteSet(1..Len(list))
      BY <2>1, FS_Interval, Zenon
    <2>3. ExistsBijection(1..Len(list), Online)
      BY <1>4 DEF ExistsBijection
    <2>. QED  BY <2>2, <2>3, FS_Bijection, Zenon
  <1>6. Cardinality(1..Len(list)) = Len(list)
    <2>1. 1 \in Int /\ Len(list) \in Int /\ Len(list) \in Nat
      BY <1>2
    <2>2. Cardinality(1..Len(list)) = IF 1 > Len(list) THEN 0 ELSE Len(list) - 1 + 1
      BY <2>1, FS_Interval, Zenon
    <2>. QED  BY <2>1, <2>2
  <1>. QED  BY <1>3, <1>5, <1>6 DEF list

-----------------------------------------------------------------------------
(* What a list of cores gives.                                             *)

PlacesOf(list) == UNION {Span(list[n].first, list[n].last) : n \in DOMAIN list}

GivenBy(S) == {available[p + 1] : p \in {q \in S : q < Len(available)}}

Given == GivenBy(PlacesOf(items))

LEMMA PlacesAppend ==
  ASSUME NEW list \in Seq(Item), NEW a \in Nat, NEW b \in Nat
  PROVE  PlacesOf(Append(list, [first |-> a, last |-> b])) = PlacesOf(list) \cup Span(a, b)
  <1>. DEFINE r == [first |-> a, last |-> b]
  <1>. DEFINE more == Append(list, r)
  <1>1. /\ DOMAIN list = 1..Len(list) /\ DOMAIN more = 1..Len(list) + 1 /\ Len(list) \in Nat
        /\ \A k \in 1..Len(list) : more[k] = list[k]
        /\ more[Len(list) + 1] = r
    OBVIOUS
  <1>2. r.first = a /\ r.last = b
    OBVIOUS
  <1>3. \A k \in 1..Len(list) + 1 : k \in 1..Len(list) \/ k = Len(list) + 1
    BY <1>1
  <1>4. \A k \in 1..Len(list) : k \in 1..Len(list) + 1
    BY <1>1
  <1>5. Len(list) + 1 \in 1..Len(list) + 1
    BY <1>1
  <1>. HIDE DEF r, more
  <1>. DEFINE SpanAt(l, n) == Span(l[n].first, l[n].last)
  <1>6. \A k \in 1..Len(list) : SpanAt(more, k) = SpanAt(list, k)
    BY <1>1
  <1>7. SpanAt(more, Len(list) + 1) = Span(a, b)
    BY <1>1, <1>2
  <1>8. PlacesOf(more) = UNION {SpanAt(more, n) : n \in 1..Len(list) + 1}
    BY <1>1 DEF PlacesOf
  <1>9. PlacesOf(list) = UNION {SpanAt(list, n) : n \in 1..Len(list)}
    BY <1>1 DEF PlacesOf
  <1>. HIDE DEF SpanAt
  <1>10. \A x \in PlacesOf(more) : x \in PlacesOf(list) \cup Span(a, b)
    BY <1>3, <1>6, <1>7, <1>8, <1>9
  <1>11. \A x \in PlacesOf(list) \cup Span(a, b) : x \in PlacesOf(more)
    BY <1>4, <1>5, <1>6, <1>7, <1>8, <1>9
  <1>12. PlacesOf(more) = PlacesOf(list) \cup Span(a, b)
    BY <1>10, <1>11
  <1>. QED  BY <1>12 DEF more, r

LEMMA PlacesAreNat ==
  ASSUME NEW list \in Seq(Item)
  PROVE  PlacesOf(list) \subseteq Nat
  <1>1. \A n \in DOMAIN list : list[n].first \in Nat /\ list[n].last \in Nat
    <2>1. \A n \in DOMAIN list : list[n] \in Item
      OBVIOUS
    <2>. QED  BY <2>1 DEF Item
  <1>2. \A a, b \in Nat : Span(a, b) \subseteq Nat
    BY DEF Span
  <1>. QED  BY <1>1, <1>2 DEF PlacesOf

(* The list of the machine holds its cores, and a core has a place.        *)
LEMMA MachinesList ==
  ASSUME FewCores, Gapless, CoresInv
  PROVE  /\ Given = Asked
         /\ Given \subseteq Online
         /\ \A c \in Online : c < Len(available)
  <1>1. Machine /\ NoGap
    BY MachineIs DEF CoresInv, CoresTypeOK, Gapless, NoGap, Online
  <1>2. PlacesOf(items) \subseteq Nat /\ Online \subseteq Nat
    BY <1>1, PlacesAreNat, NumbersAre DEF CoresInv, CoresTypeOK, Machine
  <1>. DEFINE a == Ascending(Online)
  <1>. DEFINE list == ByProcessor(Online)
  <1>3. \A c \in Nat : (c \in Online <=> c < Len(a)) /\ (c \in Online => a[c + 1] = c)
    BY <1>1, OwnPlace
  <1>4. Len(list) = Len(a)
    BY <1>1, AsManyPlaces
  <1>5. list \in Seq(Nat) /\ CoresOf(list) = Online
    BY <1>1, ListIs DEF Machine
  <1>6. Asked = IF physical THEN PlacesOf(items) \cap Online
                ELSE {list[p + 1] : p \in {q \in PlacesOf(items) : q < Len(list)}}
    BY DEF Asked, PlacesOf
  <1>7. CASE physical
    <2>1. {c \in Numbers : 0..c \subseteq Online} = Online
      <3>1. \A c \in Numbers : c \in 0..c
        BY NumbersAre
      <3>. QED  BY <1>1, <3>1 DEF NoGap, Machine
    <2>2. available = a
      BY <1>7, <2>1 DEF CoresInv, getExistingCores
    <2>. HIDE DEF a, list
    <2>3. {q \in PlacesOf(items) : q < Len(available)} = PlacesOf(items) \cap Online
      BY <1>2, <1>3, <2>2
    <2>4. Given = {available[p + 1] : p \in PlacesOf(items) \cap Online}
      BY <2>3 DEF Given, GivenBy
    <2>5. \A p \in PlacesOf(items) \cap Online : available[p + 1] = p
      BY <1>2, <1>3, <2>2
    <2>6. Given = PlacesOf(items) \cap Online
      BY <2>4, <2>5
    <2>. QED  BY <1>2, <1>3, <1>6, <1>7, <2>2, <2>6
  <1>8. CASE ~physical
    <2>1. available = list
      BY <1>1, <1>8, AllCores DEF CoresInv, getExistingCores
    <2>. HIDE DEF a, list
    <2>2. Given = Asked
      BY <1>6, <1>8, <2>1 DEF Given, GivenBy
    <2>3. \A q \in Nat : q < Len(list) => list[q + 1] \in Online
      <3>1. \A q \in Nat : q < Len(list) => q + 1 \in 1..Len(list)
        BY <1>5
      <3>. QED  BY <1>5, <3>1 DEF CoresOf
    <2>4. Given \subseteq Online
      BY <1>2, <2>1, <2>3 DEF Given, GivenBy
    <2>. QED  BY <1>2, <1>3, <1>4, <2>1, <2>2, <2>4
  <1>. QED  BY <1>7, <1>8

GivenInv ==
  /\ ToSet(selected) = Given
  /\ (items # <<>> /\ Given # {} /\ pc \in {"options", "fork", "aside"}) => affinity = Given
  /\ (items # <<>> /\ Given # {} /\ pc \in {"aside", "running"}) => solverCores = Given
  /\ pc = "aside" => solverCores = affinity
  /\ OnLastProcessor

LEMMA GivenInvInit ==
  ASSUME CoresInit
  PROVE  GivenInv
  <1>1. selected = <<>> /\ items = <<>> /\ pc \notin {"aside", "running"}
    BY DEF CoresInit
  <1>2. ToSet(selected) = {} /\ PlacesOf(items) = {}
    BY <1>1 DEF ToSet, PlacesOf
  <1>3. Given = {}
    BY <1>2 DEF Given, GivenBy
  <1>. QED  BY <1>1, <1>2, <1>3 DEF GivenInv, OnLastProcessor

LEMMA AppendSet ==
  ASSUME NEW list \in Seq(Numbers), NEW x
  PROVE  ToSet(Append(list, x)) = ToSet(list) \cup {x}
  <1>1. /\ DOMAIN list = 1..Len(list) /\ DOMAIN Append(list, x) = 1..Len(list) + 1
        /\ \A k \in 1..Len(list) : Append(list, x)[k] = list[k]
        /\ Append(list, x)[Len(list) + 1] = x /\ Len(list) \in Nat
    OBVIOUS
  <1>2. 1..Len(list) + 1 = (1..Len(list)) \cup {Len(list) + 1}
    BY <1>1
  <1>. QED  BY <1>1, <1>2 DEF ToSet

LEMMA CatSet ==
  ASSUME NEW a \in Seq(Numbers), NEW b \in Seq(Numbers)
  PROVE  ToSet(a \o b) = ToSet(a) \cup ToSet(b)
  <1>1. Numbers \subseteq Nat
    BY NumbersAre
  <1>2. a \in Seq(Nat) /\ b \in Seq(Nat)
    <2>1. \A s \in Seq(Numbers) : s \in Seq(Nat)
      <3>. SUFFICES ASSUME NEW s \in Seq(Numbers) PROVE s \in Seq(Nat)
        OBVIOUS
      <3>1. \A k \in 1..Len(s) : s[k] \in Numbers
        OBVIOUS
      <3>2. \A k \in 1..Len(s) : s[k] \in Nat
        BY <1>1, <3>1
      <3>. QED  BY <3>2, SeqDef
    <2>. QED  BY <2>1
  <1>3. CoresOf(a \o b) = CoresOf(a) \cup CoresOf(b) /\ a \o b \in Seq(Nat)
    BY <1>2, CatIs
  <1>. QED  BY <1>2, <1>3, ListedIs

(* An item adds what it gives.                                             *)
LEMMA OneGives ==
  ASSUME CoresInv, ToSet(selected) = Given, UNCHANGED available, NEW a \in Nat,
         a < Len(available), One(a)
  PROVE  (ToSet(selected) = Given)'
  <1>1. selected \in Seq(Numbers) /\ items \in Seq(Item)
    BY DEF CoresInv, CoresTypeOK
  <1>2. /\ selected' = Append(selected, available[a + 1])
        /\ items' = Append(items, [first |-> a, last |-> a])
    BY DEF One, CoresAt
  <1>3. ToSet(selected') = ToSet(selected) \cup {available[a + 1]}
    <2>1. \A x : ToSet(Append(selected, x)) = ToSet(selected) \cup {x}
      BY <1>1, AppendSet
    <2>. QED  BY <1>2, <2>1
  <1>4. PlacesOf(items') = PlacesOf(items) \cup {a}
    <2>1. Span(a, a) = {a}
      BY DEF Span
    <2>. QED  BY <1>1, <1>2, <2>1, PlacesAppend
  <1>5. GivenBy(PlacesOf(items) \cup {a}) = GivenBy(PlacesOf(items)) \cup {available[a + 1]}
    BY DEF GivenBy
  <1>6. Given' = GivenBy(PlacesOf(items) \cup {a})
    BY <1>4 DEF Given, GivenBy
  <1>. QED  BY <1>3, <1>5, <1>6 DEF Given

LEMMA SeveralGive ==
  ASSUME CoresInv, ToSet(selected) = Given, UNCHANGED available, NEW a \in Nat, NEW b \in Nat,
         Several(a, b)
  PROVE  (ToSet(selected) = Given)'
  <1>1. selected \in Seq(Numbers) /\ items \in Seq(Item) /\ available \in Seq(Numbers)
    BY DEF CoresInv, CoresTypeOK
  <1>. DEFINE S == {i \in Span(a, b) : i < Len(available)}
  <1>. DEFINE within == Ascending(S)
  <1>. DEFINE more == [k \in DOMAIN within |-> available[within[k] + 1]]
  <1>2. /\ selected' = selected \o more
        /\ items' = Append(items, [first |-> a, last |-> b])
    BY DEF Several
  <1>3. within \in Seq(S) /\ CoresOf(within) = S /\ S \subseteq Nat
    BY WithinIs
  <1>4. GivenBy(PlacesOf(items) \cup Span(a, b)) = GivenBy(PlacesOf(items)) \cup {available[i + 1] : i \in S}
    BY DEF GivenBy
  <1>5. \A i \in S : available[i + 1] \in Numbers
    <2>1. \A i \in S : i + 1 \in 1..Len(available)
      BY <1>1, <1>3
    <2>. QED  BY <1>1, <2>1
  <1>. HIDE DEF S, within
  <1>6. DOMAIN within = 1..Len(within) /\ Len(within) \in Nat
        /\ \A k \in 1..Len(within) : within[k] \in S
    BY <1>3
  <1>7. more \in Seq(Numbers) /\ ToSet(more) = {available[i + 1] : i \in S}
    <2>1. more = [k \in 1..Len(within) |-> available[within[k] + 1]]
      BY <1>6
    <2>2. more \in Seq(Numbers)
      BY <1>5, <1>6, <2>1
    <2>3. ToSet(more) = {available[within[k] + 1] : k \in 1..Len(within)}
      BY <2>1 DEF ToSet
    <2>4. S = {within[k] : k \in 1..Len(within)}
      BY <1>3 DEF CoresOf
    <2>. HIDE DEF more
    <2>. QED  BY <2>2, <2>3, <2>4
  <1>. HIDE DEF more
  <1>8. ToSet(selected') = ToSet(selected) \cup ToSet(more)
    BY <1>1, <1>2, <1>7, CatSet
  <1>9. PlacesOf(items') = PlacesOf(items) \cup Span(a, b)
    BY <1>1, <1>2, PlacesAppend
  <1>10. Given' = GivenBy(PlacesOf(items) \cup Span(a, b))
    BY <1>9 DEF Given, GivenBy
  <1>. QED  BY <1>4, <1>7, <1>8, <1>10 DEF Given

(* The last core of the list of the solver.                                *)
LEMMA LeastIs ==
  ASSUME NEW S \in SUBSET Nat, IsFiniteSet(S), S # {}
  PROVE  \E e \in S : \A x \in S : e <= x
  <1>. DEFINE a == Ascending(S)
  <1>1. /\ a \in Seq(Nat) /\ CoresOf(a) = S /\ Rising(a)
    BY AscendingCores
  <1>. HIDE DEF a
  <1>2. 1 \in 1..Len(a) /\ a[1] \in S
    <2>1. Len(a) # 0
      BY <1>1 DEF CoresOf
    <2>2. 1 \in 1..Len(a)
      BY <1>1, <2>1
    <2>. QED  BY <1>1, <2>2 DEF CoresOf
  <1>3. ASSUME NEW x \in S PROVE a[1] <= x
    <2>1. PICK k \in 1..Len(a) : a[k] = x
      BY <1>1 DEF CoresOf
    <2>2. k = 1 \/ 1 < k
      BY <1>1
    <2>3. a[1] \in Nat /\ x \in Nat
      BY <1>1, <1>2
    <2>4. 1 < k => a[1] < x
      BY <1>1, <1>2, <2>1 DEF Rising
    <2>. QED  BY <2>1, <2>2, <2>3, <2>4
  <1>. QED  BY <1>2, <1>3

OnLast(c, S) ==
  /\ c \in S
  /\ \A d \in Siblings(c) \cap S : d <= c
  /\ \A d \in S : \E e \in Siblings(d) \cap S : \A f \in Siblings(c) \cap S : e <= f

LEMMA LastIs ==
  ASSUME Machine, NEW S \in SUBSET Online, S # {}
  PROVE  /\ Aside(ByProcessor(S)) \subseteq S /\ Aside(ByProcessor(S)) # {}
         /\ \A c \in Aside(ByProcessor(S)) : OnLast(c, S)
  <1>. DEFINE list == ByProcessor(S)
  <1>1. S \in SUBSET Numbers /\ S \in SUBSET Nat
    BY NumbersAre DEF Machine
  <1>2. list \in Seq(Nat) /\ CoresOf(list) = S /\ Distinct(list) /\ Sorted(S, list)
    BY <1>1, ListIs
  <1>. HIDE DEF list
  <1>. DEFINE c == list[Len(list)]
  <1>3. Len(list) \in Nat /\ Len(list) \in 1..Len(list)
    <2>1. Len(list) \in Nat
      BY <1>2
    <2>2. Len(list) # 0
      BY <1>2, <2>1 DEF CoresOf
    <2>. QED  BY <2>1, <2>2
  <1>4. Aside(list) = {c}
    <2>1. CASE Len(list) > 1
      BY <2>1 DEF Aside, Last
    <2>2. CASE ~(Len(list) > 1)
      <3>1. Len(list) = 1
        <4>1. \A n \in Nat : n \in 1..n /\ ~(n > 1) => n = 1
          OBVIOUS
        <4>. QED  BY <1>3, <2>2, <4>1
      <3>2. CoresOf(list) = {list[1]}
        BY <3>1 DEF CoresOf
      <3>. QED  BY <1>2, <2>2, <3>1, <3>2, ListedIs DEF Aside
    <2>. QED  BY <2>1, <2>2
  <1>5. c \in S /\ c \in Nat
    BY <1>1, <1>2, <1>3 DEF CoresOf
  <1>6. ASSUME NEW d \in S, d # c PROVE InOrderOf(S, d, c)
    <2>1. PICK j \in 1..Len(list) : list[j] = d
      BY <1>2 DEF CoresOf
    <2>2. j < Len(list)
      BY <1>3, <1>6, <2>1
    <2>. QED  BY <1>2, <1>3, <2>1, <2>2 DEF Sorted
  <1>. HIDE DEF c
  <1>7. ASSUME NEW d \in Siblings(c) \cap S PROVE d <= c
    <2>1. processor[d] = processor[c] /\ d \in Nat
      BY <1>1 DEF Siblings
    <2>2. d # c => d < c
      BY <1>6, <2>1 DEF InOrderOf
    <2>. QED  BY <1>5, <2>1, <2>2
  <1>8. ASSUME NEW d \in S
        PROVE  \E e \in Siblings(d) \cap S : \A f \in Siblings(c) \cap S : e <= f
    <2>. DEFINE B == Siblings(d) \cap S
    <2>1. B \in SUBSET Nat /\ IsFiniteSet(B) /\ d \in B /\ B # {}
      <3>1. d \in B
        BY DEF Siblings
      <3>2. B \in SUBSET Numbers
        BY <1>1
      <3>. HIDE DEF B
      <3>. QED  BY <3>1, <3>2, NumbersAre
    <2>. HIDE DEF B
    <2>2. PICK e \in B : \A x \in B : e <= x
      BY <2>1, LeastIs
    <2>3. ASSUME NEW f \in Siblings(c) \cap S PROVE e <= f
      <3>1. CASE processor[d] = processor[c]
        <4>1. f \in B
          BY <3>1 DEF B, Siblings
        <4>. QED  BY <2>2, <4>1
      <3>2. CASE processor[d] # processor[c]
        <4>1. d # c
          BY <3>2
        <4>2. InOrderOf(S, d, c)
          BY <1>6, <4>1
        <4>3. PICK x \in B : x < f
          BY <3>2, <4>2 DEF InOrderOf, B
        <4>4. e \in Nat /\ x \in Nat /\ f \in Nat /\ e <= x
          BY <1>1, <2>1, <2>2, <4>3
        <4>. QED  BY <4>3, <4>4
      <3>. QED  BY <3>1, <3>2
    <2>. QED  BY <2>2, <2>3 DEF B
  <1>9. OnLast(c, S)
    BY <1>5, <1>7, <1>8 DEF OnLast
  <1>. QED  BY <1>4, <1>5, <1>9 DEF list

LEMMA GivenInvNext ==
  ASSUME FewCores, Gapless, SinglesListed, CoresInv, GivenInv, [CoresNext]_cvars
  PROVE  GivenInv'
  <1>1. Given \subseteq Online /\ (\A c \in Online : c < Len(available)) /\ Machine
    BY MachinesList, MachineIs DEF CoresInv, CoresTypeOK
  <1>2. affinity \in SUBSET Online /\ affinity # {} /\ solverCores \in SUBSET Online
    BY DEF CoresInv, CoresTypeOK
  <1>3. CASE ReadItem
    <2>1. UNCHANGED available /\ pc' \in {"select", "setaffinity"}
      BY <1>3 DEF ReadItem
    <2>2. (ToSet(selected) = Given)'
      <3>1. CASE \E a \in Singles : One(a)
        <4>1. PICK a \in Singles : One(a)
          BY <3>1
        <4>2. a \in Nat /\ a \in Online
          BY CoresAssumption DEF SinglesListed, CoresInv, CoresTypeOK, Online
        <4>3. a < Len(available)
          BY <1>1, <4>2
        <4>. QED  BY <2>1, <4>1, <4>2, <4>3, OneGives DEF GivenInv
      <3>2. CASE \E a, b \in Bounds : Several(a, b)
        <4>1. PICK a, b \in Bounds : Several(a, b)
          BY <3>2
        <4>2. a \in Nat /\ b \in Nat
          BY CoresAssumption
        <4>. QED  BY <2>1, <4>1, <4>2, SeveralGive DEF GivenInv
      <3>. QED  BY <1>3, <3>1, <3>2 DEF ReadItem
    <2>. QED  BY <2>1, <2>2 DEF GivenInv, OnLastProcessor
  <1>4. CASE SyntaxError
    <2>1. UNCHANGED <<available, selected, items>> /\ pc' = "exit"
      BY <1>4 DEF SyntaxError
    <2>2. UNCHANGED Given
      BY <2>1 DEF Given, GivenBy, PlacesOf
    <2>. QED  BY <2>1, <2>2 DEF GivenInv, OnLastProcessor
  <1>5. CASE setaffinity
    <2>1. /\ UNCHANGED <<available, selected, items>> /\ pc' = "options"
          /\ affinity' = Granted(ToSet(selected))
      BY <1>5 DEF setaffinity
    <2>2. UNCHANGED Given
      BY <2>1 DEF Given, GivenBy, PlacesOf
    <2>3. Given # {} => affinity' = Given
      BY <1>1, <2>1 DEF GivenInv, Granted
    <2>. QED  BY <2>1, <2>2, <2>3 DEF GivenInv, OnLastProcessor
  <1>6. CASE PrintCores
    <2>1. UNCHANGED <<available, selected, items, affinity, solverCores>> /\ pc' = "fork" /\ pc = "options"
      BY <1>6 DEF PrintCores
    <2>2. UNCHANGED Given
      BY <2>1 DEF Given, GivenBy, PlacesOf
    <2>. QED  BY <2>1, <2>2 DEF GivenInv, OnLastProcessor
  <1>7. CASE ForkSolver
    <2>1. /\ UNCHANGED <<available, selected, items, affinity>> /\ pc' = "aside" /\ pc = "fork"
          /\ solverCores' = affinity
      BY <1>7 DEF ForkSolver
    <2>2. UNCHANGED Given
      BY <2>1 DEF Given, GivenBy, PlacesOf
    <2>. QED  BY <2>1, <2>2 DEF GivenInv, OnLastProcessor
  <1>8. CASE RunAside
    <2>1. /\ UNCHANGED <<processor, available, selected, items, solverCores>>
          /\ pc' = "running" /\ pc = "aside"
          /\ affinity' = Granted(Aside(ByProcessor(affinity)))
      BY <1>8 DEF RunAside, getAllocatedCoresByProcessorOrder
    <2>2. UNCHANGED Given
      BY <2>1 DEF Given, GivenBy, PlacesOf
    <2>3. solverCores = affinity
      BY <2>1 DEF GivenInv
    <2>4. affinity' = Aside(ByProcessor(affinity))
      BY <1>1, <1>2, <2>1, LastIs DEF Granted
    <2>5. \A c \in affinity' : OnLast(c, solverCores)
      BY <1>1, <1>2, <2>3, <2>4, LastIs
    <2>6. OnLastProcessor'
      BY <2>1, <2>5 DEF OnLastProcessor, OnLast, Siblings, Online
    <2>. QED  BY <2>1, <2>2, <2>6 DEF GivenInv
  <1>9. CASE UNCHANGED cvars
    <2>1. UNCHANGED Given
      BY <1>9 DEF cvars, Given, GivenBy, PlacesOf
    <2>. QED  BY <1>9, <2>1 DEF cvars, GivenInv, OnLastProcessor, Siblings, Online
  <1>10. CASE selectCores
    <2>1. selected' = <<>> /\ items' = <<>> /\ pc' = "select"
      BY <1>10 DEF selectCores
    <2>2. ToSet(selected') = {} /\ PlacesOf(items') = {}
      BY <2>1 DEF ToSet, PlacesOf
    <2>3. Given' = {}
      BY <2>2 DEF Given, GivenBy
    <2>. QED  BY <2>1, <2>2, <2>3 DEF GivenInv, OnLastProcessor
  <1>. QED  BY <1>3, <1>4, <1>5, <1>6, <1>7, <1>8, <1>9, <1>10 DEF CoresNext

(* The solver gets the cores its last list asks for, and runsolver stays on the *)
(* last one of the processor that begins last, on every machine without    *)
(* gaps of at most 32 cores, for lists whose single numbers are its cores. *)
THEOREM CoresAreGiven ==
  ASSUME FewCores, Gapless, SinglesListed
  PROVE  CoresSpec => []CoresGiven
  <1>1. CoresInit => GivenInv
    BY GivenInvInit
  <1>2. CoresInv /\ GivenInv /\ [CoresNext]_cvars => GivenInv'
    BY GivenInvNext
  <1>3. CoresInv /\ GivenInv => CoresGiven
    <2>. SUFFICES ASSUME CoresInv, GivenInv PROVE CoresGiven
      OBVIOUS
    <2>1. Given = Asked
      BY MachinesList
    <2>. QED  BY <2>1 DEF GivenInv, CoresGiven, SolverGetsAsked
  <1>. QED  BY <1>1, <1>2, <1>3, CoresInductive, PTL DEF CoresSpec
=============================================================================
