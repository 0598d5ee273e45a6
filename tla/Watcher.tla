------------------------------ MODULE Watcher ------------------------------
(***************************************************************************)
(* How runsolver starts, watches and ends a solver (runsolver.cc): the     *)
(* main thread (run), the timer thread, the handler of SIGTERM, which runs *)
(* in the main thread, stopSolver, which the last two call, and the        *)
(* threads it creates to send SIGKILL.                                     *)
(*                                                                         *)
(* The solver is its root, "R", and one more process, "K". A process group *)
(* is "rs" (that of runsolver), "r" (that of the root) or "k" (one that K  *)
(* makes). A tree is what ProcessTree keeps: the processes that are        *)
(* reached from the root, solverProcessGroups, treeHasAllProcesses and     *)
(* whether it knows runsolverGroupId.                                      *)
(*                                                                         *)
(* procTree and lastProcTree are pointers, to two trees or to the same;    *)
(* the thread that fills a tree has a pointer of its own, and another may  *)
(* have replaced procTree meanwhile: filling says which of the two it is   *)
(* ("old" is neither, or a tree that has been deleted).                    *)
(***************************************************************************)
EXTENDS Integers, FiniteSets

CONSTANTS
  MaxEvents,    \* bound: forks of the solver (one at most) and signals to
                \* runsolver, together
  timeStamping, \* the option: a pipe carries the output of the solver
  EarlySignals, \* SIGTERM comes before the solver runs, not when it runs
  FullEvery     \* updates between two readings of all processes (10)

ASSUME WatcherAssumption ==
  MaxEvents \in Nat /\ {timeStamping, EarlySignals} \subseteq BOOLEAN /\ FullEvery \in Nat

VARIABLES
  root,       \* unborn, run, zombie or gone
  rootGroup,  \* its group, "rs" until it calls setpgid
  kid,        \* unborn, run or gone
  kidGroup, kidOrphan, kidHoldsPipe,
  limitReached,   \* one of the limits is
  signals,        \* sent so far
  childpid,       \* run knows the pid of the root
  solverIsRunning,
  procTree, lastProcTree,
  filling,    \* the tree that the timer or the handler fills
  stopSolverStarted,
  stopSolverThreadStarted,
  stopSolverThreadTID, \* the one whose killer it is, or "none"
  count,      \* updates of the timer since it read all processes
  main,       \* where run is
  stop,       \* where the timer and the handler are
  killer,     \* of the one and of the other
  selfKilled  \* runsolver has sent itself SIGKILL

solver == <<root, rootGroup, kid, kidGroup, kidOrphan, kidHoldsPipe>>
env    == <<limitReached, signals>>
trees  == <<procTree, lastProcTree, filling>>
flags  == <<stopSolverStarted, stopSolverThreadStarted, stopSolverThreadTID>>
vars   == <<solver, env, childpid, solverIsRunning, trees, flags, count, main, stop, killer,
            selfKilled>>

Callers == {"timer", "handler"}
Groups  == {"rs", "r", "k"}
NoTree  == [procs |-> {}, groups |-> {}, all |-> FALSE, knows |-> TRUE]
Same    == [NoTree EXCEPT !.procs = {"same"}]  \* lastProcTree is procTree

Events == signals + (IF kid = "unborn" THEN 0 ELSE 1)

Init ==
  /\ root = "unborn" /\ rootGroup = "rs"
  /\ kid = "unborn" /\ kidGroup = "r" /\ kidOrphan = FALSE /\ kidHoldsPipe = FALSE
  /\ limitReached = FALSE
  /\ signals = 0
  /\ childpid = FALSE
  /\ solverIsRunning = FALSE
  /\ procTree = NoTree /\ lastProcTree = NoTree
  /\ filling = [c \in Callers |-> "none"]
  /\ stopSolverStarted = FALSE
  /\ stopSolverThreadStarted = FALSE
  /\ stopSolverThreadTID = "none"
  /\ count = 0
  /\ main = "fork"
  /\ stop = [c \in Callers |-> "none"]
  /\ killer = [c \in Callers |-> "none"]
  /\ selfKilled = FALSE

-----------------------------------------------------------------------------
(* The solver, and what happens to runsolver.                              *)

setpgid ==
  /\ root = "run" /\ rootGroup = "rs"
  /\ rootGroup' = "r"
  /\ UNCHANGED <<root, kid, kidGroup, kidOrphan, kidHoldsPipe>>

(* After setpgid and execvp the root is the solver.                        *)
Fork ==
  /\ root = "run" /\ rootGroup = "r" /\ kid = "unborn" /\ Events < MaxEvents
  /\ kid' = "run"
  /\ kidHoldsPipe' = timeStamping
  /\ UNCHANGED <<root, rootGroup, kidGroup, kidOrphan>>

KidMoves ==
  /\ kid = "run"
  /\ \/ kidGroup = "r" /\ kidGroup' = "k" /\ UNCHANGED <<kid, kidHoldsPipe>>
     \/ kid' = "gone" /\ kidHoldsPipe' = FALSE /\ UNCHANGED kidGroup
  /\ UNCHANGED <<root, rootGroup, kidOrphan>>

RootExits ==
  /\ root = "run" /\ rootGroup = "r"
  /\ root' = "zombie"
  /\ kidOrphan' = (kid = "run")
  /\ UNCHANGED <<rootGroup, kid, kidGroup, kidHoldsPipe>>

Solver ==
  /\ setpgid \/ Fork \/ KidMoves \/ RootExits
  /\ UNCHANGED <<env, childpid, solverIsRunning, trees, flags, count, main, stop, killer,
                 selfKilled>>

LimitReached ==
  /\ root = "run" /\ ~limitReached
  /\ limitReached' = TRUE
  /\ UNCHANGED <<solver, signals, childpid, solverIsRunning, trees, flags, count,
                 main, stop, killer, selfKilled>>

(* What SIGKILL does to those of S, and to those of groups G.              *)
Killed(S) ==
  /\ root' = IF "R" \in S /\ root = "run" THEN "zombie" ELSE root
  /\ kid' = IF "K" \in S /\ kid = "run" THEN "gone" ELSE kid
  /\ kidHoldsPipe' = (kidHoldsPipe /\ kid' = "run")
  /\ kidOrphan' = (kidOrphan \/ (root = "run" /\ root' = "zombie" /\ kid' = "run"))
  /\ UNCHANGED <<rootGroup, kidGroup>>
Of(G) == {p \in {"R", "K"} : IF p = "R" THEN rootGroup \in G ELSE kidGroup \in G}

-----------------------------------------------------------------------------
(* readProcessData.  procTree is replaced at once by the tree to be read.  *)

(* The copy of a tree has its processes; it has not its groups, and        *)
(* runsolverGroupId is whatever is there (ProcessTree.hh:71).  The mutant  *)
(* forgets the processes.                                                  *)
CopyEmpty(t) == {[NoTree EXCEPT !.knows = k] : k \in BOOLEAN}

Copy(t) == {[NoTree EXCEPT !.procs = t.procs, !.knows = k] : k \in BOOLEAN}

Older == [none |-> "none", cur |-> "last", last |-> "old", old |-> "old"]

BeginSample(c, full) ==
  /\ lastProcTree' = procTree
  /\ \E t \in Copy(procTree) : procTree' = IF full THEN [t EXCEPT !.procs = {}] ELSE t
  /\ filling' = [d \in Callers |-> IF d = c THEN "cur" ELSE Older[filling[d]]]

Filled(c) == IF filling[c] = "last" THEN lastProcTree ELSE procTree

(* The tree that c fills becomes one of T.  When procTree, which may be    *)
(* another by now, has no root, it is deleted and is lastProcTree again.   *)
EndSample(c, T, ended) ==
  \E t \in T :
    LET cur  == IF filling[c] = "cur" THEN t ELSE procTree
        last == IF filling[c] = "last" THEN t ELSE lastProcTree
    IN /\ ended = ("R" \notin cur.procs)
       /\ procTree' = IF ~ended \/ last = Same THEN cur ELSE last
       /\ lastProcTree' = IF ended THEN Same ELSE last
       /\ filling' = [d \in Callers |->
            IF d = c THEN "none"
            ELSE IF ~ended \/ lastProcTree = Same THEN filling[d]
            ELSE [none |-> "none", cur |-> "old", last |-> "cur", old |-> "old"][filling[d]]]

(* readProcesses: the root and its children, and their groups but that of  *)
(* runsolver.  When the root is gone after the listing it has an entry     *)
(* whose group is whatever is there.                                       *)
Listed ==
  (IF root \in {"run", "zombie"} THEN {"R"} ELSE {})
    \cup (IF root \in {"run", "zombie"} /\ kid = "run" /\ ~kidOrphan THEN {"K"} ELSE {})
GroupsOf(S) == {IF p = "R" THEN rootGroup ELSE kidGroup : p \in S}
Kept(t, G) == IF t.knows THEN G \ {"rs"} ELSE G

ReadRoot(t) ==
  IF root \in {"run", "zombie"}
  THEN {[t EXCEPT !.procs = Listed, !.groups = Kept(t, GroupsOf(Listed)), !.all = TRUE]}
  ELSE {[t EXCEPT !.procs = {}, !.groups = {}, !.all = TRUE]}
         \cup {[t EXCEPT !.procs = {"R"}, !.groups = Kept(t, {g}), !.all = TRUE] : g \in Groups}

(* Before run calls setDefaultRootPID there is no root to be found.        *)
ReadAll(t) ==
  ReadRoot(t) \cup
    (IF main = "read" THEN {[t EXCEPT !.procs = {}, !.groups = {}, !.all = TRUE]} ELSE {})

(* updateProcessesData: those that are gone are forgotten.                 *)
Updated(t) ==
  [t EXCEPT !.procs = IF root = "gone" THEN {}
                      ELSE {p \in t.procs : p = "R" \/ kid = "run"}]

-----------------------------------------------------------------------------
(* timerThread.                                                            *)

At(c, from, to) == stop[c] = from /\ stop' = [stop EXCEPT ![c] = to]

Full == count = FullEvery

TimerLoop ==
  /\ stop["timer"] = "loop"
  /\ IF ~solverIsRunning
     THEN stop' = [stop EXCEPT !["timer"] = "ended"] /\ UNCHANGED <<trees, count>>
     ELSE /\ BeginSample("timer", Full)
          /\ count' = IF Full THEN 0 ELSE count + 1
          /\ stop' = [stop EXCEPT !["timer"] = IF Full THEN "full" ELSE "update"]
  /\ UNCHANGED <<solver, env, childpid, solverIsRunning, flags, main, killer, selfKilled>>

(* The sample is complete: the root is found to have ended, or a limit is  *)
(* reached, or the sample may be displayed.  The mutants do not look at    *)
(* the limits, or stop the solver whatever they are.                       *)
AfterSampleUnlimited == "display"
AfterSampleAlways == "test"

AfterSample == IF limitReached THEN "test" ELSE "display"

TimerSampled ==
  /\ stop["timer"] \in {"full", "update"}
  /\ \E ended \in BOOLEAN :
       /\ LET t == Filled("timer")
          IN EndSample("timer", IF stop["timer"] = "full" THEN ReadAll(t) ELSE {Updated(t)}, ended)
       /\ stop' = [stop EXCEPT !["timer"] = IF ended THEN "ended" ELSE AfterSample]
       /\ solverIsRunning' = (solverIsRunning /\ ~ended)
  /\ UNCHANGED <<solver, env, childpid, flags, count, main, killer, selfKilled>>

(* displayProcessData: where the heavy processes are looked for, all are   *)
(* read again unless the tree has them (dumpHeavyProcesses).               *)
AfterDisplay == [display |-> "loop", show |-> "create", reread |-> "loop", reshow |-> "create"]

Displays(c) ==
  /\ stop[c] \in {"display", "show"}
  /\ stop' = [stop EXCEPT ![c] = AfterDisplay[@]]
  /\ UNCHANGED <<solver, env, childpid, solverIsRunning, trees, flags, count, main, killer,
                 selfKilled>>

Rereads(c) ==
  /\ stop[c] \in {"display", "show"} /\ ~procTree.all
  /\ stop' = [stop EXCEPT ![c] = IF @ = "display" THEN "reread" ELSE "reshow"]
  /\ procTree' = [procTree EXCEPT !.procs = {}, !.groups = {}]
  /\ filling' = [filling EXCEPT ![c] = "cur"]
  /\ UNCHANGED <<solver, env, childpid, solverIsRunning, lastProcTree, flags, count, main,
                 killer, selfKilled>>

Reread(c) ==
  /\ stop[c] \in {"reread", "reshow"}
  /\ stop' = [stop EXCEPT ![c] = AfterDisplay[@]]
  /\ \E t \in ReadAll(Filled(c)) :
       /\ procTree' = IF filling[c] = "cur" THEN t ELSE procTree
       /\ lastProcTree' = IF filling[c] = "last" THEN t ELSE lastProcTree
  /\ filling' = [filling EXCEPT ![c] = "none"]
  /\ UNCHANGED <<solver, env, childpid, solverIsRunning, flags, count, main, killer, selfKilled>>

Display(c) == Displays(c) \/ Rereads(c) \/ Reread(c)

(* stopSolver, called by c: it does nothing when it was called before.     *)
Return(c) == IF c = "timer" THEN "display" ELSE "none"

(* The mutant keeps out of the way of a sample of the other.               *)
StopTestsIdle(c) ==
  /\ stop[c] = "test"
  /\ stop' = [stop EXCEPT ![c] =
       IF stopSolverStarted \/ \E d \in Callers : filling[d] # "none" THEN Return(c) ELSE "set"]
  /\ UNCHANGED <<solver, env, childpid, solverIsRunning, trees, flags, count, main, killer,
                 selfKilled>>

StopTests(c) ==
  /\ stop[c] = "test"
  /\ stop' = [stop EXCEPT ![c] = IF stopSolverStarted THEN Return(c) ELSE "set"]
  /\ UNCHANGED <<solver, env, childpid, solverIsRunning, trees, flags, count, main, killer,
                 selfKilled>>

StopSets(c) ==
  /\ stop[c] = "set"
  /\ stopSolverStarted' = TRUE
  /\ IF childpid THEN BeginSample(c, TRUE) /\ stop' = [stop EXCEPT ![c] = "fill"]
     ELSE UNCHANGED trees /\ stop' = [stop EXCEPT ![c] = "create"]
  /\ UNCHANGED <<solver, env, childpid, solverIsRunning, stopSolverThreadStarted,
                 stopSolverThreadTID, count, main, killer, selfKilled>>

StopSampled(c) ==
  /\ At(c, "fill", "show")
  /\ \E ended \in BOOLEAN : EndSample(c, ReadAll(Filled(c)), ended)
  /\ UNCHANGED <<solver, env, childpid, solverIsRunning, flags, count, main, killer, selfKilled>>

(* SIGTERM is sent, which the solver may ignore, and the thread created.   *)
StopCreates(c) ==
  /\ At(c, "create", "note")
  /\ killer' = [killer EXCEPT ![c] = "begin"]
  /\ stopSolverThreadTID' = c
  /\ UNCHANGED <<solver, env, childpid, solverIsRunning, trees, stopSolverStarted,
                 stopSolverThreadStarted, count, main, selfKilled>>

StopNotes(c) ==
  /\ At(c, "note", Return(c))
  /\ stopSolverThreadStarted' = TRUE
  /\ UNCHANGED <<solver, env, childpid, solverIsRunning, trees, stopSolverStarted,
                 stopSolverThreadTID, count, main, killer, selfKilled>>

Stop(c) == StopTests(c) \/ StopSets(c) \/ StopSampled(c) \/ StopCreates(c) \/ StopNotes(c)

(* SIGTERM or SIGINT: the handler takes over the main thread.              *)
Signal ==
  /\ Events < MaxEvents /\ stop["handler"] = "none" /\ main # "end"
  /\ IF EarlySignals THEN main \in {"fork", "forked"} ELSE solverIsRunning
  /\ signals' = signals + 1
  /\ stop' = [stop EXCEPT !["handler"] = "test"]
  /\ UNCHANGED <<solver, limitReached, childpid, solverIsRunning, trees, flags,
                 count, main, killer, selfKilled>>

-----------------------------------------------------------------------------
(* waitAndSendSIGKILL: the thread sleeps only while the solver runs, and   *)
(* looks again after the sleep.                                            *)
KillerBegins(c) ==
  /\ killer[c] = "begin"
  /\ killer' = [killer EXCEPT ![c] = IF solverIsRunning THEN "sleep" ELSE "look"]
  /\ UNCHANGED <<solver, env, childpid, solverIsRunning, trees, flags, count, main, stop,
                 selfKilled>>

(* The sleep is long enough for the root to have called setpgid.           *)
KillerLooks(c) ==
  /\ killer[c] = "look" \/ (killer[c] = "sleep" /\ rootGroup = "r")
  /\ killer' = [killer EXCEPT ![c] = IF solverIsRunning THEN "kill" ELSE "ended"]
  /\ UNCHANGED <<solver, env, childpid, solverIsRunning, trees, flags, count, main, stop,
                 selfKilled>>

KillTargets == Of({"r"})

KillerKills(c) ==
  /\ killer[c] = "kill"
  /\ Killed(KillTargets)
  /\ killer' = [killer EXCEPT ![c] = "ended"]
  /\ UNCHANGED <<env, childpid, solverIsRunning, trees, flags, count, main, stop, selfKilled>>

Killer(c) == KillerBegins(c) \/ KillerLooks(c) \/ KillerKills(c)

-----------------------------------------------------------------------------
(* run.                                                                    *)

MainStep(from, to) == main = from /\ main' = to /\ stop["handler"] = "none"

MainForks ==
  /\ MainStep("fork", "forked")
  /\ root' = "run"
  /\ childpid' = TRUE
  /\ UNCHANGED <<rootGroup, kid, kidGroup, kidOrphan, kidHoldsPipe, env, solverIsRunning, trees,
                 flags, count, stop, killer, selfKilled>>

MainRuns ==
  /\ MainStep("forked", "read")
  /\ solverIsRunning' = TRUE
  /\ UNCHANGED <<solver, env, childpid, trees, flags, count, stop, killer, selfKilled>>

(* The first reading, into the tree made by the constructor, and the timer *)
(* thread.                                                                 *)
MainReads ==
  /\ MainStep("read", "wait")
  /\ procTree' \in ReadRoot(procTree)
  /\ stop["timer"] = "none" /\ stop' = [stop EXCEPT !["timer"] = "loop"]
  /\ UNCHANGED <<solver, env, childpid, solverIsRunning, lastProcTree, filling, flags,
                 count, killer, selfKilled>>

(* wait4 returns.                                                          *)
MainWaits ==
  /\ MainStep("wait", "kill")
  /\ root = "zombie" /\ root' = "gone"
  /\ solverIsRunning' = FALSE
  /\ UNCHANGED <<rootGroup, kid, kidGroup, kidOrphan, kidHoldsPipe, env, childpid, trees, flags,
                 count, stop, killer, selfKilled>>

(* "Kill them all!": by the tree, then by the groups.                      *)
sendSignalNow == procTree.procs
sendSignalToProcessGroups == Of(procTree.groups)

MainKills ==
  /\ MainStep("kill", "killGroups")
  /\ Killed(sendSignalNow)
  /\ UNCHANGED <<env, childpid, solverIsRunning, trees, flags, count, stop, killer, selfKilled>>

MainKillsGroups ==
  /\ MainStep("killGroups", "joinStamper")
  /\ Killed(sendSignalToProcessGroups)
  /\ selfKilled' = ("rs" \in procTree.groups)
  /\ UNCHANGED <<env, childpid, solverIsRunning, trees, flags, count, stop, killer>>

(* The time stamper ends when nobody holds the pipe: runsolver has closed  *)
(* its own write side.  The mutant has not.                                *)
PipeHeldHere == timeStamping

PipeHeld == kidHoldsPipe

MainJoinsStamper ==
  /\ MainStep("joinStamper", "joinKiller")
  /\ timeStamping => ~PipeHeld
  /\ UNCHANGED <<solver, env, childpid, solverIsRunning, trees, flags, count, stop, killer,
                 selfKilled>>

(* The thread joined is the last one created.                              *)
MainJoinsKiller ==
  /\ MainStep("joinKiller", "joinTimer")
  /\ stopSolverThreadStarted => killer[stopSolverThreadTID] = "ended"
  /\ UNCHANGED <<solver, env, childpid, solverIsRunning, trees, flags, count, stop, killer,
                 selfKilled>>

MainJoinsTimer ==
  /\ MainStep("joinTimer", "end")
  /\ stop["timer"] = "ended"
  /\ UNCHANGED <<solver, env, childpid, solverIsRunning, trees, flags, count, stop, killer,
                 selfKilled>>

Main ==
  \/ MainForks \/ MainRuns \/ MainReads \/ MainWaits \/ MainKills \/ MainKillsGroups
  \/ MainJoinsStamper \/ MainJoinsKiller \/ MainJoinsTimer

Timer == TimerLoop \/ TimerSampled

Next ==
  \/ Solver \/ LimitReached
  \/ /\ ~selfKilled
     /\ Signal \/ Main \/ Timer \/ \E c \in Callers : Display(c) \/ Stop(c) \/ Killer(c)

Spec == Init /\ [][Next]_vars

(* The threads are scheduled and the root comes to call setpgid; nothing   *)
(* else makes the solver end.                                              *)
FairSpec ==
  /\ Spec
  /\ WF_vars(~selfKilled /\ Main)
  /\ WF_vars(~selfKilled /\ Timer)
  /\ \A c \in Callers : /\ WF_vars(~selfKilled /\ (Display(c) \/ Stop(c)))
                         /\ WF_vars(~selfKilled /\ Killer(c))
  /\ WF_vars(setpgid /\ UNCHANGED <<env, childpid, solverIsRunning, trees, flags, count, main,
                                    stop, killer, selfKilled>>)
-----------------------------------------------------------------------------
(* Properties.                                                             *)

Tree == [procs : SUBSET {"R", "K"}, groups : SUBSET Groups, all : BOOLEAN, knows : BOOLEAN]

TypeOK ==
  /\ root \in {"unborn", "run", "zombie", "gone"} /\ rootGroup \in {"rs", "r"}
  /\ kid \in {"unborn", "run", "gone"} /\ kidGroup \in {"r", "k"}
  /\ {kidOrphan, kidHoldsPipe, limitReached, childpid, solverIsRunning,
      stopSolverStarted, stopSolverThreadStarted, selfKilled} \subseteq BOOLEAN
  /\ signals \in 0..MaxEvents
  /\ procTree \in Tree /\ lastProcTree \in Tree \cup {Same}
  /\ filling \in [Callers -> {"none", "cur", "last", "old"}]
  /\ stopSolverThreadTID \in Callers \cup {"none"}
  /\ count \in 0..FullEvery
  /\ main \in {"fork", "forked", "read", "wait", "kill", "killGroups", "joinStamper",
               "joinKiller", "joinTimer", "end"}
  /\ stop \in [Callers -> {"none", "loop", "full", "update", "display", "reread", "test", "set",
                           "fill", "show", "reshow", "create", "note", "ended"}]
  /\ killer \in [Callers -> {"none", "begin", "sleep", "look", "kill", "ended"}]

(* When a limit is reached the root is dead in the end, whatever it does   *)
(* with SIGTERM (runsolver.cc:531-538 and 1552-1640), as long as nobody    *)
(* signals runsolver.                                                      *)
LimitEnforced == (limitReached /\ signals = 0) ~> (root \in {"zombie", "gone"} \/ signals > 0)

(* After a limit or a signal somebody comes to create a killer, unless the *)
(* root ends by itself: the timer and the handler, which may be in         *)
(* stopSolver at once and in each other's samples, never leave it to one   *)
(* another (runsolver.cc:376, 531-538 and 1552-1640).  SignalEnforced says *)
(* what the killer then fails to do.                                       *)
SomeoneStops ==
  (limitReached \/ signals > 0) ~>
    (root \in {"zombie", "gone"} \/ \E c \in Callers : killer[c] # "none")

(* When the root has ended so does runsolver, as soon as no process holds  *)
(* the pipe of the output (runsolver.cc:1330-1339), with a signal too.     *)
Ends == (root = "gone" /\ ~kidHoldsPipe) ~> (main = "end" \/ selfKilled)

(* Whoever clears solverIsRunning, the timer or run, is right: the root    *)
(* has ended, so that no killer gives up too early (runsolver.cc:418, 1307 *)
(* and 1627).  It needs the timer to be alone with the trees: the handler  *)
(* of a signal is not.                                                     *)
EndedWhenToldSo ==
  (signals = 0 /\ main \notin {"fork", "forked"} /\ ~solverIsRunning)
    => root \in {"zombie", "gone"}

(* A thread that will kill was created for a reason (runsolver.cc:376 and  *)
(* 531-538).                                                               *)
KilledForAReason == \A c \in Callers : killer[c] # "none" => limitReached \/ signals > 0

(* The threads agree on what has happened to the solver.                   *)
WatchHolds == TypeOK /\ EndedWhenToldSo /\ KilledForAReason

-----------------------------------------------------------------------------
(* What comments and the Changelog say; none of it holds.                  *)

(* "A few seconds later, the program will receive a SIGKILL signal from    *)
(* the controlling program" (runsolver.cc:1563), after a limit or a signal.*)
SignalEnforced == (limitReached \/ signals > 0) ~> root \in {"zombie", "gone"}

(* "some of its processes can still be running. Kill them all!"            *)
(* (runsolver.cc:1311): none is left when runsolver goes on.               *)
AllKilled == main \in {"joinStamper", "joinKiller", "joinTimer", "end"} => kid # "run"

(* "wait for the stop solver thread to output the last lines"              *)
(* (runsolver.cc:1335): the thread has ended when runsolver does.          *)
KillerJoined == main = "end" => \A c \in Callers : killer[c] \in {"none", "ended"}

(* "signalled its own process group and killed itself" (Changelog, 3.3.3), *)
(* fixed with runsolverGroupId (ProcessTree.hh:569).                       *)
NeverKillsItself == ~selfKilled
=============================================================================
