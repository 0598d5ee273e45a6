----------------------------- MODULE Accounting -----------------------------
(***************************************************************************)
(* The CPU time of the solver as runsolver sees it: the tree of processes  *)
(* read from /proc (ProcessTree.hh, ProcessData.hh), what readProcessData  *)
(* makes of it, and the time run reports in the end (runsolver.cc).        *)
(*                                                                         *)
(* The processes fork, run, end and are waited for, or not, while the tree *)
(* is being read.  User and system time are counted together; threads are  *)
(* not, for the code leaves tasks out of its sums.                         *)
(*                                                                         *)
(* All samples are those of the timer: the periodic ones, and the one that *)
(* stopSolver takes when the timer meets a limit.  What follows therefore  *)
(* holds as long as no signal comes to runsolver, whose handler would take *)
(* a sample of its own while the timer takes one.                          *)
(***************************************************************************)
EXTENDS Sums, Listing, Sequences

CONSTANTS
  Kids,         \* the processes the solver may start, in the order of their pids
  FullEvery,    \* updates between two readings of all processes (10)
  limitCPUTime, \* the limit on the CPU time, 0 for none
  Jump,         \* seconds by which wait4 may exceed the last sample (60)
  MaxCPU,       \* bound: CPU time of all the processes
  MaxSamples    \* bound: samples taken

(* The root of the solver, the process that adopts orphans, and no parent. *)
root == 1
init == 0
None == -1

ASSUME AccountingAssumption ==
  /\ IsFiniteSet(Kids) /\ Kids \subseteq Nat \ {init, root}
  /\ FullEvery \in Nat
  /\ limitCPUTime \in Nat
  /\ Jump \in Nat
  /\ MaxCPU \in Nat
  /\ MaxSamples \in Nat

Pids == Kids \cup {root}

VARIABLES
  state,    \* pid -> unborn, run, zombie or gone
  ppid,     \* pid -> its father
  own,      \* pid -> CPU time it has used
  waited,   \* pid -> CPU time of the children it has waited for
  tree,     \* pid -> what procTree has of it, or NoData
  treeHasAllProcesses,
  todo,     \* the pids still to be read in this sample
  count,    \* updates since all processes were read
  samples,  \* samples begun
  currentCPUTime, lostCPUTime,
  alarm,    \* stopSolver has been called for the CPU time
  stopSolverStarted,
  lastProcTree, \* while stopSolver takes its sample, the tree of the one before
  quiet,    \* a sample reads all processes, and none has moved since it began
  timer,    \* the thread that samples
  running,  \* solverIsRunning
  childrusage, \* what wait4 gave, or None
  reported  \* the CPU time reported in the end, or None

kernel == <<state, ppid, own, waited>>
books  == <<currentCPUTime, lostCPUTime, alarm>>
vars   == <<kernel, tree, treeHasAllProcesses, todo, count, samples, books, stopSolverStarted,
            lastProcTree, quiet, timer, running, childrusage, reported>>

-----------------------------------------------------------------------------
(* The processes.                                                          *)

Exists(p) == state[p] \in {"run", "zombie"}

(* The CPU time all the processes have used.                               *)
Used == Total(own, Pids)

Run(p) ==
  /\ state[p] = "run" /\ Used < MaxCPU
  /\ own' = [own EXCEPT ![p] = @ + 1]
  /\ UNCHANGED <<state, ppid, waited>>

Fork(f, p) ==
  /\ state[f] = "run" /\ state[p] = "unborn"
  /\ \A q \in Pids : q < p => state[q] # "unborn"
  /\ state' = [state EXCEPT ![p] = "run"]
  /\ ppid' = [ppid EXCEPT ![p] = f]
  /\ UNCHANGED <<own, waited>>

(* A process ends.  Its children are adopted; it waits for its father, or  *)
(* not when the father ignores SIGCHLD.                                    *)
Exit(p) ==
  /\ state[p] = "run"
  /\ \E s \in IF p = root THEN {"zombie"} ELSE {"zombie", "gone"} :
       state' = [state EXCEPT ![p] = s]
  /\ ppid' = [q \in Pids |-> IF ppid[q] = p THEN init ELSE ppid[q]]
  /\ UNCHANGED <<own, waited>>

(* The father, or the process that adopted it, waits for it.               *)
Wait(p) ==
  /\ p # root /\ state[p] = "zombie"
  /\ \/ ppid[p] = init /\ UNCHANGED waited
     \/ /\ ppid[p] # init /\ state[ppid[p]] = "run"
        /\ waited' = [waited EXCEPT ![ppid[p]] = @ + own[p] + waited[p]]
  /\ state' = [state EXCEPT ![p] = "gone"]
  /\ UNCHANGED <<ppid, own>>

Processes ==
  /\ \E p \in Pids : Run(p) \/ Exit(p) \/ Wait(p) \/ \E f \in Pids : Fork(f, p)
  /\ quiet' = FALSE
  /\ UNCHANGED <<tree, treeHasAllProcesses, todo, count, samples, books, stopSolverStarted,
                 lastProcTree, timer, running, childrusage, reported>>

-----------------------------------------------------------------------------
(* The tree.                                                               *)

NoData == [ppid |-> None, time |-> None, children |-> {}]

Cleared == [p \in Pids |-> NoData]
NoTree == [tree |-> Cleared, all |-> FALSE]

(* getOverallCPUTime: a process and the children it has waited for.        *)
(* The mutant leaves these out.                                            *)
OverallAlone(p) == own[p]

Overall(p) == own[p] + waited[p]

(* ProcessData::read: a process that is gone has an entry without data.    *)
Read(p) ==
  IF Exists(p) THEN [ppid |-> ppid[p], time |-> Overall(p), children |-> {}]
  ELSE [ppid |-> None, time |-> 0, children |-> {}]

(* The pids of the tree below p, p included.                               *)
Steps(t, p) ==
  LET step[n \in 0..Cardinality(Pids)] ==
        IF n = 0 THEN {p} ELSE step[n - 1] \cup UNION {t[q].children : q \in step[n - 1]}
  IN  step

Below(t, p) == {q \in Steps(t, p)[Cardinality(Pids)] : t[q] # NoData}

(* An entry erased keeps its children from being found.                    *)
ReachedFrom(t, p) == IF t[p] = NoData THEN {} ELSE Below(t, p)

(* identifyChildren: fathers get their children, by the ppids read.        *)
(* The mutant gives the root those whose father is not in the tree.        *)
identifyOrphans(t) ==
  [p \in Pids |-> IF t[p] = NoData THEN NoData
                  ELSE [t[p] EXCEPT !.children =
                          {q \in Pids : t[q].ppid = p \/ (p = root /\ t[q].ppid \notin Pids)}]]

identifyChildren(t) ==
  [p \in Pids |-> IF t[p] = NoData THEN NoData
                  ELSE [t[p] EXCEPT !.children = {q \in Pids : t[q].ppid = p}]]

(* currentCPUTimeRec.                                                      *)
Sum(t) ==
  Total([p \in ReachedFrom(t, root) |-> t[p].time], ReachedFrom(t, root))

(* The copy of the tree a sample begins with: the solver's processes.      *)
clone(t) == [p \in Pids |-> IF p \in ReachedFrom(t, root) THEN t[p] ELSE NoData]

Init ==
  /\ state = [p \in Pids |-> IF p = root THEN "run" ELSE "unborn"]
  /\ ppid = [p \in Pids |-> None]
  /\ own = [p \in Pids |-> 0]
  /\ waited = [p \in Pids |-> 0]
  /\ tree = Cleared
  /\ treeHasAllProcesses = FALSE
  /\ todo = <<>>
  /\ count = 0
  /\ samples = 0
  /\ currentCPUTime = 0 /\ lostCPUTime = 0
  /\ alarm = FALSE
  /\ stopSolverStarted = FALSE
  /\ lastProcTree = NoTree
  /\ quiet = FALSE
  /\ timer = "start"
  /\ running = TRUE
  /\ childrusage = None
  /\ reported = None

(* run reads all the processes before there is a timer.                    *)
BeginFirst ==
  /\ timer = "start"
  /\ treeHasAllProcesses' = TRUE
  /\ timer' = "first"
  /\ UNCHANGED <<kernel, tree, todo, count, samples, books, stopSolverStarted, lastProcTree, quiet,
                 running, childrusage, reported>>

(* timerThread: the loop goes round, and readProcessData begins.           *)
BeginSample ==
  /\ timer = "sleep" /\ running /\ samples < MaxSamples
  /\ samples' = samples + 1
  /\ IF count = FullEvery
     THEN /\ tree' = Cleared
          /\ todo' = <<>>
          /\ count' = 0
          /\ timer' = "read"
     ELSE /\ tree' = clone(tree)
          /\ todo' = <<root>>
          /\ count' = count + 1
          /\ timer' = "update"
  /\ treeHasAllProcesses' = (count = FullEvery)
  /\ quiet' = (count = FullEvery)
  /\ UNCHANGED <<kernel, books, stopSolverStarted, lastProcTree, running, childrusage, reported>>

(* stopSolver: before it sends SIGTERM, all the processes are read.        *)
StopSample ==
  /\ timer = "limit"
  /\ lastProcTree' = [tree |-> tree, all |-> treeHasAllProcesses]
  /\ tree' = Cleared
  /\ todo' = <<>>
  /\ treeHasAllProcesses' = TRUE
  /\ quiet' = TRUE
  /\ timer' = "stop"
  /\ UNCHANGED <<kernel, count, samples, books, stopSolverStarted, running, childrusage, reported>>

(* displayProcessData: where the heavy processes are looked for, all are   *)
(* read again, unless they have been (dumpHeavyProcesses).                 *)
Reread ==
  /\ timer = "sleep" /\ ~treeHasAllProcesses
  /\ tree' = Cleared
  /\ todo' = <<>>
  /\ treeHasAllProcesses' = TRUE
  /\ timer' = "reread"
  /\ UNCHANGED <<kernel, count, samples, books, stopSolverStarted, lastProcTree, quiet, running,
                 childrusage, reported>>

(* The phases in which all the processes are read.                         *)
Readings == {"first", "read", "reread", "stop"}

(* The processes that /proc has behind the last one read.                  *)
Ahead == {p \in Pids : Exists(p) /\ \A q \in Pids : tree[q] # NoData => q < p}

(* readdir: /proc is listed by parts, by the pids there are at that moment.*)
Readdir ==
  /\ timer \in Readings /\ todo = <<>>
  /\ \E last \in Ahead : todo' = Ascending({p \in Ahead : p <= last})
  /\ UNCHANGED <<kernel, tree, treeHasAllProcesses, count, samples, books, stopSolverStarted,
                 lastProcTree, quiet, timer, running, childrusage, reported>>

(* readProcesses: the next pid of the part listed.                         *)
ReadNext ==
  /\ timer \in Readings /\ todo # <<>>
  /\ tree' = [tree EXCEPT ![Head(todo)] = Read(Head(todo))]
  /\ todo' = Tail(todo)
  /\ UNCHANGED <<kernel, treeHasAllProcesses, count, samples, books, stopSolverStarted, lastProcTree,
                 quiet, timer, running, childrusage, reported>>

(* updateProcessesData: a process that is gone is erased, with which those *)
(* below it are no longer found.                                           *)
UpdateNext ==
  /\ timer = "update" /\ todo # <<>>
  /\ LET p == Head(todo) IN
     IF tree[p] = NoData THEN UNCHANGED tree /\ todo' = Tail(todo)
     ELSE IF Exists(p)
     THEN /\ tree' = [tree EXCEPT ![p].ppid = ppid[p], ![p].time = Overall(p)]
          /\ todo' = Ascending(tree[p].children) \o Tail(todo)
     ELSE tree' = [tree EXCEPT ![p] = NoData] /\ todo' = Tail(todo)
  /\ UNCHANGED <<kernel, treeHasAllProcesses, count, samples, books, stopSolverStarted, lastProcTree,
                 quiet, timer, running, childrusage, reported>>

(* The time that is missing since the last sample is taken for lost.       *)
(* The mutant keeps the last loss only.                                    *)
LostLast(now) == IF now < currentCPUTime THEN currentCPUTime - now ELSE lostCPUTime

Lost(now) == IF now < currentCPUTime THEN lostCPUTime + (currentCPUTime - now) ELSE lostCPUTime

(* The tree is complete: readdir, or the recursion, finds no more.         *)
AllRead == todo = <<>> /\ (timer \in Readings => Ahead = {})

procTree == IF timer = "update" THEN tree ELSE identifyChildren(tree)

(* A reading that is not a sample.                                         *)
TreeRead ==
  /\ timer \in {"first", "reread"} /\ AllRead
  /\ tree' = procTree
  /\ timer' = "sleep"
  /\ UNCHANGED <<kernel, treeHasAllProcesses, todo, count, samples, books, stopSolverStarted,
                 lastProcTree, quiet, running, childrusage, reported>>

(* readProcessData does its sums, and the limits are looked at: the CPU    *)
(* time, and those on the elapsed time and the memory, met or not.         *)
Account ==
  /\ timer \in {"read", "update", "stop"} /\ AllRead
  /\ procTree[root] # NoData
  /\ tree' = procTree
  /\ currentCPUTime' = Sum(procTree)
  /\ lostCPUTime' = Lost(Sum(procTree))
  /\ alarm' = (alarm \/ (limitCPUTime # 0 /\ Sum(procTree) + Lost(Sum(procTree)) >= limitCPUTime))
  /\ \E others \in BOOLEAN :
       IF (alarm' \/ others) /\ ~stopSolverStarted
       THEN timer' = "limit" /\ stopSolverStarted' = TRUE
       ELSE timer' = "sleep" /\ UNCHANGED stopSolverStarted
  /\ lastProcTree' = NoTree
  /\ quiet' = FALSE
  /\ UNCHANGED <<kernel, treeHasAllProcesses, todo, count, samples, running, childrusage, reported>>

(* rootProcessEnded: the timer ends, or stopSolver goes on with the tree   *)
(* of the sample before.                                                   *)
RootEnded ==
  /\ timer \in {"read", "update", "stop"} /\ AllRead
  /\ procTree[root] = NoData
  /\ \/ /\ timer = "stop"
        /\ tree' = lastProcTree.tree
        /\ treeHasAllProcesses' = lastProcTree.all
        /\ timer' = "sleep"
        /\ UNCHANGED running
     \/ /\ timer # "stop"
        /\ timer' = "ended"
        /\ running' = FALSE
        /\ UNCHANGED <<tree, treeHasAllProcesses>>
  /\ lastProcTree' = NoTree
  /\ quiet' = FALSE
  /\ UNCHANGED <<kernel, todo, count, samples, books, stopSolverStarted, childrusage, reported>>

(* The loop ends because the solver has.                                   *)
TimerEnds ==
  /\ timer = "sleep" /\ ~running
  /\ timer' = "ended"
  /\ UNCHANGED <<kernel, tree, treeHasAllProcesses, todo, count, samples, books, stopSolverStarted,
                 lastProcTree, quiet, running, childrusage, reported>>

-----------------------------------------------------------------------------
(* run: wait4 returns.                                                     *)
MainWait ==
  /\ state[root] = "zombie" /\ timer \notin {"start", "first"}
  /\ state' = [state EXCEPT ![root] = "gone"]
  /\ childrusage' = Overall(root)
  /\ running' = FALSE
  /\ quiet' = FALSE
  /\ UNCHANGED <<ppid, own, waited, tree, treeHasAllProcesses, todo, count, samples, books,
                 stopSolverStarted, lastProcTree, timer, reported>>

(* The CPU time that is reported: that of wait4 unless the last sample     *)
(* shows it to be wrong, with the time that was lost.                      *)
(* The mutants always take that of wait4, and that of the last sample.     *)
virtualtimeWait4 == childrusage + lostCPUTime

virtualtimeSample == currentCPUTime + lostCPUTime

virtualtime ==
  (IF currentCPUTime > childrusage \/ childrusage > currentCPUTime + Jump
   THEN currentCPUTime ELSE childrusage) + lostCPUTime

Report ==
  /\ childrusage # None /\ timer = "ended" /\ reported = None
  /\ reported' = virtualtime
  /\ UNCHANGED <<kernel, tree, treeHasAllProcesses, todo, count, samples, books, stopSolverStarted,
                 lastProcTree, quiet, timer, running, childrusage>>

Next ==
  \/ Processes
  \/ BeginFirst \/ BeginSample \/ StopSample \/ Reread
  \/ Readdir \/ ReadNext \/ UpdateNext
  \/ TreeRead \/ Account \/ RootEnded \/ TimerEnds
  \/ MainWait \/ Report

Spec == Init /\ [][Next]_vars
-----------------------------------------------------------------------------
(* Properties.                                                             *)

TypeOK ==
  /\ state \in [Pids -> {"unborn", "run", "zombie", "gone"}]
  /\ ppid \in [Pids -> Pids \cup {init, None}]
  /\ own \in [Pids -> 0..MaxCPU]
  /\ waited \in [Pids -> 0..MaxCPU]
  /\ {tree, lastProcTree.tree} \subseteq
       [Pids -> [ppid : Pids \cup {init, None}, time : 0..MaxCPU \cup {None}, children : SUBSET Pids]]
  /\ todo \in Seq(Pids)
  /\ count \in 0..FullEvery
  /\ samples \in 0..MaxSamples
  /\ currentCPUTime \in Nat /\ lostCPUTime \in Nat
  /\ {alarm, stopSolverStarted, quiet, running, treeHasAllProcesses, lastProcTree.all} \subseteq BOOLEAN
  /\ timer \in {"start", "sleep", "update", "limit", "ended"} \cup Readings
  /\ childrusage \in Nat \cup {None}
  /\ reported \in Nat \cup {None}

(* The time given to the limit and to the time stamps never goes back,     *)
(* though processes and their times vanish from the tree (runsolver.cc:    *)
(* 500-503 and 529).                                                       *)
NeverBack == [][currentCPUTime' + lostCPUTime' >= currentCPUTime + lostCPUTime]_vars

(* A sample of all processes during which none moves counts the solver's   *)
(* processes, each once, with what they waited for (ProcessTree.hh:181 and *)
(* :477): those of every set that has the root and, with a process, its    *)
(* children.  It takes the solver for ended when it is gone only, and then *)
(* leaves the times as they were (runsolver.cc:479-485).                   *)
Family(D) == root \in D /\ \A p \in Pids : Exists(p) /\ ppid[p] \in D => p \in D

Descendants == {p \in Pids : \A D \in SUBSET Pids : Family(D) => p \in D}

SampleExact ==
  [][(quiet /\ timer' # timer) =>
       IF Exists(root) THEN currentCPUTime' = Total([p \in Pids |-> own[p] + waited[p]], Descendants)
       ELSE UNCHANGED books]_vars

(* No entry is reached by two ways, nor by a way that comes back to it, so *)
(* the recursions on the tree end and count nothing twice, whatever moved  *)
(* while the entries were read (ProcessTree.hh:455 and :487).              *)
OneFather ==
  \A p \in Pids :
    /\ Cardinality({f \in Pids : p \in tree[f].children}) <= 1
    /\ \A c \in tree[p].children : p \notin ReachedFrom(tree, c)

(* When every process was waited for by its father, no time is missing     *)
(* from what is reported (runsolver.cc:1389-1470), unless wait4 gives so   *)
(* much more than the last sample that it is taken for wrong.              *)
AllWaited == childrusage # None /\ childrusage = Used
ReportCovers ==
  (reported # None /\ AllWaited /\ childrusage <= currentCPUTime + Jump) => reported >= Used

(* What is reported is at least what the limit was compared with, so a     *)
(* solver stopped for its time is not reported below the limit             *)
(* (runsolver.cc:531 and :1424).                                           *)
ReportAboveLimit == (reported # None /\ alarm) => reported >= limitCPUTime

(* The tree at every step, and what is reported in the end.                *)
AccountsHold == TypeOK /\ OneFather /\ ReportCovers /\ ReportAboveLimit

-----------------------------------------------------------------------------
(* What the messages and the README of runsolver say; none of it holds.    *)

(* "Maximum CPU time exceeded" (runsolver.cc:532): the solver is stopped   *)
(* only when its processes have used that time.                            *)
TrueAlarm == alarm => Used >= limitCPUTime

(* "don't loose the time of the child even when the parent doesn't call    *)
(* wait()" (runsolver/src/README): the time of no process is missing.      *)
NoneLost == reported # None => reported >= Used

(* "CPU time in seconds" (runsolver.cc:1514): what is reported is no more  *)
(* than what the processes used.                                           *)
NoneTwice == reported # None => reported <= Used
=============================================================================
