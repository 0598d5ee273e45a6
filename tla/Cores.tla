------------------------------- MODULE Cores -------------------------------
(***************************************************************************)
(* The cores given to the solver: the lists of Cores.hh, and in            *)
(* runsolver.cc the options --cores and --phys-cores (selectCores), the    *)
(* line printed by main, and the core runsolver keeps for itself.          *)
(*                                                                         *)
(* A machine gives each core its processor; a number it does not give one  *)
(* has no directory under /sys/devices/system/cpu.                         *)
(***************************************************************************)
EXTENDS Listing, Sequences, SequencesExt

CONSTANTS
  Machines,  \* the machines the program may run on
  MaxCore,   \* the highest core number of a cpu_set_t
  Singles,   \* the numbers that are items of a list of cores
  Bounds,    \* the numbers that are ends of its ranges
  MaxItems   \* bound: items of a list of cores

ASSUME CoresAssumption ==
  /\ MaxCore \in Nat
  /\ \A m \in Machines : DOMAIN m \subseteq 0..MaxCore /\ 0 \in DOMAIN m
  /\ Singles \subseteq Nat /\ Bounds \subseteq Nat
  /\ MaxItems \in Nat

VARIABLES
  processor, \* core -> its processor
  affinity,  \* the cores of runsolver
  physical,  \* physicalView, of the last list
  available, \* availableCores
  selected,  \* selectedCores
  items,     \* the items of the list read so far
  printed,   \* the ranges that main prints
  solverCores, \* the cores of the solver
  pc

cvars == <<processor, affinity, physical, available, selected, items, printed, solverCores, pc>>

-----------------------------------------------------------------------------
(* The lists.                                                              *)

Online == DOMAIN processor
Numbers == 0..MaxCore

Siblings(c) == {d \in Online : processor[d] = processor[c]}

(* The kernel writes a mask with four cores to a digit and a comma before  *)
(* every eighth digit from the right; the code counts the commas as        *)
(* digits.                                                                 *)
Column(c) == c \div 4 + c \div 32
Decoded(S) == {4 * Column(c) + (c % 4) : c \in S}

(* The loop over the cores: one that is left, and is not in the list yet,  *)
(* brings those of its processor.  It stops at a core without directory.   *)
(* The first mutant has a core bring itself only, the second forgets that  *)
(* not all the cores of a processor are allocated.                         *)
BroughtAlone(c, left) == {c} \cap left

BroughtAll(c, left) == Decoded(Siblings(c))

Brought(c, left) == Decoded(Siblings(c)) \cap left

Turn(st, c) ==
  IF st.stopped \/ c \notin st.left THEN st
  ELSE IF c \notin Online THEN [st EXCEPT !.stopped = TRUE]
  ELSE [st EXCEPT !.list = @ \o Ascending(Brought(c, st.left)),
                  !.left = @ \ Brought(c, st.left)]

Turns(wanted) ==
  LET turn[n \in 0..MaxCore + 1] ==
        IF n = 0 THEN [list |-> <<>>, left |-> wanted, stopped |-> FALSE]
        ELSE Turn(turn[n - 1], n - 1)
  IN turn

ByProcessor(wanted) == Turns(wanted)[MaxCore + 1].list

getAllocatedCoresByProcessorOrder == ByProcessor(affinity)

getExistingCores(physicalView) ==
  IF physicalView THEN Ascending({c \in Numbers : 0..c \subseteq Online})
  ELSE ByProcessor(Numbers)

(* printAllocatedCores: the places where a range begins, and the ranges.   *)
(* The mutant only looks whether the numbers increase.                     *)
BeginsLower(list) == {k \in DOMAIN list : k = 1 \/ list[k] < list[k - 1]}

Begins(list) == {k \in DOMAIN list : k = 1 \/ list[k] # list[k - 1] + 1}

printAllocatedCores(list) ==
  LET beg == Ascending(Begins(list)) IN
  [n \in DOMAIN beg |->
     [first |-> list[beg[n]],
      last  |-> list[IF n = Len(beg) THEN Len(list) ELSE beg[n + 1] - 1]]]

-----------------------------------------------------------------------------
CoresInit ==
  /\ processor \in Machines
  /\ affinity \in (SUBSET Online) \ {{}}
  /\ physical = FALSE
  /\ available = getExistingCores(physical)
  /\ selected = <<>>
  /\ items = <<>>
  /\ printed = <<>>
  /\ solverCores = {}
  /\ pc = "options"

(* --cores or --phys-cores.  The options may come several times: each list *)
(* is read anew, and takes its cores from the whole machine.               *)
selectCores ==
  /\ pc = "options"
  /\ \E physicalView \in BOOLEAN :
       /\ physical' = physicalView
       /\ available' = getExistingCores(physicalView)
  /\ selected' = <<>>
  /\ items' = <<>>
  /\ pc' = "select"
  /\ UNCHANGED <<processor, affinity, printed, solverCores>>

(* What availableCores[a] gives; past its end it is whatever is there.     *)
(* The mutant takes the number of an item for its place in the list.       *)
AtPlace(a) == {a}

CoresAt(a) == IF a < Len(available) THEN {available[a + 1]} ELSE Numbers

(* An item 'a' of the list.                                                *)
One(a) ==
  /\ \E c \in CoresAt(a) : selected' = Append(selected, c)
  /\ items' = Append(items, [first |-> a, last |-> a])

(* An item 'a-b': the ends are put in order, and what exceeds the list is  *)
(* left out.                                                               *)
Span(a, b) == IF b < a THEN b..a ELSE a..b

Several(a, b) ==
  LET within == Ascending({i \in Span(a, b) : i < Len(available)}) IN
  /\ selected' = selected \o [k \in DOMAIN within |-> available[within[k] + 1]]
  /\ items' = Append(items, [first |-> a, last |-> b])

(* One item of the list is read; the list may end after it or not.         *)
ReadItem ==
  /\ pc = "select" /\ Len(items) < MaxItems
  /\ \/ \E a \in Singles : One(a)
     \/ \E a, b \in Bounds : Several(a, b)
  /\ pc' \in {"select", "setaffinity"}
  /\ UNCHANGED <<processor, affinity, physical, available, printed, solverCores>>

(* Something else than a list of cores: the syntax is printed.             *)
SyntaxError ==
  /\ pc = "select"
  /\ pc' = "exit"
  /\ UNCHANGED <<processor, affinity, physical, available, selected, items, printed, solverCores>>

(* sched_setaffinity keeps the cores that exist, and fails without any.    *)
Granted(S) == IF S \cap Online = {} THEN affinity ELSE S \cap Online

setaffinity ==
  /\ pc = "setaffinity"
  /\ affinity' = Granted(ToSet(selected))
  /\ pc' = "options"
  /\ UNCHANGED <<processor, physical, available, selected, items, printed, solverCores>>

(* main prints the cores it runs on.                                       *)
PrintCores ==
  /\ pc = "options"
  /\ printed' = printAllocatedCores(getAllocatedCoresByProcessorOrder)
  /\ pc' = "fork"
  /\ UNCHANGED <<processor, affinity, physical, available, selected, items, solverCores>>

(* run: the solver has the cores of runsolver.                             *)
ForkSolver ==
  /\ pc = "fork"
  /\ solverCores' = affinity
  /\ pc' = "aside"
  /\ UNCHANGED <<processor, affinity, physical, available, selected, items, printed>>

(* runsolver goes to the last core of its list.                            *)
(* The mutant takes the highest number for the last.                       *)
AsideHighest(list) == {Ascending(ToSet(list))[Len(list)]}

Aside(list) == IF Len(list) > 1 THEN {Last(list)} ELSE ToSet(list)

RunAside ==
  /\ pc = "aside"
  /\ affinity' = Granted(Aside(getAllocatedCoresByProcessorOrder))
  /\ pc' = "running"
  /\ UNCHANGED <<processor, physical, available, selected, items, printed, solverCores>>

CoresNext ==
  \/ selectCores \/ ReadItem \/ SyntaxError \/ setaffinity
  \/ PrintCores \/ ForkSolver \/ RunAside

CoresSpec == CoresInit /\ [][CoresNext]_cvars
-----------------------------------------------------------------------------
(* Properties.                                                             *)

Item == [first : Nat, last : Nat]

CoresTypeOK ==
  /\ processor \in Machines
  /\ affinity \in (SUBSET Online) \ {{}}
  /\ physical \in BOOLEAN
  /\ available \in Seq(Numbers)
  /\ selected \in Seq(Numbers)
  /\ items \in Seq(Item)
  /\ printed \in Seq(Item)
  /\ solverCores \in SUBSET Online
  /\ pc \in {"options", "select", "setaffinity", "fork", "aside", "running", "exit"}

(* "the list of cores allocated to this process" (Cores.hh:88): all of     *)
(* them, each once, though a core is listed through its processor and not  *)
(* when the loop comes to it.                                              *)
ListsAllocated ==
  LET list == getAllocatedCoresByProcessorOrder IN
  IsInjective(list) /\ ToSet(list) = affinity

(* "ordered by the processor to which they belong" (Cores.hh:14): between  *)
(* two cores of a processor there is none of another, in the list of the   *)
(* machine and in that of the process.                                     *)
Together(list) ==
  \A j, k \in DOMAIN list : \A m \in j..k :
    processor[list[j]] = processor[list[k]] => processor[list[m]] = processor[list[j]]
GroupedByProcessor ==
  Together(getAllocatedCoresByProcessorOrder) /\ (~physical => Together(available))

(* The ranges that main prints are a list that --phys-cores reads as the   *)
(* same cores (runsolver.cc:1919 and :903).                                *)
PrintedReadsBack ==
  pc = "fork" => affinity = UNION {Span(printed[n].first, printed[n].last) : n \in DOMAIN printed}

(* A solver gets the cores its last list asks for, by their numbers or by  *)
(* their places in the list of the machine (runsolver.cc:1762-1774),       *)
(* whatever the lists before it were; a list that leaves the machine       *)
(* leaves all as it was.                                                   *)
Asked ==
  LET places == UNION {Span(items[n].first, items[n].last) : n \in DOMAIN items} IN
  IF physical THEN places \cap Online
  ELSE {ByProcessor(Online)[p + 1] : p \in {q \in places : q < Len(ByProcessor(Online))}}
SolverGetsAsked ==
  (pc \in {"aside", "running"} /\ items # <<>> /\ Asked # {}) => solverCores = Asked

(* "let runsolver run on the last allocated core" (runsolver.cc:1248): the *)
(* core is the last one of the processor of the solver that begins last.   *)
OnLastProcessor ==
  pc = "running" =>
    \A c \in affinity :
      /\ c \in solverCores
      /\ \A d \in Siblings(c) \cap solverCores : d <= c
      /\ \A d \in solverCores : \E e \in Siblings(d) \cap solverCores :
           \A f \in Siblings(c) \cap solverCores : e <= f

(* What is listed, and what is given, with the list or without one.        *)
CoresListed == CoresTypeOK /\ ListsAllocated /\ GroupedByProcessor
CoresGiven == SolverGetsAsked /\ OnLastProcessor

(* "allocate a subset of the cores to the solver" (runsolver.cc:1763): the *)
(* cores selected are cores of the machine.  It does not hold for a single *)
(* number past the list.                                                   *)
SelectsExisting == ToSet(selected) \subseteq Online
=============================================================================
