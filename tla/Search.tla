------------------------------- MODULE Search -------------------------------
(***************************************************************************)
(* The control of the search: the construction loop of WSCP::init and the  *)
(* loop of WSCP::local_search (NuWSC-algorithm/NuWSC/wscp.h), on top of    *)
(* the bookkeeping of module Covering.                                     *)
(*                                                                         *)
(* The rules that pick a set among those allowed (compareV2, the tabu list *)
(* and the time stamps) are left open here: what this module promises      *)
(* holds for every rule.  Module LocalSearch adds the rules of the code.   *)
(*                                                                         *)
(* One turn of the loop flips up to two sets, so that a turn is up to two  *)
(* actions; pc says where in the turn the program is.                      *)
(***************************************************************************)
EXTENDS Covering

CONSTANTS
  INT_MAX,     \* best_cost before the first solution
  T,           \* samples taken from a large stack (t = 170)
  CheckPeriod, \* turns between looks at the clock (1000)
  max_step, max_tries

ASSUME SearchAssumption ==
  /\ INT_MAX \in Nat
  /\ INT_MAX > fixed_cost + Total(cost, Set)
  /\ T \in Nat \ {0}
  /\ CheckPeriod \in Nat \ {0}
  /\ max_step \in Nat \ {0}
  /\ max_tries \in Nat \ {0}
  /\ MaxWeight > max_step * max_tries
  /\ \A v \in Var : Cardinality(Sets[v]) >= 2

VARIABLES
  best_solu, best_cost,
  step, tries, \* the counters of the two loops
  pc,          \* construct, search, descend, weigh, swap, remove or done
  pick,        \* best_set, while the turn that chose it swaps
  expired      \* the run time has passed cutoff_time

control == <<best_solu, best_cost, step, tries, pc, pick, expired>>

svars == <<vars, control>>

-----------------------------------------------------------------------------
(* The ends of a turn.                                                     *)

(* The mutant never counts the tries.                                      *)
NextStepForever ==
  /\ step' = IF step + 1 < max_step THEN step + 1 ELSE 0
  /\ pc' = "search"
  /\ UNCHANGED tries

(* ++step, and ++tries after the last step of a try.                       *)
NextStep ==
  IF step + 1 < max_step
  THEN /\ step' = step + 1
       /\ pc' = "search"
       /\ UNCHANGED tries
  ELSE /\ step' = 0
       /\ tries' = tries + 1
       /\ pc' = IF tries + 1 < max_tries THEN "search" ELSE "done"

(* The clock is read only in turns whose number CheckPeriod divides.       *)
CheckTime ==
  IF step % CheckPeriod = 0 /\ expired
  THEN pc' = "done" /\ UNCHANGED <<step, tries>>
  ELSE NextStep

Return ==
  /\ pc' = "done"
  /\ UNCHANGED <<vars, best_solu, best_cost, step, tries, pick, expired>>

-----------------------------------------------------------------------------
(* The construction loop of init: cover some uncovered variable v with s.  *)
Construct(v, s) ==
  /\ pc = "construct"
  /\ v \in uncover_stack
  /\ s \in Sets[v]
  /\ flip(s)
  /\ UNCHANGED control

StartSearch ==
  /\ pc = "construct"
  /\ uncover_stack = {}
  /\ pc' = "search"
  /\ UNCHANGED <<vars, best_solu, best_cost, step, tries, pick, expired>>

(***************************************************************************)
(* The outcomes of select_set_from_zero_stack, NoSet for -1: a most costly *)
(* set, or the most costly of T samples; a set that costs nothing is never *)
(* chosen, for best_cost starts at 0 and the comparison is strict.         *)
(***************************************************************************)
select_set_from_zero_stack ==
  LET costly == {s \in zero_stack : cost[s] > 0}
  IN IF T < Cardinality(zero_stack)
     THEN costly \cup {s \in {NoSet} : costly # zero_stack}
     ELSE {s \in costly : \A x \in costly : cost[x] <= cost[s]}
            \cup {s \in {NoSet} : costly = {}}

(* A cover with redundant sets loses one of them; the clock is not read.   *)
DropRedundant(s) ==
  /\ pc = "search"
  /\ uncover_stack = {}
  /\ s \in select_set_from_zero_stack
  /\ s # NoSet
  /\ flip(s)
  /\ NextStep
  /\ UNCHANGED <<best_solu, best_cost, pick, expired>>

NothingToDrop ==
  /\ pc = "search"
  /\ uncover_stack = {}
  /\ zero_stack # {}
  /\ NoSet \in select_set_from_zero_stack

(* Is the solution worth recording?  One mutant also records a tie, another*)
(* asks for a gain of more than one.                                       *)
BetterOrTied == cur_cost <= best_cost

MuchBetter == cur_cost + 1 < best_cost

Better == cur_cost < best_cost

(* An irredundant cover is recorded if it is cheaper than the best one.    *)
RecordCover ==
  /\ pc = "search"
  /\ uncover_stack = {}
  /\ zero_stack = {}
  /\ IF Better
     THEN best_cost' = cur_cost /\ best_solu' = cur_solu
     ELSE UNCHANGED <<best_cost, best_solu>>
  /\ pc' = "descend"
  /\ UNCHANGED <<vars, step, tries, pick, expired>>

(* Then some set s leaves, to make room for a cheaper cover.               *)
Descend(s) ==
  /\ pc = "descend"
  /\ s \in cur_solu
  /\ flip(s)
  /\ CheckTime
  /\ UNCHANGED <<best_solu, best_cost, pick, expired>>

-----------------------------------------------------------------------------
(* The mutant chooses a set for a variable that has been covered since.    *)
ChosenLate(v, best_set) ==
  /\ pc = "search"
  /\ uncover_stack # {}
  /\ best_set \in Sets[v]

(* A turn with an uncovered variable v, and the set the code calls best_set*)
(* chosen from its row.                                                    *)
Chosen(v, best_set) ==
  /\ pc = "search"
  /\ v \in uncover_stack
  /\ best_set \in Sets[v]

(* There is room for best_set below best_cost: add it, then update_weight. *)
AddBest(v, best_set) ==
  /\ Chosen(v, best_set)
  /\ cur_cost + cost[best_set] < best_cost
  /\ flip(best_set)
  /\ pc' = "weigh"
  /\ UNCHANGED <<best_solu, best_cost, step, tries, pick, expired>>

Weigh ==
  /\ pc = "weigh"
  /\ update_weight
  /\ CheckTime
  /\ UNCHANGED <<best_solu, best_cost, pick, expired>>

(* There is none: either s makes way for best_set ...                      *)
SwapOut(v, best_set, s) ==
  /\ Chosen(v, best_set)
  /\ cur_cost + cost[best_set] >= best_cost
  /\ s \in cur_solu
  /\ flip(s)
  /\ pick' = best_set
  /\ pc' = "swap"
  /\ UNCHANGED <<best_solu, best_cost, step, tries, expired>>

SwapIn ==
  /\ pc = "swap"
  /\ flip(pick)
  /\ pick' = NoSet
  /\ CheckTime
  /\ UNCHANGED <<best_solu, best_cost, expired>>

(* ... or two sets leave, one after the other.                             *)
RemoveOne(v, best_set, s) ==
  /\ Chosen(v, best_set)
  /\ cur_cost + cost[best_set] >= best_cost
  /\ s \in cur_solu
  /\ flip(s)
  /\ pc' = "remove"
  /\ UNCHANGED <<best_solu, best_cost, step, tries, pick, expired>>

RemoveOther(s) ==
  /\ pc = "remove"
  /\ s \in cur_solu
  /\ flip(s)
  /\ CheckTime
  /\ UNCHANGED <<best_solu, best_cost, pick, expired>>

(* select_set finds no set in an empty solution.                           *)
NothingToRemove ==
  /\ cur_solu = {}
  /\ \/ pc \in {"descend", "remove"}
     \/ \E v \in Var : \E best_set \in Set :
          /\ Chosen(v, best_set)
          /\ cur_cost + cost[best_set] >= best_cost

(* A selection that should name a set answers -1, and the search returns.  *)
NoSetChosen == (NothingToDrop \/ NothingToRemove) /\ Return

(* The clock passes cutoff_time, at any moment.                            *)
TimeUp ==
  /\ ~expired
  /\ pc # "done"
  /\ expired' = TRUE
  /\ UNCHANGED <<vars, best_solu, best_cost, step, tries, pc, pick>>

-----------------------------------------------------------------------------
SearchInit ==
  /\ Init
  /\ best_solu = {}
  /\ best_cost = INT_MAX
  /\ step = 0
  /\ tries = 0
  /\ pc = "construct"
  /\ pick = NoSet
  /\ expired = FALSE

Turn ==
  \/ \E v \in Var, s \in Set : Construct(v, s)
  \/ StartSearch
  \/ \E s \in Set : DropRedundant(s)
  \/ RecordCover
  \/ \E s \in Set : Descend(s)
  \/ \E v \in Var, best_set \in Set : AddBest(v, best_set)
  \/ Weigh
  \/ \E v \in Var, best_set, s \in Set : SwapOut(v, best_set, s)
  \/ SwapIn
  \/ \E v \in Var, best_set, s \in Set : RemoveOne(v, best_set, s)
  \/ \E s \in Set : RemoveOther(s)
  \/ NoSetChosen

SearchNext == Turn \/ TimeUp

SearchSpec == SearchInit /\ [][SearchNext]_svars

(* The program is one thread that never waits.                             *)
FairSearch == SearchSpec /\ WF_svars(Turn)

-----------------------------------------------------------------------------
(* What the search promises.                                               *)

SearchTypeOK ==
  /\ best_solu \subseteq Set
  /\ best_cost \in Nat
  /\ step \in 0 .. max_step - 1
  /\ tries \in 0 .. max_tries
  /\ pc \in {"construct", "search", "descend", "weigh", "swap", "remove", "done"}
  /\ pick \in Set \cup {NoSet}
  /\ expired \in BOOLEAN

Irredundant(S) ==
  /\ Covered(1, S) = Var
  /\ \A s \in S : Covered(1, S \ {s}) # Var

SolutionCost(S) == fixed_cost + Total(cost, S)

(***************************************************************************)
(* The abstract specification, read off this one.  While best_cost is      *)
(* INT_MAX nothing has been recorded in best_solu.                         *)
(***************************************************************************)
Promise == INSTANCE Anytime WITH
  Solution <- {S \in SUBSET Set : Irredundant(S)},
  Value    <- [S \in {S \in SUBSET Set : Irredundant(S)} |-> SolutionCost(S)],
  None     <- {NoSet},
  best     <- IF best_cost = INT_MAX THEN {NoSet} ELSE best_solu,
  stopped  <- pc = "done"

(***************************************************************************)
(* Where every set costs something, local_search reports irredundant       *)
(* covers only, each cheaper than the one before, and reports one before   *)
(* it returns.  This is the assertion "best solu is wrong in 0" of         *)
(* check_solu, which looks at the final solution only.                     *)
(***************************************************************************)
KeepsPromise == Promise!Spec

(***************************************************************************)
(* The flips of the search are calls that Covering allows: best_set is     *)
(* added only while it covers something new, also after another set made   *)
(* way for it, and only chosen sets are removed.                           *)
(***************************************************************************)
KeepsBooks == Spec

(* What is in best_solu, kept by copying cur_solu and cur_cost, is an      *)
(* irredundant cover, and best_cost is its cost.                           *)
BestExact ==
  best_cost # INT_MAX =>
    /\ best_solu \subseteq Set
    /\ Irredundant(best_solu)
    /\ best_cost = SolutionCost(best_solu)

(***************************************************************************)
(* What check_solu tests when local_search has returned, and reports as    *)
(* "best solu is wrong in 0": the solution covers every variable.  This    *)
(* fails where a redundant set of the first cover costs nothing.           *)
(***************************************************************************)
FinalCover == pc = "done" => Covered(1, best_solu) = Var

(***************************************************************************)
(* No cover is lost: whatever completes one (the construction, an added    *)
(* set, a swap, the dropping of a redundant set), the search does not      *)
(* uncover a variable again before it has recorded a cover that costs no   *)
(* more.                                                                   *)
(***************************************************************************)
CoverNotLost ==
  [][uncover_stack = {} /\ uncover_stack' # {} => best_cost <= cur_cost]_svars

(* local_search returns.                                                   *)
Termination == <>(pc = "done")

-----------------------------------------------------------------------------
(* What makes the promises inductive.                                      *)

(* Between the two flips of a swap, best_set still covers something new.   *)
PendingSwap ==
  pc = "swap" => /\ pick \in Set \ cur_solu
                 /\ set_var[pick] \cap uncover_stack # {}

(***************************************************************************)
(* Until the first cover is recorded the search only drops redundant sets, *)
(* of which a turn drops one, so that the turns do not run out.  This needs*)
(* sets that cost something, and more turns in a try than there are sets.  *)
(***************************************************************************)
FirstCover ==
  best_cost = INT_MAX =>
    /\ pc \in {"construct", "search"}
    /\ pc = "construct" => step = 0
    /\ pc = "search" => /\ uncover_stack = {}
                        /\ step + Cardinality(cur_solu) <= Cardinality(Set)

(* Where the flips that uncover something stand.                           *)
CoverFirst ==
  /\ pc = "descend" => uncover_stack = {} /\ best_cost <= cur_cost
  /\ pc = "remove" => uncover_stack # {}

TriesLeft == pc # "done" => tries < max_tries

SearchInv == SearchTypeOK /\ TriesLeft /\ PendingSwap /\ BestExact

PositiveCosts == \A s \in Set : cost[s] > 0

EnoughTurns == max_step > Cardinality(Set)
=============================================================================
