---------------------------- MODULE LocalSearch -----------------------------
(***************************************************************************)
(* The search with the rules the code picks sets by: compareV2 on score,   *)
(* pscore and cost, ties by pscore and then by age, and the tabu list of   *)
(* select_set_Novelty (NuWSC-algorithm/NuWSC/wscp.h).                      *)
(*                                                                         *)
(* Every action is an action of module Search with a rule for its choice,  *)
(* so that what Search promises holds here.                                *)
(*                                                                         *)
(* The order of set_solu depends on the whole history of flips; a scan of  *)
(* it is a scan in any order.  Samples are drawn with replacement.         *)
(***************************************************************************)
EXTENDS Search, Weights, SequencesExt

CONSTANTS
  tabu_length,
  CanSkip           \* novelty_p > 0: a tabu set may give way to the second

ASSUME RuleAssumption ==
  /\ tabu_length \in Nat
  /\ CanSkip \in BOOLEAN

VARIABLE time_stamp \* the turn of the try in which a set was flipped last

lvars == <<svars, time_stamp>>

-----------------------------------------------------------------------------
(* The two comparisons: 1, 0 or -1 as the first is better, as good, worse. *)

compare(s1, c1, s2, c2) ==
  IF c1 = c2 THEN Sign(s1 - s2) ELSE Sign(s1 * c2 - s2 * c1)

compareV2(s1, c1, s2, c2, p1, p2) ==
  IF c1 = c2
  THEN Sign((weight1 * s1 + weight2 * p1) - (weight1 * s2 + weight2 * p2))
  ELSE Sign(s1 * c2 - s2 * c1)

(***************************************************************************)
(* A scan carries the set it would return and, in sr, ct and ps, the       *)
(* values later sets are compared with.  A tie that goes to the later set  *)
(* replaces the set and leaves the values of the earlier one.  The mutant  *)
(* lacks the test for the first set seen, and the ties.                    *)
(***************************************************************************)
Nobody == [set |-> NoSet, sr |-> 0, ct |-> 1, ps |-> 0]

ConsiderAlways(acc, x) ==
  LET order == compareV2(acc.sr, acc.ct, score[x], cost[x], acc.ps, pscore[x])
  IN IF order < 0
     THEN [set |-> x, sr |-> score[x], ct |-> cost[x], ps |-> pscore[x]]
     ELSE acc

Consider(acc, x) ==
  LET order == compareV2(acc.sr, acc.ct, score[x], cost[x], acc.ps, pscore[x])
  IN IF acc.set = NoSet \/ order < 0
     THEN [set |-> x, sr |-> score[x], ct |-> cost[x], ps |-> pscore[x]]
     ELSE IF /\ order = 0
             /\ \/ pscore[acc.set] < pscore[x]
                \/ /\ pscore[acc.set] = pscore[x]
                   /\ time_stamp[acc.set] > time_stamp[x]
          THEN [acc EXCEPT !.set = x]
          ELSE acc

(* The set that a scan of the sequence q returns.                          *)
BestOf(q) == FoldLeft(Consider, Nobody, q).set

(* The best set of the row of v; if it is tabu, possibly the second best.  *)
select_set_Novelty(v) ==
  LET best_set     == BestOf(var_set[v])
      sec_best_set == BestOf(SelectSeq(var_set[v], LAMBDA x : x # best_set))
      tabu         == step - time_stamp[best_set] < tabu_length
  IN {best_set} \cup {x \in {sec_best_set} : tabu /\ CanSkip}

(* A best set of the solution, or of T samples of it.                      *)
select_set ==
  {BestOf(q) : q \in IF T < Cardinality(cur_solu)
                     THEN [1 .. T -> cur_solu]
                     ELSE SetToSeqs(cur_solu)}

Stamp(s) == time_stamp' = [time_stamp EXCEPT ![s] = step]

-----------------------------------------------------------------------------
(* The actions of Search with the rules of the code.                       *)

ConstructBest ==
  /\ \E v \in uncover_stack : Construct(v, BestOf(var_set[v]))
  /\ UNCHANGED time_stamp

DropCostly == \E s \in zero_stack : DropRedundant(s) /\ Stamp(s)

DescendBest ==
  /\ pc = "descend"
  /\ \E s \in select_set \ {NoSet} : Descend(s) /\ Stamp(s)

(* time_stamp[best_set] is set after update_weight, which does not read it.*)
AddNovel ==
  /\ pc = "search"
  /\ \E v \in uncover_stack : \E best_set \in select_set_Novelty(v) :
       AddBest(v, best_set) /\ Stamp(best_set)

(* No room for best_set: the set to lose is chosen next.                   *)
Full(best_set) ==
  /\ pc = "search"
  /\ cur_cost + cost[best_set] >= best_cost

(* Is losing s worth the gain of best_set, by score per cost?  The mutant  *)
(* forgets that the score of a chosen set is negative.                     *)
WorthSwappingAlways(s, best_set) ==
  compare(score[s], cost[s], score[best_set], cost[best_set]) < 0

WorthSwapping(s, best_set) ==
  compare(-score[s], cost[s], score[best_set], cost[best_set]) < 0

SwapOutBest ==
  \E v \in uncover_stack : \E best_set \in select_set_Novelty(v) :
    /\ Full(best_set)
    /\ \E s \in select_set \ {NoSet} :
         /\ WorthSwapping(s, best_set)
         /\ SwapOut(v, best_set, s)
         /\ Stamp(s)

SwapInPick == SwapIn /\ Stamp(pick)

(* The set compared and the set removed come from two calls of select_set. *)
RemoveOneBest ==
  \E v \in uncover_stack : \E best_set \in select_set_Novelty(v) :
    /\ Full(best_set)
    /\ LET chosen == select_set \ {NoSet}
       IN /\ \E x \in chosen : ~WorthSwapping(x, best_set)
          /\ \E s \in chosen : RemoveOne(v, best_set, s) /\ Stamp(s)

RemoveOtherBest ==
  /\ pc = "remove"
  /\ \E s \in select_set \ {NoSet} : RemoveOther(s) /\ Stamp(s)

(* Nothing is left to remove, and best_set would cost too much.            *)
ReturnEmpty ==
  /\ NothingToRemove /\ Return
  /\ pc = "search" => \E v \in uncover_stack :
                        \E best_set \in select_set_Novelty(v) : Full(best_set)
  /\ UNCHANGED time_stamp

LocalTurn ==
  \/ ConstructBest
  \/ StartSearch /\ UNCHANGED time_stamp
  \/ DropCostly
  \/ NothingToDrop /\ Return /\ UNCHANGED time_stamp
  \/ RecordCover /\ UNCHANGED time_stamp
  \/ DescendBest
  \/ AddNovel
  \/ Weigh /\ UNCHANGED time_stamp
  \/ SwapOutBest
  \/ SwapInPick
  \/ RemoveOneBest
  \/ RemoveOtherBest
  \/ ReturnEmpty

LocalInit == SearchInit /\ time_stamp = [s \in Set |-> 0]

LocalNext == LocalTurn \/ (TimeUp /\ UNCHANGED time_stamp)

LocalSpec == LocalInit /\ [][LocalNext]_lvars

FairLocal == LocalSpec /\ WF_lvars(LocalTurn)

-----------------------------------------------------------------------------
(* The types; stamps are turns of a try, also those of the try before.     *)
LocalTypeOK ==
  /\ TypeOK
  /\ SearchTypeOK
  /\ time_stamp \in [Set -> 0 .. max_step - 1]

(***************************************************************************)
(* A swap pays.  The decision compares the scores as they are before       *)
(* flip_set leaves; when it has left, and best_set is about to enter,      *)
(* best_set still covers more weight for its cost than the other gave up.  *)
(***************************************************************************)
SwapPays ==
  pc = "swap" =>
    \E s \in Set \ (cur_solu \cup {pick}) :
      /\ time_stamp[s] = step
      /\ compare(score[s], cost[s], score[pick], cost[pick]) < 0

(***************************************************************************)
(* Whatever the rules choose, in every try (wscp.h:1562-1676).             *)
(***************************************************************************)
LocalInv == LocalTypeOK /\ SwapPays

(***************************************************************************)
(* The rules always find a set where the control expects one: no turn is   *)
(* stuck between two flips or at an uncovered variable, and the search     *)
(* returns.                                                                *)
(***************************************************************************)
LocalTermination == <>(pc = "done")
=============================================================================
