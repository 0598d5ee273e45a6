------------------------------ MODULE Ranking ------------------------------
(***************************************************************************)
(* The scan of a row for its best and second best set, in the integers the *)
(* code has (select_set_Novelty and compareV2, NuWSC-algorithm/NuWSC/      *)
(* wscp.h; init and select_set scan in the same way).  Scores are long     *)
(* long, and are cut to int where they are compared or kept; the combined  *)
(* score is an int, the products with the costs are long long.             *)
(*                                                                         *)
(* A scan compares with sr, ct and ps.  When a tie goes to the later set   *)
(* they stay those of the earlier one.                                     *)
(***************************************************************************)
EXTENDS Weights, Sequences, Functions

CONSTANTS
  Half,       \* an int goes from -Half to Half - 1 (2^31 in the code)
  Rows,       \* the rows to scan: two different sets at least
  Candidates  \* what a set may be

ASSUME RankingAssumption ==
  /\ Half \in Nat /\ Half > 1
  /\ \A r \in Rows : r \in Seq(Nat \ {0}) /\ IsInjective(r) /\ Len(r) >= 2
  /\ Candidates \subseteq
       [score : Int, pscore : Int, cost : 1 .. Half - 1, time_stamp : Int]

VARIABLES
  row, is,   \* the row, and what its sets are
  scan,      \* which scan: "best", "second", or "done"
  place,     \* how far it has come
  sr, ct, ps,
  best_set, sec_best_set

rvars == <<row, is, scan, place, sr, ct, ps, best_set, sec_best_set>>

Ints == -Half .. Half - 1
INT_MIN == -Half

(* What is left of n in an int; a sum too large wraps round, as the build  *)
(* has it.                                                                 *)
Cut(n) == ((n + Half) % (2 * Half)) - Half

combined(s, p) == Cut(Cut(weight1 * s) + Cut(weight2 * p))

(* The mutant multiplies in int.                                           *)
compareV2Short(s1, c1, s2, c2, p1, p2) ==
  IF c1 = c2 THEN Sign(combined(s1, p1) - combined(s2, p2))
             ELSE Sign(Cut(s1 * c2) - Cut(s2 * c1))

compareV2Cut(s1, c1, s2, c2, p1, p2) ==
  IF c1 = c2 THEN Sign(combined(s1, p1) - combined(s2, p2))
             ELSE Sign(s1 * c2 - s2 * c1)

InRow == {row[j] : j \in DOMAIN row}

RankInit ==
  /\ row \in Rows
  /\ is \in [InRow -> Candidates]
  /\ scan = "best" /\ place = 1
  /\ sr = INT_MIN /\ ct = 1 /\ ps = INT_MIN
  /\ best_set = 0 /\ sec_best_set = 0

-----------------------------------------------------------------------------
(* The set the scan has found so far.                                      *)
Found == IF scan = "best" THEN best_set ELSE sec_best_set

Finds(x) ==
  IF scan = "best" THEN best_set' = x /\ UNCHANGED sec_best_set
                   ELSE sec_best_set' = x /\ UNCHANGED best_set

Order(x) == compareV2Cut(sr, ct, Cut(is[x].score), is[x].cost, ps, Cut(is[x].pscore))

(* The later set wins a tie by pscore, or as the older one.  The mutant    *)
(* takes the younger one.                                                  *)
WinsTieYounger(x, y) ==
  \/ is[y].pscore < is[x].pscore
  \/ is[y].pscore = is[x].pscore /\ is[y].time_stamp < is[x].time_stamp

WinsTie(x, y) ==
  \/ is[y].pscore < is[x].pscore
  \/ is[y].pscore = is[x].pscore /\ is[y].time_stamp > is[x].time_stamp

(* The second scan leaves the best set out.  The mutants do not, or start  *)
(* from the second place.                                                  *)
SkipsNone(x) == FALSE
SkipsFirst(x) == scan = "second" /\ (x = best_set \/ place = 1)

Skips(x) == scan = "second" /\ x = best_set

Judge(x) ==
  IF Skips(x) THEN UNCHANGED <<sr, ct, ps, best_set, sec_best_set>>
  ELSE IF sr = INT_MIN \/ Order(x) < 0
  THEN /\ Finds(x)
       /\ sr' = Cut(is[x].score) /\ ps' = Cut(is[x].pscore) /\ ct' = is[x].cost
  ELSE /\ UNCHANGED <<sr, ct, ps>>
       /\ IF Order(x) = 0 /\ WinsTie(x, Found) THEN Finds(x)
                                               ELSE UNCHANGED <<best_set, sec_best_set>>

Look ==
  /\ scan # "done" /\ place <= Len(row)
  /\ Judge(row[place])
  /\ place' = place + 1
  /\ UNCHANGED <<row, is, scan>>

SecondScan ==
  /\ scan = "best" /\ place > Len(row)
  /\ scan' = "second" /\ place' = 1
  /\ sr' = INT_MIN /\ ct' = 1 /\ ps' = INT_MIN
  /\ UNCHANGED <<row, is, best_set, sec_best_set>>

(* A tabu best set may give way to the second.                             *)
ReturnBest ==
  /\ scan = "second" /\ place > Len(row)
  /\ scan' = "done"
  /\ best_set' \in {best_set, sec_best_set}
  /\ UNCHANGED <<row, is, place, sr, ct, ps, sec_best_set>>

RankNext == Look \/ SecondScan \/ ReturnBest

RankSpec == RankInit /\ [][RankNext]_rvars

-----------------------------------------------------------------------------
RankTypeOK ==
  /\ scan \in {"best", "second", "done"} /\ place \in 1 .. Len(row) + 1
  /\ sr \in Ints /\ ct \in Ints /\ ps \in Ints
  /\ {best_set, sec_best_set} \subseteq InRow \cup {0}

(* The weights are light enough for an int to hold the scores.             *)
Fit(S) ==
  \A x \in S : {is[x].score, is[x].pscore, weight1 * is[x].score, weight2 * is[x].pscore,
                weight1 * is[x].score + weight2 * is[x].pscore} \subseteq Ints \ {INT_MIN}

(* The exact order: that of the scores per cost, or for equal costs of the *)
(* combined scores.                                                        *)
Exceeds(x, y) ==
  IF is[x].cost = is[y].cost
  THEN weight1 * is[x].score + weight2 * is[x].pscore
         > weight1 * is[y].score + weight2 * is[y].pscore
  ELSE is[x].score * is[y].cost > is[y].score * is[x].cost

(* It is transitive if all costs are equal or all are different.           *)
Transitive(S) ==
  \/ \A x, y \in S : is[x].cost = is[y].cost
  \/ \A x, y \in S : x # y => is[x].cost # is[y].cost

(* Of sets that tie, the one of greater pscore, then the one left longer.  *)
IsBestOf(x, S) ==
  \A y \in S :
    /\ ~Exceeds(y, x)
    /\ \/ Exceeds(x, y) \/ is[x].pscore > is[y].pscore
       \/ is[x].pscore = is[y].pscore /\ is[x].time_stamp <= is[y].time_stamp

Rest == InRow \ {best_set}

(* The values a tie leaves behind do no harm where the order is transitive *)
(* and the weights are light: both scans return a best set of theirs, by   *)
(* score, pscore and age (wscp.h:1316 and 203-206).                        *)
FindsBest ==
  /\ scan = "second" /\ Fit(InRow) /\ Transitive(InRow) => IsBestOf(best_set, InRow)
  /\ scan = "second" /\ place > Len(row) /\ Rest # {} /\ Fit(Rest) /\ Transitive(Rest)
       => IsBestOf(sec_best_set, Rest)

(* For any costs, a set that exceeds every other is found, wherever it is  *)
(* in the row and whatever ties came before it (wscp.h:1316).              *)
ClearWinnerFound ==
  scan = "second" /\ Fit(InRow) =>
    \A x \in InRow : (\A y \in InRow \ {x} : Exceeds(x, y)) => best_set = x

(* sec_best_set starts as set 0, which need not be in the row: if the row  *)
(* has two sets it is replaced, and by another than the best, however      *)
(* heavy the weights (wscp.h:1325 and 1351-1355).                          *)
ReturnsOfRow == scan = "done" => best_set \in InRow /\ sec_best_set \in InRow

AnotherThanBest ==
  scan = "second" /\ place > Len(row) => sec_best_set # best_set

(* What both scans answer, for any costs.                                  *)
ScanAnswers == RankTypeOK /\ ClearWinnerFound /\ ReturnsOfRow /\ AnotherThanBest
=============================================================================
