------------------------------- MODULE Solver -------------------------------
(***************************************************************************)
(* The way of an instance through main (NuWSC-algorithm/NuWSC/main.cpp):   *)
(* build_instance reads it, reduce_instance decides what it can, the       *)
(* search covers the rest, and check_solu completes the solution in place, *)
(* checks it and says what is wrong.  trans_cnf.py reads the same file.    *)
(*                                                                         *)
(* Of the search this module takes what module Search promises: any cover  *)
(* of the rows left by free sets, and its cost.                            *)
(***************************************************************************)
EXTENDS Reduce

VARIABLES
  best_solu, best_cost,
  said,      \* what check_solu prints
  stage,     \* of main: reduce, check or end
  checked    \* the sets that check_solu has come past

result == <<best_solu, best_cost, said, stage, checked>>
svars  == <<vars, result>>

-----------------------------------------------------------------------------
(* The file: numbers of rows and sets, costs, and of each row its length   *)
(* and its sets, counted from 1.                                           *)
Written(row) == <<Len(row)>> \o [k \in DOMAIN row |-> row[k] + 1]

(* The last n rows.                                                        *)
LastRows ==
  LET last[n \in 0 .. var_num] ==
        IF n = 0 THEN <<>> ELSE Written(var_set[var_num - n]) \o last[n - 1]
  IN  last

File ==
  <<var_num, set_num>> \o [n \in 1 .. set_num |-> org_cost[n - 1]] \o LastRows[var_num]

(* build_instance reads the rows one after the other: what it has, and     *)
(* what is left, after n of m rows.                                        *)
ReadRow(acc) ==
  LET length == Head(acc.rest)
  IN [rows |-> Append(acc.rows, [k \in 1 .. length |-> acc.rest[k + 1] - 1]),
      rest |-> SubSeq(acc.rest, length + 2, Len(acc.rest))]

RowsRead(m, body) ==
  LET read[n \in 0 .. m] ==
        IF n = 0 THEN [rows |-> <<>>, rest |-> body] ELSE ReadRow(read[n - 1])
  IN  read

build_instance(file) ==
  LET m    == file[1]
      sets == 0 .. file[2] - 1
      body == SubSeq(file, 3 + file[2], Len(file))
      rows == RowsRead(m, body)[m].rows
  IN [cost    |-> [s \in sets |-> file[3 + s]],
      var_set |-> [v \in 0 .. m - 1 |-> rows[v + 1]],
      set_var |-> [s \in sets |-> {v \in 0 .. m - 1 : s \in Range(rows[v + 1])}]]

Cnf == INSTANCE TransCnf

-----------------------------------------------------------------------------
SolverInit ==
  /\ Init
  /\ best_solu = [s \in Set |-> -1]
  /\ best_cost = 0
  /\ said = {}
  /\ stage = "reduce"
  /\ checked = 0

reduce_instance == stage = "reduce" /\ Next /\ UNCHANGED result

LiveRows == Var \ var_delete

local_search ==
  /\ stage = "reduce" /\ pass = "done"
  /\ \E S \in SUBSET FreeSets :
       /\ \A v \in LiveRows : Range(var_set[v]) \cap S # {}
       /\ best_solu' = [s \in Set |-> IF s \in S \/ fix[s] = 1 THEN 1 ELSE 0]
       /\ best_cost' = SearchCost(S)
  /\ stage' = "check"
  /\ UNCHANGED <<vars, said, checked>>

(* The completion goes through the sets in order, and looks at what it has *)
(* completed so far.  The mutant takes a set whatever its counterpart is.  *)
CompleteBoth(solu, s) == IF fix[s] > 9 THEN [solu EXCEPT ![s] = 1] ELSE solu

Complete(solu, s) ==
  IF fix[s] > 9 /\ solu[fix[s] - 10] = 0 THEN [solu EXCEPT ![s] = 1] ELSE solu

WrongSet(s) ==
  (IF fix[s] = 1 /\ best_solu[s] # 1 THEN {"wrong 1"} ELSE {})
    \cup (IF fix[s] < 0 /\ best_solu[s] # 0 THEN {"wrong 2"} ELSE {})
    \cup (IF fix[s] > 9 /\ best_solu[s] # 0 THEN {"wrong 3"} ELSE {})

check_set ==
  /\ stage = "check" /\ checked < set_num
  /\ said' = said \cup WrongSet(checked)
  /\ best_solu' = Complete(best_solu, checked)
  /\ checked' = checked + 1
  /\ UNCHANGED <<vars, best_cost, stage>>

(* It returns at the first row that is not covered.                        *)
WrongSolution ==
  LET chosen == {s \in Set : best_solu[s] = 1}
      taken  == chosen \cup {s \in Set : fix[s] = 1}
  IN IF ~Covers(chosen) THEN {"best solu is wrong in 0"}
     ELSE IF ~Covers(taken) THEN {"best solu is wrong in 1"}
     ELSE IF Total(org_cost, taken) # best_cost THEN {"best solu is wrong in 5"}
     ELSE {}

check_rest ==
  /\ stage = "check" /\ checked = set_num
  /\ said' = said \cup WrongSolution
  /\ stage' = "end"
  /\ UNCHANGED <<vars, best_solu, best_cost, checked>>

check_solu == check_set \/ check_rest

SolverNext == reduce_instance \/ local_search \/ check_solu

SolverSpec == SolverInit /\ [][SolverNext]_svars

-----------------------------------------------------------------------------
(* check_solu finds nothing wrong (wscp.h:1678): whatever cover the search *)
(* comes with, completing it in one pass by number is completing it, and   *)
(* the shifted costs add up to those of the file.                          *)
NothingWrong == said = {}

(* The two readers of a file agree (wscp.h:362 and trans_cnf.py:134): what *)
(* build_instance reads is the instance, and the hard clauses are          *)
(* satisfied by its covers and by nothing else; breaking one costs more    *)
(* than all soft clauses.                                                  *)
SameInstance ==
  pass = "variables" /\ i = 0 =>
    LET file  == File
        read  == build_instance(file)
        cnf   == Cnf!requests2paramsV4(file)
        hard  == Cnf!Hard(cnf)
        Satisfied(S) == \A clause \in hard : Cnf!Satisfies({s + 1 : s \in S}, clause)
    IN /\ read = [cost |-> cost, var_set |-> var_set, set_var |-> set_var]
       /\ \A S \in SUBSET Set : Satisfied(S) <=> Covers(S)
       /\ Cnf!SoftWeight(cnf) < cnf.top
=============================================================================
