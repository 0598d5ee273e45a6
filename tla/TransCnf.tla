----------------------------- MODULE TransCnf ------------------------------
(***************************************************************************)
(* The conversion of a set covering instance to weighted CNF, for the      *)
(* Max-SAT solvers NuWSC is compared with (requests2paramsV4 and what      *)
(* writes its result, NuWSC-algorithm/benchmark/SCP/trans_cnf.py; the      *)
(* copies for SCPC and STS write to another directory only).               *)
(*                                                                         *)
(* data_list has the numbers of the file.  A clause of SAT is a weight,    *)
(* literals and the 0 that ends it.                                        *)
(***************************************************************************)
EXTENDS Sums, Sequences

(* The mutant lets a hard clause weigh as much as all sets cost.           *)
topTied(cost) == Total(cost, DOMAIN cost)

top(cost) == Total(cost, DOMAIN cost) + 1

(* The sets of the row whose length is next.                               *)
HardClause(weight, rest) == <<weight>> \o SubSeq(rest, 2, rest[1] + 1) \o <<0>>

(* The hard clauses, and what is left of the file, after n of m rows.      *)
RowsRead(m, body, weight) ==
  LET read[n \in 0 .. m] ==
        IF n = 0 THEN [SAT |-> <<>>, rest |-> body]
        ELSE LET rest == read[n - 1].rest
             IN [SAT  |-> Append(read[n - 1].SAT, HardClause(weight, rest)),
                 rest |-> SubSeq(rest, rest[1] + 2, Len(rest))]
  IN  read

(* The sets are numbered from 0.                                           *)
SoftClauses(cost) == [i \in DOMAIN cost |-> <<cost[i], -(i - 1), 0>>]

requests2paramsV4(data_list) ==
  LET m      == data_list[1]  \* var_num
      n      == data_list[2]  \* set_num
      cost   == SubSeq(data_list, 3, n + 2)
      body   == SubSeq(data_list, n + 3, Len(data_list))
      hard   == RowsRead(m, body, top(cost))[m].SAT
  IN [SAT |-> hard \o SoftClauses(cost), top |-> top(cost)]

-----------------------------------------------------------------------------
(* What a Max-SAT solver reads: a weight, literals up to the first 0, and  *)
(* hard clauses where the weight is top.                                   *)
Literals(clause) ==
  {clause[k] : k \in {j \in 2 .. Len(clause) : \A l \in 2 .. j : clause[l] # 0}}

(* The places of the hard clauses.                                         *)
HardPlaces(cnf) == {k \in DOMAIN cnf.SAT : cnf.SAT[k][1] = cnf.top}

(* The literals of the hard clauses.                                       *)
Hard(cnf) == {Literals(cnf.SAT[k]) : k \in HardPlaces(cnf)}

Satisfies(chosen, literals) ==
  \E x \in literals : IF x > 0 THEN x \in chosen ELSE -x \notin chosen

SoftWeight(cnf) ==
  LET soft == DOMAIN cnf.SAT \ HardPlaces(cnf)
  IN  Total([k \in soft |-> cnf.SAT[k][1]], soft)
=============================================================================
