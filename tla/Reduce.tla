------------------------------- MODULE Reduce -------------------------------
(***************************************************************************)
(* WSCP::reduce_instance (NuWSC-algorithm/NuWSC/wscp.h): before the search,*)
(* sets are decided that some best cover takes or leaves.                  *)
(*                                                                         *)
(* First a pass over the variables looks at rows of one, two or three sets.*)
(* fix[s] becomes 1 if s is taken, -1 if it is left, and x + 10 if s is to *)
(* be taken just if x is not: then the cost of s is paid in advance, in    *)
(* reduce_cost, and the cost of x falls by it.  A pass over the sets then  *)
(* deletes the rows of sets that are taken, or taken unless another is.    *)
(*                                                                         *)
(* The instance is chosen in Init: Row and Price give the inputs looked at.*)
(***************************************************************************)
EXTENDS Sums, FiniteSetsExt, Sequences, Functions

CONSTANTS
  var_num, set_num,
  Row,   \* the rows (sequences of sets, none twice) an instance may have
  Price  \* the costs an instance may give its sets

Var == 0 .. var_num - 1
Set == 0 .. set_num - 1

ASSUME ReduceAssumption ==
  /\ var_num \in Nat \ {0}
  /\ set_num \in Nat \ {0}
  /\ \A row \in Row : row \in Seq(Set) /\ row # <<>> /\ IsInjective(row)
  /\ Price \subseteq [Set -> Nat]

VARIABLES
  var_set,     \* var_set[v]: the sets that contain v
  org_cost,    \* the costs of the file
  cost,
  reduce_cost,
  fix,
  set_var,     \* set_var[s]: the variables of s that are not deleted
  var_delete,  \* the variables v with var_delete[v] = 1
  pass,        \* over variables, over sets, or done
  i            \* the variable or set that the pass comes to

instance == <<var_set, org_cost>>
vars == <<instance, cost, reduce_cost, fix, set_var, var_delete, pass, i>>

-----------------------------------------------------------------------------
(* What a row lets the first pass decide.                                  *)

Free(s) == fix[s] = 0

set_var_num(s) == Cardinality(set_var[s])

(* Every variable of a has b in its row.                                   *)
Within(a, b) == \A v \in set_var[a] : b \in Range(var_set[v])

Keep == UNCHANGED <<cost, reduce_cost, fix>>

(* b is taken, and the sets of A are not.                                  *)
Take(b, A) ==
  /\ fix' = [s \in Set |-> IF s \in A THEN -1 ELSE IF s = b THEN 1 ELSE fix[s]]
  /\ UNCHANGED <<cost, reduce_cost>>

(* The mutant pays nothing in advance.                                     *)
TakeUnlessUnpaid(a, b, A) ==
  /\ fix' = [s \in Set |-> IF s \in A THEN -1 ELSE IF s = a THEN b + 10 ELSE fix[s]]
  /\ cost' = [cost EXCEPT ![b] = @ - cost[a]]
  /\ UNCHANGED reduce_cost

(* a is taken unless b is; the sets of A are not.                          *)
TakeUnless(a, b, A) ==
  /\ fix' = [s \in Set |-> IF s \in A THEN -1 ELSE IF s = a THEN b + 10 ELSE fix[s]]
  /\ cost' = [cost EXCEPT ![b] = @ - cost[a]]
  /\ reduce_cost' = reduce_cost + cost[a]

(* A row of a and b, where a has fewer variables than b.                   *)
Smaller(a, b) ==
  IF ~Within(a, b) THEN Keep
  ELSE IF cost[a] >= cost[b] THEN Take(b, {a}) ELSE TakeUnless(a, b, {})

Pair(s1, s2) ==
  \/ /\ set_var_num(s1) < set_var_num(s2)
     /\ Smaller(s1, s2)
  \/ /\ set_var_num(s1) = set_var_num(s2)
     /\ IF Within(s2, s1) /\ cost[s1] <= cost[s2] THEN Take(s1, {s2}) ELSE Keep
  \/ /\ set_var_num(s1) > set_var_num(s2)
     /\ Smaller(s2, s1)

(* a and b have as many variables as each other, and fewer than c.         *)
Twins(a, b, c) ==
  set_var_num(a) = set_var_num(b) /\ set_var_num(a) < set_var_num(c)

(* The mutant keeps the costlier twin.                                     *)
TwinsAndCostlier(a, b, c) ==
  IF ~(Within(a, b) /\ Within(a, c)) THEN Keep
  ELSE IF cost[a] >= cost[c] /\ cost[b] >= cost[c] THEN Take(c, {a, b})
  ELSE IF cost[a] > cost[b] THEN TakeUnless(a, c, {b}) ELSE TakeUnless(b, c, {a})

(* A row of twins a and b, both within c if one is.                        *)
TwinsAnd(a, b, c) ==
  IF ~(Within(a, b) /\ Within(a, c)) THEN Keep
  ELSE IF cost[a] >= cost[c] /\ cost[b] >= cost[c] THEN Take(c, {a, b})
  ELSE IF cost[a] > cost[b] THEN TakeUnless(b, c, {a}) ELSE TakeUnless(a, c, {b})

(* A row of three sets with the same variables: the first cheapest is taken*)
Triplets(s1, s2, s3) ==
  LET cheapest(a) == \A x \in {s1, s2, s3} : cost[a] <= cost[x]
      b == CHOOSE x \in {s1, s2, s3} :
             /\ cheapest(x)
             /\ x = s2 => ~cheapest(s1)
             /\ x = s3 => ~cheapest(s1) /\ ~cheapest(s2)
  IN IF Within(s3, s1) /\ Within(s3, s2) THEN Take(b, {s1, s2, s3} \ {b}) ELSE Keep

Triple(s1, s2, s3) ==
  CASE Twins(s1, s2, s3) -> TwinsAnd(s1, s2, s3)
    [] Twins(s1, s3, s2) -> TwinsAnd(s1, s3, s2)
    [] Twins(s2, s3, s1) -> TwinsAnd(s2, s3, s1)
    [] Cardinality({set_var_num(s) : s \in {s1, s2, s3}}) = 1 -> Triplets(s1, s2, s3)
    [] OTHER -> Keep

(* A set that is alone in a row is taken, whatever was decided before.     *)
Decide(row) ==
  LET free == \A s \in Range(row) : Free(s)
  IN CASE Len(row) = 1 -> Take(row[1], {})
       [] Len(row) = 2 /\ free -> Pair(row[1], row[2])
       [] Len(row) = 3 /\ free -> Triple(row[1], row[2], row[3])
       [] OTHER -> Keep

-----------------------------------------------------------------------------
Advance(last, next) ==
  IF i < last THEN i' = i + 1 /\ UNCHANGED pass ELSE i' = 0 /\ pass' = next

LookAtRow ==
  /\ pass = "variables"
  /\ Decide(var_set[i])
  /\ Advance(var_num - 1, "sets")
  /\ UNCHANGED <<instance, set_var, var_delete>>

(* The rows of s go, out of the other free sets too: one that loses its    *)
(* last row is left.                                                       *)
DeleteRows(s) ==
  LET rows == set_var[s] \ var_delete
  IN /\ set_var' = [x \in Set |-> IF Free(x) THEN set_var[x] \ rows ELSE set_var[x]]
     /\ fix' = [x \in Set |->
          IF Free(x) /\ set_var[x] # {} /\ set_var[x] \subseteq rows THEN -1 ELSE fix[x]]
     /\ var_delete' = var_delete \cup rows

(* The mutant forgets the sets that are taken unless another is.           *)
LookAtTakenSet ==
  /\ pass = "sets"
  /\ IF fix[i] = 1 THEN DeleteRows(i) ELSE UNCHANGED <<set_var, fix, var_delete>>
  /\ Advance(set_num - 1, "done")
  /\ UNCHANGED <<instance, cost, reduce_cost>>

LookAtSet ==
  /\ pass = "sets"
  /\ IF fix[i] = 1 \/ fix[i] > 9
     THEN DeleteRows(i)
     ELSE UNCHANGED <<set_var, fix, var_delete>>
  /\ Advance(set_num - 1, "done")
  /\ UNCHANGED <<instance, cost, reduce_cost>>

(* What build_instance has read.                                           *)
Init ==
  /\ var_set \in [Var -> Row]
  /\ org_cost \in Price
  /\ cost = org_cost
  /\ reduce_cost = 0
  /\ fix = [s \in Set |-> 0]
  /\ set_var = [s \in Set |-> {v \in Var : s \in Range(var_set[v])}]
  /\ var_delete = {}
  /\ pass = "variables"
  /\ i = 0

Next == LookAtRow \/ LookAtSet

Spec == Init /\ [][Next]_vars

-----------------------------------------------------------------------------
(* What the reduction promises.                                            *)

TypeOK ==
  /\ cost \in [Set -> Nat]
  /\ reduce_cost \in Nat
  /\ fix \in [Set -> {-1, 0, 1} \cup {s + 10 : s \in Set}]
  /\ set_var \in [Set -> SUBSET Var]
  /\ var_delete \subseteq Var
  /\ pass \in {"variables", "sets", "done"}
  /\ i \in 0 .. var_num + set_num

Covers(S) == \A v \in Var : Range(var_set[v]) \cap S # {}

(* The solution that choosing the free sets S stands for, as check_solu    *)
(* completes it.                                                           *)
Completed(S) ==
  LET taken == S \cup {s \in Set : fix[s] = 1}
  IN taken \cup {s \in Set : fix[s] > 9 /\ fix[s] - 10 \notin taken}

(* What the search takes the cost of the free sets S to be.                *)
SearchCost(S) == reduce_cost + Total(cost, S \cup {s \in Set : fix[s] = 1})

FreeSets == {s \in Set : Free(s)}

(***************************************************************************)
(* Every decision is safe: among the solutions that agree with the         *)
(* decisions taken so far there is still a cover as cheap as the cheapest  *)
(* of the instance.                                                        *)
(***************************************************************************)
OptimumKept ==
  Min({Total(org_cost, Completed(S)) : S \in {X \in SUBSET FreeSets : Covers(Completed(X))}})
    = Min({Total(org_cost, S) : S \in {X \in SUBSET Set : Covers(X)}})

(***************************************************************************)
(* The books stay right through all the shifting of costs: what the search *)
(* pays for some free sets is what the completed solution costs in the     *)
(* file.  check_solu prints "best solu is wrong in 5" where it is not.     *)
(***************************************************************************)
CostKept ==
  \A S \in SUBSET FreeSets : SearchCost(S) = Total(org_cost, Completed(S))

(***************************************************************************)
(* The search finds the instance it relies on: the rows left have two sets *)
(* or more, for select_set_Novelty takes a second best, and free ones only,*)
(* for init leaves score, pscore and time_stamp of the others as they are; *)
(* the variables of a free set are the rows left that contain it; and if   *)
(* every set costs something in the file so does every set still free, or  *)
(* the search might end without a solution (FinalCover of Search).         *)
(***************************************************************************)
SearchReady ==
  pass = "done" =>
    /\ \A v \in Var \ var_delete :
         /\ Len(var_set[v]) >= 2
         /\ Range(var_set[v]) \subseteq FreeSets
    /\ \A s \in FreeSets :
         set_var[s] = {v \in Var \ var_delete : s \in Range(var_set[v])}
    /\ (\A s \in Set : org_cost[s] > 0) => (\A s \in FreeSets : cost[s] > 0)

(***************************************************************************)
(* A set is never made to wait for one that waits itself.                  *)
(***************************************************************************)
NoChains == \A s \in Set : fix[s] > 9 => fix[fix[s] - 10] <= 1

(***************************************************************************)
(* At every row and set of the two passes: the types, no chains, and the   *)
(* books, which the later decisions build on (wscp.h:404-805).             *)
(***************************************************************************)
ReduceInv == TypeOK /\ NoChains /\ CostKept
=============================================================================
