---------------------------- MODULE ReduceProofs ----------------------------
(***************************************************************************)
(* Proofs about Reduce and Solver, for all instances: the types, that no   *)
(* set waits for one that waits itself, that the search gets the instance  *)
(* it relies on, that the books balance and the optimum is kept, that      *)
(* check_solu finds nothing wrong, and that the two readers of an instance *)
(* agree.                                                                  *)
(***************************************************************************)
EXTENDS Solver, SumProofs, SequenceTheorems

Rows(s) == {v \in Var : s \in Range(var_set[v])}

(* s is taken, or taken unless another is.                                 *)
Settled(s) == fix[s] = 1 \/ fix[s] > 9

Types ==
  /\ TypeOK
  /\ var_set \in [Var -> Row]
  /\ org_cost \in Price
  /\ pass = "variables" => i \in Var
  /\ pass = "sets" => i \in Set

(* What set_var has: all rows, then the rows left; of a settled set all    *)
(* the time.                                                               *)
Columns ==
  /\ pass = "variables" => var_delete = {} /\ \A s \in Set : set_var[s] = Rows(s)
  /\ \A s \in Set : Settled(s) => set_var[s] = Rows(s)
  /\ \A s \in Set : Free(s) => set_var[s] = Rows(s) \ var_delete

(* A row of a set that is left is covered by a settled one, or deleted.    *)
LeftSafely ==
  \A s \in Set : fix[s] = -1 =>
    \A v \in Rows(s) : v \in var_delete \/ \E x \in Set : v \in Rows(x) /\ Settled(x)

(* A set that is alone in a row seen is taken.                             *)
AloneTaken ==
  \A v \in Var : (pass = "variables" => v < i) /\ Len(var_set[v]) = 1
                   => fix[var_set[v][1]] = 1

(* The rows of a settled set seen by the second pass are deleted.          *)
SeenDeleted ==
  \A s \in Set : Settled(s) /\ (pass = "done" \/ (pass = "sets" /\ s < i))
                   => Rows(s) \subseteq var_delete

(* b has more variables than the other sets of a row of a and b.           *)
Outweighs(a, b) ==
  \E v \in Rows(a) \cap Rows(b) :
    \A y \in Range(var_set[v]) \ {b} : Cardinality(Rows(y)) < Cardinality(Rows(b))

(* Who waits does so for the largest set of some row of both.              *)
WaitsForLargest ==
  \A s \in Set : fix[s] > 9 => Outweighs(s, fix[s] - 10)

CostsPositive == (\A s \in Set : org_cost[s] > 0) => (\A s \in Set : cost[s] > 0)

RInv ==
  /\ Types
  /\ Columns
  /\ LeftSafely
  /\ AloneTaken
  /\ SeenDeleted
  /\ WaitsForLargest
  /\ NoChains
  /\ CostsPositive

-----------------------------------------------------------------------------
LEMMA RowsFinite ==
  ASSUME NEW s
  PROVE  IsFiniteSet(Rows(s)) /\ Cardinality(Rows(s)) \in Nat
<1>1. IsFiniteSet(Var)
  BY ReduceAssumption, FS_Interval DEF Var
<1>2. Rows(s) \in SUBSET Var
  BY DEF Rows
<1>3. QED
  BY <1>1, <1>2, FS_Subset, FS_CardinalityType

(* Sets with as many variables, one within the other, have the same.       *)
LEMMA SameRows ==
  ASSUME NEW a, NEW b, Rows(a) \subseteq Rows(b),
         Cardinality(Rows(a)) = Cardinality(Rows(b))
  PROVE  Rows(a) = Rows(b)
<1>1. IsFiniteSet(Rows(b)) /\ Rows(a) \in SUBSET Rows(b)
  BY RowsFinite
<1>2. QED
  BY <1>1, FS_Subset

-----------------------------------------------------------------------------
(* What the decision on a row may be.                                      *)

(* b may be taken and the other sets of its row, A, left.                  *)
MayTake(b, A) ==
  /\ b \in Set /\ A \subseteq FreeSets \ {b}
  /\ \E v \in Var : Range(var_set[v]) = A \cup {b}
  /\ A # {} => Free(b)
  /\ \A x \in A : Rows(x) \subseteq Rows(b) /\ cost[b] <= cost[x]

(* a may be made to wait for b, and the other sets of their row, A, left.  *)
MayWait(a, b, A) ==
  /\ \E v \in Var : Range(var_set[v]) = A \cup {a, b}
  /\ a \in FreeSets /\ b \in FreeSets \ {a} /\ A \subseteq FreeSets \ {a, b}
  /\ cost[a] < cost[b]
  /\ Rows(a) \subseteq Rows(b)
  /\ Outweighs(a, b)
  /\ \A x \in A : Rows(x) \subseteq Rows(a) /\ cost[a] <= cost[x]

Decision ==
  \/ Keep
  \/ \E b, A : MayTake(b, A) /\ Take(b, A)
  \/ \E a, b, A : MayWait(a, b, A) /\ TakeUnless(a, b, A)

LEMMA RowType ==
  ASSUME Types, NEW v \in Var
  PROVE  /\ var_set[v] \in Seq(Set) /\ Len(var_set[v]) \in Nat \ {0}
         /\ \A j, k \in 1 .. Len(var_set[v]) : var_set[v][j] = var_set[v][k] => j = k
         /\ Range(var_set[v]) = {var_set[v][k] : k \in 1 .. Len(var_set[v])}
         /\ Range(var_set[v]) \subseteq Set
<1>1. var_set[v] \in Row
  BY DEF Types
<1>2. var_set[v] \in Seq(Set) /\ var_set[v] # <<>> /\ IsInjective(var_set[v])
  BY <1>1, ReduceAssumption
<1>3. Range(var_set[v]) = {var_set[v][k] : k \in 1 .. Len(var_set[v])}
  BY <1>2 DEF Range
<1>4. QED
  BY <1>2, <1>3 DEF IsInjective

LEMMA WithinRows ==
  ASSUME Types, Columns, pass = "variables", NEW a \in Set, NEW b \in Set
  PROVE  /\ set_var_num(a) = Cardinality(Rows(a))
         /\ Within(a, b) <=> Rows(a) \subseteq Rows(b)
  BY DEF Columns, Within, set_var_num, Rows

LEMMA SmallerDecision ==
  ASSUME Types, Columns, pass = "variables", NEW v \in Var,
         NEW a \in FreeSets, NEW b \in FreeSets \ {a}, Range(var_set[v]) = {a, b},
         set_var_num(a) < set_var_num(b), Smaller(a, b)
  PROVE  Decision
<1>1. a \in Set /\ b \in Set /\ Free(a) /\ Free(b)
  BY DEF FreeSets
<1>2. CASE ~Within(a, b)
  BY <1>2 DEF Smaller, Decision
<1>3. CASE Within(a, b) /\ cost[a] >= cost[b]
  <2>1. Take(b, {a})
    BY <1>3 DEF Smaller
  <2>2. MayTake(b, {a})
    <3>1. Range(var_set[v]) = {a} \cup {b} /\ cost[b] <= cost[a]
      BY <1>1, <1>3 DEF Types, TypeOK
    <3>2. QED
      BY <1>1, <1>3, <3>1, WithinRows DEF MayTake
  <2>3. QED
    BY <2>1, <2>2 DEF Decision
<1>4. CASE Within(a, b) /\ ~(cost[a] >= cost[b])
  <2>1. TakeUnless(a, b, {})
    BY <1>4 DEF Smaller
  <2>2. cost[a] < cost[b]
    BY <1>1, <1>4 DEF Types, TypeOK
  <2>3. Rows(a) \subseteq Rows(b)
    BY <1>1, <1>4, WithinRows
  <2>4. Outweighs(a, b)
    <3>1. v \in Rows(a) \cap Rows(b)
      BY DEF Rows
    <3>2. \A y \in Range(var_set[v]) \ {b} : Cardinality(Rows(y)) < Cardinality(Rows(b))
      BY <1>1, WithinRows
    <3>3. QED
      BY <3>1, <3>2 DEF Outweighs
  <2>5. MayWait(a, b, {})
    <3>1. Range(var_set[v]) = {} \cup {a, b}
      OBVIOUS
    <3>2. QED
      BY <2>2, <2>3, <2>4, <3>1 DEF MayWait
  <2>6. QED
    BY <2>1, <2>5 DEF Decision
<1>5. QED
  BY <1>2, <1>3, <1>4

LEMMA PairDecision ==
  ASSUME Types, Columns, pass = "variables", NEW v \in Var,
         NEW s1 \in FreeSets, NEW s2 \in FreeSets \ {s1}, Range(var_set[v]) = {s1, s2},
         Pair(s1, s2)
  PROVE  Decision
<1>1. s1 \in Set /\ s2 \in Set /\ Free(s1) /\ Free(s2)
  BY DEF FreeSets
<1>2. CASE set_var_num(s1) < set_var_num(s2) /\ Smaller(s1, s2)
  BY <1>2, SmallerDecision
<1>3. CASE set_var_num(s1) > set_var_num(s2) /\ Smaller(s2, s1)
  <2>1. set_var_num(s2) < set_var_num(s1)
    BY <1>1, <1>3, WithinRows, RowsFinite
  <2>2. s1 \in FreeSets \ {s2} /\ Range(var_set[v]) = {s2, s1}
    OBVIOUS
  <2>3. QED
    BY <1>3, <2>1, <2>2, SmallerDecision
<1>4. CASE /\ set_var_num(s1) = set_var_num(s2)
           /\ IF Within(s2, s1) /\ cost[s1] <= cost[s2] THEN Take(s1, {s2}) ELSE Keep
  <2>1. CASE Keep
    BY <2>1 DEF Decision
  <2>2. CASE Within(s2, s1) /\ cost[s1] <= cost[s2] /\ Take(s1, {s2})
    <3>1. MayTake(s1, {s2})
      <4>1. Range(var_set[v]) = {s2} \cup {s1} /\ cost[s1] <= cost[s2]
        BY <2>2
      <4>2. QED
        BY <1>1, <2>2, <4>1, WithinRows DEF MayTake
    <3>2. QED
      BY <2>2, <3>1 DEF Decision
  <2>3. QED
    BY <1>4, <2>1, <2>2
<1>5. QED
  BY <1>2, <1>3, <1>4 DEF Pair

(* Twins, in a row with a larger set.                                      *)
LEMMA TwinsDecision ==
  ASSUME Types, Columns, pass = "variables", NEW v \in Var,
         NEW a \in FreeSets, NEW b \in FreeSets \ {a}, NEW c \in FreeSets \ {a, b},
         Range(var_set[v]) = {a, b, c}, Twins(a, b, c), TwinsAnd(a, b, c)
  PROVE  Decision
<1>1. a \in Set /\ b \in Set /\ c \in Set /\ Free(a) /\ Free(b) /\ Free(c)
  BY DEF FreeSets
<1>2. CASE ~(Within(a, b) /\ Within(a, c))
  BY <1>2 DEF TwinsAnd, Decision
<1>3. CASE Within(a, b) /\ Within(a, c)
  <2>1. /\ Cardinality(Rows(a)) = Cardinality(Rows(b))
        /\ Cardinality(Rows(a)) < Cardinality(Rows(c))
    BY <1>1, WithinRows DEF Twins
  <2>2. Rows(a) = Rows(b) /\ Rows(a) \subseteq Rows(c)
    BY <1>1, <1>3, <2>1, WithinRows, SameRows
  <2>3. Outweighs(a, c) /\ Outweighs(b, c)
    <3>1. v \in Rows(a) \cap Rows(b) \cap Rows(c)
      BY DEF Rows
    <3>2. \A y \in Range(var_set[v]) \ {c} : Cardinality(Rows(y)) < Cardinality(Rows(c))
      BY <2>1, <2>2
    <3>3. QED
      BY <3>1, <3>2 DEF Outweighs
  <2>4. cost[a] \in Nat /\ cost[b] \in Nat /\ cost[c] \in Nat
    BY <1>1 DEF Types, TypeOK
  <2>5. CASE cost[a] >= cost[c] /\ cost[b] >= cost[c]
    <3>1. Take(c, {a, b})
      BY <1>3, <2>5 DEF TwinsAnd
    <3>2. MayTake(c, {a, b})
      <4>1. Range(var_set[v]) = {a, b} \cup {c}
        OBVIOUS
      <4>2. QED
        BY <1>1, <2>2, <2>4, <2>5, <4>1 DEF MayTake
    <3>3. QED
      BY <3>1, <3>2 DEF Decision
  <2>6. CASE ~(cost[a] >= cost[c] /\ cost[b] >= cost[c]) /\ cost[a] > cost[b]
    <3>1. TakeUnless(b, c, {a})
      BY <1>3, <2>6 DEF TwinsAnd
    <3>2. MayWait(b, c, {a})
      <4>1. Range(var_set[v]) = {a} \cup {b, c}
        OBVIOUS
      <4>2. QED
        BY <1>1, <2>2, <2>3, <2>4, <2>6, <4>1 DEF MayWait
    <3>3. QED
      BY <3>1, <3>2 DEF Decision
  <2>7. CASE ~(cost[a] >= cost[c] /\ cost[b] >= cost[c]) /\ ~(cost[a] > cost[b])
    <3>1. TakeUnless(a, c, {b})
      BY <1>3, <2>7 DEF TwinsAnd
    <3>2. MayWait(a, c, {b})
      <4>1. Range(var_set[v]) = {b} \cup {a, c}
        OBVIOUS
      <4>2. QED
        BY <1>1, <2>2, <2>3, <2>4, <2>7, <4>1 DEF MayWait
    <3>3. QED
      BY <3>1, <3>2 DEF Decision
  <2>8. QED
    BY <2>5, <2>6, <2>7
<1>4. QED
  BY <1>2, <1>3

LEMMA AllTheSame ==
  ASSUME NEW x, NEW y, NEW z, Cardinality({x, y, z}) = 1
  PROVE  x = z /\ y = z
<1>1. IsFiniteSet({x} \cup {y})
  BY FS_Singleton, FS_AddElement
<1>2. IsFiniteSet(({x} \cup {y}) \cup {z})
  BY <1>1, FS_AddElement
<1>3. {x, y, z} = ({x} \cup {y}) \cup {z}
  OBVIOUS
<1>4. PICK w : {x, y, z} = {w}
  BY <1>2, <1>3, FS_Singleton
<1>5. QED
  BY <1>4

(* Three sets with the same variables.                                     *)
LEMMA TripletsDecision ==
  ASSUME Types, Columns, pass = "variables",
         NEW s1 \in FreeSets, NEW s2 \in FreeSets \ {s1}, NEW s3 \in FreeSets \ {s1, s2},
         NEW v \in Var, Range(var_set[v]) = {s1, s2, s3},
         Cardinality({set_var_num(s) : s \in {s1, s2, s3}}) = 1,
         Triplets(s1, s2, s3)
  PROVE  Decision
<1>1. s1 \in Set /\ s2 \in Set /\ s3 \in Set /\ Free(s1) /\ Free(s2) /\ Free(s3)
  BY DEF FreeSets
<1>2. CASE ~(Within(s3, s1) /\ Within(s3, s2))
  BY <1>2 DEF Triplets, Decision
<1>3. CASE Within(s3, s1) /\ Within(s3, s2)
  <2>1. set_var_num(s1) = set_var_num(s3) /\ set_var_num(s2) = set_var_num(s3)
    <3>1. {set_var_num(s) : s \in {s1, s2, s3}}
            = {set_var_num(s1), set_var_num(s2), set_var_num(s3)}
      OBVIOUS
    <3>2. QED
      BY <3>1, AllTheSame
  <2>2. Rows(s1) = Rows(s3) /\ Rows(s2) = Rows(s3)
    BY <1>1, <1>3, <2>1, WithinRows, SameRows
  <2>3. PICK b \in {s1, s2, s3} : /\ Take(b, {s1, s2, s3} \ {b})
                                  /\ \A x \in {s1, s2, s3} : cost[b] <= cost[x]
    <3> DEFINE cheapest(a) == \A x \in {s1, s2, s3} : cost[a] <= cost[x]
               First(x) == /\ cheapest(x)
                           /\ x = s2 => ~cheapest(s1)
                           /\ x = s3 => ~cheapest(s1) /\ ~cheapest(s2)
    <3>1. cost[s1] \in Int /\ cost[s2] \in Int /\ cost[s3] \in Int
      BY <1>1 DEF Types, TypeOK
    <3>2. \E x \in {s1, s2, s3} : First(x)
      BY <3>1
    <3>3. Take(CHOOSE x \in {s1, s2, s3} : First(x),
               {s1, s2, s3} \ {CHOOSE x \in {s1, s2, s3} : First(x)})
      BY <1>3 DEF Triplets
    <3>4. QED
      BY <3>2, <3>3
  <2>4. MayTake(b, {s1, s2, s3} \ {b})
    <3>1. Range(var_set[v]) = ({s1, s2, s3} \ {b}) \cup {b}
      OBVIOUS
    <3>2. QED
      BY <1>1, <2>2, <2>3, <3>1 DEF MayTake
  <2>5. QED
    BY <2>3, <2>4 DEF Decision
<1>4. QED
  BY <1>2, <1>3

(* The first pass does no more than it may, and takes a set that is alone. *)
LEMMA RowDecision ==
  ASSUME Types, Columns, pass = "variables", NEW v \in Var, Decide(var_set[v])
  PROVE  Decision /\ (Len(var_set[v]) = 1 => Take(var_set[v][1], {}))
<1> DEFINE row == var_set[v]
<1>1. /\ row \in Seq(Set) /\ Len(row) \in Nat \ {0}
      /\ \A j, k \in 1 .. Len(row) : row[j] = row[k] => j = k
      /\ Range(row) = {row[k] : k \in 1 .. Len(row)}
      /\ Range(row) \subseteq Set
  BY RowType
<1> DEFINE free == \A s \in Range(row) : Free(s)
<1>2. CASE Len(row) = 1
  <2>1. Take(row[1], {})
    BY <1>2 DEF Decide
  <2>2. MayTake(row[1], {})
    <3>1. Range(row) = {} \cup {row[1]} /\ row[1] \in Set
      BY <1>1, <1>2
    <3>2. QED
      BY <3>1 DEF MayTake
  <2>3. QED
    BY <2>1, <2>2 DEF Decision
<1>3. CASE Len(row) = 2 /\ free
  <2>1. Range(row) = {row[1], row[2]} /\ row[1] # row[2]
    BY <1>1, <1>3
  <2>2. row[1] \in FreeSets /\ row[2] \in FreeSets
    BY <1>1, <1>3, <2>1 DEF FreeSets
  <2>3. Pair(row[1], row[2])
    BY <1>3 DEF Decide
  <2>4. QED
    BY <1>3, <2>1, <2>2, <2>3, PairDecision
<1>4. CASE Len(row) = 3 /\ free
  <2>1. /\ Range(row) = {row[1], row[2], row[3]}
        /\ row[1] # row[2] /\ row[1] # row[3] /\ row[2] # row[3]
    <3>1. 1 .. Len(row) = {1, 2, 3}
      BY <1>4
    <3>2. QED
      BY <1>1, <3>1
  <2>2. row[1] \in FreeSets /\ row[2] \in FreeSets /\ row[3] \in FreeSets
    BY <1>1, <1>4, <2>1 DEF FreeSets
  <2>3. Triple(row[1], row[2], row[3])
    BY <1>4 DEF Decide
  <2>4. ASSUME Twins(row[1], row[2], row[3]), TwinsAnd(row[1], row[2], row[3])
        PROVE  Decision
    BY <2>1, <2>2, <2>4, TwinsDecision
  <2>5. ASSUME Twins(row[1], row[3], row[2]), TwinsAnd(row[1], row[3], row[2])
        PROVE  Decision
    <3>1. Range(row) = {row[1], row[3], row[2]}
      BY <2>1
    <3>2. QED
      BY <2>1, <2>2, <2>5, <3>1, TwinsDecision
  <2>6. ASSUME Twins(row[2], row[3], row[1]), TwinsAnd(row[2], row[3], row[1])
        PROVE  Decision
    <3>1. Range(row) = {row[2], row[3], row[1]}
      BY <2>1
    <3>2. QED
      BY <2>1, <2>2, <2>6, <3>1, TwinsDecision
  <2>7. ASSUME Cardinality({set_var_num(s) : s \in {row[1], row[2], row[3]}}) = 1,
               Triplets(row[1], row[2], row[3])
        PROVE  Decision
    BY <2>1, <2>2, <2>7, TripletsDecision
  <2>8. ASSUME Keep PROVE Decision
    BY <2>8 DEF Decision
  <2>9. Decision
    BY <2>3, <2>4, <2>5, <2>6, <2>7, <2>8 DEF Triple
  <2>10. QED
    BY <1>4, <2>9
<1>5. CASE Keep /\ Len(row) # 1
  BY <1>5 DEF Decision
<1>6. QED
  BY <1>2, <1>3, <1>4, <1>5 DEF Decide

-----------------------------------------------------------------------------
(* Settled sets stay settled, and those taken stay taken.                  *)
LEMMA TakeEffect ==
  ASSUME Types, NEW b, NEW A, MayTake(b, A), Take(b, A)
  PROVE  /\ fix' = [s \in Set |-> IF s \in A THEN -1 ELSE IF s = b THEN 1 ELSE fix[s]]
         /\ cost' = cost /\ reduce_cost' = reduce_cost
         /\ b \in Set /\ A \subseteq Set \ {b} /\ \A x \in A : fix[x] = 0
         /\ \A x \in A : Rows(x) \subseteq Rows(b)
  BY DEF MayTake, Take, FreeSets, Free

LEMMA TakeUnlessEffect ==
  ASSUME Types, NEW a, NEW b, NEW A, MayWait(a, b, A), TakeUnless(a, b, A)
  PROVE  /\ fix' = [s \in Set |-> IF s \in A THEN -1 ELSE IF s = a THEN b + 10 ELSE fix[s]]
         /\ cost' = [cost EXCEPT ![b] = @ - cost[a]]
         /\ reduce_cost' = reduce_cost + cost[a]
         /\ a \in Set /\ b \in Set \ {a} /\ A \subseteq Set \ {a, b}
         /\ fix[a] = 0 /\ fix[b] = 0 /\ \A x \in A : fix[x] = 0
         /\ cost[a] \in Nat /\ cost[b] \in Nat /\ cost[a] < cost[b]
         /\ \A x \in A : Rows(x) \subseteq Rows(a)
  BY DEF MayWait, TakeUnless, FreeSets, Free, Types, TypeOK

(* What a decision does, as the parts of the invariant need it.            *)
LEMMA DecisionEffect ==
  ASSUME Types, Decision
  PROVE  /\ fix' \in [Set -> {-1, 0, 1} \cup {s + 10 : s \in Set}]
         /\ cost' \in [Set -> Nat] /\ reduce_cost' \in Nat
         /\ \A s \in Set : Settled(s) => fix'[s] = fix[s] \/ fix'[s] = 1
         /\ \A s \in Set : fix'[s] = -1 =>
              \/ fix[s] = -1
              \/ \E x \in Set : Rows(s) \subseteq Rows(x) /\ (fix'[x] = 1 \/ fix'[x] > 9)
         /\ (\A s \in Set : cost[s] > 0) => (\A s \in Set : cost'[s] > 0)
<1>1. CASE Keep
  BY <1>1 DEF Keep, Types, TypeOK, Settled
<1>2. ASSUME NEW b, NEW A, MayTake(b, A), Take(b, A)
      PROVE  /\ fix' \in [Set -> {-1, 0, 1} \cup {s + 10 : s \in Set}]
             /\ cost' \in [Set -> Nat] /\ reduce_cost' \in Nat
             /\ \A s \in Set : Settled(s) => fix'[s] = fix[s] \/ fix'[s] = 1
             /\ \A s \in Set : fix'[s] = -1 =>
                  \/ fix[s] = -1
                  \/ \E x \in Set : Rows(s) \subseteq Rows(x) /\ (fix'[x] = 1 \/ fix'[x] > 9)
             /\ (\A s \in Set : cost[s] > 0) => (\A s \in Set : cost'[s] > 0)
  BY <1>2, TakeEffect DEF Types, TypeOK, Settled
<1>3. ASSUME NEW a, NEW b, NEW A, MayWait(a, b, A), TakeUnless(a, b, A)
      PROVE  /\ fix' \in [Set -> {-1, 0, 1} \cup {s + 10 : s \in Set}]
             /\ cost' \in [Set -> Nat] /\ reduce_cost' \in Nat
             /\ \A s \in Set : Settled(s) => fix'[s] = fix[s] \/ fix'[s] = 1
             /\ \A s \in Set : fix'[s] = -1 =>
                  \/ fix[s] = -1
                  \/ \E x \in Set : Rows(s) \subseteq Rows(x) /\ (fix'[x] = 1 \/ fix'[x] > 9)
             /\ (\A s \in Set : cost[s] > 0) => (\A s \in Set : cost'[s] > 0)
  <2>1. cost' \in [Set -> Nat] /\ reduce_cost' \in Nat
    BY <1>3, TakeUnlessEffect DEF Types, TypeOK
  <2>2. fix' \in [Set -> {-1, 0, 1} \cup {s + 10 : s \in Set}]
    BY <1>3, TakeUnlessEffect DEF Types, TypeOK
  <2>3. \A s \in Set : Settled(s) => fix'[s] = fix[s] \/ fix'[s] = 1
    BY <1>3, TakeUnlessEffect DEF Settled
  <2>4. a \in Set /\ fix'[a] = b + 10 /\ b \in Nat
    BY <1>3, TakeUnlessEffect, ReduceAssumption DEF Set
  <2>5. \A s \in Set : fix'[s] = -1 => fix[s] = -1 \/ Rows(s) \subseteq Rows(a)
    BY <1>3, <2>4, TakeUnlessEffect
  <2>6. (\A s \in Set : cost[s] > 0) => (\A s \in Set : cost'[s] > 0)
    BY <1>3, TakeUnlessEffect DEF Types, TypeOK
  <2>7. QED
    BY <2>1, <2>2, <2>3, <2>4, <2>5, <2>6
<1>4. QED
  BY <1>1, <1>2, <1>3 DEF Decision

(* Nobody waits for a set that may be made to wait.                        *)
LEMMA NoneWaitsFor ==
  ASSUME Types, WaitsForLargest, NEW a, NEW b, NEW A, MayWait(a, b, A)
  PROVE  \A s \in Set : fix[s] > 9 => fix[s] - 10 \in Set /\ fix[s] - 10 # a
<1>1. a \in Set /\ b \in Set /\ a # b /\ Rows(a) \subseteq Rows(b) /\ Outweighs(a, b)
  BY DEF MayWait, FreeSets
<1>2. Cardinality(Rows(a)) < Cardinality(Rows(b))
  BY <1>1 DEF Outweighs, Rows
<1>3. ASSUME NEW s \in Set PROVE ~Outweighs(s, a)
  <2>1. SUFFICES ASSUME Outweighs(s, a)
                 PROVE  Cardinality(Rows(b)) < Cardinality(Rows(a))
    BY <1>2, RowsFinite
  <2>2. PICK v \in Rows(s) \cap Rows(a) :
          \A y \in Range(var_set[v]) \ {a} : Cardinality(Rows(y)) < Cardinality(Rows(a))
    BY <2>1 DEF Outweighs
  <2>3. b \in Range(var_set[v])
    BY <1>1, <2>2 DEF Rows
  <2>4. QED
    BY <1>1, <2>2, <2>3
<1>4. QED
  BY <1>3 DEF WaitsForLargest, Types, TypeOK, Set

(* Who waits already does so for a set that is not made to wait.           *)
LEMMA WaitersKept ==
  ASSUME Types, WaitsForLargest, NoChains, Decision, UNCHANGED var_set
  PROVE  WaitsForLargest' /\ NoChains'
<1>1. \A s : Rows(s)' = Rows(s)
  BY DEF Rows
<1>2. \A x, y : Outweighs(x, y)' <=> Outweighs(x, y)
  BY <1>1 DEF Outweighs
<1>3. CASE Keep
  BY <1>2, <1>3 DEF Keep, WaitsForLargest, NoChains
<1>4. ASSUME NEW b, NEW A, MayTake(b, A), Take(b, A)
      PROVE  WaitsForLargest' /\ NoChains'
  <2>1. \A s \in Set : fix'[s] > 9 => fix'[s] = fix[s]
    BY <1>4, TakeEffect
  <2>2. \A s \in Set : fix[s] <= 1 => fix'[s] <= 1
    BY <1>4, TakeEffect
  <2>3. \A s \in Set : fix[s] > 9 => fix[s] - 10 \in Set
    BY DEF Types, TypeOK, Set
  <2>4. WaitsForLargest'
    BY <1>2, <2>1 DEF WaitsForLargest
  <2>5. NoChains'
    BY <2>1, <2>2, <2>3 DEF NoChains
  <2>6. QED
    BY <2>4, <2>5
<1>5. ASSUME NEW a, NEW b, NEW A, MayWait(a, b, A), TakeUnless(a, b, A)
      PROVE  WaitsForLargest' /\ NoChains'
  <2>1. a \in Set /\ b \in Set /\ a # b /\ Rows(a) \subseteq Rows(b) /\ Outweighs(a, b)
    BY <1>5 DEF MayWait, FreeSets
  <2>2. \A s \in Set : fix'[s] > 9 => (s = a /\ fix'[s] - 10 = b) \/ fix'[s] = fix[s]
    <3>1. b \in Nat
      BY <2>1, ReduceAssumption DEF Set
    <3>2. QED
      BY <1>5, <3>1, TakeUnlessEffect
  <2>3. \A s \in Set : fix[s] > 9 => fix[s] - 10 \in Set /\ fix[s] - 10 # a
    BY <1>5, NoneWaitsFor
  <2>4. \A s \in Set \ {a} : fix[s] <= 1 => fix'[s] <= 1
    BY <1>5, TakeUnlessEffect
  <2>5. fix'[b] = 0
    BY <1>5, TakeUnlessEffect
  <2>6. WaitsForLargest'
    BY <1>2, <2>1, <2>2 DEF WaitsForLargest
  <2>7. NoChains'
    BY <2>2, <2>3, <2>4, <2>5 DEF NoChains
  <2>8. QED
    BY <2>6, <2>7
<1>6. QED
  BY <1>3, <1>4, <1>5 DEF Decision

-----------------------------------------------------------------------------
LEMMA InitInvariant ==
  ASSUME Init PROVE RInv
<1>1. Types
  <2>1. cost \in [Set -> Nat]
    BY ReduceAssumption DEF Init
  <2>2. 0 \in Var /\ 0 \in 0 .. var_num + set_num
    BY ReduceAssumption DEF Var
  <2>3. QED
    BY <2>1, <2>2 DEF Init, Types, TypeOK
<1>2. Columns
  BY DEF Init, Columns, Rows, Settled, Free
<1>3. LeftSafely /\ SeenDeleted /\ WaitsForLargest /\ NoChains /\ CostsPositive
  BY DEF Init, LeftSafely, SeenDeleted, Settled, WaitsForLargest, NoChains, CostsPositive
<1>4. AloneTaken
  BY DEF Init, AloneTaken, Var
<1>5. QED
  BY <1>1, <1>2, <1>3, <1>4 DEF RInv

LEMMA LookAtRowInvariant ==
  ASSUME RInv, LookAtRow PROVE RInv'
<1>1. /\ Types /\ Columns /\ LeftSafely /\ AloneTaken /\ SeenDeleted
      /\ WaitsForLargest /\ NoChains /\ CostsPositive
  BY DEF RInv
<1>2. /\ pass = "variables" /\ Decide(var_set[i]) /\ Advance(var_num - 1, "sets")
      /\ var_set' = var_set /\ org_cost' = org_cost
      /\ set_var' = set_var /\ var_delete' = var_delete
  BY DEF LookAtRow, instance
<1>3. i \in Var /\ Decision /\ (Len(var_set[i]) = 1 => Take(var_set[i][1], {}))
  <2>1. i \in Var
    BY <1>1, <1>2 DEF Types
  <2>2. QED
    BY <1>1, <1>2, <2>1, RowDecision
<1>4. /\ fix' \in [Set -> {-1, 0, 1} \cup {s + 10 : s \in Set}]
      /\ cost' \in [Set -> Nat] /\ reduce_cost' \in Nat
      /\ \A s \in Set : Settled(s) => fix'[s] = fix[s] \/ fix'[s] = 1
      /\ \A s \in Set : fix'[s] = -1 =>
           \/ fix[s] = -1
           \/ \E x \in Set : Rows(s) \subseteq Rows(x) /\ (fix'[x] = 1 \/ fix'[x] > 9)
      /\ (\A s \in Set : cost[s] > 0) => (\A s \in Set : cost'[s] > 0)
  BY <1>1, <1>3, DecisionEffect
<1>5. \/ i < var_num - 1 /\ i' = i + 1 /\ pass' = "variables"
      \/ i = var_num - 1 /\ i' = 0 /\ pass' = "sets"
  BY <1>2, <1>3, ReduceAssumption DEF Advance, Var
<1>6. \A s : Rows(s)' = Rows(s)
  BY <1>2 DEF Rows
<1>7. Types'
  <2>1. (pass' = "variables" => i' \in Var) /\ (pass' = "sets" => i' \in Set)
    BY <1>3, <1>5, ReduceAssumption DEF Var, Set
  <2>2. i' \in 0 .. var_num + set_num /\ pass' \in {"variables", "sets", "done"}
    BY <1>3, <1>5, ReduceAssumption DEF Var
  <2>3. TypeOK'
    BY <1>1, <1>2, <1>4, <2>2 DEF Types, TypeOK
  <2>4. QED
    BY <1>1, <1>2, <2>1, <2>3 DEF Types
<1>8. Columns'
  BY <1>1, <1>2, <1>5, <1>6 DEF Columns, Settled, Free
<1>9. LeftSafely'
  <2>1. \A s \in Set : Settled(s) => Settled(s)'
    BY <1>4 DEF Settled
  <2>2. SUFFICES ASSUME NEW s \in Set, fix'[s] = -1, NEW v \in Rows(s)
                 PROVE  v \in var_delete \/ \E x \in Set : v \in Rows(x) /\ Settled(x)'
    BY <1>2, <1>6 DEF LeftSafely
  <2>3. CASE fix[s] = -1
    BY <1>1, <2>1, <2>3 DEF LeftSafely
  <2>4. CASE \E x \in Set : Rows(s) \subseteq Rows(x) /\ (fix'[x] = 1 \/ fix'[x] > 9)
    BY <2>4 DEF Settled
  <2>5. QED
    BY <1>4, <2>2, <2>3, <2>4
<1>10. AloneTaken'
  <2>1. SUFFICES ASSUME NEW v \in Var, v <= i, Len(var_set[v]) = 1
                 PROVE  fix'[var_set[v][1]] = 1
    BY <1>2, <1>3, <1>5, ReduceAssumption DEF AloneTaken, Var
  <2>2. var_set[v][1] \in Set
    BY <1>1, <2>1, RowType
  <2>3. CASE v = i
    BY <1>3, <2>1, <2>2, <2>3 DEF Take
  <2>4. CASE v < i
    BY <1>1, <1>2, <1>4, <2>1, <2>2, <2>4 DEF AloneTaken, Settled
  <2>5. QED
    BY <1>3, <2>1, <2>3, <2>4, ReduceAssumption DEF Var
<1>11. SeenDeleted'
  BY <1>5, ReduceAssumption DEF SeenDeleted, Set
<1>12. WaitsForLargest' /\ NoChains'
  BY <1>1, <1>2, <1>3, WaitersKept
<1>13. CostsPositive'
  BY <1>1, <1>2, <1>4 DEF CostsPositive
<1>14. QED
  BY <1>7, <1>8, <1>9, <1>10, <1>11, <1>12, <1>13 DEF RInv

(* What a step of the second pass changes: rows of a settled set go.       *)
LEMMA LookAtSetEffect ==
  ASSUME RInv, LookAtSet
  PROVE  \E rows \in SUBSET Rows(i) :
           /\ i \in Set
           /\ Settled(i) => rows = Rows(i) \ var_delete
           /\ ~Settled(i) => rows = {}
           /\ set_var' = [x \in Set |-> IF Free(x) THEN set_var[x] \ rows ELSE set_var[x]]
           /\ fix' \in [Set -> Int]
           /\ \A x \in Set : fix[x] # 0 => fix'[x] = fix[x]
           /\ \A x \in Set : Free(x) =>
                fix'[x] = 0 \/ (fix'[x] = -1 /\ set_var[x] \subseteq rows)
           /\ var_delete' = var_delete \cup rows
<1>1. i \in Set /\ set_var \in [Set -> SUBSET Var] /\ fix \in [Set -> Int]
  <2>1. {x + 10 : x \in Set} \subseteq Int
    BY ReduceAssumption DEF Set
  <2>2. fix \in [Set -> {-1, 0, 1} \cup {x + 10 : x \in Set}]
    BY DEF RInv, Types, TypeOK
  <2>3. fix \in [Set -> Int]
    BY <2>1, <2>2
  <2>4. QED
    BY <2>3 DEF RInv, Types, TypeOK, LookAtSet
<1>2. CASE Settled(i)
  <2>1. set_var[i] = Rows(i)
    BY <1>1, <1>2 DEF RInv, Columns
  <2>2. DeleteRows(i)
    BY <1>2 DEF LookAtSet, Settled
  <2>3. Rows(i) \ var_delete \in SUBSET Rows(i)
    OBVIOUS
  <2> DEFINE rows == Rows(i) \ var_delete
  <2>4. /\ set_var' = [x \in Set |-> IF Free(x) THEN set_var[x] \ rows ELSE set_var[x]]
        /\ fix' = [x \in Set |->
             IF Free(x) /\ set_var[x] # {} /\ set_var[x] \subseteq rows THEN -1 ELSE fix[x]]
        /\ var_delete' = var_delete \cup rows
    BY <2>1, <2>2 DEF DeleteRows
  <2>5. fix' \in [Set -> Int]
    BY <1>1, <2>4
  <2>6. /\ \A x \in Set : fix[x] # 0 => fix'[x] = fix[x]
        /\ \A x \in Set : Free(x) =>
             fix'[x] = 0 \/ (fix'[x] = -1 /\ set_var[x] \subseteq rows)
    BY <2>4 DEF Free
  <2>7. QED
    BY <1>1, <1>2, <2>3, <2>4, <2>5, <2>6
<1>3. CASE ~Settled(i)
  <2>1. UNCHANGED <<set_var, fix, var_delete>>
    BY <1>3 DEF LookAtSet, Settled
  <2>2. {} \in SUBSET Rows(i)
    OBVIOUS
  <2>3. set_var' = [x \in Set |-> IF Free(x) THEN set_var[x] \ {} ELSE set_var[x]]
    BY <1>1, <2>1
  <2>4. /\ var_delete' = var_delete \cup {} /\ fix' \in [Set -> Int]
        /\ \A x \in Set : fix'[x] = fix[x]
    BY <1>1, <2>1
  <2>5. (Settled(i) => {} = Rows(i) \ var_delete) /\ (~Settled(i) => {} = {})
    BY <1>3
  <2>6. QED
    BY <1>1, <2>2, <2>3, <2>4, <2>5 DEF Free
<1>4. QED
  BY <1>2, <1>3

LEMMA LookAtSetInvariant ==
  ASSUME RInv, LookAtSet PROVE RInv'
<1>1. /\ Types /\ Columns /\ LeftSafely /\ AloneTaken /\ SeenDeleted
      /\ WaitsForLargest /\ NoChains /\ CostsPositive
  BY DEF RInv
<1>2. /\ pass = "sets" /\ Advance(set_num - 1, "done")
      /\ var_set' = var_set /\ org_cost' = org_cost
      /\ cost' = cost /\ reduce_cost' = reduce_cost
  BY DEF LookAtSet, instance
<1>3. PICK rows \in SUBSET Rows(i) :
        /\ i \in Set
        /\ Settled(i) => rows = Rows(i) \ var_delete
        /\ set_var' = [x \in Set |-> IF Free(x) THEN set_var[x] \ rows ELSE set_var[x]]
        /\ fix' \in [Set -> Int]
        /\ \A x \in Set : fix[x] # 0 => fix'[x] = fix[x]
        /\ \A x \in Set : Free(x) =>
             fix'[x] = 0 \/ (fix'[x] = -1 /\ set_var[x] \subseteq rows)
        /\ var_delete' = var_delete \cup rows
  BY LookAtSetEffect
<1>4. \/ i < set_num - 1 /\ i' = i + 1 /\ pass' = "sets"
      \/ i = set_num - 1 /\ i' = 0 /\ pass' = "done"
  BY <1>2, <1>3, ReduceAssumption DEF Advance, Set
<1>5. \A s : Rows(s)' = Rows(s)
  BY <1>2 DEF Rows
<1>6. \A s \in Set : Settled(s)' <=> Settled(s)
  BY <1>3 DEF Settled, Free
<1>7. Types'
  <2>1. fix' \in [Set -> {-1, 0, 1} \cup {s + 10 : s \in Set}]
    <3>1. \A x \in Set : fix'[x] \in {-1, 0, 1} \cup {s + 10 : s \in Set}
      BY <1>1, <1>3 DEF Types, TypeOK, Free
    <3>2. QED
      BY <1>3, <3>1
  <2>2. rows \subseteq Var
    BY DEF Rows
  <2>3. set_var' \in [Set -> SUBSET Var] /\ var_delete' \subseteq Var
    BY <1>1, <1>3, <2>2 DEF Types, TypeOK
  <2>4. i' \in 0 .. var_num + set_num /\ (pass' = "sets" => i' \in Set)
    BY <1>3, <1>4, ReduceAssumption DEF Set
  <2>5. pass' \in {"sets", "done"}
    BY <1>4
  <2>6. QED
    BY <1>1, <1>2, <2>1, <2>3, <2>4, <2>5 DEF Types, TypeOK
<1>8. Columns'
  <2>1. \A s \in Set : Settled(s) => set_var'[s] = Rows(s)
    BY <1>1, <1>3 DEF Columns, Settled, Free
  <2>2. \A s \in Set : fix'[s] = 0 => set_var'[s] = Rows(s) \ var_delete'
    BY <1>1, <1>3 DEF Columns, Free
  <2>3. pass' # "variables"
    BY <1>4
  <2>4. QED
    BY <1>5, <1>6, <2>1, <2>2, <2>3 DEF Columns, Free
<1>9. LeftSafely'
  <2>1. SUFFICES ASSUME NEW s \in Set, fix'[s] = -1, NEW v \in Rows(s)
                 PROVE  v \in var_delete' \/ \E x \in Set : v \in Rows(x) /\ Settled(x)
    BY <1>5, <1>6 DEF LeftSafely
  <2>2. CASE fix[s] = -1
    BY <1>1, <1>3, <2>2 DEF LeftSafely
  <2>3. CASE Free(s) /\ set_var[s] \subseteq rows
    BY <1>1, <1>3, <2>3 DEF Columns
  <2>4. QED
    BY <1>3, <2>1, <2>2, <2>3 DEF Free
<1>10. AloneTaken'
  <2>1. SUFFICES ASSUME NEW v \in Var, Len(var_set[v]) = 1
                 PROVE  fix'[var_set[v][1]] = 1
    BY <1>2 DEF AloneTaken
  <2>2. var_set[v][1] \in Set
    BY <1>1, <2>1, RowType
  <2>3. fix[var_set[v][1]] = 1
    BY <1>1, <1>2, <2>1 DEF AloneTaken
  <2>4. QED
    BY <1>3, <2>2, <2>3
<1>11. SeenDeleted'
  <2>1. SUFFICES ASSUME NEW s \in Set, Settled(s), s <= i
                 PROVE  Rows(s) \subseteq var_delete'
    BY <1>3, <1>4, <1>5, <1>6, ReduceAssumption DEF SeenDeleted, Set
  <2>2. CASE s = i
    BY <1>3, <2>1, <2>2
  <2>3. CASE s < i
    BY <1>1, <1>2, <1>3, <2>1, <2>3 DEF SeenDeleted
  <2>4. QED
    BY <1>3, <2>1, <2>2, <2>3, ReduceAssumption DEF Set
<1>12. WaitsForLargest'
  <2>1. \A x, y : Outweighs(x, y)' <=> Outweighs(x, y)
    BY <1>2, <1>5 DEF Outweighs
  <2>2. \A s \in Set : fix'[s] > 9 => fix'[s] = fix[s]
    BY <1>3 DEF Free
  <2>3. QED
    BY <1>1, <2>1, <2>2 DEF WaitsForLargest
<1>13. NoChains'
  <2>1. \A s \in Set : fix'[s] > 9 => fix'[s] = fix[s]
    BY <1>3 DEF Free
  <2>2. \A s \in Set : fix[s] <= 1 => fix'[s] <= 1
    BY <1>3 DEF Free
  <2>3. \A s \in Set : fix[s] > 9 => fix[s] - 10 \in Set
    <3>1. TypeOK
      BY <1>1 DEF Types
    <3>2. QED
      BY <3>1, ReduceAssumption DEF TypeOK, Set
  <2>4. QED
    BY <1>1, <2>1, <2>2, <2>3 DEF NoChains
<1>14. CostsPositive'
  BY <1>1, <1>2 DEF CostsPositive
<1>15. QED
  BY <1>7, <1>8, <1>9, <1>10, <1>11, <1>12, <1>13, <1>14 DEF RInv

LEMMA SameInvariant ==
  ASSUME RInv, UNCHANGED vars PROVE RInv'
<1>1. /\ UNCHANGED <<var_set, org_cost, cost, reduce_cost, fix>>
      /\ UNCHANGED <<set_var, var_delete, pass, i>>
  BY DEF vars, instance
<1>2. \A s : Rows(s)' = Rows(s)
  BY <1>1 DEF Rows
<1>3. \A s : Settled(s)' <=> Settled(s)
  BY <1>1 DEF Settled
<1>4. Types' /\ AloneTaken' /\ NoChains' /\ CostsPositive'
  BY <1>1 DEF RInv, Types, TypeOK, AloneTaken, NoChains, CostsPositive
<1>5. Columns' /\ LeftSafely' /\ SeenDeleted'
  BY <1>1, <1>2, <1>3 DEF RInv, Columns, Free, LeftSafely, SeenDeleted
<1>6. WaitsForLargest'
  BY <1>1, <1>2 DEF RInv, WaitsForLargest, Outweighs
<1>7. QED
  BY <1>4, <1>5, <1>6 DEF RInv

LEMMA ReadyAtTheEnd ==
  ASSUME RInv PROVE SearchReady
<1>1. SUFFICES ASSUME pass = "done"
               PROVE  /\ \A v \in Var \ var_delete :
                           /\ Len(var_set[v]) >= 2
                           /\ Range(var_set[v]) \subseteq FreeSets
                      /\ \A s \in FreeSets :
                           set_var[s] = {v \in Var \ var_delete : s \in Range(var_set[v])}
                      /\ (\A s \in Set : org_cost[s] > 0) => (\A s \in FreeSets : cost[s] > 0)
  BY DEF SearchReady
<1>2. /\ Types /\ Columns /\ LeftSafely /\ AloneTaken /\ SeenDeleted /\ CostsPositive
  BY DEF RInv
<1>3. ASSUME NEW v \in Var \ var_delete, NEW x \in Set PROVE ~(v \in Rows(x) /\ Settled(x))
  <2>1. Settled(x) => Rows(x) \subseteq var_delete
    BY <1>1, <1>2 DEF SeenDeleted
  <2>2. QED
    BY <2>1
<1>4. ASSUME NEW v \in Var \ var_delete PROVE Len(var_set[v]) >= 2
  <2>0. v \in Var
    OBVIOUS
  <2>1. /\ Len(var_set[v]) \in Nat \ {0} /\ Range(var_set[v]) \subseteq Set
        /\ Range(var_set[v]) = {var_set[v][k] : k \in 1 .. Len(var_set[v])}
    BY <1>2, <2>0, RowType
  <2>2. ASSUME Len(var_set[v]) = 1 PROVE FALSE
    <3>1. var_set[v][1] \in Set /\ var_set[v][1] \in Range(var_set[v])
      BY <2>1, <2>2
    <3>2. v \in Rows(var_set[v][1])
      BY <2>0, <3>1 DEF Rows
    <3>3. Settled(var_set[v][1])
      BY <1>1, <1>2, <2>0, <2>2 DEF AloneTaken, Settled
    <3>4. QED
      BY <1>3, <3>1, <3>2, <3>3
  <2>3. Len(var_set[v]) \in Nat \ {0, 1}
    BY <2>1, <2>2
  <2>4. \A n \in Nat \ {0, 1} : n >= 2
    OBVIOUS
  <2>5. QED
    BY <2>3, <2>4, Zenon
<1>5. ASSUME NEW v \in Var \ var_delete PROVE Range(var_set[v]) \subseteq FreeSets
  <2>1. SUFFICES ASSUME NEW s \in Range(var_set[v]) PROVE s \in Set /\ Free(s)
    BY DEF FreeSets
  <2>2. s \in Set /\ v \in Rows(s)
    BY <1>2, <2>1, RowType DEF Rows
  <2>3. fix[s] # -1
    BY <1>2, <1>3, <2>2 DEF LeftSafely
  <2>4. fix[s] \in {-1, 0, 1} \cup {x + 10 : x \in Set}
    BY <1>2, <2>2 DEF Types, TypeOK
  <2>5. fix[s] = 0
    BY <1>3, <2>2, <2>3, <2>4, ReduceAssumption DEF Settled, Set
  <2>6. QED
    BY <2>2, <2>5 DEF Free
<1>6. ASSUME NEW s \in FreeSets
      PROVE  set_var[s] = {v \in Var \ var_delete : s \in Range(var_set[v])}
  BY <1>2 DEF FreeSets, Columns, Rows
<1>7. (\A s \in Set : org_cost[s] > 0) => (\A s \in FreeSets : cost[s] > 0)
  BY <1>2 DEF CostsPositive, FreeSets
<1>8. QED
  BY <1>4, <1>5, <1>6, <1>7

-----------------------------------------------------------------------------
(* The books and the optimum.                                              *)

Taken == {s \in Set : fix[s] = 1}

(* A row of s is covered by the sets of S or by a settled one.             *)
CoversRest(S) ==
  \A v \in Var : (\E s \in S : v \in Rows(s)) \/ (\E x \in Set : Settled(x) /\ v \in Rows(x))

(* Who waits has its rows in the set it waits for.                         *)
WaitersWithin ==
  \A s \in Set : fix[s] > 9 =>
    fix[s] - 10 \in Set \ {s} /\ Rows(s) \subseteq Rows(fix[s] - 10)

(* A set left by the first pass has its rows in another.                   *)
LeftWithin ==
  pass = "variables" =>
    \A s \in Set : fix[s] = -1 => \E y \in Set \ {s} : Rows(s) \subseteq Rows(y)

(* Deleted rows are those of settled sets.                                 *)
DeletedCovered ==
  \A v \in var_delete : \E x \in Set : Settled(x) /\ v \in Rows(x)

(* Some free sets make a cover that is as cheap as any cover.              *)
OptimumReachable ==
  \A X \in SUBSET Set : Covers(X) =>
    \E S \in SUBSET FreeSets : CoversRest(S) /\ SearchCost(S) <= Total(org_cost, X)

BInv ==
  /\ RInv
  /\ WaitersWithin
  /\ LeftWithin
  /\ DeletedCovered
  /\ CostKept
  /\ OptimumReachable

LEMMA SetsFinite ==
  IsFiniteSet(Set)
BY ReduceAssumption, FS_Interval DEF Set

LEMMA WaiterNumber ==
  ASSUME Types, NEW s \in Set
  PROVE  fix[s] \in {-1, 0, 1} \/ (fix[s] > 9 /\ fix[s] - 10 \in Set)
<1>1. fix[s] \in {-1, 0, 1} \cup {x + 10 : x \in Set}
  BY DEF Types, TypeOK
<1>2. \A x \in Set : x + 10 > 9 /\ (x + 10) - 10 = x
  BY ReduceAssumption DEF Set
<1>3. QED
  BY <1>1, <1>2

(* Waiters need not be told from the sets that are taken: their rows are   *)
(* covered by them or by those they wait for.                              *)
LEMMA CoversCompleted ==
  ASSUME Types, WaitersWithin, NEW S \in SUBSET FreeSets
  PROVE  Covers(Completed(S)) <=> CoversRest(S)
<1> DEFINE taken == S \cup {s \in Set : fix[s] = 1}
           comp  == taken \cup {s \in Set : fix[s] > 9 /\ fix[s] - 10 \notin taken}
<1>1. Completed(S) = comp
  BY DEF Completed
<1>2. S \subseteq Set
  BY DEF FreeSets
<1>3. ASSUME NEW v \in Var, Range(var_set[v]) \cap comp # {}
      PROVE  (\E s \in S : v \in Rows(s)) \/ (\E x \in Set : Settled(x) /\ v \in Rows(x))
  BY <1>2, <1>3 DEF Rows, Settled
<1>4. ASSUME NEW v \in Var, NEW x \in Set, Settled(x), v \in Rows(x)
      PROVE  Range(var_set[v]) \cap comp # {}
  <2>1. CASE x \in comp
    BY <1>4, <2>1 DEF Rows
  <2>2. CASE x \notin comp
    <3>1. fix[x] > 9 /\ fix[x] - 10 \in taken
      BY <1>4, <2>2 DEF Settled
    <3>2. v \in Rows(fix[x] - 10)
      BY <1>4, <3>1 DEF WaitersWithin
    <3>3. QED
      BY <3>1, <3>2 DEF Rows
  <2>3. QED
    BY <2>1, <2>2
<1>5. ASSUME NEW v \in Var, NEW s \in S, v \in Rows(s)
      PROVE  Range(var_set[v]) \cap comp # {}
  BY <1>5 DEF Rows
<1> HIDE DEF comp
<1>6. QED
  BY <1>1, <1>3, <1>4, <1>5 DEF Covers, CoversRest

(* The cost of the sets taken and chosen.                                  *)
LEMMA SearchCostSum ==
  ASSUME Types, NEW S \in SUBSET FreeSets
  PROVE  /\ SearchCost(S) = reduce_cost + Total(cost, S \cup Taken)
         /\ S \cup Taken \in SUBSET Set /\ cost \in [Set -> Nat]
         /\ Total(cost, S \cup Taken) \in Nat /\ reduce_cost \in Nat
<1>1. S \cup Taken \in SUBSET Set
  BY DEF FreeSets, Taken
<1>2. cost \in [Set -> Nat] /\ reduce_cost \in Nat
  BY DEF Types, TypeOK
<1>3. Total(cost, S \cup Taken) \in Nat
  BY <1>1, <1>2, SetsFinite, TotalType
<1>4. QED
  BY <1>1, <1>2, <1>3 DEF SearchCost, Taken

LEMMA SearchCostType ==
  ASSUME Types, NEW S \in SUBSET FreeSets
  PROVE  SearchCost(S) \in Nat
<1>1. /\ SearchCost(S) = reduce_cost + Total(cost, S \cup Taken)
      /\ Total(cost, S \cup Taken) \in Nat /\ reduce_cost \in Nat
  BY SearchCostSum
<1>2. \A m, n \in Nat : m + n \in Nat
  OBVIOUS
<1>3. QED
  BY <1>1, <1>2, Zenon

(* A set that may be taken is free, or taken already and alone.            *)
LEMMA TakeChanges ==
  ASSUME Types, WaitersWithin, LeftWithin, pass = "variables",
         NEW b, NEW A, MayTake(b, A)
  PROVE  b \in Set /\ (Free(b) \/ (fix[b] = 1 /\ A = {}))
<1>1. CASE A # {}
  BY <1>1 DEF MayTake
<1>2. CASE A = {}
  <2>1. PICK v \in Var : Range(var_set[v]) = {b}
    BY <1>2 DEF MayTake
  <2>2. b \in Set /\ v \in Rows(b) /\ \A y : v \in Rows(y) => y = b
    BY <2>1 DEF MayTake, Rows
  <2>3. fix[b] # -1
    BY <2>2 DEF LeftWithin
  <2>4. ~(fix[b] > 9)
    BY <2>2 DEF WaitersWithin
  <2>5. QED
    BY <1>2, <2>2, <2>3, <2>4, WaiterNumber DEF Free
<1>3. QED
  BY <1>1, <1>2

(* Taking a set: the costs of the solutions left are as they were with it. *)
LEMMA TakeBooks ==
  ASSUME Types, CostKept, NEW b \in FreeSets, NEW A, MayTake(b, A), Take(b, A),
         org_cost' = org_cost
  PROVE  CostKept'
<1>1. /\ fix' = [s \in Set |-> IF s \in A THEN -1 ELSE IF s = b THEN 1 ELSE fix[s]]
      /\ cost' = cost /\ reduce_cost' = reduce_cost
      /\ b \in Set /\ A \subseteq Set \ {b} /\ \A x \in A : fix[x] = 0
  BY TakeEffect
<1>2. SUFFICES ASSUME NEW S \in SUBSET {s \in Set : fix'[s] = 0}
               PROVE  reduce_cost' + Total(cost', S \cup {s \in Set : fix'[s] = 1})
                        = Total(org_cost, Completed(S)')
  BY DEF CostKept, SearchCost, FreeSets, Free
<1>3. S \cup {b} \in SUBSET FreeSets
  BY <1>1 DEF FreeSets, Free
<1>4. S \cup {s \in Set : fix'[s] = 1} = (S \cup {b}) \cup {s \in Set : fix[s] = 1}
  BY <1>1
<1>5. {s \in Set : fix'[s] > 9} = {s \in Set : fix[s] > 9} /\ \A s \in Set : fix[s] > 9 => fix'[s] = fix[s]
  BY <1>1, <1>3 DEF FreeSets, Free
<1>6. Completed(S)' = Completed(S \cup {b})
  <2> DEFINE taken == S \cup {s \in Set : fix'[s] = 1}
  <2>1. Completed(S)' = taken \cup {s \in Set : fix'[s] > 9 /\ fix'[s] - 10 \notin taken}
    BY DEF Completed
  <2>2. Completed(S \cup {b}) = taken \cup {s \in Set : fix[s] > 9 /\ fix[s] - 10 \notin taken}
    BY <1>4 DEF Completed
  <2> HIDE DEF taken
  <2>3. {s \in Set : fix'[s] > 9 /\ fix'[s] - 10 \notin taken}
          = {s \in Set : fix[s] > 9 /\ fix[s] - 10 \notin taken}
    BY <1>5
  <2>4. QED
    BY <2>1, <2>2, <2>3
<1>7. SearchCost(S \cup {b}) = Total(org_cost, Completed(S \cup {b}))
  BY <1>3 DEF CostKept
<1>8. QED
  BY <1>1, <1>4, <1>6, <1>7 DEF SearchCost

(* Making a set wait: its cost is paid in advance, and given back where    *)
(* the set it waits for is taken.                                          *)
LEMMA WaitBooks ==
  ASSUME Types, WaitsForLargest, CostKept,
         NEW a, NEW b, NEW A, MayWait(a, b, A), TakeUnless(a, b, A), org_cost' = org_cost
  PROVE  CostKept'
<1>1. /\ fix' = [s \in Set |-> IF s \in A THEN -1 ELSE IF s = a THEN b + 10 ELSE fix[s]]
      /\ cost' = [cost EXCEPT ![b] = @ - cost[a]]
      /\ reduce_cost' = reduce_cost + cost[a]
      /\ a \in Set /\ b \in Set \ {a} /\ A \subseteq Set \ {a, b}
      /\ fix[a] = 0 /\ fix[b] = 0 /\ \A x \in A : fix[x] = 0
      /\ cost[a] \in Nat /\ cost[b] \in Nat /\ cost[a] < cost[b]
  BY TakeUnlessEffect
<1>2. b \in Nat /\ b + 10 > 9 /\ (b + 10) - 10 = b /\ b + 10 # 1 /\ b + 10 # 0
  BY <1>1, ReduceAssumption DEF Set
<1>3. SUFFICES ASSUME NEW S \in SUBSET {s \in Set : fix'[s] = 0}
               PROVE  reduce_cost' + Total(cost', S \cup {s \in Set : fix'[s] = 1})
                        = Total(org_cost, Completed(S)')
  BY DEF CostKept, SearchCost, FreeSets, Free
<1>4. S \in SUBSET FreeSets /\ S \cup {a} \in SUBSET FreeSets /\ a \notin S
  BY <1>1, <1>2 DEF FreeSets, Free
<1>5. {s \in Set : fix'[s] = 1} = Taken
  <2>1. \A s \in Set : fix'[s] = 1 <=> fix[s] = 1
    BY <1>1, <1>2
  <2>2. QED
    BY <2>1 DEF Taken
<1> DEFINE taken == S \cup Taken
           waits == {s \in Set : fix[s] > 9 /\ fix[s] - 10 \notin taken}
<1>6. {s \in Set : fix'[s] > 9 /\ fix'[s] - 10 \notin taken}
        = waits \cup (IF b \in taken THEN {} ELSE {a})
  <2>1. \A s \in Set \ {a} : (fix'[s] > 9 <=> fix[s] > 9) /\ (fix[s] > 9 => fix'[s] = fix[s])
    BY <1>1, <1>2
  <2>2. fix'[a] > 9 /\ fix'[a] - 10 = b /\ ~(fix[a] > 9)
    BY <1>1, <1>2
  <2> HIDE DEF taken
  <2>3. ASSUME NEW s \in Set
        PROVE  (fix'[s] > 9 /\ fix'[s] - 10 \notin taken)
                 <=> \/ fix[s] > 9 /\ fix[s] - 10 \notin taken
                     \/ s = a /\ b \notin taken
    <3>1. CASE s = a
      BY <2>2, <3>1
    <3>2. CASE s # a
      BY <2>1, <3>2
    <3>3. QED
      BY <3>1, <3>2
  <2>4. QED
    BY <1>1, <2>3
<1>7. Completed(S)' = taken \cup waits \cup (IF b \in taken THEN {} ELSE {a})
  BY <1>5, <1>6 DEF Completed
<1>8. Completed(S) = taken \cup waits
  BY DEF Completed, Taken
<1>9. Completed(S \cup {a}) = taken \cup {a} \cup waits
  <2>1. Completed(S \cup {a})
          = (taken \cup {a}) \cup {s \in Set : fix[s] > 9 /\ fix[s] - 10 \notin taken \cup {a}}
    BY DEF Completed, Taken
  <2>2. {s \in Set : fix[s] > 9 /\ fix[s] - 10 \notin taken \cup {a}} = waits
    BY NoneWaitsFor
  <2>3. QED
    BY <2>1, <2>2
<1>10. taken \in SUBSET Set /\ cost \in [Set -> Nat] /\ reduce_cost \in Nat
       /\ SearchCost(S) = reduce_cost + Total(cost, taken) /\ a \notin taken
  <2>1. a \notin Taken
    BY <1>1 DEF Taken
  <2>2. QED
    BY <1>4, <2>1, SearchCostSum
<1>11. cost' \in [Set -> Nat] /\ cost'[b] = cost[b] - cost[a]
       /\ \A x \in Set \ {b} : cost'[x] = cost[x]
  BY <1>1, <1>10
<1> HIDE DEF taken, waits
<1>12. CASE b \in taken
  <2> DEFINE U == taken \ {b}
  <2>1. taken = U \cup {b} /\ U \in SUBSET Set /\ b \in Set \ U
    BY <1>10, <1>12
  <2> HIDE DEF U
  <2>2. Total(cost, taken) = Total(cost, U) + cost[b]
    BY <1>10, <2>1, SetsFinite, TotalAdd
  <2>3. Total(cost', taken) = Total(cost', U) + cost'[b]
    BY <1>11, <2>1, SetsFinite, TotalAdd
  <2>4. Total(cost', U) = Total(cost, U)
    BY <1>11, <2>1, TotalSame
  <2>5. Total(cost, U) \in Nat
    BY <1>10, <2>1, SetsFinite, TotalType
  <2>6. reduce_cost' + Total(cost', taken) = reduce_cost + Total(cost, taken)
    BY <1>1, <1>10, <1>11, <2>2, <2>3, <2>4, <2>5
  <2>7. SearchCost(S) = Total(org_cost, Completed(S))
    BY <1>4 DEF CostKept
  <2>8. Completed(S)' = Completed(S)
    BY <1>7, <1>8, <1>12
  <2>9. QED
    BY <1>5, <1>10, <2>6, <2>7, <2>8 DEF taken
<1>13. CASE b \notin taken
  <2>1. Total(cost', taken) = Total(cost, taken)
    BY <1>10, <1>11, <1>13, TotalSame
  <2>2. Total(cost, taken \cup {a}) = Total(cost, taken) + cost[a]
    BY <1>1, <1>10, SetsFinite, TotalAdd
  <2>3. SearchCost(S \cup {a}) = reduce_cost + Total(cost, taken \cup {a})
    <3>1. (S \cup {a}) \cup Taken = taken \cup {a}
      BY DEF taken
    <3>2. QED
      BY <1>4, <3>1, SearchCostSum
  <2>4. SearchCost(S \cup {a}) = Total(org_cost, Completed(S \cup {a}))
    BY <1>4 DEF CostKept
  <2>5. Completed(S)' = Completed(S \cup {a})
    BY <1>7, <1>9, <1>13
  <2>6. Total(cost, taken) \in Nat
    BY <1>10, SetsFinite, TotalType
  <2>7. reduce_cost' + Total(cost', taken) = Total(org_cost, Completed(S)')
    BY <1>1, <1>10, <2>1, <2>2, <2>3, <2>4, <2>5, <2>6
  <2>8. QED
    BY <1>5, <2>7 DEF taken
<1>14. QED
  BY <1>12, <1>13

(* Whatever solution is reachable before a set is taken, one as cheap is   *)
(* reachable after.                                                        *)
LEMMA TakeSafely ==
  ASSUME Types, NEW b \in FreeSets, NEW A, MayTake(b, A), Take(b, A), var_set' = var_set,
         NEW S \in SUBSET FreeSets, CoversRest(S)
  PROVE  \E T \in SUBSET FreeSets' : CoversRest(T)' /\ SearchCost(T)' <= SearchCost(S)
<1>1. /\ fix' = [s \in Set |-> IF s \in A THEN -1 ELSE IF s = b THEN 1 ELSE fix[s]]
      /\ cost' = cost /\ reduce_cost' = reduce_cost
      /\ b \in Set /\ fix[b] = 0 /\ A \subseteq Set \ {b} /\ \A x \in A : fix[x] = 0
      /\ \A x \in A : Rows(x) \subseteq Rows(b) /\ cost[b] <= cost[x]
  BY TakeEffect DEF MayTake, FreeSets, Free
<1> DEFINE T == S \ (A \cup {b})
<1>2. T \in SUBSET FreeSets'
  BY <1>1 DEF FreeSets, Free
<1>3. CoversRest(T)'
  <2>1. \A s : Rows(s)' = Rows(s)
    BY DEF Rows
  <2>2. \A s \in Set : Settled(s) => Settled(s)'
    BY <1>1 DEF Settled
  <2>3. Settled(b)'
    BY <1>1 DEF Settled
  <2>4. SUFFICES ASSUME NEW v \in Var
                 PROVE  \/ \E s \in T : v \in Rows(s)
                        \/ \E x \in Set : Settled(x)' /\ v \in Rows(x)
    BY <2>1 DEF CoversRest
  <2>5. CASE \E x \in Set : Settled(x) /\ v \in Rows(x)
    BY <2>2, <2>5
  <2>6. ASSUME NEW s \in S, v \in Rows(s)
        PROVE  \/ \E x \in T : v \in Rows(x)
               \/ \E x \in Set : Settled(x)' /\ v \in Rows(x)
    <3>1. CASE s \in A \cup {b}
      BY <1>1, <2>3, <2>6, <3>1
    <3>2. CASE s \notin A \cup {b}
      BY <2>6, <3>2
    <3>3. QED
      BY <3>1, <3>2
  <2>7. QED
    BY <2>5, <2>6 DEF CoversRest
<1>4. PICK x \in S \cap (A \cup {b}) : cost[b] <= cost[x]
  <2>1. PICK v \in Var : Range(var_set[v]) = A \cup {b}
    BY DEF MayTake
  <2>2. \A x \in Set : v \in Rows(x) => fix[x] = 0 /\ x \in A \cup {b}
    BY <1>1, <2>1 DEF Rows
  <2>3. \A x \in Set : v \in Rows(x) => ~Settled(x)
    BY <2>2 DEF Settled
  <2>4. PICK s \in S : v \in Rows(s)
    BY <2>3 DEF CoversRest
  <2>5. s \in A \cup {b}
    BY <2>2, <2>4 DEF FreeSets
  <2>6. cost[b] \in Nat
    BY <1>1 DEF Types, TypeOK
  <2>7. QED
    BY <1>1, <2>5, <2>6
<1> DEFINE U == T \cup Taken
<1>5. /\ SearchCost(S) = reduce_cost + Total(cost, S \cup Taken)
      /\ S \cup Taken \in SUBSET Set /\ cost \in [Set -> Nat]
      /\ Total(cost, S \cup Taken) \in Nat /\ reduce_cost \in Nat
  BY SearchCostSum
<1>6. U \in SUBSET Set /\ x \in Set \ U /\ b \in Set \ U /\ U \cup {x} \in SUBSET (S \cup Taken)
  BY <1>1, <1>4, <1>5 DEF Taken
<1>7. SearchCost(T)' = reduce_cost + Total(cost, U \cup {b})
  <2>1. T \cup {s \in Set : fix'[s] = 1} = U \cup {b}
    BY <1>1 DEF Taken
  <2> HIDE DEF T, U
  <2>2. QED
    BY <1>1, <2>1 DEF SearchCost
<1> HIDE DEF T, U
<1>8. Total(cost, U \cup {b}) = Total(cost, U) + cost[b]
  BY <1>5, <1>6, SetsFinite, TotalAdd
<1>9. Total(cost, U \cup {x}) = Total(cost, U) + cost[x]
  BY <1>5, <1>6, SetsFinite, TotalAdd
<1>10. Total(cost, U \cup {x}) <= Total(cost, S \cup Taken)
  BY <1>5, <1>6, SetsFinite, TotalMonotone
<1>11. Total(cost, U) \in Nat /\ cost[b] \in Nat /\ cost[x] \in Nat
  BY <1>5, <1>6, SetsFinite, TotalType
<1>12. SearchCost(T)' <= SearchCost(S)
  BY <1>4, <1>5, <1>7, <1>8, <1>9, <1>10, <1>11
<1>13. QED
  BY <1>2, <1>3, <1>12

(* The same where a set is made to wait.                                   *)
LEMMA WaitSafely ==
  ASSUME Types, NEW a, NEW b, NEW A, MayWait(a, b, A), TakeUnless(a, b, A),
         var_set' = var_set, NEW S \in SUBSET FreeSets, CoversRest(S)
  PROVE  \E T \in SUBSET FreeSets' : CoversRest(T)' /\ SearchCost(T)' <= SearchCost(S)
<1>1. /\ fix' = [s \in Set |-> IF s \in A THEN -1 ELSE IF s = a THEN b + 10 ELSE fix[s]]
      /\ cost' = [cost EXCEPT ![b] = @ - cost[a]]
      /\ reduce_cost' = reduce_cost + cost[a]
      /\ a \in Set /\ b \in Set \ {a} /\ A \subseteq Set \ {a, b}
      /\ fix[a] = 0 /\ fix[b] = 0 /\ \A x \in A : fix[x] = 0
      /\ cost[a] \in Nat /\ cost[b] \in Nat /\ cost[a] < cost[b]
      /\ \A x \in A : Rows(x) \subseteq Rows(a) /\ cost[a] <= cost[x]
  BY TakeUnlessEffect DEF MayWait
<1>2. b \in Nat /\ b + 10 > 9 /\ b + 10 # 1 /\ b + 10 # 0
  BY <1>1, ReduceAssumption DEF Set
<1> DEFINE T == S \ (A \cup {a})
<1>3. T \in SUBSET FreeSets'
  BY <1>1 DEF FreeSets, Free
<1>4. CoversRest(T)'
  <2>1. \A s : Rows(s)' = Rows(s)
    BY DEF Rows
  <2>2. \A s \in Set : Settled(s) => Settled(s)'
    BY <1>1 DEF Settled
  <2>3. Settled(a)'
    BY <1>1, <1>2 DEF Settled
  <2>4. SUFFICES ASSUME NEW v \in Var
                 PROVE  \/ \E s \in T : v \in Rows(s)
                        \/ \E x \in Set : Settled(x)' /\ v \in Rows(x)
    BY <2>1 DEF CoversRest
  <2>5. CASE \E x \in Set : Settled(x) /\ v \in Rows(x)
    BY <2>2, <2>5
  <2>6. ASSUME NEW s \in S, v \in Rows(s)
        PROVE  \/ \E x \in T : v \in Rows(x)
               \/ \E x \in Set : Settled(x)' /\ v \in Rows(x)
    <3>1. CASE s \in A \cup {a}
      BY <1>1, <2>3, <2>6, <3>1
    <3>2. CASE s \notin A \cup {a}
      BY <2>6, <3>2
    <3>3. QED
      BY <3>1, <3>2
  <2>7. QED
    BY <2>5, <2>6 DEF CoversRest
<1>5. PICK x \in S \cap (A \cup {a, b}) : x = b \/ cost[a] <= cost[x]
  <2>1. PICK v \in Var : Range(var_set[v]) = A \cup {a, b}
    BY DEF MayWait
  <2>2. \A x \in Set : v \in Rows(x) => fix[x] = 0 /\ x \in A \cup {a, b}
    BY <1>1, <2>1 DEF Rows
  <2>3. \A x \in Set : v \in Rows(x) => ~Settled(x)
    BY <2>2 DEF Settled
  <2>4. PICK s \in S : v \in Rows(s)
    BY <2>3 DEF CoversRest
  <2>5. s \in A \cup {a, b}
    BY <2>2, <2>4 DEF FreeSets
  <2>6. QED
    BY <1>1, <2>5
<1>6. /\ SearchCost(S) = reduce_cost + Total(cost, S \cup Taken)
      /\ S \cup Taken \in SUBSET Set /\ cost \in [Set -> Nat]
      /\ Total(cost, S \cup Taken) \in Nat /\ reduce_cost \in Nat
  BY SearchCostSum
<1>7. SearchCost(T)' = reduce_cost' + Total(cost', T \cup Taken)
  <2>1. \A s \in Set : fix'[s] = 1 <=> fix[s] = 1
    BY <1>1, <1>2
  <2>2. {s \in Set : fix'[s] = 1} = Taken
    BY <2>1 DEF Taken
  <2> HIDE DEF T
  <2>3. QED
    BY <2>2 DEF SearchCost
<1>8. cost' \in [Set -> Nat] /\ cost'[b] = cost[b] - cost[a]
      /\ \A y \in Set \ {b} : cost'[y] = cost[y]
  BY <1>1, <1>6
<1>9. CASE b \in S
  <2> DEFINE U == (T \ {b}) \cup Taken
  <2>1. /\ T \cup Taken = U \cup {b} /\ U \in SUBSET Set /\ b \in Set \ U
        /\ U \cup {b} \in SUBSET (S \cup Taken)
    BY <1>1, <1>6, <1>9 DEF Taken
  <2> HIDE DEF U, T
  <2>2. Total(cost, U \cup {b}) = Total(cost, U) + cost[b]
    BY <1>6, <2>1, SetsFinite, TotalAdd
  <2>3. Total(cost', U \cup {b}) = Total(cost', U) + cost'[b]
    BY <1>8, <2>1, SetsFinite, TotalAdd
  <2>4. Total(cost', U) = Total(cost, U)
    BY <1>8, <2>1, TotalSame
  <2>5. Total(cost, U \cup {b}) <= Total(cost, S \cup Taken)
    BY <1>6, <2>1, SetsFinite, TotalMonotone
  <2>6. Total(cost, U) \in Nat
    BY <1>6, <2>1, SetsFinite, TotalType
  <2>7. Total(cost', T \cup Taken) = Total(cost, U) + (cost[b] - cost[a])
    BY <1>8, <2>1, <2>3, <2>4
  <2>8. SearchCost(T)' <= SearchCost(S)
    BY <1>1, <1>6, <1>7, <2>2, <2>5, <2>6, <2>7
  <2>9. QED
    BY <1>3, <1>4, <2>8
<1>10. CASE b \notin S
  <2> DEFINE U == T \cup Taken
  <2>1. /\ U \in SUBSET Set /\ b \notin U /\ x \in Set \ U /\ cost[a] <= cost[x]
        /\ U \cup {x} \in SUBSET (S \cup Taken)
    BY <1>1, <1>5, <1>6, <1>10 DEF Taken
  <2> HIDE DEF U
  <2>2. Total(cost', U) = Total(cost, U)
    BY <1>8, <2>1, TotalSame
  <2>3. Total(cost, U \cup {x}) = Total(cost, U) + cost[x]
    BY <1>6, <2>1, SetsFinite, TotalAdd
  <2>4. Total(cost, U \cup {x}) <= Total(cost, S \cup Taken)
    BY <1>6, <2>1, SetsFinite, TotalMonotone
  <2>5. Total(cost, U) \in Nat /\ cost[x] \in Nat
    BY <1>6, <2>1, SetsFinite, TotalType
  <2>6. SearchCost(T)' = reduce_cost' + Total(cost', U)
    BY <1>7 DEF U
  <2> HIDE DEF T
  <2>7. SearchCost(T)' <= SearchCost(S)
    BY <1>1, <1>6, <2>1, <2>2, <2>3, <2>4, <2>5, <2>6
  <2>8. QED
    BY <1>3, <1>4, <2>7
<1>11. QED
  BY <1>9, <1>10

(* No set waits for another, and none is left for another, but one with    *)
(* all its rows.                                                           *)
LEMMA DecisionWithin ==
  ASSUME Types, WaitersWithin, LeftWithin, pass = "variables", Decision,
         var_set' = var_set
  PROVE  WaitersWithin' /\ LeftWithin'
<1>1. \A s : Rows(s)' = Rows(s)
  BY DEF Rows
<1>2. CASE Keep
  BY <1>1, <1>2 DEF Keep, WaitersWithin, LeftWithin
<1>3. ASSUME NEW b, NEW A, MayTake(b, A), Take(b, A)
      PROVE  WaitersWithin' /\ LeftWithin'
  <2>1. \A s \in Set : fix'[s] > 9 => fix'[s] = fix[s]
    BY <1>3, TakeEffect
  <2>2. \A s \in Set : fix'[s] = -1 =>
          fix[s] = -1 \/ (b \in Set \ {s} /\ Rows(s) \subseteq Rows(b))
    BY <1>3, TakeEffect
  <2>3. WaitersWithin'
    BY <1>1, <2>1 DEF WaitersWithin
  <2>4. LeftWithin'
    BY <1>1, <2>2 DEF LeftWithin
  <2>5. QED
    BY <2>3, <2>4
<1>4. ASSUME NEW a, NEW b, NEW A, MayWait(a, b, A), TakeUnless(a, b, A)
      PROVE  WaitersWithin' /\ LeftWithin'
  <2>1. /\ a \in Set /\ b \in Set \ {a} /\ b \in Nat
        /\ A \subseteq Set \ {a, b}
        /\ Rows(a) \subseteq Rows(b) /\ \A x \in A : Rows(x) \subseteq Rows(a)
    BY <1>4, TakeUnlessEffect, ReduceAssumption DEF MayWait, Set
  <2>2. \A s \in Set : fix'[s] > 9 => fix'[s] = fix[s] \/ (s = a /\ fix'[s] - 10 = b)
    BY <1>4, <2>1, TakeUnlessEffect
  <2>3. \A s \in Set : fix'[s] = -1 =>
          fix[s] = -1 \/ (a \in Set \ {s} /\ Rows(s) \subseteq Rows(a))
    BY <1>4, <2>1, TakeUnlessEffect
  <2>4. WaitersWithin'
    BY <1>1, <2>1, <2>2 DEF WaitersWithin
  <2>5. LeftWithin'
    BY <1>1, <2>3 DEF LeftWithin
  <2>6. QED
    BY <2>4, <2>5
<1>5. QED
  BY <1>2, <1>3, <1>4 DEF Decision

(* A decision keeps the books, and a solution as cheap as any.             *)
LEMMA DecisionBooks ==
  ASSUME Types, WaitersWithin, LeftWithin, WaitsForLargest, CostKept,
         pass = "variables", Decision, var_set' = var_set, org_cost' = org_cost
  PROVE  /\ CostKept'
         /\ \A S \in SUBSET FreeSets : CoversRest(S) =>
              \E T \in SUBSET FreeSets' : CoversRest(T)' /\ SearchCost(T)' <= SearchCost(S)
<1> DEFINE Kept == /\ CostKept'
                   /\ \A S \in SUBSET FreeSets : CoversRest(S) =>
                        \E T \in SUBSET FreeSets' :
                          CoversRest(T)' /\ SearchCost(T)' <= SearchCost(S)
<1>1. ASSUME fix' = fix, cost' = cost, reduce_cost' = reduce_cost PROVE Kept
  <2>1. \A s : Rows(s)' = Rows(s)
    BY DEF Rows
  <2>2. \A s : Settled(s)' <=> Settled(s)
    BY <1>1 DEF Settled
  <2>3. \A S : (CoversRest(S)' <=> CoversRest(S)) /\ SearchCost(S)' = SearchCost(S)
    BY <1>1, <2>1, <2>2 DEF CoversRest, SearchCost
  <2>4. FreeSets' = FreeSets /\ \A S : Completed(S)' = Completed(S)
    BY <1>1 DEF FreeSets, Free, Completed
  <2>5. \A S \in SUBSET FreeSets : SearchCost(S) \in Nat
    BY SearchCostType
  <2>6. CostKept'
    BY <2>3, <2>4 DEF CostKept
  <2>7. \A S \in SUBSET FreeSets : SearchCost(S) <= SearchCost(S)
    BY <2>5
  <2>8. QED
    BY <2>3, <2>4, <2>6, <2>7
<1>2. ASSUME NEW b, NEW A, MayTake(b, A), Take(b, A) PROVE Kept
  <2>1. CASE Free(b)
    <3>1. b \in FreeSets
      BY <1>2, <2>1 DEF FreeSets, MayTake
    <3>2. QED
      BY <1>2, <3>1, TakeBooks, TakeSafely
  <2>2. CASE fix[b] = 1 /\ A = {}
    <3>1. fix' = fix /\ cost' = cost /\ reduce_cost' = reduce_cost
      BY <1>2, <2>2, TakeEffect DEF Types, TypeOK
    <3>2. QED
      BY <1>1, <3>1
  <2>3. QED
    BY <1>2, <2>1, <2>2, TakeChanges
<1>3. ASSUME NEW a, NEW b, NEW A, MayWait(a, b, A), TakeUnless(a, b, A) PROVE Kept
  BY <1>3, WaitBooks, WaitSafely
<1>4. QED
  BY <1>1, <1>2, <1>3 DEF Decision, Keep

(* As cheap as any cover, if it is so before a step which loses nothing.   *)
LEMMA ReachableStill ==
  ASSUME Types, Types', OptimumReachable, var_set' = var_set, org_cost' = org_cost,
         \A S \in SUBSET FreeSets : CoversRest(S) =>
           \E T \in SUBSET FreeSets' : CoversRest(T)' /\ SearchCost(T)' <= SearchCost(S)
  PROVE  OptimumReachable'
<1>1. SUFFICES ASSUME NEW X \in SUBSET Set, Covers(X)
               PROVE  \E T \in SUBSET FreeSets' :
                        CoversRest(T)' /\ SearchCost(T)' <= Total(org_cost, X)
  BY DEF OptimumReachable, Covers
<1>2. PICK S \in SUBSET FreeSets : CoversRest(S) /\ SearchCost(S) <= Total(org_cost, X)
  BY <1>1 DEF OptimumReachable
<1>3. PICK T \in SUBSET FreeSets' : CoversRest(T)' /\ SearchCost(T)' <= SearchCost(S)
  BY <1>2
<1>4. SearchCost(S) \in Nat
  BY SearchCostType
<1>5. SearchCost(T)' \in Int
  <2>1. FreeSets' \subseteq Set
    BY DEF FreeSets
  <2>2. T \cup Taken' \in SUBSET Set
    BY <2>1 DEF Taken
  <2>3. cost' \in [Set -> Nat] /\ reduce_cost' \in Nat
    BY DEF Types, TypeOK
  <2>4. Total(cost', T \cup Taken') \in Nat
    BY <2>2, <2>3, SetsFinite, TotalType
  <2>5. SearchCost(T)' = reduce_cost' + Total(cost', T \cup Taken')
    BY DEF SearchCost, Taken
  <2>6. QED
    BY <2>3, <2>4, <2>5
<1>6. Total(org_cost, X) \in Int
  <2>1. org_cost \in [Set -> Nat]
    BY ReduceAssumption DEF Types
  <2>2. QED
    BY <2>1, SetsFinite, TotalType
<1>7. SearchCost(T)' <= Total(org_cost, X)
  BY <1>2, <1>3, <1>4, <1>5, <1>6
<1>8. QED
  BY <1>3, <1>7

LEMMA LookAtRowBooks ==
  ASSUME BInv, LookAtRow PROVE BInv'
<1>1. /\ RInv /\ WaitersWithin /\ LeftWithin /\ DeletedCovered /\ CostKept
      /\ OptimumReachable /\ Types /\ Columns /\ WaitsForLargest
  BY DEF BInv, RInv
<1>2. RInv' /\ Types'
  BY <1>1, LookAtRowInvariant DEF RInv
<1>3. /\ pass = "variables" /\ Decide(var_set[i])
      /\ var_set' = var_set /\ org_cost' = org_cost /\ var_delete' = var_delete
  BY DEF LookAtRow, instance
<1>4. i \in Var /\ Decision
  <2>1. i \in Var
    BY <1>1, <1>3 DEF Types
  <2>2. QED
    BY <1>1, <1>3, <2>1, RowDecision
<1>5. WaitersWithin' /\ LeftWithin'
  BY <1>1, <1>3, <1>4, DecisionWithin
<1>6. DeletedCovered'
  BY <1>1, <1>3 DEF Columns, DeletedCovered
<1>7. /\ CostKept'
      /\ \A S \in SUBSET FreeSets : CoversRest(S) =>
           \E T \in SUBSET FreeSets' : CoversRest(T)' /\ SearchCost(T)' <= SearchCost(S)
  BY <1>1, <1>3, <1>4, DecisionBooks
<1>8. OptimumReachable'
  BY <1>1, <1>2, <1>3, <1>7, ReachableStill
<1>9. QED
  BY <1>2, <1>5, <1>6, <1>7, <1>8 DEF BInv

(* A step of the second pass settles nothing; the solutions left are some  *)
(* of those before, at the same cost.                                      *)
LEMMA LookAtSetSolutions ==
  ASSUME RInv, CostKept, LookAtSet
  PROVE  /\ FreeSets' \subseteq FreeSets /\ CostKept'
         /\ \A S : SearchCost(S)' = SearchCost(S)
<1>1. /\ Types /\ fix \in [Set -> {-1, 0, 1} \cup {s + 10 : s \in Set}]
      /\ cost' = cost /\ reduce_cost' = reduce_cost /\ org_cost' = org_cost
  BY DEF RInv, Types, TypeOK, LookAtSet, instance
<1>2. /\ \A x \in Set : fix[x] # 0 => fix'[x] = fix[x]
      /\ \A x \in Set : fix[x] = 0 => fix'[x] \in {-1, 0}
  BY LookAtSetEffect DEF Free
<1>3. \A x \in Set : /\ fix'[x] = 1 <=> fix[x] = 1
                     /\ fix'[x] > 9 <=> fix[x] > 9
                     /\ fix[x] > 9 => fix'[x] = fix[x]
                     /\ fix'[x] = 0 => fix[x] = 0
  BY <1>2
<1>4. FreeSets' \subseteq FreeSets
  BY <1>3 DEF FreeSets, Free
<1>5. \A S : SearchCost(S)' = SearchCost(S)
  <2>1. {s \in Set : fix'[s] = 1} = {s \in Set : fix[s] = 1}
    BY <1>3
  <2>2. QED
    BY <1>1, <2>1 DEF SearchCost
<1>6. \A S : Completed(S)' = Completed(S)
  <2>1. {s \in Set : fix'[s] = 1} = {s \in Set : fix[s] = 1}
    BY <1>3
  <2>2. \A T : {s \in Set : fix'[s] > 9 /\ fix'[s] - 10 \notin T}
                 = {s \in Set : fix[s] > 9 /\ fix[s] - 10 \notin T}
    BY <1>3
  <2>3. QED
    BY <2>1, <2>2 DEF Completed
<1>7. CostKept'
  BY <1>1, <1>4, <1>5, <1>6 DEF CostKept
<1>8. QED
  BY <1>4, <1>5, <1>7

(* The sets dropped by the second pass have no row but deleted ones, and   *)
(* those are covered.                                                      *)
LEMMA LookAtSetCovers ==
  ASSUME RInv, DeletedCovered, LookAtSet
  PROVE  /\ DeletedCovered'
         /\ \A S \in SUBSET FreeSets : \A T :
               T = S \cap FreeSets' /\ CoversRest(S) => CoversRest(T)'
<1>1. Columns /\ var_set' = var_set
  BY DEF RInv, LookAtSet, instance
<1>2. PICK rows \in SUBSET Rows(i) :
        /\ i \in Set
        /\ ~Settled(i) => rows = {}
        /\ \A x \in Set : fix[x] # 0 => fix'[x] = fix[x]
        /\ \A x \in Set : Free(x) =>
             fix'[x] = 0 \/ (fix'[x] = -1 /\ set_var[x] \subseteq rows)
        /\ var_delete' = var_delete \cup rows
  BY LookAtSetEffect
<1>3. \A s : Rows(s)' = Rows(s)
  BY <1>1 DEF Rows
<1>4. \A x \in Set : Settled(x)' <=> Settled(x)
  BY <1>2 DEF Settled, Free
<1>5. DeletedCovered'
  <2>1. SUFFICES ASSUME NEW v \in var_delete \cup rows
                 PROVE  \E x \in Set : Settled(x) /\ v \in Rows(x)
    BY <1>2, <1>3, <1>4 DEF DeletedCovered
  <2>2. CASE v \in var_delete
    BY <2>2 DEF DeletedCovered
  <2>3. CASE v \in rows
    BY <1>2, <2>3
  <2>4. QED
    BY <2>1, <2>2, <2>3
<1>6. ASSUME NEW S \in SUBSET FreeSets, NEW T, T = S \cap FreeSets', CoversRest(S)
      PROVE  CoversRest(T)'
  <2>1. SUFFICES ASSUME NEW v \in Var
                 PROVE  \/ \E s \in T : v \in Rows(s)
                        \/ \E x \in Set : Settled(x) /\ v \in Rows(x)
    BY <1>3, <1>4 DEF CoversRest
  <2>2. CASE \E x \in Set : Settled(x) /\ v \in Rows(x)
    BY <2>2
  <2>3. ASSUME NEW s \in S, v \in Rows(s)
        PROVE  \/ \E x \in T : v \in Rows(x)
               \/ \E x \in Set : Settled(x) /\ v \in Rows(x)
    <3>1. s \in Set /\ Free(s)
      BY DEF FreeSets
    <3>2. CASE fix'[s] = 0
      BY <1>6, <2>3, <3>1, <3>2 DEF FreeSets, Free
    <3>3. CASE set_var[s] \subseteq rows
      <4>1. v \in var_delete \cup rows
        BY <1>1, <2>3, <3>1, <3>3 DEF Columns
      <4>2. QED
        BY <1>2, <4>1 DEF DeletedCovered
    <3>4. QED
      BY <1>2, <3>1, <3>2, <3>3
  <2>4. QED
    BY <1>6, <2>2, <2>3 DEF CoversRest
<1>7. QED
  BY <1>5, <1>6

LEMMA LookAtSetBooks ==
  ASSUME BInv, LookAtSet PROVE BInv'
<1>1. /\ RInv /\ WaitersWithin /\ DeletedCovered /\ CostKept /\ OptimumReachable /\ Types
  BY DEF BInv, RInv
<1>2. RInv' /\ Types'
  BY <1>1, LookAtSetInvariant DEF RInv
<1>3. /\ var_set' = var_set /\ org_cost' = org_cost /\ cost' = cost
      /\ reduce_cost' = reduce_cost /\ pass' # "variables"
  BY DEF LookAtSet, instance, Advance
<1>4. FreeSets' \subseteq FreeSets /\ CostKept' /\ \A S : SearchCost(S)' = SearchCost(S)
  BY <1>1, LookAtSetSolutions
<1>5. DeletedCovered'
  BY <1>1, LookAtSetCovers
<1>6. WaitersWithin'
  <2>1. \A s : Rows(s)' = Rows(s)
    BY <1>3 DEF Rows
  <2>2. /\ \A x \in Set : fix[x] # 0 => fix'[x] = fix[x]
        /\ \A x \in Set : fix[x] = 0 => fix'[x] \in {-1, 0}
    BY <1>1, LookAtSetEffect DEF Free
  <2>3. \A s \in Set : fix'[s] > 9 => fix'[s] = fix[s]
    BY <2>2
  <2>4. QED
    BY <1>1, <2>1, <2>3 DEF WaitersWithin
<1>7. LeftWithin'
  BY <1>3 DEF LeftWithin
<1>8. \A S \in SUBSET FreeSets : CoversRest(S) =>
        \E T \in SUBSET FreeSets' : CoversRest(T)' /\ SearchCost(T)' <= SearchCost(S)
  <2>1. SUFFICES ASSUME NEW S \in SUBSET FreeSets, CoversRest(S)
                 PROVE  \E T \in SUBSET FreeSets' :
                          CoversRest(T)' /\ SearchCost(T)' <= SearchCost(S)
    OBVIOUS
  <2> PICK T : T = S \cap FreeSets'
    OBVIOUS
  <2>2. CoversRest(T)'
    BY <1>1, <2>1, LookAtSetCovers
  <2>3. /\ SearchCost(S) = reduce_cost + Total(cost, S \cup Taken)
        /\ S \cup Taken \in SUBSET Set /\ cost \in [Set -> Nat]
        /\ Total(cost, S \cup Taken) \in Nat /\ reduce_cost \in Nat
    BY <1>1, SearchCostSum
  <2>4. /\ SearchCost(T) = reduce_cost + Total(cost, T \cup Taken)
        /\ Total(cost, T \cup Taken) \in Nat
    BY <1>1, <1>4, SearchCostSum
  <2>5. T \cup Taken \in SUBSET (S \cup Taken)
    OBVIOUS
  <2>6. Total(cost, T \cup Taken) <= Total(cost, S \cup Taken)
    BY <2>3, <2>5, SetsFinite, TotalMonotone
  <2>7. SearchCost(T) <= SearchCost(S)
    BY <2>3, <2>4, <2>6
  <2>8. SearchCost(T)' = SearchCost(T)
    BY <1>4
  <2>9. T \in SUBSET FreeSets'
    OBVIOUS
  <2>10. QED
    BY <2>2, <2>7, <2>8, <2>9
<1>9. OptimumReachable'
  BY <1>1, <1>2, <1>3, <1>8, ReachableStill
<1>10. QED
  BY <1>2, <1>4, <1>5, <1>6, <1>7, <1>9 DEF BInv

LEMMA InitBooks ==
  ASSUME Init PROVE BInv
<1>1. RInv /\ Types
  BY InitInvariant DEF RInv
<1>2. /\ fix = [s \in Set |-> 0] /\ var_delete = {} /\ cost = org_cost /\ reduce_cost = 0
  BY DEF Init
<1>3. WaitersWithin /\ LeftWithin /\ DeletedCovered
  BY <1>2 DEF WaitersWithin, LeftWithin, DeletedCovered
<1>4. FreeSets = Set /\ Taken = {}
  BY <1>2 DEF FreeSets, Free, Taken
<1>5. ASSUME NEW S \in SUBSET Set PROVE Completed(S) = S
  BY <1>2 DEF Completed
<1>6. ASSUME NEW S \in SUBSET Set PROVE SearchCost(S) = Total(org_cost, S)
  <2>1. SearchCost(S) = 0 + Total(org_cost, S)
    BY <1>2, <1>4 DEF SearchCost, Taken
  <2>2. Total(org_cost, S) \in Nat
    BY <1>1, <1>2, SetsFinite, TotalType DEF Types, TypeOK
  <2>3. QED
    BY <2>1, <2>2
<1>7. CostKept
  BY <1>4, <1>5, <1>6 DEF CostKept
<1>8. OptimumReachable
  <2>1. SUFFICES ASSUME NEW X \in SUBSET Set, Covers(X)
                 PROVE  CoversRest(X) /\ SearchCost(X) <= Total(org_cost, X)
    BY <1>4 DEF OptimumReachable
  <2>2. CoversRest(X)
    <3>1. Covers(Completed(X))
      BY <1>5, <2>1
    <3>2. QED
      BY <1>1, <1>3, <1>4, <3>1, CoversCompleted
  <2>3. Total(org_cost, X) \in Nat
    BY <1>1, <1>2, SetsFinite, TotalType DEF Types, TypeOK
  <2>4. SearchCost(X) = Total(org_cost, X)
    BY <1>6
  <2>5. QED
    BY <2>2, <2>3, <2>4
<1>9. QED
  BY <1>1, <1>3, <1>7, <1>8 DEF BInv

LEMMA SameBooks ==
  ASSUME BInv, UNCHANGED vars PROVE BInv'
<1>1. /\ UNCHANGED <<var_set, org_cost, cost, reduce_cost, fix>>
      /\ UNCHANGED <<set_var, var_delete, pass, i>>
  BY DEF vars, instance
<1>2. \A s : Rows(s)' = Rows(s)
  BY <1>1 DEF Rows
<1>3. \A s : Settled(s)' <=> Settled(s)
  BY <1>1 DEF Settled
<1>4. RInv'
  BY SameInvariant DEF BInv
<1>5. WaitersWithin' /\ LeftWithin' /\ DeletedCovered'
  BY <1>1, <1>2, <1>3 DEF BInv, WaitersWithin, LeftWithin, DeletedCovered
<1>6. \A S : SearchCost(S)' = SearchCost(S) /\ Completed(S)' = Completed(S)
  BY <1>1 DEF SearchCost, Completed
<1>7. FreeSets' = FreeSets
  BY <1>1 DEF FreeSets, Free
<1>8. CostKept'
  BY <1>1, <1>6, <1>7 DEF BInv, CostKept
<1>9. OptimumReachable'
  BY <1>1, <1>2, <1>3, <1>6, <1>7 DEF BInv, OptimumReachable, CoversRest, Covers
<1>10. QED
  BY <1>4, <1>5, <1>8, <1>9 DEF BInv

LEMMA Books ==
  Spec => []BInv
<1>1. ASSUME BInv, [Next]_vars PROVE BInv'
  BY <1>1, LookAtRowBooks, LookAtSetBooks, SameBooks DEF Next
<1>2. QED
  BY <1>1, InitBooks, PTL DEF Spec

(* What two sets of numbers need to have the same minimum, or none.        *)
LEMMA MinSame ==
  ASSUME NEW B \in SUBSET Int, NEW A \in SUBSET B, \A b \in B : \E a \in A : a <= b
  PROVE  Min(A) = Min(B)
<1>1. ASSUME NEW x \in A, \A y \in A : x <= y, NEW b \in B PROVE x <= b
  <2>1. PICK a \in A : a <= b
    OBVIOUS
  <2>2. x \in Int /\ a \in Int /\ b \in Int /\ x <= a
    BY <1>1
  <2>3. QED
    BY <2>1, <2>2
<1>2. ASSUME NEW x \in B, \A y \in B : x <= y PROVE x \in A
  <2>1. PICK a \in A : a <= x
    OBVIOUS
  <2>2. x \in Int /\ a \in Int /\ x <= a
    BY <1>2
  <2>3. x = a
    BY <2>1, <2>2
  <2>4. QED
    BY <2>3
<1>3. \A x : (x \in A /\ \A y \in A : x <= y) <=> (x \in B /\ \A y \in B : x <= y)
  BY <1>1, <1>2
<1>4. QED
  BY <1>3 DEF Min

LEMMA OptimumFromBooks ==
  ASSUME BInv PROVE OptimumKept
<1>1. /\ Types /\ WaitersWithin /\ CostKept /\ OptimumReachable
      /\ org_cost \in [Set -> Nat]
  BY ReduceAssumption DEF BInv, RInv, Types
<1> DEFINE A == {Total(org_cost, Completed(S)) : S \in {X \in SUBSET FreeSets : Covers(Completed(X))}}
           B == {Total(org_cost, S) : S \in {X \in SUBSET Set : Covers(X)}}
<1>2. \A S \in SUBSET FreeSets : Completed(S) \in SUBSET Set
  BY DEF Completed, FreeSets
<1>3. B \in SUBSET Int
  <2>1. \A S \in SUBSET Set : Total(org_cost, S) \in Nat
    BY <1>1, SetsFinite, TotalType
  <2>2. QED
    BY <2>1
<1>4. A \in SUBSET B
  BY <1>2
<1>5. ASSUME NEW b \in B PROVE \E a \in A : a <= b
  <2>1. PICK X \in SUBSET Set : Covers(X) /\ b = Total(org_cost, X)
    OBVIOUS
  <2>2. PICK S \in SUBSET FreeSets : CoversRest(S) /\ SearchCost(S) <= Total(org_cost, X)
    BY <1>1, <2>1 DEF OptimumReachable
  <2>3. Covers(Completed(S))
    BY <1>1, <2>2, CoversCompleted
  <2>4. SearchCost(S) = Total(org_cost, Completed(S))
    BY <1>1 DEF CostKept
  <2>5. QED
    BY <2>1, <2>2, <2>3, <2>4
<1> HIDE DEF A, B
<1>6. Min(A) = Min(B)
  BY <1>3, <1>4, <1>5, MinSame
<1>7. QED
  BY <1>6 DEF OptimumKept, A, B

LEMMA Invariant ==
  Spec => []RInv
<1>1. BInv => RInv
  BY DEF BInv
<1>2. QED
  BY <1>1, Books, PTL

(***************************************************************************)
(* Types: no cost falls below zero, though reduce_instance takes the cost  *)
(* of a set off the cost of another (wscp.h:404-805).                      *)
(***************************************************************************)
THEOREM ReduceTypeCorrect ==
  Spec => []TypeOK
<1>1. RInv => TypeOK
  BY DEF RInv, Types
<1>2. QED
  BY <1>1, Invariant, PTL

(***************************************************************************)
(* No set is made to wait for one that waits itself, whichever rows come   *)
(* in whichever order: check_solu looks one step far only.                 *)
(***************************************************************************)
THEOREM ChainsNever ==
  Spec => []NoChains
<1>1. RInv => NoChains
  BY DEF RInv
<1>2. QED
  BY <1>1, Invariant, PTL

(***************************************************************************)
(* The search gets the instance it relies on: rows of two sets or more,    *)
(* all free, the variables of a free set among them, and no free set of    *)
(* cost zero that had a cost in the file.                                  *)
(***************************************************************************)
THEOREM SearchIsReady ==
  Spec => []SearchReady
<1>1. QED
  BY ReadyAtTheEnd, Invariant, PTL

(***************************************************************************)
(* At every row and set of the two passes the types are right, no set      *)
(* waits for one that waits, and the books balance: whichever free sets    *)
(* the search chooses, it pays what the completed solution costs in the    *)
(* file (wscp.h:404-805).                                                  *)
(***************************************************************************)
THEOREM BooksBalance ==
  Spec => []ReduceInv
<1>1. BInv => ReduceInv
  BY DEF BInv, RInv, Types, ReduceInv
<1>2. QED
  BY <1>1, Books, PTL

(***************************************************************************)
(* Every decision on a row of one, two or three sets, and every set left   *)
(* when its rows are deleted, is safe: the best completed solution is as   *)
(* cheap as the best cover of the instance (wscp.h:404-805).               *)
(***************************************************************************)
THEOREM OptimumIsKept ==
  Spec => []OptimumKept
<1>1. QED
  BY OptimumFromBooks, Books, PTL

-----------------------------------------------------------------------------
(* The way through main.                                                   *)

(* What check_solu has made of the choice S of free sets, when it comes to *)
(* set c.                                                                  *)
CompletedBelow(S, c) ==
  [s \in Set |->
     IF \/ s \in S \cup Taken
        \/ s < c /\ fix[s] > 9 /\ fix[s] - 10 \notin S \cup Taken
     THEN 1 ELSE 0]

Checking(S) ==
  /\ CoversRest(S)
  /\ best_cost = SearchCost(S)
  /\ best_solu = CompletedBelow(S, checked)

SInv ==
  /\ BInv
  /\ checked \in 0 .. set_num
  /\ stage \in {"reduce", "check", "end"}
  /\ stage = "reduce" => checked = 0
  /\ stage # "reduce" => \E S \in SUBSET FreeSets : Checking(S)
  /\ said = {}

LEMMA SolverInitInvariant ==
  ASSUME SolverInit PROVE SInv
<1>1. Init /\ checked = 0 /\ stage = "reduce" /\ said = {}
  BY DEF SolverInit
<1>2. 0 \in 0 .. set_num
  BY ReduceAssumption
<1>3. QED
  BY <1>1, <1>2, InitBooks DEF SInv

LEMMA ReduceStage ==
  ASSUME SInv, reduce_instance PROVE SInv'
<1>1. BInv'
  BY LookAtRowBooks, LookAtSetBooks DEF SInv, reduce_instance, Next
<1>2. stage = "reduce" /\ UNCHANGED <<said, stage, checked>>
  BY DEF reduce_instance, result
<1>3. QED
  BY <1>1, <1>2 DEF SInv

(* Nothing that the invariant is about changes but the result.             *)
LEMMA InstanceKept ==
  ASSUME UNCHANGED vars
  PROVE  /\ FreeSets' = FreeSets
         /\ \A S : (CoversRest(S)' <=> CoversRest(S)) /\ SearchCost(S)' = SearchCost(S)
         /\ \A S, c : CompletedBelow(S, c)' = CompletedBelow(S, c)
<1>1. UNCHANGED <<var_set, cost, reduce_cost, fix>>
  BY DEF vars, instance
<1>2. \A s : Rows(s)' = Rows(s)
  BY <1>1 DEF Rows
<1>3. \A s : Settled(s)' <=> Settled(s)
  BY <1>1 DEF Settled
<1>4. FreeSets' = FreeSets /\ Taken' = Taken
  BY <1>1 DEF FreeSets, Free, Taken
<1>5. QED
  BY <1>1, <1>2, <1>3, <1>4 DEF CoversRest, SearchCost, CompletedBelow

LEMMA SearchStage ==
  ASSUME SInv, local_search PROVE SInv'
<1>1. /\ BInv /\ UNCHANGED vars /\ checked' = 0 /\ said' = {} /\ stage' = "check"
  BY DEF SInv, local_search
<1>2. PICK S \in SUBSET FreeSets :
        /\ \A v \in LiveRows : Range(var_set[v]) \cap S # {}
        /\ best_solu' = [s \in Set |-> IF s \in S \/ fix[s] = 1 THEN 1 ELSE 0]
        /\ best_cost' = SearchCost(S)
  BY DEF local_search
<1>3. CoversRest(S)
  <2>1. SUFFICES ASSUME NEW v \in Var
                 PROVE  \/ \E s \in S : v \in Rows(s)
                        \/ \E x \in Set : Settled(x) /\ v \in Rows(x)
    BY DEF CoversRest
  <2>2. CASE v \in var_delete
    BY <1>1, <2>2 DEF BInv, DeletedCovered
  <2>3. CASE v \notin var_delete
    <3>1. PICK s \in S : s \in Range(var_set[v])
      BY <1>2, <2>3 DEF LiveRows
    <3>2. QED
      BY <3>1 DEF Rows
  <2>4. QED
    BY <2>2, <2>3
<1>4. best_solu' = CompletedBelow(S, 0)
  <2>1. \A s \in Set : ~(s < 0)
    BY ReduceAssumption DEF Set
  <2>2. QED
    BY <1>2, <2>1 DEF CompletedBelow, Taken
<1>5. BInv'
  BY <1>1, SameBooks
<1>6. CompletedBelow(S, 0)' = CompletedBelow(S, 0)
  BY <1>1 DEF CompletedBelow, Taken, vars
<1>7. Checking(S)' /\ S \in SUBSET FreeSets'
  BY <1>1, <1>2, <1>3, <1>4, <1>6, InstanceKept DEF Checking, CompletedBelow, Taken, vars
<1>8. 0 \in 0 .. set_num
  BY ReduceAssumption
<1>9. QED
  BY <1>1, <1>5, <1>7, <1>8 DEF SInv

(* Completing in place by number is completing: what a set waits for does  *)
(* not wait, so it is decided whether it is taken.                         *)
LEMMA CompletesOne ==
  ASSUME BInv, NEW S \in SUBSET FreeSets, NEW c \in Set
  PROVE  /\ Complete(CompletedBelow(S, c), c) = CompletedBelow(S, c + 1)
         /\ fix[c] = 1 => CompletedBelow(S, c)[c] = 1
         /\ fix[c] < 0 \/ fix[c] > 9 => CompletedBelow(S, c)[c] = 0
<1> DEFINE T    == S \cup Taken
           solu == CompletedBelow(S, c)
<1>1. Types /\ NoChains /\ WaitersWithin
  BY DEF BInv, RInv
<1>2. T \subseteq Set /\ \A s \in T : fix[s] \in {0, 1}
  BY DEF FreeSets, Free, Taken
<1>3. solu = [s \in Set |-> IF s \in T \/ (s < c /\ fix[s] > 9 /\ fix[s] - 10 \notin T)
                            THEN 1 ELSE 0]
  BY DEF CompletedBelow
<1>4. CompletedBelow(S, c + 1)
        = [s \in Set |-> IF s \in T \/ (s < c + 1 /\ fix[s] > 9 /\ fix[s] - 10 \notin T)
                         THEN 1 ELSE 0]
  BY DEF CompletedBelow
<1>5. c \in Int /\ ~(c < c) /\ \A s \in Set : s < c + 1 <=> s < c \/ s = c
  BY ReduceAssumption DEF Set
<1>6. fix[c] = 1 => c \in T
  BY DEF Taken
<1>7. fix[c] < 0 \/ fix[c] > 9 => c \notin T
  BY <1>2
<1>8. (fix[c] = 1 => solu[c] = 1) /\ (fix[c] < 0 \/ fix[c] > 9 => solu[c] = 0)
  BY <1>3, <1>5, <1>6, <1>7
<1>9. ASSUME fix[c] > 9
      PROVE  fix[c] - 10 \in Set /\ (solu[fix[c] - 10] = 0 <=> fix[c] - 10 \notin T)
  <2>1. fix[c] - 10 \in Set /\ fix[fix[c] - 10] <= 1
    BY <1>1, <1>9 DEF NoChains, WaitersWithin
  <2>2. ~(fix[fix[c] - 10] > 9)
    <3>1. fix[fix[c] - 10] \in {-1, 0, 1} \cup {s + 10 : s \in Set}
      BY <1>1, <2>1 DEF Types, TypeOK
    <3>2. {s + 10 : s \in Set} \subseteq Int
      BY ReduceAssumption DEF Set
    <3>3. fix[fix[c] - 10] \in Int
      BY <3>1, <3>2
    <3>4. \A n \in Int : n <= 1 => ~(n > 9)
      OBVIOUS
    <3>5. QED
      BY <2>1, <3>3, <3>4, Zenon
  <2>3. QED
    BY <1>3, <2>1, <2>2
<1> HIDE DEF T, solu
<1>10. CASE fix[c] > 9 /\ fix[c] - 10 \notin T
  <2>1. Complete(solu, c) = [solu EXCEPT ![c] = 1]
    BY <1>9, <1>10 DEF Complete
  <2>2. \A s \in Set : [solu EXCEPT ![c] = 1][s]
          = IF s \in T \/ (s < c + 1 /\ fix[s] > 9 /\ fix[s] - 10 \notin T) THEN 1 ELSE 0
    BY <1>3, <1>5, <1>10
  <2>3. [solu EXCEPT ![c] = 1] = CompletedBelow(S, c + 1)
    BY <1>3, <1>4, <2>2
  <2>4. QED
    BY <1>8, <2>1, <2>3 DEF solu
<1>11. CASE ~(fix[c] > 9 /\ fix[c] - 10 \notin T)
  <2>1. Complete(solu, c) = solu
    BY <1>9, <1>11 DEF Complete
  <2>2. solu = CompletedBelow(S, c + 1)
    BY <1>3, <1>4, <1>5, <1>11
  <2>3. QED
    BY <1>8, <2>1, <2>2 DEF solu
<1>12. QED
  BY <1>10, <1>11

LEMMA CheckSetStage ==
  ASSUME SInv, check_set PROVE SInv'
<1>1. /\ BInv /\ UNCHANGED vars /\ best_cost' = best_cost /\ stage' = stage
      /\ stage = "check" /\ checked < set_num /\ checked' = checked + 1
      /\ said' = said \cup WrongSet(checked) /\ said = {}
      /\ best_solu' = Complete(best_solu, checked)
  BY DEF SInv, check_set
<1>2. checked \in Set /\ checked + 1 \in 0 .. set_num
  BY <1>1, ReduceAssumption DEF SInv, Set
<1>3. PICK S \in SUBSET FreeSets : Checking(S)
  BY <1>1 DEF SInv
<1>4. best_solu = CompletedBelow(S, checked)
  BY <1>3 DEF Checking
<1>5. said' = {}
  <2>1. /\ fix[checked] = 1 => best_solu[checked] = 1
        /\ fix[checked] < 0 \/ fix[checked] > 9 => best_solu[checked] = 0
    BY <1>1, <1>2, <1>4, CompletesOne
  <2>2. WrongSet(checked) = {}
    BY <2>1 DEF WrongSet
  <2>3. QED
    BY <1>1, <2>2
<1>6. best_solu' = CompletedBelow(S, checked + 1)
  BY <1>1, <1>2, <1>4, CompletesOne
<1>7. CompletedBelow(S, checked)' = CompletedBelow(S, checked + 1)
  BY <1>1, InstanceKept
<1>8. BInv'
  BY <1>1, SameBooks
<1>9. Checking(S)' /\ S \in SUBSET FreeSets'
  BY <1>1, <1>3, <1>6, <1>7, InstanceKept DEF Checking
<1>10. QED
  BY <1>1, <1>2, <1>5, <1>8, <1>9 DEF SInv

LEMMA CheckRestStage ==
  ASSUME SInv, check_rest PROVE SInv'
<1>1. /\ BInv /\ UNCHANGED vars /\ best_cost' = best_cost /\ stage' = "end"
      /\ stage = "check" /\ checked = set_num /\ checked' = checked
      /\ said' = said \cup WrongSolution /\ said = {}
      /\ best_solu' = best_solu
  BY DEF SInv, check_rest
<1>2. PICK S \in SUBSET FreeSets : Checking(S)
  BY <1>1 DEF SInv
<1>3. /\ CoversRest(S) /\ best_cost = SearchCost(S)
      /\ best_solu = CompletedBelow(S, set_num)
  BY <1>1, <1>2 DEF Checking
<1>4. {s \in Set : best_solu[s] = 1} = Completed(S)
  <2>1. \A s \in Set : s < set_num
    BY ReduceAssumption DEF Set
  <2>2. S \cup Taken \subseteq Set
    BY DEF FreeSets, Taken
  <2>3. {s \in Set : best_solu[s] = 1}
          = (S \cup Taken) \cup {s \in Set : fix[s] > 9 /\ fix[s] - 10 \notin S \cup Taken}
    BY <1>3, <2>1, <2>2 DEF CompletedBelow
  <2>4. QED
    BY <2>3 DEF Completed, Taken
<1>5. Completed(S) \cup {s \in Set : fix[s] = 1} = Completed(S)
  BY DEF Completed
<1>6. Covers(Completed(S))
  BY <1>1, <1>3, CoversCompleted DEF BInv, RInv
<1>7. Total(org_cost, Completed(S)) = best_cost
  BY <1>1, <1>3 DEF BInv, CostKept
<1>8. WrongSolution = {}
  BY <1>4, <1>5, <1>6, <1>7 DEF WrongSolution
<1>9. BInv'
  BY <1>1, SameBooks
<1>10. Checking(S)' /\ S \in SUBSET FreeSets'
  BY <1>1, <1>2, InstanceKept DEF Checking
<1>11. QED
  BY <1>1, <1>8, <1>9, <1>10 DEF SInv

LEMMA SolverInvariant ==
  SolverSpec => []SInv
<1>1. ASSUME SInv, UNCHANGED svars PROVE SInv'
  <2>1. UNCHANGED vars /\ UNCHANGED <<best_solu, best_cost, said, stage, checked>>
    BY <1>1 DEF svars, result
  <2>2. BInv'
    BY <1>1, <2>1, SameBooks DEF SInv
  <2>3. \A S : Checking(S)' <=> Checking(S)
    BY <2>1, InstanceKept DEF Checking
  <2>4. QED
    BY <1>1, <2>1, <2>2, <2>3, InstanceKept DEF SInv
<1>2. ASSUME SInv, [SolverNext]_svars PROVE SInv'
  BY <1>1, <1>2, ReduceStage, SearchStage, CheckSetStage, CheckRestStage
     DEF SolverNext, check_solu
<1>3. QED
  BY <1>2, SolverInitInvariant, PTL DEF SolverSpec

(***************************************************************************)
(* The stages of main do to the instance what reduce_instance does, and    *)
(* nothing else: what the theorems above say of Reduce holds of the whole  *)
(* way (main.cpp).                                                         *)
(***************************************************************************)
THEOREM SolverReduces ==
  SolverSpec => Spec
<1>1. SolverInit => Init
  BY DEF SolverInit
<1>2. ASSUME [SolverNext]_svars PROVE [Next]_vars
  BY <1>2 DEF SolverNext, reduce_instance, local_search, check_solu, check_set,
              check_rest, svars
<1>3. QED
  BY <1>1, <1>2, PTL DEF SolverSpec, Spec

(***************************************************************************)
(* check_solu finds nothing wrong (wscp.h:1678): whatever the instance,    *)
(* however it was reduced and whichever cover of the rest the search comes *)
(* with, the solution completed in place takes every set that is fixed and *)
(* none that is left, covers all rows and costs what the search says.      *)
(***************************************************************************)
THEOREM NothingIsWrong ==
  SolverSpec => []NothingWrong
<1>1. SInv => NothingWrong
  BY DEF SInv, NothingWrong
<1>2. QED
  BY <1>1, SolverInvariant, PTL
-----------------------------------------------------------------------------
(* The file and its readers.                                               *)

(* What the instance is before the first row is looked at.                 *)
AsRead ==
  /\ var_set \in [Var -> Row]
  /\ org_cost \in [Set -> Nat]
  /\ (pass = "variables" /\ i = 0) =>
       /\ cost = org_cost
       /\ set_var = [s \in Set |-> {v \in Var : s \in Range(var_set[v])}]

LEMMA ReadInvariant ==
  Spec => []AsRead
<1>1. Init => AsRead
  BY ReduceAssumption DEF Init, AsRead
<1>2. ASSUME RInv, AsRead, [Next]_vars PROVE AsRead'
  <2>1. UNCHANGED instance
    BY <1>2 DEF Next, LookAtRow, LookAtSet, vars
  <2>2. CASE LookAtRow
    <3>1. i \in Nat
      BY <1>2, ReduceAssumption DEF RInv, Types, TypeOK
    <3>2. pass' # "variables" \/ i' # 0
      BY <2>2, <3>1 DEF LookAtRow, Advance
    <3>3. QED
      BY <1>2, <2>1, <3>2 DEF AsRead, instance
  <2>3. CASE LookAtSet
    <3>1. pass' # "variables"
      BY <2>3 DEF LookAtSet, Advance
    <3>2. QED
      BY <1>2, <2>1, <3>1 DEF AsRead, instance
  <2>4. CASE UNCHANGED vars
    BY <1>2, <2>4 DEF AsRead, vars, instance
  <2>5. QED
    BY <1>2, <2>2, <2>3, <2>4 DEF Next
<1>3. QED
  BY <1>1, <1>2, Invariant, PTL DEF Spec

(* The last rows of the file, one more at a time.                          *)
LEMMA LastRowsAre ==
  /\ LastRows[0] = <<>>
  /\ \A n \in 0 .. var_num - 1 :
       LastRows[n + 1] = Written(var_set[var_num - (n + 1)]) \o LastRows[n]
<1> DEFINE M == var_num
           More(q, n) == Written(var_set[M - n]) \o q
           Loop(f, N) == [n \in 0 .. N |-> IF n = 0 THEN <<>> ELSE More(f[n - 1], n)]
           P == {N \in 0 .. M : \E f : f = Loop(f, N)}
<1>0. M \in Nat
  BY ReduceAssumption
<1> HIDE DEF M, More
<1>1. 0 \in P
  <2> DEFINE f == [n \in 0 .. 0 |-> <<>>]
  <2>1. \A n \in 0 .. 0 : f[n] = IF n = 0 THEN <<>> ELSE More(f[n - 1], n)
    BY Z3
  <2>2. f = Loop(f, 0)
    BY <2>1, Zenon
  <2>3. 0 \in 0 .. M
    BY <1>0
  <2>4. QED
    BY <2>2, <2>3, Zenon
<1>2. ASSUME NEW N \in 0 .. M - 1, N \in P PROVE N + 1 \in P
  <2>1. PICK f : f = Loop(f, N)
    BY <1>2
  <2> DEFINE g == [n \in 0 .. N + 1 |-> IF n <= N THEN f[n] ELSE More(f[N], N + 1)]
  <2>2. ASSUME NEW n \in 0 .. N + 1
        PROVE  g[n] = IF n = 0 THEN <<>> ELSE More(g[n - 1], n)
    <3>1. CASE n = 0
      <4>1. f[0] = <<>>
        BY <2>1, <1>2
      <4>2. QED
        BY <3>1, <4>1, <1>2
    <3>2. CASE n # 0 /\ n <= N
      <4>1. f[n] = More(f[n - 1], n)
        <5>1. n \in 0 .. N
          BY <3>2, <1>2
        <5>2. f[n] = Loop(f, N)[n]
          BY <2>1, Zenon
        <5>3. Loop(f, N)[n] = IF n = 0 THEN <<>> ELSE More(f[n - 1], n)
          BY <5>1, Zenon
        <5>4. QED
          BY <5>2, <5>3, <3>2, Zenon
      <4>2. g[n] = f[n] /\ g[n - 1] = f[n - 1]
        BY <3>2, <1>2
      <4>3. QED
        BY <3>2, <4>1, <4>2
    <3>3. CASE n = N + 1
      <4>1. g[n] = More(f[N], n) /\ g[n - 1] = f[N] /\ n # 0
        BY <3>3, <1>2
      <4>2. QED
        BY <4>1
    <3>4. QED
      BY <3>1, <3>2, <3>3, <1>2
  <2>3. g = Loop(g, N + 1)
    BY <2>2, Zenon
  <2>4. N + 1 \in 0 .. M
    BY <1>0, <1>2
  <2>5. QED
    BY <2>3, <2>4, Zenon
<1>3. M \in P
  <2> HIDE DEF P
  <2>1. QED
    BY <1>0, <1>1, <1>2, CountUp
<1> DEFINE last == LastRows
<1>4. last = Loop(last, M)
  <2>1. \E f : f = Loop(f, M)
    BY <1>3
  <2>2. last = CHOOSE f : f = Loop(f, M)
    BY Zenon DEF LastRows, M, More
  <2> HIDE DEF last, Loop
  <2>3. QED
    BY <2>1, <2>2
<1> HIDE DEF Loop, last
<1>5. \A n \in 0 .. M : last[n] = IF n = 0 THEN <<>> ELSE More(last[n - 1], n)
  <2>1. \A n \in 0 .. M : last[n] = Loop(last, M)[n]
    BY <1>4
  <2>2. QED
    BY <2>1 DEF Loop
<1>6. last[0] = <<>>
  BY <1>0, <1>5
<1>7. ASSUME NEW n \in 0 .. M - 1 PROVE last[n + 1] = More(last[n], n + 1)
  <2>1. n + 1 \in 0 .. M /\ n + 1 # 0 /\ (n + 1) - 1 = n
    BY <1>0
  <2>2. QED
    BY <2>1, <1>5
<1>8. QED
  BY <1>6, <1>7 DEF last, More, M

(* A piece of a sequence.                                                  *)
LEMMA Piece ==
  ASSUME NEW S, NEW q \in Seq(S), NEW m \in Nat \ {0}, NEW n \in 0 .. Len(q), m <= n + 1
  PROVE  /\ SubSeq(q, m, n) \in Seq(S) /\ Len(SubSeq(q, m, n)) = n - m + 1
         /\ \A k \in 1 .. n - m + 1 : SubSeq(q, m, n)[k] = q[m + k - 1]
<1>1. \A k \in m .. n : q[k] \in S
  OBVIOUS
<1>2. SubSeq(q, m, n) \in Seq(S)
  BY <1>1, SubSeqProperties
<1>3. Len(SubSeq(q, m, n)) = n - m + 1
  OBVIOUS
<1>4. \A k \in 1 .. n - m + 1 : SubSeq(q, m, n)[k] = q[m + k - 1]
  OBVIOUS
<1>5. QED
  BY <1>2, <1>3, <1>4

(* Two sequences joined, and how to get them back.                         *)
Joined(S, a, b, q) ==
  /\ q \in Seq(S) /\ Len(q) = Len(a) + Len(b)
  /\ \A k \in 1 .. Len(a) : q[k] = a[k]
  /\ \A k \in 1 .. Len(b) : q[Len(a) + k] = b[k]
  /\ \A l \in 0 .. Len(a), h \in Int : h = Len(a) - l =>
       /\ SubSeq(q, l + 1, Len(a)) \in Seq(S)
       /\ Len(SubSeq(q, l + 1, Len(a))) = h
       /\ \A k \in 1 .. h : SubSeq(q, l + 1, Len(a))[k] = a[l + k]
  /\ SubSeq(q, Len(a) + 1, Len(q)) = b

LEMMA Parts ==
  ASSUME NEW S, NEW a \in Seq(S), NEW b \in Seq(S), NEW q, q = a \o b
  PROVE  Joined(S, a, b, q)
<1>1. Len(a) \in Nat /\ Len(b) \in Nat
  OBVIOUS
<1>2. /\ q \in Seq(S) /\ Len(q) = Len(a) + Len(b)
      /\ \A k \in 1 .. Len(a) + Len(b) :
           q[k] = IF k <= Len(a) THEN a[k] ELSE b[k - Len(a)]
  BY ConcatProperties
<1>3. \A k \in 1 .. Len(a) : q[k] = a[k]
  BY <1>1, <1>2
<1>4. \A k \in 1 .. Len(b) : q[Len(a) + k] = b[k]
  <2> SUFFICES ASSUME NEW k \in 1 .. Len(b) PROVE q[Len(a) + k] = b[k]
    OBVIOUS
  <2>1. Len(a) + k \in 1 .. Len(a) + Len(b) /\ ~(Len(a) + k <= Len(a)) /\ (Len(a) + k) - Len(a) = k
    BY <1>1
  <2>2. QED
    BY <1>2, <2>1
<1>5. ASSUME NEW l \in 0 .. Len(a), NEW h \in Int, h = Len(a) - l
      PROVE  /\ SubSeq(q, l + 1, Len(a)) \in Seq(S)
             /\ Len(SubSeq(q, l + 1, Len(a))) = h
             /\ \A k \in 1 .. h : SubSeq(q, l + 1, Len(a))[k] = a[l + k]
  <2> DEFINE m == l + 1
             n == Len(a)
  <2>1. m \in Nat \ {0} /\ n \in 0 .. Len(q) /\ m <= n + 1 /\ n - m + 1 = h
    BY <1>1, <1>2, <1>5
  <2> HIDE DEF m, n
  <2>2. /\ SubSeq(q, m, n) \in Seq(S) /\ Len(SubSeq(q, m, n)) = n - m + 1
        /\ \A k \in 1 .. n - m + 1 : SubSeq(q, m, n)[k] = q[m + k - 1]
    BY <1>2, <2>1, Piece
  <2>3. \A k \in 1 .. h : q[m + k - 1] = a[l + k]
    <3>1. \A k \in 1 .. h : m + k - 1 = l + k /\ l + k \in 1 .. Len(a)
      BY <1>1, <1>5 DEF m
    <3>2. QED
      BY <1>3, <3>1
  <2>4. QED
    BY <2>1, <2>2, <2>3 DEF m, n
<1>6. SubSeq(q, Len(a) + 1, Len(q)) = b
  <2> DEFINE m == Len(a) + 1
             n == Len(q)
             part == SubSeq(q, m, n)
  <2>1. m \in Nat \ {0} /\ n \in 0 .. Len(q) /\ m <= n + 1 /\ n - m + 1 = Len(b)
    BY <1>1, <1>2
  <2>2. \A k \in 1 .. Len(b) : q[m + k - 1] = b[k]
    <3>1. \A k \in 1 .. Len(b) : m + k - 1 = Len(a) + k
      BY <1>1
    <3>2. QED
      BY <1>4, <3>1
  <2> HIDE DEF m, n
  <2>3. /\ part \in Seq(S) /\ Len(part) = n - m + 1
        /\ \A k \in 1 .. n - m + 1 : part[k] = q[m + k - 1]
    BY <1>2, <2>1, Piece
  <2>4. part \in Seq(S) /\ Len(part) = Len(b) /\ \A k \in 1 .. Len(part) : part[k] = b[k]
    BY <2>1, <2>2, <2>3
  <2> HIDE DEF part
  <2>5. part = b
    BY <2>4, SeqEqual
  <2>6. QED
    BY <2>5 DEF part, m, n
<1>7. QED
  BY <1>2, <1>3, <1>4, <1>5, <1>6 DEF Joined

(* A row that begins what is left of a file.                               *)
Begins(row, rest, more) ==
  /\ rest \in Seq(Int) /\ Head(rest) = Len(row) /\ rest[1] = Len(row)
  /\ \A k \in 1 .. Len(row) : rest[k + 1] = row[k] + 1
  /\ SubSeq(rest, 2, Len(row) + 1) = [k \in 1 .. Len(row) |-> row[k] + 1]
  /\ SubSeq(rest, Len(row) + 2, Len(rest)) = more

LEMMA WrittenIs ==
  ASSUME NEW row \in Seq(Set), NEW more \in Seq(Int), NEW rest, rest = Written(row) \o more
  PROVE  Begins(row, rest, more)
<1> DEFINE n == Len(row)
           plus == [k \in 1 .. n |-> row[k] + 1]
           w == Written(row)
<1>1. n \in Nat /\ DOMAIN row = 1 .. n /\ \A k \in 1 .. n : row[k] \in Int
  <2>1. \A s \in Set : s \in Int
    BY DEF Set
  <2>2. row \in [1 .. n -> Set] /\ n \in Nat
    BY LenProperties
  <2>3. QED
    BY <2>1, <2>2
<1>2. plus \in Seq(Int) /\ Len(plus) = n
  BY <1>1
<1>3. w = <<n>> \o plus
  BY <1>1 DEF Written
<1> HIDE DEF plus, w
<1>4. <<n>> \in Seq(Int) /\ Len(<<n>>) = 1 /\ <<n>>[1] = n
  BY <1>1
<1>5. /\ w \in Seq(Int) /\ Len(w) = n + 1 /\ w[1] = n
      /\ \A k \in 1 .. n : w[k + 1] = plus[k]
  <2> DEFINE one == <<n>>
  <2> HIDE DEF one
  <2>1. one \in Seq(Int) /\ Len(one) = 1 /\ one[1] = n /\ w = one \o plus
    BY <1>3, <1>4 DEF one
  <2>5. plus \in Seq(Int)
    BY <1>2
  <2>2. /\ w \in Seq(Int) /\ Len(w) = Len(one) + Len(plus)
        /\ \A k \in 1 .. Len(one) : w[k] = one[k]
        /\ \A k \in 1 .. Len(plus) : w[Len(one) + k] = plus[k]
    <3>1. /\ one \o plus \in Seq(Int) /\ Len(one \o plus) = Len(one) + Len(plus)
          /\ \A k \in 1 .. Len(one) + Len(plus) :
               (one \o plus)[k] = IF k <= Len(one) THEN one[k] ELSE plus[k - Len(one)]
      BY <2>1, <2>5, ConcatProperties
    <3> DEFINE h == Len(one)
               l == Len(plus)
    <3>2. h \in Nat /\ l \in Nat
      BY <2>1, <2>5
    <3>3. /\ w \in Seq(Int) /\ Len(w) = h + l
          /\ \A k \in 1 .. h + l : w[k] = IF k <= h THEN one[k] ELSE plus[k - h]
      BY <2>1, <3>1
    <3> HIDE DEF h, l
    <3>4. \A k \in 1 .. h : w[k] = one[k]
      BY <3>2, <3>3
    <3>5. \A k \in 1 .. l : w[h + k] = plus[k]
      BY <3>2, <3>3
    <3>6. QED
      BY <3>3, <3>4, <3>5 DEF h, l
  <2>3. \A k \in 1 .. n : w[1 + k] = plus[k] /\ 1 + k = k + 1
    BY <1>2, <2>1, <2>2
  <2>4. QED
    BY <1>1, <1>2, <2>1, <2>2, <2>3
<1>6. rest = w \o more
  BY DEF w
<1> HIDE DEF n
<1>7. /\ rest \in Seq(Int) /\ Len(rest) = n + 1 + Len(more)
      /\ \A k \in 1 .. n + 1 : rest[k] = w[k]
      /\ SubSeq(rest, 2, n + 1) \in Seq(Int) /\ Len(SubSeq(rest, 2, n + 1)) = n
      /\ \A k \in 1 .. n : SubSeq(rest, 2, n + 1)[k] = w[1 + k]
      /\ SubSeq(rest, n + 2, Len(rest)) = more
  <2>0. Joined(Int, w, more, rest)
    BY <1>5, <1>6, Parts
  <2>1. /\ rest \in Seq(Int) /\ Len(rest) = Len(w) + Len(more)
        /\ \A k \in 1 .. Len(w) : rest[k] = w[k]
        /\ \A l \in 0 .. Len(w), h \in Int : h = Len(w) - l =>
             /\ SubSeq(rest, l + 1, Len(w)) \in Seq(Int)
             /\ Len(SubSeq(rest, l + 1, Len(w))) = h
             /\ \A k \in 1 .. h : SubSeq(rest, l + 1, Len(w))[k] = w[l + k]
        /\ SubSeq(rest, Len(w) + 1, Len(rest)) = more
    BY <2>0 DEF Joined
  <2>2. 1 \in 0 .. Len(w) /\ n \in Int /\ n = Len(w) - 1 /\ 1 + 1 = 2 /\ (n + 1) + 1 = n + 2
    BY <1>1, <1>5
  <2>3. /\ SubSeq(rest, 1 + 1, Len(w)) \in Seq(Int)
        /\ Len(SubSeq(rest, 1 + 1, Len(w))) = n
        /\ \A k \in 1 .. n : SubSeq(rest, 1 + 1, Len(w))[k] = w[1 + k]
    BY <2>1, <2>2
  <2>4. QED
    BY <1>5, <2>1, <2>2, <2>3
<1>8. rest[1] = n /\ Head(rest) = n
  <2>1. rest # <<>>
    BY <1>1, <1>7
  <2>2. rest[1] = n
    BY <1>1, <1>5, <1>7
  <2>3. QED
    BY <1>7, <2>1, <2>2
<1>9. \A k \in 1 .. n : rest[k + 1] = plus[k] /\ w[1 + k] = plus[k]
  <2>1. \A k \in 1 .. n : k + 1 \in 1 .. n + 1 /\ 1 + k = k + 1
    BY <1>1
  <2>2. QED
    BY <1>5, <1>7, <2>1
<1>10. SubSeq(rest, 2, n + 1) = plus
  <2> DEFINE part == SubSeq(rest, 2, n + 1)
  <2>1. part \in Seq(Int) /\ Len(part) = n /\ \A k \in 1 .. n : part[k] = plus[k]
    BY <1>7, <1>9
  <2>2. Len(plus) = n
    BY <1>2 DEF n
  <2> HIDE DEF part
  <2>3. part = plus
    BY <1>2, <2>1, <2>2, SeqEqual
  <2>4. QED
    BY <2>3 DEF part
<1>11. QED
  BY <1>7, <1>8, <1>9, <1>10 DEF plus, n, Begins

(* What is left of the file after n rows.                                  *)
Left(n) == LastRows[var_num - n]

LEMMA LeftIs ==
  ASSUME AsRead
  PROVE  /\ Left(var_num) = <<>>
         /\ \A n \in 0 .. var_num : Left(n) \in Seq(Int)
         /\ \A n \in 0 .. var_num - 1 :
              var_set[n] \in Seq(Set) /\ Left(n) = Written(var_set[n]) \o Left(n + 1)
<1>1. var_num \in Nat /\ \A n \in 0 .. var_num - 1 : var_set[n] \in Seq(Set)
  BY ReduceAssumption DEF AsRead, Var
<1> DEFINE P == {n \in 0 .. var_num : LastRows[n] \in Seq(Int)}
<1>2. 0 \in P
  <2>1. <<>> \in Seq(Int) /\ 0 \in 0 .. var_num
    BY <1>1
  <2>2. QED
    BY <2>1, LastRowsAre
<1>3. ASSUME NEW n \in 0 .. var_num - 1, n \in P PROVE n + 1 \in P
  <2>1. var_num - (n + 1) \in 0 .. var_num - 1 /\ n + 1 \in 0 .. var_num
    BY <1>1
  <2>2. LastRows[n + 1] = Written(var_set[var_num - (n + 1)]) \o LastRows[n]
    BY LastRowsAre
  <2>3. QED
    BY <1>1, <1>3, <2>1, <2>2, WrittenIs DEF Begins
<1>4. \A n \in 0 .. var_num : LastRows[n] \in Seq(Int)
  <2> HIDE DEF P
  <2>1. 0 .. var_num \subseteq P
    BY <1>1, <1>2, <1>3, CountUp
  <2>2. QED
    BY <2>1 DEF P
<1>5. ASSUME NEW n \in 0 .. var_num - 1
      PROVE  Left(n) = Written(var_set[n]) \o Left(n + 1)
  <2> DEFINE m == var_num - (n + 1)
  <2>1. m \in 0 .. var_num - 1 /\ m + 1 = var_num - n /\ var_num - (m + 1) = n
    BY <1>1
  <2>2. LastRows[m + 1] = Written(var_set[var_num - (m + 1)]) \o LastRows[m]
    BY <2>1, LastRowsAre
  <2>3. QED
    BY <2>1, <2>2 DEF Left
<1>6. \A n \in 0 .. var_num : var_num - n \in 0 .. var_num
  BY <1>1
<1>7. Left(var_num) = <<>>
  BY <1>1, LastRowsAre DEF Left
<1>8. QED
  BY <1>1, <1>4, <1>5, <1>6, <1>7 DEF Left
(* Reading one row.                                                        *)
Plus(row) == [k \in 1 .. Len(row) |-> row[k] + 1]

LEMMA OneRow ==
  ASSUME AsRead, NEW n \in 1 .. var_num
  PROVE  LET row == var_set[n - 1]
             rest == Left(n - 1)
         IN /\ Head(rest) = Len(row) /\ rest[1] = Len(row)
            /\ [k \in 1 .. Len(row) |-> rest[k + 1] - 1] = row
            /\ SubSeq(rest, 2, Len(row) + 1) = Plus(row)
            /\ SubSeq(rest, Len(row) + 2, Len(rest)) = Left(n)
<1> DEFINE row == var_set[n - 1]
           rest == Left(n - 1)
<1>1. n - 1 \in 0 .. var_num - 1 /\ (n - 1) + 1 = n /\ n \in 0 .. var_num
  BY ReduceAssumption
<1>2. row \in Seq(Set) /\ rest = Written(row) \o Left(n) /\ Left(n) \in Seq(Int)
  BY <1>1, LeftIs
<1> HIDE DEF row, rest
<1>3. /\ Head(rest) = Len(row) /\ rest[1] = Len(row)
      /\ \A k \in 1 .. Len(row) : rest[k + 1] = row[k] + 1
      /\ SubSeq(rest, 2, Len(row) + 1) = [k \in 1 .. Len(row) |-> row[k] + 1]
      /\ SubSeq(rest, Len(row) + 2, Len(rest)) = Left(n)
  <2> DEFINE more == Left(n)
  <2>1. row \in Seq(Set) /\ more \in Seq(Int) /\ rest = Written(row) \o more
    BY <1>2
  <2> HIDE DEF more
  <2>2. Begins(row, rest, more)
    BY <2>1, WrittenIs
  <2>3. QED
    BY <2>2 DEF Begins, more
<1>4. row = [k \in 1 .. Len(row) |-> row[k]]
  BY <1>2
<1>5. \A k \in 1 .. Len(row) : (row[k] + 1) - 1 = row[k]
  <2>1. \A k \in 1 .. Len(row) : row[k] \in Set
    BY <1>2
  <2>2. \A s \in Set : s \in Int
    BY DEF Set
  <2>3. QED
    BY <2>1, <2>2
<1>6. [k \in 1 .. Len(row) |-> rest[k + 1] - 1] = [k \in 1 .. Len(row) |-> row[k]]
  BY <1>3, <1>5
<1>7. QED
  BY <1>3, <1>4, <1>6 DEF row, rest, Plus

LEMMA AppendNext ==
  ASSUME NEW n \in Nat \ {0}, NEW f
  PROVE  Append([k \in 1 .. n - 1 |-> f[k]], f[n]) = [k \in 1 .. n |-> f[k]]
<1> DEFINE q == [k \in 1 .. n - 1 |-> f[k]]
           S == {f[k] : k \in 1 .. n}
<1>1. q \in Seq(S) /\ Len(q) = n - 1
  OBVIOUS
<1>2. f[n] \in S
  OBVIOUS
<1> DEFINE l == Append(q, f[n])
<1>3. l = [k \in 1 .. Len(q) + 1 |-> IF k = Len(q) + 1 THEN f[n] ELSE q[k]]
  <2> HIDE DEF q, S
  <2>1. QED
    BY <1>1
<1>4. Len(q) + 1 = n
  BY <1>1
<1>5. l = [k \in 1 .. n |-> IF k = n THEN f[n] ELSE q[k]]
  BY <1>3, <1>4
<1>6. \A k \in 1 .. n : (IF k = n THEN f[n] ELSE q[k]) = f[k]
  OBVIOUS
<1> HIDE DEF l, q
<1>7. l = [k \in 1 .. n |-> f[k]]
  BY <1>5, <1>6
<1>8. QED
  BY <1>7 DEF l, q

(* build_instance has the rows of the instance.                            *)
LEMMA RowsReadAre ==
  ASSUME AsRead
  PROVE  RowsRead(var_num, Left(0))[var_num].rows = [k \in 1 .. var_num |-> var_set[k - 1]]
<1> DEFINE M == var_num
           body == Left(0)
           F == [k \in 1 .. M |-> var_set[k - 1]]
           After(f, n) == IF n = 0 THEN [rows |-> <<>>, rest |-> body] ELSE ReadRow(f[n - 1])
           Loop(f) == [n \in 0 .. M |-> After(f, n)]
           Has(n) == [rows |-> [k \in 1 .. n |-> F[k]], rest |-> Left(n)]
           w == [n \in 0 .. M |-> Has(n)]
<1>0. M \in Nat
  BY ReduceAssumption
<1>1. Has(0) = [rows |-> <<>>, rest |-> body]
  <2>1. [k \in 1 .. 0 |-> F[k]] = <<>>
    OBVIOUS
  <2>2. QED
    BY <2>1
<1>2. ASSUME NEW n \in 1 .. M PROVE ReadRow(Has(n - 1)) = Has(n)
  <2> DEFINE row == var_set[n - 1]
             rest == Left(n - 1)
             old == [k \in 1 .. n - 1 |-> F[k]]
  <2>1. /\ Head(rest) = Len(row)
        /\ [k \in 1 .. Len(row) |-> rest[k + 1] - 1] = row
        /\ SubSeq(rest, Len(row) + 2, Len(rest)) = Left(n)
    BY OneRow
  <2>2. F[n] = row
    OBVIOUS
  <2>3. n \in Nat \ {0}
    BY <1>0
  <2> HIDE DEF F
  <2>4. Append(old, F[n]) = [k \in 1 .. n |-> F[k]]
    BY <2>3, AppendNext
  <2>5. Has(n - 1) = [rows |-> old, rest |-> rest]
    OBVIOUS
  <2> HIDE DEF rest, row, old
  <2>6. ReadRow([rows |-> old, rest |-> rest])
          = [rows |-> Append(old, row), rest |-> Left(n)]
    BY <2>1 DEF ReadRow
  <2>7. QED
    BY <2>2, <2>4, <2>5, <2>6
<1> HIDE DEF Has
<1>3. \A n \in 0 .. M : w[n] = After(w, n)
  <2> SUFFICES ASSUME NEW n \in 0 .. M PROVE w[n] = After(w, n)
    OBVIOUS
  <2>1. CASE n = 0
    BY <1>1, <2>1
  <2>2. CASE n # 0
    <3>1. n \in 1 .. M /\ n - 1 \in 0 .. M
      BY <1>0, <2>2
    <3>2. w[n] = Has(n) /\ w[n - 1] = Has(n - 1)
      BY <3>1
    <3>3. QED
      BY <1>2, <2>2, <3>1, <3>2
  <2>3. QED
    BY <2>1, <2>2
<1> DEFINE read == RowsRead(M, body)
<1>4. read = Loop(read)
  <2>1. w = Loop(w)
    BY <1>3, Zenon
  <2>2. read = CHOOSE f : f = Loop(f)
    BY Zenon DEF RowsRead
  <2> HIDE DEF read, Loop, w
  <2>3. QED
    BY <2>1, <2>2
<1>5. \A n \in 0 .. M : read[n] = After(read, n)
  <2> HIDE DEF After, read
  <2>1. QED
    BY <1>4
<1> DEFINE P == {n \in 0 .. M : read[n] = Has(n)}
<1> HIDE DEF read
<1>6. 0 \in P
  BY <1>0, <1>1, <1>5
<1>7. ASSUME NEW n \in 0 .. M - 1, n \in P PROVE n + 1 \in P
  <2>1. n + 1 \in 1 .. M /\ (n + 1) - 1 = n /\ n + 1 \in 0 .. M /\ n + 1 # 0
    BY <1>0
  <2>2. read[n + 1] = ReadRow(read[n])
    BY <1>5, <2>1
  <2>3. ReadRow(Has(n)) = Has(n + 1)
    BY <1>2, <2>1
  <2>4. QED
    BY <1>7, <2>1, <2>2, <2>3
<1> HIDE DEF P
<1>8. M \in P
  BY <1>0, <1>6, <1>7, CountUp
<1>9. read[M].rows = [k \in 1 .. M |-> F[k]]
  BY <1>8 DEF P, Has
<1>10. QED
  BY <1>9 DEF read

(* trans_cnf has them too.                                                 *)
Clause(weight, row) == <<weight>> \o Plus(row) \o <<0>>

LEMMA ClausesReadAre ==
  ASSUME AsRead, NEW weight
  PROVE  Cnf!RowsRead(var_num, Left(0), weight)[var_num].SAT
           = [k \in 1 .. var_num |-> Clause(weight, var_set[k - 1])]
<1> DEFINE M == var_num
           body == Left(0)
           F == [k \in 1 .. M |-> Clause(weight, var_set[k - 1])]
           Reads(acc) == [SAT  |-> Append(acc.SAT, Cnf!HardClause(weight, acc.rest)),
                          rest |-> SubSeq(acc.rest, acc.rest[1] + 2, Len(acc.rest))]
           After(f, n) == IF n = 0 THEN [SAT |-> <<>>, rest |-> body] ELSE Reads(f[n - 1])
           Loop(f) == [n \in 0 .. M |-> After(f, n)]
           Has(n) == [SAT |-> [k \in 1 .. n |-> F[k]], rest |-> Left(n)]
           w == [n \in 0 .. M |-> Has(n)]
<1>0. M \in Nat
  BY ReduceAssumption
<1>1. Has(0) = [SAT |-> <<>>, rest |-> body]
  <2>1. [k \in 1 .. 0 |-> F[k]] = <<>>
    OBVIOUS
  <2>2. QED
    BY <2>1
<1>2. ASSUME NEW n \in 1 .. M PROVE Reads(Has(n - 1)) = Has(n)
  <2> DEFINE row == var_set[n - 1]
             rest == Left(n - 1)
             old == [k \in 1 .. n - 1 |-> F[k]]
  <2>1. /\ rest[1] = Len(row)
        /\ SubSeq(rest, 2, Len(row) + 1) = Plus(row)
        /\ SubSeq(rest, Len(row) + 2, Len(rest)) = Left(n)
    BY OneRow
  <2>2. F[n] = Clause(weight, row)
    OBVIOUS
  <2>3. n \in Nat \ {0}
    BY <1>0
  <2> HIDE DEF F
  <2>4. Append(old, F[n]) = [k \in 1 .. n |-> F[k]]
    BY <2>3, AppendNext
  <2>5. Has(n - 1) = [SAT |-> old, rest |-> rest]
    OBVIOUS
  <2> HIDE DEF rest, row, old
  <2>6. Cnf!HardClause(weight, rest) = Clause(weight, row)
    BY <2>1 DEF Cnf!HardClause, Clause
  <2>7. Reads([SAT |-> old, rest |-> rest])
          = [SAT |-> Append(old, Clause(weight, row)), rest |-> Left(n)]
    BY <2>1, <2>6
  <2>8. QED
    BY <2>2, <2>4, <2>5, <2>7
<1> HIDE DEF Has
<1>3. \A n \in 0 .. M : w[n] = After(w, n)
  <2> SUFFICES ASSUME NEW n \in 0 .. M PROVE w[n] = After(w, n)
    OBVIOUS
  <2>1. CASE n = 0
    BY <1>1, <2>1
  <2>2. CASE n # 0
    <3>1. n \in 1 .. M /\ n - 1 \in 0 .. M
      BY <1>0, <2>2
    <3>2. w[n] = Has(n) /\ w[n - 1] = Has(n - 1)
      BY <3>1
    <3> HIDE DEF Reads
    <3>3. QED
      BY <1>2, <2>2, <3>1, <3>2
  <2>3. QED
    BY <2>1, <2>2
<1> DEFINE read == Cnf!RowsRead(M, body, weight)
<1>4. read = Loop(read)
  <2>1. w = Loop(w)
    BY <1>3, Zenon
  <2>2. read = CHOOSE f : f = Loop(f)
    BY Zenon DEF Cnf!RowsRead
  <2> HIDE DEF read, Loop, w
  <2>3. QED
    BY <2>1, <2>2
<1>5. \A n \in 0 .. M : read[n] = After(read, n)
  <2> HIDE DEF After, read
  <2>1. QED
    BY <1>4
<1> DEFINE P == {n \in 0 .. M : read[n] = Has(n)}
<1> HIDE DEF read, Reads
<1>6. 0 \in P
  BY <1>0, <1>1, <1>5
<1>7. ASSUME NEW n \in 0 .. M - 1, n \in P PROVE n + 1 \in P
  <2>1. n + 1 \in 1 .. M /\ (n + 1) - 1 = n /\ n + 1 \in 0 .. M /\ n + 1 # 0
    BY <1>0
  <2>2. read[n + 1] = Reads(read[n])
    BY <1>5, <2>1
  <2>3. Reads(Has(n)) = Has(n + 1)
    BY <1>2, <2>1
  <2>4. QED
    BY <1>7, <2>1, <2>2, <2>3
<1> HIDE DEF P
<1>8. M \in P
  BY <1>0, <1>6, <1>7, CountUp
<1>9. read[M].SAT = [k \in 1 .. M |-> F[k]]
  BY <1>8 DEF P, Has
<1>10. QED
  BY <1>9 DEF read
(* The parts of a file.                                                    *)
LEMMA ThreeParts ==
  ASSUME NEW m \in Int, NEW n \in Nat, NEW c \in Seq(Int), Len(c) = n, NEW rest \in Seq(Int),
         NEW f, f = <<m, n>> \o c \o rest
  PROVE  /\ f[1] = m /\ f[2] = n
         /\ \A k \in 1 .. n : f[2 + k] = c[k]
         /\ SubSeq(f, 3, n + 2) = c
         /\ SubSeq(f, n + 3, Len(f)) = rest
<1> DEFINE two == <<m, n>>
           a == two \o c
<1>1. two \in Seq(Int) /\ Len(two) = 2 /\ two[1] = m /\ two[2] = n
  OBVIOUS
<1> HIDE DEF two
<1>2. /\ a \in Seq(Int) /\ Len(a) = Len(two) + Len(c)
      /\ \A k \in 1 .. Len(two) : a[k] = two[k]
      /\ \A k \in 1 .. Len(c) : a[Len(two) + k] = c[k]
  <2>1. a = two \o c
    BY DEF a
  <2> HIDE DEF a
  <2>2. Joined(Int, two, c, a)
    BY <1>1, <2>1, Parts
  <2>3. QED
    BY <2>2 DEF Joined
<1>3. /\ a \in Seq(Int) /\ Len(a) = n + 2 /\ a[1] = m /\ a[2] = n
      /\ \A k \in 1 .. n : a[2 + k] = c[k]
  <2> HIDE DEF a
  <2>1. QED
    BY <1>1, <1>2
<1>4. f = a \o rest
  BY DEF two
<1> HIDE DEF a
<1>5. /\ f \in Seq(Int)
      /\ \A k \in 1 .. Len(a) : f[k] = a[k]
      /\ \A l \in 0 .. Len(a), h \in Int : h = Len(a) - l =>
           /\ SubSeq(f, l + 1, Len(a)) \in Seq(Int)
           /\ Len(SubSeq(f, l + 1, Len(a))) = h
           /\ \A k \in 1 .. h : SubSeq(f, l + 1, Len(a))[k] = a[l + k]
      /\ SubSeq(f, Len(a) + 1, Len(f)) = rest
  <2>1. Joined(Int, a, rest, f)
    BY <1>3, <1>4, Parts
  <2>2. QED
    BY <2>1 DEF Joined
<1>6. f[1] = m /\ f[2] = n
  BY <1>3, <1>5
<1>7. \A k \in 1 .. n : f[2 + k] = c[k]
  BY <1>3, <1>5
<1>8. SubSeq(f, 3, n + 2) = c
  <2> DEFINE part == SubSeq(f, 3, n + 2)
  <2>1. 2 \in 0 .. Len(a) /\ n \in Int /\ n = Len(a) - 2 /\ 2 + 1 = 3
    BY <1>3
  <2>2. part \in Seq(Int) /\ Len(part) = n /\ \A k \in 1 .. n : part[k] = a[2 + k]
    BY <1>3, <1>5, <2>1
  <2> HIDE DEF part
  <2>3. part = c
    BY <1>3, <2>2, SeqEqual
  <2>4. QED
    BY <2>3 DEF part
<1>9. SubSeq(f, n + 3, Len(f)) = rest
  <2>1. Len(a) + 1 = n + 3
    BY <1>3
  <2>2. QED
    BY <1>5, <2>1
<1>10. QED
  BY <1>6, <1>7, <1>8, <1>9

Costs == [n \in 1 .. set_num |-> org_cost[n - 1]]

LEMMA FileIs ==
  ASSUME AsRead
  PROVE  /\ File[1] = var_num /\ File[2] = set_num
         /\ \A s \in Set : File[3 + s] = org_cost[s]
         /\ SubSeq(File, 3, set_num + 2) = Costs
         /\ SubSeq(File, set_num + 3, Len(File)) = Left(0)
         /\ Costs \in Seq(Nat) /\ Len(Costs) = set_num
<1>1. var_num \in Nat /\ set_num \in Nat
  BY ReduceAssumption
<1>2. \A n \in 1 .. set_num : org_cost[n - 1] \in Nat
  BY <1>1 DEF AsRead, Set
<1>3. Costs \in Seq(Nat) /\ Costs \in Seq(Int) /\ Len(Costs) = set_num
  BY <1>1, <1>2 DEF Costs
<1>4. Left(0) \in Seq(Int)
  BY <1>1, LeftIs
<1>5. File = <<var_num, set_num>> \o Costs \o Left(0)
  <2>1. var_num - 0 = var_num
    BY <1>1
  <2>2. QED
    BY <2>1 DEF File, Costs, Left
<1> DEFINE rest == Left(0)
<1> HIDE DEF rest
<1>6. /\ File[1] = var_num /\ File[2] = set_num
      /\ \A k \in 1 .. set_num : File[2 + k] = Costs[k]
      /\ SubSeq(File, 3, set_num + 2) = Costs
      /\ SubSeq(File, set_num + 3, Len(File)) = rest
  <2> DEFINE f == File
             c == Costs
  <2>1. f = <<var_num, set_num>> \o c \o rest /\ c \in Seq(Int) /\ Len(c) = set_num
        /\ rest \in Seq(Int) /\ var_num \in Int
    BY <1>1, <1>3, <1>4, <1>5 DEF rest
  <2> HIDE DEF f, c
  <2>2. /\ f[1] = var_num /\ f[2] = set_num
        /\ \A k \in 1 .. set_num : f[2 + k] = c[k]
        /\ SubSeq(f, 3, set_num + 2) = c
        /\ SubSeq(f, set_num + 3, Len(f)) = rest
    BY <1>1, <2>1, ThreeParts, SMTT(60)
  <2>3. QED
    BY <2>2 DEF f, c
<1>7. ASSUME NEW s \in Set PROVE File[3 + s] = org_cost[s]
  <2>1. s + 1 \in 1 .. set_num /\ 2 + (s + 1) = 3 + s /\ (s + 1) - 1 = s
    BY <1>1 DEF Set
  <2>2. QED
    BY <1>6, <2>1 DEF Costs
<1>8. QED
  BY <1>3, <1>6, <1>7 DEF rest

(* build_instance reads what the file was written from.                    *)
LEMMA ReadsBack ==
  ASSUME AsRead
  PROVE  build_instance(File)
           = [cost    |-> org_cost,
              var_set |-> var_set,
              set_var |-> [s \in Set |-> {v \in Var : s \in Range(var_set[v])}]]
<1> DEFINE rows == RowsRead(var_num, Left(0))[var_num].rows
<1>1. rows = [k \in 1 .. var_num |-> var_set[k - 1]]
  BY RowsReadAre
<1> HIDE DEF rows
<1>2. \A v \in Var : rows[v + 1] = var_set[v]
  <2>1. \A v \in Var : v + 1 \in 1 .. var_num /\ (v + 1) - 1 = v
    BY ReduceAssumption DEF Var
  <2>2. QED
    BY <1>1, <2>1
<1>3. [v \in Var |-> rows[v + 1]] = var_set
  BY <1>2 DEF AsRead
<1>4. [s \in Set |-> {v \in Var : s \in Range(rows[v + 1])}]
        = [s \in Set |-> {v \in Var : s \in Range(var_set[v])}]
  BY <1>2
<1>5. [s \in Set |-> File[3 + s]] = org_cost
  BY FileIs DEF AsRead
<1>6. /\ File[1] = var_num /\ File[2] = set_num
      /\ SubSeq(File, 3 + set_num, Len(File)) = Left(0)
  <2>1. 3 + set_num = set_num + 3
    BY ReduceAssumption
  <2>2. QED
    BY <2>1, FileIs
<1>7. build_instance(File)
        = [cost    |-> [s \in Set |-> File[3 + s]],
           var_set |-> [v \in Var |-> rows[v + 1]],
           set_var |-> [s \in Set |-> {v \in Var : s \in Range(rows[v + 1])}]]
  BY <1>6, Zenon DEF build_instance, rows, Set, Var
<1>8. QED
  BY <1>3, <1>4, <1>5, <1>7
(* The clauses of trans_cnf: those of the rows, and those of the sets.     *)
HardClauses == [k \in 1 .. var_num |-> Clause(Cnf!top(Costs), var_set[k - 1])]

LEMMA CnfIs ==
  ASSUME AsRead
  PROVE  Cnf!requests2paramsV4(File)
           = [SAT |-> HardClauses \o Cnf!SoftClauses(Costs), top |-> Cnf!top(Costs)]
<1> DEFINE weight == Cnf!top(Costs)
           clauses == Cnf!RowsRead(var_num, Left(0), weight)[var_num].SAT
<1>1. clauses = HardClauses
  BY ClausesReadAre DEF HardClauses
<1>2. /\ File[1] = var_num /\ File[2] = set_num
      /\ SubSeq(File, 3, set_num + 2) = Costs
      /\ SubSeq(File, set_num + 3, Len(File)) = Left(0)
  BY FileIs
<1>3. Cnf!requests2paramsV4(File)
        = [SAT |-> clauses \o Cnf!SoftClauses(Costs), top |-> weight]
  BY <1>2, Zenon DEF Cnf!requests2paramsV4
<1>4. QED
  BY <1>1, <1>3

LEMMA SameTotal ==
  ASSUME NEW f, NEW S
  PROVE  Cnf!Total(f, S) = Total(f, S)
BY DEF Cnf!Total, Cnf!Units, Cnf!Cardinality, Total, Units, Cardinality

(* top is more than any set costs, and all of them.                        *)
LEMMA TopIs ==
  ASSUME AsRead
  PROVE  /\ Costs \in [1 .. set_num -> Nat] /\ IsFiniteSet(1 .. set_num)
         /\ Cnf!top(Costs) = Total(Costs, 1 .. set_num) + 1
         /\ Cnf!top(Costs) \in Nat
         /\ \A k \in 1 .. set_num : Costs[k] < Cnf!top(Costs)
<1>1. Costs \in [1 .. set_num -> Nat] /\ DOMAIN Costs = 1 .. set_num
  <2>1. Costs \in Seq(Nat) /\ Len(Costs) = set_num
    BY FileIs
  <2>2. QED
    BY <2>1
<1>2. IsFiniteSet(1 .. set_num)
  BY ReduceAssumption, FS_Interval
<1>3. Cnf!top(Costs) = Total(Costs, 1 .. set_num) + 1
  BY <1>1, SameTotal DEF Cnf!top
<1>4. Total(Costs, 1 .. set_num) \in Nat
  BY <1>1, <1>2, TotalType
<1>5. \A k \in 1 .. set_num : Costs[k] <= Total(Costs, 1 .. set_num)
  BY <1>1, <1>2, TotalMember
<1>6. \A k \in 1 .. set_num : Costs[k] \in Nat
  BY <1>1
<1>7. QED
  BY <1>1, <1>2, <1>3, <1>4, <1>5, <1>6

(* A clause of a row: its weight, and the sets of the row as literals.     *)
LEMMA ClauseIs ==
  ASSUME NEW weight \in Int, NEW row \in Seq(Set)
  PROVE  /\ Clause(weight, row) \in Seq(Int)
         /\ Clause(weight, row)[1] = weight
         /\ Cnf!Literals(Clause(weight, row)) = {s + 1 : s \in Range(row)}
<1> DEFINE n == Len(row)
           one == <<weight>>
           plus == Plus(row)
           a == one \o plus
           zero == <<0>>
           c == Clause(weight, row)
<1>1. n \in Nat /\ DOMAIN row = 1 .. n /\ \A k \in 1 .. n : row[k] \in Nat
  <2>1. \A s \in Set : s \in Nat
    BY ReduceAssumption DEF Set
  <2>2. row \in [1 .. n -> Set] /\ n \in Nat
    BY LenProperties
  <2>3. QED
    BY <2>1, <2>2
<1>2. plus \in Seq(Int) /\ Len(plus) = n /\ \A k \in 1 .. n : plus[k] = row[k] + 1
  BY <1>1 DEF Plus
<1>3. one \in Seq(Int) /\ Len(one) = 1 /\ one[1] = weight
  OBVIOUS
<1>4. zero \in Seq(Int) /\ Len(zero) = 1 /\ zero[1] = 0
  OBVIOUS
<1>5. c = a \o zero
  BY DEF Clause
<1>6. a = one \o plus
  OBVIOUS
<1> HIDE DEF plus, one, a, zero, c, n
<1>7. a \in Seq(Int) /\ Len(a) = n + 1 /\ a[1] = weight /\ \A k \in 1 .. n : a[1 + k] = plus[k]
  <2>1. Joined(Int, one, plus, a)
    BY <1>2, <1>3, <1>6, Parts
  <2>2. QED
    BY <1>1, <1>2, <1>3, <2>1 DEF Joined
<1>8. c \in Seq(Int) /\ Len(c) = n + 2 /\ c[n + 2] = 0 /\ \A k \in 1 .. n + 1 : c[k] = a[k]
  <2>1. Joined(Int, a, zero, c)
    BY <1>4, <1>5, <1>7, Parts
  <2>2. Len(a) + 1 = n + 2 /\ 1 \in 1 .. Len(zero)
    BY <1>1, <1>4, <1>7
  <2>3. QED
    BY <1>1, <1>4, <1>7, <2>1, <2>2 DEF Joined
<1>9. c[1] = weight
  BY <1>1, <1>7, <1>8
<1>10. \A k \in 1 .. n : c[1 + k] = row[k] + 1 /\ c[1 + k] # 0
  <2>1. \A k \in 1 .. n : 1 + k \in 1 .. n + 1
    BY <1>1
  <2>2. \A k \in 1 .. n : row[k] \in Nat /\ plus[k] = row[k] + 1
    BY <1>1, <1>2
  <2>3. \A k \in 1 .. n : c[1 + k] = plus[k]
    <3>1. \A k \in 1 .. n : c[1 + k] = a[1 + k]
      BY <1>8, <2>1
    <3>2. \A k \in 1 .. n : a[1 + k] = plus[k]
      BY <1>7
    <3>3. QED
      BY <3>1, <3>2
  <2>4. \A m \in Nat : m + 1 # 0
    OBVIOUS
  <2>5. QED
    BY <2>2, <2>3, <2>4
<1>11. {j \in 2 .. Len(c) : \A l \in 2 .. j : c[l] # 0} = 2 .. n + 1
  <2>1. \A l \in 2 .. n + 1 : c[l] # 0
    <3>1. \A l \in 2 .. n + 1 : l - 1 \in 1 .. n /\ 1 + (l - 1) = l
      BY <1>1
    <3>2. QED
      BY <1>10, <3>1
  <2>2. \A j \in 2 .. Len(c) : j \in 2 .. n + 1 \/ (j = n + 2 /\ n + 2 \in 2 .. j)
    BY <1>1, <1>8
  <2>3. \A j \in 2 .. n + 1 : j \in 2 .. Len(c) /\ \A l \in 2 .. j : l \in 2 .. n + 1
    BY <1>1, <1>8
  <2>4. QED
    BY <1>8, <2>1, <2>2, <2>3
<1>12. Cnf!Literals(c) = {c[k] : k \in 2 .. n + 1}
  BY <1>11, Zenon DEF Cnf!Literals
<1>13. {c[k] : k \in 2 .. n + 1} = {s + 1 : s \in Range(row)}
  <2>1. \A k \in 2 .. n + 1 : k - 1 \in 1 .. n /\ 1 + (k - 1) = k
    BY <1>1
  <2>2. \A k \in 1 .. n : 1 + k \in 2 .. n + 1
    BY <1>1
  <2>3. Range(row) = {row[k] : k \in 1 .. n}
    BY <1>1 DEF Range
  <2>4. \A k \in 2 .. n + 1 : \E s \in Range(row) : c[k] = s + 1
    <3>1. \A k \in 2 .. n + 1 : c[k] = row[k - 1] + 1 /\ row[k - 1] \in Range(row)
      BY <1>10, <2>1, <2>3
    <3>2. QED
      BY <3>1
  <2>5. \A s \in Range(row) : \E k \in 2 .. n + 1 : c[k] = s + 1
    <3>1. \A l \in 1 .. n : c[1 + l] = row[l] + 1
      BY <1>10
    <3>2. QED
      BY <2>2, <2>3, <3>1
  <2>6. QED
    BY <2>4, <2>5
<1>14. QED
  BY <1>8, <1>9, <1>12, <1>13 DEF c
(* Which clauses are hard, and what the soft ones weigh.                   *)
ConvertedIs(cnf) ==
  /\ cnf.top = Cnf!top(Costs)
  /\ DOMAIN cnf.SAT = 1 .. var_num + set_num
  /\ \A k \in 1 .. var_num : cnf.SAT[k] = Clause(cnf.top, var_set[k - 1])
  /\ \A k \in 1 .. set_num : cnf.SAT[var_num + k][1] = Costs[k]

LEMMA Converted ==
  ASSUME AsRead
  PROVE  ConvertedIs(Cnf!requests2paramsV4(File))
<1> DEFINE cnf == Cnf!requests2paramsV4(File)
           soft == Cnf!SoftClauses(Costs)
           M == var_num
           N == set_num
           weight == Cnf!top(Costs)
<1>1. M \in Nat /\ N \in Nat
  BY ReduceAssumption
<1>2. cnf.SAT = HardClauses \o soft /\ cnf.top = weight
  BY CnfIs
<1>3. weight \in Int /\ Costs \in [1 .. N -> Nat]
  BY TopIs
<1> HIDE DEF cnf, weight, M, N
<1>4. \A k \in 1 .. M : var_set[k - 1] \in Seq(Set)
  <2>1. \A k \in 1 .. M : k - 1 \in Var
    BY <1>1 DEF Var, M
  <2>2. \A v \in Var : var_set[v] \in Seq(Set)
    BY ReduceAssumption DEF AsRead
  <2>3. QED
    BY <2>1, <2>2
<1>5. HardClauses = [k \in 1 .. M |-> Clause(weight, var_set[k - 1])]
  BY DEF HardClauses, M, weight
<1>6. HardClauses \in Seq(Seq(Int)) /\ Len(HardClauses) = M
  <2>1. \A k \in 1 .. M : Clause(weight, var_set[k - 1]) \in Seq(Int)
    BY <1>3, <1>4, ClauseIs
  <2>2. QED
    BY <1>1, <1>5, <2>1
<1>7. soft = [k \in 1 .. N |-> <<Costs[k], -(k - 1), 0>>]
  <2>1. DOMAIN Costs = 1 .. N
    BY <1>3
  <2>2. QED
    BY <2>1 DEF Cnf!SoftClauses
<1>8. soft \in Seq(Seq(Int)) /\ Len(soft) = N /\ \A k \in 1 .. N : soft[k][1] = Costs[k]
  <2>1. \A k \in 1 .. N : <<Costs[k], -(k - 1), 0>> \in Seq(Int)
    BY <1>1, <1>3
  <2>2. \A k \in 1 .. N : <<Costs[k], -(k - 1), 0>>[1] = Costs[k]
    OBVIOUS
  <2> HIDE DEF soft
  <2>3. QED
    BY <1>1, <1>7, <2>1, <2>2
<1> DEFINE SAT == cnf.SAT
           S == Seq(Int)
<1>9. SAT = HardClauses \o soft
  BY <1>2
<1>10. HardClauses \in Seq(S) /\ soft \in Seq(S)
  BY <1>6, <1>8
<1> HIDE DEF SAT, soft, S
<1>11. Joined(S, HardClauses, soft, SAT)
  BY <1>9, <1>10, Parts
<1>12. SAT \in Seq(S) /\ Len(SAT) = M + N
  BY <1>6, <1>8, <1>11 DEF Joined
<1>13. DOMAIN SAT = 1 .. M + N
  BY <1>12
<1>14. \A k \in 1 .. M : SAT[k] = Clause(weight, var_set[k - 1])
  BY <1>5, <1>6, <1>11 DEF Joined
<1>15. \A k \in 1 .. N : SAT[M + k][1] = Costs[k]
  BY <1>6, <1>8, <1>11 DEF Joined
<1>16. QED
  BY <1>2, <1>13, <1>14, <1>15 DEF ConvertedIs, SAT, cnf, M, N, weight

LEMMA HardPlacesAre ==
  ASSUME AsRead, NEW cnf, ConvertedIs(cnf)
  PROVE  Cnf!HardPlaces(cnf) = 1 .. var_num
<1>1. var_num \in Nat /\ set_num \in Nat
  BY ReduceAssumption
<1>2. \A k \in 1 .. var_num : var_set[k - 1] \in Seq(Set)
  <2>1. \A k \in 1 .. var_num : k - 1 \in Var
    BY <1>1 DEF Var
  <2>2. \A v \in Var : var_set[v] \in Seq(Set)
    BY ReduceAssumption DEF AsRead
  <2>3. QED
    BY <2>1, <2>2
<1>3. cnf.top \in Nat /\ \A k \in 1 .. set_num : Costs[k] < cnf.top /\ Costs[k] \in Nat
  BY TopIs DEF ConvertedIs
<1>4. \A k \in 1 .. var_num : cnf.SAT[k][1] = cnf.top
  <2>1. cnf.top \in Int
    BY <1>3
  <2> SUFFICES ASSUME NEW k \in 1 .. var_num PROVE cnf.SAT[k][1] = cnf.top
    OBVIOUS
  <2>2. Clause(cnf.top, var_set[k - 1])[1] = cnf.top
    BY <1>2, <2>1, ClauseIs
  <2>3. QED
    BY <2>2 DEF ConvertedIs
<1>5. \A k \in 1 .. set_num : cnf.SAT[var_num + k][1] # cnf.top
  BY <1>3 DEF ConvertedIs
<1>6. ASSUME NEW k \in 1 .. var_num + set_num, k \notin 1 .. var_num
      PROVE  cnf.SAT[k][1] # cnf.top
  <2>1. k - var_num \in 1 .. set_num /\ var_num + (k - var_num) = k
    BY <1>1, <1>6
  <2>2. QED
    BY <1>5, <2>1
<1>7. \A k \in 1 .. var_num : k \in 1 .. var_num + set_num
  BY <1>1
<1>8. QED
  BY <1>4, <1>6, <1>7 DEF Cnf!HardPlaces, ConvertedIs

LEMMA HardAre ==
  ASSUME AsRead, NEW cnf, ConvertedIs(cnf)
  PROVE  Cnf!Hard(cnf) = {{s + 1 : s \in Range(var_set[v])} : v \in Var}
<1>1. var_num \in Nat
  BY ReduceAssumption
<1>2. cnf.top \in Int
  BY TopIs DEF ConvertedIs
<1>3. \A v \in Var : v + 1 \in 1 .. var_num /\ (v + 1) - 1 = v
  BY <1>1 DEF Var
<1>4. \A k \in 1 .. var_num : k - 1 \in Var /\ (k - 1) + 1 = k
  BY <1>1 DEF Var
<1>5. ASSUME NEW v \in Var
      PROVE  Cnf!Literals(cnf.SAT[v + 1]) = {s + 1 : s \in Range(var_set[v])}
  <2>1. var_set[v] \in Seq(Set)
    BY ReduceAssumption DEF AsRead
  <2>2. cnf.SAT[v + 1] = Clause(cnf.top, var_set[v])
    BY <1>3 DEF ConvertedIs
  <2> DEFINE row == var_set[v]
             weight == cnf.top
  <2> HIDE DEF row, weight
  <2>3. Cnf!Literals(Clause(weight, row)) = {s + 1 : s \in Range(row)}
    BY <1>2, <2>1, ClauseIs DEF row, weight
  <2>4. QED
    BY <2>2, <2>3 DEF row, weight
<1>6. Cnf!Hard(cnf) = {Cnf!Literals(cnf.SAT[k]) : k \in 1 .. var_num}
  BY HardPlacesAre, Zenon DEF Cnf!Hard
<1>7. {Cnf!Literals(cnf.SAT[k]) : k \in 1 .. var_num}
        = {Cnf!Literals(cnf.SAT[v + 1]) : v \in Var}
  <2>1. \A k \in 1 .. var_num : \E v \in Var : k = v + 1
    BY <1>4
  <2>2. QED
    BY <1>3, <2>1
<1>8. {Cnf!Literals(cnf.SAT[v + 1]) : v \in Var}
        = {{s + 1 : s \in Range(var_set[v])} : v \in Var}
  BY <1>5
<1>9. QED
  BY <1>6, <1>7, <1>8

LEMMA SoftWeightIs ==
  ASSUME AsRead, NEW cnf, ConvertedIs(cnf)
  PROVE  Cnf!SoftWeight(cnf) < cnf.top
<1> DEFINE D == 1 .. set_num
           E == var_num + 1 .. var_num + set_num
           soft == DOMAIN cnf.SAT \ Cnf!HardPlaces(cnf)
           f == [k \in E |-> cnf.SAT[k][1]]
           h == [k \in D |-> var_num + k]
<1>1. var_num \in Nat /\ set_num \in Nat
  BY ReduceAssumption
<1>2. soft = E
  <2>1. soft = (1 .. var_num + set_num) \ (1 .. var_num)
    BY HardPlacesAre DEF ConvertedIs
  <2>2. (1 .. var_num + set_num) \ (1 .. var_num) = E
    BY <1>1
  <2>3. QED
    BY <2>1, <2>2
<1>3. Costs \in [D -> Nat] /\ IsFiniteSet(D) /\ cnf.top = Total(Costs, D) + 1
  BY TopIs DEF ConvertedIs
<1>4. h \in Bijection(D, E)
  <2>1. h \in [D -> E]
    BY <1>1
  <2>2. \A x, y \in D : h[x] = h[y] => x = y
    BY <1>1
  <2>3. \A e \in E : \E x \in D : h[x] = e
    <3>1. \A e \in E : e - var_num \in D /\ var_num + (e - var_num) = e
      BY <1>1
    <3>2. QED
      BY <3>1
  <2> HIDE DEF h, D, E
  <2>4. QED
    BY <2>1, <2>2, <2>3 DEF Bijection, Injection, Surjection, IsInjective
<1>5. \A k \in D : h[k] \in E /\ f[h[k]] = Costs[k]
  <2>1. \A k \in D : var_num + k \in E
    BY <1>1
  <2>2. QED
    BY <2>1 DEF ConvertedIs
<1>6. f \in [E -> Nat]
  <2>1. \A e \in E : e - var_num \in D /\ var_num + (e - var_num) = e
    BY <1>1
  <2>2. \A k \in D : cnf.SAT[var_num + k][1] = Costs[k] /\ Costs[k] \in Nat
    BY <1>3 DEF ConvertedIs
  <2>3. \A e \in E : cnf.SAT[e][1] \in Nat
    BY <2>1, <2>2
  <2> HIDE DEF E
  <2>4. QED
    BY <2>3
<1>7. [k \in D |-> f[h[k]]] = Costs
  <2> HIDE DEF D, E, f, h
  <2>1. QED
    BY <1>3, <1>5
<1>8. Cnf!SoftWeight(cnf) = Total(f, E)
  <2>1. Cnf!SoftWeight(cnf) = Cnf!Total(f, E)
    <3>1. Cnf!SoftWeight(cnf) = Cnf!Total([k \in soft |-> cnf.SAT[k][1]], soft)
      BY Zenon DEF Cnf!SoftWeight
    <3> HIDE DEF soft, E
    <3>2. QED
      BY <1>2, <3>1 DEF f
  <2>2. QED
    BY <2>1, SameTotal
<1> HIDE DEF D, E, f, h
<1>9. Total(Costs, D) = Total(f, E)
  BY <1>3, <1>4, <1>6, <1>7, TotalRenamed
<1>10. Total(Costs, D) \in Nat
  BY <1>3, TotalType
<1>11. QED
  BY <1>3, <1>8, <1>9, <1>10

(* The hard clauses say that a set of each row is chosen.                  *)
LEMMA HardSayCover ==
  ASSUME AsRead, NEW cnf, ConvertedIs(cnf), NEW S \in SUBSET Set
  PROVE  (\A clause \in Cnf!Hard(cnf) : Cnf!Satisfies({s + 1 : s \in S}, clause)) <=> Covers(S)
<1>1. \A s \in Set : s \in Nat /\ s + 1 > 0
  BY ReduceAssumption DEF Set
<1>2. ASSUME NEW v \in Var
      PROVE  Cnf!Satisfies({s + 1 : s \in S}, {s + 1 : s \in Range(var_set[v])})
               <=> Range(var_set[v]) \cap S # {}
  <2> DEFINE A == Range(var_set[v])
             plusA == {s + 1 : s \in A}
             plusS == {s + 1 : s \in S}
  <2>1. var_set[v] \in Seq(Set)
    BY ReduceAssumption DEF AsRead
  <2>2. A \subseteq Set
    <3>1. DOMAIN var_set[v] = 1 .. Len(var_set[v])
      BY <2>1
    <3>2. \A k \in 1 .. Len(var_set[v]) : var_set[v][k] \in Set
      BY <2>1
    <3>3. QED
      BY <3>1, <3>2 DEF Range
  <2> HIDE DEF A
  <2>3. \A x \in plusA : x > 0
    BY <1>1, <2>2
  <2>4. Cnf!Satisfies(plusS, plusA) <=> \E x \in plusA : x \in plusS
    BY <2>3 DEF Cnf!Satisfies
  <2>5. (\E x \in plusA : x \in plusS) <=> A \cap S # {}
    <3>1. \A a \in A : \A b \in S : a + 1 = b + 1 => a = b
      BY <1>1, <2>2
    <3>2. QED
      BY <3>1
  <2>6. QED
    BY <2>4, <2>5 DEF A
<1>3. Cnf!Hard(cnf) = {{s + 1 : s \in Range(var_set[v])} : v \in Var}
  BY HardAre
<1>4. (\A clause \in Cnf!Hard(cnf) : Cnf!Satisfies({s + 1 : s \in S}, clause))
        <=> \A v \in Var : Range(var_set[v]) \cap S # {}
  BY <1>2, <1>3
<1>5. QED
  BY <1>4 DEF Covers

LEMMA ReadersAgreeNow ==
  ASSUME AsRead
  PROVE  SameInstance
<1> SUFFICES ASSUME pass = "variables", i = 0
    PROVE LET file  == File
              read  == build_instance(file)
              cnf   == Cnf!requests2paramsV4(file)
              hard  == Cnf!Hard(cnf)
              Satisfied(S) == \A clause \in hard : Cnf!Satisfies({s + 1 : s \in S}, clause)
          IN /\ read = [cost |-> cost, var_set |-> var_set, set_var |-> set_var]
             /\ \A S \in SUBSET Set : Satisfied(S) <=> Covers(S)
             /\ Cnf!SoftWeight(cnf) < cnf.top
  BY DEF SameInstance
<1> DEFINE cnf == Cnf!requests2paramsV4(File)
<1>1. build_instance(File) = [cost |-> cost, var_set |-> var_set, set_var |-> set_var]
  BY ReadsBack DEF AsRead
<1>2. ConvertedIs(cnf)
  BY Converted
<1> HIDE DEF cnf
<1>3. Cnf!SoftWeight(cnf) < cnf.top
  BY <1>2, SoftWeightIs
<1>4. \A S \in SUBSET Set :
        (\A clause \in Cnf!Hard(cnf) : Cnf!Satisfies({s + 1 : s \in S}, clause)) <=> Covers(S)
  BY <1>2, HardSayCover
<1>5. QED
  BY <1>1, <1>3, <1>4 DEF cnf

(* The two readers of a file agree with each other and with the instance,  *)
(* for every instance (wscp.h:362, trans_cnf.py:134): build_instance reads *)
(* what was written, and what trans_cnf.py writes asks for a cover, and    *)
(* lets no hard clause be broken for soft ones.                            *)
THEOREM ReadersAgree ==
  SolverSpec => []SameInstance
<1>1. AsRead => SameInstance
  BY ReadersAgreeNow
<1>2. QED
  BY <1>1, ReadInvariant, SolverReduces, PTL
=============================================================================
