---------------------------- MODULE SearchProofs ----------------------------
(***************************************************************************)
(* Theorems of Covering, for every instance: the bookkeeping of flip and   *)
(* update_weight is exact after any sequence of calls.  Of Stacks: its     *)
(* arrays stay in step with the sets of Covering.  Of Search, for every    *)
(* rule of choice, and LocalSearch, for the rules of the code.  And of     *)
(* Ranking: the scans by which the code applies its rules find the best.   *)
(***************************************************************************)
EXTENDS LocalSearch, Stacks, Ranking, SumProofs

-----------------------------------------------------------------------------
(* The rows.                                                               *)

(* A set is in the row of a variable exactly when the variable is in its   *)
(* column.                                                                 *)
LEMMA RowColumn ==
  /\ \A v \in Var : Sets[v] \subseteq Set
  /\ \A s \in Set : set_var[s] \subseteq Var
  /\ \A v \in Var, s \in Set : v \in set_var[s] <=> s \in Sets[v]
BY InstanceAssumption DEF Sets, set_var, Range

(* The number of sets of S that contain a variable is a natural number,    *)
(* one more with a new set of the row and one less without an old one.     *)
LEMMA RowCount ==
  ASSUME NEW v \in Var, NEW S \in SUBSET Set, NEW s \in Set
  PROVE  /\ IsFiniteSet(Sets[v] \cap S)
         /\ Cardinality(Sets[v] \cap S) \in Nat
         /\ s \notin S /\ s \in Sets[v] =>
              Cardinality(Sets[v] \cap (S \cup {s})) = Cardinality(Sets[v] \cap S) + 1
         /\ s \in S /\ s \in Sets[v] =>
              Cardinality(Sets[v] \cap (S \ {s})) = Cardinality(Sets[v] \cap S) - 1
         /\ s \notin Sets[v] =>
              /\ Sets[v] \cap (S \cup {s}) = Sets[v] \cap S
              /\ Sets[v] \cap (S \ {s}) = Sets[v] \cap S
<1>1. IsFiniteSet(Sets[v] \cap S)
  <2>1. Sets[v] \cap S \in SUBSET Set
    OBVIOUS
  <2>2. QED
    BY <2>1, InstanceAssumption, FS_Subset
<1>2. Cardinality(Sets[v] \cap S) \in Nat
  BY <1>1, FS_CardinalityType
<1>3. ASSUME s \notin S, s \in Sets[v]
      PROVE  Cardinality(Sets[v] \cap (S \cup {s})) = Cardinality(Sets[v] \cap S) + 1
  <2>1. Sets[v] \cap (S \cup {s}) = (Sets[v] \cap S) \cup {s} /\ s \notin Sets[v] \cap S
    BY <1>3
  <2>2. QED
    BY <1>1, <2>1, FS_AddElement
<1>4. ASSUME s \in S, s \in Sets[v]
      PROVE  Cardinality(Sets[v] \cap (S \ {s})) = Cardinality(Sets[v] \cap S) - 1
  <2>1. Sets[v] \cap (S \ {s}) = (Sets[v] \cap S) \ {s} /\ s \in Sets[v] \cap S
    BY <1>4
  <2>2. QED
    BY <1>1, <2>1, FS_RemoveElement
<1>5. QED
  BY <1>1, <1>2, <1>3, <1>4

(* The search along a row finds a set of S if the row has one.             *)
LEMMA FirstOfFound ==
  ASSUME NEW v \in Var, NEW S, Sets[v] \cap S # {}
  PROVE  FirstOf(v, S) \in Sets[v] \cap S
<1> DEFINE I == {i \in DOMAIN var_set[v] : var_set[v][i] \in S}
<1>1. I \subseteq Nat /\ I # {}
  BY InstanceAssumption DEF Sets, Range
<1>2. PICK i \in I : \A j \in I : ~(j < i)
  <2>1. IsWellFoundedOn(OpToRel(<, Nat), Nat)
    BY NatLessThanWellFounded
  <2>2. \E i \in I : \A j \in I : <<j, i>> \notin OpToRel(<, Nat)
    BY <1>1, <2>1, WFMin
  <2>3. QED
    BY <1>1, <2>2 DEF OpToRel
<1>3. \A j \in 1 .. i - 1 : var_set[v][j] \notin S
  <2>1. var_set[v] \in Seq(Set)
    BY InstanceAssumption
  <2> SUFFICES ASSUME NEW j \in 1 .. i - 1, var_set[v][j] \in S
               PROVE  FALSE
    OBVIOUS
  <2>2. i \in 1 .. Len(var_set[v])
    BY <2>1
  <2>3. j \in DOMAIN var_set[v] /\ j < i
    BY <2>1, <2>2
  <2>4. QED
    BY <1>2, <2>3
<1>4. \E k \in DOMAIN var_set[v] :
        /\ var_set[v][k] \in S
        /\ \A j \in 1 .. k - 1 : var_set[v][j] \notin S
  BY <1>2, <1>3
<1>5. QED
  BY <1>4 DEF FirstOf, Sets, Range

(* Two different members of a row of two are the row.                      *)
LEMMA PairOfTwo ==
  ASSUME NEW R, IsFiniteSet(R), Cardinality(R) = 2,
         NEW a \in R, NEW b \in R \ {a}
  PROVE  R = {a, b}
<1>1. IsFiniteSet(R \ {a}) /\ Cardinality(R \ {a}) = 1
  BY FS_RemoveElement
<1>2. PICK x : R \ {a} = {x}
  BY <1>1, FS_Singleton
<1>3. QED
  BY <1>2

(* In a set of two, as written, the two are different.                     *)
LEMMA TwoDiffer ==
  ASSUME NEW a, NEW b, Cardinality({a, b}) = 2
  PROVE  a # b
<1>1. SUFFICES ASSUME a = b PROVE FALSE
  OBVIOUS
<1>2. {a, b} = {a}
  BY <1>1
<1>3. QED
  BY <1>2, FS_Singleton

-----------------------------------------------------------------------------
(* What cover_count, cover_set and cover_set2 say of the chosen sets of a  *)
(* row, in the form the steps use.                                         *)
LEMMA Witnesses ==
  ASSUME TypeOK, WitnessExact, NEW v \in Var, NEW x \in Set
  PROVE  /\ x \in Sets[v] /\ x \in cur_solu => cover_count[v] # 0
         /\ cover_count[v] = 1 =>
              (x \in Sets[v] /\ x \in cur_solu <=> x = cover_set[v])
         /\ cover_count[v] = 2 =>
              /\ x \in Sets[v] /\ x \in cur_solu
                   <=> x = cover_set[v] \/ x = cover_set2[v]
              /\ cover_set[v] # cover_set2[v]
<1>1. cover_count[v] = Cardinality(Sets[v] \cap cur_solu)
  BY DEF WitnessExact
<1>2. IsFiniteSet(Sets[v] \cap cur_solu)
  BY RowCount DEF TypeOK
<1>3. ASSUME x \in Sets[v], x \in cur_solu PROVE cover_count[v] # 0
  <2>1. Sets[v] \cap cur_solu # {}
    BY <1>3
  <2>2. QED
    BY <1>1, <1>2, <2>1, FS_EmptySet
<1>4. cover_count[v] = 1 => Sets[v] \cap cur_solu = {cover_set[v]}
  BY DEF WitnessExact
<1>5. cover_count[v] = 2 => Sets[v] \cap cur_solu = {cover_set[v], cover_set2[v]}
  BY DEF WitnessExact
<1>6. cover_count[v] = 2 => cover_set[v] # cover_set2[v]
  BY <1>1, <1>5, TwoDiffer
<1>7. QED
  BY <1>3, <1>4, <1>5, <1>6

(* A variable nothing covers is on the uncover stack, and no other one is. *)
LEMMA Uncovered ==
  ASSUME TypeOK, WitnessExact, NEW v \in Var
  PROVE  v \in uncover_stack <=> cover_count[v] = 0
<1>1. cover_count[v] \in Nat
  BY DEF TypeOK
<1>2. v \in Covered(1, cur_solu) <=> cover_count[v] >= 1
  BY DEF WitnessExact, Covered
<1>3. v \in uncover_stack <=> v \notin Covered(1, cur_solu)
  BY DEF WitnessExact
<1>4. QED
  BY <1>1, <1>2, <1>3

(* Sums of weights.                                                        *)
LEMMA WeightSums ==
  ASSUME TypeOK, NEW V \in SUBSET Var
  PROVE  /\ Weight(V) \in Nat
         /\ Weight(V) = 0 <=> V = {}
         /\ \A U \in SUBSET V : Weight(V \ U) = Weight(V) - Weight(U)
         /\ \A U \in SUBSET Var :
              V \cap U = {} => Weight(V \cup U) = Weight(V) + Weight(U)
<1>1. IsFiniteSet(Var)
  BY InstanceAssumption
<1>2. weight \in [Var -> Nat] /\ weight \in [Var -> Nat \ {0}]
  BY InstanceAssumption DEF TypeOK
<1>3. Total(weight, V) \in Nat
  BY <1>1, <1>2, TotalType
<1>4. Total(weight, V) = 0 <=> V = {}
  BY <1>1, <1>2, TotalPositive
<1>5. \A U \in SUBSET V : Total(weight, V \ U) = Total(weight, V) - Total(weight, U)
  BY <1>1, <1>2, TotalDiff
<1>6. \A U \in SUBSET Var :
        V \cap U = {} => Total(weight, V \cup U) = Total(weight, V) + Total(weight, U)
  BY <1>1, <1>2, TotalUnion
<1>7. QED
  BY <1>3, <1>4, <1>5, <1>6 DEF Weight

-----------------------------------------------------------------------------
(* A set enters the solution.                                              *)

LEMMA FlipInType ==
  ASSUME IInv, NEW s \in Set, FlipIn(s)
  PROVE  TypeOK'
<1> USE DEF IInv
<1>1. \A V \in SUBSET Var : Weight(V) \in Nat
  BY WeightSums
<1>2. cost[s] \in Nat
  BY InstanceAssumption
<1>3. score' \in [Set -> Int]
  <2>1. \A x \in Set :
          /\ Weight(Counting(0, set_var[s]) \cap set_var[x]) \in Nat
          /\ Weight({v \in Counting(1, set_var[s]) : cover_set[v] = x}) \in Nat
    <3> SUFFICES ASSUME NEW x \in Set
                 PROVE  /\ Counting(0, set_var[s]) \cap set_var[x] \subseteq Var
                        /\ {v \in Counting(1, set_var[s]) : cover_set[v] = x}
                             \subseteq Var
      BY <1>1
    <3>1. QED
      BY RowColumn DEF Counting
  <2>2. score[s] \in Int /\ \A x \in Set : score[x] \in Int
    BY DEF TypeOK
  <2>3. QED
    BY <2>1, <2>2 DEF FlipIn
<1>4. pscore' \in [Set -> Int]
  <2>1. \A x \in Set :
          /\ Weight(Counting(0, set_var[s]) \cap set_var[x]) \in Nat
          /\ Weight(Counting(1, set_var[s]) \cap set_var[x]) \in Nat
          /\ Weight({v \in Counting(2, set_var[s]) : cover_set[v] = x}) \in Nat
          /\ Weight({v \in Counting(2, set_var[s]) : cover_set2[v] = x}) \in Nat
    <3> SUFFICES ASSUME NEW x \in Set
                 PROVE  /\ Counting(0, set_var[s]) \cap set_var[x] \subseteq Var
                        /\ Counting(1, set_var[s]) \cap set_var[x] \subseteq Var
                        /\ {v \in Counting(2, set_var[s]) : cover_set[v] = x}
                             \subseteq Var
                        /\ {v \in Counting(2, set_var[s]) : cover_set2[v] = x}
                             \subseteq Var
      BY <1>1
    <3>1. QED
      BY RowColumn DEF Counting
  <2>2. pscore[s] \in Int /\ \A x \in Set : pscore[x] \in Int
    BY DEF TypeOK
  <2>3. QED
    BY <2>1, <2>2 DEF FlipIn
<1>5. /\ cur_solu' \subseteq Set
      /\ cur_cost' \in Int
      /\ weight' \in [Var -> 1 .. MaxWeight]
      /\ cover_count' \in [Var -> Nat]
      /\ cover_set' \in [Var -> Set \cup {NoSet}]
      /\ cover_set2' \in [Var -> Set \cup {NoSet}]
  BY <1>2 DEF TypeOK, FlipIn
<1>6. cc' \in [Set -> BOOLEAN]
  BY DEF TypeOK, FlipIn, Raised
<1>7. uncover_stack' \subseteq Var /\ zero_stack' \subseteq Set
  BY DEF TypeOK, FlipIn
<1>8. QED
  BY <1>3, <1>4, <1>5, <1>6, <1>7 DEF TypeOK

LEMMA FlipInRows ==
  ASSUME IInv, NEW s \in Set, s \notin cur_solu, FlipIn(s)
  PROVE  WitnessExact'
<1> USE DEF IInv
<1>1. cur_solu' = cur_solu \cup {s}
  BY DEF FlipIn
<1>2. ASSUME NEW v \in Var
      PROVE  /\ cover_count'[v] = Cardinality(Sets[v] \cap cur_solu')
             /\ cover_count'[v] = 1 => Sets[v] \cap cur_solu' = {cover_set'[v]}
             /\ cover_count'[v] = 2 =>
                  Sets[v] \cap cur_solu' = {cover_set'[v], cover_set2'[v]}
             /\ v \in uncover_stack' <=> cover_count'[v] = 0
  <2>1. /\ cover_count[v] \in Nat
        /\ cover_count[v] = Cardinality(Sets[v] \cap cur_solu)
        /\ cover_count[v] = 1 => Sets[v] \cap cur_solu = {cover_set[v]}
        /\ cover_count[v] = 2 =>
             Sets[v] \cap cur_solu = {cover_set[v], cover_set2[v]}
        /\ v \in uncover_stack <=> cover_count[v] = 0
    BY Uncovered DEF WitnessExact, TypeOK
  <2>2. v \in set_var[s] <=> s \in Sets[v]
    BY RowColumn
  <2>3. CASE v \notin set_var[s]
    <3>1. Sets[v] \cap cur_solu' = Sets[v] \cap cur_solu
      BY <1>1, <2>2, <2>3
    <3>2. /\ cover_count'[v] = cover_count[v]
          /\ cover_set'[v] = cover_set[v]
          /\ cover_set2'[v] = cover_set2[v]
          /\ v \in uncover_stack' <=> v \in uncover_stack
      BY <2>3 DEF FlipIn, Counting
    <3>3. QED
      BY <2>1, <3>1, <3>2
  <2>4. CASE v \in set_var[s]
    <3>1. /\ Sets[v] \cap cur_solu' = (Sets[v] \cap cur_solu) \cup {s}
          /\ Cardinality(Sets[v] \cap cur_solu')
               = Cardinality(Sets[v] \cap cur_solu) + 1
      <4>1. s \in Sets[v] /\ cur_solu \in SUBSET Set
        BY <2>2, <2>4 DEF TypeOK
      <4>2. Cardinality(Sets[v] \cap (cur_solu \cup {s}))
              = Cardinality(Sets[v] \cap cur_solu) + 1
        BY <4>1, RowCount
      <4>3. QED
        BY <1>1, <4>1, <4>2
    <3>2. /\ cover_count'[v] = cover_count[v] + 1
          /\ cover_count[v] = 0 => cover_set'[v] = s
          /\ cover_count[v] # 0 => cover_set'[v] = cover_set[v]
          /\ cover_count[v] = 1 => cover_set2'[v] = s
          /\ v \in uncover_stack' <=> v \in uncover_stack /\ cover_count[v] # 0
      BY <2>4 DEF FlipIn, Counting
    <3>3. cover_count[v] = 0 => Sets[v] \cap cur_solu = {}
      BY <2>1, RowCount, FS_EmptySet DEF TypeOK
    <3>4. QED
      BY <2>1, <3>1, <3>2, <3>3
  <2>5. QED
    BY <2>3, <2>4
<1>3. uncover_stack' = Var \ Covered(1, cur_solu')
  <2>1. ASSUME NEW v \in Var
        PROVE  v \in Covered(1, cur_solu') <=> cover_count'[v] # 0
    <3>1. cover_count'[v] \in Nat
      BY FlipInType DEF TypeOK
    <3>2. QED
      BY <1>2, <3>1 DEF Covered
  <2>2. uncover_stack' \subseteq Var
    BY FlipInType DEF TypeOK
  <2>3. QED
    BY <1>2, <2>1, <2>2 DEF Covered
<1>4. QED
  BY <1>2, <1>3 DEF WitnessExact, Covered

LEMMA FlipInScore ==
  ASSUME IInv, NEW s \in Set, s \notin cur_solu, FlipIn(s)
  PROVE  LocalScore'
<1> USE DEF IInv
<1> DEFINE once   == Counting(0, set_var[s])
           twice  == Counting(1, set_var[s])
           was(x) == {v \in twice : cover_set[v] = x}
           C0(x)  == Counting(0, set_var[x])
           C1(x)  == Counting(1, set_var[x])
           D(n, x) == {v \in set_var[x] : cover_count'[v] = n}
<1>4. \A v \in Var : /\ cover_count[v] \in Nat
                     /\ cover_count'[v] = IF v \in set_var[s]
                                         THEN cover_count[v] + 1
                                         ELSE cover_count[v]
  BY DEF FlipIn, TypeOK
<1>1. ASSUME NEW x \in Set
      PROVE  score'[x] = IF x \in cur_solu' THEN -Weight(D(1, x))
                                            ELSE Weight(D(0, x))
  <2>1. /\ C0(x) \subseteq Var /\ C1(x) \subseteq Var
        /\ once \subseteq Var /\ twice \subseteq Var
    BY RowColumn DEF Counting
  <2>2. score[x] = IF x \in cur_solu THEN -Weight(C1(x)) ELSE Weight(C0(x))
    BY DEF LocalScore
  <2>3. CASE x = s
    <3>1. D(1, x) = C0(x)
      BY <2>3, <1>4, RowColumn DEF Counting
    <3>2. score'[s] = -score[s] /\ s \in cur_solu'
      BY DEF FlipIn
    <3> HIDE DEF D, C0, C1
    <3>3. QED
      BY <2>2, <2>3, <3>1, <3>2
  <2>4. CASE x # s /\ x \in cur_solu
    <3>1. once \cap set_var[x] = {}
      BY <2>4, RowColumn, Witnesses DEF Counting
    <3>2. was(x) = twice \cap set_var[x]
      BY <2>4, RowColumn, Witnesses DEF Counting
    <3>3. D(1, x) = C1(x) \ was(x)
      BY <3>1, <3>2, <1>4, RowColumn DEF Counting
    <3>4. was(x) \subseteq C1(x)
      BY <3>2 DEF Counting
    <3>5. score'[x] = score[x] - Weight(once \cap set_var[x]) + Weight(was(x))
      BY <2>4 DEF FlipIn
    <3>6. Weight(once \cap set_var[x]) = 0
      BY <3>1, WeightSums
    <3>7. /\ Weight(C1(x)) \in Nat /\ Weight(was(x)) \in Nat
          /\ Weight(C1(x) \ was(x)) = Weight(C1(x)) - Weight(was(x))
      <4>1. was(x) \in SUBSET Var
        BY <2>1, <3>4
      <4>2. QED
        BY <2>1, <3>4, <4>1, WeightSums
    <3>8. x \in cur_solu'
      BY <2>4 DEF FlipIn
    <3> HIDE DEF once, was, C0, C1, D
    <3>9. Weight(D(1, x)) = Weight(C1(x) \ was(x))
      BY <3>3, Zenon
    <3>10. QED
      BY <2>2, <2>4, <3>5, <3>6, <3>7, <3>8, <3>9
  <2>5. CASE x # s /\ x \notin cur_solu
    <3>1. was(x) = {}
      BY <2>5, RowColumn, Witnesses DEF Counting
    <3>2. D(0, x) = C0(x) \ (once \cap set_var[x])
      BY <1>4, RowColumn DEF Counting
    <3>3. once \cap set_var[x] \subseteq C0(x)
      BY DEF Counting
    <3>4. score'[x] = score[x] - Weight(once \cap set_var[x]) + Weight(was(x))
      BY <2>5 DEF FlipIn
    <3>5. Weight(was(x)) = 0
      BY <3>1, WeightSums
    <3>6. /\ Weight(C0(x)) \in Nat /\ Weight(once \cap set_var[x]) \in Nat
          /\ Weight(C0(x) \ (once \cap set_var[x]))
               = Weight(C0(x)) - Weight(once \cap set_var[x])
      <4>1. (once \cap set_var[x]) \in SUBSET Var
        BY <2>1, <3>3
      <4>2. QED
        BY <2>1, <3>3, <4>1, WeightSums
    <3>7. x \notin cur_solu'
      BY <2>5 DEF FlipIn
    <3> HIDE DEF once, was, C0, C1, D
    <3>8. Weight(D(0, x)) = Weight(C0(x) \ (once \cap set_var[x]))
      BY <3>2, Zenon
    <3>9. QED
      BY <2>2, <2>5, <3>4, <3>5, <3>6, <3>7, <3>8
  <2>6. QED
    BY <2>3, <2>4, <2>5
<1>2. weight' = weight
  BY DEF FlipIn
<1>3. QED
  BY <1>1, <1>2 DEF LocalScore, Weight, Counting

LEMMA FlipInPscore ==
  ASSUME IInv, NEW s \in Set, s \notin cur_solu, FlipIn(s)
  PROVE  LocalPscore'
<1> USE DEF IInv
<1> DEFINE once    == Counting(0, set_var[s])
           twice   == Counting(1, set_var[s])
           thrice  == Counting(2, set_var[s])
           was1(x) == {v \in thrice : cover_set[v] = x}
           was2(x) == {v \in thrice : cover_set2[v] = x}
           C1(x)   == Counting(1, set_var[x])
           C2(x)   == Counting(2, set_var[x])
           D(n, x) == {v \in set_var[x] : cover_count'[v] = n}
<1>1. \A v \in Var : /\ cover_count[v] \in Nat
                     /\ cover_count'[v] = IF v \in set_var[s]
                                         THEN cover_count[v] + 1
                                         ELSE cover_count[v]
  BY DEF FlipIn, TypeOK
<1>2. ASSUME NEW x \in Set
      PROVE  pscore'[x] = IF x \in cur_solu' THEN -Weight(D(2, x))
                                             ELSE Weight(D(1, x))
  <2>1. /\ C1(x) \subseteq Var /\ C2(x) \subseteq Var
        /\ once \subseteq Var /\ twice \subseteq Var /\ thrice \subseteq Var
    BY RowColumn DEF Counting
  <2>2. pscore[x] = IF x \in cur_solu THEN -Weight(C2(x)) ELSE Weight(C1(x))
    BY DEF LocalPscore
  <2>3. CASE x = s
    <3>1. D(2, x) = C1(x)
      BY <2>3, <1>1, RowColumn DEF Counting
    <3>2. pscore'[s] = -pscore[s] /\ s \in cur_solu'
      BY DEF FlipIn
    <3> HIDE DEF C1, C2, D
    <3>3. QED
      BY <2>2, <2>3, <3>1, <3>2
  <2>4. x # s => pscore'[x] = pscore[x] + Weight(once \cap set_var[x])
                                        - Weight(twice \cap set_var[x])
                                        + Weight(was1(x)) + Weight(was2(x))
    BY DEF FlipIn
  <2>5. CASE x # s /\ x \in cur_solu
    <3>1. once \cap set_var[x] = {}
      BY <2>5, RowColumn, Witnesses DEF Counting
    <3>2. was1(x) \cup was2(x) = thrice \cap set_var[x]
      BY <2>5, RowColumn, Witnesses DEF Counting
    <3>3. was1(x) \cap was2(x) = {}
      BY <2>1, Witnesses DEF Counting
    <3>4. D(2, x) = (C2(x) \ (was1(x) \cup was2(x))) \cup (twice \cap set_var[x])
      BY <3>2, <1>1, RowColumn DEF Counting
    <3>5. /\ was1(x) \cup was2(x) \subseteq C2(x)
          /\ (C2(x) \ (was1(x) \cup was2(x))) \cap (twice \cap set_var[x]) = {}
      BY <3>2 DEF Counting
    <3>6. x \in cur_solu'
      BY <2>5 DEF FlipIn
    <3> HIDE DEF once, twice, thrice, was1, was2, C1, C2, D
    <3>7. Weight(once \cap set_var[x]) = 0
      BY <3>1, WeightSums
    <3>8. /\ Weight(C2(x)) \in Nat
          /\ Weight(was1(x)) \in Nat
          /\ Weight(was2(x)) \in Nat
          /\ Weight(twice \cap set_var[x]) \in Nat
          /\ Weight(was1(x) \cup was2(x)) = Weight(was1(x)) + Weight(was2(x))
      <4>1. /\ was1(x) \in SUBSET Var
            /\ was2(x) \in SUBSET Var
            /\ (twice \cap set_var[x]) \in SUBSET Var
        BY <2>1, <3>5
      <4>2. QED
        BY <2>1, <3>3, <4>1, WeightSums
    <3>9. Weight(C2(x) \ (was1(x) \cup was2(x)))
            = Weight(C2(x)) - Weight(was1(x) \cup was2(x))
      BY <2>1, <3>5, WeightSums
    <3>10. Weight((C2(x) \ (was1(x) \cup was2(x))) \cup (twice \cap set_var[x]))
             = Weight(C2(x) \ (was1(x) \cup was2(x))) + Weight(twice \cap set_var[x])
      <4>1. /\ (C2(x) \ (was1(x) \cup was2(x))) \in SUBSET Var
            /\ (twice \cap set_var[x]) \in SUBSET Var
        BY <2>1
      <4>2. QED
        BY <3>5, <4>1, WeightSums
    <3>11. Weight(D(2, x))
             = Weight((C2(x) \ (was1(x) \cup was2(x))) \cup (twice \cap set_var[x]))
      BY <3>4, Zenon
    <3>12. QED
      BY <2>2, <2>4, <2>5, <3>6, <3>7, <3>8, <3>9, <3>10, <3>11
  <2>6. CASE x # s /\ x \notin cur_solu
    <3>1. was1(x) = {} /\ was2(x) = {}
      BY <2>1, <2>6, RowColumn, Witnesses DEF Counting
    <3>2. D(1, x) = (C1(x) \ (twice \cap set_var[x])) \cup (once \cap set_var[x])
      BY <1>1, RowColumn DEF Counting
    <3>3. /\ twice \cap set_var[x] \subseteq C1(x)
          /\ (C1(x) \ (twice \cap set_var[x])) \cap (once \cap set_var[x]) = {}
      BY DEF Counting
    <3>4. x \notin cur_solu'
      BY <2>6 DEF FlipIn
    <3> HIDE DEF once, twice, thrice, was1, was2, C1, C2, D
    <3>5. Weight(was1(x)) = 0 /\ Weight(was2(x)) = 0
      BY <3>1, WeightSums
    <3>6. /\ Weight(C1(x)) \in Nat
          /\ Weight(twice \cap set_var[x]) \in Nat
          /\ Weight(once \cap set_var[x]) \in Nat
      <4>1. /\ (twice \cap set_var[x]) \in SUBSET Var
            /\ (once \cap set_var[x]) \in SUBSET Var
        BY <2>1
      <4>2. QED
        BY <2>1, <4>1, WeightSums
    <3>7. Weight(C1(x) \ (twice \cap set_var[x]))
            = Weight(C1(x)) - Weight(twice \cap set_var[x])
      BY <2>1, <3>3, WeightSums
    <3>8. Weight((C1(x) \ (twice \cap set_var[x])) \cup (once \cap set_var[x]))
            = Weight(C1(x) \ (twice \cap set_var[x])) + Weight(once \cap set_var[x])
      <4>1. /\ (C1(x) \ (twice \cap set_var[x])) \in SUBSET Var
            /\ (once \cap set_var[x]) \in SUBSET Var
        BY <2>1
      <4>2. QED
        BY <3>3, <4>1, WeightSums
    <3>9. Weight(D(1, x))
            = Weight((C1(x) \ (twice \cap set_var[x])) \cup (once \cap set_var[x]))
      BY <3>2, Zenon
    <3>10. QED
      BY <2>2, <2>4, <2>6, <3>4, <3>5, <3>6, <3>7, <3>8, <3>9
  <2>7. QED
    BY <2>3, <2>5, <2>6
<1>3. weight' = weight
  BY DEF FlipIn
<1>4. QED
  BY <1>2, <1>3 DEF LocalPscore, Weight, Counting

LEMMA FlipInZero ==
  ASSUME IInv, NEW s \in Set, s \notin cur_solu, FlipIn(s),
         set_var[s] \cap uncover_stack # {}
  PROVE  LocalZero'
<1> USE DEF IInv
<1> DEFINE once   == Counting(0, set_var[s])
           twice  == Counting(1, set_var[s])
           was(x) == {v \in twice : cover_set[v] = x}
<1>1. /\ cur_solu' = cur_solu \cup {s}
      /\ zero_stack' = zero_stack \cup {x \in Set : was(x) # {} /\ score'[x] = 0}
      /\ score'[s] = -score[s]
      /\ \A x \in Set : x # s => score'[x] = score[x] - Weight(once \cap set_var[x])
                                                     + Weight(was(x))
  BY DEF FlipIn
<1>2. ASSUME NEW x \in Set
      PROVE  x \in zero_stack' <=> x \in cur_solu' /\ score'[x] = 0
  <2>1. x \in zero_stack <=> x \in cur_solu /\ score[x] = 0
    BY DEF LocalZero
  <2>2. score[x] = IF x \in cur_solu THEN -Weight(Counting(1, set_var[x]))
                                     ELSE Weight(Counting(0, set_var[x]))
    BY DEF LocalScore
  <2>3. /\ Counting(0, set_var[x]) \in SUBSET Var
        /\ Counting(1, set_var[x]) \in SUBSET Var
        /\ was(x) \in SUBSET Var
    BY RowColumn DEF Counting
  <2>4. CASE x = s
    <3>1. Counting(0, set_var[x]) # {}
      BY <2>4, Uncovered, RowColumn DEF Counting
    <3>2. score[x] # 0 /\ score[x] \in Nat
      BY <2>2, <2>3, <2>4, <3>1, WeightSums
    <3>3. score'[x] # 0
      BY <1>1, <2>4, <3>2
    <3>4. QED
      BY <1>1, <2>1, <2>4, <3>3
  <2>5. CASE x # s /\ x \in cur_solu
    <3>1. once \cap set_var[x] = {}
      BY <2>5, RowColumn, Witnesses DEF Counting
    <3>2. was(x) \subseteq Counting(1, set_var[x])
      BY <2>5, RowColumn, Witnesses DEF Counting
    <3> HIDE DEF once, was
    <3>3. Weight(once \cap set_var[x]) = 0
      BY <3>1, WeightSums
    <3>4. was(x) # {} => score[x] # 0
      <4>1. was(x) # {} => Counting(1, set_var[x]) # {}
        BY <3>2
      <4>2. Weight(Counting(1, set_var[x])) \in Nat
        BY <2>3, WeightSums
      <4>3. was(x) # {} => Weight(Counting(1, set_var[x])) # 0
        BY <2>3, <4>1, WeightSums
      <4>4. QED
        BY <2>2, <2>5, <4>2, <4>3
    <3>5. was(x) = {} => score'[x] = score[x]
      <4>1. was(x) = {} => Weight(was(x)) = 0
        BY <2>3, WeightSums
      <4>2. score[x] \in Int
        BY DEF TypeOK
      <4>3. score'[x] = score[x] - Weight(once \cap set_var[x]) + Weight(was(x))
        BY <1>1, <2>5
      <4>4. was(x) = {} => score'[x] = score[x] - 0 + 0
        BY ONLY <3>3, <4>1, <4>3
      <4>5. QED
        BY ONLY <4>2, <4>4
    <3>6. QED
      BY <1>1, <2>1, <2>5, <3>4, <3>5
  <2>6. CASE x # s /\ x \notin cur_solu
    <3>1. was(x) = {}
      BY <2>6, RowColumn, Witnesses DEF Counting
    <3>2. QED
      BY <1>1, <2>1, <2>6, <3>1
  <2>7. QED
    BY <2>4, <2>5, <2>6
<1>3. zero_stack' \subseteq Set /\ cur_solu' \subseteq Set
  BY FlipInType DEF TypeOK
<1>4. QED
  BY <1>2, <1>3 DEF LocalZero

(* The cost of a solution, with and without one set.                       *)
LEMMA CostSums ==
  ASSUME NEW S \in SUBSET Set, NEW s \in Set
  PROVE  /\ Total(cost, S) \in Nat
         /\ s \notin S => Total(cost, S \cup {s}) = Total(cost, S) + cost[s]
         /\ s \in S => Total(cost, S \ {s}) = Total(cost, S) - cost[s]
<1>1. IsFiniteSet(Set) /\ cost \in [Set -> Nat] /\ cost[s] \in Nat
  BY InstanceAssumption
<1>2. Total(cost, {s}) = cost[s]
  BY <1>1, TotalSingleton
<1>3. Total(cost, S) \in Nat
  BY <1>1, TotalType
<1>4. ASSUME s \notin S PROVE Total(cost, S \cup {s}) = Total(cost, S) + cost[s]
  <2>1. {s} \in SUBSET Set /\ S \cap {s} = {}
    BY <1>4
  <2>2. Total(cost, S \cup {s}) = Total(cost, S) + Total(cost, {s})
    BY <1>1, <2>1, TotalUnion
  <2>3. QED
    BY <1>2, <2>2
<1>5. ASSUME s \in S PROVE Total(cost, S \ {s}) = Total(cost, S) - cost[s]
  <2>1. {s} \in SUBSET S
    BY <1>5
  <2>2. Total(cost, S \ {s}) = Total(cost, S) - Total(cost, {s})
    BY <1>1, <2>1, TotalDiff
  <2>3. QED
    BY <1>2, <2>2
<1>6. QED
  BY <1>3, <1>4, <1>5

LEMMA FlipInCost ==
  ASSUME IInv, NEW s \in Set, s \notin cur_solu, FlipIn(s)
  PROVE  CostExact'
<1>1. cur_solu \in SUBSET Set /\ cur_cost = fixed_cost + Total(cost, cur_solu)
  BY DEF IInv, TypeOK, CostExact
<1>2. cost[s] \in Nat /\ fixed_cost \in Nat
  BY InstanceAssumption
<1>3. Total(cost, cur_solu) \in Nat
  BY <1>1, CostSums
<1>4. Total(cost, cur_solu \cup {s}) = Total(cost, cur_solu) + cost[s]
  BY <1>1, CostSums
<1>5. cur_cost' = cur_cost + cost[s] /\ cur_solu' = cur_solu \cup {s}
  BY DEF FlipIn
<1>6. cur_cost' = fixed_cost + Total(cost, cur_solu \cup {s})
  BY <1>1, <1>2, <1>3, <1>4, <1>5
<1>7. QED
  BY <1>5, <1>6 DEF CostExact

LEMMA FlipInFlags ==
  ASSUME IInv, NEW s \in Set, s \notin cur_solu, FlipIn(s),
         set_var[s] \cap uncover_stack # {}
  PROVE  FlagsOut'
<1> SUFFICES ASSUME NEW x \in Set, ~cc'[x]
             PROVE  x \notin cur_solu'
  BY DEF FlagsOut
<1>1. ~cc[x] /\ set_var[s] \cap set_var[x] = {}
  BY DEF FlipIn, Raised
<1>2. x # s
  BY <1>1
<1>3. QED
  BY <1>1, <1>2 DEF IInv, FlagsOut, FlipIn

LEMMA FlipInStep ==
  ASSUME IInv, NEW s \in Set, s \notin cur_solu, FlipIn(s),
         set_var[s] \cap uncover_stack # {}
  PROVE  IInv'
BY FlipInType, FlipInRows, FlipInScore, FlipInPscore, FlipInZero, FlipInCost,
   FlipInFlags DEF IInv

-----------------------------------------------------------------------------
(* A set leaves the solution.                                              *)

(* On 3->2 the search along the row finds the two sets that remain.        *)
LEMMA PairFound ==
  ASSUME IInv, NEW s \in Set, s \in cur_solu,
         NEW v \in Counting(3, set_var[s])
  PROVE  LET f == FirstOf(v, cur_solu \ {s})
             g == FirstOf(v, cur_solu \ {s, f})
         IN  Sets[v] \cap (cur_solu \ {s}) = {f, g} /\ f # g
<1> USE DEF IInv
<1> DEFINE R == Sets[v] \cap (cur_solu \ {s})
           f == FirstOf(v, cur_solu \ {s})
           g == FirstOf(v, cur_solu \ {s, f})
<1>1. v \in Var /\ cover_count[v] = 3 /\ s \in Sets[v]
  BY RowColumn DEF Counting
<1>2. IsFiniteSet(R) /\ Cardinality(R) = 2
  <2>1. Cardinality(Sets[v] \cap cur_solu) = 3
    BY <1>1 DEF WitnessExact
  <2>2. cur_solu \in SUBSET Set
    BY DEF TypeOK
  <2>3. Cardinality(Sets[v] \cap (cur_solu \ {s})) = Cardinality(Sets[v] \cap cur_solu) - 1
    BY <1>1, <2>2, RowCount
  <2>4. (cur_solu \ {s}) \in SUBSET Set
    BY <2>2
  <2>5. IsFiniteSet(Sets[v] \cap (cur_solu \ {s}))
    BY <1>1, <2>4, RowCount
  <2>6. QED
    BY <2>1, <2>3, <2>5
<1>3. f \in R
  <2>1. Sets[v] \cap (cur_solu \ {s}) # {}
    BY <1>2, FS_EmptySet
  <2>2. QED
    BY <1>1, <2>1, FirstOfFound
<1>4. g \in R \ {f}
  <2>1. R \ {f} # {}
    <3> HIDE DEF R, f
    <3>1. IsFiniteSet(R \ {f}) /\ Cardinality(R \ {f}) = 2 - 1
      BY <1>2, <1>3, FS_RemoveElement
    <3>2. QED
      BY <3>1, FS_EmptySet
  <2>3. Sets[v] \cap (cur_solu \ {s, f}) = R \ {f}
    OBVIOUS
  <2>4. QED
    BY <1>1, <2>1, <2>3, FirstOfFound
<1>5. R = {f, g}
  <2> HIDE DEF R, f, g
  <2>1. QED
    BY <1>2, <1>3, <1>4, PairOfTwo
<1>6. QED
  BY <1>4, <1>5

LEMMA FlipOutType ==
  ASSUME IInv, NEW s \in Set, s \in cur_solu, FlipOut(s)
  PROVE  TypeOK'
<1> USE DEF IInv
<1> DEFINE twice     == Counting(3, set_var[s])
           once      == Counting(2, set_var[s])
           none      == Counting(1, set_var[s])
           first(v)  == FirstOf(v, cur_solu \ {s})
           second(v) == FirstOf(v, cur_solu \ {s, first(v)})
           keep(v)   == IF cover_set[v] = s THEN cover_set2[v] ELSE cover_set[v]
           kept(x)   == {v \in once : keep(v) = x}
           pair(x)   == {v \in twice : x \in {first(v), second(v)}}
<1>1. \A V \in SUBSET Var : Weight(V) \in Nat
  BY WeightSums
<1>2. cost[s] \in Nat
  BY InstanceAssumption
<1>3. \A v \in twice : first(v) \in Set /\ second(v) \in Set
  <2> SUFFICES ASSUME NEW v \in twice
               PROVE  first(v) \in Set /\ second(v) \in Set
    OBVIOUS
  <2>1. Sets[v] \cap (cur_solu \ {s}) = {first(v), second(v)}
    BY PairFound
  <2>2. Sets[v] \subseteq Set
    BY RowColumn DEF Counting
  <2> HIDE DEF first, second
  <2>3. QED
    BY <2>1, <2>2
<1>4. twice \subseteq Var /\ once \subseteq Var /\ none \subseteq Var
  BY RowColumn DEF Counting
<1>5. score' \in [Set -> Int]
  <2>1. score' = [x \in Set |-> IF x = s THEN -score[s]
                                ELSE score[x] + Weight(none \cap set_var[x])
                                              - Weight(kept(x))]
    BY DEF FlipOut
  <2>2. \A x \in Set : /\ Weight(none \cap set_var[x]) \in Nat
                       /\ Weight(kept(x)) \in Nat
                       /\ score[x] \in Int
    BY <1>1, <1>4 DEF TypeOK
  <2> HIDE DEF none, kept
  <2>3. QED
    BY <2>1, <2>2
<1>6. pscore' \in [Set -> Int]
  <2>1. pscore' = [x \in Set |-> IF x = s THEN -pscore[s]
                                 ELSE pscore[x] - Weight(none \cap set_var[x])
                                                + Weight(once \cap set_var[x])
                                                - Weight(pair(x))]
    BY DEF FlipOut
  <2>2. \A x \in Set : /\ Weight(none \cap set_var[x]) \in Nat
                       /\ Weight(once \cap set_var[x]) \in Nat
                       /\ Weight(pair(x)) \in Nat
                       /\ pscore[x] \in Int
    BY <1>1, <1>4 DEF TypeOK
  <2> HIDE DEF none, once, pair
  <2>3. \A x \in Set : pscore[x] - Weight(none \cap set_var[x])
                                 + Weight(once \cap set_var[x])
                                 - Weight(pair(x)) \in Int
    BY <2>2
  <2>4. QED
    BY <2>1, <2>2, <2>3
<1>7. /\ cover_set' \in [Var -> Set \cup {NoSet}]
      /\ cover_set2' \in [Var -> Set \cup {NoSet}]
  <2>1. /\ cover_set' = [v \in Var |-> CASE v \in twice -> first(v)
                                         [] v \in once  -> keep(v)
                                         [] OTHER       -> cover_set[v]]
        /\ cover_set2' = [v \in Var |-> IF v \in twice THEN second(v)
                                                       ELSE cover_set2[v]]
    BY DEF FlipOut
  <2>2. \A v \in Var : keep(v) \in Set \cup {NoSet}
    BY DEF TypeOK
  <2> HIDE DEF twice, once, first, second, keep
  <2>3. QED
    BY <1>3, <2>1, <2>2 DEF TypeOK
<1>8. /\ cur_solu' \subseteq Set
      /\ cur_cost' \in Int
      /\ weight' \in [Var -> 1 .. MaxWeight]
      /\ zero_stack' \subseteq Set
  BY <1>2 DEF TypeOK, FlipOut
<1>9. cover_count' \in [Var -> Nat]
  <2>1. \A v \in set_var[s] : cover_count[v] # 0
    BY Witnesses, RowColumn
  <2>2. cover_count' = [v \in Var |-> IF v \in set_var[s] THEN cover_count[v] - 1
                                                         ELSE cover_count[v]]
    BY DEF FlipOut
  <2>3. QED
    BY <2>1, <2>2 DEF TypeOK
<1>10. cc' \in [Set -> BOOLEAN]
  BY DEF TypeOK, FlipOut, Raised
<1>11. uncover_stack' \subseteq Var
  BY <1>4 DEF TypeOK, FlipOut
<1>12. QED
  BY <1>5, <1>6, <1>7, <1>8, <1>9, <1>10, <1>11 DEF TypeOK

LEMMA FlipOutRows ==
  ASSUME IInv, NEW s \in Set, s \in cur_solu, FlipOut(s)
  PROVE  WitnessExact'
<1> USE DEF IInv
<1> DEFINE first(v)  == FirstOf(v, cur_solu \ {s})
           second(v) == FirstOf(v, cur_solu \ {s, first(v)})
           keep(v)   == IF cover_set[v] = s THEN cover_set2[v] ELSE cover_set[v]
<1>1. cur_solu' = cur_solu \ {s}
  BY DEF FlipOut
<1>2. ASSUME NEW v \in Var
      PROVE  /\ cover_count'[v] = Cardinality(Sets[v] \cap cur_solu')
             /\ cover_count'[v] = 1 => Sets[v] \cap cur_solu' = {cover_set'[v]}
             /\ cover_count'[v] = 2 =>
                  Sets[v] \cap cur_solu' = {cover_set'[v], cover_set2'[v]}
             /\ v \in uncover_stack' <=> cover_count'[v] = 0
  <2>1. /\ cover_count[v] \in Nat
        /\ cover_count[v] = Cardinality(Sets[v] \cap cur_solu)
        /\ cover_count[v] = 1 => Sets[v] \cap cur_solu = {cover_set[v]}
        /\ cover_count[v] = 2 =>
             Sets[v] \cap cur_solu = {cover_set[v], cover_set2[v]}
        /\ v \in uncover_stack <=> cover_count[v] = 0
    BY Uncovered DEF WitnessExact, TypeOK
  <2>2. v \in set_var[s] <=> s \in Sets[v]
    BY RowColumn
  <2>3. CASE v \notin set_var[s]
    <3>1. Sets[v] \cap cur_solu' = Sets[v] \cap cur_solu
      BY <1>1, <2>2, <2>3
    <3>2. /\ cover_count'[v] = cover_count[v]
          /\ cover_set'[v] = cover_set[v]
          /\ cover_set2'[v] = cover_set2[v]
          /\ v \in uncover_stack' <=> v \in uncover_stack
      BY <2>3 DEF FlipOut, Counting
    <3>3. QED
      BY <2>1, <3>1, <3>2
  <2>4. CASE v \in set_var[s]
    <3>1. Cardinality(Sets[v] \cap cur_solu')
            = Cardinality(Sets[v] \cap cur_solu) - 1
      <4>1. s \in Sets[v] /\ cur_solu \in SUBSET Set
        BY <2>2, <2>4 DEF TypeOK
      <4>2. QED
        BY <1>1, <4>1, RowCount
    <3>2. cover_count'[v] = cover_count[v] - 1
      BY <2>4 DEF FlipOut
    <3>3. cover_count[v] # 0
      BY <2>2, <2>4, Witnesses
    <3>4. cover_count[v] = 3 =>
            Sets[v] \cap cur_solu' = {cover_set'[v], cover_set2'[v]}
      <4>1. SUFFICES ASSUME cover_count[v] = 3
                     PROVE  Sets[v] \cap cur_solu' = {cover_set'[v], cover_set2'[v]}
        OBVIOUS
      <4>2. v \in Counting(3, set_var[s]) /\ v \notin Counting(2, set_var[s])
        BY <2>4, <4>1 DEF Counting
      <4>3. Sets[v] \cap (cur_solu \ {s}) = {first(v), second(v)}
        BY <4>2, PairFound
      <4>4. cover_set'[v] = first(v) /\ cover_set2'[v] = second(v)
        <5>1. cover_set' = [w \in Var |->
                CASE w \in Counting(3, set_var[s]) -> first(w)
                  [] w \in Counting(2, set_var[s]) -> keep(w)
                  [] OTHER                         -> cover_set[w]]
          BY DEF FlipOut
        <5>2. cover_set2' = [w \in Var |->
                IF w \in Counting(3, set_var[s]) THEN second(w) ELSE cover_set2[w]]
          BY DEF FlipOut
        <5> HIDE DEF first, second, keep
        <5>3. QED
          BY <4>2, <5>1, <5>2
      <4> HIDE DEF first, second
      <4>5. QED
        BY <1>1, <4>3, <4>4
    <3>5. cover_count[v] = 2 => Sets[v] \cap cur_solu' = {cover_set'[v]}
      <4>1. SUFFICES ASSUME cover_count[v] = 2
                     PROVE  Sets[v] \cap cur_solu' = {cover_set'[v]}
        OBVIOUS
      <4>2. v \in Counting(2, set_var[s]) /\ v \notin Counting(3, set_var[s])
        BY <2>4, <4>1 DEF Counting
      <4>3. cover_set'[v] = keep(v)
        BY <4>2 DEF FlipOut
      <4>4. cover_set[v] # cover_set2[v] /\ s \in {cover_set[v], cover_set2[v]}
        BY <2>2, <2>4, <4>1, Witnesses
      <4>5. QED
        BY <1>1, <2>1, <4>1, <4>3, <4>4
    <3>6. v \in uncover_stack' <=> v \in uncover_stack \/ cover_count[v] = 1
      BY <2>4 DEF FlipOut, Counting
    <3>7. QED
      BY <2>1, <3>1, <3>2, <3>3, <3>4, <3>5, <3>6
  <2>5. QED
    BY <2>3, <2>4
<1>3. uncover_stack' = Var \ Covered(1, cur_solu')
  <2>1. ASSUME NEW v \in Var
        PROVE  v \in Covered(1, cur_solu') <=> cover_count'[v] # 0
    <3>1. cover_count'[v] \in Nat
      BY FlipOutType DEF TypeOK
    <3>2. QED
      BY <1>2, <3>1 DEF Covered
  <2>2. uncover_stack' \subseteq Var
    BY FlipOutType DEF TypeOK
  <2>3. QED
    BY <1>2, <2>1, <2>2 DEF Covered
<1>4. QED
  BY <1>2, <1>3 DEF WitnessExact, Covered

LEMMA FlipOutScore ==
  ASSUME IInv, NEW s \in Set, s \in cur_solu, FlipOut(s)
  PROVE  LocalScore'
<1> USE DEF IInv
<1> DEFINE once    == Counting(2, set_var[s])
           none    == Counting(1, set_var[s])
           keep(v) == IF cover_set[v] = s THEN cover_set2[v] ELSE cover_set[v]
           kept(x) == {v \in once : keep(v) = x}
           C0(x)   == Counting(0, set_var[x])
           C1(x)   == Counting(1, set_var[x])
           D(n, x) == {v \in set_var[x] : cover_count'[v] = n}
<1>1. \A v \in Var : /\ cover_count[v] \in Nat
                     /\ cover_count'[v] = IF v \in set_var[s]
                                         THEN cover_count[v] - 1
                                         ELSE cover_count[v]
                     /\ v \in set_var[s] => cover_count[v] # 0
  BY Witnesses, RowColumn DEF FlipOut, TypeOK
<1>2. ASSUME NEW x \in Set
      PROVE  score'[x] = IF x \in cur_solu' THEN -Weight(D(1, x))
                                            ELSE Weight(D(0, x))
  <2>1. /\ C0(x) \subseteq Var /\ C1(x) \subseteq Var
        /\ once \subseteq Var /\ none \subseteq Var
    BY RowColumn DEF Counting
  <2>2. score[x] = IF x \in cur_solu THEN -Weight(C1(x)) ELSE Weight(C0(x))
    BY DEF LocalScore
  <2>3. x # s => score'[x] = score[x] + Weight(none \cap set_var[x])
                                      - Weight(kept(x))
    BY DEF FlipOut
  <2>4. CASE x = s
    <3>1. D(0, x) = C1(x)
      BY <2>4, <1>1, RowColumn DEF Counting
    <3>2. score'[s] = -score[s] /\ s \notin cur_solu'
      BY DEF FlipOut
    <3>3. Weight(C1(x)) \in Nat
      BY <2>1, WeightSums
    <3> HIDE DEF D, C0, C1
    <3>4. QED
      BY <2>2, <2>4, <3>1, <3>2, <3>3
  <2>5. CASE x # s /\ x \in cur_solu
    <3>1. none \cap set_var[x] = {}
      BY <2>5, RowColumn, Witnesses DEF Counting
    <3>2. kept(x) = once \cap set_var[x]
      <4> SUFFICES ASSUME NEW v \in once
                   PROVE  keep(v) = x <=> v \in set_var[x]
        OBVIOUS
      <4>1. v \in Var /\ cover_count[v] = 2 /\ s \in Sets[v]
        BY RowColumn DEF Counting
      <4>2. /\ s = cover_set[v] \/ s = cover_set2[v]
            /\ cover_set[v] # cover_set2[v]
            /\ x \in Sets[v] <=> x = cover_set[v] \/ x = cover_set2[v]
        BY <2>5, <4>1, Witnesses
      <4>3. QED
        BY <2>5, <4>1, <4>2, RowColumn
    <3>3. D(1, x) = C1(x) \cup kept(x) /\ C1(x) \cap kept(x) = {}
      BY <3>1, <3>2, <1>1, RowColumn DEF Counting
    <3>4. x \in cur_solu'
      BY <2>5 DEF FlipOut
    <3>5. kept(x) \in SUBSET Var
      BY <2>1
    <3> HIDE DEF once, none, kept, C0, C1, D
    <3>6. Weight(none \cap set_var[x]) = 0
      BY <3>1, WeightSums
    <3>7. /\ Weight(C1(x)) \in Nat /\ Weight(kept(x)) \in Nat
          /\ Weight(C1(x) \cup kept(x)) = Weight(C1(x)) + Weight(kept(x))
      BY <2>1, <3>3, <3>5, WeightSums
    <3>8. Weight(D(1, x)) = Weight(C1(x) \cup kept(x))
      BY <3>3, Zenon
    <3>9. QED
      BY <2>2, <2>3, <2>5, <3>4, <3>6, <3>7, <3>8
  <2>6. CASE x # s /\ x \notin cur_solu
    <3>1. kept(x) = {}
      <4> SUFFICES ASSUME NEW v \in once
                   PROVE  keep(v) # x
        OBVIOUS
      <4>1. v \in Var /\ cover_count[v] = 2 /\ s \in Sets[v]
        BY RowColumn DEF Counting
      <4>2. x # cover_set[v] /\ x # cover_set2[v]
        BY <2>6, <4>1, Witnesses
      <4>3. QED
        BY <4>2
    <3>2. D(0, x) = C0(x) \cup (none \cap set_var[x])
      BY <1>1, RowColumn DEF Counting
    <3>3. C0(x) \cap (none \cap set_var[x]) = {}
      BY DEF Counting
    <3>4. x \notin cur_solu'
      BY <2>6 DEF FlipOut
    <3> HIDE DEF once, none, kept, C0, C1, D
    <3>5. Weight(kept(x)) = 0
      BY <3>1, WeightSums
    <3>6. /\ Weight(C0(x)) \in Nat /\ Weight(none \cap set_var[x]) \in Nat
          /\ Weight(C0(x) \cup (none \cap set_var[x]))
               = Weight(C0(x)) + Weight(none \cap set_var[x])
      <4>1. (none \cap set_var[x]) \in SUBSET Var
        BY <2>1
      <4>2. QED
        BY <2>1, <3>3, <4>1, WeightSums
    <3>7. Weight(D(0, x)) = Weight(C0(x) \cup (none \cap set_var[x]))
      BY <3>2, Zenon
    <3>8. QED
      BY <2>2, <2>3, <2>6, <3>4, <3>5, <3>6, <3>7
  <2>7. QED
    BY <2>4, <2>5, <2>6
<1>3. weight' = weight
  BY DEF FlipOut
<1>4. QED
  BY <1>2, <1>3 DEF LocalScore, Weight, Counting

LEMMA FlipOutPscore ==
  ASSUME IInv, NEW s \in Set, s \in cur_solu, FlipOut(s)
  PROVE  LocalPscore'
<1> USE DEF IInv
<1> DEFINE twice     == Counting(3, set_var[s])
           once      == Counting(2, set_var[s])
           none      == Counting(1, set_var[s])
           first(v)  == FirstOf(v, cur_solu \ {s})
           second(v) == FirstOf(v, cur_solu \ {s, first(v)})
           pair(x)   == {v \in twice : x \in {first(v), second(v)}}
           C1(x)     == Counting(1, set_var[x])
           C2(x)     == Counting(2, set_var[x])
           D(n, x)   == {v \in set_var[x] : cover_count'[v] = n}
<1>1. \A v \in Var : /\ cover_count[v] \in Nat
                     /\ cover_count'[v] = IF v \in set_var[s]
                                         THEN cover_count[v] - 1
                                         ELSE cover_count[v]
                     /\ v \in set_var[s] => cover_count[v] # 0
  BY Witnesses, RowColumn DEF FlipOut, TypeOK
<1>2. ASSUME NEW x \in Set
      PROVE  pscore'[x] = IF x \in cur_solu' THEN -Weight(D(2, x))
                                             ELSE Weight(D(1, x))
  <2>1. /\ C1(x) \subseteq Var /\ C2(x) \subseteq Var
        /\ twice \subseteq Var /\ once \subseteq Var /\ none \subseteq Var
    BY RowColumn DEF Counting
  <2>2. pscore[x] = IF x \in cur_solu THEN -Weight(C2(x)) ELSE Weight(C1(x))
    BY DEF LocalPscore
  <2>3. x # s => pscore'[x] = pscore[x] - Weight(none \cap set_var[x])
                                        + Weight(once \cap set_var[x])
                                        - Weight(pair(x))
    BY DEF FlipOut
  <2>4. \A v \in twice : x # s =>
          (x \in {first(v), second(v)} <=> x \in Sets[v] /\ x \in cur_solu)
    <3> SUFFICES ASSUME NEW v \in twice, x # s
                 PROVE  x \in {first(v), second(v)} <=> x \in Sets[v] /\ x \in cur_solu
      OBVIOUS
    <3>1. Sets[v] \cap (cur_solu \ {s}) = {first(v), second(v)}
      BY PairFound
    <3> HIDE DEF first, second
    <3>2. QED
      BY <3>1
  <2> HIDE DEF first, second
  <2>5. CASE x = s
    <3>1. D(1, x) = C2(x)
      BY <2>5, <1>1, RowColumn DEF Counting
    <3>2. pscore'[s] = -pscore[s] /\ s \notin cur_solu'
      BY DEF FlipOut
    <3>3. Weight(C2(x)) \in Nat
      BY <2>1, WeightSums
    <3> HIDE DEF D, C1, C2
    <3>4. QED
      BY <2>2, <2>5, <3>1, <3>2, <3>3
  <2>6. CASE x # s /\ x \in cur_solu
    <3>1. none \cap set_var[x] = {}
      BY <2>6, RowColumn, Witnesses DEF Counting
    <3>2. pair(x) = twice \cap set_var[x]
      BY <2>1, <2>4, <2>6, RowColumn
    <3>3. /\ D(2, x) = (C2(x) \ (once \cap set_var[x])) \cup pair(x)
          /\ once \cap set_var[x] \subseteq C2(x)
          /\ (C2(x) \ (once \cap set_var[x])) \cap pair(x) = {}
      BY <3>1, <3>2, <1>1, RowColumn DEF Counting
    <3>4. x \in cur_solu'
      BY <2>6 DEF FlipOut
    <3>5. pair(x) \in SUBSET Var
      BY <2>1
    <3> HIDE DEF twice, once, none, pair, C1, C2, D
    <3>6. Weight(none \cap set_var[x]) = 0
      BY <3>1, WeightSums
    <3>7. /\ Weight(C2(x)) \in Nat
          /\ Weight(once \cap set_var[x]) \in Nat
          /\ Weight(pair(x)) \in Nat
      <4>1. (once \cap set_var[x]) \in SUBSET Var
        BY <2>1
      <4>2. QED
        BY <2>1, <3>5, <4>1, WeightSums
    <3>8. Weight(C2(x) \ (once \cap set_var[x]))
            = Weight(C2(x)) - Weight(once \cap set_var[x])
      BY <2>1, <3>3, WeightSums
    <3>9. Weight((C2(x) \ (once \cap set_var[x])) \cup pair(x))
            = Weight(C2(x) \ (once \cap set_var[x])) + Weight(pair(x))
      <4>1. (C2(x) \ (once \cap set_var[x])) \in SUBSET Var
        BY <2>1
      <4>2. QED
        BY <3>3, <3>5, <4>1, WeightSums
    <3>10. Weight(D(2, x)) = Weight((C2(x) \ (once \cap set_var[x])) \cup pair(x))
      BY <3>3, Zenon
    <3>11. QED
      BY <2>2, <2>3, <2>6, <3>4, <3>6, <3>7, <3>8, <3>9, <3>10
  <2>7. CASE x # s /\ x \notin cur_solu
    <3>1. pair(x) = {}
      BY <2>4, <2>7
    <3>2. /\ D(1, x) = (C1(x) \ (none \cap set_var[x])) \cup (once \cap set_var[x])
          /\ none \cap set_var[x] \subseteq C1(x)
          /\ (C1(x) \ (none \cap set_var[x])) \cap (once \cap set_var[x]) = {}
      BY <1>1, RowColumn DEF Counting
    <3>3. x \notin cur_solu'
      BY <2>7 DEF FlipOut
    <3> HIDE DEF twice, once, none, pair, C1, C2, D
    <3>4. Weight(pair(x)) = 0
      BY <3>1, WeightSums
    <3>5. (none \cap set_var[x]) \in SUBSET Var /\ (once \cap set_var[x]) \in SUBSET Var
      BY <2>1
    <3>6. /\ Weight(C1(x)) \in Nat
          /\ Weight(none \cap set_var[x]) \in Nat
          /\ Weight(once \cap set_var[x]) \in Nat
      BY <2>1, <3>5, WeightSums
    <3>7. Weight(C1(x) \ (none \cap set_var[x]))
            = Weight(C1(x)) - Weight(none \cap set_var[x])
      BY <2>1, <3>2, WeightSums
    <3>8. Weight((C1(x) \ (none \cap set_var[x])) \cup (once \cap set_var[x]))
            = Weight(C1(x) \ (none \cap set_var[x])) + Weight(once \cap set_var[x])
      <4>1. (C1(x) \ (none \cap set_var[x])) \in SUBSET Var
        BY <2>1
      <4>2. QED
        BY <3>2, <3>5, <4>1, WeightSums
    <3>9. Weight(D(1, x))
            = Weight((C1(x) \ (none \cap set_var[x])) \cup (once \cap set_var[x]))
      BY <3>2, Zenon
    <3>10. QED
      BY <2>2, <2>3, <2>7, <3>3, <3>4, <3>6, <3>7, <3>8, <3>9
  <2>8. QED
    BY <2>5, <2>6, <2>7
<1>3. weight' = weight
  BY DEF FlipOut
<1>4. QED
  BY <1>2, <1>3 DEF LocalPscore, Weight, Counting

LEMMA FlipOutZero ==
  ASSUME IInv, NEW s \in Set, s \in cur_solu, FlipOut(s)
  PROVE  LocalZero'
<1> USE DEF IInv
<1> DEFINE once    == Counting(2, set_var[s])
           none    == Counting(1, set_var[s])
           keep(v) == IF cover_set[v] = s THEN cover_set2[v] ELSE cover_set[v]
           kept(x) == {v \in once : keep(v) = x}
<1>1. /\ cur_solu' = cur_solu \ {s}
      /\ zero_stack' = (zero_stack \ {s}) \ {x \in Set : kept(x) # {} /\ score'[x] # 0}
      /\ \A x \in Set : x # s => score'[x] = score[x] + Weight(none \cap set_var[x])
                                                     - Weight(kept(x))
  BY DEF FlipOut
<1>2. ASSUME NEW x \in Set
      PROVE  x \in zero_stack' <=> x \in cur_solu' /\ score'[x] = 0
  <2>1. x \in zero_stack <=> x \in cur_solu /\ score[x] = 0
    BY DEF LocalZero
  <2>2. CASE x = s
    BY <1>1, <2>2
  <2>3. CASE x # s /\ x \notin cur_solu
    BY <1>1, <2>1, <2>3
  <2>4. CASE x # s /\ x \in cur_solu
    <3>1. none \cap set_var[x] = {}
      BY <2>4, RowColumn, Witnesses DEF Counting
    <3>2. score[x] = -Weight(Counting(1, set_var[x]))
      BY <2>4 DEF LocalScore
    <3>3. Counting(1, set_var[x]) \in SUBSET Var /\ kept(x) \in SUBSET Var
      BY RowColumn DEF Counting
    <3> HIDE DEF none, kept
    <3>4. /\ Weight(none \cap set_var[x]) = 0
          /\ Weight(Counting(1, set_var[x])) \in Nat
          /\ Weight(kept(x)) \in Nat
          /\ Weight(kept(x)) = 0 <=> kept(x) = {}
      BY <3>1, <3>3, WeightSums
    <3>5. score'[x] = -Weight(Counting(1, set_var[x])) + 0 - Weight(kept(x))
      BY <1>1, <2>4, <3>2, <3>4
    <3>6. kept(x) = {} => score'[x] = score[x]
      BY <3>2, <3>4, <3>5
    <3>7. kept(x) # {} => score'[x] # 0 /\ x \notin zero_stack'
      <4>1. kept(x) # {} => score'[x] # 0
        BY <3>4, <3>5
      <4>2. QED
        BY <1>1, <4>1
    <3>8. kept(x) = {} => (x \in zero_stack' <=> x \in zero_stack)
      BY <1>1, <2>4
    <3>9. x \in cur_solu'
      BY <1>1, <2>4
    <3>10. QED
      BY <2>1, <2>4, <3>6, <3>7, <3>8, <3>9
  <2>5. QED
    BY <2>2, <2>3, <2>4
<1>3. zero_stack' \subseteq Set /\ cur_solu' \subseteq Set
  BY FlipOutType DEF TypeOK
<1>4. QED
  BY <1>2, <1>3 DEF LocalZero

LEMMA FlipOutCost ==
  ASSUME IInv, NEW s \in Set, s \in cur_solu, FlipOut(s)
  PROVE  CostExact'
<1>1. cur_solu \in SUBSET Set /\ cur_cost = fixed_cost + Total(cost, cur_solu)
  BY DEF IInv, TypeOK, CostExact
<1>2. cost[s] \in Nat /\ fixed_cost \in Nat
  BY InstanceAssumption
<1>3. Total(cost, cur_solu) \in Nat
  BY <1>1, CostSums
<1>4. Total(cost, cur_solu \ {s}) = Total(cost, cur_solu) - cost[s]
  BY <1>1, CostSums
<1>5. cur_cost' = cur_cost - cost[s] /\ cur_solu' = cur_solu \ {s}
  BY DEF FlipOut
<1>6. cur_cost' = fixed_cost + Total(cost, cur_solu \ {s})
  BY <1>1, <1>2, <1>3, <1>4, <1>5
<1>7. QED
  BY <1>5, <1>6 DEF CostExact

LEMMA FlipOutFlags ==
  ASSUME IInv, NEW s \in Set, s \in cur_solu, FlipOut(s)
  PROVE  FlagsOut'
BY DEF IInv, TypeOK, FlagsOut, FlipOut, Raised

LEMMA FlipOutStep ==
  ASSUME IInv, NEW s \in Set, s \in cur_solu, FlipOut(s)
  PROVE  IInv'
BY FlipOutType, FlipOutRows, FlipOutScore, FlipOutPscore, FlipOutZero, FlipOutCost,
   FlipOutFlags DEF IInv

-----------------------------------------------------------------------------
(* The weights of the uncovered variables grow.                            *)

(* Sums after update_weight.                                               *)
LEMMA WeightBump ==
  ASSUME TypeOK, update_weight, NEW V \in SUBSET Var
  PROVE  Total(weight', V) = Weight(V) + Cardinality(V \cap uncover_stack)
<1>1. IsFiniteSet(Var) /\ weight \in [Var -> Nat] /\ uncover_stack \in SUBSET Var
  BY InstanceAssumption DEF TypeOK
<1>2. weight' = [v \in Var |-> IF v \in uncover_stack THEN weight[v] + 1 ELSE weight[v]]
  BY DEF update_weight
<1>3. Total([v \in Var |-> IF v \in uncover_stack THEN weight[v] + 1 ELSE weight[v]], V)
        = Total(weight, V) + Cardinality(V \cap uncover_stack)
  BY <1>1, TotalBump
<1>4. QED
  BY <1>2, <1>3 DEF Weight

LEMMA UpdateWeightStep ==
  ASSUME IInv, update_weight
  PROVE  IInv'
<1> USE DEF IInv
<1> DEFINE C(n, x) == Counting(n, set_var[x])
<1>1. UNCHANGED <<cur_solu, cur_cost, cover_count, cover_set, cover_set2,
                  pscore, cc, uncover_stack, zero_stack>>
  BY DEF update_weight
<1>2. \A n, x : C(n, x)' = C(n, x)
  BY <1>1 DEF Counting
<1>3. \A x \in Set : score'[x] = score[x] + Cardinality(set_var[x] \cap uncover_stack)
  BY DEF update_weight
<1>4. TypeOK'
  <2>1. weight' \in [Var -> 1 .. MaxWeight]
    BY InstanceAssumption DEF TypeOK, update_weight
  <2>2. score' \in [Set -> Int]
    <3>1. \A x \in Set : Cardinality(set_var[x] \cap uncover_stack) \in Nat
      <4> SUFFICES ASSUME NEW x \in Set
                   PROVE  Cardinality(set_var[x] \cap uncover_stack) \in Nat
        OBVIOUS
      <4>1. (set_var[x] \cap uncover_stack) \in SUBSET Var
        BY RowColumn
      <4>2. QED
        BY <4>1, InstanceAssumption, FS_Subset, FS_CardinalityType
    <3>2. QED
      BY <3>1 DEF TypeOK, update_weight
  <2>3. QED
    BY <1>1, <2>1, <2>2 DEF TypeOK
<1>5. WitnessExact'
  BY <1>1 DEF WitnessExact, Covered
<1>6. \A x \in Set : score'[x] = IF x \in cur_solu
                                 THEN -Total(weight', C(1, x))
                                 ELSE Total(weight', C(0, x))
  <2> SUFFICES ASSUME NEW x \in Set
               PROVE  score'[x] = IF x \in cur_solu
                                  THEN -Total(weight', C(1, x))
                                  ELSE Total(weight', C(0, x))
    OBVIOUS
  <2>1. C(0, x) \in SUBSET Var /\ C(1, x) \in SUBSET Var
    BY RowColumn DEF Counting
  <2>2. C(0, x) \cap uncover_stack = set_var[x] \cap uncover_stack
    BY Uncovered, RowColumn DEF Counting
  <2>3. C(1, x) \cap uncover_stack = {}
    BY Uncovered, RowColumn DEF Counting
  <2>4. x \in cur_solu => set_var[x] \cap uncover_stack = {}
    BY Uncovered, RowColumn, Witnesses
  <2>5. score[x] = IF x \in cur_solu THEN -Weight(C(1, x)) ELSE Weight(C(0, x))
    BY DEF LocalScore
  <2> HIDE DEF C
  <2>6. Total(weight', C(1, x)) = Weight(C(1, x)) + Cardinality(C(1, x) \cap uncover_stack)
    BY <2>1, WeightBump
  <2>7. Total(weight', C(0, x)) = Weight(C(0, x)) + Cardinality(C(0, x) \cap uncover_stack)
    BY <2>1, WeightBump
  <2>8. /\ Cardinality(C(1, x) \cap uncover_stack) = 0
        /\ x \in cur_solu => Cardinality(set_var[x] \cap uncover_stack) = 0
    BY <2>3, <2>4, FS_EmptySet
  <2>9. Cardinality(C(0, x) \cap uncover_stack) = Cardinality(set_var[x] \cap uncover_stack)
    BY <2>2, Zenon
  <2>10. Weight(C(1, x)) \in Nat /\ Weight(C(0, x)) \in Nat
    BY <2>1, WeightSums
  <2>11. QED
    BY <1>3, <2>5, <2>6, <2>7, <2>8, <2>9, <2>10
<1>7. LocalScore'
  BY <1>1, <1>6 DEF LocalScore, Weight, Counting
<1>8. LocalPscore'
  <2>1. ASSUME NEW x \in Set
        PROVE  /\ x \in cur_solu => Total(weight', C(2, x)) = Weight(C(2, x))
               /\ Total(weight', C(1, x)) = Weight(C(1, x))
    <3>1. C(1, x) \in SUBSET Var /\ C(2, x) \in SUBSET Var
      BY RowColumn DEF Counting
    <3>2. C(1, x) \cap uncover_stack = {} /\ C(2, x) \cap uncover_stack = {}
      BY Uncovered, RowColumn DEF Counting
    <3> HIDE DEF C
    <3>3. /\ Total(weight', C(1, x)) = Weight(C(1, x)) + Cardinality(C(1, x) \cap uncover_stack)
          /\ Total(weight', C(2, x)) = Weight(C(2, x)) + Cardinality(C(2, x) \cap uncover_stack)
      BY <3>1, WeightBump
    <3>4. /\ Cardinality(C(1, x) \cap uncover_stack) = 0
          /\ Cardinality(C(2, x) \cap uncover_stack) = 0
      BY <3>2, FS_EmptySet
    <3>5. Weight(C(1, x)) \in Nat /\ Weight(C(2, x)) \in Nat
      BY <3>1, WeightSums
    <3>6. QED
      BY <3>3, <3>4, <3>5
  <2>2. \A x \in Set : pscore'[x] = IF x \in cur_solu
                                    THEN -Total(weight', C(2, x))
                                    ELSE Total(weight', C(1, x))
    <3> SUFFICES ASSUME NEW x \in Set
                 PROVE  pscore'[x] = IF x \in cur_solu
                                     THEN -Total(weight', C(2, x))
                                     ELSE Total(weight', C(1, x))
      OBVIOUS
    <3>1. pscore[x] = IF x \in cur_solu THEN -Weight(C(2, x)) ELSE Weight(C(1, x))
      BY DEF LocalPscore
    <3> HIDE DEF C
    <3>2. QED
      BY <1>1, <2>1, <3>1
  <2>3. QED
    BY <1>1, <2>2 DEF LocalPscore, Weight, Counting
<1>9. LocalZero'
  <2>1. \A x \in cur_solu : score'[x] = score[x]
    <3> SUFFICES ASSUME NEW x \in cur_solu
                 PROVE  score'[x] = score[x]
      OBVIOUS
    <3>1. x \in Set /\ score[x] \in Int
      BY DEF TypeOK
    <3>2. set_var[x] \cap uncover_stack = {}
      BY <3>1, Uncovered, RowColumn, Witnesses
    <3>3. Cardinality(set_var[x] \cap uncover_stack) = 0
      BY <3>2, FS_EmptySet
    <3>4. QED
      BY <1>3, <3>1, <3>3
  <2>2. QED
    BY <1>1, <2>1 DEF LocalZero
<1>10. CostExact'
  BY <1>1 DEF CostExact
<1>11. FlagsOut'
  BY <1>1 DEF FlagsOut
<1>12. QED
  BY <1>4, <1>5, <1>7, <1>8, <1>9, <1>10, <1>11

-----------------------------------------------------------------------------
(* The inductive invariant.                                                *)

LEMMA InitIInv == Init => IInv
<1> SUFFICES ASSUME Init PROVE IInv
  OBVIOUS
<1> USE DEF Init, InitSets, InitVars
<1>1. /\ IsFiniteSet(Var)
      /\ \A V \in SUBSET Var : /\ IsFiniteSet(V)
                               /\ Cardinality(V) \in Nat
                               /\ Weight(V) = Cardinality(V)
  <2>1. IsFiniteSet(Var)
    BY InstanceAssumption
  <2> SUFFICES ASSUME NEW V \in SUBSET Var
               PROVE  IsFiniteSet(V) /\ Cardinality(V) \in Nat /\ Weight(V) = Cardinality(V)
    BY <2>1
  <2>2. IsFiniteSet(V) /\ Cardinality(V) \in Nat
    BY <2>1, FS_Subset, FS_CardinalityType
  <2>3. Total([v \in Var |-> 1], V) = Cardinality(V)
    BY <2>1, TotalOnes
  <2>4. QED
    BY <2>2, <2>3 DEF Weight
<1>2. TypeOK
  <2>1. score \in [Set -> Int]
    BY <1>1, RowColumn
  <2>2. QED
    BY <2>1, InstanceAssumption DEF TypeOK
<1>3. \A v \in Var : Sets[v] \cap cur_solu = {}
  OBVIOUS
<1>4. WitnessExact
  <2>1. \A v \in Var : Cardinality(Sets[v] \cap cur_solu) = 0
    BY <1>3, FS_EmptySet
  <2>2. Covered(1, cur_solu) = {}
    BY <2>1 DEF Covered
  <2>3. QED
    BY <2>1, <2>2 DEF WitnessExact
<1>5. LocalScore
  <2>1. \A s \in Set : Counting(0, set_var[s]) = set_var[s]
    BY RowColumn DEF Counting
  <2>2. \A s \in Set : Weight(set_var[s]) = Cardinality(set_var[s])
    BY <1>1, RowColumn
  <2>3. QED
    BY <2>1, <2>2 DEF LocalScore
<1>6. LocalPscore
  <2>1. \A s \in Set : Counting(1, set_var[s]) = {}
    BY RowColumn DEF Counting
  <2>2. Weight({}) = 0
    BY TotalEmpty DEF Weight
  <2>3. QED
    BY <2>1, <2>2 DEF LocalPscore
<1>7. LocalZero /\ FlagsOut
  BY DEF LocalZero, FlagsOut
<1>8. CostExact
  <2>1. Total(cost, cur_solu) = 0
    BY TotalEmpty
  <2>2. QED
    BY <2>1, InstanceAssumption DEF CostExact
<1>9. QED
  BY <1>2, <1>4, <1>5, <1>6, <1>7, <1>8 DEF IInv

LEMMA NextIInv == IInv /\ [Next]_vars => IInv'
<1> SUFFICES ASSUME IInv, [Next]_vars PROVE IInv'
  OBVIOUS
<1>1. ASSUME NEW s \in Set, AddSet(s) PROVE IInv'
  BY <1>1, FlipInStep DEF AddSet, flip
<1>2. ASSUME NEW s \in Set, RemoveSet(s) PROVE IInv'
  BY <1>2, FlipOutStep DEF RemoveSet, flip
<1>3. CASE UpdateWeight
  BY <1>3, UpdateWeightStep DEF UpdateWeight
<1>4. CASE UNCHANGED vars
  BY <1>4 DEF vars, IInv, TypeOK, WitnessExact, Covered, LocalScore, LocalPscore,
              LocalZero, CostExact, FlagsOut, Weight, Counting
<1>5. QED
  BY <1>1, <1>2, <1>3, <1>4 DEF Next

(* The bookkeeping is what IInv says it is after any sequence of flips and *)
(* weight updates (flip and update_weight in wscp.h).                      *)
THEOREM Inductive == Spec => []IInv
<1>1. QED
  BY InitIInv, NextIInv, PTL DEF Spec

(* Every field of the state has its type: in particular the witnesses that *)
(* flip stores are sets, and no count falls below zero.                    *)
THEOREM TypeCorrect == Spec => []TypeOK
<1>1. IInv => TypeOK
  BY DEF IInv
<1>2. QED
  BY <1>1, Inductive, PTL

(* cover_set and cover_set2 name the sets that cover a variable, if these  *)
(* are one or two, and uncover_stack holds the variables nothing covers.   *)
THEOREM WitnessesExact == Spec => []WitnessExact
<1>1. IInv => WitnessExact
  BY DEF IInv
<1>2. QED
  BY <1>1, Inductive, PTL

(* cur_cost is the cost of the current solution after any calls of flip.   *)
THEOREM CostsExact == Spec => []CostExact
<1>1. IInv => CostExact
  BY DEF IInv
<1>2. QED
  BY <1>1, Inductive, PTL

-----------------------------------------------------------------------------
(* What the local invariants say of the solution that a flip leads to.     *)

(* Which variables gain or lose their n-th cover by a flip.                *)
LEMMA FlippedCovers ==
  ASSUME IInv, NEW n \in Nat \ {0}, NEW s \in Set
  PROVE  /\ s \notin cur_solu =>
              Covered(n, Flipped(s)) = Covered(n, cur_solu) \cup Counting(n - 1, set_var[s])
         /\ s \in cur_solu =>
              Covered(n, Flipped(s)) = Covered(n, cur_solu) \ Counting(n, set_var[s])
<1>1. cur_solu \in SUBSET Set
  BY DEF IInv, TypeOK
<1>2. \A v \in Var : /\ cover_count[v] \in Nat
                     /\ cover_count[v] = Cardinality(Sets[v] \cap cur_solu)
  BY DEF IInv, TypeOK, WitnessExact
<1>3. ASSUME s \notin cur_solu, NEW v \in Var
      PROVE  Cardinality(Sets[v] \cap (cur_solu \cup {s})) >= n
               <=> \/ Cardinality(Sets[v] \cap cur_solu) >= n
                   \/ v \in set_var[s] /\ cover_count[v] = n - 1
  <2>1. CASE s \in Sets[v]
    <3>1. Cardinality(Sets[v] \cap (cur_solu \cup {s})) = cover_count[v] + 1
      <4>1. Cardinality(Sets[v] \cap (cur_solu \cup {s}))
              = Cardinality(Sets[v] \cap cur_solu) + 1
        BY <1>1, <1>3, <2>1, RowCount
      <4>2. QED
        BY <1>2, <4>1
    <3>2. v \in set_var[s]
      BY <2>1, RowColumn
    <3>3. QED
      BY <1>2, <3>1, <3>2
  <2>2. CASE s \notin Sets[v]
    BY <1>1, <2>2, RowCount, RowColumn
  <2>3. QED
    BY <2>1, <2>2
<1>4. ASSUME s \in cur_solu, NEW v \in Var
      PROVE  Cardinality(Sets[v] \cap (cur_solu \ {s})) >= n
               <=> /\ Cardinality(Sets[v] \cap cur_solu) >= n
                   /\ ~(v \in set_var[s] /\ cover_count[v] = n)
  <2>1. CASE s \in Sets[v]
    <3>1. Cardinality(Sets[v] \cap (cur_solu \ {s})) = cover_count[v] - 1
      <4>1. Cardinality(Sets[v] \cap (cur_solu \ {s}))
              = Cardinality(Sets[v] \cap cur_solu) - 1
        BY <1>1, <1>4, <2>1, RowCount
      <4>2. QED
        BY <1>2, <4>1
    <3>2. v \in set_var[s]
      BY <2>1, RowColumn
    <3>3. QED
      BY <1>2, <3>1, <3>2
  <2>2. CASE s \notin Sets[v]
    BY <1>1, <2>2, RowCount, RowColumn
  <2>3. QED
    BY <2>1, <2>2
<1>5. set_var[s] \subseteq Var
  BY RowColumn
<1>6. QED
  BY <1>3, <1>4, <1>5 DEF Covered, Flipped, Counting

(* A flip's effect on the weight that is covered n times or more.          *)
LEMMA FlippedWeight ==
  ASSUME IInv, NEW n \in Nat \ {0}, NEW s \in Set
  PROVE  Weight(Covered(n, Flipped(s))) - Weight(Covered(n, cur_solu))
           = IF s \in cur_solu THEN -Weight(Counting(n, set_var[s]))
                               ELSE Weight(Counting(n - 1, set_var[s]))
<1> DEFINE K == Covered(n, cur_solu)
           A == Counting(n - 1, set_var[s])
           B == Counting(n, set_var[s])
<1>1. TypeOK /\ WitnessExact
  BY DEF IInv
<1>2. K \in SUBSET Var /\ A \in SUBSET Var /\ B \in SUBSET Var
  BY RowColumn DEF Covered, Counting
<1>3. \A v \in Var : v \in K <=> cover_count[v] >= n
  BY <1>1 DEF WitnessExact, Covered
<1>4. K \cap A = {} /\ B \subseteq K
  BY <1>1, <1>2, <1>3 DEF TypeOK, Counting
<1>5. /\ s \notin cur_solu => Covered(n, Flipped(s)) = K \cup A
      /\ s \in cur_solu => Covered(n, Flipped(s)) = K \ B
  BY FlippedCovers
<1> HIDE DEF K, A, B
<1>6. Weight(K) \in Nat /\ Weight(A) \in Nat /\ Weight(B) \in Nat
  BY <1>1, <1>2, WeightSums
<1>7. Weight(K \cup A) = Weight(K) + Weight(A)
  BY <1>1, <1>2, <1>4, WeightSums
<1>8. Weight(K \ B) = Weight(K) - Weight(B)
  BY <1>1, <1>2, <1>4, WeightSums
<1>9. CASE s \notin cur_solu
  <2>1. Weight(Covered(n, Flipped(s))) = Weight(K \cup A)
    BY <1>5, <1>9, Zenon
  <2>2. Weight(Covered(n, Flipped(s))) - Weight(K) = Weight(A)
    BY <1>6, <1>7, <2>1
  <2>3. QED
    BY <1>9, <2>2 DEF K, A, B
<1>10. CASE s \in cur_solu
  <2>1. Weight(Covered(n, Flipped(s))) = Weight(K \ B)
    BY <1>5, <1>10, Zenon
  <2>2. Weight(Covered(n, Flipped(s))) - Weight(K) = -Weight(B)
    BY <1>6, <1>8, <2>1
  <2>3. QED
    BY <1>10, <2>2 DEF K, A, B
<1>11. QED
  BY <1>9, <1>10

(* score is exact: select_set and the construction loop in init rank by    *)
(* what a flip would really gain, though flip only ever adjusts score.     *)
THEOREM ScoresExact == Spec => []ScoreExact
<1>1. IInv => ScoreExact
  <2> SUFFICES ASSUME IInv, NEW s \in Set
               PROVE  score[s] = Weight(Covered(1, Flipped(s))) - Weight(Covered(1, cur_solu))
    BY DEF ScoreExact
  <2>1. Weight(Covered(1, Flipped(s))) - Weight(Covered(1, cur_solu))
          = IF s \in cur_solu THEN -Weight(Counting(1, set_var[s]))
                              ELSE Weight(Counting(1 - 1, set_var[s]))
    BY FlippedWeight
  <2>2. Weight(Counting(1 - 1, set_var[s])) = Weight(Counting(0, set_var[s]))
    <3>1. 1 - 1 = 0
      OBVIOUS
    <3>2. QED
      BY <3>1
  <2>3. QED
    BY <2>1, <2>2 DEF IInv, LocalScore
<1>2. QED
  BY <1>1, Inductive, PTL

(* pscore, the tie-breaker of the same selections, is exact one level up.  *)
THEOREM PscoresExact == Spec => []PscoreExact
<1>1. IInv => PscoreExact
  <2> SUFFICES ASSUME IInv, NEW s \in Set
               PROVE  pscore[s] = Weight(Covered(2, Flipped(s))) - Weight(Covered(2, cur_solu))
    BY DEF PscoreExact
  <2>1. Weight(Covered(2, Flipped(s))) - Weight(Covered(2, cur_solu))
          = IF s \in cur_solu THEN -Weight(Counting(2, set_var[s]))
                              ELSE Weight(Counting(2 - 1, set_var[s]))
    BY FlippedWeight
  <2>2. Weight(Counting(2 - 1, set_var[s])) = Weight(Counting(1, set_var[s]))
    <3>1. 2 - 1 = 1
      OBVIOUS
    <3>2. QED
      BY <3>1
  <2>3. QED
    BY <2>1, <2>2 DEF IInv, LocalPscore
<1>2. QED
  BY <1>1, Inductive, PTL

(* Where IInv holds, a chosen set scores zero exactly when it is redundant.*)
LEMMA ZeroIsRedundant == IInv => ZeroStackExact
<1> SUFFICES ASSUME IInv, NEW s \in cur_solu
             PROVE  score[s] = 0 <=> Covered(1, cur_solu \ {s}) = Covered(1, cur_solu)
  BY DEF ZeroStackExact, IInv, LocalZero
<1> DEFINE K == Covered(1, cur_solu)
           B == Counting(1, set_var[s])
<1>1. s \in Set /\ TypeOK /\ B \in SUBSET Var
  BY RowColumn DEF IInv, TypeOK, Counting
<1>2. Covered(1, cur_solu \ {s}) = K \ B
  <2>1. Covered(1, Flipped(s)) = K \ B
    BY <1>1, FlippedCovers
  <2>2. Flipped(s) = cur_solu \ {s}
    BY DEF Flipped
  <2>3. QED
    BY <2>1, <2>2
<1>3. B \subseteq K
  BY <1>1, RowColumn DEF Counting, Covered, IInv, WitnessExact
<1>4. score[s] = -Weight(B) /\ Weight(B) \in Nat /\ (Weight(B) = 0 <=> B = {})
  BY <1>1, WeightSums DEF IInv, LocalScore
<1> HIDE DEF K, B
<1>5. score[s] = 0 <=> B = {}
  BY <1>4
<1>6. QED
  BY <1>2, <1>3, <1>5 DEF K

(* zero_stack is exactly the redundant sets: the loop of local_search that *)
(* removes them may stop when it is empty.                                 *)
THEOREM ZeroStacksExact == Spec => []ZeroStackExact
BY ZeroIsRedundant, Inductive, PTL

(* Configuration checking: cc[s] = 0 only for a set out of the solution    *)
(* whose variables have seen no flip since it left.                        *)
THEOREM FlagsMean == Spec => ConfigurationChecking
<1> DEFINE A == \A s \in Set : ~cc'[s] =>
                  /\ s \notin cur_solu'
                  /\ \/ s \in cur_solu
                     \/ \A v \in set_var[s] : Sets[v] \cap cur_solu'
                                                = Sets[v] \cap cur_solu
<1>1. IInv /\ IInv' /\ [Next]_vars => [A]_vars
  <2> SUFFICES ASSUME IInv, IInv', Next, NEW s \in Set, ~cc'[s], s \notin cur_solu,
                      NEW v \in set_var[s]
               PROVE  Sets[v] \cap cur_solu' = Sets[v] \cap cur_solu
    BY DEF IInv, FlagsOut, vars
  <2>1. v \in Var /\ s \in Sets[v]
    BY RowColumn
  <2>2. ASSUME NEW t \in Set, AddSet(t)
        PROVE  Sets[v] \cap cur_solu' = Sets[v] \cap cur_solu
    <3>1. v \notin set_var[t] /\ cur_solu' = cur_solu \cup {t}
      BY <2>2 DEF AddSet, flip, FlipIn, Raised
    <3>2. t \notin Sets[v]
      BY <2>1, <3>1, RowColumn
    <3>3. QED
      BY <3>1, <3>2
  <2>3. ASSUME NEW t \in Set, RemoveSet(t)
        PROVE  Sets[v] \cap cur_solu' = Sets[v] \cap cur_solu
    <3>1. v \notin set_var[t] /\ cur_solu' = cur_solu \ {t}
      BY <2>3 DEF RemoveSet, flip, FlipOut, Raised
    <3>2. t \notin Sets[v]
      BY <2>1, <3>1, RowColumn
    <3>3. QED
      BY <3>1, <3>2
  <2>4. CASE UpdateWeight
    BY <2>4 DEF UpdateWeight, update_weight
  <2>5. QED
    BY <2>2, <2>3, <2>4 DEF Next
<1>2. QED
  BY <1>1, Inductive, PTL DEF Spec, ConfigurationChecking

-----------------------------------------------------------------------------
(***************************************************************************)
(* What the operations of StackArrays do, for stacks of any elements; and  *)
(* that Stacks, which goes through the variables of a set one by one,      *)
(* implements Covering: after each flip the arrays hold what Covering's    *)
(* sets say.                                                               *)
(***************************************************************************)

(* mypush with the index set (wscp.h:818-819, 824-825, 880-881) adds an    *)
(* element to what the stack holds.                                        *)
THEOREM PushHolds ==
  ASSUME NEW E, NEW S \in SUBSET E, NEW x \in E \ S, NEW stack,
         stack.fill \in Nat, stack.index \in [E -> Int], Holds(stack, S)
  PROVE  /\ Holds(mypush(x, stack), S \cup {x})
         /\ mypush(x, stack).fill \in Nat /\ mypush(x, stack).index \in [E -> Int]
<1> DEFINE new == mypush(x, stack)
<1>1. new.fill = stack.fill + 1
  BY DEF mypush
<1>2. \A j \in 0 .. stack.fill : new.at[j] = IF j = stack.fill THEN x ELSE stack.at[j]
  BY DEF mypush
<1>3. \A y \in E : new.index[y] = IF y = x THEN stack.fill ELSE stack.index[y]
  BY DEF mypush
<1>4. new.index \in [E -> Int]
  BY DEF mypush
<1>5. ASSUME NEW j \in Places(new)
      PROVE  new.at[j] \in S \cup {x} /\ new.index[new.at[j]] = j
  BY <1>1, <1>2, <1>3 DEF Holds, Places
<1>6. ASSUME NEW y \in S \cup {x}
      PROVE  new.index[y] \in Places(new) /\ new.at[new.index[y]] = y
  BY <1>1, <1>2, <1>3 DEF Holds, Places
<1> QED
  BY <1>1, <1>4, <1>5, <1>6 DEF Holds

(* What both ways to take x out have in common.                            *)
LEMMA MovedHolds ==
  ASSUME NEW E, NEW S \in SUBSET E, NEW x \in S, NEW stack,
         stack.fill \in Nat, stack.index \in [E -> Int], Holds(stack, S),
         NEW index \in [E -> Int],
         \A y \in S \ {x} : index[y] = IF y = stack.at[stack.fill - 1] THEN stack.index[x]
                                                                      ELSE stack.index[y]
  PROVE  Holds([fill |-> stack.fill - 1, at |-> Moved(stack.index[x], stack), index |-> index],
               S \ {x})
<1> DEFINE new == [fill |-> stack.fill - 1, at |-> Moved(stack.index[x], stack), index |-> index]
           i   == stack.index[x]
           top == stack.at[stack.fill - 1]
<1>1. i \in 0 .. stack.fill - 1 /\ stack.at[i] = x
  BY DEF Holds, Places
<1>2. top \in S /\ stack.index[top] = stack.fill - 1
  BY <1>1 DEF Holds, Places
<1>3. \A j \in 0 .. stack.fill - 2 : new.at[j] = IF j = i THEN top ELSE stack.at[j]
  BY DEF Moved
<1>4. ASSUME NEW j \in Places(new)
      PROVE  new.at[j] \in S \ {x} /\ new.index[new.at[j]] = j
  <2>1. j \in 0 .. stack.fill - 2
    BY <1>4 DEF Places
  <2>2. CASE j = i
    <3>1. top # x
      BY <1>1, <1>2, <2>1, <2>2
    <3> QED
      BY <1>2, <1>3, <2>1, <2>2, <3>1
  <2>3. CASE j # i
    <3>1. stack.at[j] \in S /\ stack.index[stack.at[j]] = j
      BY <2>1 DEF Holds, Places
    <3>2. stack.at[j] # x /\ stack.at[j] # top
      BY <1>2, <2>1, <2>3, <3>1
    <3> QED
      BY <1>3, <2>1, <2>3, <3>1, <3>2
  <2> QED
    BY <2>2, <2>3
<1>5. ASSUME NEW y \in S \ {x}
      PROVE  new.index[y] \in Places(new) /\ new.at[new.index[y]] = y
  <2>1. stack.index[y] \in 0 .. stack.fill - 1 /\ stack.at[stack.index[y]] = y
    BY DEF Holds, Places
  <2>2. CASE y = top
    <3>1. i # stack.fill - 1
      BY <1>1, <2>2
    <3> QED
      BY <1>1, <1>3, <2>2, <3>1 DEF Places
  <2>3. CASE y # top
    <3>1. stack.index[y] # stack.fill - 1 /\ stack.index[y] # i
      BY <1>1, <2>1, <2>3
    <3> QED
      BY <1>3, <2>1, <2>3, <3>1 DEF Places
  <2> QED
    BY <2>2, <2>3
<1> QED
  BY <1>4, <1>5 DEF Holds

(* cover (wscp.h:807-814) takes a variable out, though the index of the    *)
(* top is left behind if it is the one.                                    *)
THEOREM CoverHolds ==
  ASSUME NEW E, NEW S \in SUBSET E, NEW x \in S, NEW stack,
         stack.fill \in Nat, stack.index \in [E -> Int], Holds(stack, S)
  PROVE  Holds(cover(x, stack), S \ {x})
<1> DEFINE top   == stack.at[stack.fill - 1]
           index == [stack.index EXCEPT ![x] = Absent, ![top] = stack.index[x]]
<1>1. top \in S
  BY DEF Holds, Places
<1>2. index \in [E -> Int]
  BY Absent \in Int DEF Absent
<1>3. \A y \in S \ {x} : index[y] = IF y = top THEN stack.index[x] ELSE stack.index[y]
  BY <1>1
<1> HIDE DEF index
<1>4. Holds([fill |-> stack.fill - 1, at |-> Moved(stack.index[x], stack), index |-> index],
            S \ {x})
  BY <1>2, <1>3, MovedHolds
<1> QED
  BY <1>4 DEF cover, index

(* remove_set and the pops of zero_stack (wscp.h:828-835, 844-851 and      *)
(* 942-949) take a set out, and its index tells of it.                     *)
THEOREM TakenOutHolds ==
  ASSUME NEW E, NEW S \in SUBSET E, NEW x \in S, NEW stack,
         stack.fill \in Nat, stack.index \in [E -> Int], Holds(stack, S), Tells(stack, S, E)
  PROVE  Holds(TakenOut(x, stack), S \ {x}) /\ Tells(TakenOut(x, stack), S \ {x}, E)
<1> DEFINE top   == stack.at[stack.fill - 1]
           index == [stack.index EXCEPT ![top] = stack.index[x], ![x] = Absent]
<1>1. top \in S /\ stack.index[x] # Absent
  BY DEF Holds, Places, Absent
<1>2. index \in [E -> Int]
  BY Absent \in Int DEF Absent
<1>3. \A y \in E : index[y] = IF y = x THEN Absent
                              ELSE IF y = top THEN stack.index[x] ELSE stack.index[y]
  BY <1>1 DEF Absent
<1>4. TakenOut(x, stack)
        = [fill |-> stack.fill - 1, at |-> Moved(stack.index[x], stack), index |-> index]
  BY DEF TakenOut
<1> HIDE DEF index
<1>5. Holds(TakenOut(x, stack), S \ {x})
  BY <1>2, <1>3, <1>4, MovedHolds
<1>6. Tells(TakenOut(x, stack), S \ {x}, E)
  BY <1>1, <1>3, <1>4 DEF Tells
<1> QED
  BY <1>5, <1>6

(* A push tells of the element pushed (wscp.h:880).                        *)
THEOREM PushTells ==
  ASSUME NEW E, NEW S \in SUBSET E, NEW x \in E \ S, NEW stack,
         stack.fill \in Nat, stack.index \in [E -> Int], Tells(stack, S, E)
  PROVE  Tells(mypush(x, stack), S \cup {x}, E)
  BY DEF Tells, mypush, Absent

-----------------------------------------------------------------------------
(* The same, with the types.                                               *)
IsStack(stack, S, E) ==
  /\ S \subseteq E
  /\ stack.fill \in Nat
  /\ stack.index \in [E -> Int]
  /\ Holds(stack, S)

LEMMA StackPush ==
  ASSUME NEW E, NEW S, NEW stack, IsStack(stack, S, E), NEW x \in E \ S
  PROVE  /\ IsStack(mypush(x, stack), S \cup {x}, E)
         /\ Tells(stack, S, E) => Tells(mypush(x, stack), S \cup {x}, E)
<1>1. S \in SUBSET E /\ stack.fill \in Nat /\ stack.index \in [E -> Int] /\ Holds(stack, S)
  BY DEF IsStack
<1>2. /\ Holds(mypush(x, stack), S \cup {x})
      /\ mypush(x, stack).fill \in Nat /\ mypush(x, stack).index \in [E -> Int]
  BY <1>1, PushHolds
<1>3. Tells(stack, S, E) => Tells(mypush(x, stack), S \cup {x}, E)
  BY <1>1, PushTells
<1> QED
  BY <1>1, <1>2, <1>3 DEF IsStack

LEMMA StackOut ==
  ASSUME NEW E, NEW S, NEW stack, IsStack(stack, S, E), NEW x \in S
  PROVE  /\ IsStack(cover(x, stack), S \ {x}, E)
         /\ Tells(stack, S, E) => /\ IsStack(TakenOut(x, stack), S \ {x}, E)
                                  /\ Tells(TakenOut(x, stack), S \ {x}, E)
<1>1. S \in SUBSET E /\ stack.fill \in Nat /\ stack.index \in [E -> Int] /\ Holds(stack, S)
  BY DEF IsStack
<1>2. stack.fill - 1 \in Nat /\ stack.index[x] \in Int
  BY <1>1 DEF Holds, Places
<1>3. /\ cover(x, stack).fill \in Nat /\ cover(x, stack).index \in [E -> Int]
      /\ TakenOut(x, stack).fill \in Nat /\ TakenOut(x, stack).index \in [E -> Int]
  <2>1. Absent \in Int
    BY DEF Absent
  <2> QED
    BY <1>1, <1>2, <2>1 DEF cover, TakenOut
<1>4. Holds(cover(x, stack), S \ {x})
  BY <1>1, CoverHolds
<1>5. Tells(stack, S, E) => /\ Holds(TakenOut(x, stack), S \ {x})
                            /\ Tells(TakenOut(x, stack), S \ {x}, E)
  BY <1>1, TakenOutHolds
<1> QED
  BY <1>1, <1>3, <1>4, <1>5 DEF IsStack

LEMMA StackEmpty ==
  ASSUME NEW E
  PROVE  IsStack(Empty(E), {}, E) /\ Tells(Empty(E), {}, E)
  BY DEF IsStack, Empty, Tells, Holds, Places, Absent

-----------------------------------------------------------------------------
(* The loops.                                                              *)

(* An order of S names each of its members once.                           *)
Done(rows, n) == {rows[k] : k \in 1..n}

LEMMA OrderOf ==
  ASSUME NEW S, IsFiniteSet(S), NEW rows \in SetToSeqs(S)
  PROVE  /\ Len(rows) \in Nat
         /\ Done(rows, 0) = {}
         /\ Done(rows, Len(rows)) = S
         /\ \A n \in 0..(Len(rows) - 1) :
              /\ Done(rows, n) \subseteq S
              /\ rows[n + 1] \in S \ Done(rows, n)
              /\ Done(rows, n + 1) = Done(rows, n) \cup {rows[n + 1]}
<1> DEFINE N == Cardinality(S)
<1>1. N \in Nat
  BY FS_CardinalityType
<1>2. rows \in [1..N -> S] /\ \A i, j \in 1..N : i # j => rows[i] # rows[j]
  BY DEF SetToSeqs
<1>3. Len(rows) = N
  BY <1>1, <1>2
<1>4. IsFiniteSet(1..N) /\ Cardinality(1..N) = N
  BY <1>1, FS_Interval
<1> HIDE DEF N
<1>5. rows \in Injection(1..N, S)
  BY <1>2 DEF Injection, IsInjective
<1>6. rows \in Surjection(1..N, S)
  BY <1>4, <1>5, FS_Injection DEF N
<1>7. Done(rows, N) = S
  BY <1>2, <1>6 DEF Surjection, Done
<1>8. ASSUME NEW n \in 0..(N - 1)
      PROVE  /\ Done(rows, n) \subseteq S
             /\ rows[n + 1] \in S \ Done(rows, n)
             /\ Done(rows, n + 1) = Done(rows, n) \cup {rows[n + 1]}
  <2>1. n + 1 \in 1..N /\ \A k \in 1..n : k \in 1..N /\ k # n + 1
    BY <1>1, <1>8
  <2>2. 1..(n + 1) = (1..n) \cup {n + 1}
    BY <1>1, <1>8
  <2> QED
    BY <1>2, <2>1, <2>2 DEF Done
<1> QED
  BY <1>1, <1>3, <1>7, <1>8 DEF Done

(* flip's loop, one variable after the other.                              *)
LEMMA PassedIs ==
  ASSUME NEW s, NEW rows, Len(rows) \in Nat
  PROVE  /\ Passed(s, rows)[0] = Before(s)
         /\ \A n \in 0..(Len(rows) - 1) :
              Passed(s, rows)[n + 1] = FlipAt(Passed(s, rows)[n], rows[n + 1], s)
<1> DEFINE Loop(f, N) ==
      [n \in 0..N |-> IF n = 0 THEN Before(s) ELSE FlipAt(f[n - 1], rows[n], s)]
<1> DEFINE P == {N \in 0..Len(rows) : \E f : f = Loop(f, N)}
<1> DEFINE all == Passed(s, rows)
<1>1. 0 \in P
  <2> DEFINE f == [n \in 0..0 |-> Before(s)]
  <2>1. \A n \in 0..0 : f[n] = IF n = 0 THEN Before(s) ELSE FlipAt(f[n - 1], rows[n], s)
    BY Z3
  <2>2. f = Loop(f, 0)
    BY <2>1, Zenon
  <2>3. 0 \in 0..Len(rows)
    OBVIOUS
  <2> QED
    BY <2>2, <2>3, Zenon
<1>2. ASSUME NEW N \in 0..(Len(rows) - 1), N \in P
      PROVE  N + 1 \in P
  <2>1. PICK f : f = Loop(f, N)
    BY <1>2
  <2> DEFINE g == [n \in 0..(N + 1) |-> IF n <= N THEN f[n] ELSE FlipAt(f[N], rows[n], s)]
  <2>2. ASSUME NEW n \in 0..(N + 1)
        PROVE  g[n] = IF n = 0 THEN Before(s) ELSE FlipAt(g[n - 1], rows[n], s)
    <3>1. CASE n = 0
      <4>1. f[0] = Before(s)
        BY <2>1, <1>2
      <4> QED
        BY <3>1, <4>1, <1>2
    <3>2. CASE n # 0 /\ n <= N
      <4>1. f[n] = FlipAt(f[n - 1], rows[n], s)
        BY <2>1, <3>2, <1>2
      <4>2. g[n] = f[n] /\ g[n - 1] = f[n - 1]
        BY <3>2, <1>2
      <4> QED
        BY <3>2, <4>1, <4>2
    <3>3. CASE n = N + 1
      <4>1. g[n] = FlipAt(f[N], rows[n], s) /\ g[n - 1] = f[N] /\ n # 0
        BY <3>3, <1>2
      <4> QED
        BY <4>1
    <3> QED
      BY <3>1, <3>2, <3>3, <1>2
  <2>3. g = Loop(g, N + 1)
    BY <2>2, Zenon
  <2>4. N + 1 \in 0..Len(rows)
    BY <1>2
  <2> QED
    BY <2>3, <2>4, Zenon
<1>3. Len(rows) \in P
  <2> HIDE DEF P
  <2> QED
    BY <1>1, <1>2, CountUp
<1>4. all = Loop(all, Len(rows))
  <2>1. \E f : f = Loop(f, Len(rows))
    BY <1>3
  <2> QED
    BY <2>1 DEF Passed
<1> HIDE DEF Loop, all
<1>5. \A n \in 0..Len(rows) :
        all[n] = IF n = 0 THEN Before(s) ELSE FlipAt(all[n - 1], rows[n], s)
  <2>1. \A n \in 0..Len(rows) : all[n] = Loop(all, Len(rows))[n]
    BY <1>4
  <2> QED
    BY <2>1 DEF Loop
<1>6. all[0] = Before(s)
  BY <1>5
<1>7. ASSUME NEW n \in 0..(Len(rows) - 1)
      PROVE  all[n + 1] = FlipAt(all[n], rows[n + 1], s)
  <2>1. n + 1 \in 0..Len(rows) /\ n + 1 # 0 /\ (n + 1) - 1 = n
    OBVIOUS
  <2>2. all[n + 1] = FlipAt(all[(n + 1) - 1], rows[n + 1], s)
    BY <2>1, <1>5
  <2> QED
    BY <2>1, <2>2
<1> QED
  BY <1>6, <1>7 DEF all
(* The loop of init that pushes all variables.                             *)
LEMMA FilledIs ==
  ASSUME NEW rows, Len(rows) \in Nat
  PROVE  /\ Filled(rows)[0] = Empty(Var)
         /\ \A n \in 0..(Len(rows) - 1) :
              Filled(rows)[n + 1] = mypush(rows[n + 1], Filled(rows)[n])
<1> DEFINE Loop(f, N) ==
      [n \in 0..N |-> IF n = 0 THEN Empty(Var) ELSE mypush(rows[n], f[n - 1])]
<1> DEFINE P == {N \in 0..Len(rows) : \E f : f = Loop(f, N)}
<1> DEFINE all == Filled(rows)
<1>1. 0 \in P
  <2> DEFINE f == [n \in 0..0 |-> Empty(Var)]
  <2>1. \A n \in 0..0 : f[n] = IF n = 0 THEN Empty(Var) ELSE mypush(rows[n], f[n - 1])
    BY Z3
  <2>2. f = Loop(f, 0)
    BY <2>1, Zenon
  <2>3. 0 \in 0..Len(rows)
    OBVIOUS
  <2> QED
    BY <2>2, <2>3, Zenon
<1>2. ASSUME NEW N \in 0..(Len(rows) - 1), N \in P
      PROVE  N + 1 \in P
  <2>1. PICK f : f = Loop(f, N)
    BY <1>2
  <2> DEFINE g == [n \in 0..(N + 1) |-> IF n <= N THEN f[n] ELSE mypush(rows[n], f[N])]
  <2>2. ASSUME NEW n \in 0..(N + 1)
        PROVE  g[n] = IF n = 0 THEN Empty(Var) ELSE mypush(rows[n], g[n - 1])
    <3>1. CASE n = 0
      <4>1. f[0] = Empty(Var)
        BY <2>1, <1>2
      <4> QED
        BY <3>1, <4>1, <1>2
    <3>2. CASE n # 0 /\ n <= N
      <4>1. f[n] = mypush(rows[n], f[n - 1])
        BY <2>1, <3>2, <1>2
      <4>2. g[n] = f[n] /\ g[n - 1] = f[n - 1]
        BY <3>2, <1>2
      <4> QED
        BY <3>2, <4>1, <4>2
    <3>3. CASE n = N + 1
      <4>1. g[n] = mypush(rows[n], f[N]) /\ g[n - 1] = f[N] /\ n # 0
        BY <3>3, <1>2
      <4> QED
        BY <4>1
    <3> QED
      BY <3>1, <3>2, <3>3, <1>2
  <2>3. g = Loop(g, N + 1)
    BY <2>2, Zenon
  <2>4. N + 1 \in 0..Len(rows)
    BY <1>2
  <2> QED
    BY <2>3, <2>4, Zenon
<1>3. Len(rows) \in P
  <2> HIDE DEF P
  <2> QED
    BY <1>1, <1>2, CountUp
<1>4. all = Loop(all, Len(rows))
  <2>1. \E f : f = Loop(f, Len(rows))
    BY <1>3
  <2> QED
    BY <2>1 DEF Filled
<1> HIDE DEF Loop, all
<1>5. \A n \in 0..Len(rows) :
        all[n] = IF n = 0 THEN Empty(Var) ELSE mypush(rows[n], all[n - 1])
  <2>1. \A n \in 0..Len(rows) : all[n] = Loop(all, Len(rows))[n]
    BY <1>4
  <2> QED
    BY <2>1 DEF Loop
<1>6. all[0] = Empty(Var)
  BY <1>5
<1>7. ASSUME NEW n \in 0..(Len(rows) - 1)
      PROVE  all[n + 1] = mypush(rows[n + 1], all[n])
  <2>1. n + 1 \in 0..Len(rows) /\ n + 1 # 0 /\ (n + 1) - 1 = n
    OBVIOUS
  <2>2. all[n + 1] = mypush(rows[n + 1], all[(n + 1) - 1])
    BY <2>1, <1>5
  <2> QED
    BY <2>1, <2>2
<1> QED
  BY <1>6, <1>7 DEF all

-----------------------------------------------------------------------------
(* What the loop of flip has reached.  X has the chosen sets and U the     *)
(* uncovered variables; a chosen set is on zero_stack if its score is 0.   *)
Redundant(acc, X) == {x \in X : acc.score[x] = 0}

InStep(acc, X, U) ==
  /\ acc = [score |-> acc.score, uncover |-> acc.uncover, zero |-> acc.zero]
  /\ acc.score \in [Set -> Int]
  /\ IsStack(acc.uncover, U, Var)
  /\ IsStack(acc.zero, Redundant(acc, X), Set)
  /\ Tells(acc.zero, Redundant(acc, X), Set)

(* A set enters and the variables of D are done: a chosen set is no longer *)
(* alone with them.                                                        *)
Entering(acc, D) ==
  /\ InStep(acc, cur_solu, uncover_stack \ D)
  /\ \A x \in cur_solu : acc.score[x] = -Weight(Counting(1, set_var[x]) \ D)

(* s leaves and the variables of D are done: those that two sets covered   *)
(* have one left.                                                          *)
Leaving(s, acc, D) ==
  /\ InStep(acc, cur_solu \ {s}, uncover_stack \cup (Counting(1, Var) \cap D))
  /\ \A x \in cur_solu \ {s} :
       acc.score[x] = -Weight(Counting(1, set_var[x]) \cup (Counting(2, set_var[x]) \cap D))

(* A sum of weights without one variable.                                  *)
LEMMA WeightLess ==
  ASSUME TypeOK, NEW V \in SUBSET Var, NEW v \in V
  PROVE  /\ Weight(V) \in Nat /\ weight[v] \in Nat /\ weight[v] > 0
         /\ Weight(V) = Weight(V \ {v}) + weight[v]
         /\ Weight(V \ {v}) \in Nat
<1>1. IsFiniteSet(Var) /\ weight \in [Var -> Nat] /\ weight[v] \in Nat /\ weight[v] > 0
  BY InstanceAssumption DEF TypeOK
<1>2. (V \ {v}) \in SUBSET Var /\ v \in Var \ (V \ {v}) /\ (V \ {v}) \cup {v} = V
  OBVIOUS
<1>3. Total(weight, (V \ {v}) \cup {v}) = Total(weight, V \ {v}) + weight[v]
  BY <1>1, <1>2, TotalAdd
<1>4. Weight(V) \in Nat /\ Weight(V \ {v}) \in Nat
  BY <1>2, WeightSums
<1> QED
  BY <1>1, <1>2, <1>3, <1>4 DEF Weight

(* One variable more, when a set enters.                                   *)
LEMMA EnterStep ==
  ASSUME IInv, NEW acc, NEW D \in SUBSET Var, Entering(acc, D), NEW v \in Var \ D
  PROVE  Entering(EnterAt(acc, v), D \cup {v})
<1>1. TypeOK /\ WitnessExact
  BY DEF IInv
<1>2. cur_solu \in SUBSET Set /\ cover_count[v] \in Nat
  BY <1>1 DEF TypeOK
<1>3. /\ acc = [score |-> acc.score, uncover |-> acc.uncover, zero |-> acc.zero]
      /\ acc.score \in [Set -> Int]
      /\ IsStack(acc.uncover, uncover_stack \ D, Var)
      /\ IsStack(acc.zero, Redundant(acc, cur_solu), Set)
      /\ Tells(acc.zero, Redundant(acc, cur_solu), Set)
      /\ \A x \in cur_solu : acc.score[x] = -Weight(Counting(1, set_var[x]) \ D)
  BY DEF Entering, InStep
<1>4. \A x \in cur_solu : v \notin Counting(1, set_var[x]) =>
        Counting(1, set_var[x]) \ (D \cup {v}) = Counting(1, set_var[x]) \ D
  OBVIOUS
<1>5. CASE cover_count[v] = 0
  <2>1. EnterAt(acc, v) = [score |-> acc.score, uncover |-> cover(v, acc.uncover),
                           zero |-> acc.zero]
    BY <1>3, <1>5 DEF EnterAt
  <2>2. v \in uncover_stack \ D
    BY <1>1, <1>5, Uncovered
  <2>3. IsStack(cover(v, acc.uncover), (uncover_stack \ D) \ {v}, Var)
    BY <1>3, <2>2, StackOut
  <2>4. (uncover_stack \ D) \ {v} = uncover_stack \ (D \cup {v})
    OBVIOUS
  <2>5. \A x \in cur_solu : v \notin Counting(1, set_var[x])
    BY <1>5 DEF Counting
  <2>6. Redundant(EnterAt(acc, v), cur_solu) = Redundant(acc, cur_solu)
    BY <2>1 DEF Redundant
  <2> QED
    BY <1>3, <1>4, <2>1, <2>3, <2>4, <2>5, <2>6 DEF Entering, InStep
<1>6. CASE cover_count[v] = 1
  <2> DEFINE x  == cover_set[v]
             sc == acc.score[x] + weight[v]
             C  == Counting(1, set_var[x])
             new == EnterAt(acc, v)
             zero == IF sc = 0 THEN mypush(x, acc.zero) ELSE acc.zero
  <2>1. x \in cur_solu /\ v \in set_var[x] /\ x \in Set
    <3>1. Sets[v] \cap cur_solu = {x}
      BY <1>1, <1>6 DEF WitnessExact
    <3> QED
      BY <1>2, <3>1, RowColumn
  <2>2. \A y \in cur_solu : y # x => v \notin Counting(1, set_var[y])
    <3> SUFFICES ASSUME NEW y \in cur_solu, y # x, v \in set_var[y] PROVE FALSE
      BY DEF Counting
    <3>1. y \in Set /\ y \in Sets[v]
      BY <1>2, RowColumn
    <3> QED
      BY <1>1, <1>6, <3>1, Witnesses
  <2>3. v \in C \ D /\ C \ D \in SUBSET Var
    BY <1>6, <2>1, RowColumn DEF Counting
  <2>4. (C \ D) \ {v} = C \ (D \cup {v})
    OBVIOUS
  <2>5. /\ Weight(C \ D) = Weight(C \ (D \cup {v})) + weight[v]
        /\ Weight(C \ (D \cup {v})) \in Nat /\ weight[v] \in Nat /\ weight[v] > 0
    <3> HIDE DEF C
    <3> QED
      BY <1>1, <2>3, <2>4, WeightLess
  <2>6. sc = -Weight(C \ (D \cup {v})) /\ acc.score[x] # 0 /\ sc \in Int
    <3>1. acc.score[x] = -Weight(C \ D) /\ acc.score[x] \in Int
      BY <1>3, <2>1
    <3> HIDE DEF C, x
    <3> QED
      BY <2>5, <3>1
  <2>7. acc.zero.index[x] = Absent
    BY <1>3, <2>1, <2>6 DEF Tells, Redundant
  <2>8. /\ new = [score |-> new.score, uncover |-> new.uncover, zero |-> new.zero]
        /\ new.score = [acc.score EXCEPT ![x] = sc]
        /\ new.uncover = acc.uncover
        /\ new.zero = zero
    <3>1. new = [acc EXCEPT !.score[x] = sc,
                            !.zero = IF sc = 0 /\ @.index[x] = Absent THEN mypush(x, @) ELSE @]
      BY <1>6 DEF EnterAt
    <3> HIDE DEF new, sc, x
    <3>2. new = [acc EXCEPT !.score[x] = sc, !.zero = zero]
      BY <1>3, <2>7, <3>1
    <3> HIDE DEF zero
    <3>3. new = [score |-> [acc.score EXCEPT ![x] = sc], uncover |-> acc.uncover, zero |-> zero]
      BY <1>3, <3>2
    <3> QED
      BY <3>3
  <2> HIDE DEF sc, new, C
  <2>9. new.score \in [Set -> Int] /\ \A y \in Set : new.score[y] = IF y = x THEN sc ELSE acc.score[y]
    BY <1>3, <2>1, <2>6, <2>8
  <2>10. \A y \in cur_solu : new.score[y] = -Weight(Counting(1, set_var[y]) \ (D \cup {v}))
    BY <1>2, <1>3, <1>4, <2>2, <2>6, <2>9 DEF C
  <2>11. Redundant(new, cur_solu) = IF sc = 0 THEN Redundant(acc, cur_solu) \cup {x}
                                              ELSE Redundant(acc, cur_solu)
    BY <1>2, <2>1, <2>6, <2>9 DEF Redundant
  <2>12. x \in Set \ Redundant(acc, cur_solu)
    BY <2>1, <2>6 DEF Redundant
  <2>13. IsStack(zero, Redundant(new, cur_solu), Set) /\ Tells(zero, Redundant(new, cur_solu), Set)
    BY <1>3, <2>11, <2>12, StackPush
  <2>14. uncover_stack \ (D \cup {v}) = uncover_stack \ D
    <3>1. v \notin uncover_stack
      BY <1>1, <1>6, Uncovered
    <3> QED
      BY <3>1
  <2>15. InStep(new, cur_solu, uncover_stack \ (D \cup {v}))
    BY <1>3, <2>8, <2>9, <2>13, <2>14 DEF InStep
  <2> QED
    BY <2>10, <2>15 DEF Entering, new
<1>7. CASE cover_count[v] # 0 /\ cover_count[v] # 1
  <2>1. EnterAt(acc, v) = acc
    BY <1>7 DEF EnterAt
  <2>2. \A x \in cur_solu : v \notin Counting(1, set_var[x])
    BY <1>7 DEF Counting
  <2>3. uncover_stack \ (D \cup {v}) = uncover_stack \ D
    <3>1. v \notin uncover_stack
      BY <1>1, <1>7, Uncovered
    <3> QED
      BY <3>1
  <2> QED
    BY <1>3, <1>4, <2>1, <2>2, <2>3 DEF Entering, InStep
<1> QED
  BY <1>5, <1>6, <1>7

(* One variable more, when s leaves.                                       *)
LEMMA LeaveStep ==
  ASSUME IInv, NEW s \in cur_solu, NEW acc, NEW D \in SUBSET set_var[s], Leaving(s, acc, D),
         NEW v \in set_var[s] \ D
  PROVE  Leaving(s, LeaveAt(acc, v, s), D \cup {v})
<1> DEFINE X == cur_solu \ {s}
           U(E) == uncover_stack \cup (Counting(1, Var) \cap E)
           S(x, E) == Counting(1, set_var[x]) \cup (Counting(2, set_var[x]) \cap E)
           new == LeaveAt(acc, v, s)
<1>1. TypeOK /\ WitnessExact
  BY DEF IInv
<1>2. /\ cur_solu \in SUBSET Set /\ s \in Set /\ v \in Var /\ D \subseteq Var
      /\ cover_count[v] \in Nat /\ v \in set_var[s] /\ s \in Sets[v]
  BY <1>1, RowColumn DEF TypeOK
<1>3. /\ acc = [score |-> acc.score, uncover |-> acc.uncover, zero |-> acc.zero]
      /\ acc.score \in [Set -> Int]
      /\ IsStack(acc.uncover, U(D), Var)
      /\ IsStack(acc.zero, Redundant(acc, X), Set)
      /\ Tells(acc.zero, Redundant(acc, X), Set)
      /\ \A x \in X : acc.score[x] = -Weight(S(x, D))
  BY DEF Leaving, InStep
<1>4. cover_count[v] # 0
  BY <1>1, <1>2, Witnesses
<1>5. \A x \in X : v \notin Counting(2, set_var[x]) => S(x, D \cup {v}) = S(x, D)
  OBVIOUS
<1>6. cover_count[v] # 1 => U(D \cup {v}) = U(D)
  BY DEF Counting
<1>7. CASE cover_count[v] = 2
  <2> DEFINE x  == IF cover_set[v] = s THEN cover_set2[v] ELSE cover_set[v]
             sc == acc.score[x] - weight[v]
             zero == IF acc.score[x] = 0 THEN TakenOut(x, acc.zero) ELSE acc.zero
  <2>1. /\ x \in cur_solu /\ x # s /\ v \in set_var[x] /\ x \in Set
        /\ Sets[v] \cap cur_solu = {s, x}
    <3>1. Sets[v] \cap cur_solu = {cover_set[v], cover_set2[v]}
      BY <1>1, <1>2, <1>7 DEF WitnessExact
    <3>2. cover_set[v] # cover_set2[v]
      BY <1>1, <1>2, <1>7, Witnesses
    <3>3. s \in {cover_set[v], cover_set2[v]}
      BY <1>2, <3>1
    <3>4. x # s /\ {cover_set[v], cover_set2[v]} = {s, x}
      BY <3>2, <3>3
    <3> HIDE DEF x
    <3> QED
      BY <1>2, <3>1, <3>4, RowColumn
  <2>2. \A y \in X : y # x => v \notin Counting(2, set_var[y])
    <3> SUFFICES ASSUME NEW y \in X, y # x, v \in set_var[y] PROVE FALSE
      BY DEF Counting
    <3>1. y \in Sets[v]
      BY <1>2, RowColumn
    <3> QED
      BY <2>1, <3>1
  <2> HIDE DEF x
  <2>3. S(x, D \cup {v}) = S(x, D) \cup {v} /\ v \notin S(x, D) /\ S(x, D \cup {v}) \in SUBSET Var
    BY <1>2, <1>7, <2>1, RowColumn DEF Counting
  <2>4. /\ Weight(S(x, D \cup {v})) = Weight(S(x, D)) + weight[v]
        /\ Weight(S(x, D)) \in Nat /\ weight[v] \in Nat /\ weight[v] > 0
    <3>1. v \in S(x, D \cup {v}) /\ S(x, D \cup {v}) \ {v} = S(x, D)
      BY <2>3
    <3> HIDE DEF S
    <3> QED
      BY <1>1, <2>3, <3>1, WeightLess
  <2>5. sc = -Weight(S(x, D \cup {v})) /\ sc # 0 /\ sc \in Int
    BY <1>3, <2>1, <2>4
  <2>6. acc.zero.index[x] # Absent <=> acc.score[x] = 0
    BY <1>3, <2>1 DEF Tells, Redundant
  <2>7. /\ new = [score |-> new.score, uncover |-> new.uncover, zero |-> new.zero]
        /\ new.score = [acc.score EXCEPT ![x] = sc]
        /\ new.uncover = acc.uncover
        /\ new.zero = zero
    <3>1. new = [acc EXCEPT !.score[x] = sc,
                            !.zero = IF @.index[x] # Absent /\ sc # 0 THEN TakenOut(x, @) ELSE @]
      BY <1>7 DEF LeaveAt, x
    <3> HIDE DEF new, sc
    <3>2. new = [acc EXCEPT !.score[x] = sc, !.zero = zero]
      BY <1>3, <2>5, <2>6, <3>1
    <3> HIDE DEF zero
    <3>3. new = [score |-> [acc.score EXCEPT ![x] = sc], uncover |-> acc.uncover, zero |-> zero]
      BY <1>3, <3>2
    <3> QED
      BY <3>3
  <2> HIDE DEF sc, new, S, U
  <2>8. new.score \in [Set -> Int] /\ \A y \in Set : new.score[y] = IF y = x THEN sc ELSE acc.score[y]
    BY <1>3, <2>1, <2>5, <2>7
  <2>9. \A y \in X : new.score[y] = -Weight(S(y, D \cup {v}))
    BY <1>2, <1>3, <1>5, <2>2, <2>5, <2>8
  <2>10. Redundant(new, X) = Redundant(acc, X) \ {x}
    BY <1>2, <2>1, <2>5, <2>8 DEF Redundant
  <2>11. acc.score[x] = 0 <=> x \in Redundant(acc, X)
    BY <2>1 DEF Redundant
  <2>12. IsStack(zero, Redundant(new, X), Set) /\ Tells(zero, Redundant(new, X), Set)
    <3>1. CASE x \in Redundant(acc, X)
      BY <1>3, <2>10, <2>11, <3>1, StackOut
    <3>2. CASE x \notin Redundant(acc, X)
      <4>1. Redundant(new, X) = Redundant(acc, X)
        BY <2>10, <3>2
      <4> QED
        BY <1>3, <2>11, <3>2, <4>1
    <3> QED
      BY <3>1, <3>2
  <2>13. InStep(new, X, U(D \cup {v}))
    BY <1>3, <1>6, <1>7, <2>7, <2>8, <2>12 DEF InStep
  <2> QED
    BY <2>9, <2>13 DEF Leaving, new, S, U
<1>8. CASE cover_count[v] = 1
  <2>1. new = [score |-> acc.score, uncover |-> mypush(v, acc.uncover), zero |-> acc.zero]
    BY <1>3, <1>8 DEF LeaveAt
  <2>2. v \in Var \ U(D) /\ U(D \cup {v}) = U(D) \cup {v}
    <3>1. v \notin uncover_stack
      BY <1>1, <1>2, <1>8, Uncovered
    <3> QED
      BY <1>2, <1>8, <3>1 DEF Counting
  <2> HIDE DEF U
  <2>3. IsStack(mypush(v, acc.uncover), U(D \cup {v}), Var)
    BY <1>3, <2>2, StackPush
  <2>4. \A x \in X : S(x, D \cup {v}) = S(x, D)
    BY <1>5, <1>8 DEF Counting
  <2>5. Redundant(new, X) = Redundant(acc, X)
    BY <2>1 DEF Redundant
  <2> HIDE DEF S
  <2>6. InStep(new, X, U(D \cup {v}))
    BY <1>3, <2>1, <2>3, <2>5 DEF InStep
  <2>7. \A x \in X : new.score[x] = -Weight(S(x, D \cup {v}))
    BY <1>3, <2>1, <2>4
  <2> QED
    BY <2>6, <2>7 DEF Leaving, S, U
<1>9. CASE cover_count[v] # 1 /\ cover_count[v] # 2
  <2>1. new = acc
    BY <1>9 DEF LeaveAt
  <2>2. \A x \in X : S(x, D \cup {v}) = S(x, D)
    BY <1>5, <1>9 DEF Counting
  <2>3. InStep(new, X, U(D \cup {v}))
    BY <1>3, <1>6, <1>9, <2>1 DEF InStep
  <2> HIDE DEF S
  <2>4. \A x \in X : new.score[x] = -Weight(S(x, D \cup {v}))
    BY <1>3, <2>1, <2>2
  <2> QED
    BY <2>3, <2>4 DEF Leaving, S
<1> QED
  BY <1>7, <1>8, <1>9

-----------------------------------------------------------------------------
(* A whole flip.                                                           *)

(* The arrays hold what the sets of Covering hold.                         *)
SInv ==
  /\ IsStack(uncover_array, uncover_stack, Var)
  /\ IsStack(solu_array, cur_solu, Set) /\ Tells(solu_array, cur_solu, Set)
  /\ IsStack(zero_array, zero_stack, Set) /\ Tells(zero_array, zero_stack, Set)

LEMMA RowsOf ==
  ASSUME NEW s \in Set, NEW rows \in SetToSeqs(set_var[s])
  PROVE  /\ Len(rows) \in Nat
         /\ Done(rows, 0) = {}
         /\ Done(rows, Len(rows)) = set_var[s]
         /\ \A n \in 0..(Len(rows) - 1) :
              /\ Done(rows, n) \subseteq set_var[s]
              /\ rows[n + 1] \in set_var[s] \ Done(rows, n)
              /\ Done(rows, n + 1) = Done(rows, n) \cup {rows[n + 1]}
<1>1. IsFiniteSet(set_var[s])
  <2>1. IsFiniteSet(Var) /\ set_var[s] \in SUBSET Var
    BY InstanceAssumption, RowColumn
  <2> QED
    BY <2>1, FS_Subset
<1> QED
  BY <1>1, OrderOf

LEMMA EnterLoop ==
  ASSUME IInv, SInv, NEW s \in Set, s \notin cur_solu, NEW rows \in SetToSeqs(set_var[s])
  PROVE  Entering(Passed(s, rows)[Len(rows)], set_var[s])
<1> DEFINE at(n) == Passed(s, rows)[n]
           P == {n \in 0..Len(rows) : Entering(at(n), Done(rows, n))}
<1>1. Len(rows) \in Nat
  BY RowsOf
<1>2. 0 \in P
  <2>1. at(0) = [score |-> score, uncover |-> uncover_array, zero |-> zero_array]
    BY <1>1, PassedIs DEF Before
  <2>2. /\ score \in [Set -> Int] /\ cur_solu \in SUBSET Set
        /\ \A x \in cur_solu : score[x] = -Weight(Counting(1, set_var[x]))
        /\ zero_stack = {x \in cur_solu : score[x] = 0}
    BY DEF IInv, TypeOK, LocalScore, LocalZero
  <2> DEFINE a == at(0)
  <2>3. /\ a = [score |-> a.score, uncover |-> a.uncover, zero |-> a.zero]
        /\ a.score = score /\ a.uncover = uncover_array /\ a.zero = zero_array
    BY <2>1
  <2> HIDE DEF a
  <2>4. Redundant(a, cur_solu) = zero_stack
    BY <2>2, <2>3 DEF Redundant
  <2>5. \A x \in cur_solu : a.score[x] = -Weight(Counting(1, set_var[x]) \ {})
    BY <2>2, <2>3
  <2>6. uncover_stack \ {} = uncover_stack
    OBVIOUS
  <2>7. Entering(a, {})
    BY <2>2, <2>3, <2>4, <2>5, <2>6 DEF Entering, InStep, SInv
  <2>8. Done(rows, 0) = {} /\ 0 \in 0..Len(rows)
    BY <1>1, RowsOf
  <2> QED
    BY <2>7, <2>8 DEF a
<1>3. ASSUME NEW n \in 0..(Len(rows) - 1), n \in P
      PROVE  n + 1 \in P
  <2>1. at(n + 1) = EnterAt(at(n), rows[n + 1])
    BY <1>1, PassedIs DEF FlipAt
  <2>2. /\ Done(rows, n) \in SUBSET Var
        /\ rows[n + 1] \in Var \ Done(rows, n)
        /\ Done(rows, n + 1) = Done(rows, n) \cup {rows[n + 1]}
    BY RowsOf, RowColumn
  <2>3. n + 1 \in 0..Len(rows) /\ Entering(at(n), Done(rows, n))
    BY <1>1, <1>3
  <2> HIDE DEF at
  <2>4. Entering(EnterAt(at(n), rows[n + 1]), Done(rows, n) \cup {rows[n + 1]})
    BY <2>2, <2>3, EnterStep
  <2> QED
    BY <2>1, <2>2, <2>3, <2>4
<1>4. Len(rows) \in P
  <2> HIDE DEF P
  <2> QED
    BY <1>1, <1>2, <1>3, CountUp
<1> QED
  BY <1>4, RowsOf

LEMMA LeaveLoop ==
  ASSUME IInv, SInv, NEW s \in cur_solu, NEW rows \in SetToSeqs(set_var[s])
  PROVE  Leaving(s, Passed(s, rows)[Len(rows)], set_var[s])
<1> DEFINE at(n) == Passed(s, rows)[n]
           P == {n \in 0..Len(rows) : Leaving(s, at(n), Done(rows, n))}
<1>0. s \in Set /\ cur_solu \in SUBSET Set
  BY DEF IInv, TypeOK
<1>1. Len(rows) \in Nat
  BY <1>0, RowsOf
<1>2. 0 \in P
  <2> DEFINE zero == IF zero_array.index[s] # Absent THEN TakenOut(s, zero_array) ELSE zero_array
  <2>1. at(0) = [score |-> score, uncover |-> uncover_array, zero |-> zero]
    BY <1>1, PassedIs DEF Before
  <2>2. /\ score \in [Set -> Int]
        /\ \A x \in cur_solu : score[x] = -Weight(Counting(1, set_var[x]))
        /\ zero_stack = {x \in cur_solu : score[x] = 0}
    BY DEF IInv, TypeOK, LocalScore, LocalZero
  <2> DEFINE a == at(0)
  <2>3. /\ a = [score |-> a.score, uncover |-> a.uncover, zero |-> a.zero]
        /\ a.score = score /\ a.uncover = uncover_array /\ a.zero = zero
    BY <2>1
  <2> HIDE DEF a
  <2>4. Redundant(a, cur_solu \ {s}) = zero_stack \ {s}
    BY <2>2, <2>3 DEF Redundant
  <2>5. IsStack(zero, zero_stack \ {s}, Set) /\ Tells(zero, zero_stack \ {s}, Set)
    <3>1. zero_array.index[s] # Absent <=> s \in zero_stack
      BY <1>0 DEF SInv, Tells
    <3>2. CASE s \in zero_stack
      BY <3>1, <3>2, StackOut DEF SInv
    <3>3. CASE s \notin zero_stack
      <4>1. zero_stack \ {s} = zero_stack
        BY <3>3
      <4> QED
        BY <3>1, <3>3, <4>1 DEF SInv
    <3> QED
      BY <3>2, <3>3
  <2>6. \A x \in cur_solu \ {s} :
          a.score[x] = -Weight(Counting(1, set_var[x]) \cup (Counting(2, set_var[x]) \cap {}))
    <3>1. \A x \in cur_solu : Counting(1, set_var[x]) \cup (Counting(2, set_var[x]) \cap {})
                                = Counting(1, set_var[x])
      OBVIOUS
    <3> QED
      BY <2>2, <2>3, <3>1
  <2>7. uncover_stack \cup (Counting(1, Var) \cap {}) = uncover_stack
    OBVIOUS
  <2>8. Leaving(s, a, {})
    BY <2>2, <2>3, <2>4, <2>5, <2>6, <2>7 DEF Leaving, InStep, SInv
  <2>9. Done(rows, 0) = {} /\ 0 \in 0..Len(rows)
    BY <1>0, <1>1, RowsOf
  <2> QED
    BY <2>8, <2>9 DEF a
<1>3. ASSUME NEW n \in 0..(Len(rows) - 1), n \in P
      PROVE  n + 1 \in P
  <2>1. at(n + 1) = LeaveAt(at(n), rows[n + 1], s)
    BY <1>1, PassedIs DEF FlipAt
  <2>2. /\ Done(rows, n) \in SUBSET set_var[s]
        /\ rows[n + 1] \in set_var[s] \ Done(rows, n)
        /\ Done(rows, n + 1) = Done(rows, n) \cup {rows[n + 1]}
    BY <1>0, RowsOf
  <2>3. n + 1 \in 0..Len(rows) /\ Leaving(s, at(n), Done(rows, n))
    BY <1>1, <1>3
  <2> HIDE DEF at
  <2>4. Leaving(s, LeaveAt(at(n), rows[n + 1], s), Done(rows, n) \cup {rows[n + 1]})
    BY <2>2, <2>3, LeaveStep
  <2> QED
    BY <2>1, <2>2, <2>3, <2>4
<1>4. Len(rows) \in P
  <2> HIDE DEF P
  <2> QED
    BY <1>1, <1>2, <1>3, CountUp
<1> QED
  BY <1>0, <1>4, RowsOf

(* flip enters: the arrays follow the sets.                                *)
LEMMA EnterHolds ==
  ASSUME IInv, IInv', SInv, NEW s \in Set, s \notin cur_solu,
         set_var[s] \cap uncover_stack # {}, flipBoth(s)
  PROVE  SInv'
<1>1. TypeOK /\ WitnessExact /\ cur_solu \in SUBSET Set /\ cover_count \in [Var -> Nat]
  BY DEF IInv, TypeOK
<1>2. PICK rows \in SetToSeqs(set_var[s]) : flipArrays(s, rows)
  BY DEF flipBoth
<1> DEFINE acc == Passed(s, rows)[Len(rows)]
<1>3. /\ uncover_array' = acc.uncover /\ zero_array' = acc.zero
      /\ solu_array' = mypush(s, solu_array)
  BY <1>2 DEF flipArrays
<1>4. Entering(acc, set_var[s])
  BY EnterLoop
<1> HIDE DEF acc
<1>5. /\ IsStack(acc.uncover, uncover_stack \ set_var[s], Var)
      /\ IsStack(acc.zero, Redundant(acc, cur_solu), Set)
      /\ Tells(acc.zero, Redundant(acc, cur_solu), Set)
      /\ \A x \in cur_solu : acc.score[x] = -Weight(Counting(1, set_var[x]) \ set_var[s])
  BY <1>4 DEF Entering, InStep
<1>6. /\ cur_solu' = cur_solu \cup {s}
      /\ uncover_stack' = uncover_stack \ Counting(0, set_var[s])
      /\ cover_count' = [v \in Var |-> IF v \in set_var[s] THEN cover_count[v] + 1 ELSE cover_count[v]]
      /\ weight' = weight
  BY DEF flipBoth, flip, FlipIn
<1>7. uncover_stack' = uncover_stack \ set_var[s]
  <2>1. \A v \in set_var[s] : v \in uncover_stack <=> v \in Counting(0, set_var[s])
    BY <1>1, Uncovered, RowColumn DEF Counting
  <2> QED
    BY <1>6, <2>1 DEF Counting
<1>8. ASSUME NEW x \in cur_solu
      PROVE  score'[x] = acc.score[x]
  <2>1. x \in Set /\ x \in cur_solu' /\ set_var[x] \subseteq Var
    BY <1>1, <1>6, RowColumn
  <2>2. score'[x] = -Total(weight', Counting(1, set_var[x])')
    BY <2>1 DEF IInv, LocalScore, Weight
  <2>3. \A v \in set_var[x] : cover_count[v] # 0
    BY <1>1, <2>1, RowColumn, Witnesses
  <2>4. Counting(1, set_var[x])' = Counting(1, set_var[x]) \ set_var[s]
    BY <1>1, <1>6, <2>1, <2>3 DEF Counting
  <2> QED
    BY <1>5, <1>6, <2>2, <2>4 DEF Weight
<1>9. score'[s] # 0
  <2>1. score'[s] = -Total(weight', Counting(1, set_var[s])')
    BY <1>6 DEF IInv, LocalScore, Weight
  <2>2. Counting(1, set_var[s])' = Counting(0, set_var[s])
    BY <1>1, <1>6, RowColumn DEF Counting
  <2>3. Counting(0, set_var[s]) # {} /\ Counting(0, set_var[s]) \in SUBSET Var
    BY <1>1, Uncovered, RowColumn DEF Counting
  <2>4. Weight(Counting(0, set_var[s])) # 0 /\ Weight(Counting(0, set_var[s])) \in Nat
    BY <1>1, <2>3, WeightSums
  <2> QED
    BY <1>6, <2>1, <2>2, <2>4 DEF Weight
<1>10. zero_stack' = Redundant(acc, cur_solu)
  <2>1. zero_stack' = {x \in cur_solu' : score'[x] = 0}
    BY DEF IInv, LocalZero
  <2> QED
    BY <1>6, <1>8, <1>9, <2>1 DEF Redundant
<1>11. IsStack(mypush(s, solu_array), cur_solu \cup {s}, Set)
       /\ Tells(mypush(s, solu_array), cur_solu \cup {s}, Set)
  BY StackPush DEF SInv
<1> QED
  BY <1>3, <1>5, <1>6, <1>7, <1>10, <1>11 DEF SInv

(* flip leaves.                                                            *)
LEMMA LeaveHolds ==
  ASSUME IInv, IInv', SInv, NEW s \in cur_solu, flipBoth(s)
  PROVE  SInv'
<1>1. /\ TypeOK /\ WitnessExact /\ cur_solu \in SUBSET Set /\ s \in Set
      /\ cover_count \in [Var -> Nat]
  BY DEF IInv, TypeOK
<1>2. PICK rows \in SetToSeqs(set_var[s]) : flipArrays(s, rows)
  BY DEF flipBoth
<1> DEFINE acc == Passed(s, rows)[Len(rows)]
<1>3. /\ uncover_array' = acc.uncover /\ zero_array' = acc.zero
      /\ solu_array' = TakenOut(s, solu_array)
  BY <1>2 DEF flipArrays
<1>4. Leaving(s, acc, set_var[s])
  BY LeaveLoop
<1> HIDE DEF acc
<1>5. /\ IsStack(acc.uncover, uncover_stack \cup (Counting(1, Var) \cap set_var[s]), Var)
      /\ IsStack(acc.zero, Redundant(acc, cur_solu \ {s}), Set)
      /\ Tells(acc.zero, Redundant(acc, cur_solu \ {s}), Set)
      /\ \A x \in cur_solu \ {s} :
           acc.score[x] = -Weight(Counting(1, set_var[x]) \cup (Counting(2, set_var[x]) \cap set_var[s]))
  BY <1>4 DEF Leaving, InStep
<1>6. /\ cur_solu' = cur_solu \ {s}
      /\ uncover_stack' = uncover_stack \cup Counting(1, set_var[s])
      /\ cover_count' = [v \in Var |-> IF v \in set_var[s] THEN cover_count[v] - 1 ELSE cover_count[v]]
      /\ weight' = weight
  BY DEF flipBoth, flip, FlipOut
<1>7. uncover_stack' = uncover_stack \cup (Counting(1, Var) \cap set_var[s])
  BY <1>1, <1>6, RowColumn DEF Counting
<1>8. ASSUME NEW x \in cur_solu \ {s}
      PROVE  score'[x] = acc.score[x]
  <2>1. x \in Set /\ x \in cur_solu' /\ set_var[x] \subseteq Var
    BY <1>1, <1>6, RowColumn
  <2>2. score'[x] = -Total(weight', Counting(1, set_var[x])')
    BY <2>1 DEF IInv, LocalScore, Weight
  <2>3. \A v \in set_var[x] \cap set_var[s] : cover_count[v] # 1
    <3> SUFFICES ASSUME NEW v \in set_var[x] \cap set_var[s], cover_count[v] = 1 PROVE FALSE
      OBVIOUS
    <3>1. v \in Var /\ x \in Sets[v] /\ s \in Sets[v]
      BY <1>1, <2>1, RowColumn
    <3>2. x = cover_set[v] /\ s = cover_set[v]
      BY <1>1, <2>1, <3>1, Witnesses
    <3> QED
      BY <3>2
  <2>4. Counting(1, set_var[x])'
          = Counting(1, set_var[x]) \cup (Counting(2, set_var[x]) \cap set_var[s])
    <3>1. ASSUME NEW v \in set_var[x]
          PROVE  cover_count'[v] = 1 <=> \/ cover_count[v] = 1
                                         \/ cover_count[v] = 2 /\ v \in set_var[s]
      BY <1>1, <1>6, <2>1, <2>3
    <3> QED
      BY <3>1 DEF Counting
  <2> QED
    BY <1>5, <1>6, <2>2, <2>4 DEF Weight
<1>9. zero_stack' = Redundant(acc, cur_solu \ {s})
  <2>1. zero_stack' = {x \in cur_solu' : score'[x] = 0}
    BY DEF IInv, LocalZero
  <2> QED
    BY <1>6, <1>8, <2>1 DEF Redundant
<1>10. IsStack(TakenOut(s, solu_array), cur_solu \ {s}, Set)
       /\ Tells(TakenOut(s, solu_array), cur_solu \ {s}, Set)
  BY StackOut DEF SInv
<1> QED
  BY <1>3, <1>5, <1>6, <1>7, <1>9, <1>10 DEF SInv

-----------------------------------------------------------------------------
(* The refinement.                                                         *)

(* init's loop pushes every variable.                                      *)
LEMMA InitSInv == StacksInit => SInv
<1> SUFFICES ASSUME StacksInit PROVE SInv
  OBVIOUS
<1>1. PICK rows \in SetToSeqs(Var) : uncover_array = Filled(rows)[Len(rows)]
  BY DEF StacksInit
<1>2. /\ Len(rows) \in Nat
      /\ Done(rows, 0) = {}
      /\ Done(rows, Len(rows)) = Var
      /\ \A n \in 0..(Len(rows) - 1) :
           /\ rows[n + 1] \in Var \ Done(rows, n)
           /\ Done(rows, n + 1) = Done(rows, n) \cup {rows[n + 1]}
  <2>1. IsFiniteSet(Var)
    BY InstanceAssumption
  <2>2. QED
    BY <2>1, OrderOf
<1> DEFINE at(n) == Filled(rows)[n]
           P == {n \in 0..Len(rows) : IsStack(at(n), Done(rows, n), Var)}
<1>3. 0 \in P
  <2>1. at(0) = Empty(Var)
    BY <1>2, FilledIs
  <2>2. IsStack(Empty(Var), {}, Var) /\ 0 \in 0..Len(rows)
    BY <1>2, StackEmpty
  <2> HIDE DEF at
  <2> QED
    BY <1>2, <2>1, <2>2
<1>4. ASSUME NEW n \in 0..(Len(rows) - 1), n \in P
      PROVE  n + 1 \in P
  <2>1. at(n + 1) = mypush(rows[n + 1], at(n))
    BY <1>2, FilledIs
  <2>2. n + 1 \in 0..Len(rows) /\ IsStack(at(n), Done(rows, n), Var)
    BY <1>2, <1>4
  <2> HIDE DEF at
  <2>3. IsStack(mypush(rows[n + 1], at(n)), Done(rows, n) \cup {rows[n + 1]}, Var)
    BY <1>2, <2>2, StackPush
  <2> QED
    BY <1>2, <2>1, <2>2, <2>3
<1>5. Len(rows) \in P
  <2> HIDE DEF P
  <2> QED
    BY <1>2, <1>3, <1>4, CountUp
<1>6. IsStack(uncover_array, Var, Var)
  BY <1>1, <1>2, <1>5
<1>7. /\ uncover_stack = Var /\ cur_solu = {} /\ zero_stack = {}
      /\ solu_array = Empty(Set) /\ zero_array = Empty(Set)
  BY DEF StacksInit, Init, InitSets, InitVars
<1> QED
  BY <1>6, <1>7, StackEmpty DEF SInv

(* A set found by its place is one Covering's caller may flip.             *)
LEMMA PlacesFind ==
  ASSUME IInv, SInv, StacksNext
  PROVE  \/ \E s \in Set : AddSet(s) /\ flipBoth(s)
         \/ \E s \in cur_solu : RemoveSet(s) /\ flipBoth(s)
         \/ UpdateWeight /\ UNCHANGED arrays
<1>1. TypeOK /\ WitnessExact /\ cur_solu \in SUBSET Set /\ zero_stack \subseteq cur_solu
  BY DEF IInv, TypeOK, LocalZero
<1>2. /\ \A j \in Places(uncover_array) : uncover_array.at[j] \in uncover_stack
      /\ \A j \in Places(solu_array) : solu_array.at[j] \in cur_solu
      /\ \A j \in Places(zero_array) : zero_array.at[j] \in zero_stack
  BY DEF SInv, IsStack, Holds
<1>3. CASE AddAtRandom
  <2>1. PICK j \in Places(uncover_array) : \E s \in Sets[uncover_array.at[j]] : flipBoth(s)
    BY <1>3 DEF AddAtRandom
  <2>2. PICK v : v = uncover_array.at[j]
    OBVIOUS
  <2>3. PICK s \in Sets[v] : flipBoth(s)
    BY <2>1, <2>2
  <2>4. v \in uncover_stack /\ v \in Var
    BY <1>1, <1>2, <2>2 DEF TypeOK
  <2>5. s \in Set /\ v \in set_var[s]
    BY <2>4, RowColumn
  <2>6. s \notin cur_solu
    BY <1>1, <2>4, <2>5, Uncovered, Witnesses
  <2>7. AddSet(s)
    BY <2>3, <2>4, <2>5, <2>6 DEF AddSet, flipBoth
  <2> QED
    BY <2>3, <2>5, <2>7
<1>4. CASE DropAtRandom
  BY <1>1, <1>2, <1>4 DEF DropAtRandom, RemoveSet, flipBoth
<1>5. CASE RemoveAtRandom
  BY <1>1, <1>2, <1>5 DEF RemoveAtRandom, RemoveSet, flipBoth
<1>6. CASE UpdateWeight /\ UNCHANGED arrays
  BY <1>6
<1> QED
  BY <1>3, <1>4, <1>5, <1>6 DEF StacksNext

LEMMA StacksStep ==
  ASSUME IInv, SInv, [StacksNext]_kvars
  PROVE  IInv' /\ SInv' /\ [Next]_vars
<1>1. CASE StacksNext
  <2>1. Next
    <3>1. cur_solu \subseteq Set
      BY DEF IInv, TypeOK
    <3> QED
      BY <1>1, <3>1, PlacesFind DEF Next
  <2>2. IInv'
    BY <2>1, NextIInv
  <2>3. SInv'
    <3>1. ASSUME NEW s \in Set, AddSet(s), flipBoth(s) PROVE SInv'
      BY <2>2, <3>1, EnterHolds DEF AddSet
    <3>2. ASSUME NEW s \in cur_solu, flipBoth(s) PROVE SInv'
      BY <2>2, <3>2, LeaveHolds
    <3>3. CASE UpdateWeight /\ UNCHANGED arrays
      BY <3>3 DEF UpdateWeight, update_weight, arrays, SInv
    <3> QED
      BY <1>1, <3>1, <3>2, <3>3, PlacesFind
  <2> QED
    BY <2>1, <2>2, <2>3
<1>2. CASE UNCHANGED kvars
  <2>1. UNCHANGED vars /\ UNCHANGED arrays
    BY <1>2 DEF kvars
  <2>2. IInv'
    BY <2>1, NextIInv
  <2>3. SInv'
    BY <2>1 DEF SInv, vars, arrays
  <2> QED
    BY <2>1, <2>2, <2>3
<1> QED
  BY <1>1, <1>2

LEMMA StacksInductive == StacksSpec => [](IInv /\ SInv)
<1>1. StacksInit => IInv /\ SInv
  BY InitIInv, InitSInv DEF StacksInit
<1>2. IInv /\ SInv /\ [StacksNext]_kvars => IInv' /\ SInv'
  BY StacksStep
<1> QED
  BY <1>1, <1>2, PTL DEF StacksSpec

(* Through any flips, which meet the variables in any order, the arrays    *)
(* and their indices stay in step with the stacks, and index_in_zero_stack *)
(* tells what is on zero_stack (wscp.h:807-835, 844-851 and 942-949).      *)
THEOREM StacksInStep == StacksSpec => []StacksHold
<1>1. IInv /\ SInv => StacksHold
  BY DEF SInv, IsStack, StacksHold
<1> QED
  BY <1>1, StacksInductive, PTL

(* The caller that finds what it flips by a place in an array is one of    *)
(* the callers Covering allows (wscp.h:1299, 1524 and 1077), so that all   *)
(* that is proved of Covering is true of the loops over arrays.            *)
THEOREM StacksImplement == StacksSpec => PlacesServe
<1>1. StacksInit => Init
  BY DEF StacksInit
<1>2. IInv /\ SInv /\ [StacksNext]_kvars => [Next]_vars
  BY StacksStep
<1> QED
  BY <1>1, <1>2, StacksInductive, PTL DEF StacksSpec, Spec, PlacesServe

-----------------------------------------------------------------------------
(* One step.                                                               *)

(* What the steps of the search do to the state below.                     *)
LEMMA TurnFlips ==
  ASSUME IInv, SearchInv, Turn
  PROVE  \/ \E s \in Set : AddSet(s) \/ RemoveSet(s)
         \/ update_weight
         \/ UNCHANGED vars
<1> USE DEF SearchInv
<1>1. \A v \in Var, s \in Set : v \in uncover_stack /\ s \in Sets[v] =>
        s \notin cur_solu /\ set_var[s] \cap uncover_stack # {}
  <2> SUFFICES ASSUME NEW v \in Var, NEW s \in Set, v \in uncover_stack, s \in Sets[v]
               PROVE  s \notin cur_solu /\ set_var[s] \cap uncover_stack # {}
    OBVIOUS
  <2>1. TypeOK /\ WitnessExact
    BY DEF IInv
  <2>2. cover_count[v] = 0
    BY <2>1, Uncovered
  <2>3. s \notin cur_solu
    BY <2>1, <2>2, Witnesses
  <2>4. v \in set_var[s]
    BY RowColumn
  <2>5. QED
    BY <2>3, <2>4
<1>2. ASSUME NEW v \in Var, NEW s \in Set, Construct(v, s) PROVE AddSet(s)
  BY <1>1, <1>2 DEF Construct, AddSet
<1>3. CASE StartSearch
  BY <1>3 DEF StartSearch
<1>4. ASSUME NEW s \in Set, DropRedundant(s) PROVE RemoveSet(s)
  <2>1. s \in cur_solu
    BY <1>4 DEF DropRedundant, select_set_from_zero_stack, IInv, LocalZero
  <2>2. QED
    BY <1>4, <2>1 DEF DropRedundant, RemoveSet
<1>5. CASE NothingToDrop /\ Return
  BY <1>5 DEF NothingToDrop, Return
<1>6. CASE RecordCover
  BY <1>6 DEF RecordCover
<1>7. ASSUME NEW s \in Set, Descend(s) PROVE RemoveSet(s)
  BY <1>7 DEF Descend, RemoveSet
<1>8. ASSUME NEW v \in Var, NEW b \in Set, AddBest(v, b) PROVE AddSet(b)
  BY <1>1, <1>8 DEF AddBest, Chosen, AddSet
<1>9. CASE Weigh
  BY <1>9 DEF Weigh
<1>10. ASSUME NEW v \in Var, NEW b \in Set, NEW s \in Set, SwapOut(v, b, s)
       PROVE  RemoveSet(s)
  BY <1>10 DEF SwapOut, RemoveSet
<1>11. ASSUME SwapIn PROVE AddSet(pick) /\ pick \in Set
  BY <1>11 DEF SwapIn, PendingSwap, AddSet
<1>12. ASSUME NEW v \in Var, NEW b \in Set, NEW s \in Set, RemoveOne(v, b, s)
       PROVE  RemoveSet(s)
  BY <1>12 DEF RemoveOne, RemoveSet
<1>13. ASSUME NEW s \in Set, RemoveOther(s) PROVE RemoveSet(s)
  BY <1>13 DEF RemoveOther, RemoveSet
<1>14. CASE NothingToRemove /\ Return
  BY <1>14 DEF NothingToRemove, Return
<1>15. QED
  BY <1>2, <1>3, <1>4, <1>5, <1>6, <1>7, <1>8, <1>9, <1>10, <1>11, <1>12, <1>13,
     <1>14 DEF Turn, NoSetChosen

(* Every step of the search is a step that Covering allows.                *)
LEMMA StepFlips ==
  ASSUME IInv, SearchInv, [SearchNext]_svars
  PROVE  [Next]_vars
<1>1. CASE Turn
  BY <1>1, TurnFlips DEF Next, UpdateWeight
<1>2. CASE TimeUp
  BY <1>2 DEF TimeUp
<1>3. CASE UNCHANGED svars
  BY <1>3 DEF svars
<1>4. QED
  BY <1>1, <1>2, <1>3 DEF SearchNext

(* Without redundant sets, a solution that covers everything is what the   *)
(* caller is promised.                                                     *)
LEMMA CoverFound ==
  ASSUME IInv, uncover_stack = {}, zero_stack = {}
  PROVE  Irredundant(cur_solu)
<1>1. WitnessExact /\ ZeroStackExact
  BY ZeroIsRedundant DEF IInv
<1>2. Covered(1, cur_solu) = Var
  BY <1>1 DEF WitnessExact, Covered
<1>3. \A s \in cur_solu : Covered(1, cur_solu \ {s}) # Covered(1, cur_solu)
  BY <1>1 DEF ZeroStackExact
<1>4. QED
  BY <1>2, <1>3 DEF Irredundant

(* A solution costs less than INT_MAX.                                     *)
LEMMA CostBelowMax ==
  ASSUME IInv
  PROVE  cur_cost \in Nat /\ cur_cost < INT_MAX
<1>1. cur_solu \in SUBSET Set /\ (Set \ cur_solu) \in SUBSET Set /\ Set \in SUBSET Set
  BY DEF IInv, TypeOK
<1>2. IsFiniteSet(Set) /\ cost \in [Set -> Nat] /\ fixed_cost \in Nat
  BY InstanceAssumption
<1>3. /\ Total(cost, cur_solu) \in Nat
      /\ Total(cost, Set \ cur_solu) \in Nat
      /\ Total(cost, Set) \in Nat
  BY <1>1, <1>2, TotalType
<1>4. Total(cost, Set \ cur_solu) = Total(cost, Set) - Total(cost, cur_solu)
  BY <1>1, <1>2, TotalDiff
<1>5. cur_cost = fixed_cost + Total(cost, cur_solu)
  BY DEF IInv, CostExact
<1>6. INT_MAX \in Nat /\ INT_MAX > fixed_cost + Total(cost, Set)
  BY SearchAssumption
<1>7. QED
  BY <1>2, <1>3, <1>4, <1>5, <1>6

-----------------------------------------------------------------------------
(* The invariant of the control.                                           *)

LEMMA EndOfTurn ==
  ASSUME SearchInv, pc # "done", NextStep \/ CheckTime
  PROVE  /\ step' \in 0 .. max_step - 1
         /\ tries' \in 0 .. max_tries
         /\ pc' \in {"search", "done"}
         /\ TriesLeft'
<1> USE SearchAssumption DEF SearchInv, SearchTypeOK, TriesLeft
<1>1. CASE step + 1 < max_step /\ NextStep
  BY <1>1 DEF NextStep
<1>2. CASE step + 1 >= max_step /\ NextStep
  BY <1>2 DEF NextStep
<1>3. CASE CheckTime /\ ~NextStep
  BY <1>3 DEF CheckTime
<1>4. QED
  BY <1>1, <1>2, <1>3

(* A step that leaves what is recorded alone.                              *)
LEMMA SameBest ==
  ASSUME SearchInv, UNCHANGED <<best_solu, best_cost>>
  PROVE  BestExact'
BY DEF SearchInv, BestExact

LEMMA SearchInvInit == SearchInit => SearchInv
<1> SUFFICES ASSUME SearchInit PROVE SearchInv
  OBVIOUS
<1>1. /\ max_step \in Nat \ {0} /\ max_tries \in Nat \ {0} /\ INT_MAX \in Nat
      /\ best_solu = {} /\ best_cost = INT_MAX /\ step = 0 /\ tries = 0
      /\ pc = "construct" /\ pick = NoSet /\ expired = FALSE
  BY SearchAssumption DEF SearchInit
<1>2. step \in 0 .. max_step - 1 /\ tries \in 0 .. max_tries /\ tries < max_tries
  BY <1>1
<1>3. SearchTypeOK
  BY <1>1, <1>2, Zenon DEF SearchTypeOK
<1>4. TriesLeft /\ PendingSwap /\ BestExact
  BY <1>1, <1>2, Zenon DEF TriesLeft, PendingSwap, BestExact
<1>5. QED
  BY <1>3, <1>4 DEF SearchInv

LEMMA SearchInvStep ==
  ASSUME IInv, SearchInv, [SearchNext]_svars
  PROVE  SearchInv'
<1> USE DEF SearchInv
<1>0. /\ best_solu \subseteq Set
      /\ best_cost \in Nat
      /\ pick \in Set \cup {NoSet}
      /\ expired \in BOOLEAN
  BY DEF SearchTypeOK
<1>1. ASSUME NEW v \in Var, NEW s \in Set, Construct(v, s) PROVE SearchInv'
  BY <1>1, SameBest DEF Construct, control, SearchTypeOK, TriesLeft, PendingSwap
<1>2. CASE StartSearch
  BY <1>2, SameBest DEF StartSearch, SearchTypeOK, TriesLeft, PendingSwap
<1>3. ASSUME NEW s \in Set, DropRedundant(s) PROVE SearchInv'
  <2>1. NextStep /\ pc # "done" /\ UNCHANGED <<best_solu, best_cost, pick, expired>>
    BY <1>3 DEF DropRedundant
  <2>2. QED
    BY <1>0, <2>1, EndOfTurn, SameBest DEF SearchTypeOK, PendingSwap
<1>4. CASE NothingToDrop /\ Return
  BY <1>4, SameBest DEF NothingToDrop, Return, SearchTypeOK, TriesLeft, PendingSwap
<1>5. CASE RecordCover
  <2>1. /\ pc = "search" /\ pc' = "descend"
        /\ UNCHANGED <<step, tries, pick, expired>>
        /\ uncover_stack = {} /\ zero_stack = {}
    BY <1>5 DEF RecordCover
  <2>2. BestExact' /\ best_solu' \subseteq Set /\ best_cost' \in Nat
    <3>1. CASE cur_cost < best_cost
      <4>1. best_cost' = cur_cost /\ best_solu' = cur_solu
        BY <1>5, <3>1 DEF RecordCover, Better
      <4>2. Irredundant(cur_solu)
        BY <2>1, CoverFound
      <4>3. cur_solu \subseteq Set /\ cur_cost = SolutionCost(cur_solu)
        BY DEF IInv, TypeOK, CostExact, SolutionCost
      <4>4. cur_cost \in Nat
        BY CostBelowMax
      <4>5. QED
        BY <4>1, <4>2, <4>3, <4>4 DEF BestExact
    <3>2. CASE ~(cur_cost < best_cost)
      <4>1. UNCHANGED <<best_solu, best_cost>>
        BY <1>5, <3>2 DEF RecordCover, Better
      <4>2. QED
        BY <1>0, <4>1, SameBest
    <3>3. QED
      BY <3>1, <3>2
  <2>3. QED
    BY <2>1, <2>2 DEF SearchTypeOK, TriesLeft, PendingSwap
<1>6. ASSUME NEW s \in Set, Descend(s) PROVE SearchInv'
  <2>1. CheckTime /\ pc # "done" /\ UNCHANGED <<best_solu, best_cost, pick, expired>>
    BY <1>6 DEF Descend
  <2>2. QED
    BY <1>0, <2>1, EndOfTurn, SameBest DEF SearchTypeOK, PendingSwap
<1>7. ASSUME NEW v \in Var, NEW b \in Set, AddBest(v, b) PROVE SearchInv'
  BY <1>7, SameBest DEF AddBest, Chosen, SearchTypeOK, TriesLeft, PendingSwap
<1>8. CASE Weigh
  <2>1. CheckTime /\ pc # "done" /\ UNCHANGED <<best_solu, best_cost, pick, expired>>
    BY <1>8 DEF Weigh
  <2>2. QED
    BY <1>0, <2>1, EndOfTurn, SameBest DEF SearchTypeOK, PendingSwap
<1>9. ASSUME NEW v \in Var, NEW b \in Set, NEW s \in Set, SwapOut(v, b, s)
      PROVE  SearchInv'
  <2>1. /\ pc = "search" /\ pc' = "swap" /\ pick' = b
        /\ UNCHANGED <<best_solu, best_cost, step, tries, expired>>
        /\ v \in uncover_stack /\ b \in Sets[v] /\ s \in cur_solu /\ flip(s)
    BY <1>9 DEF SwapOut, Chosen
  <2>2. b \notin cur_solu
    <3>1. TypeOK /\ WitnessExact
      BY DEF IInv
    <3>2. cover_count[v] = 0
      BY <2>1, <3>1, Uncovered
    <3>3. QED
      BY <2>1, <3>1, <3>2, Witnesses
  <2>3. b \notin cur_solu' /\ v \in uncover_stack'
    BY <2>1, <2>2 DEF flip, FlipOut
  <2>4. v \in set_var[b]
    BY <2>1, RowColumn
  <2>5. PendingSwap'
    BY <2>1, <2>3, <2>4 DEF PendingSwap
  <2>6. QED
    BY <1>0, <2>1, <2>5, SameBest DEF SearchTypeOK, TriesLeft
<1>10. CASE SwapIn
  <2>1. /\ CheckTime /\ pc # "done" /\ pick' = NoSet
        /\ UNCHANGED <<best_solu, best_cost, expired>>
    BY <1>10 DEF SwapIn
  <2>2. QED
    BY <1>0, <2>1, EndOfTurn, SameBest DEF SearchTypeOK, PendingSwap
<1>11. ASSUME NEW v \in Var, NEW b \in Set, NEW s \in Set, RemoveOne(v, b, s)
       PROVE  SearchInv'
  BY <1>11, SameBest DEF RemoveOne, Chosen, SearchTypeOK, TriesLeft, PendingSwap
<1>12. ASSUME NEW s \in Set, RemoveOther(s) PROVE SearchInv'
  <2>1. CheckTime /\ pc # "done" /\ UNCHANGED <<best_solu, best_cost, pick, expired>>
    BY <1>12 DEF RemoveOther
  <2>2. QED
    BY <1>0, <2>1, EndOfTurn, SameBest DEF SearchTypeOK, PendingSwap
<1>13. CASE NothingToRemove /\ Return
  BY <1>13, SameBest DEF NothingToRemove, Return, SearchTypeOK, TriesLeft, PendingSwap
<1>14. CASE TimeUp
  BY <1>14, SameBest DEF TimeUp, vars, SearchTypeOK, TriesLeft, PendingSwap
<1>15. CASE UNCHANGED svars
  BY <1>15, SameBest DEF svars, vars, control, SearchTypeOK, TriesLeft, PendingSwap
<1>16. QED
  BY <1>1, <1>2, <1>3, <1>4, <1>5, <1>6, <1>7, <1>8, <1>9, <1>10, <1>11, <1>12,
     <1>13, <1>14, <1>15 DEF SearchNext, Turn, NoSetChosen

LEMMA SearchInvariant == SearchSpec => [](IInv /\ SearchInv)
<1>1. SearchInit => IInv /\ SearchInv
  BY InitIInv, SearchInvInit DEF SearchInit
<1>2. IInv /\ SearchInv /\ [SearchNext]_svars => (IInv /\ SearchInv)'
  BY StepFlips, NextIInv, SearchInvStep
<1>3. QED
  BY <1>1, <1>2, PTL DEF SearchSpec

(* The counters, the pending set and the recorded solution have their types*)
THEOREM SearchTypeCorrect == SearchSpec => []SearchTypeOK
<1>1. SearchInv => SearchTypeOK
  BY DEF SearchInv
<1>2. QED
  BY <1>1, SearchInvariant, PTL

(* What local_search records in best_solu is an irredundant cover, and     *)
(* best_cost is its cost, whichever sets the search chooses to flip.       *)
THEOREM BestsExact == SearchSpec => []BestExact
<1>1. SearchInv => BestExact
  BY DEF SearchInv
<1>2. QED
  BY <1>1, SearchInvariant, PTL

(* init and local_search call flip and update_weight as Covering allows:   *)
(* what is proved of every caller holds for them.                          *)
THEOREM BooksKept == SearchSpec => KeepsBooks
<1>1. SearchInit => Init
  BY DEF SearchInit
<1>2. IInv /\ SearchInv /\ [SearchNext]_svars => [Next]_vars
  BY StepFlips
<1>3. QED
  BY <1>1, <1>2, SearchInvariant, PTL DEF SearchSpec, KeepsBooks, Spec

-----------------------------------------------------------------------------
(* No cover is lost.                                                       *)

(* What dropping a redundant set leaves still covers everything.           *)
LEMMA DropKeepsCover ==
  ASSUME IInv, NEW s \in Set, DropRedundant(s), IInv'
  PROVE  s \in cur_solu /\ cur_solu' = cur_solu \ {s} /\ uncover_stack' = {}
<1>1. uncover_stack = {} /\ flip(s) /\ s \in zero_stack
  BY InstanceAssumption DEF DropRedundant, select_set_from_zero_stack
<1>2. WitnessExact /\ ZeroStackExact
  BY ZeroIsRedundant DEF IInv
<1>3. s \in cur_solu /\ Covered(1, cur_solu \ {s}) = Covered(1, cur_solu)
  BY <1>1, <1>2 DEF ZeroStackExact
<1>4. cur_solu' = cur_solu \ {s}
  BY <1>1, <1>3 DEF flip, FlipOut
<1>5. Covered(1, cur_solu) = Var
  BY <1>1, <1>2 DEF WitnessExact, Covered
<1>6. uncover_stack' = Var \ Covered(1, cur_solu')
  BY DEF IInv, WitnessExact, Covered
<1>7. QED
  BY <1>3, <1>4, <1>5, <1>6

(* Only Descend uncovers something in a cover, and only after RecordCover. *)
LEMMA CoverStep ==
  ASSUME IInv, SearchInv, CoverFirst, [SearchNext]_svars, IInv'
  PROVE  /\ CoverFirst'
         /\ uncover_stack = {} /\ uncover_stack' # {} => best_cost <= cur_cost
<1> DEFINE Kept == /\ CoverFirst'
                   /\ uncover_stack = {} /\ uncover_stack' # {}
                        => best_cost <= cur_cost
<1>1. ASSUME NEW v \in Var, NEW s \in Set, Construct(v, s) PROVE Kept
  BY <1>1 DEF Construct, control, CoverFirst
<1>2. CASE StartSearch
  BY <1>2 DEF StartSearch, vars, CoverFirst
<1>3. ASSUME NEW s \in Set, DropRedundant(s) PROVE Kept
  <2>1. uncover_stack' = {} /\ pc' \in {"search", "done"}
    BY <1>3, DropKeepsCover DEF DropRedundant, NextStep
  <2>2. QED
    BY <2>1 DEF CoverFirst
<1>4. CASE NothingToDrop /\ Return
  BY <1>4 DEF NothingToDrop, Return, vars, CoverFirst
<1>5. CASE RecordCover
  <2>1. cur_cost \in Nat /\ best_cost \in Nat
    BY CostBelowMax DEF SearchInv, SearchTypeOK
  <2>2. best_cost' <= cur_cost
    BY <1>5, <2>1 DEF RecordCover, Better
  <2>3. QED
    BY <1>5, <2>2 DEF RecordCover, vars, CoverFirst
<1>6. ASSUME NEW s \in Set, Descend(s) PROVE Kept
  BY <1>6 DEF Descend, CheckTime, NextStep, CoverFirst
<1>7. ASSUME NEW v \in Var, NEW b \in Set, AddBest(v, b) PROVE Kept
  BY <1>7 DEF AddBest, Chosen, CoverFirst
<1>8. CASE Weigh
  BY <1>8 DEF Weigh, update_weight, CheckTime, NextStep, CoverFirst
<1>9. ASSUME NEW v \in Var, NEW b \in Set, NEW s \in Set, SwapOut(v, b, s) PROVE Kept
  BY <1>9 DEF SwapOut, Chosen, CoverFirst
<1>10. CASE SwapIn
  BY <1>10 DEF SwapIn, SearchInv, PendingSwap, CheckTime, NextStep, CoverFirst
<1>11. ASSUME NEW v \in Var, NEW b \in Set, NEW s \in Set, RemoveOne(v, b, s) PROVE Kept
  BY <1>11 DEF RemoveOne, Chosen, flip, FlipOut, CoverFirst
<1>12. ASSUME NEW s \in Set, RemoveOther(s) PROVE Kept
  BY <1>12 DEF RemoveOther, CheckTime, NextStep, CoverFirst
<1>13. CASE NothingToRemove /\ Return
  BY <1>13 DEF NothingToRemove, Return, vars, CoverFirst
<1>14. CASE TimeUp
  BY <1>14 DEF TimeUp, vars, CoverFirst
<1>15. CASE UNCHANGED svars
  BY <1>15 DEF svars, vars, control, CoverFirst
<1>16. QED
  BY <1>1, <1>2, <1>3, <1>4, <1>5, <1>6, <1>7, <1>8, <1>9, <1>10, <1>11, <1>12,
     <1>13, <1>14, <1>15 DEF SearchNext, Turn, NoSetChosen

(* A cover is recorded, or one that costs no more is, before the search    *)
(* uncovers a variable again: for every instance and every rule of choice, *)
(* with sets that cost nothing as well.                                    *)
THEOREM CoversKept == SearchSpec => CoverNotLost
<1>1. SearchInit => CoverFirst
  BY DEF SearchInit, CoverFirst
<1>2. IInv /\ SearchInv /\ [SearchNext]_svars => IInv'
  BY StepFlips, NextIInv
<1>3. QED
  BY <1>1, <1>2, CoverStep, SearchInvariant, PTL DEF SearchSpec, CoverNotLost

-----------------------------------------------------------------------------
(* The promise, where every set costs something.                           *)

(* Only the recording of a cover touches what is recorded, and a search    *)
(* that has returned does nothing more.                                    *)
LEMMA StillOrRecord ==
  ASSUME SearchNext
  PROVE  pc # "done" /\ (RecordCover \/ UNCHANGED <<best_solu, best_cost>>)
<1>1. CASE Turn
  BY <1>1 DEF Turn, Construct, StartSearch, DropRedundant, Descend,
     AddBest, Chosen, Weigh, SwapOut, SwapIn, RemoveOne, RemoveOther,
     NoSetChosen, NothingToDrop, NothingToRemove, Return,
     control, RecordCover
<1>2. CASE TimeUp
  BY <1>2 DEF TimeUp
<1>3. QED
  BY <1>1, <1>2 DEF SearchNext

(* There is a redundant set to drop, if there is a redundant set.          *)
LEMMA SomethingToDrop ==
  ASSUME PositiveCosts, IInv, NoSet \in select_set_from_zero_stack
  PROVE  zero_stack = {}
<1> DEFINE costly == {s \in zero_stack : cost[s] > 0}
<1>1. zero_stack \subseteq Set
  BY DEF IInv, TypeOK
<1>2. costly = zero_stack
  BY <1>1 DEF PositiveCosts
<1>3. NoSet \notin costly
  BY <1>1, <1>2, InstanceAssumption
<1>4. CASE T < Cardinality(zero_stack)
  BY <1>2, <1>3, <1>4 DEF select_set_from_zero_stack
<1>5. CASE ~(T < Cardinality(zero_stack))
  BY <1>2, <1>3, <1>5 DEF select_set_from_zero_stack
<1>6. QED
  BY <1>4, <1>5

(* Dropping a redundant set leaves a cover with one set less, and the turns*)
(* of the try do not run out.                                              *)
LEMMA DropStep ==
  ASSUME EnoughTurns, IInv, SearchInv, FirstCover, best_cost = INT_MAX,
         NEW s \in Set, DropRedundant(s), IInv'
  PROVE  /\ pc' = "search"
         /\ uncover_stack' = {}
         /\ step' + Cardinality(cur_solu') <= Cardinality(Set)
<1>1. IsFiniteSet(Set) /\ cur_solu \subseteq Set /\ IsFiniteSet(cur_solu)
  BY InstanceAssumption, FS_Subset DEF IInv, TypeOK
<1>2. /\ Cardinality(cur_solu) \in Nat /\ Cardinality(Set) \in Nat
      /\ max_step \in Nat /\ step \in Nat
  BY <1>1, FS_CardinalityType, SearchAssumption DEF SearchInv, SearchTypeOK
<1>3. pc = "search" /\ NextStep
  BY DEF DropRedundant
<1>4. s \in cur_solu /\ cur_solu' = cur_solu \ {s} /\ uncover_stack' = {}
  BY DropKeepsCover
<1>5. Cardinality(cur_solu') = Cardinality(cur_solu) - 1
  BY <1>1, <1>4, FS_RemoveElement
<1>6. step + Cardinality(cur_solu) <= Cardinality(Set) /\ Cardinality(cur_solu) # 0
  BY <1>1, <1>3, <1>4, FS_EmptySet DEF FirstCover
<1>7. step + 1 < max_step
  BY <1>2, <1>6 DEF EnoughTurns
<1>8. step' = step + 1 /\ pc' = "search"
  BY <1>3, <1>7 DEF NextStep
<1>9. QED
  BY <1>2, <1>4, <1>5, <1>6, <1>8

LEMMA FirstCoverStep ==
  ASSUME PositiveCosts, EnoughTurns, IInv, SearchInv, FirstCover,
         [SearchNext]_svars, IInv'
  PROVE  FirstCover'
<1> SUFFICES ASSUME best_cost' = INT_MAX
             PROVE  /\ pc' \in {"construct", "search"}
                    /\ pc' = "construct" => step' = 0
                    /\ pc' = "search" =>
                         /\ uncover_stack' = {}
                         /\ step' + Cardinality(cur_solu') <= Cardinality(Set)
  BY DEF FirstCover
<1>1. ~RecordCover \/ best_cost = best_cost'
  BY CostBelowMax DEF RecordCover, Better
<1>2. CASE UNCHANGED svars
  BY <1>2 DEF svars, vars, control, FirstCover
<1>3. CASE SearchNext
  <2>0. ~RecordCover
    <3>1. SUFFICES ASSUME RecordCover PROVE cur_cost < best_cost
      BY CostBelowMax, <3>1 DEF RecordCover, Better
    <3>2. best_cost = INT_MAX
      BY <1>1, <3>1
    <3>3. QED
      BY <3>2, CostBelowMax
  <2>1. best_cost = INT_MAX
    BY <1>3, <2>0, StillOrRecord
  <2>2. /\ pc \in {"construct", "search"}
        /\ pc = "construct" => step = 0
        /\ pc = "search" => /\ uncover_stack = {}
                            /\ step + Cardinality(cur_solu) <= Cardinality(Set)
    BY <2>1 DEF FirstCover
  <2>3. ASSUME NEW v \in Var, NEW s \in Set, Construct(v, s)
        PROVE  pc' = "construct" /\ step' = 0
    BY <2>2, <2>3 DEF Construct, control
  <2>4. ASSUME StartSearch
        PROVE  /\ pc' = "search" /\ uncover_stack' = {}
               /\ step' + Cardinality(cur_solu') <= Cardinality(Set)
    <3>1. /\ pc' = "search" /\ uncover_stack' = {} /\ step' = 0
          /\ cur_solu' = cur_solu
      BY <2>2, <2>4 DEF StartSearch, vars
    <3>2. Cardinality(cur_solu) \in Nat /\ Cardinality(cur_solu) <= Cardinality(Set)
      BY InstanceAssumption, FS_Subset, FS_CardinalityType DEF IInv, TypeOK
    <3>3. QED
      BY <3>1, <3>2
  <2>5. ASSUME NEW s \in Set, DropRedundant(s)
        PROVE  /\ pc' = "search" /\ uncover_stack' = {}
               /\ step' + Cardinality(cur_solu') <= Cardinality(Set)
    BY <2>1, <2>5, DropStep
  <2>6. ~NothingToDrop
    BY SomethingToDrop DEF NothingToDrop
  <2>7. /\ ~ \E s \in Set : Descend(s) \/ RemoveOther(s)
        /\ ~ \E v \in Var, b \in Set : Chosen(v, b)
        /\ ~Weigh /\ ~SwapIn
    BY <2>2 DEF Descend, RemoveOther, Chosen, Weigh, SwapIn
  <2>8. ~NothingToRemove
    BY <2>2, <2>7 DEF NothingToRemove
  <2>9. ASSUME TimeUp
        PROVE  UNCHANGED <<pc, step, uncover_stack, cur_solu>>
    BY <2>9 DEF TimeUp, vars
  <2>10. QED
    BY <1>3, <2>0, <2>2, <2>3, <2>4, <2>5, <2>6, <2>7, <2>8, <2>9
       DEF SearchNext, Turn, NoSetChosen, AddBest, SwapOut, RemoveOne
<1>4. QED
  BY <1>2, <1>3

(* A step reports a better solution, or stops with one, or neither.        *)
LEMMA PromiseStep ==
  ASSUME IInv, SearchInv, FirstCover', [SearchNext]_svars
  PROVE  [Promise!Next]_(Promise!vars)
<1> DEFINE Sols == {S \in SUBSET Set : Irredundant(S)}
           best == IF best_cost = INT_MAX THEN {NoSet} ELSE best_solu
<1>1. CASE UNCHANGED svars
  BY <1>1 DEF svars, control, Promise!vars
<1>2. CASE SearchNext /\ UNCHANGED <<best_solu, best_cost>>
  <2>1. best' = best /\ pc # "done"
    BY <1>2, StillOrRecord
  <2>2. CASE pc' # "done"
    BY <2>1, <2>2 DEF Promise!vars
  <2>3. CASE pc' = "done"
    <3>1. best_cost # INT_MAX
      BY <1>2, <2>3 DEF FirstCover
    <3>2. best_solu \subseteq Set
      BY DEF SearchInv, SearchTypeOK
    <3>3. best # {NoSet}
      BY <3>1, <3>2, InstanceAssumption
    <3>4. QED
      BY <2>1, <2>3, <3>3 DEF Promise!Next, Promise!Stop
  <2>4. QED
    BY <2>2, <2>3
<1>3. CASE RecordCover /\ ~UNCHANGED <<best_solu, best_cost>>
  <2>1. /\ cur_cost < best_cost /\ best_cost' = cur_cost /\ best_solu' = cur_solu
        /\ pc = "search" /\ pc' = "descend"
    BY <1>3 DEF RecordCover, Better
  <2>2. cur_solu \in Sols
    BY <1>3, CoverFound DEF RecordCover, IInv, TypeOK
  <2>3. cur_cost = SolutionCost(cur_solu) /\ best' = cur_solu
    BY <2>1, CostBelowMax DEF IInv, CostExact, SolutionCost
  <2>4. ASSUME best # {NoSet}
        PROVE  best \in Sols /\ SolutionCost(best) = best_cost
    BY <2>4 DEF SearchInv, BestExact
  <2>5. Promise!Improve(cur_solu)
    BY <2>1, <2>2, <2>3, <2>4 DEF Promise!Improve
  <2>6. QED
    BY <2>2, <2>5 DEF Promise!Next
<1>4. QED
  BY <1>1, <1>2, <1>3, StillOrRecord

(* Where every set costs something and a try has more turns than there are *)
(* sets, local_search reports irredundant covers only, each cheaper than   *)
(* the last, and does not return before it has reported one: the "best solu*)
(* is wrong in 0" of check_solu is not printed.                            *)
THEOREM PromiseKept ==
  ASSUME PositiveCosts, EnoughTurns
  PROVE  SearchSpec => KeepsPromise
<1>1. SearchInit => FirstCover
  BY DEF SearchInit, FirstCover
<1>2. SearchInit => Promise!Init
  BY DEF SearchInit, Promise!Init
<1>3. IInv /\ SearchInv /\ FirstCover /\ [SearchNext]_svars => IInv' /\ FirstCover'
  BY StepFlips, NextIInv, FirstCoverStep
<1>4. IInv /\ SearchInv /\ FirstCover' /\ [SearchNext]_svars
        => [Promise!Next]_(Promise!vars)
  BY PromiseStep
<1>5. QED
  BY <1>1, <1>2, <1>3, <1>4, SearchInvariant, PTL DEF SearchSpec, KeepsPromise, Promise!Spec

-----------------------------------------------------------------------------
(* The rules of the code.                                                  *)

(* With its rules the search does nothing it could not do without them.    *)
LEMMA LocalStep ==
  ASSUME IInv, [LocalNext]_lvars
  PROVE  [SearchNext]_svars
<1>1. cur_solu \subseteq Set /\ uncover_stack \subseteq Var /\ zero_stack \subseteq Set
  BY DEF IInv, TypeOK
<1>2. \A v \in Var : Sets[v] \subseteq Set
  BY RowColumn
<1>3. CASE UNCHANGED lvars
  BY <1>3 DEF lvars
<1>4. CASE ConstructBest
  <2>1. PICK v \in uncover_stack : Construct(v, BestOf(var_set[v]))
    BY <1>4 DEF ConstructBest
  <2>2. v \in Var /\ BestOf(var_set[v]) \in Set
    BY <1>1, <1>2, <2>1 DEF Construct
  <2>3. QED
    BY <2>1, <2>2 DEF SearchNext, Turn
<1>5. CASE DropCostly
  BY <1>1, <1>5 DEF DropCostly, SearchNext, Turn
<1>6. CASE DescendBest
  BY <1>1, <1>6 DEF DescendBest, Descend, SearchNext, Turn
<1>7. CASE AddNovel
  <2>1. PICK v \in uncover_stack : \E b : AddBest(v, b)
    BY <1>7 DEF AddNovel
  <2>2. PICK b : AddBest(v, b)
    BY <2>1
  <2>3. v \in Var /\ b \in Set
    BY <1>1, <1>2, <2>2 DEF AddBest, Chosen
  <2>4. QED
    BY <2>2, <2>3 DEF SearchNext, Turn
<1>8. CASE SwapOutBest
  <2>1. PICK v, b, s : SwapOut(v, b, s)
    BY <1>8 DEF SwapOutBest
  <2>2. v \in Var /\ b \in Set /\ s \in Set
    BY <1>1, <1>2, <2>1 DEF SwapOut, Chosen
  <2>3. QED
    BY <2>1, <2>2 DEF SearchNext, Turn
<1>9. CASE RemoveOneBest
  <2>1. PICK v, b, s : RemoveOne(v, b, s)
    BY <1>9 DEF RemoveOneBest
  <2>2. v \in Var /\ b \in Set /\ s \in Set
    BY <1>1, <1>2, <2>1 DEF RemoveOne, Chosen
  <2>3. QED
    BY <2>1, <2>2 DEF SearchNext, Turn
<1>10. CASE RemoveOtherBest
  BY <1>1, <1>10 DEF RemoveOtherBest, RemoveOther, SearchNext, Turn
<1>11. CASE SwapInPick
  BY <1>11 DEF SwapInPick, SearchNext, Turn
<1>12. CASE StartSearch \/ RecordCover \/ Weigh \/ TimeUp
  BY <1>12 DEF SearchNext, Turn
<1>13. CASE (NothingToDrop /\ Return) \/ ReturnEmpty
  BY <1>13 DEF ReturnEmpty, NoSetChosen, SearchNext, Turn
<1>14. QED
  BY <1>3, <1>4, <1>5, <1>6, <1>7, <1>8, <1>9, <1>10, <1>11, <1>12, <1>13
     DEF LocalNext, LocalTurn

(***************************************************************************)
(* The search with compareV2, the tabu list and the time stamps implements *)
(* the search that picks by any rule: what the theorems above say holds of *)
(* local_search as the code has it (wscp.h:1562-1676).                     *)
(***************************************************************************)
THEOREM RulesImplement == LocalSpec => SearchSpec
<1>1. LocalInit => IInv /\ SearchInv /\ SearchInit
  BY InitIInv, SearchInvInit DEF LocalInit, SearchInit
<1>2. IInv /\ SearchInv /\ [LocalNext]_lvars => [SearchNext]_svars
  BY LocalStep
<1>3. IInv /\ SearchInv /\ [SearchNext]_svars => (IInv /\ SearchInv)'
  BY StepFlips, NextIInv, SearchInvStep
<1>4. QED
  BY <1>1, <1>2, <1>3, PTL DEF LocalSpec, SearchSpec

LEMMA Signs ==
  ASSUME NEW n \in Int
  PROVE  Sign(n) < 0 <=> n < 0
BY DEF Sign

(* What is worse than another is worse than one that scores more.          *)
LEMMA CompareMonotone ==
  ASSUME NEW s1 \in Int, NEW c1 \in Nat, NEW s2 \in Int, NEW c2 \in Nat,
         NEW r \in Int, s2 <= r, compare(s1, c1, s2, c2) < 0
  PROVE  compare(s1, c1, r, c2) < 0
<1>1. CASE c1 = c2
  <2>1. s1 - s2 < 0
    BY <1>1, Signs DEF compare
  <2>2. s1 - r < 0
    BY <2>1
  <2>3. QED
    BY <1>1, <2>2, Signs DEF compare
<1>2. CASE c1 # c2
  <2>1. s1 * c2 \in Int /\ s2 * c1 \in Int /\ r * c1 \in Int
    OBVIOUS
  <2>2. s1 * c2 - s2 * c1 < 0
    BY <1>2, <2>1, Signs DEF compare
  <2>3. s2 * c1 <= r * c1
    OBVIOUS
  <2>4. s1 * c2 - r * c1 < 0
    BY <2>1, <2>2, <2>3
  <2>5. QED
    BY <1>2, <2>1, <2>4, Signs DEF compare
<1>3. QED
  BY <1>1, <1>2

(* When a set leaves, none of the others is worth less.                    *)
LEMMA LossRaises ==
  ASSUME IInv, IInv', NEW s \in cur_solu, NEW b \in Set \ cur_solu, flip(s)
  PROVE  /\ score[b] \in Int /\ score'[b] \in Int /\ score[b] <= score'[b]
         /\ score[s] \in Int /\ score'[s] = -score[s]
<1>1. TypeOK /\ TypeOK' /\ LocalScore /\ LocalScore' /\ WitnessExact /\ s \in Set
  BY DEF IInv, TypeOK
<1>2. /\ cur_solu' = cur_solu \ {s} /\ weight' = weight
      /\ cover_count' = [v \in Var |->
           IF v \in set_var[s] THEN cover_count[v] - 1 ELSE cover_count[v]]
      /\ score'[s] = -score[s]
  BY <1>1 DEF flip, FlipOut
<1> DEFINE old == Counting(0, set_var[b])
           new == {v \in set_var[b] : cover_count'[v] = 0}
<1>3. new \in SUBSET Var /\ old \in SUBSET new
  <2>1. set_var[b] \subseteq Var
    BY RowColumn
  <2>2. ASSUME NEW v \in old PROVE v \in new
    <3>1. v \in Var /\ v \in set_var[b] /\ cover_count[v] = 0
      BY <2>1, <2>2 DEF Counting
    <3>2. v \notin set_var[s]
      BY <1>1, <3>1, Witnesses, RowColumn
    <3>3. QED
      BY <1>2, <3>1, <3>2
  <2>3. QED
    BY <2>1, <2>2
<1>4. score[b] = Total(weight, old)
  BY <1>1 DEF LocalScore, Weight
<1>5. score'[b] = Total(weight, new)
  BY <1>1, <1>2 DEF LocalScore, Weight, Counting
<1>6. IsFiniteSet(Var) /\ weight \in [Var -> Nat]
  BY <1>1, InstanceAssumption DEF TypeOK
<1>7. Total(weight, old) <= Total(weight, new)
  BY <1>3, <1>6, TotalMonotone
<1>8. QED
  BY <1>1, <1>2, <1>4, <1>5, <1>7 DEF TypeOK

(* A swap begins with the loss of a set that is worth less.                *)
LEMMA SwapBegins ==
  ASSUME IInv, IInv', LocalTypeOK, SwapOutBest PROVE SwapPays'
<1>1. PICK v, b, s : /\ SwapOut(v, b, s) /\ WorthSwapping(s, b) /\ Stamp(s)
  BY DEF SwapOutBest
<1>2. /\ v \in uncover_stack /\ b \in Sets[v] /\ s \in cur_solu /\ flip(s)
      /\ pick' = b /\ step' = step
  BY <1>1 DEF SwapOut, Chosen
<1>3. TypeOK /\ WitnessExact
  BY DEF IInv
<1>4. v \in Var /\ s \in Set /\ b \in Set \ cur_solu
  <2>1. v \in Var /\ s \in Set /\ b \in Set
    BY <1>2, <1>3, RowColumn DEF TypeOK
  <2>2. cover_count[v] = 0
    BY <1>2, <1>3, <2>1, Uncovered
  <2>3. QED
    BY <1>2, <1>3, <2>1, <2>2, Witnesses
<1>5. /\ score[b] \in Int /\ score'[b] \in Int /\ score[b] <= score'[b]
      /\ score[s] \in Int /\ score'[s] = -score[s]
  BY <1>2, <1>4, LossRaises
<1>6. cost[s] \in Nat /\ cost[b] \in Nat
  BY <1>4, InstanceAssumption
<1>7. compare(-score[s], cost[s], score[b], cost[b]) < 0
  BY <1>1 DEF WorthSwapping
<1>8. compare(score'[s], cost[s], score'[b], cost[b]) < 0
  BY <1>5, <1>6, <1>7, CompareMonotone
<1>9. s \in Set \ (cur_solu' \cup {b})
  BY <1>2, <1>4 DEF flip, FlipOut
<1>10. time_stamp'[s] = step'
  BY <1>1, <1>2, <1>4 DEF Stamp, LocalTypeOK
<1>11. QED
  BY <1>2, <1>8, <1>9, <1>10 DEF SwapPays, compare

LocalIInv == IInv /\ SearchInv /\ LocalInv

LEMMA StampsStep ==
  ASSUME LocalTypeOK, [LocalNext]_lvars
  PROVE  time_stamp' \in [Set -> 0 .. max_step - 1]
<1>1. time_stamp \in [Set -> 0 .. max_step - 1] /\ step \in 0 .. max_step - 1
  BY DEF LocalTypeOK, SearchTypeOK
<1>2. (\E s : Stamp(s)) \/ UNCHANGED time_stamp
  BY DEF LocalNext, LocalTurn, ConstructBest, DropCostly, DescendBest, AddNovel,
         SwapOutBest, SwapInPick, RemoveOneBest, RemoveOtherBest, ReturnEmpty, lvars
<1>3. QED
  BY <1>1, <1>2 DEF Stamp

(* Only the first flip of a swap leads to its second.                      *)
LEMMA SwapStep ==
  ASSUME LocalIInv, [LocalNext]_lvars, IInv'
  PROVE  SwapPays'
<1>1. IInv /\ SearchInv /\ LocalTypeOK /\ SwapPays
  BY DEF LocalIInv, LocalInv
<1>2. CASE SwapOutBest
  BY <1>1, <1>2, SwapBegins
<1>3. CASE UNCHANGED lvars \/ (TimeUp /\ UNCHANGED time_stamp)
  BY <1>1, <1>3 DEF TimeUp, lvars, svars, control, vars, SwapPays
<1>4. CASE LocalTurn /\ ~SwapOutBest
  <2>1. pc' # "swap"
    BY <1>4 DEF LocalTurn, ConstructBest, Construct, control, StartSearch, DropCostly,
         DropRedundant, NothingToDrop, Return, RecordCover, DescendBest, Descend,
         AddNovel, AddBest, Weigh, SwapInPick, SwapIn, RemoveOneBest, RemoveOne,
         RemoveOtherBest, RemoveOther, ReturnEmpty, NextStep, CheckTime
  <2>2. QED
    BY <2>1 DEF SwapPays
<1>5. QED
  BY <1>2, <1>3, <1>4 DEF LocalNext

(***************************************************************************)
(* Time stamps are turns of a try, and a swap pays: between its two flips  *)
(* best_set still covers more weight for its cost than the set that left   *)
(* gave up, though the loss has changed the scores it was chosen by        *)
(* (wscp.h:1562-1676).                                                     *)
(***************************************************************************)
THEOREM SwapsPay == LocalSpec => []LocalInv
<1>1. LocalInit => LocalIInv
  <2>1. LocalInit => IInv /\ SearchInv
    BY InitIInv, SearchInvInit DEF LocalInit, SearchInit
  <2>2. 0 \in 0 .. max_step - 1
    BY SearchAssumption
  <2>3. LocalInit => time_stamp \in [Set -> 0 .. max_step - 1] /\ SwapPays
    BY <2>2 DEF LocalInit, SearchInit, SwapPays
  <2>4. QED
    BY <2>1, <2>3 DEF LocalIInv, LocalInv, LocalTypeOK, IInv, SearchInv
<1>2. LocalIInv /\ [LocalNext]_lvars => LocalIInv'
  <2>1. SUFFICES ASSUME LocalIInv, [LocalNext]_lvars PROVE LocalIInv'
    OBVIOUS
  <2>2. [SearchNext]_svars
    BY <2>1, LocalStep DEF LocalIInv
  <2>3. IInv' /\ SearchInv'
    BY <2>1, <2>2, StepFlips, NextIInv, SearchInvStep DEF LocalIInv
  <2>4. SwapPays'
    BY <2>1, <2>3, SwapStep
  <2>5. time_stamp' \in [Set -> 0 .. max_step - 1]
    BY <2>1, StampsStep DEF LocalIInv, LocalInv
  <2>6. QED
    BY <2>3, <2>4, <2>5 DEF LocalIInv, LocalInv, LocalTypeOK, IInv, SearchInv
<1>3. LocalIInv => LocalInv
  BY DEF LocalIInv
<1>4. QED
  BY <1>1, <1>2, <1>3, PTL DEF LocalSpec
-----------------------------------------------------------------------------
(* The scans of a row, for any row, ints and weights.                      *)

(* The value compared between sets of one cost.                            *)
Worth(x) == weight1 * is[x].score + weight2 * is[x].pscore

Ties(x, y) == ~Exceeds(x, y) /\ ~Exceeds(y, x)

(* The row has two different sets at least, and each is something.         *)
RowOK ==
  /\ row \in Seq(Nat \ {0}) /\ IsInjective(row) /\ Len(row) >= 2
  /\ is \in [InRow -> Candidates]

(* What a scan chooses from, and what it has looked at.                    *)
Pool == IF scan = "best" THEN InRow ELSE Rest
LookedAt(n) == {row[j] : j \in 1 .. n}
Seen == LookedAt(place - 1) \cap Pool

(* The values the scan compares with are those of x.                       *)
Leads(x) ==
  /\ sr = Cut(is[x].score) /\ ps = Cut(is[x].pscore)
  /\ ct = is[x].cost

(* A best set so far has been found, which ties with the one compared with. *)
ChosenWell ==
  Fit(Pool) /\ Transitive(Pool) /\ Seen # {} =>
    /\ IsBestOf(Found, Seen)
    /\ \E x \in Seen : Leads(x) /\ Ties(x, Found)

Clear(x) == \A y \in Pool \ {x} : Exceeds(x, y)

Winner ==
  scan = "best" /\ Fit(Pool) => \A x \in Seen : Clear(x) => Found = x /\ Leads(x)

Scanning ==
  /\ Seen = {} => sr = INT_MIN
  /\ Seen # {} => Found \in Seen /\ \E x \in Seen : Leads(x)
  /\ ChosenWell
  /\ Winner

(* What the first scan has found stands in the second.                     *)
BestStands ==
  /\ Fit(InRow) /\ Transitive(InRow) => IsBestOf(best_set, InRow)
  /\ ClearWinnerFound

RInv ==
  /\ RankTypeOK /\ RowOK
  /\ scan = "best" => sec_best_set = 0
  /\ scan = "second" =>
       best_set \in InRow /\ sec_best_set \in Rest \cup {0} /\ BestStands
  /\ scan # "done" => Scanning
  /\ ReturnsOfRow

-----------------------------------------------------------------------------
LEMMA Assumed ==
  /\ Half \in Nat /\ Half > 1 /\ Half \in Int /\ weight1 \in Int /\ weight2 \in Int
  /\ INT_MIN \in Int /\ INT_MIN \in Ints
<1>1. Half \in Nat /\ Half > 1 /\ weight1 \in Int /\ weight2 \in Int
  BY RankingAssumption, WeightsAssumption
<1>2. QED
  BY <1>1 DEF INT_MIN, Ints

LEMMA CutIs ==
  /\ \A n \in Int : Cut(n) \in Ints
  /\ \A n \in Ints : Cut(n) = n
<1>1. \A n \in Int, d \in Nat : d > 0 => n % d \in 0..d - 1
  OBVIOUS
<1>2. \A n \in Int, d \in Nat : n \in 0..d - 1 => n % d = n
  OBVIOUS
<1>3. QED
  BY <1>1, <1>2, Assumed DEF Cut, Ints

(* What the sets are.                                                      *)
LEMMA SetsAre ==
  ASSUME RowOK, NEW x \in InRow
  PROVE  /\ is[x].score \in Int /\ is[x].pscore \in Int /\ is[x].time_stamp \in Int
         /\ is[x].cost \in 1 .. Half - 1 /\ is[x].cost \in Int /\ is[x].cost > 0
         /\ Worth(x) \in Int
<1>1. is[x] \in Candidates
  BY DEF RowOK
<1>2. is[x] \in [score : Int, pscore : Int, cost : 1 .. Half - 1, time_stamp : Int]
  BY <1>1, RankingAssumption DEF RowOK
<1>3. /\ is[x].score \in Int /\ is[x].pscore \in Int /\ is[x].time_stamp \in Int
      /\ is[x].cost \in 1 .. Half - 1
  BY <1>2
<1>4. QED
  BY <1>3, Assumed DEF Worth

(* Larger numbers in a product.                                            *)
LEMMA TimesMore ==
  ASSUME NEW a \in Int, NEW b \in Int, NEW k \in Int, k > 0
  PROVE  a > b <=> a * k > b * k
OBVIOUS

(* If a is more per p than b is per q, and b no less per q than c per r,   *)
(* then a is more per p than c per r; and so when the first is no less and *)
(* the second is more.                                                     *)
LEMMA PerCost ==
  ASSUME NEW a \in Int, NEW b \in Int, NEW c \in Int, NEW p \in Int, NEW q \in Int, NEW r \in Int,
         p > 0, q > 0, r > 0
  PROVE  /\ a * q > b * p /\ ~(c * q > b * r) => a * r > c * p
         /\ ~(b * p > a * q) /\ b * r > c * q => a * r > c * p
<1> DEFINE aqr == (a * r) * q
           bpr == (b * p) * r
           cpq == (c * p) * q
<1>1. aqr \in Int /\ bpr \in Int /\ cpq \in Int
  OBVIOUS
<1>2. (a * q) * r = aqr /\ (b * r) * p = bpr /\ (c * q) * p = cpq
  OBVIOUS
<1>3. a * q > b * p <=> aqr > bpr
  BY <1>2, TimesMore
<1>4. b * p > a * q <=> bpr > aqr
  BY <1>2, TimesMore
<1>5. c * q > b * r <=> cpq > bpr
  BY <1>2, TimesMore
<1>6. b * r > c * q <=> bpr > cpq
  BY <1>2, TimesMore
<1>7. a * r > c * p <=> aqr > cpq
  BY TimesMore
<1> HIDE DEF aqr, bpr, cpq
<1>8. QED
  BY <1>1, <1>3, <1>4, <1>5, <1>6, <1>7

LEMMA Asymmetric ==
  ASSUME RowOK, NEW x \in InRow, NEW y \in InRow, Exceeds(x, y)
  PROVE  ~Exceeds(y, x) /\ x # y
<1>1. \A u \in {x, y} : is[u].score \in Int /\ is[u].cost \in Int /\ Worth(u) \in Int
  BY SetsAre
<1>2. CASE is[x].cost = is[y].cost
  <2>1. Worth(x) > Worth(y)
    BY <1>2 DEF Exceeds, Worth
  <2>2. ~(Worth(y) > Worth(x)) /\ Worth(x) # Worth(y)
    BY <1>1, <2>1
  <2>3. QED
    BY <1>2, <2>2 DEF Exceeds, Worth
<1>3. CASE is[x].cost # is[y].cost
  BY <1>1, <1>3 DEF Exceeds
<1>4. QED
  BY <1>2, <1>3

(* Where the order is transitive, so are ties.                             *)
LEMMA WeakOrder ==
  ASSUME RowOK, NEW S \in SUBSET InRow, Transitive(S),
         NEW x \in S, NEW y \in S, NEW z \in S
  PROVE  /\ Exceeds(x, y) /\ ~Exceeds(z, y) => Exceeds(x, z)
         /\ ~Exceeds(y, x) /\ Exceeds(y, z) => Exceeds(x, z)
<1>1. \A u \in S : /\ is[u].score \in Int /\ is[u].cost \in Int /\ is[u].cost > 0
                   /\ Worth(u) \in Int
  BY SetsAre
<1>2. CASE \A u, v \in S : is[u].cost = is[v].cost
  <2>1. \A u, v \in S : Exceeds(u, v) <=> Worth(u) > Worth(v)
    BY <1>2 DEF Exceeds, Worth
  <2>2. QED
    BY <1>1, <2>1
<1>3. CASE \A u, v \in S : u # v => is[u].cost # is[v].cost
  <2>1. \A u, v \in S : Exceeds(u, v) <=> is[u].score * is[v].cost > is[v].score * is[u].cost
    <3> SUFFICES ASSUME NEW u \in S, NEW v \in S
                 PROVE  Exceeds(u, v) <=> is[u].score * is[v].cost > is[v].score * is[u].cost
      OBVIOUS
    <3>1. CASE u = v
      <4>1. ~(Worth(u) > Worth(u)) /\ ~(is[u].score * is[u].cost > is[u].score * is[u].cost)
        BY <1>1
      <4>2. QED
        BY <3>1, <4>1 DEF Exceeds, Worth
    <3>2. CASE u # v
      BY <1>3, <3>2 DEF Exceeds
    <3>3. QED
      BY <3>1, <3>2
  <2>2. QED
    BY <1>1, <2>1, PerCost
<1>4. QED
  BY <1>2, <1>3 DEF Transitive

(* With light weights the scan compares as the exact order does.           *)
LEMMA OrderMeans ==
  ASSUME RowOK, NEW S \in SUBSET InRow, Fit(S), NEW x \in S, NEW y \in S, Leads(y)
  PROVE  /\ sr # INT_MIN
         /\ Order(x) < 0 <=> Exceeds(x, y)
         /\ Order(x) = 0 <=> Ties(x, y)
<1>1. /\ \A u \in {x, y} : /\ is[u].score \in Int /\ is[u].pscore \in Int /\ is[u].cost \in Int
                           /\ Worth(u) \in Int
  BY SetsAre
<1>2. \A u \in {x, y} :
        /\ Cut(is[u].score) = is[u].score /\ Cut(is[u].pscore) = is[u].pscore
        /\ Cut(weight1 * is[u].score) = weight1 * is[u].score
        /\ Cut(weight2 * is[u].pscore) = weight2 * is[u].pscore
        /\ Cut(Worth(u)) = Worth(u) /\ is[u].score # INT_MIN
  BY CutIs DEF Fit, Worth
<1>3. \A u \in {x, y} : combined(is[u].score, is[u].pscore) = Worth(u)
  BY <1>2 DEF combined, Worth
<1>4. sr = is[y].score /\ ps = is[y].pscore /\ ct = is[y].cost
  BY <1>2 DEF Leads
<1>5. \A n \in Int : (Sign(n) < 0 <=> n < 0) /\ (Sign(n) = 0 <=> n = 0)
  BY DEF Sign
<1>6. CASE is[y].cost = is[x].cost
  <2>1. Order(x) = Sign(Worth(y) - Worth(x))
    BY <1>2, <1>3, <1>4, <1>6 DEF Order, compareV2Cut
  <2>2. (Exceeds(x, y) <=> Worth(x) > Worth(y)) /\ (Exceeds(y, x) <=> Worth(y) > Worth(x))
    BY <1>6 DEF Exceeds, Worth
  <2> DEFINE v == Worth(x)
             w == Worth(y)
  <2>3. v \in Int /\ w \in Int
    BY <1>1
  <2> HIDE DEF v, w
  <2>4. (Sign(w - v) < 0 <=> v > w) /\ (Sign(w - v) = 0 <=> ~(v > w) /\ ~(w > v))
    BY <1>5, <2>3
  <2>5. QED
    BY <1>2, <1>4, <2>1, <2>2, <2>4 DEF Ties, v, w
<1>7. CASE is[y].cost # is[x].cost
  <2> DEFINE v == is[x].score * is[y].cost
             w == is[y].score * is[x].cost
  <2>1. Order(x) = Sign(w - v)
    BY <1>2, <1>4, <1>7 DEF Order, compareV2Cut
  <2>2. (Exceeds(x, y) <=> v > w) /\ (Exceeds(y, x) <=> w > v)
    BY <1>7 DEF Exceeds
  <2>3. v \in Int /\ w \in Int
    BY <1>1
  <2> HIDE DEF v, w
  <2>4. (Sign(w - v) < 0 <=> v > w) /\ (Sign(w - v) = 0 <=> ~(v > w) /\ ~(w > v))
    BY <1>5, <2>3
  <2>5. QED
    BY <1>2, <1>4, <2>1, <2>2, <2>4 DEF Ties
<1>8. QED
  BY <1>6, <1>7

(* What a set more does to the choice.                                     *)
LEMMA BestOfMore ==
  ASSUME RowOK, NEW S \in SUBSET InRow, Fit(S), Transitive(S),
         NEW Q \in SUBSET S, NEW f \in Q, NEW y \in Q, NEW x \in S,
         Leads(y), Ties(y, f), IsBestOf(f, Q)
  PROVE  /\ Order(x) < 0 => IsBestOf(x, Q \cup {x})
         /\ Order(x) = 0 => Ties(y, x)
         /\ Order(x) = 0 /\ WinsTie(x, f) => IsBestOf(x, Q \cup {x})
         /\ ~(Order(x) < 0) /\ ~(Order(x) = 0 /\ WinsTie(x, f)) => IsBestOf(f, Q \cup {x})
<1>1. /\ Order(x) < 0 <=> Exceeds(x, y)
      /\ Order(x) = 0 <=> Ties(x, y)
  BY OrderMeans
<1>2. \A u, v, w \in S : /\ Exceeds(u, v) /\ ~Exceeds(w, v) => Exceeds(u, w)
                         /\ ~Exceeds(v, u) /\ Exceeds(v, w) => Exceeds(u, w)
  BY WeakOrder
<1>3. \A u \in S : ~Exceeds(u, u)
  BY SetsAre DEF Exceeds, Worth
<1>4. \A u, v \in S : Exceeds(u, v) => ~Exceeds(v, u)
  BY Asymmetric
<1>5. \A u \in S : is[u].pscore \in Int /\ is[u].time_stamp \in Int
  BY SetsAre
<1>6. ASSUME Exceeds(x, y) PROVE IsBestOf(x, Q \cup {x})
  <2>1. Exceeds(x, f)
    BY <1>2, <1>6 DEF Ties
  <2>2. \A z \in Q : Exceeds(x, z)
    BY <1>2, <2>1 DEF IsBestOf
  <2>3. QED
    BY <1>3, <1>4, <1>5, <2>2 DEF IsBestOf
<1>7. ASSUME Ties(x, y) PROVE Ties(x, f)
  BY <1>2, <1>4, <1>7 DEF Ties
<1>8. ASSUME Ties(x, y), WinsTie(x, f) PROVE IsBestOf(x, Q \cup {x})
  <2>1. Ties(x, f)
    BY <1>7, <1>8
  <2>2. ASSUME NEW z \in Q
        PROVE  /\ ~Exceeds(z, x)
               /\ \/ Exceeds(x, z) \/ is[x].pscore > is[z].pscore
                  \/ is[x].pscore = is[z].pscore /\ is[x].time_stamp <= is[z].time_stamp
    <3>1. /\ ~Exceeds(z, f)
          /\ \/ Exceeds(f, z) \/ is[f].pscore > is[z].pscore
             \/ is[f].pscore = is[z].pscore /\ is[f].time_stamp <= is[z].time_stamp
      BY DEF IsBestOf
    <3>2. ~Exceeds(z, x)
      BY <1>2, <2>1, <3>1 DEF Ties
    <3>3. Exceeds(f, z) => Exceeds(x, z)
      BY <1>2, <2>1 DEF Ties
    <3>4. QED
      BY <1>5, <1>8, <3>1, <3>2, <3>3 DEF WinsTie
  <2>3. QED
    BY <1>3, <1>5, <2>2 DEF IsBestOf
<1>9. ASSUME ~Exceeds(x, y), ~(Ties(x, y) /\ WinsTie(x, f)) PROVE IsBestOf(f, Q \cup {x})
  <2>1. /\ ~Exceeds(x, f)
        /\ \/ Exceeds(f, x) \/ is[f].pscore > is[x].pscore
           \/ is[f].pscore = is[x].pscore /\ is[f].time_stamp <= is[x].time_stamp
    <3>1. CASE Exceeds(y, x)
      <4>1. Exceeds(f, x)
        BY <1>2, <3>1 DEF Ties
      <4>2. QED
        BY <1>4, <4>1
    <3>2. CASE ~Exceeds(y, x)
      <4>1. Ties(x, y) /\ Ties(x, f)
        BY <1>7, <1>9, <3>2 DEF Ties
      <4>2. ~WinsTie(x, f)
        BY <1>9, <4>1
      <4>3. QED
        BY <1>5, <4>1, <4>2 DEF Ties, WinsTie
    <3>3. QED
      BY <3>1, <3>2
  <2>2. QED
    BY <2>1 DEF IsBestOf
<1>10. Ties(x, y) <=> Ties(y, x)
  BY DEF Ties
<1>11. QED
  BY <1>1, <1>6, <1>8, <1>9, <1>10

(* What a scan has looked at.                                              *)
LEMMA SeenAre ==
  ASSUME RowOK
  PROVE  /\ DOMAIN row = 1 .. Len(row) /\ Len(row) \in Nat
         /\ LookedAt(0) = {} /\ LookedAt(Len(row)) = InRow
         /\ \A k \in 1 .. Len(row) : /\ row[k] \in InRow
                                     /\ row[k] \notin LookedAt(k - 1)
                                     /\ LookedAt(k) = LookedAt(k - 1) \cup {row[k]}
         /\ InRow # {} /\ \A x : InRow \ {x} # {}
<1>1. DOMAIN row = 1 .. Len(row) /\ Len(row) \in Nat /\ Len(row) >= 2
  BY DEF RowOK
<1>2. LookedAt(0) = {} /\ LookedAt(Len(row)) = InRow
  BY <1>1 DEF LookedAt, InRow
<1>3. ASSUME NEW k \in 1 .. Len(row)
      PROVE  row[k] \in InRow /\ row[k] \notin LookedAt(k - 1)
             /\ LookedAt(k) = LookedAt(k - 1) \cup {row[k]}
  <2>1. row[k] \in InRow
    BY <1>1 DEF InRow
  <2>2. \A j \in 1 .. k - 1 : j \in DOMAIN row /\ j # k
    BY <1>1
  <2>3. row[k] \notin LookedAt(k - 1)
    BY <1>1, <2>2 DEF LookedAt, RowOK, IsInjective
  <2>4. \A j : j \in 1 .. k <=> j \in 1 .. k - 1 \/ j = k
    BY <1>1
  <2>5. LookedAt(k) = LookedAt(k - 1) \cup {row[k]}
    BY <2>4 DEF LookedAt
  <2>6. QED
    BY <2>1, <2>3, <2>5
<1>4. row[1] \in InRow /\ row[2] \in InRow /\ row[1] # row[2]
  BY <1>1 DEF InRow, RowOK, IsInjective
<1>5. QED
  BY <1>1, <1>2, <1>3, <1>4

-----------------------------------------------------------------------------
(* The steps.                                                              *)

LEMMA InitRanking ==
  RankInit => RInv
<1> SUFFICES ASSUME RankInit PROVE RInv
  OBVIOUS
<1> USE DEF RankInit
<1>1. RowOK
  BY RankingAssumption DEF RowOK
<1>2. RankTypeOK
  <2>1. ps \in Ints /\ sr \in Ints /\ ct \in Ints
    BY Assumed DEF Ints, INT_MIN
  <2>2. place \in 1 .. Len(row) + 1
    BY <1>1, SeenAre
  <2>3. QED
    BY <2>1, <2>2 DEF RankTypeOK
<1>3. Seen = {}
  BY <1>1, SeenAre DEF Seen
<1>4. Scanning
  BY <1>3 DEF Scanning, ChosenWell, Winner
<1>5. QED
  BY <1>1, <1>2, <1>4 DEF RInv, ReturnsOfRow

(* The three ways a set that is looked at goes.                            *)
Takes(x) ==
  /\ sr = INT_MIN \/ Order(x) < 0
  /\ Finds(x)
  /\ sr' = Cut(is[x].score) /\ ps' = Cut(is[x].pscore)
  /\ ct' = is[x].cost
TakesTie(x) ==
  /\ ~(sr = INT_MIN \/ Order(x) < 0)
  /\ Order(x) = 0 /\ WinsTie(x, Found)
  /\ Finds(x) /\ UNCHANGED <<sr, ct, ps>>
Passes(x) ==
  /\ ~(sr = INT_MIN \/ Order(x) < 0)
  /\ ~(Order(x) = 0 /\ WinsTie(x, Found))
  /\ UNCHANGED <<sr, ct, ps, best_set, sec_best_set>>

LEMMA ThreeWays ==
  ASSUME NEW x, Judge(x), ~Skips(x)
  PROVE  Takes(x) \/ TakesTie(x) \/ Passes(x)
BY DEF Judge, Takes, TakesTie, Passes

(* A set that may be chosen is looked at.                                  *)
LEMMA LookScans ==
  ASSUME RInv, Look, NEW x, x = row[place], ~Skips(x)
  PROVE  Scanning' /\ Found' \in Pool
<1>1. /\ RowOK /\ RankTypeOK /\ Scanning /\ scan \in {"best", "second"}
      /\ place \in 1 .. Len(row) /\ place' = place + 1 /\ UNCHANGED <<row, is, scan>>
  BY SeenAre DEF RInv, Look, RankTypeOK
<1>2. Takes(x) \/ TakesTie(x) \/ Passes(x)
  BY ThreeWays DEF Look
<1>3. /\ Found' = IF Passes(x) THEN Found ELSE x
      /\ scan = "second" => best_set' = best_set
  <2>1. CASE Passes(x)
    BY <1>1, <2>1 DEF Passes, Found
  <2>2. CASE ~Passes(x)
    <3>1. Finds(x)
      BY <1>2, <2>2 DEF Takes, TakesTie
    <3>2. QED
      BY <1>1, <2>2, <3>1 DEF Finds, Found
  <2>3. QED
    BY <2>1, <2>2
<1>4. InRow' = InRow /\ Pool' = Pool /\ Pool \in SUBSET InRow
  BY <1>1, <1>3 DEF InRow, Pool, Rest
<1>5. x \in Pool /\ x \notin Seen /\ Seen' = Seen \cup {x} /\ Seen \in SUBSET Pool
  <2>1. x \in Pool
    BY <1>1, SeenAre DEF Skips, Pool, Rest
  <2>2. place' - 1 = place
    BY <1>1
  <2>3. Seen' = LookedAt(place) \cap Pool
    BY <1>1, <1>4, <2>2 DEF Seen, LookedAt
  <2>4. LookedAt(place) = LookedAt(place - 1) \cup {x} /\ x \notin LookedAt(place - 1)
    BY <1>1, SeenAre
  <2>5. QED
    BY <2>1, <2>3, <2>4 DEF Seen
<1>6. /\ Fit(Pool)' <=> Fit(Pool)
      /\ Transitive(Pool)' <=> Transitive(Pool)
      /\ \A z : Clear(z)' <=> Clear(z)
      /\ \A y, z : Ties(y, z)' <=> Ties(y, z)
  BY <1>1, <1>4 DEF Fit, Transitive, Clear, Ties, Exceeds
<1>7. /\ Takes(x) => Leads(x)'
      /\ ~Takes(x) => \A y : Leads(y)' <=> Leads(y)
  BY <1>1, <1>2 DEF Takes, TakesTie, Passes, Leads
<1>8. Seen = {} => Takes(x)
  BY <1>1, <1>2 DEF Scanning, TakesTie, Passes
<1>9. Found' \in Seen' /\ \E y \in Seen' : Leads(y)'
  <2>1. Seen # {} => Found \in Seen /\ \E y \in Seen : Leads(y)
    BY <1>1 DEF Scanning
  <2>2. Passes(x) => ~Takes(x)
    BY DEF Passes, Takes
  <2>3. Found' \in Seen'
    BY <1>3, <1>5, <1>8, <2>1, <2>2
  <2>4. \E y \in Seen' : Leads(y)'
    BY <1>5, <1>7, <1>8, <2>1
  <2>5. QED
    BY <2>3, <2>4
<1>10. ChosenWell'
  <2> SUFFICES ASSUME Fit(Pool), Transitive(Pool)
               PROVE  /\ IsBestOf(Found', Seen \cup {x})
                      /\ \E y \in Seen \cup {x} : Leads(y)' /\ Ties(y, Found')
    <3>1. IsBestOf(Found, Seen)' <=> IsBestOf(Found', Seen \cup {x})
      BY <1>1, <1>5 DEF IsBestOf, Exceeds
    <3>2. QED
      BY <1>5, <1>6, <3>1 DEF ChosenWell
  <2>1. CASE Seen = {}
    <3>1. Takes(x) /\ Found' = x
      BY <1>3, <1>8, <2>1 DEF Takes, Passes
    <3>2. ~Exceeds(x, x) /\ is[x].time_stamp <= is[x].time_stamp
      <4>1. x \in InRow
        BY <1>4, <1>5
      <4>2. is[x].time_stamp \in Int
        BY <1>1, <4>1, SetsAre
      <4>3. ~Exceeds(x, x)
        BY <1>1, <4>1, Asymmetric
      <4>4. QED
        BY <4>2, <4>3
    <3>3. QED
      BY <1>7, <2>1, <3>1, <3>2 DEF IsBestOf, Ties
  <2>2. CASE Seen # {}
    <3>1. IsBestOf(Found, Seen) /\ Found \in Seen
      BY <1>1, <2>2 DEF Scanning, ChosenWell
    <3>2. PICK y \in Seen : Leads(y) /\ Ties(y, Found)
      BY <1>1, <2>2 DEF Scanning, ChosenWell
    <3>3. y \in Pool
      BY <1>5
    <3>4. sr # INT_MIN
      BY <1>1, <1>4, <1>5, <3>2, <3>3, OrderMeans
    <3>5. /\ Order(x) < 0 => IsBestOf(x, Seen \cup {x})
          /\ Order(x) = 0 => Ties(y, x)
          /\ Order(x) = 0 /\ WinsTie(x, Found) => IsBestOf(x, Seen \cup {x})
          /\ ~(Order(x) < 0) /\ ~(Order(x) = 0 /\ WinsTie(x, Found))
               => IsBestOf(Found, Seen \cup {x})
      BY <1>1, <1>4, <1>5, <3>1, <3>2, BestOfMore
    <3>6. CASE Takes(x)
      <4>1. Order(x) < 0 /\ Found' = x
        BY <1>3, <3>4, <3>6 DEF Takes, Passes
      <4>2. ~Exceeds(x, x)
        BY <1>1, <1>4, <1>5, Asymmetric
      <4>3. QED
        BY <1>7, <3>5, <3>6, <4>1, <4>2 DEF Ties
    <3>7. CASE TakesTie(x)
      <4>1. Order(x) = 0 /\ WinsTie(x, Found) /\ Found' = x /\ ~Takes(x)
        BY <1>3, <3>7 DEF TakesTie, Takes, Passes
      <4>2. QED
        BY <1>7, <3>2, <3>5, <4>1
    <3>8. CASE Passes(x)
      <4>1. /\ ~(Order(x) < 0) /\ ~(Order(x) = 0 /\ WinsTie(x, Found))
            /\ Found' = Found /\ ~Takes(x)
        BY <1>3, <3>8 DEF Takes, Passes
      <4>2. QED
        BY <1>7, <3>2, <3>5, <4>1
    <3>9. QED
      BY <1>2, <3>6, <3>7, <3>8
  <2>3. QED
    BY <2>1, <2>2
<1>11. Winner'
  <2> SUFFICES ASSUME scan = "best", Fit(Pool), NEW z \in Seen \cup {x}, Clear(z)
               PROVE  Found' = z /\ Leads(z)'
    BY <1>1, <1>5, <1>6 DEF Winner
  <2>1. CASE z = x
    <3>1. Takes(x)
      <4>1. SUFFICES ASSUME Seen # {} PROVE Takes(x)
        BY <1>8
      <4>2. PICK y \in Seen : Leads(y)
        BY <1>1, <4>1 DEF Scanning
      <4>3. y \in Pool \ {x}
        BY <1>5
      <4>4. Exceeds(x, y)
        BY <2>1, <4>3 DEF Clear
      <4>5. Order(x) < 0
        BY <1>1, <1>4, <1>5, <4>2, <4>3, <4>4, OrderMeans
      <4>6. QED
        BY <1>2, <4>5 DEF TakesTie, Passes
    <3>2. QED
      BY <1>3, <1>7, <2>1, <3>1 DEF Takes, Passes
  <2>2. CASE z # x
    <3>1. z \in Seen /\ Found = z /\ Leads(z)
      BY <1>1, <2>2 DEF Scanning, Winner
    <3>2. Exceeds(z, x)
      BY <1>5, <2>2 DEF Clear
    <3>3. ~Exceeds(x, z)
      BY <1>1, <1>4, <1>5, <3>1, <3>2, Asymmetric
    <3>4. sr # INT_MIN /\ ~(Order(x) < 0) /\ ~(Order(x) = 0)
      BY <1>1, <1>4, <1>5, <3>1, <3>2, <3>3, OrderMeans DEF Ties
    <3>5. Passes(x) /\ ~Takes(x)
      BY <1>2, <3>4 DEF Takes, TakesTie
    <3>6. QED
      BY <1>3, <1>7, <3>1, <3>5
  <2>3. QED
    BY <2>1, <2>2
<1>12. Scanning'
  BY <1>5, <1>9, <1>10, <1>11 DEF Scanning
<1>13. Found' \in Pool
  BY <1>5, <1>9
<1>14. QED
  BY <1>12, <1>13

LEMMA LookStep ==
  ASSUME RInv, Look
  PROVE  RInv'
<1>1. PICK x : x = row[place]
  OBVIOUS
<1>2. /\ RowOK /\ RankTypeOK /\ Scanning /\ scan \in {"best", "second"}
      /\ place \in 1 .. Len(row) /\ place' = place + 1 /\ UNCHANGED <<row, is, scan>> /\ Judge(x)
  BY <1>1, SeenAre DEF RInv, Look, RankTypeOK
<1>3. InRow' = InRow /\ x \in InRow
  BY <1>1, <1>2, SeenAre DEF InRow
<1>4. /\ sr' \in Ints /\ ps' \in Ints /\ ct' \in Ints
      /\ scan = "best" => sec_best_set' = sec_best_set /\ best_set' \in {best_set, x}
      /\ scan = "second" => best_set' = best_set /\ sec_best_set' \in {sec_best_set, x}
      /\ Skips(x) => UNCHANGED <<sr, ct, ps, best_set, sec_best_set>>
  <2>1. \A y \in InRow : /\ Cut(is[y].score) \in Ints /\ Cut(is[y].pscore) \in Ints
                         /\ is[y].cost \in Ints
    <3>1. \A n \in Int : Cut(n) \in Ints
      BY <1>2, CutIs
    <3>2. \A y \in InRow : /\ is[y].score \in Int /\ is[y].pscore \in Int
                                /\ is[y].cost \in 1 .. Half - 1
      BY <1>2, SetsAre
    <3>3. 1 .. Half - 1 \subseteq Ints
      BY <1>2, Assumed DEF Ints
    <3>4. QED
      BY <3>1, <3>2, <3>3
  <2>2. sr \in Ints /\ ps \in Ints /\ ct \in Ints
    BY <1>2 DEF RankTypeOK
  <2>3. CASE Skips(x)
    BY <1>2, <2>2, <2>3 DEF Judge
  <2>4. CASE ~Skips(x)
    <3>1. Takes(x) \/ TakesTie(x) \/ Passes(x)
      BY <1>2, <2>4, ThreeWays
    <3>2. /\ scan = "best" => sec_best_set' = sec_best_set /\ best_set' \in {best_set, x}
          /\ scan = "second" => best_set' = best_set /\ sec_best_set' \in {sec_best_set, x}
      BY <3>1 DEF Takes, TakesTie, Passes, Finds
    <3>3. sr' \in Ints /\ ps' \in Ints /\ ct' \in Ints
      BY <1>3, <2>1, <2>2, <3>1 DEF Takes, TakesTie, Passes
    <3>4. QED
      BY <2>4, <3>2, <3>3
  <2>5. QED
    BY <2>3, <2>4
<1>5. RankTypeOK'
  <2>1. place' \in 1 .. Len(row) + 1
    BY <1>2, SeenAre
  <2>2. {best_set', sec_best_set'} \subseteq InRow \cup {0}
    BY <1>2, <1>3, <1>4 DEF RankTypeOK
  <2>3. QED
    BY <1>2, <1>3, <1>4, <2>1, <2>2 DEF RankTypeOK
<1>6. RowOK'
  BY <1>2, <1>3 DEF RowOK
<1>7. Scanning' /\ (~Skips(x) => Found' \in Pool)
  <2>1. CASE ~Skips(x)
    BY <1>1, <2>1, LookScans
  <2>2. CASE Skips(x)
    <3>1. UNCHANGED <<sr, ct, ps, best_set, sec_best_set>> /\ scan = "second" /\ x = best_set
      BY <1>4, <2>2 DEF Skips
    <3>2. Pool' = Pool /\ Found' = Found
      BY <1>2, <1>3, <3>1 DEF Pool, Rest, Found
    <3>3. Seen' = Seen
      <4>1. LookedAt(place) = LookedAt(place - 1) \cup {x}
        BY <1>1, <1>2, SeenAre
      <4>2. x \notin Pool
        BY <3>1 DEF Pool, Rest
      <4>3. Seen' = LookedAt(place) \cap Pool
        <5>1. place' - 1 = place
          BY <1>2
        <5>2. QED
          BY <1>2, <3>2, <5>1 DEF Seen, LookedAt
      <4>4. QED
        BY <4>1, <4>2, <4>3 DEF Seen
    <3>4. \A y : Leads(y)' <=> Leads(y)
      BY <1>2, <3>1 DEF Leads
    <3>5. ChosenWell' <=> ChosenWell
      BY <1>2, <3>2, <3>3, <3>4 DEF ChosenWell, Fit, Transitive, IsBestOf, Ties,
         Exceeds
    <3>6. Winner'
      BY <1>2, <3>1 DEF Winner
    <3>7. QED
      BY <1>2, <2>2, <3>1, <3>2, <3>3, <3>4, <3>5, <3>6 DEF Scanning
  <2>3. QED
    BY <2>1, <2>2
<1>8. CASE scan = "best"
  <2>1. scan' = "best" /\ sec_best_set' = 0
    BY <1>2, <1>4, <1>8 DEF RInv
  <2>2. ReturnsOfRow'
    BY <2>1 DEF ReturnsOfRow
  <2>3. QED
    BY <1>5, <1>6, <1>7, <2>1, <2>2 DEF RInv
<1>9. CASE scan = "second"
  <2>1. scan' = "second" /\ best_set' = best_set /\ best_set \in InRow
    BY <1>2, <1>4, <1>9 DEF RInv
  <2>2. sec_best_set' \in Rest \cup {0}
    <3>1. sec_best_set \in Rest \cup {0}
      BY <1>9 DEF RInv
    <3>2. ~Skips(x) => x \in Rest
      BY <1>3, <1>9 DEF Skips, Rest
    <3>3. QED
      BY <1>4, <1>9, <3>1, <3>2
  <2>3. Rest' = Rest
    BY <1>3, <2>1 DEF Rest
  <2>4. BestStands'
    <3>1. BestStands
      BY <1>9 DEF RInv
    <3>2. QED
      BY <1>2, <1>3, <2>1, <3>1
         DEF BestStands, ClearWinnerFound, Fit, Transitive, IsBestOf, Exceeds
  <2>5. ReturnsOfRow'
    BY <2>1 DEF ReturnsOfRow
  <2>6. QED
    BY <1>3, <1>5, <1>6, <1>7, <2>1, <2>2, <2>3, <2>4, <2>5 DEF RInv
<1>10. QED
  BY <1>2, <1>8, <1>9

(* All has been looked at.                                                 *)
LEMMA AllSeen ==
  ASSUME RInv, scan # "done", place > Len(row)
  PROVE  Seen = Pool /\ Pool # {} /\ Found \in Pool
<1>1. RowOK /\ RankTypeOK /\ Scanning
  BY DEF RInv
<1>2. place = Len(row) + 1
  BY <1>1, SeenAre DEF RankTypeOK
<1>3. place - 1 = Len(row)
  BY <1>1, <1>2, SeenAre
<1>4. Seen = Pool
  BY <1>1, <1>3, SeenAre DEF Seen, Pool, Rest
<1>5. Pool # {}
  BY <1>1, SeenAre DEF Pool, Rest
<1>6. QED
  BY <1>1, <1>4, <1>5 DEF Scanning

LEMMA SecondScanStep ==
  ASSUME RInv, SecondScan
  PROVE  RInv'
<1>1. /\ RowOK /\ RankTypeOK /\ Scanning /\ scan = "best" /\ place > Len(row) /\ sec_best_set = 0
      /\ scan' = "second" /\ place' = 1 /\ sr' = INT_MIN /\ ct' = 1 /\ ps' = INT_MIN
      /\ UNCHANGED <<row, is, best_set, sec_best_set>>
  BY DEF RInv, SecondScan
<1>2. InRow' = InRow /\ Pool = InRow /\ Found = best_set
  BY <1>1 DEF InRow, Pool, Found
<1>3. Seen = InRow /\ InRow # {} /\ best_set \in InRow
  BY <1>1, <1>2, AllSeen
<1>4. RankTypeOK'
  <2>1. 1 \in 1 .. Len(row) + 1
    BY <1>1, SeenAre
  <2>2. INT_MIN \in Ints /\ 1 \in Ints
    <3>1. Half \in Nat /\ Half > 1 /\ INT_MIN \in Ints
      BY <1>1, Assumed
    <3>2. QED
      BY <3>1 DEF Ints
  <2>3. QED
    BY <1>1, <1>2, <2>1, <2>2 DEF RankTypeOK
<1>5. RowOK'
  BY <1>1, <1>2 DEF RowOK
<1>6. BestStands'
  <2>1. BestStands' <=>
          /\ Fit(InRow) /\ Transitive(InRow) => IsBestOf(best_set, InRow)
          /\ Fit(InRow) =>
               \A x \in InRow : (\A y \in InRow \ {x} : Exceeds(x, y)) => best_set = x
    BY <1>1, <1>2 DEF BestStands, ClearWinnerFound, Fit, Transitive,
       IsBestOf, Exceeds
  <2>2. Fit(InRow) /\ Transitive(InRow) => IsBestOf(best_set, InRow)
    BY <1>1, <1>2, <1>3 DEF Scanning, ChosenWell
  <2>3. Fit(InRow) => \A x \in InRow : (\A y \in InRow \ {x} : Exceeds(x, y)) => best_set = x
    BY <1>1, <1>2, <1>3 DEF Scanning, Winner, Clear
  <2>4. QED
    BY <2>1, <2>2, <2>3
<1>7. Scanning'
  <2>1. Seen' = {}
    <3>1. place' - 1 = 0
      BY <1>1
    <3>2. \A n : LookedAt(n)' = LookedAt(n')
      BY <1>1 DEF LookedAt
    <3>3. Seen' \subseteq LookedAt(0)
      BY <1>1, <3>1 DEF Seen, LookedAt
    <3>4. QED
      BY <1>1, <3>3, SeenAre
  <2>2. QED
    BY <1>1, <2>1 DEF Scanning, ChosenWell, Winner
<1>8. best_set' \in InRow' /\ sec_best_set' \in (Rest \cup {0})' /\ ReturnsOfRow'
  BY <1>1, <1>2, <1>3 DEF ReturnsOfRow
<1>9. QED
  BY <1>1, <1>4, <1>5, <1>6, <1>7, <1>8 DEF RInv

LEMMA ReturnStep ==
  ASSUME RInv, ReturnBest
  PROVE  RInv'
<1>1. /\ RowOK /\ RankTypeOK /\ scan = "second" /\ place > Len(row) /\ best_set \in InRow
      /\ scan' = "done" /\ best_set' \in {best_set, sec_best_set}
      /\ UNCHANGED <<row, is, place, sr, ct, ps, sec_best_set>>
  BY DEF RInv, ReturnBest
<1>2. sec_best_set \in Rest
  BY <1>1, AllSeen DEF Found, Pool
<1>3. InRow' = InRow /\ best_set' \in InRow /\ sec_best_set' \in InRow
  BY <1>1, <1>2 DEF InRow, Rest
<1>4. RankTypeOK' /\ RowOK' /\ ReturnsOfRow'
  BY <1>1, <1>3 DEF RankTypeOK, RowOK, ReturnsOfRow
<1>5. QED
  BY <1>1, <1>3, <1>4 DEF RInv

LEMMA RankingStep ==
  RInv /\ [RankNext]_rvars => RInv'
<1> SUFFICES ASSUME RInv, [RankNext]_rvars PROVE RInv'
  OBVIOUS
<1>1. CASE UNCHANGED rvars
  <2>1. UNCHANGED <<row, is, scan, place, sr, ct, ps, best_set, sec_best_set>>
    BY <1>1 DEF rvars
  <2>2. InRow' = InRow /\ Rest' = Rest
    BY <2>1 DEF InRow, Rest
  <2>3. (RankTypeOK' <=> RankTypeOK) /\ (RowOK' <=> RowOK) /\ (ReturnsOfRow' <=> ReturnsOfRow)
    BY <2>1, <2>2 DEF RankTypeOK, RowOK, ReturnsOfRow
  <2>4. BestStands' <=> BestStands
    BY <2>1, <2>2 DEF BestStands, ClearWinnerFound, Fit, Transitive,
       IsBestOf, Exceeds
  <2>5. Pool' = Pool /\ Seen' = Seen /\ Found' = Found
    BY <2>1, <2>2 DEF Pool, Seen, LookedAt, Found
  <2>6. ChosenWell' <=> ChosenWell
    BY <2>1, <2>5 DEF ChosenWell, Fit, Transitive, IsBestOf, Ties, Exceeds,
       Leads
  <2>7. Winner' <=> Winner
    BY <2>1, <2>5 DEF Winner, Fit, Clear, Exceeds, Leads
  <2>8. Scanning' <=> Scanning
    BY <2>1, <2>5, <2>6, <2>7 DEF Scanning, Leads
  <2>9. QED
    BY <2>1, <2>2, <2>3, <2>4, <2>8 DEF RInv
<1>2. QED
  BY <1>1, LookStep, SecondScanStep, ReturnStep DEF RankNext

(* The two scans of a row, through ties that leave the values of the set   *)
(* before in the comparison.                                               *)
THEOREM ScanInductive == RankSpec => []RInv
BY InitRanking, RankingStep, PTL DEF RankSpec

(* The best and the second best set are found, whatever the width of an    *)
(* int, where the weights fit it and the order is transitive.              *)
THEOREM BestFound == RankSpec => []FindsBest
<1>1. RInv => FindsBest
  <2> SUFFICES ASSUME RInv PROVE FindsBest
    OBVIOUS
  <2>1. scan = "second" /\ Fit(InRow) /\ Transitive(InRow) => IsBestOf(best_set, InRow)
    BY DEF RInv, BestStands
  <2>2. ASSUME scan = "second", place > Len(row), Fit(Rest), Transitive(Rest)
        PROVE  IsBestOf(sec_best_set, Rest)
    <3>1. Pool = Rest /\ Found = sec_best_set /\ ChosenWell
      BY <2>2 DEF RInv, Pool, Found, Scanning
    <3>2. Seen = Rest /\ Rest # {}
      BY <2>2, <3>1, AllSeen
    <3>3. QED
      BY <2>2, <3>1, <3>2 DEF ChosenWell
  <2>3. QED
    BY <2>1, <2>2 DEF FindsBest
<1>2. QED
  BY <1>1, ScanInductive, PTL

(* For any costs and weights, both answers are sets of the row, different  *)
(* ones, and a set that exceeds every other is found.                      *)
THEOREM ScanAlwaysAnswers == RankSpec => []ScanAnswers
<1>1. RInv => ScanAnswers
  <2> SUFFICES ASSUME RInv PROVE ScanAnswers
    OBVIOUS
  <2>1. RankTypeOK /\ ReturnsOfRow
    BY DEF RInv
  <2>2. ClearWinnerFound
    BY DEF RInv, BestStands, ClearWinnerFound
  <2>3. AnotherThanBest
    <3> SUFFICES ASSUME scan = "second", place > Len(row) PROVE sec_best_set # best_set
      BY DEF AnotherThanBest
    <3>1. sec_best_set \in Rest
      BY AllSeen DEF Found, Pool
    <3>2. QED
      BY <3>1 DEF Rest
  <2>4. QED
    BY <2>1, <2>2, <2>3 DEF ScanAnswers
<1>2. QED
  BY <1>1, ScanInductive, PTL
=============================================================================
