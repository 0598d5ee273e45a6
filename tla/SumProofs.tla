------------------------------ MODULE SumProofs ------------------------------
(***************************************************************************)
(* Facts about Total(f, S), the sum of f over S, about counting, and about *)
(* Ascending(S), the numbers of S in order.                                *)
(***************************************************************************)
EXTENDS Sums, Listing, Sequences, FiniteSetTheorems, WellFoundedInduction, TLAPS

(* The units of a finite set are finitely many.                            *)
LEMMA UnitsFinite ==
  ASSUME NEW S, IsFiniteSet(S), NEW f \in [S -> Nat]
  PROVE  IsFiniteSet(Units(f, S))
<1> DEFINE g == [x \in S |-> {x} \X (1 .. f[x])]
           R == {g[x] : x \in S}
<1>1. IsFiniteSet(R)
  <2>1. g \in Surjection(S, R)
    BY DEF Surjection
  <2>2. QED
    BY <2>1, FS_Surjection
<1>2. \A T \in R : IsFiniteSet(T)
  <2> SUFFICES ASSUME NEW x \in S
               PROVE  IsFiniteSet({x} \X (1 .. f[x]))
    OBVIOUS
  <2>1. IsFiniteSet({x})
    BY FS_Singleton
  <2>2. IsFiniteSet(1 .. f[x])
    BY f[x] \in Int, FS_Interval
  <2>3. QED
    BY <2>1, <2>2, FS_Product
<1>3. Units(f, S) = UNION R
  BY DEF Units
<1>4. QED
  BY <1>1, <1>2, <1>3, FS_UNION

(* A sum over part of the domain of f is a sum over that part.             *)
LEMMA TotalType ==
  ASSUME NEW D, IsFiniteSet(D), NEW f \in [D -> Nat], NEW S \in SUBSET D
  PROVE  /\ IsFiniteSet(Units(f, S))
         /\ Total(f, S) \in Nat
<1> DEFINE h == [x \in S |-> f[x]]
<1>1. IsFiniteSet(S)
  BY FS_Subset
<1>2. Units(f, S) = Units(h, S)
  BY DEF Units
<1>3. IsFiniteSet(Units(h, S))
  BY <1>1, UnitsFinite
<1>4. QED
  BY <1>2, <1>3, FS_CardinalityType DEF Total

(* The sum over two disjoint sets is the sum of the sums.                  *)
LEMMA TotalUnion ==
  ASSUME NEW D, IsFiniteSet(D), NEW f \in [D -> Nat],
         NEW S \in SUBSET D, NEW T \in SUBSET D, S \cap T = {}
  PROVE  Total(f, S \cup T) = Total(f, S) + Total(f, T)
<1>1. Units(f, S \cup T) = Units(f, S) \cup Units(f, T)
  BY DEF Units
<1>2. Units(f, S) \cap Units(f, T) = {}
  BY DEF Units
<1>3. IsFiniteSet(Units(f, S)) /\ IsFiniteSet(Units(f, T))
  BY TotalType
<1>4. Cardinality(Units(f, S)) \in Nat /\ Cardinality(Units(f, T)) \in Nat
  BY <1>3, FS_CardinalityType
<1>5. Cardinality(Units(f, S) \cup Units(f, T)) =
        Cardinality(Units(f, S)) + Cardinality(Units(f, T)) - Cardinality({})
  BY <1>2, <1>3, FS_Union
<1>6. Cardinality({}) = 0
  BY FS_EmptySet
<1>7. Total(f, S \cup T) = Cardinality(Units(f, S) \cup Units(f, T))
  BY <1>1 DEF Total
<1>8. Total(f, S \cup T) = Total(f, S) + Total(f, T) - 0
  BY <1>5, <1>6, <1>7 DEF Total
<1>9. Total(f, S) \in Nat /\ Total(f, T) \in Nat
  BY <1>4 DEF Total
<1>10. QED
  BY <1>8, <1>9

LEMMA TotalEmpty ==
  ASSUME NEW f
  PROVE  Total(f, {}) = 0
BY FS_EmptySet DEF Total, Units

(* The sum over a singleton.                                               *)
LEMMA TotalSingleton ==
  ASSUME NEW f, NEW x, f[x] \in Nat
  PROVE  Total(f, {x}) = f[x]
<1>1. Units(f, {x}) = {x} \X (1 .. f[x])
  BY DEF Units
<1>2. IsFiniteSet({x}) /\ Cardinality({x}) = 1
  BY FS_Singleton
<1>3. IsFiniteSet(1 .. f[x]) /\ Cardinality(1 .. f[x]) = f[x]
  BY f[x] \in Int, FS_Interval
<1>4. Cardinality({x} \X (1 .. f[x])) = Cardinality({x}) * Cardinality(1 .. f[x])
  BY <1>2, <1>3, FS_Product
<1>5. Total(f, {x}) = 1 * f[x]
  BY <1>1, <1>2, <1>3, <1>4 DEF Total
<1>6. QED
  BY <1>5

(* Where every summand is positive only the empty set sums to zero.        *)
LEMMA TotalPositive ==
  ASSUME NEW D, IsFiniteSet(D), NEW f \in [D -> Nat \ {0}], NEW S \in SUBSET D
  PROVE  Total(f, S) = 0 <=> S = {}
<1>1. IsFiniteSet(Units(f, S))
  BY TotalType
<1>2. S # {} => Units(f, S) # {}
  <2> SUFFICES ASSUME NEW x \in S
               PROVE  <<x, 1>> \in Units(f, S)
    OBVIOUS
  <2>1. 1 \in 1 .. f[x]
    OBVIOUS
  <2>2. QED
    BY <2>1 DEF Units
<1>3. QED
  BY <1>1, <1>2, FS_EmptySet, TotalEmpty DEF Total

(* The sum over what is left of S without part T of it.                    *)
LEMMA TotalDiff ==
  ASSUME NEW D, IsFiniteSet(D), NEW f \in [D -> Nat],
         NEW S \in SUBSET D, NEW T \in SUBSET S
  PROVE  Total(f, S \ T) = Total(f, S) - Total(f, T)
<1>1. Total(f, (S \ T) \cup T) = Total(f, S \ T) + Total(f, T)
  <2>1. (S \ T) \in SUBSET D /\ T \in SUBSET D /\ (S \ T) \cap T = {}
    OBVIOUS
  <2>2. QED
    BY <2>1, TotalUnion
<1>2. (S \ T) \cup T = S
  OBVIOUS
<1>3. Total(f, S \ T) \in Nat /\ Total(f, T) \in Nat
  <2>1. (S \ T) \in SUBSET D /\ T \in SUBSET D
    OBVIOUS
  <2>2. QED
    BY <2>1, TotalType
<1>4. Total(f, S) = Total(f, S \ T) + Total(f, T)
  BY <1>1, <1>2
<1>5. QED
  BY <1>3, <1>4

(* One summand more.                                                       *)
LEMMA TotalAdd ==
  ASSUME NEW D, IsFiniteSet(D), NEW f \in [D -> Nat],
         NEW S \in SUBSET D, NEW x \in D \ S
  PROVE  Total(f, S \cup {x}) = Total(f, S) + f[x]
<1>1. {x} \in SUBSET D /\ S \cap {x} = {}
  OBVIOUS
<1>2. Total(f, S \cup {x}) = Total(f, S) + Total(f, {x})
  BY <1>1, TotalUnion
<1>3. QED
  BY <1>2, TotalSingleton

(* A sum over more is no less.                                             *)
LEMMA TotalMonotone ==
  ASSUME NEW D, IsFiniteSet(D), NEW f \in [D -> Nat],
         NEW S \in SUBSET D, NEW T \in SUBSET S
  PROVE  Total(f, T) <= Total(f, S)
<1>1. Total(f, S \ T) = Total(f, S) - Total(f, T)
  BY TotalDiff
<1>2. Total(f, S) \in Nat /\ Total(f, T) \in Nat /\ Total(f, S \ T) \in Nat
  <2>1. T \in SUBSET D /\ S \ T \in SUBSET D
    OBVIOUS
  <2>2. QED
    BY <2>1, TotalType
<1>3. QED
  BY <1>1, <1>2

(* A sum depends on what f is on the set only.                             *)
LEMMA TotalSame ==
  ASSUME NEW f, NEW g, NEW S, \A x \in S : f[x] = g[x]
  PROVE  Total(f, S) = Total(g, S)
<1>1. Units(f, S) = Units(g, S)
  BY DEF Units
<1>2. QED
  BY <1>1 DEF Total

(* Raising f by one on U raises a sum by the number of members of U in it. *)
LEMMA TotalBump ==
  ASSUME NEW D, IsFiniteSet(D), NEW f \in [D -> Nat],
         NEW U \in SUBSET D, NEW S \in SUBSET D
  PROVE  Total([x \in D |-> IF x \in U THEN f[x] + 1 ELSE f[x]], S)
           = Total(f, S) + Cardinality(S \cap U)
<1> DEFINE g == [x \in D |-> IF x \in U THEN f[x] + 1 ELSE f[x]]
           top == [x \in S \cap U |-> <<x, f[x] + 1>>]
           Top == {top[x] : x \in S \cap U}
<1>1. IsFiniteSet(S \cap U)
  <2>1. S \cap U \in SUBSET D
    OBVIOUS
  <2>2. QED
    BY <2>1, FS_Subset
<1>2. top \in Bijection(S \cap U, Top)
  <2>1. top \in [S \cap U -> Top]
    OBVIOUS
  <2>2. \A a, b \in S \cap U : top[a] = top[b] => a = b
    OBVIOUS
  <2>3. \A t \in Top : \E a \in S \cap U : top[a] = t
    OBVIOUS
  <2> HIDE DEF top, Top
  <2>4. QED
    BY <2>1, <2>2, <2>3 DEF Bijection, Injection, Surjection, IsInjective
<1>3. IsFiniteSet(Top) /\ Cardinality(Top) = Cardinality(S \cap U)
  BY <1>1, <1>2, FS_Bijection DEF ExistsBijection
<1>4. Units(g, S) = Units(f, S) \cup Top
  <2>1. ASSUME NEW x \in S
        PROVE  {x} \X (1 .. g[x]) =
                 ({x} \X (1 .. f[x])) \cup (IF x \in U THEN {<<x, f[x] + 1>>} ELSE {})
    <3>1. 1 .. f[x] + 1 = (1 .. f[x]) \cup {f[x] + 1}
      BY f[x] \in Nat
    <3>2. CASE x \in U
      <4>1. g[x] = f[x] + 1
        BY <3>2
      <4>2. QED
        BY <3>1, <3>2, <4>1
    <3>3. CASE x \notin U
      BY <3>3
    <3>4. QED
      BY <3>2, <3>3
  <2> HIDE DEF g
  <2>2. Units(g, S) \subseteq Units(f, S) \cup Top
    BY <2>1 DEF Units
  <2>3. Units(f, S) \cup Top \subseteq Units(g, S)
    BY <2>1 DEF Units
  <2>4. QED
    BY <2>2, <2>3
<1>5. Units(f, S) \cap Top = {}
  <2> SUFFICES ASSUME NEW x \in S, NEW y \in S \cap U,
                      <<y, f[y] + 1>> \in {x} \X (1 .. f[x])
               PROVE  FALSE
    BY DEF Units
  <2>1. x = y /\ f[y] + 1 \in 1 .. f[x]
    OBVIOUS
  <2>2. QED
    BY <2>1, f[x] \in Nat
<1>6. IsFiniteSet(Units(f, S)) /\ Total(f, S) \in Nat
  BY TotalType
<1>7. Cardinality(Units(f, S) \cup Top)
        = Cardinality(Units(f, S)) + Cardinality(Top) - Cardinality({})
  BY <1>3, <1>5, <1>6, FS_Union
<1>8. Cardinality({}) = 0 /\ Cardinality(Top) \in Nat
  BY <1>3, FS_EmptySet, FS_CardinalityType
<1>9. Cardinality(Units(f, S) \cup Top) = Total(f, S) + Cardinality(Top)
  BY <1>6, <1>7, <1>8 DEF Total
<1>10. QED
  BY <1>3, <1>4, <1>9 DEF Total

(* Where every summand is one the sum counts.                              *)
LEMMA TotalOnes ==
  ASSUME NEW D, IsFiniteSet(D), NEW S \in SUBSET D
  PROVE  Total([x \in D |-> 1], S) = Cardinality(S)
<1> DEFINE z == [x \in D |-> 0]
<1>1. z \in [D -> Nat] /\ D \in SUBSET D
  OBVIOUS
<1>2. [x \in D |-> IF x \in D THEN z[x] + 1 ELSE z[x]] = [x \in D |-> 1]
  OBVIOUS
<1>3. Total(z, S) = 0
  <2>1. Units(z, S) = {}
    BY DEF Units
  <2>2. QED
    BY <2>1, FS_EmptySet DEF Total
<1> HIDE DEF z
<1>4. Total([x \in D |-> IF x \in D THEN z[x] + 1 ELSE z[x]], S)
        = Total(z, S) + Cardinality(S \cap D)
  BY <1>1, TotalBump
<1>5. S \cap D = S
  OBVIOUS
<1>6. IsFiniteSet(S) /\ Cardinality(S) \in Nat
  BY FS_Subset, FS_CardinalityType
<1>7. Total([x \in D |-> 1], S) = 0 + Cardinality(S)
  BY <1>2, <1>3, <1>4, <1>5
<1>8. QED
  BY <1>6, <1>7

(* A member has no more than the sum.                                      *)
LEMMA TotalMember ==
  ASSUME NEW D, IsFiniteSet(D), NEW f \in [D -> Nat], NEW S \in SUBSET D, NEW x \in S
  PROVE  f[x] <= Total(f, S)
<1>1. {x} \in SUBSET S /\ f[x] \in Nat
  OBVIOUS
<1>2. Total(f, {x}) <= Total(f, S)
  BY <1>1, TotalMonotone
<1>3. QED
  BY <1>1, <1>2, TotalSingleton

(* A sum stays the same when its places are renamed.                       *)
LEMMA TotalRenamed ==
  ASSUME NEW D, IsFiniteSet(D), NEW E, NEW h \in Bijection(D, E), NEW f \in [E -> Nat]
  PROVE  Total([x \in D |-> f[h[x]]], D) = Total(f, E)
<1> DEFINE g == [x \in D |-> f[h[x]]]
           U == Units(g, D)
           V == Units(f, E)
           b == [u \in U |-> <<h[u[1]], u[2]>>]
<1>1. /\ h \in [D -> E]
      /\ \A x, y \in D : h[x] = h[y] => x = y
      /\ \A e \in E : \E x \in D : h[x] = e
  BY DEF Bijection, Injection, Surjection, IsInjective
<1>2. g \in [D -> Nat]
  BY <1>1
<1>3. \A u : u \in U <=> \E x \in D : \E k \in 1 .. f[h[x]] : u = <<x, k>>
  BY DEF Units
<1>4. \A v : v \in V <=> \E e \in E : \E k \in 1 .. f[e] : v = <<e, k>>
  BY DEF Units
<1>5. IsFiniteSet(U)
  BY <1>2, UnitsFinite
<1> HIDE DEF U, V
<1>6. b \in [U -> V]
  <2> SUFFICES ASSUME NEW u \in U PROVE <<h[u[1]], u[2]>> \in V
    OBVIOUS
  <2>1. PICK x \in D : \E k \in 1 .. f[h[x]] : u = <<x, k>>
    BY <1>3
  <2>2. PICK k \in 1 .. f[h[x]] : u = <<x, k>>
    BY <2>1
  <2>3. QED
    BY <1>1, <1>4, <2>2
<1>7. ASSUME NEW u \in U, NEW v \in U, b[u] = b[v] PROVE u = v
  <2>1. PICK x \in D : \E k \in 1 .. f[h[x]] : u = <<x, k>>
    BY <1>3
  <2>2. PICK k \in 1 .. f[h[x]] : u = <<x, k>>
    BY <2>1
  <2>3. PICK y \in D : \E l \in 1 .. f[h[y]] : v = <<y, l>>
    BY <1>3
  <2>4. PICK l \in 1 .. f[h[y]] : v = <<y, l>>
    BY <2>3
  <2>5. h[x] = h[y] /\ k = l
    BY <1>7, <2>2, <2>4
  <2>6. QED
    BY <1>1, <2>2, <2>4, <2>5
<1>8. ASSUME NEW v \in V PROVE \E u \in U : b[u] = v
  <2>1. PICK e \in E : \E k \in 1 .. f[e] : v = <<e, k>>
    BY <1>4
  <2>2. PICK k \in 1 .. f[e] : v = <<e, k>>
    BY <2>1
  <2>3. PICK x \in D : h[x] = e
    BY <1>1
  <2>4. <<x, k>> \in U
    BY <1>3, <2>2, <2>3
  <2>5. QED
    BY <2>2, <2>3, <2>4
<1>9. b \in Bijection(U, V)
  <2> HIDE DEF b
  <2> QED
    BY <1>6, <1>7, <1>8 DEF Bijection, Injection, Surjection, IsInjective
<1>10. Cardinality(U) = Cardinality(V)
  BY <1>5, <1>9, FS_Bijection DEF ExistsBijection
<1>11. QED
  BY <1>10 DEF Total, U, V

-----------------------------------------------------------------------------
(* Counting.                                                               *)

(* Counting up to N reaches every number on the way, so what a loop keeps   *)
(* from step to step holds after each of its steps.                        *)
LEMMA CountUp ==
  ASSUME NEW N \in Nat, NEW P, 0 \in P, \A n \in 0..(N - 1) : n \in P => n + 1 \in P
  PROVE  0..N \subseteq P /\ N \in P
  <1>. DEFINE Less == {ss \in Nat \X Nat : ss[1] < ss[2]}
  <1>1. IsWellFoundedOn(Less, Nat)
    BY NatLessThanWellFounded DEF OpToRel
  <1>2. SUFFICES ASSUME (0..N) \ P # {} PROVE FALSE
    OBVIOUS
  <1>3. PICK m \in (0..N) \ P : \A y \in (0..N) \ P : ~(<<y, m>> \in Less)
    <2>1. (0..N) \ P \subseteq Nat
      OBVIOUS
    <2>. HIDE DEF Less
    <2>. QED  BY <1>1, <1>2, <2>1, WFMin
  <1>4. \A y \in (0..N) \ P : ~(y < m)
    <2>. SUFFICES ASSUME NEW y \in (0..N) \ P, y < m PROVE FALSE
      OBVIOUS
    <2>1. <<y, m>> \in Less
      BY <1>3
    <2>. QED  BY <1>3, <2>1
  <1>5. m # 0 /\ m \in Nat /\ m <= N
    BY <1>3
  <1>6. m - 1 \in 0..(N - 1) /\ (m - 1) + 1 = m /\ m - 1 < m /\ m - 1 \in 0..N
    BY <1>5
  <1>. QED  BY <1>3, <1>4, <1>6

-----------------------------------------------------------------------------
(* Numbers in ascending order.                                             *)

Lower(S, c) == {d \in S : d < c}

LEMMA LowerCounts ==
  ASSUME NEW S \in SUBSET Nat, IsFiniteSet(S), NEW c \in S
  PROVE  Cardinality(Lower(S, c)) \in 0..(Cardinality(S) - 1)
  <1>1. Lower(S, c) \in SUBSET S /\ c \notin Lower(S, c)
    BY DEF Lower
  <1>2. IsFiniteSet(Lower(S, c)) /\ Cardinality(Lower(S, c)) <= Cardinality(S)
        /\ (Cardinality(Lower(S, c)) = Cardinality(S) => Lower(S, c) = S)
    BY <1>1, FS_Subset
  <1>3. Cardinality(Lower(S, c)) \in Nat /\ Cardinality(S) \in Nat
    BY <1>2, FS_CardinalityType
  <1>. QED  BY <1>1, <1>2, <1>3

(* Different numbers have different places.                                *)
LEMMA LowerDiffers ==
  ASSUME NEW S \in SUBSET Nat, IsFiniteSet(S), NEW c \in S, NEW d \in S, c < d
  PROVE  Cardinality(Lower(S, c)) < Cardinality(Lower(S, d))
  <1>1. Lower(S, c) \in SUBSET Lower(S, d) /\ c \in Lower(S, d) /\ c \notin Lower(S, c)
    <2>1. \A e \in S : e \in Nat
      OBVIOUS
    <2>2. \A e \in S : e < c => e < d
      BY <2>1
    <2>3. Lower(S, c) \in SUBSET Lower(S, d)
      BY <2>2 DEF Lower
    <2>4. c \in Lower(S, d) /\ ~(c < c)
      BY <2>1 DEF Lower
    <2>5. c \notin Lower(S, c)
      BY <2>4 DEF Lower
    <2>. QED  BY <2>3, <2>4, <2>5
  <1>2. IsFiniteSet(Lower(S, d))
    <2>1. Lower(S, d) \in SUBSET S
      BY DEF Lower
    <2>. QED  BY <2>1, FS_Subset
  <1>3. /\ IsFiniteSet(Lower(S, c))
        /\ Cardinality(Lower(S, c)) <= Cardinality(Lower(S, d))
        /\ Cardinality(Lower(S, c)) = Cardinality(Lower(S, d)) => Lower(S, c) = Lower(S, d)
    BY <1>1, <1>2, FS_Subset
  <1>4. Cardinality(Lower(S, c)) \in Nat /\ Cardinality(Lower(S, d)) \in Nat
    BY <1>2, <1>3, FS_CardinalityType
  <1>. QED  BY <1>1, <1>3, <1>4

(* Ascending lists the numbers of S, all of them, in ascending order; how  *)
(* many are lower tells the place of each.                                 *)
LEMMA AscendingLists ==
  ASSUME NEW S \in SUBSET Nat, IsFiniteSet(S)
  PROVE  /\ Ascending(S) \in Seq(S) /\ Len(Ascending(S)) = Cardinality(S)
         /\ \A j, k \in 1..Len(Ascending(S)) : j < k => Ascending(S)[j] < Ascending(S)[k]
         /\ \A k \in 1..Len(Ascending(S)) : Cardinality(Lower(S, Ascending(S)[k])) = k - 1
         /\ \A c \in S : \E k \in 1..Len(Ascending(S)) : Ascending(S)[k] = c
  <1>. DEFINE N == Cardinality(S)
  <1>. DEFINE place == [c \in S |-> Cardinality(Lower(S, c))]
  <1>. DEFINE Places == 0..(N - 1)
  <1>1. N \in Nat
    BY FS_CardinalityType
  <1>2. place \in [S -> Places]
    BY LowerCounts
  <1>3. \A c, d \in S : place[c] = place[d] => c = d
    <2>. SUFFICES ASSUME NEW c \in S, NEW d \in S, place[c] = place[d], c # d PROVE FALSE
      OBVIOUS
    <2>1. c < d \/ d < c
      OBVIOUS
    <2>2. place[c] \in Int /\ place[d] \in Int
      BY <1>2
    <2>3. c < d => place[c] < place[d]
      BY LowerDiffers
    <2>4. d < c => place[d] < place[c]
      BY LowerDiffers
    <2>. QED  BY <2>1, <2>2, <2>3, <2>4
  <1>4. IsFiniteSet(Places) /\ Cardinality(Places) = N
    <2>1. 0 \in Int /\ N - 1 \in Int
      BY <1>1
    <2>2. /\ IsFiniteSet(0..(N - 1))
          /\ Cardinality(0..(N - 1)) = IF 0 > N - 1 THEN 0 ELSE (N - 1) - 0 + 1
      BY <2>1, FS_Interval, Zenon
    <2>. QED  BY <1>1, <2>2
  <1>6. \A j \in Places : \E c \in S : place[c] = j
    <2>. DEFINE R == {place[c] : c \in S}
    <2>. HIDE DEF place, Places
    <2>1. R \subseteq Places /\ place \in [S -> R]
      BY <1>2
    <2>2. place \in Bijection(S, R)
      BY <1>3, <2>1 DEF Bijection, Injection, Surjection, IsInjective
    <2>3. Cardinality(R) = N
      BY <2>2, FS_Bijection DEF ExistsBijection
    <2>4. R = Places
      BY <1>4, <2>1, <2>3, FS_Subset
    <2>. QED  BY <2>4
  <1>7. ASSUME NEW k \in 1..N
        PROVE  Ascending(S)[k] \in S /\ place[Ascending(S)[k]] = k - 1
    <2>1. k - 1 \in Places
      BY <1>1
    <2>2. \E c \in S : Cardinality({d \in S : d < c}) = k - 1
      <3>1. PICK c \in S : place[c] = k - 1
        BY <2>1, <1>6
      <3>2. Cardinality(Lower(S, c)) = k - 1
        BY <3>1
      <3>. QED  BY <3>2 DEF Lower
    <2>3. Ascending(S)[k] = CHOOSE c \in S : Cardinality({d \in S : d < c}) = k - 1
      BY DEF Ascending
    <2>4. Ascending(S)[k] \in S /\ Cardinality({d \in S : d < Ascending(S)[k]}) = k - 1
      BY <2>2, <2>3
    <2>. QED  BY <2>4 DEF Lower
  <1>8. Ascending(S) \in [1..N -> S]
    <2>. DEFINE f == [k \in 1..N |->
                        CHOOSE c \in S : Cardinality({d \in S : d < c}) = k - 1]
    <2>1. Ascending(S) = f
      BY DEF Ascending
    <2>2. \A k \in 1..N : f[k] \in S
      BY <2>1, <1>7
    <2>. QED  BY <2>1, <2>2
  <1>9. Ascending(S) \in Seq(S) /\ Len(Ascending(S)) = N
    BY <1>1, <1>8
  <1>10. ASSUME NEW c \in S
         PROVE  \E k \in 1..N : Ascending(S)[k] = c
    <2>1. place[c] + 1 \in 1..N /\ (place[c] + 1) - 1 = place[c]
      BY <1>1, <1>2
    <2>2. place[Ascending(S)[place[c] + 1]] = place[c] /\ Ascending(S)[place[c] + 1] \in S
      BY <2>1, <1>7
    <2>. QED  BY <2>1, <2>2, <1>3
  <1>11. ASSUME NEW j \in 1..N, NEW k \in 1..N, j < k
         PROVE  Ascending(S)[j] < Ascending(S)[k]
    <2>. DEFINE c == Ascending(S)[j]
    <2>. DEFINE d == Ascending(S)[k]
    <2>. HIDE DEF c, d
    <2>1. c \in S /\ d \in S /\ place[c] = j - 1 /\ place[d] = k - 1
      BY <1>7 DEF c, d
    <2>2. Cardinality(Lower(S, c)) = j - 1 /\ Cardinality(Lower(S, d)) = k - 1
      BY <2>1
    <2>3. d < c => k - 1 < j - 1
      BY <2>1, <2>2, LowerDiffers
    <2>4. c # d
      BY <1>1, <1>11, <2>1
    <2>5. c < d
      BY <1>1, <1>11, <2>1, <2>3, <2>4
    <2>. QED  BY <2>5 DEF c, d
  <1>12. ASSUME NEW k \in 1..N PROVE Cardinality(Lower(S, Ascending(S)[k])) = k - 1
    BY <1>7
  <1>. QED  BY <1>9, <1>10, <1>11, <1>12
=============================================================================
