-------------------------- MODULE AccountingProofs --------------------------
(***************************************************************************)
(* Proofs about Accounting, for any processes, limits and numbers of       *)
(* samples: the recursions on the tree end and count nothing twice, the    *)
(* CPU time never goes back, a quiet sample is exact, and what is reported *)
(* covers what was measured.                                               *)
(***************************************************************************)
EXTENDS Accounting, SumProofs

LEMMA PidsAre ==
  /\ IsFiniteSet(Pids) /\ Pids \subseteq Nat /\ root \in Pids /\ init \notin Pids
  /\ None \notin Pids /\ Cardinality(Pids) \in Nat
  /\ \A p \in Pids : p >= root
  <1>1. IsFiniteSet({root}) /\ IsFiniteSet(Kids) /\ Pids = Kids \cup {root}
    BY AccountingAssumption, FS_Singleton DEF Pids
  <1>2. IsFiniteSet(Pids)
    BY <1>1, FS_Union, Zenon
  <1>3. Cardinality(Pids) \in Nat
    BY <1>2, FS_CardinalityType
  <1>4. \A p \in Pids : p \in Nat /\ p # 0 /\ p # None
    BY AccountingAssumption DEF Pids, init, root, None
  <1>. QED  BY <1>2, <1>3, <1>4 DEF Pids, init, root, None

-----------------------------------------------------------------------------
(* The lists of pids.                                                      *)

LEMMA AscendingPids ==
  ASSUME NEW S \in SUBSET Pids
  PROVE  /\ Ascending(S) \in Seq(Pids)
         /\ \A k \in 1..Len(Ascending(S)) : Ascending(S)[k] \in S
         /\ \A c \in S : \E k \in 1..Len(Ascending(S)) : Ascending(S)[k] = c
  <1>. DEFINE a == Ascending(S)
  <1>1. S \in SUBSET Nat /\ IsFiniteSet(S)
    BY PidsAre, FS_Subset
  <1>2. a \in Seq(S) /\ \A c \in S : \E k \in 1..Len(a) : a[k] = c
    BY <1>1, AscendingLists
  <1>. HIDE DEF a
  <1>3. a \in Seq(Pids) /\ \A k \in 1..Len(a) : a[k] \in S
    BY <1>2
  <1>. QED  BY <1>2, <1>3 DEF a

-----------------------------------------------------------------------------
(* What is below a process of a tree.                                      *)

(* The steps down a tree.                                                  *)
LEMMA StepsAre ==
  ASSUME NEW t, NEW p
  PROVE  /\ Steps(t, p)[0] = {p}
         /\ \A n \in 0..(Cardinality(Pids) - 1) :
              Steps(t, p)[n + 1] = Steps(t, p)[n] \cup UNION {t[q].children : q \in Steps(t, p)[n]}
  <1>. DEFINE M == Cardinality(Pids)
  <1>. DEFINE Wider(S) == S \cup UNION {t[q].children : q \in S}
  <1>. DEFINE Loop(f, N) == [n \in 0..N |-> IF n = 0 THEN {p} ELSE Wider(f[n - 1])]
  <1>. DEFINE P == {N \in 0..M : \E f : f = Loop(f, N)}
  <1>0. M \in Nat
    BY PidsAre
  <1>. HIDE DEF M, Wider
  <1>1. 0 \in P
    <2>. DEFINE f == [n \in 0..0 |-> {p}]
    <2>1. \A n \in 0..0 : f[n] = IF n = 0 THEN {p} ELSE Wider(f[n - 1])
      BY Z3
    <2>2. f = Loop(f, 0)
      BY <2>1, Zenon
    <2>3. 0 \in 0..M
      BY <1>0
    <2>. QED  BY <2>2, <2>3, Zenon
  <1>2. ASSUME NEW N \in 0..(M - 1), N \in P
        PROVE  N + 1 \in P
    <2>1. PICK f : f = Loop(f, N)
      BY <1>2
    <2>. DEFINE g == [n \in 0..(N + 1) |-> IF n <= N THEN f[n] ELSE Wider(f[N])]
    <2>2. ASSUME NEW n \in 0..(N + 1)
          PROVE  g[n] = IF n = 0 THEN {p} ELSE Wider(g[n - 1])
      <3>1. CASE n = 0
        <4>1. f[0] = {p}
          BY <2>1, <1>2
        <4>. QED  BY <3>1, <4>1, <1>2
      <3>2. CASE n # 0 /\ n <= N
        <4>1. f[n] = Wider(f[n - 1])
          <5>1. n \in 0..N
            BY <3>2, <1>2
          <5>2. f[n] = Loop(f, N)[n]
            BY <2>1, Zenon
          <5>3. Loop(f, N)[n] = IF n = 0 THEN {p} ELSE Wider(f[n - 1])
            BY <5>1, Zenon
          <5>. QED  BY <5>2, <5>3, <3>2, Zenon
        <4>2. g[n] = f[n] /\ g[n - 1] = f[n - 1]
          BY <3>2, <1>2
        <4>. QED  BY <3>2, <4>1, <4>2
      <3>3. CASE n = N + 1
        <4>1. g[n] = Wider(f[N]) /\ g[n - 1] = f[N] /\ n # 0
          BY <3>3, <1>2
        <4>. QED  BY <4>1
      <3>. QED  BY <3>1, <3>2, <3>3, <1>2
    <2>3. g = Loop(g, N + 1)
      BY <2>2, Zenon
    <2>4. N + 1 \in 0..M
      BY <1>0, <1>2
    <2>. QED  BY <2>3, <2>4, Zenon
  <1>3. M \in P
    <2>. HIDE DEF P
    <2>1. 0..M \subseteq P
      BY <1>0, <1>1, <1>2, CountUp
    <2>. QED  BY <1>0, <2>1
  <1>. DEFINE step == Steps(t, p)
  <1>4. step = Loop(step, M)
    <2>1. \E f : f = Loop(f, M)
      BY <1>3
    <2>2. step = CHOOSE f : f = Loop(f, M)
      BY Zenon DEF Steps, M, Wider
    <2>. HIDE DEF step, Loop
    <2>. QED  BY <2>1, <2>2
  <1>. HIDE DEF Loop, step
  <1>5. \A n \in 0..M : step[n] = IF n = 0 THEN {p} ELSE Wider(step[n - 1])
    <2>1. \A n \in 0..M : step[n] = Loop(step, M)[n]
      BY <1>4
    <2>. QED  BY <2>1 DEF Loop
  <1>6. step[0] = {p}
    BY <1>0, <1>5
  <1>7. ASSUME NEW n \in 0..(M - 1)
        PROVE  step[n + 1] = Wider(step[n])
    <2>1. n + 1 \in 0..M /\ n + 1 # 0 /\ (n + 1) - 1 = n
      BY <1>0
    <2>. QED  BY <2>1, <1>5
  <1>. QED  BY <1>6, <1>7 DEF step, Wider, M

(* No step leaves a set that has the children of its processes.            *)
LEMMA StepsWithin ==
  ASSUME NEW t, NEW p, NEW D, p \in D, \A q \in D : t[q].children \subseteq D
  PROVE  \A n \in 0..Cardinality(Pids) : Steps(t, p)[n] \subseteq D
  <1>. DEFINE M == Cardinality(Pids)
  <1>. DEFINE P == {n \in 0..M : Steps(t, p)[n] \subseteq D}
  <1>0. M \in Nat
    BY PidsAre
  <1>1. 0 \in P
    BY <1>0, StepsAre
  <1>2. ASSUME NEW n \in 0..(M - 1), n \in P PROVE n + 1 \in P
    <2>1. Steps(t, p)[n + 1] = Steps(t, p)[n] \cup UNION {t[q].children : q \in Steps(t, p)[n]}
      BY StepsAre
    <2>2. Steps(t, p)[n] \subseteq D
      BY <1>2
    <2>3. \A q \in Steps(t, p)[n] : t[q].children \subseteq D
      BY <2>2
    <2>4. Steps(t, p)[n + 1] \subseteq D
      BY <2>1, <2>2, <2>3
    <2>. QED  BY <1>0, <2>4
  <1>. HIDE DEF P
  <1>3. 0..M \subseteq P
    BY <1>0, <1>1, <1>2, CountUp
  <1>. QED  BY <1>3 DEF P

(* There are so many steps that the last one brings no other process.      *)
LEMMA StepsClosed ==
  ASSUME NEW t, NEW p \in Pids, \A q \in Pids : t[q].children \subseteq Pids
  PROVE  LET last == Steps(t, p)[Cardinality(Pids)]
         IN  p \in last /\ \A q \in last : t[q].children \subseteq last
  <1>. DEFINE M == Cardinality(Pids)
  <1>. DEFINE step == Steps(t, p)
  <1>. DEFINE Closed(S) == \A q \in S : t[q].children \subseteq S
  <1>. DEFINE P == {n \in 0..M : p \in step[n] /\ (Closed(step[n]) \/ Cardinality(step[n]) >= n + 1)}
  <1>0. M \in Nat /\ IsFiniteSet(Pids)
    BY PidsAre
  <1>1. \A n \in 0..M : step[n] \subseteq Pids
    BY StepsWithin
  <1>2. ASSUME NEW n \in 0..M
        PROVE  IsFiniteSet(step[n]) /\ Cardinality(step[n]) \in Nat /\ Cardinality(step[n]) <= M
    <2>1. step[n] \in SUBSET Pids
      BY <1>1
    <2>. HIDE DEF step
    <2>2. IsFiniteSet(step[n]) /\ Cardinality(step[n]) <= M
      BY <1>0, <2>1, FS_Subset
    <2>. QED  BY <2>2, FS_CardinalityType
  <1>3. step[0] = {p} /\ 0 \in 0..M
    BY <1>0, StepsAre
  <1>4. 0 \in P
    <2>1. Cardinality(step[0]) = 1
      BY <1>3, FS_Singleton
    <2>2. p \in step[0] /\ Cardinality(step[0]) >= 0 + 1
      BY <1>3, <2>1
    <2>. HIDE DEF step
    <2>. QED  BY <1>3, <2>2
  <1>5. ASSUME NEW n \in 0..(M - 1), n \in P PROVE n + 1 \in P
    <2>1. step[n + 1] = step[n] \cup UNION {t[q].children : q \in step[n]}
      BY StepsAre
    <2>2. n \in 0..M /\ n + 1 \in 0..M
      BY <1>0
    <2>. HIDE DEF step
    <2>3. CASE Closed(step[n])
      <3>1. step[n + 1] = step[n]
        BY <2>1, <2>3
      <3>. QED  BY <1>5, <2>2, <2>3, <3>1
    <2>4. CASE ~Closed(step[n])
      <3>1. step[n] \in SUBSET step[n + 1] /\ step[n] # step[n + 1]
        <4>1. PICK q \in step[n] : ~(t[q].children \subseteq step[n])
          BY <2>4
        <4>2. t[q].children \subseteq step[n + 1]
          BY <2>1, <4>1
        <4>. QED  BY <2>1, <4>1, <4>2
      <3>2. /\ Cardinality(step[n]) <= Cardinality(step[n + 1])
            /\ Cardinality(step[n]) # Cardinality(step[n + 1])
        BY <1>2, <2>2, <3>1, FS_Subset
      <3>3. Cardinality(step[n]) >= n + 1
        BY <1>5, <2>4
      <3>4. Cardinality(step[n + 1]) >= (n + 1) + 1
        BY <1>2, <2>2, <3>2, <3>3
      <3>5. p \in step[n + 1]
        BY <1>5, <2>1
      <3>. QED  BY <2>2, <3>4, <3>5
    <2>. QED  BY <2>3, <2>4
  <1>6. M \in P
    <2>. HIDE DEF P
    <2>1. 0..M \subseteq P
      BY <1>0, <1>4, <1>5, CountUp
    <2>. QED  BY <1>0, <2>1
  <1>7. Closed(step[M])
    <2>1. M \in 0..M
      BY <1>0
    <2>2. ~(Cardinality(step[M]) >= M + 1)
      BY <1>0, <1>2, <2>1
    <2>. QED  BY <1>6, <2>2
  <1>. QED  BY <1>6, <1>7

-----------------------------------------------------------------------------
(* The processes.                                                          *)

KernelTypes ==
  /\ state \in [Pids -> {"unborn", "run", "zombie", "gone"}]
  /\ ppid \in [Pids -> Pids \cup {init, None}]
  /\ own \in [Pids -> Nat]
  /\ waited \in [Pids -> Nat]

(* Processes are born in the order of their pids, so a father has a lower  *)
(* pid than its children.                                                  *)
Born ==
  /\ \A p, q \in Pids : state[p] # "unborn" /\ q < p => state[q] # "unborn"
  /\ \A p \in Pids : ppid[p] \in Pids => ppid[p] < p

(* A process with those it has waited for.                                 *)
Overalls == [p \in Pids |-> own[p] + waited[p]]

Remaining == {p \in Pids : state[p] # "gone"}

(* No time is counted twice among the processes that remain.               *)
TimesKept ==
  /\ Total(Overalls, Remaining) <= Used
  /\ Used <= MaxCPU
  /\ \A p \in Pids : Overalls[p] <= MaxCPU

KernelOK == KernelTypes /\ Born /\ TimesKept

LEMMA OverallsAre ==
  ASSUME KernelTypes
  PROVE  /\ Overalls \in [Pids -> Nat] /\ own \in [Pids -> Nat]
         /\ Remaining \in SUBSET Pids /\ Pids \in SUBSET Pids
         /\ \A p \in Pids : Overalls[p] = own[p] + waited[p]
         /\ \A S \in SUBSET Pids : Total(Overalls, S) \in Nat
         /\ Used \in Nat
  <1>1. Overalls \in [Pids -> Nat]
    BY DEF KernelTypes, Overalls
  <1>2. own \in [Pids -> Nat] /\ IsFiniteSet(Pids)
    BY PidsAre DEF KernelTypes
  <1>3. \A S \in SUBSET Pids : Total(Overalls, S) \in Nat /\ Total(own, S) \in Nat
    BY <1>1, <1>2, TotalType
  <1>. QED  BY <1>1, <1>2, <1>3 DEF Remaining, Overalls, Used

(* When fewer remain, with the same times, less is counted.                *)
LEMMA FewerRemain ==
  ASSUME KernelOK, KernelTypes', own' = own, waited' = waited, Remaining' \in SUBSET Remaining
  PROVE  TimesKept'
  <1>1. Overalls' = Overalls /\ Used' = Used
    BY DEF Overalls, Used
  <1>2. KernelTypes /\ TimesKept
    BY DEF KernelOK
  <1>3. Total(Overalls, Remaining') <= Total(Overalls, Remaining)
    BY <1>2, OverallsAre, PidsAre, TotalMonotone
  <1>4. Total(Overalls, Remaining') \in Nat /\ Total(Overalls, Remaining) \in Nat /\ Used \in Nat
    <2>1. Remaining' \in SUBSET Pids
      BY DEF Remaining
    <2>. QED  BY <1>2, <2>1, OverallsAre
  <1>5. Total(Overalls', Remaining') = Total(Overalls, Remaining')
    BY <1>1
  <1>6. Total(Overalls', Remaining') <= Used'
    BY <1>1, <1>2, <1>3, <1>4, <1>5 DEF TimesKept
  <1>. QED  BY <1>1, <1>2, <1>6 DEF TimesKept

LEMMA RunKept ==
  ASSUME KernelOK, NEW p \in Pids, Run(p)
  PROVE  KernelOK'
  <1>1. KernelTypes /\ Born /\ TimesKept
    BY DEF KernelOK
  <1>2. /\ state' = state /\ ppid' = ppid /\ waited' = waited /\ p \in Remaining
        /\ own' = [q \in Pids |-> IF q \in {p} THEN own[q] + 1 ELSE own[q]]
    BY <1>1 DEF Run, KernelTypes, Remaining
  <1>3. KernelTypes' /\ Born'
    BY <1>1, <1>2 DEF KernelTypes, Born
  <1>4. Overalls' = [q \in Pids |-> IF q \in {p} THEN Overalls[q] + 1 ELSE Overalls[q]]
    BY <1>1, <1>2 DEF KernelTypes, Overalls
  <1>5. Remaining' = Remaining
    BY <1>2 DEF Remaining
  <1>6. \A S \in SUBSET Pids : p \in S => Cardinality(S \cap {p}) = 1
    <2>. SUFFICES ASSUME NEW S \in SUBSET Pids, p \in S PROVE Cardinality(S \cap {p}) = 1
      OBVIOUS
    <2>1. S \cap {p} = {p}
      OBVIOUS
    <2>. QED  BY <2>1, FS_Singleton
  <1>7. Total(Overalls', Remaining) = Total(Overalls, Remaining) + 1
    <2>1. {p} \in SUBSET Pids
      OBVIOUS
    <2>2. Total([q \in Pids |-> IF q \in {p} THEN Overalls[q] + 1 ELSE Overalls[q]], Remaining)
            = Total(Overalls, Remaining) + Cardinality(Remaining \cap {p})
      <3>1. IsFiniteSet(Pids) /\ Overalls \in [Pids -> Nat] /\ Remaining \in SUBSET Pids
        BY <1>1, OverallsAre, PidsAre
      <3>. DEFINE U == {p}
      <3>. HIDE DEF U
      <3>2. U \in SUBSET Pids
        BY <2>1 DEF U
      <3>3. Total([q \in Pids |-> IF q \in U THEN Overalls[q] + 1 ELSE Overalls[q]], Remaining)
              = Total(Overalls, Remaining) + Cardinality(Remaining \cap U)
        BY <3>1, <3>2, TotalBump
      <3>. QED  BY <3>3 DEF U
    <2>. QED  BY <1>1, <1>2, <1>4, <1>6, <2>2, OverallsAre
  <1>8. Used' = Used + 1
    <2>1. {p} \in SUBSET Pids
      OBVIOUS
    <2>2. Total([q \in Pids |-> IF q \in {p} THEN own[q] + 1 ELSE own[q]], Pids)
            = Total(own, Pids) + Cardinality(Pids \cap {p})
      <3>1. IsFiniteSet(Pids) /\ own \in [Pids -> Nat] /\ Pids \in SUBSET Pids
        BY <1>1, OverallsAre, PidsAre
      <3>. DEFINE U == {p}
      <3>. HIDE DEF U
      <3>2. U \in SUBSET Pids
        BY <2>1 DEF U
      <3>3. Total([q \in Pids |-> IF q \in U THEN own[q] + 1 ELSE own[q]], Pids)
              = Total(own, Pids) + Cardinality(Pids \cap U)
        BY <3>1, <3>2, TotalBump
      <3>. QED  BY <3>3 DEF U
    <2>. QED  BY <1>1, <1>2, <1>6, <2>2, OverallsAre DEF Used
  <1>9. Total(Overalls, Remaining) \in Nat /\ Used \in Nat
    BY <1>1, OverallsAre
  <1>10. Total(Overalls', Remaining') <= Used' /\ Used' <= MaxCPU
    <2>1. Used < MaxCPU /\ MaxCPU \in Nat
      BY AccountingAssumption DEF Run
    <2>2. Total(Overalls, Remaining) <= Used
      BY <1>1 DEF TimesKept
    <2>3. Total(Overalls', Remaining') = Total(Overalls, Remaining) + 1
      BY <1>5, <1>7
    <2>. QED  BY <1>8, <1>9, <2>1, <2>2, <2>3
  <1>11. ASSUME NEW q \in Pids PROVE Overalls'[q] <= MaxCPU
    <2>1. CASE q = p
      <3>1. Overalls' \in [Pids -> Nat] /\ Remaining' \in SUBSET Pids /\ q \in Remaining'
        BY <1>1, <1>2, <1>4, <1>5, <2>1, OverallsAre
      <3>2. Overalls'[q] <= Total(Overalls', Remaining')
        BY <3>1, PidsAre, TotalMember
      <3>3. Total(Overalls', Remaining') \in Nat /\ Overalls'[q] \in Nat /\ Used' \in Nat
        BY <1>5, <1>7, <1>8, <1>9, <3>1
      <3>. QED  BY <1>10, <3>2, <3>3, AccountingAssumption
    <2>2. CASE q # p
      BY <1>1, <1>4, <2>2 DEF TimesKept
    <2>. QED  BY <2>1, <2>2
  <1>. QED  BY <1>3, <1>10, <1>11 DEF KernelOK, TimesKept

LEMMA ForkKept ==
  ASSUME KernelOK, NEW f \in Pids, NEW p \in Pids, Fork(f, p)
  PROVE  KernelOK'
  <1>1. KernelTypes /\ Born /\ TimesKept
    BY DEF KernelOK
  <1>2. KernelTypes'
    BY <1>1 DEF Fork, KernelTypes
  <1>3. /\ state' = [state EXCEPT ![p] = "run"] /\ state[p] = "unborn" /\ state[f] = "run"
        /\ ppid' = [ppid EXCEPT ![p] = f]
        /\ \A q \in Pids : q < p => state[q] # "unborn"
        /\ p \in Nat /\ f \in Nat
    BY PidsAre DEF Fork
  <1>4. f < p
    BY <1>1, <1>3 DEF Born
  <1>5. Born'
    <2>1. \A q \in Pids : state'[q] = IF q = p THEN "run" ELSE state[q]
      BY <1>1, <1>3 DEF KernelTypes
    <2>2. \A q \in Pids : ppid'[q] = IF q = p THEN f ELSE ppid[q]
      BY <1>1, <1>3 DEF KernelTypes
    <2>3. \A q, r \in Pids : state'[q] # "unborn" /\ r < q => state'[r] # "unborn"
      BY <1>1, <1>3, <2>1 DEF Born
    <2>4. \A q \in Pids : ppid'[q] \in Pids => ppid'[q] < q
      BY <1>1, <1>4, <2>2 DEF Born
    <2>. QED  BY <2>3, <2>4 DEF Born
  <1>6. Remaining' = Remaining
    BY <1>1, <1>3 DEF Remaining, KernelTypes
  <1>7. TimesKept'
    BY <1>2, <1>6, FewerRemain DEF Fork
  <1>. QED  BY <1>2, <1>5, <1>7 DEF KernelOK

LEMMA ExitKept ==
  ASSUME KernelOK, NEW p \in Pids, Exit(p)
  PROVE  KernelOK'
  <1>1. KernelTypes /\ Born /\ TimesKept
    BY DEF KernelOK
  <1>2. PICK s \in {"zombie", "gone"} : state' = [state EXCEPT ![p] = s]
    BY DEF Exit
  <1>3. /\ own' = own /\ waited' = waited /\ state[p] = "run"
        /\ ppid' = [q \in Pids |-> IF ppid[q] = p THEN init ELSE ppid[q]]
    BY DEF Exit
  <1>4. KernelTypes'
    BY <1>1, <1>2, <1>3 DEF KernelTypes
  <1>5. \A q \in Pids : state'[q] = IF q = p THEN s ELSE state[q]
    BY <1>1, <1>2 DEF KernelTypes
  <1>6. Born'
    <2>1. \A q, r \in Pids : state'[q] # "unborn" /\ r < q => state'[r] # "unborn"
      BY <1>1, <1>3, <1>5 DEF Born
    <2>2. \A q \in Pids : ppid'[q] \in Pids => ppid'[q] < q
      BY <1>1, <1>3, PidsAre DEF Born
    <2>. QED  BY <2>1, <2>2 DEF Born
  <1>7. Remaining' \in SUBSET Remaining
    BY <1>3, <1>5 DEF Remaining
  <1>8. TimesKept'
    BY <1>3, <1>4, <1>7, FewerRemain
  <1>. QED  BY <1>4, <1>6, <1>8 DEF KernelOK

(* A process is gone, and its time is with nobody or with its father.      *)
LEMMA WaitKept ==
  ASSUME KernelOK, NEW p \in Pids, Wait(p)
  PROVE  KernelOK'
  <1>1. KernelTypes /\ Born /\ TimesKept
    BY DEF KernelOK
  <1>2. /\ state' = [state EXCEPT ![p] = "gone"] /\ state[p] = "zombie"
        /\ ppid' = ppid /\ own' = own
    BY DEF Wait
  <1>3. \A q \in Pids : state'[q] = IF q = p THEN "gone" ELSE state[q]
    BY <1>1, <1>2 DEF KernelTypes
  <1>4. Born'
    BY <1>1, <1>2, <1>3 DEF Born
  <1>5. Remaining' = Remaining \ {p} /\ p \in Remaining
    BY <1>2, <1>3 DEF Remaining
  <1>6. CASE waited' = waited
    <2>1. KernelTypes'
      BY <1>1, <1>2, <1>6 DEF KernelTypes
    <2>2. TimesKept'
      BY <1>2, <1>5, <1>6, <2>1, FewerRemain
    <2>. QED  BY <1>4, <2>1, <2>2 DEF KernelOK
  <1>7. ASSUME ppid[p] # init, state[ppid[p]] = "run",
               waited' = [waited EXCEPT ![ppid[p]] = @ + own[p] + waited[p]],
               ppid[p] \in Pids
        PROVE  KernelOK'
    <2>. DEFINE f == ppid[p]
    <2>1. f \in Pids /\ f # p /\ f \in Remaining
      BY <1>2, <1>7 DEF Remaining
    <2>2. KernelTypes'
      BY <1>1, <1>2, <1>7 DEF KernelTypes
    <2>3. \A q \in Pids : Overalls'[q] = IF q = f THEN Overalls[f] + Overalls[p] ELSE Overalls[q]
      BY <1>1, <1>2, <1>7 DEF KernelTypes, Overalls
    <2>. HIDE DEF f
    <2>. DEFINE R == Remaining \ {p, f}
    <2>4. R \in SUBSET Pids /\ f \in Pids \ R /\ p \in Pids \ (R \cup {f})
          /\ R \cup {f} \in SUBSET Pids
          /\ Remaining' = R \cup {f} /\ Remaining = (R \cup {f}) \cup {p}
      BY <1>1, <1>5, <2>1, OverallsAre
    <2>5. Overalls' \in [Pids -> Nat] /\ Overalls \in [Pids -> Nat]
      <3>1. Overalls' \in [Pids -> Nat]
        BY <1>1, <2>2, <2>3, <2>1, OverallsAre DEF Overalls
      <3>. QED  BY <3>1, <1>1, OverallsAre
    <2>. HIDE DEF R
    <2>. DEFINE new == Overalls'
    <2>. DEFINE old == Overalls
    <2>. DEFINE U == R \cup {f}
    <2>16. /\ IsFiniteSet(Pids) /\ new \in [Pids -> Nat] /\ old \in [Pids -> Nat]
          /\ R \in SUBSET Pids /\ U \in SUBSET Pids /\ f \in Pids \ R /\ p \in Pids \ U
      BY <2>4, <2>5, PidsAre
    <2>6. Total(Overalls', R \cup {f}) = Total(Overalls', R) + Overalls'[f]
      BY <2>16, TotalAdd
    <2>7. Total(Overalls, R \cup {f}) = Total(Overalls, R) + Overalls[f]
      BY <2>16, TotalAdd
    <2>8. Total(Overalls, (R \cup {f}) \cup {p}) = Total(Overalls, R \cup {f}) + Overalls[p]
      BY <2>16, TotalAdd
    <2>9. Total(Overalls', R) = Total(Overalls, R)
      <3>1. \A q \in R : Overalls'[q] = Overalls[q]
        BY <2>3, <2>4
      <3>. QED  BY <3>1, TotalSame
    <2>10. Total(Overalls, R) \in Nat /\ Overalls[f] \in Nat /\ Overalls[p] \in Nat
      BY <1>1, <2>1, <2>4, <2>5, OverallsAre
    <2>11. Overalls'[f] = Overalls[f] + Overalls[p]
      BY <2>1, <2>3
    <2>12. Total(Overalls', Remaining') = Total(Overalls, Remaining)
      <3>1. Total(Overalls', R \cup {f}) = Total(Overalls, (R \cup {f}) \cup {p})
        BY <2>6, <2>7, <2>8, <2>9, <2>10, <2>11
      <3>. QED  BY <2>4, <3>1
    <2>13. Used' = Used
      BY <1>2 DEF Used
    <2>14. ASSUME NEW q \in Pids PROVE Overalls'[q] <= MaxCPU
      <3>1. CASE q = f
        <4>1. f \in Remaining' /\ Remaining' \in SUBSET Pids
          BY <2>4
        <4>2. Overalls'[f] <= Total(Overalls', Remaining')
          BY <2>5, <4>1, PidsAre, TotalMember
        <4>3. Total(Overalls, Remaining) \in Nat /\ Used \in Nat /\ Overalls'[f] \in Nat
          BY <1>1, <2>10, <2>11, OverallsAre
        <4>4. Total(Overalls, Remaining) <= Used /\ Used <= MaxCPU
          BY <1>1 DEF TimesKept
        <4>. QED  BY <2>12, <3>1, <4>2, <4>3, <4>4, AccountingAssumption
      <3>2. CASE q # f
        BY <1>1, <2>3, <3>2 DEF TimesKept
      <3>. QED  BY <3>1, <3>2
    <2>15. TimesKept'
      BY <1>1, <2>12, <2>13, <2>14 DEF TimesKept
    <2>. QED  BY <1>4, <2>2, <2>15 DEF KernelOK
  <1>8. waited' = waited \/ (ppid[p] # init /\ state[ppid[p]] = "run"
          /\ waited' = [waited EXCEPT ![ppid[p]] = @ + own[p] + waited[p]])
    BY DEF Wait
  <1>9. ppid[p] # init /\ ppid[p] # None => ppid[p] \in Pids
    BY <1>1 DEF KernelTypes
  <1>10. ASSUME ppid[p] = None, waited' = [waited EXCEPT ![ppid[p]] = @ + own[p] + waited[p]]
         PROVE  waited' = waited
    BY <1>1, <1>10, PidsAre DEF KernelTypes
  <1>. QED  BY <1>6, <1>7, <1>8, <1>9, <1>10

LEMMA KernelKept ==
  ASSUME KernelOK, Processes \/ MainWait \/ UNCHANGED kernel
  PROVE  KernelOK'
  <1>1. CASE Processes
    BY <1>1, RunKept, ForkKept, ExitKept, WaitKept DEF Processes
  <1>2. CASE MainWait
    <2>1. /\ state' = [state EXCEPT ![root] = "gone"] /\ state[root] = "zombie"
          /\ ppid' = ppid /\ own' = own /\ waited' = waited
      BY <1>2 DEF MainWait
    <2>2. KernelTypes /\ Born
      BY DEF KernelOK
    <2>3. \A q \in Pids : state'[q] = IF q = root THEN "gone" ELSE state[q]
      BY <2>1, <2>2 DEF KernelTypes
    <2>4. KernelTypes' /\ Born' /\ Remaining' \in SUBSET Remaining
      BY <2>1, <2>2, <2>3 DEF KernelTypes, Born, Remaining
    <2>. QED  BY <2>1, <2>4, FewerRemain DEF KernelOK
  <1>3. CASE UNCHANGED kernel
    BY <1>3 DEF kernel, KernelOK, KernelTypes, Born, TimesKept, Overalls, Remaining, Used
  <1>. QED  BY <1>1, <1>2, <1>3

-----------------------------------------------------------------------------
(* The tree.                                                               *)

Entry == [ppid : Pids \cup {init, None}, time : 0..MaxCPU \cup {None}, children : SUBSET Pids]

(* An entry has data or not; children have higher pids than their father,  *)
(* and one father.                                                         *)
EntriesOK(t) ==
  /\ t \in [Pids -> Entry]
  /\ \A p \in Pids : t[p] = NoData \/ t[p].time \in 0..MaxCPU
  /\ \A p, q \in Pids : t[q].ppid = p => p < q
  /\ \A p, q \in Pids : q \in t[p].children => p < q
  /\ \A p, q, r \in Pids : r \in t[p].children /\ r \in t[q].children => p = q

TreeOK == EntriesOK(tree) /\ EntriesOK(lastProcTree.tree) /\ todo \in Seq(Pids)

LEMMA NoDataIs ==
  /\ NoData \in Entry /\ NoData.children = {} /\ NoData.ppid = None /\ None \notin Pids
  /\ init \notin Pids /\ NoData.time = None
  BY PidsAre DEF NoData, Entry

(* A tree of which entries are new, or have lost children, or are erased.  *)
LEMMA ThinnerOK ==
  ASSUME NEW t, EntriesOK(t), NEW u \in [Pids -> Entry],
         \A p \in Pids : u[p].children \subseteq t[p].children,
         \A p \in Pids : u[p] = NoData \/ u[p].time \in 0..MaxCPU,
         \A p, q \in Pids : u[q].ppid = p => p < q
  PROVE  EntriesOK(u)
  BY DEF EntriesOK

LEMMA EmptyOK == EntriesOK(Cleared) /\ NoTree.tree = Cleared /\ NoTree.all = FALSE
  BY NoDataIs DEF EntriesOK, Cleared, NoTree

(* What is read of a process is true at that moment.                       *)
LEMMA ReadOK ==
  ASSUME KernelOK, NEW p \in Pids
  PROVE  /\ Overall(p) \in 0..MaxCPU
         /\ ppid[p] \in Pids \cup {init, None}
         /\ Read(p) \in Entry /\ Read(p).children = {} /\ Read(p).time \in 0..MaxCPU
         /\ \A q \in Pids : (Read(p).ppid = q \/ ppid[p] = q) => q < p
  <1>1. Overall(p) \in 0..MaxCPU /\ ppid[p] \in Pids \cup {init, None}
    <2>1. Overalls[p] \in Nat /\ Overalls[p] <= MaxCPU /\ Overall(p) = Overalls[p]
      BY OverallsAre DEF KernelOK, TimesKept, Overall
    <2>. QED  BY <2>1, AccountingAssumption DEF KernelOK, KernelTypes
  <1>2. 0 \in 0..MaxCPU
    BY AccountingAssumption
  <1>3. \A q \in Pids : ppid[p] = q => q < p
    BY DEF KernelOK, Born
  <1>4. CASE Exists(p)
    <2>1. Read(p) = [ppid |-> ppid[p], time |-> Overall(p), children |-> {}]
      BY <1>4 DEF Read
    <2>. QED  BY <1>1, <1>3, <2>1 DEF Entry
  <1>5. CASE ~Exists(p)
    <2>1. Read(p) = [ppid |-> None, time |-> 0, children |-> {}]
      BY <1>5 DEF Read
    <2>. QED  BY <1>1, <1>2, <1>3, <2>1, PidsAre DEF Entry
  <1>. QED  BY <1>4, <1>5

LEMMA ReadHasData ==
  ASSUME KernelOK, NEW p \in Pids
  PROVE  Read(p) # NoData
  <1>1. Read(p).time \in 0..MaxCPU
    BY ReadOK
  <1>2. NoData.time = None /\ None \notin 0..MaxCPU
    BY NoDataIs, AccountingAssumption DEF None
  <1>. QED  BY <1>1, <1>2

LEMMA CloneOK ==
  ASSUME NEW t, EntriesOK(t)
  PROVE  EntriesOK(clone(t))
  <1>1. \A p \in Pids : clone(t)[p] = t[p] \/ clone(t)[p] = NoData
    BY DEF clone
  <1>2. \A p \in Pids : t[p] \in Entry
    BY DEF EntriesOK
  <1>3. clone(t) \in [Pids -> Entry]
    BY <1>2, NoDataIs DEF clone
  <1>4. \A p \in Pids : clone(t)[p].children \subseteq t[p].children
    BY <1>1, NoDataIs
  <1>5. \A p \in Pids : clone(t)[p] = NoData \/ clone(t)[p].time \in 0..MaxCPU
    BY <1>1 DEF EntriesOK
  <1>6. \A p, q \in Pids : clone(t)[q].ppid = p => p < q
    BY <1>1, NoDataIs DEF EntriesOK
  <1>. QED  BY <1>3, <1>4, <1>5, <1>6, ThinnerOK

(* Whatever was read at whatever time, identifyChildren makes a forest.    *)
LEMMA ChildrenOK ==
  ASSUME NEW t, EntriesOK(t)
  PROVE  EntriesOK(identifyChildren(t))
  <1>. DEFINE u == identifyChildren(t)
  <1>1. ASSUME NEW p \in Pids
        PROVE  /\ u[p] \in Entry
               /\ u[p] = NoData \/ u[p].time \in 0..MaxCPU
               /\ u[p].ppid = t[p].ppid
               /\ \A q \in u[p].children : q \in Pids /\ t[q].ppid = p
    <2>1. CASE t[p] = NoData
      <3>1. u[p] = NoData
        BY <2>1 DEF identifyChildren
      <3>. QED  BY <2>1, <3>1, NoDataIs
    <2>2. CASE t[p] # NoData
      <3>1. u[p] = [t[p] EXCEPT !.children = {q \in Pids : t[q].ppid = p}]
        BY <2>2 DEF identifyChildren
      <3>2. t[p] \in Entry /\ t[p].time \in 0..MaxCPU
        BY <2>2 DEF EntriesOK
      <3>. QED  BY <3>1, <3>2 DEF Entry
    <2>. QED  BY <2>1, <2>2
  <1>2. u \in [Pids -> Entry]
    <2>1. u = [p \in Pids |-> u[p]]
      BY DEF identifyChildren
    <2>. QED  BY <1>1, <2>1
  <1>3. \A p, q \in Pids : t[q].ppid = p => p < q
    BY DEF EntriesOK
  <1>. HIDE DEF u
  <1>. QED  BY <1>1, <1>2, <1>3 DEF EntriesOK, u

(* The processes below one have higher pids; adding up what is below the   *)
(* root is adding up natural numbers.                                      *)
LEMMA ReachedIs ==
  ASSUME NEW t, EntriesOK(t), NEW p \in Pids
  PROVE  /\ ReachedFrom(t, p) \in SUBSET Pids
         /\ \A q \in ReachedFrom(t, p) : p <= q /\ t[q].time \in 0..MaxCPU
  <1>. DEFINE D == {q \in Pids : p <= q}
  <1>1. p \in Nat /\ Pids \subseteq Nat /\ Cardinality(Pids) \in 0..Cardinality(Pids)
    BY PidsAre
  <1>2. p \in D
    BY <1>1
  <1>3. \A q \in D : t[q].children \subseteq D
    <2>. SUFFICES ASSUME NEW q \in D, NEW r \in t[q].children PROVE r \in D
      OBVIOUS
    <2>1. t[q] \in Entry
      BY DEF EntriesOK
    <2>2. r \in Pids
      BY <2>1 DEF Entry
    <2>3. q < r
      BY <2>2 DEF EntriesOK
    <2>. QED  BY <1>1, <2>2, <2>3
  <1>. HIDE DEF D
  <1>4. Steps(t, p)[Cardinality(Pids)] \subseteq D
    BY <1>1, <1>2, <1>3, StepsWithin
  <1>5. \A q \in ReachedFrom(t, p) : q \in D /\ t[q] # NoData
    BY <1>4 DEF ReachedFrom, Below
  <1>. QED  BY <1>5 DEF D, EntriesOK

LEMMA SumIs ==
  ASSUME NEW t, EntriesOK(t)
  PROVE  Sum(t) \in Nat
  <1>. DEFINE R == ReachedFrom(t, root)
  <1>1. R \in SUBSET Pids /\ \A q \in R : t[q].time \in Nat
    BY ReachedIs, PidsAre
  <1>2. IsFiniteSet(R)
    BY <1>1, PidsAre, FS_Subset
  <1>. HIDE DEF R
  <1>3. [p \in R |-> t[p].time] \in [R -> Nat] /\ R \in SUBSET R
    BY <1>1
  <1>4. Total([p \in R |-> t[p].time], R) \in Nat
    BY <1>2, <1>3, TotalType
  <1>. QED  BY <1>4 DEF Sum, R

LEMMA ForestHolds ==
  ASSUME EntriesOK(tree)
  PROVE  OneFather
  <1>1. ASSUME NEW p \in Pids
        PROVE  Cardinality({f \in Pids : p \in tree[f].children}) <= 1
    <2>. DEFINE F == {f \in Pids : p \in tree[f].children}
    <2>1. \A f, g \in F : f = g
      BY DEF EntriesOK
    <2>. HIDE DEF F
    <2>2. F = {} => Cardinality(F) = 0
      BY FS_EmptySet
    <2>3. ASSUME NEW f \in F
          PROVE  Cardinality(F) = 1
      <3>1. F = {f}
        BY <2>1
      <3>2. Cardinality({f}) = 1
        BY FS_Singleton
      <3>. QED  BY <3>1, <3>2
    <2>4. Cardinality(F) <= 1
      BY <2>2, <2>3
    <2>. QED  BY <2>4 DEF F
  <1>2. ASSUME NEW p \in Pids, NEW c \in tree[p].children
        PROVE  p \notin ReachedFrom(tree, c)
    <2>1. tree[p] \in Entry
      BY DEF EntriesOK
    <2>2. c \in Pids
      BY <2>1 DEF Entry
    <2>3. p < c /\ p \in Nat /\ c \in Nat
      BY <2>2, PidsAre DEF EntriesOK
    <2>4. \A q \in ReachedFrom(tree, c) : c <= q
      BY <2>2, ReachedIs
    <2>. QED  BY <2>3, <2>4
  <1>. QED  BY <1>1, <1>2 DEF OneFather

(* Every step of a reading keeps the tree a forest.                        *)
LEMMA TreeKept ==
  ASSUME KernelOK, TreeOK, Next
  PROVE  TreeOK'
  <1>1. EntriesOK(tree) /\ EntriesOK(lastProcTree.tree) /\ todo \in Seq(Pids)
    BY DEF TreeOK
  <1>2. EntriesOK(Cleared) /\ NoTree.tree = Cleared /\ <<>> \in Seq(Pids)
    BY EmptyOK
  <1>3. CASE UNCHANGED <<tree, lastProcTree, todo>>
    BY <1>1, <1>3 DEF TreeOK
  <1>4. CASE StopSample
    <2>1. tree' = Cleared /\ lastProcTree'.tree = tree /\ todo' = <<>>
      BY <1>4 DEF StopSample
    <2>. QED  BY <1>1, <1>2, <2>1 DEF TreeOK
  <1>5. CASE BeginSample
    <2>1. /\ \/ tree' = Cleared /\ todo' = <<>>
             \/ tree' = clone(tree) /\ todo' = <<root>>
          /\ lastProcTree' = lastProcTree
      BY <1>5 DEF BeginSample
    <2>2. <<root>> \in Seq(Pids)
      BY PidsAre
    <2>3. EntriesOK(clone(tree))
      BY <1>1, CloneOK
    <2>. QED  BY <1>1, <1>2, <2>1, <2>2, <2>3 DEF TreeOK
  <1>6. CASE Reread
    BY <1>1, <1>2, <1>6 DEF Reread, TreeOK
  <1>11. CASE Readdir
    <2>1. PICK last \in Ahead : todo' = Ascending({p \in Ahead : p <= last})
      BY <1>11 DEF Readdir
    <2>2. {p \in Ahead : p <= last} \in SUBSET Pids
      BY DEF Ahead
    <2>3. todo' \in Seq(Pids)
      BY <2>1, <2>2, AscendingPids
    <2>. QED  BY <1>1, <1>11, <2>3 DEF Readdir, TreeOK
  <1>7. CASE ReadNext
    <2>. DEFINE p == Head(todo)
    <2>1. p \in Pids /\ Tail(todo) \in Seq(Pids) /\ todo' = Tail(todo)
          /\ tree' = [tree EXCEPT ![p] = Read(p)] /\ lastProcTree' = lastProcTree
      BY <1>1, <1>7 DEF ReadNext
    <2>. HIDE DEF p
    <2>2. tree \in [Pids -> Entry]
      BY <1>1 DEF EntriesOK
    <2>3. \A q \in Pids : tree'[q] = IF q = p THEN Read(p) ELSE tree[q]
      BY <2>1, <2>2
    <2>4. /\ Read(p) \in Entry /\ Read(p).children = {} /\ Read(p).time \in 0..MaxCPU
          /\ \A q \in Pids : Read(p).ppid = q => q < p
      BY <2>1, ReadOK
    <2>5. tree' \in [Pids -> Entry]
      BY <2>1, <2>2, <2>4
    <2>6. \A q \in Pids : tree'[q].children \subseteq tree[q].children
      BY <2>3, <2>4
    <2>7. \A q \in Pids : tree'[q] = NoData \/ tree'[q].time \in 0..MaxCPU
      BY <1>1, <2>3, <2>4 DEF EntriesOK
    <2>8. \A r, q \in Pids : tree'[q].ppid = r => r < q
      BY <1>1, <2>3, <2>4 DEF EntriesOK
    <2>9. EntriesOK(tree')
      BY <1>1, <2>5, <2>6, <2>7, <2>8, ThinnerOK
    <2>. QED  BY <1>1, <2>1, <2>9 DEF TreeOK
  <1>8. CASE UpdateNext
    <2>. DEFINE p == Head(todo)
    <2>1. p \in Pids /\ Tail(todo) \in Seq(Pids) /\ tree[p] \in Entry /\ tree \in [Pids -> Entry]
      BY <1>1, <1>8 DEF UpdateNext, EntriesOK
    <2>2. \/ UNCHANGED tree /\ todo' = Tail(todo)
          \/ /\ tree' = [tree EXCEPT ![p].ppid = ppid[p], ![p].time = Overall(p)]
             /\ todo' = Ascending(tree[p].children) \o Tail(todo)
          \/ tree' = [tree EXCEPT ![p] = NoData] /\ todo' = Tail(todo)
      BY <1>8 DEF UpdateNext
    <2>a. lastProcTree' = lastProcTree
      BY <1>8 DEF UpdateNext
    <2>. HIDE DEF p
    <2>3. CASE UNCHANGED tree /\ todo' = Tail(todo)
      BY <1>1, <2>1, <2>3, <2>a DEF TreeOK
    <2>4. CASE /\ tree' = [tree EXCEPT ![p].ppid = ppid[p], ![p].time = Overall(p)]
               /\ todo' = Ascending(tree[p].children) \o Tail(todo)
      <3>. DEFINE e == [ppid |-> ppid[p], time |-> Overall(p), children |-> tree[p].children]
      <3>1. tree' = [tree EXCEPT ![p] = e]
        <4>. DEFINE x == tree[p]
        <4>. DEFINE y == [ppid |-> ppid[p], time |-> x.time, children |-> x.children]
        <4>1. x = [ppid |-> x.ppid, time |-> x.time, children |-> x.children]
          BY <2>1 DEF Entry
        <4>2. [x EXCEPT !.ppid = ppid[p]] = y
          BY <4>1
        <4>3. [y EXCEPT !.time = Overall(p)] = e
          OBVIOUS
        <4>4. [tree EXCEPT ![p].ppid = ppid[p]] = [tree EXCEPT ![p] = y]
          BY <2>1, <4>2
        <4>. HIDE DEF y
        <4>5. [tree EXCEPT ![p] = y][p] = y
          BY <2>1
        <4>6. [[tree EXCEPT ![p] = y] EXCEPT ![p].time = Overall(p)] = [tree EXCEPT ![p] = e]
          BY <2>1, <4>3, <4>5
        <4>. QED  BY <2>4, <4>4, <4>6
      <3>2. /\ Overall(p) \in 0..MaxCPU /\ ppid[p] \in Pids \cup {init, None}
            /\ \A q \in Pids : ppid[p] = q => q < p
        BY <2>1, ReadOK
      <3>3. e \in Entry /\ tree[p].children \in SUBSET Pids
        BY <2>1, <3>2 DEF Entry
      <3>. HIDE DEF e
      <3>4. \A q \in Pids : tree'[q] = IF q = p THEN e ELSE tree[q]
        BY <2>1, <3>1
      <3>5. tree' \in [Pids -> Entry]
        BY <2>1, <3>1, <3>3
      <3>6. \A q \in Pids : tree'[q].children \subseteq tree[q].children
        BY <3>4 DEF e
      <3>7. \A q \in Pids : tree'[q] = NoData \/ tree'[q].time \in 0..MaxCPU
        <4>1. e.time \in 0..MaxCPU
          BY <3>2 DEF e
        <4>. QED  BY <1>1, <3>4, <4>1 DEF EntriesOK
      <3>8. \A r, q \in Pids : tree'[q].ppid = r => r < q
        <4>1. e.ppid = ppid[p]
          BY DEF e
        <4>. QED  BY <1>1, <3>2, <3>4, <4>1 DEF EntriesOK
      <3>9. EntriesOK(tree')
        BY <1>1, <3>5, <3>6, <3>7, <3>8, ThinnerOK
      <3>10. Ascending(tree[p].children) \in Seq(Pids)
        BY <3>3, AscendingPids
      <3>11. todo' \in Seq(Pids)
        BY <2>1, <2>4, <3>10
      <3>. QED  BY <1>1, <2>a, <3>9, <3>11 DEF TreeOK
    <2>5. CASE tree' = [tree EXCEPT ![p] = NoData] /\ todo' = Tail(todo)
      <3>1. \A q \in Pids : tree'[q] = IF q = p THEN NoData ELSE tree[q]
        BY <2>1, <2>5
      <3>2. tree' \in [Pids -> Entry]
        BY <2>1, <2>5, NoDataIs
      <3>3. \A q \in Pids : tree'[q].children \subseteq tree[q].children
        BY <3>1, NoDataIs
      <3>4. \A q \in Pids : tree'[q] = NoData \/ tree'[q].time \in 0..MaxCPU
        BY <1>1, <3>1 DEF EntriesOK
      <3>5. \A r, q \in Pids : tree'[q].ppid = r => r < q
        BY <1>1, <3>1, NoDataIs DEF EntriesOK
      <3>6. EntriesOK(tree')
        BY <1>1, <3>2, <3>3, <3>4, <3>5, ThinnerOK
      <3>. QED  BY <1>1, <2>1, <2>5, <2>a, <3>6 DEF TreeOK
    <2>. QED  BY <2>2, <2>3, <2>4, <2>5
  <1>9. CASE TreeRead \/ Account \/ RootEnded
    <2>1. /\ tree' \in {tree, identifyChildren(tree), lastProcTree.tree}
          /\ lastProcTree' \in {lastProcTree, NoTree}
          /\ todo' = todo
      BY <1>9 DEF TreeRead, Account, RootEnded, procTree
    <2>2. EntriesOK(identifyChildren(tree))
      BY <1>1, ChildrenOK
    <2>. QED  BY <1>1, <1>2, <2>1, <2>2 DEF TreeOK
  <1>10. CASE Processes \/ BeginFirst \/ TimerEnds \/ MainWait \/ Report
    BY <1>3, <1>10 DEF Processes, BeginFirst, TimerEnds, MainWait, Report
  <1>. QED  BY <1>4, <1>5, <1>6, <1>7, <1>8, <1>9, <1>10, <1>11 DEF Next

-----------------------------------------------------------------------------
(* The times, and what is left to read of a quiet sample.                  *)

Control ==
  /\ count \in 0..FullEvery
  /\ samples \in 0..MaxSamples
  /\ {alarm, stopSolverStarted, quiet, running, treeHasAllProcesses, lastProcTree.all} \subseteq BOOLEAN
  /\ timer \in {"start", "sleep", "update", "limit", "ended"} \cup Readings

(* The solver was stopped for a time that is still counted, and what was   *)
(* reported is what would be.                                              *)
Books ==
  /\ currentCPUTime \in Nat /\ lostCPUTime \in Nat
  /\ alarm => limitCPUTime <= currentCPUTime + lostCPUTime
  /\ childrusage \in Nat \cup {None}
  /\ childrusage # None => state[root] = "gone"
  /\ reported # None => timer = "ended" /\ childrusage # None /\ reported = virtualtime

(* While nothing moves, an entry is true, or its pid is in the part listed *)
(* or behind all that was listed.                                          *)
Unlisted(p) ==
  /\ \A q \in Pids : tree[q] # NoData => q < p
  /\ \A k \in 1..Len(todo) : todo[k] < p

Reading ==
  quiet =>
    /\ timer \in {"read", "stop"}
    /\ \A k \in 1..Len(todo) : Exists(todo[k])
    /\ \A p \in Pids :
         \/ Exists(p) /\ tree[p] = Read(p)
         \/ /\ tree[p] = NoData
            /\ Exists(p) => Unlisted(p) \/ \E k \in 1..Len(todo) : todo[k] = p

AInv == KernelOK /\ TreeOK /\ Control /\ Books /\ Reading

LEMMA KernelSteps ==
  ASSUME Next
  PROVE  Processes \/ MainWait \/ UNCHANGED kernel
  BY DEF Next, BeginFirst, BeginSample, StopSample, Reread, Readdir, ReadNext, UpdateNext, TreeRead,
         Account, RootEnded, TimerEnds, Report, kernel

(* A sample never lowers the time with what was lost.                      *)
LEMMA AccountAdds ==
  ASSUME AInv, Account
  PROVE  /\ currentCPUTime' \in Nat /\ lostCPUTime' \in Nat
         /\ currentCPUTime' + lostCPUTime' >= currentCPUTime + lostCPUTime
         /\ alarm' => limitCPUTime <= currentCPUTime' + lostCPUTime'
         /\ alarm' \in BOOLEAN
  <1>. DEFINE s == Sum(procTree)
  <1>1. s \in Nat
    <2>1. EntriesOK(procTree)
      BY ChildrenOK DEF AInv, TreeOK, procTree
    <2>. QED  BY <2>1, SumIs
  <1>2. /\ currentCPUTime' = s /\ lostCPUTime' = Lost(s)
        /\ alarm' = (alarm \/ (limitCPUTime # 0 /\ s + Lost(s) >= limitCPUTime))
    BY DEF Account
  <1>. HIDE DEF s
  <1>3. /\ currentCPUTime \in Nat /\ lostCPUTime \in Nat /\ alarm \in BOOLEAN
        /\ alarm => limitCPUTime <= currentCPUTime + lostCPUTime
    BY DEF AInv, Books, Control
  <1>4. Lost(s) \in Nat /\ s + Lost(s) >= currentCPUTime + lostCPUTime
    BY <1>1, <1>3 DEF Lost
  <1>5. limitCPUTime \in Nat
    BY AccountingAssumption
  <1>. QED  BY <1>1, <1>2, <1>3, <1>4, <1>5

LEMMA BooksKept ==
  ASSUME AInv, Next
  PROVE  Control' /\ Books'
  <1>1. Control /\ Books /\ KernelTypes /\ root \in Pids
    BY PidsAre DEF AInv, KernelOK
  <1>2. CASE Processes
    <2>1. /\ UNCHANGED <<count, samples, books, stopSolverStarted, lastProcTree, timer, running,
                         childrusage, reported, treeHasAllProcesses>> /\ quiet' = FALSE
      BY <1>2 DEF Processes
    <2>2. state[root] = "gone" => state'[root] = "gone"
      <3>1. PICK p \in Pids : Run(p) \/ Exit(p) \/ Wait(p) \/ \E f \in Pids : Fork(f, p)
        BY <1>2 DEF Processes
      <3>. QED  BY <1>1, <3>1 DEF Run, Exit, Wait, Fork, KernelTypes
    <2>. QED  BY <1>1, <2>1, <2>2 DEF Control, Books, books, virtualtime
  <1>3. CASE MainWait
    <2>1. Overall(root) \in Nat
      BY <1>1 DEF Overall, KernelTypes
    <2>2. /\ UNCHANGED <<count, samples, books, stopSolverStarted, lastProcTree, timer,
                         treeHasAllProcesses, reported>>
          /\ running' = FALSE /\ quiet' = FALSE /\ childrusage' = Overall(root)
          /\ state' = [state EXCEPT ![root] = "gone"] /\ state[root] = "zombie"
      BY <1>3 DEF MainWait
    <2>3. reported = None /\ state'[root] = "gone"
      BY <1>1, <2>2 DEF Books, KernelTypes
    <2>. QED  BY <1>1, <2>1, <2>2, <2>3 DEF Control, Books, books
  <1>4. CASE Account
    <2>1. /\ currentCPUTime' \in Nat /\ lostCPUTime' \in Nat
          /\ alarm' => limitCPUTime <= currentCPUTime' + lostCPUTime'
          /\ alarm' \in BOOLEAN
      BY <1>4, AccountAdds
    <2>2. /\ timer # "ended" /\ timer' \in {"sleep", "limit"} /\ quiet' = FALSE
          /\ stopSolverStarted' \in {stopSolverStarted, TRUE} /\ lastProcTree' = NoTree
          /\ UNCHANGED <<kernel, treeHasAllProcesses, count, samples, running, childrusage, reported>>
      BY <1>4 DEF Account
    <2>. QED  BY <1>1, <2>1, <2>2, EmptyOK DEF Control, Books, kernel
  <1>8. CASE RootEnded
    <2>1. /\ timer # "ended" /\ timer' \in {"sleep", "ended"} /\ quiet' = FALSE
          /\ running' \in {running, FALSE} /\ lastProcTree' = NoTree
          /\ treeHasAllProcesses' \in {treeHasAllProcesses, lastProcTree.all}
          /\ UNCHANGED <<kernel, count, samples, books, stopSolverStarted, childrusage, reported>>
      BY <1>8 DEF RootEnded
    <2>. QED  BY <1>1, <2>1, EmptyOK DEF Control, Books, kernel, books
  <1>5. CASE Report
    <2>1. virtualtime \in Nat /\ (virtualtime)' = virtualtime
      BY <1>1, <1>5 DEF Report, Books, virtualtime, books
    <2>. QED  BY <1>1, <1>5, <2>1 DEF Report, Control, Books, kernel, books
  <1>6. CASE BeginSample
    <2>1. count' \in 0..FullEvery /\ samples' \in 0..MaxSamples
      BY <1>1, <1>6, AccountingAssumption DEF BeginSample, Control
    <2>. QED  BY <1>1, <1>6, <2>1 DEF BeginSample, Control, Readings, Books, kernel, books
  <1>7. CASE BeginFirst \/ Reread \/ Readdir \/ ReadNext \/ UpdateNext \/ TreeRead \/ TimerEnds
    <2>1. /\ UNCHANGED <<kernel, count, samples, books, stopSolverStarted, lastProcTree, quiet, running,
                         childrusage, reported>>
          /\ timer # "ended" /\ (timer' = timer \/ timer' \in {"first", "sleep", "reread", "ended"})
          /\ treeHasAllProcesses' \in {treeHasAllProcesses, TRUE}
      BY <1>7 DEF BeginFirst, Reread, Readdir, ReadNext, UpdateNext, TreeRead, TimerEnds, Readings
    <2>2. timer' \in {"start", "sleep", "update", "limit", "ended"} \cup Readings
      BY <1>1, <2>1 DEF Control, Readings
    <2>. QED  BY <1>1, <2>1, <2>2 DEF Control, Books, kernel, books
  <1>9. CASE StopSample
    <2>1. /\ UNCHANGED <<kernel, count, samples, books, stopSolverStarted, running, childrusage, reported>>
          /\ timer = "limit" /\ timer' = "stop" /\ treeHasAllProcesses' = TRUE /\ quiet' = TRUE
          /\ lastProcTree' = [tree |-> tree, all |-> treeHasAllProcesses]
      BY <1>9 DEF StopSample
    <2>2. lastProcTree'.all = treeHasAllProcesses
      BY <2>1
    <2>. QED  BY <1>1, <2>1, <2>2 DEF Control, Readings, Books, kernel, books
  <1>. QED  BY <1>2, <1>3, <1>4, <1>5, <1>6, <1>7, <1>8, <1>9 DEF Next

(* What exists after a step of the timer exists before it.                 *)
LEMMA ReadingKept ==
  ASSUME AInv, Next
  PROVE  Reading'
  <1>. SUFFICES ASSUME quiet' PROVE Reading'
    BY DEF Reading
  <1>1. CASE BeginSample \/ StopSample
    <2>1. tree' = Cleared /\ todo' = <<>> /\ timer' \in {"read", "stop"}
      <3>1. CASE BeginSample
        BY <3>1 DEF BeginSample
      <3>2. CASE StopSample
        BY <3>2 DEF StopSample
      <3>. QED  BY <1>1, <3>1, <3>2
    <2>2. Len(todo') = 0 /\ \A p \in Pids : tree'[p] = NoData
      BY <2>1 DEF Cleared
    <2>. QED  BY <2>1, <2>2 DEF Reading, Unlisted
  <1>4. CASE Readdir
    <2>. DEFINE S(x) == {p \in Ahead : p <= x}
    <2>1. PICK last \in Ahead : todo' = Ascending(S(last))
      BY <1>4 DEF Readdir
    <2>2. /\ quiet /\ UNCHANGED <<kernel, tree, timer>> /\ Len(todo) = 0
          /\ Ahead \subseteq Pids /\ Pids \subseteq Nat
          /\ \A p \in Ahead : Exists(p)
      BY <1>4, PidsAre DEF Readdir, Ahead
    <2>3. S(last) \in SUBSET Pids
      BY <2>2
    <2>4. /\ \A k \in 1..Len(todo') : todo'[k] \in S(last)
          /\ \A p \in S(last) : \E k \in 1..Len(todo') : todo'[k] = p
      BY <2>1, <2>3, AscendingPids
    <2>5. \A p : (Exists(p)' <=> Exists(p)) /\ Read(p)' = Read(p)
      BY <2>2 DEF Exists, Read, Overall, kernel
    <2>6. \A k \in 1..Len(todo') : state'[todo'[k]] \in {"run", "zombie"}
      BY <2>2, <2>4 DEF Exists, kernel
    <2>7. ASSUME NEW p \in Pids, tree[p] = NoData, Exists(p)
          PROVE  Unlisted(p)' \/ \E k \in 1..Len(todo') : todo'[k] = p
      <3>1. \A q \in Pids : tree[q] # NoData => q < p
        <4>1. Read(p) # NoData
          BY <2>7, ReadHasData DEF AInv
        <4>2. Unlisted(p)
          BY <2>2, <2>7, <4>1 DEF AInv, Reading
        <4>. QED  BY <4>2 DEF Unlisted
      <3>2. p \in Ahead
        BY <2>7, <3>1 DEF Ahead
      <3>3. CASE p <= last
        BY <2>4, <3>2, <3>3
      <3>4. CASE ~(p <= last)
        <4>1. \A k \in 1..Len(todo') : todo'[k] < p
          <5>1. \A k \in 1..Len(todo') : todo'[k] \in Nat /\ todo'[k] <= last
            BY <2>2, <2>4
          <5>2. last \in Nat /\ p \in Nat /\ \A x \in Nat : x <= last => x < p
            BY <2>2, <3>4
          <5>. QED  BY <5>1, <5>2
        <4>. QED  BY <2>2, <3>1, <4>1 DEF Unlisted
      <3>. QED  BY <3>3, <3>4
    <2>8. /\ timer \in {"read", "stop"}
          /\ \A p \in Pids : (Exists(p) /\ tree[p] = Read(p)) \/ tree[p] = NoData
      BY <2>2 DEF AInv, Reading
    <2>. QED  BY <2>2, <2>5, <2>6, <2>7, <2>8 DEF Reading, Exists
  <1>2. CASE ReadNext
    <2>. DEFINE h == Head(todo)
    <2>1. /\ quiet /\ timer' = timer /\ UNCHANGED kernel
          /\ todo # <<>> /\ todo' = Tail(todo) /\ tree' = [tree EXCEPT ![h] = Read(h)]
      BY <1>2 DEF ReadNext
    <2>2. todo \in Seq(Pids) /\ tree \in [Pids -> Entry] /\ Reading
      BY DEF AInv, TreeOK, EntriesOK
    <2>3. h \in Pids /\ h = todo[1] /\ Len(todo) >= 1 /\ Len(todo') = Len(todo) - 1
          /\ Len(todo) \in Nat /\ \A k \in 1..Len(todo') : todo'[k] = todo[k + 1]
      BY <2>1, <2>2
    <2>. HIDE DEF h
    <2>4. \A p \in Pids : tree'[p] = IF p = h THEN Read(h) ELSE tree[p]
      BY <2>1, <2>2
    <2>5. \A p : (Exists(p)' <=> Exists(p)) /\ Read(p)' = Read(p)
      BY <2>1 DEF Exists, Read, Overall, kernel
    <2>6. /\ timer \in {"read", "stop"}
          /\ \A k \in 1..Len(todo) : Exists(todo[k])
          /\ \A p \in Pids :
               \/ Exists(p) /\ tree[p] = Read(p)
               \/ /\ tree[p] = NoData
                  /\ Exists(p) => Unlisted(p) \/ \E k \in 1..Len(todo) : todo[k] = p
      BY <2>1, <2>2 DEF Reading
    <2>a. \A k \in 1..Len(todo') : k + 1 \in 1..Len(todo)
      BY <2>3
    <2>7. \A k \in 1..Len(todo') : state'[todo'[k]] \in {"run", "zombie"}
      BY <2>1, <2>3, <2>6, <2>a DEF Exists, kernel
    <2>8. Exists(h)
      BY <2>3, <2>6
    <2>9. ASSUME NEW p \in Pids
          PROVE  \/ Exists(p)' /\ tree'[p] = Read(p)'
                 \/ /\ tree'[p] = NoData
                    /\ Exists(p)' => Unlisted(p)' \/ \E k \in 1..Len(todo') : todo'[k] = p
      <3>1. CASE p = h
        BY <2>4, <2>5, <2>8, <3>1
      <3>2. CASE p # h /\ Exists(p) /\ tree[p] = Read(p)
        BY <2>4, <2>5, <3>2
      <3>3. CASE p # h /\ tree[p] = NoData /\ ~Exists(p)
        BY <2>4, <2>5, <3>3
      <3>4. CASE p # h /\ tree[p] = NoData /\ \E k \in 1..Len(todo) : todo[k] = p
        <4>1. PICK k \in 1..Len(todo) : todo[k] = p
          BY <3>4
        <4>2. k # 1 /\ k - 1 \in 1..Len(todo') /\ (k - 1) + 1 = k
          BY <2>3, <3>4, <4>1
        <4>3. \E l \in 1..Len(todo') : todo'[l] = p
          BY <2>3, <4>1, <4>2
        <4>. QED  BY <2>4, <3>4, <4>3
      <3>5. CASE p # h /\ tree[p] = NoData /\ Unlisted(p)
        <4>1. h < p
          BY <2>3, <3>5 DEF Unlisted
        <4>2. \A q \in Pids : tree'[q] # NoData => q < p
          BY <2>4, <3>5, <4>1 DEF Unlisted
        <4>3. \A k \in 1..Len(todo') : todo'[k] < p
          BY <2>3, <2>a, <3>5 DEF Unlisted
        <4>4. Unlisted(p)'
          BY <4>2, <4>3 DEF Unlisted
        <4>. QED  BY <2>4, <3>5, <4>4
      <3>. QED  BY <2>6, <3>1, <3>2, <3>3, <3>4, <3>5
    <2>10. \A p \in Pids :
             \/ Exists(p)' /\ tree'[p] = Read(p)'
             \/ /\ tree'[p] = NoData
                /\ Exists(p)' => Unlisted(p)' \/ \E k \in 1..Len(todo') : todo'[k] = p
      BY <2>9
    <2>. QED  BY <2>1, <2>6, <2>7, <2>10 DEF Reading, Exists
  <1>3. ASSUME Processes \/ MainWait \/ BeginFirst \/ Reread \/ UpdateNext \/ TreeRead \/ Account
               \/ RootEnded \/ TimerEnds \/ Report
        PROVE  Reading'
    <2>1. quiet' = FALSE \/ (quiet /\ timer \notin {"read", "stop"})
      BY <1>3 DEF Processes, MainWait, BeginFirst, Reread, UpdateNext, TreeRead, Account, RootEnded,
                  TimerEnds, Report
    <2>. QED  BY <2>1 DEF AInv, Reading
  <1>. QED  BY <1>1, <1>2, <1>3, <1>4 DEF Next

LEMMA InitOK == Init => AInv
  <1>. SUFFICES ASSUME Init PROVE AInv
    OBVIOUS
  <1>1. KernelTypes /\ Born
    BY PidsAre DEF Init, KernelTypes, Born, root, init, None
  <1>2. TimesKept
    <2>1. Overalls = [p \in Pids |-> 0] /\ own = [p \in Pids |-> 0]
      BY DEF Init, Overalls
    <2>2. \A S \in SUBSET Pids : Total([p \in Pids |-> 0], S) = 0
      <3>. SUFFICES ASSUME NEW S \in SUBSET Pids PROVE Total([p \in Pids |-> 0], S) = 0
        OBVIOUS
      <3>1. Units([p \in Pids |-> 0], S) = {}
        BY DEF Units
      <3>. QED  BY <3>1, FS_EmptySet DEF Total
    <2>3. Remaining \in SUBSET Pids /\ Pids \in SUBSET Pids
      BY DEF Remaining
    <2>. QED  BY <2>1, <2>2, <2>3, AccountingAssumption DEF TimesKept, Used
  <1>3. TreeOK
    BY EmptyOK DEF Init, TreeOK
  <1>4. Control /\ Reading
    <2>1. 0 \in 0..FullEvery /\ 0 \in 0..MaxSamples
      BY AccountingAssumption
    <2>2. count = 0 /\ samples = 0 /\ timer = "start"
      BY DEF Init
    <2>3. /\ alarm = FALSE /\ quiet = FALSE /\ running = TRUE /\ treeHasAllProcesses = FALSE
          /\ stopSolverStarted = FALSE /\ lastProcTree.all = FALSE
      BY EmptyOK DEF Init
    <2>4. {alarm, stopSolverStarted, quiet, running, treeHasAllProcesses, lastProcTree.all} \subseteq BOOLEAN
      BY <2>3
    <2>. QED  BY <2>1, <2>2, <2>3, <2>4 DEF Control, Reading
  <1>5. Books
    BY AccountingAssumption DEF Init, Books
  <1>. QED  BY <1>1, <1>2, <1>3, <1>4, <1>5 DEF AInv, KernelOK

LEMMA AInvKept ==
  ASSUME AInv, [Next]_vars
  PROVE  AInv'
  <1>1. CASE Next
    <2>1. KernelOK'
      BY <1>1, KernelSteps, KernelKept DEF AInv
    <2>2. TreeOK'
      BY <1>1, TreeKept DEF AInv
    <2>. QED  BY <1>1, <2>1, <2>2, BooksKept, ReadingKept DEF AInv
  <1>2. CASE UNCHANGED vars
    <2>1. KernelOK'
      BY <1>2, KernelKept DEF AInv, vars
    <2>2. UNCHANGED <<kernel, tree, treeHasAllProcesses, todo, count, samples, books, stopSolverStarted,
                      lastProcTree, quiet, timer, running, childrusage, reported>>
      BY <1>2 DEF vars
    <2>3. TreeOK'
      BY <2>2 DEF AInv, TreeOK
    <2>4. Control' /\ Books'
      BY <2>2 DEF AInv, Control, Books, kernel, books, virtualtime
    <2>5. Reading'
      BY <2>2 DEF AInv, Reading, Unlisted, kernel, Exists, Read, Overall
    <2>. QED  BY <2>1, <2>3, <2>4, <2>5 DEF AInv
  <1>. QED  BY <1>1, <1>2

(* The inductive invariant.                                                *)
THEOREM AccountsInductive == Spec => []AInv
  BY InitOK, AInvKept, PTL DEF Spec

(* The tree is a forest at every step of every reading, what is reported   *)
(* covers the processes that were waited for, and it is not below the      *)
(* limit the solver was stopped for.                                       *)
THEOREM AccountsExact == Spec => []AccountsHold
  <1>1. ASSUME AInv PROVE AccountsHold
    <2>1. KernelOK /\ TreeOK /\ Control /\ Books /\ EntriesOK(tree)
      BY <1>1 DEF AInv, TreeOK
    <2>2. OneFather
      BY <2>1, ForestHolds
    <2>3. TypeOK
      <3>1. \A p \in Pids : own[p] \in 0..MaxCPU /\ waited[p] \in 0..MaxCPU
        <4>. SUFFICES ASSUME NEW p \in Pids
                      PROVE  own[p] \in 0..MaxCPU /\ waited[p] \in 0..MaxCPU
          OBVIOUS
        <4>1. own[p] \in Nat /\ waited[p] \in Nat /\ own[p] + waited[p] <= MaxCPU
          BY <2>1, OverallsAre DEF KernelOK, KernelTypes, TimesKept
        <4>. QED  BY <4>1, AccountingAssumption
      <3>2. own \in [Pids -> 0..MaxCPU] /\ waited \in [Pids -> 0..MaxCPU]
        <4>1. own \in [Pids -> Nat] /\ waited \in [Pids -> Nat]
          BY <2>1 DEF KernelOK, KernelTypes
        <4>. QED  BY <3>1, <4>1
      <3>3. {tree, lastProcTree.tree} \subseteq [Pids -> Entry] /\ todo \in Seq(Pids)
        BY <2>1 DEF TreeOK, EntriesOK
      <3>4. reported \in Nat \cup {None}
        BY <2>1 DEF Books, virtualtime
      <3>. QED  BY <2>1, <3>2, <3>3, <3>4 DEF KernelOK, KernelTypes, Control, Books, TypeOK, Entry
    <2>4. ASSUME reported # None
          PROVE  /\ reported >= currentCPUTime + lostCPUTime
                 /\ childrusage <= currentCPUTime + Jump => reported >= childrusage
      <3>1. /\ currentCPUTime \in Nat /\ lostCPUTime \in Nat /\ childrusage \in Nat
            /\ reported = virtualtime
        BY <2>1, <2>4 DEF Books
      <3>. QED  BY <3>1, AccountingAssumption DEF virtualtime
    <2>5. ReportCovers
      BY <2>4 DEF ReportCovers, AllWaited
    <2>6. ReportAboveLimit
      <3>1. alarm => limitCPUTime <= currentCPUTime + lostCPUTime
        BY <2>1 DEF Books
      <3>2. currentCPUTime + lostCPUTime \in Nat /\ limitCPUTime \in Nat
            /\ (reported # None => reported \in Nat)
        BY <2>1, <2>3, AccountingAssumption DEF Books, TypeOK
      <3>. QED  BY <2>4, <3>1, <3>2 DEF ReportAboveLimit
    <2>. QED  BY <2>2, <2>3, <2>5, <2>6 DEF AccountsHold
  <1>. QED  BY <1>1, AccountsInductive, PTL

(* The time given to the limit and to the time stamps never goes back.     *)
THEOREM TimeNeverBack == Spec => NeverBack
  <1>1. ASSUME AInv, [Next]_vars
        PROVE  [currentCPUTime' + lostCPUTime' >= currentCPUTime + lostCPUTime]_vars
    <2>1. CASE Account
      BY <1>1, <2>1, AccountAdds
    <2>2. CASE UNCHANGED books
      <3>1. currentCPUTime \in Nat /\ lostCPUTime \in Nat
        BY <1>1 DEF AInv, Books
      <3>. QED  BY <2>2, <3>1 DEF books
    <2>3. CASE UNCHANGED vars
      BY <2>3
    <2>. QED  BY <1>1, <2>1, <2>2, <2>3 DEF Next, Processes, BeginFirst, BeginSample, StopSample, Reread,
                 Readdir, ReadNext, UpdateNext, TreeRead, RootEnded, TimerEnds, MainWait, Report
  <1>. QED  BY <1>1, AccountsInductive, PTL DEF Spec, NeverBack

-----------------------------------------------------------------------------
(* A quiet sample.                                                         *)

(* The tree once all is read: the processes that exist, each true.         *)
LEMMA QuietTree ==
  ASSUME AInv, quiet, AllRead
  PROVE  LET t == identifyChildren(tree)
         IN  \A p \in Pids :
               /\ t[p] = NoData <=> ~Exists(p)
               /\ Exists(p) => t[p].time = own[p] + waited[p]
               /\ \A q \in Pids :
                    q \in t[p].children <=> (Exists(p) /\ Exists(q) /\ ppid[q] = p)
  <1>1. \A p \in Pids : (Exists(p) /\ tree[p] = Read(p)) \/ (tree[p] = NoData /\ ~Exists(p))
    <2>1. Len(todo) = 0 /\ Ahead = {}
      BY DEF AInv, Reading, Readings, AllRead
    <2>2. \A p \in Pids : ~(Exists(p) /\ Unlisted(p))
      BY <2>1 DEF Ahead, Unlisted
    <2>. QED  BY <2>1, <2>2 DEF AInv, Reading
  <1>2. ASSUME NEW p \in Pids, Exists(p)
        PROVE  /\ Read(p).ppid = ppid[p] /\ Read(p).time = own[p] + waited[p]
               /\ Read(p) # NoData /\ Read(p) \in Entry
    <2>1. Read(p) = [ppid |-> ppid[p], time |-> Overall(p), children |-> {}]
      BY <1>2 DEF Read
    <2>2. Read(p) \in Entry /\ Overall(p) \in 0..MaxCPU
      BY ReadOK DEF AInv
    <2>3. NoData.time = None /\ None \notin 0..MaxCPU
      BY NoDataIs, AccountingAssumption DEF None
    <2>. QED  BY <2>1, <2>2, <2>3 DEF Overall
  <1>. DEFINE t == identifyChildren(tree)
  <1>3. ASSUME NEW p \in Pids
        PROVE  /\ t[p] = NoData <=> ~Exists(p)
               /\ Exists(p) => t[p].time = own[p] + waited[p]
               /\ \A q \in Pids :
                    q \in t[p].children <=> (Exists(p) /\ Exists(q) /\ ppid[q] = p)
    <2>1. CASE Exists(p)
      <3>. DEFINE C == {q \in Pids : tree[q].ppid = p}
      <3>1. tree[p] = Read(p) /\ tree[p] # NoData /\ tree[p] \in Entry
        BY <1>1, <1>2, <2>1
      <3>2. t[p] = [tree[p] EXCEPT !.children = C]
        BY <3>1 DEF identifyChildren
      <3>. HIDE DEF C, t
      <3>3. t[p].children = C /\ t[p].time = tree[p].time
        BY <3>1, <3>2 DEF Entry
      <3>4. t[p].time = own[p] + waited[p] /\ t[p] # NoData
        <4>1. t[p].time = own[p] + waited[p]
          BY <1>2, <2>1, <3>1, <3>3
        <4>2. t[p].time \in Nat
          BY <4>1 DEF AInv, KernelOK, KernelTypes
        <4>. QED  BY <4>1, <4>2, NoDataIs DEF None
      <3>5. \A q \in Pids : q \in C <=> (Exists(q) /\ ppid[q] = p)
        BY <1>1, <1>2, NoDataIs DEF C
      <3>. QED  BY <2>1, <3>3, <3>4, <3>5
    <2>2. CASE ~Exists(p)
      <3>1. tree[p] = NoData
        BY <1>1, <2>2
      <3>2. t[p] = NoData
        BY <3>1 DEF identifyChildren
      <3>. QED  BY <2>2, <3>2, NoDataIs
    <2>. QED  BY <2>1, <2>2
  <1>. QED  BY <1>3

(* What is reached in it is the descendants of the root.                   *)
LEMMA ReachesAll ==
  ASSUME NEW t, \A p \in Pids : t[p] = NoData <=> ~Exists(p),
         \A p \in Pids : t[p].children \subseteq Pids,
         \A p, q \in Pids : q \in t[p].children <=> (Exists(p) /\ Exists(q) /\ ppid[q] = p),
         Exists(root)
  PROVE  ReachedFrom(t, root) = Descendants
  <1>. DEFINE last == Steps(t, root)[Cardinality(Pids)]
  <1>1. root \in Pids /\ Cardinality(Pids) \in 0..Cardinality(Pids)
    BY PidsAre
  <1>2. root \in last /\ \A q \in last : t[q].children \subseteq last
    BY <1>1, StepsClosed
  <1>3. ASSUME NEW D \in SUBSET Pids, root \in D, \A q \in D : t[q].children \subseteq D
        PROVE  last \subseteq D
    BY <1>1, <1>3, StepsWithin
  <1>. HIDE DEF last
  <1>4. \A q \in last : q \in Pids /\ Exists(q)
    <2>. DEFINE D == {q \in Pids : Exists(q)}
    <2>1. D \in SUBSET Pids /\ root \in D
      BY <1>1
    <2>2. \A q \in D : t[q].children \subseteq D
      OBVIOUS
    <2>. HIDE DEF D
    <2>3. last \subseteq D
      BY <2>1, <2>2, <1>3
    <2>. QED  BY <2>3 DEF D
  <1>5. ReachedFrom(t, root) = last
    <2>1. t[root] # NoData /\ \A q \in last : t[q] # NoData
      BY <1>1, <1>4
    <2>. QED  BY <2>1 DEF ReachedFrom, Below, last
  <1>6. ASSUME NEW D \in SUBSET Pids, Family(D) PROVE last \subseteq D
    <2>1. root \in D /\ \A q \in D : t[q].children \subseteq D
      BY <1>6 DEF Family
    <2>. QED  BY <2>1, <1>3
  <1>7. Family(last) /\ last \in SUBSET Pids
    <2>1. ASSUME NEW p \in Pids, Exists(p), ppid[p] \in last PROVE p \in last
      <3>1. p \in t[ppid[p]].children
        BY <1>4, <2>1
      <3>. QED  BY <1>2, <2>1, <3>1
    <2>. QED  BY <1>2, <1>4, <2>1 DEF Family
  <1>. QED  BY <1>4, <1>5, <1>6, <1>7 DEF Descendants

(* A sample of all processes during which none moves is exact, and takes   *)
(* the solver for ended when it is gone only.                              *)
THEOREM QuietIsExact == Spec => SampleExact
  <1>. DEFINE t == identifyChildren(tree)
  <1>b. ASSUME AInv, quiet PROVE timer \in {"read", "stop"} /\ procTree = t
    BY <1>b DEF AInv, Reading, procTree
  <1>1. ASSUME AInv, Account, quiet
        PROVE  /\ Exists(root)
               /\ currentCPUTime' = Total([p \in Pids |-> own[p] + waited[p]], Descendants)
    <2>1. AllRead /\ procTree = t /\ t[root] # NoData /\ currentCPUTime' = Sum(t)
      BY <1>1, <1>b DEF Account
    <2>2. \A p \in Pids :
            /\ t[p] = NoData <=> ~Exists(p)
            /\ Exists(p) => t[p].time = own[p] + waited[p]
            /\ \A q \in Pids : q \in t[p].children <=> (Exists(p) /\ Exists(q) /\ ppid[q] = p)
      BY <1>1, <2>1, QuietTree
    <2>3. EntriesOK(t)
      BY <1>1, ChildrenOK DEF AInv, TreeOK
    <2>. HIDE DEF t
    <2>4. \A p \in Pids : t[p].children \subseteq Pids
      BY <2>3 DEF EntriesOK, Entry
    <2>5. Exists(root) /\ root \in Pids
      BY <2>1, <2>2, PidsAre
    <2>. DEFINE R == ReachedFrom(t, root)
    <2>6. R = Descendants
      BY <2>2, <2>4, <2>5, ReachesAll
    <2>7. R \in SUBSET Pids /\ \A p \in R : t[p] # NoData
      BY <2>3, <2>5, ReachedIs DEF ReachedFrom, Below
    <2>. HIDE DEF R
    <2>8. \A p \in R : [q \in R |-> t[q].time][p] = [q \in Pids |-> own[q] + waited[q]][p]
      BY <2>2, <2>7
    <2>9. Total([q \in R |-> t[q].time], R) = Total([q \in Pids |-> own[q] + waited[q]], R)
      BY <2>8, TotalSame
    <2>. QED  BY <2>1, <2>5, <2>6, <2>9 DEF Sum, R
  <1>2. ASSUME AInv, RootEnded, quiet
        PROVE  ~Exists(root) /\ UNCHANGED books
    <2>1. AllRead /\ procTree = t /\ t[root] = NoData /\ UNCHANGED books
      BY <1>2, <1>b DEF RootEnded
    <2>2. t[root] = NoData <=> ~Exists(root)
      BY <1>2, <2>1, QuietTree, PidsAre
    <2>. QED  BY <2>1, <2>2
  <1>3. ASSUME AInv, [Next]_vars
        PROVE  [(quiet /\ timer' # timer) =>
                  IF Exists(root)
                  THEN currentCPUTime' = Total([p \in Pids |-> own[p] + waited[p]], Descendants)
                  ELSE UNCHANGED books]_vars
    <2>1. CASE Next
      <3>1. ASSUME quiet, timer' # timer PROVE Account \/ RootEnded
        <4>1. timer \in {"read", "stop"}
          BY <1>3, <1>b, <3>1
        <4>. QED  BY <2>1, <3>1, <4>1 DEF Next, Processes, BeginFirst, BeginSample, StopSample, Reread,
                     Readdir, ReadNext, UpdateNext, TreeRead, TimerEnds, MainWait, Report
      <3>. QED  BY <1>1, <1>2, <1>3, <3>1
    <2>2. CASE UNCHANGED vars
      BY <2>2
    <2>. QED  BY <1>3, <2>1, <2>2
  <1>. QED  BY <1>3, AccountsInductive, PTL DEF Spec, SampleExact
=============================================================================
