--------------------------- MODULE HistoryProofs ---------------------------
(***************************************************************************)
(* Proofs about History, for any number of cells and of samples: every     *)
(* tree has one owner, the current tree stays alive, the cells are ordered *)
(* by age, and so is what is dumped.                                       *)
(***************************************************************************)
EXTENDS History, SumProofs, SequenceTheorems

(* The trees of the history exist.                                         *)
HeldExist ==
  \A c \in Cells : \A i \in 0..1 : Live(c, i) => history[c][i] \in 0..(trees - 1)

(* A cell is used only when those before it are.                           *)
NoGaps == \A c \in Cells : \A d \in 0..c : nbitem[c] > 0 => nbitem[d] > 0

(* The last tree of the first cell is the current one.                     *)
NewestIsCurrent == nbitem[0] > 0 /\ history[0][nbitem[0] - 1] = procTree

HInv ==
  /\ TypeOK
  /\ HeldExist
  /\ NoGaps
  /\ NewestIsCurrent
  /\ Owned
  /\ AgeOrder
  /\ AllFreed

-----------------------------------------------------------------------------
(* What push leaves in a cell (ProcessHistory.hh:58).                      *)

LEMMA ReachedStep ==
  ASSUME nbitem \in [Cells -> 0..2]
  PROVE  /\ Reached(0)
         /\ \A c \in Cells : Reached(c + 1) <=> Reached(c) /\ nbitem[c] = 2
  BY HistoryAssumption DEF Cells, Reached

(* The three cases of a cell: not reached, with room, full.                *)
LEMMA PushCells ==
  ASSUME TypeOK, NEW elem \in Tree, push(elem), NEW c \in Cells
  PROVE  /\ ~Reached(c) => nbitem'[c] = nbitem[c] /\ history'[c] = history[c]
         /\ Reached(c) /\ nbitem[c] = 0 =>
              nbitem'[c] = 1 /\ history'[c][0] = Incoming(c, elem)
         /\ Reached(c) /\ nbitem[c] = 1 =>
              /\ nbitem'[c] = 2
              /\ history'[c][0] = history[c][0]
              /\ history'[c][1] = Incoming(c, elem)
         /\ Reached(c) /\ nbitem[c] = 2 =>
              nbitem'[c] = 1 /\ history'[c][0] = Incoming(c, elem)
  <1>1. nbitem[c] \in 0..2
    BY DEF TypeOK
  <1>2. history[c] = [i \in 0..1 |-> history[c][i]]
    BY DEF TypeOK
  <1>3. ~Reached(c) => nbitem'[c] = nbitem[c] /\ history'[c] = history[c]
    BY <1>2 DEF push
  <1>4. Reached(c) => /\ nbitem'[c] = Place(c) + 1
                      /\ history'[c][0] = IF Place(c) = 0 THEN Incoming(c, elem) ELSE history[c][0]
                      /\ history'[c][1] = IF Place(c) = 1 THEN Incoming(c, elem) ELSE history[c][1]
    BY DEF push
  <1>. QED  BY <1>1, <1>3, <1>4 DEF Place

(* What a cell receives from the one before it, which was full.            *)
LEMMA IncomingIs ==
  ASSUME TypeOK, NEW elem \in Tree, NEW c \in Cells, Reached(c)
  PROVE  /\ c = 0 => Incoming(c, elem) = elem
         /\ c # 0 => /\ c - 1 \in Cells
                     /\ nbitem[c - 1] = 2
                     /\ Reached(c - 1)
                     /\ Incoming(c, elem) = history[c - 1][0]
  BY HistoryAssumption DEF Cells, Reached, Incoming

LEMMA PushTypes ==
  ASSUME TypeOK, NEW elem \in Tree, push(elem)
  PROVE  /\ nbitem' \in [Cells -> 0..2]
         /\ history' \in [Cells -> [0..1 -> Tree \cup {NoTree}]]
  <1>1. ASSUME NEW c \in Cells
        PROVE  Place(c) + 1 \in 0..2
    BY DEF TypeOK, Place
  <1>2. ASSUME NEW c \in Cells
        PROVE  Reached(c) => Incoming(c, elem) \in Tree \cup {NoTree}
    <2>1. CASE c = 0
      BY <2>1 DEF Incoming
    <2>2. CASE c # 0
      BY <2>2, IncomingIs DEF TypeOK
    <2>. QED  BY <2>1, <2>2
  <1>. QED  BY <1>1, <1>2 DEF push, TypeOK

-----------------------------------------------------------------------------
(* Each tree of the history after a push: where it was before.             *)

(* Slot j of cell d after the push holds what slot b of cell a held.       *)
Stems(d, j, a, b) ==
  /\ a \in Cells /\ b \in 0..1 /\ Live(a, b)
  /\ history'[d][j] = history[a][b]
  /\ \/ a = d /\ b = j /\ (Reached(d) => nbitem[d] = 1)
     \/ a = d - 1 /\ b = 0 /\ Reached(d) /\ nbitem[a] = 2 /\ j = nbitem'[d] - 1

LEMMA WhereFrom ==
  ASSUME TypeOK, NEW elem \in Tree, push(elem),
         NEW d \in Cells, NEW j \in 0..1, Live(d, j)'
  PROVE  \/ d = 0 /\ j = nbitem'[0] - 1 /\ history'[d][j] = elem
         \/ \E a \in Cells, b \in 0..1 : Stems(d, j, a, b)
  <1>. USE DEF Live
  <1>1. nbitem[d] \in 0..2 /\ Cells \subseteq Int
    BY DEF TypeOK, Cells
  <1>2. CASE ~Reached(d)
    <2>1. Stems(d, j, d, j)
      BY <1>2, <1>1, PushCells DEF Stems
    <2>. QED  BY <2>1
  <1>3. CASE Reached(d) /\ nbitem[d] = 1 /\ j = 0
    <2>1. Stems(d, j, d, j)
      BY <1>3, <1>1, PushCells DEF Stems
    <2>. QED  BY <2>1
  <1>4. CASE Reached(d) /\ ~(nbitem[d] = 1 /\ j = 0)
    <2>1. history'[d][j] = Incoming(d, elem) /\ j = nbitem'[d] - 1
      BY <1>4, <1>1, PushCells
    <2>2. CASE d = 0
      BY <2>1, <2>2, <1>4, IncomingIs
    <2>3. CASE d # 0
      <3>1. Stems(d, j, d - 1, 0)
        BY <2>1, <2>3, <1>1, <1>4, IncomingIs DEF Stems
      <3>2. d - 1 \in Cells
        BY <2>3, <1>4, IncomingIs
      <3>. QED  BY <3>1, <3>2
    <2>. QED  BY <2>2, <2>3
  <1>. QED  BY <1>2, <1>3, <1>4

(* Two slots do not stem from one.                                         *)
LEMMA StemsOnce ==
  ASSUME TypeOK, NEW elem \in Tree, push(elem),
         NEW d \in Cells, NEW j \in 0..1, NEW e \in Cells, NEW k \in 0..1,
         NEW a \in Cells, NEW b \in 0..1,
         Stems(d, j, a, b), Stems(e, k, a, b)
  PROVE  d = e /\ j = k
  <1>1. Cells \subseteq Int
    BY DEF Cells
  <1>2. \A c \in Cells : Reached(c + 1) <=> Reached(c) /\ nbitem[c] = 2
    BY ReachedStep DEF TypeOK
  <1>. QED  BY <1>1, <1>2 DEF Stems

(* Stemming keeps the order of the slots.                                  *)
LEMMA StemsOrdered ==
  ASSUME TypeOK, NEW elem \in Tree, push(elem),
         NEW d \in Cells, NEW j \in 0..1, NEW e \in Cells, NEW k \in 0..1,
         Live(d, j)', Live(e, k)',
         NEW a \in Cells, NEW b \in 0..1, NEW x \in Cells, NEW y \in 0..1,
         Stems(d, j, a, b), Stems(e, k, x, y),
         d > e \/ (d = e /\ j < k)
  PROVE  a > x \/ (a = x /\ b < y)
  <1>1. Cells \subseteq Int /\ 0..1 \subseteq Int
    BY DEF Cells
  <1>2. \A c \in Cells : Reached(c + 1) <=> Reached(c) /\ nbitem[c] = 2
    BY ReachedStep DEF TypeOK
  <1>3. \A c \in Cells : nbitem'[c] \in 0..2
    BY PushTypes
  <1>4. Reached(e) /\ nbitem[e] = 2 => nbitem'[e] = 1
    BY PushCells
  <1>5. d - 1 = e /\ Reached(d) => Reached(e) /\ nbitem[e] = 2
    BY <1>1, <1>2
  <1>. QED  BY <1>1, <1>3, <1>4, <1>5 DEF Stems, Live

(* A slot is handed on, or its tree is one of those push drops.            *)
LEMMA WhereTo ==
  ASSUME TypeOK, NEW elem \in Tree, push(elem),
         NEW a \in Cells, NEW b \in 0..1, Live(a, b)
  PROVE  \/ history[a][b] \in Dropped
         \/ \E d \in Cells, j \in 0..1 : Live(d, j)' /\ Stems(d, j, a, b)
  <1>. USE DEF Live
  <1>1. nbitem[a] \in 0..2 /\ Cells \subseteq Int
    BY DEF TypeOK, Cells
  <1>2. CASE ~Reached(a) \/ (nbitem[a] = 1 /\ b = 0)
    <2>1. nbitem'[a] >= nbitem[a] /\ history'[a][b] = history[a][b]
      BY <1>1, <1>2, PushCells
    <2>2. Stems(a, b, a, b)
      BY <2>1, <1>2, <1>1 DEF Stems
    <2>. QED  BY <2>1, <2>2, <1>1, PushTypes
  <1>3. CASE Reached(a) /\ nbitem[a] = 2 /\ b = 1
    BY <1>3 DEF Dropped
  <1>4. CASE Reached(a) /\ nbitem[a] = 2 /\ b = 0 /\ a = nbcell - 1
    <2>1. Reached(nbcell)
      BY <1>4, <1>1, ReachedStep, HistoryAssumption DEF TypeOK, Cells
    <2>. QED  BY <2>1, <1>4 DEF Dropped
  <1>5. CASE Reached(a) /\ nbitem[a] = 2 /\ b = 0 /\ a # nbcell - 1
    <2>1. a + 1 \in Cells /\ a + 1 # 0
      BY <1>5, HistoryAssumption DEF Cells
    <2>2. Reached(a + 1)
      BY <1>5, ReachedStep DEF TypeOK
    <2>3. Incoming(a + 1, elem) = history[a][0]
      BY <2>1, <1>1 DEF Incoming
    <2>4. nbitem[a + 1] \in 0..2 /\ nbitem'[a + 1] \in 0..2
      BY <2>1, PushTypes DEF TypeOK
    <2>5. /\ nbitem[a + 1] = 0 => nbitem'[a + 1] = 1 /\ history'[a + 1][0] = history[a][0]
          /\ nbitem[a + 1] = 1 => nbitem'[a + 1] = 2 /\ history'[a + 1][1] = history[a][0]
          /\ nbitem[a + 1] = 2 => nbitem'[a + 1] = 1 /\ history'[a + 1][0] = history[a][0]
      BY <2>1, <2>2, <2>3, PushCells
    <2>6. PICK k \in 0..1 : k = nbitem'[a + 1] - 1 /\ history'[a + 1][k] = history[a][0]
      BY <2>4, <2>5
    <2>7. Stems(a + 1, k, a, 0)
      BY <2>1, <2>2, <2>6, <1>5, <1>1 DEF Stems
    <2>8. Live(a + 1, k)'
      BY <2>4, <2>6
    <2>. QED  BY <2>1, <2>7, <2>8, <1>5
  <1>. QED  BY <1>1, <1>2, <1>3, <1>4, <1>5

(* What is dropped stood in a slot that nothing stems from.                *)
LEMMA DroppedGone ==
  ASSUME TypeOK, Owned, phase # "destroyed", NEW elem \in Tree, push(elem),
         NEW d \in Cells, NEW j \in 0..1, NEW a \in Cells, NEW b \in 0..1,
         Live(d, j)', Stems(d, j, a, b)
  PROVE  history[a][b] \notin Dropped
  <1>1. Cells \subseteq Int
    BY DEF Cells
  <1>2. \A c \in Cells : Reached(c + 1) <=> Reached(c) /\ nbitem[c] = 2
    BY ReachedStep DEF TypeOK
  <1>3. ASSUME NEW c \in Cells, Reached(c), nbitem[c] = 2, history[a][b] = history[c][1]
        PROVE  FALSE
    <2>1. a = c /\ b = 1
      BY <1>3 DEF Owned, Live, Stems
    <2>2. a = d /\ (Reached(d) => nbitem[d] = 1)
      BY <2>1 DEF Stems
    <2>. QED  BY <2>1, <2>2, <1>3
  <1>4. ASSUME Reached(nbcell), nbcell - 1 \in Cells, history[a][b] = history[nbcell - 1][0]
        PROVE  FALSE
    <2>1. Reached(nbcell - 1) /\ nbitem[nbcell - 1] = 2
      BY <1>2, <1>4, HistoryAssumption DEF Cells
    <2>2. a = nbcell - 1 /\ b = 0
      BY <2>1, <1>4 DEF Owned, Live, Stems
    <2>3. a # d - 1
      BY <2>2, HistoryAssumption DEF Cells
    <2>4. a = d /\ (Reached(d) => nbitem[d] = 1)
      BY <2>3 DEF Stems
    <2>. QED  BY <2>1, <2>2, <2>4
  <1>. QED  BY <1>3, <1>4 DEF Dropped

-----------------------------------------------------------------------------
(* The inductive invariant.                                                *)

LEMMA InitHInv == Init => HInv
  <1>. SUFFICES ASSUME Init PROVE HInv
    OBVIOUS
  <1>1. 0 \in Cells /\ Cells \subseteq Int /\ 0 \in Tree
    BY HistoryAssumption DEF Cells, Tree
  <1>2. TypeOK
    BY <1>1, HistoryAssumption DEF Init, TypeOK, Tree
  <1>3. \A c \in Cells : \A i \in 0..1 : Live(c, i) <=> c = 0 /\ i = 0
    BY DEF Init, Live
  <1>4. history[0][0] = 0
    BY <1>1 DEF Init
  <1>5. HeldExist /\ NoGaps /\ NewestIsCurrent /\ AgeOrder /\ AllFreed
    BY <1>1, <1>3, <1>4 DEF HeldExist, NoGaps, NewestIsCurrent, AgeOrder, AllFreed, Init, Cells
  <1>6. Held = {0}
    BY <1>1, <1>3, <1>4 DEF Held
  <1>7. Owned
    BY <1>3, <1>6 DEF Owned, Init
  <1>. QED  BY <1>2, <1>5, <1>7 DEF HInv

LEMMA SampleHInv ==
  ASSUME HInv, NEW now \in Nat, Sample(now)
  PROVE  HInv'
  <1>. DEFINE elem == trees
  <1>1. /\ TypeOK /\ HeldExist /\ NoGaps /\ NewestIsCurrent /\ Owned /\ AgeOrder
        /\ phase = "watching" /\ phase' = "watching"
    BY DEF HInv, Sample, NewTree
  <1>2. elem \in Tree /\ trees \in Nat /\ trees' = trees + 1
    BY <1>1, HistoryAssumption DEF TypeOK, Sample, NewTree, Tree
  <1>3. push(elem) /\ procTree' = elem /\ deleted' = deleted \cup Dropped
    BY DEF Sample
  <1>4. 0 \in Cells /\ Cells \subseteq Int
    BY HistoryAssumption DEF Cells
  <1>5. Reached(0)
    BY <1>1, ReachedStep DEF TypeOK
  <1>6. Dropped \subseteq 0..(trees - 1)
    <2>1. ASSUME NEW c \in Cells, Reached(c), nbitem[c] = 2
          PROVE  history[c][1] \in 0..(trees - 1)
      BY <1>1, <2>1 DEF HeldExist, Live
    <2>2. ASSUME nbcell - 1 \in Cells, Reached(nbcell)
          PROVE  history[nbcell - 1][0] \in 0..(trees - 1)
      <3>1. nbitem[nbcell - 1] = 2
        BY <1>1, <2>2, ReachedStep, HistoryAssumption DEF TypeOK, Cells
      <3>. QED  BY <1>1, <2>2, <3>1 DEF HeldExist, Live
    <2>. QED  BY <2>1, <2>2 DEF Dropped
  <1>7. TypeOK'
    <2>1. nbitem' \in [Cells -> 0..2] /\ history' \in [Cells -> [0..1 -> Tree \cup {NoTree}]]
      BY <1>1, <1>2, <1>3, PushTypes
    <2>2. deleted' \subseteq 0..(trees' - 1)
      BY <1>1, <1>2, <1>3, <1>6 DEF TypeOK
    <2>3. trees' \in 1..MaxTrees /\ procTree' \in 0..(trees' - 1)
      BY <1>1, <1>2, <1>3, HistoryAssumption DEF TypeOK, Tree
    <2>4. lastProcTree' \in {NoTree} \cup 0..(trees' - 1)
      BY <1>1, <1>2 DEF TypeOK, Sample, NewTree
    <2>5. elapsed' \in Nat /\ time' \in [Tree -> Nat]
      BY <1>1 DEF TypeOK, Sample, NewTree
    <2>6. /\ shown' \in Int /\ displayed' \in BOOLEAN /\ rootEnded' \in BOOLEAN
          /\ stopSolverStarted' \in BOOLEAN /\ phase' \in {"watching", "dumped", "destroyed"}
      BY <1>1 DEF TypeOK, Sample, NewTree
    <2>. QED  BY <2>1, <2>2, <2>3, <2>4, <2>5, <2>6 DEF TypeOK
  <1>8. ASSUME NEW d \in Cells, NEW j \in 0..1, Live(d, j)'
        PROVE  \/ d = 0 /\ j = nbitem'[0] - 1 /\ history'[d][j] = elem
               \/ \E a \in Cells, b \in 0..1 : Stems(d, j, a, b)
    BY <1>1, <1>2, <1>3, <1>8, WhereFrom
  <1>9. ASSUME NEW d \in Cells, NEW j \in 0..1, NEW a \in Cells, NEW b \in 0..1, Stems(d, j, a, b)
        PROVE  history'[d][j] = history[a][b] /\ history[a][b] \in 0..(trees - 1) /\ Live(a, b)
    BY <1>1, <1>9 DEF Stems, HeldExist
  <1>10. HeldExist'
    BY <1>2, <1>8, <1>9 DEF HeldExist
  <1>11. NoGaps'
    <2>. SUFFICES ASSUME NEW c \in Cells, NEW d \in 0..c, nbitem'[c] > 0
                  PROVE  nbitem'[d] > 0
      BY DEF NoGaps
    <2>1. d \in Cells /\ c \in Int
      BY HistoryAssumption DEF Cells
    <2>2. CASE Reached(d)
      <3>1. nbitem[d] \in 0..2
        BY <1>1, <2>1 DEF TypeOK
      <3>. QED  BY <1>1, <1>2, <1>3, <2>1, <2>2, <3>1, PushCells
    <2>3. CASE ~Reached(d)
      <3>1. ~Reached(c)
        BY <2>1, <2>3 DEF Reached
      <3>2. nbitem'[c] = nbitem[c] /\ nbitem'[d] = nbitem[d]
        BY <1>1, <1>2, <1>3, <2>1, <2>3, <3>1, PushCells
      <3>. QED  BY <1>1, <3>2 DEF NoGaps
    <2>. QED  BY <2>2, <2>3
  <1>12. nbitem'[0] > 0 /\ nbitem'[0] - 1 \in 0..1 /\ history'[0][nbitem'[0] - 1] = elem
    <2>1. nbitem[0] \in 0..2
      BY <1>1, <1>4 DEF TypeOK
    <2>2. Incoming(0, elem) = elem
      BY DEF Incoming
    <2>. QED  BY <1>1, <1>2, <1>3, <1>4, <1>5, <2>1, <2>2, PushCells
  <1>13. NewestIsCurrent'
    BY <1>3, <1>12 DEF NewestIsCurrent
  <1>14. ASSUME NEW c \in Cells, NEW d \in Cells, NEW i \in 0..1, NEW j \in 0..1,
                Live(c, i)', Live(d, j)', history'[c][i] = history'[d][j]
         PROVE  c = d /\ i = j
    <2>1. CASE c = 0 /\ i = nbitem'[0] - 1 /\ history'[c][i] = elem
      BY <1>2, <1>8, <1>9, <1>14, <2>1
    <2>2. CASE d = 0 /\ j = nbitem'[0] - 1 /\ history'[d][j] = elem
      BY <1>2, <1>8, <1>9, <1>14, <2>2
    <2>3. ASSUME NEW a \in Cells, NEW b \in 0..1, Stems(c, i, a, b),
                 NEW x \in Cells, NEW y \in 0..1, Stems(d, j, x, y)
          PROVE  c = d /\ i = j
      <3>1. a = x /\ b = y
        BY <1>1, <1>9, <1>14, <2>3 DEF Owned
      <3>. QED  BY <1>1, <1>2, <1>3, <2>3, <3>1, StemsOnce
    <2>. QED  BY <1>8, <1>14, <2>1, <2>2, <2>3
  <1>15. Held' = (0..(trees' - 1)) \ deleted'
    <2>1. ASSUME NEW d \in Cells, NEW j \in 0..1, Live(d, j)'
          PROVE  history'[d][j] \in (0..(trees' - 1)) \ deleted'
      <3>1. CASE history'[d][j] = elem
        BY <1>1, <1>2, <1>3, <1>6, <3>1 DEF TypeOK
      <3>2. ASSUME NEW a \in Cells, NEW b \in 0..1, Stems(d, j, a, b)
            PROVE  history'[d][j] \in (0..(trees' - 1)) \ deleted'
        <4>1. history[a][b] \notin Dropped
          BY <1>1, <1>2, <1>3, <2>1, <3>2, DroppedGone
        <4>2. history[a][b] \in Held
          BY <1>1, <1>2, <1>9, <3>2, HistoryAssumption DEF Held, Tree, TypeOK
        <4>3. history[a][b] \notin deleted
          BY <1>1, <4>2 DEF Owned
        <4>. QED  BY <1>2, <1>3, <1>9, <3>2, <4>1, <4>3
      <3>. QED  BY <1>8, <2>1, <3>1, <3>2
    <2>2. ASSUME NEW t \in 0..(trees' - 1), t \notin deleted'
          PROVE  t \in Tree /\ \E d \in Cells : \E j \in 0..1 : Live(d, j)' /\ history'[d][j] = t
      <3>1. t \in Tree
        BY <1>2, <2>2, HistoryAssumption DEF Tree
      <3>2. CASE t = elem
        BY <1>4, <1>12, <3>1, <3>2 DEF Live
      <3>3. CASE t # elem
        <4>1. t \in Held /\ t \notin Dropped
          BY <1>1, <1>2, <1>3, <2>2, <3>3 DEF Owned
        <4>2. PICK a \in Cells : \E b \in 0..1 : Live(a, b) /\ history[a][b] = t
          BY <4>1 DEF Held
        <4>3. PICK b \in 0..1 : Live(a, b) /\ history[a][b] = t
          BY <4>2
        <4>4. PICK d \in Cells, j \in 0..1 : Live(d, j)' /\ Stems(d, j, a, b)
          BY <1>1, <1>2, <1>3, <4>1, <4>3, WhereTo
        <4>. QED  BY <3>1, <4>3, <4>4 DEF Stems
      <3>. QED  BY <3>2, <3>3
    <2>. QED  BY <2>1, <2>2 DEF Held
  <1>16. Owned'
    BY <1>14, <1>15 DEF Owned
  <1>17. AgeOrder'
    <2>. SUFFICES ASSUME NEW c \in Cells, NEW d \in Cells, NEW i \in 0..1, NEW j \in 0..1,
                         Live(c, i)', Live(d, j)', c > d \/ (c = d /\ i < j)
                  PROVE  history'[c][i] < history'[d][j]
      BY DEF AgeOrder
    <2>1. CASE c = 0 /\ i = nbitem'[0] - 1
      <3>1. d \in 0..(nbcell - 1) /\ i \in Int /\ j \in Int
        BY DEF Cells
      <3>2. d = 0 /\ i < j
        BY <2>1, <3>1
      <3>3. nbitem'[0] \in 0..2
        BY <1>4, <1>7 DEF TypeOK
      <3>. QED  BY <2>1, <3>1, <3>2, <3>3 DEF Live
    <2>2. ASSUME NEW a \in Cells, NEW b \in 0..1, Stems(c, i, a, b), history'[d][j] = elem
          PROVE  history'[c][i] < history'[d][j]
      BY <1>2, <1>9, <2>2
    <2>3. ASSUME NEW a \in Cells, NEW b \in 0..1, Stems(c, i, a, b),
                 NEW x \in Cells, NEW y \in 0..1, Stems(d, j, x, y)
          PROVE  history'[c][i] < history'[d][j]
      <3>1. a > x \/ (a = x /\ b < y)
        BY <1>1, <1>2, <1>3, <2>3, StemsOrdered
      <3>. QED  BY <1>1, <1>9, <2>3, <3>1 DEF AgeOrder
    <2>. QED  BY <1>8, <2>1, <2>2, <2>3
  <1>18. AllFreed'
    BY <1>1 DEF AllFreed
  <1>. QED  BY <1>7, <1>10, <1>11, <1>13, <1>16, <1>17, <1>18 DEF HInv

LEMMA EndedHInv ==
  ASSUME HInv, NEW now \in Nat, SampleEnded(now)
  PROVE  HInv'
  <1>1. /\ TypeOK /\ HeldExist /\ NoGaps /\ NewestIsCurrent /\ Owned /\ AgeOrder
        /\ phase = "watching" /\ phase' = "watching"
    BY DEF HInv, SampleEnded, NewTree
  <1>2. trees \in Tree /\ trees \in Nat /\ trees' = trees + 1
    BY <1>1, HistoryAssumption DEF TypeOK, SampleEnded, NewTree, Tree
  <1>3. /\ nbitem' = nbitem /\ history' = history /\ procTree' = procTree
        /\ deleted' = deleted \cup {trees}
    BY DEF SampleEnded
  <1>4. TypeOK'
    <2>1. /\ trees' \in 1..MaxTrees /\ procTree' \in 0..(trees' - 1)
          /\ deleted' \subseteq 0..(trees' - 1)
      BY <1>1, <1>2, <1>3, HistoryAssumption DEF TypeOK, Tree
    <2>2. lastProcTree' \in {NoTree} \cup 0..(trees' - 1)
      BY <1>1, <1>2 DEF TypeOK, SampleEnded, NewTree
    <2>3. elapsed' \in Nat /\ time' \in [Tree -> Nat]
      BY <1>1 DEF TypeOK, SampleEnded, NewTree
    <2>4. /\ shown' \in Int /\ displayed' \in BOOLEAN /\ rootEnded' \in BOOLEAN
          /\ stopSolverStarted' \in BOOLEAN
      BY <1>1 DEF TypeOK, SampleEnded, NewTree
    <2>. QED  BY <1>1, <1>3, <2>1, <2>2, <2>3, <2>4 DEF TypeOK
  <1>5. HeldExist' /\ NoGaps' /\ NewestIsCurrent' /\ AgeOrder' /\ AllFreed'
    BY <1>1, <1>2, <1>3 DEF HeldExist, NoGaps, NewestIsCurrent, AgeOrder, AllFreed, Live
  <1>6. Held' = Held
    BY <1>3 DEF Held, Live
  <1>7. Owned'
    BY <1>1, <1>2, <1>3, <1>6 DEF Owned, Live
  <1>. QED  BY <1>4, <1>5, <1>7 DEF HInv

LEMMA DestroyHInv ==
  ASSUME HInv, destroy
  PROVE  HInv'
  <1>1. /\ TypeOK /\ HeldExist /\ NoGaps /\ NewestIsCurrent /\ Owned /\ AgeOrder
        /\ phase = "dumped" /\ phase' = "destroyed"
    BY DEF HInv, destroy
  <1>2. nbitem' = nbitem /\ history' = history /\ procTree' = procTree /\ trees' = trees
    BY DEF destroy
  <1>3. HeldExist' /\ NoGaps' /\ NewestIsCurrent' /\ AgeOrder'
    BY <1>1, <1>2 DEF HeldExist, NoGaps, NewestIsCurrent, AgeOrder, Live
  <1>4. Owned'
    BY <1>1 DEF Owned
  <1>5. \A c \in Cells : nbitem[c] \in 0..2 /\ (nbitem[c] > 0 <=> \A e \in 0..c : nbitem[e] > 0)
    BY <1>1, HistoryAssumption DEF NoGaps, TypeOK, Cells
  <1>6. UNION {{history[c][i] : i \in 0..(nbitem[c] - 1)} :
                 c \in {d \in Cells : \A e \in 0..d : nbitem[e] > 0}} = Held
    <2>1. ASSUME NEW c \in Cells, NEW i \in 0..(nbitem[c] - 1)
          PROVE  history[c][i] \in Held
      <3>1. i \in 0..1 /\ i < nbitem[c]
        BY <1>5
      <3>2. history[c][i] \in Tree
        BY <1>1, <3>1, HistoryAssumption DEF HeldExist, Live, Tree, TypeOK
      <3>. QED  BY <3>1, <3>2 DEF Held, Live
    <2>2. ASSUME NEW t \in Held
          PROVE  \E c \in Cells : /\ \A e \in 0..c : nbitem[e] > 0
                                 /\ \E i \in 0..(nbitem[c] - 1) : history[c][i] = t
      <3>1. PICK c \in Cells : \E i \in 0..1 : Live(c, i) /\ history[c][i] = t
        BY <2>2 DEF Held
      <3>2. PICK i \in 0..1 : i < nbitem[c] /\ history[c][i] = t
        BY <3>1 DEF Live
      <3>3. nbitem[c] \in 0..2 /\ nbitem[c] > 0
        BY <1>5, <3>2
      <3>4. i \in 0..(nbitem[c] - 1)
        BY <3>2, <3>3
      <3>. QED  BY <1>5, <3>2, <3>3, <3>4
    <2>. QED  BY <2>1, <2>2
  <1>7. deleted' = deleted \cup Held
    BY <1>6 DEF destroy
  <1>8. deleted' = 0..(trees' - 1)
    BY <1>1, <1>2, <1>7 DEF Owned, TypeOK
  <1>9. TypeOK'
    BY <1>1, <1>2, <1>8 DEF TypeOK, destroy
  <1>10. AllFreed'
    BY <1>8 DEF AllFreed
  <1>. QED  BY <1>3, <1>4, <1>9, <1>10 DEF HInv

(* A step that leaves the trees alone.                                     *)
LEMMA OtherHInv ==
  ASSUME HInv, displayProcessData \/ dumpHistory \/ UNCHANGED vars
  PROVE  HInv'
  <1>1. /\ TypeOK /\ HeldExist /\ NoGaps /\ NewestIsCurrent /\ Owned /\ AgeOrder /\ AllFreed
    BY DEF HInv
  <1>2. /\ nbitem' = nbitem /\ history' = history /\ procTree' = procTree /\ trees' = trees
        /\ deleted' = deleted /\ elapsed' = elapsed /\ time' = time
        /\ lastProcTree' = lastProcTree /\ rootEnded' = rootEnded
        /\ stopSolverStarted' = stopSolverStarted
    BY DEF displayProcessData, dumpHistory, vars
  <1>3. /\ phase' = "destroyed" <=> phase = "destroyed"
        /\ phase' \in {"watching", "dumped", "destroyed"}
    BY <1>1 DEF displayProcessData, dumpHistory, vars, TypeOK
  <1>4. shown' \in Int /\ displayed' \in BOOLEAN
    <2>1. \A t \in 0..(trees - 1) : time[t] \in Int
      BY <1>1, HistoryAssumption DEF TypeOK, Tree
    <2>. QED  BY <1>1, <2>1 DEF displayProcessData, dumpHistory, vars, TypeOK
  <1>5. TypeOK'
    BY <1>1, <1>2, <1>3, <1>4 DEF TypeOK
  <1>6. HeldExist' /\ NoGaps' /\ NewestIsCurrent' /\ AgeOrder' /\ AllFreed'
    BY <1>1, <1>2, <1>3 DEF HeldExist, NoGaps, NewestIsCurrent, AgeOrder, AllFreed, Live
  <1>7. Held' = Held
    BY <1>2 DEF Held, Live
  <1>8. Owned'
    BY <1>1, <1>2, <1>3, <1>7 DEF Owned, Live
  <1>. QED  BY <1>5, <1>6, <1>8 DEF HInv

(* The invariant holds in every behaviour of the history.                  *)
THEOREM HistoryInductive == Spec => []HInv
  <1>1. Init => HInv
    BY InitHInv
  <1>2. HInv /\ [Next]_vars => HInv'
    <2>. SUFFICES ASSUME HInv, [Next]_vars PROVE HInv'
      OBVIOUS
    <2>1. \A now \in {elapsed, elapsed + 1} : now \in Nat
      BY DEF HInv, TypeOK
    <2>2. ASSUME NEW now \in {elapsed, elapsed + 1}, Sample(now) PROVE HInv'
      BY <2>1, <2>2, SampleHInv
    <2>3. ASSUME NEW now \in {elapsed, elapsed + 1}, SampleEnded(now) PROVE HInv'
      BY <2>1, <2>3, EndedHInv
    <2>4. CASE destroy
      BY <2>4, DestroyHInv
    <2>5. CASE displayProcessData \/ dumpHistory \/ UNCHANGED vars
      BY <2>5, OtherHInv
    <2>. QED  BY <2>2, <2>3, <2>4, <2>5 DEF Next
  <1>. QED  BY <1>1, <1>2, PTL DEF Spec

(* The types of ProcessHistory and of the trees RunSolver keeps.           *)
THEOREM HistoryTypeCorrect == Spec => []TypeOK
  <1>1. HInv => TypeOK
    BY DEF HInv
  <1>. QED  BY <1>1, HistoryInductive, PTL

(* Every tree alive is in the history, in one place: none is deleted twice *)
(* by drop (ProcessHistory.hh:122), and none leaks.                        *)
THEOREM TreesOwned == Spec => []Owned
  <1>1. HInv => Owned
    BY DEF HInv
  <1>. QED  BY <1>1, HistoryInductive, PTL

(* procTree, which readProcessData copies and displayProcessData walks, is *)
(* never a tree that push has deleted (runsolver.cc:467 to 527).           *)
THEOREM CurrentTreeAlive == Spec => []CurrentAlive
  <1>1. HInv => CurrentAlive
    <2>. SUFFICES ASSUME HInv, phase # "destroyed" PROVE procTree \notin deleted
      BY DEF CurrentAlive
    <2>1. /\ TypeOK /\ NewestIsCurrent /\ Owned
      BY DEF HInv
    <2>2. 0 \in Cells
      BY HistoryAssumption DEF Cells
    <2>3. nbitem[0] \in 0..2 /\ procTree \in Tree
      BY <2>1, <2>2, HistoryAssumption DEF TypeOK, Tree
    <2>4. PICK i \in 0..1 : i < nbitem[0] /\ history[0][i] = procTree
      BY <2>1, <2>3 DEF NewestIsCurrent
    <2>5. procTree \in Held
      BY <2>2, <2>3, <2>4 DEF Held, Live
    <2>. QED  BY <2>1, <2>5 DEF Owned
  <1>. QED  BY <1>1, HistoryInductive, PTL

(* The moves of push keep the trees in the order of their age.             *)
THEOREM CellsByAge == Spec => []AgeOrder
  <1>1. HInv => AgeOrder
    BY DEF HInv
  <1>. QED  BY <1>1, HistoryInductive, PTL

(* The destructor, which stops at the first empty cell, leaves no tree.    *)
THEOREM TreesFreed == Spec => []AllFreed
  <1>1. HInv => AllFreed
    BY DEF HInv
  <1>. QED  BY <1>1, HistoryInductive, PTL

-----------------------------------------------------------------------------
(* The dump.                                                               *)

(* The loop of dumpHistory, one cell after the other.                      *)
LEMMA DumpedIs ==
  /\ dumped[0] = <<>>
  /\ \A n \in 0..(nbcell - 1) : dumped[n + 1] = dumped[n] \o DumpOf(nbcell - (n + 1))
  <1>. DEFINE Loop(f, N) ==
         [n \in 0..N |-> IF n = 0 THEN <<>> ELSE f[n - 1] \o DumpOf(nbcell - n)]
  <1>. DEFINE P == {N \in 0..nbcell : \E f : f = Loop(f, N)}
  <1>0. nbcell \in Nat /\ nbcell > 0
    BY HistoryAssumption
  <1>1. 0 \in P
    <2>. DEFINE f == [n \in 0..0 |-> <<>>]
    <2>1. \A n \in 0..0 : f[n] = IF n = 0 THEN <<>> ELSE f[n - 1] \o DumpOf(nbcell - n)
      BY Z3
    <2>2. f = Loop(f, 0)
      BY <2>1, Zenon
    <2>3. 0 \in 0..nbcell
      BY <1>0
    <2>. QED  BY <2>2, <2>3, Zenon
  <1>2. ASSUME NEW N \in 0..(nbcell - 1), N \in P
        PROVE  N + 1 \in P
    <2>1. PICK f : f = Loop(f, N)
      BY <1>2
    <2>. DEFINE g == [n \in 0..(N + 1) |-> IF n <= N THEN f[n] ELSE f[N] \o DumpOf(nbcell - n)]
    <2>2. ASSUME NEW n \in 0..(N + 1)
          PROVE  g[n] = IF n = 0 THEN <<>> ELSE g[n - 1] \o DumpOf(nbcell - n)
      <3>1. CASE n = 0
        <4>1. f[0] = <<>>
          BY <2>1, <1>2
        <4>. QED  BY <3>1, <4>1, <1>2
      <3>2. CASE n # 0 /\ n <= N
        <4>1. f[n] = f[n - 1] \o DumpOf(nbcell - n)
          BY <2>1, <3>2, <1>2
        <4>2. g[n] = f[n] /\ g[n - 1] = f[n - 1]
          BY <3>2, <1>2
        <4>. QED  BY <3>2, <4>1, <4>2
      <3>3. CASE n = N + 1
        <4>1. g[n] = f[N] \o DumpOf(nbcell - n) /\ g[n - 1] = f[N] /\ n # 0
          BY <3>3, <1>2
        <4>. QED  BY <4>1
      <3>. QED  BY <3>1, <3>2, <3>3, <1>2
    <2>3. g = Loop(g, N + 1)
      BY <2>2, Zenon
    <2>4. N + 1 \in 0..nbcell
      BY <1>0, <1>2
    <2>. QED  BY <2>3, <2>4, Zenon
  <1>3. nbcell \in P
    <2>. HIDE DEF P
    <2>1. 0..nbcell \subseteq P
      BY <1>0, <1>1, <1>2, CountUp
    <2>. QED  BY <1>0, <2>1
  <1>4. dumped = Loop(dumped, nbcell)
    <2>1. \E f : f = Loop(f, nbcell)
      BY <1>3
    <2>. QED  BY <2>1 DEF dumped
  <1>. HIDE DEF Loop
  <1>5. \A n \in 0..nbcell : dumped[n] = IF n = 0 THEN <<>> ELSE dumped[n - 1] \o DumpOf(nbcell - n)
    <2>1. \A n \in 0..nbcell : dumped[n] = Loop(dumped, nbcell)[n]
      BY <1>4
    <2>. QED  BY <2>1 DEF Loop
  <1>6. dumped[0] = <<>>
    BY <1>0, <1>5
  <1>7. ASSUME NEW n \in 0..(nbcell - 1)
        PROVE  dumped[n + 1] = dumped[n] \o DumpOf(nbcell - (n + 1))
    <2>1. n + 1 \in 0..nbcell /\ n + 1 # 0 /\ (n + 1) - 1 = n
      BY <1>0
    <2>2. dumped[n + 1] = dumped[(n + 1) - 1] \o DumpOf(nbcell - (n + 1))
      BY <2>1, <1>5
    <2>. QED  BY <2>1, <2>2
  <1>. QED  BY <1>6, <1>7

(* What has been printed when n cells are done comes from those cells, in  *)
(* the order of age.                                                       *)
PrintedFrom(s, n) ==
  /\ s \in Seq(Tree)
  /\ \A k \in 1..Len(s) : \E c \in Cells :
       c >= nbcell - n /\ Live(c, 0) /\ s[k] = history[c][0]
  /\ \A i, j \in 1..Len(s) : i < j => s[i] < s[j]

LEMMA DumpedFrom ==
  ASSUME HInv
  PROVE  \A n \in 0..nbcell : PrintedFrom(dumped[n], n)
  <1>. DEFINE P == {n \in 0..nbcell : PrintedFrom(dumped[n], n)}
  <1>0. nbcell \in Nat /\ nbcell > 0
    BY HistoryAssumption
  <1>1. 0 \in P
    <2>1. dumped[0] = <<>>
      BY DumpedIs
    <2>2. <<>> \in Seq(Tree) /\ Len(<<>>) = 0
      OBVIOUS
    <2>3. PrintedFrom(<<>>, 0)
      BY <2>2 DEF PrintedFrom
    <2>. QED  BY <1>0, <2>1, <2>3
  <1>2. ASSUME NEW n \in 0..(nbcell - 1), n \in P
        PROVE  n + 1 \in P
    <2>. DEFINE s == dumped[n]
    <2>. DEFINE c == nbcell - (n + 1)
    <2>1. s \in Seq(Tree) /\ c \in Cells /\ n + 1 \in 0..nbcell /\ Len(s) \in Nat
          /\ nbcell - n > c
      BY <1>0, <1>2 DEF PrintedFrom, Cells
    <2>2. dumped[n + 1] = s \o DumpOf(c)
      BY DumpedIs
    <2>3. \A k \in 1..Len(s) : \E d \in Cells :
            d >= nbcell - n /\ Live(d, 0) /\ s[k] = history[d][0]
      BY <1>2 DEF PrintedFrom
    <2>4. \A i, j \in 1..Len(s) : i < j => s[i] < s[j]
      BY <1>2 DEF PrintedFrom
    <2>. HIDE DEF s, c
    <2>5. CASE ~Worth(c)
      <3>1. dumped[n + 1] = s
        BY <2>1, <2>2, <2>5, ConcatEmptySeq DEF DumpOf
      <3>2. \A k \in 1..Len(s) : \E d \in Cells :
              d >= nbcell - (n + 1) /\ Live(d, 0) /\ s[k] = history[d][0]
        BY <2>3, <1>0, <1>2 DEF Cells
      <3>. QED  BY <2>1, <2>4, <3>1, <3>2 DEF PrintedFrom
    <2>6. CASE Worth(c)
      <3>. DEFINE e == history[c][0]
      <3>1. Live(c, 0) /\ e \in Tree
        <4>1. TypeOK /\ HeldExist
          BY DEF HInv
        <4>2. nbitem[c] \in 0..2 /\ nbitem[c] # 0 /\ trees \in 1..MaxTrees
          BY <4>1, <2>1, <2>6 DEF TypeOK, Worth
        <4>3. Live(c, 0)
          BY <4>2 DEF Live
        <4>4. e \in 0..(trees - 1)
          BY <4>1, <4>3, <2>1 DEF HeldExist
        <4>. QED  BY <4>2, <4>3, <4>4, HistoryAssumption DEF Tree
      <3>. HIDE DEF e
      <3>2. dumped[n + 1] = s \o <<e>> /\ <<e>> \in Seq(Tree) /\ Len(<<e>>) = 1 /\ <<e>>[1] = e
        BY <2>2, <2>6, <3>1 DEF DumpOf, e
      <3>. DEFINE t == s \o <<e>>
      <3>3. /\ t \in Seq(Tree) /\ Len(t) = Len(s) + 1
            /\ \A k \in 1..(Len(s) + 1) : t[k] = IF k <= Len(s) THEN s[k] ELSE <<e>>[k - Len(s)]
        BY <2>1, <3>2, ConcatProperties
      <3>4. \A k \in 1..Len(t) : t[k] = IF k <= Len(s) THEN s[k] ELSE e
        BY <2>1, <3>2, <3>3
      <3>. HIDE DEF t
      <3>5. \A k \in 1..Len(t) : \E d \in Cells :
              d >= nbcell - (n + 1) /\ Live(d, 0) /\ t[k] = history[d][0]
        <4>. SUFFICES ASSUME NEW k \in 1..Len(t)
                      PROVE  \E d \in Cells :
                               d >= nbcell - (n + 1) /\ Live(d, 0) /\ t[k] = history[d][0]
          OBVIOUS
        <4>1. CASE k <= Len(s)
          <5>1. k \in 1..Len(s) /\ t[k] = s[k]
            BY <4>1, <3>4, <2>1
          <5>2. PICK d \in Cells : d >= nbcell - n /\ Live(d, 0) /\ s[k] = history[d][0]
            BY <5>1, <2>3
          <5>. QED  BY <5>1, <5>2, <1>0, <1>2 DEF Cells
        <4>2. CASE ~(k <= Len(s))
          <5>1. t[k] = history[c][0] /\ c >= nbcell - (n + 1)
            BY <4>2, <3>4, <2>1 DEF e, c, Cells
          <5>. QED  BY <5>1, <3>1, <2>1
        <4>. QED  BY <4>1, <4>2
      <3>6. \A k \in 1..Len(s) : s[k] < e
        <4>. SUFFICES ASSUME NEW k \in 1..Len(s) PROVE s[k] < e
          OBVIOUS
        <4>1. PICK d \in Cells : d >= nbcell - n /\ Live(d, 0) /\ s[k] = history[d][0]
          BY <2>3
        <4>2. d > c
          BY <4>1, <2>1, <1>0, <1>2 DEF Cells
        <4>. QED  BY <4>1, <4>2, <3>1, <2>1 DEF HInv, AgeOrder, e
      <3>7. \A i, j \in 1..Len(t) : i < j => t[i] < t[j]
        BY <2>1, <2>4, <3>3, <3>4, <3>6
      <3>. QED  BY <2>1, <3>2, <3>3, <3>5, <3>7 DEF PrintedFrom, t
    <2>. QED  BY <2>5, <2>6
  <1>. HIDE DEF P
  <1>3. 0..nbcell \subseteq P
    BY <1>0, <1>1, <1>2, CountUp
  <1>. QED  BY <1>3 DEF P

(* The times of the samples, and the time of the one that was displayed.   *)
Times ==
  /\ \A t \in Tree : time[t] <= elapsed
  /\ displayed => shown <= time[procTree]

(* A sequence with at most one element more, which is above the others.    *)
LEMMA OneMore ==
  ASSUME NEW s \in Seq(Tree), NEW e \in Tree
  PROVE  /\ Len(s \o <<e>>) = Len(s) + 1
         /\ \A k \in 1..(Len(s) + 1) : (s \o <<e>>)[k] = IF k <= Len(s) THEN s[k] ELSE e
         /\ s \o <<e>> \in Seq(Tree)
  <1>1. <<e>> \in Seq(Tree) /\ Len(<<e>>) = 1 /\ <<e>>[1] = e
    OBVIOUS
  <1>2. /\ s \o <<e>> \in Seq(Tree)
        /\ Len(s \o <<e>>) = Len(s) + 1
        /\ \A k \in 1..(Len(s) + 1) :
             (s \o <<e>>)[k] = IF k <= Len(s) THEN s[k] ELSE <<e>>[k - Len(s)]
    BY <1>1, ConcatProperties
  <1>. DEFINE t == s \o <<e>>
  <1>3. \A k \in 1..(Len(s) + 1) : t[k] = IF k <= Len(s) THEN s[k] ELSE <<e>>[k - Len(s)]
    BY <1>2
  <1>. HIDE DEF t
  <1>4. \A k \in 1..(Len(s) + 1) : t[k] = IF k <= Len(s) THEN s[k] ELSE e
    BY <1>1, <1>3, LenProperties
  <1>. QED  BY <1>2, <1>4 DEF t

(* The newest tree, when the first cell is full.                           *)
LEMMA NewestIs ==
  ASSUME HInv
  PROVE  /\ 0 \in Cells /\ nbitem[0] \in {1, 2} /\ procTree \in Tree
         /\ nbitem[0] = 2 => Newest = <<procTree>> /\ history[0][1] = procTree
         /\ nbitem[0] = 1 => Newest = <<>> /\ history[0][0] = procTree
  <1>1. TypeOK /\ NewestIsCurrent
    BY DEF HInv
  <1>2. 0 \in Cells /\ procTree \in Tree
    BY <1>1, HistoryAssumption DEF Cells, TypeOK, Tree
  <1>3. nbitem[0] \in {1, 2} /\ history[0][nbitem[0] - 1] = procTree
    BY <1>1, <1>2 DEF TypeOK, NewestIsCurrent
  <1>. QED  BY <1>2, <1>3 DEF Newest

(* What dumpHistory prints: trees of the history, the older first.         *)
LEMMA DumpedInOrder ==
  ASSUME HInv, phase = "watching"
  PROVE  /\ Dumped \in Seq(Tree)
         /\ \A i \in DOMAIN Dumped : Dumped[i] \notin deleted
         /\ \A i, j \in DOMAIN Dumped : i < j => Dumped[i] < Dumped[j]
  <1>. DEFINE s == dumped[nbcell]
  <1>0. nbcell \in Nat
    BY HistoryAssumption
  <1>1. PrintedFrom(s, nbcell)
    BY <1>0, DumpedFrom
  <1>2. /\ s \in Seq(Tree) /\ Len(s) \in Nat
        /\ \A k \in 1..Len(s) : \E c \in Cells : Live(c, 0) /\ s[k] = history[c][0]
        /\ \A i, j \in 1..Len(s) : i < j => s[i] < s[j]
    BY <1>1 DEF PrintedFrom
  <1>. HIDE DEF s
  <1>3. Owned /\ AgeOrder /\ TypeOK
    BY DEF HInv
  <1>4. ASSUME NEW c \in Cells, NEW i \in 0..1, Live(c, i), history[c][i] \in Tree
        PROVE  history[c][i] \notin deleted
    <2>1. history[c][i] \in Held
      BY <1>4 DEF Held
    <2>. QED  BY <1>3, <2>1 DEF Owned
  <1>5. \A k \in 1..Len(s) : s[k] \in Tree /\ s[k] \notin deleted
    <2>. SUFFICES ASSUME NEW k \in 1..Len(s) PROVE s[k] \in Tree /\ s[k] \notin deleted
      OBVIOUS
    <2>1. s[k] \in Tree
      BY <1>2, ElementOfSeq
    <2>2. PICK c \in Cells : Live(c, 0) /\ s[k] = history[c][0]
      BY <1>2
    <2>. QED  BY <2>1, <2>2, <1>4
  <1>6. CASE nbitem[0] = 1
    <2>1. Dumped = s
      BY <1>2, <1>6, NewestIs, ConcatEmptySeq DEF Dumped, s
    <2>2. DOMAIN s = 1..Len(s)
      BY <1>2, LenProperties
    <2>. QED  BY <1>2, <1>5, <2>1, <2>2
  <1>7. CASE nbitem[0] = 2
    <2>. DEFINE t == s \o <<procTree>>
    <2>1. Dumped = t
      BY <1>7, NewestIs DEF Dumped, s
    <2>2. /\ Len(t) = Len(s) + 1 /\ t \in Seq(Tree)
          /\ \A k \in 1..(Len(s) + 1) : t[k] = IF k <= Len(s) THEN s[k] ELSE procTree
      BY <1>2, NewestIs, OneMore
    <2>. HIDE DEF t
    <2>3. DOMAIN t = 1..(Len(s) + 1)
      BY <2>2, LenProperties
    <2>4. procTree \notin deleted
      <3>1. Live(0, 1)
        BY <1>7 DEF Live
      <3>. QED  BY <1>4, <1>7, <3>1, NewestIs
    <2>5. \A k \in 1..Len(s) : s[k] < procTree
      <3>. SUFFICES ASSUME NEW k \in 1..Len(s) PROVE s[k] < procTree
        OBVIOUS
      <3>1. PICK c \in Cells : Live(c, 0) /\ s[k] = history[c][0]
        BY <1>2
      <3>2. Live(0, 1) /\ history[0][1] = procTree /\ 0 \in Cells
        BY <1>7, NewestIs DEF Live
      <3>3. CASE c = 0
        BY <3>1, <3>2, <3>3, <1>3 DEF AgeOrder
      <3>4. CASE c # 0
        <4>1. c > 0
          BY <3>4 DEF Cells
        <4>. QED  BY <3>1, <3>2, <4>1, <1>3 DEF AgeOrder
      <3>. QED  BY <3>3, <3>4
    <2>6. \A i \in 1..(Len(s) + 1) : t[i] \notin deleted
      BY <1>2, <1>5, <2>2, <2>4
    <2>7. ASSUME NEW i \in 1..(Len(s) + 1), NEW j \in 1..(Len(s) + 1), i < j
          PROVE  t[i] < t[j]
      <3>1. i \in 1..Len(s) /\ t[i] = s[i]
        BY <1>2, <2>2, <2>7
      <3>2. CASE j <= Len(s)
        BY <1>2, <2>2, <2>7, <3>1, <3>2
      <3>3. CASE ~(j <= Len(s))
        BY <2>2, <2>5, <3>1, <3>3
      <3>. QED  BY <3>2, <3>3
    <2>. QED  BY <2>1, <2>2, <2>3, <2>6, <2>7
  <1>. QED  BY <1>6, <1>7, NewestIs

(* It ends with the newest tree, unless that one was displayed.            *)
LEMMA DumpedEnds ==
  ASSUME HInv, Times, displayed
  PROVE  \/ Dumped # <<>> /\ Dumped[Len(Dumped)] = procTree
         \/ time[procTree] = shown
  <1>0. nbcell \in Nat /\ nbcell > 0 /\ nbcell - 1 \in 0..(nbcell - 1)
        /\ nbcell \in 0..nbcell /\ nbcell - 1 \in 0..nbcell
    BY HistoryAssumption
  <1>1. ASSUME NEW s \in Seq(Tree)
        PROVE  s \o <<procTree>> # <<>> /\ (s \o <<procTree>>)[Len(s \o <<procTree>>)] = procTree
    <2>1. /\ Len(s \o <<procTree>>) = Len(s) + 1 /\ Len(s) \in Nat
          /\ (s \o <<procTree>>)[Len(s) + 1] = procTree
      <3>1. Len(s) \in Nat /\ Len(s) + 1 \in 1..(Len(s) + 1) /\ ~(Len(s) + 1 <= Len(s))
        BY LenProperties
      <3>. QED  BY <3>1, NewestIs, OneMore
    <2>2. Len(s \o <<procTree>>) # Len(<<>>)
      BY <2>1
    <2>. QED  BY <2>1, <2>2
  <1>2. CASE nbitem[0] = 2
    <2>1. dumped[nbcell] \in Seq(Tree)
      BY <1>0, DumpedFrom DEF PrintedFrom
    <2>2. Dumped = dumped[nbcell] \o <<procTree>>
      BY <1>2, NewestIs DEF Dumped
    <2>. QED  BY <1>1, <2>1, <2>2
  <1>3. CASE nbitem[0] = 1 /\ Worth(0)
    <2>1. dumped[nbcell - 1] \in Seq(Tree) /\ dumped[nbcell] \in Seq(Tree)
      BY <1>0, DumpedFrom DEF PrintedFrom
    <2>2. dumped[nbcell] = dumped[nbcell - 1] \o DumpOf(0)
      <3>1. (nbcell - 1) + 1 = nbcell /\ nbcell - nbcell = 0
        BY <1>0
      <3>2. dumped[(nbcell - 1) + 1] = dumped[nbcell - 1] \o DumpOf(nbcell - ((nbcell - 1) + 1))
        BY <1>0, DumpedIs
      <3>. QED  BY <3>1, <3>2
    <2>3. DumpOf(0) = <<procTree>>
      BY <1>3, NewestIs DEF DumpOf
    <2>4. Dumped = dumped[nbcell]
      BY <1>3, <2>1, NewestIs, ConcatEmptySeq DEF Dumped
    <2>. QED  BY <1>1, <2>1, <2>2, <2>3, <2>4
  <1>4. CASE nbitem[0] = 1 /\ ~Worth(0)
    <2>1. ~(time[procTree] > shown)
      BY <1>4, NewestIs DEF Worth
    <2>2. time[procTree] \in Nat /\ shown \in Int
      BY NewestIs DEF HInv, TypeOK
    <2>. QED  BY <2>1, <2>2 DEF Times
  <1>. QED  BY <1>2, <1>3, <1>4, NewestIs

(* Times are those of the clock, which does not go back.                   *)
LEMMA TimesStep ==
  ASSUME HInv, HInv', Times, [Next]_vars
  PROVE  Times'
  <1>1. TypeOK /\ TypeOK'
    BY DEF HInv
  <1>2. ASSUME NEW now \in {elapsed, elapsed + 1}, NewTree(now),
               procTree' = procTree \/ procTree' = trees
        PROVE  Times'
    <2>1. /\ trees \in Tree /\ procTree \in Tree /\ procTree # trees
          /\ elapsed \in Nat /\ elapsed' = now /\ now >= elapsed /\ now \in Nat
      BY <1>1, <1>2, HistoryAssumption DEF TypeOK, NewTree, Tree
    <2>2. /\ time' = [time EXCEPT ![trees] = now] /\ time \in [Tree -> Nat]
          /\ shown' = shown /\ displayed' = displayed /\ shown \in Int
      BY <1>1, <1>2 DEF TypeOK, NewTree
    <2>3. \A t \in Tree : time'[t] = IF t = trees THEN now ELSE time[t]
      BY <2>1, <2>2
    <2>4. \A t \in Tree : time[t] \in Nat /\ time[t] <= elapsed
      BY <2>2 DEF Times
    <2>5. \A t \in Tree : time'[t] <= now
      BY <2>1, <2>3, <2>4
    <2>6. displayed => shown <= time[procTree]
      BY DEF Times
    <2>7. displayed => shown <= time'[procTree']
      BY <1>2, <2>1, <2>2, <2>3, <2>4, <2>6
    <2>. QED  BY <2>1, <2>2, <2>5, <2>7 DEF Times
  <1>3. ASSUME NEW now \in {elapsed, elapsed + 1}, Sample(now) \/ SampleEnded(now)
        PROVE  Times'
    BY <1>2, <1>3 DEF Sample, SampleEnded
  <1>4. CASE displayProcessData
    <2>1. procTree \in Tree
      BY <1>1, HistoryAssumption DEF TypeOK, Tree
    <2>. QED  BY <1>1, <1>4, <2>1 DEF displayProcessData, Times, TypeOK
  <1>5. CASE dumpHistory
    BY <1>5 DEF dumpHistory, Times
  <1>6. CASE destroy
    BY <1>6 DEF destroy, Times
  <1>7. CASE UNCHANGED vars
    BY <1>7 DEF vars, Times
  <1>. QED  BY <1>3, <1>4, <1>5, <1>6, <1>7 DEF Next

(* What dumpHistory prints is there, is in the order of time, and ends     *)
(* with the newest sample unless that one was displayed before             *)
(* (ProcessHistory.hh:93 to 107).                                          *)
THEOREM DumpsInOrder == Spec => []DumpHolds
  <1>1. ASSUME Init, HInv PROVE Times /\ DumpHolds
    <2>1. Times
      BY <1>1 DEF Init, Times
    <2>2. DumpHolds
      BY <1>1 DEF Init, DumpHolds, DumpInOrder, DumpsNewest
    <2>. QED  BY <2>1, <2>2
  <1>2. ASSUME HInv, HInv', Times, DumpHolds, [Next]_vars
        PROVE  Times' /\ DumpHolds'
    <2>1. Times'
      BY <1>2, TimesStep
    <2>2. DumpHolds'
      <3>1. CASE dumpHistory
        <4>1. /\ phase = "watching" /\ dump' = Dumped /\ deleted' = deleted
              /\ displayed' = displayed /\ procTree' = procTree
              /\ time' = time /\ shown' = shown
          BY <3>1 DEF dumpHistory
        <4>2. DumpInOrder'
          BY <4>1, <1>2, DumpedInOrder DEF DumpInOrder
        <4>3. DumpsNewest'
          BY <4>1, <1>2, DumpedEnds DEF DumpsNewest
        <4>. QED  BY <4>2, <4>3 DEF DumpHolds
      <3>2. CASE phase' # "dumped"
        BY <3>2 DEF DumpHolds, DumpInOrder, DumpsNewest
      <3>3. CASE UNCHANGED vars
        BY <3>3, <1>2 DEF vars, DumpHolds, DumpInOrder, DumpsNewest
      <3>4. \/ dumpHistory
            \/ phase' # "dumped"
            \/ UNCHANGED vars
        BY <1>2 DEF Next, Sample, SampleEnded, NewTree, displayProcessData, destroy
      <3>. QED  BY <3>1, <3>2, <3>3, <3>4
    <2>. QED  BY <2>1, <2>2
  <1>3. Init /\ HInv => Times /\ DumpHolds
    BY <1>1
  <1>4. HInv /\ HInv' /\ Times /\ DumpHolds /\ [Next]_vars => Times' /\ DumpHolds'
    BY <1>2
  <1>. QED  BY <1>3, <1>4, HistoryInductive, PTL DEF Spec

-----------------------------------------------------------------------------
(* How the past thins out.                                                 *)

(* Powers of two count subsets.                                            *)
LEMMA Doubles ==
  ASSUME NEW n \in Nat
  PROVE  2^(n + 1) = 2^n + 2^n /\ 2^n \in Nat
  <1>. DEFINE S == 1..n
  <1>. DEFINE A == SUBSET S
  <1>. DEFINE With == [T \in A |-> T \cup {n + 1}]
  <1>. DEFINE B == {With[T] : T \in A}
  <1>1. IsFiniteSet(S) /\ Cardinality(S) = n
    BY FS_Interval
  <1>2. IsFiniteSet(1..(n + 1)) /\ Cardinality(1..(n + 1)) = n + 1
    BY FS_Interval
  <1>3. IsFiniteSet(A) /\ Cardinality(A) = 2^n
    BY <1>1, FS_SUBSET
  <1>4. Cardinality(SUBSET (1..(n + 1))) = 2^(n + 1)
    BY <1>2, FS_SUBSET
  <1>5. \A T \in A : n + 1 \notin T
    OBVIOUS
  <1>6. ExistsBijection(A, B)
    <2>1. With \in [A -> B] /\ \A T \in A : With[T] = T \cup {n + 1}
      OBVIOUS
    <2>. HIDE DEF A
    <2>2. \A T, U \in A : With[T] = With[U] => T = U
      <3>. SUFFICES ASSUME NEW T \in A, NEW U \in A, T \cup {n + 1} = U \cup {n + 1} PROVE T = U
        BY <2>1
      <3>1. n + 1 \notin T /\ n + 1 \notin U
        BY <1>5 DEF A
      <3>. HIDE DEF S
      <3>. QED  BY <3>1, SMTT(20)
    <2>. HIDE DEF With
    <2>3. \A b \in B : \E T \in A : With[T] = b
      OBVIOUS
    <2>. HIDE DEF B
    <2>4. With \in Bijection(A, B)
      BY <2>1, <2>2, <2>3 DEF Bijection, Injection, Surjection, IsInjective
    <2>. QED  BY <2>4 DEF ExistsBijection
  <1>7. IsFiniteSet(B) /\ Cardinality(B) = 2^n
    BY <1>3, <1>6, FS_Bijection, Zenon
  <1>8. SUBSET (1..(n + 1)) = A \cup B
    <2>1. ASSUME NEW T \in SUBSET (1..(n + 1)) PROVE T \in A \cup B
      <3>1. CASE n + 1 \in T
        <4>1. T \ {n + 1} \in A /\ T = (T \ {n + 1}) \cup {n + 1}
          BY <3>1
        <4>2. T = With[T \ {n + 1}]
          BY <4>1
        <4>. QED  BY <4>1, <4>2
      <3>2. CASE n + 1 \notin T
        <4>1. \A x \in T : x \in 1..n
          BY <3>2
        <4>. QED  BY <4>1
      <3>. QED  BY <3>1, <3>2
    <2>2. ASSUME NEW T \in A PROVE T \in SUBSET (1..(n + 1)) /\ With[T] \in SUBSET (1..(n + 1))
      OBVIOUS
    <2>3. \A b \in B : \E T \in A : b = With[T]
      OBVIOUS
    <2>. HIDE DEF A, B, With
    <2>4. \A b \in B : b \in SUBSET (1..(n + 1))
      BY <2>2, <2>3
    <2>5. A \subseteq SUBSET (1..(n + 1))
      BY <2>2
    <2>. QED  BY <2>1, <2>4, <2>5
  <1>9. A \cap B = {}
    BY <1>5
  <1>10. Cardinality(A \cup B) = Cardinality(A) + Cardinality(B) - Cardinality(A \cap B)
    BY <1>3, <1>7, FS_Union, Zenon
  <1>11. Cardinality({}) = 0 /\ Cardinality(A) \in Nat
    BY <1>3, FS_EmptySet, FS_CardinalityType, Zenon
  <1>. HIDE DEF A, B
  <1>12. Cardinality(A \cup B) = 2^n + 2^n /\ 2^n \in Nat
    <2>. DEFINE p == 2^n
    <2>1. Cardinality(A) = p /\ Cardinality(B) = p
      BY <1>3, <1>7, Zenon
    <2>. HIDE DEF p
    <2>2. Cardinality(A \cap B) = 0
      BY <1>9, <1>11, Zenon
    <2>3. p \in Nat /\ Cardinality(A \cup B) = p + p - 0
      BY <2>1, <2>2, <1>10, <1>11, Zenon
    <2>. DEFINE q == Cardinality(A \cup B)
    <2>. HIDE DEF q
    <2>4. p \in Nat /\ q = p + p - 0
      BY <2>3, Zenon DEF q
    <2>5. q = p + p
      BY <2>4
    <2>. QED  BY <2>4, <2>5, Zenon DEF p, q
  <1>. QED  BY <1>4, <1>8, <1>12, Zenon

(* How far the trees of cell c are apart.                                  *)
Stride(c) == 2^c

LEMMA Strides ==
  ASSUME NEW c \in Nat
  PROVE  Stride(c) \in Nat /\ Stride(c + 1) = Stride(c) + Stride(c) /\ Stride(0) = 1
  <1>1. 2^0 = 1
    OBVIOUS
  <1>. QED  BY <1>1, Doubles, Zenon DEF Stride

(* The last tree of cell c, which is the newest.                           *)
Last(c) == history[c][nbitem[c] - 1]

(* Samples are numbered without gaps, and pushed in that order.            *)
Tracked ==
  /\ pushed \in Seq(Tree)
  /\ Len(pushed) = procTree + 1
  /\ \A k \in 1..Len(pushed) : pushed[k] = k - 1
  /\ ~rootEnded => trees = procTree + 1

(* The trees of a cell are one stride apart, and so are the first tree of  *)
(* a cell and the last one of the cell after it, of its stride.  As long   *)
(* as the cell after it is empty the first tree is the first of all.       *)
Spaced ==
  \A c \in Cells :
    /\ nbitem[c] = 2 => history[c][1] = history[c][0] + Stride(c)
    /\ c + 1 \in Cells =>
         /\ nbitem[c + 1] > 0 => history[c][0] = Last(c + 1) + Stride(c + 1)
         /\ nbitem[c + 1] = 0 /\ nbitem[c] > 0 => history[c][0] = 0

(* What comes to a cell follows its last tree by a stride.                 *)
LEMMA IncomingNext ==
  ASSUME HInv, Tracked, Spaced, ~rootEnded, NEW elem \in Tree, elem = trees,
         NEW c \in Cells, Reached(c)
  PROVE  /\ nbitem[c] > 0 => Incoming(c, elem) = Last(c) + Stride(c)
         /\ nbitem[c] = 0 => c # 0 /\ Incoming(c, elem) = 0
  <1>1. TypeOK /\ NewestIsCurrent
    BY DEF HInv
  <1>2. CASE c = 0
    <2>1. nbitem[0] > 0 /\ Last(0) = procTree
      BY <1>1 DEF NewestIsCurrent, Last
    <2>2. Incoming(c, elem) = procTree + 1
      BY <1>2, <1>1, IncomingIs DEF Tracked
    <2>3. Stride(0) = 1
      BY Strides
    <2>. QED  BY <1>2, <2>1, <2>2, <2>3, <1>1 DEF TypeOK, Cells
  <1>3. CASE c # 0
    <2>1. /\ c - 1 \in Cells /\ nbitem[c - 1] = 2 /\ (c - 1) + 1 = c
          /\ Incoming(c, elem) = history[c - 1][0]
      BY <1>1, <1>3, IncomingIs DEF Cells
    <2>2. /\ nbitem[c] > 0 => history[c - 1][0] = Last(c) + Stride(c)
          /\ nbitem[c] = 0 => history[c - 1][0] = 0
      <3>. DEFINE b == c - 1
      <3>1. b \in Cells /\ b + 1 = c /\ nbitem[b] > 0
        BY <2>1
      <3>. HIDE DEF b
      <3>2. /\ nbitem[b + 1] > 0 => history[b][0] = Last(b + 1) + Stride(b + 1)
            /\ nbitem[b + 1] = 0 /\ nbitem[b] > 0 => history[b][0] = 0
        BY <3>1 DEF Spaced
      <3>. QED  BY <3>1, <3>2 DEF b
    <2>. QED  BY <1>3, <2>1, <2>2
  <1>. QED  BY <1>2, <1>3

LEMMA SpacedPush ==
  ASSUME HInv, HInv', Tracked, Spaced, ~rootEnded, NEW elem \in Tree, elem = trees, push(elem)
  PROVE  Spaced'
  <1>1. TypeOK /\ NoGaps /\ HeldExist
    BY DEF HInv
  <1>2. \A c \in Cells : nbitem[c] \in 0..2 /\ nbitem'[c] \in 0..2 /\ c \in Nat
    BY DEF HInv, TypeOK, Cells
  <1>3. ASSUME NEW c \in Cells, NEW i \in 0..1, i < nbitem[c]
        PROVE  history[c][i] \in Int
    BY <1>1, <1>3 DEF HeldExist, Live
  <1>4. \A c \in Cells : Reached(c + 1) <=> Reached(c) /\ nbitem[c] = 2
    BY <1>1, ReachedStep DEF TypeOK
  <1>5. ASSUME NEW c \in Cells, nbitem'[c] = 2
        PROVE  history'[c][1] = history'[c][0] + Stride(c)
    <2>1. CASE ~Reached(c)
      BY <1>1, <1>5, <2>1, PushCells DEF Spaced
    <2>2. CASE Reached(c)
      <3>1. nbitem[c] = 1
        BY <1>1, <1>2, <1>5, <2>2, PushCells
      <3>2. history'[c][0] = history[c][0] /\ history'[c][1] = Incoming(c, elem)
        BY <1>1, <2>2, <3>1, PushCells
      <3>3. Incoming(c, elem) = history[c][0] + Stride(c)
        BY <2>2, <3>1, IncomingNext DEF Last
      <3>. QED  BY <3>2, <3>3
    <2>. QED  BY <2>1, <2>2
  <1>6. ASSUME NEW c \in Cells, c + 1 \in Cells
        PROVE  /\ nbitem'[c + 1] > 0 => history'[c][0] = Last(c + 1)' + Stride(c + 1)
               /\ nbitem'[c + 1] = 0 /\ nbitem'[c] > 0 => history'[c][0] = 0
    <2>. DEFINE d == c + 1
    <2>1. d \in Cells /\ c \in 0..d /\ c \in Nat
      BY <1>6 DEF Cells
    <2>2. Reached(d) <=> Reached(c) /\ nbitem[c] = 2
      BY <1>4
    <2>3. /\ nbitem[d] > 0 => history[c][0] = Last(d) + Stride(d)
          /\ nbitem[d] = 0 /\ nbitem[c] > 0 => history[c][0] = 0
      BY <1>6 DEF Spaced
    <2>4. nbitem[d] > 0 => nbitem[c] > 0
      BY <1>1, <2>1 DEF NoGaps
    <2>5. Stride(d) = Stride(c) + Stride(c) /\ Stride(c) \in Nat
      BY <2>1, Strides
    <2>. HIDE DEF d
    <2>6. CASE ~(Reached(c) /\ nbitem[c] = 2)
      <3>1. nbitem'[d] = nbitem[d] /\ history'[d] = history[d]
        BY <1>1, <2>1, <2>2, <2>6, PushCells
      <3>2. Last(d)' = Last(d)
        BY <3>1 DEF Last
      <3>3. CASE ~Reached(c)
        <4>1. nbitem'[c] = nbitem[c] /\ history'[c] = history[c]
          BY <1>1, <3>3, PushCells
        <4>. QED  BY <2>3, <3>1, <3>2, <4>1 DEF d
      <3>4. CASE Reached(c) /\ nbitem[c] = 1
        <4>1. history'[c][0] = history[c][0]
          BY <1>1, <3>4, PushCells
        <4>. QED  BY <2>3, <3>1, <3>2, <3>4, <4>1 DEF d
      <3>5. CASE Reached(c) /\ nbitem[c] = 0
        <4>1. history'[c][0] = 0
          BY <1>1, <3>5, PushCells, IncomingNext
        <4>2. ~(nbitem'[d] > 0)
          BY <1>2, <2>1, <2>4, <3>1, <3>5
        <4>. QED  BY <4>1, <4>2 DEF d
      <3>. QED  BY <1>2, <2>6, <3>3, <3>4, <3>5
    <2>7. CASE Reached(c) /\ nbitem[c] = 2
      <3>1. Last(c) = history[c][0] + Stride(c) /\ history[c][0] \in Int
        BY <2>7, <1>3 DEF Last, Spaced
      <3>2. history'[c][0] = Last(c) + Stride(c)
        BY <1>1, <2>7, PushCells, IncomingNext
      <3>3. Incoming(d, elem) = history[c][0]
        <4>1. d # 0 /\ d - 1 = c
          BY <2>1 DEF d
        <4>. QED  BY <4>1 DEF Incoming
      <3>4. Reached(d)
        BY <2>2, <2>7
      <3>5. nbitem'[d] > 0 /\ Last(d)' = Incoming(d, elem)
        BY <1>1, <1>2, <2>1, <3>4, PushCells DEF Last
      <3>6. history'[c][0] = Last(d)' + Stride(d)
        BY <2>5, <3>1, <3>2, <3>3, <3>5
      <3>. QED  BY <1>2, <2>1, <3>5, <3>6 DEF d
    <2>. QED  BY <2>6, <2>7
  <1>. QED  BY <1>5, <1>6 DEF Spaced, Last, Stride

(* A cell is as old as the cells before it make it.                        *)
LEMMA AsOld ==
  ASSUME HInv, Spaced
  PROVE  \A c \in Cells : nbitem[c] > 0 =>
           Last(c) \in Int /\ procTree - Last(c) >= Stride(c + 1) - 2
  <1>. DEFINE Old(c) == nbitem[c] > 0 =>
                          Last(c) \in Int /\ procTree - Last(c) >= Stride(c + 1) - 2
  <1>. DEFINE P == {c \in Cells : Old(c)}
  <1>0. TypeOK /\ NoGaps /\ HeldExist /\ NewestIsCurrent /\ nbcell - 1 \in Nat
    BY HistoryAssumption DEF HInv
  <1>1. 0 \in P
    <2>1. 0 \in Cells /\ Last(0) = procTree /\ procTree \in Int
      BY <1>0 DEF Cells, NewestIsCurrent, Last, TypeOK
    <2>2. Stride(0 + 1) = 2
      BY Strides
    <2>. QED  BY <2>1, <2>2
  <1>2. ASSUME NEW c \in 0..((nbcell - 1) - 1), c \in P PROVE c + 1 \in P
    <2>. DEFINE d == c + 1
    <2>1. /\ c \in Cells /\ d \in Cells /\ c \in 0..d /\ c \in Nat /\ d \in Nat
          /\ nbitem[c] \in 0..2 /\ nbitem[d] \in 0..2
      BY <1>0, <1>2 DEF Cells, TypeOK
    <2>2. /\ Stride(d + 1) = Stride(d) + Stride(d) /\ Stride(d) = Stride(c) + Stride(c)
          /\ Stride(c) \in Nat
      BY <2>1, Strides
    <2>. HIDE DEF d
    <2>3. Old(d)
      <3>. SUFFICES ASSUME nbitem[d] > 0
                    PROVE  Last(d) \in Int /\ procTree - Last(d) >= Stride(d + 1) - 2
        OBVIOUS
      <3>1. nbitem[c] > 0
        BY <1>0, <2>1 DEF NoGaps
      <3>2. Last(c) \in Int /\ procTree - Last(c) >= Stride(d) - 2
        BY <1>2, <3>1 DEF d
      <3>3. history[c][0] = Last(d) + Stride(d)
        BY <2>1 DEF Spaced, d
      <3>4. history[c][0] \in Int /\ Last(d) \in Int /\ procTree \in Int
        BY <1>0, <2>1, <3>1 DEF HeldExist, Live, Last, TypeOK
      <3>5. history[c][0] <= Last(c)
        <4>1. nbitem[c] = 1 => Last(c) = history[c][0]
          BY DEF Last
        <4>2. nbitem[c] = 2 => Last(c) = history[c][0] + Stride(c)
          BY <2>1 DEF Last, Spaced
        <4>. QED  BY <2>1, <2>2, <3>1, <3>4, <4>1, <4>2
      <3>. QED  BY <2>2, <3>2, <3>3, <3>4, <3>5
    <2>. QED  BY <2>1, <2>3 DEF d
  <1>. HIDE DEF P
  <1>3. 0..(nbcell - 1) \subseteq P
    BY <1>0, <1>1, <1>2, CountUp
  <1>. QED  BY <1>3 DEF P, Cells

(* For a time t within reach there is a tree at t, or before it and at     *)
(* most as far from t as t is from now.                                    *)
LEMMA WithinReach ==
  ASSUME HInv, Spaced, NEW t \in 0..procTree, procTree - t <= Stride(nbcell) - 2
  PROVE  \E c \in Cells, i \in 0..1 :
           /\ Live(c, i)
           /\ history[c][i] \in 0..t
           /\ t - history[c][i] <= procTree - t
  <1>. DEFINE Found == \E c \in Cells, i \in 0..1 :
                         /\ Live(c, i)
                         /\ history[c][i] \in 0..t
                         /\ t - history[c][i] <= procTree - t
  <1>. DEFINE Later(c) == nbitem[c] > 0 /\ history[c][0] > t
  <1>. DEFINE P == {c \in Cells : Found \/ Later(c)}
  <1>0. /\ TypeOK /\ NoGaps /\ HeldExist /\ NewestIsCurrent
        /\ nbcell - 1 \in Nat /\ procTree \in Nat /\ t \in Nat
    BY HistoryAssumption DEF HInv, TypeOK
  <1>1. ASSUME NEW c \in Cells, NEW i \in 0..1, i < nbitem[c]
        PROVE  history[c][i] \in Nat
    BY <1>0, <1>1 DEF HeldExist, Live, TypeOK
  <1>2. ASSUME NEW c \in Cells, NEW i \in 0..1, i < nbitem[c], history[c][i] <= t,
               t - history[c][i] <= procTree - t
        PROVE  Found
    <2>1. history[c][i] \in 0..t
      BY <1>0, <1>1, <1>2
    <2>. QED  BY <1>2, <2>1 DEF Live
  <1>. HIDE DEF Found
  <1>3. ASSUME NEW c \in Cells, nbitem[c] > 0
        PROVE  /\ nbitem[c] \in {1, 2} /\ Last(c) \in Nat /\ history[c][0] \in Nat
               /\ nbitem[c] = 1 => Last(c) = history[c][0]
               /\ nbitem[c] = 2 => /\ Last(c) = history[c][1]
                                   /\ Last(c) = history[c][0] + Stride(c)
    BY <1>0, <1>1, <1>3 DEF TypeOK, Last, Spaced
  <1>4. 0 \in P
    <2>1. 0 \in Cells /\ nbitem[0] > 0 /\ Last(0) = procTree /\ Stride(0) = 1
      BY <1>0, Strides DEF Cells, NewestIsCurrent, Last
    <2>2. CASE history[0][0] > t
      BY <2>1, <2>2
    <2>3. CASE history[0][0] <= t /\ t = procTree
      <3>1. Last(0) <= t /\ t - Last(0) <= procTree - t
        BY <1>0, <2>1, <2>3
      <3>. QED  BY <1>2, <1>3, <2>1, <2>3, <3>1
    <2>4. CASE history[0][0] <= t /\ t # procTree
      <3>1. t < procTree /\ history[0][0] \in Nat /\ history[0][0] >= procTree - 1
        BY <1>0, <1>3, <2>1, <2>4
      <3>2. t - history[0][0] <= procTree - t
        BY <1>0, <2>4, <3>1
      <3>. QED  BY <1>2, <2>1, <2>4, <3>2
    <2>. QED  BY <1>0, <1>3, <2>1, <2>2, <2>3, <2>4
  <1>5. ASSUME NEW c \in 0..((nbcell - 1) - 1), c \in P PROVE c + 1 \in P
    <2>. DEFINE d == c + 1
    <2>1. c \in Cells /\ d \in Cells /\ c \in Nat /\ d \in Nat /\ nbitem[d] \in 0..2
      BY <1>0, <1>5 DEF Cells, TypeOK
    <2>2. CASE Found
      BY <2>1, <2>2
    <2>3. CASE Later(c)
      <3>1. nbitem[d] > 0 /\ history[c][0] = Last(d) + Stride(d)
        BY <1>0, <2>1, <2>3 DEF Spaced
      <3>2. /\ Stride(d + 1) = Stride(d) + Stride(d) /\ Stride(d) \in Nat
        BY <2>1, Strides
      <3>3. procTree - Last(c) >= Stride(d) - 2 /\ procTree - Last(d) >= Stride(d + 1) - 2
        BY <2>1, <2>3, <3>1, AsOld
      <3>. HIDE DEF d
      <3>4. history[c][0] <= Last(c) /\ Last(c) \in Nat /\ history[c][0] \in Nat
        <4>1. Stride(c) \in Nat
          BY <2>1, Strides
        <4>. QED  BY <1>3, <2>1, <2>3, <4>1
      <3>5. CASE Last(d) <= t
        <4>1. t - Last(d) <= procTree - t
          BY <1>0, <1>3, <2>1, <2>3, <3>1, <3>2, <3>3, <3>4, <3>5
        <4>2. Found
          BY <1>2, <1>3, <2>1, <3>1, <3>5, <4>1
        <4>. QED  BY <2>1, <4>2 DEF d
      <3>6. CASE Last(d) > t /\ history[d][0] <= t
        <4>1. history[d][0] \in Nat /\ Last(d) \in Nat /\ Last(d) = history[d][0] + Stride(d)
          BY <1>3, <2>1, <3>1, <3>6
        <4>2. t - history[d][0] <= procTree - t
          BY <1>0, <3>2, <3>3, <3>6, <4>1
        <4>3. Found
          BY <1>2, <2>1, <3>1, <3>6, <4>2
        <4>. QED  BY <2>1, <4>3 DEF d
      <3>7. CASE history[d][0] > t
        BY <2>1, <3>1, <3>7 DEF d
      <3>. QED  BY <1>0, <1>3, <2>1, <3>1, <3>5, <3>6, <3>7
    <2>. QED  BY <1>5, <2>2, <2>3
  <1>6. nbcell - 1 \in P
    <2>. HIDE DEF P
    <2>1. 0..(nbcell - 1) \subseteq P
      BY <1>0, <1>4, <1>5, CountUp
    <2>. QED  BY <1>0, <2>1
  <1>7. ~Later(nbcell - 1)
    <2>. DEFINE c == nbcell - 1
    <2>. SUFFICES ASSUME Later(c) PROVE FALSE
      OBVIOUS
    <2>1. c \in Cells /\ c \in Nat /\ c + 1 = nbcell
      BY <1>0, HistoryAssumption DEF Cells
    <2>. HIDE DEF c
    <2>2. procTree - Last(c) >= Stride(nbcell) - 2 /\ Stride(c) \in Nat /\ Stride(nbcell) \in Nat
      <3>1. procTree - Last(c) >= Stride(c + 1) - 2 /\ Stride(c) \in Nat /\ Stride(c + 1) \in Nat
        <4>1. nbitem[c] > 0
          OBVIOUS
        <4>2. Stride(c) \in Nat /\ Stride(c + 1) \in Nat
          BY <2>1, Strides
        <4>3. procTree - Last(c) >= Stride(c + 1) - 2
          BY <2>1, <4>1, AsOld
        <4>. QED  BY <4>2, <4>3
      <3>. QED  BY <2>1, <3>1
    <2>3. history[c][0] <= Last(c) /\ Last(c) \in Nat /\ history[c][0] \in Nat
      BY <1>3, <2>1, <2>2
    <2>. QED  BY <1>0, <2>2, <2>3
  <1>. QED  BY <1>6, <1>7 DEF Found

(* For every sample within reach of the cells the history has that one or  *)
(* one before it that is at most twice as old, however many samples there  *)
(* were: the moves of push (ProcessHistory.hh:58 to 88) keep the trees of  *)
(* each cell at the distances of Spaced.                                   *)
THEOREM PastThinsByHalf == Spec => []ThinsByHalf
  <1>. DEFINE I == Tracked /\ Spaced
  <1>1. ASSUME Init, HInv PROVE I
    <2>1. procTree = 0 /\ trees = 1 /\ pushed = <<0>> /\ 0 \in Tree
      BY <1>1, HistoryAssumption DEF Init, Tree
    <2>2. Tracked
      BY <2>1 DEF Tracked
    <2>3. \A c \in Cells : nbitem[c] = IF c = 0 THEN 1 ELSE 0
      BY <1>1 DEF Init
    <2>4. 0 \in Cells => history[0][0] = 0
      BY <1>1 DEF Init
    <2>5. \A c \in Cells : c \in Nat
      BY DEF Cells
    <2>6. Spaced
      BY <2>3, <2>4, <2>5 DEF Spaced
    <2>. QED  BY <2>2, <2>6
  <1>2. ASSUME HInv, HInv', I, [Next]_vars PROVE I'
    <2>1. ASSUME NEW now \in {elapsed, elapsed + 1}, Sample(now) PROVE I'
      <3>1. trees \in Tree /\ push(trees) /\ trees' = trees + 1 /\ procTree' = trees
            /\ ~rootEnded /\ trees \in Nat
        BY <1>2, <2>1, HistoryAssumption DEF HInv, TypeOK, Sample, NewTree, Tree
      <3>2. Spaced'
        BY <1>2, <3>1, SpacedPush
      <3>3. /\ pushed \in Seq(Tree) /\ Len(pushed) = trees
            /\ \A k \in 1..Len(pushed) : pushed[k] = k - 1
        BY <1>2, <3>1 DEF Tracked
      <3>4. pushed' = Append(pushed, trees)
        BY <3>1 DEF push
      <3>5. /\ pushed' \in Seq(Tree) /\ Len(pushed') = trees + 1
            /\ \A k \in 1..(trees + 1) : pushed'[k] = IF k = trees + 1 THEN trees ELSE pushed[k]
        BY <3>1, <3>3, <3>4, AppendProperties
      <3>6. \A k \in 1..Len(pushed') : pushed'[k] = k - 1
        BY <3>1, <3>3, <3>5
      <3>7. Tracked'
        BY <3>1, <3>5, <3>6 DEF Tracked
      <3>. QED  BY <3>2, <3>7
    <2>2. ASSUME NEW now \in {elapsed, elapsed + 1}, SampleEnded(now) PROVE I'
      BY <1>2, <2>2 DEF SampleEnded, Tracked, Spaced, Last, Stride
    <2>3. CASE displayProcessData \/ dumpHistory \/ destroy \/ UNCHANGED vars
      BY <1>2, <2>3 DEF displayProcessData, dumpHistory, destroy, vars, Tracked, Spaced, Last, Stride
    <2>. QED  BY <1>2, <2>1, <2>2, <2>3 DEF Next
  <1>3. ASSUME HInv, I PROVE ThinsByHalf
    <2>. SUFFICES ASSUME phase # "destroyed", NEW k \in DOMAIN pushed,
                         Len(pushed) - k <= 2^nbcell - 2
                  PROVE  \E m \in Kept : m <= k /\ k - m <= Len(pushed) - k
      BY DEF ThinsByHalf
    <2>1. /\ pushed \in Seq(Tree) /\ Len(pushed) = procTree + 1
          /\ \A j \in 1..Len(pushed) : pushed[j] = j - 1
          /\ DOMAIN pushed = 1..(procTree + 1) /\ procTree \in Nat
      BY <1>3 DEF Tracked, HInv, TypeOK
    <2>. DEFINE t == k - 1
    <2>2. t \in 0..procTree /\ procTree - t <= Stride(nbcell) - 2
      BY <2>1 DEF Stride
    <2>. HIDE DEF t
    <2>3. PICK c \in Cells, i \in 0..1 :
            /\ Live(c, i)
            /\ history[c][i] \in 0..t
            /\ t - history[c][i] <= procTree - t
      BY <1>3, <2>2, WithinReach
    <2>4. history[c][i] \in Tree /\ history[c][i] \notin deleted
      <3>1. history[c][i] \in 0..(trees - 1) /\ trees \in 1..MaxTrees
        BY <1>3, <2>3 DEF HInv, HeldExist, TypeOK
      <3>2. history[c][i] \in Tree
        BY <3>1, HistoryAssumption DEF Tree
      <3>3. history[c][i] \in Held
        BY <2>3, <3>2 DEF Held
      <3>. QED  BY <1>3, <3>2, <3>3 DEF HInv, Owned
    <2>. DEFINE h == history[c][i]
    <2>. DEFINE m == h + 1
    <2>5. m \in 1..Len(pushed) /\ m <= k /\ k - m <= Len(pushed) - k
      <3>1. h \in 0..t /\ t - h <= procTree - t /\ t = k - 1 /\ k \in 1..(procTree + 1)
        BY <2>1, <2>3 DEF t
      <3>. HIDE DEF h
      <3>. QED  BY <2>1, <3>1
    <2>6. pushed[m] = history[c][i]
      BY <2>1, <2>2, <2>3, <2>5
    <2>7. m \in Kept
      BY <2>1, <2>4, <2>5, <2>6 DEF Kept
    <2>. QED  BY <2>5, <2>7
  <1>4. Init /\ HInv => I
    BY <1>1
  <1>5. HInv /\ HInv' /\ I /\ [Next]_vars => I'
    BY <1>2
  <1>6. HInv /\ I => ThinsByHalf
    BY <1>3
  <1>. HIDE DEF I
  <1>. QED  BY <1>4, <1>5, <1>6, HistoryInductive, PTL DEF Spec
=============================================================================
