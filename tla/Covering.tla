------------------------------ MODULE Covering ------------------------------
(***************************************************************************)
(* The incremental bookkeeping of the solver: the state that WSCP::flip    *)
(* (NuWSC-algorithm/NuWSC/wscp.h) keeps up to date each time a set enters  *)
(* or leaves the current solution, and WSCP::update_weight.                *)
(*                                                                         *)
(* A "variable" of the code is an element to be covered (a hard clause); a *)
(* "set" is a column that may be chosen (a soft clause with a cost).  This *)
(* module sees the instance that reduce_instance leaves to the search: Var *)
(* holds the variables with var_delete = 0 and Set the sets with fix = 0.  *)
(*                                                                         *)
(* The arrays with their index arrays (uncover_stack, zero_stack and       *)
(* set_solu) are sets here: the code reads them only by random position or *)
(* in full, so that positions matter to no property below.                 *)
(*                                                                         *)
(* Next is the most general caller of flip and update_weight: it may add   *)
(* any set that covers an uncovered variable and remove any set of the     *)
(* solution.  Module LocalSearch is the caller the program has.            *)
(***************************************************************************)
EXTENDS Sums, Sequences, Functions

CONSTANTS
  Var,        \* variables that are still to be covered
  Set,        \* sets the search may choose
  var_set,    \* var_set[v]: the sets that contain v, in file order
  cost,       \* cost[s]: the (reduced) cost of set s
  fixed_cost, \* reduce_cost plus the cost of the sets with fix = 1
  MaxWeight,  \* bound on weight: update_weight stops short of it
  NoSet       \* what an entry of cover_set holds before it is written

ASSUME InstanceAssumption ==
  /\ IsFiniteSet(Var)
  /\ IsFiniteSet(Set)
  /\ var_set \in [Var -> Seq(Set)]
  /\ cost \in [Set -> Nat]
  /\ fixed_cost \in Nat
  /\ MaxWeight \in Nat \ {0}
  /\ NoSet \notin Set

VARIABLES
  cur_solu,      \* the sets s with cur_solu[s] = 1
  cur_cost,
  weight,        \* weight[v]: importance of leaving v uncovered
  cover_count,   \* number of chosen sets that contain v
  cover_set,     \* the set that covers v, when exactly one or two do
  cover_set2,    \* the other one, when exactly two do
  score, pscore, \* what flipping s would change
  cc,            \* configuration checking flag
  uncover_stack, \* variables no chosen set contains
  zero_stack     \* chosen sets whose removal would uncover nothing

vars == <<cur_solu, cur_cost, weight, cover_count, cover_set, cover_set2,
          score, pscore, cc, uncover_stack, zero_stack>>

-----------------------------------------------------------------------------
(* The instance.                                                           *)

Sets == [v \in Var |-> Range(var_set[v])]

set_var == [s \in Set |-> {v \in Var : s \in Sets[v]}]

Weight(V) == Total(weight, V)

(* The variables of V whose cover_count is n.                              *)
Counting(n, V) == {v \in V : cover_count[v] = n}

-----------------------------------------------------------------------------
(* WSCP::flip                                                              *)

(* The flags after a flip of s: those of the sets that share a variable    *)
(* with s are raised.                                                      *)
Raised(s) == [x \in Set |-> cc[x] \/ set_var[s] \cap set_var[x] # {}]

(***************************************************************************)
(* flip_set enters the solution.  The loop over its variables treats each  *)
(* one by the number of sets that covered it: 0->1, 1->2 or 2->3.          *)
(* The sums of a score commute.  The tests score == 0 stand amid them; a   *)
(* chosen set's score only rises here, and never above 0 (LocalScore), so  *)
(* that a test passes at the end just if it passed at its last chance.     *)
(***************************************************************************)
FlipIn(s) ==
  LET once   == Counting(0, set_var[s])
      twice  == Counting(1, set_var[s])
      thrice == Counting(2, set_var[s])
      was(x)  == {v \in twice : cover_set[v] = x}
      was1(x) == {v \in thrice : cover_set[v] = x}
      was2(x) == {v \in thrice : cover_set2[v] = x}
  IN /\ cur_solu' = cur_solu \cup {s}
     /\ cur_cost' = cur_cost + cost[s]
     /\ cover_count' = [v \in Var |->
          IF v \in set_var[s] THEN cover_count[v] + 1 ELSE cover_count[v]]
     /\ cover_set' = [v \in Var |-> IF v \in once THEN s ELSE cover_set[v]]
     /\ cover_set2' = [v \in Var |-> IF v \in twice THEN s ELSE cover_set2[v]]
     /\ score' = [x \in Set |->
          IF x = s THEN -score[s]
          ELSE score[x] - Weight(once \cap set_var[x]) + Weight(was(x))]
     /\ pscore' = [x \in Set |->
          IF x = s THEN -pscore[s]
          ELSE pscore[x] + Weight(once \cap set_var[x])
                         - Weight(twice \cap set_var[x])
                         + Weight(was1(x)) + Weight(was2(x))]
     /\ cc' = Raised(s)
     /\ uncover_stack' = uncover_stack \ once
     /\ zero_stack' = zero_stack
          \cup {x \in Set : was(x) # {} /\ score'[x] = 0}
     /\ UNCHANGED weight

(* The mutant takes the first set of the row, chosen or not.               *)
FirstOfRow(v, S) == var_set[v][1]

(* The first set of var_set[v] that is in S, in the order of the file.     *)
FirstOf(v, S) ==
  var_set[v][CHOOSE i \in DOMAIN var_set[v] :
               /\ var_set[v][i] \in S
               /\ \A j \in 1 .. i - 1 : var_set[v][j] \notin S]

(***************************************************************************)
(* flip_set leaves the solution: 3->2, 2->1 or 1->0.  On 3->2 the code     *)
(* looks up the two sets that remain; on 2->1 it keeps the one that does.  *)
(***************************************************************************)
FlipOut(s) ==
  LET twice == Counting(3, set_var[s])
      once  == Counting(2, set_var[s])
      none  == Counting(1, set_var[s])
      first(v)  == FirstOf(v, cur_solu \ {s})
      second(v) == FirstOf(v, cur_solu \ {s, first(v)})
      keep(v)   == IF cover_set[v] = s THEN cover_set2[v] ELSE cover_set[v]
      kept(x)   == {v \in once : keep(v) = x}
      pair(x)   == {v \in twice : x \in {first(v), second(v)}}
  IN /\ cur_solu' = cur_solu \ {s}
     /\ cur_cost' = cur_cost - cost[s]
     /\ cover_count' = [v \in Var |->
          IF v \in set_var[s] THEN cover_count[v] - 1 ELSE cover_count[v]]
     /\ cover_set' = [v \in Var |->
          CASE v \in twice -> first(v)
            [] v \in once  -> keep(v)
            [] OTHER       -> cover_set[v]]
     /\ cover_set2' = [v \in Var |->
          IF v \in twice THEN second(v) ELSE cover_set2[v]]
     /\ score' = [x \in Set |->
          IF x = s THEN -score[s]
          ELSE score[x] + Weight(none \cap set_var[x]) - Weight(kept(x))]
     /\ pscore' = [x \in Set |->
          IF x = s THEN -pscore[s]
          ELSE pscore[x] - Weight(none \cap set_var[x])
                         + Weight(once \cap set_var[x])
                         - Weight(pair(x))]
     /\ cc' = [Raised(s) EXCEPT ![s] = FALSE]
     /\ uncover_stack' = uncover_stack \cup none
     /\ zero_stack' = (zero_stack \ {s})
          \ {x \in Set : kept(x) # {} /\ score'[x] # 0}
     /\ UNCHANGED weight

flip(s) == IF s \in cur_solu THEN FlipOut(s) ELSE FlipIn(s)

(* The mutant leaves score behind.                                         *)
update_weightOnly ==
  /\ \A v \in uncover_stack : weight[v] < MaxWeight
  /\ weight' = [v \in Var |->
       IF v \in uncover_stack THEN weight[v] + 1 ELSE weight[v]]
  /\ UNCHANGED <<cur_solu, cur_cost, cover_count, cover_set, cover_set2,
                 score, pscore, cc, uncover_stack, zero_stack>>

(***************************************************************************)
(* WSCP::update_weight: every uncovered variable becomes heavier by one,   *)
(* and so does the score of each set that contains it.                     *)
(***************************************************************************)
update_weight ==
  /\ \A v \in uncover_stack : weight[v] < MaxWeight
  /\ weight' = [v \in Var |->
       IF v \in uncover_stack THEN weight[v] + 1 ELSE weight[v]]
  /\ score' = [x \in Set |->
       score[x] + Cardinality(set_var[x] \cap uncover_stack)]
  /\ UNCHANGED <<cur_solu, cur_cost, cover_count, cover_set, cover_set2,
                 pscore, cc, uncover_stack, zero_stack>>

-----------------------------------------------------------------------------
(* The state WSCP::init sets up before its construction loop.              *)

(* The mutant forgets the cost of what reduce_instance has taken.          *)
InitSetsFromZero ==
  /\ cur_solu = {}
  /\ cur_cost = 0
  /\ score = [s \in Set |-> Cardinality(set_var[s])]
  /\ pscore = [s \in Set |-> 0]
  /\ cc = [s \in Set |-> TRUE]
  /\ zero_stack = {}

InitSets ==
  /\ cur_solu = {}
  /\ cur_cost = fixed_cost
  /\ score = [s \in Set |-> Cardinality(set_var[s])]
  /\ pscore = [s \in Set |-> 0]
  /\ cc = [s \in Set |-> TRUE]
  /\ zero_stack = {}

InitVars ==
  /\ weight = [v \in Var |-> 1]
  /\ cover_count = [v \in Var |-> 0]
  /\ cover_set = [v \in Var |-> NoSet]
  /\ cover_set2 = [v \in Var |-> NoSet]
  /\ uncover_stack = Var

Init == InitSets /\ InitVars

(* A caller adds a set only to cover something that is uncovered.          *)
AddSet(s) ==
  /\ s \notin cur_solu
  /\ set_var[s] \cap uncover_stack # {}
  /\ flip(s)

RemoveSet(s) ==
  /\ s \in cur_solu
  /\ flip(s)

UpdateWeight == update_weight

Next ==
  \/ \E s \in Set : AddSet(s) \/ RemoveSet(s)
  \/ UpdateWeight

Spec == Init /\ [][Next]_vars

-----------------------------------------------------------------------------
(* What the bookkeeping promises.                                          *)

TypeOK ==
  /\ cur_solu \subseteq Set
  /\ cur_cost \in Int
  /\ weight \in [Var -> 1 .. MaxWeight]
  /\ cover_count \in [Var -> Nat]
  /\ cover_set \in [Var -> Set \cup {NoSet}]
  /\ cover_set2 \in [Var -> Set \cup {NoSet}]
  /\ score \in [Set -> Int]
  /\ pscore \in [Set -> Int]
  /\ cc \in [Set -> BOOLEAN]
  /\ uncover_stack \subseteq Var
  /\ zero_stack \subseteq Set

(* The variables that at least n sets of the solution S contain.           *)
Covered(n, S) == {v \in Var : Cardinality(Sets[v] \cap S) >= n}

(* The solution that flipping s would lead to.                             *)
Flipped(s) == IF s \in cur_solu THEN cur_solu \ {s} ELSE cur_solu \cup {s}

(***************************************************************************)
(* score[s] is by how much flipping s would raise the weight of the        *)
(* covered variables.  flip never recomputes it: it adds and subtracts     *)
(* weights through cover_set, and negates the score of the flipped set.    *)
(***************************************************************************)
ScoreExact ==
  \A s \in Set : score[s] = Weight(Covered(1, Flipped(s)))
                            - Weight(Covered(1, cur_solu))

(***************************************************************************)
(* pscore[s] is by how much flipping s would raise the weight of the       *)
(* variables that are covered twice or more; flip maintains it through     *)
(* cover_set, cover_set2 and the search for the two sets left on 3->2.     *)
(***************************************************************************)
PscoreExact ==
  \A s \in Set : pscore[s] = Weight(Covered(2, Flipped(s)))
                             - Weight(Covered(2, cur_solu))

(***************************************************************************)
(* zero_stack holds exactly the redundant sets of the solution: those      *)
(* without which it would still cover all it covers.  flip pushes on 1->2  *)
(* and pops on 2->1 and on removal, and never looks at the other sets.     *)
(***************************************************************************)
ZeroStackExact ==
  zero_stack = {s \in cur_solu : Covered(1, cur_solu \ {s})
                                   = Covered(1, cur_solu)}

(***************************************************************************)
(* cover_count, cover_set and cover_set2 name the sets that cover a        *)
(* variable whenever these are one or two, although the code looks them up *)
(* only when the count falls from three to two; uncover_stack holds the    *)
(* variables nothing covers.                                               *)
(***************************************************************************)
WitnessExact ==
  /\ \A v \in Var :
       /\ cover_count[v] = Cardinality(Sets[v] \cap cur_solu)
       /\ cover_count[v] = 1 => Sets[v] \cap cur_solu = {cover_set[v]}
       /\ cover_count[v] = 2 =>
            Sets[v] \cap cur_solu = {cover_set[v], cover_set2[v]}
  /\ uncover_stack = Var \ Covered(1, cur_solu)

(* cur_cost, kept by += and -= in flip, is the cost of the solution.       *)
CostExact == cur_cost = fixed_cost + Total(cost, cur_solu)

(***************************************************************************)
(* Configuration checking: a set whose flag is down is out of the          *)
(* solution, and since it left nothing has changed for its variables:      *)
(* whatever step leaves the flag down removed the set or left the cover    *)
(* of each of its variables alone.                                         *)
(***************************************************************************)
ConfigurationChecking ==
  [][\A s \in Set : ~cc'[s] =>
       /\ s \notin cur_solu'
       /\ \/ s \in cur_solu
          \/ \A v \in set_var[s] : Sets[v] \cap cur_solu'
                                     = Sets[v] \cap cur_solu]_vars

-----------------------------------------------------------------------------
(***************************************************************************)
(* Why the promises are kept: score, pscore and zero_stack can be told     *)
(* from the counts of each set's own variables, which is what one flip     *)
(* sees.  A chosen set loses the variables it alone covers, another gains  *)
(* those nothing covers, and so on one level up for pscore.                *)
(***************************************************************************)
LocalScore ==
  \A s \in Set : score[s] = IF s \in cur_solu
                            THEN -Weight(Counting(1, set_var[s]))
                            ELSE Weight(Counting(0, set_var[s]))

LocalPscore ==
  \A s \in Set : pscore[s] = IF s \in cur_solu
                             THEN -Weight(Counting(2, set_var[s]))
                             ELSE Weight(Counting(1, set_var[s]))

LocalZero == zero_stack = {s \in cur_solu : score[s] = 0}

FlagsOut == \A s \in Set : ~cc[s] => s \notin cur_solu

(* The inductive invariant: what every flip and update_weight preserve.    *)
IInv ==
  /\ TypeOK
  /\ WitnessExact
  /\ LocalScore
  /\ LocalPscore
  /\ LocalZero
  /\ CostExact
  /\ FlagsOut
=============================================================================
