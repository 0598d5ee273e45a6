------------------------------- MODULE Stacks -------------------------------
(***************************************************************************)
(* Covering with the stacks as arrays.  The caller finds a variable or a   *)
(* set by its place in an array, as the rules of the search do, and flip   *)
(* goes through the variables of the set one by one, pushing and popping   *)
(* as it meets them (NuWSC-algorithm/NuWSC/wscp.h).  The sets that module  *)
(* Covering has for the stacks stay beside them, to be compared.           *)
(*                                                                         *)
(* reduce_instance reorders set_var, so that any order may be met.         *)
(***************************************************************************)
EXTENDS Covering, StackArrays, SequencesExt

VARIABLES
  uncover_array, \* uncover_stack, index_in_uncover_stack and its fill pointer
  solu_array,    \* set_solu, index_in_set_solu and set_count
  zero_array     \* zero_stack, index_in_zero_stack and its fill pointer

arrays == <<uncover_array, solu_array, zero_array>>

kvars == <<vars, arrays>>

-----------------------------------------------------------------------------
(* flip_set enters: what happens at the variable v.  acc has the arrays    *)
(* and, of the scores, those that the tests read: of chosen sets.          *)
EnterAt(acc, v) ==
  LET x  == cover_set[v]
      sc == acc.score[x] + weight[v]
  IN CASE cover_count[v] = 0 -> [acc EXCEPT !.uncover = cover(v, @)]
       [] cover_count[v] = 1 ->
            [acc EXCEPT !.score[x] = sc,
                        !.zero = IF sc = 0 /\ @.index[x] = Absent THEN mypush(x, @) ELSE @]
       [] OTHER -> acc

(* flip_set leaves.  The mutant does not look whether the set that is now  *)
(* alone was redundant.                                                    *)
LeaveAtAnyway(acc, v, s) ==
  LET x  == IF cover_set[v] = s THEN cover_set2[v] ELSE cover_set[v]
      sc == acc.score[x] - weight[v]
  IN CASE cover_count[v] = 2 -> [acc EXCEPT !.score[x] = sc]
       [] cover_count[v] = 1 -> [acc EXCEPT !.uncover = mypush(v, @)]
       [] OTHER -> acc

LeaveAt(acc, v, s) ==
  LET x  == IF cover_set[v] = s THEN cover_set2[v] ELSE cover_set[v]
      sc == acc.score[x] - weight[v]
  IN CASE cover_count[v] = 2 ->
            [acc EXCEPT !.score[x] = sc,
                        !.zero = IF @.index[x] # Absent /\ sc # 0 THEN TakenOut(x, @) ELSE @]
       [] cover_count[v] = 1 -> [acc EXCEPT !.uncover = mypush(v, @)]
       [] OTHER -> acc

(* Before the loop: if s leaves it is taken off zero_stack.                *)
Before(s) ==
  [score   |-> score,
   uncover |-> uncover_array,
   zero    |-> IF s \in cur_solu /\ zero_array.index[s] # Absent
               THEN TakenOut(s, zero_array) ELSE zero_array]

FlipAt(acc, v, s) == IF s \in cur_solu THEN LeaveAt(acc, v, s) ELSE EnterAt(acc, v)

(* What the loop has done when it is through with n variables of rows.     *)
Passed(s, rows) ==
  LET after[n \in 0..Len(rows)] ==
        IF n = 0 THEN Before(s) ELSE FlipAt(after[n - 1], rows[n], s)
  IN  after

(* The arrays after a flip of s that meets the variables in the order of   *)
(* rows.                                                                   *)
flipArrays(s, rows) ==
  LET after == Passed(s, rows)[Len(rows)]
  IN /\ uncover_array' = after.uncover
     /\ zero_array' = after.zero
     /\ solu_array' = IF s \in cur_solu THEN TakenOut(s, solu_array)
                                        ELSE mypush(s, solu_array)

flipBoth(s) ==
  /\ flip(s)
  /\ \E rows \in SetToSeqs(set_var[s]) : flipArrays(s, rows)

-----------------------------------------------------------------------------
Empty(E) == [fill |-> 0, at |-> [j \in {} |-> 0], index |-> [x \in E |-> Absent]]

(* init pushes the variables in the order of the file: after n of them.    *)
Filled(rows) ==
  LET after[n \in 0..Len(rows)] ==
        IF n = 0 THEN Empty(Var) ELSE mypush(rows[n], after[n - 1])
  IN  after

StacksInit ==
  /\ Init
  /\ \E rows \in SetToSeqs(Var) : uncover_array = Filled(rows)[Len(rows)]
  /\ solu_array = Empty(Set)
  /\ zero_array = Empty(Set)

(* uncover_stack[random() % uncover_stack_fill_pointer], and a set of its. *)
AddAtRandom ==
  \E j \in Places(uncover_array) : \E s \in Sets[uncover_array.at[j]] : flipBoth(s)

(* zero_stack[rand() % zero_stack_fill_pointer]                            *)
DropAtRandom == \E j \in Places(zero_array) : flipBoth(zero_array.at[j])

(* set_solu[rand() % set_count]                                            *)
RemoveAtRandom == \E j \in Places(solu_array) : flipBoth(solu_array.at[j])

StacksNext ==
  \/ AddAtRandom \/ DropAtRandom \/ RemoveAtRandom
  \/ UpdateWeight /\ UNCHANGED arrays

StacksSpec == StacksInit /\ [][StacksNext]_kvars

-----------------------------------------------------------------------------
(* Moving the top into the gap keeps every array in step with its index    *)
(* array and with what it stands for, also if the element taken out is the *)
(* top itself (wscp.h:807-835, 844-851 and 942-949); and flip, which asks  *)
(* index_in_zero_stack whether a set is on zero_stack (wscp.h:844, 878 and *)
(* 942), gets the right answer for every set.                              *)
StacksHold ==
  /\ Holds(uncover_array, uncover_stack)
  /\ Holds(solu_array, cur_solu)
  /\ Holds(zero_array, zero_stack)
  /\ Tells(zero_array, zero_stack, Set)

(* What is found by its place is what the rules look for: an uncovered     *)
(* variable to cover, a chosen set to remove (wscp.h:1299, 1524).          *)
PlacesServe == Spec
=============================================================================
