---------------------------- MODULE StackArrays -----------------------------
(***************************************************************************)
(* The three stacks of the search, uncover_stack, set_solu and zero_stack, *)
(* as the code keeps them: an array filled from 0 up to a fill pointer,    *)
(* and the index of each element in an array of its own                    *)
(* (NuWSC-algorithm/NuWSC/wscp.h).  An element is taken out by moving the  *)
(* top into its gap.  What is above the fill pointer is never read.        *)
(***************************************************************************)
EXTENDS Integers

Places(stack) == 0 .. stack.fill - 1

Absent == -1

mypush(x, stack) ==
  [fill  |-> stack.fill + 1,
   at    |-> [j \in 0 .. stack.fill |-> IF j = stack.fill THEN x ELSE stack.at[j]],
   index |-> [stack.index EXCEPT ![x] = stack.fill]]

(* The array after the element at place i is gone.  The mutant lowers the  *)
(* fill pointer before it reads the top.                                   *)
MovedLow(i, stack) ==
  [j \in 0 .. stack.fill - 2 |->
     IF j = i /\ stack.fill > 1 THEN stack.at[stack.fill - 2] ELSE stack.at[j]]

Moved(i, stack) ==
  [j \in 0 .. stack.fill - 2 |-> IF j = i THEN stack.at[stack.fill - 1] ELSE stack.at[j]]

(* cover: the index of x is cleared before that of the top is set, so that *)
(* it stays if x is the top itself.                                        *)
cover(x, stack) ==
  LET i == stack.index[x]
  IN [fill  |-> stack.fill - 1,
      at    |-> Moved(i, stack),
      index |-> [stack.index EXCEPT ![x] = Absent, ![stack.at[stack.fill - 1]] = i]]

(* remove_set and the pops of zero_stack: it is cleared last.  The mutant  *)
(* does it in the order of cover.                                          *)
TakenOutAsCover(x, stack) == cover(x, stack)

TakenOut(x, stack) ==
  LET i == stack.index[x]
  IN [fill  |-> stack.fill - 1,
      at    |-> Moved(i, stack),
      index |-> [stack.index EXCEPT ![stack.at[stack.fill - 1]] = i, ![x] = Absent]]

(* The stack holds the elements of S, each once and at its index.          *)
Holds(stack, S) ==
  /\ \A j \in Places(stack) : stack.at[j] \in S /\ stack.index[stack.at[j]] = j
  /\ \A x \in S : stack.index[x] \in Places(stack) /\ stack.at[stack.index[x]] = x

(* The index tells whether an element of E is in S.                        *)
Tells(stack, S, E) == \A x \in E : (stack.index[x] = Absent) <=> (x \notin S)
=============================================================================
