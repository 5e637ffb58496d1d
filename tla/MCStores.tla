------------------------------ MODULE MCStores -------------------------------
(* The three stores, one of them at a time: what do they keep all the same *)
(* without a lock?                                                         *)
(*                                                                         *)
(* Memory: two processes, two ids, two facts, three calls after the first  *)
(* memory.  Tasks: two workers, two tasks, four calls.  Credentials: two   *)
(* threads, four calls, three answers of the provider.                     *)
EXTENDS Stores, TLC

CONSTANTS p1, p2, m1, m2, f1, f2, t1, t2

MCTwo == {p1, p2}
MCIds == {m1, m2}
MCFacts == {f1, f2}
MCTasks == {t1, t2}
StoreSymmetry ==
  Permutations(MCTwo) \cup Permutations(MCIds) \cup Permutations(MCFacts) \cup Permutations(MCTasks)
=============================================================================
