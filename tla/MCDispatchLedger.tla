-------------------------- MODULE MCDispatchLedger --------------------------
(* Four lease ids on one task slot, two engines of two accounts each.      *)
EXTENDS DispatchLedger, TLC

Symmetry ==
  Permutations(Ids) \cup Permutations(Engines) \cup Permutations(Accounts) \cup
  Permutations(Tasks) \cup Permutations(Sessions) \cup Permutations(Pids)
=============================================================================
