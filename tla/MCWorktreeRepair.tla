-------------------------- MODULE MCWorktreeRepair --------------------------
(* Instances of WorktreeRepair for TLC. *)
EXTENDS WorktreeRepair, TLC

Interchangeable ==
  Permutations(Workers) \cup Permutations(OpIds) \cup Permutations(Paths)
    \cup Permutations(Tasks)

=============================================================================
