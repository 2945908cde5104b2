----------------------------- MODULE MCLifecycle -----------------------------
(* Instances of TaskWorktreeLifecycle for TLC. *)
EXTENDS TaskWorktreeLifecycle, TLC

Interchangeable ==
  Permutations(Tasks) \cup Permutations(Clients) \cup Permutations(OpIds)
    \cup Permutations(Branches) \cup Permutations(Paths) \cup Permutations(Oids)

=============================================================================
