-------------------------- MODULE MCStaleResolution --------------------------
(* Instances of StaleResolution for TLC. *)
EXTENDS StaleResolution, TLC

Interchangeable == Permutations(Workers) \cup Permutations(OpIds)

=============================================================================
