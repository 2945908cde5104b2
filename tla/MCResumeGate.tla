----------------------------- MODULE MCResumeGate -----------------------------
(* ResumeGate with attempts that give up, for TLC. *)
EXTENDS ResumeGate
=============================================================================
