------------------------------- MODULE MCGates -------------------------------
(* The gates on small instances, for TLC. *)
EXTENDS Gates, SequencesExt

\* Projects are alike: the calls name them in one order.
MCInit ==
  /\ Init
  /\ gate # "host" =>
       LET calls == SetToSeq(Requests)
           names == SetToSeq(Projects)
           before(i) == {project[calls[j]] : j \in 1..(i - 1)}
       IN \A i \in DOMAIN calls :
            project[calls[i]] \in {names[j] : j \in 1..(Cardinality(before(i)) + 1)}

MCSpec == MCInit /\ [][Next]_vars /\ Fairness
=============================================================================
