--------------------------- MODULE MCInputDelivery ---------------------------
(* Generated input delivery on small sets of sessions and submissions.       *)
EXTENDS InputDelivery

First == CHOOSE s \in Sessions : TRUE

\* One session alone: two deliveries, and three signals or a restart and two signals.
Solo ==
    /\ nextId <= 3 /\ obs[First].epoch + clock[First] <= 4
    /\ \A s \in Sessions \ {First} : ~Live(s) /\ ~obs[s].composer /\ clock[s] = 0

\* Sessions compete for the places of the delivery table: agents without a
\* composer, one signal each but for the first and one Enter per delivery, no
\* restart, none retired and no client input.
Crowded ==
    /\ \A s \in Sessions : /\ ~obs[s].composer /\ obs[s].epoch = 1
                           /\ clock[s] <= (IF s = First THEN 2 ELSE 1) /\ input[s].all = 0
    /\ \A id \in Ids : presses[id] <= 1

SoloOrCrowded == Solo \/ Crowded
=============================================================================
