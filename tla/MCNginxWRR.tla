------------------------------ MODULE MCNginxWRR ------------------------------
(***************************************************************************)
(* Instances of NginxWRR for TLC.                                          *)
(***************************************************************************)
EXTENDS NginxWRR

G(w) == [Type |-> "Google", weight |-> w, validURL |-> TRUE]
I(w) == [Type |-> "IETF", weight |-> w, validURL |-> TRUE]
BadURL == [Type |-> "IETF", weight |-> 1, validURL |-> FALSE]

With(entries, statuses, outcomes) ==
    [selector : {"nginx"}, entries : entries, statuses : {statuses}, outcomes : {outcomes}]

\* Concurrent calls of Get while the weights do not change.
SteadyConfigs == With({<<I(2), I(1)>>, <<I(1), I(1)>>, <<I(1), I(3)>>,
                       <<I(1), I(2), I(1)>>}, {}, {})

\* Concurrent calls of Get while reports and probes change the weights.
ChangingConfigs == With({<<I(2), I(1)>>, <<G(2), BadURL>>}, {"Timeout"}, {"answered"})

MCConfigs == SteadyConfigs \cup ChangingConfigs

\* Get can load an effectiveWeight that is about to be clamped and carry it
\* into currentWeight, so that nothing bounds currentWeight when the weights
\* change: a run with such weights stops beyond this value.
MaxCurrentWeight == 3

BoundedCurrentWeight ==
    ~Steady => \A u \in DOMAIN currentWeight :
        currentWeight[u] \in -MaxCurrentWeight .. MaxCurrentWeight
===============================================================================
