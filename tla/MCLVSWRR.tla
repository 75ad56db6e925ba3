------------------------------- MODULE MCLVSWRR -------------------------------
(***************************************************************************)
(* Instances of LVSWRR for TLC.                                            *)
(***************************************************************************)
EXTENDS LVSWRR, TLC

G(w) == [Type |-> "Google", weight |-> w, validURL |-> TRUE]
I(w) == [Type |-> "IETF", weight |-> w, validURL |-> TRUE]
BadURL == [Type |-> "IETF", weight |-> 1, validURL |-> FALSE]

With(entries, statuses, outcomes) ==
    [selector : {"lvs"}, entries : entries, statuses : {statuses}, outcomes : {outcomes}]

\* One query at a time, weights not all equal; <<I(0)>> is refused by Add.
SequentialConfigs == With({<<I(3), I(1)>>, <<I(2), I(6)>>, <<I(7), I(6)>>,
                           <<I(2), I(1), I(4)>>, <<I(3)>>, <<I(0)>>},
                          {"Timeout", "Error", "OK"}, {})

\* Concurrent calls of Get, reports and probes.
ConcurrentConfigs == With({<<I(2), I(1)>>, <<G(2), BadURL>>, <<I(3)>>},
                          {"Error"}, {"badStatus"})

\* The weights of the upstreams in doh-client.conf.
EqualConfigs == With({<<G(50), I(50)>>}, {}, {})

\* Nothing bounds currentWeight when Get loads weights that are about to be
\* clamped: a run stops beyond this value.
MaxCurrentWeight == 4

BoundedCurrentWeight == currentWeight \in -MaxCurrentWeight .. MaxCurrentWeight

HandlerSymmetry == Permutations(Handlers)
===============================================================================
