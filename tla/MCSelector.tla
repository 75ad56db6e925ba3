------------------------------ MODULE MCSelector ------------------------------
(***************************************************************************)
(* Instances of Selector for TLC.                                          *)
(***************************************************************************)
EXTENDS Selector, TLC

G(w) == [Type |-> "Google", weight |-> w, validURL |-> TRUE]
I(w) == [Type |-> "IETF", weight |-> w, validURL |-> TRUE]

\* A URL that http.NewRequest rejects.
BadURL == [Type |-> "IETF", weight |-> 1, validURL |-> FALSE]

\* NewClient adds the Google upstreams before the IETF ones.  Weight 6 is the
\* smallest that needs two steps up to be reached from 1; weight 0 is outside
\* of what doh-client.conf allows and refused by the lvs selector only.
MCConfigs ==
    [selector : {"nginx", "lvs", "random"},
     entries : {<<G(6)>>, <<I(7)>>, <<G(6), I(2)>>, <<I(0)>>, <<G(2), BadURL>>},
     statuses : {{"Timeout", "Error", "OK"}},
     outcomes : {{"unreachable", "badStatus", "badBody", "answered"}}]
===============================================================================
