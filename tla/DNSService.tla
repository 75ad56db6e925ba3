------------------------------- MODULE DNSService -------------------------------
(***************************************************************************)
(* What the client of a DNS query is promised, whatever lies behind: the   *)
(* query is answered once, under its ID, with no more than it can take;    *)
(* what is no query is never answered; and the matter comes to an end.     *)
(***************************************************************************)
EXTENDS Naturals, Sequences

VARIABLES
    ids,      \* the IDs that a reply may have
    limit,    \* the size that a reply may have
    answers,  \* how many replies there must be in the end: a subset of {0, 1}
    replies,  \* what was replied
    ended     \* nothing more will happen

vars == <<ids, limit, answers, replies, ended>>

Init ==
    /\ answers \subseteq {0, 1}
    /\ replies = << >>
    /\ ~ended

\* The reply; it may be the last that happens.
Reply ==
    /\ ~ended
    /\ replies = << >> /\ 1 \in answers
    /\ Len(replies') = 1
    /\ replies'[1].Id \in ids
    /\ replies'[1].size <= limit
    /\ ended' \in BOOLEAN
    /\ UNCHANGED <<ids, limit, answers>>

End ==
    /\ ~ended
    /\ Len(replies) \in answers
    /\ ended'
    /\ UNCHANGED <<ids, limit, answers, replies>>

Next == Reply \/ End

SafetySpec == Init /\ [][Next]_vars

\* The service comes to an end, and therefore to the reply.
Spec == SafetySpec /\ <>ended
===============================================================================
