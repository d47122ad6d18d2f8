--------------------------- MODULE RouteContract ---------------------------
(***************************************************************************)
(* What publication promises the operators of one site, without jobs,      *)
(* workers, locks or retries: the gateway is only ever written forward,    *)
(* with plans that were published, and a published plan is reported as     *)
(* confirmed only while every part of the gateway carries it.              *)
(***************************************************************************)
EXTENDS Naturals

CONSTANTS Parts,    \* the separately written parts of the gateway
          MaxPlans  \* bound on the plans published

VARIABLES target,   \* the newest published plan
          applied,  \* plan each part of the gateway carries
          acked     \* whether the newest plan is reported as confirmed

contract == <<target, applied, acked>>

Init ==
    /\ target = 0
    /\ applied = [x \in Parts |-> 0]
    /\ acked = FALSE

\* A newer plan is published and nothing is confirmed about it.
Want ==
    /\ target < MaxPlans
    /\ target' = target + 1
    /\ acked' = FALSE
    /\ UNCHANGED applied

\* Plan v reaches some parts, none of which carries a newer plan.
Apply(v, S) ==
    /\ \A x \in S : applied[x] <= v
    /\ applied' = [x \in Parts |-> IF x \in S THEN v ELSE applied[x]]
    /\ UNCHANGED <<target, acked>>

\* The newest plan is confirmed: every part carries it.
Acknowledge ==
    /\ target > 0
    /\ \A x \in Parts : applied[x] = target
    /\ acked' = TRUE
    /\ UNCHANGED <<target, applied>>

\* A later attempt on the confirmed plan failed.
Revoke ==
    /\ acked' = FALSE
    /\ UNCHANGED <<target, applied>>

Next ==
    \/ Want
    \/ \E v \in 1 .. target, S \in SUBSET Parts : Apply(v, S)
    \/ Acknowledge
    \/ Revoke

Spec == Init /\ [][Next]_contract
=============================================================================
