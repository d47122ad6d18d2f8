----------------------------- MODULE MCAutomation -----------------------------
(* Evidence for Automation, for TLC.                                       *)
EXTENDS Automation, TLC

Answered(age, count, ttft, duration) ==
    [age |-> age, count |-> count, succeeded |-> TRUE, category |-> "none", responsibility |-> "none",
     mapped |-> TRUE, stream |-> TRUE, completed |-> TRUE, ttft |-> ttft, duration |-> duration, coarse |-> FALSE]
Failed(age, count, category) ==
    [age |-> age, count |-> count, succeeded |-> FALSE, category |-> category, responsibility |-> "supplier",
     mapped |-> TRUE, stream |-> FALSE, completed |-> FALSE, ttft |-> Unknown, duration |-> Unknown, coarse |-> FALSE]
Known(age, score, confidence) == [age |-> age, score |-> score, confidence |-> confidence]
Shown(facts, cost) ==
    [facts |-> facts, cost |-> cost, lowest |-> 10,
     prices |-> {[from |-> 2 * Day, to |-> 0, cost |-> cost]},
     probed |-> 300, collected |-> 1, gap |-> FALSE, verdict |-> "consistent",
     authenticity |-> Known(Day, 0, 90), capability |-> Known(Day, 60, 60), health |-> Known(300, 90, 90)]

(* Answers every hour of which some are refused.                    *)
Limited == {Answered(5, 57, 400, 2000), Answered(6, 4, 900, 4000), Failed(10, 10, "rate_limited"),
            Answered(40, 40, 900, 4000), Failed(50, 10, "rate_limited"), Answered(600, 150, 900, 4000)}
Slow == {Answered(5, 45, 9000, 60000), Failed(10, 15, "upstream_unavailable"),
         Answered(40, 40, 9000, 60000), Failed(50, 15, "rate_limited"),
         Answered(600, 150, 9000, 60000), Failed(700, 60, "rate_limited")}
Cheap == Shown(Limited, 10)

(* "cheap" is good for the lowest price only, "broken" failed three times  *)
(* since it answered, and of "dark" a request has no supplier yet.         *)
NamedEvidence ==
    [c \in Cases |-> CASE c = "cheap" -> Cheap [] c = "poor" -> Shown(Slow, 30)
        [] c = "broken" -> [Cheap EXCEPT !.facts = @ \cup {Failed(1, 3, "upstream_unavailable")}]
        [] c = "dark" -> [Cheap EXCEPT !.facts = @ \cup {[Answered(2, 1, 400, 2000) EXCEPT !.mapped = FALSE]}]]
=============================================================================
