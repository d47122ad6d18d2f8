---------------------------- MODULE MCCollection ----------------------------
(* A request that is tried on channel 1, fails and succeeds on channel 2 a second later,     *)
(* one that is tried twice on channel 1 with a single record for it and whose stream breaks  *)
(* off on channel 2; a record whose fields cannot be used, and a request with two records of *)
(* one type in one second, which is more than a page holds: the first is of a stream that    *)
(* broke off with a code no rule knows.                                                      *)
EXTENDS Collection, TLC

Line(request, at, type, channel, use) ==
    [request |-> request, at |-> at, type |-> type, channel |-> channel, use |-> use,
     streaming |-> FALSE, stream |-> "none",
     code |-> Absent, status |-> Unmatched, text |-> Absent, valid |-> TRUE]
MCLog == <<[Line("retried", 7, "error", 1, <<1>>) EXCEPT !.status = "rate_limited"],
           Line("retried", 8, "consume", 2, <<1, 2>>),
           [Line("twice", 7, "error", 1, <<1>>) EXCEPT !.text = "timeout"],
           [Line("twice", 7, "consume", 2, <<1, 1, 2>>) EXCEPT !.streaming = TRUE, !.stream = "incomplete"],
           [Line("broken", 6, "error", 1, <<>>) EXCEPT !.valid = FALSE],
           [Line("crowded", 9, "error", 1, <<1>>) EXCEPT
               !.streaming = TRUE, !.stream = "incomplete", !.code = Unmatched],
           [Line("crowded", 9, "error", 2, <<1, 2>>) EXCEPT !.code = "rejected"]>>
MCBindings == {[channel |-> 1, supplier |-> 1, from |-> 0, to |-> 8],
               [channel |-> 1, supplier |-> 2, from |-> 8, to |-> 99],
               [channel |-> 2, supplier |-> 2, from |-> 0, to |-> 99]}
CONSTANTS job, operator
MCTraffics == {{"retried", "broken"}, {"twice"}, {"crowded"}}
MCPasses == (job :> 2) @@ (operator :> 1)
=============================================================================
