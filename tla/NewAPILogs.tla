----------------------------- MODULE NewAPILogs -----------------------------
(***************************************************************************)
(* What ManyRouter makes of the log of a New API gateway: the records of   *)
(* one request are turned into one chain of attempts, each with the        *)
(* channel, the supplier bound to that channel at that time, the outcome   *)
(* and whose fault it was (internal/domain/measurement and the parser of   *)
(* internal/application/collection).  Nothing here has state.              *)
(*                                                                         *)
(* A log record is a number, Log gives its fields.  The error code, the    *)
(* HTTP status and the text of a log are represented by the class each of  *)
(* them stands for, by Unmatched if no rule knows it, or by Absent if the  *)
(* log has none.  Model, group, tokens and durations are left out; `valid' *)
(* says whether the fields of the log can be used.                         *)
(***************************************************************************)
EXTENDS Integers, Sequences, FiniteSetsExt

CONSTANTS GatewayLog, \* the records of the log, by their number
          Bindings    \* which supplier a channel belonged to, and when

Log == GatewayLog
Logs == DOMAIN Log

None == 0
Unmatched == "unmatched"
Absent == "absent"

Faults == [rate_limited |-> "supplier", authentication |-> "supplier",
           balance_exhausted |-> "supplier", timeout |-> "supplier",
           upstream_unavailable |-> "supplier", stream_incomplete |-> "supplier",
           invalid_request |-> "user", cancelled |-> "user", rejected |-> "user",
           unknown |-> "unknown"]
Classes == DOMAIN Faults
Recognised == Classes \ {"unknown"}   \* those that the rules for codes, statuses and texts give

LogRecord == [request : STRING, at : Nat \ {0}, type : {"error", "consume"},
              channel : Nat, use : Seq(Nat), streaming : BOOLEAN,
              stream : {"none", "complete", "incomplete"},
              code : Recognised \cup {Unmatched, Absent},
              status : Recognised \cup {Unmatched},
              text : Recognised \cup {Unmatched, Absent}, valid : BOOLEAN]
Binding == [channel : Nat, supplier : Nat \ {0}, from : Nat, to : Nat]

(* The second, then error records before consume records, then the number. *)
Older(l, m) ==
    \/ Log[l].at < Log[m].at
    \/ Log[l].at = Log[m].at /\ Log[l].type = "error" /\ Log[m].type = "consume"
    \/ Log[l].at = Log[m].at /\ Log[l].type = Log[m].type /\ l < m
Position == [l \in Logs |-> 1 + Cardinality({m \in Logs : Older(m, l)})]

(***************************************************************************)
(* Classification of one record.                                           *)
(***************************************************************************)
Incomplete(l) == Log[l].type = "consume" /\ Log[l].stream = "incomplete"

\* What an incomplete stream has no code or no text for is said in the parser's words.
Stated(l, field) ==
    IF Incomplete(l) /\ Log[l][field] = Absent THEN "stream_incomplete" ELSE Log[l][field]

\* ClassifyError: the stable code decides, then the status, then the text.
Classified(l) ==
    LET evidence == <<Stated(l, "code"), Log[l].status, Stated(l, "text")>>
        matched == {i \in 1..3 : evidence[i] \in Recognised}
    IN IF matched = {} THEN "unknown" ELSE evidence[Min(matched)]

\* An unexplained failure of a request for a stream that did not complete gets its class
\* from that, but no other responsibility.
ClassOf(l) ==
    IF Classified(l) = "unknown" /\ Log[l].streaming /\ Log[l].stream = "incomplete"
    THEN "stream_incomplete" ELSE Classified(l)

Failed(l) == Log[l].type = "error" \/ Incomplete(l)
FailureOf(class) ==
    CASE class \in {"cancelled", "rejected"} -> class
      [] class = "stream_incomplete" -> "incomplete"
      [] OTHER -> "failed"
Outcome(l) == IF Failed(l) THEN FailureOf(ClassOf(l)) ELSE "succeeded"
Responsible(l) == IF Failed(l) THEN Faults[Classified(l)] ELSE "nobody"

SupplierOf(channel, at) ==
    LET bound == {b \in Bindings : b.channel = channel /\ b.from <= at /\ at < b.to}
    IN IF bound = {} THEN None ELSE (CHOOSE b \in bound : TRUE).supplier

(***************************************************************************)
(* The chain of attempts of a request, from those of its records that were *)
(* read together.                                                          *)
(***************************************************************************)
Terminal(records) == CHOOSE l \in records : \A m \in records \ {l} : Older(m, l)

Chain(records) ==
    LET longest == Max({Len(Log[l].use) : l \in records})
        used == Log[Terminal({l \in records : Len(Log[l].use) = longest})].use
        last == Log[Terminal(records)].channel
    IN IF used # <<>> /\ used[Len(used)] = last THEN used ELSE Append(used, last)

\* Mutant: every failure of the channel is taken again for each of its attempts.
AnyFailure(records, chain, i) ==
    LET failures == {l \in records \ {Terminal(records)} : Failed(l) /\ Log[l].channel = chain[i]}
    IN IF failures = {} THEN {} ELSE {CHOOSE l \in failures : \A m \in failures : ~Older(m, l)}

\* The n-th attempt on a channel takes the n-th failure logged for it.
FailureFor(records, chain, i) ==
    LET failures == {l \in records \ {Terminal(records)} : Failed(l) /\ Log[l].channel = chain[i]}
        n == Cardinality({j \in 1..i : chain[j] = chain[i]})
    IN {l \in failures : Cardinality({m \in failures : Older(m, l)}) = n - 1}

Observed(channel, l) ==
    [channel |-> channel, log |-> l, at |-> Log[l].at, supplier |-> SupplierOf(channel, Log[l].at),
     outcome |-> Outcome(l), fault |-> Responsible(l)]

\* A channel the chain names and no record speaks of: nobody is held responsible.
Unobserved(channel, at) ==
    [channel |-> channel, log |-> None, at |-> at, supplier |-> None,
     outcome |-> "failed", fault |-> "unknown"]

\* The last attempt is the terminal record's.
EvidenceFor(records, chain, i) ==
    IF i = Len(chain) THEN {Terminal(records)} ELSE FailureFor(records, chain, i)

AttemptOn(channel, evidence, at) ==
    IF evidence = {} THEN Unobserved(channel, at) ELSE Observed(channel, CHOOSE l \in evidence : TRUE)

AttemptsOf(records, chain) ==
    [i \in 1..Len(chain) |->
        AttemptOn(chain[i], EvidenceFor(records, chain, i), Log[Terminal(records)].at)]
Attempts(records) == AttemptsOf(records, Chain(records))

\* What distinguishes one account of a request from another.
SourceKey(terminal, attempts) ==
    <<terminal, [i \in DOMAIN attempts |-> <<attempts[i].log, attempts[i].channel>>]>>

Requests == {Log[l].request : l \in Logs}
RecordsOf(logs, r) == {l \in logs : Log[l].request = r /\ Log[l].valid}

\* The account of a request that a set of its records gives.
AccountOf(terminal, attempts) ==
    [source |-> SourceKey(terminal, attempts), terminal |-> Position[terminal], attempts |-> attempts]
Account(records) == AccountOf(Terminal(records), Attempts(records))

\* An attempt that counts against its supplier.
Charged(attempt) ==
    attempt.outcome # "succeeded" /\ attempt.fault = "supplier" /\ attempt.supplier # None
=============================================================================
