----------------------------- MODULE Collection -----------------------------
(***************************************************************************)
(* The collection of one site's traffic log: collectors (the periodic job  *)
(* and an operator's request) read windows of seconds from the gateway and *)
(* commit each window with a watermark; requests become revisions of       *)
(* facts; the scoring service counts the facts in minute tables.           *)
(* internal/application/collection, adapters/storage/postgres/             *)
(* measurement.go, and the refresh of adapters/storage/postgres/scoring.go *)
(*                                                                         *)
(* Covered: the overlap, the bisection of windows with too many records,   *)
(* the second read alone, the comparison of the watermark under the lock,  *)
(* revisions of requests, quarantine, the gap flag, failures, a process    *)
(* that dies, records that appear late, the minute tables.                 *)
(* Not covered: several sites (the passes are independent), pages of one   *)
(* window (it is read at one moment), records changed after they were      *)
(* written.  One unit of time is the second of a log and the minute of a   *)
(* table.                                                                  *)
(***************************************************************************)
EXTENDS NewAPILogs

CONSTANTS Collectors,    \* the job and an operator
          Overlap,       \* seconds read again before the watermark
          PageLimit,     \* records of one type a window may hold
          Lookback,      \* how far the first collection looks back
          Delay,         \* how late the gateway may write a record
          MetricOverlap, \* minutes counted again by every refresh
          Traffics,      \* the sets of requests made in a behaviour
          RefreshTimes,  \* bound: the minutes at which the minute tables may be refreshed
          Passes,        \* bound: the collections each collector starts
          MaxTime, MaxFaults

ASSUME LogsAssumption ==
    /\ Logs \subseteq Nat \ {None} /\ IsFiniteSet(Logs)
    /\ \A l \in Logs : Log[l] \in LogRecord
    /\ Bindings \subseteq Binding
ASSUME BoundsAssumption ==
    /\ {Overlap, PageLimit, Lookback, MetricOverlap} \subseteq Nat \ {0}
    /\ Traffics \subseteq SUBSET Requests
    /\ Passes \in [Collectors -> Nat]
    /\ {Delay, MaxTime, MaxFaults} \subseteq Nat
    /\ Lookback < MaxTime
    /\ Delay < Overlap

VARIABLES
    now,
    traffic,      \* the requests that users make in this behaviour
    visible,      \* the records the gateway shows
    cursor,       \* the row of collection_cursors
    revisions,    \* of each request: its accounts, each with the moment it was saved;
                  \* the last one is current
    quarantined,  \* the records set aside
    collector,    \* what each collector has read and has still to read
    passes,       \* the collections each of them has started
    through,      \* the end of the last refresh of the minute tables
    counted,      \* the attempts in each minute's row
    readAlone,    \* history: a second was read without its overlap
    faults

vars == <<now, traffic, visible, cursor, revisions, quarantined, collector, passes,
          through, counted, readAlone, faults>>
sourceVars == <<traffic, visible>>
factVars == <<revisions, quarantined>>
metricVars == <<through, counted>>

Expected == {l \in Logs : Log[l].request \in traffic}

Idle == [pc |-> "idle", started |-> 0, event |-> 0, scanned |-> 0, lower |-> 0,
         todo |-> <<>>, logs |-> {}]

Init ==
    /\ now = Lookback + 1
    /\ traffic \in Traffics
    /\ visible = {l \in Expected : Log[l].at + Delay < now}
    /\ cursor = [event |-> 0, scanned |-> 0, gap |-> FALSE]
    /\ revisions = [r \in Requests |-> <<>>]
    /\ quarantined = {}
    /\ collector = [c \in Collectors |-> Idle]
    /\ passes = [c \in Collectors |-> 0]
    /\ through = 0
    /\ counted = [m \in 1..MaxTime |-> {}]
    /\ readAlone = FALSE
    /\ faults = 0

(***************************************************************************)
(* The gateway and the clock.                                              *)
(***************************************************************************)
Publish(l) ==
    /\ l \in Expected \ visible
    /\ Log[l].at <= now
    /\ visible' = visible \cup {l}
    /\ UNCHANGED <<now, traffic, cursor, factVars, collector, passes, metricVars, readAlone, faults>>

Tick ==
    /\ now < MaxTime
    /\ \A l \in Expected \ visible : now < Log[l].at + Delay
    /\ now' = now + 1
    /\ UNCHANGED <<sourceVars, cursor, factVars, collector, passes, metricVars, readAlone, faults>>

(***************************************************************************)
(* A collection.                                                           *)
(***************************************************************************)
Start(c) ==
    /\ collector[c].pc = "idle"
    /\ passes[c] < Passes[c]
    /\ passes' = [passes EXCEPT ![c] = @ + 1]
    /\ collector' = [collector EXCEPT ![c] = [Idle EXCEPT !.pc = "started", !.started = now]]
    /\ UNCHANGED <<now, sourceVars, cursor, factVars, metricVars, readAlone, faults>>

\* Mutant: reading goes on where it stopped.
FromWatermark(started) == IF cursor.scanned = 0 THEN started - Lookback ELSE cursor.scanned + 1

\* The first second a collection may read; it never goes below the first one.
LowerBound(started) ==
    IF cursor.scanned = 0 THEN started - Lookback ELSE cursor.scanned - Overlap
ScanStart(started) ==
    IF cursor.scanned = 0 THEN LowerBound(started) - 1 ELSE cursor.scanned

Load(c) ==
    LET started == collector[c].started IN
    /\ collector[c].pc = "started"
    /\ ScanStart(started) <= started
    /\ collector' = [collector EXCEPT ![c] =
          [@ EXCEPT !.pc = "reading", !.event = cursor.event, !.scanned = cursor.scanned,
                    !.lower = LowerBound(started),
                    !.todo = <<[from |-> ScanStart(started), upto |-> started]>>]]
    /\ UNCHANGED <<now, sourceVars, cursor, factVars, passes, metricVars, readAlone, faults>>

Window(c) == Head(collector[c].todo)
Within(start, upto) == {l \in visible : start <= Log[l].at /\ Log[l].at <= upto}
WindowLogs(c) ==
    LET w == Window(c) IN Within(Max({w.from - Overlap + 1, collector[c].lower}), w.upto)
Overflows(logs) ==
    \E type \in {"error", "consume"} : Cardinality({l \in logs : Log[l].type = type}) > PageLimit
Indivisible(w) == w.upto - w.from <= 1

Read(c) ==
    /\ collector[c].pc = "reading"
    /\ ~Overflows(WindowLogs(c))
    /\ collector' = [collector EXCEPT ![c].pc = "saving", ![c].logs = WindowLogs(c)]
    /\ UNCHANGED <<now, sourceVars, cursor, factVars, passes, metricVars, readAlone, faults>>

Split(c) ==
    LET w == Window(c)
        middle == w.from + (w.upto - w.from) \div 2
    IN /\ collector[c].pc = "reading"
       /\ Overflows(WindowLogs(c))
       /\ ~Indivisible(w)
       /\ collector' = [collector EXCEPT ![c].todo =
             <<[from |-> w.from, upto |-> middle], [from |-> middle, upto |-> w.upto]>> \o Tail(@)]
       /\ UNCHANGED <<now, sourceVars, cursor, factVars, passes, metricVars, readAlone, faults>>

ReadSecond(c) ==
    LET second == Within(Window(c).upto, Window(c).upto) IN
    /\ collector[c].pc = "reading"
    /\ Overflows(WindowLogs(c))
    /\ Indivisible(Window(c))
    /\ ~Overflows(second)
    /\ collector' = [collector EXCEPT ![c].pc = "saving", ![c].logs = second]
    /\ readAlone' = TRUE
    /\ UNCHANGED <<now, sourceVars, cursor, factVars, passes, metricVars, faults>>

(***************************************************************************)
(* The transaction that saves a window.                                    *)
(***************************************************************************)
Current(r) == revisions[r][Len(revisions[r])]

\* An account that says something else than the current one and is not older.
Supersedes(account, current) ==
    account.source # current.source /\ account.terminal >= current.terminal

\* A request seen for the first time, or with another account.
NewAccount(logs, r) ==
    /\ RecordsOf(logs, r) # {}
    /\ revisions[r] # <<>> => Supersedes(Account(RecordsOf(logs, r)), Current(r).account)
Rewritten(logs) == {r \in Requests : NewAccount(logs, r)}

\* The key of a revision is made of its content: an account that comes back is refused.
Known(account, r) == \E i \in DOMAIN revisions[r] : revisions[r][i].account.source = account.source
Repeated(logs) == \E r \in Rewritten(logs) : Known(Account(RecordsOf(logs, r)), r)

\* A new account supersedes the one that was current.
NewRevision(logs, r) == [account |-> Account(RecordsOf(logs, r)), saved |-> now]
Quarantine(logs) == quarantined' = quarantined \cup {l \in logs : ~Log[l].valid}

SameWatermark(c) ==
    cursor.event = collector[c].event /\ cursor.scanned = collector[c].scanned

\* Mutant: a success clears the gap.
NoGap(unresolved) == FALSE

GapAfterSuccess(unresolved) == unresolved # {}

Save(c) ==
    LET logs == collector[c].logs
        w == Window(c)
        rest == Tail(collector[c].todo)
        event == Max({collector[c].event} \cup {Position[l] : l \in logs})
    IN /\ collector[c].pc = "saving"
       /\ SameWatermark(c)
       /\ ~Repeated(logs)
       /\ revisions' = [r \in Requests |->
             IF r \in Rewritten(logs) THEN Append(revisions[r], NewRevision(logs, r)) ELSE revisions[r]]
       /\ Quarantine(logs)
       /\ cursor' = [event |-> event, scanned |-> w.upto, gap |-> GapAfterSuccess(quarantined')]
       /\ collector' = [collector EXCEPT ![c] =
             IF rest = <<>> THEN Idle
             ELSE [@ EXCEPT !.pc = "reading", !.event = event, !.scanned = w.upto,
                            !.todo = rest, !.logs = {}]]
       /\ UNCHANGED <<now, sourceVars, passes, metricVars, readAlone, faults>>

(***************************************************************************)
(* What can go wrong with it.                                              *)
(***************************************************************************)
MarkFailure(c) ==
    /\ cursor' = [cursor EXCEPT !.gap = TRUE]
    /\ collector' = [collector EXCEPT ![c] = Idle]
    /\ UNCHANGED <<now, sourceVars, factVars, passes, metricVars, readAlone>>

WatermarkAhead(c) ==
    /\ collector[c].pc = "started"
    /\ ScanStart(collector[c].started) > collector[c].started
    /\ MarkFailure(c)
    /\ UNCHANGED faults

SecondTooFull(c) ==
    /\ collector[c].pc = "reading"
    /\ Indivisible(Window(c))
    /\ Overflows(Within(Window(c).upto, Window(c).upto))
    /\ MarkFailure(c)
    /\ UNCHANGED faults

SaveRefused(c) ==
    /\ collector[c].pc = "saving"
    /\ ~SameWatermark(c) \/ Repeated(collector[c].logs)
    /\ MarkFailure(c)
    /\ UNCHANGED faults

Fault ==
    /\ faults < MaxFaults
    /\ faults' = faults + 1

\* The credential, the gateway, the channel bindings or the database is not available.
Fail(c) ==
    /\ collector[c].pc # "idle"
    /\ Fault
    /\ MarkFailure(c)

Die(c) ==
    /\ collector[c].pc # "idle"
    /\ Fault
    /\ collector' = [collector EXCEPT ![c] = Idle]
    /\ UNCHANGED <<now, sourceVars, cursor, factVars, passes, metricVars, readAlone>>

(***************************************************************************)
(* The minute tables.                                                      *)
(***************************************************************************)
\* The keys of the rows that the current account of a request has.
AttemptRows(r) ==
    {[request |-> r, number |-> Len(revisions[r]), ordinal |-> i] :
        i \in DOMAIN Current(r).account.attempts}

CurrentAttempts(minute) ==
    UNION {{row \in AttemptRows(r) :
               LET attempt == Current(r).account.attempts[row.ordinal]
               IN attempt.at = minute /\ attempt.supplier # None} :
           r \in {q \in Requests : revisions[q] # <<>>}}

\* Mutant: a refresh looks back from the present only.
RecentStart(end) == IF through = 0 THEN 0 ELSE end - MetricOverlap

\* A refresh goes back from where the last one ended; the first one counts everything.
RefreshStart(end) == IF through = 0 THEN 0 ELSE Min({end, through}) - MetricOverlap

Refresh ==
    /\ now \in RefreshTimes
    /\ through < now
    /\ counted' = [m \in 1..MaxTime |->
          IF RefreshStart(now) <= m /\ m < now THEN CurrentAttempts(m) ELSE counted[m]]
    /\ through' = now
    /\ UNCHANGED <<now, sourceVars, cursor, factVars, collector, passes, readAlone, faults>>

Next ==
    \/ Tick \/ Refresh
    \/ \E l \in Logs : Publish(l)
    \/ \E c \in Collectors :
          \/ Start(c) \/ Load(c) \/ Read(c) \/ Split(c) \/ ReadSecond(c) \/ Save(c)
          \/ WatermarkAhead(c) \/ SecondTooFull(c) \/ SaveRefused(c) \/ Fail(c) \/ Die(c)

Spec == Init /\ [][Next]_vars

(***************************************************************************)
(* Properties.                                                             *)
(***************************************************************************)
Attempt == [channel : Nat, log : Nat, at : Nat, supplier : Nat,
            outcome : {"succeeded", "failed", "incomplete", "cancelled", "rejected"},
            fault : {"supplier", "user", "unknown", "nobody"}]
Values(s) == {s[i] : i \in DOMAIN s}

\* Every variable has its shape; an account of a request is never stored twice
\* (the unique key of measurement_requests).
TypeOK ==
    /\ now \in Lookback + 1 .. MaxTime
    /\ traffic \subseteq Requests
    /\ visible \subseteq Expected
    /\ cursor \in [event : Nat, scanned : Nat, gap : BOOLEAN]
    /\ DOMAIN revisions = Requests
    /\ \A r \in Requests :
          /\ \A v \in Values(revisions[r]) : Values(v.account.attempts) \subseteq Attempt
          /\ \A i, j \in DOMAIN revisions[r] :
                i # j => revisions[r][i].account.source # revisions[r][j].account.source
    /\ quarantined \subseteq visible
    /\ \A c \in Collectors :
          /\ collector[c].pc \in {"idle", "started", "reading", "saving"}
          /\ collector[c].pc \in {"reading", "saving"} => collector[c].todo # <<>>
          /\ collector[c].logs \subseteq visible
    /\ \A c \in Collectors : passes[c] \in 0..Passes[c]
    /\ through \in 0..MaxTime
    /\ DOMAIN counted = 1..MaxTime
    /\ readAlone \in BOOLEAN
    /\ faults \in 0..MaxFaults

\* What the facts have of a record: an attempt that rests on it, the end of an account,
\* or a place in the quarantine.
Taken(l) ==
    \/ l \in quarantined
    \/ \E v \in Values(revisions[Log[l].request]) :
          v.account.terminal = Position[l] \/ \E a \in Values(v.account.attempts) : a.log = l

\* Once no later collection can reach a record, it is in the facts or in quarantine:
\* collectors that overlap, fail or die lose none, nor does a record that the gateway
\* writes late, as long as no second had to be read without the ones before it.
NothingSkipped ==
    readAlone \/ \A l \in Expected : Log[l].at <= cursor.scanned - Overlap => Taken(l)

\* A supplier is charged with a failure only for a record of that request which says that
\* its channel failed, bound to that supplier when it failed, and once for a record.
ChargedOnEvidence ==
    \A r \in Requests : \A v \in Values(revisions[r]) :
        \A i, j \in DOMAIN v.account.attempts : Charged(v.account.attempts[i]) =>
            /\ \E l \in visible : /\ l = v.account.attempts[i].log /\ Log[l].request = r /\ Failed(l)
                                 /\ Log[l].channel = v.account.attempts[i].channel
                                 /\ v.account.attempts[i].supplier = SupplierOf(Log[l].channel, Log[l].at)
            /\ i # j => v.account.attempts[i].log # v.account.attempts[j].log

\* As long as a record is in quarantine the site shows a gap: no later success of this or of
\* another collector hides that traffic is missing from its facts.
QuarantineShows == quarantined # {} => cursor.gap

\* A fact that was saved at most MetricOverlap minutes after it happened is in the row of its
\* minute after the next refresh, however long the refreshes paused.
PunctualFactsAreCounted ==
    \A r \in Requests : revisions[r] # <<>> =>
        \A i \in DOMAIN Current(r).account.attempts :
            LET a == Current(r).account.attempts[i] IN
            (a.supplier # None /\ Current(r).saved <= a.at + MetricOverlap /\ Current(r).saved < through)
                => [request |-> r, number |-> Len(revisions[r]), ordinal |-> i] \in counted[a.at]

\* A later account of a request keeps every failure the earlier one charged a supplier with.
\* The documents promise it (a success at the end does not cover the failures before it), the
\* code does not keep it, and no run checks it: the overlap of a later collection may begin
\* between two records of a request.
FailuresAreKept ==
    [][\A r \in Requests : revisions[r] # <<>> =>
         {a.log : a \in {x \in Values(Current(r).account.attempts) : Charged(x)}}
           \subseteq {a.log : a \in Values(revisions'[r][Len(revisions'[r])].account.attempts)}]_vars
=============================================================================
