----------------------------- MODULE WindowMetrics -----------------------------
(***************************************************************************)
(* What is known of a supplier's model on a site when it is scored, and    *)
(* how the queries of scoring.sql, application/scoring and domain/scoring  *)
(* turn it into counts, percentiles, confidences and scores.               *)
(*                                                                         *)
(* A fact stands for count requests of one attempt that were observed in   *)
(* the same minute with the same outcome; age is the number of minutes     *)
(* before the end of the windows at which that minute began.  Scores,      *)
(* rates and ratios, floating point numbers in the code, are integers in   *)
(* hundredths (10000 is a score of 100), rounded down.                     *)
(***************************************************************************)
EXTENDS Integers, Sequences, FiniteSets, FiniteSetsExt

Windows == {"15m", "1h", "24h"}
Dimensions == {"price", "latency", "sla", "quality"}
Confidence == 0 .. 3   \* insufficient, low, medium, high
Categories == {"none", "rate_limited", "authentication", "balance_exhausted", "upstream_unavailable", "client"}
Responsibilities == {"none", "supplier", "caller", "unknown"}
Verdicts == {"insufficient", "consistent", "suspicious", "inconsistent"}
Unknown == -1   \* a time or duration that was not recorded
Minutes == Nat \cup {Unknown}

Fact ==
    [age : Nat \ {0}, count : Nat \ {0}, succeeded : BOOLEAN, category : Categories,
     responsibility : Responsibilities, mapped : BOOLEAN,
     stream : BOOLEAN, completed : BOOLEAN, ttft : Minutes, duration : Minutes, coarse : BOOLEAN]
PriceVersion == [from : Nat, to : Nat, cost : Nat]   \* to = 0 for the price in force
Assessment == [age : Minutes, score : 0 .. 100, confidence : 0 .. 100]
EvidenceRecord ==
    [facts : SUBSET Fact, cost : Nat, lowest : Nat, prices : SUBSET PriceVersion,
     probed : Minutes, collected : Minutes, gap : BOOLEAN,
     verdict : Verdicts, authenticity : Assessment, capability : Assessment, health : Assessment]

WindowLength == [w \in Windows |-> CASE w = "15m" -> 15 [] w = "1h" -> 60 [] w = "24h" -> 1440]
Hour == 60
Day == 1440

Within(low, high, n) == Max({low, Min({high, n})})
Count(facts) == MapThenSumSet(LAMBDA f : f.count, facts)

-----------------------------------------------------------------------------
(* The counts of a window                                                  *)

(* Facts without a supplier are in no minute of the aggregation.           *)
In(e, w) == {f \in e.facts : f.mapped /\ f.age <= WindowLength[w]}

Succeeded(facts) == {f \in facts : f.succeeded}
SupplierFailed(facts) == {f \in facts : ~f.succeeded /\ f.responsibility = "supplier"}
Sla(facts) == Succeeded(facts) \cup SupplierFailed(facts)
RateLimited(facts) == {f \in SupplierFailed(facts) : f.category = "rate_limited"}
Streams(facts) == {f \in facts : f.stream}
Completed(facts) == {f \in Streams(facts) : f.completed}
Timed(facts, field) == {f \in facts : f[field] # Unknown}

Samples(e, w) == Count(Sla(In(e, w)))

(* CountPendingAttribution: of the site and model, whatever the supplier.  *)
PendingAttribution(e, w) ==
    \E f \in e.facts : f.age <= WindowLength[w] /\ (~f.mapped \/ (~f.succeeded /\ f.responsibility = "unknown"))

(* GetFailureStreak: the requests that failed after the last success, in   *)
(* traffic or of a direct probe.                                           *)
FailureStreak(e) ==
    LET mine == {f \in e.facts : f.mapped}
    IN  {f \in SupplierFailed(mine) :
            /\ \A s \in Succeeded(mine) : f.age < s.age
            /\ e.probed # Unknown => f.age < e.probed}
StreakOf(e, category) == Count({f \in FailureStreak(e) : f.category = category})

(* GetWindowRecoveryMillis, in minutes: the longest time from a failure to *)
(* the next success, or to the end of the window.                          *)
RecoveredAt(facts, f) ==
    LET later == {s.age : s \in {s \in Succeeded(facts) : s.age < f.age}}
    IN  IF later = {} THEN 0 ELSE Max(later)
Recovery(facts) == Max({0} \cup {f.age - RecoveredAt(facts, f) : f \in SupplierFailed(facts)})

-----------------------------------------------------------------------------
(* Latency histograms                                                      *)

Bounds == <<50, 100, 250, 500, 1000, 2000, 3000, 5000, 8000, 10000, 15000, 30000, 60000, 120000, 300000, 600000>>
LatencyBucketCount == Len(Bounds) + 1

BucketOf(ms) == Cardinality({i \in 1 .. Len(Bounds) : Bounds[i] < ms}) + 1
Histogram(facts, field) ==
    [b \in 1 .. LatencyBucketCount |-> Count({f \in Timed(facts, field) : BucketOf(f[field]) = b})]

\* Mutant: the rank is rounded down.
RankBelow(samples, percentile) == Max({1, (samples * percentile) \div 100})
PercentileRank(samples, percentile) ==
    (samples \div 100) * percentile + ((samples % 100) * percentile + 99) \div 100

(* The bucket of a percentile of a histogram that is not empty.            *)
Cumulative(histogram, b) == MapThenSumSet(LAMBDA i : histogram[i], 1 .. b)
Percentile(histogram, percentile) ==
    LET rank == PercentileRank(Cumulative(histogram, LatencyBucketCount), percentile)
    IN  Min({b \in 1 .. LatencyBucketCount : Cumulative(histogram, b) >= rank})
PercentileValue(b) == IF b = LatencyBucketCount THEN 600000 ELSE Bounds[b]
Latency(facts, field, percentile) == PercentileValue(Percentile(Histogram(facts, field), percentile))

(* What it should be: the least bound that the given part of the requests  *)
(* themselves kept to, unless that is beyond all bounds.                   *)
NearestRank(facts, field, percentile) ==
    LET upTo(ms) == 100 * Count({f \in Timed(facts, field) : f[field] <= ms})
        enough == percentile * Count(Timed(facts, field))
        ms == Latency(facts, field, percentile)
    IN  ms < 600000 => upTo(ms) >= enough /\ \A i \in 1 .. Len(Bounds) : Bounds[i] < ms => upTo(Bounds[i]) < enough

-----------------------------------------------------------------------------
(* Confidences                                                             *)

Recent(age) == IF age = Unknown \/ age > Hour THEN 0 ELSE IF age > 15 THEN 2 ELSE 3

Freshness(e, w) == Recent(IF In(e, w) = {} THEN Unknown ELSE Min({f.age : f \in In(e, w)}))
CollectionConfidence(e) == IF e.gap THEN 0 ELSE Recent(e.collected)
Timing(facts) ==
    LET successes == Succeeded(facts)
    IN  IF Sla(facts) = {} \/ Count(Timed(successes, "duration")) * 2 < Count(successes) THEN 0
        ELSE IF \/ \E f \in facts : f.coarse
                \/ Count(Timed(facts, "ttft")) * 2 < Count(Streams(facts)) THEN 1
        ELSE 3
MinimumSamples == 50
SampleConfidence(s) == CASE s >= 200 -> 3 [] s >= MinimumSamples /\ s < 200 -> 2 [] OTHER -> 0
Expired(assessment, age) == assessment.age = Unknown \/ assessment.age > age
ActiveProbe(e) ==
    IF Expired(e.health, Day) \/ e.health.confidence < 50 THEN 0
    ELSE IF e.health.confidence >= 90 THEN 3 ELSE 2
AuthenticityConfidence(e) ==
    IF e.verdict = "insufficient" \/ Expired(e.authenticity, 7 * Day) THEN 0
    ELSE CASE e.authenticity.confidence >= 90 -> 3
           [] e.authenticity.confidence < 60 -> 1
           [] OTHER -> 2

(* evidenceFactors: a supplier's mapping is always certain.                *)
Factors(e, w) ==
    {Freshness(e, w), CollectionConfidence(e), Timing(In(e, w)), SampleConfidence(Samples(e, w)),
     ActiveProbe(e), AuthenticityConfidence(e), IF PendingAttribution(e, w) THEN 0 ELSE 3}

-----------------------------------------------------------------------------
(* Scores                                                                  *)

(* A MetricRule: where 0 and 100 are, and a weight in percent.             *)
Rule(best, worst, weight) == [best |-> best, worst |-> worst, weight |-> weight]
Normalized(value, rule) ==
    LET range == IF rule.worst > rule.best THEN rule.worst - rule.best ELSE rule.best - rule.worst
        left == IF rule.worst > rule.best THEN rule.worst - value ELSE value - rule.worst
    IN  (10000 * Within(0, range, left)) \div range
(* scoreDimension, of a set of a name, a value and a rule.                 *)
ScoreDimension(metrics) == MapThenSumSet(LAMBDA m : Normalized(m[2], m[3]) * m[3].weight, metrics) \div 100
Ratio(part, whole) == (10000 * part) \div whole

(* summarizePriceEvidence, for prices in one currency.                     *)
PreviousPrice(e, v) ==
    LET older == {u \in e.prices : u.from > v.from} IN {u \in older : \A o \in older : u.from <= o.from}
PriceChanges(e) ==
    {c \in UNION {{<<u, v>> : u \in PreviousPrice(e, v)} : v \in e.prices} :
        c[2].from > 0 /\ c[2].from <= Day /\ c[1].cost # c[2].cost}
Magnitude(c) ==
    LET high == Max({c[1].cost, c[2].cost}) IN (100 * (high - Min({c[1].cost, c[2].cost}))) \div high
PriceAvailable(e) ==
    /\ \E v \in e.prices : v.from >= Day
    /\ \A v \in e.prices : v.to > 0 => \E u \in e.prices : u.from >= v.to /\ u.to < v.to
    /\ \E v \in e.prices : v.to = 0 /\ v.cost = e.cost

RelativeCost(e) ==
    CASE e.lowest > 0 -> (100 * e.cost) \div e.lowest
      [] e.lowest = 0 /\ e.cost = 0 -> 100
      [] OTHER -> 300
PriceScore(e) ==
    ScoreDimension({<<"relative_cost", RelativeCost(e), Rule(100, 300, 70)>>,
                    <<"changes_per_day", Cardinality(PriceChanges(e)), Rule(0, 4, 15)>>,
                    <<"change_magnitude", Max({0} \cup {Magnitude(c) : c \in PriceChanges(e)}), Rule(0, 50, 15)>>})

LatencyAvailable(facts) ==
    Timed(facts, "ttft") # {} /\ Timed(Succeeded(facts), "duration") # {}
LatencyScore(facts) ==
    LET p50 == Latency(facts, "ttft", 50)
        p95 == Latency(facts, "ttft", 95)
        done == Succeeded(facts)
    IN  ScoreDimension({<<"ttft_p50", p50, Rule(500, 10000, 35)>>,
                        <<"ttft_p95", p95, Rule(1000, 20000, 25)>>,
                        <<"duration_p50", Latency(done, "duration", 50), Rule(1000, 60000, 15)>>,
                        <<"duration_p95", Latency(done, "duration", 95), Rule(3000, 120000, 15)>>,
                        <<"variability", (100 * p95) \div p50, Rule(100, 500, 10)>>})

SlaScore(e, facts) ==
    LET all == Count(Sla(facts))
        limited == Ratio(Count(RateLimited(facts)), all)
        streams == Count(Streams(facts))
    IN  ScoreDimension({<<"attempt_success", Ratio(all - Count(SupplierFailed(facts)), all), Rule(10000, 8000, 35)>>,
                        <<"rate_limit", limited, Rule(0, 2000, 20)>>,
                        <<"consecutive_failures", Count(FailureStreak(e)), Rule(0, 3, 15)>>,
                        <<"stream_completion",
                          IF streams = 0 THEN 10000 ELSE Ratio(Count(Completed(facts)), streams), Rule(10000, 8000, 10)>>,
                        <<"recovery", Recovery(facts), Rule(0, Hour, 10)>>,
                        <<"capacity", 10000 - limited, Rule(10000, 8000, 10)>>})

QualityAvailable(e) == e.verdict # "insufficient" /\ ~Expired(e.capability, 7 * Day)
AuthenticityValue(e) == CASE e.verdict = "consistent" -> 100 [] e.verdict = "suspicious" -> 50 [] OTHER -> 0
QualityScore(e) ==
    ScoreDimension({<<"authenticity", AuthenticityValue(e), Rule(100, 0, 40)>>,
                    <<"capability", e.capability.score, Rule(100, 0, 35)>>,
                    <<"stability", e.capability.confidence, Rule(100, 0, 10)>>,
                    <<"evidence", e.authenticity.confidence, Rule(100, 0, 15)>>})

(* buildWindowScore                                                        *)
Complete(e, w) ==
    PriceAvailable(e) /\ LatencyAvailable(In(e, w)) /\ Sla(In(e, w)) # {} /\ QualityAvailable(e)
Scores(e, w) ==
    [price |-> PriceScore(e), latency |-> LatencyScore(In(e, w)),
     sla |-> SlaScore(e, In(e, w)), quality |-> QualityScore(e)]
=============================================================================
