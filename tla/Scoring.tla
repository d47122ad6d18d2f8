-------------------------------- MODULE Scoring --------------------------------
(***************************************************************************)
(* The rules of domain/scoring and application/scoring that turn the       *)
(* evidence about a supplier's model on a site into advice for an Auto.    *)
(* Scores are in hundredths (WindowMetrics), weights and thresholds in     *)
(* percent.                                                                *)
(***************************************************************************)
EXTENDS WindowMetrics

AutoKinds == {"lowest_price", "low_latency", "high_sla", "high_quality", "balanced"}
AdviceActions == {"join", "keep", "exit", "watch", "exclude"}

DefaultWindowWeights == [w \in Windows |-> CASE w = "15m" -> 50 [] w = "1h" -> 30 [] w = "24h" -> 20]

FixedAutoWeights(kind) ==
    CASE kind = "lowest_price" -> [price |-> 55, latency |-> 15, sla |-> 15, quality |-> 15]
      [] kind = "low_latency"  -> [price |-> 15, latency |-> 55, sla |-> 20, quality |-> 10]
      [] kind = "high_sla"     -> [price |-> 10, latency |-> 20, sla |-> 60, quality |-> 10]
      [] kind = "high_quality" -> [price |-> 10, latency |-> 15, sla |-> 15, quality |-> 60]
      [] kind = "balanced"     -> [price |-> 25, latency |-> 25, sla |-> 30, quality |-> 20]

FailureLimit == 3
JoinThreshold == 75
ExitThreshold == 50
RequiredWindows == 2

-----------------------------------------------------------------------------
(* Hard gates                                                              *)

(* A credential is known to be valid by a recent probe only, and the       *)
(* balance is believed to be available with it (hardGateInput).            *)
CredentialGate(e) ==
    IF StreakOf(e, "authentication") >= 3 THEN "fail" ELSE IF ActiveProbe(e) > 0 THEN "pass" ELSE "pending"
BalanceGate(e) ==
    IF StreakOf(e, "balance_exhausted") >= 3 THEN "fail"
    ELSE IF CredentialGate(e) = "pass" THEN "pass" ELSE "pending"
AuthenticityGate(e) ==
    CASE e.verdict = "insufficient" -> "pending"
      [] e.verdict = "inconsistent" -> "fail"
      [] OTHER -> "pass"
FailuresGate(e) == IF Count(FailureStreak(e)) >= FailureLimit THEN "fail" ELSE "pass"

Gates(e) == {AuthenticityGate(e), CredentialGate(e), BalanceGate(e), FailuresGate(e)}
Excluded(e) == "fail" \in Gates(e)
Pending(e) == "pending" \in Gates(e)

-----------------------------------------------------------------------------
(* Evidence of the windows                                                 *)

(* AssessEvidence                                                          *)
Blocked(e, w) ==
    \/ Samples(e, w) < MinimumSamples
    \/ e.gap
    \/ PendingAttribution(e, w)
    \/ 0 \in Factors(e, w)

Usable(e) == {w \in Windows : Complete(e, w) /\ ~Blocked(e, w)}

(* CombineWindowScores: a window that cannot be used blocks decisions,     *)
(* although the others give a score.                                       *)
DecisionReady(e) ==
    Usable(e) = Windows /\ \A w \in Windows : Min(Factors(e, w)) >= 2

(* The composite score of a kind of Auto over the usable windows, compared *)
(* with a threshold: the weights of missing windows go to the others.      *)
CompositeScore(e, w, kind) ==
    LET scores == Scores(e, w)
    IN  MapThenSumSet(LAMBDA d : FixedAutoWeights(kind)[d] * scores[d], Dimensions)
AtLeast(e, kind, threshold) ==
    MapThenSumSet(LAMBDA w : DefaultWindowWeights[w] * CompositeScore(e, w, kind), Usable(e))
        >= threshold * 10000 * MapThenSumSet(LAMBDA w : DefaultWindowWeights[w], Usable(e))

(* What is kept of an earlier recommendation: its composite score, which   *)
(* only a recommendation past every gate has.                              *)
Rated(e) == ~Excluded(e) /\ ~Pending(e) /\ DecisionReady(e)
Reached(e, kind) == Rated(e) /\ AtLeast(e, kind, JoinThreshold)
Fell(e, kind) == Rated(e) /\ ~AtLeast(e, kind, ExitThreshold)

-----------------------------------------------------------------------------
(* Recommend, for evidence e after the recommendations on the evidence in  *)
(* previous: none, or the one of the last snapshot if that is recent.      *)

JoinWindows(e, previous, kind) ==
    IF ~AtLeast(e, kind, JoinThreshold) THEN 0
    ELSE IF \E p \in previous : Reached(p, kind) THEN 2 ELSE 1
ExitWindows(e, previous, kind) ==
    IF AtLeast(e, kind, ExitThreshold) THEN 0
    ELSE IF \E p \in previous : Fell(p, kind) THEN 2 ELSE 1

(* adviseCurrentMember                                                     *)
MemberAdvice(e, previous, kind) ==
    IF AtLeast(e, kind, ExitThreshold) THEN "keep"
    ELSE IF ExitWindows(e, previous, kind) >= RequiredWindows THEN "exit" ELSE "watch"

\* Mutant: one qualified window is enough.
JoinAtOnce(e, previous, kind) ==
    IF AtLeast(e, kind, JoinThreshold) THEN "join" ELSE "watch"

(* adviseCandidate                                                         *)
CandidateAdvice(e, previous, kind) ==
    IF AtLeast(e, kind, JoinThreshold) /\ JoinWindows(e, previous, kind) >= RequiredWindows
    THEN "join" ELSE "watch"

Recommend(e, previous, kind, member) ==
    IF Excluded(e) THEN "exclude"
    ELSE IF Pending(e) \/ ~DecisionReady(e) THEN "watch"
    ELSE IF member THEN MemberAdvice(e, previous, kind)
    ELSE CandidateAdvice(e, previous, kind)
=============================================================================
