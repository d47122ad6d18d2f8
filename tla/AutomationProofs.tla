-------------------------- MODULE AutomationProofs --------------------------
(***************************************************************************)
(* What holds of the automation of a site for every set of relations,      *)
(* models, Autos, callers and evidence: a batch is taken once, the newest  *)
(* plan is what the tables say, and relations join, leave and are held on  *)
(* the evidence that the rules ask for.                                    *)
(***************************************************************************)
EXTENDS Automation, WindowMetricsProofs

(***************************************************************************)
(* What the advice about a target says of its evidence.                    *)
(***************************************************************************)
LEMMA EvidenceTypes ==
    ASSUME NEW c \in Cases
    PROVE  /\ Evidence[c] \in EvidenceRecord
           /\ \A f \in Evidence[c].facts : f.category \in Categories
  BY AutomationAssumption DEF EvidenceRecord, Fact

\* The failures after the last answer, by their category, are the streak of the query.
LEMMA StreakIsFailedSince ==
    ASSUME NEW c \in Cases
    PROVE  /\ Count(FailureStreak(Evidence[c])) = FailedSince(Evidence[c], Categories)
           /\ \A category : StreakOf(Evidence[c], category) = FailedSince(Evidence[c], {category})
<1> DEFINE e == Evidence[c]
<1> DEFINE since(categories) ==
              {f \in e.facts : /\ f.mapped /\ ~f.succeeded /\ f.responsibility = "supplier"
                               /\ f.category \in categories
                               /\ \A age \in Answers(e) : f.age < age}
<1>1. \A f \in e.facts : /\ f.category \in Categories
                         /\ f.mapped \in BOOLEAN /\ f.succeeded \in BOOLEAN
  BY EvidenceTypes DEF EvidenceRecord, Fact
<1>2. \A f \in e.facts :
         f \in FailureStreak(e) <=> /\ f.mapped /\ ~f.succeeded /\ f.responsibility = "supplier"
                                    /\ \A age \in Answers(e) : f.age < age
  BY DEF FailureStreak, SupplierFailed, Succeeded, Answers
<1>3. FailureStreak(e) \subseteq e.facts
  BY DEF FailureStreak, SupplierFailed
<1>4. FailureStreak(e) = since(Categories)
  BY <1>1, <1>2, <1>3
<1>5. \A category : {f \in FailureStreak(e) : f.category = category} = since({category})
  BY <1>2, <1>3
<1> QED
  BY <1>4, <1>5 DEF FailedSince, StreakOf

\* The hard gates refuse exactly the evidence that is risky.
LEMMA ExcludedIsRisky ==
    ASSUME NEW c \in Cases
    PROVE  Excluded(Evidence[c]) <=> c \in Risky
<1> DEFINE e == Evidence[c]
<1>1. AuthenticityGate(e) = "fail" <=> e.verdict = "inconsistent"
  BY DEF AuthenticityGate
<1>2. CredentialGate(e) = "fail" <=> FailedSince(e, {"authentication"}) >= 3
  BY StreakIsFailedSince DEF CredentialGate
<1>3. BalanceGate(e) = "fail" <=> FailedSince(e, {"balance_exhausted"}) >= 3
  BY StreakIsFailedSince DEF BalanceGate
<1>4. FailuresGate(e) = "fail" <=> FailedSince(e, Categories) >= 3
  BY StreakIsFailedSince DEF FailuresGate, FailureLimit
<1>5. Excluded(e) <=> \/ AuthenticityGate(e) = "fail" \/ CredentialGate(e) = "fail"
                      \/ BalanceGate(e) = "fail" \/ FailuresGate(e) = "fail"
  BY DEF Excluded, Gates
<1>6. c \in Risky <=> \/ e.verdict = "inconsistent"
                      \/ FailedSince(e, {"authentication"}) >= 3
                      \/ FailedSince(e, {"balance_exhausted"}) >= 3
                      \/ FailedSince(e, Categories) >= 3
  BY DEF Risky
<1> QED
  BY <1>1, <1>2, <1>3, <1>4, <1>5, <1>6

\* A score past every gate rests on evidence of which nothing is missing or too old.
LEMMA RatedIsMeasured ==
    ASSUME NEW c \in Cases, Rated(Evidence[c])
    PROVE  c \in Measured \ Risky
<1> DEFINE e == Evidence[c]
<1>1. e \in EvidenceRecord
  BY EvidenceTypes
<1>2. c \notin Risky /\ ~Pending(e) /\ DecisionReady(e)
  BY ExcludedIsRisky DEF Rated
<1>3. \A w \in Windows : Complete(e, w) /\ ~Blocked(e, w)
  BY <1>2 DEF DecisionReady, Usable
<1>4. ASSUME NEW w \in Windows
      PROVE  /\ ~(Samples(e, w) < MinimumSamples) /\ ~e.gap /\ ~PendingAttribution(e, w)
             /\ CollectionConfidence(e) # 0 /\ ActiveProbe(e) # 0 /\ AuthenticityConfidence(e) # 0
  BY <1>3 DEF Blocked, Factors
<1>5. "24h" \in Windows /\ WindowLength["24h"] = Day
  BY DEF Windows, WindowLength, Day
<1>6. e.collected \in 0 .. Hour
  <2>1. Recent(e.collected) # 0
    BY <1>4, <1>5 DEF CollectionConfidence
  <2>2. e.collected # Unknown /\ ~(e.collected > Hour)
    BY <2>1 DEF Recent
  <2>3. e.collected \in Nat \cup {Unknown}
    BY <1>1 DEF EvidenceRecord, Minutes
  <2> QED
    BY <2>2, <2>3 DEF Hour
<1>7. ASSUME NEW assessment \in Assessment, NEW days \in Nat, ~Expired(assessment, days)
      PROVE  assessment.age \in 0 .. days
  <2>1. assessment.age \in Nat \cup {Unknown}
    BY DEF Assessment, Minutes
  <2> QED
    BY <1>7, <2>1 DEF Expired
<1>8. ~Expired(e.health, Day)
  BY <1>4, <1>5 DEF ActiveProbe
<1>9. e.verdict # "insufficient" /\ ~Expired(e.authenticity, 7 * Day)
  BY <1>4, <1>5 DEF AuthenticityConfidence
<1>10. e.health.age \in 0 .. Day /\ e.authenticity.age \in 0 .. 7 * Day
  <2>1. e.health \in Assessment /\ e.authenticity \in Assessment
    BY <1>1 DEF EvidenceRecord
  <2>2. Day \in Nat /\ 7 * Day \in Nat
    BY DEF Day
  <2> QED
    BY <1>7, <1>8, <1>9, <2>1, <2>2
<1>11. \A f \in e.facts : f.age <= Day => f.mapped /\ (f.succeeded \/ f.responsibility # "unknown")
  BY <1>4, <1>5 DEF PendingAttribution
<1>12. \A w \in Windows : ~(Samples(e, w) < 50) /\ Complete(e, w)
  BY <1>3, <1>4 DEF MinimumSamples
<1> QED
  BY <1>2, <1>4, <1>5, <1>6, <1>9, <1>10, <1>11, <1>12 DEF Measured

LEMMA ReachedIsHigh ==
    ASSUME NEW c \in Cases, NEW k \in Kinds, Rated(Evidence[c])
    PROVE  /\ AtLeast(Evidence[c], k, JoinThreshold) => c \in High[k]
           /\ ~AtLeast(Evidence[c], k, ExitThreshold) => c \in Low[k]
  BY RatedIsMeasured DEF High, Low, JoinThreshold, ExitThreshold

LEMMA ExcludeMeans ==
    ASSUME NEW c \in Cases, NEW previous, NEW k, NEW member
    PROVE  Recommend(Evidence[c], previous, k, member) = "exclude" <=> c \in Risky
<1>1. Recommend(Evidence[c], previous, k, member) = "exclude" <=> Excluded(Evidence[c])
  BY DEF Recommend, MemberAdvice, CandidateAdvice
<1> QED
  BY <1>1, ExcludedIsRisky, Zenon

\* The advice on evidence c after the advice on earlier evidence.
LEMMA AdviceMeans ==
    ASSUME NEW c \in Cases, NEW earlier \in SUBSET Cases, NEW k \in Kinds, NEW member \in BOOLEAN,
           NEW advice, advice = Recommend(Evidence[c], {Evidence[p] : p \in earlier}, k, member)
    PROVE  /\ advice = "join" => c \in High[k] /\ \E p \in earlier : p \in High[k]
           /\ advice = "exit" => c \in Low[k] /\ \E p \in earlier : p \in Low[k]
           /\ advice \in AdviceActions
<1> DEFINE e == Evidence[c]
<1> DEFINE previous == {Evidence[p] : p \in earlier}
<1>2. advice \in {"join", "exit"} => Rated(e)
  BY DEF Recommend, Rated
<1>3. ASSUME advice = "join"
      PROVE  c \in High[k] /\ \E p \in earlier : p \in High[k]
  <2>1. AtLeast(e, k, JoinThreshold) /\ JoinWindows(e, previous, k) >= RequiredWindows
    BY <1>3 DEF Recommend, MemberAdvice, CandidateAdvice
  <2>2. \E p \in previous : Reached(p, k)
    BY <2>1 DEF JoinWindows, RequiredWindows
  <2>3. PICK p \in earlier : Reached(Evidence[p], k)
    BY <2>2
  <2>4. p \in High[k]
    BY <2>3, ReachedIsHigh DEF Reached
  <2> QED
    BY <1>2, <1>3, <2>1, <2>4, ReachedIsHigh
<1>4. ASSUME advice = "exit"
      PROVE  c \in Low[k] /\ \E p \in earlier : p \in Low[k]
  <2>1. ~AtLeast(e, k, ExitThreshold) /\ ExitWindows(e, previous, k) >= RequiredWindows
    BY <1>4 DEF Recommend, MemberAdvice, CandidateAdvice
  <2>2. \E p \in previous : Fell(p, k)
    BY <2>1 DEF ExitWindows, RequiredWindows
  <2>3. PICK p \in earlier : Fell(Evidence[p], k)
    BY <2>2
  <2>4. p \in Low[k]
    BY <2>3, ReachedIsHigh DEF Fell
  <2> QED
    BY <1>2, <1>4, <2>1, <2>4, ReachedIsHigh
<1>5. advice \in AdviceActions
  BY DEF Recommend, MemberAdvice, CandidateAdvice, AdviceActions
<1> QED
  BY <1>3, <1>4, <1>5

-----------------------------------------------------------------------------
(* The inductive invariant.                                                  *)

StrategyRow == [enabled : BOOLEAN, visible : BOOLEAN, members : SUBSET Relations, version : Nat,
                mode : {"manual", "automatic"}, setting : Nat, closed : BOOLEAN]
BatchRow == [status : {"none", "succeeded", "failed"},
             evidence : [Relations -> [Models -> Cases \cup {NoCase}]],
             advice : [Relations -> [Models -> [Kinds -> AdviceActions \cup {"none"}]]]]
Contents == [served : SUBSET Relations, groups : [Kinds -> SUBSET Relations],
             visible : [Kinds -> BOOLEAN], versions : [Kinds -> Nat]]
PlanRow == [status : {"pending", "queued", "applied", "failed"}, content : Contents]
RunStatuses == {"none", "frozen", "no_change", "pending_sync"}
Passing == [pc : {"pass"}, todo : SUBSET Ticks]
LoadedWork == [pc : {"loaded"}, todo : SUBSET Ticks, operator : BOOLEAN, batch : Ticks,
               strategy : [Kinds -> StrategyRow], held : SUBSET Relations, stale : BOOLEAN]

TablesTyped ==
    /\ now \in Ticks
    /\ batch \in [Ticks -> BatchRow]
    /\ run \in [Ticks -> RunStatuses]
    /\ strategy \in [Kinds -> StrategyRow]
    /\ hold \in [Relations -> 0 .. MaxTime]
    /\ desired \in [Relations -> BOOLEAN]
    /\ plan \in PlanRow
    /\ changes \in [Ticks -> Nat]
    /\ edits \in Nat
WorkTyped == work \in [Callers -> {Idle} \cup Passing \cup LoadedWork]

Scored(b) == b \in Ticks /\ batch[b].status = "succeeded"

\* What a caller holds was read from usable batches, and a version of an Auto that is still
\* the current one stands for the configuration that was read.
Pinned(old, new) ==
    /\ old.version <= new.version
    /\ old.version = new.version => old.members = new.members
WorkFollows ==
    \A p \in Callers :
        /\ At(p, "pass") => work[p].todo # {} /\ \A b \in work[p].todo : Scored(b)
        /\ At(p, "loaded") => /\ Scored(work[p].batch) /\ \A b \in work[p].todo : Scored(b)
                              /\ \A k \in Kinds : Pinned(work[p].strategy[k], strategy[k])

\* The advice of a batch follows from what it and a recent earlier batch show.
Advised(b, r, m, k) ==
    \E earlier \in SUBSET Cases, member \in BOOLEAN :
        /\ batch[b].advice[r][m][k]
              = Recommend(Evidence[batch[b].evidence[r][m]], {Evidence[p] : p \in earlier}, k, member)
        /\ \A p \in earlier : \E c \in 1 .. b - 1 : b - c <= Gap /\ batch[c].evidence[r][m] = p
BatchesFollow ==
    /\ \A b \in Ticks : batch[b].status = "none" =>
          \A r \in Relations, m \in Models : batch[b].evidence[r][m] = NoCase
    /\ \A b \in Ticks : batch[b].status = "succeeded" =>
          \A r \in Candidates(b), m \in Models : batch[b].evidence[r][m] # NoCase
    /\ \A b \in Ticks, r \in Relations, m \in Models, k \in Kinds :
          batch[b].evidence[r][m] # NoCase => Advised(b, r, m, k)

\* A batch that is not taken has changed nothing.
RunsFollow == \A b \in Ticks : changes[b] <= 1 /\ (run[b] = "none" => changes[b] = 0)

AutomationInv == TablesTyped /\ WorkTyped /\ WorkFollows /\ BatchesFollow /\ RunsFollow /\ NewestPlanIsCurrent

-----------------------------------------------------------------------------
(* The kinds of step.                                                        *)

\* A caller goes on without changing the configuration.
Ends(p) ==
    /\ At(p, "loaded")
    /\ work' = [work EXCEPT ![p] = Rest(work[p])]
    /\ UNCHANGED <<now, batch, configuration, changes, edits>>
    /\ \/ run' = run
       \/ \E status \in {"frozen", "no_change"} :
             /\ run' = [run EXCEPT ![work[p].batch] = IF Untaken(work[p].batch) THEN status ELSE @]
             /\ status = "no_change" => ~Changed(work[p]) /\ Considered(work[p]) = Automatic(work[p])

LEMMA CallerEnds ==
    ASSUME NEW p \in Callers, \/ Freeze(p) \/ FreezeIncompatible(p) \/ NoChange(p) \/ Refuse(p) \/ Fail(p)
    PROVE  Ends(p)
<1>1. At(p, "loaded")
  BY DEF Freeze, FreezeIncompatible, NoChange, Refuse, Fail, Decides
<1>2. Done(p) /\ UNCHANGED <<configuration, changes>>
  BY Zenon DEF Freeze, FreezeIncompatible, NoChange, Refuse, Fail, Record, configuration
<1>3. work' = [work EXCEPT ![p] = Rest(work[p])] /\ UNCHANGED <<now, batch, configuration, changes, edits>>
  BY <1>2, Zenon DEF Done
<1>4. CASE Freeze(p) \/ FreezeIncompatible(p)
  <2>1. Record(p, "frozen")
    BY <1>4 DEF Freeze, FreezeIncompatible
  <2> QED
    BY <1>1, <1>3, <2>1, Zenon DEF Ends, Record
<1>5. CASE NoChange(p)
  <2>1. CASE Considered(work[p]) = Automatic(work[p])
    <3>1. ~Changed(work[p]) /\ Record(p, "no_change")
      BY <1>5, <2>1, Zenon DEF NoChange
    <3> QED
      BY <1>1, <1>3, <2>1, <3>1, Zenon DEF Ends, Record
  <2>2. CASE Considered(work[p]) # Automatic(work[p])
    BY <1>1, <1>3, <1>5, <2>2, Zenon DEF Ends, NoChange
  <2> QED
    BY <2>1, <2>2, Zenon
<1>6. CASE Refuse(p) \/ Fail(p)
  <2>1. run' = run
    BY <1>6, Zenon DEF Refuse, Fail
  <2> QED
    BY <1>1, <1>3, <2>1, Zenon DEF Ends
<1> QED
  BY <1>4, <1>5, <1>6, Zenon

CallerSteps(p) == BeginPass(p) \/ Load(p) \/ ProcessLatest(p) \/ Ends(p) \/ Apply(p) \/ Die(p)

LEMMA StepKinds ==
    ASSUME [Next]_vars
    PROVE  \/ Tick \/ ScoreSite \/ Operate \/ Confirm \/ GiveUp \/ UNCHANGED vars
           \/ \E p \in Callers : CallerSteps(p)
<1>1. ASSUME NEW p \in Jobs, JobStep(p)
      PROVE  \E q \in Callers : CallerSteps(q)
  <2>1. p \in Callers
    BY Zenon DEF Callers
  <2> QED
    BY <1>1, <2>1, CallerEnds, Zenon DEF JobStep, CallerSteps
<1>2. ASSUME NEW p \in Operators, OperatorStep(p)
      PROVE  \E q \in Callers : CallerSteps(q)
  <2>1. p \in Callers
    BY Zenon DEF Callers
  <2> QED
    BY <1>2, <2>1, CallerEnds, Zenon DEF OperatorStep, CallerSteps
<1> QED
  BY <1>1, <1>2, Zenon DEF Next

-----------------------------------------------------------------------------
(* The configuration: every change of it makes a new plan, and a new version *)
(* of an Auto if its members change.                                         *)

LEMMA ContentTyped ==
    ASSUME NEW s \in [Kinds -> StrategyRow], NEW h, NEW d
    PROVE  Content(s, h, d) \in Contents
<1>1. Served(h, d) \in SUBSET Relations
  BY DEF Served
<1>2. \A k \in Kinds : /\ AutoGroup(s[k], Served(h, d)) \in SUBSET Relations
                       /\ s[k].visible \in BOOLEAN /\ s[k].version \in Nat
  BY <1>1 DEF AutoGroup, StrategyRow
<1>3. [k \in Kinds |-> AutoGroup(s[k], Served(h, d))] \in [Kinds -> SUBSET Relations]
  BY <1>2, Zenon
<1>4. \A k \in Kinds : (s[k].visible /\ AutoGroup(s[k], Served(h, d)) # {}) \in BOOLEAN
  BY <1>2
<1>5. [k \in Kinds |-> s[k].visible /\ AutoGroup(s[k], Served(h, d)) # {}] \in [Kinds -> BOOLEAN]
  BY <1>4, Zenon
<1>6. [k \in Kinds |-> s[k].version] \in [Kinds -> Nat]
  BY <1>2, Zenon
<1> QED
  BY <1>1, <1>3, <1>5, <1>6, Zenon DEF Content, Contents

\* What PlanFor makes says what it was made for.
LEMMA PlanSays ==
    ASSUME plan \in PlanRow, NEW s \in [Kinds -> StrategyRow], NEW h \in [Relations -> 0 .. MaxTime],
           NEW d \in [Relations -> BOOLEAN]
    PROVE  PlanFor(s, h, d) \in PlanRow /\ PlanFor(s, h, d).content = Content(s, h, d)
<1>1. Content(s, h, d) \in Contents
  BY ContentTyped, Zenon
<1> DEFINE content == Content(s, h, d)
<1> HIDE DEF content
<1>2. content \in Contents /\ PlanFor(s, h, d) = IF content = plan.content THEN plan ELSE [status |-> "pending", content |-> content]
  BY <1>1, Zenon DEF content, PlanFor
<1>3. PlanFor(s, h, d) \in PlanRow /\ PlanFor(s, h, d).content = content
  BY <1>2 DEF PlanRow
<1> QED
  BY <1>3 DEF content

LEMMA PinnedGoesOn ==
    ASSUME NEW a \in StrategyRow, NEW b \in StrategyRow, NEW c \in StrategyRow, Pinned(a, b), Pinned(b, c)
    PROVE  Pinned(a, c)
  BY DEF Pinned, StrategyRow

\* A step that makes the newest plan for the configuration it leaves.
LEMMA PlannedStep ==
    ASSUME plan \in PlanRow, strategy' \in [Kinds -> StrategyRow], hold' \in [Relations -> 0 .. MaxTime],
           desired' \in [Relations -> BOOLEAN], plan' = PlanFor(strategy', hold', desired')
    PROVE  plan' \in PlanRow /\ plan'.content = Content(strategy', hold', desired') /\ NewestPlanIsCurrent'
<1>1. plan' \in PlanRow /\ plan'.content = Content(strategy', hold', desired')
  BY PlanSays, Zenon
<1>2. \A r \in Relations : desired'[r] => desired'[r]
  OBVIOUS
<1> QED
  BY <1>1, <1>2, Zenon DEF NewestPlanIsCurrent

LEMMA LoadedCaller ==
    ASSUME WorkTyped, NEW p \in Callers, At(p, "loaded")
    PROVE  work[p] \in LoadedWork
  BY DEF WorkTyped, At, Idle, Passing

\* The row of an Auto after a decision is saved.
LEMMA DecidedRow ==
    ASSUME NEW w \in LoadedWork, NEW k \in Kinds
    PROVE  LET t == [After(w, k) EXCEPT !.version = @ + 1]
           IN  /\ t \in StrategyRow
               /\ t.members = MembersAfter(w, k)
               /\ t.version = w.strategy[k].version + 1
<1> DEFINE s == w.strategy[k]
<1> DEFINE members == MembersAfter(w, k)
<1> DEFINE closes == members = {} /\ s.visible
<1> DEFINE opens == members # {} /\ s.closed
<1> DEFINE visible == (s.visible /\ ~closes) \/ opens
<1> DEFINE closed == (s.closed /\ ~opens) \/ closes
<1>1. s \in StrategyRow
  BY DEF LoadedWork
<1>2. members \in SUBSET Relations
  <2>1. s.members \in SUBSET Relations
    BY <1>1 DEF StrategyRow
  <2>2. Candidates(w.batch) \in SUBSET Relations
    BY DEF Candidates
  <2> QED
    BY <2>1, <2>2 DEF MembersAfter
<1>3. visible \in BOOLEAN /\ closed \in BOOLEAN
  OBVIOUS
<1>4. After(w, k) = [s EXCEPT !.members = members, !.visible = visible, !.closed = closed]
  BY Zenon DEF After
<1> HIDE DEF s, members, visible, closed
<1> DEFINE a == [s EXCEPT !.members = members]
<1> DEFINE b == [a EXCEPT !.visible = visible]
<1> DEFINE c == [b EXCEPT !.closed = closed]
<1> DEFINE t == [c EXCEPT !.version = @ + 1]
<1>5. a \in StrategyRow /\ a.members = members /\ a.version = s.version
  BY <1>1, <1>2 DEF StrategyRow
<1> HIDE DEF a
<1>6. b \in StrategyRow /\ b.members = members /\ b.version = s.version
  BY <1>3, <1>5 DEF StrategyRow
<1> HIDE DEF b
<1>7. c \in StrategyRow /\ c.members = members /\ c.version = s.version
  BY <1>3, <1>6 DEF StrategyRow
<1>8. c = After(w, k)
  BY <1>4, Zenon DEF a, b
<1> HIDE DEF c
<1>9. t \in StrategyRow /\ t.members = members /\ t.version = s.version + 1
  BY <1>7 DEF StrategyRow
<1> QED
  BY <1>8, <1>9, Zenon DEF s, members

\* An operator's edit makes a new version of an Auto whose members it changes.
LEMMA SavedRow ==
    ASSUME NEW s \in StrategyRow, NEW enabled \in BOOLEAN, NEW members \in SUBSET Relations
    PROVE  LET t == [s EXCEPT !.enabled = enabled, !.visible = TRUE, !.members = members, !.version = @ + 1]
           IN  t \in StrategyRow /\ Pinned(s, t)
<1> DEFINE a == [s EXCEPT !.enabled = enabled]
<1> DEFINE b == [a EXCEPT !.visible = TRUE]
<1> DEFINE c == [b EXCEPT !.members = members]
<1> DEFINE t == [c EXCEPT !.version = @ + 1]
<1>1. a \in StrategyRow /\ a.version = s.version
  BY DEF StrategyRow
<1> HIDE DEF a
<1>2. b \in StrategyRow /\ b.version = s.version
  BY <1>1 DEF StrategyRow
<1> HIDE DEF b
<1>3. c \in StrategyRow /\ c.version = s.version
  BY <1>2 DEF StrategyRow
<1> HIDE DEF c
<1>4. t \in StrategyRow /\ t.version = s.version + 1
  BY <1>3 DEF StrategyRow
<1>5. s.version \in Nat
  BY DEF StrategyRow
<1>6. Pinned(s, t)
  BY <1>4, <1>5 DEF Pinned
<1> QED
  BY <1>4, <1>6 DEF a, b, c

\* A new mode is no part of what is served.
LEMMA SwitchedRow ==
    ASSUME NEW s \in StrategyRow, NEW mode \in {"manual", "automatic"}
    PROVE  LET t == [s EXCEPT !.mode = mode, !.setting = @ + 1]
           IN  /\ t \in StrategyRow /\ Pinned(s, t)
               /\ t.enabled = s.enabled /\ t.members = s.members /\ t.visible = s.visible /\ t.version = s.version
<1> DEFINE a == [s EXCEPT !.mode = mode]
<1> DEFINE t == [a EXCEPT !.setting = @ + 1]
<1> DEFINE Same(x) == x.enabled = s.enabled /\ x.members = s.members /\ x.visible = s.visible /\ x.version = s.version
<1>1. a \in StrategyRow /\ Same(a)
  BY DEF StrategyRow
<1> HIDE DEF a
<1>2. t \in StrategyRow /\ Same(t)
  BY <1>1 DEF StrategyRow
<1>3. s.version \in Nat
  BY DEF StrategyRow
<1>4. Pinned(s, t)
  BY <1>2, <1>3 DEF Pinned
<1> QED
  BY <1>2, <1>4 DEF a

\* What follows a step for the configuration and the newest plan.
Configured ==
    /\ strategy' \in [Kinds -> StrategyRow] /\ hold' \in [Relations -> 0 .. MaxTime]
    /\ desired' \in [Relations -> BOOLEAN] /\ plan' \in PlanRow
    /\ \A k \in Kinds : Pinned(strategy[k], strategy'[k])
    /\ NewestPlanIsCurrent'

LEMMA StayingPinned ==
    ASSUME TablesTyped
    PROVE  \A k \in Kinds : Pinned(strategy[k], strategy[k])
  BY DEF TablesTyped, StrategyRow, Pinned

LEMMA UnchangedConfigured ==
    ASSUME TablesTyped, NewestPlanIsCurrent, UNCHANGED configuration
    PROVE  Configured
<1>1. UNCHANGED <<strategy, hold, desired, plan>>
  BY Zenon DEF configuration
<1>2. NewestPlanIsCurrent'
  BY <1>1, Zenon DEF NewestPlanIsCurrent
<1>3. \A k \in Kinds : Pinned(strategy[k], strategy'[k])
  BY <1>1, StayingPinned, Zenon
<1> QED
  BY <1>1, <1>2, <1>3, Zenon DEF Configured, TablesTyped

LEMMA SaveStrategyConfigured ==
    ASSUME TablesTyped, NEW kind \in Kinds, NEW enabled \in BOOLEAN, NEW members \in SUBSET Relations,
           SaveStrategy(kind, enabled, members)
    PROVE  Configured
<1> DEFINE t == [strategy[kind] EXCEPT !.enabled = enabled, !.visible = TRUE, !.members = members,
                                       !.version = @ + 1]
<1>1. strategy \in [Kinds -> StrategyRow]
  BY DEF TablesTyped
<1>2. t \in StrategyRow /\ Pinned(strategy[kind], t)
  BY <1>1, SavedRow, Zenon
<1>3. strategy' = [strategy EXCEPT ![kind] = t]
  BY DEF SaveStrategy
<1> HIDE DEF t
<1>4. strategy' \in [Kinds -> StrategyRow]
  BY <1>1, <1>2, <1>3
<1>5. \A k \in Kinds : Pinned(strategy[k], strategy'[k])
  <2>1. \A k \in Kinds : strategy'[k] = IF k = kind THEN t ELSE strategy[k]
    BY <1>1, <1>3
  <2> QED
    BY <1>2, <2>1, StayingPinned, Zenon
<1>6. hold' = hold /\ desired' = desired /\ plan' = PlanFor(strategy', hold', desired')
  BY DEF SaveStrategy
<1>7. hold' \in [Relations -> 0 .. MaxTime] /\ desired' \in [Relations -> BOOLEAN] /\ plan \in PlanRow
  BY <1>6, Zenon DEF TablesTyped
<1>8. plan' \in PlanRow /\ NewestPlanIsCurrent'
  BY <1>4, <1>6, <1>7, PlannedStep, Zenon
<1> QED
  BY <1>4, <1>5, <1>7, <1>8, Zenon DEF Configured

LEMMA SetModeConfigured ==
    ASSUME TablesTyped, NewestPlanIsCurrent, NEW kind \in Kinds, NEW mode \in {"manual", "automatic"},
           SetMode(kind, mode)
    PROVE  Configured
<1> DEFINE t == [strategy[kind] EXCEPT !.mode = mode, !.setting = @ + 1]
<1> DEFINE Same(x, s) == x.enabled = s.enabled /\ x.members = s.members /\ x.visible = s.visible /\ x.version = s.version
<1>1. strategy \in [Kinds -> StrategyRow]
  BY DEF TablesTyped
<1>2. t \in StrategyRow /\ Pinned(strategy[kind], t) /\ Same(t, strategy[kind])
  BY <1>1, SwitchedRow, Zenon
<1>3. strategy' = [strategy EXCEPT ![kind] = t]
  BY DEF SetMode
<1> HIDE DEF t
<1>4. strategy' \in [Kinds -> StrategyRow]
  BY <1>1, <1>2, <1>3
<1>5. \A k \in Kinds : strategy'[k] = IF k = kind THEN t ELSE strategy[k]
  BY <1>1, <1>3
<1>6. \A k \in Kinds : Pinned(strategy[k], strategy'[k]) /\ Same(strategy'[k], strategy[k])
  BY <1>2, <1>5, StayingPinned, Zenon
<1>7. UNCHANGED <<hold, desired, plan>>
  BY DEF SetMode
<1>8. ASSUME NEW d \in [Relations -> BOOLEAN]
      PROVE  Content(strategy', hold, d) = Content(strategy, hold, d)
  <2>1. \A k \in Kinds : AutoGroup(strategy'[k], Served(hold, d)) = AutoGroup(strategy[k], Served(hold, d))
    BY <1>6, Zenon DEF AutoGroup
  <2>2. [k \in Kinds |-> AutoGroup(strategy'[k], Served(hold, d))] = [k \in Kinds |-> AutoGroup(strategy[k], Served(hold, d))]
    BY <2>1, Zenon
  <2>3. [k \in Kinds |-> strategy'[k].visible /\ AutoGroup(strategy'[k], Served(hold, d)) # {}]
           = [k \in Kinds |-> strategy[k].visible /\ AutoGroup(strategy[k], Served(hold, d)) # {}]
    BY <1>6, <2>1, Zenon
  <2>4. [k \in Kinds |-> strategy'[k].version] = [k \in Kinds |-> strategy[k].version]
    BY <1>6, Zenon
  <2> QED
    BY <2>2, <2>3, <2>4, Zenon DEF Content
<1>9. NewestPlanIsCurrent'
  <2>1. PICK d \in [Relations -> BOOLEAN] :
           (\A r \in Relations : d[r] => desired[r]) /\ plan.content = Content(strategy, hold, d)
    BY Zenon DEF NewestPlanIsCurrent
  <2>2. plan'.content = Content(strategy', hold', d)
    BY <1>7, <1>8, <2>1, Zenon
  <2>3. \A r \in Relations : d[r] => desired'[r]
    BY <1>7, <2>1, Zenon
  <2> QED
    BY <2>2, <2>3, Zenon DEF NewestPlanIsCurrent
<1> QED
  BY <1>4, <1>6, <1>7, <1>9, Zenon DEF Configured, TablesTyped

LEMMA SaveRelationConfigured ==
    ASSUME TablesTyped, NEW r \in Relations, SaveRelation(r)
    PROVE  Configured
<1>1. strategy' = strategy /\ hold' = hold /\ plan' = PlanFor(strategy', hold', desired')
  BY Zenon DEF SaveRelation
<1>2. desired' \in [Relations -> BOOLEAN]
  BY DEF SaveRelation, TablesTyped
<1>3. strategy' \in [Kinds -> StrategyRow] /\ hold' \in [Relations -> 0 .. MaxTime] /\ plan \in PlanRow
  BY <1>1, Zenon DEF TablesTyped
<1>4. plan' \in PlanRow /\ NewestPlanIsCurrent'
  BY <1>1, <1>2, <1>3, PlannedStep, Zenon
<1>5. \A k \in Kinds : Pinned(strategy[k], strategy'[k])
  BY <1>1, StayingPinned, Zenon
<1> QED
  BY <1>2, <1>3, <1>4, <1>5, Zenon DEF Configured

LEMMA SyncConfigured ==
    ASSUME TablesTyped, Sync
    PROVE  Configured
<1> DEFINE next == PlanFor(strategy, hold, desired)
<1>1. UNCHANGED <<strategy, hold, desired>>
  BY Zenon DEF Sync
<1>2. plan \in PlanRow /\ strategy \in [Kinds -> StrategyRow] /\ hold \in [Relations -> 0 .. MaxTime]
      /\ desired \in [Relations -> BOOLEAN]
  BY Zenon DEF TablesTyped
<1>3. next \in PlanRow /\ next.content = Content(strategy, hold, desired)
  BY <1>2, PlanSays, Zenon
<1>4. \/ plan' = next
      \/ next = plan /\ plan' = [plan EXCEPT !.status = "queued"]
  BY Zenon DEF Sync
<1> HIDE DEF next
<1>5. plan' \in PlanRow /\ plan'.content = Content(strategy, hold, desired)
  BY <1>2, <1>3, <1>4 DEF PlanRow
<1>6. plan'.content = Content(strategy', hold', desired')
  BY <1>1, <1>5, Zenon
<1>7. \A r \in Relations : desired'[r] => desired'[r]
  OBVIOUS
<1>8. NewestPlanIsCurrent'
  BY <1>1, <1>2, <1>6, <1>7, Zenon DEF NewestPlanIsCurrent
<1>9. \A k \in Kinds : Pinned(strategy[k], strategy'[k])
  BY <1>1, StayingPinned, Zenon
<1> QED
  BY <1>1, <1>2, <1>5, <1>8, <1>9, Zenon DEF Configured

LEMMA OperateConfigured ==
    ASSUME TablesTyped, NewestPlanIsCurrent, Operate
    PROVE  Configured
  BY SaveStrategyConfigured, SetModeConfigured, SaveRelationConfigured, SyncConfigured, Zenon DEF Operate

\* The end of a plan.
LEMMA PlanEndsConfigured ==
    ASSUME TablesTyped, NewestPlanIsCurrent, Confirm \/ GiveUp
    PROVE  Configured
<1>1. plan \in PlanRow /\ \E status \in {"applied", "failed"} : plan' = [plan EXCEPT !.status = status]
  BY Zenon DEF Confirm, GiveUp, TablesTyped
<1>2. plan' \in PlanRow /\ plan'.content = plan.content
  BY <1>1 DEF PlanRow
<1>3. strategy' = strategy /\ hold' = hold
  BY Zenon DEF Confirm, GiveUp
<1>4. desired' \in [Relations -> BOOLEAN] /\ \A r \in Relations : desired[r] => desired'[r]
  BY DEF Confirm, GiveUp, TablesTyped
<1>5. NewestPlanIsCurrent'
  <2>1. PICK d \in [Relations -> BOOLEAN] :
           (\A r \in Relations : d[r] => desired[r]) /\ plan.content = Content(strategy, hold, d)
    BY Zenon DEF NewestPlanIsCurrent
  <2>2. plan'.content = Content(strategy', hold', d)
    BY <1>2, <1>3, <2>1, Zenon
  <2>3. \A r \in Relations : d[r] => desired'[r]
    BY <1>4, <2>1, Zenon
  <2> QED
    BY <2>2, <2>3, Zenon DEF NewestPlanIsCurrent
<1>6. \A k \in Kinds : Pinned(strategy[k], strategy'[k])
  BY <1>3, StayingPinned, Zenon
<1> QED
  BY <1>2, <1>3, <1>4, <1>5, <1>6, Zenon DEF Configured, TablesTyped

(***************************************************************************)
(* Apply saves a decision only over the members that it was made about.    *)
(***************************************************************************)
LEMMA ApplySaves ==
    ASSUME TablesTyped, WorkTyped, WorkFollows, NEW p \in Callers, Apply(p)
    PROVE  /\ work[p] \in LoadedWork /\ Scored(work[p].batch)
           /\ \A k \in Kinds :
                 \/ strategy'[k] = strategy[k]
                 \/ /\ strategy'[k] \in StrategyRow
                    /\ work[p].strategy[k].members = strategy[k].members
                    /\ strategy'[k].members = MembersAfter(work[p], k)
                    /\ strategy'[k].version = strategy[k].version + 1
<1> DEFINE w == work[p]
<1> DEFINE t(k) == [After(w, k) EXCEPT !.version = @ + 1]
<1>1. At(p, "loaded")
  BY Zenon DEF Apply, Decides
<1>2. w \in LoadedWork /\ Scored(w.batch)
  BY <1>1, LoadedCaller, Zenon DEF WorkFollows
<1>3. strategy' = [k \in Kinds |-> IF k \in Updates(w) THEN t(k) ELSE strategy[k]]
  BY Zenon DEF Apply
<1>4. \A k \in Updates(w) : strategy[k].version = w.strategy[k].version
  BY Zenon DEF Apply, Applicable, StillValid
<1>5. \A k \in Kinds : Pinned(w.strategy[k], strategy[k])
  BY <1>1, Zenon DEF WorkFollows
<1>6. \A k \in Kinds : t(k) \in StrategyRow /\ t(k).members = MembersAfter(w, k)
                       /\ t(k).version = w.strategy[k].version + 1
  BY <1>2, DecidedRow, Zenon
<1> HIDE DEF t, w
<1>7. ASSUME NEW k \in Kinds
      PROVE  \/ strategy'[k] = strategy[k]
             \/ /\ strategy'[k] \in StrategyRow
                /\ w.strategy[k].members = strategy[k].members
                /\ strategy'[k].members = MembersAfter(w, k)
                /\ strategy'[k].version = strategy[k].version + 1
  <2>1. CASE k \notin Updates(w)
    BY <1>3, <2>1, Zenon
  <2>2. CASE k \in Updates(w)
    <3>1. strategy'[k] = t(k)
      BY <1>3, <2>2, Zenon
    <3>2. w.strategy[k].members = strategy[k].members
      BY <1>4, <1>5, <2>2, Zenon DEF Pinned
    <3> QED
      BY <1>4, <1>6, <2>2, <3>1, <3>2, Zenon
  <2> QED
    BY <2>1, <2>2, Zenon
<1> QED
  BY <1>2, <1>7, Zenon DEF w

LEMMA ApplyConfigured ==
    ASSUME TablesTyped, WorkTyped, WorkFollows, NEW p \in Callers, Apply(p)
    PROVE  Configured
<1> DEFINE w == work[p]
<1> DEFINE changed == [k \in Kinds |-> IF k \in Updates(w) THEN [After(w, k) EXCEPT !.version = @ + 1]
                                       ELSE strategy[k]]
<1>1. strategy \in [Kinds -> StrategyRow] /\ hold \in [Relations -> 0 .. MaxTime]
      /\ desired \in [Relations -> BOOLEAN] /\ plan \in PlanRow
  BY Zenon DEF TablesTyped
<1>2. strategy' = changed /\ hold' = HoldsAfter(w) /\ plan' = PlanFor(changed, hold', desired) /\ desired' = desired
  BY Zenon DEF Apply
<1> HIDE DEF changed
<1>3. \A k \in Kinds :
         \/ strategy'[k] = strategy[k]
         \/ strategy'[k] \in StrategyRow /\ strategy'[k].version = strategy[k].version + 1
  BY ApplySaves, Zenon
<1>4. \A k \in Kinds : strategy'[k] \in StrategyRow /\ Pinned(strategy[k], strategy'[k])
  <2>1. \A k \in Kinds : strategy[k] \in StrategyRow /\ strategy[k].version \in Nat /\ Pinned(strategy[k], strategy[k])
    BY <1>1, StayingPinned DEF StrategyRow
  <2>2. \A k \in Kinds : strategy'[k].version = strategy[k].version + 1 => Pinned(strategy[k], strategy'[k])
    BY <2>1 DEF Pinned
  <2> QED
    BY <1>3, <2>1, <2>2, Zenon
<1>5. strategy' \in [Kinds -> StrategyRow]
  <2>1. DOMAIN strategy' = Kinds /\ strategy' = [k \in Kinds |-> strategy'[k]]
    BY <1>2, Zenon DEF changed
  <2> QED
    BY <1>4, <2>1, Zenon
<1>6. hold' \in [Relations -> 0 .. MaxTime]
  <2>1. w.batch \in 1 .. MaxTime
    BY ApplySaves DEF LoadedWork, Ticks
  <2>2. w.batch \in 0 .. MaxTime /\ 0 \in 0 .. MaxTime
    BY <2>1, AutomationAssumption
  <2> QED
    BY <1>1, <1>2, <2>2, Zenon DEF HoldsAfter
<1>7. plan' = PlanFor(strategy', hold', desired')
  BY <1>2, Zenon
<1>8. plan' \in PlanRow /\ NewestPlanIsCurrent'
  BY <1>1, <1>2, <1>5, <1>6, <1>7, PlannedStep, Zenon
<1> QED
  BY <1>1, <1>2, <1>4, <1>5, <1>6, <1>8, Zenon DEF Configured

\* Every step.
LEMMA EveryStepConfigured ==
    ASSUME TablesTyped, WorkTyped, WorkFollows, NewestPlanIsCurrent, [Next]_vars
    PROVE  Configured
<1>1. ASSUME NEW p \in Callers, CallerSteps(p)
      PROVE  Configured
  <2>1. CASE Apply(p)
    BY <2>1, ApplyConfigured, Zenon
  <2>2. CASE BeginPass(p) \/ Load(p) \/ ProcessLatest(p) \/ Ends(p) \/ Die(p)
    <3>1. UNCHANGED configuration
      BY <2>2, Zenon DEF BeginPass, Load, ProcessLatest, Ends, Die
    <3> QED
      BY <3>1, UnchangedConfigured, Zenon
  <2> QED
    BY <1>1, <2>1, <2>2, Zenon DEF CallerSteps
<1>2. CASE Tick \/ ScoreSite \/ UNCHANGED vars
  <2>1. UNCHANGED configuration
    BY <1>2, Zenon DEF Tick, ScoreSite, Score, vars, configuration
  <2> QED
    BY <2>1, UnchangedConfigured, Zenon
<1> QED
  BY <1>1, <1>2, StepKinds, OperateConfigured, PlanEndsConfigured, Zenon

-----------------------------------------------------------------------------
(* The batches: a new one follows from what it and the earlier ones show.    *)

\* The evidence before: at most one, that a batch within the gap shows.
LEMMA PreviousIsEvidence ==
    ASSUME TablesTyped, NEW r \in Relations, NEW m \in Models
    PROVE  /\ Previous(r, m) \in {{}} \cup {{x} : x \in Cases}
           /\ \A x \in Previous(r, m) :
                 \E c \in 1 .. now - 1 : now - c <= Gap /\ batch[c].evidence[r][m] = x
<1> DEFINE earlier == {c \in 1 .. now - 1 : batch[c].evidence[r][m] # NoCase}
<1> DEFINE latest == {c \in earlier : now - c <= Gap /\ \A d \in earlier : d <= c}
<1>1. Previous(r, m) = {batch[c].evidence[r][m] : c \in latest}
  BY DEF Previous
<1>2. now \in Nat /\ \A c \in 1 .. now - 1 : c \in Ticks
  BY AutomationAssumption DEF TablesTyped, Ticks
<1>3. \A c \in Ticks : batch[c].evidence[r][m] \in Cases \cup {NoCase}
  BY DEF TablesTyped, BatchRow
<1>4. \A c \in latest : c \in 1 .. now - 1 /\ now - c <= Gap /\ batch[c].evidence[r][m] \in Cases
  BY <1>2, <1>3
<1>5. \A c, d \in latest : c = d
  BY <1>2
<1> HIDE DEF latest
<1>6. CASE latest = {}
  BY <1>1, <1>6
<1>7. ASSUME NEW c \in latest
      PROVE  Previous(r, m) \in {{}} \cup {{x} : x \in Cases}
  <2>1. latest = {c}
    BY <1>5, <1>7
  <2>2. Previous(r, m) = {batch[c].evidence[r][m]}
    BY <1>1, <2>1
  <2> QED
    BY <1>4, <2>2
<1>8. \A x \in Previous(r, m) :
         \E c \in 1 .. now - 1 : now - c <= Gap /\ batch[c].evidence[r][m] = x
  BY <1>1, <1>4
<1> QED
  BY <1>6, <1>7, <1>8

LEMMA RecommendedIsAdvice ==
    ASSUME NEW c \in Cases, NEW previous \in {{}} \cup {{x} : x \in Cases}, NEW k \in Kinds, NEW member \in BOOLEAN
    PROVE  Recommended[c][previous][k][member]
              = Recommend(Evidence[c], {Evidence[x] : x \in previous}, k, member)
  BY DEF Recommended

\* The advice that is saved with evidence.
LEMMA NewAdvice ==
    ASSUME TablesTyped, NEW shown \in [Relations -> [Models -> Cases \cup {NoCase}]],
           NEW r \in Relations, NEW m \in Models, NEW k \in Kinds
    PROVE  /\ Advice(shown)[r][m][k] \in AdviceActions \cup {"none"}
           /\ shown[r][m] # NoCase =>
                 \E earlier \in SUBSET Cases, member \in BOOLEAN :
                    /\ Advice(shown)[r][m][k]
                          = Recommend(Evidence[shown[r][m]], {Evidence[x] : x \in earlier}, k, member)
                    /\ \A x \in earlier : \E c \in 1 .. now - 1 : now - c <= Gap /\ batch[c].evidence[r][m] = x
<1> DEFINE member == r \in CurrentMembers(k)
<1>1. Advice(shown)[r][m][k] = IF shown[r][m] = NoCase THEN "none"
                               ELSE Recommended[shown[r][m]][Previous(r, m)][k][member]
  BY DEF Advice
<1> HIDE DEF member
<1>2. member \in BOOLEAN
  BY DEF member
<1>3. shown[r][m] \in Cases \cup {NoCase}
  OBVIOUS
<1>4. CASE shown[r][m] = NoCase
  BY <1>1, <1>4
<1>5. CASE shown[r][m] # NoCase
  <2>1. shown[r][m] \in Cases
    BY <1>3, <1>5
  <2>2. Advice(shown)[r][m][k] = Recommend(Evidence[shown[r][m]], {Evidence[x] : x \in Previous(r, m)}, k, member)
    BY <1>1, <1>2, <1>5, <2>1, PreviousIsEvidence, RecommendedIsAdvice, Zenon
  <2>3. Previous(r, m) \in SUBSET Cases
    BY PreviousIsEvidence
  <2>4. Advice(shown)[r][m][k] \in AdviceActions
    BY <1>2, <2>1, <2>2, <2>3, AdviceMeans, Zenon
  <2> QED
    BY <1>2, <2>2, <2>3, <2>4, PreviousIsEvidence, Zenon
<1> QED
  BY <1>4, <1>5, Zenon

LEMMA ScoredBatch ==
    ASSUME TablesTyped, NEW shown \in [Relations -> [Models -> Cases \cup {NoCase}]], Score(shown)
    PROVE  /\ batch[now].status = "none"
           /\ batch' = [batch EXCEPT ![now] =
                  [status |-> FinalStatus(shown), evidence |-> shown, advice |-> Advice(shown)]]
           /\ batch' \in [Ticks -> BatchRow]
           /\ FinalStatus(shown) = "succeeded" => \A r \in Relations :
                 (\E m \in Models : shown[r][m] # NoCase) => \A m \in Models : shown[r][m] # NoCase
           /\ FinalStatus(shown) # "none"
<1> DEFINE row == [status |-> FinalStatus(shown), evidence |-> shown, advice |-> Advice(shown)]
<1>1. batch[now].status = "none" /\ batch' = [batch EXCEPT ![now] = row]
  BY Zenon DEF Score
<1>2. FinalStatus(shown) \in {"succeeded", "failed"}
  BY DEF FinalStatus
<1>3. Advice(shown) \in [Relations -> [Models -> [Kinds -> AdviceActions \cup {"none"}]]]
  <2> DEFINE advice(r, m, k) == Advice(shown)[r][m][k]
  <2>1. \A r \in Relations, m \in Models, k \in Kinds : advice(r, m, k) \in AdviceActions \cup {"none"}
    BY NewAdvice, Zenon
  <2>2. Advice(shown) = [r \in Relations |-> [m \in Models |-> [k \in Kinds |-> advice(r, m, k)]]]
    BY Zenon DEF Advice
  <2> HIDE DEF advice
  <2>3. \A r \in Relations : \A m \in Models :
           [k \in Kinds |-> advice(r, m, k)] \in [Kinds -> AdviceActions \cup {"none"}]
    BY <2>1
  <2>4. \A r \in Relations : [m \in Models |-> [k \in Kinds |-> advice(r, m, k)]]
                                \in [Models -> [Kinds -> AdviceActions \cup {"none"}]]
    BY <2>3
  <2> QED
    BY <2>2, <2>4
<1>4. row \in BatchRow
  BY <1>2, <1>3 DEF BatchRow
<1> HIDE DEF row
<1>5. batch' \in [Ticks -> BatchRow]
  BY <1>1, <1>4 DEF TablesTyped
<1>6. \A r \in Relations : (\E m \in Models : shown[r][m] # NoCase) => r \in Targets
  BY Zenon DEF Score
<1>7. FinalStatus(shown) = "succeeded" => \A r \in Targets, m \in Models : shown[r][m] # NoCase
  BY DEF FinalStatus
<1> QED
  BY <1>1, <1>2, <1>5, <1>6, <1>7 DEF row

LEMMA ScoreFollows ==
    ASSUME TablesTyped, BatchesFollow, NEW shown \in [Relations -> [Models -> Cases \cup {NoCase}]], Score(shown)
    PROVE  BatchesFollow' /\ \A b \in Ticks : Scored(b) => Scored(b)'
<1> DEFINE row == [status |-> FinalStatus(shown), evidence |-> shown, advice |-> Advice(shown)]
<1>1. now \in Ticks /\ batch \in [Ticks -> BatchRow] /\ batch[now].status = "none" /\ FinalStatus(shown) # "none"
      /\ batch' = [batch EXCEPT ![now] = row]
  BY ScoredBatch, Zenon DEF TablesTyped
<1>2. row.status = FinalStatus(shown) /\ row.evidence = shown /\ row.advice = Advice(shown)
  OBVIOUS
<1> HIDE DEF row
<1>3. \A b \in Ticks : batch'[b] = IF b = now THEN row ELSE batch[b]
  BY <1>1
<1>4. \A b \in Ticks : batch'[b].status = "none" =>
         \A r \in Relations, m \in Models : batch'[b].evidence[r][m] = NoCase
  BY <1>1, <1>2, <1>3, Zenon DEF BatchesFollow
<1>5. ASSUME NEW b \in Ticks, batch'[b].status = "succeeded", NEW r \in Relations, NEW n \in Models,
             batch'[b].evidence[r][n] # NoCase, NEW m \in Models
      PROVE  batch'[b].evidence[r][m] # NoCase
  <2>1. CASE b = now
    <3>1. FinalStatus(shown) = "succeeded" /\ batch'[b].evidence = shown
      BY <1>2, <1>3, <1>5, <2>1, Zenon
    <3>2. shown[r][n] # NoCase
      BY <1>5, <3>1, Zenon
    <3>3. shown[r][m] # NoCase
      BY <3>1, <3>2, ScoredBatch, ZenonT(40)
    <3> QED
      BY <3>1, <3>3, Zenon
  <2>2. CASE b # now
    <3>1. batch'[b] = batch[b]
      BY <1>3, <2>2, Zenon
    <3>2. batch[b].status = "succeeded" /\ r \in Candidates(b)
      BY <1>5, <3>1 DEF Candidates
    <3> QED
      BY <3>1, <3>2, ZenonT(40) DEF BatchesFollow
  <2> QED
    BY <2>1, <2>2, Zenon
<1>6. ASSUME NEW b \in Ticks, NEW r \in Relations, NEW m \in Models, NEW k \in Kinds,
             batch'[b].evidence[r][m] # NoCase
      PROVE  Advised(b, r, m, k)'
  \* An earlier batch that showed something was there before, and stays as it is.
  <2>1. ASSUME NEW x \in Cases, NEW c \in 1 .. b - 1, batch[c].evidence[r][m] = x
        PROVE  batch'[c].evidence[r][m] = x
    <3>1. c \in Ticks
      BY AutomationAssumption DEF Ticks
    <3>2. c # now
      BY <1>1, <2>1, <3>1, AutomationAssumption, ZenonT(40) DEF BatchesFollow
    <3> QED
      BY <1>3, <2>1, <3>1, <3>2, Zenon
  <2>2. PICK earlier \in SUBSET Cases, member \in BOOLEAN :
           /\ batch'[b].advice[r][m][k]
                 = Recommend(Evidence[batch'[b].evidence[r][m]], {Evidence[p] : p \in earlier}, k, member)
           /\ \A p \in earlier : \E c \in 1 .. b - 1 : b - c <= Gap /\ batch[c].evidence[r][m] = p
    <3>1. CASE b = now
      <4>1. batch'[b].evidence = shown /\ batch'[b].advice = Advice(shown)
        BY <1>2, <1>3, <3>1, Zenon
      <4>2. shown[r][m] # NoCase
        BY <1>6, <4>1, Zenon
      <4>3. PICK earlier \in SUBSET Cases, member \in BOOLEAN :
               /\ Advice(shown)[r][m][k]
                     = Recommend(Evidence[shown[r][m]], {Evidence[x] : x \in earlier}, k, member)
               /\ \A x \in earlier : \E c \in 1 .. now - 1 : now - c <= Gap /\ batch[c].evidence[r][m] = x
        BY <4>2, NewAdvice, ZenonT(40)
      <4> QED
        BY <3>1, <4>1, <4>3, Zenon
    <3>2. CASE b # now
      <4>1. batch'[b] = batch[b]
        BY <1>3, <3>2, Zenon
      <4>2. Advised(b, r, m, k)
        BY <1>6, <4>1, Zenon DEF BatchesFollow
      <4> QED
        BY <4>1, <4>2, Zenon DEF Advised
    <3> QED
      BY <3>1, <3>2, Zenon
  <2>3. \A p \in earlier : \E c \in 1 .. b - 1 : b - c <= Gap /\ batch'[c].evidence[r][m] = p
    BY <2>1, <2>2, Zenon
  <2> QED
    BY <2>2, <2>3, Zenon DEF Advised
<1>7. BatchesFollow'
  BY <1>4, <1>5, <1>6, ZenonT(40) DEF BatchesFollow, Candidates
<1>8. \A b \in Ticks : Scored(b) => Scored(b)'
  BY <1>1, <1>3, Zenon DEF Scored
<1> QED
  BY <1>7, <1>8, Zenon

LEMMA EveryStepFollows ==
    ASSUME TablesTyped, BatchesFollow, [Next]_vars
    PROVE  BatchesFollow' /\ batch' \in [Ticks -> BatchRow] /\ \A b \in Ticks : Scored(b) => Scored(b)'
<1>1. CASE batch' = batch
  <2>1. ASSUME NEW b \in Ticks, NEW r \in Relations, NEW m \in Models, NEW k \in Kinds, Advised(b, r, m, k)
        PROVE  Advised(b, r, m, k)'
    BY <1>1, <2>1, Zenon DEF Advised
  <2>2. \A b \in Ticks : Candidates(b)' = Candidates(b) /\ (Scored(b)' <=> Scored(b))
    BY <1>1, Zenon DEF Candidates, Scored
  <2>3. BatchesFollow'
    BY <1>1, <2>1, <2>2, Zenon DEF BatchesFollow
  <2> QED
    BY <1>1, <2>2, <2>3, Zenon DEF TablesTyped
<1>2. CASE ScoreSite
  BY <1>2, ScoreFollows, ScoredBatch, Zenon DEF ScoreSite
<1>3. ASSUME NEW p \in Callers, CallerSteps(p)
      PROVE  batch' = batch
  BY <1>3, Zenon DEF CallerSteps, BeginPass, Load, ProcessLatest, Ends, Apply, Done, Die
<1>4. Tick \/ Operate \/ Confirm \/ GiveUp \/ UNCHANGED vars => batch' = batch
  BY Zenon DEF Tick, Operate, Confirm, GiveUp, vars
<1> QED
  BY <1>1, <1>2, <1>3, <1>4, StepKinds, Zenon

-----------------------------------------------------------------------------
(* The runs.                                                                 *)

LEMMA EveryStepRuns ==
    ASSUME TablesTyped, WorkTyped, WorkFollows, RunsFollow, [Next]_vars
    PROVE  RunsFollow' /\ run' \in [Ticks -> RunStatuses] /\ changes' \in [Ticks -> Nat]
<1>1. run \in [Ticks -> RunStatuses] /\ changes \in [Ticks -> Nat]
  BY Zenon DEF TablesTyped
<1>2. CASE run' = run /\ changes' = changes
  BY <1>1, <1>2, Zenon DEF RunsFollow
<1>3. ASSUME NEW p \in Callers, Ends(p)
      PROVE  RunsFollow' /\ run' \in [Ticks -> RunStatuses] /\ changes' \in [Ticks -> Nat]
  <2>1. changes' = changes
    BY <1>3, Zenon DEF Ends
  <2>2. CASE run' = run
    BY <1>2, <2>1, <2>2, Zenon
  <2>3. ASSUME NEW status \in {"frozen", "no_change"},
               run' = [run EXCEPT ![work[p].batch] = IF Untaken(work[p].batch) THEN status ELSE @]
        PROVE  RunsFollow' /\ run' \in [Ticks -> RunStatuses] /\ changes' \in [Ticks -> Nat]
    <3>1. \A b \in Ticks : run'[b] = "none" => run[b] = "none"
      BY <1>1, <2>3 DEF Untaken
    <3>2. run' \in [Ticks -> RunStatuses]
      BY <1>1, <2>3 DEF RunStatuses
    <3> QED
      BY <1>1, <2>1, <3>1, <3>2, Zenon DEF RunsFollow
  <2> QED
    BY <1>3, <2>2, <2>3, Zenon DEF Ends
<1>4. ASSUME NEW p \in Callers, Apply(p)
      PROVE  RunsFollow' /\ run' \in [Ticks -> RunStatuses] /\ changes' \in [Ticks -> Nat]
  <2> DEFINE b == work[p].batch
  <2>1. b \in Ticks
    BY <1>4, ApplySaves DEF LoadedWork
  <2>2. run[b] = "none" /\ changes' = [changes EXCEPT ![b] = @ + 1]
        /\ \E status \in {"no_change", "pending_sync"} : run' = [run EXCEPT ![b] = status]
    BY <1>4, Zenon DEF Apply, Untaken
  <2> HIDE DEF b
  <2>3. changes[b] = 0
    BY <2>1, <2>2, Zenon DEF RunsFollow
  <2>4. run' \in [Ticks -> RunStatuses] /\ changes' \in [Ticks -> Nat]
    <3>1. run' \in [Ticks -> RunStatuses]
      BY <1>1, <2>2 DEF RunStatuses
    <3>2. changes' = [changes EXCEPT ![b] = 1]
      BY <2>2, <2>3
    <3>3. changes' \in [Ticks -> Nat]
      BY <1>1, <3>2
    <3> QED
      BY <3>1, <3>3, Zenon
  <2>5. run'[b] # "none" /\ changes'[b] = 1
    BY <1>1, <2>1, <2>2, <2>3
  <2>6. \A c \in Ticks \ {b} : run'[c] = run[c] /\ changes'[c] = changes[c]
    BY <1>1, <2>2
  <2>7. \A c \in Ticks : changes'[c] <= 1 /\ (run'[c] = "none" => changes'[c] = 0)
    BY <2>5, <2>6 DEF RunsFollow
  <2> QED
    BY <2>4, <2>7, Zenon DEF RunsFollow
<1>5. ASSUME NEW p \in Callers, BeginPass(p) \/ Load(p) \/ ProcessLatest(p) \/ Die(p)
      PROVE  run' = run /\ changes' = changes
  BY <1>5, Zenon DEF BeginPass, Load, ProcessLatest, Die
<1>6. Tick \/ ScoreSite \/ Operate \/ Confirm \/ GiveUp \/ UNCHANGED vars => run' = run /\ changes' = changes
  BY Zenon DEF Tick, ScoreSite, Score, Operate, Confirm, GiveUp, vars
<1> QED
  BY <1>2, <1>3, <1>4, <1>5, <1>6, StepKinds, Zenon DEF CallerSteps

-----------------------------------------------------------------------------
(* The callers: what they hold was read from the tables.                     *)

LEMMA MinIsATick ==
    ASSUME NEW S \in SUBSET Ticks, S # {}
    PROVE  Min(S) \in S
<1>1. S \subseteq Nat
  BY AutomationAssumption DEF Ticks
<1> QED
  BY <1>1, MinIsLeast

LEMMA MaxIsATick ==
    ASSUME NEW S \in SUBSET Ticks, S # {}
    PROVE  Max(S) \in S
<1> DEFINE gaps == {MaxTime - x : x \in S}
<1>1. MaxTime \in Nat /\ \A x \in S : x \in Nat /\ x <= MaxTime
  BY AutomationAssumption DEF Ticks
<1>2. gaps \subseteq Nat /\ gaps # {}
  BY <1>1
<1>3. PICK g \in gaps : \A h \in gaps : <<h, g>> \notin OpToRel(<, Nat)
  BY <1>2, WFMin, NatLessThanWellFounded, Zenon
<1>4. \A h \in gaps : ~(h < g)
  BY <1>2, <1>3, Zenon DEF OpToRel
<1>5. PICK x \in S : g = MaxTime - x
  BY <1>3
<1>6. ASSUME NEW y \in S
      PROVE  x >= y
  <2>1. MaxTime - y \in gaps
    OBVIOUS
  <2>2. ~(MaxTime - y < MaxTime - x)
    BY <1>4, <1>5, <2>1
  <2> QED
    BY <1>1, <2>2
<1> QED
  BY <1>6, Zenon DEF Max

LEMMA PinnedTyped ==
    ASSUME TablesTyped, NEW p \in Callers, NEW b \in Ticks, NEW todo \in SUBSET Ticks, NEW operator \in BOOLEAN
    PROVE  Loaded(b, todo, operator) \in LoadedWork
<1>1. strategy \in [Kinds -> StrategyRow]
  BY Zenon DEF TablesTyped
<1>2. {r \in Relations : hold[r] # 0} \in SUBSET Relations
  OBVIOUS
<1>3. (now - b > MaxAge) \in BOOLEAN
  OBVIOUS
<1> QED
  BY <1>1, <1>2, <1>3 DEF Loaded, LoadedWork

LEMMA RestTyped ==
    ASSUME NEW w \in LoadedWork
    PROVE  Rest(w) = Idle \/ (Rest(w) \in Passing /\ Rest(w).todo = w.todo /\ w.todo # {})
<1>1. w.todo \in SUBSET Ticks
  BY DEF LoadedWork
<1> QED
  BY <1>1 DEF Rest, Passing

\* The work of a caller, of which only that caller has a part in the step.
Held(w) ==
    /\ w.pc = "pass" => w.todo # {} /\ \A b \in w.todo : Scored(b)
    /\ w.pc = "loaded" => /\ Scored(w.batch) /\ \A b \in w.todo : Scored(b)
                          /\ \A k \in Kinds : Pinned(w.strategy[k], strategy[k])

\* A step of a caller gives it a row of the locals that rests on the tables.
LEMMA CallerHolds ==
    ASSUME TablesTyped, WorkTyped, WorkFollows, NEW p \in Callers, CallerSteps(p)
    PROVE  \E w \in {Idle} \cup Passing \cup LoadedWork : work' = [work EXCEPT ![p] = w] /\ Held(w)
<1>a. Held(Idle)
  BY DEF Held, Idle
<1>b. ASSUME NEW w \in Passing, w.todo # {}, \A b \in w.todo : Scored(b)
      PROVE  Held(w)
  BY <1>b DEF Held, Passing
<1>1. CASE BeginPass(p)
  <2> DEFINE w == [pc |-> "pass", todo |-> Ready]
  <2>1. Ready \in SUBSET Ticks /\ Ready # {} /\ \A b \in Ready : Scored(b)
    BY <1>1, Zenon DEF BeginPass, Ready, Scored
  <2>2. w \in Passing /\ Held(w)
    BY <1>b, <2>1 DEF Passing
  <2>3. work' = [work EXCEPT ![p] = w]
    BY <1>1, Zenon DEF BeginPass
  <2> QED
    BY <2>2, <2>3, Zenon
<1>2. CASE Load(p)
  <2> DEFINE b == Min(work[p].todo)
  <2> DEFINE w == Loaded(b, work[p].todo \ {b}, FALSE)
  <2>1. work[p] \in Passing /\ work[p].todo # {} /\ \A c \in work[p].todo : Scored(c)
    <3>1. At(p, "pass")
      BY <1>2, Zenon DEF Load
    <3>2. work[p] \in Passing
      BY <3>1 DEF WorkTyped, At, Idle, LoadedWork
    <3> QED
      BY <3>1, <3>2, Zenon DEF WorkFollows
  <2>2. work[p].todo \in SUBSET Ticks
    BY <2>1 DEF Passing
  <2>3. b \in work[p].todo
    BY <2>1, <2>2, MinIsATick, Zenon
  <2>4. work' = [work EXCEPT ![p] = w]
    BY <1>2, Zenon DEF Load
  <2> HIDE DEF b
  <2>5. b \in Ticks /\ Scored(b) /\ work[p].todo \ {b} \in SUBSET Ticks /\ \A c \in work[p].todo \ {b} : Scored(c)
    BY <2>1, <2>2, <2>3
  <2>6. w \in LoadedWork
    BY <2>5, PinnedTyped, Zenon
  <2>7. w.pc = "loaded" /\ w.batch = b /\ w.todo = work[p].todo \ {b} /\ w.strategy = strategy
    BY DEF Loaded
  <2>8. Held(w)
    BY <2>5, <2>7, StayingPinned, Zenon DEF Held
  <2> QED
    BY <2>4, <2>6, <2>8, Zenon
<1>3. CASE ProcessLatest(p)
  <2> DEFINE scored == {b \in Ticks : batch[b].status = "succeeded"}
  <2> DEFINE w == Loaded(Max(scored), {}, TRUE)
  <2>1. scored # {} /\ work' = [work EXCEPT ![p] = w]
    BY <1>3, Zenon DEF ProcessLatest
  <2>2. Max(scored) \in Ticks /\ Scored(Max(scored))
    <3>1. Max(scored) \in scored
      BY <2>1, MaxIsATick, Zenon
    <3> QED
      BY <3>1, Zenon DEF Scored
  <2> HIDE DEF scored
  <2>3. w \in LoadedWork
    BY <2>2, PinnedTyped, Zenon
  <2>4. w.pc = "loaded" /\ w.batch = Max(scored) /\ w.todo = {} /\ w.strategy = strategy
    BY DEF Loaded
  <2>5. Held(w)
    BY <2>2, <2>4, StayingPinned, Zenon DEF Held
  <2> QED
    BY <2>1, <2>3, <2>5, Zenon
<1>4. CASE Ends(p) \/ Apply(p)
  <2>1. At(p, "loaded") /\ work' = [work EXCEPT ![p] = Rest(work[p])]
    BY <1>4, Zenon DEF Ends, Apply, Decides, Done
  <2>2. work[p] \in LoadedWork /\ \A b \in work[p].todo : Scored(b)
    BY <2>1, LoadedCaller, Zenon DEF WorkFollows
  <2>3. Rest(work[p]) = Idle \/ (Rest(work[p]) \in Passing /\ Rest(work[p]).todo = work[p].todo /\ work[p].todo # {})
    BY <2>2, RestTyped, Zenon
  <2> QED
    BY <1>a, <1>b, <2>1, <2>2, <2>3, Zenon
<1>5. CASE Die(p)
  BY <1>a, <1>5, Zenon DEF Die
<1> QED
  BY <1>1, <1>2, <1>3, <1>4, <1>5, Zenon DEF CallerSteps

LEMMA EveryStepHolds ==
    ASSUME TablesTyped, WorkTyped, WorkFollows, BatchesFollow, NewestPlanIsCurrent, [Next]_vars
    PROVE  WorkTyped' /\ WorkFollows'
<1> DEFINE Works == {Idle} \cup Passing \cup LoadedWork
<1>1. work \in [Callers -> Works]
  BY Zenon DEF WorkTyped
<1>2. strategy \in [Kinds -> StrategyRow] /\ strategy' \in [Kinds -> StrategyRow]
      /\ \A k \in Kinds : Pinned(strategy[k], strategy'[k])
  BY EveryStepConfigured, Zenon DEF Configured, TablesTyped
<1>3. \A b \in Ticks : Scored(b) => Scored(b)'
  BY EveryStepFollows, Zenon
\* What a caller holds stays true of the tables.
<1>4. ASSUME NEW w \in Works, Held(w)
      PROVE  Held(w)'
  <2>1. Scored(w.batch) => Scored(w.batch)'
    BY <1>3, Zenon DEF Scored
  <2>2. \A b \in w.todo : Scored(b) => Scored(b)'
    BY <1>3, Zenon DEF Scored
  <2>3. ASSUME NEW k \in Kinds, w.pc = "loaded", Pinned(w.strategy[k], strategy[k])
        PROVE  Pinned(w.strategy[k], strategy'[k])
    <3>1. w.strategy[k] \in StrategyRow
      BY <2>3 DEF LoadedWork, Passing, Idle
    <3> QED
      BY <1>2, <2>3, <3>1, PinnedGoesOn, Zenon
  <2> QED
    BY <1>4, <2>1, <2>2, <2>3, Zenon DEF Held
<1>5. \A p \in Callers : Held(work[p])
  BY Zenon DEF WorkFollows, Held, At
<1>6. CASE work' = work
  <2>1. \A p \in Callers : Held(work[p])'
    BY <1>1, <1>4, <1>5, <1>6, Zenon
  <2> QED
    BY <1>1, <1>6, <2>1, Zenon DEF WorkTyped, WorkFollows, Held, At
<1>7. ASSUME NEW p \in Callers, CallerSteps(p)
      PROVE  WorkTyped' /\ WorkFollows'
  <2>1. PICK w \in Works : work' = [work EXCEPT ![p] = w] /\ Held(w)
    BY <1>7, CallerHolds, Zenon
  <2> HIDE DEF Works
  <2>2. work' \in [Callers -> Works]
    BY <1>1, <2>1
  <2>3. \A q \in Callers : work'[q] = IF q = p THEN w ELSE work[q]
    BY <1>1, <2>1
  <2>4. \A q \in Callers : work[q] \in Works
    BY <1>1, Zenon
  <2>5. ASSUME NEW q \in Callers, NEW v \in Works, v = work'[q]
        PROVE  Held(v)'
    BY <1>4, <1>5, <2>1, <2>3, <2>4, <2>5, Zenon
  <2> QED
    BY <2>2, <2>5, Zenon DEF WorkTyped, WorkFollows, Held, At, Works
<1>8. Tick \/ ScoreSite \/ Operate \/ Confirm \/ GiveUp \/ UNCHANGED vars => work' = work
  BY Zenon DEF Tick, ScoreSite, Score, Operate, Confirm, GiveUp, vars
<1> QED
  BY <1>6, <1>7, <1>8, StepKinds, Zenon

-----------------------------------------------------------------------------
(* The invariant, and what it says of batches and plans.                     *)

LEMMA EveryStepTyped ==
    ASSUME AutomationInv, [Next]_vars
    PROVE  TablesTyped'
<1>1. TablesTyped /\ WorkTyped /\ WorkFollows /\ BatchesFollow /\ RunsFollow /\ NewestPlanIsCurrent
  BY Zenon DEF AutomationInv
<1>2. now' \in Ticks
  <2>1. CASE Tick
    <3>1. now' = now + 1 /\ now < MaxTime
      BY <2>1, Zenon DEF Tick
    <3> QED
      BY <1>1, <3>1, AutomationAssumption DEF TablesTyped, Ticks
  <2>2. ASSUME NEW p \in Callers, CallerSteps(p)
        PROVE  now' = now
    BY <2>2, Zenon DEF CallerSteps, BeginPass, Load, ProcessLatest, Ends, Apply, Done, Die
  <2>3. ScoreSite \/ Operate \/ Confirm \/ GiveUp \/ UNCHANGED vars => now' = now
    BY Zenon DEF ScoreSite, Score, Operate, Confirm, GiveUp, vars
  <2>4. now \in Ticks
    BY <1>1, Zenon DEF TablesTyped
  <2> QED
    BY <2>1, <2>2, <2>3, <2>4, StepKinds, Zenon
<1>3. edits' \in Nat
  <2>1. Edit => edits' = edits + 1
    BY DEF Edit
  <2>2. ASSUME NEW p \in Callers, CallerSteps(p)
        PROVE  edits' = edits \/ Edit
    BY <2>2, Zenon DEF CallerSteps, BeginPass, Load, ProcessLatest, Ends, Apply, Done, Die
  <2>3. Tick \/ ScoreSite \/ Operate \/ Confirm \/ GiveUp \/ UNCHANGED vars => edits' = edits \/ Edit
    BY Zenon DEF Tick, ScoreSite, Score, Operate, Confirm, GiveUp, vars
  <2>4. edits \in Nat
    BY <1>1, Zenon DEF TablesTyped
  <2>5. edits' = edits \/ Edit
    BY <2>2, <2>3, StepKinds, Zenon
  <2> QED
    BY <2>1, <2>4, <2>5
<1>4. batch' \in [Ticks -> BatchRow]
  BY <1>1, EveryStepFollows, Zenon
<1>5. run' \in [Ticks -> RunStatuses] /\ changes' \in [Ticks -> Nat]
  BY <1>1, EveryStepRuns, Zenon
<1>6. Configured
  BY <1>1, EveryStepConfigured, Zenon
<1> QED
  BY <1>2, <1>3, <1>4, <1>5, <1>6, Zenon DEF Configured, TablesTyped

LEMMA InitHolds ==
    ASSUME Init
    PROVE  AutomationInv
<1>1. now \in Ticks /\ edits \in Nat
  BY AutomationAssumption DEF Init, Ticks
<1>2. NoBatch \in BatchRow
  BY DEF NoBatch, BatchRow
<1>3. batch = [b \in Ticks |-> NoBatch] /\ run = [b \in Ticks |-> "none"] /\ changes = [b \in Ticks |-> 0]
      /\ work = [p \in Callers |-> Idle] /\ hold = [r \in Relations |-> 0]
      /\ desired = [r \in Relations |-> TRUE]
      /\ plan = [status |-> "applied", content |-> Content(strategy, hold, desired)]
  BY Zenon DEF Init
<1>4. batch \in [Ticks -> BatchRow]
  BY <1>2, <1>3
<1>5. run \in [Ticks -> RunStatuses] /\ changes \in [Ticks -> Nat]
  BY <1>3 DEF RunStatuses
<1>6. strategy \in [Kinds -> StrategyRow]
  BY DEF Init, StrategyRow
<1>7. hold \in [Relations -> 0 .. MaxTime]
  BY <1>3, AutomationAssumption
<1>8. desired \in [Relations -> BOOLEAN]
  BY <1>3
<1>9. plan \in PlanRow
  <2>1. Content(strategy, hold, desired) \in Contents
    BY <1>6, ContentTyped, Zenon
  <2> QED
    BY <1>3, <2>1 DEF PlanRow
<1>10. WorkTyped
  BY <1>3 DEF WorkTyped
<1>11. WorkFollows
  BY <1>3, Zenon DEF WorkFollows, At, Idle
<1>12. BatchesFollow
  <2>1. \A b \in Ticks : batch[b].status = "none" /\ \A r \in Relations, m \in Models : batch[b].evidence[r][m] = NoCase
    BY <1>3 DEF NoBatch
  <2> QED
    BY <2>1 DEF BatchesFollow
<1>13. RunsFollow
  BY <1>3 DEF RunsFollow
<1>14. NewestPlanIsCurrent
  <2>1. plan.content = Content(strategy, hold, desired)
    BY <1>3
  <2>2. \A r \in Relations : desired[r] => desired[r]
    OBVIOUS
  <2> QED
    BY <1>8, <2>1, <2>2, Zenon DEF NewestPlanIsCurrent
<1> QED
  BY <1>1, <1>4, <1>5, <1>6, <1>7, <1>8, <1>9, <1>10, <1>11, <1>12, <1>13, <1>14, Zenon DEF AutomationInv, TablesTyped

(***************************************************************************)
(* The inductive invariant: what callers hold was read from usable         *)
(* batches, advice follows from evidence, and a batch that is not taken    *)
(* has changed nothing.                                                    *)
(***************************************************************************)
THEOREM AutomationInvariant == Spec => []AutomationInv
<1>1. Init => AutomationInv
  BY InitHolds
<1>2. AutomationInv /\ [Next]_vars => AutomationInv'
  BY EveryStepTyped, EveryStepHolds, EveryStepFollows, EveryStepRuns, EveryStepConfigured, Zenon
     DEF AutomationInv, Configured
<1> QED
  BY <1>1, <1>2, PTL DEF Spec

(***************************************************************************)
(* However many jobs and operators take a batch, it changes the            *)
(* configuration once at most (findAutomationRun in ApplyAutomationRun).   *)
(***************************************************************************)
THEOREM BatchesAreTakenOnce == Spec => []TakenOnce
<1>1. AutomationInv => TakenOnce
  BY Zenon DEF AutomationInv, RunsFollow, TakenOnce
<1> QED
  BY <1>1, AutomationInvariant, PTL

(***************************************************************************)
(* No change of members, holds or decisions is left out of the newest plan *)
(* (buildSitePlan).                                                        *)
(***************************************************************************)
THEOREM NothingIsLeftOut == Spec => []NewestPlanIsCurrent
<1>1. AutomationInv => NewestPlanIsCurrent
  BY Zenon DEF AutomationInv
<1> QED
  BY <1>1, AutomationInvariant, PTL

-----------------------------------------------------------------------------
(* What a batch that is applied may change.                                  *)

\* The saved advice says of the evidence what the rules ask for.
LEMMA SavedAdviceMeans ==
    ASSUME TablesTyped, BatchesFollow, NEW b \in Ticks, NEW r \in Relations, NEW m \in Models, NEW k \in Kinds,
           batch[b].evidence[r][m] # NoCase
    PROVE  /\ batch[b].advice[r][m][k] = "join" => Twice(b, r, m, High[k])
           /\ batch[b].advice[r][m][k] = "exit" => Twice(b, r, m, Low[k])
           /\ batch[b].advice[r][m][k] = "exclude" <=> batch[b].evidence[r][m] \in Risky
<1> DEFINE c == batch[b].evidence[r][m]
<1> DEFINE advice == batch[b].advice[r][m][k]
<1>1. c \in Cases
  BY DEF TablesTyped, BatchRow
<1>2. PICK earlier \in SUBSET Cases, member \in BOOLEAN :
         /\ advice = Recommend(Evidence[c], {Evidence[p] : p \in earlier}, k, member)
         /\ \A p \in earlier : \E d \in 1 .. b - 1 : b - d <= Gap /\ batch[d].evidence[r][m] = p
  <2>1. Advised(b, r, m, k)
    BY Zenon DEF BatchesFollow
  <2> QED
    BY <2>1, Zenon DEF Advised
<1> HIDE DEF c, advice
<1>3. /\ advice = "join" => c \in High[k] /\ \E p \in earlier : p \in High[k]
      /\ advice = "exit" => c \in Low[k] /\ \E p \in earlier : p \in Low[k]
      /\ advice = "exclude" <=> c \in Risky
  <2>1. advice = "exclude" <=> c \in Risky
    BY <1>1, <1>2, ExcludeMeans, Zenon
  <2>2. advice = "join" => c \in High[k] /\ \E p \in earlier : p \in High[k]
    BY <1>1, <1>2, AdviceMeans, Zenon
  <2>3. advice = "exit" => c \in Low[k] /\ \E p \in earlier : p \in Low[k]
    BY <1>1, <1>2, AdviceMeans, Zenon
  <2> QED
    BY <2>1, <2>2, <2>3, Zenon
<1>4. ASSUME NEW cases, c \in cases, \E p \in earlier : p \in cases
      PROVE  Twice(b, r, m, cases)
  <2>1. PICK p \in earlier : p \in cases
    BY <1>4, Zenon
  <2>2. PICK d \in 1 .. b - 1 : b - d <= Gap /\ batch[d].evidence[r][m] = p
    BY <1>2, <2>1, Zenon
  <2> QED
    BY <1>4, <2>1, <2>2, Zenon DEF Twice, c
<1> QED
  BY <1>3, <1>4, Zenon DEF c, advice

\* What the advice about a candidate of a usable batch rests on.
LEMMA CandidatesAreJudged ==
    ASSUME TablesTyped, BatchesFollow, NEW b \in Ticks, Scored(b), NEW r \in Candidates(b), NEW k \in Kinds
    PROVE  /\ AllJoin(AdviceFor(b, r, k)) => \A m \in Models : Twice(b, r, m, High[k])
           /\ "exit" \in AdviceFor(b, r, k) => \E m \in Models : Twice(b, r, m, Low[k])
           /\ Excludes(AdviceFor(b, r, k)) <=> \E m \in Models : batch[b].evidence[r][m] \in Risky
<1>1. r \in Relations
  BY DEF Candidates
<1>2. \A m \in Models : batch[b].evidence[r][m] # NoCase
  BY <1>1, Zenon DEF BatchesFollow, Scored
<1>3. AdviceFor(b, r, k) = {batch[b].advice[r][m][k] : m \in Models}
  BY <1>2 DEF AdviceFor
<1>4. \A m \in Models :
         /\ batch[b].advice[r][m][k] = "join" => Twice(b, r, m, High[k])
         /\ batch[b].advice[r][m][k] = "exit" => Twice(b, r, m, Low[k])
         /\ batch[b].advice[r][m][k] = "exclude" <=> batch[b].evidence[r][m] \in Risky
  BY <1>1, <1>2, SavedAdviceMeans, Zenon
<1>5. AllJoin(AdviceFor(b, r, k)) => \A m \in Models : batch[b].advice[r][m][k] = "join"
  BY <1>3 DEF AllJoin
<1>6. "exit" \in AdviceFor(b, r, k) <=> \E m \in Models : batch[b].advice[r][m][k] = "exit"
  BY <1>3
<1>7. Excludes(AdviceFor(b, r, k)) <=> \E m \in Models : batch[b].advice[r][m][k] = "exclude"
  BY <1>3 DEF Excludes
<1> QED
  BY <1>4, <1>5, <1>6, <1>7, Zenon

\* A step that is not the edit of an operator changes Autos and holds in Apply only.
LEMMA OnlyApplyDecides ==
    ASSUME AutomationInv, [Next]_vars, edits' = edits
    PROVE  UNCHANGED <<strategy, hold>> \/ \E p \in Callers : Apply(p)
<1>1. Operate => edits' = edits + 1
  BY DEF Operate, Edit
<1>2. edits + 1 # edits
  BY DEF AutomationInv, TablesTyped
<1>3. ASSUME NEW p \in Callers, BeginPass(p) \/ Load(p) \/ ProcessLatest(p) \/ Ends(p) \/ Die(p)
      PROVE  UNCHANGED <<strategy, hold>>
  BY <1>3, Zenon DEF BeginPass, Load, ProcessLatest, Ends, Die, configuration
<1>4. Tick \/ ScoreSite \/ Confirm \/ GiveUp \/ UNCHANGED vars => UNCHANGED <<strategy, hold>>
  BY Zenon DEF Tick, ScoreSite, Score, Confirm, GiveUp, vars, configuration
<1> QED
  BY <1>1, <1>2, <1>3, <1>4, StepKinds, Zenon DEF CallerSteps

\* A batch that is applied is taken, and was usable.
LEMMA ApplyTakes ==
    ASSUME AutomationInv, NEW p \in Callers, Apply(p)
    PROVE  /\ At(p, "loaded") /\ work[p] \in LoadedWork
           /\ work[p].batch \in Ticks /\ Scored(work[p].batch) /\ Taking(work[p].batch)
<1> DEFINE b == work[p].batch
<1>1. TablesTyped /\ WorkTyped /\ WorkFollows
  BY Zenon DEF AutomationInv
<1>2. work[p] \in LoadedWork /\ Scored(b) /\ b \in Ticks /\ At(p, "loaded")
  BY <1>1, ApplySaves, Zenon DEF Scored, Apply, Decides
<1>3. run[b] = "none" /\ \E status \in {"no_change", "pending_sync"} : run' = [run EXCEPT ![b] = status]
  BY Zenon DEF Apply, Untaken
<1>4. run \in [Ticks -> RunStatuses]
  BY <1>1, Zenon DEF TablesTyped
<1> HIDE DEF b
<1>5. run'[b] # "none"
  BY <1>2, <1>3, <1>4
<1> QED
  BY <1>2, <1>3, <1>5, Zenon DEF Taking, b

(***************************************************************************)
(* A relation joins an Auto by itself, or has its hold lifted, only on a   *)
(* batch in which every model is high for the second time (Recommend,      *)
(* Decide and applyAutomationStrategy).                                    *)
(***************************************************************************)
THEOREM JoinsRestOnEvidence == Spec => JoinsAreConfirmed
<1> DEFINE Joins == edits' = edits =>
              \A r \in Relations :
                  \/ /\ hold[r] # 0 => hold'[r] # 0
                     /\ \A k \in Kinds : r \in strategy'[k].members => r \in strategy[k].members
                  \/ \E b \in Ticks, k \in Kinds : Taking(b) /\ \A m \in Models : Twice(b, r, m, High[k])
<1>1. ASSUME AutomationInv, [Next]_vars
      PROVE  Joins
  <2> SUFFICES ASSUME edits' = edits, NEW r \in Relations
               PROVE  \/ /\ hold[r] # 0 => hold'[r] # 0
                         /\ \A k \in Kinds : r \in strategy'[k].members => r \in strategy[k].members
                      \/ \E b \in Ticks, k \in Kinds : Taking(b) /\ \A m \in Models : Twice(b, r, m, High[k])
    BY Zenon
  <2>1. CASE UNCHANGED <<strategy, hold>>
    BY <2>1, Zenon
  <2>2. ASSUME NEW p \in Callers, Apply(p)
        PROVE  \/ /\ hold[r] # 0 => hold'[r] # 0
                  /\ \A k \in Kinds : r \in strategy'[k].members => r \in strategy[k].members
               \/ \E b \in Ticks, k \in Kinds : Taking(b) /\ \A m \in Models : Twice(b, r, m, High[k])
    <3> DEFINE w == work[p]
    <3> DEFINE b == work[p].batch
    <3>1. TablesTyped /\ WorkTyped /\ WorkFollows /\ BatchesFollow
      BY <1>1, Zenon DEF AutomationInv
    <3>2. w \in LoadedWork /\ b \in Ticks /\ Scored(b) /\ Taking(b)
      BY <1>1, <2>2, ApplyTakes, Zenon
    <3>3. ASSUME NEW k \in Kinds, r \in Candidates(b), AllJoin(AdviceFor(b, r, k))
          PROVE  \E k_1 \in Kinds : Taking(b) /\ \A m \in Models : Twice(b, r, m, High[k_1])
      BY <3>1, <3>2, <3>3, CandidatesAreJudged, Zenon
    <3>4. ASSUME hold[r] # 0, hold'[r] = 0
          PROVE  \E k \in Kinds : r \in Candidates(b) /\ AllJoin(AdviceFor(b, r, k))
      <4>1. hold'[r] = IF r \in Applies(w) THEN b ELSE IF r \in Clears(w) THEN 0 ELSE hold[r]
        BY <2>2 DEF Apply, HoldsAfter
      <4>2. b # 0
        BY <3>2, AutomationAssumption DEF Ticks
      <4>3. r \in Clears(w)
        BY <3>4, <4>1, <4>2, Zenon
      <4> QED
        BY <4>3 DEF Clears, Considered
    <3>5. ASSUME NEW k \in Kinds, r \in strategy'[k].members, r \notin strategy[k].members
          PROVE  r \in Candidates(b) /\ AllJoin(AdviceFor(b, r, k))
      <4>1. r \notin w.strategy[k].members /\ r \in MembersAfter(w, k)
        BY <2>2, <3>1, <3>5, ApplySaves, Zenon
      <4>2. r \in Candidates(b) /\ TargetMember(r \in w.strategy[k].members, r \in w.held, AdviceFor(b, r, k))
        BY <4>1 DEF MembersAfter
      <4> QED
        BY <4>1, <4>2, Zenon DEF TargetMember
    <3> QED
      BY <3>2, <3>3, <3>4, <3>5, Zenon
  <2> QED
    BY <1>1, <2>1, <2>2, OnlyApplyDecides, Zenon
<1>2. [][Joins]_vars => JoinsAreConfirmed
  BY PTL DEF JoinsAreConfirmed
<1> HIDE DEF Joins
<1>3. AutomationInv /\ [Next]_vars => [Joins]_vars
  BY <1>1, Zenon
<1> QED
  BY <1>2, <1>3, AutomationInvariant, PTL DEF Spec

(***************************************************************************)
(* A relation leaves an Auto by itself only on a batch with a risk of the  *)
(* supplier, with a model that is low for the second time, or because it   *)
(* was held when the batch was read (Recommend and Decide).                *)
(***************************************************************************)
THEOREM LeavesRestOnEvidence == Spec => LeavesAreConfirmed
<1> DEFINE Reason(r, k) ==
              \E b \in Ticks : Taking(b) /\
                  \/ \E m \in Models : batch[b].evidence[r][m] \in Risky
                  \/ \E m \in Models : Twice(b, r, m, Low[k])
                  \/ \E p \in Callers : At(p, "loaded") /\ work[p].batch = b /\ r \in work[p].held
<1> DEFINE Leaves ==
              edits' = edits =>
                  \A r \in Relations, k \in Kinds : r \in strategy[k].members \ strategy'[k].members => Reason(r, k)
<1>1. ASSUME AutomationInv, [Next]_vars
      PROVE  Leaves
  <2> SUFFICES ASSUME edits' = edits, NEW r \in Relations, NEW k \in Kinds,
                      r \in strategy[k].members \ strategy'[k].members
               PROVE  Reason(r, k)
    BY Zenon
  <2>1. CASE UNCHANGED <<strategy, hold>>
    <3>1. r \in strategy[k].members /\ r \notin strategy'[k].members
      OBVIOUS
    <3> QED
      BY <2>1, <3>1, Zenon
  <2>2. ASSUME NEW p \in Callers, Apply(p)
        PROVE  Reason(r, k)
    <3> DEFINE w == work[p]
    <3> DEFINE b == work[p].batch
    <3>1. TablesTyped /\ WorkTyped /\ WorkFollows /\ BatchesFollow
      BY <1>1, Zenon DEF AutomationInv
    <3>2. At(p, "loaded") /\ b \in Ticks /\ Scored(b) /\ Taking(b)
      BY <1>1, <2>2, ApplyTakes, Zenon
    <3>3. r \in strategy[k].members /\ r \notin strategy'[k].members
      OBVIOUS
    <3>4. r \in w.strategy[k].members /\ r \notin MembersAfter(w, k)
      BY <2>2, <3>1, <3>3, ApplySaves, Zenon
    <3>5. r \in Candidates(b) /\ ~TargetMember(TRUE, r \in w.held, AdviceFor(b, r, k))
      <4>1. r \in Candidates(b) /\ ~TargetMember(r \in w.strategy[k].members, r \in w.held, AdviceFor(b, r, k))
        BY <3>4 DEF MembersAfter
      <4>2. (r \in w.strategy[k].members) = TRUE
        BY <3>4
      <4> QED
        BY <4>1, <4>2, Zenon
    <3>6. \/ Excludes(AdviceFor(b, r, k))
          \/ r \in w.held
          \/ "exit" \in AdviceFor(b, r, k)
      BY <3>5, Zenon DEF TargetMember
    <3> QED
      BY <3>1, <3>2, <3>5, <3>6, CandidatesAreJudged, Zenon
  <2> QED
    BY <1>1, <2>1, <2>2, OnlyApplyDecides, Zenon
<1>2. [][Leaves]_vars => LeavesAreConfirmed
  BY PTL DEF LeavesAreConfirmed
<1> HIDE DEF Leaves
<1>3. AutomationInv /\ [Next]_vars => [Leaves]_vars
  BY <1>1, Zenon
<1> QED
  BY <1>2, <1>3, AutomationInvariant, PTL DEF Spec

(***************************************************************************)
(* A batch that shows a risk of a supplier is not done with before the     *)
(* supplier is held and out of the newest plan, unless it is frozen or the *)
(* supplier was held when it was read (Decide, applyAutomationHolds).      *)
(***************************************************************************)
THEOREM RiskIsActedOn == Spec => RiskIsNotDropped
<1> DEFINE Finishes(p) ==
              /\ At(p, "loaded") /\ work'[p] # work[p] /\ Considered(work[p]) # {}
              /\ Taking(work[p].batch) /\ run'[work[p].batch] # "frozen"
<1> DEFINE Drops ==
              \A p \in Callers : Finishes(p) =>
                  \A r \in Relations \ work[p].held :
                      (\E m \in Models : batch[work[p].batch].evidence[r][m] \in Risky) =>
                          hold'[r] # 0 /\ r \notin plan'.content.served
<1>1. ASSUME AutomationInv, [Next]_vars
      PROVE  Drops
  <2> SUFFICES ASSUME NEW p \in Callers, Finishes(p), NEW r \in Relations \ work[p].held,
                      \E m \in Models : batch[work[p].batch].evidence[r][m] \in Risky
               PROVE  hold'[r] # 0 /\ r \notin plan'.content.served
    BY Zenon
  <2> DEFINE w == work[p]
  <2> DEFINE b == work[p].batch
  <2>1. TablesTyped /\ WorkTyped /\ WorkFollows /\ BatchesFollow
    BY <1>1, Zenon DEF AutomationInv
  <2>2. w \in LoadedWork /\ b \in Ticks /\ Scored(b) /\ At(p, "loaded")
    BY <2>1, LoadedCaller, Zenon DEF WorkFollows, Scored
  <2>3. r \in Relations /\ r \notin w.held
    OBVIOUS
  <2>4. PICK m \in Models : batch[b].evidence[r][m] \in Risky
    BY Zenon
  <2>5. r \in Candidates(b)
    <3>1. batch[b].evidence[r][m] # NoCase
      BY <2>4, AutomationAssumption DEF Risky
    <3> QED
      BY <2>3, <3>1 DEF Candidates
  <2>6. \A k \in Kinds : Excludes(AdviceFor(b, r, k))
    BY <2>1, <2>2, <2>4, <2>5, CandidatesAreJudged, Zenon
  <2>7. Considered(w) \subseteq Kinds /\ Considered(w) # {}
    BY DEF Considered
  \* The step is one of this caller.
  <2>8. ASSUME NEW q \in Callers, CallerSteps(q)
        PROVE  q = p
    <3>1. PICK v : work' = [work EXCEPT ![q] = v]
      BY <2>8, Zenon DEF CallerSteps, BeginPass, Load, ProcessLatest, Ends, Apply, Done, Die
    <3>2. work \in [Callers -> {Idle} \cup Passing \cup LoadedWork]
      BY <2>1, Zenon DEF WorkTyped
    <3>3. q # p => work'[p] = work[p]
      BY <3>1, <3>2
    <3> QED
      BY <3>3, Zenon
  <2>9. Tick \/ ScoreSite \/ Operate \/ Confirm \/ GiveUp \/ UNCHANGED vars => work' = work
    BY Zenon DEF Tick, ScoreSite, Score, Operate, Confirm, GiveUp, vars
  <2>10. CallerSteps(p)
    BY <1>1, <2>8, <2>9, StepKinds, Zenon
  <2>11. ~(BeginPass(p) \/ Load(p) \/ ProcessLatest(p) \/ Die(p))
    BY Zenon DEF BeginPass, Load, ProcessLatest, Die, Taking
  <2>12. ~Ends(p)
    <3> SUFFICES ASSUME Ends(p) PROVE FALSE
      OBVIOUS
    <3>1. PICK status \in {"frozen", "no_change"} :
             /\ run' = [run EXCEPT ![b] = IF Untaken(b) THEN status ELSE @]
             /\ status = "no_change" => ~Changed(w) /\ Considered(w) = Automatic(w)
      BY Zenon DEF Ends, Taking
    <3>2. run'[b] = status
      <4>1. run \in [Ticks -> RunStatuses] /\ run[b] = "none"
        BY <2>1, Zenon DEF TablesTyped, Taking
      <4> QED
        BY <2>2, <3>1, <4>1 DEF Untaken
    <3>3. ~Changed(w) /\ Considered(w) = Automatic(w)
      BY <3>1, <3>2
    <3>4. PICK k \in Automatic(w) : k \in Kinds
      BY <2>7, <3>3
    <3>5. r \in Candidates(w.batch) /\ r \notin w.held /\ Excludes(AdviceFor(w.batch, r, k))
      BY <2>3, <2>5, <2>6, <3>4, Zenon
    <3> QED
      BY <3>3, <3>4, <3>5, Zenon DEF Changed
  <2>13. Apply(p)
    BY <2>10, <2>11, <2>12, Zenon DEF CallerSteps
  <2>14. r \in Applies(w)
    BY <2>3, <2>5, <2>6, <2>7 DEF Applies
  <2>15. hold'[r] = b
    BY <2>3, <2>13, <2>14 DEF Apply, HoldsAfter
  <2>16. b # 0
    BY <2>2, AutomationAssumption DEF Ticks
  <2>17. r \notin plan'.content.served
    <3> DEFINE changed == [k \in Kinds |-> IF k \in Updates(w) THEN [After(w, k) EXCEPT !.version = @ + 1]
                                           ELSE strategy[k]]
    <3>1. strategy' = changed /\ desired' = desired /\ plan' = PlanFor(changed, hold', desired)
      BY <2>13, Zenon DEF Apply
    <3>2. Configured
      BY <2>1, <2>13, ApplyConfigured, Zenon
    <3>3. plan' = PlanFor(strategy', hold', desired')
      BY <3>1, Zenon
    <3>4. plan'.content = Content(strategy', hold', desired')
      BY <2>1, <3>2, <3>3, PlannedStep, Zenon DEF Configured, TablesTyped
    <3>5. plan'.content.served = Served(hold', desired')
      BY <3>4 DEF Content
    <3> QED
      BY <2>15, <2>16, <3>5 DEF Served
  <2> QED
    BY <2>15, <2>16, <2>17, Zenon
<1>2. [][Drops]_vars => RiskIsNotDropped
  BY PTL DEF RiskIsNotDropped
<1> HIDE DEF Drops
<1>3. AutomationInv /\ [Next]_vars => [Drops]_vars
  BY <1>1, Zenon
<1> QED
  BY <1>2, <1>3, AutomationInvariant, PTL DEF Spec

-----------------------------------------------------------------------------
(* The percentiles of the scores                                             *)

LEMMA CasesAreRanked == RankedCases = Cases
<1> SUFFICES ASSUME NEW c \in Cases, NEW w \in Windows, NEW percentile \in {50, 95}
             PROVE  /\ NearestRank(In(Evidence[c], w), "ttft", percentile)
                    /\ NearestRank(Succeeded(In(Evidence[c], w)), "duration", percentile)
  BY DEF RankedCases
<1> DEFINE facts == In(Evidence[c], w)
<1>1. Evidence[c].facts \in SUBSET Fact /\ IsFiniteSet(Evidence[c].facts)
  BY AutomationAssumption DEF EvidenceRecord
<1>2. facts \subseteq Evidence[c].facts /\ Succeeded(facts) \subseteq Evidence[c].facts
  BY DEF In, Succeeded
<1>3. /\ facts \in SUBSET Fact /\ IsFiniteSet(facts)
      /\ Succeeded(facts) \in SUBSET Fact /\ IsFiniteSet(Succeeded(facts))
  BY <1>1, <1>2, FS_Subset
<1>4. percentile \in 1 .. 100 /\ "ttft" \in Fields /\ "duration" \in Fields
  BY DEF Fields
<1> HIDE DEF facts
<1>5. NearestRank(facts, "ttft", percentile) /\ NearestRank(Succeeded(facts), "duration", percentile)
  BY <1>3, <1>4, LatencyIsNearestRank
<1> QED
  BY <1>5 DEF facts

\* For every evidence, the latencies that targets are scored with are the least
\* bounds that half, or nineteen of twenty, of the requests themselves kept to
\* (the histograms of score_histograms and ReadPercentile's ranks).
THEOREM PercentilesAreRanks == Spec => []PercentilesAreNearestRanks
<1>1. AutomationInv => PercentilesAreNearestRanks
  BY CasesAreRanked DEF AutomationInv, TablesTyped, BatchRow, PercentilesAreNearestRanks
<1> QED
  BY <1>1, AutomationInvariant, PTL

-----------------------------------------------------------------------------
(* Joining and leaving                                                       *)

LEMMA CompositeIsNatural ==
    ASSUME NEW e, KnownEvidence(e), NEW w \in Windows, Complete(e, w), NEW kind \in AutoKinds
    PROVE  CompositeScore(e, w, kind) \in Nat
<1> DEFINE value == [x \in Dimensions |-> FixedAutoWeights(kind)[x] * Scores(e, w)[x]]
           IsTotal(g) == g = [s \in SUBSET Dimensions |-> IF s = {} THEN 0 ELSE LET x == CHOOSE x \in s : TRUE IN FixedAutoWeights(kind)[x] * Scores(e, w)[x] + g[s \ {x}]]
           chosen == CHOOSE g : IsTotal(g)
<1>1. CompositeScore(e, w, kind) = chosen[Dimensions]
  BY SMT DEF CompositeScore, MapThenSumSet, MapThenFoldSet
<1>2. \A s \in SUBSET Dimensions : s # {} => value[Some(s)] = LET x == CHOOSE x \in s : TRUE IN FixedAutoWeights(kind)[x] * Scores(e, w)[x]
  BY SMT, SomeIsIn DEF Some
<1>3. \A x \in Dimensions : value[x] \in Nat
  <2>1. \A x \in Dimensions : Scores(e, w)[x] \in Nat
    BY ScoresAreInRange
  <2>2. \A x \in Dimensions : FixedAutoWeights(kind)[x] \in Nat
    BY DEF FixedAutoWeights, AutoKinds, Dimensions
  <2> QED
    BY SMT, <2>1, <2>2
<1> HIDE DEF value
<1>4. \A g : IsTotal(g) <=> IsSum(g, value, Dimensions)
  BY SMT, <1>2 DEF IsSum, SumStep, Some
<1> HIDE DEF IsTotal
<1>5. IsFiniteSet(Dimensions)
  <2>1. IsFiniteSet({} \cup {"price"})
    BY FS_EmptySet, FS_AddElement
  <2>2. IsFiniteSet({} \cup {"price"} \cup {"latency"})
    BY <2>1, FS_AddElement
  <2>3. IsFiniteSet({} \cup {"price"} \cup {"latency"} \cup {"sla"})
    BY <2>2, FS_AddElement
  <2>4. IsFiniteSet({} \cup {"price"} \cup {"latency"} \cup {"sla"} \cup {"quality"})
    BY <2>3, FS_AddElement
  <2>5. {} \cup {"price"} \cup {"latency"} \cup {"sla"} \cup {"quality"} = Dimensions
    BY DEF Dimensions
  <2> QED
    BY <2>4, <2>5
<1>6. IsTotal(chosen)
  <2>1. \E g : IsTotal(g)
    BY <1>4, <1>5, SumsExist
  <2> QED
    BY <2>1, Zenon
<1> HIDE DEF chosen
<1>7. SumOver(value, Dimensions) = chosen[Dimensions]
  BY SMT, <1>4, <1>5, <1>6, SumIs
<1> QED
  BY SMT, <1>1, <1>3, <1>5, <1>7, SumIsNatural

LEMMA WindowsAreFinite == IsFiniteSet(Windows) /\ \A w \in Windows : DefaultWindowWeights[w] \in Nat
<1>1. IsFiniteSet(Windows)
  <2>1. IsFiniteSet({} \cup {"15m"})
    BY FS_EmptySet, FS_AddElement
  <2>2. IsFiniteSet({} \cup {"15m"} \cup {"1h"})
    BY <2>1, FS_AddElement
  <2>3. IsFiniteSet({} \cup {"15m"} \cup {"1h"} \cup {"24h"})
    BY <2>2, FS_AddElement
  <2>4. {} \cup {"15m"} \cup {"1h"} \cup {"24h"} = Windows
    BY DEF Windows
  <2> QED
    BY <2>3, <2>4
<1> QED
  BY <1>1 DEF Windows, DefaultWindowWeights

\* The two sums that are compared with a threshold.
Total(e, kind, usable) == MapThenSumSet(LAMBDA w : DefaultWindowWeights[w] * CompositeScore(e, w, kind), usable)
WeightIn(usable) == MapThenSumSet(LAMBDA w : DefaultWindowWeights[w], usable)

LEMMA TotalIsNatural ==
    ASSUME NEW e, KnownEvidence(e), NEW kind \in AutoKinds, NEW usable, usable = Usable(e)
    PROVE  Total(e, kind, usable) \in Nat
<1> DEFINE value == [x \in usable |-> DefaultWindowWeights[x] * CompositeScore(e, x, kind)]
           IsTotal(g) == g = [s \in SUBSET usable |-> IF s = {} THEN 0 ELSE LET x == CHOOSE x \in s : TRUE IN DefaultWindowWeights[x] * CompositeScore(e, x, kind) + g[s \ {x}]]
           chosen == CHOOSE g : IsTotal(g)
<1>1. Total(e, kind, usable) = chosen[usable]
  BY SMT DEF Total, MapThenSumSet, MapThenFoldSet
<1>2. \A s \in SUBSET usable : s # {} => value[Some(s)] = LET x == CHOOSE x \in s : TRUE IN DefaultWindowWeights[x] * CompositeScore(e, x, kind)
  BY SMT, SomeIsIn DEF Some
<1>3. \A x \in usable : value[x] \in Nat
  <2>1. \A x \in usable : x \in Windows /\ CompositeScore(e, x, kind) \in Nat
    BY CompositeIsNatural DEF Usable
  <2> QED
    BY SMT, <2>1, WindowsAreFinite
<1> HIDE DEF value
<1>4. \A g : IsTotal(g) <=> IsSum(g, value, usable)
  BY SMT, <1>2 DEF IsSum, SumStep, Some
<1> HIDE DEF IsTotal
<1>5. IsFiniteSet(usable)
  BY WindowsAreFinite, FS_Subset DEF Usable
<1>6. IsTotal(chosen)
  <2>1. \E g : IsTotal(g)
    BY <1>4, <1>5, SumsExist
  <2> QED
    BY <2>1, Zenon
<1> HIDE DEF chosen
<1>7. SumOver(value, usable) = chosen[usable]
  BY SMT, <1>4, <1>5, <1>6, SumIs
<1> QED
  BY SMT, <1>1, <1>3, <1>5, <1>7, SumIsNatural

LEMMA WeightsAreNatural ==
    ASSUME NEW usable \in SUBSET Windows
    PROVE  WeightIn(usable) \in Nat
<1> DEFINE value == [x \in usable |-> DefaultWindowWeights[x]]
           IsTotal(g) == g = [s \in SUBSET usable |-> IF s = {} THEN 0 ELSE LET x == CHOOSE x \in s : TRUE IN DefaultWindowWeights[x] + g[s \ {x}]]
           chosen == CHOOSE g : IsTotal(g)
<1>1. WeightIn(usable) = chosen[usable]
  BY SMT DEF WeightIn, MapThenSumSet, MapThenFoldSet
<1>2. \A s \in SUBSET usable : s # {} => value[Some(s)] = LET x == CHOOSE x \in s : TRUE IN DefaultWindowWeights[x]
  BY SMT, SomeIsIn DEF Some
<1>3. \A x \in usable : value[x] \in Nat
  BY WindowsAreFinite
<1> HIDE DEF value
<1>4. \A g : IsTotal(g) <=> IsSum(g, value, usable)
  BY SMT, <1>2 DEF IsSum, SumStep, Some
<1> HIDE DEF IsTotal
<1>5. IsFiniteSet(usable)
  BY WindowsAreFinite, FS_Subset
<1>6. IsTotal(chosen)
  <2>1. \E g : IsTotal(g)
    BY <1>4, <1>5, SumsExist
  <2> QED
    BY <2>1, Zenon
<1> HIDE DEF chosen
<1>7. SumOver(value, usable) = chosen[usable]
  BY SMT, <1>4, <1>5, <1>6, SumIs
<1> QED
  BY SMT, <1>1, <1>3, <1>5, <1>7, SumIsNatural

\* Evidence that is good enough to join is good enough to stay.
LEMMA JoinLineIsAboveExitLine ==
    ASSUME NEW e, KnownEvidence(e), NEW kind \in AutoKinds, AtLeast(e, kind, JoinThreshold)
    PROVE  AtLeast(e, kind, ExitThreshold)
<1> DEFINE total == Total(e, kind, Usable(e))
           weights == WeightIn(Usable(e))
<1>1. total \in Nat
  BY TotalIsNatural
<1>2. weights \in Nat
  BY WeightsAreNatural DEF Usable
<1>3. \A threshold : AtLeast(e, kind, threshold) <=> total >= threshold * 10000 * weights
  BY SMT DEF AtLeast, Total, WeightIn, MapThenSumSet, MapThenFoldSet
<1> HIDE DEF total, weights
<1>4. total >= 75 * 10000 * weights
  BY SMT, <1>3 DEF JoinThreshold
<1>5. total >= 50 * 10000 * weights
  BY SMT, <1>1, <1>2, <1>4
<1> QED
  BY SMT, <1>3, <1>5 DEF ExitThreshold

\* What is advised to join is, on the same evidence, not advised to leave once it
\* is a member, whatever was recommended in between: an Auto does not join and
\* drop a relation in turns (adviseCandidate and adviseCurrentMember, for the
\* policy that validateRecommendationPolicy accepts).
THEOREM JoinedIsKept ==
    ASSUME NEW e, KnownEvidence(e), NEW kind \in AutoKinds, NEW previous, NEW later,
           Recommend(e, previous, kind, FALSE) = "join"
    PROVE  Recommend(e, later, kind, TRUE) = "keep"
<1>1. /\ ~Excluded(e) /\ ~Pending(e) /\ DecisionReady(e)
      /\ AtLeast(e, kind, JoinThreshold)
  BY DEF Recommend, CandidateAdvice
<1>2. AtLeast(e, kind, ExitThreshold)
  BY <1>1, JoinLineIsAboveExitLine
<1> QED
  BY <1>1, <1>2 DEF Recommend, MemberAdvice
=============================================================================
