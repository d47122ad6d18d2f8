------------------------------ MODULE Automation ------------------------------
(***************************************************************************)
(* From scores to routes on one site: every window the scoring job judges  *)
(* the models of the site's suppliers (a batch, score_runs), and the       *)
(* automation turns a complete batch into members of the Autos, holds and  *)
(* a new route plan, while operators edit strategies, stop relations and   *)
(* start the automation by hand.                                           *)
(*                                                                         *)
(* Covered: application/scoring Refresh and its snapshots, domain/scoring  *)
(* (in Scoring), domain and application/automation, the transactions of    *)
(* automation_write.go with the parts of operations_plan.go they use, and  *)
(* jobs/automation.go.  The publication of a plan is reduced to its        *)
(* outcome (SyncQueue and SiteReconcile model it).  A tick is the five     *)
(* minutes between two runs of the scoring job.  Suppliers are enabled,    *)
(* Autos have a price, and the transactions are atomic: a lock that cannot *)
(* be taken is a caller that gives up (Fail).                              *)
(***************************************************************************)
EXTENDS Scoring

CONSTANTS
    Relations,    \* site_suppliers of the site
    Models,       \* models of each supplier
    Kinds,        \* kinds of Auto configured on the site
    Cases,        \* names of the evidence a target may show
    Evidence,     \* what they stand for
    NoCase,       \* a target that is not in a batch or could not be scored
    Jobs,         \* goroutines of the automation queue
    Operators,    \* callers of ProcessLatest
    MaxAge,       \* maximumScoreAge in ticks
    Gap,          \* maximumRecommendationGap in ticks
    MaxTime,
    MaxEdits,     \* bound on the operators' edits
    MaxFaults     \* bound on failures and deaths

ASSUME AutomationAssumption ==
    /\ Kinds \subseteq AutoKinds
    /\ Evidence \in [Cases -> EvidenceRecord]
    /\ \A c \in Cases : IsFiniteSet(Evidence[c].facts)
    /\ \A c \in Cases : Evidence[c].cost > 0 => Evidence[c].lowest \in 0 .. Evidence[c].cost
    /\ NoCase \notin Cases
    /\ MaxAge \in Nat /\ Gap \in Nat /\ MaxTime \in Nat \ {0} /\ MaxEdits \in Nat /\ MaxFaults \in Nat
    /\ Jobs \cap Operators = {}

VARIABLES
    now,      \* the clock
    batch,    \* score_runs, score_snapshots and their shadow_recommendations, by window end
    run,      \* automation_runs other than previews, by batch
    strategy, \* site_strategies, strategy_members and strategy_automation_settings
    hold,     \* site_supplier_automation_holds: the batch that applied it, 0 for none
    desired,  \* site_suppliers.desired_status = 'enabled'
    plan,     \* the newest route plan of the site
    work,     \* the locals of ProcessReady and Process in each caller
    changes,  \* history: how often a batch changed the configuration
    edits, faults

vars == <<now, batch, run, strategy, hold, desired, plan, work, changes, edits, faults>>
configuration == <<strategy, hold, desired, plan>>

Callers == Jobs \cup Operators
Ticks == 1 .. MaxTime
Fault == faults < MaxFaults /\ faults' = faults + 1
Edit == edits < MaxEdits /\ edits' = edits + 1
NoFault == faults' = faults

Idle == [pc |-> "idle"]
NoBatch == [status |-> "none",
            evidence |-> [r \in Relations |-> [m \in Models |-> NoCase]],
            advice |-> [r \in Relations |-> [m \in Models |-> [k \in Kinds |-> "none"]]]]

-----------------------------------------------------------------------------
(* Route plans                                                             *)

\* Mutant: buildResource does not look at the holds.
ServedDespiteHold(h, d) == {r \in Relations : d[r]}

(* buildResource: the relations whose channels are to be enabled.          *)
Served(h, d) == {r \in Relations : d[r] /\ h[r] = 0}

(* attachPricesAndStrategies                                               *)
AutoGroup(s, served) == IF s.enabled THEN s.members \cap served ELSE {}
Content(s, h, d) ==
    [served   |-> Served(h, d),
     groups   |-> [k \in Kinds |-> AutoGroup(s[k], Served(h, d))],
     visible  |-> [k \in Kinds |-> s[k].visible /\ AutoGroup(s[k], Served(h, d)) # {}],
     versions |-> [k \in Kinds |-> s[k].version]]

\* Mutant: only the versions of the Autos tell a plan from the one before.
PlanForVersions(s, h, d) ==
    IF Content(s, h, d).versions = plan.content.versions THEN plan
    ELSE [status |-> "pending", content |-> Content(s, h, d)]

(* buildSitePlan: the same content needs no new plan.                      *)
PlanFor(s, h, d) ==
    IF Content(s, h, d) = plan.content THEN plan
    ELSE [status |-> "pending", content |-> Content(s, h, d)]

(* sync_status: a new plan makes every relation of the site pending, and   *)
(* only its success makes them active again.                               *)
Active(r) == plan.status = "applied"

-----------------------------------------------------------------------------
Init ==
    /\ now = 1
    /\ batch = [b \in Ticks |-> NoBatch]
    /\ run = [b \in Ticks |-> "none"]
    /\ \E members \in {{}, Relations} :
          strategy = [k \in Kinds |-> [enabled |-> TRUE, visible |-> TRUE, members |-> members, version |-> 1,
                                      mode |-> "automatic", setting |-> 1, closed |-> FALSE]]
    /\ hold = [r \in Relations |-> 0]
    /\ desired = [r \in Relations |-> TRUE]
    /\ plan = [status |-> "applied", content |-> Content(strategy, hold, desired)]
    /\ work = [p \in Callers |-> Idle]
    /\ changes = [b \in Ticks |-> 0]
    /\ edits = 0 /\ faults = 0

Tick == now < MaxTime /\ now' = now + 1 /\ UNCHANGED <<batch, run, configuration, work, changes, edits, faults>>

-----------------------------------------------------------------------------
(* Scoring                                                                 *)

Targets == {r \in Relations : desired[r] /\ Active(r)}

(* FindPreviousRecommendation and the gap of recommendationStreak.         *)
Previous(r, m) ==
    LET earlier == {c \in 1 .. now - 1 : batch[c].evidence[r][m] # NoCase}
    IN  {batch[c].evidence[r][m] : c \in {c \in earlier : now - c <= Gap /\ \A d \in earlier : d <= c}}

(* scoreTarget: a table of Recommend for the names of the evidence.        *)
Recommended ==
    [c \in Cases |-> [previous \in {{}} \cup {{p} : p \in Cases} |-> [k \in Kinds |-> [member \in BOOLEAN |->
        Recommend(Evidence[c], {Evidence[p] : p \in previous}, k, member)]]]]

CurrentMembers(k) == IF strategy[k].enabled THEN strategy[k].members ELSE {}

(* The recommendations saved with the snapshots of a batch.                *)
Advice(shown) ==
    [r \in Relations |-> [m \in Models |-> [k \in Kinds |->
        IF shown[r][m] = NoCase THEN "none"
        ELSE Recommended[shown[r][m]][Previous(r, m)][k][(r \in CurrentMembers(k))]]]]

FinalStatus(shown) ==
    IF \A r \in Targets, m \in Models : shown[r][m] # NoCase THEN "succeeded" ELSE "failed"

(* Refresh: one batch for a window end.  A target that fails, or a death   *)
(* in the middle, leaves a batch that never becomes usable, although the   *)
(* snapshots it has are kept and are the previous ones of the next batch.  *)
Score(shown) ==
    /\ batch[now].status = "none" /\ Targets # {}
    /\ \A r \in Relations, m \in Models : r \notin Targets => shown[r][m] = NoCase
    /\ batch' = [batch EXCEPT ![now] =
           [status |-> FinalStatus(shown), evidence |-> shown, advice |-> Advice(shown)]]
    /\ IF FinalStatus(shown) = "succeeded" THEN UNCHANGED faults ELSE Fault
    /\ UNCHANGED <<now, run, configuration, work, changes, edits>>

ScoreSite == \E shown \in [Relations -> [Models -> Cases \cup {NoCase}]] : Score(shown)

-----------------------------------------------------------------------------
(* Decisions (Decide), from the advice about all models of a relation      *)

Candidates(b) == {r \in Relations : \E m \in Models : batch[b].evidence[r][m] # NoCase}
AdviceFor(b, r, k) == {batch[b].advice[r][m][k] : m \in {m \in Models : batch[b].evidence[r][m] # NoCase}}

Excludes(advice) == "exclude" \in advice
AllJoin(advice) == advice = {"join"}

TargetMember(member, held, advice) ==
    /\ ~Excludes(advice)
    /\ IF held \/ ~member THEN AllJoin(advice) ELSE "exit" \notin advice

(* What LoadAutomationInput read: the work w of a caller.                  *)
Considered(w) == {k \in Kinds : w.strategy[k].enabled /\ (w.strategy[k].mode = "automatic" \/ w.operator)}
Automatic(w) == {k \in Considered(w) : w.strategy[k].mode = "automatic"}

(* decideStrategy                                                          *)
MembersAfter(w, k) ==
    LET before == w.strategy[k].members
    IN  (before \ Candidates(w.batch)) \cup
        {r \in Candidates(w.batch) : TargetMember(r \in before, r \in w.held, AdviceFor(w.batch, r, k))}
After(w, k) ==
    LET s == w.strategy[k]
        members == MembersAfter(w, k)
        closes == members = {} /\ s.visible
        opens == members # {} /\ s.closed
    IN  [s EXCEPT !.members = members,
                  !.visible = (s.visible /\ ~closes) \/ opens,
                  !.closed = (s.closed /\ ~opens) \/ closes]
Updates(w) == {k \in Automatic(w) : After(w, k) # w.strategy[k]}

(* applyAutomationHolds: the decisions of all Autos considered.            *)
Applies(w) ==
    {r \in Candidates(w.batch) \ w.held : \E k \in Considered(w) : Excludes(AdviceFor(w.batch, r, k))}
Clears(w) ==
    {r \in w.held \cap Candidates(w.batch) : \E k \in Considered(w) : AllJoin(AdviceFor(w.batch, r, k))}

HoldsAfter(w) ==
    [r \in Relations |-> IF r \in Applies(w) THEN w.batch ELSE IF r \in Clears(w) THEN 0 ELSE hold[r]]

(* The holds that make Process ask for a change: those of automatic Autos. *)
Changed(w) ==
    \/ Updates(w) # {}
    \/ \E r \in Candidates(w.batch), k \in Automatic(w) :
          \/ r \notin w.held /\ Excludes(AdviceFor(w.batch, r, k))
          \/ r \in w.held /\ AllJoin(AdviceFor(w.batch, r, k))

-----------------------------------------------------------------------------
(* Process, from a job that works through the ready batches or from an     *)
(* operator who asks for the latest one                                    *)

At(p, pc) == work[p].pc = pc

AutomaticNow == \E k \in Kinds : strategy[k].enabled /\ strategy[k].mode = "automatic"

(* ListReadyScoreRuns                                                      *)
Ready == {b \in Ticks : batch[b].status = "succeeded" /\ run[b] = "none" /\ AutomaticNow}

Loaded(b, todo, operator) ==
    [pc |-> "loaded", todo |-> todo, operator |-> operator, batch |-> b, strategy |-> strategy,
     held |-> {r \in Relations : hold[r] # 0}, stale |-> now - b > MaxAge]

BeginPass(p) ==
    /\ At(p, "idle") /\ Ready # {}
    /\ work' = [work EXCEPT ![p] = [pc |-> "pass", todo |-> Ready]]
    /\ UNCHANGED <<now, batch, run, configuration, changes, edits, faults>>

Load(p) ==
    /\ At(p, "pass")
    /\ LET b == Min(work[p].todo)
       IN  work' = [work EXCEPT ![p] = Loaded(b, work[p].todo \ {b}, FALSE)]
    /\ UNCHANGED <<now, batch, run, configuration, changes, edits, faults>>

ProcessLatest(p) ==
    LET scored == {b \in Ticks : batch[b].status = "succeeded"}
    IN  /\ At(p, "idle") /\ scored # {} /\ Edit
        /\ work' = [work EXCEPT ![p] = Loaded(Max(scored), {}, TRUE)]
        /\ UNCHANGED <<now, batch, run, configuration, changes, faults>>

(* ProcessReady goes on with the next batch, whatever became of this one.  *)
Rest(w) == IF w.todo = {} THEN Idle ELSE [pc |-> "pass", todo |-> w.todo]
Done(p) == work' = [work EXCEPT ![p] = Rest(work[p])] /\ UNCHANGED <<now, batch, edits>>

\* Mutant: a batch that was taken meanwhile is applied again.
AnyBatch(b) == TRUE

(* findAutomationRun                                                       *)
Untaken(b) == run[b] = "none"

(* RecordAutomationRun                                                     *)
Record(p, status) ==
    /\ run' = [run EXCEPT ![work[p].batch] = IF Untaken(work[p].batch) THEN status ELSE @]
    /\ UNCHANGED <<configuration, changes>>

Freeze(p) ==
    /\ At(p, "loaded") /\ work[p].stale
    /\ Record(p, "frozen") /\ Done(p) /\ NoFault

(* CheckAutomationCompatibility finds the site unfit.                      *)
FreezeIncompatible(p) ==
    /\ At(p, "loaded") /\ ~work[p].stale
    /\ \E k \in Kinds : work[p].strategy[k].enabled /\ work[p].strategy[k].mode = "automatic"
    /\ Record(p, "frozen") /\ Done(p) /\ Fault

Decides(p) == At(p, "loaded") /\ ~work[p].stale

(* A preview is kept apart from the runs.                                  *)
NoChange(p) ==
    /\ Decides(p) /\ ~Changed(work[p])
    /\ IF Considered(work[p]) # Automatic(work[p])
       THEN UNCHANGED <<run, configuration, changes>>
       ELSE Record(p, "no_change")
    /\ Done(p) /\ NoFault

(* ApplyAutomationRun                                                      *)
Urgent(w) == Applies(w) # {}
Busy(w) == ~Urgent(w) /\ plan.status = "pending"

\* Mutant: what was decided is applied to whatever the strategy has become.
StrategyEnabled(w, k) ==
    /\ strategy[k].enabled /\ strategy[k].mode = "automatic"
    /\ \A r \in MembersAfter(w, k) : desired[r] /\ Active(r)

(* applyAutomationStrategy, refusals                                       *)
StillValid(w, k) ==
    /\ strategy[k].enabled /\ strategy[k].mode = "automatic"
    /\ strategy[k].version = w.strategy[k].version /\ strategy[k].setting = w.strategy[k].setting
    /\ \A r \in MembersAfter(w, k) : desired[r] /\ Active(r)

Applicable(w) == ~Busy(w) /\ \A k \in Updates(w) : StillValid(w, k)

Apply(p) ==
    LET w == work[p]
        s == [k \in Kinds |-> IF k \in Updates(w) THEN [After(w, k) EXCEPT !.version = @ + 1] ELSE strategy[k]]
    IN  /\ Decides(p) /\ Changed(w) /\ Untaken(w.batch) /\ Applicable(w)
        /\ strategy' = s
        /\ hold' = HoldsAfter(w)
        /\ plan' = PlanFor(s, hold', desired)
        /\ run' = [run EXCEPT ![w.batch] = IF plan' = plan THEN "no_change" ELSE "pending_sync"]
        /\ changes' = [changes EXCEPT ![w.batch] = @ + 1]
        /\ UNCHANGED desired
        /\ Done(p) /\ NoFault

(* ErrBusy and ErrConflict leave the batch ready, and one that was taken   *)
(* is answered with the run there is.                                      *)
Refuse(p) ==
    /\ Decides(p) /\ Changed(work[p])
    /\ ~(Untaken(work[p].batch) /\ Applicable(work[p]))
    /\ UNCHANGED <<run, configuration, changes>>
    /\ Done(p) /\ NoFault

(* A failed read, a failed check of the gateway or a lock that is taken.   *)
Fail(p) ==
    /\ At(p, "loaded")
    /\ UNCHANGED <<run, configuration, changes>>
    /\ Done(p) /\ Fault

Die(p) ==
    /\ ~At(p, "idle")
    /\ work' = [work EXCEPT ![p] = Idle]
    /\ UNCHANGED <<now, batch, run, configuration, changes, edits>>
    /\ Fault

-----------------------------------------------------------------------------
(* Operators' edits, each with a new plan if it changes what is served     *)

(* An Auto is saved visible, with members that can serve if it is enabled. *)
SaveStrategy(k, enabled, members) ==
    /\ enabled => \A r \in members : desired[r] /\ Active(r)
    /\ strategy' = [strategy EXCEPT ![k] =
          [strategy[k] EXCEPT !.enabled = enabled, !.visible = TRUE, !.members = members, !.version = @ + 1]]
    /\ plan' = PlanFor(strategy', hold, desired)
    /\ UNCHANGED <<hold, desired>>

(* UpdateAutomationSetting                                                 *)
SetMode(k, mode) ==
    /\ strategy' = [strategy EXCEPT ![k] = [strategy[k] EXCEPT !.mode = mode, !.setting = @ + 1]]
    /\ UNCHANGED <<hold, desired, plan>>

SaveRelation(r) ==
    /\ desired' = [desired EXCEPT ![r] = ~@]
    /\ plan' = PlanFor(strategy, hold, desired')
    /\ UNCHANGED <<strategy, hold>>

(* A sync queues the plan again if it is still what the tables say; one    *)
(* that finds nothing to do is left out.                                   *)
Sync ==
    LET next == PlanFor(strategy, hold, desired)
    IN  /\ plan' = IF next = plan /\ plan.status = "failed" THEN [plan EXCEPT !.status = "queued"] ELSE next
        /\ plan' # plan
        /\ UNCHANGED <<strategy, hold, desired>>

Operate ==
    /\ \/ \E k \in Kinds, enabled \in BOOLEAN, members \in SUBSET Relations : SaveStrategy(k, enabled, members)
       \/ \E k \in Kinds, mode \in {"manual", "automatic"} : SetMode(k, mode)
       \/ \E r \in Relations : SaveRelation(r)
       \/ Sync
    /\ Edit
    /\ UNCHANGED <<now, batch, run, work, changes, faults>>

-----------------------------------------------------------------------------
(* The newest plan succeeds, with ConfirmSiteSupplier deciding every       *)
(* relation enabled, or is given up.                                       *)
Confirm ==
    /\ plan.status \in {"pending", "queued"}
    /\ plan' = [plan EXCEPT !.status = "applied"]
    /\ desired' = [r \in Relations |-> TRUE]
    /\ UNCHANGED <<now, batch, run, strategy, hold, work, changes, edits, faults>>

GiveUp ==
    /\ plan.status \in {"pending", "queued"} /\ Fault
    /\ plan' = [plan EXCEPT !.status = "failed"]
    /\ UNCHANGED <<now, batch, run, strategy, hold, desired, work, changes, edits>>

-----------------------------------------------------------------------------
JobStep(p) ==
    \/ BeginPass(p) \/ Load(p) \/ Freeze(p) \/ FreezeIncompatible(p)
    \/ NoChange(p) \/ Apply(p) \/ Refuse(p) \/ Fail(p) \/ Die(p)
OperatorStep(p) ==
    \/ ProcessLatest(p) \/ Freeze(p) \/ FreezeIncompatible(p)
    \/ NoChange(p) \/ Apply(p) \/ Refuse(p) \/ Fail(p) \/ Die(p)

Next ==
    \/ Tick \/ ScoreSite
    \/ \E p \in Jobs : JobStep(p)
    \/ \E p \in Operators : OperatorStep(p)
    \/ Operate \/ Confirm \/ GiveUp

Spec == Init /\ [][Next]_vars

-----------------------------------------------------------------------------
TypeOK ==
    /\ now \in Ticks
    /\ batch \in [Ticks -> [status : {"none", "succeeded", "failed"},
                            evidence : [Relations -> [Models -> Cases \cup {NoCase}]],
                            advice : [Relations -> [Models -> [Kinds ->
                                {"none", "exclude", "watch", "join", "keep", "exit"}]]]]]
    /\ run \in [Ticks -> {"none", "frozen", "no_change", "pending_sync"}]
    /\ strategy \in [Kinds -> [enabled : BOOLEAN, visible : BOOLEAN, members : SUBSET Relations, version : Nat,
                               mode : {"manual", "automatic"}, setting : Nat, closed : BOOLEAN]]
    /\ hold \in [Relations -> 0 .. MaxTime]
    /\ desired \in [Relations -> BOOLEAN]
    /\ plan.status \in {"pending", "queued", "applied", "failed"}
    /\ \A p \in Callers : work[p].pc \in {"idle", "pass", "loaded"}
    /\ \A p \in Callers : At(p, "loaded") => batch[work[p].batch].status = "succeeded"
    /\ edits \in 0 .. MaxEdits /\ faults \in 0 .. MaxFaults

(* However many jobs and operators take a batch, and whatever failed in    *)
(* between, it changes the configuration once at most (findAutomationRun   *)
(* in ApplyAutomationRun).                                                 *)
TakenOnce == \A b \in Ticks : changes[b] <= 1

(* No change of members, holds or decisions is left out of the newest      *)
(* plan: it is what the tables say, but for the relations that a           *)
(* confirmation decided enabled (buildSitePlan).                           *)
NewestPlanIsCurrent ==
    \E d \in [Relations -> BOOLEAN] :
        /\ \A r \in Relations : d[r] => desired[r]
        /\ plan.content = Content(strategy, hold, d)

(* The latencies that scores are computed with are nearest ranks of the    *)
(* requests themselves: nothing is lost in minutes and histograms but the  *)
(* precision of the bounds (ReadPercentile).                               *)
RankedCases ==
    {c \in Cases : \A w \in Windows, percentile \in {50, 95} :
        LET facts == In(Evidence[c], w)
        IN  LatencyAvailable(facts) => /\ NearestRank(facts, "ttft", percentile)
                                       /\ NearestRank(Succeeded(facts), "duration", percentile)}
PercentilesAreNearestRanks ==
    \A b \in Ticks, r \in Relations, m \in Models : batch[b].evidence[r][m] \in RankedCases \cup {NoCase}

(* A target past the thresholds, said of the evidence: three requests that *)
(* the supplier failed after it last answered one, three of them for its   *)
(* credential or its balance, or an impostor.                              *)
Answers(e) ==
    {f.age : f \in {f \in e.facts : f.mapped /\ f.succeeded}} \cup (IF e.probed = Unknown THEN {} ELSE {e.probed})
FailedSince(e, categories) ==
    Count({f \in e.facts : /\ f.mapped /\ ~f.succeeded /\ f.responsibility = "supplier"
                           /\ f.category \in categories
                           /\ \A age \in Answers(e) : f.age < age})
Risky ==
    {c \in Cases :
        \/ \E categories \in {Categories, {"authentication"}, {"balance_exhausted"}} :
              FailedSince(Evidence[c], categories) >= 3
        \/ Evidence[c].verdict = "inconsistent"}

(* Nothing is missing or too old that a decision rests on.                 *)
Measured ==
    {c \in Cases :
        LET e == Evidence[c]
        IN  /\ \A w \in Windows : ~(Samples(e, w) < 50) /\ Complete(e, w)
            /\ \A f \in e.facts : f.age <= Day => f.mapped /\ (f.succeeded \/ f.responsibility # "unknown")
            /\ ~e.gap /\ e.collected \in 0 .. Hour
            /\ e.verdict # "insufficient" /\ e.authenticity.age \in 0 .. 7 * Day
            /\ e.health.age \in 0 .. Day}
High == [k \in Kinds |-> {c \in Measured \ Risky : AtLeast(Evidence[c], k, 75)}]
Low == [k \in Kinds |-> {c \in Measured \ Risky : ~AtLeast(Evidence[c], k, 50)}]

Twice(b, r, m, cases) ==
    /\ batch[b].evidence[r][m] \in cases
    /\ \E c \in 1 .. b - 1 : b - c <= Gap /\ batch[c].evidence[r][m] \in cases

Taking(b) == run[b] = "none" /\ run'[b] # "none"

(* A relation joins an Auto by itself, or has its hold lifted, only on a   *)
(* batch in which every model is high for the second time, close to the    *)
(* first, with every window measured (Recommend and Decide).               *)
JoinsAreConfirmed ==
    [][edits' = edits =>
        \A r \in Relations :
            \/ /\ hold[r] # 0 => hold'[r] # 0
               /\ \A k \in Kinds : r \in strategy'[k].members => r \in strategy[k].members
            \/ \E b \in Ticks, k \in Kinds : Taking(b) /\ \A m \in Models : Twice(b, r, m, High[k])]_vars

(* A relation leaves an Auto by itself only on a batch with a risk of the  *)
(* supplier, with a model that is low for the second time, or because it   *)
(* was held when the batch was read.                                       *)
LeavesAreConfirmed ==
    [][edits' = edits =>
        \A r \in Relations, k \in Kinds :
            r \in strategy[k].members \ strategy'[k].members =>
                \E b \in Ticks : Taking(b) /\
                    \/ \E m \in Models : batch[b].evidence[r][m] \in Risky
                    \/ \E m \in Models : Twice(b, r, m, Low[k])
                    \/ \E p \in Callers : At(p, "loaded") /\ work[p].batch = b /\ r \in work[p].held]_vars

(* A batch that shows a risk of a supplier is not done with before the     *)
(* supplier is held, unless it is frozen, or was held when it was read.    *)
RiskIsNotDropped ==
    [][\A p \in Callers :
        (/\ At(p, "loaded") /\ work'[p] # work[p] /\ Considered(work[p]) # {}
         /\ Taking(work[p].batch) /\ run'[work[p].batch] # "frozen") =>
            \A r \in Relations \ work[p].held :
                (\E m \in Models : batch[work[p].batch].evidence[r][m] \in Risky) =>
                    hold'[r] # 0 /\ r \notin plan'.content.served]_vars

(* A hold is lifted by a batch newer than the one that applied it.  The    *)
(* code does not keep this: a batch that was refused stays ready, and is   *)
(* decided on after a newer one (ListReadyScoreRuns).                      *)
RecoveryNeedsNewerBatch ==
    [][\A r \in Relations : (hold[r] # 0 /\ hold'[r] = 0) =>
            \E b \in Ticks : Taking(b) /\ b > hold[r]]_vars
=============================================================================
