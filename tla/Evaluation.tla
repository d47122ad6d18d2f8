------------------------------ MODULE Evaluation ------------------------------
(***************************************************************************)
(* Active evaluation of suppliers: an operator or the sweep requests a run *)
(* for a supplier and a purpose, the run reserves its samples in a daily   *)
(* budget, a River job carries it out by paid probes of the supplier, and  *)
(* the samples become an assessment; a finished authenticity run can be    *)
(* promoted to the trusted reference that other suppliers are compared     *)
(* with.                                                                   *)
(*                                                                         *)
(* Covered: application/evaluation (service, execute), the statements of   *)
(* storage/postgres/evaluation.go, jobs/evaluation.go and the decisions of *)
(* domain/evaluation/assessment.go.  One model of every supplier is        *)
(* evaluated.  Answers are abstracted to whether the probe succeeded, and  *)
(* fingerprints to how they compare: the statistics are not modelled.      *)
(* Time passes in ticks, each longer than the minute of a retry;           *)
(* DayLength ticks are a day, and Delay is the wait for the confirmation   *)
(* of a mismatch.                                                          *)
(***************************************************************************)
EXTENDS Integers, FiniteSets

CONSTANTS
    Suppliers,   \* supplier and model: the targets of evaluation
    Purposes,    \* the purposes requested, of "health", "quality", "recovery", "authenticity"
    Planned,     \* samples of a run for each purpose
    Outcomes,    \* what becomes of a probe, of "succeeded", "failed"
    Enough,      \* valid samples without which fingerprints are not compared
    Keys, NoKey, \* request identities of operators; the sweep has none
    Runs,        \* numbers of the rows of evaluation_runs
    Refs, NoRef, \* rows of trusted_model_references
    Trusts,      \* levels of trust given, of "official", "operator_trusted", "community"
    Workers,     \* goroutines of the evaluation queue
    Clients,     \* callers of RequestRun
    DailyLimit,  \* dailySampleBudget
    DayLength, Delay, Validity, MaxTime,
    MaxAttempts, \* attempts of a River job
    MaxFaults,   \* bound on failures, deaths and early rescues
    Overlap,     \* a suspended process may go on after its job was rescued
    MaxRequests  \* bound on the calls of RequestRun

ASSUME EvaluationAssumption ==
    /\ Planned \in [Purposes -> Nat \ {0}]
    /\ Outcomes \subseteq {"succeeded", "failed"}
    /\ Trusts \subseteq {"official", "operator_trusted", "community"}
    /\ Enough \in Nat /\ DailyLimit \in Nat
    /\ Runs \subseteq Nat /\ IsFiniteSet(Runs)
    /\ DayLength \in Nat \ {0} /\ Delay \in Nat /\ Validity \in Nat \ {0}
    /\ MaxTime \in Nat /\ MaxAttempts \in Nat \ {0} /\ MaxFaults \in Nat /\ MaxRequests \in Nat
    /\ Overlap \in BOOLEAN
    /\ NoRef \notin Refs /\ NoKey \notin Keys

VARIABLES
    now,          \* the clock
    run,          \* evaluation_runs
    sample,       \* evaluation_samples, by run and position in the plan
    budget,       \* evaluation_daily_budgets
    fingerprint,  \* evaluation_fingerprints
    assessment,   \* authenticity_assessments and capability_assessments
    reference,    \* trusted_model_references
    job,          \* River's job of a run and its attempts
    ask,          \* the locals of RequestRun in each client
    work,         \* the locals of ExecuteRun in each worker
    paid,         \* history: how often a sample was sent to the supplier
    faults, asked \* bounds

rows == <<run, sample, budget, fingerprint, assessment, reference>>
vars == <<now, rows, job, ask, work, paid, faults, asked>>

-----------------------------------------------------------------------------
PlanOf(p) == 1 .. Planned[p]
Indexes == UNION {PlanOf(p) : p \in Purposes}

ActiveStatuses == {"pending", "running", "uncertain"}
TerminalStatuses == {"succeeded", "failed"}

NoRun == [status |-> "none"]
NoFingerprint == [kind |-> "none"]
NoAssessment == [verdict |-> "none"]
NoReference == [trust |-> "none"]
NoJob == [state |-> "none", attempts |-> 0]
IdleClient == [pc |-> "idle"]
IdleWorker == [pc |-> "idle", run |-> 0, todo |-> {}, at |-> 0]

Created == {r \in Runs : run[r].status # "none"}
Subject(r) == <<run[r].supplier, run[r].purpose>>

(* FindEvaluationRunByRequestKey *)
ByKey(k) == {r \in Created : k # NoKey /\ run[r].key = k}

(* evaluation_runs_active_target_idx *)
ActiveOn(s, p) == {r \in Created : Subject(r) = <<s, p>> /\ run[r].status \in ActiveStatuses}

(* FindRecentEvaluationRun: the newest by the time of its request.         *)
Recent(s, p) ==
    LET all == {r \in Created : Subject(r) = <<s, p>>}
    IN  {r \in all : \A other \in all : run[other].at <= run[r].at}

DayOf(t) == t \div DayLength

\* Mutant: a revoked reference is believed until it expires.
ExpiresUnlessRevoked(f) == reference[f].expires

(* A reference is believed until it expires or is revoked                  *)
(* (mapTrustedReference).                                                  *)
ExpiresAt(f) == IF reference[f].revoked < reference[f].expires
                THEN reference[f].revoked ELSE reference[f].expires

(* FindTrustedModelReference: official before operator's, then the newest. *)
Better(f, g) ==
    LET rank(x) == IF reference[x].trust = "official" THEN 0 ELSE 1
    IN  rank(f) < rank(g) \/ (rank(f) = rank(g) /\ reference[f].created >= reference[g].created)

Trusted ==
    LET valid == {f \in Refs : /\ reference[f].trust \in {"official", "operator_trusted"}
                               /\ reference[f].revoked > MaxTime
                               /\ reference[f].expires > now}
    IN  {f \in valid : \A g \in valid : Better(f, g)}

Fault == faults < MaxFaults /\ faults' = faults + 1

-----------------------------------------------------------------------------
Init ==
    /\ now = 0
    /\ run = [r \in Runs |-> NoRun]
    /\ sample = [r \in Runs |-> [i \in Indexes |-> "none"]]
    /\ budget = [s \in Suppliers |-> [d \in 0 .. DayOf(MaxTime) |-> 0]]
    /\ fingerprint = [r \in Runs |-> NoFingerprint]
    /\ assessment = [r \in Runs |-> NoAssessment]
    /\ reference = [f \in Refs |-> NoReference]
    /\ job = [r \in Runs |-> NoJob]
    /\ ask = [c \in Clients |-> IdleClient]
    /\ work = [w \in Workers |-> IdleWorker]
    /\ paid = [r \in Runs |-> [i \in Indexes |-> 0]]
    /\ faults = 0 /\ asked = 0

Tick == now < MaxTime /\ now' = now + 1 /\ UNCHANGED <<rows, job, ask, work, paid, faults, asked>>

-----------------------------------------------------------------------------
(* RequestRun, by an operator with a key or by the sweep without one.      *)

ToClient(c, locals) ==
    /\ ask' = [ask EXCEPT ![c] = locals]
    /\ UNCHANGED <<now, rows, work, paid>>

Dispatching(r) == [pc |-> "dispatch", run |-> r]

(* No worker is left of a run that started three hours and a quarter ago:  *)
(* a worker has three hours.  A suspended process may wake up later.       *)
Executing(r) == {w \in Workers : work[w].pc # "idle" /\ work[w].run = r}
Stale(r) == Overlap \/ Executing(r) = {}

\* Mutant: an uncertain run is not dispatched again.
RetryExistingPending(c, r) ==
    ToClient(c, IF run[r].status = "pending" THEN Dispatching(r) ELSE IdleClient)

(* retryExistingRunIfDue: a pending run is dispatched again, a running one *)
(* when it is stale, an uncertain one when its retry is due.               *)
RetryExisting(c, r) ==
    IF \/ run[r].status \in {"pending", "uncertain"}
       \/ run[r].status = "running" /\ Stale(r)
    THEN ToClient(c, Dispatching(r))
    ELSE ToClient(c, IdleClient)

(* The reference a new run is compared with is chosen when it is planned:  *)
(* the best one, unless that is the supplier's own.                        *)
ChosenReference(s) ==
    IF Trusted = {} THEN {NoRef}
    ELSE {IF reference[f].supplier = s THEN NoRef ELSE f : f \in Trusted}

(* A request identity stands for its run, unless it was used for something *)
(* else; then the newest run for the target and purpose is returned when   *)
(* it is not finished; otherwise a new one is planned.                     *)
Request(c, s, p, k) ==
    /\ ask[c].pc = "idle" /\ asked < MaxRequests /\ asked' = asked + 1
    /\ \/ \E r \in ByKey(k) : Subject(r) = <<s, p>> /\ RetryExisting(c, r)
       \/ /\ ByKey(k) = {}
          /\ \E r \in Recent(s, p) : run[r].status \in ActiveStatuses /\ RetryExisting(c, r)
       \/ /\ ByKey(k) = {}
          /\ \A r \in Recent(s, p) : run[r].status \notin ActiveStatuses
          /\ \E f \in ChosenReference(s) :
                ToClient(c, [pc |-> "create", supplier |-> s, purpose |-> p, key |-> k, at |-> now, ref |-> f])
    /\ UNCHANGED <<job, faults>>

(* ScheduleDue finds a run that is not finished.                           *)
Sweep(c, r) ==
    /\ ask[c].pc = "idle"
    /\ r \in Recent(run[r].supplier, run[r].purpose) /\ run[r].status \in ActiveStatuses
    /\ job[r].state \notin {"available", "running", "retryable"}
    /\ RetryExisting(c, r)
    /\ UNCHANGED <<job, faults, asked>>

\* Mutant: what the run itself plans is not counted.
BudgetNotEmpty(c) == budget[ask[c].supplier][DayOf(ask[c].at)] < DailyLimit

(* CreateEvaluationRun in one transaction: the key again, under its lock;  *)
(* the day's budget, under the row's lock; the run, which the unique index *)
(* refuses when another is active.                                         *)
BudgetLeft(c) ==
    budget[ask[c].supplier][DayOf(ask[c].at)] + Planned[ask[c].purpose] <= DailyLimit

Creatable(c) == BudgetLeft(c) /\ ActiveOn(ask[c].supplier, ask[c].purpose) = {}

ReserveBudget(c) ==
    budget' = [budget EXCEPT ![ask[c].supplier][DayOf(ask[c].at)] = @ + Planned[ask[c].purpose]]

Insert(c, r) ==
    /\ run' = [run EXCEPT ![r] = [status |-> "pending", supplier |-> ask[c].supplier,
                                  purpose |-> ask[c].purpose, key |-> ask[c].key,
                                  at |-> ask[c].at, ref |-> ask[c].ref]]
    /\ ReserveBudget(c)
    /\ ask' = [ask EXCEPT ![c] = Dispatching(r)]
    /\ UNCHANGED <<now, sample, fingerprint, assessment, reference, work, paid>>

\* Mutant: the key is not looked up again under its lock.
CreateUnchecked(c) ==
    /\ ask[c].pc = "create"
    /\ \/ ~Creatable(c) /\ ToClient(c, IdleClient)
       \/ /\ Creatable(c)
          /\ \E r \in Runs \ Created : /\ \A other \in Runs \ Created : r <= other
                                       /\ Insert(c, r)
    /\ UNCHANGED <<job, faults, asked>>

Create(c) ==
    /\ ask[c].pc = "create"
    /\ \/ \E r \in ByKey(ask[c].key) :
             IF Subject(r) = <<ask[c].supplier, ask[c].purpose>>
             THEN ToClient(c, Dispatching(r)) ELSE ToClient(c, IdleClient)
       \/ ByKey(ask[c].key) = {} /\ ~Creatable(c) /\ ToClient(c, IdleClient)
       \/ /\ ByKey(ask[c].key) = {} /\ Creatable(c)
          /\ \E r \in Runs \ Created : /\ \A other \in Runs \ Created : r <= other
                                       /\ Insert(c, r)
    /\ UNCHANGED <<job, faults, asked>>

(* DispatchEvaluation inserts a job unless one with the same arguments is  *)
(* kept that waits, runs or was completed.                                 *)
InsertJob(r) ==
    job' = IF job[r].state \in {"available", "running", "retryable", "completed"} THEN job
           ELSE [job EXCEPT ![r] = [state |-> "available", attempts |-> 0]]

(* A failed dispatch may have inserted the job.                            *)
Dispatch(c) ==
    /\ ask[c].pc = "dispatch"
    /\ \/ InsertJob(ask[c].run) /\ ToClient(c, IdleClient) /\ UNCHANGED faults
       \/ /\ Fault /\ (InsertJob(ask[c].run) \/ UNCHANGED job)
          /\ ToClient(c, [ask[c] EXCEPT !.pc = "mark"])
    /\ UNCHANGED asked

\* Mutant: a finished run is marked like any other.
FailAnyRun(r, status) ==
    /\ run' = [run EXCEPT ![r].status = status]
    /\ UNCHANGED <<sample, budget, fingerprint, assessment, reference>>

(* FailEvaluationRun leaves finished runs alone.                           *)
FailEvaluationRun(r, status) ==
    /\ run' = IF run[r].status \in ActiveStatuses THEN [run EXCEPT ![r].status = status] ELSE run
    /\ UNCHANGED <<sample, budget, fingerprint, assessment, reference>>

MarkUndispatched(c) ==
    /\ ask[c].pc = "mark"
    /\ FailEvaluationRun(ask[c].run, "uncertain")
    /\ ask' = [ask EXCEPT ![c] = IdleClient]
    /\ UNCHANGED <<now, job, work, paid, faults, asked>>

(* The process dies, its request is cancelled or a statement fails.        *)
Abandon(c) ==
    /\ ask[c].pc # "idle" /\ Fault /\ ToClient(c, IdleClient) /\ UNCHANGED <<job, asked>>

-----------------------------------------------------------------------------
(* ExecuteRun, one statement or request per step.                          *)

At(w, place) == work[w].pc = place
RunOf(w) == work[w].run
Goto(w, place) == work' = [work EXCEPT ![w].pc = place]
KeepAll == UNCHANGED <<now, rows, job, ask, paid, faults, asked>>

Claim(w, r) ==
    /\ At(w, "idle") /\ job[r].state \in {"available", "retryable"}
    /\ job' = [job EXCEPT ![r] = [state |-> "running", attempts |-> @.attempts + 1]]
    /\ work' = [work EXCEPT ![w] = [pc |-> "load", run |-> r, todo |-> {}, at |-> 0]]
    /\ UNCHANGED <<now, rows, ask, paid, faults, asked>>

(* The worker returns to River, whose row changes if it is still running.  *)
Attempted(r) == IF job[r].attempts < MaxAttempts THEN "retryable" ELSE "discarded"
Report(w, failed) ==
    /\ work' = [work EXCEPT ![w] = IdleWorker]
    /\ job' = IF job[RunOf(w)].state # "running" THEN job
              ELSE [job EXCEPT ![RunOf(w)].state =
                        IF failed THEN Attempted(RunOf(w)) ELSE "completed"]

Load(w) ==
    /\ At(w, "load")
    /\ \/ /\ run[RunOf(w)].status \in TerminalStatuses /\ Report(w, FALSE)
          /\ UNCHANGED <<now, rows, ask, paid, faults, asked>>
       \/ run[RunOf(w)].status = "running" /\ Goto(w, "list") /\ KeepAll
       \/ run[RunOf(w)].status \in {"pending", "uncertain"} /\ Goto(w, "start") /\ KeepAll

(* StartEvaluationRun; a run that somebody else started is left to them.   *)
Start(w) ==
    /\ At(w, "start")
    /\ IF run[RunOf(w)].status \in {"pending", "uncertain"}
       THEN /\ run' = [run EXCEPT ![RunOf(w)].status = "running"]
            /\ Goto(w, "list") /\ UNCHANGED job
       ELSE Report(w, FALSE) /\ UNCHANGED run
    /\ UNCHANGED <<now, sample, budget, fingerprint, assessment, reference, ask, paid, faults, asked>>

(* What to do is what no sample exists for.                                *)
ListSamples(w) ==
    /\ At(w, "list")
    /\ work' = [work EXCEPT ![w] = [@ EXCEPT !.pc = "reserve",
                     !.todo = {i \in PlanOf(run[RunOf(w)].purpose) : sample[RunOf(w)][i] = "none"}]]
    /\ KeepAll

First(w) == CHOOSE i \in work[w].todo : \A j \in work[w].todo : i <= j
Rest(w) == work[w].todo \ {First(w)}

\* Mutant: a row that was there already is taken for reserved.
ReserveAnyway(w) ==
    /\ At(w, "reserve") /\ work[w].todo # {}
    /\ sample' = [sample EXCEPT ![RunOf(w)][First(w)] = IF @ = "none" THEN "uncertain" ELSE @]
    /\ Goto(w, "probe")
    /\ UNCHANGED <<now, run, budget, fingerprint, assessment, reference, job, ask, paid, faults, asked>>

(* ReserveEvaluationSample, ON CONFLICT DO NOTHING: only the one who       *)
(* inserted the row probes.                                                *)
Reserve(w) ==
    /\ At(w, "reserve") /\ work[w].todo # {}
    /\ IF sample[RunOf(w)][First(w)] = "none"
       THEN /\ sample' = [sample EXCEPT ![RunOf(w)][First(w)] = "uncertain"]
            /\ Goto(w, "probe")
       ELSE /\ work' = [work EXCEPT ![w].todo = Rest(w)]
            /\ UNCHANGED sample
    /\ UNCHANGED <<now, run, budget, fingerprint, assessment, reference, job, ask, paid, faults, asked>>

(* The supplier is paid whatever becomes of the answer.                    *)
Probe(w) ==
    /\ At(w, "probe")
    /\ paid' = [paid EXCEPT ![RunOf(w)][First(w)] = @ + 1]
    /\ Goto(w, "save")
    /\ UNCHANGED <<now, rows, job, ask, faults, asked>>

(* CompleteEvaluationSample stores the answer's facts and the outcome,     *)
(* once.                                                                   *)
Uncertain(w) == sample[RunOf(w)][First(w)] = "uncertain"
StoreOutcome(w, outcome) == sample' = [sample EXCEPT ![RunOf(w)][First(w)] = outcome]

Save(w, outcome) ==
    /\ At(w, "save")
    /\ IF Uncertain(w)
       THEN /\ StoreOutcome(w, outcome)
            /\ work' = [work EXCEPT ![w] = [@ EXCEPT !.pc = "reserve", !.todo = Rest(w)]]
       ELSE Goto(w, "fail") /\ UNCHANGED sample
    /\ UNCHANGED <<now, run, budget, fingerprint, assessment, reference, job, ask, paid, faults, asked>>

Samples(r, outcomes) == {i \in PlanOf(run[r].purpose) : sample[r][i] \in outcomes}

\* Mutant: an answer that is unknown counts as a failed one.
ReloadBlind(w) ==
    /\ At(w, "reserve") /\ work[w].todo = {}
    /\ Goto(w, IF run[RunOf(w)].purpose = "authenticity" THEN "fingerprint" ELSE "assess")
    /\ KeepAll

(* All samples are read again: the run cannot be judged while one of them  *)
(* was paid for and its answer is unknown.                                 *)
Reload(w) ==
    /\ At(w, "reserve") /\ work[w].todo = {}
    /\ Goto(w, IF Samples(RunOf(w), {"none"}) # {} THEN "fail"
               ELSE IF Samples(RunOf(w), {"uncertain"}) # {} THEN "condemn"
               ELSE IF run[RunOf(w)].purpose = "authenticity" THEN "fingerprint" ELSE "assess")
    /\ KeepAll

Condemn(w) ==
    /\ At(w, "condemn")
    /\ FailEvaluationRun(RunOf(w), "failed") /\ Report(w, FALSE)
    /\ UNCHANGED <<now, ask, paid, faults, asked>>

(* What the fingerprint shows: too few answers; a supplier that disagrees  *)
(* with itself; a stable one without reference, within the maximum of a    *)
(* match, beyond that of a mismatch, or neither (in between, or a match    *)
(* although the supplier names another model).                             *)
Kinds(r) == IF Cardinality(Samples(r, {"succeeded"})) < Enough THEN {"sparse"}
            ELSE {"unstable"} \cup IF run[r].ref = NoRef THEN {"alone"}
                                   ELSE {"match", "unclear", "mismatch"}
StableKinds == {"alone", "match", "unclear", "mismatch"}

FingerprintRow(kind) == [kind |-> kind, at |-> now]

(* buildFingerprint, and SaveEvaluationFingerprint with ON CONFLICT DO     *)
(* NOTHING: of a second attempt only the time is new.                      *)
SaveFingerprint(w) ==
    /\ At(w, "fingerprint")
    /\ IF fingerprint[RunOf(w)] # NoFingerprint THEN UNCHANGED fingerprint
       ELSE \E kind \in Kinds(RunOf(w)) :
               fingerprint' = [fingerprint EXCEPT ![RunOf(w)] = FingerprintRow(kind)]
    /\ work' = [work EXCEPT ![w] = [@ EXCEPT !.pc = "assess", !.at = now]]
    /\ UNCHANGED <<now, run, sample, budget, assessment, reference, job, ask, paid, faults, asked>>

(* FindPreviousStableMismatch: the latest assessment of the supplier with  *)
(* the same reference, if it is a mismatch from before the delay.          *)
Before(r) ==
    LET same == {q \in Runs : /\ assessment[q] # NoAssessment
                              /\ Subject(q) = Subject(r) /\ run[q].ref = run[r].ref}
    IN  {q \in same : \A other \in same : assessment[other].at <= assessment[q].at}

PriorMismatch(r, at) ==
    {q \in Before(r) : /\ assessment[q].verdict \in {"suspicious", "inconsistent"}
                       /\ fingerprint[q].kind = "mismatch"
                       /\ assessment[q].at <= at - Delay}

\* Mutant: the run under assessment confirms itself.
ConfirmedBySelf(r, at) == \E q \in Before(r) \cup {r} : fingerprint[q].kind = "mismatch"

(* confirmedIndependentMismatch                                            *)
Confirmed(r, at) ==
    \E q \in PriorMismatch(r, at) : q # r /\ at - fingerprint[q].at >= Delay

(* AssessAuthenticity: no verdict without a trusted reference that is      *)
(* valid at the time of the fingerprint, enough samples and stability.     *)
NoVerdict(r, at) ==
    \/ run[r].ref = NoRef
    \/ at >= ExpiresAt(run[r].ref)
    \/ fingerprint[r].kind \notin StableKinds

Verdict(r, at) ==
    IF NoVerdict(r, at) THEN "insufficient"
    ELSE IF fingerprint[r].kind = "match" THEN "consistent"
    ELSE IF fingerprint[r].kind = "mismatch" /\ Confirmed(r, at) THEN "inconsistent"
    ELSE "suspicious"

AuthenticityRow(w) ==
    [verdict |-> Verdict(RunOf(w), work[w].at), at |-> work[w].at,
     completed |-> Cardinality(Samples(RunOf(w), {"succeeded"}))]

CapabilityRow(w) ==
    [verdict |-> "measured", at |-> now,
     completed |-> Cardinality(Samples(RunOf(w), {"succeeded"}))]

(* Both are stored with ON CONFLICT DO NOTHING: the first one stands.      *)
Assess(w) ==
    /\ At(w, "assess")
    /\ assessment' =
         IF assessment[RunOf(w)] # NoAssessment THEN assessment
         ELSE [assessment EXCEPT ![RunOf(w)] =
                 IF run[RunOf(w)].purpose = "authenticity" THEN AuthenticityRow(w) ELSE CapabilityRow(w)]
    /\ Goto(w, "complete")
    /\ UNCHANGED <<now, run, sample, budget, fingerprint, reference, job, ask, paid, faults, asked>>

(* CompleteEvaluationRun; a run that is no longer running is an error.     *)
Complete(w) ==
    /\ At(w, "complete")
    /\ IF run[RunOf(w)].status = "running"
       THEN run' = [run EXCEPT ![RunOf(w)].status = "succeeded"] /\ Report(w, FALSE)
       ELSE UNCHANGED run /\ Report(w, TRUE)
    /\ UNCHANGED <<now, sample, budget, fingerprint, assessment, reference, ask, paid, faults, asked>>

(* failRun: what cannot be done now is tried again later.                  *)
FailRun(w) ==
    /\ At(w, "fail")
    /\ FailEvaluationRun(RunOf(w), "uncertain") /\ Report(w, TRUE)
    /\ UNCHANGED <<now, ask, paid, faults, asked>>

(* The target, the credential or the database is not available, or the     *)
(* facts of an answer are not valid.                                       *)
Trouble(w) ==
    /\ work[w].pc \in {"list", "reserve", "save", "fingerprint", "assess"}
    /\ Fault /\ Goto(w, "fail")
    /\ UNCHANGED <<now, rows, job, ask, paid, asked>>

(* The deadline, or a database that does not even take the failure.        *)
GiveUp(w) ==
    /\ ~At(w, "idle") /\ Fault /\ Report(w, TRUE)
    /\ UNCHANGED <<now, rows, ask, paid, asked>>

Crash(w) ==
    /\ ~At(w, "idle") /\ Fault
    /\ work' = [work EXCEPT ![w] = IdleWorker]
    /\ UNCHANGED <<now, rows, job, ask, paid, asked>>

(* River's maintenance: jobs of dead processes are rescued, finished ones  *)
(* removed after some time.                                                *)
Rescue(r) ==
    /\ job[r].state = "running"
    /\ \/ Executing(r) = {} /\ UNCHANGED faults
       \/ Overlap /\ Executing(r) # {} /\ Fault
    /\ job' = [job EXCEPT ![r].state = Attempted(r)]
    /\ UNCHANGED <<now, rows, ask, work, paid, asked>>

Clean(r) ==
    /\ job[r].state \in {"completed", "discarded"}
    /\ job' = [job EXCEPT ![r] = NoJob]
    /\ UNCHANGED <<now, rows, ask, work, paid, faults, asked>>

-----------------------------------------------------------------------------
ReferenceRow(r, trust) ==
    [trust |-> trust, supplier |-> run[r].supplier, source |-> r,
     created |-> now, expires |-> now + Validity, revoked |-> MaxTime + 1]

(* RevokeTrustedModelReferences *)
Revocable(g, s) ==
    reference[g] # NoReference /\ reference[g].supplier = s /\ reference[g].revoked > MaxTime

(* PromoteReference: a finished authenticity run with a stable fingerprint *)
(* becomes the reference; CreateTrustedReference revokes earlier ones of   *)
(* the supplier.  A request that is repeated returns its reference.        *)
Promotable(r) ==
    run[r].status = "succeeded" /\ run[r].purpose = "authenticity" /\ fingerprint[r].kind \in StableKinds

PromoteReference(r, f, trust) ==
    /\ Promotable(r) /\ reference[f] = NoReference
    /\ reference' = [g \in Refs |->
          IF g = f THEN ReferenceRow(r, trust)
          ELSE IF Revocable(g, run[r].supplier) THEN [reference[g] EXCEPT !.revoked = now]
          ELSE reference[g]]
    /\ UNCHANGED <<now, run, sample, budget, fingerprint, assessment, job, ask, work, paid, faults, asked>>

-----------------------------------------------------------------------------
Execute(w) ==
    \/ Load(w) \/ Start(w) \/ ListSamples(w) \/ Reserve(w) \/ Probe(w)
    \/ \E outcome \in Outcomes : Save(w, outcome)
    \/ Reload(w) \/ Condemn(w) \/ SaveFingerprint(w) \/ Assess(w) \/ Complete(w) \/ FailRun(w)

Serve(c) == Create(c) \/ Dispatch(c) \/ MarkUndispatched(c)

Next ==
    \/ Tick
    \/ \E c \in Clients :
          \/ \E s \in Suppliers, p \in Purposes, k \in Keys \cup {NoKey} : Request(c, s, p, k)
          \/ \E r \in Created : Sweep(c, r)
          \/ Serve(c) \/ Abandon(c)
    \/ \E w \in Workers :
          \/ \E r \in Runs : Claim(w, r)
          \/ Execute(w) \/ Trouble(w) \/ GiveUp(w) \/ Crash(w)
    \/ \E r \in Runs : Rescue(r) \/ Clean(r)
    \/ \E r \in Created, f \in Refs, trust \in Trusts :
          PromoteReference(r, f, trust)

Spec == Init /\ [][Next]_vars

(* A request and a run that were begun go on; River fetches jobs, rescues  *)
(* and cleans; the sweep comes every hour and finds every run that is not  *)
(* finished.                                                               *)
Fairness ==
    /\ \A c \in Clients : WF_vars(Serve(c))
    /\ \A w \in Workers : WF_vars(Execute(w))
    /\ \A r \in Runs : /\ SF_vars(\E w \in Workers : Claim(w, r))
                       /\ WF_vars(Rescue(r)) /\ WF_vars(Clean(r))
                       /\ SF_vars(\E c \in Clients : r \in Created /\ Sweep(c, r))

FairSpec == Spec /\ Fairness

-----------------------------------------------------------------------------
(* Properties                                                              *)

RunRow == [status : ActiveStatuses \cup TerminalStatuses, supplier : Suppliers,
           purpose : Purposes, key : Keys \cup {NoKey}, at : 0 .. MaxTime, ref : Refs \cup {NoRef}]

Places == {"idle", "load", "start", "list", "reserve", "probe", "save", "condemn", "fingerprint",
           "assess", "complete", "fail"}

(* The types of the tables and of what the processes hold: a worker takes  *)
(* only samples that the plan of its run names.                            *)
TypeOK ==
    /\ now \in 0 .. MaxTime
    /\ run \in [Runs -> RunRow \cup {NoRun}]
    /\ sample \in [Runs -> [Indexes -> {"none", "uncertain", "succeeded", "failed"}]]
    /\ budget \in [Suppliers -> [0 .. DayOf(MaxTime) -> Nat]]
    /\ job \in [Runs -> [state : {"none", "available", "running", "retryable", "completed", "discarded"},
                         attempts : 0 .. MaxAttempts]]
    /\ paid \in [Runs -> [Indexes -> Nat]]
    /\ work \in [Workers -> [pc : Places, run : Nat, todo : SUBSET Indexes, at : 0 .. MaxTime]]
    /\ \A w \in Workers : ~At(w, "idle") =>
          work[w].run \in Created /\ work[w].todo \subseteq PlanOf(run[work[w].run].purpose)

(* No sample is paid for twice: neither by a retry, nor after a death      *)
(* between the probe and the row, nor by two executors of one run.         *)
PaidOnce == \A r \in Runs : \A i \in Indexes : paid[r][i] <= 1

(* The samples that the runs of a supplier requested on a day plan.        *)
PlannedOn(s, d) ==
    {x \in Created \X Indexes : /\ run[x[1]].supplier = s /\ DayOf(run[x[1]].at) = d
                                /\ x[2] \in PlanOf(run[x[1]].purpose)}

(* What the runs of a day may spend is reserved once and is within the     *)
(* limit, however often they are dispatched, started and retried.          *)
BudgetCoversRuns ==
    \A s \in Suppliers, d \in 0 .. DayOf(MaxTime) :
        budget[s][d] = Cardinality(PlannedOn(s, d)) /\ budget[s][d] <= DailyLimit

(* A request identity stands for one run, whoever repeats it and when.     *)
OneRunPerKey == \A k \in Keys : Cardinality(ByKey(k)) <= 1

(* A run succeeds only with the answer of every sample it planned, and its *)
(* assessment counts exactly the answers that succeeded.                   *)
SuccessIsMeasured ==
    \A r \in Created : run[r].status = "succeeded" =>
        /\ Samples(r, {"none", "uncertain"}) = {}
        /\ assessment[r] # NoAssessment
        /\ assessment[r].completed = Cardinality(Samples(r, {"succeeded"}))

(* A finished run stays as it is, with its samples and its assessment:     *)
(* neither a late dispatch failure nor a second executor changes it.       *)
FinishedIsFinal ==
    [][\A r \in Created : run[r].status = "succeeded" =>
          run'[r] = run[r] /\ sample'[r] = sample[r] /\ assessment'[r] = assessment[r]]_vars

(* A supplier passes as authentic only against a reference that was        *)
(* trusted, of another supplier and valid when the answers were compared.  *)
ConsistentIsGrounded ==
    \A r \in Created : assessment[r].verdict = "consistent" =>
        /\ run[r].ref # NoRef
        /\ reference[run[r].ref].trust # "community"
        /\ reference[run[r].ref].supplier # run[r].supplier
        /\ assessment[r].at < reference[run[r].ref].expires
        /\ assessment[r].at <= reference[run[r].ref].revoked

(* A supplier is called inconsistent only after two stable runs that both  *)
(* disagree with one reference, the delay apart, with no agreement between *)
(* them.                                                                   *)
InconsistentIsConfirmed ==
    \A r \in Created : assessment[r].verdict = "inconsistent" =>
        \E q \in Created \ {r} :
            /\ Subject(q) = Subject(r) /\ run[q].ref = run[r].ref
            /\ \A x \in {q, r} : fingerprint[x].kind = "mismatch"
            /\ assessment[r].at - assessment[q].at >= Delay
            /\ \A x \in Created : /\ Subject(x) = Subject(r) /\ run[x].ref = run[r].ref
                                  /\ assessment[x].verdict = "consistent"
                                  => assessment[x].at <= assessment[q].at \/ assessment[x].at >= assessment[r].at

(* Every run comes to an end when failures end, even one whose dispatch    *)
(* failed, whose job was discarded or whose executor died.                 *)
EveryRunSettles ==
    \A r \in Runs : (run[r].status \in ActiveStatuses) ~> (run[r].status \in TerminalStatuses)
=============================================================================
