----------------------------- MODULE SyncQueue -----------------------------
(***************************************************************************)
(* The publication queue of one site: operators publish numbered site      *)
(* plans, each plan has one sync operation, River jobs carry the           *)
(* operations to workers, and a worker brings the New API gateway to the   *)
(* plan under the site's advisory lock.                                    *)
(*                                                                         *)
(* Covered: the mutation transaction that publishes a plan, the explicit   *)
(* resynchronisation, the legacy request that dispatches a unique job,     *)
(* disabling and enabling the site, compatibility verdicts, every step of  *)
(* reconciliation.Service.Run up to the persisted outcome, River's         *)
(* claiming, retrying, discarding and rescuing of jobs, worker crashes,    *)
(* deadlines, lost replies of the gateway, requests the gateway executes   *)
(* after the client gave up, and the loss of the lock's connection.        *)
(*                                                                         *)
(* Abstracted: the content of a plan is its version number, and the        *)
(* gateway's configuration is, for each independently written Part of it,  *)
(* the version of the plan written there last.  The relations of the site  *)
(* share one sync status.  Time is left out: a retry may come at any       *)
(* moment after the failure.                                               *)
(***************************************************************************)
EXTENDS Naturals

CONSTANTS
    Workers,      \* goroutines of the reconciliation queue, of any process
    NoWorker,     \* holder of a free lock
    Parts,        \* the separately written parts of a gateway's configuration
    MaxPlans,     \* bound on the plans published
    MaxJobs,      \* bound on the River jobs inserted
    MaxAttempts,  \* attempts River gives a job (10 in the code)
    Modes,        \* ways a run may write: "managed" (one PUT), "legacy" (one per part)
    Controls,     \* what operators and checks do: "mutate", "sync", "request", "disable",
                  \* "check"; the system has them all, a model may leave some out
    LateWrites,   \* the gateway may execute a request its client gave up on
    LockLoss      \* the connection that holds the lock may break

ASSUME WorkersAssumption == NoWorker \notin Workers
ASSUME BoundsAssumption ==
    /\ MaxPlans \in Nat \ {0}
    /\ MaxJobs \in Nat \ {0}
    /\ MaxAttempts \in Nat \ {0}
ASSUME PartsAssumption == Parts # {}
ASSUME ModesAssumption == Modes # {} /\ Modes \subseteq {"managed", "legacy"}
ASSUME ControlsAssumption ==
    Controls \subseteq {"mutate", "sync", "request", "disable", "check"}
ASSUME FaultsAssumption == LateWrites \in BOOLEAN /\ LockLoss \in BOOLEAN

VARIABLES
    latest,       \* number of plans published; the newest is the current one
    plan,         \* status of every plan
    op,           \* status of every plan's sync operation
    relation,     \* sync status of the site's relations
    site,         \* the site's status
    compat,       \* the site's compatibility status
    requested,    \* plans whose older-style request was recorded, not yet dispatched
    inserted,     \* number of jobs inserted
    jobs,         \* River's jobs
    lock,         \* holder of the site's session-level advisory lock
    gateway,      \* plan version written last to each part of the gateway
    late,         \* requests in flight that no client waits for
    pc,           \* control state of each worker
    job,          \* job each worker claimed
    mode,         \* how the worker's run writes
    seen,         \* gateway state the worker read last
    result        \* failure met by the run, then what Run returns

store  == <<latest, plan, op, relation, site, compat>>
queue  == <<requested, inserted, jobs>>
remote == <<gateway, late>>
local  == <<pc, job, mode, seen, result>>
vars   == <<store, queue, lock, remote, local>>

Plans    == 1 .. MaxPlans
Versions == 0 .. MaxPlans
Jobs     == 1 .. MaxJobs

PlanStatus == {"none", "pending", "applying", "confirmed", "failed", "uncertain",
               "superseded"}
OpStatus   == {"none", "pending", "running", "succeeded", "uncertain",
               "retryable_failed", "manual_required", "superseded"}
Finished   == {"succeeded", "manual_required", "superseded"}
Relation   == {"pending", "syncing", "active", "failed", "manual_locked"}
Compat     == {"unknown", "compatible", "incompatible"}
JobState   == {"none", "available", "running", "retryable", "completed", "discarded"}
Kinds      == {"retryable", "uncertain", "manual", "manual_lock"}
Gateway    == [Parts -> Versions]
Request    == [mode : Modes, plan : Plans, part : Parts, expected : Gateway]
Job        == [plan : Versions, state : JobState, attempt : 0 .. MaxAttempts,
               source : {"plan", "request"}]

\* Control states outside and inside the locked region of Run.
Outside == {"idle", "load", "lock", "report"}
Writing == {"start", "read", "write", "confirm", "verify", "complete", "fail"}
Locked  == Writing \cup {"reload", "release"}

\* Locals of a worker outside a run.
AnyMode == CHOOSE m \in Modes : TRUE
Nothing == [x \in Parts |-> 0]

Init ==
    /\ latest = 0
    /\ plan = [p \in Plans |-> "none"]
    /\ op = [p \in Plans |-> "none"]
    /\ relation = "pending"
    /\ site = "enabled"
    /\ compat = "unknown"
    /\ requested = {}
    /\ inserted = 0
    /\ jobs = [j \in Jobs |->
                  [plan |-> 0, state |-> "none", attempt |-> 0, source |-> "plan"]]
    /\ lock = NoWorker
    /\ gateway = Nothing
    /\ late = {}
    /\ pc = [w \in Workers |-> "idle"]
    /\ job = [w \in Workers |-> 1]
    /\ mode = [w \in Workers |-> AnyMode]
    /\ seen = [w \in Workers |-> Nothing]
    /\ result = [w \in Workers |-> "ok"]

-----------------------------------------------------------------------------
(* What the operators, the automation and the compatibility checks do.       *)

\* River's insertion of a job for the operation of plan p.
InsertJob(p, source) ==
    /\ inserted < MaxJobs
    /\ inserted' = inserted + 1
    /\ jobs' = [jobs EXCEPT ![inserted + 1] =
                   [plan |-> p, state |-> "available", attempt |-> 0,
                    source |-> source]]

\* buildSitePlan when the snapshot differs from the newest plan's.
PublishPlan ==
    /\ latest < MaxPlans
    /\ latest' = latest + 1
    /\ plan' = [plan EXCEPT ![latest + 1] = "pending"]
    /\ op' = [op EXCEPT ![latest + 1] = "pending"]
    /\ relation' = "pending"
    /\ InsertJob(latest + 1, "plan")
    /\ UNCHANGED requested

\* A configuration change of an enabled site.  The transaction holds the site
\* lock from its start to its commit, so it needs the lock free.
Mutate ==
    /\ lock = NoWorker
    /\ site = "enabled"
    /\ PublishPlan
    /\ UNCHANGED <<site, compat, lock, remote, local>>

\* The explicit "sync" of an unchanged configuration: the newest plan's
\* operation goes back to pending and gets one more job.
Resync ==
    /\ lock = NoWorker
    /\ site = "enabled"
    /\ latest > 0
    /\ op' = [op EXCEPT ![latest] = "pending"]
    /\ InsertJob(latest, "plan")
    /\ UNCHANGED <<latest, plan, relation, site, compat, requested, lock,
                   remote, local>>

\* The older request by relation: CreateOperation commits, and only then an
\* operation that is not finished is dispatched.
RequestSync ==
    /\ latest > 0
    /\ op[latest] \notin {"succeeded", "manual_required"}
    /\ latest \notin requested
    /\ requested' = requested \cup {latest}
    /\ UNCHANGED <<store, inserted, jobs, lock, remote, local>>

\* River inserts the job unless it knows a unique one with the same arguments
\* that it has not discarded.
Known(p) == \E j \in Jobs :
    /\ jobs[j].source = "request" /\ jobs[j].plan = p
    /\ jobs[j].state # "discarded"

\* The dispatch of a recorded request; it may fail, or its process may die.
Dispatch(p) ==
    /\ p \in requested
    /\ requested' = requested \ {p}
    /\ \/ ~Known(p) /\ InsertJob(p, "request")
       \/ UNCHANGED <<inserted, jobs>>
    /\ UNCHANGED <<store, lock, remote, local>>

\* Mutant: disabling a site does not take its lock.
DisableSiteUnlocked ==
    /\ site = "enabled"
    /\ site' = "disabled"
    /\ UNCHANGED <<latest, plan, op, relation, compat, queue, lock, remote, local>>

\* update_site with status "disabled": no plan is built.
DisableSite ==
    /\ lock = NoWorker
    /\ site = "enabled"
    /\ site' = "disabled"
    /\ UNCHANGED <<latest, plan, op, relation, compat, queue, lock, remote, local>>

\* update_site with status "enabled": the plan is rebuilt, and when the
\* snapshot is the newest plan's nothing is enqueued.
EnableSite ==
    /\ lock = NoWorker
    /\ site = "disabled"
    /\ site' = "enabled"
    /\ \/ PublishPlan
       \/ UNCHANGED <<latest, plan, op, relation, queue>>
    /\ UNCHANGED <<compat, lock, remote, local>>

\* SaveCompatibilityCheck takes no site lock.
CheckCompatibility(verdict) ==
    /\ compat # verdict
    /\ compat' = verdict
    /\ UNCHANGED <<latest, plan, op, relation, site, queue, lock, remote, local>>

-----------------------------------------------------------------------------
(* One run of a worker: River claims a job and calls Service.Run.            *)

PlanOf(w) == jobs[job[w]].plan

Goto(w, label) == pc' = [pc EXCEPT ![w] = label]

\* The run of w is over, and its locals with it.
Return(w) ==
    /\ Goto(w, "idle")
    /\ job' = [job EXCEPT ![w] = 1]
    /\ mode' = [mode EXCEPT ![w] = AnyMode]
    /\ seen' = [seen EXCEPT ![w] = Nothing]
    /\ result' = [result EXCEPT ![w] = "ok"]

\* River's update of job j.
SetJob(j, state, attempt) ==
    jobs' = [jobs EXCEPT ![j] =
                [plan |-> jobs[j].plan, state |-> state, attempt |-> attempt,
                 source |-> jobs[j].source]]

Claim(w, j) ==
    /\ pc[w] = "idle"
    /\ jobs[j].state \in {"available", "retryable"}
    /\ SetJob(j, "running", jobs[j].attempt + 1)
    /\ job' = [job EXCEPT ![w] = j]
    /\ Goto(w, "load")
    /\ UNCHANGED <<store, requested, inserted, lock, remote, mode, seen, result>>

\* LoadBundle before the lock.
Load(w) ==
    /\ pc[w] = "load"
    /\ IF op[PlanOf(w)] \in Finished
       THEN Goto(w, "report") /\ result' = [result EXCEPT ![w] = "ok"]
       ELSE Goto(w, "lock") /\ UNCHANGED result
    /\ UNCHANGED <<store, queue, lock, remote, job, mode, seen>>

\* AcquireSiteLock does not wait: a busy site costs the job an attempt and
\* leaves the operation as it is.  (Abort is also what a run sees that tries
\* while a mutation's transaction holds the lock.)
AcquireSiteLock(w) ==
    /\ pc[w] = "lock"
    /\ IF lock = NoWorker
       THEN lock' = w /\ Goto(w, "reload") /\ UNCHANGED result
       ELSE /\ Goto(w, "report")
            /\ result' = [result EXCEPT ![w] = "error"]
            /\ UNCHANGED lock
    /\ UNCHANGED <<store, queue, remote, job, mode, seen>>

\* The second LoadBundle and the checks on it, in the code's order.
Supersede(w) ==
    /\ pc[w] = "reload"
    /\ PlanOf(w) # latest
    /\ op' = [op EXCEPT ![PlanOf(w)] = "superseded"]
    /\ plan' = [plan EXCEPT ![PlanOf(w)] = "superseded"]
    /\ result' = [result EXCEPT ![w] = "ok"]
    /\ Goto(w, "release")
    /\ UNCHANGED <<latest, relation, site, compat, queue, lock, remote,
                   job, mode, seen>>

\* Mutant: the plan loaded before the lock is trusted to be the newest.
ReloadUnchecked(w) ==
    /\ pc[w] = "reload"
    /\ op[PlanOf(w)] \notin Finished
    /\ site = "enabled" /\ compat # "incompatible"
    /\ Goto(w, "start")
    /\ UNCHANGED <<store, queue, lock, remote, job, mode, seen, result>>

\* Mutant: the status loaded before the lock is trusted.
ReloadFinished(w) ==
    /\ pc[w] = "reload"
    /\ PlanOf(w) = latest
    /\ site = "enabled" /\ compat # "incompatible"
    /\ Goto(w, "start")
    /\ UNCHANGED <<store, queue, lock, remote, job, mode, seen, result>>

Reload(w) ==
    /\ pc[w] = "reload"
    /\ PlanOf(w) = latest
    /\ \/ /\ op[PlanOf(w)] \in Finished
          /\ result' = [result EXCEPT ![w] = "ok"]
          /\ Goto(w, "release")
       \/ /\ op[PlanOf(w)] \notin Finished
          /\ site = "disabled" \/ compat = "incompatible"
          /\ result' = [result EXCEPT ![w] = "manual"]
          /\ Goto(w, "fail")
       \/ /\ op[PlanOf(w)] \notin Finished
          /\ site = "enabled" /\ compat # "incompatible"
          /\ Goto(w, "start")
          /\ UNCHANGED result
    /\ UNCHANGED <<store, queue, lock, remote, job, mode, seen>>

\* StartOperation.
Start(w) ==
    /\ pc[w] = "start"
    /\ op' = [op EXCEPT ![PlanOf(w)] = "running"]
    /\ plan' = [plan EXCEPT ![PlanOf(w)] =
                   IF @ \in {"pending", "failed", "uncertain"} THEN "applying" ELSE @]
    /\ relation' = IF PlanOf(w) = latest THEN "syncing" ELSE relation
    /\ Goto(w, "read")
    /\ UNCHANGED <<latest, site, compat, queue, lock, remote,
                   job, mode, seen, result>>

\* The capability query decides how this run writes; then the state is read.
Read(w) ==
    /\ pc[w] = "read"
    /\ \E m \in Modes : mode' = [mode EXCEPT ![w] = m]
    /\ seen' = [seen EXCEPT ![w] = gateway]
    /\ Goto(w, "write")
    /\ UNCHANGED <<store, queue, lock, remote, job, result>>

-----------------------------------------------------------------------------
(* Requests to the gateway.                                                  *)

\* The gateway after it executes request r.  The managed PUT replaces every
\* part at once and is refused when the state is not the one its sender read.
Executed(r) ==
    IF r.mode = "legacy"
    THEN [gateway EXCEPT ![r.part] = r.plan]
    ELSE IF gateway = r.expected THEN [x \in Parts |-> r.plan] ELSE gateway

\* The requests the run of w may send next.
Requests(w) ==
    {r \in Request :
        /\ r.mode = mode[w] /\ r.plan = PlanOf(w) /\ r.expected = seen[w]
        /\ r.mode = "legacy" => seen[w][r.part] # r.plan}

\* Answered with success: a legacy run knows the part it wrote, a managed run
\* has the whole new state in the reply.
Write(w) ==
    /\ pc[w] = "write"
    /\ \E r \in Requests(w) :
          /\ r.mode = "managed" => gateway = r.expected
          /\ gateway' = Executed(r)
          /\ seen' = [seen EXCEPT ![w] =
                         IF r.mode = "legacy" THEN [@ EXCEPT ![r.part] = r.plan]
                                              ELSE gateway']
    /\ IF mode[w] = "managed" THEN Goto(w, "confirm") ELSE UNCHANGED pc
    /\ UNCHANGED <<store, queue, lock, late, job, mode, result>>

\* Mutant: a lost answer is taken for success.
WriteUnknownTaken(w) ==
    /\ pc[w] = "write"
    /\ \E r \in Requests(w) :
          \/ gateway' = Executed(r) /\ UNCHANGED late
          \/ UNCHANGED remote
    /\ Goto(w, "confirm")
    /\ UNCHANGED <<store, queue, lock, job, mode, seen, result>>

\* No usable answer: executed at once, never, or later.  A lost answer makes
\* the outcome uncertain, a broken one is an ordinary transient failure.
WriteUnknown(w) ==
    /\ pc[w] = "write"
    /\ \E r \in Requests(w) :
          \/ gateway' = Executed(r) /\ UNCHANGED late
          \/ UNCHANGED remote
          \/ LateWrites /\ late' = late \cup {r} /\ UNCHANGED gateway
    /\ \E kind \in {"uncertain", "retryable"} : result' = [result EXCEPT ![w] = kind]
    /\ Goto(w, "fail")
    /\ UNCHANGED <<store, queue, lock, job, mode, seen>>

\* A legacy run has nothing left to write.
Written(w) ==
    /\ pc[w] = "write"
    /\ mode[w] = "legacy"
    /\ \A x \in Parts : seen[w][x] = PlanOf(w)
    /\ Goto(w, "confirm")
    /\ UNCHANGED <<store, queue, lock, remote, job, mode, seen, result>>

\* Mutant: the relations' sync status is not written.
ConfirmQuiet(w) ==
    /\ pc[w] = "confirm"
    /\ Goto(w, IF mode[w] = "managed" THEN "complete" ELSE "verify")
    /\ UNCHANGED <<store, queue, lock, remote, job, mode, seen, result>>

\* ConfirmResource for every resource.  A managed run comes from its verified
\* reply, a legacy run still has its final read before it.
Confirm(w) ==
    /\ pc[w] = "confirm"
    /\ relation' = "active"
    /\ Goto(w, IF mode[w] = "managed" THEN "complete" ELSE "verify")
    /\ UNCHANGED <<latest, plan, op, site, compat, queue, lock, remote,
                   job, mode, seen, result>>

\* The final read of a legacy run agrees with the plan.
Verify(w) ==
    /\ pc[w] = "verify"
    /\ \A x \in Parts : gateway[x] = PlanOf(w)
    /\ seen' = [seen EXCEPT ![w] = gateway]
    /\ Goto(w, "complete")
    /\ UNCHANGED <<store, queue, lock, remote, job, mode, result>>

\* The gateway refuses, answers something unusable, or disagrees with the
\* plan; or the plan's resources are incomplete.  A managed run still checks
\* the reply after its write, only a legacy run can find a manual lock.
Problem(w, kind) ==
    /\ \/ pc[w] \in {"read", "write", "verify"}
       \/ /\ kind = "manual"
          /\ pc[w] = "start" \/ (pc[w] = "confirm" /\ mode[w] = "managed")
    /\ kind = "manual_lock" => pc[w] = "write" /\ mode[w] = "legacy"
    /\ result' = [result EXCEPT ![w] = kind]
    /\ Goto(w, "fail")
    /\ UNCHANGED <<store, queue, lock, remote, job, mode, seen>>

-----------------------------------------------------------------------------
(* How a run ends.                                                           *)

\* CompleteSiteOperation.
Complete(w) ==
    /\ pc[w] = "complete"
    /\ op' = [op EXCEPT ![PlanOf(w)] = "succeeded"]
    /\ plan' = [plan EXCEPT ![PlanOf(w)] = "confirmed"]
    /\ compat' = "compatible"
    /\ result' = [result EXCEPT ![w] = "ok"]
    /\ Goto(w, "release")
    /\ UNCHANGED <<latest, relation, site, queue, lock, remote, job, mode, seen>>

Transient(kind) == kind \in {"retryable", "uncertain"}

\* Mutant: a recorded failure is never handed back to River.
FailSwallowed(w) ==
    /\ pc[w] = "fail"
    /\ op' = [op EXCEPT ![PlanOf(w)] =
                 IF Transient(result[w]) THEN "retryable_failed" ELSE "manual_required"]
    /\ plan' = [plan EXCEPT ![PlanOf(w)] = "failed"]
    /\ relation' = IF PlanOf(w) = latest /\ relation = "syncing" THEN "failed" ELSE relation
    /\ result' = [result EXCEPT ![w] = "ok"]
    /\ Goto(w, "release")
    /\ UNCHANGED <<latest, site, compat, queue, lock, remote, job, mode, seen>>

\* FailOperation: only transient failures are handed back to River.
Fail(w) ==
    /\ pc[w] = "fail"
    /\ op' = [op EXCEPT ![PlanOf(w)] =
                 IF result[w] = "retryable" THEN "retryable_failed"
                 ELSE IF result[w] = "uncertain" THEN "uncertain"
                 ELSE "manual_required"]
    /\ plan' = [plan EXCEPT ![PlanOf(w)] =
                   IF result[w] = "uncertain" THEN "uncertain" ELSE "failed"]
    /\ relation' = IF PlanOf(w) # latest THEN relation
                   ELSE IF result[w] = "manual_lock" THEN "manual_locked"
                   ELSE IF relation = "syncing" THEN "failed" ELSE relation
    /\ result' = [result EXCEPT ![w] = IF Transient(@) THEN "error" ELSE "ok"]
    /\ Goto(w, "release")
    /\ UNCHANGED <<latest, site, compat, queue, lock, remote, job, mode, seen>>

\* Mutant: an unrecorded failure is reported as success.
AbortSwallowed(w) ==
    /\ pc[w] \notin {"idle", "report"}
    /\ result' = [result EXCEPT ![w] = "ok"]
    /\ Goto(w, IF pc[w] \in Locked THEN "release" ELSE "report")
    /\ UNCHANGED <<store, queue, lock, remote, job, mode, seen>>

\* A database error, or the job's two-minute deadline: Run returns an error
\* without recording an outcome.
Abort(w) ==
    /\ pc[w] \notin {"idle", "report"}
    /\ result' = [result EXCEPT ![w] = "error"]
    /\ Goto(w, IF pc[w] \in Locked THEN "release" ELSE "report")
    /\ UNCHANGED <<store, queue, lock, remote, job, mode, seen>>

\* The deferred unlock.  A failed unlock closes the connection, which frees
\* the lock as well, and turns the outcome into an error.
Release(w) ==
    /\ pc[w] = "release"
    /\ \/ lock = w /\ UNCHANGED result
       \/ result' = [result EXCEPT ![w] = "error"]
    /\ lock' = IF lock = w THEN NoWorker ELSE lock
    /\ Goto(w, "report")
    /\ UNCHANGED <<store, queue, remote, job, mode, seen>>

\* Mutant: one attempt too many.
AfterErrorOnceMore(j) == IF jobs[j].attempt <= MaxAttempts THEN "retryable" ELSE "discarded"

\* A job whose run failed is retried until its attempts are used up.
AfterError(j) == IF jobs[j].attempt < MaxAttempts THEN "retryable" ELSE "discarded"

\* River records what Run returned.
Report(w) ==
    /\ pc[w] = "report"
    /\ SetJob(job[w],
              IF result[w] = "error" THEN AfterError(job[w]) ELSE "completed",
              jobs[job[w]].attempt)
    /\ Return(w)
    /\ UNCHANGED <<store, requested, inserted, lock, remote>>

-----------------------------------------------------------------------------
(* Faults.                                                                   *)

\* The worker's process dies; PostgreSQL frees the lock with its session.
Crash(w) ==
    /\ pc[w] # "idle"
    /\ Return(w)
    /\ lock' = IF lock = w THEN NoWorker ELSE lock
    /\ UNCHANGED <<store, queue, remote>>

\* River's rescuer finds a running job that no worker works on.
Rescue(j) ==
    /\ jobs[j].state = "running"
    /\ \A w \in Workers : pc[w] # "idle" => job[w] # j
    /\ SetJob(j, AfterError(j), jobs[j].attempt)
    /\ UNCHANGED <<store, requested, inserted, lock, remote, local>>

\* The connection that holds the lock breaks; the run goes on, because its
\* statements use the pool's other connections.
LoseLock ==
    /\ LockLoss
    /\ lock # NoWorker
    /\ lock' = NoWorker
    /\ UNCHANGED <<store, queue, remote, local>>

\* The gateway gets to a request its client gave up on, or never will.
Deliver(r) ==
    /\ r \in late
    /\ gateway' = Executed(r)
    /\ late' = late \ {r}
    /\ UNCHANGED <<store, queue, lock, local>>

Drop(r) ==
    /\ r \in late
    /\ late' = late \ {r}
    /\ UNCHANGED <<store, queue, lock, gateway, local>>

-----------------------------------------------------------------------------
Control ==
    \/ "mutate" \in Controls /\ Mutate
    \/ "sync" \in Controls /\ Resync
    \/ "request" \in Controls /\ RequestSync
    \/ \E p \in requested : Dispatch(p)
    \/ "disable" \in Controls /\ (DisableSite \/ EnableSite)
    \/ /\ "check" \in Controls
       /\ \E verdict \in {"compatible", "incompatible"} : CheckCompatibility(verdict)

Progress(w) ==
    \/ Load(w)
    \/ AcquireSiteLock(w)
    \/ Supersede(w)
    \/ Reload(w)
    \/ Start(w)
    \/ Read(w)
    \/ Write(w)
    \/ Written(w)
    \/ Confirm(w)
    \/ Verify(w)
    \/ Complete(w)
    \/ Fail(w)
    \/ Release(w)
    \/ Report(w)

Trouble(w) ==
    \/ WriteUnknown(w)
    \/ \E kind \in Kinds : Problem(w, kind)
    \/ Abort(w)
    \/ Crash(w)

Work(w) ==
    \/ \E j \in Jobs : Claim(w, j)
    \/ Progress(w)
    \/ Trouble(w)

Environment ==
    \/ \E j \in Jobs : Rescue(j)
    \/ LoseLock
    \/ \E r \in late : Deliver(r) \/ Drop(r)

Next == Control \/ (\E w \in Workers : Work(w)) \/ Environment

Spec == Init /\ [][Next]_vars

\* A run that was started goes on to its end: Run is ended by its deadline
\* whatever the gateway does.  River hands waiting jobs to idle workers and
\* rescues jobs whose worker died.
Fairness ==
    /\ \A w \in Workers : WF_vars(Progress(w) \/ Trouble(w))
    /\ \A j \in Jobs : SF_vars(\E w \in Workers : Claim(w, j))
    /\ \A j \in Jobs : WF_vars(Rescue(j))

FairSpec == Spec /\ Fairness

-----------------------------------------------------------------------------
(* Properties.                                                               *)

\* Every variable has its type, and a waiting job has an attempt left.
TypeOK ==
    /\ latest \in Versions
    /\ plan \in [Plans -> PlanStatus]
    /\ op \in [Plans -> OpStatus]
    /\ relation \in Relation
    /\ site \in {"enabled", "disabled"}
    /\ compat \in Compat
    /\ requested \in SUBSET Plans
    /\ inserted \in 0 .. MaxJobs
    /\ jobs \in [Jobs -> Job]
    /\ \A j \in Jobs : jobs[j].state \in {"available", "retryable"} =>
                           jobs[j].attempt < MaxAttempts
    /\ lock \in Workers \cup {NoWorker}
    /\ gateway \in Gateway
    /\ late \in SUBSET Request
    /\ pc \in [Workers -> Outside \cup Locked]
    /\ job \in [Workers -> Jobs]
    /\ mode \in [Workers -> Modes]
    /\ seen \in [Workers -> Gateway]
    /\ result \in [Workers -> Kinds \cup {"ok", "error"}]

\* Once a run is past the checks it makes under the lock it works for the
\* newest plan of an enabled site until it releases the lock: no mutation
\* makes what it loaded stale while it writes (Service.Run, lockTargets).
WriterIsCurrent ==
    \A w \in Workers :
        pc[w] \in Writing =>
            /\ lock = w
            /\ PlanOf(w) = latest
            /\ pc[w] # "fail" => site = "enabled"

\* The newest plan is confirmed only while every part of the gateway carries
\* it, whatever retries, crashed runs and late requests do afterwards.
ConfirmedIsApplied ==
    latest > 0 /\ plan[latest] = "confirmed" =>
        \A x \in Parts : gateway[x] = latest

\* An operation that succeeded on the newest plan left a confirmed plan and
\* active relations (the transactions of CompleteSiteOperation and
\* ConfirmResource against those of StartOperation, FailOperation and Mutate).
SuccessIsConsistent ==
    latest > 0 /\ op[latest] = "succeeded" =>
        plan[latest] = "confirmed" /\ relation = "active"

\* No operation is forgotten: an operation that is neither finished nor
\* without a job that ran out of attempts has a job River still works on, or
\* a worker that is about to record a finish or an error.
Live(j) == jobs[j].state \in {"available", "running", "retryable"}
NoOrphan ==
    \A p \in Plans :
        op[p] \notin Finished \cup {"none"} =>
            \E j \in Jobs : jobs[j].plan = p /\ (Live(j) \/ jobs[j].state = "discarded")

\* No part of the gateway ever goes back to an older plan.
NoRegress == [][\A x \in Parts : gateway'[x] >= gateway[x]]_vars

\* A superseded operation is final, and an operation that asks for an
\* operator is only reopened by one or overtaken by a newer plan: no retry,
\* rescue or duplicate job takes it up again.
FinishedStops ==
    [][\A p \in Plans :
          /\ op[p] = "superseded" => op'[p] = "superseded"
          /\ op[p] = "manual_required" =>
                op'[p] \in {"manual_required", "pending", "superseded"}]_vars

\* Every operation that is open gets finished, or one of its jobs uses up its
\* attempts, even if workers crash and the lock is contended.
Exhausted(p) == \E j \in Jobs : jobs[j].plan = p /\ jobs[j].state = "discarded"
EveryOperationSettles ==
    \A p \in Plans :
        (op[p] \notin Finished \cup {"none"})
            ~> (op[p] \in Finished \/ Exhausted(p))

\* What docs say of finished work: an operation that succeeded keeps its
\* result when a job for it is claimed again; only an operator reopens it.
SucceededStays ==
    [][\A p \in Plans :
          op[p] = "succeeded" => op'[p] \in {"succeeded", "pending"}]_vars

\* What docs say of an incompatible site: it is read-only.  The success of an
\* automatic write is therefore not what lifts the verdict.
IncompatibleStands ==
    [][compat = "incompatible" /\ compat' # compat => UNCHANGED op]_vars

\* The queue implements the contract of publication.
Contract == INSTANCE RouteContract WITH
    target <- latest,
    applied <- gateway,
    acked <- latest > 0 /\ plan[latest] = "confirmed"

Publication == Contract!Spec

=============================================================================
