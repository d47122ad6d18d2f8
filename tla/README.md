# A verification development for ManyRouter

ManyRouter is a control plane.  Operators describe suppliers, relations between
suppliers and sites, prices and credentials; ManyRouter turns the description of a
site into numbered *plans* and brings the site's New API gateway to the newest plan.
PostgreSQL holds every fact, River (a job queue inside PostgreSQL) runs the work, and
nothing but HTTP connects ManyRouter to the gateways.

This directory holds TLA+ models of that program, TLC configurations that check them on
small instances, and proofs that the TLA+ proof system checks for every instance.
`PROJECT.json` relates every definition to the lines it models.

    tlc -workers 2 -config queue_managed.cfg MCSyncQueue.tla
    tlc -workers 2 -config site_publish.cfg MCSiteReconcile.tla
    tlc -workers 2 -config operations.cfg MCOperations.tla
    tlapm SyncQueueProofs.tla
    tlapm SiteReconcileProofs.tla
    tlapm OperationsProofs.tla
    tlapm EvaluationProofs.tla
    tlapm VerdictProofs.tla
    tlapm CollectionProofs.tla
    tlapm WindowMetricsProofs.tla
    tlapm AutomationProofs.tla

## 1. The system

### Components, their state and their operations

| component | state | operations | what is hard | correct when |
|---|---|---|---|---|
| publication queue (`application/reconciliation`, `jobs/reconciliation.go`, `operations_plan.go`, `site_lock.go`) | plans, sync operations, River jobs, the site's advisory lock | publish, resync, request, claim, run, supersede, complete, fail, rescue | several jobs of one site, crashes, lost answers, late writes, a plan published during a run | one writer per site, and only for the newest plan; "confirmed" is true of the gateway; no operation is forgotten |
| site reconciliation, endpoint by endpoint (`site_service.go`, `site_resource.go`, `steps.go`, `diff.go`) | channel states on the gateway, relation state, prices | locate, disable first, group ratios, prices, apply, verify | an administrator of the gateway edits it meanwhile; a run ends in the middle | an enabled relation has its price; what was stopped stays stopped; manual changes are not overwritten |
| managed sync (`site_managed_sync.go`, `newapi/managed_sync.go`) | the gateway's whole managed state, its revision | read, PUT with expected state, verify the answer | replayed operation identifiers, drift | a confirmed operation describes the state the gateway has |
| operator mutations (`application/operations`, `operations_transaction.go`, `application/idempotency`) | idempotency records, configuration | mutate with key, lock, apply, build plans | repeated and concurrent requests | a key has one effect and one answer |
| credentials (`operations_catalog.go`, `db/query/sync.sql`) | credential versions, the pending version | rotate, cancel, promote | several sites confirm at different times | a credential is promoted only once every bound channel has it, and not revoked while in use |
| prices (`operations_price.go`) | versions: draft, published, applied, superseded | draft, publish, apply | basis changes between draft and publication | one current price per group, applied only once confirmed |
| restore and deployment (`operations_restore.go`, `operations_deployment.go`) | relation states | restore an older plan, deploy | history refers to removed models | a restored site has exactly the history's relations enabled |
| onboarding (`application/onboarding`, `onboarding_*.go`) | first relation, plan of format 1 | create site, supplier, relation | concurrent with a mutation | one relation per supplier and site |
| automation (`application/automation`, `domain/automation`, `automation_*.go`) | policies, holds, runs | decide, preview, apply | scores are stale when applied; the queue is busy | automatic holds never undo an operator's decision; one run per score run |
| evaluation (`application/evaluation`, `domain/evaluation`) | runs, samples, a daily budget | request, dispatch, reserve, probe, complete, fail | paid probes; two executors; crashes between reserve and complete | no probe is paid for twice; the budget holds |
| collection (`application/collection`, `domain/measurement`) | watermark, committed scan, measurements | scan windows, bisect, save | overlapping scans, truncated pages | no log is counted twice or lost behind the watermark |
| scoring (`application/scoring`, `domain/scoring`) | histograms, windows, scores | aggregate, gate, recommend | sparse evidence | a supplier without evidence gets no recommendation |
| compatibility (`application/compatibility`) | the site's verdict, checks | check, store verdict | a verdict races a run | an incompatible site is read-only |
| runtime health (`application/runtimehealth`) | none of its own | aggregate metrics | - | numbers agree with the store |
| catalog (`application/catalog`, `catalog_*.go`) | tokens, product snapshots | snapshot, list | a plan changes under the reader | a snapshot describes one confirmed plan |
| authentication (`application/auth`, `storage/postgres/auth.go`) | first account, sessions, attempt counters | setup, login, logout | concurrent setup and login | one first account; attempts are limited |
| adapters (`adapters/gateway/newapi`, `adapters/supplier/openai`) | none | HTTP requests, classification of their failures | lost or broken answers | a failure is classed uncertain whenever it may have had an effect |
| HTTP transport, platform, web console | none | decode, route, start, stop | - | - |

### How they interact

* **Calls and transactions.**  A mutation, its plans, its operations and their jobs
  commit in one PostgreSQL transaction (`MutateOperations`), so a published plan always
  has an operation and a job.
* **Jobs.**  River delivers a job at least once: failed runs are retried up to ten
  times, jobs of dead processes are rescued.  Jobs of a site may run at the same time.
* **Locks.**  A site has one advisory lock.  Mutations take it for their transaction and
  give up when it is taken; a run takes it for its session, and a run that finds it taken
  returns an error to River.  Compatibility checks take none.
* **HTTP.**  A request to the gateway may be executed, not executed, or executed after
  the client gave up.  The managed PUT carries the state its sender read and is refused
  when the gateway has another; the older endpoints carry nothing of the kind.
* **Shared rows.**  Automation, evaluation and scoring read what collection and the runs
  wrote, and change relations through the same mutation transaction.

### Hazards

`PROJECT.json` lists the hazards, each with the line where it bites and the properties
that would show it going wrong.  Those the code does not master are in section 5.

## 2. Modules

| module | contents |
|---|---|
| `RouteContract` | the abstract specification of publication: a newest plan, what the gateway's parts carry, whether the newest plan is acknowledged |
| `SyncQueue` | the publication queue of one site in full: its actions, fairness, properties, and the refinement to `RouteContract` |
| `MCSyncQueue` | model values and symmetry for TLC |
| `SyncQueueProofs` | theorems about `SyncQueue` and their proofs: the lock, the gateway, the refinement; and what operations come to: none is forgotten, success is recorded consistently |
| `SiteReconcile` | one run endpoint by endpoint: the configuration, the snapshots made from it, `runSite` and New API with its own administrators |
| `SiteReconcileProofs` | theorems about `SiteReconcile` and their proofs |
| `MCSiteReconcile` | model values, sets of relations and symmetry for TLC |
| `ManagedSync` | one run through the managed endpoints, and the gateway behind them |
| `RotationContract` | the abstract specification of a credential rotation: which credential a gateway may get, when it is confirmed, when it is the current one |
| `Operations` | the operators' mutations of several sites that share a supplier, their request identities, the plans they publish; extends `ManagedSync`, which carries those out; and the refinement to `RotationContract` |
| `OperationsProofs` | theorems about `Operations` and their proofs |
| `MCOperations` | symmetry for TLC |
| `Evaluation` | evaluation runs from request to assessment and trusted reference |
| `EvaluationProofs` | theorems about runs, samples and keys of `Evaluation` and their proofs |
| `VerdictProofs` | theorems about its budget and its verdicts; extends `EvaluationProofs` |
| `MCEvaluation` | plans of samples, suppliers and symmetry for TLC |
| `WindowMetrics` | pure: minutes, histograms, percentiles, the four dimensions and the gates of a target's evidence |
| `WindowMetricsProofs` | theorems about its sums, percentiles and scores, for evidence of any size |
| `Scoring` | pure: weights, composite scores and the advice of `Recommend`; extends `WindowMetrics` |
| `Automation` | batches of scores, decisions, members, holds and the plans they make; extends `Scoring` |
| `AutomationProofs` | theorems about `Automation` and their proofs |
| `MCAutomation` | named evidence: a good one, a slow one, a broken one, one with an unmapped request |
| `NewAPILogs` | pure: the account of a request from its log records |
| `Collection` | collectors, watermark, windows, revisions, quarantine, minute tables; extends `NewAPILogs` |
| `CollectionProofs` | theorems about `Collection` and their proofs |
| `MCCollection` | the log records of a small traffic |

### `SyncQueue` against the code

| model | code |
|---|---|
| `latest`, `plan` | rows of `route_plans` and the relations' `current_plan_id`; a plan's content is its number |
| `op` | the status of the plan's row in `sync_operations` (one per plan, `ON CONFLICT (route_plan_id)`) |
| `relation` | `sync_status` of the site's relations, which the modelled statements write together |
| `site`, `compat` | the site's status and its compatibility status |
| `requested` | operations recorded by `CreateOperation` whose `Dispatch` has not happened |
| `jobs`, `inserted` | River's rows; `source` tells jobs inserted by a plan from unique jobs of the older request |
| `lock` | the holder of the session-level advisory lock |
| `gateway`, `late` | the plan written last to each part, and requests nobody waits for any more |
| `pc`, `job`, `mode`, `seen`, `result` | the locals of `Service.Run` in each worker |

Each statement or transaction of `Service.Run` that another process can observe is an
action: `Load`, `AcquireSiteLock`, `Supersede` / `Reload`, `Start`, `Read`, `Write` (or
`WriteUnknown`), `Written`, `Confirm`, `Verify`, `Complete`, `Fail`, `Release`, `Report`.
`Problem` is a classified failure, `Abort` the two-minute deadline or a database error,
which leave the operation as it is.  A mutation is one action, because its transaction
holds the site lock from start to commit; what a run sees that tries the lock meanwhile
is the outcome of `Abort`.

A worker's locals return to fixed values when its run ends (`Return`): they are dead
there, and TLC need not tell their values apart.

Abstracted: the content of plans, prices and credentials; the relations of a site, which
share one status; time, so a retry may come at any moment after the failure.  The
gateway's own administrators do not write in this module; they do in `SiteReconcile`.

### `SiteReconcile` against the code

`SyncQueue` asks who runs and when; `SiteReconcile` what a run does.  It takes from the
queue that runs and mutations of a site exclude each other and that a run works for the
newest plan (`WriterIsCurrent`), and that a failed operation is run again (`NoOrphan`).

| model | code |
|---|---|
| `desired`, `status` | `desired_status` and `sync_status` of `site_suppliers` |
| `held` | rows of `site_supplier_automation_holds` |
| `config`, `price`, `applied` | the number of a supplier's edits; the number of the newest published price version and whether its status is `applied` |
| `current`, `pending`, `made` | a supplier's current and pending credential versions; the versions stored |
| `latest`, `plan`, `planStatus`, `op` | the newest `route_plans` row, its snapshot, its status and that of its operation |
| `bound`, `last`, `keyed` | `external_channel_id`, `last_confirmed_enabled` and `last_confirmed_credential_version` of `managed_channels` |
| `chan`, `conf`, `key`, `ratio`, `ext`, `entries` | New API: channel status, configuration and key; the managed group ratios; one group ManyRouter does not manage; the user-selectable groups |
| `pc`, `todo`, `cur`, `seen`, `base`, `wrote` | the locals of `runSite` and `applyResource` |
| `halted`, `stopper` | history: the operators' own decisions to disable, and who answers for the manual status of a channel |
| `faults` | counter of failures and of edits made in New API; a bound only |

A run goes through `runSite` in the code's order: `Begin` (first read), `StopChannel`,
`ConfirmStop` / `ConfirmAbsent`, `ReadPrices`, `SetGroupRatios`, `ConfirmPrices`, then per
channel `Look`, `WriteChannel`, `BindWritten` / `BindFound`, `Enable`, `ConfirmApplied`,
and `ReadEntries`, `SetEntries`, `Complete`.  Each request to New API and each transaction
is a step of its own, since the run may fail or die, and an administrator may edit, between
any two.  `Disagree` is a read that is not what the run needs; `Fail` a request that fails,
is refused or whose answer is lost (a lost answer to a write that took place is the write
followed by `Fail`); `Crash` the death of the worker or its deadline.

Abstracted: a channel's readable configuration is one number; the managed ratios, which
New API keeps in one option, are one number; the order of relations within a phase is
free.  Left out: conflicting tags and bindings, the supplier's visibility flag, and the
model test's verdict, which is a `Fail` between `BindWritten` and `Enable`.

### `Operations` and `ManagedSync` against the code

| model | code |
|---|---|
| `supplier`, `sealed`, `revoked` | the supplier's row with its current and pending credential; `credentials` made, and those with `revoked_at` |
| `site`, `relation` | status and version of `sites`; `site_suppliers` |
| `price`, `plan`, `op`, `channel` | price versions of the site's group, `route_plans`, the newest plan's `sync_operations`, what was confirmed of the channel |
| `request`, `record`, `ask` | what a request identity stands for, its row in `idempotency_records`, the locals of `Execute` |
| `gateway`, `answered` | New API's managed state with its billing basis; the operation it answered last, which it replays |
| `run` | the locals of `runManagedSite` at each site |
| `taken`, `expired`; `faults`, `rebased` | history; bounds |

`Prepare` is `Execute` up to the transaction, with what it asks of the gateway; `Mutate` is
`MutateOperations`: the record is looked up under the lock of its key, the sites' locks are
tried, the mutation of `Apply` is made and plans are published for the sites it touches.
`Refuse` is a busy lock, a conflict or a death.  A run is `Start`, `Put` or `PutUnanswered`
(carried out, its answer lost), `Confirm`, `ConfirmPrices`, `Complete`; `Abort` ends it
anywhere.  The gateway compares the state a put expects and answers an operation identifier
it has seen from its record.

Abstracted: one supplier, one relation, group and channel per site; a credential is a
number with the version the gateway shows; creating sites and suppliers, names, visibility
and models are left out, strategies are in `Automation`.

### `Evaluation` against the code

| model | code |
|---|---|
| `run`, `sample`, `budget`, `fingerprint` | `evaluation_runs`, `evaluation_samples`, `evaluation_daily_budgets`, `evaluation_fingerprints` |
| `assessment`, `reference` | `authenticity_assessments` and `capability_assessments`; `trusted_model_references` |
| `job` | River's job of a run (`UniqueOpts.ByArgs`) |
| `ask`, `work` | the locals of `RequestRun` and of `ExecuteRun` |
| `paid` | history: how often a sample was sent to the supplier |

`Request` / `Sweep`, `Create`, `Dispatch`, `MarkUndispatched` are `RequestRun`; `Load`,
`Start`, `ListSamples`, `Reserve`, `Probe`, `Save`, `Reload`, `Condemn`, `SaveFingerprint`,
`Assess`, `Complete`, `FailRun` are `ExecuteRun` statement by statement; `Claim`, `Rescue`,
`Clean` are River's.  With `Overlap` a process that was suspended goes on after its job was
given to another.  A probe's answer is whether it succeeded and how its fingerprint compares;
which purpose is due is left open.

### `WindowMetrics`, `Scoring` and `Automation` against the code

| model | code |
|---|---|
| `batch`, `run` | `score_runs` with their snapshots and recommendations; `automation_runs` |
| `strategy`, `hold`, `desired`, `plan` | strategies with members and settings, holds, decisions, the newest plan and its outcome |
| `work` | the locals of `ProcessReady` and `Process` |

`ScoreSite` is `Refresh`; `BeginPass`, `Load`, `Freeze`, `FreezeIncompatible`, `NoChange`,
`Apply` are the job, `ProcessLatest` an operator's request; `Refuse`, `Fail` and `Die` end
them; `Operate` is an operator who saves strategies, modes and relations; `Confirm` and
`GiveUp` are the outcomes of the queue.  Facts are records of age, count and outcome;
evidence has names, so a batch says which evidence each target showed, and the scores are
computed from the facts by the code's own arithmetic in scaled integers.  Abstracted: the
lowest cost among peers is given, a fact is one attempt of a request, `LoadAutomationInput`
reads at one moment.

### `NewAPILogs` and `Collection` against the code

| model | code |
|---|---|
| `cursor` | the row of `collection_cursors` with its gap flag |
| `revisions`, `quarantined` | revisions of `measurement_requests` with their attempts; records set aside |
| `collector` | the locals of `collect` and the windows it has still to read |
| `through`, `counted` | the refresh of the minute tables and their rows |
| `visible` | the records the gateway shows: each appears at most `Delay` after its second |

`Load`, `Read`, `Split`, `ReadSecond`, `Save` are one collection; `WatermarkAhead`,
`SecondTooFull`, `SaveRefused`, `Fail`, `Die` end it.  A window is read at one moment; the
second of a log and the minute of a table are one unit of time.  The records that were due
before the behaviour begins are visible from its start.  The code, status and text of a
record are the error class each stands for, or a mark that no rule knows it or that it is
not there.

## 3. What TLC checks

| run | bounds | shows |
|---|---|---|
| `queue_managed` | two workers, two plans, two jobs of two attempts; managed writes, late requests executed or dropped; edits, syncs, the older request, disabling, verdicts | `TypeOK`; `WriterIsCurrent` and `FinishedStops` while the site is disabled and checked; `SuccessIsConsistent`; `NoOrphan`; `Publication` (the refinement) |
| `queue_legacy` | the same, two parts, both ways to write, changing between attempts | `ConfirmedIsApplied` for part-by-part writes that stop in the middle |
| `queue_live` | the same with managed writes and edits only, no symmetry; the lock's connection may break at any time; fairness | `EveryOperationSettles` |
| `site_publish` | two relations, four plans, two edits, two faults; decisions, holds, supplier edits, prices, explicit syncs | `TypeOK`; `PricedBeforeOpened`, `StopsFirst` (the order of phases survives failures and retries for other plans); `AppliedIsServed`, `SuccessIsTrue` (what is recorded is on the gateway) |
| `site_keys` | two relations, four plans, two credentials each, two faults; rotations, decisions, resumptions, supplier edits, stops, starts and deletions by hand | `RunsOnPlannedKey`, `AdminStopStands` |
| `site_live` | one relation, three plans, all controls but explicit syncs, edits also during runs, two faults; fairness | `Converges` |
| `site_operator_stop` | one relation, no faults | violates `OperatorStopStands` (section 5) |
| `operations` | two sites of one supplier, each deployed before or not; two clients repeating two requests of any kind, whose records expire once; three credentials, two prices, three plans per site; one lost answer, refused put or death; one change of a billing basis | `TakenOnce`, `NewestPlanIsCurrent`, `SuccessIsServed`, `RevokedIsNotInstalled`, `PromotedIsInstalled`; `Rotation` (the refinement) |
| `eval_execution` | one supplier, purposes of one and of two samples, a budget of two; two clients, two executors, two requests, one key, two attempts, one fault; a suspended executor may go on; fairness | `PaidOnce`, `BudgetCoversRuns`, `OneRunPerKey`, `SuccessIsMeasured`, `FinishedIsFinal`, `EveryRunSettles` |
| `eval_reference` | two suppliers, three runs over two days' worth of ticks, two references with an expiry; one executor, no faults | `ConsistentIsGrounded`, `InconsistentIsConfirmed` |
| `automation` | one relation, two Autos, four kinds of evidence, three batches; a job and an operator; one edit, one fault | `PercentilesAreNearestRanks`, `TakenOnce`, `NewestPlanIsCurrent`, `JoinsAreConfirmed`, `LeavesAreConfirmed`, `RiskIsNotDropped` |
| `collection` | two passes of the job, one of an operator; three small traffics, one record per page and type, an overlap of two seconds, records at most one second late, refreshes at two moments, one fault | `NothingSkipped`, `ChargedOnEvidence`, `QuarantineShows`, `PunctualFactsAreCounted` |

**Bounds.**  Two workers are any mix of processes and goroutines of the queue for two jobs
at a time; two plans are the least with an older and a newer one.  Two relations are what
the order of phases needs: one that is stopped or fails while the other is opened.  Four
plans let a relation be opened, stopped and opened again with an unrelated change in
between; with two faults a retry can fail as well, or a failure meet an edit.  In
`site_publish` and `site_keys` administrators edit between runs only, because those
properties speak of what the gateway is when nobody edits it during a run, as the documents
ask; `site_live` has them edit at any moment.  Two sites are the least on which a candidate
is confirmed at different times, and two clients the least that repeat a request while its
first call is between look-up and transaction.  Three credentials allow a rotation, its
replacement and one more after a cancellation.  In `eval_execution` two runs, of which one
uses up the budget, meet both executors on one run; a mismatch and its confirmation need two
runs of one supplier and a third for the reference.  Three batches are two in a row and a gap or a third;
the evidence of `MCAutomation` passes, fails, and misses the gates, each with enough samples
to be judged at all.  The traffic of `MCCollection` has a retry on another channel, two
attempts with one record, a record that cannot be used and a second fuller than a page.

`Controls` and `Kinds` choose what operators and checks do in a run; the system always has
them all, and the theorems hold for all of them.  `CHECK_DEADLOCK FALSE` is set where the
bounds are used up and nothing remains to be done; in `queue_managed` verdicts and disabling
go on for ever, and deadlock is checked.

The type invariants of `Operations`, `Automation` and `Collection` hold in the instances of
their runs too; the runs leave them out.

**Fairness** (`FairSpec`).  A run of the queue that was started goes on, whatever the gateway
does, because its context has a two-minute deadline (`ReconciliationWorker.Timeout`): weak
fairness of `Progress \/ Trouble` for each worker, which does not say that a run ever
succeeds.  River's producer fetches waiting jobs whenever a worker is idle, so a job that
waits again and again is claimed: strong fairness of claiming, per job.  River's rescuer
runs periodically: weak fairness of `Rescue`.  Nothing is assumed of operators, of the
gateway or of late requests.  `EveryOperationSettles` therefore has the alternative that a
job used up its attempts: a site that is busy ten times leaves its operation pending, and
the code says no more.

`SiteReconcile` has weak fairness of `Run`, the steps of a run that do not fail, including
the begin of a due one: the queue runs a due operation again, and faults are bounded, so
after the last of them the run only waits for New API's answers.  It says nothing of
operators or administrators, who may stop at any time.

`Evaluation` has weak fairness of a request's and of an executor's own steps, of River's
rescuer and cleaner, and strong fairness of claiming and of the sweep's look at each
unfinished run: the sweep is a periodic job (`evaluationPeriodicJobs`) that lists all of
them.  Nothing is assumed of operators or of what probes answer.

## 4. What is proved

`SyncQueueProofs` proves for all workers, parts, bounds and sets of controls:

| theorem | assumption | states |
|---|---|---|
| `TypeCorrect` | none, all faults | `Spec => []TypeOK` |
| `WriterWorksForNewest` | `~LockLoss` | `Spec => []WriterIsCurrent` |
| `ConfirmedPlanIsApplied` | `Ordered` | `Spec => []ConfirmedIsApplied` |
| `GatewayNeverRegresses` | `Ordered` | `Spec => NoRegress` |
| `QueueImplementsContract` | `Ordered` | `Spec => Publication` |

`Ordered` is `~LockLoss /\ (LateWrites => "legacy" \notin Modes)`.  Both parts are needed.
PostgreSQL frees a session lock with its connection, while the run's other statements use
other connections of the pool and never learn of it.  And the older endpoints of the
gateway compare nothing, so a request that is executed after its client gave up can undo
a newer plan; `docs/模块设计/New API同步与核对.md` says so itself.  The managed PUT carries the
state its sender read, which is what makes late requests harmless.

The argument has two inductive invariants.

* `LockInv`: a worker inside the locked region of `Run` holds the lock (`Exclusion`); the
  job it works on was inserted, so it is for a published plan (`JobsInUse`); and past its
  checks it works for the newest plan of an enabled site (`WriterIsCurrent`, which is not
  inductive alone: it needs the exclusion to survive another worker's `Reload`).  Mutations
  need the lock free, so none of them disturbs a writer.
* `ContentInv`: the numbers on the gateway and in what a worker saw are at most `latest`;
  every late request is a managed one whose plan is not older than anything in the state it
  expects, so when the gateway's comparison lets it through it writes forward (`Forward`,
  `ExecutedForward`); a worker past its verification (`Verified`) leaves every part of the
  gateway carrying the newest plan (`Everywhere`); and a confirmed newest plan is on every
  part (`ConfirmedIsApplied` itself).

The refinement `Publication` follows from the same invariants action by action
(`StepKinds`): `Mutate` is the contract's `Want`, `Write`, `WriteUnknown` and `Deliver` are
its `Apply`, `Complete` its `Acknowledge`, and the failures of the newest plan its
`Revoke`; every other step leaves the contract's variables alone.

`SiteReconcileProofs` proves for all relations, bounds and sets of controls:

| theorem | assumption | states |
|---|---|---|
| `TypeCorrect` | none | `Spec => []TypeOK` |
| `AppliedPriceIsServed` | none | `Spec => []AppliedIsServed` |
| `PricesComeFirst` | none | `Spec => PricedBeforeOpened` |
| `StopsComeFirst` | `Quiet` | `Spec => StopsFirst` |
| `EntriesComeLast` | `Quiet` | `Spec => EntryAfterChannel` |
| `ActiveRelationsAreServed` | `Undisturbed` | `Spec => []ActiveIsTrue` |
| `SucceededPlansAreServed` | `Undisturbed` | `Spec => []SuccessIsTrue` |
| `PlannedKeysAreUsed` | `Quiet`, no cancellations | `Spec => []RunsOnPlannedKey` |
| `PromotedKeysAreUsed` | `Quiet`, no cancellations | `Spec => PromotedIsInUse` |
| `ManualStopsStand` | `Quiet`, no holds | `Spec => AdminStopStands` |

`Quiet` says that nobody stops or deletes channels in New API during a run, `Undisturbed`
that nobody does at all.  The first three theorems hold whatever the administrators do.
`Undisturbed` is needed because a record cannot stay true of a gateway that others edit.
Without the conditions on cancellations and holds the last three are false, which
`site_cancelled_key` and `site_admin_stop` show: the theorems say that nothing else lifts
them.

The invariants follow the phases of `runSite`.  `PriceInv`: a run that is past
`ConfirmPrices` has found the newest plan's price in New API, and nobody but a run changes
it.  `StopInv`: while shutdowns go on, an unwanted channel is stopped or still to do and as
the run read it; afterwards all are stopped, and `Enable` opens wanted channels only.
`ServedInv`: what the run is done with is as planned.  `RecordInv`: a relation turns active
only when the run is done with it, and an operation succeeds only at the end of a run whose
last read agrees.  `KeyInv`: without cancellations the credential a plan carries only
grows, and the key in a channel lies between the one confirmed last and the plan's; so when
those two agree the key is the plan's, although nobody can read it.  `AdminInv`: an operator
answers for every relation the plan does not want, so a stop that an administrator answers
for is on a channel that was last confirmed as enabled, which is what the manual lock
recognises.  All six were checked with TLC before they were proved.

`EvaluationProofs` proves for all suppliers, purposes, plans, clients, executors and bounds,
with suspended executors and without:

| theorem | states |
|---|---|
| `TypeCorrect` | `Spec => []TypeOK` |
| `OneRunForAKey` | `Spec => []OneRunPerKey` |
| `NothingPaidTwice` | `Spec => []PaidOnce` |
| `SuccessMeansMeasured` | `Spec => []SuccessIsMeasured` |
| `FinishedStays` | `Spec => FinishedIsFinal` |

No assumption beyond `EvaluationAssumption` is needed, because the code relies on conditions
of single statements and on nothing that a second executor could make stale.  `TypeInv` adds
to the types what a request and a job point at.  `KeyInv`: two rows never share a key; only
`Create` inserts, and the unique index refuses.  `PaidInv`: a sample that nobody reserved is
unpaid; an executor about to probe has reserved its sample and not paid it, and no two are
about to probe the same one, since the reservation is an insertion that one of them loses.
`MeasuredInv`: whoever is past the last look at the samples works for a run whose samples
are all settled, settled samples stay, and an assessment counts them; an executor that finds a
sample uncertain fails the run instead.  A small calculus carries the proofs: every step
leaves the rows of runs alone, inserts one or moves one (`RunSteps`), and the same for
samples and assessments, so an invariant is checked against those shapes and not action by
action.

`VerdictProofs` goes on with

| theorem | assumption | states |
|---|---|---|
| `RunsStayInBudget` | none | `Spec => []BudgetCoversRuns` |
| `AuthenticityIsGrounded` | none | `Spec => []ConsistentIsGrounded` |
| `InconsistencyIsConfirmed` | `~Overlap` | `Spec => []InconsistentIsConfirmed` |

`BudgetInv`: only the insertion of a run changes a budget, and what a run asked for never
changes.  `ReferenceInv`: a reference that was chosen was trusted and another supplier's; rows
of references are only revoked.  `VerdictInv`: executors compare at a time that has come, and
a verdict of agreement was given before its reference expired or was revoked.  The third theorem
needs the order of assessments.  Without suspended processes a run has one executor
(`ExecutorInv`) and a subject one active run (`ActiveInv`), so whoever is about to assess does
it later than all assessments of the subject that exist (`SerialInv`), and what
`FindPreviousStableMismatch` returned is still the run before when the assessment is stored
(`ConfirmedInv`).  With suspended processes the property is false; section 5 says how.

The second part of `SyncQueueProofs` is about what operations come to:

| theorem | assumption | states |
|---|---|---|
| `NoOperationIsForgotten` | none, all faults | `Spec => []NoOrphan` |
| `SuccessIsConfirmed` | `~LockLoss` | `Spec => []SuccessIsConsistent` |
| `FinishedOperationsStop` | `~LockLoss` | `Spec => FinishedStops` |

`RunInv`: the job of a busy worker is running and no other worker's.  `OrphanInv`: an open
operation has a job that is kept; only a worker whose operation is finished lets River
complete its job, and whoever opens an operation again inserts a job with it.  `PlansInv`: the
newest plan's operation is not superseded.  `OutcomeInv`: a worker past its second look at the
operation works for one that is not finished, since whoever else could finish it needs the
lock; the relations turn active with the confirmation and stay so until the success.

`OperationsProofs` proves for all sites, clients, request identities and bounds, from
`CredentialAssumption`:

| theorem | states |
|---|---|
| `RequestsAreTakenOnce` | `Spec => []TakenOnce` |
| `PlansAreCurrent` | `Spec => []NewestPlanIsCurrent` |
| `SuccessServes` | `Spec => []SuccessIsServed` |
| `RevokedStaysOut` | `Spec => RevokedIsNotInstalled` |
| `PromotedIsThere` | `Spec => PromotedIsInstalled` |
| `OperationsImplementRotation` | `Spec => Rotation` |

`OpsInv` relates the tables, the runs and the gateways.  `Deployments`: a deployed site has
exactly one price in force.  `Credentials`: what is in use is not revoked, and the candidate
has a credential of its own.  `RunsAreCurrent`: a run holds its site's lock and mutations take
the locks of all sites they touch, so the plan it carries stays the newest and the credential
in it unrevoked; this is why a rotation cannot revoke what a run is about to send.
`AnswersServe`: the gateway is where the operation it remembers left it and serves that
operation's plan, so a replayed answer is a true one.  `ConfirmedIsInstalled`: a channel confirmed with
the candidate has it, which is what a promotion looks at.  `TakenInv` says what a request leaves
behind that keeps it from taking effect again when its record has expired: a greater version, a
deployment, a published draft.

The last theorem says that requests, plans, runs, version numbers and lost answers, seen from the
credentials, are nothing but a rotation.  `RotationContract` has neither; its gateways get the
candidate at any time, a channel comes into use only with the candidate, and the candidate becomes
current only when all channels in use have it.  The credentials made are `1 .. sealed`, the
candidate is the pending one, `inUse` are the sites whose channel is bound.  A rotation's
transaction is the contract's `Rotate`, a cancellation its `Cancel`, a PUT that the gateway carries
out is `Send`, whether or not its answer arrives, a confirmation is `Use`, and a completed
operation may be `Promote`; all else leaves the contract's variables alone.  `Send` needs that a
run's credential is still the candidate (`RunsAreCurrent`), `Use` that the gateway has it when the
run confirms, and `Promote` that what was confirmed with the candidate's version has the candidate
(`ConfirmedIsInstalled`).  `BoundIsThere`, a further invariant, says that the gateway has every
channel that was confirmed, so that no later confirmation takes a channel out of use.

`CollectionProofs` proves for every finite log, every table of bindings and any number of
collectors, from `LogsAssumption` and `BoundsAssumption`:

| theorem | assumption | states |
|---|---|---|
| `WatermarkFollows` | none | `Spec => WatermarkFollowsReading` |
| `LastingRecordsAreTaken` | first collection in time | `Spec /\ []InReach => []LastingAreTaken` |
| `NothingIsSkipped` | and every record is lasting | `Spec /\ []InReach => []NothingSkipped` |
| `QuarantineIsShown` | none | `Spec => []QuarantineShows` |
| `ChargesHaveEvidence` | none | `Spec => []ChargedOnEvidence` |
| `PunctualFactsCount` | none | `Spec => []PunctualFactsAreCounted` |

`CollectionInv` has five parts.  `SourceInv`: only records of the last `Delay` seconds may be
missing from the gateway.  `ReadInv`: the windows a collector has still to read follow one
another from its watermark to its start, and once it has read one it holds every record of it
that is behind the overlap, unless a second was read alone.  `FactInv`: an account was made
from visible, usable records of its request.  `CursorInv` and `CountInv` are types.
`InReach` says that the first collection comes within its look-back, as nothing before that is
meant to be read.  A record is `Lasting` if every account made with it shows it; the last
record of a request always is (`LastIsLasting`), a failed attempt is if the chain has a place
for it.  The traffic of `MCCollection` satisfies both hypotheses.

That nothing is skipped needs more than complete windows, because a commit drops an account
that ends before the current one.  `MarkInv`: a collector's watermark is not ahead of the
stored one and its window reaches back over the overlap.  `BehindInv`: stored accounts end
behind the watermark.  `OrderInv`: of two windows one was read later, and what both cover it
has too.  `OvertakeInv`: a collector whose watermark still holds has read the end of every
account that is newer than one of its records, unless an account has the record.  So the
account that a commit finds to be newer was made with the record, or it would have been in the
window.

`AutomationProofs` proves for all relations, Autos, models, evidence, callers and bounds, from
`AutomationAssumption`:

| theorem | states |
|---|---|
| `BatchesAreTakenOnce` | `Spec => []TakenOnce` |
| `NothingIsLeftOut` | `Spec => []NewestPlanIsCurrent` |
| `JoinsRestOnEvidence` | `Spec => JoinsAreConfirmed` |
| `LeavesRestOnEvidence` | `Spec => LeavesAreConfirmed` |
| `RiskIsActedOn` | `Spec => RiskIsNotDropped` |
| `PercentilesAreRanks` | `Spec => []PercentilesAreNearestRanks` |
| `JoinedIsKept` | evidence on which a candidate is advised to join advises a member to stay |

A decision is made on what was read before and applied later, so `AutomationInv` says what
survives in between.  `WorkFollows`: a caller holds a batch that was scored, and if the version
of an Auto is still the one it read, so are the members.  `BatchesFollow`: the advice stored
with a batch is `Recommend` of its own evidence and of that of a recent earlier batch.
`RunsFollow`: a batch that nobody took has changed nothing.  The three action properties
follow from these and from what `Decide` and `Recommend` return.

`WindowMetricsProofs` proves, for every finite set of facts and prices,

| theorem | states |
|---|---|
| `LatencyIsNearestRank` | a percentile read from a histogram is the nearest rank among the requests themselves |
| `ScoresAreInRange` | every score of a complete window is between 0 and 100 |

`PercentilesAreRanks` and `JoinedIsKept` rest on these two.  The sums of the model are folds over
sets, whose values are recursive functions on subsets, and the library's induction theorems
cannot be used.  What is needed of a sum is proved from a least counterexample instead: the
subsets of a finite set for which a statement fails are a set, and if it is not empty it has a
smallest element (`LeastSubset`).  So a sum does not depend on the order of its terms (`SumTakesAny`), adds
over disjoint sets (`SumOfUnion`) and keeps the bounds of its terms (`SumIsBounded`).  For the
percentiles, a histogram counts the requests of each bucket (`HistogramsCount`), its cumulated
counts are those of the requests up to a bound (`BucketsAreBounded`), and the code's rank in
integers is the least that is not below the percentile's share (`RankIsLeast`).  For the scores, a
metric is put between 0 and 100 (`NormalizedIsInRange`), the weights of a dimension are 100
percent, and no metric divides by zero in a complete window.  `JoinedIsKept` is why an Auto does
not join and drop a relation in turns: the line for joining is above the one for leaving, and sums
that both are compared with are natural numbers.  `AutomationAssumption` says
that the evidence of a case has finitely many facts, as a window of a database has;
`JoinedIsKept` and `ScoresAreInRange` ask it of their prices as well (`KnownEvidence`).

The invariants, as far as they are more than types, were checked with TLC on the instances of
the runs before they were proved.  `TypeOK` of `Evaluation` is proved and no longer part of a run.

Only model-checked: the liveness properties `EveryOperationSettles`, `Converges` and
`EveryRunSettles`, which are out of the prover's reach.  Every other property of the runs is
stated by a theorem.
Hypotheses of the theorems that the runs do not need are `InReach` and that all records are
lasting, which the instance satisfies, and `~Overlap`, where `eval_reference` has no second
executor.

## 5. Where documents and code differ

`site_operator_stop` is a run; each of the other configurations named here gives a
counterexample with the module of its component and is no part of the runs.

* `site_operator_stop.cfg`.  `ConfirmSiteSupplier` writes `desired_status = 'enabled'` with
  every confirmation of a resource, also that of a stop.  After an operator disabled a
  relation and the plan was carried out, the next plan of the site, made for any reason,
  wants the relation again.
* `queue_reclaimed.cfg`.  `Service.Run` compares the operation's plan with the current one
  before it looks at the operation's status.  A run that loaded the operation while it was
  open, and gets the lock after another job completed it and a newer plan was published,
  overwrites "succeeded" (and the plan's "confirmed") with "superseded".  The document on
  synchronisation says that a completed task returns its stored result.
* `queue_verdict.cfg`.  `CompleteSiteOperation` sets the site's verdict to "compatible"
  whatever it is.  A check that found the site incompatible during a run is undone by that
  run's success, and later plans are written automatically, although an incompatible site
  is documented to be read-only.
* `site_cancelled_key.cfg`.  A candidate credential is written to the channel before it is
  confirmed.  If the run fails after the write, for instance because the model test refuses
  the candidate, and the rotation is cancelled, then the fallback plan finds nothing to
  write: the channel's key cannot be read, and the credential confirmed last is the
  fallback's.  The plan succeeds while the channel still uses the cancelled credential.
* `site_admin_stop.cfg`.  When the automation holds a relation whose channel was stopped by
  hand, the stop is confirmed as ManyRouter's own (`last_confirmed_enabled = false`); after
  the recovery the channel is enabled, although the stop was never lifted explicitly.
* `operations_rotation.cfg`.  A rotation is promoted when every channel has confirmed the
  candidate (`docs/模块设计/站点与供应商接入.md` §10.5).  The managed endpoint shows a version
  number, and `CredentialApplied` infers from it whether the credential was written
  (`site_managed_sync.go:165`).  A cancelled rotation gives its number back; the next candidate
  with that number looks as if it were there already, nothing is written or confirmed, and the
  rotation stays open although every site has succeeded.
* `automation_recovery.cfg`.  A conflict with an operator's edit means that the batch is given
  up (`docs/模块设计/自动线路发布与故障恢复.md` §5.7).  In the code the refused batch stays ready
  (`automation_read.go:19`), and after a newer batch has applied a hold the older one may be
  decided on and lift it.
* `collection_failures.cfg`.  A success must not cover the failures before it
  (`docs/模块设计/真实流量采集与测量事实.md` §3.3).  When the overlap of a later collection
  begins between two records of a request, the account made of the later ones alone is stored
  as the newer revision, and the supplier's failure is gone from the facts
  (`measurement.go:247`).

Seen while modelling, not stated as properties:

* Collection and statistics.  Nothing resolves a quarantined record, so one bad record shows
  a gap for good (`ResolveMeasurementQuarantine` has no caller).  A site that writes more than
  10000 records of a type in a second and its overlap reads every second alone, without the overlap.  A second
  too full for its pages stops the collection there until the records go.  Facts collected more than
  ten minutes late are never counted in the minute tables, as those go back from the last
  refresh only.  The failure of a collection is cleared by the first window of the next one
  that succeeds.  A stream that broke off with a code and a text no rule knows is classed
  as incomplete, but `classifyInputError` leaves its responsibility unknown, so no supplier is
  charged for it; one without a code is the supplier's failure.
* Automation.  An urgent exclusion that also changes members is refused while a plan is on
  its way; incompatibility and stale scores freeze exclusions too; decisions of strategies in
  manual mode apply holds when another strategy changes; the flag that an entry was closed is
  not reset when an operator saves the strategy; a held relation has no traffic, so without probes it
  never shows the fifty samples that would lift its hold.
* Evaluation.  With `Overlap = TRUE`, two workers and one fault the instance of `eval_reference`
  violates `InconsistentIsConfirmed`.  An executor is suspended after it reserved a sample, its
  job is rescued, and a second executor is about to condemn the run for that sample.  The first
  stores its answer and its fingerprints, which agree, and is suspended again; the run is
  condemned, a new run of the same subject ends inconsistent, and then the first stores its
  older assessment: an agreement lies between the two mismatches that count as one another's
  confirmation.
* The answer of a managed PUT is checked and not read again.

## 6. Plan

Done: `SyncQueue`, `RouteContract`, `SiteReconcile`, `Operations` with `ManagedSync`,
`Evaluation`, `Automation` with `Scoring` and `WindowMetrics`, `Collection` with
`NewAPILogs`, `RotationContract`, and the theorems of section 4, which state every safety
property of the runs.  Next, in this order:

1. Onboarding's first plans and its idempotency records; the catalog's snapshots.
2. `FinishedIsFinal` for runs that failed: which parts of a failed run a suspended executor
   may still write.

## 7. What is not modelled, and why

Generated code is modelled where a component uses a statement (the statement is an operator
of that component); the rest of it, `apispec`, the HTTP transport, configuration, encryption,
the web console and the deployment files decode, wire or display and hold no protocol of
their own.  River and PostgreSQL are modelled from how the code uses them.

* Onboarding writes the first relation and a plan of the older format under the same locks as
  mutations; `SyncQueue`'s older request has what it leaves to the queue.
* Runtime health, lists and insights only read.
* The catalog's products are rebuilt by every read under one lock; a snapshot of older facts may
  get the newer version number, but every reader gets the one made of what it loaded.
* Authentication: the first account is made in one transaction that looks again under an
  advisory lock; sessions and attempt counters are single statements.
* Normalisation and the distance of fingerprints are text and vector computations; the models have their
  result as a choice.
