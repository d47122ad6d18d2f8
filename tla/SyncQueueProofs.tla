-------------------------- MODULE SyncQueueProofs --------------------------
(***************************************************************************)
(* Proofs about the publication queue, for every number of workers, plans, *)
(* jobs, attempts and parts: what is on the gateway, and, from "Jobs and   *)
(* the workers on them" on, what the operations, the plans and the         *)
(* relations say when a run has ended.                                     *)
(***************************************************************************)
EXTENDS SyncQueue, TLAPS

USE DEF Plans, Versions, Jobs, Gateway, Request, Job

LEMMA ModeExists == AnyMode \in Modes
BY ModesAssumption DEF AnyMode

\* A request writes plans only, whatever it finds.
LEMMA ExecutedType ==
    ASSUME gateway \in Gateway, NEW r \in Request
    PROVE  Executed(r) \in Gateway
<1>1. r.part \in Parts /\ r.plan \in 0 .. MaxPlans
  BY BoundsAssumption
<1> QED
  BY <1>1 DEF Executed

\* Type correctness: every step keeps every variable in its type, for every
\* number of workers, plans, jobs, attempts and parts.
THEOREM TypeCorrect == Spec => []TypeOK
<1>1. Init => TypeOK
  BY BoundsAssumption, ModeExists
  DEF Init, TypeOK, Nothing, PlanStatus, OpStatus, Relation, Compat, JobState,
      Outside, Locked, Writing, Kinds
<1>2. TypeOK /\ [Next]_vars => TypeOK'
  <2> SUFFICES ASSUME TypeOK, [Next]_vars PROVE TypeOK'
    OBVIOUS
  <2> USE BoundsAssumption DEF TypeOK, store, queue, remote, local
  <2>1. CASE Mutate
    BY <2>1 DEF Mutate, PublishPlan, InsertJob, PlanStatus, OpStatus, Relation, JobState
  <2>2. CASE Resync
    BY <2>2 DEF Resync, InsertJob, OpStatus, JobState
  <2>3. CASE RequestSync
    BY <2>3, SMTT(30) DEF RequestSync
  <2>4. ASSUME NEW p \in requested, Dispatch(p) PROVE TypeOK'
    <3>1. CASE InsertJob(p, "request")
      BY <2>4, <3>1, SMTT(30) DEF Dispatch, InsertJob, JobState
    <3>2. CASE UNCHANGED <<inserted, jobs>>
      BY <2>4, <3>2 DEF Dispatch
    <3> QED
      BY <2>4, <3>1, <3>2 DEF Dispatch
  <2>5. CASE DisableSite
    BY <2>5 DEF DisableSite
  <2>6. CASE EnableSite
    <3>1. CASE PublishPlan
      BY <2>6, <3>1, SMTT(30) DEF EnableSite, PublishPlan, InsertJob, PlanStatus, OpStatus, Relation,
                        JobState
    <3>2. CASE UNCHANGED <<latest, plan, op, relation, queue>>
      BY <2>6, <3>2 DEF EnableSite
    <3> QED
      BY <2>6, <3>1, <3>2 DEF EnableSite
  <2>7. ASSUME NEW verdict \in {"compatible", "incompatible"}, CheckCompatibility(verdict)
        PROVE TypeOK'
    BY <2>7 DEF CheckCompatibility, Compat
  <2>8. ASSUME NEW w \in Workers PROVE Work(w) => TypeOK'
    <3>1. ASSUME NEW j \in Jobs, Claim(w, j) PROVE TypeOK'
      <4>1. jobs[j] \in Job /\ jobs[j].attempt < MaxAttempts
        BY <3>1 DEF Claim
      <4>2. jobs[j].attempt \in Nat
        BY <4>1
      <4>3. /\ jobs[j].attempt + 1 \in 0 .. MaxAttempts
            /\ jobs[j].plan \in 0 .. MaxPlans /\ jobs[j].source \in {"plan", "request"}
        BY <4>1, <4>2, SMTT(30)
      <4>4. jobs' \in [Jobs -> Job]
        BY <3>1, <4>3 DEF Claim, SetJob, JobState
      <4>5. \A i \in Jobs : jobs'[i].state \in {"available", "retryable"} =>
                              jobs'[i].attempt < MaxAttempts
        BY <3>1 DEF Claim, SetJob
      <4> QED
        BY <3>1, <4>4, <4>5 DEF Claim, Goto, Outside
    <3>2. CASE Load(w)
      BY <3>2 DEF Load, Goto, Outside
    <3>3. CASE AcquireSiteLock(w)
      BY <3>3 DEF AcquireSiteLock, Goto, Outside, Locked
    <3>4. CASE Supersede(w)
      BY <3>4 DEF Supersede, Goto, Locked, PlanStatus, OpStatus
    <3>5. CASE Reload(w)
      BY <3>5 DEF Reload, Goto, Locked, Writing, Kinds
    <3>6. CASE Start(w)
      BY <3>6 DEF Start, Goto, Locked, Writing, PlanStatus, OpStatus, Relation
    <3>7. CASE Read(w)
      BY <3>7, SMTT(30) DEF Read, Goto, Locked, Writing
    <3>8. CASE Write(w)
      <4>1. PICK r \in Requests(w) :
               /\ gateway' = Executed(r)
               /\ seen' = [seen EXCEPT ![w] =
                              IF r.mode = "legacy" THEN [@ EXCEPT ![r.part] = r.plan]
                                                   ELSE gateway']
        BY <3>8 DEF Write
      <4>2. r \in Request /\ r.part \in Parts /\ r.plan \in 0 .. MaxPlans
        BY SMTT(30) DEF Requests
      <4>3. gateway' \in Gateway
        BY <4>1, <4>2, ExecutedType
      <4>4. [seen[w] EXCEPT ![r.part] = r.plan] \in Gateway
        BY <4>2
      <4>5. seen' \in [Workers -> Gateway]
        BY <4>1, <4>3, <4>4
      <4> QED
        BY <3>8, <4>3, <4>5 DEF Write, Goto, Locked, Writing
    <3>9. CASE Written(w)
      BY <3>9 DEF Written, Goto, Locked, Writing
    <3>10. CASE Confirm(w)
      BY <3>10 DEF Confirm, Goto, Locked, Writing, Relation
    <3>11. CASE Verify(w)
      BY <3>11 DEF Verify, Goto, Locked, Writing
    <3>12. CASE Complete(w)
      BY <3>12 DEF Complete, Goto, Locked, PlanStatus, OpStatus, Compat
    <3>13. CASE Fail(w)
      BY <3>13 DEF Fail, Goto, Locked, PlanStatus, OpStatus, Relation
    <3>14. CASE Release(w)
      BY <3>14 DEF Release, Goto, Outside
    <3>15. CASE Report(w)
      BY <3>15, ModeExists, SMTT(30) DEF Report, Return, Nothing, SetJob, AfterError, Goto, Outside, JobState
    <3>16. CASE WriteUnknown(w)
      <4>1. PICK r \in Requests(w) :
               \/ gateway' = Executed(r) /\ UNCHANGED late
               \/ UNCHANGED remote
               \/ LateWrites /\ late' = late \cup {r} /\ UNCHANGED gateway
        BY <3>16 DEF WriteUnknown
      <4>2. r \in Request
        BY DEF Requests
      <4>3. Executed(r) \in Gateway
        BY <4>2, ExecutedType
      <4>4. gateway' \in Gateway
        BY <4>1, <4>3
      <4>5. late' \in SUBSET Request
        BY <4>1, <4>2
      <4> QED
        BY <3>16, <4>4, <4>5 DEF WriteUnknown, Goto, Locked, Writing, Kinds
    <3>17. ASSUME NEW kind \in Kinds, Problem(w, kind) PROVE TypeOK'
      BY <3>17 DEF Problem, Goto, Locked, Writing
    <3>18. CASE Abort(w)
      BY <3>18 DEF Abort, Goto, Outside, Locked
    <3>19. CASE Crash(w)
      BY <3>19, ModeExists, SMTT(30) DEF Crash, Return, Nothing, Goto, Outside
    <3> QED
      BY <3>1, <3>2, <3>3, <3>4, <3>5, <3>6, <3>7, <3>8, <3>9, <3>10, <3>11, <3>12, <3>13,
         <3>14, <3>15, <3>16, <3>17, <3>18, <3>19
      DEF Work, Progress, Trouble
  <2>9. ASSUME NEW j \in Jobs, Rescue(j) PROVE TypeOK'
    BY <2>9 DEF Rescue, SetJob, AfterError, JobState
  <2>10. CASE LoseLock
    BY <2>10 DEF LoseLock
  <2>11. ASSUME NEW r \in late, Deliver(r) \/ Drop(r) PROVE TypeOK'
    <3>1. r \in Request
      OBVIOUS
    <3>2. Executed(r) \in Gateway
      BY <3>1, ExecutedType
    <3> QED
      BY <2>11, <3>2 DEF Deliver, Drop
  <2>12. CASE UNCHANGED vars
    BY <2>12 DEF vars
  <2> QED
    BY <2>1, <2>2, <2>3, <2>4, <2>5, <2>6, <2>7, <2>8, <2>9, <2>10, <2>11, <2>12
    DEF Next, Control, Environment
<1> QED
  BY <1>1, <1>2, PTL DEF Spec

-----------------------------------------------------------------------------
(* The lock: inductive as long as its connection does not break.             *)

\* Only slots below inserted are in use.
JobsInUse ==
    /\ \A j \in Jobs : j > inserted => jobs[j].state = "none"
    /\ \A w \in Workers : pc[w] # "idle" => job[w] <= inserted

\* The lock is held exactly through the locked region of Run.
Exclusion == \A w \in Workers : pc[w] \in Locked <=> lock = w

LockInv == JobsInUse /\ Exclusion /\ WriterIsCurrent

\* What a step without the lock may do to a worker inside its locked region.
LEMMA Bystanders ==
    ASSUME TypeOK, LockInv,
           UNCHANGED <<pc, job, lock, latest, site>>,
           inserted' \in Nat, inserted' >= inserted,
           \A j \in Jobs : j <= inserted => jobs'[j].plan = jobs[j].plan,
           \A j \in Jobs : j > inserted' => jobs'[j] = jobs[j]
    PROVE  LockInv'
<1>1. inserted \in Nat /\ job \in [Workers -> Jobs]
  BY DEF TypeOK
<1>2. JobsInUse'
  BY <1>1 DEF LockInv, JobsInUse
<1>3. Exclusion'
  BY DEF LockInv, Exclusion
<1>4. \A w \in Workers : pc[w] # "idle" => PlanOf(w)' = PlanOf(w)
  BY <1>1 DEF LockInv, JobsInUse, PlanOf
<1>5. WriterIsCurrent'
  BY <1>4 DEF LockInv, WriterIsCurrent, Writing
<1> QED
  BY <1>2, <1>3, <1>5 DEF LockInv

\* A change of the newest plan or of the site while the lock is free.
LEMMA LockIsFree ==
    ASSUME TypeOK, LockInv, lock = NoWorker,
           UNCHANGED <<pc, job, lock>>,
           inserted' \in Nat, inserted' >= inserted,
           \A j \in Jobs : j > inserted' => jobs'[j] = jobs[j]
    PROVE  LockInv'
<1>1. inserted \in Nat /\ job \in [Workers -> Jobs]
  BY DEF TypeOK
<1>2. JobsInUse'
  BY <1>1 DEF LockInv, JobsInUse
<1>3. Exclusion'
  BY DEF LockInv, Exclusion
<1>4. \A w \in Workers : pc[w] \notin Locked
  BY WorkersAssumption DEF LockInv, Exclusion
<1>5. WriterIsCurrent'
  BY <1>4 DEF WriterIsCurrent, Locked
<1> QED
  BY <1>2, <1>3, <1>5 DEF LockInv

LEMMA LockStep ==
    ASSUME ~LockLoss, TypeOK, LockInv, [Next]_vars
    PROVE  LockInv'
<1> USE BoundsAssumption DEF TypeOK, store, queue, remote, local
<1>1. CASE Mutate
  BY <1>1, LockIsFree, SMTT(30) DEF Mutate, PublishPlan, InsertJob
<1>2. CASE Resync
  <2>1. /\ lock = NoWorker /\ UNCHANGED <<pc, job, lock>>
        /\ inserted' \in Nat /\ inserted' >= inserted
    BY <1>2 DEF Resync, InsertJob
  <2>2. \A j \in Jobs : j > inserted' => jobs'[j] = jobs[j]
    BY <1>2 DEF Resync, InsertJob
  <2> QED
    BY <2>1, <2>2, LockIsFree
<1>3. CASE RequestSync
  BY <1>3, Bystanders, SMTT(30) DEF RequestSync
<1>4. ASSUME NEW p \in requested, Dispatch(p) PROVE LockInv'
  <2>1. CASE InsertJob(p, "request")
    BY <1>4, <2>1, Bystanders, SMTT(30) DEF Dispatch, InsertJob
  <2>2. CASE UNCHANGED <<inserted, jobs>>
    BY <1>4, <2>2, Bystanders DEF Dispatch
  <2> QED
    BY <1>4, <2>1, <2>2 DEF Dispatch
<1>5. CASE DisableSite
  BY <1>5, LockIsFree DEF DisableSite
<1>6. CASE EnableSite
  <2>1. CASE PublishPlan
    BY <1>6, <2>1, LockIsFree, SMTT(30) DEF EnableSite, PublishPlan, InsertJob
  <2>2. CASE UNCHANGED <<latest, plan, op, relation, queue>>
    BY <1>6, <2>2, LockIsFree DEF EnableSite
  <2> QED
    BY <1>6, <2>1, <2>2 DEF EnableSite
<1>7. ASSUME NEW verdict \in {"compatible", "incompatible"}, CheckCompatibility(verdict)
      PROVE LockInv'
  BY <1>7, Bystanders, SMTT(30) DEF CheckCompatibility
<1>8. ASSUME NEW w \in Workers PROVE Work(w) => LockInv'
  <2> USE WorkersAssumption DEF LockInv, JobsInUse, Exclusion, WriterIsCurrent, PlanOf,
                                Goto, Writing, Locked, Outside
  <2>1. ASSUME NEW j \in Jobs, Claim(w, j) PROVE LockInv'
    BY <2>1, SMTT(30) DEF Claim, SetJob
  <2>2. ASSUME NEW kind \in Kinds, Problem(w, kind) PROVE LockInv'
    BY <2>2 DEF Problem
  <2>3. CASE Load(w)
    BY <2>3, SMTT(30) DEF Load
  <2>4. CASE AcquireSiteLock(w)
    BY <2>4, SMTT(30) DEF AcquireSiteLock
  <2>5. CASE Supersede(w)
    BY <2>5 DEF Supersede
  <2>6. CASE Reload(w)
    BY <2>6, SMTT(30) DEF Reload
  <2>7. CASE Start(w)
    BY <2>7 DEF Start
  <2>8. CASE Read(w)
    BY <2>8 DEF Read
  <2>9. CASE Write(w)
    BY <2>9, SMTT(30) DEF Write
  <2>10. CASE Written(w)
    BY <2>10 DEF Written
  <2>11. CASE Confirm(w)
    BY <2>11 DEF Confirm
  <2>12. CASE Verify(w)
    BY <2>12 DEF Verify
  <2>13. CASE Complete(w)
    BY <2>13 DEF Complete
  <2>14. CASE Fail(w)
    BY <2>14 DEF Fail
  <2>15. CASE Release(w)
    BY <2>15 DEF Release
  <2>16. CASE Report(w)
    <3>1. pc[w] = "report" /\ job[w] \in Jobs /\ job[w] <= inserted
      BY <2>16 DEF Report
    <3>2. PICK s : jobs' = [jobs EXCEPT ![job[w]] =
                               [plan |-> jobs[job[w]].plan, state |-> s,
                                attempt |-> jobs[job[w]].attempt,
                                source |-> jobs[job[w]].source]]
      BY <2>16 DEF Report, SetJob
    <3>3. \A j \in Jobs : jobs'[j].plan = jobs[j].plan
      BY <3>1, <3>2
    <3>4. \A j \in Jobs : j > inserted => jobs'[j].state = "none"
      BY <3>1, <3>2
    <3> QED
      BY <2>16, <3>3, <3>4 DEF Report, Return
  <2>17. CASE WriteUnknown(w)
    BY <2>17 DEF WriteUnknown
  <2>18. CASE Abort(w)
    BY <2>18 DEF Abort
  <2>19. CASE Crash(w)
    BY <2>19 DEF Crash, Return
  <2> QED
    BY <2>1, <2>2, <2>3, <2>4, <2>5, <2>6, <2>7, <2>8, <2>9, <2>10,
       <2>11, <2>12, <2>13, <2>14, <2>15, <2>16, <2>17, <2>18, <2>19
    DEF Work, Progress, Trouble
<1>9. ASSUME NEW j \in Jobs, Rescue(j) PROVE LockInv'
  BY <1>9 DEF Rescue, SetJob, LockInv, JobsInUse, Exclusion, WriterIsCurrent, PlanOf
<1>10. CASE LoseLock
  BY <1>10 DEF LoseLock
<1>11. ASSUME NEW r \in late, Deliver(r) \/ Drop(r) PROVE LockInv'
  <2>1. UNCHANGED <<store, queue, lock, local>>
    BY <1>11 DEF Deliver, Drop
  <2> QED
    BY <2>1, Bystanders
<1>12. CASE UNCHANGED vars
  BY <1>12, Bystanders DEF vars
<1> QED
  BY <1>1, <1>2, <1>3, <1>4, <1>5, <1>6, <1>7, <1>8, <1>9, <1>10, <1>11, <1>12
  DEF Next, Control, Environment

LEMMA LockInvariant == ASSUME ~LockLoss PROVE Spec => []LockInv
<1>1. Init => LockInv
  BY WorkersAssumption
  DEF Init, LockInv, JobsInUse, Exclusion, WriterIsCurrent, Writing, Locked
<1>2. TypeOK /\ LockInv /\ [Next]_vars => LockInv'
  BY LockStep
<1> QED
  BY <1>1, <1>2, TypeCorrect, PTL DEF Spec

\* Whoever is past the checks under the lock works alone, for the newest plan
\* of an enabled site, as long as the lock's connection does not break.
THEOREM WriterWorksForNewest == ASSUME ~LockLoss PROVE Spec => []WriterIsCurrent
<1>1. LockInv => WriterIsCurrent
  BY DEF LockInv
<1> QED
  BY <1>1, LockInvariant, PTL

-----------------------------------------------------------------------------
(* The content of the gateway: inductive when the lock's connection does not *)
(* break and late requests are refused by the gateway's comparison of states. *)

Ordered == ~LockLoss /\ (LateWrites => "legacy" \notin Modes)

\* A request whose execution, now or later, does not take the gateway back.
Forward(r) ==
    /\ r.plan <= latest
    /\ r.mode = "managed" => \A x \in Parts : r.expected[x] <= r.plan
    /\ r.mode = "legacy" => r.plan = latest

\* The run of w is past its check that the gateway carries the plan.
Verified(w) == pc[w] = "complete" \/ (pc[w] = "confirm" /\ mode[w] = "managed")

Everywhere == \A x \in Parts : gateway[x] = latest

ContentInv ==
    /\ \A x \in Parts : gateway[x] <= latest
    /\ \A w \in Workers : \A x \in Parts : seen[w][x] <= latest
    /\ \A r \in late : r.mode = "managed" /\ Forward(r)
    /\ \A w \in Workers : Verified(w) => Everywhere
    /\ ConfirmedIsApplied

LEMMA Numbers ==
    ASSUME TypeOK
    PROVE  /\ latest \in Nat
           /\ gateway \in [Parts -> Nat]
           /\ \A w \in Workers : seen[w] \in [Parts -> Nat]
           /\ \A r \in Request : r.plan \in Nat /\ r.mode \in {"managed", "legacy"}
<1>1. latest \in Nat /\ gateway \in [Parts -> 0 .. MaxPlans]
  BY BoundsAssumption DEF TypeOK
<1>2. gateway \in [Parts -> Nat]
  BY <1>1
<1>3. ASSUME NEW w \in Workers PROVE seen[w] \in [Parts -> Nat]
  <2>1. seen[w] \in [Parts -> 0 .. MaxPlans]
    BY DEF TypeOK
  <2> QED
    BY <2>1
<1>4. ASSUME NEW r \in Request PROVE r.plan \in Nat /\ r.mode \in {"managed", "legacy"}
  <2>1. r.plan \in 1 .. MaxPlans /\ r.mode \in Modes
    OBVIOUS
  <2>2. r.plan \in Nat
    BY <2>1
  <2>3. r.mode \in {"managed", "legacy"}
    BY <2>1, ModesAssumption
  <2> QED
    BY <2>2, <2>3
<1> QED
  BY <1>1, <1>2, <1>3, <1>4

\* A request the gateway executes moves it forward, to published plans only.
LEMMA ExecutedForward ==
    ASSUME TypeOK, ContentInv, NEW r \in Request, Forward(r)
    PROVE  \A x \in Parts : gateway[x] <= Executed(r)[x] /\ Executed(r)[x] <= latest
<1>1. latest \in Nat /\ r.plan \in Nat /\ r.mode \in {"managed", "legacy"}
  BY Numbers
<1>2. gateway \in [Parts -> Nat]
  BY Numbers
<1>3. \A x \in Parts : gateway[x] <= latest
  BY DEF ContentInv
<1>4. CASE r.mode = "legacy"
  BY <1>1, <1>2, <1>3, <1>4 DEF Executed, Forward
<1>5. CASE r.mode = "managed"
  BY <1>1, <1>2, <1>3, <1>5 DEF Executed, Forward
<1> QED
  BY <1>1, <1>4, <1>5

\* What a run may send at its writing step.
LEMMA RequestsForward ==
    ASSUME TypeOK, LockInv, ContentInv, NEW w \in Workers, pc[w] = "write",
           NEW r \in Requests(w)
    PROVE  r \in Request /\ Forward(r)
<1>1. PlanOf(w) = latest
  BY DEF LockInv, WriterIsCurrent, Writing
<1>2. r \in Request /\ r.plan = latest /\ r.expected = seen[w]
  BY <1>1 DEF Requests
<1>3. \A x \in Parts : seen[w][x] <= latest
  BY DEF ContentInv
<1>4. latest \in Nat
  BY BoundsAssumption DEF TypeOK
<1> QED
  BY <1>2, <1>3, <1>4 DEF Forward

\* What every step that publishes nothing must show.
Careful ==
    /\ latest' = latest
    /\ \/ UNCHANGED gateway
       \/ UNCHANGED plan /\ \E r \in Request : r.plan <= latest /\ gateway' = Executed(r)
    /\ \A x \in Parts : gateway[x] <= gateway'[x] /\ gateway'[x] <= latest
    /\ \A w \in Workers : \A x \in Parts : seen'[w][x] <= latest
    /\ \A r \in late' : r.mode = "managed" /\ Forward(r)
    /\ \A w \in Workers : Verified(w)' => Verified(w) \/ Everywhere'
    /\ plan'[latest] = "confirmed" => plan[latest] = "confirmed" \/ Everywhere

LEMMA CarefulKeeps ==
    ASSUME TypeOK, TypeOK', ContentInv, Careful
    PROVE  ContentInv'
<1>0. gateway' \in [Parts -> Nat]
  <2>1. gateway' \in [Parts -> 0 .. MaxPlans]
    BY DEF TypeOK
  <2> QED
    BY <2>1
<1>1. latest \in Nat /\ gateway \in [Parts -> Nat] /\ gateway' \in [Parts -> Nat]
  BY <1>0, Numbers
<1>2. Everywhere => Everywhere'
  BY <1>1 DEF Careful, Everywhere
<1>3. \A w \in Workers : Verified(w)' => Everywhere'
  BY <1>2 DEF Careful, ContentInv
<1>4. ConfirmedIsApplied'
  <2> SUFFICES ASSUME latest' > 0, plan'[latest'] = "confirmed" PROVE Everywhere'
    BY DEF ConfirmedIsApplied, Everywhere
  <2>1. CASE plan[latest] = "confirmed"
    BY <1>2, <2>1 DEF Careful, ContentInv, ConfirmedIsApplied, Everywhere
  <2>2. CASE Everywhere
    BY <1>2, <2>2
  <2> QED
    BY <2>1, <2>2 DEF Careful
<1>5. \A r \in late' : r.mode = "managed" /\ Forward(r)'
  BY DEF Careful, Forward
<1> QED
  BY <1>3, <1>4, <1>5 DEF Careful, ContentInv

\* Publishing a plan: nobody is writing, and the new plan is not confirmed.
LEMMA PublishingKeeps ==
    ASSUME TypeOK, LockInv, ContentInv, lock = NoWorker, PublishPlan,
           UNCHANGED <<remote, local>>
    PROVE  ContentInv'
<1>1. /\ latest \in Nat /\ latest' = latest + 1 /\ latest' \in Plans
      /\ plan' = [plan EXCEPT ![latest'] = "pending"]
  BY BoundsAssumption DEF TypeOK, PublishPlan
<1>2. plan'[latest'] = "pending"
  BY <1>1 DEF TypeOK
<1>3. gateway \in [Parts -> Nat] /\ seen \in [Workers -> [Parts -> Nat]]
  BY BoundsAssumption DEF TypeOK
<1>4. \A w \in Workers : ~Verified(w)
  BY WorkersAssumption DEF LockInv, Exclusion, Locked, Writing, Verified
<1>5. \A w \in Workers : ~Verified(w)'
  BY <1>4 DEF Verified, local
<1>6. /\ \A x \in Parts : gateway'[x] <= latest'
      /\ \A w \in Workers : \A x \in Parts : seen'[w][x] <= latest'
  BY <1>1, <1>3 DEF ContentInv, remote, local
<1>7. \A r \in late' : r.mode = "managed" /\ Forward(r)'
  <2> SUFFICES ASSUME NEW r \in late PROVE r.mode = "managed" /\ Forward(r)'
    BY DEF remote
  <2>1. r.mode = "managed" /\ Forward(r) /\ r.plan \in Nat
    BY DEF ContentInv, TypeOK
  <2> QED
    BY <1>1, <2>1 DEF Forward
<1> QED
  BY <1>2, <1>5, <1>6, <1>7 DEF ContentInv, ConfirmedIsApplied

\* The step relation, sorted: publications and careful steps.
LEMMA StepKinds ==
    ASSUME Ordered, TypeOK, TypeOK', LockInv, ContentInv, [Next]_vars
    PROVE  Careful \/ (lock = NoWorker /\ PublishPlan /\ UNCHANGED <<remote, local>>)
<1>0. /\ latest \in Nat /\ gateway \in [Parts -> Nat]
      /\ \A w \in Workers : seen[w] \in [Parts -> Nat]
      /\ pc \in [Workers -> Outside \cup Locked] /\ mode \in [Workers -> Modes]
      /\ seen \in [Workers -> Gateway] /\ plan \in [Plans -> PlanStatus]
      /\ Modes \subseteq {"managed", "legacy"}
  BY Numbers, ModesAssumption DEF TypeOK
<1>1. ASSUME UNCHANGED <<latest, remote, local>>,
             plan'[latest] = "confirmed" => plan[latest] = "confirmed"
      PROVE  Careful
  BY <1>0, <1>1 DEF Careful, ContentInv, Verified, remote, local
<1>2. ASSUME Control
      PROVE  Careful \/ (lock = NoWorker /\ PublishPlan /\ UNCHANGED <<remote, local>>)
  BY <1>1, <1>2 DEF Control, Mutate, Resync, RequestSync, Dispatch, DisableSite, EnableSite,
     CheckCompatibility, store
<1>3. ASSUME NEW w \in Workers, Work(w) PROVE Careful
  <2> USE <1>0 DEF store, queue, remote, local, Goto
  <2>1. ASSUME UNCHANGED <<latest, gateway, late>>,
               \A v \in Workers \ {w} : /\ pc'[v] = pc[v] /\ mode'[v] = mode[v]
                                        /\ seen'[v] = seen[v],
               \A x \in Parts : seen'[w][x] <= latest,
               Verified(w)' => Verified(w) \/ Everywhere,
               plan'[latest] = "confirmed" => plan[latest] = "confirmed" \/ Everywhere
        PROVE Careful
    <3>1. \A v \in Workers : Verified(v)' => Verified(v) \/ Everywhere'
      BY <2>1 DEF Verified, Everywhere
    <3>2. \A v \in Workers : \A x \in Parts : seen'[v][x] <= latest
      BY <2>1 DEF ContentInv
    <3> QED
      BY <2>1, <3>1, <3>2 DEF Careful, ContentInv
  <2>2. \A x \in Parts : seen[w][x] <= latest /\ gateway[x] <= latest /\ Nothing[x] <= latest
    BY DEF ContentInv, Nothing
  <2>3. ASSUME UNCHANGED <<latest, gateway, late, seen, mode>>, UNCHANGED plan,
               NEW label \in (Outside \cup Locked) \ {"complete", "confirm"},
               Goto(w, label)
        PROVE Careful
    BY <2>1, <2>2, <2>3 DEF Verified
  <2>4. pc[w] \in Writing => PlanOf(w) = latest
    BY DEF LockInv, WriterIsCurrent
  <2>5. ASSUME NEW j \in Jobs, Claim(w, j) PROVE Careful
    BY <2>3, <2>5 DEF Claim, Outside
  <2>6. CASE Load(w)
    BY <2>3, <2>6 DEF Load, Outside
  <2>7. CASE AcquireSiteLock(w)
    BY <2>3, <2>7 DEF AcquireSiteLock, Outside, Locked
  <2>8. CASE Supersede(w)
    BY <2>1, <2>2, <2>8 DEF Supersede, Verified
  <2>9. CASE Reload(w)
    BY <2>3, <2>9 DEF Reload, Locked, Writing
  <2>10. CASE Start(w)
    BY <2>1, <2>2, <2>10 DEF Start, Verified
  <2>11. CASE Read(w)
    BY <2>1, <2>2, <2>11 DEF Read, Verified
  <2>12. CASE Write(w)
    <3>1. PICK r \in Requests(w) :
             /\ r.mode = "managed" => gateway = r.expected
             /\ gateway' = Executed(r)
             /\ seen' = [seen EXCEPT ![w] =
                            IF r.mode = "legacy" THEN [@ EXCEPT ![r.part] = r.plan]
                                                 ELSE gateway']
      BY <2>12 DEF Write
    <3>2. /\ r \in Request /\ Forward(r) /\ r.plan = latest /\ r.mode = mode[w]
          /\ r.mode \in {"managed", "legacy"}
      BY <2>4, <2>12, RequestsForward, Numbers DEF Requests, Write, Writing
    <3>3. \A x \in Parts : gateway[x] <= gateway'[x] /\ gateway'[x] <= latest
      BY <3>1, <3>2, ExecutedForward
    <3>4. \A x \in Parts : seen'[w][x] <= latest
      BY <2>2, <3>1, <3>2, <3>3
    <3>5. r.mode = "managed" => Everywhere'
      BY <2>12, <3>1, <3>2 DEF Executed, Everywhere, Write
    <3>6. \A v \in Workers : Verified(v)' => Verified(v) \/ Everywhere'
      BY <2>12, <3>2, <3>5 DEF Write, Verified
    <3>7. \A v \in Workers : \A x \in Parts : seen'[v][x] <= latest
      BY <3>1, <3>4 DEF ContentInv
    <3> QED
      BY <2>12, <3>1, <3>2, <3>3, <3>6, <3>7 DEF Careful, Write, ContentInv, Forward
  <2>13. CASE Written(w)
    BY <2>1, <2>2, <2>13 DEF Written, Verified
  <2>14. CASE Confirm(w)
    BY <2>1, <2>2, <2>14 DEF Confirm, Verified
  <2>15. CASE Verify(w)
    BY <2>1, <2>2, <2>4, <2>15 DEF Verify, Everywhere, Writing
  <2>16. CASE Complete(w)
    BY <2>1, <2>2, <2>16 DEF Complete, Verified, ContentInv
  <2>17. CASE Fail(w)
    BY <2>1, <2>2, <2>17 DEF Fail, Verified
  <2>18. CASE Release(w)
    BY <2>3, <2>18 DEF Release, Outside
  <2>19. CASE Report(w) \/ Crash(w)
    BY <2>1, <2>2, <2>19 DEF Report, Crash, Return, Verified
  <2>20. CASE WriteUnknown(w)
    <3>1. PICK r \in Requests(w) :
             \/ gateway' = Executed(r) /\ UNCHANGED late
             \/ UNCHANGED remote
             \/ LateWrites /\ late' = late \cup {r} /\ UNCHANGED gateway
      BY <2>20 DEF WriteUnknown
    <3>2. r \in Request /\ Forward(r) /\ r.mode \in Modes
      BY <2>20, RequestsForward DEF Requests, WriteUnknown
    <3>3. \A x \in Parts : gateway[x] <= gateway'[x] /\ gateway'[x] <= latest
      BY <3>1, <3>2, ExecutedForward DEF ContentInv
    <3>4. LateWrites => r.mode = "managed"
      BY <3>2 DEF Ordered
    <3>5. \A s \in late' : s.mode = "managed" /\ Forward(s)
      BY <3>1, <3>2, <3>4 DEF ContentInv
    <3>6. \A v \in Workers : Verified(v)' => Verified(v)
      BY <2>20 DEF WriteUnknown, Verified
    <3> QED
      BY <2>20, <3>1, <3>2, <3>3, <3>5, <3>6 DEF Careful, WriteUnknown, ContentInv, Forward
  <2>21. ASSUME NEW kind \in Kinds, Problem(w, kind) PROVE Careful
    BY <2>3, <2>21 DEF Problem, Locked, Writing
  <2>22. CASE Abort(w)
    BY <2>3, <2>22 DEF Abort, Outside, Locked
  <2> QED
    BY <1>3, <2>5, <2>6, <2>7, <2>8, <2>9, <2>10, <2>11, <2>12, <2>13, <2>14, <2>15,
       <2>16, <2>17, <2>18, <2>19, <2>20, <2>21, <2>22
    DEF Work, Progress, Trouble
<1>4. ASSUME Environment PROVE Careful
  <2>1. ASSUME NEW j \in Jobs, Rescue(j) PROVE Careful
    BY <1>1, <2>1 DEF Rescue, store
  <2>2. CASE LoseLock
    BY <2>2 DEF LoseLock, Ordered
  <2>3. ASSUME NEW r \in late, Deliver(r) PROVE Careful
    <3>1. r \in Request /\ Forward(r)
      BY DEF TypeOK, ContentInv
    <3>2. \A x \in Parts : gateway[x] <= gateway'[x] /\ gateway'[x] <= latest
      BY <2>3, <3>1, ExecutedForward DEF Deliver
    <3>3. \A v \in Workers : Verified(v)' => Verified(v)
      BY <2>3 DEF Deliver, Verified, local
    <3> QED
      BY <2>3, <3>1, <3>2, <3>3 DEF Careful, Deliver, ContentInv, Forward, store, local
  <2>4. ASSUME NEW r \in late, Drop(r) PROVE Careful
    BY <1>0, <2>4 DEF Careful, Drop, ContentInv, Verified, store, local
  <2> QED
    BY <1>4, <2>1, <2>2, <2>3, <2>4 DEF Environment
<1>5. CASE UNCHANGED vars
  BY <1>1, <1>5 DEF vars, store
<1> QED
  BY <1>2, <1>3, <1>4, <1>5 DEF Next

LEMMA ContentInvariant == ASSUME Ordered PROVE Spec => []ContentInv
<1>1. Init => ContentInv
  BY BoundsAssumption
  DEF Init, ContentInv, Nothing, Verified, Everywhere, ConfirmedIsApplied
<1>2. TypeOK /\ TypeOK' /\ LockInv /\ ContentInv /\ [Next]_vars => ContentInv'
  BY StepKinds, CarefulKeeps, PublishingKeeps
<1>3. ~LockLoss
  BY DEF Ordered
<1> QED
  BY <1>1, <1>2, <1>3, TypeCorrect, LockInvariant, PTL DEF Spec

\* The newest plan is confirmed only while the whole gateway carries it.
THEOREM ConfirmedPlanIsApplied == ASSUME Ordered PROVE Spec => []ConfirmedIsApplied
<1>1. ContentInv => ConfirmedIsApplied
  BY DEF ContentInv
<1> QED
  BY <1>1, ContentInvariant, PTL

\* The gateway never goes back to an older plan.
THEOREM GatewayNeverRegresses == ASSUME Ordered PROVE Spec => NoRegress
<1>1. TypeOK /\ TypeOK' /\ LockInv /\ ContentInv /\ [Next]_vars
        => [\A x \in Parts : gateway'[x] >= gateway[x]]_vars
  <2> SUFFICES ASSUME TypeOK, TypeOK', LockInv, ContentInv, [Next]_vars
               PROVE  \A x \in Parts : gateway'[x] >= gateway[x]
    OBVIOUS
  <2>1. gateway \in [Parts -> Nat]
    BY Numbers
  <2>2. CASE Careful
    <3>1. gateway' \in [Parts -> 0 .. MaxPlans]
      BY DEF TypeOK
    <3> QED
      BY <2>1, <2>2, <3>1 DEF Careful
  <2>3. CASE UNCHANGED remote
    BY <2>1, <2>3 DEF remote
  <2> QED
    BY <2>2, <2>3, StepKinds
<1>2. ~LockLoss
  BY DEF Ordered
<1> QED
  BY <1>1, <1>2, TypeCorrect, LockInvariant, ContentInvariant, PTL DEF Spec, NoRegress

-----------------------------------------------------------------------------
(* The queue implements the contract of publication.                         *)

\* The gateway executes a request as the contract's Apply.
LEMMA ExecutedApplies ==
    ASSUME TypeOK, ContentInv, Careful,
           NEW r \in Request, r.plan <= latest, gateway' = Executed(r), UNCHANGED plan
    PROVE  [Contract!Next]_(Contract!contract)
<1>1. /\ latest \in Nat /\ gateway \in [Parts -> Nat] /\ r.plan \in 1 .. latest
      /\ r.part \in Parts /\ r.mode \in {"managed", "legacy"}
  BY Numbers
<1>2. /\ latest' = latest
      /\ \A x \in Parts : gateway[x] <= gateway'[x]
  BY DEF Careful
<1>3. UNCHANGED <<latest, latest > 0 /\ plan[latest] = "confirmed">>
  BY <1>2
<1>4. CASE r.mode = "legacy"
  <2>1. gateway' = [x \in Parts |-> IF x \in {r.part} THEN r.plan ELSE gateway[x]]
    BY <1>1, <1>4 DEF Executed
  <2>2. \A x \in {r.part} : gateway[x] <= r.plan
    BY <1>1, <1>2, <2>1
  <2>3. Contract!Apply(r.plan, {r.part})
    BY <1>3, <2>1, <2>2 DEF Contract!Apply
  <2> QED
    BY <1>1, <2>3 DEF Contract!Next
<1>5. CASE r.mode = "managed" /\ gateway = r.expected
  <2>1. gateway' = [x \in Parts |-> IF x \in Parts THEN r.plan ELSE gateway[x]]
    BY <1>5 DEF Executed
  <2>2. \A x \in Parts : gateway[x] <= r.plan
    BY <1>1, <1>2, <2>1
  <2>3. Contract!Apply(r.plan, Parts)
    BY <1>3, <2>1, <2>2 DEF Contract!Apply
  <2> QED
    BY <1>1, <2>3 DEF Contract!Next
<1>6. CASE r.mode = "managed" /\ gateway # r.expected
  <2>1. UNCHANGED gateway
    BY <1>6 DEF Executed
  <2> QED
    BY <1>3, <2>1 DEF Contract!contract
<1> QED
  BY <1>1, <1>4, <1>5, <1>6

\* Every behaviour of the queue is one of the contract: plans reach the gateway
\* forward only, and only what is applied everywhere is reported as confirmed.
THEOREM QueueImplementsContract == ASSUME Ordered PROVE Spec => Publication
<1>1. Init => Contract!Init
  BY DEF Init, Contract!Init, Nothing
<1>2. TypeOK /\ TypeOK' /\ LockInv /\ ContentInv /\ ContentInv' /\ [Next]_vars
        => [Contract!Next]_(Contract!contract)
  <2> SUFFICES ASSUME TypeOK, TypeOK', LockInv, ContentInv, ContentInv', [Next]_vars
               PROVE  [Contract!Next]_(Contract!contract)
    OBVIOUS
  <2>1. CASE Careful
    <3>1. CASE UNCHANGED gateway
      <4>1. latest' = latest
        BY <2>1 DEF Careful
      <4>2. CASE (latest > 0 /\ plan[latest] = "confirmed")'
        <5>1. \A x \in Parts : gateway[x] = latest
          BY <3>1, <4>1, <4>2 DEF ContentInv, ConfirmedIsApplied
        <5>2. latest > 0
          BY <4>1, <4>2
        <5>3. Contract!Acknowledge
          BY <3>1, <4>1, <4>2, <5>1, <5>2 DEF Contract!Acknowledge
        <5> QED
          BY <5>3 DEF Contract!Next
      <4>3. CASE ~(latest > 0 /\ plan[latest] = "confirmed")'
        <5>1. Contract!Revoke
          BY <3>1, <4>1, <4>3 DEF Contract!Revoke
        <5> QED
          BY <5>1 DEF Contract!Next
      <4> QED
        BY <4>2, <4>3
    <3>2. CASE UNCHANGED plan /\ \E r \in Request : r.plan <= latest /\ gateway' = Executed(r)
      BY <2>1, <3>2, ExecutedApplies
    <3> QED
      BY <2>1, <3>1, <3>2 DEF Careful
  <2>2. CASE PublishPlan /\ UNCHANGED <<remote, local>>
    <3>1. latest' = latest + 1 /\ latest < MaxPlans /\ latest' \in Plans
      BY <2>2, BoundsAssumption DEF PublishPlan, TypeOK
    <3>2. plan'[latest'] = "pending"
      BY <2>2, <3>1 DEF PublishPlan, TypeOK
    <3>3. Contract!Want
      BY <2>2, <3>1, <3>2 DEF Contract!Want, remote
    <3> QED
      BY <3>3 DEF Contract!Next
  <2> QED
    BY <2>1, <2>2, StepKinds
<1>3. ~LockLoss
  BY DEF Ordered
<1> QED
  BY <1>1, <1>2, <1>3, TypeCorrect, LockInvariant, ContentInvariant, PTL
  DEF Spec, Publication, Contract!Spec

-----------------------------------------------------------------------------
(* Jobs and the workers on them.                                             *)

Busy(w) == pc[w] # "idle"
Ending  == {"release", "report"}

RunInv ==
    /\ JobsInUse
    /\ \A w \in Workers : Busy(w) => jobs[job[w]].state = "running"
    /\ \A v, w \in Workers : Busy(v) /\ Busy(w) /\ v # w => job[v] # job[w]
    /\ \A w \in Workers : pc[w] \in Ending => result[w] \in {"ok", "error"}

\* A step of a run that its worker survives.
RunsOn(w) == Progress(w) \/ WriteUnknown(w) \/ (\E kind \in Kinds : Problem(w, kind)) \/ Abort(w)

\* A step of a run leaves the jobs alone and keeps the worker on its job.
Inside(w) ==
    /\ UNCHANGED <<inserted, jobs, job, requested>>
    /\ Busy(w) /\ pc'[w] \in (Outside \cup Locked) \ {"idle"}
    /\ pc'[w] \in Ending => result'[w] \in {"ok", "error"}
    /\ \A v \in Workers \ {w} : pc'[v] = pc[v] /\ result'[v] = result[v]

LEMMA RunsInside ==
    ASSUME TypeOK, RunInv, NEW w \in Workers,
           RunsOn(w)
    PROVE  Inside(w) \/ Report(w)
<1> USE DEF store, queue, remote, local, Goto, Inside, Busy, Ending, Outside, Locked, Writing
<1>0. pc \in [Workers -> Outside \cup Locked] /\ result \in [Workers -> Kinds \cup {"ok", "error"}]
  BY DEF TypeOK
<1>1. CASE Load(w)
  BY <1>0, <1>1 DEF Load
<1>2. CASE AcquireSiteLock(w)
  BY <1>0, <1>2 DEF AcquireSiteLock
<1>3. CASE Supersede(w)
  BY <1>0, <1>3 DEF Supersede
<1>4. CASE Reload(w)
  BY <1>0, <1>4 DEF Reload
<1>5. CASE Start(w)
  BY <1>0, <1>5 DEF Start
<1>6. CASE Read(w)
  BY <1>0, <1>6 DEF Read
<1>7. CASE Write(w)
  BY <1>0, <1>7 DEF Write
<1>8. CASE Written(w) \/ Confirm(w) \/ Verify(w)
  BY <1>0, <1>8 DEF Written, Confirm, Verify
<1>9. CASE Complete(w)
  BY <1>0, <1>9 DEF Complete
<1>10. CASE Fail(w)
  BY <1>0, <1>10 DEF Fail
<1>11. CASE Release(w)
  BY <1>0, <1>11 DEF Release, RunInv
<1>12. CASE WriteUnknown(w)
  BY <1>0, <1>12 DEF WriteUnknown
<1>13. ASSUME NEW kind \in Kinds, Problem(w, kind) PROVE Inside(w)
  BY <1>0, <1>13 DEF Problem
<1>14. CASE Abort(w)
  BY <1>0, <1>14 DEF Abort
<1> QED
  BY <1>1, <1>2, <1>3, <1>4, <1>5, <1>6, <1>7, <1>8, <1>9, <1>10, <1>11, <1>12, <1>13, <1>14
  DEF RunsOn, Progress

\* Jobs are inserted, and nothing of a run changes.
Inserts(p, source) == InsertJob(p, source) /\ UNCHANGED local
Leaves == UNCHANGED <<inserted, jobs, local>>

LEMMA ControlSteps ==
    ASSUME TypeOK, Control
    PROVE  Leaves \/ \E p \in Plans, source \in {"plan", "request"} : Inserts(p, source)
<1> USE DEF store, queue, remote, Leaves, Inserts
<1>1. latest \in 0 .. MaxPlans /\ MaxPlans \in Nat /\ requested \subseteq Plans
  BY BoundsAssumption DEF TypeOK
<1>2. CASE Mutate
  <2>1. latest + 1 \in Plans
    BY <1>1, <1>2 DEF Mutate, PublishPlan
  <2> QED
    BY <1>2, <2>1 DEF Mutate, PublishPlan
<1>3. CASE Resync
  <2>1. latest \in Plans
    BY <1>1, <1>3 DEF Resync
  <2> QED
    BY <1>3, <2>1 DEF Resync
<1>4. CASE RequestSync \/ DisableSite
  BY <1>4 DEF RequestSync, DisableSite
<1>5. ASSUME NEW p \in requested, Dispatch(p)
      PROVE  Leaves \/ Inserts(p, "request")
  BY <1>5 DEF Dispatch
<1>6. CASE EnableSite
  <2>1. CASE PublishPlan
    <3>1. latest + 1 \in Plans
      BY <1>1, <2>1 DEF PublishPlan
    <3> QED
      BY <1>6, <2>1, <3>1 DEF EnableSite, PublishPlan
  <2> QED
    BY <1>6, <2>1 DEF EnableSite
<1>7. ASSUME NEW verdict \in {"compatible", "incompatible"}, CheckCompatibility(verdict)
      PROVE  Leaves
  BY <1>7 DEF CheckCompatibility
<1> QED
  BY <1>1, <1>2, <1>3, <1>4, <1>5, <1>6, <1>7 DEF Control

\* The step relation, sorted by what it does to jobs and runs.
LEMMA JobSteps ==
    ASSUME TypeOK, RunInv, [Next]_vars
    PROVE  \/ Leaves
           \/ \E p \in Plans, source \in {"plan", "request"} : Inserts(p, source)
           \/ \E w \in Workers, j \in Jobs : Claim(w, j)
           \/ \E w \in Workers : (Inside(w) /\ RunsOn(w)) \/ Report(w) \/ Crash(w)
           \/ \E j \in Jobs : Rescue(j)
<1> USE DEF store, queue, remote, Leaves
<1>1. CASE LoseLock \/ \E r \in late : Deliver(r) \/ Drop(r)
  BY <1>1 DEF LoseLock, Deliver, Drop
<1>2. CASE UNCHANGED vars
  BY <1>2 DEF vars, local
<1> QED
  BY <1>1, <1>2, ControlSteps, RunsInside DEF Next, Work, RunsOn, Trouble, Environment

LEMMA RunStep ==
    ASSUME TypeOK, TypeOK', RunInv, [Next]_vars
    PROVE  RunInv'
<1> USE DEF Busy, Ending
<1>0. /\ inserted \in 0 .. MaxJobs /\ MaxJobs \in Nat /\ jobs \in [Jobs -> Job]
      /\ job \in [Workers -> Jobs] /\ pc \in [Workers -> Outside \cup Locked]
      /\ result \in [Workers -> Kinds \cup {"ok", "error"}]
  BY BoundsAssumption DEF TypeOK
<1>types. /\ inserted \in Nat /\ inserted' \in Nat /\ Jobs \subseteq Nat
      /\ job' \in [Workers -> Jobs] /\ job \in [Workers -> Jobs]
  <2>1. inserted' \in 0 .. MaxJobs /\ job' \in [Workers -> Jobs]
    BY DEF TypeOK
  <2> QED
    BY <1>0, <2>1
<1>known. \A j \in Jobs : jobs[j].state = "none" \/ j <= inserted
  BY <1>types DEF RunInv, JobsInUse
<1>goal. ASSUME \A j \in Jobs : jobs'[j].state = "none" \/ j <= inserted',
             \A w \in Workers : Busy(w)' => jobs'[job'[w]].state = "running"
      PROVE  JobsInUse'
  <2>1. \A j \in Jobs : j > inserted' => jobs'[j].state = "none"
    BY <1>types, <1>goal
  <2>2. \A w \in Workers : Busy(w)' => job'[w] <= inserted'
    BY <1>types, <1>goal
  <2> QED
    BY <2>1, <2>2 DEF JobsInUse
<1>1. CASE Leaves
  BY <1>1 DEF Leaves, local, RunInv, JobsInUse
<1>2. ASSUME NEW p \in Plans, NEW source \in {"plan", "request"}, Inserts(p, source)
      PROVE  RunInv'
  <2>1. inserted + 1 \in Jobs /\ inserted' = inserted + 1
    BY <1>0, <1>2 DEF Inserts, InsertJob
  <2>2. \A j \in Jobs : j # inserted + 1 => jobs'[j] = jobs[j]
    BY <1>0, <1>2, <2>1 DEF Inserts, InsertJob
  <2>3. \A w \in Workers : Busy(w) => job[w] # inserted + 1 /\ job[w] <= inserted
    BY <1>0, <2>1 DEF RunInv, JobsInUse
  <2> QED
    BY <1>0, <1>2, <2>1, <2>2, <2>3 DEF Inserts, local, RunInv, JobsInUse
<1>3. ASSUME NEW w \in Workers, NEW j \in Jobs, Claim(w, j) PROVE RunInv'
  <2>1. /\ jobs'[j].state = "running" /\ pc'[w] = "load" /\ job'[w] = j
        /\ \A i \in Jobs : i # j => jobs'[i] = jobs[i]
        /\ \A v \in Workers : v # w => pc'[v] = pc[v] /\ job'[v] = job[v]
        /\ UNCHANGED <<inserted, result>> /\ jobs[j].state \in {"available", "retryable"}
    BY <1>0, <1>3 DEF Claim, SetJob, Goto
  <2>2. \A v \in Workers : v # w /\ Busy(v) => job[v] # j
    BY <2>1 DEF RunInv
  <2>3. \A v \in Workers : Busy(v)' => jobs'[job'[v]].state = "running"
    BY <1>types, <2>1, <2>2 DEF RunInv
  <2>4. JobsInUse'
    BY <1>known, <1>goal, <2>1, <2>3
  <2>5. \A u, v \in Workers : Busy(u)' /\ Busy(v)' /\ u # v => job'[u] # job'[v]
    BY <2>1, <2>2 DEF RunInv
  <2> QED
    BY <2>1, <2>3, <2>4, <2>5 DEF RunInv
<1>4. ASSUME NEW w \in Workers, Inside(w) PROVE RunInv'
  <2>1. /\ UNCHANGED <<inserted, jobs, job>> /\ Busy(w)
        /\ pc'[w] \in Ending => result'[w] \in {"ok", "error"}
        /\ \A v \in Workers \ {w} : pc'[v] = pc[v] /\ result'[v] = result[v]
    BY <1>4 DEF Inside
  <2>2. \A v \in Workers : Busy(v)' => Busy(v)
    BY <2>1
  <2>3. \A v \in Workers : pc'[v] \in Ending => result'[v] \in {"ok", "error"}
    BY <2>1 DEF RunInv
  <2>4. JobsInUse'
    BY <2>1, <2>2 DEF RunInv, JobsInUse
  <2> QED
    BY <2>1, <2>2, <2>3, <2>4 DEF RunInv
<1>5. ASSUME NEW w \in Workers, Report(w) PROVE RunInv'
  <2>1. /\ pc'[w] = "idle" /\ UNCHANGED inserted
        /\ \A i \in Jobs : i # job[w] => jobs'[i] = jobs[i]
        /\ \A v \in Workers : v # w => /\ pc'[v] = pc[v] /\ job'[v] = job[v]
                                       /\ result'[v] = result[v]
        /\ pc[w] = "report"
    BY <1>0, <1>5 DEF Report, SetJob, Return, Goto
  <2>2. \A v \in Workers : Busy(v)' => v # w /\ Busy(v) /\ job'[v] = job[v] /\ job[v] # job[w]
    BY <2>1 DEF RunInv
  <2>3. \A v \in Workers : Busy(v)' => jobs'[job'[v]].state = "running"
    BY <1>types, <2>1, <2>2 DEF RunInv
  <2>4. job[w] <= inserted
    BY <1>types, <2>1 DEF RunInv, JobsInUse
  <2>5. JobsInUse'
    BY <1>known, <1>goal, <2>1, <2>3, <2>4
  <2> QED
    BY <2>1, <2>2, <2>3, <2>5 DEF RunInv
<1>6. ASSUME NEW w \in Workers, Crash(w) PROVE RunInv'
  <2>1. /\ pc'[w] = "idle" /\ UNCHANGED <<inserted, jobs>>
        /\ \A v \in Workers : v # w => /\ pc'[v] = pc[v] /\ job'[v] = job[v]
                                       /\ result'[v] = result[v]
    BY <1>0, <1>6 DEF Crash, Return, Goto, queue
  <2>2. \A v \in Workers : Busy(v)' => v # w /\ Busy(v) /\ job'[v] = job[v]
    BY <2>1
  <2>3. JobsInUse'
    BY <2>1, <2>2 DEF RunInv, JobsInUse
  <2> QED
    BY <2>1, <2>2, <2>3 DEF RunInv
<1>7. ASSUME NEW j \in Jobs, Rescue(j) PROVE RunInv'
  <2>1. /\ \A i \in Jobs : i # j => jobs'[i] = jobs[i]
        /\ jobs[j].state = "running" /\ UNCHANGED <<inserted, local>>
        /\ \A w \in Workers : Busy(w) => job[w] # j
    BY <1>0, <1>7 DEF Rescue, SetJob
  <2>2. \A v \in Workers : Busy(v)' => jobs'[job'[v]].state = "running"
    BY <1>types, <2>1 DEF RunInv, local
  <2>3. JobsInUse'
    BY <1>known, <1>goal, <2>1, <2>2
  <2> QED
    BY <2>1, <2>2, <2>3 DEF RunInv, local
<1> QED
  BY <1>1, <1>2, <1>3, <1>4, <1>5, <1>6, <1>7, JobSteps

LEMMA RunInvariant == Spec => []RunInv
<1>1. Init => RunInv
  BY BoundsAssumption DEF Init, RunInv, JobsInUse, Busy, Ending
<1> QED
  BY <1>1, RunStep, TypeCorrect, PTL DEF Spec

-----------------------------------------------------------------------------
(***************************************************************************)
(* No operation is forgotten.  Why: the only worker that may report its    *)
(* job as completed is one whose operation was finished when it decided    *)
(* so, and an operation that is opened again comes with a job of its own.  *)
(***************************************************************************)
Open(p) == op[p] \notin Finished \cup {"none"}

\* A worker that will report its job as completed.
Done(w) == pc[w] \in Ending /\ result[w] = "ok"

\* A job that was given up, or that is still to be worked on.
Kept(j) ==
    \/ jobs[j].state = "discarded"
    \/ Live(j) /\ \A w \in Workers : job[w] = j => ~Done(w)

OrphanInv == \A p \in Plans : Open(p) => \E j \in Jobs : jobs[j].plan = p /\ Kept(j)

\* A run decides that its job is done only with its operation finished.
LEMMA DoneIsFinished ==
    ASSUME TypeOK, RunInv, NEW w \in Workers, Inside(w), ~Done(w), Done(w)', PlanOf(w) \in Plans,
           RunsOn(w)
    PROVE  op'[PlanOf(w)] \in Finished
<1> USE DEF store, Goto, Done, Ending, Outside, Locked, Writing, Finished
<1>0. /\ pc \in [Workers -> Outside \cup Locked] /\ result \in [Workers -> Kinds \cup {"ok", "error"}]
      /\ op \in [Plans -> OpStatus]
  BY DEF TypeOK
<1>1. CASE Load(w)
  BY <1>0, <1>1 DEF Load
<1>2. CASE AcquireSiteLock(w)
  BY <1>0, <1>2 DEF AcquireSiteLock
<1>3. CASE Supersede(w)
  BY <1>0, <1>3 DEF Supersede
<1>4. CASE Reload(w)
  BY <1>0, <1>4 DEF Reload
<1>5. CASE Start(w)
  BY <1>0, <1>5 DEF Start
<1>6. CASE Read(w)
  BY <1>0, <1>6 DEF Read
<1>7. CASE Write(w)
  BY <1>0, <1>7 DEF Write
<1>8. CASE Written(w) \/ Confirm(w) \/ Verify(w)
  BY <1>0, <1>8 DEF Written, Confirm, Verify
<1>9. CASE Complete(w)
  BY <1>0, <1>9 DEF Complete
<1>10. CASE Fail(w)
  BY <1>0, <1>10 DEF Fail, Transient
<1>11. CASE Release(w)
  BY <1>0, <1>11 DEF Release, RunInv
<1>12. CASE WriteUnknown(w)
  BY <1>0, <1>12 DEF WriteUnknown
<1>13. ASSUME NEW kind \in Kinds, Problem(w, kind) PROVE FALSE
  BY <1>0, <1>13 DEF Problem
<1>14. CASE Abort(w)
  BY <1>0, <1>14 DEF Abort
<1>15. CASE Report(w)
  BY <1>0, <1>15 DEF Report, Return, Inside
<1> QED
  BY <1>1, <1>2, <1>3, <1>4, <1>5, <1>6, <1>7, <1>8, <1>9, <1>10, <1>11, <1>12, <1>13, <1>14, <1>15
  DEF RunsOn, Progress

LEMMA KeptStays ==
    ASSUME TypeOK, RunInv, [Next]_vars, NEW j \in Jobs, Kept(j), jobs[j].plan \in Plans
    PROVE  jobs'[j].plan = jobs[j].plan /\ (Kept(j)' \/ op'[jobs[j].plan] \in Finished)
<1> USE DEF Kept, Live
<1>0. /\ inserted \in 0 .. MaxJobs /\ MaxJobs \in Nat /\ jobs \in [Jobs -> Job]
      /\ job \in [Workers -> Jobs] /\ pc \in [Workers -> Outside \cup Locked]
      /\ result \in [Workers -> Kinds \cup {"ok", "error"}]
  BY BoundsAssumption DEF TypeOK
<1>1. CASE Leaves
  BY <1>1 DEF Leaves, local, Done
<1>2. ASSUME NEW p \in Plans, NEW source \in {"plan", "request"}, Inserts(p, source)
      PROVE  jobs'[j] = jobs[j] /\ Kept(j)'
  <2>1. j # inserted + 1
    BY <1>0 DEF RunInv, JobsInUse
  <2>2. jobs'[j] = jobs[j]
    BY <1>0, <1>2, <2>1 DEF Inserts, InsertJob
  <2> QED
    BY <1>2, <2>2 DEF Inserts, local, Done
<1>3. ASSUME NEW w \in Workers, NEW i \in Jobs, Claim(w, i)
      PROVE  jobs'[j].plan = jobs[j].plan /\ Kept(j)'
  <2>1. /\ jobs'[i].state = "running" /\ jobs'[i].plan = jobs[i].plan /\ pc'[w] = "load" /\ job'[w] = i
        /\ \A k \in Jobs : k # i => jobs'[k] = jobs[k]
        /\ \A v \in Workers : v # w => pc'[v] = pc[v] /\ job'[v] = job[v]
        /\ UNCHANGED result /\ jobs[i].state \in {"available", "retryable"}
    BY <1>0, <1>3 DEF Claim, SetJob, Goto
  <2> QED
    BY <2>1 DEF Done, Ending
<1>4. ASSUME NEW w \in Workers, Inside(w),
             RunsOn(w)
      PROVE  jobs'[j].plan = jobs[j].plan /\ (Kept(j)' \/ op'[jobs[j].plan] \in Finished)
  <2>1. UNCHANGED <<jobs, job>> /\ \A v \in Workers \ {w} : Done(v)' = Done(v)
    BY <1>4 DEF Inside, Done
  <2>2. CASE job[w] = j /\ ~Done(w) /\ Done(w)'
    BY <1>4, <2>1, <2>2, DoneIsFinished DEF PlanOf
  <2> QED
    BY <2>1, <2>2
<1>5. ASSUME NEW w \in Workers, Report(w) PROVE jobs'[j].plan = jobs[j].plan /\ Kept(j)'
  <2>1. /\ pc'[w] = "idle" /\ pc[w] = "report"
        /\ \A i \in Jobs : i # job[w] => jobs'[i] = jobs[i]
        /\ \A v \in Workers : v # w => /\ pc'[v] = pc[v] /\ job'[v] = job[v]
                                       /\ result'[v] = result[v]
        /\ jobs'[job[w]].plan = jobs[job[w]].plan
        /\ result[w] = "error" => jobs'[job[w]].state \in {"retryable", "discarded"}
    BY <1>0, <1>5 DEF Report, SetJob, Return, Goto, AfterError
  <2>2. \A v \in Workers : job'[v] = j => ~Done(v)' \/ (v # w /\ job[v] = j /\ Done(v))
    BY <2>1 DEF Done, Ending
  <2>3. CASE job[w] = j
    <3>1. jobs[j].state = "running" /\ result[w] = "error"
      BY <2>1, <2>3 DEF RunInv, Done, Busy, Ending
    <3> QED
      BY <2>1, <2>2, <2>3, <3>1
  <2> QED
    BY <2>1, <2>2, <2>3
<1>6. ASSUME NEW w \in Workers, Crash(w) PROVE jobs'[j] = jobs[j] /\ Kept(j)'
  <2>1. /\ pc'[w] = "idle" /\ UNCHANGED jobs
        /\ \A v \in Workers : v # w => /\ pc'[v] = pc[v] /\ job'[v] = job[v]
                                       /\ result'[v] = result[v]
    BY <1>0, <1>6 DEF Crash, Return, Goto, queue
  <2> QED
    BY <2>1 DEF Done, Ending
<1>7. ASSUME NEW i \in Jobs, Rescue(i) PROVE jobs'[j].plan = jobs[j].plan /\ Kept(j)'
  <2>1. /\ \A k \in Jobs : k # i => jobs'[k] = jobs[k]
        /\ jobs'[i].plan = jobs[i].plan /\ jobs'[i].state \in {"retryable", "discarded"}
        /\ jobs[i].state = "running" /\ UNCHANGED local
    BY <1>0, <1>7 DEF Rescue, SetJob, AfterError
  <2>2. CASE i = j
    BY <2>1, <2>2 DEF local, Done
  <2>3. CASE i # j
    BY <2>1, <2>3 DEF local, Done
  <2> QED
    BY <2>2, <2>3
<1> QED
  BY <1>1, <1>2, <1>3, <1>4, <1>5, <1>6, <1>7, JobSteps

\* An operation is opened by its worker, which has a job, or with a new job.
LEMMA OpenHasJob ==
    ASSUME TypeOK, RunInv, RunInv', [Next]_vars, NEW p \in Plans, Open(p)', ~Open(p)
    PROVE  \E j \in Jobs : jobs'[j].plan = p /\ Kept(j)'
<1> USE DEF Open, Finished
<1>0. /\ inserted \in 0 .. MaxJobs /\ MaxJobs \in Nat /\ jobs \in [Jobs -> Job]
      /\ job \in [Workers -> Jobs] /\ pc \in [Workers -> Outside \cup Locked]
      /\ result \in [Workers -> Kinds \cup {"ok", "error"}] /\ op \in [Plans -> OpStatus]
      /\ latest \in 0 .. MaxPlans /\ MaxPlans \in Nat
  BY BoundsAssumption DEF TypeOK
<1>1. CASE UNCHANGED op
  BY <1>1
<1>2. ASSUME NEW source \in {"plan", "request"}, Inserts(p, source)
      PROVE  \E j \in Jobs : jobs'[j].plan = p /\ Kept(j)'
  <2>1. PICK j \in Jobs : j = inserted + 1
    BY <1>0, <1>2 DEF Inserts, InsertJob
  <2>2. jobs'[j].plan = p /\ jobs'[j].state = "available"
    BY <1>0, <1>2, <2>1 DEF Inserts, InsertJob
  <2>3. \A w \in Workers : job[w] = j => ~Busy(w)
    BY <1>0, <2>1 DEF RunInv, JobsInUse, Busy
  <2>4. Kept(j)'
    BY <1>2, <2>2, <2>3 DEF Inserts, local, Kept, Live, Done, Busy, Ending
  <2> QED
    BY <2>2, <2>4
<1>3. CASE PublishPlan /\ UNCHANGED local
  <2>1. latest + 1 \in Plans /\ op' = [op EXCEPT ![latest + 1] = "pending"]
        /\ InsertJob(latest + 1, "plan")
    BY <1>0, <1>3 DEF PublishPlan
  <2>2. p = latest + 1
    BY <1>0, <2>1
  <2> QED
    BY <1>2, <1>3, <2>1, <2>2 DEF Inserts
<1>4. CASE Resync
  <2>1. op' = [op EXCEPT ![latest] = "pending"] /\ InsertJob(latest, "plan") /\ UNCHANGED local
    BY <1>4 DEF Resync
  <2>2. p = latest
    BY <1>0, <2>1
  <2> QED
    BY <1>2, <2>1, <2>2 DEF Inserts
<1>5. ASSUME NEW w \in Workers, PlanOf(w) = p, Busy(w), Busy(w)', ~Done(w)', UNCHANGED <<jobs, job>>
      PROVE  \E j \in Jobs : jobs'[j].plan = p /\ Kept(j)'
  <2>1. job[w] \in Jobs /\ jobs[job[w]].state = "running" /\ jobs[job[w]].plan = p
    BY <1>0, <1>5 DEF RunInv, PlanOf
  <2>2. \A v \in Workers : job'[v] = job[w] => ~Done(v)'
    BY <1>5 DEF RunInv, Busy, Done, Ending
  <2> QED
    BY <1>5, <2>1, <2>2 DEF Kept, Live
<1>6. ASSUME NEW w \in Workers, Work(w)
      PROVE  \E j \in Jobs : jobs'[j].plan = p /\ Kept(j)'
  <2> USE DEF store, queue
  <2>1. CASE Supersede(w)
    BY <1>0, <2>1 DEF Supersede
  <2>2. CASE Start(w)
    <3>1. PlanOf(w) = p
      BY <1>0, <2>2 DEF Start
    <3> QED
      BY <1>0, <1>5, <2>2, <3>1 DEF Start, Goto, Busy, Done, Ending
  <2>3. CASE Complete(w)
    BY <1>0, <2>3 DEF Complete
  <2>4. CASE Fail(w)
    <3>1. PlanOf(w) = p
      BY <1>0, <2>4 DEF Fail
    <3>2. result'[w] = "error"
      BY <1>0, <2>4, <3>1 DEF Fail, Transient
    <3> QED
      BY <1>0, <1>5, <2>4, <3>1, <3>2 DEF Fail, Goto, Busy, Done, Ending
  <2>5. ASSUME NEW j \in Jobs, Claim(w, j) PROVE UNCHANGED op
    BY <2>5 DEF Claim
  <2>6. CASE Load(w) \/ AcquireSiteLock(w) \/ Reload(w)
    BY <1>1, <2>6 DEF Load, AcquireSiteLock, Reload
  <2>7. CASE Read(w) \/ Write(w) \/ Written(w) \/ Confirm(w) \/ Verify(w)
    BY <1>1, <2>7 DEF Read, Write, Written, Confirm, Verify
  <2>8. CASE Release(w) \/ Report(w)
    BY <1>1, <2>8 DEF Release, Report
  <2>9. CASE Trouble(w)
    BY <1>1, <2>9 DEF Trouble, WriteUnknown, Problem, Abort, Crash
  <2> QED
    BY <1>1, <1>6, <2>1, <2>2, <2>3, <2>4, <2>5, <2>6, <2>7, <2>8, <2>9 DEF Work, Progress
<1>7. CASE Control
  BY <1>1, <1>3, <1>4, <1>7
  DEF Control, Mutate, RequestSync, Dispatch, DisableSite, EnableSite, CheckCompatibility, store
<1>8. CASE Environment \/ UNCHANGED vars
  BY <1>1, <1>8 DEF Environment, Rescue, LoseLock, Deliver, Drop, store, vars
<1> QED
  BY <1>6, <1>7, <1>8 DEF Next

LEMMA OrphanStep ==
    ASSUME TypeOK, TypeOK', RunInv, OrphanInv, [Next]_vars
    PROVE  OrphanInv'
<1> SUFFICES ASSUME NEW p \in Plans, Open(p)' PROVE \E j \in Jobs : jobs'[j].plan = p /\ Kept(j)'
  BY DEF OrphanInv
<1>1. CASE Open(p)
  <2>1. PICK j \in Jobs : jobs[j].plan = p /\ Kept(j)
    BY <1>1 DEF OrphanInv
  <2>2. op'[p] \notin Finished
    BY DEF Open
  <2> QED
    BY <2>1, <2>2, KeptStays
<1>2. CASE ~Open(p)
  BY <1>2, OpenHasJob, RunStep
<1> QED
  BY <1>1, <1>2

\* No operation is forgotten, whatever retries, crashes, duplicate jobs and operators do: one
\* that is not finished has a job that River still works on, or one that River gave up
\* (Service.Run, river's completion and rescue).
THEOREM NoOperationIsForgotten == Spec => []NoOrphan
<1>1. Init => OrphanInv
  BY DEF Init, OrphanInv, Open
<1>2. OrphanInv => NoOrphan
  BY DEF OrphanInv, NoOrphan, Open, Kept, Live
<1> QED
  BY <1>1, <1>2, OrphanStep, RunInvariant, TypeCorrect, PTL DEF Spec

-----------------------------------------------------------------------------
(***************************************************************************)
(* Outcomes last, and a success means that all was confirmed.  Why: the    *)
(* lock orders the runs, so the one that records an outcome works on an    *)
(* operation that is still open, and nobody changes the relations between  *)
(* its confirmation and its success.                                       *)
(***************************************************************************)
\* Jobs and requests are for plans that exist; the newest plan is not superseded.
PlansInv ==
    /\ requested \subseteq 1 .. latest
    /\ \A j \in Jobs : jobs[j].plan \in 0 .. latest
    /\ \A j \in Jobs : j <= inserted => jobs[j].plan # 0
    /\ \A p \in Plans : p > latest => op[p] = "none"
    /\ latest > 0 => op[latest] # "superseded"

OutcomeInv ==
    /\ \A w \in Workers : pc[w] \in Writing => op[PlanOf(w)] \notin Finished
    /\ \A w \in Workers : pc[w] \in {"verify", "complete"} => relation = "active"
    /\ SuccessIsConsistent

LEMMA PlansStep ==
    ASSUME TypeOK, RunInv, PlansInv, [Next]_vars
    PROVE  PlansInv'
<1> USE DEF store, queue, remote
<1>0. /\ inserted \in 0 .. MaxJobs /\ MaxJobs \in Nat /\ jobs \in [Jobs -> Job]
      /\ latest \in 0 .. MaxPlans /\ MaxPlans \in Nat /\ op \in [Plans -> OpStatus]
  BY BoundsAssumption DEF TypeOK
<1>1. ASSUME UNCHANGED <<latest, requested, inserted>>, \A j \in Jobs : jobs'[j].plan = jobs[j].plan,
             \/ UNCHANGED op
             \/ \E p \in 1 .. latest, s \in OpStatus :
                   op' = [op EXCEPT ![p] = s] /\ (p = latest => s # "superseded")
      PROVE  PlansInv'
  <2>1. \A p \in Plans : p > latest => op'[p] = "none"
    BY <1>0, <1>1 DEF PlansInv
  <2>2. latest > 0 => op'[latest] # "superseded"
    BY <1>0, <1>1 DEF PlansInv
  <2> QED
    BY <1>1, <2>1, <2>2 DEF PlansInv
<1>2. ASSUME NEW p \in 1 .. latest', NEW source \in {"plan", "request"}, InsertJob(p, source),
             latest' \in {latest, latest + 1}
      PROVE  /\ \A j \in Jobs : jobs'[j].plan \in 0 .. latest'
             /\ \A j \in Jobs : j <= inserted' => jobs'[j].plan # 0
  <2>1. inserted + 1 \in Jobs /\ inserted' = inserted + 1 /\ latest' \in Nat
    BY <1>0, <1>2 DEF InsertJob
  <2>2. \A j \in Jobs : j # inserted + 1 => jobs'[j] = jobs[j]
    BY <1>0, <1>2, <2>1 DEF InsertJob
  <2>3. jobs'[inserted + 1].plan = p
    BY <1>0, <1>2, <2>1 DEF InsertJob
  <2>4. \A j \in Jobs : j # inserted + 1 => jobs'[j].plan \in 0 .. latest'
    BY SMTT(40), <1>0, <1>2, <2>1, <2>2 DEF PlansInv
  <2>5. \A j \in Jobs : j # inserted + 1 /\ j <= inserted' => jobs'[j].plan # 0
    BY <1>0, <2>1, <2>2 DEF PlansInv
  <2>6. p \in 0 .. latest' /\ p # 0
    BY <2>1
  <2> QED
    BY <2>3, <2>4, <2>5, <2>6
<1>3. CASE PublishPlan
  <2>1. /\ latest + 1 \in Plans /\ latest' = latest + 1 /\ UNCHANGED requested
        /\ op' = [op EXCEPT ![latest + 1] = "pending"] /\ InsertJob(latest + 1, "plan")
    BY <1>0, <1>3 DEF PublishPlan
  <2>2. \A p \in Plans : p > latest' => op'[p] = "none"
    BY <1>0, <2>1 DEF PlansInv
  <2> QED
    BY <1>0, <1>2, <2>1, <2>2 DEF PlansInv
<1>4. CASE Resync
  <2>1. /\ latest \in Plans /\ UNCHANGED <<latest, requested>>
        /\ op' = [op EXCEPT ![latest] = "pending"] /\ InsertJob(latest, "plan")
    BY <1>0, <1>4 DEF Resync
  <2>2. \A p \in Plans : p > latest' => op'[p] = "none"
    BY <1>0, <2>1 DEF PlansInv
  <2> QED
    BY <1>0, <1>2, <2>1, <2>2 DEF PlansInv
<1>5. CASE RequestSync
  BY <1>0, <1>5 DEF RequestSync, PlansInv
<1>6. ASSUME NEW p \in requested, Dispatch(p) PROVE PlansInv'
  <2>1. CASE InsertJob(p, "request")
    BY <1>0, <1>2, <1>6, <2>1 DEF Dispatch, PlansInv
  <2> QED
    BY <1>6, <2>1 DEF Dispatch, PlansInv
<1>7. CASE DisableSite \/ (EnableSite /\ ~PublishPlan)
  BY <1>1, <1>7 DEF DisableSite, EnableSite
<1>8. ASSUME NEW verdict \in {"compatible", "incompatible"}, CheckCompatibility(verdict) PROVE PlansInv'
  BY <1>1, <1>8 DEF CheckCompatibility
<1>9. ASSUME NEW w \in Workers, Work(w) PROVE PlansInv'
  <2> USE DEF Busy
  <2>1. Busy(w) => PlanOf(w) \in 1 .. latest
    BY <1>0 DEF PlanOf, RunInv, PlansInv, JobsInUse, TypeOK
  <2>2. ASSUME NEW j \in Jobs, Claim(w, j) PROVE PlansInv'
    <3>1. \A i \in Jobs : jobs'[i].plan = jobs[i].plan
      BY <1>0, <2>2 DEF Claim, SetJob
    <3> QED
      BY <1>1, <2>2, <3>1 DEF Claim
  <2>3. CASE Report(w)
    <3>1. \A i \in Jobs : jobs'[i].plan = jobs[i].plan
      BY <1>0, <2>3 DEF Report, SetJob
    <3> QED
      BY <1>1, <2>3, <3>1 DEF Report
  <2>4. CASE Supersede(w)
    BY <1>1, <2>1, <2>4 DEF Supersede, OpStatus
  <2>5. CASE Start(w)
    BY <1>1, <2>1, <2>5 DEF Start, OpStatus
  <2>6. CASE Complete(w)
    BY <1>1, <2>1, <2>6 DEF Complete, OpStatus
  <2>7. CASE Fail(w)
    <3> DEFINE s == IF result[w] = "retryable" THEN "retryable_failed"
                    ELSE IF result[w] = "uncertain" THEN "uncertain" ELSE "manual_required"
    <3>1. s \in OpStatus /\ s # "superseded" /\ op' = [op EXCEPT ![PlanOf(w)] = s]
      BY <2>7 DEF Fail, OpStatus
    <3> HIDE DEF s
    <3> QED
      BY <1>1, <2>1, <2>7, <3>1 DEF Fail
  <2>8. CASE Load(w) \/ AcquireSiteLock(w) \/ Reload(w)
    BY <1>1, <2>8 DEF Load, AcquireSiteLock, Reload
  <2>9. CASE Read(w) \/ Write(w) \/ Written(w) \/ Confirm(w) \/ Verify(w)
    BY <1>1, <2>9 DEF Read, Write, Written, Confirm, Verify
  <2>10. CASE Release(w) \/ Trouble(w)
    BY <1>1, <2>10 DEF Release, Trouble, WriteUnknown, Problem, Abort, Crash
  <2> QED
    BY <1>9, <2>2, <2>3, <2>4, <2>5, <2>6, <2>7, <2>8, <2>9, <2>10 DEF Work, Progress
<1>10. ASSUME NEW j \in Jobs, Rescue(j) PROVE PlansInv'
  <2>1. \A i \in Jobs : jobs'[i].plan = jobs[i].plan
    BY <1>0, <1>10 DEF Rescue, SetJob
  <2> QED
    BY <1>1, <1>10, <2>1 DEF Rescue
<1>11. CASE LoseLock \/ (\E r \in late : Deliver(r) \/ Drop(r)) \/ UNCHANGED vars
  BY <1>1, <1>11 DEF LoseLock, Deliver, Drop, vars
<1> QED
  BY <1>3, <1>4, <1>5, <1>6, <1>7, <1>8, <1>9, <1>10, <1>11
  DEF Next, Control, Environment, Mutate, EnableSite

LEMMA PlansInvariant == Spec => []PlansInv
<1>1. Init => PlansInv
  BY BoundsAssumption DEF Init, PlansInv
<1> QED
  BY <1>1, PlansStep, RunInvariant, TypeCorrect, PTL DEF Spec

\* A step that is not one of those that write outcomes, for the worker v.
Calm(v) ==
    /\ pc'[v] \in Writing => pc[v] \in Writing /\ PlanOf(v)' = PlanOf(v)
    /\ pc'[v] \in {"verify", "complete"} => pc[v] \in {"verify", "complete"}

LEMMA WriterAlone ==
    ASSUME LockInv
    PROVE  /\ \A v, w \in Workers : pc[v] \in Locked /\ pc[w] \in Locked => v = w
           /\ lock = NoWorker => \A w \in Workers : pc[w] \notin Locked
           /\ \A w \in Workers : pc[w] \in Writing => PlanOf(w) = latest /\ pc[w] \in Locked
BY WorkersAssumption DEF LockInv, Exclusion, WriterIsCurrent, Locked

LEMMA OutcomeStep ==
    ASSUME ~LockLoss, TypeOK, TypeOK', LockInv, LockInv', RunInv, PlansInv, OutcomeInv, [Next]_vars
    PROVE  OutcomeInv'
<1> USE DEF store, queue, remote, local, Goto
<1>0. /\ latest \in 0 .. MaxPlans /\ MaxPlans \in Nat /\ op \in [Plans -> OpStatus]
      /\ plan \in [Plans -> PlanStatus] /\ pc \in [Workers -> Outside \cup Locked]
      /\ job \in [Workers -> Jobs] /\ jobs \in [Jobs -> Job]
  BY BoundsAssumption DEF TypeOK
<1>1. ASSUME UNCHANGED <<latest, plan, op, relation>>, \A v \in Workers : Calm(v) PROVE OutcomeInv'
  BY <1>1 DEF OutcomeInv, Calm, SuccessIsConsistent
<1>2. ASSUME lock = NoWorker, UNCHANGED pc, SuccessIsConsistent' PROVE OutcomeInv'
  <2>1. \A w \in Workers : pc[w] \notin Writing
    BY <1>2, WriterAlone
  <2> QED
    BY <1>2, <2>1 DEF OutcomeInv, Writing
<1>3. CASE PublishPlan /\ lock = NoWorker /\ UNCHANGED pc
  <2>1. latest' \in Plans /\ op'[latest'] = "pending"
    BY <1>0, <1>3 DEF PublishPlan
  <2> QED
    BY <1>2, <1>3, <2>1 DEF SuccessIsConsistent
<1>4. CASE Resync
  <2>1. latest' \in Plans /\ op'[latest'] = "pending"
    BY <1>0, <1>4 DEF Resync
  <2> QED
    BY <1>2, <1>4, <2>1 DEF SuccessIsConsistent, Resync
<1>5. ASSUME UNCHANGED <<latest, plan, op, relation, pc, job>>, \A j \in Jobs : j <= inserted => jobs'[j].plan = jobs[j].plan
      PROVE  OutcomeInv'
  <2>1. \A v \in Workers : Calm(v)
    BY <1>0, <1>5 DEF Calm, PlanOf, LockInv, JobsInUse, Writing
  <2> QED
    BY <1>1, <1>5, <2>1
<1>6. CASE RequestSync \/ DisableSite \/ (EnableSite /\ ~PublishPlan)
  BY <1>5, <1>6 DEF RequestSync, DisableSite, EnableSite
<1>7. ASSUME NEW p \in requested, Dispatch(p) PROVE OutcomeInv'
  <2>1. \A j \in Jobs : j <= inserted => jobs'[j].plan = jobs[j].plan
    <3>1. CASE InsertJob(p, "request")
      <4>1. \A j \in Jobs : j # inserted + 1 => jobs'[j] = jobs[j]
        BY <1>0, <3>1 DEF InsertJob
      <4>2. inserted \in Nat
        BY BoundsAssumption DEF TypeOK
      <4> QED
        BY <4>1, <4>2
    <3>2. CASE UNCHANGED jobs
      BY <3>2
    <3> QED
      BY <1>7, <3>1, <3>2 DEF Dispatch
  <2> QED
    BY <1>5, <1>7, <2>1 DEF Dispatch
<1>8. ASSUME NEW verdict \in {"compatible", "incompatible"}, CheckCompatibility(verdict) PROVE OutcomeInv'
  BY <1>5, <1>8 DEF CheckCompatibility
<1>9. ASSUME NEW j \in Jobs, Rescue(j) PROVE OutcomeInv'
  <2>1. \A i \in Jobs : jobs'[i].plan = jobs[i].plan
    BY <1>0, <1>9 DEF Rescue, SetJob
  <2> QED
    BY <1>5, <1>9, <2>1 DEF Rescue
<1>10. CASE LoseLock \/ (\E r \in late : Deliver(r) \/ Drop(r)) \/ UNCHANGED vars
  BY <1>5, <1>10 DEF LoseLock, Deliver, Drop, vars
<1>11. ASSUME NEW w \in Workers, Work(w) PROVE OutcomeInv'
  <2>1. ASSUME UNCHANGED <<latest, plan, op, relation>>, \A v \in Workers \ {w} : pc'[v] = pc[v] /\ PlanOf(v)' = PlanOf(v),
               Calm(w)
        PROVE  OutcomeInv'
    BY <1>1, <2>1 DEF Calm
  <2>2. ASSUME NEW label \in (Outside \cup Locked) \ {"start", "verify", "complete"}, Goto(w, label),
               label \in Writing => pc[w] \in Writing,
               UNCHANGED <<latest, plan, op, relation, jobs, job>>
        PROVE  OutcomeInv'
    BY <1>0, <2>1, <2>2 DEF Calm, PlanOf
  <2>3. ASSUME NEW j \in Jobs, Claim(w, j) PROVE OutcomeInv'
    <3>1. \A i \in Jobs : jobs'[i].plan = jobs[i].plan
      BY <1>0, <2>3 DEF Claim, SetJob
    <3>2. pc'[w] = "load" /\ \A v \in Workers \ {w} : pc'[v] = pc[v] /\ PlanOf(v)' = PlanOf(v)
      BY <1>0, <2>3, <3>1 DEF Claim, PlanOf
    <3> QED
      BY <2>1, <2>3, <3>2 DEF Claim, Calm, Writing
  <2>4. CASE Report(w) \/ Crash(w)
    <3>1. \A i \in Jobs : jobs'[i].plan = jobs[i].plan
      <4>1. CASE Report(w)
        BY <1>0, <4>1 DEF Report, SetJob
      <4>2. CASE Crash(w)
        BY <4>2 DEF Crash
      <4> QED
        BY <2>4, <4>1, <4>2
    <3>2. pc'[w] = "idle" /\ \A v \in Workers \ {w} : pc'[v] = pc[v] /\ PlanOf(v)' = PlanOf(v)
      BY <1>0, <2>4, <3>1 DEF Report, Crash, Return, PlanOf
    <3> QED
      BY <2>1, <2>4, <3>2 DEF Report, Crash, Calm, Writing
  <2>5. CASE Load(w) \/ AcquireSiteLock(w)
    BY <2>2, <2>5 DEF Load, AcquireSiteLock, Outside, Locked, Writing
  <2>6. CASE Read(w) \/ Write(w) \/ Written(w) \/ WriteUnknown(w)
    BY <1>5, <2>2, <2>6 DEF Read, Write, Written, WriteUnknown, Locked, Writing
  <2>7. ASSUME NEW kind \in Kinds, Problem(w, kind) PROVE OutcomeInv'
    BY <2>2, <2>7 DEF Problem, Locked, Writing
  <2>8. CASE Abort(w) \/ Release(w)
    BY <2>2, <2>8 DEF Abort, Release, Outside, Locked, Writing
  <2>9. CASE Verify(w)
    BY <1>0, <2>1, <2>9 DEF Verify, Calm, PlanOf, Writing
  <2>10. ASSUME pc[w] \in Locked, UNCHANGED <<jobs, job>>, \A v \in Workers \ {w} : pc'[v] = pc[v],
                pc'[w] \in Writing => op'[PlanOf(w)] \notin Finished,
                pc'[w] \in {"verify", "complete"} => relation' = "active",
                SuccessIsConsistent'
         PROVE  OutcomeInv'
    <3>1. \A v \in Workers \ {w} : pc'[v] \notin Writing
      BY <2>10, WriterAlone DEF Locked
    <3> QED
      BY <2>10, <3>1 DEF OutcomeInv, Writing, PlanOf
  <2>11. CASE Supersede(w)
    BY <1>0, <2>10, <2>11 DEF Supersede, OutcomeInv, SuccessIsConsistent, Locked, Writing
  <2>12. CASE Reload(w)
    BY <1>0, <2>10, <2>12 DEF Reload, OutcomeInv, SuccessIsConsistent, Locked, Writing
  <2>13. pc[w] \in Writing => PlanOf(w) = latest /\ latest \in Plans
    <3>1. pc[w] \in Writing => PlanOf(w) = latest /\ job[w] <= inserted
      BY WriterAlone DEF LockInv, JobsInUse, Writing
    <3> QED
      BY <1>0, <3>1 DEF PlansInv, PlanOf
  <2>14. CASE Start(w)
    BY <1>0, <2>10, <2>13, <2>14 DEF Start, SuccessIsConsistent, Locked, Writing, Finished
  <2>15. CASE Confirm(w)
    BY <1>0, <2>10, <2>15 DEF Confirm, OutcomeInv, SuccessIsConsistent, Locked, Writing
  <2>16. CASE Complete(w)
    BY <1>0, <2>10, <2>13, <2>16 DEF Complete, OutcomeInv, SuccessIsConsistent, Locked, Writing
  <2>17. CASE Fail(w)
    BY <1>0, <2>10, <2>13, <2>17 DEF Fail, SuccessIsConsistent, Locked, Writing
  <2> QED
    BY <1>11, <2>3, <2>4, <2>5, <2>6, <2>7, <2>8, <2>9, <2>11, <2>12, <2>14, <2>15, <2>16, <2>17
    DEF Work, Progress, Trouble
<1> QED
  BY <1>3, <1>4, <1>6, <1>7, <1>8, <1>9, <1>10, <1>11
  DEF Next, Control, Environment, Mutate, EnableSite

LEMMA OutcomeInvariant == ASSUME ~LockLoss PROVE Spec => []OutcomeInv
<1>1. Init => OutcomeInv
  BY DEF Init, OutcomeInv, SuccessIsConsistent, Writing
<1> QED
  BY <1>1, OutcomeStep, PlansInvariant, RunInvariant, LockInvariant, TypeCorrect, PTL DEF Spec

\* An operation that succeeded on the newest plan left a confirmed plan and active relations
\* (CompleteSiteOperation and ConfirmResource against the transactions of other runs).
THEOREM SuccessIsConfirmed == ASSUME ~LockLoss PROVE Spec => []SuccessIsConsistent
<1>1. OutcomeInv => SuccessIsConsistent
  BY DEF OutcomeInv
<1> QED
  BY <1>1, OutcomeInvariant, PTL

\* What was superseded or handed to an operator is not taken up again by a retry, a rescued
\* job or a duplicate one (Service.Run's second LoadBundle under the lock).
THEOREM FinishedOperationsStop == ASSUME ~LockLoss PROVE Spec => FinishedStops
<1> DEFINE Stops == \A p \in Plans :
          /\ op[p] = "superseded" => op'[p] = "superseded"
          /\ op[p] = "manual_required" => op'[p] \in {"manual_required", "pending", "superseded"}
<1>1. TypeOK /\ LockInv /\ RunInv /\ PlansInv /\ OutcomeInv /\ [Next]_vars => [Stops]_vars
  <2> SUFFICES ASSUME TypeOK, LockInv, RunInv, PlansInv, OutcomeInv, [Next]_vars PROVE Stops
    OBVIOUS
  <2> USE DEF store, queue, remote
  <2>0. latest \in 0 .. MaxPlans /\ MaxPlans \in Nat /\ op \in [Plans -> OpStatus]
    BY BoundsAssumption DEF TypeOK
  <2>1. CASE UNCHANGED op
    BY <2>1
  <2>2. CASE PublishPlan \/ Resync
    BY <2>0, <2>2 DEF PublishPlan, Resync, PlansInv
  <2>3. ASSUME NEW w \in Workers, Supersede(w) PROVE Stops
    BY <2>0, <2>3 DEF Supersede
  <2>4. ASSUME NEW w \in Workers, pc[w] \in Writing, NEW s, op' = [op EXCEPT ![PlanOf(w)] = s] PROVE Stops
    BY <2>0, <2>4 DEF OutcomeInv, Finished
  <2>5. ASSUME NEW w \in Workers, Start(w) \/ Complete(w) \/ Fail(w) PROVE Stops
    BY <2>4, <2>5 DEF Start, Complete, Fail, Writing
  <2>6. ASSUME NEW w \in Workers, Work(w), ~Supersede(w), ~Start(w), ~Complete(w), ~Fail(w)
        PROVE  UNCHANGED op
    BY <2>6 DEF Work, Claim, Progress, Load, AcquireSiteLock, Reload, Read, Write, Written, Confirm, Verify, Release, Report,
       Trouble, WriteUnknown, Problem, Abort, Crash
  <2>7. ASSUME Control \/ Environment \/ UNCHANGED vars, ~PublishPlan, ~Resync PROVE UNCHANGED op
    BY <2>7 DEF Control, Mutate, RequestSync, Dispatch, DisableSite, EnableSite, CheckCompatibility,
       Environment, Rescue, LoseLock, Deliver, Drop, vars
  <2> QED
    BY <2>1, <2>2, <2>3, <2>5, <2>6, <2>7 DEF Next
<1> QED
  BY <1>1, OutcomeInvariant, PlansInvariant, RunInvariant, LockInvariant, TypeCorrect, PTL DEF Spec, FinishedStops
=============================================================================
