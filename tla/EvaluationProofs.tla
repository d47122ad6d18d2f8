-------------------------- MODULE EvaluationProofs --------------------------
(***************************************************************************)
(* Proofs about the evaluation of suppliers, for any number of suppliers,  *)
(* runs, samples, clients, workers, keys, references, failures and moments *)
(* of time.                                                                *)
(***************************************************************************)
EXTENDS Evaluation, WellFoundedInduction, FiniteSetTheorems, TLAPS

USE EvaluationAssumption

-----------------------------------------------------------------------------
(* The inductive invariant of the types: what the clients hold, that only  *)
(* runs have jobs and that only jobs with attempts left are fetched.       *)

AskTypeOK ==
    ask \in [Clients -> {IdleClient}
                \cup [pc : {"create"}, supplier : Suppliers, purpose : Purposes,
                      key : Keys \cup {NoKey}, at : 0 .. MaxTime, ref : Refs \cup {NoRef}]
                \cup [pc : {"dispatch", "mark"}, run : Runs]]

AssessmentRow == [verdict : STRING, at : Int, completed : Int]

JobsOfRuns ==
    /\ \A r \in Runs : job[r].state # "none" => run[r].status # "none"
    /\ \A r \in Runs : job[r].state \in {"available", "retryable"} => job[r].attempts < MaxAttempts
    /\ \A c \in Clients : ask[c].pc \in {"dispatch", "mark"} => run[ask[c].run].status # "none"

TypeInv == TypeOK /\ AskTypeOK /\ JobsOfRuns

LEMMA IndexesAreNumbers == Indexes \subseteq Nat
BY DEF Indexes, PlanOf

\* A worker that has something to do takes one of the samples it has to do.
LEMMA FirstIsOneOf ==
    ASSUME TypeOK, NEW w \in Workers, work[w].todo # {}
    PROVE  First(w) \in work[w].todo
<1>1. work[w].todo \subseteq Nat
  BY IndexesAreNumbers DEF TypeOK
<1>2. PICK i \in work[w].todo : \A j \in work[w].todo : <<j, i>> \notin OpToRel(<, Nat)
  BY <1>1, WFMin, NatLessThanWellFounded, Zenon
<1>3. \A j \in work[w].todo : ~(j < i)
  BY <1>1, <1>2, Zenon DEF OpToRel
<1>4. \A j \in work[w].todo : i <= j
  BY <1>1, <1>3
<1> QED
  BY <1>4 DEF First

(***************************************************************************)
(* What a step does to the rows of the runs: it inserts one that no key    *)
(* names, or changes the status of one that is not finished.               *)
(***************************************************************************)
Inserted(c, r) ==
    /\ ask[c].pc = "create" /\ ByKey(ask[c].key) = {} /\ Creatable(c)
    /\ run[r].status = "none" /\ Insert(c, r)

Moved(r, status) ==
    /\ run[r].status \in ActiveStatuses
    /\ run' = [run EXCEPT ![r].status = status]

RunStep ==
    \/ UNCHANGED run
    \/ \E c \in Clients, r \in Runs : Inserted(c, r)
    \/ \E r \in Runs, status \in ActiveStatuses \cup TerminalStatuses : Moved(r, status)

LEMMA FailureMoves ==
    ASSUME NEW r \in Runs, NEW status \in ActiveStatuses \cup TerminalStatuses, FailEvaluationRun(r, status)
    PROVE  RunStep
BY DEF FailEvaluationRun, RunStep, Moved

LEMMA RunSteps ==
    ASSUME TypeInv, [Next]_vars
    PROVE  RunStep
<1> USE DEF RunStep
<1>1. ASSUME NEW c \in Clients, Create(c) PROVE RunStep
  BY <1>1 DEF Create, Inserted, ToClient, rows, Created
<1>2. ASSUME NEW c \in Clients, MarkUndispatched(c) PROVE RunStep
  <2>1. ask[c].run \in Runs
    BY <1>2 DEF MarkUndispatched, TypeInv, AskTypeOK, IdleClient
  <2> QED
    BY <1>2, <2>1, FailureMoves DEF MarkUndispatched, ActiveStatuses
<1>3. ASSUME NEW c \in Clients, Dispatch(c) \/ Abandon(c) PROVE RunStep
  BY <1>3 DEF Dispatch, Abandon, ToClient, rows
<1>4. ASSUME NEW c \in Clients, \E s \in Suppliers, p \in Purposes, k \in Keys \cup {NoKey} : Request(c, s, p, k)
      PROVE  RunStep
  BY <1>4 DEF Request, RetryExisting, ToClient, rows
<1>5. ASSUME NEW c \in Clients, \E r \in Created : Sweep(c, r) PROVE RunStep
  BY <1>5 DEF Sweep, RetryExisting, ToClient, rows
<1>6. ASSUME NEW w \in Workers, Start(w) \/ Complete(w) \/ Condemn(w) \/ FailRun(w) PROVE RunStep
  <2>1. RunOf(w) \in Runs
    BY <1>6 DEF Start, Complete, Condemn, FailRun, At, RunOf, TypeInv, TypeOK, Created
  <2>2. CASE Start(w)
    BY <2>1, <2>2 DEF Start, Moved, ActiveStatuses
  <2>3. CASE Complete(w)
    BY <2>1, <2>3 DEF Complete, Moved, ActiveStatuses, TerminalStatuses
  <2>4. CASE Condemn(w)
    BY <2>1, <2>4, FailureMoves DEF Condemn, TerminalStatuses
  <2>5. CASE FailRun(w)
    BY <2>1, <2>5, FailureMoves DEF FailRun, ActiveStatuses
  <2> QED
    BY <1>6, <2>2, <2>3, <2>4, <2>5
<1>7. ASSUME NEW w \in Workers,
             \/ Load(w) \/ ListSamples(w) \/ Reserve(w) \/ Probe(w) \/ \E o \in Outcomes : Save(w, o)
             \/ Reload(w) \/ SaveFingerprint(w) \/ Assess(w) \/ Trouble(w) \/ GiveUp(w) \/ Crash(w)
             \/ \E r \in Runs : Claim(w, r)
      PROVE  RunStep
  BY <1>7 DEF Load, ListSamples, Reserve, Probe, Save, Reload, SaveFingerprint, Assess, Trouble,
              GiveUp, Crash, Claim, KeepAll, rows
<1>8. ASSUME Tick \/ \E r \in Runs : Rescue(r) \/ Clean(r) PROVE RunStep
  BY <1>8 DEF Tick, Rescue, Clean, rows
<1>9. ASSUME \E r \in Created, f \in Refs, trust \in Trusts : PromoteReference(r, f, trust)
      PROVE  RunStep
  BY <1>9 DEF PromoteReference
<1>10. ASSUME UNCHANGED vars PROVE RunStep
  BY <1>10 DEF vars, rows
<1> QED
  BY <1>1, <1>2, <1>3, <1>4, <1>5, <1>6, <1>7, <1>8, <1>9, <1>10 DEF Next, Serve, Execute

(***************************************************************************)
(* The rows of runs keep their type, and what is planned stays as it is.   *)
(***************************************************************************)
LEMMA StatusOfRow ==
    ASSUME NEW row \in RunRow, NEW status
    PROVE  [row EXCEPT !.status = status] =
              [status |-> status, supplier |-> row.supplier, purpose |-> row.purpose,
               key |-> row.key, at |-> row.at, ref |-> row.ref]
BY Z3 DEF RunRow

SameRequest(r) ==
    /\ run'[r].status # "none"
    /\ run'[r].supplier = run[r].supplier /\ run'[r].purpose = run[r].purpose
    /\ run'[r].key = run[r].key /\ run'[r].at = run[r].at /\ run'[r].ref = run[r].ref

LEMMA MovedRow ==
    ASSUME TypeInv, NEW r \in Runs, NEW status \in ActiveStatuses \cup TerminalStatuses, Moved(r, status)
    PROVE  /\ run[r] \in RunRow /\ run'[r] \in RunRow
           /\ run' = [run EXCEPT ![r] = run'[r]]
           /\ \A q \in Runs : q # r => run'[q] = run[q]
           /\ run'[r].status = status /\ SameRequest(r)
<1>1. run \in [Runs -> RunRow \cup {NoRun}] /\ run[r].status # "none"
  BY DEF TypeInv, TypeOK, Moved, ActiveStatuses
<1>2. run[r] \in RunRow
  BY <1>1 DEF NoRun
<1>3. run'[r] = [run[r] EXCEPT !.status = status] /\ run' = [run EXCEPT ![r] = run'[r]]
  BY <1>1, Zenon DEF Moved
<1>4. run'[r] = [status |-> status, supplier |-> run[r].supplier, purpose |-> run[r].purpose,
                 key |-> run[r].key, at |-> run[r].at, ref |-> run[r].ref]
  BY <1>2, <1>3, StatusOfRow, Zenon
<1>5. \A q \in Runs : q # r => run'[q] = run[q]
  BY <1>1, <1>3
<1> QED
  BY <1>2, <1>3, <1>4, <1>5 DEF RunRow, SameRequest, ActiveStatuses, TerminalStatuses

LEMMA InsertedRow ==
    ASSUME TypeInv, NEW c \in Clients, NEW r \in Runs, Inserted(c, r)
    PROVE  /\ run'[r] \in RunRow /\ run' = [run EXCEPT ![r] = run'[r]]
           /\ \A q \in Runs : q # r => run'[q] = run[q]
           /\ run'[r].status = "pending" /\ run'[r].key = ask[c].key
           /\ ask[c] \in [pc : {"create"}, supplier : Suppliers, purpose : Purposes,
                          key : Keys \cup {NoKey}, at : 0 .. MaxTime, ref : Refs \cup {NoRef}]
<1>1. ask[c] \in [pc : {"create"}, supplier : Suppliers, purpose : Purposes,
                  key : Keys \cup {NoKey}, at : 0 .. MaxTime, ref : Refs \cup {NoRef}]
  BY DEF Inserted, TypeInv, AskTypeOK, IdleClient
<1>2. run \in [Runs -> RunRow \cup {NoRun}]
  BY DEF TypeInv, TypeOK
<1>3. \A q \in Runs : q # r => run'[q] = run[q]
  BY <1>2 DEF Inserted, Insert
<1> QED
  BY <1>1, <1>2, <1>3 DEF Inserted, Insert, RunRow, ActiveStatuses

LEMMA RunsKeepType ==
    ASSUME TypeInv, RunStep
    PROVE  /\ run' \in [Runs -> RunRow \cup {NoRun}]
           /\ \A r \in Created : r \in Created' /\ SameRequest(r)
<1>0. run \in [Runs -> RunRow \cup {NoRun}]
  BY DEF TypeInv, TypeOK
<1>1. CASE UNCHANGED run
  BY <1>0, <1>1 DEF Created, SameRequest
<1>2. ASSUME NEW c \in Clients, NEW q \in Runs, Inserted(c, q)
      PROVE  /\ run' \in [Runs -> RunRow \cup {NoRun}]
             /\ \A r \in Created : r \in Created' /\ SameRequest(r)
  <2>1. q \notin Created
    BY <1>2 DEF Inserted, Created
  <2> QED
    BY <1>0, <1>2, <2>1, InsertedRow DEF Created, SameRequest
<1>3. ASSUME NEW q \in Runs, NEW status \in ActiveStatuses \cup TerminalStatuses, Moved(q, status)
      PROVE  /\ run' \in [Runs -> RunRow \cup {NoRun}]
             /\ \A r \in Created : r \in Created' /\ SameRequest(r)
  <2>1. \A r \in Runs : r # q => run'[r] = run[r]
    BY <1>3, MovedRow, <1>0
  <2> QED
    BY <1>0, <1>3, <2>1, MovedRow DEF Created, SameRequest
<1> QED
  BY <1>1, <1>2, <1>3 DEF RunStep

(***************************************************************************)
(* What a step does to a worker.                                           *)
(***************************************************************************)
Local == [pc : Places, run : Nat, todo : SUBSET Indexes, at : 0 .. MaxTime]
Others(w) == \A v \in Workers \ {w} : work'[v] = work[v]

LEMMA LocalChanges ==
    ASSUME NEW l \in Local, NEW place, NEW todo, NEW at
    PROVE  /\ [l EXCEPT !.pc = place] = [pc |-> place, run |-> l.run, todo |-> l.todo, at |-> l.at]
           /\ [l EXCEPT !.pc = place, !.todo = todo] = [pc |-> place, run |-> l.run, todo |-> todo, at |-> l.at]
           /\ [l EXCEPT !.pc = place, !.at = at] = [pc |-> place, run |-> l.run, todo |-> l.todo, at |-> at]
           /\ [l EXCEPT !.todo = todo] = [pc |-> l.pc, run |-> l.run, todo |-> todo, at |-> l.at]
<1>1. [l EXCEPT !.pc = place] = [pc |-> place, run |-> l.run, todo |-> l.todo, at |-> l.at]
  BY Z3 DEF Local
<1>2. [l EXCEPT !.pc = place, !.todo = todo] = [pc |-> place, run |-> l.run, todo |-> todo, at |-> l.at]
  <2>1. [[pc |-> place, run |-> l.run, todo |-> l.todo, at |-> l.at] EXCEPT !.todo = todo]
          = [pc |-> place, run |-> l.run, todo |-> todo, at |-> l.at]
    BY Z3
  <2> QED
    BY <1>1, <2>1, Zenon
<1>3. [l EXCEPT !.pc = place, !.at = at] = [pc |-> place, run |-> l.run, todo |-> l.todo, at |-> at]
  <2>1. [[pc |-> place, run |-> l.run, todo |-> l.todo, at |-> l.at] EXCEPT !.at = at]
          = [pc |-> place, run |-> l.run, todo |-> l.todo, at |-> at]
    BY Z3
  <2> QED
    BY <1>1, <2>1, Zenon
<1>4. [l EXCEPT !.todo = todo] = [pc |-> l.pc, run |-> l.run, todo |-> todo, at |-> l.at]
  BY Z3 DEF Local
<1> QED
  BY <1>1, <1>2, <1>3, <1>4

LEMMA Gone ==
    ASSUME TypeInv, NEW w \in Workers, NEW place \in Places, Goto(w, place)
    PROVE  /\ work' \in [Workers -> Local] /\ Others(w)
           /\ work'[w] = [pc |-> place, run |-> work[w].run, todo |-> work[w].todo, at |-> work[w].at]
<1>1. work \in [Workers -> Local]
  BY DEF TypeInv, TypeOK, Local
<1>2. work' = [work EXCEPT ![w] = [work[w] EXCEPT !.pc = place]]
  BY Zenon DEF Goto
<1>3. [work[w] EXCEPT !.pc = place]
         = [pc |-> place, run |-> work[w].run, todo |-> work[w].todo, at |-> work[w].at]
  BY <1>1, LocalChanges
<1>4. work' = [work EXCEPT ![w] = [pc |-> place, run |-> work[w].run, todo |-> work[w].todo, at |-> work[w].at]]
  BY <1>2, <1>3
<1> QED
  BY <1>1, <1>4 DEF Local, Others

LEMMA Reported ==
    ASSUME TypeInv, NEW w \in Workers, NEW failed \in BOOLEAN, Report(w, failed)
    PROVE  /\ work' \in [Workers -> Local] /\ Others(w) /\ work'[w] = IdleWorker
           /\ job' \in [Runs -> [state : {"none", "available", "running", "retryable", "completed", "discarded"},
                                 attempts : 0 .. MaxAttempts]]
           /\ \A r \in Runs : job'[r].state # "none" => job[r].state # "none"
           /\ \A r \in Runs : job'[r].state \in {"available", "retryable"} => job'[r].attempts < MaxAttempts
<1>1. work \in [Workers -> Local]
  BY DEF TypeInv, TypeOK, Local
<1>2. work' \in [Workers -> Local] /\ Others(w) /\ work'[w] = IdleWorker
  BY <1>1 DEF Report, IdleWorker, Local, Places, Others
<1>3. job \in [Runs -> [state : {"none", "available", "running", "retryable", "completed", "discarded"},
                        attempts : 0 .. MaxAttempts]]
  BY DEF TypeInv, TypeOK
<1> DEFINE r == RunOf(w)
           s == IF failed THEN Attempted(r) ELSE "completed"
<1>4. CASE job' = job
  BY <1>2, <1>3, <1>4 DEF TypeInv, JobsOfRuns
<1>5. CASE r \notin Runs
  <2>1. job' = job
    BY <1>3, <1>5, Zenon DEF Report
  <2> QED
    BY <1>4, <2>1
<1>6. CASE r \in Runs /\ job' # job
  <2>1. job[r].state = "running" /\ job' = [job EXCEPT ![r] = [job[r] EXCEPT !.state = s]]
    BY <1>6, Zenon DEF Report
  <2>2. [job[r] EXCEPT !.state = s] = [state |-> s, attempts |-> job[r].attempts]
    BY <1>3, <1>6, Z3
  <2>3. job' = [job EXCEPT ![r] = [state |-> s, attempts |-> job[r].attempts]]
    BY <2>1, <2>2
  <2>4. s \in {"retryable", "completed", "discarded"} /\ (s = "retryable" => job[r].attempts < MaxAttempts)
    BY DEF Attempted
  <2>5. job[r].attempts \in 0 .. MaxAttempts
    BY <1>3, <1>6
  <2>6. job'[r] = [state |-> s, attempts |-> job[r].attempts] /\ \A q \in Runs \ {r} : job'[q] = job[q]
    BY <1>3, <1>6, <2>3
  <2> HIDE DEF s
  <2>7. job' \in [Runs -> [state : {"none", "available", "running", "retryable", "completed", "discarded"},
                            attempts : 0 .. MaxAttempts]]
    BY <1>3, <1>6, <2>3, <2>4, <2>5
  <2> HIDE DEF r
  <2>8. \A q \in Runs : job'[q].state # "none" => job[q].state # "none"
    BY <2>1, <2>6
  <2>9. \A q \in Runs : job'[q].state \in {"available", "retryable"} => job'[q].attempts < MaxAttempts
    BY <2>4, <2>6 DEF TypeInv, JobsOfRuns
  <2> QED
    BY <1>2, <2>7, <2>8, <2>9
<1> QED
  BY <1>4, <1>5, <1>6

(***************************************************************************)
(* The types are kept by a step that keeps those of each table and process *)
(* and hands out only runs that exist.                                     *)
(***************************************************************************)
JobType == [state : {"none", "available", "running", "retryable", "completed", "discarded"},
            attempts : 0 .. MaxAttempts]
CreateType == [pc : {"create"}, supplier : Suppliers, purpose : Purposes,
               key : Keys \cup {NoKey}, at : 0 .. MaxTime, ref : Refs \cup {NoRef}]
DispatchType == [pc : {"dispatch", "mark"}, run : Runs]

JobStep ==
    /\ job' \in [Runs -> JobType]
    /\ \A r \in Runs : job'[r].state # "none" => job[r].state # "none" \/ run'[r].status # "none"
    /\ \A r \in Runs : job'[r].state \in {"available", "retryable"} => job'[r].attempts < MaxAttempts

AskStep ==
    /\ ask' \in [Clients -> {IdleClient} \cup CreateType \cup DispatchType]
    /\ \A c \in Clients : \/ ask'[c] = ask[c]
                          \/ ask'[c].pc \notin {"dispatch", "mark"}
                          \/ run'[ask'[c].run].status # "none"

WorkStep ==
    /\ work' \in [Workers -> Local]
    /\ \A w \in Workers : \/ work'[w] = work[w]
                          \/ work'[w].pc = "idle"
                          \/ /\ work'[w].run \in Created
                             /\ work'[w].todo \subseteq PlanOf(run[work'[w].run].purpose)

TableStep ==
    /\ now' \in 0 .. MaxTime
    /\ sample' \in [Runs -> [Indexes -> {"none", "uncertain", "succeeded", "failed"}]]
    /\ budget' \in [Suppliers -> [0 .. DayOf(MaxTime) -> Nat]]
    /\ paid' \in [Runs -> [Indexes -> Nat]]

LEMMA StepKeepsTypes ==
    ASSUME TypeInv, RunStep, TableStep, JobStep, AskStep, WorkStep
    PROVE  TypeInv'
<1>1. /\ run' \in [Runs -> RunRow \cup {NoRun}]
      /\ \A r \in Created : r \in Created' /\ SameRequest(r)
  BY RunsKeepType
<1>2. \A w \in Workers : ~At(w, "idle")' =>
          work'[w].run \in Created' /\ work'[w].todo \subseteq PlanOf(run'[work'[w].run].purpose)
  <2> SUFFICES ASSUME NEW w \in Workers, work'[w].pc # "idle"
               PROVE  /\ work'[w].run \in Created'
                      /\ work'[w].todo \subseteq PlanOf(run'[work'[w].run].purpose)
    BY DEF At
  <2>1. work'[w].run \in Created /\ work'[w].todo \subseteq PlanOf(run[work'[w].run].purpose)
    BY DEF WorkStep, TypeInv, TypeOK, At
  <2> QED
    BY <1>1, <2>1 DEF SameRequest
<1>3. TypeOK'
  BY <1>1, <1>2 DEF TableStep, JobStep, WorkStep, TypeOK, JobType, Local
<1>4. AskTypeOK'
  BY DEF AskStep, AskTypeOK, CreateType, DispatchType
<1>5. \A r \in Runs : run[r].status # "none" => run'[r].status # "none"
  BY <1>1 DEF Created
<1>6. \A r \in Runs : job'[r].state # "none" => run'[r].status # "none"
  BY <1>5 DEF JobStep, TypeInv, JobsOfRuns
<1>7. \A c \in Clients : ask'[c].pc \in {"dispatch", "mark"} => run'[ask'[c].run].status # "none"
  <2> SUFFICES ASSUME NEW c \in Clients, ask'[c].pc \in {"dispatch", "mark"}, ask'[c] = ask[c]
               PROVE  run'[ask[c].run].status # "none"
    BY DEF AskStep
  <2>1. ask[c].run \in Runs
    BY DEF TypeInv, AskTypeOK, IdleClient
  <2> QED
    BY <1>5, <2>1 DEF TypeInv, JobsOfRuns
<1>8. JobsOfRuns'
  BY <1>6, <1>7 DEF JobsOfRuns, JobStep
<1> QED
  BY <1>3, <1>4, <1>8 DEF TypeInv

LEMMA TypesNow ==
    ASSUME TypeInv
    PROVE  /\ now' = now /\ sample' = sample /\ budget' = budget /\ paid' = paid => TableStep
           /\ job' = job => JobStep
           /\ ask' = ask => AskStep
           /\ work' = work => WorkStep
           /\ job \in [Runs -> JobType] /\ work \in [Workers -> Local]
           /\ ask \in [Clients -> {IdleClient} \cup CreateType \cup DispatchType]
           /\ \A w \in Workers : work[w].pc # "idle" =>
                 work[w].run \in Created /\ work[w].todo \subseteq PlanOf(run[work[w].run].purpose)
<1> USE DEF TypeInv, TypeOK
<1>1. now' = now /\ sample' = sample /\ budget' = budget /\ paid' = paid => TableStep
  BY DEF TableStep
<1>2. job \in [Runs -> JobType] /\ work \in [Workers -> Local]
  BY DEF JobType, Local
<1>3. ask \in [Clients -> {IdleClient} \cup CreateType \cup DispatchType]
  BY DEF AskTypeOK, CreateType, DispatchType
<1>4. job' = job => JobStep
  BY <1>2 DEF JobStep, JobsOfRuns
<1>5. ask' = ask => AskStep
  BY <1>3 DEF AskStep
<1>6. work' = work => WorkStep
  BY <1>2 DEF WorkStep
<1> QED
  BY <1>1, <1>2, <1>3, <1>4, <1>5, <1>6 DEF At

\* A worker that moves on keeps its run, one that reports has none.
LEMMA WorkerSteps ==
    ASSUME TypeInv, NEW w \in Workers, work[w].pc # "idle"
    PROVE  /\ \A place \in Places : Goto(w, place) => WorkStep
           /\ \A failed \in BOOLEAN : Report(w, failed) => WorkStep /\ JobStep
           /\ \A l \in Local : /\ work' = [work EXCEPT ![w] = l]
                               /\ l.run = work[w].run /\ l.todo \subseteq PlanOf(run[work[w].run].purpose)
                               => WorkStep
<1>1. ASSUME NEW place \in Places, Goto(w, place) PROVE WorkStep
  <2>1. /\ work' \in [Workers -> Local] /\ Others(w)
        /\ work'[w] = [pc |-> place, run |-> work[w].run, todo |-> work[w].todo, at |-> work[w].at]
    BY <1>1, Gone
  <2>2. work'[w].run = work[w].run /\ work'[w].todo = work[w].todo
    BY <2>1
  <2>3. \A v \in Workers : v = w \/ work'[v] = work[v]
    BY <2>1 DEF Others
  <2>4. work[w].run \in Created /\ work[w].todo \subseteq PlanOf(run[work[w].run].purpose)
    BY TypesNow
  <2> QED
    BY <2>1, <2>2, <2>3, <2>4 DEF WorkStep
<1>2. ASSUME NEW failed \in BOOLEAN, Report(w, failed) PROVE WorkStep /\ JobStep
  <2>1. WorkStep
    BY <1>2, Reported DEF WorkStep, Others, IdleWorker
  <2>2. JobStep
    BY <1>2, Reported DEF JobStep, JobType
  <2> QED
    BY <2>1, <2>2
<1>3. ASSUME NEW l \in Local, work' = [work EXCEPT ![w] = l],
             l.run = work[w].run, l.todo \subseteq PlanOf(run[work[w].run].purpose)
      PROVE  WorkStep
  BY <1>3, TypesNow DEF WorkStep
<1> QED
  BY <1>1, <1>2, <1>3

-----------------------------------------------------------------------------
(* The types are kept by what the clients of RequestRun do.                *)
LEMMA ClientKeepsTypes ==
    ASSUME TypeInv, RunStep, NEW c \in Clients,
           \/ Create(c) \/ Dispatch(c) \/ MarkUndispatched(c) \/ Abandon(c)
           \/ \E s \in Suppliers, p \in Purposes, k \in Keys \cup {NoKey} : Request(c, s, p, k)
           \/ \E r \in Created : Sweep(c, r)
    PROVE  TypeInv'
<1> USE TypesNow, StepKeepsTypes
<1> DEFINE Asked(locals) == ask' = [ask EXCEPT ![c] = locals]
<1>1. \A r \in Created : r \in Runs /\ run'[r].status # "none"
  BY RunsKeepType DEF Created
<1>2. Asked(IdleClient) => AskStep
  BY DEF AskStep, IdleClient
<1>3. \A r \in Runs : run'[r].status # "none" /\ Asked(Dispatching(r)) => AskStep
  BY DEF AskStep, Dispatching, DispatchType
<1>4. ASSUME NEW r \in Created, RetryExisting(c, r), job' = job PROVE TypeInv'
  BY <1>1, <1>2, <1>3, <1>4 DEF RetryExisting, ToClient, rows
<1>5. ASSUME NEW s \in Suppliers, NEW p \in Purposes, NEW k \in Keys \cup {NoKey}, Request(c, s, p, k)
      PROVE  TypeInv'
  <2>1. CASE \E r \in Created : RetryExisting(c, r)
    BY <1>4, <1>5, <2>1 DEF Request
  <2>2. CASE \E f \in ChosenReference(s) :
               ToClient(c, [pc |-> "create", supplier |-> s, purpose |-> p, key |-> k, at |-> now, ref |-> f])
    <3>1. PICK f \in ChosenReference(s) :
               ToClient(c, [pc |-> "create", supplier |-> s, purpose |-> p, key |-> k, at |-> now, ref |-> f])
      BY <2>2
    <3>2. f \in Refs \cup {NoRef}
      BY <3>1 DEF ChosenReference, Trusted
    <3>3. now \in 0 .. MaxTime
      BY DEF TypeInv, TypeOK
    <3>4. AskStep
      BY <3>1, <3>2, <3>3 DEF ToClient, AskStep, CreateType
    <3> QED
      BY <1>5, <3>1, <3>4 DEF Request, ToClient, rows
  <2> QED
    BY <1>5, <2>1, <2>2 DEF Request, ByKey, Recent
<1>6. ASSUME NEW r \in Created, Sweep(c, r) PROVE TypeInv'
  BY <1>4, <1>6 DEF Sweep
<1>7. CASE Create(c)
  <2>1. ask[c] \in CreateType
    BY <1>7 DEF Create, DispatchType, IdleClient
  <2>2. CASE \E r \in Runs : Insert(c, r)
    <3>1. PICK r \in Runs : Insert(c, r)
      BY <2>2
    <3>2. Planned[ask[c].purpose] \in Nat
      BY <2>1 DEF CreateType
    <3>3. budget' \in [Suppliers -> [0 .. DayOf(MaxTime) -> Nat]]
      <4> DEFINE s == ask[c].supplier
                 d == DayOf(ask[c].at)
      <4>1. s \in Suppliers /\ budget[s] \in [0 .. DayOf(MaxTime) -> Nat]
        BY <2>1 DEF TypeInv, TypeOK, CreateType
      <4>2. budget' = [budget EXCEPT ![s] = [budget[s] EXCEPT ![d] = budget[s][d] + Planned[ask[c].purpose]]]
        BY <3>1, Zenon DEF Insert, ReserveBudget
      <4> HIDE DEF s, d
      <4>3. d \in 0 .. DayOf(MaxTime) => budget[s][d] + Planned[ask[c].purpose] \in Nat
        <5>1. d \in 0 .. DayOf(MaxTime) => budget[s][d] \in Nat
          BY <4>1, Zenon
        <5> QED
          BY <3>2, <5>1
      <4>4. [budget[s] EXCEPT ![d] = budget[s][d] + Planned[ask[c].purpose]] \in [0 .. DayOf(MaxTime) -> Nat]
        BY <4>1, <4>3
      <4> QED
        BY <4>1, <4>2, <4>4 DEF TypeInv, TypeOK
    <3>4. run'[r].status = "pending"
      BY <3>1 DEF Insert, TypeInv, TypeOK
    <3>5. AskStep
      BY <1>3, <3>1, <3>4 DEF Insert
    <3>6. TableStep
      BY <3>1, <3>3 DEF Insert, TableStep, TypeInv, TypeOK
    <3> QED
      BY <1>7, <3>1, <3>5, <3>6 DEF Create, Insert
  <2>3. CASE ToClient(c, IdleClient)
    BY <1>2, <1>7, <2>3 DEF Create, ToClient, rows
  <2>4. CASE \E r \in Created : ToClient(c, Dispatching(r))
    BY <1>1, <1>3, <1>7, <2>4 DEF Create, ToClient, rows
  <2> QED
    BY <1>7, <2>2, <2>3, <2>4 DEF Create, ByKey
<1>8. CASE Dispatch(c)
  <2>1. ask[c] \in DispatchType
    BY <1>8 DEF Dispatch, CreateType, IdleClient
  <2>2. run[ask[c].run].status # "none" /\ ask[c].run \in Runs
    BY <1>8, <2>1 DEF Dispatch, TypeInv, JobsOfRuns, DispatchType
  <2>3. ask[c].run \in Created /\ run'[ask[c].run].status # "none"
    BY <1>1, <2>2 DEF Created
  <2>4. InsertJob(ask[c].run) => JobStep
    BY <2>2, <2>3 DEF InsertJob, JobStep, JobType, TypeInv, JobsOfRuns
  <2>5. [ask[c] EXCEPT !.pc = "mark"] = [pc |-> "mark", run |-> ask[c].run]
    BY <2>1, Z3 DEF DispatchType
  <2>6. Asked([pc |-> "mark", run |-> ask[c].run]) => AskStep
    BY <2>2, <2>3 DEF AskStep, DispatchType
  <2>7. AskStep
    BY <1>2, <1>8, <2>5, <2>6 DEF Dispatch, ToClient
  <2>8. JobStep
    BY <1>8, <2>4 DEF Dispatch
  <2> QED
    BY <1>8, <2>7, <2>8 DEF Dispatch, ToClient, rows
<1>9. CASE MarkUndispatched(c)
  BY <1>2, <1>9 DEF MarkUndispatched, FailEvaluationRun
<1>10. CASE Abandon(c)
  BY <1>2, <1>10 DEF Abandon, ToClient, rows
<1> QED
  BY <1>5, <1>6, <1>7, <1>8, <1>9, <1>10

\* The types are kept by what River does with a job.
LEMMA RiverKeepsTypes ==
    ASSUME TypeInv, RunStep, NEW r \in Runs,
           Rescue(r) \/ Clean(r) \/ \E w \in Workers : Claim(w, r)
    PROVE  TypeInv'
<1> USE TypesNow, StepKeepsTypes
<1>1. job[r] \in JobType
  OBVIOUS
<1>2. ASSUME NEW w \in Workers, Claim(w, r) PROVE TypeInv'
  <2>1. r \in Created /\ job[r].attempts + 1 \in 0 .. MaxAttempts
    <3>1. job[r].attempts \in 0 .. MaxAttempts
      BY <1>1 DEF JobType
    <3>2. job[r].attempts < MaxAttempts /\ run[r].status # "none"
      BY <1>2 DEF Claim, TypeInv, JobsOfRuns
    <3> QED
      BY <3>1, <3>2 DEF Created
  <2>2. job' = [job EXCEPT ![r] = [state |-> "running", attempts |-> job[r].attempts + 1]]
    BY <1>2 DEF Claim
  <2>3. JobStep
    <3>1. [state |-> "running", attempts |-> job[r].attempts + 1] \in JobType
      BY <2>1 DEF JobType
    <3>2. job' \in [Runs -> JobType]
      BY <2>2, <3>1
    <3>3. \A q \in Runs : IF q = r THEN job'[q].state = "running" ELSE job'[q] = job[q]
      BY <2>2
    <3>4. job[r].state # "none"
      BY <1>2 DEF Claim
    <3> QED
      BY <3>2, <3>3, <3>4 DEF JobStep, TypeInv, JobsOfRuns
  <2>5. work' = [work EXCEPT ![w] = [pc |-> "load", run |-> r, todo |-> {}, at |-> 0]]
    BY <1>2 DEF Claim
  <2>6. [pc |-> "load", run |-> r, todo |-> {}, at |-> 0] \in Local
    <3>1. r \in Nat /\ 0 \in 0 .. MaxTime
      OBVIOUS
    <3> QED
      BY <3>1 DEF Local, Places
  <2>7. WorkStep
    BY <2>1, <2>5, <2>6 DEF WorkStep
  <2> QED
    BY <1>2, <2>3, <2>7 DEF Claim, rows
<1>3. CASE Rescue(r)
  <2>1. [job[r] EXCEPT !.state = Attempted(r)] = [state |-> Attempted(r), attempts |-> job[r].attempts]
    BY <1>1, Z3 DEF JobType
  <2>2. job' = [job EXCEPT ![r] = [state |-> Attempted(r), attempts |-> job[r].attempts]]
    <3>1. job' = [job EXCEPT ![r] = [job[r] EXCEPT !.state = Attempted(r)]]
      BY <1>3, Zenon DEF Rescue
    <3> QED
      BY <2>1, <3>1, Zenon
  <2>3. Attempted(r) \in {"retryable", "discarded"} /\ (Attempted(r) = "retryable" => job[r].attempts < MaxAttempts)
    BY DEF Attempted
  <2>4. job[r].state # "none"
    BY <1>3 DEF Rescue
  <2>5. JobStep
    BY <2>2, <2>3, <2>4 DEF JobStep, JobType, TypeInv, JobsOfRuns
  <2> QED
    BY <1>3, <2>5 DEF Rescue, rows
<1>4. CASE Clean(r)
  <2>1. JobStep
    BY <1>4 DEF Clean, JobStep, JobType, NoJob, TypeInv, JobsOfRuns
  <2> QED
    BY <1>4, <2>1 DEF Clean, rows
<1> QED
  BY <1>2, <1>3, <1>4

(***************************************************************************)
(* The types are kept by what a worker does.                               *)
(***************************************************************************)
LEMMA WorkerKeepsTypes ==
    ASSUME TypeInv, RunStep, NEW w \in Workers, Execute(w) \/ Trouble(w) \/ GiveUp(w) \/ Crash(w)
    PROVE  TypeInv'
<1> USE TypesNow, StepKeepsTypes
<1>1. work[w].pc # "idle"
  BY DEF Execute, Load, Start, ListSamples, Reserve, Probe, Save, Reload, Condemn, SaveFingerprint,
         Assess, Complete, FailRun, Trouble, GiveUp, Crash, At
<1>2. /\ work[w] \in Local /\ RunOf(w) \in Created /\ RunOf(w) \in Runs
      /\ work[w].todo \subseteq PlanOf(run[RunOf(w)].purpose)
  BY <1>1 DEF RunOf, Created
<1>3. \A place \in Places : Goto(w, place) => WorkStep
  BY <1>1, WorkerSteps
<1>4. \A failed \in BOOLEAN : Report(w, failed) => WorkStep /\ JobStep
  BY <1>1, WorkerSteps
<1>5. \A l \in Local : /\ work' = [work EXCEPT ![w] = l]
                       /\ l.run = work[w].run /\ l.todo \subseteq PlanOf(run[RunOf(w)].purpose)
                       => WorkStep
  BY <1>1, WorkerSteps DEF RunOf
<1>6. \A i, v : sample' = [sample EXCEPT ![RunOf(w)][i] = v] /\ v \in {"uncertain", "succeeded", "failed"}
                => sample' \in [Runs -> [Indexes -> {"none", "uncertain", "succeeded", "failed"}]]
  <2> SUFFICES ASSUME NEW i, NEW v \in {"uncertain", "succeeded", "failed"},
                      sample' = [sample EXCEPT ![RunOf(w)][i] = v]
               PROVE  sample' \in [Runs -> [Indexes -> {"none", "uncertain", "succeeded", "failed"}]]
    OBVIOUS
  <2>1. sample \in [Runs -> [Indexes -> {"none", "uncertain", "succeeded", "failed"}]]
    BY DEF TypeInv, TypeOK
  <2>2. [sample[RunOf(w)] EXCEPT ![i] = v] \in [Indexes -> {"none", "uncertain", "succeeded", "failed"}]
    BY <1>2, <2>1
  <2> QED
    BY <1>2, <2>1, <2>2
<1>7. CASE Load(w)
  <2>1. WorkStep /\ JobStep
    BY <1>3, <1>4, <1>7 DEF Load, KeepAll, Places
  <2> QED
    BY <1>7, <2>1 DEF Load, KeepAll, rows
<1>8. CASE Start(w)
  <2>1. WorkStep /\ JobStep
    BY <1>3, <1>4, <1>8 DEF Start, Places
  <2> QED
    BY <1>8, <2>1 DEF Start
<1>9. CASE ListSamples(w)
  <2> DEFINE new == {i \in PlanOf(run[RunOf(w)].purpose) : sample[RunOf(w)][i] = "none"}
  <2>1. [work[w] EXCEPT !.pc = "reserve", !.todo = new]
           = [pc |-> "reserve", run |-> work[w].run, todo |-> new, at |-> work[w].at]
    BY <1>2, LocalChanges
  <2>2. work' = [work EXCEPT ![w] = [pc |-> "reserve", run |-> work[w].run, todo |-> new, at |-> work[w].at]]
    <3>1. work' = [work EXCEPT ![w] = [work[w] EXCEPT !.pc = "reserve", !.todo = new]]
      BY <1>9, Zenon DEF ListSamples
    <3> QED
      BY <2>1, <3>1, Zenon
  <2>3. new \subseteq Indexes /\ new \subseteq PlanOf(run[RunOf(w)].purpose)
    BY <1>2 DEF TypeInv, TypeOK, Created, NoRun, RunRow, Indexes
  <2>4. [pc |-> "reserve", run |-> work[w].run, todo |-> new, at |-> work[w].at] \in Local
    BY <1>2, <2>3 DEF Local, Places
  <2>5. WorkStep
    BY <1>5, <2>2, <2>3, <2>4
  <2> QED
    BY <1>9, <2>5 DEF ListSamples, KeepAll, rows
<1>10. CASE Reserve(w)
  <2>0. Rest(w) \subseteq work[w].todo
    BY DEF Rest
  <2>1. CASE Goto(w, "probe") /\ sample' = [sample EXCEPT ![RunOf(w)][First(w)] = "uncertain"]
    <3>1. TableStep
      BY <1>6, <1>10, <2>1 DEF Reserve, TableStep, TypeInv, TypeOK
    <3> QED
      BY <1>3, <1>10, <2>1, <3>1 DEF Reserve, Places
  <2>2. CASE work' = [work EXCEPT ![w].todo = Rest(w)] /\ UNCHANGED sample
    <3>1. work' = [work EXCEPT ![w] = [work[w] EXCEPT !.todo = Rest(w)]]
      BY <2>2, Zenon
    <3>2. [work[w] EXCEPT !.todo = Rest(w)] = [pc |-> work[w].pc, run |-> work[w].run, todo |-> Rest(w), at |-> work[w].at]
      BY <1>2, LocalChanges
    <3>3. work' = [work EXCEPT ![w] = [pc |-> work[w].pc, run |-> work[w].run, todo |-> Rest(w), at |-> work[w].at]]
      BY <3>1, <3>2, Zenon
    <3>4. [pc |-> work[w].pc, run |-> work[w].run, todo |-> Rest(w), at |-> work[w].at] \in Local
      BY <1>2, <2>0 DEF Local
    <3>5. WorkStep
      BY <1>2, <1>5, <2>0, <3>3, <3>4
    <3> QED
      BY <1>10, <2>2, <3>5 DEF Reserve
  <2> QED
    BY <1>10, <2>1, <2>2 DEF Reserve
<1>11. CASE Probe(w)
  <2>1. paid' \in [Runs -> [Indexes -> Nat]]
    <3>1. paid \in [Runs -> [Indexes -> Nat]] /\ paid[RunOf(w)] \in [Indexes -> Nat]
      BY <1>2 DEF TypeInv, TypeOK
    <3>2. First(w) \in Indexes => paid[RunOf(w)][First(w)] + 1 \in Nat
      BY <3>1
    <3>3. [paid[RunOf(w)] EXCEPT ![First(w)] = paid[RunOf(w)][First(w)] + 1] \in [Indexes -> Nat]
      BY <3>1, <3>2
    <3> QED
      BY <1>11, <3>1, <3>3 DEF Probe
  <2>2. WorkStep
    BY <1>3, <1>11 DEF Probe, Places
  <2> QED
    BY <1>11, <2>1, <2>2 DEF Probe, rows, TableStep, TypeInv, TypeOK
<1>12. ASSUME NEW outcome \in Outcomes, Save(w, outcome) PROVE TypeInv'
  <2>0. Rest(w) \subseteq work[w].todo
    BY DEF Rest
  <2>1. CASE /\ work' = [work EXCEPT ![w] = [work[w] EXCEPT !.pc = "reserve", !.todo = Rest(w)]]
             /\ sample' = [sample EXCEPT ![RunOf(w)][First(w)] = outcome]
    <3>2. [work[w] EXCEPT !.pc = "reserve", !.todo = Rest(w)]
             = [pc |-> "reserve", run |-> work[w].run, todo |-> Rest(w), at |-> work[w].at]
      BY <1>2, LocalChanges
    <3>3. work' = [work EXCEPT ![w] = [pc |-> "reserve", run |-> work[w].run, todo |-> Rest(w), at |-> work[w].at]]
      BY <2>1, <3>2, Zenon
    <3>4. [pc |-> "reserve", run |-> work[w].run, todo |-> Rest(w), at |-> work[w].at] \in Local
      BY <1>2, <2>0 DEF Local, Places
    <3>5. WorkStep
      BY <1>2, <1>5, <2>0, <3>3, <3>4
    <3>6. TableStep
      BY <1>6, <1>12, <2>1 DEF Save, TableStep, TypeInv, TypeOK
    <3> QED
      BY <1>12, <3>5, <3>6 DEF Save
  <2>2. CASE Goto(w, "fail") /\ UNCHANGED sample
    BY <1>3, <1>12, <2>2 DEF Save, Places
  <2> QED
    <3>1. CASE sample[RunOf(w)][First(w)] = "uncertain"
      <4>1. sample' = [sample EXCEPT ![RunOf(w)][First(w)] = outcome]
        BY <1>12, <3>1 DEF Save, Uncertain, StoreOutcome
      <4>2. work' = [work EXCEPT ![w] = [work[w] EXCEPT !.pc = "reserve", !.todo = Rest(w)]]
        BY <1>12, <3>1, Zenon DEF Save, Uncertain
      <4> QED
        BY <2>1, <4>1, <4>2, Zenon
    <3>2. CASE sample[RunOf(w)][First(w)] # "uncertain"
      BY <1>12, <2>2, <3>2 DEF Save, Uncertain
    <3> QED
      BY <3>1, <3>2
<1>13. CASE Reload(w)
  <2>1. WorkStep
    BY <1>3, <1>13 DEF Reload, Places
  <2> QED
    BY <1>13, <2>1 DEF Reload, KeepAll, rows
<1>14. CASE Condemn(w)
  BY <1>4, <1>14 DEF Condemn, FailEvaluationRun
<1>15. CASE SaveFingerprint(w)
  <2>1. work' = [work EXCEPT ![w] = [work[w] EXCEPT !.pc = "assess", !.at = now]]
    BY <1>15, Zenon DEF SaveFingerprint
  <2>2. [work[w] EXCEPT !.pc = "assess", !.at = now]
           = [pc |-> "assess", run |-> work[w].run, todo |-> work[w].todo, at |-> now]
    BY <1>2, LocalChanges
  <2>3. work' = [work EXCEPT ![w] = [pc |-> "assess", run |-> work[w].run, todo |-> work[w].todo, at |-> now]]
    BY <2>1, <2>2, Zenon
  <2>4. [pc |-> "assess", run |-> work[w].run, todo |-> work[w].todo, at |-> now] \in Local
    BY <1>2 DEF Local, Places, TypeInv, TypeOK
  <2>5. WorkStep
    BY <1>2, <1>5, <2>3, <2>4
  <2> QED
    BY <1>15, <2>5 DEF SaveFingerprint
<1>16. CASE Assess(w)
  BY <1>3, <1>16 DEF Assess, Places
<1>17. CASE Complete(w)
  <2>1. WorkStep /\ JobStep
    BY <1>4, <1>17 DEF Complete
  <2> QED
    BY <1>17, <2>1 DEF Complete
<1>18. CASE FailRun(w)
  BY <1>4, <1>18 DEF FailRun, FailEvaluationRun
<1>19. CASE Trouble(w)
  BY <1>3, <1>19 DEF Trouble, Places, rows
<1>20. CASE GiveUp(w)
  BY <1>4, <1>20 DEF GiveUp, rows
<1>21. CASE Crash(w)
  <2>1. WorkStep
    BY <1>21 DEF Crash, WorkStep, IdleWorker, Local, Places
  <2> QED
    BY <1>21, <2>1 DEF Crash, rows
<1> QED
  BY <1>7, <1>8, <1>9, <1>10, <1>11, <1>12, <1>13, <1>14, <1>15, <1>16, <1>17, <1>18, <1>19,
     <1>20, <1>21 DEF Execute

LEMMA TypesKept == TypeInv /\ [Next]_vars => TypeInv'
<1> SUFFICES ASSUME TypeInv, [Next]_vars PROVE TypeInv'
  OBVIOUS
<1>1. RunStep
  BY RunSteps
<1> USE <1>1, TypesNow, StepKeepsTypes
<1>2. ASSUME NEW c \in Clients,
             \/ \E s \in Suppliers, p \in Purposes, k \in Keys \cup {NoKey} : Request(c, s, p, k)
             \/ \E r \in Created : Sweep(c, r)
             \/ Serve(c) \/ Abandon(c)
      PROVE  TypeInv'
  BY <1>2, ClientKeepsTypes DEF Serve
<1>3. ASSUME NEW w \in Workers, Execute(w) \/ Trouble(w) \/ GiveUp(w) \/ Crash(w) PROVE TypeInv'
  BY <1>3, WorkerKeepsTypes
<1>4. ASSUME NEW r \in Runs, Rescue(r) \/ Clean(r) \/ \E w \in Workers : Claim(w, r) PROVE TypeInv'
  BY <1>4, RiverKeepsTypes
<1>5. CASE Tick
  <2>1. now' \in 0 .. MaxTime
    BY <1>5 DEF Tick, TypeInv, TypeOK
  <2> QED
    BY <1>5, <2>1 DEF Tick, rows, TableStep, TypeInv, TypeOK
<1>6. ASSUME NEW r \in Created, NEW f \in Refs, NEW trust \in Trusts, PromoteReference(r, f, trust) PROVE TypeInv'
  BY <1>6 DEF PromoteReference
<1>7. CASE UNCHANGED vars
  BY <1>7 DEF vars, rows
<1> QED
  BY <1>2, <1>3, <1>4, <1>5, <1>6, <1>7 DEF Next

LEMMA TypesAtFirst == Init => TypeInv
<1> SUFFICES ASSUME Init PROVE TypeInv
  OBVIOUS
<1>1. TypeOK
  BY DEF Init, TypeOK, NoRun, NoJob, IdleWorker, Places, At
<1>2. AskTypeOK /\ JobsOfRuns
  BY DEF Init, AskTypeOK, JobsOfRuns, NoJob, IdleClient
<1> QED
  BY <1>1, <1>2 DEF TypeInv

\* Type correctness: tables and processes keep their types, and a worker takes only samples
\* that the plan of its run names (service.go, execute.go).
THEOREM TypeCorrect == Spec => []TypeOK
<1>1. TypeInv => TypeOK
  BY DEF TypeInv
<1> QED
  BY <1>1, TypesAtFirst, TypesKept, PTL DEF Spec

LEMMA AlwaysTyped == Spec => []TypeInv
BY TypesAtFirst, TypesKept, PTL DEF Spec

-----------------------------------------------------------------------------
(* A request identity stands for one run.                                  *)
KeyInv ==
    \A q, r \in Runs : /\ run[q].status # "none" /\ run[r].status # "none"
                       /\ run[q].key = run[r].key /\ run[q].key # NoKey
                       => q = r

LEMMA KeysKept == TypeInv /\ KeyInv /\ [Next]_vars => KeyInv'
<1> SUFFICES ASSUME TypeInv, KeyInv, [Next]_vars PROVE KeyInv'
  OBVIOUS
<1>1. RunStep
  BY RunSteps
<1>2. CASE UNCHANGED run
  BY <1>2 DEF KeyInv
<1>3. ASSUME NEW c \in Clients, NEW x \in Runs, Inserted(c, x) PROVE KeyInv'
  <2>1. \A r \in Runs : r # x => run'[r] = run[r]
    BY <1>3, InsertedRow, ZenonT(30)
  <2>2. run'[x].key = ask[c].key
    BY <1>3, InsertedRow
  <2>3. \A r \in Runs : run[r].status # "none" /\ ask[c].key # NoKey => run[r].key # ask[c].key
    BY <1>3 DEF Inserted, ByKey, Created
  <2>4. SUFFICES ASSUME NEW q \in Runs, NEW r \in Runs,
                        run'[q].status # "none", run'[r].status # "none",
                        run'[q].key = run'[r].key, run'[q].key # NoKey
                 PROVE  q = r
    BY DEF KeyInv
  <2>5. CASE q = x
    BY <2>1, <2>2, <2>3, <2>4, <2>5
  <2>6. CASE q # x /\ r = x
    BY <2>1, <2>2, <2>3, <2>4, <2>6
  <2>7. CASE q # x /\ r # x
    <3>1. run'[q] = run[q] /\ run'[r] = run[r]
      BY <2>1, <2>7
    <3> QED
      BY <2>4, <3>1 DEF KeyInv
  <2> QED
    BY <2>5, <2>6, <2>7
<1>4. ASSUME NEW x \in Runs, NEW status \in ActiveStatuses \cup TerminalStatuses, Moved(x, status)
      PROVE  KeyInv'
  <2>1. \A r \in Runs : r # x => run'[r] = run[r]
    BY <1>4, MovedRow
  <2>2. run'[x].key = run[x].key /\ run[x].status # "none"
    BY <1>4, MovedRow DEF SameRequest, Moved, ActiveStatuses
  <2>3. SUFFICES ASSUME NEW q \in Runs, NEW r \in Runs,
                        run'[q].status # "none", run'[r].status # "none",
                        run'[q].key = run'[r].key, run'[q].key # NoKey
                 PROVE  q = r
    BY DEF KeyInv
  <2>4. \A s \in Runs : run'[s].key = run[s].key /\ (run'[s].status # "none" => run[s].status # "none")
    BY <2>1, <2>2
  <2> QED
    BY <2>3, <2>4 DEF KeyInv
<1> QED
  BY <1>1, <1>2, <1>3, <1>4 DEF RunStep

\* A request identity stands for one run, whoever repeats it and when: the key is looked up
\* again under its lock before a run is inserted (CreateEvaluationRun).
THEOREM OneRunForAKey == Spec => []OneRunPerKey
<1>1. Init => KeyInv
  BY DEF Init, KeyInv, NoRun
<1>2. KeyInv => OneRunPerKey
  <2> SUFFICES ASSUME KeyInv, NEW k \in Keys PROVE Cardinality(ByKey(k)) <= 1
    BY DEF OneRunPerKey
  <2>1. k # NoKey
    OBVIOUS
  <2>2. \A q, r \in ByKey(k) : q = r
    BY <2>1 DEF KeyInv, ByKey, Created
  <2>3. CASE ByKey(k) = {}
    BY <2>3, FS_EmptySet
  <2>4. ASSUME NEW r, ByKey(k) = {r} PROVE Cardinality(ByKey(k)) <= 1
    <3>1. Cardinality({r}) = 1
      BY FS_Singleton
    <3> QED
      BY <2>4, <3>1
  <2> QED
    BY <2>2, <2>3, <2>4
<1> QED
  BY <1>1, <1>2, KeysKept, AlwaysTyped, PTL DEF Spec

-----------------------------------------------------------------------------
(* Most steps change neither a sample, a payment nor an assessment, finish *)
(* no run and lead no worker to a place where that matters.                *)
Quiet ==
    /\ UNCHANGED <<sample, paid, assessment>>
    /\ \A r \in Runs : run'[r].status = "succeeded" => run[r].status = "succeeded"
    /\ \A w \in Workers : \/ work'[w] = work[w]
                          \/ work'[w].pc \in {"idle", "load", "start", "list", "reserve", "condemn", "fail"}

Measuring(w) ==
    \/ Reserve(w) \/ Probe(w) \/ \E outcome \in Outcomes : Save(w, outcome)
    \/ Reload(w) \/ SaveFingerprint(w) \/ Assess(w) \/ Complete(w)

LEMMA NoneSucceeds ==
    ASSUME TypeInv, RunStep, \A r \in Runs : ~Moved(r, "succeeded")
    PROVE  \A r \in Runs : run'[r].status = "succeeded" => run[r].status = "succeeded"
<1>1. ASSUME NEW c \in Clients, NEW x \in Runs, Inserted(c, x)
      PROVE  \A r \in Runs : run'[r].status = "succeeded" => run[r].status = "succeeded"
  BY <1>1, InsertedRow
<1>2. ASSUME NEW x \in Runs, NEW status \in ActiveStatuses \cup TerminalStatuses, Moved(x, status)
      PROVE  \A r \in Runs : run'[r].status = "succeeded" => run[r].status = "succeeded"
  BY <1>2, MovedRow
<1> QED
  BY <1>1, <1>2 DEF RunStep

LEMMA StatusBecomes ==
    ASSUME TypeInv, NEW r \in Runs, NEW status \in {"uncertain", "failed", "running", "pending"},
           \/ run' = [run EXCEPT ![r].status = status]
           \/ run' = run
           \/ FailEvaluationRun(r, status)
    PROVE  \A q \in Runs : ~Moved(q, "succeeded")
<1> SUFFICES ASSUME NEW q \in Runs, Moved(q, "succeeded") PROVE FALSE
  OBVIOUS
<1>1. run[q].status # "succeeded" /\ run'[q].status = "succeeded"
  BY MovedRow DEF Moved, ActiveStatuses, TerminalStatuses
<1>2. run' = [run EXCEPT ![r].status = status]
  BY <1>1 DEF FailEvaluationRun
<1>3. q = r
  BY <1>1, <1>2, Zenon DEF TypeInv, TypeOK
<1>4. run[r] \in RunRow
  BY <1>3, MovedRow DEF TerminalStatuses
<1>5. run'[r] = [run[r] EXCEPT !.status = status]
  BY <1>2, Zenon DEF TypeInv, TypeOK
<1>6. run'[r].status = status
  BY <1>4, <1>5, StatusOfRow
<1> QED
  BY <1>1, <1>3, <1>6

LEMMA Classified ==
    ASSUME TypeInv, [Next]_vars
    PROVE  Quiet \/ \E w \in Workers : Measuring(w)
<1>1. RunStep
  BY RunSteps
<1>2. ASSUME UNCHANGED run PROVE \A r \in Runs : run'[r].status = "succeeded" => run[r].status = "succeeded"
  BY <1>2
<1>3. \A w \in Workers : work[w].pc # "idle" => RunOf(w) \in Runs
  BY TypesNow DEF RunOf, Created
<1>4. ASSUME NEW c \in Clients,
             \/ \E s \in Suppliers, p \in Purposes, k \in Keys \cup {NoKey} : Request(c, s, p, k)
             \/ \E r \in Created : Sweep(c, r)
             \/ Dispatch(c) \/ Abandon(c)
      PROVE  Quiet
  BY <1>2, <1>4 DEF Request, Sweep, RetryExisting, Dispatch, Abandon, ToClient, rows, Quiet
<1>5. ASSUME NEW c \in Clients, Create(c) PROVE Quiet
  <2>1. UNCHANGED <<sample, paid, assessment, work>>
    BY <1>5 DEF Create, Insert, ToClient, rows
  <2>2. ASSUME NEW r \in Runs, Insert(c, r) PROVE \A q \in Runs : ~Moved(q, "succeeded")
    <3>1. run[r] = NoRun \/ run[r] \in RunRow
      BY DEF TypeInv, TypeOK
    <3>2. run'[r].status = "pending" /\ \A q \in Runs : q # r => run'[q] = run[q]
      BY <2>2 DEF Insert, TypeInv, TypeOK
    <3> QED
      BY <3>2, MovedRow DEF Moved, ActiveStatuses, TerminalStatuses
  <2>3. ASSUME UNCHANGED run PROVE \A q \in Runs : ~Moved(q, "succeeded")
    BY <2>3, MovedRow DEF Moved, ActiveStatuses, TerminalStatuses
  <2>4. \A q \in Runs : ~Moved(q, "succeeded")
    BY <1>5, <2>2, <2>3 DEF Create, ToClient, rows, Created
  <2> QED
    BY <1>1, <2>1, <2>4, NoneSucceeds DEF Quiet
<1>6. ASSUME NEW c \in Clients, MarkUndispatched(c) PROVE Quiet
  <2>1. ask[c].run \in Runs
    BY <1>6 DEF MarkUndispatched, TypeInv, AskTypeOK, IdleClient
  <2>2. \A q \in Runs : ~Moved(q, "succeeded")
    BY <1>6, <2>1, StatusBecomes DEF MarkUndispatched
  <2> QED
    BY <1>1, <1>6, <2>2, NoneSucceeds DEF MarkUndispatched, FailEvaluationRun, Quiet
<1>7. ASSUME NEW w \in Workers, Load(w) \/ ListSamples(w) \/ Trouble(w) \/ GiveUp(w) \/ Crash(w)
      PROVE  Quiet
  <2>1. UNCHANGED <<run, sample, paid, assessment>>
    BY <1>7 DEF Load, ListSamples, Trouble, GiveUp, Crash, KeepAll, rows
  <2>2. \/ \E place \in {"list", "start", "fail"} : Goto(w, place)
        \/ \E failed \in BOOLEAN : Report(w, failed)
        \/ ListSamples(w) \/ Crash(w)
    BY <1>7 DEF Load, Trouble, GiveUp
  <2>3. ASSUME NEW place \in {"list", "start", "fail"}, Goto(w, place)
        PROVE  Others(w) /\ work'[w].pc = place
    <3>1. place \in Places
      BY DEF Places
    <3>2. work'[w] = [pc |-> place, run |-> work[w].run, todo |-> work[w].todo, at |-> work[w].at]
      BY <2>3, <3>1, Gone
    <3> QED
      BY <2>3, <3>1, <3>2, Gone
  <2>4. ASSUME NEW failed \in BOOLEAN, Report(w, failed) PROVE Others(w) /\ work'[w].pc = "idle"
    BY <2>4, Reported DEF IdleWorker
  <2>5. ASSUME ListSamples(w) PROVE Others(w) /\ work'[w].pc = "reserve"
    <3> DEFINE new == {i \in PlanOf(run[RunOf(w)].purpose) : sample[RunOf(w)][i] = "none"}
    <3>1. work' = [work EXCEPT ![w] = [work[w] EXCEPT !.pc = "reserve", !.todo = new]]
      BY <2>5, Zenon DEF ListSamples
    <3>2. work[w] \in Local /\ work \in [Workers -> Local]
      BY TypesNow
    <3>3. [work[w] EXCEPT !.pc = "reserve", !.todo = new]
             = [pc |-> "reserve", run |-> work[w].run, todo |-> new, at |-> work[w].at]
      BY <3>2, LocalChanges
    <3>4. work' = [work EXCEPT ![w] = [pc |-> "reserve", run |-> work[w].run, todo |-> new, at |-> work[w].at]]
      BY <3>1, <3>3, Zenon
    <3> QED
      BY <3>2, <3>4 DEF Others
  <2>6. ASSUME Crash(w) PROVE Others(w) /\ work'[w].pc = "idle"
    BY <2>6, TypesNow DEF Crash, Others, IdleWorker
  <2> QED
    BY <1>2, <2>1, <2>2, <2>3, <2>4, <2>5, <2>6 DEF Quiet, Others
<1>8. ASSUME NEW w \in Workers, Start(w) \/ Condemn(w) \/ FailRun(w) PROVE Quiet
  <2>1. RunOf(w) \in Runs
    BY <1>3, <1>8 DEF Start, Condemn, FailRun, At
  <2>2. \A q \in Runs : ~Moved(q, "succeeded")
    BY <1>8, <2>1, StatusBecomes DEF Start, Condemn, FailRun
  <2>3. Others(w) /\ work'[w].pc \in {"idle", "list"}
    <3>1. Goto(w, "list") \/ \E failed \in BOOLEAN : Report(w, failed)
      BY <1>8 DEF Start, Condemn, FailRun
    <3>2. Goto(w, "list") => Others(w) /\ work'[w].pc = "list"
      <4>1. "list" \in Places
        BY DEF Places
      <4>2. Goto(w, "list") =>
               work'[w] = [pc |-> "list", run |-> work[w].run, todo |-> work[w].todo, at |-> work[w].at]
        BY <4>1, Gone
      <4> QED
        BY <4>1, <4>2, Gone
    <3>3. \A failed \in BOOLEAN : Report(w, failed) => Others(w) /\ work'[w].pc = "idle"
      BY Reported DEF IdleWorker
    <3> QED
      BY <3>1, <3>2, <3>3
  <2>4. UNCHANGED <<sample, paid, assessment>>
    BY <1>8 DEF Start, Condemn, FailRun, FailEvaluationRun
  <2> QED
    BY <1>1, <2>2, <2>3, <2>4, NoneSucceeds DEF Quiet, Others
<1>9. ASSUME NEW w \in Workers, NEW r \in Runs, Claim(w, r) PROVE Quiet
  <2>1. \A v \in Workers : work'[v] = work[v] \/ work'[v].pc = "load"
    BY <1>9, TypesNow DEF Claim
  <2> QED
    BY <1>2, <1>9, <2>1 DEF Claim, Quiet, rows
<1>10. ASSUME \/ Tick \/ \E r \in Runs : Rescue(r) \/ Clean(r)
              \/ \E r \in Created, f \in Refs, trust \in Trusts : PromoteReference(r, f, trust)
              \/ UNCHANGED vars
       PROVE  Quiet
  BY <1>2, <1>10 DEF Tick, Rescue, Clean, PromoteReference, rows, vars, Quiet
<1> QED
  BY <1>4, <1>5, <1>6, <1>7, <1>8, <1>9, <1>10 DEF Next, Serve, Execute, Measuring

(***************************************************************************)
(* What the measuring steps do to the worker and to the samples.           *)
(***************************************************************************)
Reaches(w, place) == work'[w].pc = place /\ work'[w].run = work[w].run

LEMMA FirstStays ==
    ASSUME NEW w \in Workers, work'[w].todo = work[w].todo
    PROVE  First(w)' = First(w)
BY DEF First

LEMMA GoneTo ==
    ASSUME TypeInv, NEW w \in Workers, NEW place \in Places, Goto(w, place)
    PROVE  Others(w) /\ Reaches(w, place) /\ work'[w].todo = work[w].todo
<1>1. work'[w] = [pc |-> place, run |-> work[w].run, todo |-> work[w].todo, at |-> work[w].at]
  BY Gone
<1> QED
  BY <1>1, Gone DEF Reaches

LEMMA ReserveStep ==
    ASSUME TypeInv, NEW w \in Workers, Reserve(w)
    PROVE  /\ UNCHANGED <<run, paid, assessment>> /\ Others(w)
           /\ work[w].pc = "reserve" /\ work[w].todo # {}
           /\ \/ /\ sample[RunOf(w)][First(w)] = "none"
                 /\ sample' = [sample EXCEPT ![RunOf(w)][First(w)] = "uncertain"]
                 /\ Reaches(w, "probe") /\ work'[w].todo = work[w].todo
              \/ UNCHANGED sample /\ Reaches(w, "reserve")
<1>2. CASE work' = [work EXCEPT ![w].todo = Rest(w)] /\ UNCHANGED sample
  <2>1. work' = [work EXCEPT ![w] = [work[w] EXCEPT !.todo = Rest(w)]]
    BY <1>2, Zenon
  <2>2. work[w] \in Local /\ work \in [Workers -> Local]
    BY TypesNow
  <2>3. [work[w] EXCEPT !.todo = Rest(w)]
           = [pc |-> work[w].pc, run |-> work[w].run, todo |-> Rest(w), at |-> work[w].at]
    BY <2>2, LocalChanges
  <2>4. work' = [work EXCEPT ![w] =
                    [pc |-> work[w].pc, run |-> work[w].run, todo |-> Rest(w), at |-> work[w].at]]
    BY <2>1, <2>3, Zenon
  <2>5. Others(w) /\ work'[w].pc = work[w].pc /\ work'[w].run = work[w].run
    BY <2>2, <2>4 DEF Others
  <2> QED
    BY <1>2, <2>5 DEF Reserve, At, Reaches
<1>3. UNCHANGED <<run, paid, assessment>> /\ work[w].pc = "reserve" /\ work[w].todo # {}
  BY DEF Reserve, At
<1>4. CASE sample[RunOf(w)][First(w)] = "none"
  <2>1. Goto(w, "probe") /\ sample' = [sample EXCEPT ![RunOf(w)][First(w)] = "uncertain"]
    BY <1>4 DEF Reserve
  <2>2. Others(w) /\ Reaches(w, "probe") /\ work'[w].todo = work[w].todo
    BY <2>1, GoneTo DEF Places
  <2> QED
    BY <1>3, <1>4, <2>1, <2>2
<1>5. CASE sample[RunOf(w)][First(w)] # "none"
  <2>1. work' = [work EXCEPT ![w].todo = Rest(w)] /\ UNCHANGED sample
    BY <1>5 DEF Reserve
  <2> QED
    BY <1>2, <1>3, <2>1
<1> QED
  BY <1>4, <1>5

LEMMA ProbeStep ==
    ASSUME TypeInv, NEW w \in Workers, Probe(w)
    PROVE  /\ UNCHANGED <<run, sample, assessment>> /\ Others(w)
           /\ work[w].pc = "probe" /\ Reaches(w, "save") /\ work'[w].todo = work[w].todo
           /\ paid' = [paid EXCEPT ![RunOf(w)][First(w)] = @ + 1]
BY GoneTo DEF Probe, At, Places, rows

LEMMA SaveStep ==
    ASSUME TypeInv, NEW w \in Workers, NEW outcome \in Outcomes, Save(w, outcome)
    PROVE  /\ UNCHANGED <<run, paid, assessment>> /\ Others(w) /\ work[w].pc = "save"
           /\ \/ /\ sample[RunOf(w)][First(w)] = "uncertain"
                 /\ sample' = [sample EXCEPT ![RunOf(w)][First(w)] = outcome]
                 /\ Reaches(w, "reserve")
              \/ UNCHANGED sample /\ Reaches(w, "fail")
<1>1. UNCHANGED <<run, paid, assessment>> /\ work[w].pc = "save"
  BY DEF Save, At
<1>2. CASE sample[RunOf(w)][First(w)] = "uncertain"
  <2>1. sample' = [sample EXCEPT ![RunOf(w)][First(w)] = outcome]
    BY <1>2 DEF Save, Uncertain, StoreOutcome
  <2>2. work' = [work EXCEPT ![w] = [work[w] EXCEPT !.pc = "reserve", !.todo = Rest(w)]]
    BY <1>2, Zenon DEF Save, Uncertain
  <2>3. work[w] \in Local /\ work \in [Workers -> Local]
    BY TypesNow
  <2>4. [work[w] EXCEPT !.pc = "reserve", !.todo = Rest(w)]
           = [pc |-> "reserve", run |-> work[w].run, todo |-> Rest(w), at |-> work[w].at]
    BY <2>3, LocalChanges
  <2>5. work' = [work EXCEPT ![w] =
                    [pc |-> "reserve", run |-> work[w].run, todo |-> Rest(w), at |-> work[w].at]]
    BY <2>2, <2>4, Zenon
  <2>6. Others(w) /\ Reaches(w, "reserve")
    BY <2>3, <2>5 DEF Others, Reaches
  <2> QED
    BY <1>1, <1>2, <2>1, <2>6
<1>3. CASE sample[RunOf(w)][First(w)] # "uncertain"
  <2>1. Goto(w, "fail") /\ UNCHANGED sample
    BY <1>3 DEF Save, Uncertain
  <2> QED
    BY <1>1, <2>1, GoneTo DEF Places
<1> QED
  BY <1>2, <1>3

LEMMA ReloadStep ==
    ASSUME TypeInv, NEW w \in Workers, Reload(w)
    PROVE  /\ UNCHANGED <<run, sample, paid, assessment>> /\ Others(w) /\ work'[w].run = work[w].run
           /\ \/ work'[w].pc \in {"fail", "condemn"}
              \/ /\ work'[w].pc \in {"fingerprint", "assess"}
                 /\ Samples(RunOf(w), {"none"}) = {} /\ Samples(RunOf(w), {"uncertain"}) = {}
<1>1. UNCHANGED <<run, sample, paid, assessment>>
  BY DEF Reload, KeepAll, rows
<1>2. \E place \in {"fail", "condemn", "fingerprint", "assess"} :
         /\ Goto(w, place)
         /\ place \in {"fingerprint", "assess"} =>
               Samples(RunOf(w), {"none"}) = {} /\ Samples(RunOf(w), {"uncertain"}) = {}
  BY DEF Reload
<1>3. {"fail", "condemn", "fingerprint", "assess"} \subseteq Places
  BY DEF Places
<1>4. PICK place \in {"fail", "condemn", "fingerprint", "assess"} :
         /\ Goto(w, place)
         /\ place \in {"fingerprint", "assess"} =>
               Samples(RunOf(w), {"none"}) = {} /\ Samples(RunOf(w), {"uncertain"}) = {}
  BY <1>2
<1>5. Others(w) /\ Reaches(w, place)
  BY <1>3, <1>4, GoneTo
<1> QED
  BY <1>1, <1>4, <1>5 DEF Reaches

LEMMA FingerprintStep ==
    ASSUME TypeInv, NEW w \in Workers, SaveFingerprint(w)
    PROVE  /\ UNCHANGED <<run, sample, paid, assessment>> /\ Others(w)
           /\ work[w].pc = "fingerprint" /\ Reaches(w, "assess")
<1>1. work' = [work EXCEPT ![w] = [work[w] EXCEPT !.pc = "assess", !.at = now]]
  BY Zenon DEF SaveFingerprint
<1>2. work[w] \in Local /\ work \in [Workers -> Local]
  BY TypesNow
<1>3. [work[w] EXCEPT !.pc = "assess", !.at = now]
         = [pc |-> "assess", run |-> work[w].run, todo |-> work[w].todo, at |-> now]
  BY <1>2, LocalChanges
<1>4. work' = [work EXCEPT ![w] = [pc |-> "assess", run |-> work[w].run, todo |-> work[w].todo, at |-> now]]
  BY <1>1, <1>3, Zenon
<1>5. Others(w) /\ Reaches(w, "assess")
  BY <1>2, <1>4 DEF Others, Reaches
<1> QED
  BY <1>5 DEF SaveFingerprint, At

LEMMA AssessStep ==
    ASSUME TypeInv, NEW w \in Workers, Assess(w), assessment = [r \in Runs |-> assessment[r]]
    PROVE  /\ UNCHANGED <<run, sample, paid>> /\ Others(w)
           /\ work[w].pc = "assess" /\ Reaches(w, "complete")
           /\ assessment' = [r \in Runs |-> assessment'[r]]
           /\ \A r \in Runs : r # RunOf(w) \/ assessment[r] # NoAssessment => assessment'[r] = assessment[r]
           /\ assessment'[RunOf(w)] # NoAssessment
           /\ \/ assessment[RunOf(w)] # NoAssessment
              \/ assessment'[RunOf(w)].completed = Cardinality(Samples(RunOf(w), {"succeeded"}))
<1>1. RunOf(w) \in Runs
  BY TypesNow DEF Assess, At, RunOf, Created
<1>2. UNCHANGED <<run, sample, paid>> /\ work[w].pc = "assess" /\ Others(w) /\ Reaches(w, "complete")
  BY GoneTo DEF Assess, At, Places
<1>3. CASE assessment[RunOf(w)] # NoAssessment
  BY <1>2, <1>3 DEF Assess
<1>4. CASE assessment[RunOf(w)] = NoAssessment
  <2> DEFINE new == assessment'[RunOf(w)]
             row == IF run[RunOf(w)].purpose = "authenticity" THEN AuthenticityRow(w) ELSE CapabilityRow(w)
  <2>1. assessment' = [assessment EXCEPT ![RunOf(w)] = row]
    BY <1>4 DEF Assess
  <2>2. /\ row.completed = Cardinality(Samples(RunOf(w), {"succeeded"}))
        /\ row.verdict # "none"
    BY DEF AuthenticityRow, CapabilityRow, Verdict
  <2> HIDE DEF row
  <2>3. /\ new.completed = Cardinality(Samples(RunOf(w), {"succeeded"}))
        /\ new.verdict # "none"
    BY <1>1, <2>1, <2>2
  <2>4. new # NoAssessment
    BY <2>3 DEF NoAssessment
  <2>5. /\ assessment' = [r \in Runs |-> assessment'[r]]
        /\ \A r \in Runs : r # RunOf(w) => assessment'[r] = assessment[r]
    BY <1>1, <2>1
  <2> QED
    BY <1>2, <1>4, <2>3, <2>4, <2>5
<1> QED
  BY <1>3, <1>4

LEMMA CompleteStep ==
    ASSUME TypeInv, NEW w \in Workers, Complete(w)
    PROVE  /\ UNCHANGED <<sample, paid, assessment>> /\ Others(w)
           /\ work[w].pc = "complete" /\ work'[w].pc = "idle" /\ RunOf(w) \in Runs
           /\ \A r \in Runs : r # RunOf(w) => run'[r] = run[r]
<1>1. \E failed \in BOOLEAN : Report(w, failed)
  BY DEF Complete
<1>2. Others(w) /\ work'[w].pc = "idle"
  BY <1>1, Reported DEF IdleWorker
<1>3. work[w].pc = "complete" /\ RunOf(w) \in Runs
  BY TypesNow DEF Complete, At, RunOf, Created
<1>4. run' = run \/ run' = [run EXCEPT ![RunOf(w)].status = "succeeded"]
  BY DEF Complete
<1>5. \A r \in Runs : r # RunOf(w) => run'[r] = run[r]
  BY <1>3, <1>4, Zenon DEF TypeInv, TypeOK
<1> QED
  BY <1>2, <1>3, <1>5 DEF Complete

-----------------------------------------------------------------------------
(***************************************************************************)
(* No sample is paid for twice.  Why: a worker probes only after it has    *)
(* inserted the row of the sample, no other worker can insert it again,    *)
(* and no row is ever deleted.                                             *)
(***************************************************************************)
PaidInv ==
    /\ \A r \in Runs : \A i \in Indexes : paid[r][i] <= 1 /\ (sample[r][i] = "none" => paid[r][i] = 0)
    /\ \A w \in Workers : work[w].pc \in {"probe", "save"} => work[w].todo # {}
    /\ \A w \in Workers : work[w].pc = "probe" =>
          sample[RunOf(w)][First(w)] # "none" /\ paid[RunOf(w)][First(w)] = 0
    /\ \A v, w \in Workers : work[v].pc = "probe" /\ work[w].pc = "probe" /\ v # w =>
          RunOf(v) # RunOf(w) \/ First(v) # First(w)

\* Where a worker is about to spend.
LEMMA ItemOf ==
    ASSUME TypeInv, NEW w \in Workers, work[w].pc # "idle", work[w].todo # {}
    PROVE  RunOf(w) \in Runs /\ First(w) \in Indexes
<1>1. RunOf(w) \in Runs /\ work[w].todo \subseteq Indexes
  BY TypesNow DEF RunOf, Created, Local
<1> QED
  BY <1>1, FirstIsOneOf DEF TypeInv

LEMMA SameItem ==
    ASSUME NEW w \in Workers, work'[w] = work[w]
    PROVE  RunOf(w)' = RunOf(w) /\ First(w)' = First(w)
BY DEF RunOf, First

LEMMA PaidKept == TypeInv /\ PaidInv /\ [Next]_vars => PaidInv'
<1> SUFFICES ASSUME TypeInv, PaidInv, [Next]_vars PROVE PaidInv'
  OBVIOUS
<1> USE DEF PaidInv
<1>0. /\ sample \in [Runs -> [Indexes -> {"none", "uncertain", "succeeded", "failed"}]]
      /\ paid \in [Runs -> [Indexes -> Nat]]
  BY DEF TypeInv, TypeOK
<1>1. ASSUME UNCHANGED <<sample, paid>>,
             \A w \in Workers : work'[w] = work[w] \/ work'[w].pc \notin {"probe", "save"}
      PROVE  PaidInv'
  BY <1>1, SameItem
<1>2. CASE Quiet
  BY <1>1, <1>2 DEF Quiet
<1>3. ASSUME NEW w \in Workers, Reserve(w) PROVE PaidInv'
  <2>1. CASE UNCHANGED sample /\ Reaches(w, "reserve")
    BY <1>1, <1>3, <2>1, ReserveStep DEF Others, Reaches
  <2>2. CASE /\ sample[RunOf(w)][First(w)] = "none"
             /\ sample' = [sample EXCEPT ![RunOf(w)][First(w)] = "uncertain"]
             /\ Reaches(w, "probe") /\ work'[w].todo = work[w].todo
    <3>1. RunOf(w) \in Runs /\ First(w) \in Indexes
      BY <1>3, ItemOf, ReserveStep
    <3>2. RunOf(w)' = RunOf(w) /\ First(w)' = First(w) /\ work'[w].pc = "probe" /\ work'[w].todo # {}
      BY <1>3, <2>2, FirstStays, ReserveStep DEF Reaches, RunOf
    <3>3. paid' = paid /\ \A v \in Workers : v # w => work'[v] = work[v]
      BY <1>3, ReserveStep DEF Others
    <3>4. \A r \in Runs : \A i \in Indexes :
             sample'[r][i] = IF r = RunOf(w) /\ i = First(w) THEN "uncertain" ELSE sample[r][i]
      BY <1>0, <2>2, <3>1
    <3>5. paid[RunOf(w)][First(w)] = 0
      BY <2>2, <3>1
    <3>6. \A v \in Workers : v # w /\ work[v].pc = "probe" =>
             RunOf(v) # RunOf(w) \/ First(v) # First(w)
      BY <2>2
    <3>7. \A v \in Workers : v # w /\ work[v].pc = "probe" => RunOf(v) \in Runs /\ First(v) \in Indexes
      BY ItemOf
    <3>8. \A r \in Runs : \A i \in Indexes : paid'[r][i] <= 1 /\ (sample'[r][i] = "none" => paid'[r][i] = 0)
      BY <3>3, <3>4
    <3>9. \A v \in Workers : work'[v].pc \in {"probe", "save"} => work'[v].todo # {}
      BY <3>2, <3>3
    <3>10. \A v \in Workers : work'[v].pc = "probe" =>
              sample'[RunOf(v)'][First(v)'] # "none" /\ paid'[RunOf(v)'][First(v)'] = 0
      <4> SUFFICES ASSUME NEW v \in Workers, work'[v].pc = "probe"
                   PROVE  sample'[RunOf(v)'][First(v)'] # "none" /\ paid'[RunOf(v)'][First(v)'] = 0
        OBVIOUS
      <4>1. CASE v = w
        BY <3>1, <3>2, <3>3, <3>4, <3>5, <4>1
      <4>2. CASE v # w
        <5>1. work[v].pc = "probe" /\ RunOf(v)' = RunOf(v) /\ First(v)' = First(v)
          BY <3>3, <4>2, SameItem
        <5>2. RunOf(v) \in Runs /\ First(v) \in Indexes
          BY <3>7, <4>2, <5>1
        <5>3. sample[RunOf(v)][First(v)] # "none" /\ paid[RunOf(v)][First(v)] = 0
          BY <5>1
        <5>4. sample'[RunOf(v)][First(v)] # "none" /\ paid'[RunOf(v)][First(v)] = 0
          <6>1. sample'[RunOf(v)][First(v)] # "none"
            <7>1. \A r \in Runs : \A i \in Indexes : sample[r][i] # "none" => sample'[r][i] # "none"
              BY <3>4, SMT
            <7> QED
              BY <5>2, <5>3, <7>1, ZenonT(30)
          <6>2. paid'[RunOf(v)][First(v)] = 0
            BY <3>3, <3>4, <5>2, <5>3
          <6> QED
            BY <6>1, <6>2
        <5> QED
          BY <5>1, <5>4
      <4> QED
        BY <4>1, <4>2
    <3>11. \A u, v \in Workers : work'[u].pc = "probe" /\ work'[v].pc = "probe" /\ u # v =>
              RunOf(u)' # RunOf(v)' \/ First(u)' # First(v)'
      BY <3>2, <3>3, <3>6, SameItem
    <3> QED
      BY <3>8, <3>9, <3>10, <3>11
  <2> QED
    BY <1>3, <2>1, <2>2, ReserveStep
<1>4. ASSUME NEW w \in Workers, Probe(w) PROVE PaidInv'
  <2>1. RunOf(w) \in Runs /\ First(w) \in Indexes
    BY <1>4, ItemOf, ProbeStep
  <2>2. /\ sample' = sample /\ work'[w].pc = "save" /\ work'[w].todo # {} /\ work[w].pc = "probe"
        /\ \A v \in Workers : v # w => work'[v] = work[v]
    BY <1>4, ProbeStep DEF Others, Reaches
  <2>3. \A r \in Runs : \A i \in Indexes :
           paid'[r][i] = IF r = RunOf(w) /\ i = First(w) THEN paid[r][i] + 1 ELSE paid[r][i]
    BY <1>0, <1>4, <2>1, ProbeStep
  <2>4. \A v \in Workers : v # w /\ work[v].pc = "probe" =>
           /\ RunOf(v) # RunOf(w) \/ First(v) # First(w)
           /\ RunOf(v) \in Runs /\ First(v) \in Indexes
    BY <2>2, ItemOf
  <2>5. paid[RunOf(w)][First(w)] = 0 /\ sample[RunOf(w)][First(w)] # "none"
    BY <2>2
  <2>6. \A r \in Runs : \A i \in Indexes : paid'[r][i] <= 1 /\ (sample'[r][i] = "none" => paid'[r][i] = 0)
    BY <1>0, <2>2, <2>3, <2>5
  <2>7. \A v \in Workers : work'[v].pc \in {"probe", "save"} => work'[v].todo # {}
    BY <2>2
  <2>8. \A v \in Workers : work'[v].pc = "probe" =>
           sample'[RunOf(v)'][First(v)'] # "none" /\ paid'[RunOf(v)'][First(v)'] = 0
    <3> SUFFICES ASSUME NEW v \in Workers, work'[v].pc = "probe"
                 PROVE  sample'[RunOf(v)'][First(v)'] # "none" /\ paid'[RunOf(v)'][First(v)'] = 0
      OBVIOUS
    <3>1. v # w
      BY <2>2
    <3>2. work[v].pc = "probe" /\ RunOf(v)' = RunOf(v) /\ First(v)' = First(v)
      BY <2>2, <3>1, SameItem
    <3>3. sample[RunOf(v)][First(v)] # "none" /\ paid[RunOf(v)][First(v)] = 0
      BY <3>2
    <3>9. sample'[RunOf(v)][First(v)] # "none" /\ paid'[RunOf(v)][First(v)] = 0
      <4>1. RunOf(v) \in Runs /\ First(v) \in Indexes /\ (RunOf(v) # RunOf(w) \/ First(v) # First(w))
        BY <2>4, <3>1, <3>2
      <4>2. paid'[RunOf(v)][First(v)] = paid[RunOf(v)][First(v)]
        BY <2>3, <4>1
      <4> QED
        BY <2>2, <3>3, <4>2
    <3> QED
      BY <3>2, <3>9
  <2>9. \A u, v \in Workers : work'[u].pc = "probe" /\ work'[v].pc = "probe" /\ u # v =>
           RunOf(u)' # RunOf(v)' \/ First(u)' # First(v)'
    BY <2>2, SameItem
  <2> QED
    BY <2>6, <2>7, <2>8, <2>9
<1>5. ASSUME NEW w \in Workers, NEW outcome \in Outcomes, Save(w, outcome) PROVE PaidInv'
  <2>1. CASE UNCHANGED sample /\ Reaches(w, "fail")
    BY <1>1, <1>5, <2>1, SaveStep DEF Others, Reaches
  <2>2. CASE sample' = [sample EXCEPT ![RunOf(w)][First(w)] = outcome] /\ Reaches(w, "reserve")
    <3>1. outcome # "none"
      OBVIOUS
    <3>2. \A r \in Runs : \A i \in Indexes : sample'[r][i] = sample[r][i] \/ sample'[r][i] = outcome
      BY <1>0, <2>2
    <3>3. /\ paid' = paid /\ work'[w].pc = "reserve"
          /\ \A v \in Workers : v # w => work'[v] = work[v]
      BY <1>5, <2>2, SaveStep DEF Others, Reaches
    <3>4. \A v \in Workers : work[v].pc = "probe" => RunOf(v) \in Runs /\ First(v) \in Indexes
      BY ItemOf
    <3>5. \A v \in Workers : work'[v].pc \in {"probe", "save"} => v # w
      BY <3>3
    <3>6. \A v \in Workers : work'[v].pc \in {"probe", "save"} =>
             work'[v] = work[v] /\ RunOf(v)' = RunOf(v) /\ First(v)' = First(v)
      BY <3>3, <3>5, SameItem
    <3>7. \A r \in Runs : \A i \in Indexes : paid'[r][i] <= 1 /\ (sample'[r][i] = "none" => paid'[r][i] = 0)
      BY <3>1, <3>2, <3>3
    <3>8. \A v \in Workers : work'[v].pc = "probe" =>
             sample'[RunOf(v)'][First(v)'] # "none" /\ paid'[RunOf(v)'][First(v)'] = 0
      <4> SUFFICES ASSUME NEW v \in Workers, work'[v].pc = "probe"
                   PROVE  sample'[RunOf(v)'][First(v)'] # "none" /\ paid'[RunOf(v)'][First(v)'] = 0
        OBVIOUS
      <4>1. work[v].pc = "probe" /\ RunOf(v)' = RunOf(v) /\ First(v)' = First(v)
        BY <3>6
      <4>2. sample[RunOf(v)][First(v)] # "none" /\ paid[RunOf(v)][First(v)] = 0
        BY <4>1
      <4>9. sample'[RunOf(v)][First(v)] # "none" /\ paid'[RunOf(v)][First(v)] = 0
        <5>1. RunOf(v) \in Runs /\ First(v) \in Indexes
          BY <3>4, <4>1
        <5>2. \/ sample'[RunOf(v)][First(v)] = sample[RunOf(v)][First(v)]
              \/ sample'[RunOf(v)][First(v)] = outcome
          BY <3>2, <5>1
        <5> QED
          BY <3>1, <3>3, <4>2, <5>2
      <4> QED
        BY <4>1, <4>9
    <3> QED
      BY <3>6, <3>7, <3>8
  <2> QED
    BY <1>5, <2>1, <2>2, SaveStep
<1>6. ASSUME NEW w \in Workers, Reload(w) \/ SaveFingerprint(w) \/ Assess(w) \/ Complete(w) PROVE PaidInv'
  <2>1. UNCHANGED <<sample, paid>>
    BY <1>6 DEF Reload, SaveFingerprint, Assess, Complete, KeepAll, rows
  <2>2. Assess(w) => Others(w) /\ work'[w].pc = "complete"
    BY GoneTo DEF Assess, Places, Reaches
  <2>3. Others(w) /\ work'[w].pc \notin {"probe", "save"}
    BY <1>6, <2>2, ReloadStep, FingerprintStep, CompleteStep DEF Reaches
  <2> QED
    BY <1>1, <2>1, <2>3 DEF Others
<1> QED
  BY <1>2, <1>3, <1>4, <1>5, <1>6, Classified DEF Measuring

\* No sample is paid for twice: neither by a retry, nor after a death between the probe and
\* the row, nor by two executors of one run (ReserveEvaluationSample, execute.go).
THEOREM NothingPaidTwice == Spec => []PaidOnce
<1>1. Init => PaidInv
  BY DEF Init, PaidInv, IdleWorker
<1>2. PaidInv => PaidOnce
  BY DEF PaidInv, PaidOnce
<1> QED
  BY <1>1, <1>2, PaidKept, AlwaysTyped, PTL DEF Spec

-----------------------------------------------------------------------------
(***************************************************************************)
(* A run succeeds with all its answers, and then stays as it is.  Why: a   *)
(* worker comes to the assessment only after it saw the outcome of every   *)
(* sample of the plan, and an outcome is never overwritten.                *)
(***************************************************************************)
Settled(r) == Samples(r, {"none"}) = {} /\ Samples(r, {"uncertain"}) = {}

MeasuredInv ==
    /\ assessment = [r \in Runs |-> assessment[r]]
    /\ \A w \in Workers : work[w].pc \in {"fingerprint", "assess", "complete"} => Settled(RunOf(w))
    /\ \A w \in Workers : work[w].pc = "complete" => assessment[RunOf(w)] # NoAssessment
    /\ \A r \in Runs : run[r].status = "succeeded" => assessment[r] # NoAssessment
    /\ \A r \in Runs : assessment[r] # NoAssessment =>
          /\ run[r].status # "none" /\ Settled(r)
          /\ assessment[r].completed = Cardinality(Samples(r, {"succeeded"}))

LEMMA NotOfASettledRun ==
    ASSUME TypeInv, NEW w \in Workers, work[w].pc # "idle", work[w].todo # {},
           sample[RunOf(w)][First(w)] \in {"none", "uncertain"}
    PROVE  ~Settled(RunOf(w))
<1>1. First(w) \in PlanOf(run[RunOf(w)].purpose)
  BY FirstIsOneOf, TypesNow DEF RunOf, TypeInv
<1> QED
  BY <1>1 DEF Settled, Samples

LEMMA SettledStays ==
    ASSUME TypeInv, PaidInv, [Next]_vars, NEW r \in Runs, Settled(r)
    PROVE  sample'[r] = sample[r]
<1>1. CASE UNCHANGED sample
  BY <1>1
<1>2. ASSUME NEW w \in Workers, NEW i, NEW v, sample' = [sample EXCEPT ![RunOf(w)][i] = v], RunOf(w) # r
      PROVE  sample'[r] = sample[r]
  BY <1>2 DEF TypeInv, TypeOK
<1>3. ASSUME NEW w \in Workers, Reserve(w) PROVE sample'[r] = sample[r]
  <2>1. CASE UNCHANGED sample
    BY <2>1
  <2>2. CASE /\ sample[RunOf(w)][First(w)] = "none"
             /\ sample' = [sample EXCEPT ![RunOf(w)][First(w)] = "uncertain"]
    <3>1. RunOf(w) # r
      BY <1>3, <2>2, ReserveStep, NotOfASettledRun
    <3> QED
      BY <1>2, <2>2, <3>1
  <2> QED
    BY <1>3, <2>1, <2>2, ReserveStep
<1>4. ASSUME NEW w \in Workers, NEW outcome \in Outcomes, Save(w, outcome) PROVE sample'[r] = sample[r]
  <2>1. work[w].todo # {} /\ work[w].pc = "save"
    BY <1>4, SaveStep DEF PaidInv
  <2> QED
    <3>1. CASE sample[RunOf(w)][First(w)] = "uncertain"
      BY <1>2, <1>4, <2>1, <3>1, SaveStep, NotOfASettledRun
    <3>2. CASE sample[RunOf(w)][First(w)] # "uncertain"
      BY <1>1, <1>4, <3>2, SaveStep
    <3> QED
      BY <3>1, <3>2
<1>5. ASSUME NEW w \in Workers, Probe(w) \/ Reload(w) \/ SaveFingerprint(w) \/ Assess(w) \/ Complete(w)
      PROVE  sample' = sample
  BY <1>5 DEF Probe, Reload, SaveFingerprint, Assess, Complete, KeepAll, rows
<1> QED
  BY <1>1, <1>3, <1>4, <1>5, Classified DEF Quiet, Measuring

LEMMA SettledRuns ==
    ASSUME TypeInv, PaidInv, [Next]_vars, NEW r \in Runs, run[r].status # "none", Settled(r)
    PROVE  Settled(r)' /\ Samples(r, {"succeeded"})' = Samples(r, {"succeeded"})
<1>1. sample'[r] = sample[r]
  BY SettledStays
<1>2. run'[r].purpose = run[r].purpose
  BY RunSteps, RunsKeepType DEF Created, SameRequest
<1>3. /\ Samples(r, {"none"})' = Samples(r, {"none"})
      /\ Samples(r, {"uncertain"})' = Samples(r, {"uncertain"})
      /\ Samples(r, {"succeeded"})' = Samples(r, {"succeeded"})
  BY <1>1, <1>2 DEF Samples
<1> QED
  BY <1>3 DEF Settled

MeasuredStep ==
    /\ assessment' = [r \in Runs |-> assessment'[r]]
    /\ \A w \in Workers : work'[w].pc \in {"fingerprint", "assess", "complete"} =>
          work'[w].run \in Created /\ Settled(work'[w].run)
    /\ \A w \in Workers : work'[w].pc = "complete" => assessment'[work'[w].run] # NoAssessment
    /\ \A r \in Runs : run'[r].status = "succeeded" => assessment'[r] # NoAssessment
    /\ \A r \in Runs : \/ assessment'[r] = assessment[r]
                       \/ /\ run[r].status # "none" /\ Settled(r)
                          /\ assessment'[r].completed = Cardinality(Samples(r, {"succeeded"}))

LEMMA MeasuredFromStep ==
    ASSUME TypeInv, PaidInv, MeasuredInv, [Next]_vars, MeasuredStep
    PROVE  MeasuredInv'
<1>1. \A r \in Runs : run[r].status # "none" =>
         /\ run'[r].status # "none"
         /\ Settled(r) => Settled(r)' /\ Samples(r, {"succeeded"})' = Samples(r, {"succeeded"})
  BY RunSteps, RunsKeepType, SettledRuns DEF Created
<1>2. \A w \in Workers : work'[w].pc \in {"fingerprint", "assess", "complete"} => Settled(RunOf(w))'
  <2> SUFFICES ASSUME NEW w \in Workers, work'[w].pc \in {"fingerprint", "assess", "complete"}
               PROVE  Settled(RunOf(w))'
    OBVIOUS
  <2> DEFINE r == work'[w].run
  <2>1. r \in Runs /\ run[r].status # "none" /\ Settled(r)
    BY DEF MeasuredStep, Created
  <2>2. r \in Runs /\ sample'[r] = sample[r] /\ run'[r].purpose = run[r].purpose
    BY <2>1, SettledStays, RunSteps, RunsKeepType DEF Created, SameRequest
  <2> QED
    BY <2>1, <2>2 DEF Settled, Samples, RunOf
<1>3. \A r \in Runs : assessment'[r] # NoAssessment =>
          /\ run'[r].status # "none" /\ Settled(r)'
          /\ assessment'[r].completed = Cardinality(Samples(r, {"succeeded"})')
  BY <1>1 DEF MeasuredStep, MeasuredInv
<1>4. \A w \in Workers : work'[w].pc = "complete" => assessment'[RunOf(w)'] # NoAssessment
  BY DEF MeasuredStep, RunOf
<1> QED
  BY <1>2, <1>3, <1>4 DEF MeasuredStep, MeasuredInv

LEMMA MeasuredKept == TypeInv /\ PaidInv /\ MeasuredInv /\ [Next]_vars => MeasuredInv'
<1> SUFFICES ASSUME TypeInv, PaidInv, MeasuredInv, [Next]_vars PROVE MeasuredStep
  BY MeasuredFromStep
<1>1. \A w \in Workers : work[w].pc # "idle" =>
         work[w].run \in Created /\ RunOf(w) = work[w].run /\ RunOf(w) \in Runs /\ run[RunOf(w)].status # "none"
  BY TypesNow DEF RunOf, Created
<1>2. ASSUME UNCHANGED assessment,
             \A r \in Runs : run'[r].status = "succeeded" => run[r].status = "succeeded",
             \A w \in Workers : \/ work'[w] = work[w]
                                \/ work'[w].pc \notin {"fingerprint", "assess", "complete"}
      PROVE  MeasuredStep
  <2>1. ASSUME NEW w \in Workers, work'[w].pc \in {"fingerprint", "assess", "complete"}
        PROVE  /\ work'[w].run \in Created /\ Settled(work'[w].run)
               /\ work'[w].pc = "complete" => assessment'[work'[w].run] # NoAssessment
    <3>1. work'[w] = work[w]
      BY <1>2, <2>1
    <3>2. work[w].run \in Created /\ RunOf(w) = work[w].run
      BY <1>1, <2>1, <3>1
    <3>3. Settled(work[w].run) /\ (work[w].pc = "complete" => assessment[work[w].run] # NoAssessment)
      BY <2>1, <3>1, <3>2 DEF MeasuredInv
    <3> QED
      BY <1>2, <3>1, <3>2, <3>3
  <2> QED
    BY <1>2, <2>1 DEF MeasuredStep, MeasuredInv
<1>3. CASE Quiet
  BY <1>2, <1>3 DEF Quiet
<1>4. ASSUME NEW w \in Workers, Reserve(w) \/ Probe(w) \/ \E outcome \in Outcomes : Save(w, outcome)
      PROVE  MeasuredStep
  <2>1. UNCHANGED <<run, assessment>> /\ Others(w) /\ work'[w].pc \in {"probe", "reserve", "save", "fail"}
    BY <1>4, ReserveStep, ProbeStep, SaveStep DEF Reaches
  <2> QED
    BY <1>2, <2>1 DEF Others
<1>5. ASSUME NEW w \in Workers, Reload(w) PROVE MeasuredStep
  <2>1. /\ UNCHANGED <<run, assessment>> /\ Others(w) /\ work'[w].run = work[w].run
        /\ work'[w].pc \in {"fail", "condemn", "fingerprint", "assess"}
        /\ work'[w].pc \in {"fingerprint", "assess"} => Settled(work[w].run)
    BY <1>5, ReloadStep DEF Settled, RunOf
  <2>2. work[w].run \in Created
    BY <1>1, <1>5 DEF Reload, At
  <2> QED
    BY <1>1, <2>1, <2>2 DEF Others, MeasuredStep, MeasuredInv
<1>6. ASSUME NEW w \in Workers, SaveFingerprint(w) PROVE MeasuredStep
  <2>1. /\ UNCHANGED <<run, assessment>> /\ Others(w) /\ work'[w].run = work[w].run
        /\ work'[w].pc = "assess" /\ work[w].pc = "fingerprint"
    BY <1>6, FingerprintStep DEF Reaches
  <2> QED
    BY <1>1, <2>1, SMTT(30) DEF Others, MeasuredStep, MeasuredInv
<1>7. ASSUME NEW w \in Workers, Assess(w) PROVE MeasuredStep
  <2>1. assessment = [r \in Runs |-> assessment[r]]
    BY DEF MeasuredInv
  <2>2. /\ UNCHANGED run /\ Others(w) /\ work'[w].run = work[w].run
        /\ work[w].pc = "assess" /\ work'[w].pc = "complete"
    BY <1>7, <2>1, AssessStep DEF Reaches
  <2>3. /\ assessment' = [r \in Runs |-> assessment'[r]]
        /\ \A r \in Runs : r # RunOf(w) \/ assessment[r] # NoAssessment => assessment'[r] = assessment[r]
        /\ assessment'[RunOf(w)] # NoAssessment
        /\ \/ assessment[RunOf(w)] # NoAssessment
           \/ assessment'[RunOf(w)].completed = Cardinality(Samples(RunOf(w), {"succeeded"}))
    BY <1>7, <2>1, AssessStep
  <2>4. Settled(RunOf(w)) /\ RunOf(w) = work[w].run /\ work[w].run \in Created
        /\ RunOf(w) \in Runs /\ run[RunOf(w)].status # "none"
    BY <1>1, <2>2 DEF MeasuredInv
  <2>5. \A r \in Runs : assessment[r] # NoAssessment => assessment'[r] # NoAssessment
    BY <2>3
  <2>6. \A v \in Workers : v # w => work'[v] = work[v]
    BY <2>2 DEF Others
  <2>7. \A v \in Workers : work'[v].pc \in {"fingerprint", "assess", "complete"} =>
           work'[v].run \in Created /\ Settled(work'[v].run)
    BY <1>1, <2>2, <2>4, <2>6 DEF MeasuredInv
  <2>8. \A v \in Workers : work'[v].pc = "complete" => assessment'[work'[v].run] # NoAssessment
    <3> SUFFICES ASSUME NEW v \in Workers, work'[v].pc = "complete"
                 PROVE  assessment'[work'[v].run] # NoAssessment
      OBVIOUS
    <3>1. CASE v = w
      BY <2>2, <2>3, <2>4, <3>1
    <3>2. CASE v # w
      <4>1. work'[v] = work[v] /\ RunOf(v) = work[v].run /\ RunOf(v) \in Runs
        BY <1>1, <2>6, <3>2
      <4>2. assessment[RunOf(v)] # NoAssessment
        BY <4>1 DEF MeasuredInv
      <4> QED
        BY <2>5, <4>1, <4>2
    <3> QED
      BY <3>1, <3>2
  <2>9. \A r \in Runs : run'[r].status = "succeeded" => assessment'[r] # NoAssessment
    BY <2>2, <2>5 DEF MeasuredInv
  <2>10. \A r \in Runs : \/ assessment'[r] = assessment[r]
                         \/ /\ run[r].status # "none" /\ Settled(r)
                            /\ assessment'[r].completed = Cardinality(Samples(r, {"succeeded"}))
    BY <2>3, <2>4
  <2> QED
    BY <2>3, <2>7, <2>8, <2>9, <2>10 DEF MeasuredStep
<1>8. ASSUME NEW w \in Workers, Complete(w) PROVE MeasuredStep
  <2>1. /\ UNCHANGED assessment /\ Others(w) /\ work[w].pc = "complete" /\ work'[w].pc = "idle"
        /\ \A r \in Runs : r # RunOf(w) => run'[r] = run[r]
    BY <1>8, CompleteStep
  <2>2. assessment[RunOf(w)] # NoAssessment
    BY <2>1 DEF MeasuredInv
  <2>3. \A r \in Runs : run'[r].status = "succeeded" => assessment'[r] # NoAssessment
    BY <2>1, <2>2 DEF MeasuredInv
  <2>4. ASSUME NEW v \in Workers, work'[v].pc \in {"fingerprint", "assess", "complete"}
        PROVE  /\ work'[v].run \in Created /\ Settled(work'[v].run)
               /\ work'[v].pc = "complete" => assessment'[work'[v].run] # NoAssessment
    <3>1. work'[v] = work[v]
      BY <2>1, <2>4 DEF Others
    <3>2. work[v].run \in Created /\ RunOf(v) = work[v].run
      BY <1>1, <2>4, <3>1
    <3> QED
      BY <2>1, <2>4, <3>1, <3>2 DEF MeasuredInv
  <2> QED
    BY <2>1, <2>3, <2>4 DEF MeasuredStep, MeasuredInv
<1> QED
  BY <1>3, <1>4, <1>5, <1>6, <1>7, <1>8, Classified DEF Measuring

LEMMA AlwaysMeasured == Spec => [](TypeInv /\ PaidInv /\ MeasuredInv)
<1>1. Init => PaidInv /\ MeasuredInv
  BY DEF Init, PaidInv, MeasuredInv, IdleWorker, NoRun
<1> QED
  BY <1>1, TypesAtFirst, TypesKept, PaidKept, MeasuredKept, PTL DEF Spec

\* A run succeeds only with the answer of every sample it planned, and its assessment counts
\* exactly the answers that succeeded, whatever executors, failures and retries it had.
THEOREM SuccessMeansMeasured == Spec => []SuccessIsMeasured
<1>1. MeasuredInv => SuccessIsMeasured
  BY DEF MeasuredInv, SuccessIsMeasured, Created, Settled, Samples
<1> QED
  BY <1>1, AlwaysMeasured, PTL

\* A finished run stays as it is, with its samples and its assessment: neither a late failure
\* of a dispatch nor a second executor changes it (FailEvaluationRun, StartEvaluationRun).
THEOREM FinishedStays == Spec => FinishedIsFinal
<1>1. TypeInv /\ PaidInv /\ MeasuredInv /\ [Next]_vars
      => [\A r \in Created : run[r].status = "succeeded" =>
             run'[r] = run[r] /\ sample'[r] = sample[r] /\ assessment'[r] = assessment[r]]_vars
  <2> SUFFICES ASSUME TypeInv, PaidInv, MeasuredInv, [Next]_vars,
                      NEW r \in Created, run[r].status = "succeeded"
               PROVE  run'[r] = run[r] /\ sample'[r] = sample[r] /\ assessment'[r] = assessment[r]
    OBVIOUS
  <2>1. r \in Runs /\ assessment[r] # NoAssessment /\ Settled(r)
    BY DEF Created, MeasuredInv
  <2>2. run'[r] = run[r]
    <3>1. ASSUME NEW c \in Clients, NEW q \in Runs, Inserted(c, q) PROVE run'[r] = run[r]
      <4>1. q # r
        BY <3>1 DEF Inserted
      <4> QED
        BY <2>1, <3>1, <4>1, InsertedRow
    <3>2. ASSUME NEW q \in Runs, NEW status \in ActiveStatuses \cup TerminalStatuses, Moved(q, status)
          PROVE  run'[r] = run[r]
      <4>1. q # r
        BY <3>2 DEF Moved, ActiveStatuses
      <4> QED
        BY <2>1, <3>2, <4>1, MovedRow
    <3> QED
      BY <3>1, <3>2, RunSteps DEF RunStep
  <2>3. assessment'[r] = assessment[r]
    <3>1. ASSUME NEW w \in Workers, Assess(w) PROVE assessment'[r] = assessment[r]
      BY <2>1, <3>1, AssessStep DEF MeasuredInv
    <3>2. ASSUME NEW w \in Workers, Measuring(w), ~Assess(w) PROVE assessment'[r] = assessment[r]
      BY <3>2 DEF Measuring, Reserve, Probe, Save, Reload, SaveFingerprint, Complete, KeepAll, rows
    <3> QED
      BY <3>1, <3>2, Classified DEF Quiet
  <2> QED
    BY <2>1, <2>2, <2>3, SettledStays
<1> QED
  BY <1>1, AlwaysMeasured, PTL DEF Spec, FinishedIsFinal
=============================================================================
