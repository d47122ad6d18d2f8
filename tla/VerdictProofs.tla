---------------------------- MODULE VerdictProofs ----------------------------
(***************************************************************************)
(* Proofs about what an evaluation may spend and what it may conclude: the *)
(* daily budget, the reference behind a verdict of authenticity and the    *)
(* two mismatches behind a verdict against a supplier, for any number of   *)
(* suppliers, runs, samples, references, clients, workers, failures and    *)
(* moments of time.                                                        *)
(***************************************************************************)
EXTENDS EvaluationProofs

USE EvaluationAssumption

-----------------------------------------------------------------------------
(***************************************************************************)
(* The budget.  Why: only the insertion of a run changes it, in the same   *)
(* transaction and by what the run plans, and neither the supplier, the    *)
(* purpose nor the time of the request of a run ever changes.              *)
(***************************************************************************)
BudgetInv ==
    \A s \in Suppliers, d \in 0 .. DayOf(MaxTime) :
        /\ IsFiniteSet(PlannedOn(s, d))
        /\ budget[s][d] = Cardinality(PlannedOn(s, d))
        /\ budget[s][d] <= DailyLimit

LEMMA BudgetMoves ==
    ASSUME [Next]_vars
    PROVE  UNCHANGED budget \/ \E c \in Clients, r \in Runs : Inserted(c, r)
<1>1. ASSUME NEW c \in Clients, Create(c)
      PROVE  UNCHANGED budget \/ \E r \in Runs : Inserted(c, r)
  BY <1>1 DEF Create, Inserted, ToClient, rows, Created
<1>2. ASSUME NEW c \in Clients,
             \/ \E s \in Suppliers, p \in Purposes, k \in Keys \cup {NoKey} : Request(c, s, p, k)
             \/ \E r \in Created : Sweep(c, r)
             \/ Dispatch(c) \/ MarkUndispatched(c) \/ Abandon(c)
      PROVE  UNCHANGED budget
  BY <1>2 DEF Request, Sweep, RetryExisting, Dispatch, MarkUndispatched, FailEvaluationRun, Abandon, ToClient, rows
<1>3. ASSUME NEW w \in Workers,
             \/ \E r \in Runs : Claim(w, r)
             \/ Load(w) \/ Start(w) \/ ListSamples(w) \/ Reserve(w) \/ Probe(w)
             \/ \E outcome \in Outcomes : Save(w, outcome)
      PROVE  UNCHANGED budget
  BY <1>3 DEF Claim, Load, Start, ListSamples, Reserve, Probe, Save, KeepAll, rows
<1>4. ASSUME NEW w \in Workers,
             \/ Reload(w) \/ Condemn(w) \/ SaveFingerprint(w) \/ Assess(w) \/ Complete(w) \/ FailRun(w)
             \/ Trouble(w) \/ GiveUp(w) \/ Crash(w)
      PROVE  UNCHANGED budget
  BY <1>4 DEF Reload, Condemn, SaveFingerprint, Assess, Complete, FailRun, FailEvaluationRun, Trouble,
              GiveUp, Crash, KeepAll, rows
<1>5. ASSUME \/ Tick \/ \E r \in Runs : Rescue(r) \/ Clean(r)
             \/ \E r \in Created, f \in Refs, trust \in Trusts : PromoteReference(r, f, trust)
             \/ UNCHANGED vars
      PROVE  UNCHANGED budget
  BY <1>5 DEF Tick, Rescue, Clean, PromoteReference, vars, rows
<1> QED
  BY <1>1, <1>2, <1>3, <1>4, <1>5 DEF Next, Serve, Execute

LEMMA BudgetKept == TypeInv /\ BudgetInv /\ [Next]_vars => BudgetInv'
<1> SUFFICES ASSUME TypeInv, BudgetInv, [Next]_vars, NEW s \in Suppliers, NEW d \in 0 .. DayOf(MaxTime)
             PROVE  /\ IsFiniteSet(PlannedOn(s, d)')
                    /\ budget'[s][d] = Cardinality(PlannedOn(s, d)')
                    /\ budget'[s][d] <= DailyLimit
  BY Zenon DEF BudgetInv
<1> DEFINE on == PlannedOn(s, d)
<1>1. IsFiniteSet(on) /\ budget[s][d] = Cardinality(on) /\ budget[s][d] <= DailyLimit
  BY DEF BudgetInv
<1>2. RunStep
  BY RunSteps
<1>3. run \in [Runs -> RunRow \cup {NoRun}]
  BY DEF TypeInv, TypeOK
<1>4. ASSUME UNCHANGED budget, UNCHANGED run
      PROVE  on' = on
  BY <1>4 DEF PlannedOn, Created
<1>5. ASSUME NEW q \in Runs, NEW status \in ActiveStatuses \cup TerminalStatuses, Moved(q, status)
      PROVE  on' = on
  <2>1. \A r \in Runs : r # q => run'[r] = run[r]
    BY <1>5, MovedRow
  <2>2. SameRequest(q) /\ run[q].status # "none"
    BY <1>5, MovedRow DEF Moved, ActiveStatuses
  <2>3. Created' = Created
    BY <2>1, <2>2 DEF Created, SameRequest
  <2>4. \A r \in Created : run'[r].supplier = run[r].supplier /\ run'[r].at = run[r].at
                          /\ run'[r].purpose = run[r].purpose
    BY <2>1, <2>2 DEF Created, SameRequest
  <2> QED
    BY <2>3, <2>4 DEF PlannedOn
<1>6. ASSUME NEW c \in Clients, NEW q \in Runs, Inserted(c, q)
      PROVE  /\ IsFiniteSet(on') /\ budget'[s][d] = Cardinality(on') /\ budget'[s][d] <= DailyLimit
  <2> DEFINE n == Planned[ask[c].purpose]
             new == {q} \X (1 .. n)
  <2>1. \A r \in Runs : r # q => run'[r] = run[r]
    BY <1>6, InsertedRow
  <2>2. /\ run'[q].supplier = ask[c].supplier /\ run'[q].purpose = ask[c].purpose /\ run'[q].at = ask[c].at
        /\ run'[q].status = "pending" /\ q \notin Created
    BY <1>3, <1>6 DEF Inserted, Insert, Created
  <2>3. Created' = Created \cup {q}
    BY <2>1, <2>2 DEF Created
  <2>4. ask[c].supplier \in Suppliers /\ ask[c].purpose \in Purposes
    BY <1>6, InsertedRow
  <2>5. n \in Nat \ {0} /\ PlanOf(ask[c].purpose) = 1 .. n /\ 1 .. n \subseteq Indexes
    BY <2>4 DEF PlanOf, Indexes
  <2> HIDE DEF n
  <2>6. IsFiniteSet(new) /\ Cardinality(new) = n
    <3>1. IsFiniteSet({q}) /\ Cardinality({q}) = 1
      BY FS_Singleton
    <3>2. 1 \in Int /\ n \in Int
      BY <2>5
    <3>3. IsFiniteSet(1 .. n) /\ Cardinality(1 .. n) = n
      BY <2>5, <3>2, FS_Interval
    <3>4. IsFiniteSet({q} \X (1 .. n)) /\ Cardinality({q} \X (1 .. n)) = Cardinality({q}) * Cardinality(1 .. n)
      BY <3>1, <3>3, FS_Product
    <3> QED
      BY <2>5, <3>1, <3>3, <3>4
  <2>7. \A r \in Created : run'[r] = run[r]
    BY <2>1, <2>2 DEF Created
  <2>8. budget' = [budget EXCEPT ![ask[c].supplier] = [budget[ask[c].supplier] EXCEPT
                        ![DayOf(ask[c].at)] = budget[ask[c].supplier][DayOf(ask[c].at)] + n]]
    BY <1>6, Zenon DEF Inserted, Insert, ReserveBudget, n
  <2>9. budget \in [Suppliers -> [0 .. DayOf(MaxTime) -> Nat]]
    BY DEF TypeInv, TypeOK
  <2>10. CASE ask[c].supplier = s /\ DayOf(ask[c].at) = d
    <3>1. on' = on \cup new
      BY <2>2, <2>3, <2>5, <2>7, <2>10 DEF PlannedOn
    <3>2. on \cap new = {}
      BY <2>2 DEF PlannedOn
    <3>3. IsFiniteSet(on') /\ Cardinality(on') = Cardinality(on) + n - Cardinality(on \cap new)
      <4> HIDE DEF on, new
      <4>1. IsFiniteSet(on \cup new) /\ Cardinality(on \cup new) = Cardinality(on) + Cardinality(new) - Cardinality(on \cap new)
        BY <1>1, <2>6, FS_Union
      <4> QED
        BY <2>6, <3>1, <4>1, Zenon
    <3>4. Cardinality(on \cap new) = 0 /\ Cardinality(on) \in Nat
      BY <1>1, <3>2, FS_EmptySet, FS_CardinalityType
    <3>5. Cardinality(on') = Cardinality(on) + n
      BY <2>5, <3>3, <3>4
    <3>6. budget'[s][d] = budget[s][d] + n
      BY <2>8, <2>9, <2>10
    <3>7. budget[s][d] + n <= DailyLimit
      BY <1>6, <2>10 DEF Inserted, Creatable, BudgetLeft, n
    <3> QED
      BY <1>1, <3>3, <3>5, <3>6, <3>7
  <2>11. CASE ~(ask[c].supplier = s /\ DayOf(ask[c].at) = d)
    <3>1. on' = on
      BY <2>2, <2>3, <2>7, <2>11 DEF PlannedOn
    <3>2. budget'[s][d] = budget[s][d]
      BY <2>8, <2>9, <2>11
    <3> QED
      BY <1>1, <3>1, <3>2
  <2> QED
    BY <2>10, <2>11
<1>7. CASE UNCHANGED budget
  <2>1. (\A c \in Clients, r \in Runs : ~Inserted(c, r)) => on' = on
    BY <1>2, <1>4, <1>5, <1>7 DEF RunStep
  <2> QED
    BY <1>1, <1>6, <1>7, <2>1
<1> QED
  BY <1>6, <1>7, BudgetMoves

\* What the runs of a day may spend is reserved once and is within the limit, however often
\* they are dispatched, started and retried (CreateEvaluationRun).
THEOREM RunsStayInBudget == Spec => []BudgetCoversRuns
<1>1. Init => BudgetInv
  <2> SUFFICES ASSUME Init, NEW s \in Suppliers, NEW d \in 0 .. DayOf(MaxTime)
               PROVE  IsFiniteSet(PlannedOn(s, d)) /\ budget[s][d] = Cardinality(PlannedOn(s, d)) /\ budget[s][d] <= DailyLimit
    BY Zenon DEF BudgetInv
  <2>1. PlannedOn(s, d) = {}
    BY DEF Init, PlannedOn, Created, NoRun
  <2>2. budget[s][d] = 0
    BY DEF Init
  <2> QED
    BY <2>1, <2>2, FS_EmptySet
<1>2. BudgetInv => BudgetCoversRuns
  BY DEF BudgetInv, BudgetCoversRuns
<1> QED
  BY <1>1, <1>2, BudgetKept, AlwaysTyped, PTL DEF Spec

-----------------------------------------------------------------------------
(***************************************************************************)
(* The references.  A row keeps what was promoted, it can only be revoked; *)
(* what a run or the request of one is compared with was trusted and is of *)
(* another supplier.                                                       *)
(***************************************************************************)
ReferenceType == [trust : Trusts, supplier : Suppliers, source : Runs, created : 0 .. MaxTime,
                  expires : Nat, revoked : 0 .. MaxTime + 1]

Believable(f, s) ==
    /\ f \in Refs /\ reference[f] # NoReference
    /\ reference[f].trust # "community" /\ reference[f].supplier # s

ReferenceInv ==
    /\ reference \in [Refs -> ReferenceType \cup {NoReference}]
    /\ \A c \in Clients : ask[c].pc = "create" /\ ask[c].ref # NoRef => Believable(ask[c].ref, ask[c].supplier)
    /\ \A r \in Created : run[r].ref # NoRef => Believable(run[r].ref, run[r].supplier)

(***************************************************************************)
(* Which steps change the references, the verdicts and the fingerprints,   *)
(* and what is chosen for the request of a run.                            *)
(***************************************************************************)
Promotion == \E r \in Created, f \in Refs, trust \in Trusts : PromoteReference(r, f, trust)

LEMMA TableMoves ==
    ASSUME [Next]_vars
    PROVE  /\ UNCHANGED reference \/ (Promotion /\ UNCHANGED <<now, run, assessment, fingerprint, ask, work>>)
           /\ UNCHANGED assessment \/ \E w \in Workers : Assess(w)
           /\ UNCHANGED fingerprint \/ \E w \in Workers : SaveFingerprint(w)
           /\ UNCHANGED now \/ (Tick /\ UNCHANGED <<run, assessment, fingerprint, reference, ask, work, job>>)
<1> DEFINE Goal == /\ UNCHANGED reference \/ (Promotion /\ UNCHANGED <<now, run, assessment, fingerprint, ask, work>>)
                   /\ UNCHANGED assessment \/ \E w \in Workers : Assess(w)
                   /\ UNCHANGED fingerprint \/ \E w \in Workers : SaveFingerprint(w)
                   /\ UNCHANGED now \/ (Tick /\ UNCHANGED <<run, assessment, fingerprint, reference, ask, work, job>>)
           Same == UNCHANGED <<now, reference, assessment, fingerprint>>
<1>0. Same => Goal
  OBVIOUS
<1>1. ASSUME NEW c \in Clients,
             \/ \E s \in Suppliers, p \in Purposes, k \in Keys \cup {NoKey} : Request(c, s, p, k)
             \/ \E r \in Created : Sweep(c, r)
             \/ Create(c) \/ Dispatch(c) \/ MarkUndispatched(c) \/ Abandon(c)
      PROVE  Same
  BY <1>1 DEF Request, Sweep, RetryExisting, Create, Insert, Dispatch, MarkUndispatched, FailEvaluationRun,
              Abandon, ToClient, rows
<1>2. ASSUME NEW w \in Workers,
             \/ \E r \in Runs : Claim(w, r)
             \/ Load(w) \/ Start(w) \/ ListSamples(w) \/ Reserve(w) \/ Probe(w)
             \/ \E outcome \in Outcomes : Save(w, outcome)
      PROVE  Same
  BY <1>2 DEF Claim, Load, Start, ListSamples, Reserve, Probe, Save, KeepAll, rows
<1>3. ASSUME NEW w \in Workers,
             \/ Reload(w) \/ Condemn(w) \/ Complete(w) \/ FailRun(w)
             \/ Trouble(w) \/ GiveUp(w) \/ Crash(w)
      PROVE  Same
  BY <1>3 DEF Reload, Condemn, Complete, FailRun, FailEvaluationRun, Trouble, GiveUp, Crash, KeepAll, rows
<1>4. ASSUME NEW w \in Workers, SaveFingerprint(w) \/ Assess(w) PROVE Goal
  BY <1>4 DEF SaveFingerprint, Assess
<1>5. ASSUME (\E r \in Runs : Rescue(r) \/ Clean(r)) \/ UNCHANGED vars PROVE Same
  BY <1>5 DEF Rescue, Clean, vars, rows
<1>6. ASSUME Tick PROVE Goal
  BY <1>6 DEF Tick, rows
<1>7. ASSUME Promotion PROVE Goal
  BY <1>7 DEF Promotion, PromoteReference
<1> HIDE DEF Goal, Same
<1>8. Goal
  BY <1>0, <1>1, <1>2, <1>3, <1>4, <1>5, <1>6, <1>7 DEF Next, Serve, Execute, Promotion
<1> QED
  BY <1>8 DEF Goal

Asked(c) ==
    \E s \in Suppliers, p \in Purposes, k \in Keys \cup {NoKey} : \E f \in ChosenReference(s) :
        ask'[c] = [pc |-> "create", supplier |-> s, purpose |-> p, key |-> k, at |-> now, ref |-> f]

LEMMA CreationsAreAsked ==
    ASSUME TypeInv, [Next]_vars, NEW c \in Clients, ask'[c].pc = "create", ask'[c] # ask[c]
    PROVE  Asked(c) /\ UNCHANGED rows
<1>0. ask \in [Clients -> {IdleClient} \cup CreateType \cup DispatchType]
  BY TypesNow
<1>1. \A d \in Clients : \A l : ask' = [ask EXCEPT ![d] = l] => d = c /\ ask'[c] = l
  BY <1>0
<1>2. \A d \in Clients : \A l : ToClient(d, l) => d = c /\ ask'[c] = l
  BY <1>1 DEF ToClient
<1>3. \A d \in Clients : ~ToClient(d, IdleClient) /\ \A r : ~ToClient(d, Dispatching(r))
  BY <1>2 DEF IdleClient, Dispatching
<1>4. ASSUME NEW d \in Clients, NEW s \in Suppliers, NEW p \in Purposes, NEW k \in Keys \cup {NoKey},
             Request(d, s, p, k)
      PROVE  Asked(c) /\ UNCHANGED rows
  <2>1. PICK f \in ChosenReference(s) :
               ToClient(d, [pc |-> "create", supplier |-> s, purpose |-> p, key |-> k, at |-> now, ref |-> f])
    BY <1>3, <1>4 DEF Request, RetryExisting
  <2>2. ask'[c] = [pc |-> "create", supplier |-> s, purpose |-> p, key |-> k, at |-> now, ref |-> f]
    BY <1>2, <2>1
  <2> QED
    BY <2>1, <2>2 DEF Asked, ToClient
<1>5. ASSUME NEW d \in Clients, (\E r \in Created : Sweep(d, r)) \/ Abandon(d) PROVE FALSE
  BY <1>3, <1>5 DEF Sweep, RetryExisting, Abandon
<1>6. ASSUME NEW d \in Clients, Create(d) PROVE FALSE
  <2>1. \A r \in Runs : ~Insert(d, r)
    BY <1>1 DEF Insert, Dispatching
  <2> QED
    BY <1>3, <1>6, <2>1 DEF Create, Created
<1>7. ASSUME NEW d \in Clients, MarkUndispatched(d) PROVE FALSE
  BY <1>1, <1>7 DEF MarkUndispatched, IdleClient
<1>8. ASSUME NEW d \in Clients, Dispatch(d) PROVE FALSE
  <2>1. ToClient(d, [ask[d] EXCEPT !.pc = "mark"])
    BY <1>3, <1>8 DEF Dispatch
  <2>2. ask'[c] = [ask[d] EXCEPT !.pc = "mark"]
    BY <1>2, <2>1
  <2>3. ask[d] \in DispatchType
    BY <1>0, <1>8 DEF Dispatch, CreateType, IdleClient
  <2>4. [ask[d] EXCEPT !.pc = "mark"].pc = "mark"
    BY <2>3, Z3 DEF DispatchType
  <2> QED
    BY <2>2, <2>4
<1>9. ASSUME NEW w \in Workers,
             \/ \E r \in Runs : Claim(w, r)
             \/ Execute(w) \/ Trouble(w) \/ GiveUp(w) \/ Crash(w)
      PROVE  FALSE
  <2>1. UNCHANGED ask
    BY <1>9 DEF Claim, Execute, Load, Start, ListSamples, Reserve, Probe, Save, Reload, Condemn, SaveFingerprint,
                Assess, Complete, FailRun, Trouble, GiveUp, Crash, KeepAll
  <2> QED
    BY <2>1
<1>10. ASSUME Tick \/ (\E r \in Runs : Rescue(r) \/ Clean(r)) \/ Promotion \/ UNCHANGED vars PROVE FALSE
  <2>1. UNCHANGED ask
    BY <1>10 DEF Tick, Rescue, Clean, Promotion, PromoteReference, vars
  <2> QED
    BY <2>1
<1> QED
  BY <1>4, <1>5, <1>6, <1>7, <1>8, <1>9, <1>10 DEF Next, Serve, Promotion

(***************************************************************************)
(* What a promotion does to the rows of the references.                    *)
(***************************************************************************)
Kept(f) ==
    /\ reference'[f].trust = reference[f].trust /\ reference'[f].supplier = reference[f].supplier
    /\ reference'[f].expires = reference[f].expires
    /\ \/ reference'[f].revoked = reference[f].revoked
       \/ reference'[f].revoked = now

LEMMA RevokedRow ==
    ASSUME NEW row \in ReferenceType, NEW at \in 0 .. MaxTime
    PROVE  [row EXCEPT !.revoked = at] =
              [trust |-> row.trust, supplier |-> row.supplier, source |-> row.source, created |-> row.created,
               expires |-> row.expires, revoked |-> at]
BY Z3 DEF ReferenceType

LEMMA ReferencesAreKept ==
    ASSUME TypeInv, [Next]_vars, reference \in [Refs -> ReferenceType \cup {NoReference}]
    PROVE  /\ reference' \in [Refs -> ReferenceType \cup {NoReference}]
           /\ \A f \in Refs : reference[f] # NoReference => reference'[f] # NoReference /\ Kept(f)
<1>1. CASE UNCHANGED reference
  BY <1>1 DEF Kept
<1>2. ASSUME NEW r \in Created, NEW f \in Refs, NEW trust \in Trusts, PromoteReference(r, f, trust)
      PROVE  /\ reference' \in [Refs -> ReferenceType \cup {NoReference}]
             /\ \A g \in Refs : reference[g] # NoReference => reference'[g] # NoReference /\ Kept(g)
  <2>1. now \in 0 .. MaxTime
    BY DEF TypeInv, TypeOK
  <2>2. run[r].supplier \in Suppliers /\ r \in Runs
    <3>1. run[r] \in RunRow /\ r \in Runs
      BY DEF TypeInv, TypeOK, NoRun, Created
    <3> QED
      BY <3>1 DEF RunRow
  <2>3. ReferenceRow(r, trust) \in ReferenceType
    BY <2>1, <2>2 DEF ReferenceRow, ReferenceType
  <2>4. ASSUME NEW g \in Refs
        PROVE  /\ reference'[g] \in ReferenceType \cup {NoReference}
               /\ reference[g] # NoReference => reference'[g] # NoReference /\ Kept(g)
    <3>0. reference[g] \in ReferenceType \cup {NoReference}
      OBVIOUS
    <3>1. CASE g = f
      BY <1>2, <2>3, <3>1 DEF PromoteReference
    <3>2. CASE g # f /\ ~Revocable(g, run[r].supplier)
      <4>1. reference'[g] = reference[g]
        BY <1>2, <3>2 DEF PromoteReference
      <4> QED
        BY <4>1 DEF Kept
    <3>3. CASE g # f /\ Revocable(g, run[r].supplier)
      <4>1. reference'[g] = [reference[g] EXCEPT !.revoked = now]
        BY <1>2, <3>3 DEF PromoteReference
      <4>2. reference[g] \in ReferenceType
        BY <3>0, <3>3 DEF Revocable
      <4>3. reference'[g] = [trust |-> reference[g].trust, supplier |-> reference[g].supplier,
                             source |-> reference[g].source, created |-> reference[g].created,
                             expires |-> reference[g].expires, revoked |-> now]
        BY <2>1, <4>1, <4>2, RevokedRow
      <4>4. now \in 0 .. MaxTime + 1
        BY <2>1
      <4>5. reference'[g] \in ReferenceType /\ Kept(g)
        BY <4>2, <4>3, <4>4 DEF ReferenceType, Kept
      <4> QED
        BY <4>5 DEF ReferenceType, NoReference
    <3> QED
      BY <3>1, <3>2, <3>3
  <2>5. reference' = [g \in Refs |-> reference'[g]]
    BY <1>2 DEF PromoteReference
  <2> QED
    BY <2>4, <2>5
<1> QED
  BY <1>1, <1>2, TableMoves DEF Promotion

LEMMA ReferencesBelieved ==
    ASSUME ReferenceInv, NEW s \in Suppliers, NEW f \in ChosenReference(s), f # NoRef
    PROVE  Believable(f, s)
<1>1. PICK g \in Trusted : f = IF reference[g].supplier = s THEN NoRef ELSE g
  BY DEF ChosenReference
<1>2. f = g /\ reference[g].supplier # s /\ g \in Refs /\ reference[g].trust \in {"official", "operator_trusted"}
  BY <1>1 DEF Trusted
<1> QED
  BY <1>2 DEF Believable, NoReference

StillBelievable(f, s) ==
    /\ f \in Refs /\ reference'[f] # NoReference
    /\ reference'[f].trust # "community" /\ reference'[f].supplier # s

LEMMA ReferencesKept == TypeInv /\ ReferenceInv /\ [Next]_vars => ReferenceInv'
<1> SUFFICES ASSUME TypeInv, ReferenceInv, [Next]_vars PROVE ReferenceInv'
  OBVIOUS
<1>1. /\ reference' \in [Refs -> ReferenceType \cup {NoReference}]
      /\ \A f \in Refs : reference[f] # NoReference => reference'[f] # NoReference /\ Kept(f)
  BY ReferencesAreKept DEF ReferenceInv
<1>2. \A f, s : Believable(f, s) => StillBelievable(f, s)
  BY <1>1 DEF Believable, StillBelievable, Kept
<1>3. ASSUME NEW c \in Clients, ask'[c].pc = "create", ask'[c].ref # NoRef
      PROVE  StillBelievable(ask'[c].ref, ask'[c].supplier)
  <2>1. CASE ask'[c] = ask[c]
    BY <1>2, <1>3, <2>1 DEF ReferenceInv
  <2>2. CASE ask'[c] # ask[c]
    <3>1. Asked(c)
      BY <1>3, <2>2, CreationsAreAsked
    <3>2. Believable(ask'[c].ref, ask'[c].supplier)
      BY <1>3, <3>1, ReferencesBelieved DEF Asked
    <3> QED
      BY <1>2, <3>2
  <2> QED
    BY <2>1, <2>2
<1>4. ASSUME NEW r \in Runs, run'[r].status # "none", run'[r].ref # NoRef
      PROVE  StillBelievable(run'[r].ref, run'[r].supplier)
  <2>1. CASE r \in Created
    <3>1. run'[r].ref = run[r].ref /\ run'[r].supplier = run[r].supplier
      BY <2>1, RunSteps, RunsKeepType DEF SameRequest
    <3> QED
      BY <1>2, <1>4, <2>1, <3>1 DEF ReferenceInv
  <2>2. CASE r \notin Created
    <3>1. PICK c \in Clients : Inserted(c, r)
      <4>1. ASSUME NEW c \in Clients, NEW q \in Runs, Inserted(c, q) PROVE q = r
        <5>1. \A x \in Runs : x # q => run'[x] = run[x]
          BY <4>1, InsertedRow
        <5> QED
          BY <1>4, <2>2, <5>1 DEF Created
      <4>2. ASSUME NEW q \in Runs, NEW status \in ActiveStatuses \cup TerminalStatuses, Moved(q, status) PROVE FALSE
        <5>1. q # r
          BY <2>2, <4>2 DEF Moved, Created, ActiveStatuses
        <5> QED
          BY <1>4, <2>2, <4>2, <5>1, MovedRow DEF Created
      <4>3. ~UNCHANGED run
        BY <1>4, <2>2 DEF Created
      <4> QED
        BY <4>1, <4>2, <4>3, RunSteps DEF RunStep
    <3>2. run'[r].ref = ask[c].ref /\ run'[r].supplier = ask[c].supplier /\ ask[c].pc = "create"
      BY <3>1 DEF Inserted, Insert, TypeInv, TypeOK
    <3> QED
      BY <1>2, <1>4, <3>2 DEF ReferenceInv
  <2> QED
    BY <2>1, <2>2
<1> QED
  BY <1>1, <1>3, <1>4 DEF ReferenceInv, Created, Believable, StillBelievable

-----------------------------------------------------------------------------
(***************************************************************************)
(* What a step does to a worker: it takes a job, reports, or goes on; and  *)
(* what it stores when it assesses a run.                                  *)
(***************************************************************************)
Busy(w) == work[w].pc # "idle"

Claimed(w) ==
    \E r \in Runs : /\ ~Busy(w) /\ Claim(w, r) /\ Others(w)
                   /\ work'[w] = [pc |-> "load", run |-> r, todo |-> {}, at |-> 0]

Reports(w) == Busy(w) /\ work'[w] = IdleWorker /\ Others(w)

Advances(w) ==
    /\ Busy(w) /\ Others(w) /\ work'[w].run = work[w].run /\ work'[w].pc \notin {"idle", "load"}
    /\ work'[w].at = work[w].at \/ (SaveFingerprint(w) /\ work'[w].at = now)
    /\ work'[w].pc = "assess" => \/ SaveFingerprint(w) /\ work'[w].at = now
                                \/ run[RunOf(w)].purpose # "authenticity"
    /\ work[w].pc = "load" => run[RunOf(w)].status \in ActiveStatuses

WorkerMove(w) == Claimed(w) \/ Reports(w) \/ Advances(w)

LEMMA AdvancedTo ==
    ASSUME TypeInv, NEW w \in Workers, NEW place \in Places \ {"idle", "load", "assess"}, Goto(w, place),
           Busy(w), work[w].pc = "load" => run[RunOf(w)].status \in ActiveStatuses
    PROVE  Advances(w)
<1>1. /\ Others(w)
      /\ work'[w] = [pc |-> place, run |-> work[w].run, todo |-> work[w].todo, at |-> work[w].at]
  BY Gone
<1> QED
  BY <1>1 DEF Advances

LEMMA WorkerMoves ==
    ASSUME TypeInv, [Next]_vars
    PROVE  UNCHANGED work \/ \E w \in Workers : WorkerMove(w)
<1>0. work \in [Workers -> Local]
  BY TypesNow
<1>1. ASSUME NEW c \in Clients,
             \/ \E s \in Suppliers, p \in Purposes, k \in Keys \cup {NoKey} : Request(c, s, p, k)
             \/ \E r \in Created : Sweep(c, r)
             \/ Create(c) \/ Dispatch(c) \/ MarkUndispatched(c) \/ Abandon(c)
      PROVE  UNCHANGED work
  BY <1>1 DEF Request, Sweep, RetryExisting, Create, Insert, Dispatch, MarkUndispatched, Abandon, ToClient
<1>2. ASSUME NEW w \in Workers, NEW r \in Runs, Claim(w, r) PROVE WorkerMove(w)
  BY <1>0, <1>2 DEF Claim, Claimed, WorkerMove, Others, Busy, At
<1>3. ASSUME NEW w \in Workers, NEW failed \in BOOLEAN, Report(w, failed), Busy(w) PROVE WorkerMove(w)
  BY <1>3, Reported DEF WorkerMove, Reports
<1>4. ASSUME NEW w \in Workers, NEW place \in Places \ {"idle", "load", "assess"}, Goto(w, place),
             Busy(w), work[w].pc = "load" => run[RunOf(w)].status \in ActiveStatuses
      PROVE  WorkerMove(w)
  BY <1>4, AdvancedTo DEF WorkerMove
<1>5. ASSUME NEW w \in Workers, Load(w) \/ Start(w) PROVE WorkerMove(w)
  BY <1>3, <1>4, <1>5 DEF Load, Start, At, Places, ActiveStatuses, Busy
<1>6. ASSUME NEW w \in Workers, Condemn(w) \/ Complete(w) \/ FailRun(w) \/ GiveUp(w) PROVE WorkerMove(w)
  BY <1>3, <1>6 DEF Condemn, Complete, FailRun, GiveUp, At, Busy
<1>7. ASSUME NEW w \in Workers, Crash(w) PROVE WorkerMove(w)
  BY <1>0, <1>7 DEF Crash, At, Busy, WorkerMove, Reports, Others
<1>8. ASSUME NEW w \in Workers, Probe(w) \/ Trouble(w) PROVE WorkerMove(w)
  BY <1>4, <1>8 DEF Probe, Trouble, At, Busy, Places
<1>10. ASSUME NEW w \in Workers, ListSamples(w) PROVE WorkerMove(w)
  <2> DEFINE new == {i \in PlanOf(run[RunOf(w)].purpose) : sample[RunOf(w)][i] = "none"}
  <2>1. work' = [work EXCEPT ![w] = [work[w] EXCEPT !.pc = "reserve", !.todo = new]]
    BY <1>10, Zenon DEF ListSamples
  <2>2. [work[w] EXCEPT !.pc = "reserve", !.todo = new]
           = [pc |-> "reserve", run |-> work[w].run, todo |-> new, at |-> work[w].at]
    BY <1>0, LocalChanges
  <2>3. work' = [work EXCEPT ![w] = [pc |-> "reserve", run |-> work[w].run, todo |-> new, at |-> work[w].at]]
    BY <2>1, <2>2, Zenon
  <2> HIDE DEF new
  <2>4. Others(w) /\ work'[w] = [pc |-> "reserve", run |-> work[w].run, todo |-> new, at |-> work[w].at]
    BY <1>0, <2>3 DEF Others
  <2>5. work[w].pc = "list"
    BY <1>10 DEF ListSamples, At
  <2> QED
    BY <2>4, <2>5 DEF Busy, WorkerMove, Advances
<1>11. ASSUME NEW w \in Workers, Reserve(w) PROVE WorkerMove(w)
  <2>1. CASE Goto(w, "probe")
    BY <1>4, <1>11, <2>1 DEF Reserve, At, Busy, Places
  <2>2. CASE work' = [work EXCEPT ![w].todo = Rest(w)]
    <3>1. work' = [work EXCEPT ![w] = [work[w] EXCEPT !.todo = Rest(w)]]
      BY <2>2, Zenon
    <3>2. [work[w] EXCEPT !.todo = Rest(w)]
             = [pc |-> work[w].pc, run |-> work[w].run, todo |-> Rest(w), at |-> work[w].at]
      BY <1>0, LocalChanges
    <3>3. work' = [work EXCEPT ![w] = [pc |-> work[w].pc, run |-> work[w].run, todo |-> Rest(w), at |-> work[w].at]]
      BY <3>1, <3>2, Zenon
    <3> QED
      BY <1>0, <1>11, <3>3 DEF Reserve, At, Busy, WorkerMove, Advances, Others
  <2> QED
    BY <1>11, <2>1, <2>2 DEF Reserve
<1>12. ASSUME NEW w \in Workers, NEW outcome \in Outcomes, Save(w, outcome) PROVE WorkerMove(w)
  <2>1. CASE Goto(w, "fail")
    BY <1>4, <1>12, <2>1 DEF Save, At, Busy, Places
  <2>2. CASE work' = [work EXCEPT ![w] = [work[w] EXCEPT !.pc = "reserve", !.todo = Rest(w)]]
    <3>1. [work[w] EXCEPT !.pc = "reserve", !.todo = Rest(w)]
             = [pc |-> "reserve", run |-> work[w].run, todo |-> Rest(w), at |-> work[w].at]
      BY <1>0, LocalChanges
    <3>2. work' = [work EXCEPT ![w] = [pc |-> "reserve", run |-> work[w].run, todo |-> Rest(w), at |-> work[w].at]]
      BY <2>2, <3>1, Zenon
    <3> QED
      BY <1>0, <1>12, <3>2 DEF Save, At, Busy, WorkerMove, Advances, Others
  <2> QED
    <3>1. Goto(w, "fail") \/ work' = [work EXCEPT ![w] = [work[w] EXCEPT !.pc = "reserve", !.todo = Rest(w)]]
      BY <1>12, Zenon DEF Save
    <3> QED
      BY <2>1, <2>2, <3>1
<1>13. ASSUME NEW w \in Workers, Reload(w) \/ Assess(w) PROVE WorkerMove(w)
  <2>1. CASE \E place \in {"fail", "condemn", "fingerprint", "complete"} : Goto(w, place)
    BY <1>4, <1>13, <2>1 DEF Reload, Assess, At, Busy, Places
  <2>2. CASE Goto(w, "assess") /\ run[RunOf(w)].purpose # "authenticity" /\ Reload(w)
    <3>1. "assess" \in Places
      BY DEF Places
    <3>2. /\ Others(w)
          /\ work'[w] = [pc |-> "assess", run |-> work[w].run, todo |-> work[w].todo, at |-> work[w].at]
      BY <2>2, <3>1, Gone
    <3> QED
      BY <2>2, <3>2 DEF Reload, At, Busy, WorkerMove, Advances
  <2> QED
    BY <1>13, <2>1, <2>2 DEF Reload, Assess
<1>14. ASSUME NEW w \in Workers, SaveFingerprint(w) PROVE WorkerMove(w)
  <2>1. work' = [work EXCEPT ![w] = [work[w] EXCEPT !.pc = "assess", !.at = now]]
    BY <1>14, Zenon DEF SaveFingerprint
  <2>2. [work[w] EXCEPT !.pc = "assess", !.at = now]
           = [pc |-> "assess", run |-> work[w].run, todo |-> work[w].todo, at |-> now]
    BY <1>0, LocalChanges
  <2>3. work' = [work EXCEPT ![w] = [pc |-> "assess", run |-> work[w].run, todo |-> work[w].todo, at |-> now]]
    BY <2>1, <2>2, Zenon
  <2>4. work[w].pc = "fingerprint"
    BY <1>14 DEF SaveFingerprint, At
  <2>5. Others(w) /\ work'[w].pc = "assess" /\ work'[w].run = work[w].run /\ work'[w].at = now
    BY <1>0, <2>3 DEF Others
  <2> QED
    BY <1>14, <2>4, <2>5 DEF Busy, WorkerMove, Advances
<1>15. ASSUME Tick \/ (\E r \in Runs : Rescue(r) \/ Clean(r)) \/ Promotion \/ UNCHANGED vars PROVE UNCHANGED work
  BY <1>15 DEF Tick, Rescue, Clean, Promotion, PromoteReference, vars
<1> QED
  BY <1>1, <1>2, <1>5, <1>6, <1>7, <1>8, <1>10, <1>11, <1>12, <1>13, <1>14, <1>15
     DEF Next, Serve, Execute, Promotion

Stored(w) ==
    LET r == RunOf(w)
    IN  /\ assessment[r] = NoAssessment /\ assessment'[r] # NoAssessment
        /\ \A q \in Runs : q # r => assessment'[q] = assessment[q]
        /\ \/ /\ run[r].purpose = "authenticity"
              /\ assessment'[r].verdict = Verdict(r, work[w].at) /\ assessment'[r].at = work[w].at
           \/ assessment'[r].verdict = "measured" /\ assessment'[r].at = now

LEMMA AssessStores ==
    ASSUME TypeInv, MeasuredInv, NEW w \in Workers, Assess(w)
    PROVE  /\ work[w].pc = "assess" /\ RunOf(w) \in Created
           /\ UNCHANGED <<now, run, fingerprint, reference>>
           /\ UNCHANGED assessment \/ Stored(w)
<1> DEFINE r == RunOf(w)
           row == IF run[r].purpose = "authenticity" THEN AuthenticityRow(w) ELSE CapabilityRow(w)
<1>1. work[w].pc = "assess" /\ r \in Created /\ r \in Runs
  BY TypesNow DEF Assess, At, RunOf, Created
<1>2. ASSUME assessment[r] = NoAssessment PROVE Stored(w)
  <2>1. assessment' = [assessment EXCEPT ![r] = row]
    BY <1>2 DEF Assess
  <2>2. assessment'[r] = row /\ \A q \in Runs : q # r => assessment'[q] = assessment[q]
    BY <1>1, <2>1 DEF MeasuredInv
  <2>3. row.verdict # "none"
    BY DEF AuthenticityRow, CapabilityRow, Verdict
  <2>4. row # NoAssessment
    BY <2>3 DEF NoAssessment
  <2>5. \/ /\ run[r].purpose = "authenticity"
           /\ row.verdict = Verdict(r, work[w].at) /\ row.at = work[w].at
        \/ row.verdict = "measured" /\ row.at = now
    BY DEF AuthenticityRow, CapabilityRow
  <2> QED
    BY <1>2, <2>2, <2>4, <2>5 DEF Stored
<1>3. ASSUME assessment[r] # NoAssessment PROVE UNCHANGED assessment
  BY <1>3 DEF Assess
<1> QED
  BY <1>1, <1>2, <1>3 DEF Assess

-----------------------------------------------------------------------------
(***************************************************************************)
(* The verdicts.  A worker compares at a time that has come, and a verdict *)
(* of agreement was given before the reference expired or was revoked.     *)
(***************************************************************************)
ComparedAt(r, t) ==
    /\ run[r].ref # NoRef
    /\ t < reference[run[r].ref].expires /\ t <= reference[run[r].ref].revoked

VerdictInv ==
    /\ \A w \in Workers : work[w].at <= now
    /\ \A r \in Created : assessment[r] # NoAssessment => assessment[r].at \in 0 .. now
    /\ \A r \in Created : assessment[r].verdict = "consistent" => ComparedAt(r, assessment[r].at)

LEMMA ConsistentCompared ==
    ASSUME TypeInv, ReferenceInv, NEW r \in Created, NEW t \in 0 .. now, Verdict(r, t) = "consistent"
    PROVE  ComparedAt(r, t)
<1>1. ~NoVerdict(r, t)
  BY DEF Verdict
<1>2. run[r].ref # NoRef /\ ~(t >= ExpiresAt(run[r].ref))
  BY <1>1 DEF NoVerdict
<1>3. reference[run[r].ref] \in ReferenceType
  BY <1>2 DEF ReferenceInv, Believable
<1>4. now \in Nat
  BY DEF TypeInv, TypeOK
<1>5. t \in Int /\ reference[run[r].ref].expires \in Nat /\ reference[run[r].ref].revoked \in Int
  BY <1>3, <1>4 DEF ReferenceType
<1> QED
  BY <1>2, <1>5 DEF ComparedAt, ExpiresAt

LEMMA VerdictsKept == TypeInv /\ MeasuredInv /\ ReferenceInv /\ VerdictInv /\ [Next]_vars => VerdictInv'
<1> SUFFICES ASSUME TypeInv, MeasuredInv, ReferenceInv, VerdictInv, [Next]_vars PROVE VerdictInv'
  OBVIOUS
<1>1. now \in Nat /\ now' \in Nat /\ now <= now'
  BY TableMoves DEF TypeInv, TypeOK, Tick
<1>2. work \in [Workers -> Local] /\ work' \in [Workers -> Local]
  BY TypesNow, TypesKept DEF TypeInv, TypeOK, Local
<1>3. ASSUME NEW w \in Workers PROVE work'[w].at <= now'
  <2>1. work[w].at \in Nat /\ work[w].at <= now
    BY <1>2 DEF Local, VerdictInv
  <2>2. \/ work'[w] = work[w] \/ work'[w].at = 0 \/ work'[w].at = work[w].at \/ work'[w].at = now
    <3>1. CASE UNCHANGED work
      BY <3>1
    <3>2. ASSUME NEW v \in Workers, WorkerMove(v), v # w PROVE work'[w] = work[w]
      BY <3>2 DEF WorkerMove, Claimed, Reports, Advances, Others
    <3>3. ASSUME WorkerMove(w) PROVE work'[w].at = 0 \/ work'[w].at = work[w].at \/ work'[w].at = now
      <4>1. Claimed(w) => work'[w].at = 0
        BY DEF Claimed
      <4>2. Reports(w) => work'[w].at = 0
        BY DEF Reports, IdleWorker
      <4>3. Advances(w) => work'[w].at = work[w].at \/ work'[w].at = now
        BY DEF Advances
      <4> QED
        BY <3>3, <4>1, <4>2, <4>3 DEF WorkerMove
    <3> QED
      BY <3>1, <3>2, <3>3, WorkerMoves
  <2> QED
    BY <1>1, <2>1, <2>2
<1>4. /\ reference' \in [Refs -> ReferenceType \cup {NoReference}]
      /\ \A f \in Refs : reference[f] # NoReference => reference'[f] # NoReference /\ Kept(f)
  BY ReferencesAreKept DEF ReferenceInv
<1>5. \A r \in Created : r \in Created' /\ SameRequest(r)
  BY RunSteps, RunsKeepType
<1>6. ASSUME NEW r \in Created, NEW t \in 0 .. now, ComparedAt(r, t)
      PROVE  /\ run'[r].ref # NoRef
             /\ t < reference'[run'[r].ref].expires /\ t <= reference'[run'[r].ref].revoked
  <2>1. run'[r].ref = run[r].ref /\ run[r].ref # NoRef
    BY <1>5, <1>6 DEF SameRequest, ComparedAt
  <2>2. Kept(run[r].ref)
    BY <1>4, <2>1 DEF ReferenceInv, Believable
  <2> QED
    BY <1>6, <2>1, <2>2 DEF Kept, ComparedAt
<1>7. ASSUME NEW r \in Runs, run'[r].status # "none", assessment'[r] # NoAssessment
      PROVE  /\ assessment'[r].at \in 0 .. now
             /\ assessment'[r].verdict = "consistent" => r \in Created /\ ComparedAt(r, assessment'[r].at)
  <2>1. CASE assessment'[r] = assessment[r]
    <3>1. r \in Created
      BY <1>7, <2>1 DEF MeasuredInv, Created
    <3> QED
      BY <1>7, <2>1, <3>1 DEF VerdictInv
  <2>2. CASE assessment'[r] # assessment[r]
    <3>1. PICK w \in Workers : Assess(w)
      BY <2>2, TableMoves
    <3>2. RunOf(w) \in Created /\ Stored(w)
      BY <2>2, <3>1, AssessStores
    <3>3. r = RunOf(w)
      BY <2>2, <3>2 DEF Stored
    <3>4. work[w].at \in 0 .. now
      BY <1>1, <1>2 DEF Local, VerdictInv
    <3>5. \/ assessment'[r].verdict = Verdict(r, work[w].at) /\ assessment'[r].at = work[w].at
          \/ assessment'[r].verdict = "measured" /\ assessment'[r].at = now
      BY <3>2, <3>3 DEF Stored
    <3>6. CASE assessment'[r].verdict = Verdict(r, work[w].at) /\ assessment'[r].at = work[w].at
      BY <3>2, <3>3, <3>4, <3>6, ConsistentCompared
    <3>7. CASE assessment'[r].verdict = "measured" /\ assessment'[r].at = now
      BY <1>1, <3>7
    <3> QED
      BY <3>5, <3>6, <3>7
  <2> QED
    BY <2>1, <2>2
<1>8. ASSUME NEW r \in Runs, run'[r].status # "none", assessment'[r] # NoAssessment
      PROVE  assessment'[r].at \in 0 .. now'
  <2>1. assessment'[r].at \in 0 .. now
    BY <1>7, <1>8
  <2> QED
    BY <1>1, <2>1
<1>9. ASSUME NEW r \in Runs, run'[r].status # "none", assessment'[r].verdict = "consistent"
      PROVE  /\ run'[r].ref # NoRef
             /\ assessment'[r].at < reference'[run'[r].ref].expires
             /\ assessment'[r].at <= reference'[run'[r].ref].revoked
  <2>1. assessment'[r] # NoAssessment
    BY <1>9 DEF NoAssessment
  <2>2. assessment'[r].at \in 0 .. now /\ r \in Created /\ ComparedAt(r, assessment'[r].at)
    BY <1>7, <1>9, <2>1
  <2> QED
    BY <1>6, <2>2
<1> QED
  BY <1>3, <1>8, <1>9 DEF VerdictInv, ComparedAt, Created

LEMMA AlwaysGrounded == Spec => [](TypeInv /\ PaidInv /\ MeasuredInv /\ ReferenceInv /\ VerdictInv)
<1>1. Init => ReferenceInv
  BY DEF Init, ReferenceInv, Created, NoRun, IdleClient
<1>2. Init => VerdictInv
  BY DEF Init, VerdictInv, Created, NoRun, IdleWorker
<1> QED
  BY <1>1, <1>2, AlwaysMeasured, ReferencesKept, VerdictsKept, PTL DEF Spec

\* A supplier passes as authentic only against a reference that was trusted, of another
\* supplier and valid when the answers were compared (RequestRun, AssessAuthenticity).
THEOREM AuthenticityIsGrounded == Spec => []ConsistentIsGrounded
<1>1. ReferenceInv /\ VerdictInv => ConsistentIsGrounded
  BY DEF ReferenceInv, VerdictInv, ConsistentIsGrounded, Believable, ComparedAt
<1> QED
  BY <1>1, AlwaysGrounded, PTL

-----------------------------------------------------------------------------
(***************************************************************************)
(* One executor for a run, when no suspended process goes on after its job *)
(* was rescued, and one active run for a subject: whoever is about to      *)
(* assess a run is the only one who assesses its subject.                  *)
(***************************************************************************)
ExecutorInv ==
    /\ \A w \in Workers : Busy(w) => job[RunOf(w)].state = "running"
    /\ \A v, w \in Workers : Busy(v) /\ Busy(w) /\ RunOf(v) = RunOf(w) => v = w
    /\ \A w \in Workers : work[w].pc \notin {"idle", "load"} => run[RunOf(w)].status \in ActiveStatuses

SameSubject(q, r) == run[q].supplier = run[r].supplier /\ run[q].purpose = run[r].purpose

ActiveInv ==
    \A q, r \in Created : /\ run[q].status \in ActiveStatuses /\ run[r].status \in ActiveStatuses
                          /\ SameSubject(q, r)
                          => q = r

LEMMA ActiveKept == TypeInv /\ ActiveInv /\ [Next]_vars => ActiveInv'
<1> SUFFICES ASSUME TypeInv, ActiveInv, [Next]_vars PROVE ActiveInv'
  OBVIOUS
<1>1. CASE UNCHANGED run
  BY <1>1 DEF ActiveInv, SameSubject, Created
<1>2. ASSUME NEW c \in Clients, NEW x \in Runs, Inserted(c, x) PROVE ActiveInv'
  <2>1. \A r \in Runs : r # x => run'[r] = run[r]
    BY <1>2, InsertedRow, ZenonT(40)
  <2>2. run'[x].supplier = ask[c].supplier /\ run'[x].purpose = ask[c].purpose /\ x \notin Created
    BY <1>2 DEF Inserted, Insert, Created, TypeInv, TypeOK
  <2>3. \A r \in Created : run[r].supplier = ask[c].supplier /\ run[r].purpose = ask[c].purpose
                           => run[r].status \notin ActiveStatuses
    BY <1>2 DEF Inserted, Creatable, ActiveOn, Subject
  <2>4. Created' = Created \cup {x}
    BY <2>1, <2>2, <1>2, InsertedRow DEF Created
  <2>5. \A r \in Created : run'[r] = run[r]
    BY <2>1, <2>2 DEF Created
  <2> QED
    BY <2>2, <2>3, <2>4, <2>5 DEF ActiveInv, SameSubject
<1>3. ASSUME NEW x \in Runs, NEW status \in ActiveStatuses \cup TerminalStatuses, Moved(x, status) PROVE ActiveInv'
  <2>1. \A r \in Runs : r # x => run'[r] = run[r]
    BY <1>3, MovedRow
  <2>2. SameRequest(x) /\ run[x].status \in ActiveStatuses
    BY <1>3, MovedRow DEF Moved
  <2>3. \A r \in Created' : /\ r \in Created
                            /\ run'[r].supplier = run[r].supplier /\ run'[r].purpose = run[r].purpose
                            /\ (run'[r].status \in ActiveStatuses => run[r].status \in ActiveStatuses)
    BY <2>1, <2>2 DEF Created, SameRequest, ActiveStatuses
  <2> QED
    BY <2>3 DEF ActiveInv, SameSubject
<1> QED
  BY <1>1, <1>2, <1>3, RunSteps DEF RunStep

(***************************************************************************)
(* What a step does to a job that runs and to a run that is active: only   *)
(* the executor ends them, or River rescues a job that has none.           *)
(***************************************************************************)
LEMMA RunningJobs ==
    ASSUME ~Overlap, TypeInv, [Next]_vars, NEW r \in Runs, job[r].state = "running"
    PROVE  \/ job'[r].state = "running"
           \/ \A w \in Workers : ~(Busy(w) /\ RunOf(w) = r)
           \/ \E w \in Workers : RunOf(w) = r /\ Reports(w)
<1>0. job \in [Runs -> JobType]
  BY TypesNow
<1>1. ASSUME NEW c \in Clients,
             \/ \E s \in Suppliers, p \in Purposes, k \in Keys \cup {NoKey} : Request(c, s, p, k)
             \/ \E q \in Created : Sweep(c, q)
             \/ Create(c) \/ MarkUndispatched(c) \/ Abandon(c)
      PROVE  UNCHANGED job
  BY <1>1 DEF Request, Sweep, Create, MarkUndispatched, Abandon
<1>2. ASSUME NEW c \in Clients, Dispatch(c) PROVE job'[r].state = "running"
  BY <1>0, <1>2 DEF Dispatch, InsertJob
<1>3. ASSUME NEW w \in Workers, NEW q \in Runs, Claim(w, q) PROVE job'[r].state = "running"
  <2>1. q # r
    BY <1>3 DEF Claim
  <2> QED
    BY <1>0, <1>3, <2>1 DEF Claim
<1>4. ASSUME NEW w \in Workers, NEW failed \in BOOLEAN, Report(w, failed), Busy(w)
      PROVE  job'[r].state = "running" \/ (RunOf(w) = r /\ Reports(w))
  <2>1. Reports(w)
    BY <1>4, Reported DEF Reports
  <2>2. ASSUME RunOf(w) # r PROVE job'[r] = job[r]
    BY <1>0, <1>4, <2>2 DEF Report
  <2> QED
    BY <2>1, <2>2
<1>5. ASSUME NEW w \in Workers,
             Load(w) \/ Start(w) \/ Condemn(w) \/ Complete(w) \/ FailRun(w) \/ GiveUp(w)
      PROVE  UNCHANGED job \/ (Busy(w) /\ \E failed \in BOOLEAN : Report(w, failed))
  BY <1>5 DEF Load, Start, Condemn, Complete, FailRun, GiveUp, KeepAll, At, Busy
<1>6. ASSUME NEW w \in Workers,
             \/ ListSamples(w) \/ Reserve(w) \/ Probe(w) \/ \E outcome \in Outcomes : Save(w, outcome)
             \/ Reload(w) \/ SaveFingerprint(w) \/ Assess(w) \/ Trouble(w) \/ Crash(w)
      PROVE  UNCHANGED job
  BY <1>6 DEF ListSamples, Reserve, Probe, Save, Reload, SaveFingerprint, Assess, Trouble, Crash, KeepAll
<1>7. ASSUME NEW q \in Runs, Rescue(q)
      PROVE  job'[r].state = "running" \/ \A w \in Workers : ~(Busy(w) /\ RunOf(w) = r)
  <2>1. CASE q = r
    BY <1>7, <2>1 DEF Rescue, Executing, Busy, RunOf
  <2>2. CASE q # r
    BY <1>0, <1>7, <2>2 DEF Rescue
  <2> QED
    BY <2>1, <2>2
<1>8. ASSUME NEW q \in Runs, Clean(q) PROVE job'[r].state = "running"
  <2>1. q # r
    BY <1>8 DEF Clean
  <2> QED
    BY <1>0, <1>8, <2>1 DEF Clean
<1>9. ASSUME Tick \/ Promotion \/ UNCHANGED vars PROVE UNCHANGED job
  BY <1>9 DEF Tick, Promotion, PromoteReference, vars
<1> QED
  BY <1>1, <1>2, <1>3, <1>4, <1>5, <1>6, <1>7, <1>8, <1>9 DEF Next, Serve, Execute, Promotion

LEMMA ActiveRuns ==
    ASSUME TypeInv, [Next]_vars, NEW r \in Runs, run[r].status \in ActiveStatuses
    PROVE  \/ run'[r].status \in ActiveStatuses
           \/ \E w \in Workers : RunOf(w) = r /\ Reports(w)
<1>0. run \in [Runs -> RunRow \cup {NoRun}]
  BY DEF TypeInv, TypeOK
<1>1. ASSUME NEW q \in Runs, NEW status \in ActiveStatuses \cup TerminalStatuses,
             run' = [run EXCEPT ![q].status = status] \/ FailEvaluationRun(q, status),
             q # r \/ status \in ActiveStatuses
      PROVE  run'[r].status \in ActiveStatuses
  <2>1. CASE run' = run
    BY <2>1
  <2>2. CASE run' = [run EXCEPT ![q].status = status] /\ q # r
    BY <1>0, <2>2
  <2>3. CASE run' = [run EXCEPT ![q].status = status] /\ q = r
    <3>1. Moved(r, status) /\ status \in ActiveStatuses
      BY <1>1, <2>3 DEF Moved
    <3> QED
      BY <3>1, MovedRow
  <2> QED
    BY <1>1, <2>1, <2>2, <2>3 DEF FailEvaluationRun
<1>2. ASSUME NEW c \in Clients,
             \/ \E s \in Suppliers, p \in Purposes, k \in Keys \cup {NoKey} : Request(c, s, p, k)
             \/ \E q \in Created : Sweep(c, q)
             \/ Dispatch(c) \/ Abandon(c)
      PROVE  UNCHANGED run
  BY <1>2 DEF Request, Sweep, RetryExisting, Dispatch, Abandon, ToClient, rows
<1>3. ASSUME NEW c \in Clients, Create(c) PROVE run'[r].status \in ActiveStatuses
  <2>1. ASSUME NEW q \in Runs \ Created, Insert(c, q) PROVE run'[r] = run[r]
    <3>1. q # r
      BY DEF Created, ActiveStatuses
    <3> QED
      BY <1>0, <2>1, <3>1 DEF Insert
  <2> QED
    BY <1>3, <2>1 DEF Create, ToClient, rows
<1>4. ASSUME NEW c \in Clients, MarkUndispatched(c) PROVE run'[r].status \in ActiveStatuses
  <2>1. ask[c].run \in Runs
    BY <1>4 DEF MarkUndispatched, TypeInv, AskTypeOK, IdleClient
  <2> QED
    BY <1>1, <1>4, <2>1 DEF MarkUndispatched, ActiveStatuses
<1>5. ASSUME NEW w \in Workers, Start(w) \/ Condemn(w) \/ FailRun(w) \/ Complete(w) PROVE RunOf(w) \in Runs
  BY <1>5, TypesNow DEF Start, Condemn, FailRun, Complete, At, RunOf, Created
<1>6. ASSUME NEW w \in Workers, Start(w) \/ FailRun(w) PROVE run'[r].status \in ActiveStatuses
  BY <1>1, <1>5, <1>6 DEF Start, FailRun, ActiveStatuses
<1>7. ASSUME NEW w \in Workers, Condemn(w) \/ Complete(w)
      PROVE  run'[r].status \in ActiveStatuses \/ (RunOf(w) = r /\ Reports(w))
  <2>1. Reports(w)
    <3>1. Busy(w) /\ \E failed \in BOOLEAN : Report(w, failed)
      BY <1>7 DEF Condemn, Complete, At, Busy
    <3> QED
      BY <3>1, Reported DEF Reports
  <2>2. ASSUME RunOf(w) # r PROVE run'[r].status \in ActiveStatuses
    BY <1>1, <1>5, <1>7, <2>2 DEF Condemn, Complete, TerminalStatuses
  <2> QED
    BY <2>1, <2>2
<1>8. ASSUME NEW w \in Workers,
             \/ Load(w) \/ ListSamples(w) \/ Reserve(w) \/ Probe(w) \/ \E outcome \in Outcomes : Save(w, outcome)
             \/ Reload(w) \/ SaveFingerprint(w) \/ Assess(w) \/ Trouble(w) \/ GiveUp(w) \/ Crash(w)
             \/ \E q \in Runs : Claim(w, q)
      PROVE  UNCHANGED run
  BY <1>8 DEF Load, ListSamples, Reserve, Probe, Save, Reload, SaveFingerprint, Assess, Trouble, GiveUp, Crash,
              Claim, KeepAll, rows
<1>9. ASSUME Tick \/ (\E q \in Runs : Rescue(q) \/ Clean(q)) \/ Promotion \/ UNCHANGED vars PROVE UNCHANGED run
  BY <1>9 DEF Tick, Rescue, Clean, Promotion, PromoteReference, vars, rows
<1> QED
  BY <1>2, <1>3, <1>4, <1>6, <1>7, <1>8, <1>9 DEF Next, Serve, Execute, Promotion

LEMMA ExecutorsKept == ~Overlap /\ TypeInv /\ ExecutorInv /\ [Next]_vars => ExecutorInv'
<1> SUFFICES ASSUME ~Overlap, TypeInv, ExecutorInv, [Next]_vars PROVE ExecutorInv'
  OBVIOUS
<1>1. \A w \in Workers : Busy(w) => RunOf(w) \in Runs
  BY TypesNow DEF Busy, RunOf, Created
<1>2. ASSUME NEW w \in Workers, Busy(w), work'[w].pc # "idle",
             work'[w].run = work[w].run, \A v \in Workers : Reports(v) => RunOf(v) # RunOf(w)
      PROVE  job'[work'[w].run].state = "running"
  <2>1. job[RunOf(w)].state = "running" /\ RunOf(w) \in Runs
    BY <1>1, <1>2 DEF ExecutorInv
  <2> QED
    BY <1>2, <2>1, RunningJobs, ZenonT(40) DEF RunOf
<1>3. ASSUME NEW w \in Workers, Busy(w), run[RunOf(w)].status \in ActiveStatuses,
             work'[w].run = work[w].run, \A v \in Workers : Reports(v) => RunOf(v) # RunOf(w)
      PROVE  run'[work'[w].run].status \in ActiveStatuses
  <2>1. RunOf(w) \in Runs
    BY <1>1, <1>3
  <2> QED
    BY <1>3, <2>1, ActiveRuns DEF RunOf
<1>4. ASSUME NEW w \in Workers, Reports(w) PROVE \A v \in Workers : Reports(v) => RunOf(v) = RunOf(w)
  <2>1. \A v \in Workers : Reports(v) => v = w
    BY <1>4 DEF Reports, Others, Busy, IdleWorker
  <2> QED
    BY <2>1
<1>5. ASSUME NEW w \in Workers, work'[w] = work[w], Busy(w)
      PROVE  \A v \in Workers : Reports(v) => RunOf(v) # RunOf(w)
  <2>1. \A v \in Workers : Reports(v) => v # w
    BY <1>5 DEF Reports, Busy, IdleWorker
  <2> QED
    BY <1>5, <2>1 DEF ExecutorInv, Reports
<1>6. ASSUME NEW w \in Workers, work'[w] = work[w]
      PROVE  /\ work'[w].pc # "idle" => job'[work'[w].run].state = "running"
             /\ work'[w].pc \notin {"idle", "load"} => run'[work'[w].run].status \in ActiveStatuses
  BY <1>2, <1>3, <1>5, <1>6 DEF ExecutorInv, Busy
<1>7. CASE UNCHANGED work
  <2>1. \A v, w \in Workers : work'[v].pc # "idle" /\ work'[w].pc # "idle" /\ work'[v].run = work'[w].run => v = w
    BY <1>7 DEF ExecutorInv, Busy, RunOf
  <2> QED
    BY <1>6, <1>7, <2>1 DEF ExecutorInv, Busy, RunOf
<1>8. ASSUME NEW x \in Workers, Reports(x) PROVE ExecutorInv'
  <2>1. work'[x].pc = "idle" /\ \A w \in Workers : w # x => work'[w] = work[w]
    BY <1>8 DEF Reports, Others, IdleWorker
  <2>2. \A v, w \in Workers : work'[v].pc # "idle" /\ work'[w].pc # "idle" /\ work'[v].run = work'[w].run => v = w
    BY <2>1 DEF ExecutorInv, Busy, RunOf
  <2>3. \A w \in Workers : /\ work'[w].pc # "idle" => job'[work'[w].run].state = "running"
                           /\ work'[w].pc \notin {"idle", "load"} => run'[work'[w].run].status \in ActiveStatuses
    BY <1>6, <2>1
  <2> QED
    BY <2>2, <2>3 DEF ExecutorInv, Busy, RunOf
<1>9. ASSUME NEW x \in Workers, Advances(x) PROVE ExecutorInv'
  <2>1. /\ \A w \in Workers : w # x => work'[w] = work[w]
        /\ Busy(x) /\ work'[x].run = work[x].run /\ work'[x].pc \notin {"idle", "load"}
    BY <1>9 DEF Advances, Others
  <2>2. \A v, w \in Workers : work'[v].pc # "idle" /\ work'[w].pc # "idle" /\ work'[v].run = work'[w].run => v = w
    BY <2>1 DEF ExecutorInv, Busy, RunOf
  <2>3. \A v \in Workers : ~Reports(v)
    BY <2>1 DEF Reports, Others, IdleWorker, Busy
  <2>4. run[RunOf(x)].status \in ActiveStatuses
    BY <1>9 DEF Advances, ExecutorInv, Busy
  <2>5. job'[work'[x].run].state = "running" /\ run'[work'[x].run].status \in ActiveStatuses
    BY <1>2, <1>3, <2>1, <2>3, <2>4
  <2>6. \A w \in Workers : /\ work'[w].pc # "idle" => job'[work'[w].run].state = "running"
                           /\ work'[w].pc \notin {"idle", "load"} => run'[work'[w].run].status \in ActiveStatuses
    BY <1>6, <2>1, <2>5
  <2> QED
    BY <2>2, <2>6 DEF ExecutorInv, Busy, RunOf
<1>10. ASSUME NEW x \in Workers, Claimed(x) PROVE ExecutorInv'
  <2>1. PICK r \in Runs : /\ Claim(x, r) /\ Others(x)
                          /\ work'[x] = [pc |-> "load", run |-> r, todo |-> {}, at |-> 0]
    BY <1>10 DEF Claimed
  <2>2. /\ \A w \in Workers : w # x => work'[w] = work[w]
        /\ work'[x].pc = "load" /\ work'[x].run = r
    BY <2>1 DEF Others
  <2>3. job[r].state # "running" /\ job'[r].state = "running"
    BY <2>1, TypesNow DEF Claim
  <2>4. \A w \in Workers : Busy(w) => RunOf(w) # r
    BY <2>3 DEF ExecutorInv
  <2>5. \A v, w \in Workers : work'[v].pc # "idle" /\ work'[w].pc # "idle" /\ work'[v].run = work'[w].run => v = w
    BY <2>2, <2>4 DEF ExecutorInv, Busy, RunOf
  <2>6. \A w \in Workers : /\ work'[w].pc # "idle" => job'[work'[w].run].state = "running"
                           /\ work'[w].pc \notin {"idle", "load"} => run'[work'[w].run].status \in ActiveStatuses
    BY <1>6, <2>2, <2>3
  <2> QED
    BY <2>5, <2>6 DEF ExecutorInv, Busy, RunOf
<1> QED
  BY <1>7, <1>8, <1>9, <1>10, WorkerMoves DEF WorkerMove

-----------------------------------------------------------------------------
(***************************************************************************)
(* A verdict against a supplier.  The time at which a run is about to be   *)
(* assessed is later than all that was assessed of the same subject, so    *)
(* that no agreement can come between the two mismatches afterwards.       *)
(***************************************************************************)
Compared(q, r) == SameSubject(q, r) /\ run[q].ref = run[r].ref

SerialInv ==
    \A w \in Workers : work[w].pc = "assess" /\ run[RunOf(w)].purpose = "authenticity" =>
        \A q \in Created : assessment[q] # NoAssessment /\ q # RunOf(w) /\ Compared(q, RunOf(w))
                           => assessment[q].at <= work[w].at

ConfirmedBy(q, r) ==
    /\ q # r /\ assessment[q] # NoAssessment /\ Compared(q, r)
    /\ fingerprint[q].kind = "mismatch" /\ fingerprint[r].kind = "mismatch"
    /\ assessment[r].at - assessment[q].at >= Delay
    /\ \A x \in Created : Compared(x, r) /\ assessment[x].verdict = "consistent"
                          => assessment[x].at <= assessment[q].at \/ assessment[x].at >= assessment[r].at

ConfirmedInv ==
    /\ fingerprint = [r \in Runs |-> fingerprint[r]]
    /\ \A r \in Created : assessment[r].verdict = "inconsistent" => \E q \in Created : ConfirmedBy(q, r)

LEMMA FingerprintsStay ==
    ASSUME TypeInv, [Next]_vars, fingerprint = [r \in Runs |-> fingerprint[r]]
    PROVE  /\ fingerprint' = [r \in Runs |-> fingerprint'[r]]
           /\ \A r \in Runs : fingerprint[r].kind = "mismatch" => fingerprint'[r] = fingerprint[r]
<1>1. CASE UNCHANGED fingerprint
  BY <1>1
<1>2. ASSUME NEW w \in Workers, SaveFingerprint(w), ~UNCHANGED fingerprint
      PROVE  /\ fingerprint' = [r \in Runs |-> fingerprint'[r]]
             /\ \A r \in Runs : fingerprint[r].kind = "mismatch" => fingerprint'[r] = fingerprint[r]
  <2>1. RunOf(w) \in Runs
    BY <1>2, TypesNow DEF SaveFingerprint, At, RunOf, Created
  <2>2. fingerprint[RunOf(w)] = NoFingerprint /\ NoFingerprint.kind # "mismatch"
    BY <1>2 DEF SaveFingerprint, NoFingerprint
  <2>3. \E row : fingerprint' = [fingerprint EXCEPT ![RunOf(w)] = row]
    BY <1>2 DEF SaveFingerprint
  <2> QED
    BY <2>1, <2>2, <2>3
<1> QED
  BY <1>1, <1>2, TableMoves

\* What the comparison with earlier runs has seen when it calls a supplier inconsistent.
LEMMA VerdictConfirmed ==
    ASSUME TypeInv, MeasuredInv, VerdictInv, NEW r \in Created, NEW t \in 0 .. now, Verdict(r, t) = "inconsistent"
    PROVE  /\ fingerprint[r].kind = "mismatch"
           /\ \E q \in Created : /\ q # r /\ assessment[q] # NoAssessment /\ Compared(q, r)
                                 /\ fingerprint[q].kind = "mismatch" /\ t - assessment[q].at >= Delay
                                 /\ \A x \in Created : Compared(x, r) /\ assessment[x] # NoAssessment
                                                       => assessment[x].at <= assessment[q].at
<1>1. fingerprint[r].kind = "mismatch" /\ Confirmed(r, t)
  BY DEF Verdict
<1>2. PICK q \in PriorMismatch(r, t) : q # r
  BY <1>1 DEF Confirmed
<1>3. /\ q \in Runs /\ assessment[q] # NoAssessment /\ Compared(q, r)
      /\ fingerprint[q].kind = "mismatch" /\ assessment[q].at <= t - Delay
      /\ \A x \in Runs : Compared(x, r) /\ assessment[x] # NoAssessment => assessment[x].at <= assessment[q].at
  BY <1>2 DEF PriorMismatch, Before, Compared, SameSubject, Subject
<1>4. q \in Created
  BY <1>3 DEF MeasuredInv, Created
<1>5. now \in Nat
  BY DEF TypeInv, TypeOK
<1>6. assessment[q].at \in Int /\ t \in Int
  BY <1>3, <1>4, <1>5 DEF VerdictInv
<1>7. t - assessment[q].at >= Delay
  BY <1>3, <1>6
<1> QED
  BY <1>1, <1>2, <1>3, <1>4, <1>7 DEF Created

LEMMA SerialKept ==
    TypeInv /\ MeasuredInv /\ VerdictInv /\ ExecutorInv /\ ActiveInv /\ SerialInv /\ [Next]_vars => SerialInv'
<1> SUFFICES ASSUME TypeInv, MeasuredInv, VerdictInv, ExecutorInv, ActiveInv, SerialInv, [Next]_vars,
                    NEW w \in Workers, work'[w].pc = "assess", run'[work'[w].run].purpose = "authenticity",
                    NEW q \in Runs, run'[q].status # "none", assessment'[q] # NoAssessment, q # work'[w].run,
                    run'[q].supplier = run'[work'[w].run].supplier, run'[q].purpose = run'[work'[w].run].purpose,
                    run'[q].ref = run'[work'[w].run].ref
             PROVE  assessment'[q].at <= work'[w].at
  BY DEF SerialInv, Compared, SameSubject, Created, RunOf
<1> DEFINE r == work'[w].run
<1>0. \A x \in Created : x \in Created' /\ SameRequest(x)
  BY RunSteps, RunsKeepType
<1>1. \/ work'[w] = work[w] /\ r \in Created
      \/ work'[w].at = now /\ r \in Created /\ SaveFingerprint(w)
  <2>1. CASE work'[w] = work[w]
    BY <2>1, TypesNow
  <2>2. CASE work'[w] # work[w]
    <3>1. WorkerMove(w)
      <4>1. ASSUME NEW v \in Workers, WorkerMove(v), v # w PROVE work'[w] = work[w]
        BY <4>1 DEF WorkerMove, Claimed, Reports, Advances, Others
      <4> QED
        BY <2>2, <4>1, WorkerMoves
    <3>2. Advances(w)
      <4>1. Claimed(w) => work'[w].pc = "load"
        BY DEF Claimed
      <4>2. Reports(w) => work'[w].pc = "idle"
        BY DEF Reports, IdleWorker
      <4> QED
        BY <3>1, <4>1, <4>2 DEF WorkerMove
    <3>3. r = RunOf(w) /\ r \in Created
      BY <3>2, TypesNow DEF Advances, Busy, RunOf
    <3>4. run[RunOf(w)].purpose = "authenticity"
      BY <1>0, <3>3 DEF SameRequest
    <3> QED
      BY <3>2, <3>3, <3>4 DEF Advances
  <2> QED
    BY <2>1, <2>2
<1>2. CASE assessment'[q] = assessment[q]
  <2>1. q \in Created
    BY <1>2 DEF MeasuredInv, Created
  <2>2. Compared(q, r) /\ run[r].purpose = "authenticity"
    BY <1>0, <1>1, <2>1 DEF SameRequest, Compared, SameSubject
  <2>3. CASE work'[w] = work[w]
    BY <1>2, <2>1, <2>2, <2>3 DEF SerialInv, RunOf
  <2>4. CASE work'[w].at = now
    <3>1. assessment[q].at \in 0 .. now /\ now \in Nat
      BY <1>2, <2>1 DEF VerdictInv, TypeInv, TypeOK
    <3> QED
      BY <1>2, <2>4, <3>1
  <2> QED
    BY <1>1, <2>3, <2>4
<1>3. CASE assessment'[q] # assessment[q]
  <2>1. PICK v \in Workers : Assess(v)
    BY <1>3, TableMoves
  <2>2. work[v].pc = "assess" /\ RunOf(v) \in Created /\ Stored(v) /\ UNCHANGED run
    BY <1>3, <2>1, AssessStores
  <2>3. q = RunOf(v)
    BY <1>3, <2>2 DEF Stored
  <2>4. ~SaveFingerprint(w)
    BY <1>3 DEF SaveFingerprint
  <2>5. work'[w] = work[w] /\ r \in Created /\ r = RunOf(w) /\ work[w].pc = "assess"
    BY <1>1, <2>4 DEF RunOf
  <2>6. run[q].status \in ActiveStatuses /\ run[r].status \in ActiveStatuses
    BY <2>2, <2>3, <2>5 DEF ExecutorInv
  <2>7. SameSubject(q, r)
    BY <2>2 DEF SameSubject
  <2>8. q = r
    BY <2>2, <2>3, <2>5, <2>6, <2>7 DEF ActiveInv
  <2> QED
    BY <2>8
<1> QED
  BY <1>2, <1>3

LEMMA ConfirmedKept ==
    TypeInv /\ MeasuredInv /\ VerdictInv /\ SerialInv /\ ConfirmedInv /\ [Next]_vars => ConfirmedInv'
<1> SUFFICES ASSUME TypeInv, MeasuredInv, VerdictInv, SerialInv, ConfirmedInv, [Next]_vars PROVE ConfirmedInv'
  OBVIOUS
<1>1. /\ fingerprint' = [r \in Runs |-> fingerprint'[r]]
      /\ \A r \in Runs : fingerprint[r].kind = "mismatch" => fingerprint'[r] = fingerprint[r]
  BY FingerprintsStay DEF ConfirmedInv
<1>2. \A x \in Created : x \in Runs /\ x \in Created' /\ SameRequest(x)
  BY RunSteps, RunsKeepType DEF Created
<1>3. \A x \in Runs : assessment'[x] # NoAssessment => x \in Created
  <2> SUFFICES ASSUME NEW x \in Runs, assessment'[x] # NoAssessment PROVE x \in Created
    OBVIOUS
  <2>1. CASE assessment'[x] = assessment[x]
    BY <2>1 DEF MeasuredInv, Created
  <2>2. CASE assessment'[x] # assessment[x]
    <3>1. PICK w \in Workers : Assess(w)
      BY <2>2, TableMoves
    <3> QED
      BY <2>2, <3>1, AssessStores DEF Stored
  <2> QED
    BY <2>1, <2>2
<1> DEFINE Later(x, q, r) == assessment'[x].at <= assessment'[q].at \/ assessment'[x].at >= assessment'[r].at
           Alike(x, r) == /\ run'[x].supplier = run'[r].supplier /\ run'[x].purpose = run'[r].purpose
                          /\ run'[x].ref = run'[r].ref
           StillConfirmedBy(q, r) ==
              /\ q # r /\ assessment'[q] # NoAssessment /\ Alike(q, r)
              /\ fingerprint'[q].kind = "mismatch" /\ fingerprint'[r].kind = "mismatch"
              /\ assessment'[r].at - assessment'[q].at >= Delay
              /\ \A x \in Runs : run'[x].status # "none" /\ Alike(x, r) /\ assessment'[x].verdict = "consistent"
                                 => Later(x, q, r)
<1>4. \A x, y \in Created : Alike(x, y) <=> Compared(x, y)
  BY <1>2 DEF SameRequest, Compared, SameSubject
<1> HIDE DEF Alike
<1>5. ASSUME NEW r \in Runs, run'[r].status # "none", assessment'[r].verdict = "inconsistent"
      PROVE  \E q \in Created : StillConfirmedBy(q, r)
  <2>0. r \in Created
    BY <1>3, <1>5 DEF NoAssessment
  <2>1. CASE assessment'[r] = assessment[r]
    <3>1. PICK q \in Created : ConfirmedBy(q, r)
      BY <1>5, <2>0, <2>1 DEF ConfirmedInv
    <3>2. q # r /\ assessment[q] # NoAssessment /\ Compared(q, r)
          /\ fingerprint[q].kind = "mismatch" /\ fingerprint[r].kind = "mismatch"
          /\ assessment[r].at - assessment[q].at >= Delay
      BY <3>1 DEF ConfirmedBy
    <3>3. assessment'[q] = assessment[q]
      <4>1. ASSUME NEW w \in Workers, Assess(w) PROVE assessment'[q] = assessment[q]
        BY <1>2, <3>2, <4>1, AssessStores DEF Stored
      <4> QED
        BY <4>1, TableMoves
    <3>4. ASSUME NEW x \in Created, Alike(x, r), assessment'[x].verdict = "consistent"
          PROVE  Later(x, q, r)
      <4>1. Compared(x, r)
        BY <1>4, <2>0, <3>4
      <4>2. CASE assessment'[x] = assessment[x]
        BY <2>1, <3>1, <3>3, <3>4, <4>1, <4>2 DEF ConfirmedBy
      <4>3. CASE assessment'[x] # assessment[x]
        <5>1. PICK w \in Workers : Assess(w)
          BY <4>3, TableMoves
        <5>2. work[w].pc = "assess" /\ Stored(w)
          BY <4>3, <5>1, AssessStores
        <5>3. x = RunOf(w)
          BY <1>2, <4>3, <5>2 DEF Stored
        <5>4. run[x].purpose = "authenticity" /\ assessment'[x].at = work[w].at
          BY <3>4, <5>2, <5>3 DEF Stored
        <5>5. Compared(r, x) /\ r # x /\ assessment[r] # NoAssessment
          BY <1>5, <2>1, <4>1, <4>3 DEF Compared, SameSubject, NoAssessment
        <5>6. assessment[r].at <= work[w].at
          BY <2>0, <5>2, <5>3, <5>4, <5>5 DEF SerialInv
        <5>7. assessment[r].at \in Int /\ work[w].at \in Int
          BY <2>0, <5>5, TypesNow DEF VerdictInv, Local
        <5> QED
          BY <2>1, <5>4, <5>6, <5>7
      <4> QED
        BY <4>2, <4>3
    <3>5. \A x \in Runs : run'[x].status # "none" /\ Alike(x, r) /\ assessment'[x].verdict = "consistent"
                          => Later(x, q, r)
      BY <1>3, <3>4 DEF NoAssessment
    <3>6. Alike(q, r)
      BY <1>4, <2>0, <3>2
    <3>7. fingerprint'[q].kind = "mismatch" /\ fingerprint'[r].kind = "mismatch"
      BY <1>1, <1>2, <2>0, <3>2
    <3> QED
      BY <2>1, <3>2, <3>3, <3>5, <3>6, <3>7
  <2>2. CASE assessment'[r] # assessment[r]
    <3>1. PICK w \in Workers : Assess(w)
      BY <2>2, TableMoves
    <3>2. /\ work[w].pc = "assess" /\ Stored(w) /\ UNCHANGED <<now, run, fingerprint, reference>>
      BY <2>2, <3>1, AssessStores
    <3>3. r = RunOf(w) /\ \A x \in Runs : x # r => assessment'[x] = assessment[x]
      BY <2>2, <3>2 DEF Stored
    <3>4. Verdict(r, work[w].at) = "inconsistent" /\ assessment'[r].at = work[w].at
      BY <1>5, <3>2, <3>3 DEF Stored
    <3>5. work[w].at \in 0 .. now
      BY TypesNow DEF VerdictInv, Local, TypeInv, TypeOK
    <3>6. fingerprint[r].kind = "mismatch"
      BY <2>0, <3>4, <3>5, VerdictConfirmed
    <3>7. PICK q \in Created : /\ q # r /\ assessment[q] # NoAssessment /\ Compared(q, r)
                               /\ fingerprint[q].kind = "mismatch" /\ work[w].at - assessment[q].at >= Delay
                               /\ \A x \in Created : Compared(x, r) /\ assessment[x] # NoAssessment
                                                     => assessment[x].at <= assessment[q].at
      BY <2>0, <3>4, <3>5, VerdictConfirmed
    <3>8. assessment'[q] = assessment[q]
      BY <1>2, <3>3, <3>7
    <3>9. ASSUME NEW x \in Runs, run'[x].status # "none", Alike(x, r), assessment'[x].verdict = "consistent"
          PROVE  Later(x, q, r)
      <4>1. x # r
        BY <1>5, <3>9
      <4>2. assessment'[x] = assessment[x] /\ assessment[x] # NoAssessment /\ x \in Created
        BY <1>3, <3>3, <3>9, <4>1 DEF NoAssessment
      <4>3. Compared(x, r)
        BY <1>4, <2>0, <3>9, <4>2
      <4> QED
        BY <3>7, <3>8, <4>2, <4>3
    <3>10. Alike(q, r)
      BY <1>4, <2>0, <3>7
    <3> QED
      BY <3>2, <3>4, <3>6, <3>7, <3>8, <3>9, <3>10
  <2> QED
    BY <2>1, <2>2
<1>6. \A r \in Runs : run'[r].status # "none" /\ assessment'[r].verdict = "inconsistent"
                      => \E q \in Runs : run'[q].status # "none" /\ StillConfirmedBy(q, r)
  BY <1>2, <1>5 DEF Created
<1> QED
  BY <1>1, <1>6 DEF ConfirmedInv, ConfirmedBy, Compared, SameSubject, Created, Alike

LEMMA AlwaysConfirmed ==
    ASSUME ~Overlap
    PROVE  Spec => []ConfirmedInv
<1>1. Init => ExecutorInv /\ ActiveInv /\ SerialInv
  BY DEF Init, ExecutorInv, ActiveInv, SerialInv, Created, NoRun, IdleWorker, Busy
<1>2. Init => ConfirmedInv
  BY DEF Init, ConfirmedInv, Created, NoRun
<1>3. TypeInv /\ ExecutorInv /\ [Next]_vars => ExecutorInv'
  BY ExecutorsKept
<1> QED
  BY <1>1, <1>2, <1>3, AlwaysGrounded, ActiveKept, SerialKept, ConfirmedKept, PTL DEF Spec

\* A supplier is called inconsistent only after two stable runs that both disagree with one
\* reference, the delay apart, with no agreement between them, unless a suspended process goes
\* on after its job was rescued (FindPreviousStableMismatch, confirmedIndependentMismatch).
THEOREM InconsistencyIsConfirmed ==
    ASSUME ~Overlap
    PROVE  Spec => []InconsistentIsConfirmed
<1>1. ConfirmedInv => InconsistentIsConfirmed
  <2> SUFFICES ASSUME ConfirmedInv, NEW r \in Created, assessment[r].verdict = "inconsistent"
               PROVE  \E q \in Created \ {r} :
                         /\ Subject(q) = Subject(r) /\ run[q].ref = run[r].ref
                         /\ \A x \in {q, r} : fingerprint[x].kind = "mismatch"
                         /\ assessment[r].at - assessment[q].at >= Delay
                         /\ \A x \in Created : /\ Subject(x) = Subject(r) /\ run[x].ref = run[r].ref
                                               /\ assessment[x].verdict = "consistent"
                                               => assessment[x].at <= assessment[q].at \/ assessment[x].at >= assessment[r].at
    BY DEF InconsistentIsConfirmed
  <2>1. PICK q \in Created : ConfirmedBy(q, r)
    BY DEF ConfirmedInv
  <2>2. \A x \in Created : Subject(x) = Subject(r) /\ run[x].ref = run[r].ref => Compared(x, r)
    BY DEF Subject, Compared, SameSubject
  <2> QED
    BY <2>1, <2>2 DEF ConfirmedBy, Compared, SameSubject, Subject
<1> QED
  BY <1>1, AlwaysConfirmed, PTL
=============================================================================
