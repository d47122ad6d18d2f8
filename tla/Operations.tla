------------------------------ MODULE Operations ------------------------------
(***************************************************************************)
(* The operators' mutations of several sites that share a supplier:        *)
(* deployment, decisions, credential rotations, prices, restoring of older *)
(* plans and explicit synchronisation, each in one transaction under the   *)
(* configuration lock and the locks of the sites it touches, repeatable    *)
(* under its request identity; and the plans they publish, carried out by  *)
(* ManagedSync.                                                            *)
(*                                                                         *)
(* Covered: application/operations, application/idempotency's records as   *)
(* the mutations use them, storage/postgres/operations_*.go, and the       *)
(* confirmation of a run in reconciliation_site.go.  A transaction is one  *)
(* step: concurrent ones are refused as busy and change nothing.  There is *)
(* one supplier with one relation, group and channel per site.  Names,     *)
(* visibility and models are left out; strategies are in Automation.       *)
(***************************************************************************)
EXTENDS ManagedSync, Sequences, FiniteSets

CONSTANTS
    Clients,         \* callers of Execute
    Keys,            \* request identities; each stands for one request
    Kinds,           \* mutations asked for, of those in Inputs below
    MaxCredentials,  \* credentials sealed
    MaxPrices,       \* price versions of a group
    MaxPlans,        \* plans of a site
    MaxFaults,       \* bound on failed puts and runs that die
    MaxRebases,      \* bound on changes of a site's billing basis
    Expiring         \* requests whose record may expire, each once

(* A channel that does not exist has a key that is no credential's; one    *)
(* credential is sealed from the start.                                    *)
ASSUME CredentialAssumption ==
    /\ MaxCredentials \in Nat \ {0}
    /\ NoCredential \in Nat \ 1 .. MaxCredentials

VARIABLES
    supplier,   \* [status, version, current, pending] with numbered credentials
    revoked,    \* credentials with revoked_at
    sealed,     \* credentials made
    site,       \* [status, version]
    relation,   \* [deployed, desired, version]
    price,      \* price versions of each site's group
    plan,       \* route_plan_versions of each site
    op,         \* status of the newest plan's sync operation
    channel,    \* site_supplier_channels: [bound, key, version]
    request,    \* what each request identity stands for
    record,     \* idempotency_records
    ask,        \* the locals of Execute for each client
    taken,      \* history: how often a request took effect
    expired,    \* history: requests whose record expired
    faults, rebased  \* bounds

tables == <<supplier, revoked, sealed, site, relation, price, plan, op, channel>>
requests == <<request, record, ask, taken, expired>>
bounds == <<faults, rebased>>
vars == <<tables, requests, remote, run, bounds>>

-----------------------------------------------------------------------------
Unknown == 0   \* no billing basis was read
NoRequest == [kind |-> "none"]
IdleClient == [key |-> "none"]

(* LatestFullSitePlanID: the plan with the greatest number.                *)
NewestPlan(s) == Len(plan[s])

Deployed == {s \in Sites : relation[s].deployed}
Rotating == supplier.pending # supplier.current

Busy(s) == run[s].pc # "idle"

(* The current price of a group, and the drafts newer than it.             *)
Current(s) == {i \in DOMAIN price[s] : price[s][i].status \in {"published", "applied"}}

(* buildSitePlan and its parts: what the tables say the site shall be; the *)
(* pending credential goes before the current one.                         *)
Snapshot(s, prices) ==
    LET latest == CHOOSE i \in DOMAIN prices : prices[i].status \in {"published", "applied"}
    IN  [enabled |-> supplier'.status = "enabled" /\ relation'[s].desired = "enabled",
         key |-> supplier'.pending.key, version |-> supplier'.pending.version,
         price |-> latest, basis |-> prices[latest].basis]

\* A basis that was read completes the prices that were published without one.
Filled(prices, basis) ==
    [i \in DOMAIN prices |->
        IF prices[i].status = "published" /\ prices[i].basis = Unknown
        THEN [prices[i] EXCEPT !.basis = basis] ELSE prices[i]]

(* enqueuePlan: the newest plan's operation is opened, or opened again.    *)
Enqueue(sites) == op' = [s \in Sites |-> IF s \in sites THEN "pending" ELSE op[s]]

(* Every touched site gets a new plan, operation and job when what it      *)
(* shall be has changed; an unchanged plan is only queued again by a sync. *)
Publish(touched, kind, basis, prices) ==
    LET live == {s \in touched : site'[s].status = "enabled" /\ relation'[s].deployed}
        full == [s \in Sites |-> IF s \in live THEN Filled(prices[s], basis[s]) ELSE prices[s]]
        next(s) == Snapshot(s, full[s])
        new == {s \in live : plan[s] = <<>> \/ plan[s][Len(plan[s])] # next(s)}
    IN  /\ \A s \in new : Len(plan[s]) < MaxPlans
        /\ price' = full
        /\ plan' = [s \in Sites |-> IF s \in new THEN Append(plan[s], next(s)) ELSE plan[s]]
        /\ Enqueue(IF kind = "sync" THEN live ELSE new)

-----------------------------------------------------------------------------
(* The mutations: each with the version it expects, the sites it locks and *)
(* touches, and the changes it makes.                                      *)

\* Mutant: a rotation is only published on the sites that are enabled by decision.
SitesOfSupplierWanted == {s \in Deployed : relation[s].desired = "enabled"}
SitesOfSupplier == Deployed

(* lockTargets                                                             *)
OfSupplier == {"supplier", "rotate", "cancel"}
Locks(m) == IF m.kind \in OfSupplier THEN SitesOfSupplier ELSE {m.site}

\* Mutant: changes of the supplier do not wait for the sites' runs.
FreeOfSite(m) == m.kind \in OfSupplier \/ \A s \in Locks(m) : ~Busy(s)

(* A site is locked against its run.                                       *)
Free(m) == \A s \in Locks(m) : ~Busy(s)

SaveSite(m) ==
    /\ site[m.site].version = m.version
    /\ site' = [site EXCEPT ![m.site] = [status |-> m.status, version |-> @.version + 1]]
    /\ UNCHANGED <<supplier, revoked, sealed, relation, channel>>

SaveSupplier(m) ==
    /\ supplier.version = m.version
    /\ ~Rotating \/ m.status = "disabled"
    /\ supplier' = [supplier EXCEPT !.status = m.status, !.version = @ + 1]
    /\ UNCHANGED <<revoked, sealed, site, relation, channel>>

\* Mutant: a candidate that is replaced stays valid.
ReplacedStays == {}

(* The candidate that a rotation replaces, if there is one.                *)
Replaced == IF Rotating THEN {supplier.pending.key} ELSE {}

(* A new candidate replaces the pending one, which is revoked; without any *)
(* site it is current at once.                                             *)
RotateCredential(m) ==
    /\ supplier.version = m.version /\ sealed < MaxCredentials /\ sealed' = sealed + 1
    /\ LET next == [key |-> sealed + 1, version |-> supplier.pending.version + 1]
       IN  supplier' = [supplier EXCEPT !.version = @ + 1, !.pending = next,
                                        !.current = IF Deployed = {} THEN next ELSE @]
    /\ revoked' = revoked \cup Replaced
    /\ UNCHANGED <<site, relation, channel>>

CancelCredential(m) ==
    /\ supplier.version = m.version /\ Rotating
    /\ supplier' = [supplier EXCEPT !.version = @ + 1, !.pending = supplier.current]
    /\ revoked' = revoked \cup {supplier.pending.key}
    /\ UNCHANGED <<sealed, site, relation, channel>>

(* One relation per site and supplier (site_suppliers' unique key), with   *)
(* its first price.                                                        *)
Deploy(m) ==
    /\ supplier.status = "enabled" /\ site[m.site].status = "enabled"
    /\ ~relation[m.site].deployed
    /\ relation' = [relation EXCEPT ![m.site] = [deployed |-> TRUE, desired |-> "enabled", version |-> 1]]
    /\ UNCHANGED <<supplier, revoked, sealed, site, channel>>

SaveRelation(m) ==
    /\ relation[m.site].deployed /\ relation[m.site].version = m.version
    /\ relation' = [relation EXCEPT ![m.site].desired = m.status, ![m.site].version = @ + 1]
    /\ UNCHANGED <<supplier, revoked, sealed, site, channel>>

(* Only the decision of an older plan is restored: credentials and prices  *)
(* stay what they are.                                                     *)
Restore(m) ==
    /\ m.plan \in DOMAIN plan[m.site]
    /\ relation' = [relation EXCEPT ![m.site].desired = IF plan[m.site][m.plan].enabled THEN "enabled" ELSE "disabled",
                                    ![m.site].version = @ + 1]
    /\ UNCHANGED <<supplier, revoked, sealed, site, channel>>

Tables == UNCHANGED <<supplier, revoked, sealed, site, relation, channel>>

(* The prices after a mutation.                                            *)
DraftPrice(s, basis) == [price EXCEPT ![s] = Append(@, [status |-> "draft", basis |-> basis])]

(* publishPrice: the newest version, still a draft, reviewed on the basis  *)
(* the site has.                                                           *)
Publishable(m, basis) ==
    /\ m.price = Len(price[m.site]) /\ price[m.site][m.price].status = "draft"
    /\ price[m.site][m.price].basis # Unknown /\ price[m.site][m.price].basis = basis

PublishPrice(m) ==
    [price EXCEPT ![m.site] =
        [i \in DOMAIN @ |-> IF i = m.price THEN [@[i] EXCEPT !.status = "published"]
                            ELSE IF @[i].status \in {"published", "applied"}
                            THEN [@[i] EXCEPT !.status = "superseded"] ELSE @[i]]]

(* MutateOperations without its record.                                    *)
Apply(m, basis) ==
    LET bases == [s \in Sites |-> IF m.kind \notin OfSupplier /\ s = m.site THEN basis ELSE Unknown]
        all == Publish(Locks(m), m.kind, bases, price)
    IN  \/ m.kind = "site" /\ SaveSite(m) /\ all
        \/ m.kind = "supplier" /\ SaveSupplier(m) /\ all
        \/ m.kind = "rotate" /\ RotateCredential(m) /\ all
        \/ m.kind = "cancel" /\ CancelCredential(m) /\ all
        \/ m.kind = "restore" /\ Restore(m) /\ all
        \/ m.kind = "sync" /\ Tables /\ all
        \/ m.kind = "relation" /\ SaveRelation(m) /\ all
        \/ m.kind = "deploy" /\ Deploy(m)
           /\ Publish({m.site}, m.kind, bases,
                      [price EXCEPT ![m.site] = <<[status |-> "published", basis |-> basis]>>])
        \/ m.kind = "draft" /\ relation[m.site].deployed /\ Len(price[m.site]) < MaxPrices
           /\ Tables /\ price' = DraftPrice(m.site, basis) /\ UNCHANGED <<plan, op>>
        \/ m.kind = "publish" /\ Publishable(m, basis)
           /\ relation' = [relation EXCEPT ![m.site].version = @ + 1]
           /\ UNCHANGED <<supplier, revoked, sealed, site, channel>>
           /\ Publish({m.site}, m.kind, bases, PublishPrice(m))

-----------------------------------------------------------------------------
(* Execute: a request is prepared, partly by asking the gateway, and then  *)
(* carried out; it may be repeated at any time.                            *)

(* What operators ask for, on what they see, and prepare lets through: of  *)
(* the supplier, of a site and its relation, of its plans and prices.      *)
SupplierInputs ==
    {[kind |-> "supplier", version |-> supplier.version, status |-> st] : st \in {"enabled", "disabled"}} \cup
    {[kind |-> k, version |-> supplier.version] : k \in {"rotate", "cancel"}}

SiteInputs(s) ==
    {[kind |-> "site", site |-> s, version |-> site[s].version, status |-> st] : st \in {"enabled", "disabled"}} \cup
    {[kind |-> "relation", site |-> s, version |-> relation[s].version, status |-> st] : st \in {"enabled", "disabled"}}

PlanInputs(s) ==
    {[kind |-> "restore", site |-> s, plan |-> i] : i \in DOMAIN plan[s]} \cup
    {[kind |-> "publish", site |-> s, price |-> i] : i \in DOMAIN price[s]} \cup
    {[kind |-> k, site |-> s] : k \in {"sync", "deploy", "draft"}}

Inputs == SupplierInputs \cup UNION {SiteInputs(s) \cup PlanInputs(s) : s \in Sites}

(* What prepare reads of the gateway: a basis, which only prices insist on.*)
ReadBasis(m) ==
    IF m.kind \in {"draft", "publish"} THEN {gateway[m.site].basis}
    ELSE IF m.kind \in {"sync", "deploy"} THEN {gateway[m.site].basis, Unknown} ELSE {Unknown}

(* prepare refuses a rotation of a supplier that has changed.              *)
Preparable(m) == m.kind \in {"rotate", "cancel"} => supplier.version = m.version

(* Execute up to the transaction: a request that has no record is prepared.*)
Prepare(c, k) ==
    /\ ask[c] = IdleClient /\ ~record[k]
    /\ \E m \in IF request[k] = NoRequest THEN Inputs ELSE {request[k]} :
         /\ m.kind \in Kinds /\ Preparable(m)
         /\ request' = [request EXCEPT ![k] = m]
         /\ \E basis \in ReadBasis(m) : ask' = [ask EXCEPT ![c] = [key |-> k, basis |-> basis]]
    /\ UNCHANGED <<tables, record, taken, expired, remote, run, bounds>>

\* Mutant: the record is not looked up again under its lock.
ReplayedByChance(k) == FALSE

(* The transaction looks the record up again under the lock of its key.    *)
Replayed(k) == record[k]

Mutate(c) ==
    /\ ask[c] # IdleClient
    /\ LET k == ask[c].key IN
       IF Replayed(k) THEN UNCHANGED <<tables, record, taken>>
       ELSE /\ Free(request[k])
            /\ Apply(request[k], ask[c].basis)
            /\ record' = [record EXCEPT ![k] = TRUE]
            /\ taken' = [taken EXCEPT ![k] = @ + 1]
    /\ ask' = [ask EXCEPT ![c] = IdleClient]
    /\ UNCHANGED <<request, expired, remote, run, bounds>>

(* Busy, refused, or the process died.                                     *)
Refuse(c) ==
    /\ ask[c] # IdleClient
    /\ ask' = [ask EXCEPT ![c] = IdleClient]
    /\ UNCHANGED <<tables, request, record, taken, expired, remote, run, bounds>>

(* A record is kept for a day.                                             *)
Expire(k) ==
    /\ k \in Expiring \ expired /\ record[k]
    /\ record' = [record EXCEPT ![k] = FALSE]
    /\ expired' = expired \cup {k}
    /\ UNCHANGED <<tables, request, ask, taken, remote, run, bounds>>

-----------------------------------------------------------------------------
(* The run of a site's newest plan, under the site's lock.                 *)

Fault == faults < MaxFaults /\ faults' = faults + 1 /\ UNCHANGED rebased

Open == {"pending", "running"}
KeepRequests == UNCHANGED requests

(* The statements on the operation's row.                                  *)
MarkSyncRunning(s) == op' = [op EXCEPT ![s] = "running"]
MarkSyncSucceeded(s) == op' = [op EXCEPT ![s] = "succeeded"]
MarkSyncFailed(s, status) == op' = [op EXCEPT ![s] = status]

FailOperation(s, status) ==
    /\ MarkSyncFailed(s, status)
    /\ run' = [run EXCEPT ![s] = Idle]
    /\ UNCHANGED <<supplier, revoked, sealed, site, relation, price, plan, channel>>

(* LoadBundle finds the plan's credential, unless it was revoked.          *)
Available(p) == p.key \notin revoked

Start(s) ==
    /\ ~Busy(s) /\ op[s] \in Open
    /\ LET p == plan[s][NewestPlan(s)]
           available == Available(p)
           ready == site[s].status = "enabled" /\ Readable(s, p, available)
       IN  \/ /\ ready /\ Read(s, NewestPlan(s), p, available)
              /\ MarkSyncRunning(s)
              /\ UNCHANGED <<supplier, revoked, sealed, site, relation, price, plan, channel>>
           \/ ~ready /\ FailOperation(s, "manual") /\ UNCHANGED remote
    /\ KeepRequests /\ UNCHANGED bounds

(* ApplyManagedState.  What a put answers is checked; its answer may be    *)
(* lost.                                                                   *)
Answered(s, state, basis) ==
    IF Verified(s, state, basis) THEN Goto(s, "confirm") /\ UNCHANGED tables
    ELSE FailOperation(s, "manual")

Put(s) ==
    /\ At(s, "put")
    /\ \/ Accepts(s) /\ Install(s) /\ Answered(s, Wanted(s), gateway[s].basis)
       \/ Known(s) /\ Answered(s, answered[s].left, answered[s].basis) /\ UNCHANGED remote
       \/ Refuses(s) /\ FailOperation(s, "manual") /\ UNCHANGED remote
    /\ KeepRequests /\ UNCHANGED bounds

\* Mutant: a put whose outcome is unknown is taken for one that was carried out.
UnansweredTaken(s) == Goto(s, "confirm") /\ UNCHANGED tables

(* A put without an answer leaves the operation to be tried again.         *)
Unanswered(s) == FailOperation(s, "pending")

PutUnanswered(s) ==
    /\ At(s, "put")
    /\ \/ Accepts(s) /\ Install(s)
       \/ UNCHANGED remote
    /\ Fault /\ Unanswered(s) /\ KeepRequests

(* ConfirmM1Channel: the channel as it was put; its credential stays the   *)
(* one confirmed before unless the put is taken to have applied another.   *)
ConfirmChannel(s) ==
    channel' = [channel EXCEPT ![s] =
       [bound |-> gateway[s].state.status # "absent",
        key |-> IF CredentialApplied(s) THEN run[s].plan.key ELSE @.key,
        version |-> IF CredentialApplied(s) THEN run[s].plan.version ELSE @.version]]

(* ConfirmResource: the channel, and, as the code has it, the relation's   *)
(* decision as enabled.                                                    *)
Confirm(s) ==
    /\ At(s, "confirm")
    /\ ConfirmChannel(s)
    /\ relation' = [relation EXCEPT ![s].desired = "enabled", ![s].version = @ + 1]
    /\ Goto(s, "prices")
    /\ UNCHANGED <<supplier, revoked, sealed, site, price, plan, op, remote, bounds>> /\ KeepRequests

ConfirmPrices(s) ==
    /\ At(s, "prices")
    /\ price' = [price EXCEPT ![s] = [i \in DOMAIN @ |->
          IF i = run[s].plan.price /\ @[i].status = "published" THEN [@[i] EXCEPT !.status = "applied"] ELSE @[i]]]
    /\ Goto(s, "complete")
    /\ UNCHANGED <<supplier, revoked, sealed, site, relation, plan, op, channel, remote, bounds>> /\ KeepRequests

\* Mutant: one confirmed channel is enough.
EverySiteConfirmedSoon == \E s \in Deployed : channel[s].bound /\ channel[s].key = supplier.pending.key

(* PromoteConfirmedSupplierCredential                                      *)
EverySiteConfirmed ==
    \A s \in Deployed : channel[s].bound =>
        channel[s].key = supplier.pending.key /\ channel[s].version = supplier.pending.version

Complete(s) ==
    /\ At(s, "complete")
    /\ supplier' = IF EverySiteConfirmed THEN [supplier EXCEPT !.current = supplier.pending] ELSE supplier
    /\ MarkSyncSucceeded(s)
    /\ run' = [run EXCEPT ![s] = Idle]
    /\ UNCHANGED <<revoked, sealed, site, relation, price, plan, channel, remote, bounds>> /\ KeepRequests

(* A statement fails, or the worker dies: the job is tried again.          *)
Abort(s) ==
    /\ Busy(s) /\ Fault
    /\ run' = [run EXCEPT ![s] = Idle]
    /\ UNCHANGED <<tables, remote>> /\ KeepRequests

(* The model prices of a site change in New API.                           *)
Rebase(s) ==
    /\ rebased < MaxRebases /\ rebased' = rebased + 1
    /\ gateway' = [gateway EXCEPT ![s].basis = @ + 1]
    /\ UNCHANGED <<tables, requests, answered, run, faults>>

-----------------------------------------------------------------------------
FirstPlan == [enabled |-> TRUE, key |-> 1, version |-> 1, price |-> 1, basis |-> 1]
Served == Managed(NoChannel, FirstPlan)

(* Some sites have been deployed and synchronised before.                  *)
Init ==
    \E there \in SUBSET Sites :
      LET Each(standing, new) == [s \in Sites |-> IF s \in there THEN standing ELSE new] IN
      /\ supplier = [status |-> "enabled", version |-> 1, current |-> [key |-> 1, version |-> 1],
                     pending |-> [key |-> 1, version |-> 1]]
      /\ revoked = {} /\ sealed = 1
      /\ site = [s \in Sites |-> [status |-> "enabled", version |-> 1]]
      /\ relation = Each([deployed |-> TRUE, desired |-> "enabled", version |-> 2],
                         [deployed |-> FALSE, desired |-> "enabled", version |-> 0])
      /\ price = Each(<<[status |-> "applied", basis |-> 1]>>, <<>>)
      /\ plan = Each(<<FirstPlan>>, <<>>)
      /\ op = Each("succeeded", "none")
      /\ channel = Each([bound |-> TRUE, key |-> 1, version |-> 1],
                        [bound |-> FALSE, key |-> NoCredential, version |-> 0])
      /\ gateway = Each([state |-> Served, basis |-> 1], [state |-> NoChannel, basis |-> 1])
      /\ answered = Each([op |-> 1, expected |-> NoChannel, left |-> Served, basis |-> 1], NoAnswer)
      /\ run = [s \in Sites |-> Idle]
      /\ request = [k \in Keys |-> NoRequest] /\ record = [k \in Keys |-> FALSE]
      /\ ask = [c \in Clients |-> IdleClient]
      /\ taken = [k \in Keys |-> 0] /\ expired = {}
      /\ faults = 0 /\ rebased = 0

Next ==
    \/ \E c \in Clients : (\E k \in Keys : Prepare(c, k)) \/ Mutate(c) \/ Refuse(c)
    \/ \E k \in Keys : Expire(k)
    \/ \E s \in Sites :
          \/ Start(s) \/ Put(s) \/ PutUnanswered(s)
          \/ Confirm(s) \/ ConfirmPrices(s) \/ Complete(s)
          \/ Abort(s) \/ Rebase(s)

Spec == Init /\ [][Next]_vars

-----------------------------------------------------------------------------
Statuses == {"enabled", "disabled"}
Credential == [key : 1 .. MaxCredentials, version : 1 .. MaxCredentials]

(* Every variable keeps its shape.                                         *)
TypeOK ==
    /\ supplier \in [status : Statuses, version : Nat, current : Credential, pending : Credential]
    /\ revoked \subseteq 1 .. sealed /\ sealed \in 1 .. MaxCredentials
    /\ \A s \in Sites :
         /\ site[s] \in [status : Statuses, version : Nat]
         /\ relation[s] \in [deployed : BOOLEAN, desired : Statuses, version : Nat]
         /\ Len(plan[s]) <= MaxPlans /\ Len(price[s]) <= MaxPrices
         /\ relation[s].deployed <=> Cardinality(Current(s)) = 1
         /\ op[s] \in {"none", "pending", "running", "succeeded", "manual"}
         /\ gateway[s].state \in ManagedState
         /\ run[s].pc \in {"idle", "put", "confirm", "prices", "complete"}

(* A request takes effect once for as long as its record is kept; one that *)
(* expects a version, or makes what may exist once, takes effect once ever *)
(* (MutateOperations' record under the lock of its key; the WHERE version  *)
(* of its updates).                                                        *)
Repeatable == {"restore", "sync", "draft"}
TakenOnce ==
    \A k \in Keys :
        taken[k] <= IF request[k] # NoRequest /\ request[k].kind \in Repeatable /\ k \in expired THEN 2 ELSE 1

(* Whatever the order of the operators' changes, the newest plan of a site *)
(* under management has the credential to install, the price in force, and *)
(* serves nothing of a supplier that is stopped (MutateOperations publishes*)
(* on every site a change reaches).                                        *)
NewestPlanIsCurrent ==
    \A s \in Deployed : site[s].status = "enabled" =>
        LET p == plan[s][NewestPlan(s)]
        IN  /\ [key |-> p.key, version |-> p.version] = supplier.pending
            /\ p.price \in Current(s)
            /\ supplier.status = "disabled" => ~p.enabled

(* When the newest plan has succeeded, the gateway serves it, through lost *)
(* answers, repeated puts and refused ones (runManagedSite).               *)
SuccessIsServed ==
    \A s \in Sites : op[s] = "succeeded" =>
        LET p == plan[s][NewestPlan(s)] IN
        /\ gateway[s].state.price = p.price
        /\ IF p.enabled THEN gateway[s].state = Managed(NoChannel, p)
           ELSE gateway[s].state.status \in {"absent", "stopped"}

(* No put installs a credential that has been revoked: a rotation that     *)
(* replaces a candidate waits for the runs that are sending it (lockTargets*)
(* and AcquireSiteLock).                                                   *)
RevokedIsNotInstalled ==
    [][\A s \in Sites : gateway'[s].state.key # gateway[s].state.key => gateway'[s].state.key \notin revoked]_vars

(* A credential becomes the supplier's current one only when every channel *)
(* in use has it (PromoteConfirmedSupplierCredential; confirmations are    *)
(* inferred from versions).                                                *)
PromotedIsInstalled ==
    [][supplier'.current # supplier.current =>
        \A s \in Deployed : channel[s].bound => gateway[s].state.key = supplier'.current.key]_vars

(* The operators' changes and the runs keep what RotationContract promises *)
(* of a supplier's credentials: who may have which, from when on, and when *)
(* a candidate is the current one (rotateCredential, cancelCredential,     *)
(* PromoteConfirmedSupplierCredential).                                    *)
Contract == INSTANCE RotationContract WITH
    Credentials <- 1 .. MaxCredentials,
    made <- 1 .. sealed,
    current <- supplier.current.key,
    candidate <- supplier.pending.key,
    installed <- [s \in Sites |-> gateway[s].state.key],
    inUse <- {s \in Sites : channel[s].bound}
Rotation == Contract!Spec

(* Once all sites have carried out their newest plan, a rotation is over.  *)
(* The documents say so; the code does not keep it, even without faults,   *)
(* because CredentialApplied compares version numbers that a cancelled     *)
(* rotation gives back.  No run checks it.                                 *)
RotationSettles == (\A s \in Deployed : op[s] = "succeeded") => ~Rotating
=============================================================================
