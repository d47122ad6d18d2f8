---------------------------- MODULE SiteReconcile ----------------------------
(***************************************************************************)
(* One site, endpoint by endpoint: the operators' configuration and the    *)
(* plans built from it, the New API gateway, and the run that brings the   *)
(* gateway to the newest plan with New API's ordinary management           *)
(* endpoints.                                                              *)
(*                                                                         *)
(* Covered: relation, price, supplier and credential mutations, the        *)
(* automation's holds, every read, write and confirmation of runSite in    *)
(* the code's order, its failures and crashes between any two of them, and *)
(* what New API's own administrators do to the channels and to the groups  *)
(* ManyRouter does not manage.                                             *)
(*                                                                         *)
(* Assumed: runs and mutations of the site exclude each other and a run    *)
(* works for the newest plan (WriterIsCurrent of SyncQueue), and a failed  *)
(* operation is run again.  A write whose answer is lost is a write        *)
(* followed by Fail.                                                       *)
(*                                                                         *)
(* Abstracted: what is written to a channel besides its key is one number, *)
(* the number of its supplier's edits; the managed group ratios, which are *)
(* written as one option, are the number of price publications; one group  *)
(* stands for those ManyRouter does not manage.  A channel is found by its *)
(* tag; conflicting tags and bindings are left out.  Every relation is     *)
(* visible while it is enabled.  The order of the relations in a phase,    *)
(* fixed in the code, is free.                                             *)
(***************************************************************************)
EXTENDS Naturals

CONSTANTS
    Relations,        \* relations of the site, each with a supplier and a channel
    MaxPlans,         \* bound on the plans published
    MaxEdits,         \* bound on a supplier's edits and on price publications
    MaxCredentials,   \* bound on the credentials a supplier gets
    MaxFaults,        \* bound on failed runs, crashes and edits by New API's administrators
    Controls,         \* what operators, the automation and the administrators do:
                      \* "relation", "resume", "hold", "config", "price", "rotate",
                      \* "cancel", "sync"; "stop", "delete", "unmanaged"
    EditsDuringRuns   \* the administrators also edit while a run is going on

ASSUME RelationsAssumption == Relations # {}
ASSUME BoundsAssumption ==
    /\ MaxPlans \in Nat \ {0}
    /\ MaxEdits \in Nat \ {0}
    /\ MaxCredentials \in Nat \ {0}
    /\ MaxFaults \in Nat
ASSUME ControlsAssumption ==
    Controls \subseteq {"relation", "resume", "hold", "config", "price", "rotate",
                        "cancel", "sync", "stop", "delete", "unmanaged"}
ASSUME EditsAssumption == EditsDuringRuns \in BOOLEAN

VARIABLES
    desired,      \* desired_status of each relation
    held,         \* relations with an active automation hold
    config,       \* number of the newest edit of each relation's supplier
    price,        \* number of the newest published price version
    current,      \* credential in force of each supplier
    pending,      \* candidate credential of each supplier, 0 if none
    made,         \* number of credentials stored for each supplier
    latest,       \* number of plans
    plan,         \* snapshot of the newest plan
    planStatus,   \* its status
    op,           \* status of its operation
    applied,      \* the newest price version is marked applied
    status,       \* sync_status of each relation
    bound,        \* relations with an external channel number
    last,         \* last confirmed target of each channel
    keyed,        \* credential each channel was last confirmed with, 0 if none
    chan,         \* New API: status of each relation's channel
    conf,         \* New API: configuration of each channel
    key,          \* New API: credential in each channel
    ratio,        \* New API: price number in the managed group ratios
    ext,          \* New API: ratio of the group ManyRouter does not manage, 0 if gone
    entries,      \* New API: relations whose group is user selectable
    pc,           \* control state of the run
    todo,         \* relations left in the run's present phase
    cur,          \* relation the run works on
    seen,         \* last state the run read and kept
    base,         \* ext when the run began
    wrote,        \* the run wrote the present channel's key
    halted,       \* history: relations whose last operator decision was to disable
    stopper,      \* history: who answers for each channel's manual stop
    faults        \* number of faults so far

edits    == <<held, config, price, current, pending, made>>
progress == <<planStatus, op>>
binding  == <<bound, last, keyed>>
channels == <<chan, conf, key>>
options  == <<ratio, ext, entries>>
local    == <<todo, cur, seen, base, wrote>>
history  == <<halted, stopper>>
vars     == <<desired, edits, latest, plan, progress, applied, status, binding,
              channels, options, pc, local, history, faults>>

Edits       == 0 .. MaxEdits
Credentials == 0 .. MaxCredentials
Target      == {"enabled", "disabled"}
Channel     == {"absent", "enabled", "manual"}
PlanStatus  == {"pending", "applying", "confirmed", "failed", "uncertain"}
OpStatus    == {"pending", "running", "succeeded", "uncertain", "retryable_failed",
                "manual_required"}
Relation    == {"pending", "syncing", "active", "failed", "manual_locked"}
Snapshot    == [want : SUBSET Relations, resume : SUBSET Relations,
                config : [Relations -> Edits], price : Edits,
                cred : [Relations -> Credentials]]
Reading     == [chan : [Relations -> Channel], conf : [Relations -> Edits],
                ratio : Edits, ext : 0 .. 2, entries : SUBSET Relations]

Anyone == CHOOSE r \in Relations : TRUE

\* ReadActualState.  Channel keys cannot be read.
Actual == [chan |-> chan, conf |-> conf, ratio |-> ratio, ext |-> ext,
           entries |-> entries]
Unread == [chan |-> [r \in Relations |-> "absent"], conf |-> [r \in Relations |-> 0],
           ratio |-> 0, ext |-> 0, entries |-> {}]

\* The relations were deployed and plan 1 is waiting.
Init ==
    /\ desired = [r \in Relations |-> "enabled"]
    /\ held = {}
    /\ config = [r \in Relations |-> 1]
    /\ price = 1
    /\ current = [r \in Relations |-> 1]
    /\ pending = [r \in Relations |-> 0]
    /\ made = [r \in Relations |-> 1]
    /\ latest = 1
    /\ plan = [want |-> Relations, resume |-> {}, config |-> config, price |-> 1,
               cred |-> current]
    /\ planStatus = "pending" /\ op = "pending"
    /\ applied = FALSE
    /\ status = [r \in Relations |-> "pending"]
    /\ bound = {}
    /\ last = [r \in Relations |-> "never"]
    /\ keyed = [r \in Relations |-> 0]
    /\ chan = [r \in Relations |-> "absent"]
    /\ conf = [r \in Relations |-> 0]
    /\ key = [r \in Relations |-> 0]
    /\ ratio = 0 /\ ext = 1 /\ entries = {}
    /\ pc = "idle" /\ todo = {} /\ cur = Anyone /\ seen = Unread /\ base = 0
    /\ wrote = FALSE
    /\ halted = {}
    /\ stopper = [r \in Relations |-> "none"]
    /\ faults = 0

-----------------------------------------------------------------------------
(* Mutations.  They hold the site lock, so no run is going on.               *)

\* The snapshot of the configuration, with resume instructions for one plan.
SnapshotOf(resume) ==
    [want   |-> {r \in Relations : desired'[r] = "enabled" /\ r \notin held'},
     resume |-> resume,
     config |-> config',
     price  |-> price',
     cred   |-> [r \in Relations |-> IF pending'[r] # 0 THEN pending'[r]
                                                        ELSE current'[r]]]

\* Mutant: an operation the site already has is not reopened.
RebuildKept(resume) ==
    IF SnapshotOf(resume) = plan
    THEN UNCHANGED <<latest, plan, progress, status>>
    ELSE /\ latest < MaxPlans
         /\ latest' = latest + 1
         /\ plan' = SnapshotOf(resume)
         /\ planStatus' = "pending" /\ UNCHANGED op
         /\ status' = [r \in Relations |-> "pending"]

\* buildSitePlan: a snapshot that differs from the newest plan's becomes a plan.
Rebuild(resume) ==
    IF SnapshotOf(resume) = plan
    THEN UNCHANGED <<latest, plan, progress, status>>
    ELSE /\ latest < MaxPlans
         /\ latest' = latest + 1
         /\ plan' = SnapshotOf(resume)
         /\ planStatus' = "pending" /\ op' = "pending"
         /\ status' = [r \in Relations |-> "pending"]

Untouched == <<binding, channels, options, pc, local, faults>>

\* saveRelation.  An operator who disables a relation answers for a stop that
\* New API's administrator made before.
SetRelation(r, target, resume) ==
    /\ pc = "idle"
    /\ desired' = [desired EXCEPT ![r] = target]
    /\ halted' = IF target = "disabled" THEN halted \cup {r} ELSE halted \ {r}
    /\ stopper' = IF target = "disabled" /\ stopper[r] = "admin"
                  THEN [stopper EXCEPT ![r] = "operator"] ELSE stopper
    /\ UNCHANGED edits
    /\ Rebuild(IF resume THEN {r} ELSE {})
    /\ UNCHANGED <<applied, Untouched>>

\* An urgent automation decision holds a relation whatever the plan's status.
Hold(r) ==
    /\ pc = "idle"
    /\ r \notin held
    /\ held' = held \cup {r}
    /\ UNCHANGED <<desired, config, price, current, pending, made>>
    /\ Rebuild({})
    /\ UNCHANGED <<applied, history, Untouched>>

\* A recovery is not urgent: it waits for the plan before it.
Recover(r) ==
    /\ pc = "idle"
    /\ r \in held
    /\ planStatus \notin {"pending", "applying", "uncertain"}
    /\ held' = held \ {r}
    /\ UNCHANGED <<desired, config, price, current, pending, made>>
    /\ Rebuild({})
    /\ UNCHANGED <<applied, history, Untouched>>

\* saveSupplier, which is refused while a candidate credential is on its way.
EditSupplier(r) ==
    /\ pc = "idle"
    /\ pending[r] = 0
    /\ config[r] < MaxEdits
    /\ config' = [config EXCEPT ![r] = @ + 1]
    /\ UNCHANGED <<desired, held, price, current, pending, made>>
    /\ Rebuild({})
    /\ UNCHANGED <<applied, history, Untouched>>

\* Mutant: a new price keeps the mark of the one it replaces.
PublishPriceMarked ==
    /\ pc = "idle"
    /\ price < MaxEdits
    /\ price' = price + 1
    /\ UNCHANGED <<desired, held, config, current, pending, made>>
    /\ Rebuild({})
    /\ UNCHANGED <<applied, history, Untouched>>

\* publishPrice: the draft becomes "published", the version before it
\* "superseded".
PublishPrice ==
    /\ pc = "idle"
    /\ price < MaxEdits
    /\ price' = price + 1
    /\ applied' = FALSE
    /\ UNCHANGED <<desired, held, config, current, pending, made>>
    /\ Rebuild({})
    /\ UNCHANGED <<history, Untouched>>

\* rotateCredential; a candidate that is still on its way is replaced.
RotateCredential(r) ==
    /\ pc = "idle"
    /\ made[r] < MaxCredentials
    /\ made' = [made EXCEPT ![r] = @ + 1]
    /\ pending' = [pending EXCEPT ![r] = made[r] + 1]
    /\ UNCHANGED <<desired, held, config, price, current>>
    /\ Rebuild({})
    /\ UNCHANGED <<applied, history, Untouched>>

CancelCredential(r) ==
    /\ pc = "idle"
    /\ pending[r] # 0
    /\ pending' = [pending EXCEPT ![r] = 0]
    /\ UNCHANGED <<desired, held, config, price, current, made>>
    /\ Rebuild({})
    /\ UNCHANGED <<applied, history, Untouched>>

\* The explicit "sync" of an unchanged configuration reopens the operation and
\* leaves the plan's status alone.
Resync ==
    /\ pc = "idle"
    /\ UNCHANGED <<desired, edits>>
    /\ IF SnapshotOf({}) = plan
       THEN op' = "pending" /\ UNCHANGED <<latest, plan, planStatus, status>>
       ELSE Rebuild({})
    /\ UNCHANGED <<applied, history, Untouched>>

-----------------------------------------------------------------------------
(* New API's administrators.                                                 *)

Fault ==
    /\ faults < MaxFaults
    /\ faults' = faults + 1

Administrator == Fault /\ (pc = "idle" \/ EditsDuringRuns)

\* The channel page's switch.  A stop counts as the administrator's when the
\* channel was confirmed as enabled and the operator has not disabled it anyway.
StopByHand(r) ==
    /\ Administrator
    /\ chan[r] = "enabled"
    /\ chan' = [chan EXCEPT ![r] = "manual"]
    /\ stopper' = [stopper EXCEPT ![r] =
                      IF r \in halted THEN "operator"
                      ELSE IF last[r] = "enabled" THEN "admin" ELSE "unclear"]
    /\ UNCHANGED <<desired, edits, latest, plan, progress, applied, status, binding,
                   conf, key, options, pc, local, halted>>

StartByHand(r) ==
    /\ Administrator
    /\ chan[r] = "manual"
    /\ chan' = [chan EXCEPT ![r] = "enabled"]
    /\ stopper' = [stopper EXCEPT ![r] = "none"]
    /\ UNCHANGED <<desired, edits, latest, plan, progress, applied, status, binding,
                   conf, key, options, pc, local, halted>>

DeleteChannel(r) ==
    /\ Administrator
    /\ chan[r] # "absent"
    /\ chan' = [chan EXCEPT ![r] = "absent"]
    /\ conf' = [conf EXCEPT ![r] = 0]
    /\ key' = [key EXCEPT ![r] = 0]
    /\ stopper' = [stopper EXCEPT ![r] = "none"]
    /\ UNCHANGED <<desired, edits, latest, plan, progress, applied, status, binding,
                   options, pc, local, halted>>

SetUnmanaged(value) ==
    /\ Administrator
    /\ ext # value
    /\ ext' = value
    /\ UNCHANGED <<desired, edits, latest, plan, progress, applied, status, binding,
                   channels, ratio, entries, pc, local, history>>

-----------------------------------------------------------------------------
(* The run: shutdowns first.                                                 *)

\* Mutant: only channels that were confirmed as enabled are stopped.
BeginConfirmed ==
    /\ pc = "idle"
    /\ op \in {"pending", "running", "uncertain", "retryable_failed"}
    /\ op' = "running"
    /\ planStatus' = IF planStatus \in {"pending", "failed", "uncertain"}
                     THEN "applying" ELSE planStatus
    /\ status' = [r \in Relations |-> "syncing"]
    /\ seen' = Actual
    /\ base' = ext
    /\ todo' = {r \in Relations \ plan.want : last[r] = "enabled"}
    /\ pc' = "stop"
    /\ UNCHANGED <<desired, edits, latest, plan, applied, binding, channels, options,
                   cur, wrote, history, faults>>

\* Past StartOperation, with the first read.
Begin ==
    /\ pc = "idle"
    /\ op \in {"pending", "running", "uncertain", "retryable_failed"}
    /\ op' = "running"
    /\ planStatus' = IF planStatus \in {"pending", "failed", "uncertain"}
                     THEN "applying" ELSE planStatus
    /\ status' = [r \in Relations |-> "syncing"]
    /\ seen' = Actual
    /\ base' = ext
    /\ todo' = Relations \ plan.want
    /\ pc' = "stop"
    /\ UNCHANGED <<desired, edits, latest, plan, applied, binding, channels, options,
                   cur, wrote, history, faults>>

\* disableResource for a channel that was there at the first read.
StopChannel(r) ==
    /\ pc = "stop"
    /\ r \in todo
    /\ seen.chan[r] # "absent"
    /\ IF seen.chan[r] = "manual"
       THEN UNCHANGED <<chan, stopper>>
       ELSE /\ chan[r] # "absent"
            /\ chan' = [chan EXCEPT ![r] = "manual"]
            /\ stopper' = [stopper EXCEPT ![r] = IF chan[r] = "enabled" THEN "run" ELSE @]
    /\ cur' = r
    /\ pc' = "stopped"
    /\ UNCHANGED <<desired, edits, latest, plan, progress, applied, status, binding,
                   conf, key, options, todo, seen, base, wrote, halted, faults>>

\* ConfirmResource: the channel's row, and the relation's.
ConfirmResource(r, found, target, credentialApplied) ==
    /\ bound' = IF found THEN bound \cup {r} ELSE bound \ {r}
    /\ last' = [last EXCEPT ![r] = target]
    /\ keyed' = IF credentialApplied THEN [keyed EXCEPT ![r] = plan.cred[r]] ELSE keyed
    /\ desired' = [desired EXCEPT ![r] = "enabled"]
    /\ status' = [status EXCEPT ![r] = "active"]

\* The stop is read back and confirmed.
ConfirmStop ==
    /\ pc = "stopped"
    /\ chan[cur] = "manual"
    /\ ConfirmResource(cur, TRUE, "disabled", FALSE)
    /\ todo' = todo \ {cur}
    /\ pc' = "stop"
    /\ UNCHANGED <<edits, latest, plan, progress, applied, channels, options,
                   cur, seen, base, wrote, history, faults>>

\* There was no channel to stop.
ConfirmAbsent(r) ==
    /\ pc = "stop"
    /\ r \in todo
    /\ seen.chan[r] = "absent"
    /\ ConfirmResource(r, FALSE, "disabled", FALSE)
    /\ todo' = todo \ {r}
    /\ UNCHANGED <<edits, latest, plan, progress, applied, channels, options,
                   pc, cur, seen, base, wrote, history, faults>>

-----------------------------------------------------------------------------
(* Prices.                                                                   *)

\* A channel the plan stops is only touched again for a new credential.
Resources ==
    {r \in Relations :
        \/ r \in plan.want
        \/ r \in bound /\ keyed[r] # plan.cred[r] /\ ~(keyed[r] = 0 /\ plan.cred[r] = 1)}

\* Mutant: the channels come before the prices.
ReadPricesLater ==
    /\ pc = "stop"
    /\ todo = {}
    /\ seen' = Actual
    /\ todo' = Resources
    /\ pc' = "apply"
    /\ UNCHANGED <<desired, edits, latest, plan, progress, applied, status, binding,
                   channels, options, cur, base, wrote, history, faults>>

\* The billing basis is as published; the options are read.
ReadPrices ==
    /\ pc = "stop"
    /\ todo = {}
    /\ seen' = Actual
    /\ pc' = "prices"
    /\ UNCHANGED <<desired, edits, latest, plan, progress, applied, status, binding,
                   channels, options, todo, cur, base, wrote, history, faults>>

\* SetGroupRatios writes the whole option: the managed ratios from the plan, the
\* others as they were read.
SetGroupRatios ==
    /\ pc = "prices"
    /\ IF seen.ratio = plan.price
       THEN UNCHANGED <<ratio, ext>>
       ELSE ratio' = plan.price /\ ext' = seen.ext
    /\ pc' = "priced"
    /\ UNCHANGED <<desired, edits, latest, plan, progress, applied, status, binding,
                   channels, entries, local, history, faults>>

\* The ratios are read again and the plan's price versions marked applied.
ConfirmPrices ==
    /\ pc = "priced"
    /\ ratio = plan.price
    /\ applied' = TRUE
    /\ seen' = Actual
    /\ todo' = Resources
    /\ pc' = "apply"
    /\ UNCHANGED <<desired, edits, latest, plan, progress, status, binding,
                   channels, options, cur, base, wrote, history, faults>>

-----------------------------------------------------------------------------
(* applyResource, channel by channel.                                        *)

\* Mutant: a resumption of one relation resumes them all.
LockedAll(r) ==
    /\ r \in plan.want
    /\ chan[r] = "manual"
    /\ last[r] = "enabled"
    /\ plan.resume = {}

\* Stopped in New API although it was last confirmed as enabled.
Locked(r) ==
    /\ r \in plan.want
    /\ chan[r] = "manual"
    /\ last[r] = "enabled"
    /\ r \notin plan.resume

\* The read that applyResource begins with.
Look(r) ==
    /\ pc = "apply"
    /\ r \in todo
    /\ ~Locked(r)
    /\ cur' = r
    /\ seen' = Actual
    /\ pc' = "write"
    /\ UNCHANGED <<desired, edits, latest, plan, progress, applied, status, binding,
                   channels, options, todo, base, wrote, history, faults>>

\* Mutant: the operation's status is stored in the plan.
FailOperationMixed(kind, locked) ==
    /\ op' = IF kind = "retryable" THEN "retryable_failed"
             ELSE IF kind = "uncertain" THEN "uncertain" ELSE "manual_required"
    /\ planStatus' = op'
    /\ status' = [r \in Relations |->
                     IF r \in locked THEN "manual_locked"
                     ELSE IF status[r] = "syncing" THEN "failed" ELSE status[r]]

\* Mutant: every failure is retried.
FailOperationRetried(kind, locked) ==
    /\ op' = IF kind = "uncertain" THEN "uncertain" ELSE "retryable_failed"
    /\ planStatus' = IF kind = "uncertain" THEN "uncertain" ELSE "failed"
    /\ status' = [r \in Relations |->
                     IF r \in locked THEN "manual_locked"
                     ELSE IF status[r] = "syncing" THEN "failed" ELSE status[r]]

\* FailOperation.
FailOperation(kind, locked) ==
    /\ op' = IF kind = "retryable" THEN "retryable_failed"
             ELSE IF kind = "uncertain" THEN "uncertain" ELSE "manual_required"
    /\ planStatus' = IF kind = "uncertain" THEN "uncertain" ELSE "failed"
    /\ status' = [r \in Relations |->
                     IF r \in locked THEN "manual_locked"
                     ELSE IF status[r] = "syncing" THEN "failed" ELSE status[r]]

\* The locals of a run that is over.
Stop ==
    /\ pc' = "idle" /\ todo' = {} /\ cur' = Anyone /\ seen' = Unread /\ base' = 0
    /\ wrote' = FALSE

ManualLock(r) ==
    /\ pc = "apply"
    /\ r \in todo
    /\ Locked(r)
    /\ FailOperation("manual", {r})
    /\ Stop
    /\ UNCHANGED <<desired, edits, latest, plan, applied, binding, channels, options,
                   history, faults>>

\* Mutant: only a visible difference is written.
NeedsWriteVisible(r) == seen.chan[r] = "absent" \/ seen.conf[r] # plan.config[r]

\* The key cannot be read, so the credential confirmed last decides about it.
NeedsWrite(r) ==
    \/ seen.chan[r] = "absent"
    \/ seen.conf[r] # plan.config[r]
    \/ keyed[r] # plan.cred[r]

\* CreateChannel makes a stopped channel, UpdateChannel leaves the status
\* alone; both carry the key.  The result is read again.
WriteChannel ==
    /\ pc = "write"
    /\ NeedsWrite(cur)
    /\ IF seen.chan[cur] = "absent"
       THEN /\ chan[cur] = "absent"
            /\ chan' = [chan EXCEPT ![cur] = "manual"]
            /\ stopper' = [stopper EXCEPT ![cur] = "run"]
       ELSE /\ chan[cur] # "absent"
            /\ UNCHANGED <<chan, stopper>>
    /\ conf' = [conf EXCEPT ![cur] = plan.config[cur]]
    /\ key' = [key EXCEPT ![cur] = plan.cred[cur]]
    /\ wrote' = TRUE
    /\ pc' = "written"
    /\ UNCHANGED <<desired, edits, latest, plan, progress, applied, status, binding,
                   options, todo, cur, seen, base, halted, faults>>

\* The written channel is found, and BindChannel stores its number.
BindWritten ==
    /\ pc = "written"
    /\ chan[cur] # "absent"
    /\ seen' = Actual
    /\ bound' = bound \cup {cur}
    /\ pc' = "test"
    /\ UNCHANGED <<desired, edits, latest, plan, progress, applied, status, last, keyed,
                   channels, options, todo, cur, base, wrote, history, faults>>

\* Nothing to write; a channel known by its tag only is bound.
BindFound ==
    /\ pc = "write"
    /\ ~NeedsWrite(cur)
    /\ bound' = bound \cup {cur}
    /\ wrote' = FALSE
    /\ pc' = "test"
    /\ UNCHANGED <<desired, edits, latest, plan, progress, applied, status, last, keyed,
                   channels, options, todo, cur, seen, base, history, faults>>

\* TestChannel passed, or was not called for; then the channel is enabled.
Enable ==
    /\ pc = "test"
    /\ IF cur \in plan.want /\ seen.chan[cur] # "enabled"
       THEN /\ chan[cur] # "absent"
            /\ chan' = [chan EXCEPT ![cur] = "enabled"]
            /\ stopper' = [stopper EXCEPT ![cur] = "none"]
       ELSE UNCHANGED <<chan, stopper>>
    /\ pc' = "settle"
    /\ UNCHANGED <<desired, edits, latest, plan, progress, applied, status, binding,
                   conf, key, options, local, halted, faults>>

AsPlanned(r) ==
    /\ chan[r] = IF r \in plan.want THEN "enabled" ELSE "manual"
    /\ conf[r] = plan.config[r]

\* The channel is read back and confirmed.
ConfirmApplied ==
    /\ pc = "settle"
    /\ AsPlanned(cur)
    /\ ConfirmResource(cur, TRUE, IF cur \in plan.want THEN "enabled" ELSE "disabled", wrote)
    /\ todo' = todo \ {cur}
    /\ wrote' = FALSE
    /\ pc' = "apply"
    /\ UNCHANGED <<edits, latest, plan, progress, applied, channels, options,
                   cur, seen, base, history, faults>>

-----------------------------------------------------------------------------
(* Entries, and the end.                                                     *)

ReadEntries ==
    /\ pc = "apply"
    /\ todo = {}
    /\ seen' = Actual
    /\ pc' = "entries"
    /\ UNCHANGED <<desired, edits, latest, plan, progress, applied, status, binding,
                   channels, options, todo, cur, base, wrote, history, faults>>

\* SetUserUsableGroups.
SetEntries ==
    /\ pc = "entries"
    /\ entries' = IF seen.entries = plan.want THEN entries ELSE plan.want
    /\ pc' = "final"
    /\ UNCHANGED <<desired, edits, latest, plan, progress, applied, status, binding,
                   channels, ratio, ext, local, history, faults>>

\* verifySiteState on the final read.
Verified ==
    /\ ratio = plan.price
    /\ entries = plan.want
    /\ base # 0 => ext = base
    /\ \A r \in plan.want : AsPlanned(r)
    /\ \A r \in Relations \ plan.want : chan[r] \in {"absent", "manual"}

\* The suppliers whose candidate every bound channel is confirmed with.
Promoted == {r \in Relations : pending[r] # 0 /\ (r \in bound => keyed[r] = pending[r])}

\* The final read agrees, and CompleteSiteOperation commits.
Complete ==
    /\ pc = "final"
    /\ Verified
    /\ op' = "succeeded" /\ planStatus' = "confirmed"
    /\ current' = [r \in Relations |-> IF r \in Promoted THEN pending[r] ELSE current[r]]
    /\ pending' = [r \in Relations |-> IF r \in Promoted THEN 0 ELSE pending[r]]
    /\ Stop
    /\ UNCHANGED <<desired, held, config, price, made, latest, plan, applied, status,
                   binding, channels, options, history, faults>>

\* What the run reads back is not what it needs: a stop or a channel that is
\* not there is uncertain, anything else is for an operator.
Disagreement ==
    \/ pc = "stop" /\ \E r \in todo : seen.chan[r] = "enabled" /\ chan[r] = "absent"
    \/ pc = "stopped" /\ chan[cur] # "manual"
    \/ pc = "priced" /\ ratio # plan.price
    \/ pc \in {"write", "written", "test"} /\ chan[cur] = "absent"
          /\ (pc = "write" => seen.chan[cur] # "absent")
    \/ pc = "settle" /\ ~AsPlanned(cur)
    \/ pc = "final" /\ ~Verified

Disagree ==
    /\ Disagreement
    /\ \E kind \in IF pc \in {"priced", "settle", "final"} THEN {"manual"}
                   ELSE {"uncertain", "manual"} : FailOperation(kind, {})
    /\ Stop
    /\ UNCHANGED <<desired, edits, latest, plan, applied, binding, channels, options,
                   history, faults>>

\* A request fails, or is refused, or its answer is lost.
Fail(kind) ==
    /\ pc # "idle"
    /\ Fault
    /\ FailOperation(kind, {})
    /\ Stop
    /\ UNCHANGED <<desired, edits, latest, plan, applied, binding, channels, options,
                   history>>

\* The worker dies or its deadline passes: no outcome is recorded.
Crash ==
    /\ pc # "idle"
    /\ Fault
    /\ Stop
    /\ UNCHANGED <<desired, edits, latest, plan, progress, applied, status, binding,
                   channels, options, history>>

-----------------------------------------------------------------------------
Mutation ==
    \/ /\ "relation" \in Controls
       /\ \E r \in Relations, target \in Target : SetRelation(r, target, FALSE)
    \/ "resume" \in Controls /\ \E r \in Relations : SetRelation(r, "enabled", TRUE)
    \/ "hold" \in Controls /\ \E r \in Relations : Hold(r) \/ Recover(r)
    \/ "config" \in Controls /\ \E r \in Relations : EditSupplier(r)
    \/ "price" \in Controls /\ PublishPrice
    \/ "rotate" \in Controls /\ \E r \in Relations : RotateCredential(r)
    \/ "cancel" \in Controls /\ \E r \in Relations : CancelCredential(r)
    \/ "sync" \in Controls /\ Resync

Outside ==
    \/ "stop" \in Controls /\ \E r \in Relations : StopByHand(r) \/ StartByHand(r)
    \/ "delete" \in Controls /\ \E r \in Relations : DeleteChannel(r)
    \/ "unmanaged" \in Controls /\ \E value \in 0 .. 2 : SetUnmanaged(value)

Run ==
    \/ Begin
    \/ \E r \in todo : StopChannel(r) \/ ConfirmAbsent(r)
    \/ ConfirmStop
    \/ ReadPrices
    \/ SetGroupRatios
    \/ ConfirmPrices
    \/ \E r \in todo : Look(r) \/ ManualLock(r)
    \/ WriteChannel
    \/ BindWritten
    \/ BindFound
    \/ Enable
    \/ ConfirmApplied
    \/ ReadEntries
    \/ SetEntries
    \/ Complete
    \/ Disagree

Trouble ==
    \/ \E kind \in {"retryable", "uncertain", "manual"} : Fail(kind)
    \/ Crash

Next == Mutation \/ Outside \/ Run \/ Trouble

Spec == Init /\ [][Next]_vars

\* An operation that is due is run, and a run that was begun goes on.
Fairness == WF_vars(Run)

FairSpec == Spec /\ Fairness

-----------------------------------------------------------------------------
(* Properties.                                                               *)

\* Every variable has its type.
TypeOK ==
    /\ desired \in [Relations -> Target] /\ held \subseteq Relations
    /\ config \in [Relations -> Edits] /\ price \in Edits
    /\ current \in [Relations -> Credentials] /\ pending \in [Relations -> Credentials]
    /\ made \in [Relations -> Credentials]
    /\ latest \in 1 .. MaxPlans /\ plan \in Snapshot
    /\ planStatus \in PlanStatus /\ op \in OpStatus
    /\ applied \in BOOLEAN
    /\ status \in [Relations -> Relation]
    /\ bound \subseteq Relations
    /\ last \in [Relations -> Target \cup {"never"}]
    /\ keyed \in [Relations -> Credentials]
    /\ chan \in [Relations -> Channel]
    /\ conf \in [Relations -> Edits] /\ key \in [Relations -> Credentials]
    /\ ratio \in Edits /\ ext \in 0 .. 2 /\ entries \subseteq Relations
    /\ pc \in {"idle", "stop", "stopped", "prices", "priced", "apply", "write", "written",
               "test", "settle", "entries", "final"}
    /\ todo \subseteq Relations /\ cur \in Relations /\ seen \in Reading
    /\ base \in 0 .. 2 /\ wrote \in BOOLEAN
    /\ halted \subseteq Relations
    /\ stopper \in [Relations -> {"none", "run", "admin", "operator", "unclear"}]
    /\ faults \in 0 .. MaxFaults

\* ManyRouter, not an administrator, opens r's channel in this step.
Opens(r) == faults' = faults /\ chan[r] # "enabled" /\ chan'[r] = "enabled"

\* No run opens a channel before New API charges the plan's price and the price
\* version says so, whatever failed or was retried before (runSite: prices are
\* confirmed before channels).
PricedBeforeOpened ==
    [][\A r \in Relations : Opens(r) => ratio = price /\ applied]_vars

\* No run opens a channel while one that the plan stops still serves: a retry
\* does not go on from where the failed run left (runSite: shutdowns first).
StopsFirst ==
    [][\A r \in Relations : Opens(r) =>
          \A q \in Relations \ plan.want : chan[q] # "enabled"]_vars

\* A group becomes selectable only when its own channel serves at the plan's
\* price (runSite: visibility last).
EntryAfterChannel ==
    [][\A r \in entries' \ entries : AsPlanned(r) /\ ratio = price]_vars

\* The newest price version is marked applied only while New API charges it.
AppliedIsServed == applied => ratio = price

\* A relation shown as active is on the gateway as the newest plan wants it,
\* also when the run that confirmed it failed later (ConfirmResource).
ActiveIsTrue ==
    \A r \in Relations : status[r] = "active" =>
        IF r \in plan.want THEN AsPlanned(r) ELSE chan[r] # "enabled"

\* After a success New API is what the newest plan says, if nobody edits it.
SuccessIsTrue ==
    op = "succeeded" =>
        /\ ratio = plan.price
        /\ entries = plan.want
        /\ \A r \in Relations :
              IF r \in plan.want THEN AsPlanned(r) ELSE chan[r] # "enabled"

\* After a success every wanted channel runs on the plan's credential, which
\* New API never shows (ConfirmM1Channel and applyResource's comparison).
RunsOnPlannedKey ==
    op = "succeeded" =>
        \A r \in plan.want : chan[r] # "absent" => key[r] = plan.cred[r]

\* A candidate replaces a supplier's credential only when the supplier's
\* channel already runs on it (PromoteConfirmedSupplierCredential).
PromotedIsInUse ==
    [][\A r \in Relations : current'[r] # current[r] /\ r \in bound =>
          chan[r] = "absent" \/ key[r] = current'[r]]_vars

\* What docs say of a channel that New API's administrator stopped: only an
\* operator's explicit resumption or own decision about the relation lifts it.
AdminStopStands ==
    [][\A r \in Relations : Opens(r) /\ stopper[r] = "admin" => r \in plan.resume]_vars

\* Once nothing fails any more and nobody edits, every plan ends confirmed or
\* waits for an operator: no run fails again and again by its own checks.
Converges == <>[](op \in {"succeeded", "manual_required"})

\* What docs say of an operator's stop: nothing but an operator's decision
\* makes a plan want the relation again.
OperatorStopStands == halted \cap plan.want = {}

=============================================================================
