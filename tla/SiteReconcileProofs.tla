------------------------ MODULE SiteReconcileProofs ------------------------
(***************************************************************************)
(* Proofs about the runs of one site, for every set of relations and every *)
(* bound on plans, edits, credentials and faults.                          *)
(***************************************************************************)
EXTENDS SiteReconcile, TLAPS

USE DEF Edits, Credentials, Target, Channel, Snapshot, Reading

\* What a run reads is a reading.
LEMMA ActualType == ASSUME TypeOK PROVE Actual \in Reading
BY DEF Actual, TypeOK

\* An absent site's reading is one, too.
LEMMA UnreadType == Unread \in Reading
BY BoundsAssumption DEF Unread

LEMMA AnyoneType == Anyone \in Relations
BY RelationsAssumption DEF Anyone

\* The configuration's variables that a snapshot is made from.
ConfigOK ==
    /\ desired \in [Relations -> Target] /\ held \subseteq Relations
    /\ config \in [Relations -> Edits] /\ price \in Edits
    /\ current \in [Relations -> Credentials] /\ pending \in [Relations -> Credentials]

LEMMA SnapshotType ==
    ASSUME ConfigOK', NEW resume \in SUBSET Relations
    PROVE  SnapshotOf(resume) \in Snapshot
<1>1. {r \in Relations : desired'[r] = "enabled" /\ r \notin held'} \in SUBSET Relations
  OBVIOUS
<1>2. [r \in Relations |-> IF pending'[r] # 0 THEN pending'[r] ELSE current'[r]]
        \in [Relations -> Credentials]
  BY DEF ConfigOK
<1>3. config' \in [Relations -> Edits] /\ price' \in Edits
  BY DEF ConfigOK
<1> QED
  BY <1>1, <1>2, <1>3 DEF SnapshotOf

\* A mutation that keeps the configuration in its type publishes a plan in its.
LEMMA RebuildType ==
    ASSUME TypeOK, ConfigOK', NEW resume \in SUBSET Relations, Rebuild(resume)
    PROVE  /\ latest' \in 1 .. MaxPlans /\ plan' \in Snapshot
           /\ planStatus' \in PlanStatus /\ op' \in OpStatus
           /\ status' \in [Relations -> Relation]
<1>1. CASE SnapshotOf(resume) = plan
  BY <1>1 DEF Rebuild, progress, TypeOK
<1>2. CASE SnapshotOf(resume) # plan
  <2>1. latest' \in 1 .. MaxPlans
    BY <1>2, BoundsAssumption DEF Rebuild, TypeOK
  <2>2. plan' \in Snapshot
    BY <1>2, SnapshotType DEF Rebuild
  <2> QED
    BY <1>2, <2>1, <2>2 DEF Rebuild, PlanStatus, OpStatus, Relation
<1> QED
  BY <1>1, <1>2

\* A mutation leaves the run and the gateway alone.
LEMMA MutationType ==
    ASSUME TypeOK, ConfigOK', NEW resume \in SUBSET Relations, Rebuild(resume),
           UNCHANGED Untouched, applied' \in BOOLEAN, made' \in [Relations -> Credentials],
           halted' \subseteq Relations,
           stopper' \in [Relations -> {"none", "run", "admin", "operator", "unclear"}]
    PROVE  TypeOK'
BY RebuildType DEF TypeOK, ConfigOK, Untouched, binding, channels, options, local

LEMMA FailOperationType ==
    ASSUME TypeOK, NEW kind, NEW locked, FailOperation(kind, locked)
    PROVE  /\ planStatus' \in PlanStatus /\ op' \in OpStatus
           /\ status' \in [Relations -> Relation]
BY DEF TypeOK, FailOperation, PlanStatus, OpStatus, Relation

LEMMA ConfirmResourceType ==
    ASSUME TypeOK, NEW r \in Relations, NEW found, NEW target \in Target, NEW done,
           ConfirmResource(r, found, target, done)
    PROVE  /\ bound' \subseteq Relations
           /\ last' \in [Relations -> Target \cup {"never"}]
           /\ keyed' \in [Relations -> Credentials]
           /\ desired' \in [Relations -> Target]
           /\ status' \in [Relations -> Relation]
<1>1. plan.cred[r] \in Credentials
  BY DEF TypeOK
<1> QED
  BY <1>1 DEF TypeOK, ConfirmResource, Relation

LEMMA StopType ==
    ASSUME Stop
    PROVE  /\ pc' = "idle" /\ todo' \subseteq Relations /\ cur' \in Relations
           /\ seen' \in Reading /\ base' \in 0 .. 2 /\ wrote' \in BOOLEAN
<1>1. seen' \in Reading /\ cur' \in Relations
  BY AnyoneType, UnreadType DEF Stop
<1>2. wrote' = FALSE
  BY DEF Stop
<1>3. pc' = "idle" /\ todo' \subseteq Relations /\ base' \in 0 .. 2
  BY DEF Stop
<1> QED
  BY <1>1, <1>2, <1>3

\* Type correctness, for every set of relations and every bound.
THEOREM TypeCorrect == Spec => []TypeOK
<1>1. Init => TypeOK
  <2> SUFFICES ASSUME Init PROVE TypeOK
    OBVIOUS
  <2>1. plan \in Snapshot
    BY BoundsAssumption DEF Init
  <2>2. seen \in Reading /\ cur \in Relations
    BY AnyoneType, UnreadType DEF Init
  <2> QED
    <3>1. applied \in BOOLEAN /\ wrote \in BOOLEAN
      BY DEF Init
    <3>2. planStatus \in PlanStatus /\ op \in OpStatus /\ status \in [Relations -> Relation]
      BY DEF Init, PlanStatus, OpStatus, Relation
    <3> QED
      BY <2>1, <2>2, <3>1, <3>2, BoundsAssumption DEF Init, TypeOK
<1>2. TypeOK /\ [Next]_vars => TypeOK'
  <2> SUFFICES ASSUME TypeOK, [Next]_vars PROVE TypeOK'
    OBVIOUS
  <2> USE BoundsAssumption
  <2>1. ASSUME Mutation PROVE TypeOK'
    <3>1. ASSUME NEW r \in Relations, NEW target \in Target, NEW resume \in BOOLEAN,
                 SetRelation(r, target, resume)
          PROVE TypeOK'
      <4>1. ConfigOK'
        BY <3>1 DEF SetRelation, edits, TypeOK, ConfigOK
      <4>2. /\ halted' \subseteq Relations
            /\ stopper' \in [Relations -> {"none", "run", "admin", "operator", "unclear"}]
        BY <3>1 DEF SetRelation, TypeOK
      <4>3. (IF resume THEN {r} ELSE {}) \in SUBSET Relations
        OBVIOUS
      <4>4. /\ UNCHANGED Untouched /\ applied' \in BOOLEAN
            /\ made' \in [Relations -> Credentials]
            /\ Rebuild(IF resume THEN {r} ELSE {})
        BY <3>1 DEF SetRelation, edits, TypeOK
      <4> QED
        BY <4>1, <4>2, <4>3, <4>4, MutationType
    <3>2. ASSUME NEW r \in Relations, Hold(r) PROVE TypeOK'
      <4>1. ConfigOK' /\ Rebuild({})
        BY <3>2 DEF Hold, TypeOK, ConfigOK
      <4> QED
        BY <3>2, <4>1, MutationType DEF Hold, history, TypeOK
    <3>3. ASSUME NEW r \in Relations, Recover(r) PROVE TypeOK'
      <4>1. ConfigOK' /\ Rebuild({})
        BY <3>3 DEF Recover, TypeOK, ConfigOK
      <4> QED
        BY <3>3, <4>1, MutationType DEF Recover, history, TypeOK
    <3>4. ASSUME NEW r \in Relations, EditSupplier(r) PROVE TypeOK'
      <4>1. config[r] + 1 \in Edits
        BY <3>4 DEF EditSupplier, TypeOK
      <4>2. ConfigOK' /\ Rebuild({})
        BY <3>4, <4>1 DEF EditSupplier, TypeOK, ConfigOK
      <4> QED
        BY <3>4, <4>2, MutationType DEF EditSupplier, history, TypeOK
    <3>5. ASSUME PublishPrice PROVE TypeOK'
      <4>1. ConfigOK' /\ Rebuild({})
        BY <3>5 DEF PublishPrice, TypeOK, ConfigOK
      <4> QED
        BY <3>5, <4>1, MutationType DEF PublishPrice, history, TypeOK
    <3>6. ASSUME NEW r \in Relations, RotateCredential(r) PROVE TypeOK'
      <4>1. made[r] + 1 \in Credentials
        BY <3>6 DEF RotateCredential, TypeOK
      <4>2. ConfigOK' /\ Rebuild({}) /\ made' \in [Relations -> Credentials]
        BY <3>6, <4>1 DEF RotateCredential, TypeOK, ConfigOK
      <4> QED
        BY <3>6, <4>2, MutationType DEF RotateCredential, history, TypeOK
    <3>7. ASSUME NEW r \in Relations, CancelCredential(r) PROVE TypeOK'
      <4>1. ConfigOK' /\ Rebuild({})
        BY <3>7 DEF CancelCredential, TypeOK, ConfigOK
      <4> QED
        BY <3>7, <4>1, MutationType DEF CancelCredential, history, TypeOK
    <3>8. ASSUME Resync PROVE TypeOK'
      <4>1. ConfigOK'
        BY <3>8 DEF Resync, edits, TypeOK, ConfigOK
      <4>2. CASE SnapshotOf({}) = plan
        BY <3>8, <4>2 DEF Resync, edits, Untouched, binding, channels, options, local,
                          history, TypeOK, OpStatus
      <4>3. CASE SnapshotOf({}) # plan
        <5>1. Rebuild({})
          BY <3>8, <4>3 DEF Resync
        <5> QED
          BY <3>8, <4>1, <5>1, MutationType DEF Resync, edits, history, TypeOK
      <4> QED
        BY <4>2, <4>3
    <3> QED
      BY <2>1, <3>1, <3>2, <3>3, <3>4, <3>5, <3>6, <3>7, <3>8 DEF Mutation
  <2>2. ASSUME Outside PROVE TypeOK'
    <3> USE DEF Administrator, Fault, edits, progress, binding, channels, options, local,
                history
    <3>1. ASSUME NEW r \in Relations, StopByHand(r) PROVE TypeOK'
      BY <3>1 DEF StopByHand, TypeOK
    <3>2. ASSUME NEW r \in Relations, StartByHand(r) PROVE TypeOK'
      BY <3>2 DEF StartByHand, TypeOK
    <3>3. ASSUME NEW r \in Relations, DeleteChannel(r) PROVE TypeOK'
      BY <3>3 DEF DeleteChannel, TypeOK
    <3>4. ASSUME NEW value \in 0 .. 2, SetUnmanaged(value) PROVE TypeOK'
      BY <3>4 DEF SetUnmanaged, TypeOK
    <3> QED
      BY <2>2, <3>1, <3>2, <3>3, <3>4 DEF Outside
  <2>3. ASSUME Run PROVE TypeOK'
    <3> USE DEF edits, progress, binding, channels, options, local, history
    <3>1. CASE Begin
      BY <3>1, ActualType DEF Begin, TypeOK, PlanStatus, OpStatus, Relation
    <3>2. ASSUME NEW r \in todo, StopChannel(r) PROVE TypeOK'
      BY <3>2 DEF StopChannel, TypeOK
    <3>3. ASSUME NEW r \in todo, ConfirmAbsent(r) PROVE TypeOK'
      <4>1. ConfirmResource(r, FALSE, "disabled", FALSE) /\ r \in Relations
        BY <3>3 DEF ConfirmAbsent, TypeOK
      <4> QED
        BY <3>3, <4>1, ConfirmResourceType DEF ConfirmAbsent, TypeOK
    <3>4. CASE ConfirmStop
      <4>1. ConfirmResource(cur, TRUE, "disabled", FALSE) /\ cur \in Relations
        BY <3>4 DEF ConfirmStop, TypeOK
      <4> QED
        BY <3>4, <4>1, ConfirmResourceType DEF ConfirmStop, TypeOK
    <3>5. CASE ReadPrices
      BY <3>5, ActualType DEF ReadPrices, TypeOK
    <3>6. CASE SetGroupRatios
      BY <3>6 DEF SetGroupRatios, TypeOK
    <3>7. CASE ConfirmPrices
      BY <3>7, ActualType DEF ConfirmPrices, Resources, TypeOK
    <3>8. ASSUME NEW r \in todo, Look(r) PROVE TypeOK'
      BY <3>8, ActualType DEF Look, TypeOK
    <3>9. ASSUME NEW r \in todo, ManualLock(r) PROVE TypeOK'
      BY <3>9, FailOperationType, StopType DEF ManualLock, TypeOK
    <3>10. CASE WriteChannel
      BY <3>10 DEF WriteChannel, TypeOK
    <3>11. CASE BindWritten
      BY <3>11, ActualType DEF BindWritten, TypeOK
    <3>12. CASE BindFound
      BY <3>12 DEF BindFound, TypeOK
    <3>13. CASE Enable
      BY <3>13 DEF Enable, TypeOK
    <3>14. CASE ConfirmApplied
      <4>1. PICK target \in Target : ConfirmResource(cur, TRUE, target, wrote)
        BY <3>14 DEF ConfirmApplied
      <4> QED
        BY <3>14, <4>1, ConfirmResourceType DEF ConfirmApplied, TypeOK
    <3>15. CASE ReadEntries
      BY <3>15, ActualType DEF ReadEntries, TypeOK
    <3>16. CASE SetEntries
      BY <3>16 DEF SetEntries, TypeOK
    <3>17. CASE Complete
      BY <3>17, StopType DEF Complete, TypeOK, PlanStatus, OpStatus
    <3>18. CASE Disagree
      BY <3>18, FailOperationType, StopType DEF Disagree, TypeOK
    <3> QED
      BY <2>3, <3>1, <3>2, <3>3, <3>4, <3>5, <3>6, <3>7, <3>8, <3>9, <3>10, <3>11, <3>12,
         <3>13, <3>14, <3>15, <3>16, <3>17, <3>18 DEF Run
  <2>4. ASSUME Trouble PROVE TypeOK'
    <3> USE DEF edits, progress, binding, channels, options, local, history, Fault
    <3>1. ASSUME NEW kind, Fail(kind) PROVE TypeOK'
      BY <3>1, FailOperationType, StopType DEF Fail, TypeOK
    <3>2. CASE Crash
      BY <3>2, StopType DEF Crash, TypeOK
    <3> QED
      BY <2>4, <3>1, <3>2 DEF Trouble
  <2>5. CASE UNCHANGED vars
    BY <2>5 DEF vars, edits, progress, binding, channels, options, local, history, TypeOK
  <2> QED
    BY <2>1, <2>2, <2>3, <2>4, <2>5 DEF Next
<1> QED
  BY <1>1, <1>2, PTL DEF Spec

-----------------------------------------------------------------------------
(* What mutations, administrators and failures leave alone.                  *)

\* A mutation happens between runs, leaves the newest plan with the present
\* configuration, and unless that is the plan before, opens its operation.
LEMMA MutationEffect ==
    ASSUME Mutation
    PROVE  /\ pc = "idle" /\ UNCHANGED Untouched
           /\ \E resume \in SUBSET Relations : plan' = SnapshotOf(resume)
           /\ applied' = FALSE \/ UNCHANGED <<applied, price>>
           /\ \/ UNCHANGED <<plan, status>> /\ op' \in {op, "pending"}
              \/ op' = "pending" /\ status' = [r \in Relations |-> "pending"]
<1>1. ASSUME NEW resume \in SUBSET Relations, Rebuild(resume)
      PROVE  /\ plan' = SnapshotOf(resume)
             /\ \/ UNCHANGED <<plan, status>> /\ op' \in {op, "pending"}
                \/ op' = "pending" /\ status' = [r \in Relations |-> "pending"]
  BY <1>1 DEF Rebuild, progress
<1>2. ASSUME NEW r \in Relations, NEW target \in Target, NEW resume \in BOOLEAN,
             SetRelation(r, target, resume)
      PROVE  \E instructions \in SUBSET Relations :
                Rebuild(instructions) /\ pc = "idle" /\ UNCHANGED <<applied, price, Untouched>>
  <2>1. (IF resume THEN {r} ELSE {}) \in SUBSET Relations
    OBVIOUS
  <2> QED
    BY <1>2, <2>1 DEF SetRelation, edits
<1>3. ASSUME NEW r \in Relations, Hold(r) \/ Recover(r)
      PROVE  Rebuild({}) /\ pc = "idle" /\ UNCHANGED <<applied, price, Untouched>>
  BY <1>3 DEF Hold, Recover
<1>4. ASSUME NEW r \in Relations, EditSupplier(r) \/ RotateCredential(r) \/ CancelCredential(r)
      PROVE  Rebuild({}) /\ pc = "idle" /\ UNCHANGED <<applied, price, Untouched>>
  BY <1>4 DEF EditSupplier, RotateCredential, CancelCredential
<1>5. ASSUME PublishPrice
      PROVE  Rebuild({}) /\ pc = "idle" /\ applied' = FALSE /\ UNCHANGED Untouched
  BY <1>5 DEF PublishPrice
<1>6. ASSUME Resync
      PROVE  /\ pc = "idle" /\ UNCHANGED <<applied, price, Untouched>>
             /\ \/ Rebuild({})
                \/ plan' = SnapshotOf({}) /\ op' = "pending" /\ UNCHANGED <<plan, status>>
  <2>1. UNCHANGED <<price, Untouched, applied>> /\ pc = "idle"
    BY <1>6 DEF Resync, edits
  <2>2. CASE SnapshotOf({}) = plan
    BY <1>6, <2>1, <2>2 DEF Resync
  <2>3. CASE SnapshotOf({}) # plan
    BY <1>6, <2>1, <2>3 DEF Resync
  <2> QED
    BY <2>2, <2>3
<1> QED
  BY <1>1, <1>2, <1>3, <1>4, <1>5, <1>6 DEF Mutation

\* Administrators leave configuration, plan and records alone.
LEMMA OutsideEffect ==
    ASSUME TypeOK, Outside
    PROVE  /\ UNCHANGED <<desired, edits, latest, plan, progress, applied, status, binding,
                          ratio, entries, pc, local>>
           /\ faults' # faults
           /\ \/ UNCHANGED channels
              \/ Controls \cap {"stop", "delete"} # {} /\ (pc = "idle" \/ EditsDuringRuns)
<1>1. ASSUME Administrator PROVE faults' # faults /\ (pc = "idle" \/ EditsDuringRuns)
  BY <1>1 DEF Administrator, Fault, TypeOK
<1>2. ASSUME NEW r \in Relations, StopByHand(r) \/ StartByHand(r) \/ DeleteChannel(r)
      PROVE  /\ UNCHANGED <<desired, edits, latest, plan, progress, applied, status, binding,
                            ratio, entries, pc, local>>
             /\ Administrator
  BY <1>2 DEF StopByHand, StartByHand, DeleteChannel, options
<1>3. ASSUME NEW value \in 0 .. 2, SetUnmanaged(value)
      PROVE  /\ UNCHANGED <<desired, edits, latest, plan, progress, applied, status, binding,
                            ratio, entries, pc, local>>
             /\ Administrator /\ UNCHANGED channels
  BY <1>3 DEF SetUnmanaged
<1> QED
  BY <1>1, <1>2, <1>3 DEF Outside

\* A run that fails or dies is over; only its operation's records change.
LEMMA TroubleEffect ==
    ASSUME Trouble
    PROVE  /\ UNCHANGED <<desired, edits, latest, plan, applied, binding, channels, options>>
           /\ pc # "idle" /\ pc' = "idle"
           /\ op' = op \/ op' \in {"retryable_failed", "uncertain", "manual_required"}
           /\ \A r \in Relations : status'[r] = "active" => status[r] = "active"
<1>1. ASSUME NEW kind, Fail(kind)
      PROVE  /\ UNCHANGED <<desired, edits, latest, plan, applied, binding, channels, options>>
             /\ pc # "idle" /\ pc' = "idle"
             /\ op' \in {"retryable_failed", "uncertain", "manual_required"}
             /\ \A r \in Relations : status'[r] = "active" => status[r] = "active"
  BY <1>1 DEF Fail, Stop, FailOperation
<1>2. ASSUME Crash
      PROVE  /\ UNCHANGED <<desired, edits, latest, plan, applied, binding, channels, options>>
             /\ pc # "idle" /\ pc' = "idle" /\ op' = op /\ status' = status
  BY <1>2 DEF Crash, Stop, progress
<1> QED
  BY <1>1, <1>2 DEF Trouble

\* So is one that stops by itself, at a manual lock or a disagreement.
LEMMA EndEffect ==
    ASSUME Disagree \/ \E r \in todo : ManualLock(r)
    PROVE  /\ UNCHANGED <<desired, edits, latest, plan, applied, binding, channels, options>>
           /\ pc' = "idle"
           /\ op' \in {"retryable_failed", "uncertain", "manual_required"}
           /\ \A r \in Relations : status'[r] = "active" => status[r] = "active"
BY DEF Disagree, ManualLock, Stop, FailOperation

-----------------------------------------------------------------------------
(* Prices.                                                                   *)

\* Control states in which channels may be opened, and those after them.
Opening == {"apply", "write", "written", "test", "settle", "entries", "final"}

\* The newest plan has the newest price; a run that opens channels has found it
\* in New API.
PriceInv ==
    /\ plan.price = price
    /\ AppliedIsServed
    /\ pc \in Opening => applied

LEMMA PriceStep == TypeOK /\ PriceInv /\ [Next]_vars => PriceInv'
<1> SUFFICES ASSUME TypeOK, PriceInv, [Next]_vars PROVE PriceInv'
  OBVIOUS
<1> USE DEF PriceInv, AppliedIsServed, Opening
<1>1. ASSUME Mutation PROVE PriceInv'
  <2>1. plan'.price = price'
    BY <1>1, MutationEffect DEF SnapshotOf
  <2>2. UNCHANGED <<pc, ratio>> /\ pc = "idle"
    BY <1>1, MutationEffect DEF Untouched, options
  <2>3. applied' = FALSE \/ (applied' = applied /\ price' = price)
    BY <1>1, MutationEffect
  <2> QED
    BY <2>1, <2>2, <2>3
<1>2. CASE Outside
  BY <1>2, OutsideEffect DEF edits
<1>3. ASSUME Run PROVE PriceInv'
  <2> USE DEF edits, options
  <2>1. CASE Begin
    BY <2>1 DEF Begin
  <2>2. ASSUME NEW r \in todo, StopChannel(r) \/ ConfirmAbsent(r) PROVE PriceInv'
    BY <2>2 DEF StopChannel, ConfirmAbsent, ConfirmResource
  <2>3. CASE ConfirmStop \/ ReadPrices
    BY <2>3 DEF ConfirmStop, ReadPrices, ConfirmResource
  <2>4. CASE SetGroupRatios
    BY <2>4 DEF SetGroupRatios
  <2>5. CASE ConfirmPrices
    BY <2>5 DEF ConfirmPrices
  <2>6. ASSUME NEW r \in todo, Look(r) PROVE PriceInv'
    BY <2>6 DEF Look
  <2>7. CASE WriteChannel \/ BindWritten \/ BindFound
    BY <2>7 DEF WriteChannel, BindWritten, BindFound
  <2>8. CASE Enable \/ ConfirmApplied
    BY <2>8 DEF Enable, ConfirmApplied
  <2>9. CASE ReadEntries \/ SetEntries
    BY <2>9 DEF ReadEntries, SetEntries
  <2>10. CASE Complete
    BY <2>10 DEF Complete, Stop
  <2>11. CASE Disagree \/ \E r \in todo : ManualLock(r)
    BY <2>11, EndEffect
  <2> QED
    BY <1>3, <2>1, <2>2, <2>3, <2>4, <2>5, <2>6, <2>7, <2>8, <2>9, <2>10, <2>11 DEF Run
<1>4. CASE Trouble
  BY <1>4, TroubleEffect DEF edits, options
<1>5. CASE UNCHANGED vars
  BY <1>5 DEF vars, edits, options
<1> QED
  BY <1>1, <1>2, <1>3, <1>4, <1>5 DEF Next

LEMMA PriceInit == Init => PriceInv
BY DEF Init, PriceInv, AppliedIsServed, Opening

\* The newest price version is marked applied only while New API charges it,
\* whatever fails and whatever the administrators edit meanwhile.
THEOREM AppliedPriceIsServed == Spec => []AppliedIsServed
<1>1. TypeOK /\ PriceInv /\ [Next]_vars => PriceInv'
  BY PriceStep
<1>2. PriceInv => AppliedIsServed
  BY DEF PriceInv
<1> QED
  BY <1>1, <1>2, PriceInit, TypeCorrect, PTL DEF Spec

\* A channel is opened by an administrator, or by Enable.
LEMMA OnlyEnableOpens ==
    ASSUME TypeOK, [Next]_vars, NEW r \in Relations, Opens(r)
    PROVE  Enable
<1> USE DEF Opens
<1>1. CASE Mutation
  BY <1>1, MutationEffect DEF Untouched, channels
<1>2. CASE Outside
  BY <1>2, OutsideEffect
<1>3. ASSUME Run PROVE Enable
  <2> USE DEF channels
  <2>1. CASE Begin
    BY <2>1 DEF Begin
  <2>2. ASSUME NEW q \in todo, StopChannel(q) \/ ConfirmAbsent(q) PROVE FALSE
    <3>1. CASE StopChannel(q)
      BY <3>1 DEF StopChannel, TypeOK
    <3>2. CASE ConfirmAbsent(q)
      BY <3>2 DEF ConfirmAbsent, TypeOK
    <3> QED
      BY <2>2, <3>1, <3>2
  <2>3. CASE ConfirmStop \/ ReadPrices \/ SetGroupRatios \/ ConfirmPrices
    BY <2>3 DEF ConfirmStop, ReadPrices, SetGroupRatios, ConfirmPrices
  <2>4. ASSUME NEW q \in todo, Look(q) PROVE FALSE
    BY <2>4 DEF Look
  <2>5. CASE WriteChannel
    BY <2>5 DEF WriteChannel, TypeOK
  <2>6. CASE BindWritten \/ BindFound \/ ConfirmApplied
    BY <2>6 DEF BindWritten, BindFound, ConfirmApplied
  <2>7. CASE ReadEntries \/ SetEntries \/ Complete
    BY <2>7 DEF ReadEntries, SetEntries, Complete
  <2>8. CASE Disagree \/ \E q \in todo : ManualLock(q)
    BY <2>8, EndEffect
  <2> QED
    BY <1>3, <2>1, <2>2, <2>3, <2>4, <2>5, <2>6, <2>7, <2>8 DEF Run
<1>4. CASE Trouble
  BY <1>4, TroubleEffect DEF channels
<1>5. CASE UNCHANGED vars
  BY <1>5 DEF vars, channels
<1> QED
  BY <1>1, <1>2, <1>3, <1>4, <1>5 DEF Next

\* No run opens a channel before New API charges the plan's price and the price
\* version says so.
THEOREM PricesComeFirst == Spec => PricedBeforeOpened
<1>1. ASSUME TypeOK, PriceInv, [Next]_vars, NEW r \in Relations, Opens(r)
      PROVE  ratio = price /\ applied
  <2>1. pc = "test"
    BY <1>1, OnlyEnableOpens DEF Enable
  <2> QED
    BY <1>1, <2>1 DEF PriceInv, Opening, AppliedIsServed
<1>2. TypeOK /\ PriceInv /\ [Next]_vars
        => [\A r \in Relations : Opens(r) => ratio = price /\ applied]_vars
  BY <1>1
<1>3. TypeOK /\ PriceInv /\ [Next]_vars => PriceInv'
  BY PriceStep
<1> QED
  BY <1>2, <1>3, PriceInit, TypeCorrect, PTL DEF Spec, PricedBeforeOpened
-----------------------------------------------------------------------------
(* The order of a run's phases.                                               *)

\* Nobody stops or deletes channels in New API while a run is going on.
Quiet == EditsDuringRuns => Controls \cap {"stop", "delete"} = {}

\* A channel the plan does not want is stopped, or is still to be and is as the
\* run read it; once the shutdowns are done, it is stopped.
StopInv ==
    /\ pc \in {"stop", "stopped"} =>
          \A q \in Relations \ plan.want :
             chan[q] # "enabled" \/ (q \in todo /\ seen.chan[q] = chan[q])
    /\ pc \in {"prices", "priced"} \cup Opening =>
          \A q \in Relations \ plan.want : chan[q] # "enabled"

LEMMA StopStep == ASSUME Quiet PROVE TypeOK /\ StopInv /\ [Next]_vars => StopInv'
<1> SUFFICES ASSUME TypeOK, StopInv, [Next]_vars PROVE StopInv'
  OBVIOUS
<1> USE DEF StopInv, Opening
<1>1. ASSUME Mutation PROVE StopInv'
  BY <1>1, MutationEffect DEF Untouched
<1>2. ASSUME Outside PROVE StopInv'
  BY <1>2, OutsideEffect DEF Quiet, channels, local
<1>3. ASSUME Run PROVE StopInv'
  <2> USE DEF edits, progress, binding, channels, options
  <2>1. CASE Begin
    BY <2>1 DEF Begin, Actual
  <2>2. ASSUME NEW r \in todo, StopChannel(r) PROVE StopInv'
    BY <2>2 DEF StopChannel, TypeOK
  <2>3. ASSUME NEW r \in todo, ConfirmAbsent(r) PROVE StopInv'
    BY <2>3 DEF ConfirmAbsent, ConfirmResource, TypeOK
  <2>4. CASE ConfirmStop
    BY <2>4 DEF ConfirmStop, ConfirmResource, TypeOK
  <2>5. CASE ReadPrices
    BY <2>5 DEF ReadPrices
  <2>6. CASE SetGroupRatios
    BY <2>6 DEF SetGroupRatios
  <2>7. CASE ConfirmPrices
    BY <2>7 DEF ConfirmPrices, Resources, TypeOK
  <2>8. ASSUME NEW r \in todo, Look(r) PROVE StopInv'
    BY <2>8 DEF Look
  <2>9. CASE WriteChannel
    BY <2>9 DEF WriteChannel, TypeOK
  <2>10. CASE BindWritten \/ BindFound
    BY <2>10 DEF BindWritten, BindFound
  <2>11. CASE Enable
    BY <2>11 DEF Enable, TypeOK
  <2>12. CASE ConfirmApplied
    BY <2>12 DEF ConfirmApplied, ConfirmResource, TypeOK
  <2>13. CASE ReadEntries \/ SetEntries
    BY <2>13 DEF ReadEntries, SetEntries
  <2>14. CASE Complete
    BY <2>14 DEF Complete, Stop
  <2>15. CASE Disagree \/ \E r \in todo : ManualLock(r)
    BY <2>15, EndEffect
  <2> QED
    BY <1>3, <2>1, <2>2, <2>3, <2>4, <2>5, <2>6, <2>7, <2>8, <2>9, <2>10, <2>11, <2>12,
       <2>13, <2>14, <2>15 DEF Run
<1>4. CASE Trouble
  BY <1>4, TroubleEffect DEF channels, edits, options
<1>5. CASE UNCHANGED vars
  BY <1>5 DEF vars, edits, progress, channels, options, binding, local
<1> QED
  BY <1>1, <1>2, <1>3, <1>4, <1>5 DEF Next

LEMMA StopInit == Init => StopInv
BY DEF Init, StopInv, Opening

\* No run opens a channel while one that the plan stops still serves.
THEOREM StopsComeFirst == ASSUME Quiet PROVE Spec => StopsFirst
<1>1. ASSUME TypeOK, StopInv, [Next]_vars, NEW r \in Relations, Opens(r)
      PROVE  \A q \in Relations \ plan.want : chan[q] # "enabled"
  <2>1. pc = "test"
    BY <1>1, OnlyEnableOpens DEF Enable
  <2> QED
    BY <1>1, <2>1 DEF StopInv, Opening
<1>2. TypeOK /\ StopInv /\ [Next]_vars
        => [\A r \in Relations : Opens(r) =>
               \A q \in Relations \ plan.want : chan[q] # "enabled"]_vars
  BY <1>1
<1>3. TypeOK /\ StopInv /\ [Next]_vars => StopInv'
  BY StopStep
<1> QED
  BY <1>2, <1>3, StopInit, TypeCorrect, PTL DEF Spec, StopsFirst

\* Wanted channels that the run is done with are as planned.
Applying == {"apply", "write", "written", "test", "settle"}

ServedInv ==
    /\ pc \in Applying => \A r \in plan.want \ todo : AsPlanned(r)
    /\ pc \in Applying \ {"apply"} => cur \in todo
    /\ pc \in {"entries", "final"} => \A r \in plan.want : AsPlanned(r)

LEMMA ServedStep == ASSUME Quiet PROVE TypeOK /\ ServedInv /\ [Next]_vars => ServedInv'
<1> SUFFICES ASSUME TypeOK, ServedInv, [Next]_vars PROVE ServedInv'
  OBVIOUS
<1> USE DEF ServedInv, Applying, AsPlanned
<1>1. ASSUME Mutation PROVE ServedInv'
  BY <1>1, MutationEffect DEF Untouched
<1>2. ASSUME Outside PROVE ServedInv'
  BY <1>2, OutsideEffect DEF Quiet, channels, local
<1>3. ASSUME Run PROVE ServedInv'
  <2> USE DEF edits, progress, binding, channels, options
  <2>1. CASE Begin
    BY <2>1 DEF Begin, Actual
  <2>2. ASSUME NEW r \in todo, StopChannel(r) PROVE ServedInv'
    BY <2>2 DEF StopChannel, TypeOK
  <2>3. ASSUME NEW r \in todo, ConfirmAbsent(r) PROVE ServedInv'
    BY <2>3 DEF ConfirmAbsent, ConfirmResource, TypeOK
  <2>4. CASE ConfirmStop
    BY <2>4 DEF ConfirmStop, ConfirmResource, TypeOK
  <2>5. CASE ReadPrices
    BY <2>5 DEF ReadPrices
  <2>6. CASE SetGroupRatios
    BY <2>6 DEF SetGroupRatios
  <2>7. CASE ConfirmPrices
    BY <2>7 DEF ConfirmPrices, Resources, TypeOK
  <2>8. ASSUME NEW r \in todo, Look(r) PROVE ServedInv'
    BY <2>8 DEF Look
  <2>9. CASE WriteChannel
    BY <2>9 DEF WriteChannel, TypeOK
  <2>10. CASE BindWritten \/ BindFound
    BY <2>10 DEF BindWritten, BindFound
  <2>11. CASE Enable
    <3>1. cur \in todo /\ UNCHANGED <<plan, conf, todo, cur>> /\ pc = "test" /\ pc' = "settle"
      BY <2>11 DEF Enable, local
    <3>2. \A r \in Relations \ {cur} : chan'[r] = chan[r]
      BY <2>11 DEF Enable, TypeOK
    <3>3. \A r \in plan.want \ todo : r \in Relations \ {cur}
      BY <3>1 DEF TypeOK
    <3> QED
      BY <3>1, <3>2, <3>3
  <2>12. CASE ConfirmApplied
    BY <2>12 DEF ConfirmApplied, ConfirmResource, TypeOK
  <2>13. CASE ReadEntries \/ SetEntries
    BY <2>13 DEF ReadEntries, SetEntries
  <2>14. CASE Complete
    BY <2>14 DEF Complete, Stop
  <2>15. CASE Disagree \/ \E r \in todo : ManualLock(r)
    BY <2>15, EndEffect
  <2> QED
    BY <1>3, <2>1, <2>2, <2>3, <2>4, <2>5, <2>6, <2>7, <2>8, <2>9, <2>10, <2>11, <2>12,
       <2>13, <2>14, <2>15 DEF Run
<1>4. CASE Trouble
  BY <1>4, TroubleEffect DEF channels, edits, options
<1>5. CASE UNCHANGED vars
  BY <1>5 DEF vars, edits, progress, channels, options, binding, local
<1> QED
  BY <1>1, <1>2, <1>3, <1>4, <1>5 DEF Next

LEMMA ServedInit == Init => ServedInv
BY DEF Init, ServedInv, Applying

\* A group becomes selectable only when its own channel serves at the plan's
\* price.
THEOREM EntriesComeLast == ASSUME Quiet PROVE Spec => EntryAfterChannel
<1>1. ASSUME TypeOK, PriceInv, ServedInv, [Next]_vars, NEW r \in entries' \ entries
      PROVE  AsPlanned(r) /\ ratio = price
  <2>1. SetEntries
    <3>1. CASE Mutation
      BY <1>1, <3>1, MutationEffect DEF Untouched, options
    <3>2. CASE Outside
      BY <1>1, <3>2, OutsideEffect
    <3>3. CASE Trouble
      BY <1>1, <3>3, TroubleEffect DEF options
    <3>4. CASE UNCHANGED vars
      BY <1>1, <3>4 DEF vars, options
    <3>5. ASSUME Run PROVE SetEntries
      <4>1. entries' = entries \/ SetEntries
        BY <3>5, EndEffect
        DEF Run, Begin, StopChannel, ConfirmAbsent, ConfirmStop, ReadPrices, SetGroupRatios,
            ConfirmPrices, Look, WriteChannel, BindWritten, BindFound, Enable,
            ConfirmApplied, ReadEntries, Complete, ConfirmResource, options
      <4> QED
        BY <1>1, <4>1
    <3> QED
      BY <1>1, <3>1, <3>2, <3>3, <3>4, <3>5 DEF Next
  <2>2. pc = "entries" /\ r \in plan.want
    BY <1>1, <2>1 DEF SetEntries
  <2> QED
    BY <1>1, <2>2 DEF PriceInv, Opening, AppliedIsServed, ServedInv
<1>2. TypeOK /\ PriceInv /\ ServedInv /\ [Next]_vars
        => [\A r \in entries' \ entries : AsPlanned(r) /\ ratio = price]_vars
  BY <1>1
<1>3. TypeOK /\ PriceInv /\ [Next]_vars => PriceInv'
  BY PriceStep
<1>4. TypeOK /\ ServedInv /\ [Next]_vars => ServedInv'
  BY ServedStep
<1> QED
  BY <1>2, <1>3, <1>4, PriceInit, ServedInit, TypeCorrect, PTL DEF Spec, EntryAfterChannel
-----------------------------------------------------------------------------
(* What is recorded.                                                         *)

\* Nobody stops or deletes channels in New API at all.
Undisturbed == Controls \cap {"stop", "delete"} = {}

\* Relations are shown as active one by one, as the run is done with them, and
\* an operation is shown as succeeded only between runs.
RecordInv ==
    /\ ActiveIsTrue
    /\ pc \in {"stop", "stopped"} => todo \cap plan.want = {}
    /\ pc = "stopped" => cur \in todo
    /\ pc \in {"stop", "stopped", "prices", "priced"} =>
          \A r \in plan.want : status[r] # "active"
    /\ pc \in Applying => \A r \in plan.want \cap todo : status[r] # "active"
    /\ pc # "idle" => op = "running"
    /\ SuccessIsTrue

LEMMA RecordStep ==
    ASSUME Undisturbed PROVE TypeOK /\ StopInv /\ ServedInv /\ RecordInv /\ [Next]_vars => RecordInv'
<1> SUFFICES ASSUME TypeOK, StopInv, ServedInv, RecordInv, [Next]_vars PROVE RecordInv'
  OBVIOUS
<1> USE DEF RecordInv, ServedInv, Applying, ActiveIsTrue, SuccessIsTrue, AsPlanned
<1>1. ASSUME Mutation PROVE RecordInv'
  <2>1. /\ pc = "idle" /\ pc' = "idle"
        /\ UNCHANGED <<channels, options>>
        /\ \/ UNCHANGED <<plan, status>> /\ op' \in {op, "pending"}
           \/ op' = "pending" /\ status' = [r \in Relations |-> "pending"]
    BY <1>1, MutationEffect DEF Untouched
  <2> QED
    BY <2>1 DEF channels, options
<1>2. ASSUME Outside PROVE RecordInv'
  <2>1. UNCHANGED <<plan, progress, status, ratio, entries, pc, local, channels>>
    BY <1>2, OutsideEffect DEF Undisturbed
  <2> QED
    BY <2>1 DEF progress, local, channels
<1>3. ASSUME Run PROVE RecordInv'
  <2> USE DEF edits, progress, binding, channels, options
  <2>1. CASE Begin
    BY <2>1 DEF Begin, TypeOK
  <2>2. ASSUME NEW r \in todo, StopChannel(r) PROVE RecordInv'
    BY <2>2 DEF StopChannel, TypeOK
  <2>3. ASSUME NEW r \in todo, ConfirmAbsent(r) PROVE RecordInv'
    BY <2>3 DEF ConfirmAbsent, ConfirmResource, TypeOK, StopInv
  <2>4. CASE ConfirmStop
    BY <2>4 DEF ConfirmStop, ConfirmResource, TypeOK
  <2>5. CASE ReadPrices
    BY <2>5 DEF ReadPrices
  <2>6. CASE SetGroupRatios
    BY <2>6 DEF SetGroupRatios
  <2>7. CASE ConfirmPrices
    BY <2>7 DEF ConfirmPrices, Resources, TypeOK
  <2>8. ASSUME NEW r \in todo, Look(r) PROVE RecordInv'
    BY <2>8 DEF Look
  <2>9. CASE WriteChannel
    BY <2>9 DEF WriteChannel, TypeOK
  <2>10. CASE BindWritten \/ BindFound
    BY <2>10 DEF BindWritten, BindFound
  <2>11. CASE Enable
    <3>1. /\ cur \in todo /\ pc = "test" /\ pc' = "settle" /\ op = "running"
          /\ UNCHANGED <<plan, conf, todo, cur, status, op>>
      BY <2>11 DEF Enable, local
    <3>2. \A r \in Relations \ {cur} : chan'[r] = chan[r]
      BY <2>11 DEF Enable, TypeOK
    <3>3. cur \in plan.want => status[cur] # "active"
      BY <3>1
    <3>4. cur \notin plan.want => chan' = chan
      BY <2>11 DEF Enable
    <3>5. plan.want \subseteq Relations
      BY DEF TypeOK
    <3>6. ActiveIsTrue'
      BY <3>1, <3>2, <3>3, <3>4
    <3>7. \A r \in plan'.want \cap todo' : status'[r] # "active"
      BY <3>1
    <3> QED
      BY <3>1, <3>6, <3>7
  <2>12. CASE ConfirmApplied
    BY <2>12 DEF ConfirmApplied, ConfirmResource, TypeOK
  <2>13. CASE ReadEntries \/ SetEntries
    BY <2>13 DEF ReadEntries, SetEntries
  <2>14. CASE Complete
    <3>1. /\ Verified /\ pc' = "idle" /\ op' = "succeeded"
          /\ UNCHANGED <<plan, status, chan, conf, ratio, entries>>
      BY <2>14 DEF Complete, Stop
    <3>2. ActiveIsTrue'
      BY <3>1
    <3>3. SuccessIsTrue'
      BY <3>1 DEF Verified
    <3> QED
      BY <3>1, <3>2, <3>3
  <2>15. CASE Disagree \/ \E r \in todo : ManualLock(r)
    BY <2>15, EndEffect
  <2> QED
    BY <1>3, <2>1, <2>2, <2>3, <2>4, <2>5, <2>6, <2>7, <2>8, <2>9, <2>10, <2>11, <2>12,
       <2>13, <2>14, <2>15 DEF Run
<1>4. CASE Trouble
  BY <1>4, TroubleEffect DEF channels, edits, options
<1>5. CASE UNCHANGED vars
  BY <1>5 DEF vars, edits, progress, channels, options, binding, local
<1> QED
  BY <1>1, <1>2, <1>3, <1>4, <1>5 DEF Next

LEMMA RecordInit == Init => RecordInv
BY DEF Init, RecordInv, ActiveIsTrue, SuccessIsTrue, Applying
\* The operations, the relations and the gateway, together under a quiet gateway.
LEMMA RecordsHold ==
    ASSUME Undisturbed PROVE Spec => [](RecordInv /\ StopInv /\ ServedInv /\ TypeOK)
<1>1. Quiet
  BY DEF Undisturbed, Quiet
<1>2. TypeOK /\ StopInv /\ [Next]_vars => StopInv'
  BY <1>1, StopStep
<1>3. TypeOK /\ ServedInv /\ [Next]_vars => ServedInv'
  BY <1>1, ServedStep
<1>4. TypeOK /\ StopInv /\ ServedInv /\ RecordInv /\ [Next]_vars => RecordInv'
  BY RecordStep
<1> QED
  BY <1>2, <1>3, <1>4, StopInit, ServedInit, RecordInit, TypeCorrect, PTL DEF Spec

\* A relation shown as active is on the gateway as the newest plan wants it,
\* also when the run that confirmed it failed later.
THEOREM ActiveRelationsAreServed == ASSUME Undisturbed PROVE Spec => []ActiveIsTrue
<1>1. RecordInv => ActiveIsTrue
  BY DEF RecordInv
<1> QED
  BY <1>1, RecordsHold, PTL

\* After a success New API is what the newest plan says.
THEOREM SucceededPlansAreServed == ASSUME Undisturbed PROVE Spec => []SuccessIsTrue
<1>1. RecordInv => SuccessIsTrue
  BY DEF RecordInv
<1> QED
  BY <1>1, RecordsHold, PTL

-----------------------------------------------------------------------------
(* Credentials, which New API never shows.                                   *)

\* The credential a plan carries only grows while no rotation is cancelled, and
\* the key in a channel lies between the one confirmed last and the plan's.
KeyInv ==
    /\ \A r \in Relations :
          /\ plan.cred[r] = IF pending[r] # 0 THEN pending[r] ELSE current[r]
          /\ current[r] <= made[r] /\ pending[r] <= made[r]
          /\ keyed[r] <= plan.cred[r]
          /\ chan[r] # "absent" => keyed[r] <= key[r] /\ key[r] <= plan.cred[r]
    /\ pc \in {"written", "test", "settle"} =>
          IF wrote THEN chan[cur] # "absent" => key[cur] = plan.cred[cur]
                   ELSE keyed[cur] = plan.cred[cur]
    /\ pc = "written" => wrote
    /\ pc \in Applying => \A r \in plan.want \ todo : keyed[r] = plan.cred[r]
    /\ pc \in {"entries", "final"} => \A r \in plan.want : keyed[r] = plan.cred[r]
    /\ pc # "idle" => op = "running"
    /\ RunsOnPlannedKey

\* Without cancellations a mutation only adds credentials, as candidates.
LEMMA CredentialsGrow ==
    ASSUME TypeOK, "cancel" \notin Controls, Mutation
    PROVE  /\ current' = current
           /\ \A r \in Relations :
                 \/ pending'[r] = pending[r] /\ made'[r] = made[r]
                 \/ pending'[r] = made[r] + 1 /\ made'[r] = made[r] + 1
<1>1. ASSUME NEW q \in Relations, RotateCredential(q)
      PROVE  /\ current' = current
             /\ \A r \in Relations :
                   \/ pending'[r] = pending[r] /\ made'[r] = made[r]
                   \/ pending'[r] = made[r] + 1 /\ made'[r] = made[r] + 1
  BY <1>1 DEF RotateCredential, TypeOK
<1>2. ASSUME NEW r \in Relations, NEW target \in Target, NEW resume \in BOOLEAN,
             SetRelation(r, target, resume)
      PROVE  UNCHANGED <<current, pending, made>>
  BY <1>2 DEF SetRelation, edits
<1>3. ASSUME NEW r \in Relations, Hold(r) \/ Recover(r) \/ EditSupplier(r)
      PROVE  UNCHANGED <<current, pending, made>>
  BY <1>3 DEF Hold, Recover, EditSupplier
<1>4. ASSUME PublishPrice PROVE UNCHANGED <<current, pending, made>>
  BY <1>4 DEF PublishPrice
<1>5. ASSUME Resync PROVE UNCHANGED <<current, pending, made>>
  BY <1>5 DEF Resync, edits
<1> QED
  BY <1>1, <1>2, <1>3, <1>4, <1>5 DEF Mutation

LEMMA KeyStep ==
    ASSUME Quiet, "cancel" \notin Controls
    PROVE  TypeOK /\ ServedInv /\ KeyInv /\ [Next]_vars => KeyInv'
<1> SUFFICES ASSUME TypeOK, ServedInv, KeyInv, [Next]_vars PROVE KeyInv'
  OBVIOUS
<1> USE DEF KeyInv, Applying, RunsOnPlannedKey
<1>1. ASSUME Mutation PROVE KeyInv'
  <2>1. /\ pc = "idle" /\ pc' = "idle"
        /\ UNCHANGED <<keyed, chan, key>>
        /\ \/ plan' = plan /\ op' \in {op, "pending"}
           \/ op' = "pending"
    BY <1>1, MutationEffect DEF Untouched, binding, channels
  <2>2. \A r \in Relations :
           plan'.cred[r] = IF pending'[r] # 0 THEN pending'[r] ELSE current'[r]
    BY <1>1, MutationEffect DEF SnapshotOf
  <2>3. \A r \in Relations :
           /\ current[r] \in Nat /\ pending[r] \in Nat /\ made[r] \in Nat
           /\ keyed[r] \in Nat /\ key[r] \in Nat /\ plan.cred[r] \in Nat
    BY BoundsAssumption DEF TypeOK
  <2>4. \A r \in Relations :
           /\ plan.cred[r] <= plan'.cred[r] /\ plan'.cred[r] \in Nat
           /\ current'[r] <= made'[r] /\ pending'[r] <= made'[r]
    BY <1>1, <2>2, <2>3, CredentialsGrow
  <2>5. \A r \in Relations :
           /\ keyed'[r] <= plan'.cred[r]
           /\ chan'[r] # "absent" => keyed'[r] <= key'[r] /\ key'[r] <= plan'.cred[r]
    BY <2>1, <2>3, <2>4
  <2>6. RunsOnPlannedKey'
    BY <2>1
  <2> QED
    BY <2>1, <2>2, <2>4, <2>5, <2>6
<1>2. ASSUME Outside PROVE KeyInv'
  <2>1. /\ UNCHANGED <<plan, op, pc, pending, current, made, keyed, todo, cur, wrote>>
        /\ UNCHANGED channels \/ pc = "idle"
    BY <1>2, OutsideEffect DEF Quiet, edits, progress, binding, local
  <2>2. \A r \in Relations : chan'[r] # "absent" => chan[r] # "absent" /\ key'[r] = key[r]
    <3>1. ASSUME NEW q \in Relations, StopByHand(q) \/ StartByHand(q) \/ DeleteChannel(q)
          PROVE  \A r \in Relations :
                    chan'[r] # "absent" => chan[r] # "absent" /\ key'[r] = key[r]
      BY <3>1 DEF StopByHand, StartByHand, DeleteChannel, TypeOK
    <3>2. ASSUME NEW value \in 0 .. 2, SetUnmanaged(value) PROVE UNCHANGED channels
      BY <3>2 DEF SetUnmanaged
    <3> QED
      BY <1>2, <3>1, <3>2 DEF Outside, channels
  <2>3. RunsOnPlannedKey'
    BY <2>1, <2>2 DEF TypeOK
  <2>4. UNCHANGED channels => KeyInv'
    BY <2>1, <2>3 DEF channels
  <2>5. pc = "idle" => KeyInv'
    BY <2>1, <2>2, <2>3
  <2> QED
    BY <2>1, <2>4, <2>5
<1>3. ASSUME Run PROVE KeyInv'
  <2> USE DEF edits, progress, binding, channels, options
  <2>1. CASE Begin
    BY <2>1 DEF Begin, Actual
  <2>2. ASSUME NEW r \in todo, StopChannel(r) PROVE KeyInv'
    BY <2>2 DEF StopChannel, TypeOK
  <2>3. ASSUME NEW r \in todo, ConfirmAbsent(r) PROVE KeyInv'
    BY <2>3 DEF ConfirmAbsent, ConfirmResource, TypeOK
  <2>4. CASE ConfirmStop
    BY <2>4 DEF ConfirmStop, ConfirmResource, TypeOK
  <2>5. CASE ReadPrices
    BY <2>5 DEF ReadPrices
  <2>6. CASE SetGroupRatios
    BY <2>6 DEF SetGroupRatios
  <2>7. CASE ConfirmPrices
    BY <2>7 DEF ConfirmPrices, Resources, TypeOK
  <2>8. ASSUME NEW r \in todo, Look(r) PROVE KeyInv'
    BY <2>8 DEF Look
  <2>9. CASE WriteChannel
    BY <2>9 DEF WriteChannel, TypeOK
  <2>10. CASE BindWritten \/ BindFound
    <3>1. CASE BindWritten
      BY <3>1 DEF BindWritten
    <3>2. CASE BindFound
      BY <3>2 DEF BindFound, NeedsWrite
    <3> QED
      BY <2>10, <3>1, <3>2
  <2>11. CASE Enable
    <3>1. /\ pc = "test" /\ pc' = "settle"
          /\ UNCHANGED <<plan, op, keyed, key, todo, cur, wrote, pending, current, made>>
      BY <2>11 DEF Enable, local
    <3>2. \A r \in Relations : chan'[r] # "absent" => chan[r] # "absent"
      BY <2>11 DEF Enable, TypeOK
    <3>3. plan.want \subseteq Relations /\ cur \in Relations
      BY DEF TypeOK
    <3> QED
      BY <3>1, <3>2, <3>3
  <2>12. CASE ConfirmApplied
    BY <2>12 DEF ConfirmApplied, ConfirmResource, TypeOK
  <2>13. CASE ReadEntries \/ SetEntries
    BY <2>13 DEF ReadEntries, SetEntries
  <2>14. CASE Complete
    <3>1. /\ pc = "final" /\ pc' = "idle" /\ op' = "succeeded"
          /\ UNCHANGED <<plan, keyed, chan, key, made>>
      BY <2>14 DEF Complete, Stop
    <3>2. plan.want \subseteq Relations
      BY DEF TypeOK
    <3>3. \A r \in Relations :
             /\ plan'.cred[r] = IF pending'[r] # 0 THEN pending'[r] ELSE current'[r]
             /\ current'[r] <= made'[r] /\ pending'[r] <= made'[r]
      BY <2>14, <3>1, BoundsAssumption DEF Complete, Promoted, TypeOK
    <3>4. \A r \in plan.want : chan[r] # "absent" => key[r] = plan.cred[r]
      <4>1. ASSUME NEW r \in plan.want, chan[r] # "absent" PROVE key[r] = plan.cred[r]
        <5>1. key[r] \in Nat /\ plan.cred[r] \in Nat
          BY <3>2, BoundsAssumption DEF TypeOK
        <5> QED
          BY <3>1, <3>2, <4>1, <5>1
      <4> QED
        BY <4>1
    <3> QED
      BY <3>1, <3>3, <3>4
  <2>15. CASE Disagree \/ \E r \in todo : ManualLock(r)
    BY <2>15, EndEffect
  <2> QED
    BY <1>3, <2>1, <2>2, <2>3, <2>4, <2>5, <2>6, <2>7, <2>8, <2>9, <2>10, <2>11, <2>12,
       <2>13, <2>14, <2>15 DEF Run
<1>4. CASE Trouble
  BY <1>4, TroubleEffect DEF channels, edits, binding
<1>5. CASE UNCHANGED vars
  BY <1>5 DEF vars, edits, progress, channels, options, binding, local
<1> QED
  BY <1>1, <1>2, <1>3, <1>4, <1>5 DEF Next

LEMMA KeyInit == Init => KeyInv
BY DEF Init, KeyInv, RunsOnPlannedKey, Applying

LEMMA KeysHold ==
    ASSUME Quiet, "cancel" \notin Controls
    PROVE  Spec => [](KeyInv /\ ServedInv /\ TypeOK)
<1>1. TypeOK /\ ServedInv /\ [Next]_vars => ServedInv'
  BY ServedStep
<1>2. TypeOK /\ ServedInv /\ KeyInv /\ [Next]_vars => KeyInv'
  BY KeyStep
<1> QED
  BY <1>1, <1>2, ServedInit, KeyInit, TypeCorrect, PTL DEF Spec

\* While no rotation is cancelled, after a success every wanted channel runs on
\* the plan's credential.
THEOREM PlannedKeysAreUsed ==
    ASSUME Quiet, "cancel" \notin Controls PROVE Spec => []RunsOnPlannedKey
<1>1. KeyInv => RunsOnPlannedKey
  BY DEF KeyInv
<1> QED
  BY <1>1, KeysHold, PTL

\* While no rotation is cancelled, a candidate is promoted only when the
\* supplier's channel already runs on it.
THEOREM PromotedKeysAreUsed ==
    ASSUME Quiet, "cancel" \notin Controls PROVE Spec => PromotedIsInUse
<1>1. ASSUME TypeOK, KeyInv, [Next]_vars, NEW r \in Relations,
             current'[r] # current[r], r \in bound
      PROVE  chan[r] = "absent" \/ key[r] = current'[r]
  <2>1. Complete
    <3>1. CASE Mutation
      BY <1>1, <3>1, CredentialsGrow
    <3>2. CASE Outside
      BY <1>1, <3>2, OutsideEffect DEF edits
    <3>3. CASE Trouble
      BY <1>1, <3>3, TroubleEffect DEF edits
    <3>4. CASE UNCHANGED vars
      BY <1>1, <3>4 DEF vars, edits
    <3>5. ASSUME Run PROVE Complete
      <4>1. current' = current \/ Complete
        BY <3>5, EndEffect
        DEF Run, Begin, StopChannel, ConfirmAbsent, ConfirmStop, ReadPrices, SetGroupRatios,
            ConfirmPrices, Look, WriteChannel, BindWritten, BindFound, Enable,
            ConfirmApplied, ReadEntries, SetEntries, ConfirmResource, edits
      <4> QED
        BY <1>1, <4>1
    <3> QED
      BY <1>1, <3>1, <3>2, <3>3, <3>4, <3>5 DEF Next
  <2>2. pending[r] # 0 /\ keyed[r] = pending[r] /\ current'[r] = pending[r]
    BY <1>1, <2>1 DEF Complete, Promoted, TypeOK
  <2>3. plan.cred[r] = pending[r]
        /\ (chan[r] # "absent" => keyed[r] <= key[r] /\ key[r] <= plan.cred[r])
    BY <1>1, <2>2 DEF KeyInv
  <2>4. key[r] \in Nat /\ pending[r] \in Nat
    BY <1>1, BoundsAssumption DEF TypeOK
  <2> QED
    BY <2>2, <2>3, <2>4
<1>2. TypeOK /\ KeyInv /\ [Next]_vars
        => [\A r \in Relations : current'[r] # current[r] /\ r \in bound =>
               chan[r] = "absent" \/ key[r] = current'[r]]_vars
  BY <1>1
<1> QED
  BY <1>2, KeysHold, PTL DEF Spec, PromotedIsInUse
-----------------------------------------------------------------------------
(* Stops made in New API.                                                    *)

\* An operator answers for every relation the plan does not want; a stop that an
\* administrator answers for is on a channel last confirmed as enabled, which
\* the run does not touch unless the plan resumes it.
AdminInv ==
    /\ held = {}
    /\ \A r \in Relations : desired[r] # "enabled" => r \in halted
    /\ Relations \ plan.want \subseteq halted
    /\ \A r \in Relations : stopper[r] = "admin" =>
          r \notin halted /\ chan[r] = "manual" /\ last[r] = "enabled"
    /\ pc \in {"stop", "stopped"} => todo \cap plan.want = {}
    /\ pc = "stopped" => cur \in todo
    /\ pc \in {"write", "written", "test"} =>
          (stopper[cur] = "admin" => cur \in plan.resume)

LEMMA AdminStep ==
    ASSUME Quiet, "hold" \notin Controls
    PROVE  TypeOK /\ ServedInv /\ AdminInv /\ [Next]_vars => AdminInv'
<1> SUFFICES ASSUME TypeOK, ServedInv, AdminInv, [Next]_vars PROVE AdminInv'
  OBVIOUS
<1> USE DEF AdminInv
<1>1. ASSUME Mutation PROVE AdminInv'
  <2>1. /\ pc = "idle" /\ pc' = "idle" /\ UNCHANGED <<chan, last>>
        /\ \E resume \in SUBSET Relations : plan' = SnapshotOf(resume)
    BY <1>1, MutationEffect DEF Untouched, binding, channels
  <2> DEFINE Decided ==
        /\ held' = {}
        /\ \A q \in Relations : desired'[q] # "enabled" => q \in halted'
        /\ \A q \in Relations : stopper'[q] = "admin" =>
              q \notin halted' /\ stopper[q] = "admin"
  <2>2. Decided
    <3>1. ASSUME NEW r \in Relations, NEW target \in Target, NEW resume \in BOOLEAN,
                 SetRelation(r, target, resume)
          PROVE  Decided
      BY <3>1 DEF SetRelation, edits, TypeOK
    <3>2. ASSUME NEW r \in Relations,
                 EditSupplier(r) \/ RotateCredential(r) \/ CancelCredential(r)
          PROVE  UNCHANGED <<held, desired, halted, stopper>>
      BY <3>2 DEF EditSupplier, RotateCredential, CancelCredential, history
    <3>3. ASSUME PublishPrice \/ Resync PROVE UNCHANGED <<held, desired, halted, stopper>>
      BY <3>3 DEF PublishPrice, Resync, edits, history
    <3> QED
      BY <1>1, <3>1, <3>2, <3>3 DEF Mutation
  <2> QED
    BY <2>1, <2>2 DEF SnapshotOf
<1>2. ASSUME Outside PROVE AdminInv'
  <2>1. /\ UNCHANGED <<desired, held, plan, last, pc, todo, cur>>
        /\ UNCHANGED channels \/ pc = "idle"
    BY <1>2, OutsideEffect DEF Quiet, edits, binding, local
  <2>2. halted' = halted
    <3>1. ASSUME NEW r \in Relations, StopByHand(r) \/ StartByHand(r) \/ DeleteChannel(r)
          PROVE  halted' = halted
      BY <3>1 DEF StopByHand, StartByHand, DeleteChannel
    <3>2. ASSUME NEW value \in 0 .. 2, SetUnmanaged(value) PROVE halted' = halted
      BY <3>2 DEF SetUnmanaged, history
    <3> QED
      BY <1>2, <3>1, <3>2 DEF Outside
  <2> DEFINE Stopped ==
        \A r \in Relations : stopper'[r] = "admin" =>
           r \notin halted /\ chan'[r] = "manual" /\ last[r] = "enabled"
  <2>3. Stopped
    <3>1. ASSUME NEW q \in Relations, StopByHand(q) PROVE Stopped
      BY <3>1 DEF StopByHand, TypeOK
    <3>2. ASSUME NEW q \in Relations, StartByHand(q) \/ DeleteChannel(q) PROVE Stopped
      BY <3>2 DEF StartByHand, DeleteChannel, TypeOK
    <3>3. ASSUME NEW value \in 0 .. 2, SetUnmanaged(value) PROVE Stopped
      BY <3>3 DEF SetUnmanaged, history, channels
    <3> QED
      BY <1>2, <3>1, <3>2, <3>3 DEF Outside
  <2>4. stopper' = stopper \/ pc = "idle"
    <3>1. ASSUME NEW q \in Relations, StopByHand(q) \/ StartByHand(q) \/ DeleteChannel(q),
                 pc # "idle"
          PROVE  FALSE
      <4>1. chan' # chan
        BY <3>1 DEF StopByHand, StartByHand, DeleteChannel, TypeOK
      <4> QED
        BY <2>1, <3>1, <4>1 DEF channels
    <3>2. ASSUME NEW value \in 0 .. 2, SetUnmanaged(value) PROVE stopper' = stopper
      BY <3>2 DEF SetUnmanaged, history
    <3> QED
      BY <1>2, <3>1, <3>2 DEF Outside
  <2> QED
    BY <2>1, <2>2, <2>3, <2>4
<1>3. ASSUME Run PROVE AdminInv'
  <2> USE DEF edits, progress, binding, channels, options, history
  <2>1. CASE Begin
    BY <2>1 DEF Begin, Actual
  <2>2. ASSUME NEW r \in todo, StopChannel(r) PROVE AdminInv'
    BY <2>2 DEF StopChannel, TypeOK
  <2>3. ASSUME NEW r \in todo, ConfirmAbsent(r) PROVE AdminInv'
    BY <2>3 DEF ConfirmAbsent, ConfirmResource, TypeOK
  <2>4. CASE ConfirmStop
    BY <2>4 DEF ConfirmStop, ConfirmResource, TypeOK
  <2>5. CASE ReadPrices
    BY <2>5 DEF ReadPrices
  <2>6. CASE SetGroupRatios
    BY <2>6 DEF SetGroupRatios
  <2>7. CASE ConfirmPrices
    BY <2>7 DEF ConfirmPrices, Resources, TypeOK
  <2>8. ASSUME NEW r \in todo, Look(r) PROVE AdminInv'
    <3>1. /\ pc = "apply" /\ cur' = r /\ r \in Relations
          /\ UNCHANGED <<desired, held, plan, last, chan, halted, stopper>>
      BY <2>8 DEF Look, TypeOK
    <3>2. stopper[r] = "admin" => r \in plan.resume
      BY <2>8, <3>1 DEF Look, Locked
    <3>3. pc' = "write"
      BY <2>8 DEF Look
    <3> QED
      BY <3>1, <3>2, <3>3
  <2>9. CASE WriteChannel
    BY <2>9 DEF WriteChannel, TypeOK
  <2>10. CASE BindWritten \/ BindFound
    BY <2>10 DEF BindWritten, BindFound
  <2>11. CASE Enable
    BY <2>11 DEF Enable, TypeOK
  <2>12. CASE ConfirmApplied
    BY <2>12 DEF ConfirmApplied, ConfirmResource, TypeOK
  <2>13. CASE ReadEntries \/ SetEntries
    BY <2>13 DEF ReadEntries, SetEntries
  <2>14. CASE Complete
    BY <2>14 DEF Complete, Stop
  <2>15. CASE Disagree \/ \E r \in todo : ManualLock(r)
    <3>1. UNCHANGED <<halted, stopper>>
      BY <2>15 DEF Disagree, ManualLock
    <3>2. UNCHANGED <<desired, held, plan, last, chan>> /\ pc' = "idle"
      BY <2>15, EndEffect
    <3> QED
      BY <3>1, <3>2
  <2> QED
    BY <1>3, <2>1, <2>2, <2>3, <2>4, <2>5, <2>6, <2>7, <2>8, <2>9, <2>10, <2>11, <2>12,
       <2>13, <2>14, <2>15 DEF Run
<1>4. ASSUME Trouble PROVE AdminInv'
  <2>1. UNCHANGED <<desired, held, plan, last, chan>> /\ pc' = "idle"
    BY <1>4, TroubleEffect DEF edits, binding, channels
  <2>2. UNCHANGED <<halted, stopper>>
    BY <1>4 DEF Trouble, Fail, Crash, history
  <2> QED
    BY <2>1, <2>2
<1>5. CASE UNCHANGED vars
  BY <1>5 DEF vars, edits, progress, channels, options, binding, local, history
<1> QED
  BY <1>1, <1>2, <1>3, <1>4, <1>5 DEF Next

LEMMA AdminInit == Init => AdminInv
BY DEF Init, AdminInv

\* Without the automation's holds, a channel stopped in New API stays stopped
\* until the operator resumes it or decides about the relation.
THEOREM ManualStopsStand ==
    ASSUME Quiet, "hold" \notin Controls PROVE Spec => AdminStopStands
<1>1. ASSUME TypeOK, AdminInv, [Next]_vars, NEW r \in Relations, Opens(r),
             stopper[r] = "admin"
      PROVE  r \in plan.resume
  <2>1. Enable
    BY <1>1, OnlyEnableOpens
  <2>2. pc = "test" /\ r = cur
    BY <1>1, <2>1 DEF Enable, Opens, TypeOK
  <2> QED
    BY <1>1, <2>2 DEF AdminInv
<1>2. TypeOK /\ AdminInv /\ [Next]_vars
        => [\A r \in Relations : Opens(r) /\ stopper[r] = "admin" => r \in plan.resume]_vars
  BY <1>1
<1>3. TypeOK /\ ServedInv /\ [Next]_vars => ServedInv'
  BY ServedStep
<1>4. TypeOK /\ ServedInv /\ AdminInv /\ [Next]_vars => AdminInv'
  BY AdminStep
<1> QED
  BY <1>2, <1>3, <1>4, ServedInit, AdminInit, TypeCorrect, PTL DEF Spec, AdminStopStands

=============================================================================
