-------------------------- MODULE OperationsProofs --------------------------
(***************************************************************************)
(* Proofs about the operators' mutations and the plans they publish, for   *)
(* every number of sites, clients, request identities, credentials, prices,*)
(* plans and faults.                                                       *)
(***************************************************************************)
EXTENDS Operations, SequenceTheorems, TLAPS

CredentialRow == [key : Nat, version : Nat]
SupplierRow   == [status : Statuses, version : Nat, current : CredentialRow, pending : CredentialRow]
SiteRow       == [status : Statuses, version : Nat]
RelationRow   == [deployed : BOOLEAN, desired : Statuses, version : Nat]
PriceRow      == [status : {"draft", "published", "applied", "superseded"}, basis : Nat]
PlanRow       == [enabled : BOOLEAN, key : Nat, version : Nat, price : Nat, basis : Nat]
ChannelRow    == [bound : BOOLEAN, key : Nat, version : Nat]
RunPlan       == [key : Nat, version : Nat, enabled : BOOLEAN, price : Nat, basis : Nat, available : BOOLEAN]
RunRow        == [pc : {"put", "confirm", "prices", "complete"}, op : Nat, before : ManagedState, plan : RunPlan]
AnswerRow     == [op : Nat \ {0}, expected : ManagedState, left : ManagedState, basis : Nat]
OpStatus      == {"none", "pending", "running", "succeeded", "manual"}

\* The rows of the tables.
RowsTyped ==
    /\ supplier \in SupplierRow
    /\ site \in [Sites -> SiteRow]
    /\ relation \in [Sites -> RelationRow]
    /\ price \in [Sites -> Seq(PriceRow)]
    /\ plan \in [Sites -> Seq(PlanRow)]
    /\ op \in [Sites -> OpStatus]
    /\ channel \in [Sites -> ChannelRow]
    /\ sealed \in Nat

\* New API and the runs.
RunsTyped ==
    /\ gateway \in [Sites -> [state : ManagedState, basis : Nat]]
    /\ answered \in [Sites -> {NoAnswer} \cup AnswerRow]
    /\ run \in [Sites -> {Idle} \cup RunRow]

\* What is deployed has one price in force and was planned; what is not has nothing.
Deployments ==
    \A s \in Sites :
        IF relation[s].deployed
        THEN plan[s] # <<>> /\ \E i \in DOMAIN price[s] : Current(s) = {i}
        ELSE /\ plan[s] = <<>> /\ price[s] = <<>> /\ op[s] = "none"
             /\ ~channel[s].bound /\ channel[s].key = NoCredential

\* Credentials in use are not revoked, and a candidate has a key of its own.
Credentials ==
    /\ revoked \subseteq 1 .. sealed
    /\ supplier.pending.key \in (1 .. sealed) \ revoked
    /\ supplier.current.key \in (1 .. sealed) \ revoked
    /\ Rotating => supplier.pending.key # supplier.current.key
    /\ \A s \in Sites : channel[s].key \in {NoCredential} \cup 1 .. sealed

\* A run works on the newest plan of an enabled site, which has the credential to install.
RunsAreCurrent ==
    \A s \in Sites : Busy(s) =>
        LET p == plan[s][NewestPlan(s)] IN
        /\ relation[s].deployed /\ site[s].status = "enabled"
        /\ run[s].op = NewestPlan(s) /\ run[s].plan.available
        /\ run[s].plan.key = p.key /\ run[s].plan.version = p.version
        /\ run[s].plan.enabled = p.enabled /\ run[s].plan.price = p.price
        /\ op[s] # "succeeded"

\* A state of the gateway that serves a plan.
Serves(state, p) ==
    /\ state.price = p.price
    /\ state.status # "absent" => state.key = p.key
    /\ IF p.enabled THEN state = Managed(NoChannel, p) ELSE state.status \in {"absent", "stopped"}

\* The gateway is where the operation it remembers left it.
AnswersServe ==
    \A s \in Sites :
        /\ answered[s].op # 0 => /\ answered[s].op \in 1 .. NewestPlan(s)
                                 /\ gateway[s].state = answered[s].left
                                 /\ Serves(gateway[s].state, plan[s][answered[s].op])
        /\ run[s].pc \in {"confirm", "prices", "complete"} => answered[s].op = run[s].op
        /\ op[s] = "succeeded" => answered[s].op = NewestPlan(s) /\ answered[s].op # 0

\* A channel is not confirmed with a candidate that it does not have.
ConfirmedIsInstalled ==
    Rotating => \A s \in Sites :
        channel[s].bound /\ channel[s].key = supplier.pending.key
            => gateway[s].state.key = supplier.pending.key

(***************************************************************************)
(* The requests and what clients carry from Prepare to Mutate.             *)
(***************************************************************************)
Asked ==
    [kind : {"supplier"}, version : Nat, status : Statuses] \cup
    [kind : {"rotate", "cancel"}, version : Nat] \cup
    [kind : {"site", "relation"}, site : Sites, version : Nat, status : Statuses] \cup
    [kind : {"restore"}, site : Sites, plan : Nat] \cup
    [kind : {"publish"}, site : Sites, price : Nat \ {0}] \cup
    [kind : {"sync", "deploy", "draft"}, site : Sites]

AskInv ==
    /\ request \in [Keys -> {NoRequest} \cup Asked]
    /\ ask \in [Clients -> {IdleClient} \cup [key : Keys, basis : Nat]]
    /\ record \in [Keys -> BOOLEAN] /\ taken \in [Keys -> Nat]
    /\ \A c \in Clients : ask[c] # IdleClient => request[ask[c].key] # NoRequest

OpsInv ==
    /\ RowsTyped /\ RunsTyped /\ Deployments /\ Credentials /\ NewestPlanIsCurrent
    /\ RunsAreCurrent /\ AnswersServe /\ ConfirmedIsInstalled
-----------------------------------------------------------------------------
(***************************************************************************)
(* What a request that takes effect leaves behind keeps it from taking     *)
(* effect again.                                                           *)
(***************************************************************************)
Spent(m) ==
    /\ m.kind \in OfSupplier => supplier.version > m.version
    /\ m.kind = "site" => site[m.site].version > m.version
    /\ m.kind \in {"relation", "deploy"} => relation[m.site].deployed
    /\ m.kind = "relation" => relation[m.site].version > m.version
    /\ m.kind = "publish" => /\ m.price \in DOMAIN price[m.site]
                             /\ price[m.site][m.price].status # "draft"

TakenInv ==
    \A k \in Keys :
        /\ taken[k] = 0 \/ (request[k] # NoRequest /\ (request[k].kind \in Repeatable \/ Spent(request[k])))
        /\ k \notin expired => taken[k] = IF record[k] THEN 1 ELSE 0
        /\ k \in expired /\ ~record[k] => taken[k] = 1
        /\ k \in expired /\ record[k] => taken[k] \in 1 .. 2
        /\ taken[k] = 2 => request[k].kind \in Repeatable
-----------------------------------------------------------------------------
(***************************************************************************)
(* Rows that are rewritten in a few columns, and lists of rows.            *)
(***************************************************************************)
LEMMA SupplierSaved ==
    ASSUME NEW r \in SupplierRow, NEW st \in Statuses, NEW n \in Nat
    PROVE  [r EXCEPT !.status = st, !.version = n] =
               [status |-> st, version |-> n, current |-> r.current, pending |-> r.pending]
<1>1. [r EXCEPT !.status = st] = [status |-> st, version |-> r.version, current |-> r.current, pending |-> r.pending]
  BY Z3 DEF SupplierRow
<1>2. [[status |-> st, version |-> r.version, current |-> r.current, pending |-> r.pending] EXCEPT !.version = n] =
          [status |-> st, version |-> n, current |-> r.current, pending |-> r.pending]
  BY Z3
<1> QED
  BY Zenon, <1>1, <1>2

LEMMA CandidateSaved ==
    ASSUME NEW r \in SupplierRow, NEW n \in Nat, NEW p \in CredentialRow
    PROVE  [r EXCEPT !.version = n, !.pending = p] =
               [status |-> r.status, version |-> n, current |-> r.current, pending |-> p]
<1>1. [r EXCEPT !.version = n] = [status |-> r.status, version |-> n, current |-> r.current, pending |-> r.pending]
  BY Z3 DEF SupplierRow
<1>2. [[status |-> r.status, version |-> n, current |-> r.current, pending |-> r.pending] EXCEPT !.pending = p] =
          [status |-> r.status, version |-> n, current |-> r.current, pending |-> p]
  BY Z3
<1> QED
  BY Zenon, <1>1, <1>2

LEMMA RotationSaved ==
    ASSUME NEW r \in SupplierRow, NEW n \in Nat, NEW p \in CredentialRow, NEW c \in CredentialRow
    PROVE  [r EXCEPT !.version = n, !.pending = p, !.current = c] =
               [status |-> r.status, version |-> n, current |-> c, pending |-> p]
<1>1. [r EXCEPT !.version = n, !.pending = p] = [status |-> r.status, version |-> n, current |-> r.current, pending |-> p]
  BY CandidateSaved
<1>2. [[status |-> r.status, version |-> n, current |-> r.current, pending |-> p] EXCEPT !.current = c] =
          [status |-> r.status, version |-> n, current |-> c, pending |-> p]
  BY Z3
<1> QED
  BY Zenon, <1>1, <1>2

LEMMA PromotionSaved ==
    ASSUME NEW r \in SupplierRow, NEW c \in CredentialRow
    PROVE  [r EXCEPT !.current = c] = [status |-> r.status, version |-> r.version, current |-> c, pending |-> r.pending]
  BY Z3 DEF SupplierRow

LEMMA DecisionSaved ==
    ASSUME NEW r \in RelationRow, NEW st \in Statuses, NEW n \in Nat
    PROVE  [r EXCEPT !.desired = st, !.version = n] = [deployed |-> r.deployed, desired |-> st, version |-> n]
<1>1. [r EXCEPT !.desired = st] = [deployed |-> r.deployed, desired |-> st, version |-> r.version]
  BY Z3 DEF RelationRow
<1>2. [[deployed |-> r.deployed, desired |-> st, version |-> r.version] EXCEPT !.version = n] =
          [deployed |-> r.deployed, desired |-> st, version |-> n]
  BY Z3
<1> QED
  BY Zenon, <1>1, <1>2

LEMMA PriceSaved ==
    ASSUME NEW r \in PriceRow
    PROVE  /\ \A st : [r EXCEPT !.status = st] = [status |-> st, basis |-> r.basis]
           /\ \A b : [r EXCEPT !.basis = b] = [status |-> r.status, basis |-> b]
  BY Z3 DEF PriceRow

\* The prices in force in a list of price versions.
InForce(prices) == {i \in DOMAIN prices : prices[i].status \in {"published", "applied"}}

LEMMA SequenceOf ==
    ASSUME NEW S, NEW q \in Seq(S)
    PROVE  /\ Len(q) \in Nat /\ DOMAIN q = 1 .. Len(q)
           /\ \A i \in DOMAIN q : q[i] \in S
           /\ q # <<>> <=> Len(q) # 0
           /\ q # <<>> => Len(q) \in DOMAIN q
<1>1. Len(q) \in Nat /\ DOMAIN q = 1 .. Len(q)
  BY LenProperties
<1>2. \A i \in DOMAIN q : q[i] \in S
  BY <1>1, ElementOfSeq
<1>3. q # <<>> <=> Len(q) # 0
  BY EmptySeq
<1> QED
  BY <1>1, <1>2, <1>3

\* A list of as many rows.
LEMMA Rewritten ==
    ASSUME NEW S, NEW T, NEW q \in Seq(S), NEW r, DOMAIN r = DOMAIN q, r = [i \in DOMAIN q |-> r[i]],
           \A i \in DOMAIN q : r[i] \in T
    PROVE  r \in Seq(T) /\ Len(r) = Len(q)
<1>1. Len(q) \in Nat /\ DOMAIN q = 1 .. Len(q)
  BY LenProperties
<1>2. r \in [1 .. Len(q) -> T]
  BY <1>1
<1>3. r \in Seq(T)
  BY <1>1, <1>2, SeqDef
<1>4. Len(r) \in Nat /\ DOMAIN r = 1 .. Len(r)
  BY <1>3, LenProperties
<1> QED
  BY <1>1, <1>2, <1>3, <1>4, SMT

LEMMA Appended ==
    ASSUME NEW S, NEW q \in Seq(S), NEW e \in S
    PROVE  /\ Append(q, e) \in Seq(S) /\ Append(q, e) # <<>>
           /\ Len(Append(q, e)) = Len(q) + 1
           /\ \A i \in DOMAIN q : i \in DOMAIN Append(q, e) /\ Append(q, e)[i] = q[i]
           /\ Append(q, e)[Len(q) + 1] = e
           /\ DOMAIN Append(q, e) = DOMAIN q \cup {Len(q) + 1}
<1>1. Len(q) \in Nat /\ DOMAIN q = 1 .. Len(q)
  BY LenProperties
<1>2. /\ Append(q, e) \in Seq(S) /\ Append(q, e) # <<>>
      /\ Len(Append(q, e)) = Len(q) + 1
      /\ \A i \in 1 .. Len(q) : Append(q, e)[i] = q[i]
      /\ Append(q, e)[Len(q) + 1] = e
  BY AppendProperties
<1>3. DOMAIN Append(q, e) = 1 .. Len(q) + 1
  BY <1>2, LenProperties
<1> QED
  BY <1>1, <1>2, <1>3
-----------------------------------------------------------------------------
(***************************************************************************)
(* What publishing does to the prices, the plans and the operations.       *)
(***************************************************************************)
Reached(touched) == {s \in touched : site'[s].status = "enabled" /\ relation'[s].deployed}

Published(touched, prices) ==
    /\ price' \in [Sites -> Seq(PriceRow)]
    /\ plan' \in [Sites -> Seq(PlanRow)]
    /\ op' \in [Sites -> OpStatus]
    /\ \A s \in Sites :
         /\ DOMAIN price'[s] = DOMAIN prices[s]
         /\ \A i \in DOMAIN prices[s] : price'[s][i].status = prices[s][i].status
         /\ \A i \in DOMAIN plan[s] : i \in DOMAIN plan'[s] /\ plan'[s][i] = plan[s][i]
         /\ op'[s] = "succeeded" => op[s] = "succeeded" /\ plan'[s] = plan[s]
         /\ s \notin Reached(touched) => price'[s] = prices[s] /\ plan'[s] = plan[s] /\ op'[s] = op[s]
         /\ s \in Reached(touched) =>
              /\ plan'[s] # <<>>
              /\ plan'[s][Len(plan'[s])].key = supplier'.pending.key
              /\ plan'[s][Len(plan'[s])].version = supplier'.pending.version
              /\ plan'[s][Len(plan'[s])].price \in InForce(prices[s])
              /\ plan'[s][Len(plan'[s])].enabled => supplier'.status = "enabled"

LEMMA FilledRows ==
    ASSUME NEW q \in Seq(PriceRow), NEW b \in Nat
    PROVE  /\ Filled(q, b) \in Seq(PriceRow)
           /\ DOMAIN Filled(q, b) = DOMAIN q
           /\ \A i \in DOMAIN q : Filled(q, b)[i].status = q[i].status
<1> DEFINE r == Filled(q, b)
<1>1. \A i \in DOMAIN q : q[i] \in PriceRow
  BY SequenceOf
<1>2. ASSUME NEW i \in DOMAIN q
      PROVE  r[i] \in PriceRow /\ r[i].status = q[i].status
  <2>1. r[i] = IF q[i].status = "published" /\ q[i].basis = Unknown THEN [q[i] EXCEPT !.basis = b] ELSE q[i]
    BY Zenon DEF Filled
  <2>2. [q[i] EXCEPT !.basis = b] = [status |-> q[i].status, basis |-> b]
    BY <1>1, PriceSaved
  <2> HIDE DEF r
  <2>3. r[i] = q[i] \/ r[i] = [status |-> q[i].status, basis |-> b]
    BY Zenon, <2>1, <2>2
  <2> QED
    BY <1>1, <2>3 DEF PriceRow
<1>3. DOMAIN r = DOMAIN q /\ r = [i \in DOMAIN q |-> r[i]]
  BY Zenon DEF Filled
<1> HIDE DEF r
<1>4. r \in Seq(PriceRow)
  BY <1>2, <1>3, Rewritten
<1> QED
  BY Zenon, <1>2, <1>3, <1>4 DEF r

LEMMA SnapshotRow ==
    ASSUME NEW s \in Sites, NEW q \in Seq(PriceRow), InForce(q) # {},
           supplier' \in SupplierRow, relation' \in [Sites -> RelationRow]
    PROVE  /\ Snapshot(s, q) \in PlanRow
           /\ Snapshot(s, q).key = supplier'.pending.key
           /\ Snapshot(s, q).version = supplier'.pending.version
           /\ Snapshot(s, q).price \in InForce(q)
           /\ Snapshot(s, q).enabled => supplier'.status = "enabled"
<1> DEFINE latest == CHOOSE i \in DOMAIN q : q[i].status \in {"published", "applied"}
<1>1. latest \in DOMAIN q /\ q[latest].status \in {"published", "applied"}
  BY DEF InForce
<1> DEFINE enabled == supplier'.status = "enabled" /\ relation'[s].desired = "enabled"
<1>2. Snapshot(s, q) = [enabled |-> enabled, key |-> supplier'.pending.key, version |-> supplier'.pending.version,
                       price |-> latest, basis |-> q[latest].basis]
  BY Zenon DEF Snapshot
<1>3. latest \in Nat /\ q[latest] \in PriceRow
  <2>1. DOMAIN q = 1 .. Len(q) /\ Len(q) \in Nat /\ \A i \in DOMAIN q : q[i] \in PriceRow
    BY SequenceOf
  <2> QED
    BY <1>1, <2>1
<1>4. supplier'.pending.key \in Nat /\ supplier'.pending.version \in Nat /\ q[latest].basis \in Nat
  BY <1>3 DEF SupplierRow, CredentialRow, PriceRow
<1>5. enabled \in BOOLEAN /\ (enabled => supplier'.status = "enabled")
  OBVIOUS
<1> HIDE DEF enabled, latest
<1>6. Snapshot(s, q) \in PlanRow
  BY <1>2, <1>3, <1>4, <1>5 DEF PlanRow
<1>7. /\ Snapshot(s, q).key = supplier'.pending.key /\ Snapshot(s, q).version = supplier'.pending.version
      /\ Snapshot(s, q).price = latest
  BY <1>2
<1>8. Snapshot(s, q).enabled = enabled
  BY <1>2
<1>9. Snapshot(s, q).enabled => supplier'.status = "enabled"
  BY Zenon, <1>5, <1>8
<1> QED
  BY <1>1, <1>6, <1>7, <1>9 DEF InForce

LEMMA PublishEffect ==
    ASSUME RowsTyped, NEW touched \in SUBSET Sites, NEW kind,
           NEW bases \in [Sites -> Nat], NEW prices \in [Sites -> Seq(PriceRow)],
           \A s \in Reached(touched) : InForce(prices[s]) # {},
           supplier' \in SupplierRow, relation' \in [Sites -> RelationRow],
           Publish(touched, kind, bases, prices)
    PROVE  Published(touched, prices)
<1> DEFINE live == Reached(touched)
           full == [s \in Sites |-> IF s \in live THEN Filled(prices[s], bases[s]) ELSE prices[s]]
           next(s) == Snapshot(s, full[s])
           new == {s \in live : plan[s] = <<>> \/ plan[s][Len(plan[s])] # next(s)}
<1>1. /\ price' = full
      /\ plan' = [s \in Sites |-> IF s \in new THEN Append(plan[s], next(s)) ELSE plan[s]]
      /\ op' = [s \in Sites |-> IF s \in (IF kind = "sync" THEN live ELSE new) THEN "pending" ELSE op[s]]
  BY DEF Publish, Enqueue, Reached
<1>2. live \subseteq Sites
  BY DEF Reached
<1>3. ASSUME NEW s \in Sites
      PROVE  /\ full[s] \in Seq(PriceRow) /\ DOMAIN full[s] = DOMAIN prices[s]
             /\ \A i \in DOMAIN prices[s] : full[s][i].status = prices[s][i].status
             /\ s \notin live => full[s] = prices[s]
  <2>1. full[s] = IF s \in live THEN Filled(prices[s], bases[s]) ELSE prices[s]
    BY Zenon
  <2> HIDE DEF full, live
  <2>2. prices[s] \in Seq(PriceRow) /\ bases[s] \in Nat
    OBVIOUS
  <2>3. CASE s \in live
    <3>1. full[s] = Filled(prices[s], bases[s])
      BY <2>1, <2>3
    <3> QED
      BY Zenon, <2>2, <2>3, <3>1, FilledRows
  <2>4. CASE s \notin live
    BY <2>1, <2>2, <2>4
  <2> QED
    BY <2>3, <2>4
<1>4. ASSUME NEW s \in live
      PROVE  /\ next(s) \in PlanRow
             /\ next(s).key = supplier'.pending.key /\ next(s).version = supplier'.pending.version
             /\ next(s).price \in InForce(prices[s])
             /\ next(s).enabled => supplier'.status = "enabled"
  <2>1. s \in Sites
    BY <1>2
  <2> HIDE DEF full, live
  <2>2. InForce(full[s]) = InForce(prices[s]) /\ InForce(prices[s]) # {}
    BY <1>3, <2>1 DEF InForce, live
  <2> QED
    BY <1>3, <2>1, <2>2, SnapshotRow
<1>5. new \subseteq live
  OBVIOUS
<1>6. ASSUME NEW s \in Sites
      PROVE  /\ op'[s] = IF s \in (IF kind = "sync" THEN live ELSE new) THEN "pending" ELSE op[s]
             /\ plan'[s] = IF s \in new THEN Append(plan[s], next(s)) ELSE plan[s]
             /\ price'[s] = full[s]
  BY Zenon, <1>1
<1>7. plan \in [Sites -> Seq(PlanRow)] /\ op \in [Sites -> OpStatus]
  BY DEF RowsTyped
<1>8. \A s \in live : s \notin new => plan[s] # <<>> /\ plan[s][Len(plan[s])] = next(s)
  OBVIOUS
<1>9. price' = [s \in Sites |-> price'[s]] /\ plan' = [s \in Sites |-> plan'[s]] /\ op' = [s \in Sites |-> op'[s]]
  BY Zenon, <1>1
<1> HIDE DEF live, full, next, new
<1>10. ASSUME NEW s \in Sites
       PROVE  /\ price'[s] \in Seq(PriceRow) /\ plan'[s] \in Seq(PlanRow) /\ op'[s] \in OpStatus
              /\ \A i \in DOMAIN plan[s] : i \in DOMAIN plan'[s] /\ plan'[s][i] = plan[s][i]
              /\ op'[s] = "succeeded" => op[s] = "succeeded" /\ plan'[s] = plan[s]
              /\ s \notin live => plan'[s] = plan[s] /\ op'[s] = op[s]
              /\ s \in live => plan'[s] # <<>> /\ plan'[s][Len(plan'[s])] = next(s)
  <2>1. plan[s] \in Seq(PlanRow) /\ op[s] \in OpStatus
    BY <1>7
  <2>2. price'[s] \in Seq(PriceRow)
    BY <1>3, <1>6
  <2>3. op'[s] \in OpStatus
    BY <1>6, <2>1 DEF OpStatus
  <2>4. s \notin live => plan'[s] = plan[s] /\ op'[s] = op[s]
    BY <1>5, <1>6
  <2>5. CASE s \in new
    <3>1. next(s) \in PlanRow /\ s \in live
      BY <1>4, <1>5, <2>5
    <3>2. plan'[s] = Append(plan[s], next(s)) /\ op'[s] = "pending"
      BY <1>6, <2>5, <3>1
    <3>3. /\ plan'[s] \in Seq(PlanRow) /\ plan'[s] # <<>> /\ plan'[s][Len(plan'[s])] = next(s)
          /\ \A i \in DOMAIN plan[s] : i \in DOMAIN plan'[s] /\ plan'[s][i] = plan[s][i]
      BY <2>1, <3>1, <3>2, Appended
    <3> QED
      BY <2>2, <2>3, <3>1, <3>2, <3>3
  <2>6. CASE s \notin new
    <3>1. plan'[s] = plan[s]
      BY <1>6, <2>6
    <3>2. op'[s] = "pending" \/ op'[s] = op[s]
      BY <1>6
    <3> QED
      BY <1>8, <2>1, <2>2, <2>3, <2>4, <2>6, <3>1, <3>2
  <2> QED
    BY <2>5, <2>6
<1>11. /\ price' \in [Sites -> Seq(PriceRow)]
       /\ plan' \in [Sites -> Seq(PlanRow)]
       /\ op' \in [Sites -> OpStatus]
  BY Zenon, <1>9, <1>10
<1>12. ASSUME NEW s \in Sites
       PROVE  /\ DOMAIN price'[s] = DOMAIN prices[s]
              /\ \A i \in DOMAIN prices[s] : price'[s][i].status = prices[s][i].status
              /\ s \notin live => price'[s] = prices[s]
  BY <1>3, <1>6
<1> QED
  BY <1>4, <1>10, <1>11, <1>12 DEF Published, live
-----------------------------------------------------------------------------
(***************************************************************************)
(* The mutations.  Whatever a mutation changes, publishing on the sites it *)
(* reaches brings their newest plans up to date; the other sites depend on *)
(* nothing that has changed.                                               *)
(***************************************************************************)
LEMMA CurrentIsInForce == \A s \in Sites : Current(s) = InForce(price[s])
  BY DEF Current, InForce

LEMMA SameForce ==
    ASSUME NEW q, NEW r, DOMAIN r = DOMAIN q, \A i \in DOMAIN q : r[i].status = q[i].status
    PROVE  InForce(r) = InForce(q)
  BY DEF InForce

LEMMA PlansFollow ==
    ASSUME RowsTyped, Deployments, NewestPlanIsCurrent,
           NEW touched \in SUBSET Sites, NEW prices \in [Sites -> Seq(PriceRow)],
           supplier' \in SupplierRow, relation' \in [Sites -> RelationRow],
           site' \in [Sites -> SiteRow], sealed' \in Nat, channel' = channel,
           Published(touched, prices),
           \A s \in Sites : IF relation'[s].deployed THEN \E i \in DOMAIN prices[s] : InForce(prices[s]) = {i}
                            ELSE prices[s] = <<>> /\ ~relation[s].deployed,
           \A s \in Sites : relation'[s].deployed /\ ~relation[s].deployed => s \in Reached(touched),
           \A s \in Sites \ touched : relation[s].deployed =>
               /\ prices[s] = price[s] /\ site'[s].status = site[s].status
               /\ supplier'.pending = supplier.pending /\ supplier'.status = supplier.status
    PROVE  RowsTyped' /\ Deployments' /\ NewestPlanIsCurrent'
<1>1. RowsTyped'
  BY DEF RowsTyped, Published
<1>2. ASSUME NEW s \in Sites
      PROVE  /\ InForce(price'[s]) = InForce(prices[s]) /\ DOMAIN price'[s] = DOMAIN prices[s]
             /\ s \notin Reached(touched) => price'[s] = prices[s] /\ plan'[s] = plan[s] /\ op'[s] = op[s]
             /\ s \in Reached(touched) =>
                  /\ plan'[s] # <<>>
                  /\ plan'[s][Len(plan'[s])].key = supplier'.pending.key
                  /\ plan'[s][Len(plan'[s])].version = supplier'.pending.version
                  /\ plan'[s][Len(plan'[s])].price \in InForce(prices[s])
                  /\ plan'[s][Len(plan'[s])].enabled => supplier'.status = "enabled"
  <2>1. DOMAIN price'[s] = DOMAIN prices[s] /\ \A i \in DOMAIN prices[s] : price'[s][i].status = prices[s][i].status
    BY DEF Published
  <2>2. InForce(price'[s]) = InForce(prices[s])
    BY <2>1, SameForce
  <2> QED
    BY <2>1, <2>2 DEF Published
<1>3. ASSUME NEW s \in Sites
      PROVE  Current(s)' = InForce(prices[s])
  <2>1. Current(s)' = InForce(price'[s])
    BY DEF Current, InForce
  <2> QED
    BY <1>2, <2>1
<1>4. Deployments'
  <2> SUFFICES ASSUME NEW s \in Sites
               PROVE  IF relation'[s].deployed
                      THEN plan'[s] # <<>> /\ \E i \in DOMAIN price'[s] : Current(s)' = {i}
                      ELSE /\ plan'[s] = <<>> /\ price'[s] = <<>> /\ op'[s] = "none"
                           /\ ~channel'[s].bound /\ channel'[s].key = NoCredential
    BY DEF Deployments
  <2>1. CASE relation'[s].deployed
    <3>1. PICK i \in DOMAIN prices[s] : InForce(prices[s]) = {i}
      BY <2>1
    <3>2. plan'[s] # <<>>
      BY <1>2, <2>1 DEF Deployments
    <3>3. i \in DOMAIN price'[s] /\ Current(s)' = {i}
      BY <1>2, <1>3, <3>1
    <3> QED
      BY Zenon, <2>1, <3>2, <3>3
  <2>2. CASE ~relation'[s].deployed
    <3>1. s \notin Reached(touched) /\ ~relation[s].deployed /\ prices[s] = <<>>
      BY <2>2 DEF Reached
    <3> QED
      BY <1>2, <2>2, <3>1 DEF Deployments
  <2> QED
    BY <2>1, <2>2
<1>5. NewestPlanIsCurrent'
  <2> SUFFICES ASSUME NEW s \in Sites, relation'[s].deployed, site'[s].status = "enabled"
               PROVE  /\ plan'[s][Len(plan'[s])].key = supplier'.pending.key
                      /\ plan'[s][Len(plan'[s])].version = supplier'.pending.version
                      /\ plan'[s][Len(plan'[s])].price \in Current(s)'
                      /\ supplier'.status = "disabled" => ~plan'[s][Len(plan'[s])].enabled
    BY DEF NewestPlanIsCurrent, NewestPlan, Deployed, SupplierRow, CredentialRow
  <2>1. CASE s \in touched
    <3>1. s \in Reached(touched)
      BY <2>1 DEF Reached
    <3> QED
      BY <1>2, <1>3, <3>1
  <2>2. CASE s \notin touched
    <3>1. s \notin Reached(touched) /\ relation[s].deployed
      BY <2>2 DEF Reached
    <3>2. /\ prices[s] = price[s] /\ site'[s].status = site[s].status
          /\ supplier'.pending = supplier.pending /\ supplier'.status = supplier.status
      BY <2>2, <3>1
    <3>3. LET p == plan[s][Len(plan[s])]
          IN  /\ [key |-> p.key, version |-> p.version] = supplier.pending
              /\ p.price \in Current(s)
              /\ supplier.status = "disabled" => ~p.enabled
      BY <3>1, <3>2 DEF NewestPlanIsCurrent, NewestPlan, Deployed
    <3>4. Current(s)' = Current(s)
      BY <1>3, <3>2, CurrentIsInForce
    <3> QED
      BY <1>2, <3>1, <3>2, <3>3, <3>4
  <2> QED
    BY <2>1, <2>2
<1> QED
  BY <1>1, <1>4, <1>5
-----------------------------------------------------------------------------
Mutated(m) ==
    /\ RowsTyped' /\ Deployments' /\ Credentials' /\ NewestPlanIsCurrent'
    /\ \A s \in Sites :
         /\ \A i \in DOMAIN plan[s] : i \in DOMAIN plan'[s] /\ plan'[s][i] = plan[s][i]
         /\ op'[s] = "succeeded" => op[s] = "succeeded" /\ plan'[s] = plan[s]
         /\ relation[s].deployed /\ s \notin Locks(m) =>
              plan'[s] = plan[s] /\ op'[s] = op[s] /\ site'[s] = site[s] /\ relation'[s] = relation[s]
    /\ channel' = channel
    /\ m.kind \notin OfSupplier => supplier' = supplier
    /\ supplier'.current = supplier.current \/ Deployed = {}
    /\ (supplier'.pending # supplier'.current) =>
         \/ supplier'.pending = supplier.pending /\ Rotating
         \/ \A s \in Sites : channel[s].key # supplier'.pending.key

LEMMA PricesInForce ==
    ASSUME RowsTyped, Deployments
    PROVE  \A s \in Sites : IF relation[s].deployed THEN \E i \in DOMAIN price[s] : InForce(price[s]) = {i}
                            ELSE price[s] = <<>>
  BY CurrentIsInForce DEF Deployments

LEMMA SupplierPublished ==
    ASSUME RowsTyped, Deployments, NewestPlanIsCurrent,
           supplier' \in SupplierRow, UNCHANGED <<site, relation, channel>>, sealed' \in Nat,
           NEW kind, NEW bases \in [Sites -> Nat],
           Publish(Deployed, kind, bases, price)
    PROVE  /\ RowsTyped' /\ Deployments' /\ NewestPlanIsCurrent'
           /\ Published(Deployed, price)
<1>1. /\ relation' \in [Sites -> RelationRow] /\ site' \in [Sites -> SiteRow]
      /\ price \in [Sites -> Seq(PriceRow)] /\ Deployed \in SUBSET Sites
      /\ channel' = channel /\ relation' = relation /\ site' = site
  BY DEF RowsTyped, Deployed
<1>2. \A s \in Reached(Deployed) : InForce(price[s]) # {}
  <2> SUFFICES ASSUME NEW s \in Reached(Deployed) PROVE InForce(price[s]) # {}
    OBVIOUS
  <2>1. s \in Sites /\ relation[s].deployed
    BY DEF Reached, Deployed
  <2>2. PICK i \in DOMAIN price[s] : InForce(price[s]) = {i}
    BY <2>1, PricesInForce
  <2> QED
    BY <2>2
<1>3. Published(Deployed, price)
  BY <1>1, <1>2, PublishEffect
<1>4. \A s \in Sites : IF relation'[s].deployed THEN \E i \in DOMAIN price[s] : InForce(price[s]) = {i}
                       ELSE price[s] = <<>> /\ ~relation[s].deployed
  BY <1>1, PricesInForce
<1>5. \A s \in Sites : ~(relation'[s].deployed /\ ~relation[s].deployed)
  BY <1>1
<1>6. \A s \in Sites \ Deployed : ~relation[s].deployed
  BY DEF Deployed
<1>7. RowsTyped' /\ Deployments' /\ NewestPlanIsCurrent'
  BY <1>1, <1>3, <1>4, <1>5, <1>6, PlansFollow
<1> QED
  BY <1>3, <1>7

LEMMA SitePublished ==
    ASSUME RowsTyped, Deployments, NewestPlanIsCurrent, Credentials,
           NEW t \in Sites, NEW prices \in [Sites -> Seq(PriceRow)], NEW m, m.kind \notin OfSupplier, m.site = t,
           UNCHANGED <<supplier, revoked, sealed, channel>>,
           site' \in [Sites -> SiteRow], relation' \in [Sites -> RelationRow],
           \A s \in Sites : s # t => site'[s] = site[s] /\ relation'[s] = relation[s] /\ prices[s] = price[s],
           relation[t].deployed => relation'[t].deployed,
           relation'[t].deployed /\ ~relation[t].deployed => site'[t].status = "enabled",
           IF relation'[t].deployed THEN \E i \in DOMAIN prices[t] : InForce(prices[t]) = {i} ELSE prices[t] = <<>>,
           NEW kind, NEW bases \in [Sites -> Nat],
           Publish({t}, kind, bases, prices)
    PROVE  Mutated(m) /\ Published({t}, prices)
<1>1. /\ supplier' \in SupplierRow /\ sealed' \in Nat
      /\ channel' = channel /\ supplier' = supplier /\ sealed' = sealed /\ revoked' = revoked
  BY DEF RowsTyped
<1>2. \A s \in Reached({t}) : InForce(prices[s]) # {}
  <2> SUFFICES ASSUME NEW s \in Reached({t}) PROVE InForce(prices[s]) # {}
    OBVIOUS
  <2>1. s = t /\ relation'[t].deployed
    BY DEF Reached
  <2>2. PICK i \in DOMAIN prices[t] : InForce(prices[t]) = {i}
    BY <2>1
  <2> QED
    BY <2>1, <2>2
<1>3. Published({t}, prices)
  <2>1. {t} \in SUBSET Sites
    OBVIOUS
  <2> QED
    BY ZenonT(30), <1>1, <1>2, <2>1, PublishEffect
<1>4. \A s \in Sites : IF relation'[s].deployed THEN \E i \in DOMAIN prices[s] : InForce(prices[s]) = {i}
                       ELSE prices[s] = <<>> /\ ~relation[s].deployed
  <2> SUFFICES ASSUME NEW s \in Sites
               PROVE  IF relation'[s].deployed THEN \E i \in DOMAIN prices[s] : InForce(prices[s]) = {i}
                      ELSE prices[s] = <<>> /\ ~relation[s].deployed
    OBVIOUS
  <2>1. CASE s = t
    BY <2>1
  <2>2. CASE s # t
    <3>1. relation'[s] = relation[s] /\ prices[s] = price[s]
      BY <2>2
    <3>2. IF relation[s].deployed THEN \E i \in DOMAIN price[s] : InForce(price[s]) = {i} ELSE price[s] = <<>>
      BY PricesInForce
    <3> QED
      BY <3>1, <3>2
  <2> QED
    BY <2>1, <2>2
<1>5. \A s \in Sites : relation'[s].deployed /\ ~relation[s].deployed => s \in Reached({t})
  BY DEF Reached
<1>6. \A s \in Sites \ {t} : relation[s].deployed =>
        /\ prices[s] = price[s] /\ site'[s].status = site[s].status
        /\ supplier'.pending = supplier.pending /\ supplier'.status = supplier.status
  BY <1>1
<1>7. RowsTyped' /\ Deployments' /\ NewestPlanIsCurrent'
  <2>1. {t} \in SUBSET Sites
    OBVIOUS
  <2> QED
    BY <1>1, <1>3, <1>4, <1>5, <1>6, <2>1, PlansFollow
<1>8. Credentials'
  BY <1>1 DEF Credentials, Rotating
<1>9. ASSUME NEW s \in Sites
      PROVE  /\ \A i \in DOMAIN plan[s] : i \in DOMAIN plan'[s] /\ plan'[s][i] = plan[s][i]
             /\ op'[s] = "succeeded" => op[s] = "succeeded" /\ plan'[s] = plan[s]
             /\ s # t => plan'[s] = plan[s] /\ op'[s] = op[s]
  BY <1>3 DEF Published, Reached
<1>10. Locks(m) = {t}
  BY DEF Locks
<1> QED
  BY <1>1, <1>3, <1>7, <1>8, <1>9, <1>10 DEF Mutated, Rotating
-----------------------------------------------------------------------------
(***************************************************************************)
(* The mutations of the supplier.                                          *)
(***************************************************************************)
LEMMA SupplierFields ==
    ASSUME RowsTyped, Credentials
    PROVE  /\ supplier \in SupplierRow /\ supplier.pending \in CredentialRow /\ supplier.current \in CredentialRow
           /\ supplier.status \in Statuses /\ supplier.version \in Nat /\ sealed \in Nat
           /\ supplier.pending.key \in Nat /\ supplier.pending.version \in Nat /\ supplier.current.key \in Nat
           /\ Rotating <=> supplier.pending # supplier.current
  BY DEF RowsTyped, SupplierRow, CredentialRow, Rotating

LEMMA SaveSupplierChanges ==
    ASSUME RowsTyped, Credentials, NEW m, m.status \in Statuses, SaveSupplier(m)
    PROVE  /\ supplier' \in SupplierRow /\ sealed' \in Nat /\ UNCHANGED <<site, relation, channel>>
           /\ Credentials'
           /\ supplier'.version = m.version + 1 /\ supplier.version = m.version
           /\ supplier'.pending # supplier'.current => supplier'.pending = supplier.pending /\ Rotating
           /\ supplier'.current = supplier.current /\ supplier'.pending = supplier.pending
<1>1. supplier' = [status |-> m.status, version |-> supplier.version + 1,
                   current |-> supplier.current, pending |-> supplier.pending]
  <2>1. supplier.version + 1 \in Nat /\ supplier \in SupplierRow
    BY SupplierFields
  <2>2. supplier' = [supplier EXCEPT !.status = m.status, !.version = supplier.version + 1]
    BY Zenon DEF SaveSupplier
  <2> QED
    BY <2>1, <2>2, SupplierSaved
<1>2. UNCHANGED <<site, relation, channel, revoked, sealed>> /\ supplier.version = m.version
  BY DEF SaveSupplier
<1>3. supplier' \in SupplierRow /\ sealed' \in Nat
  BY <1>1, <1>2, SupplierFields DEF SupplierRow
<1>4. /\ supplier'.pending = supplier.pending /\ supplier'.current = supplier.current
      /\ supplier'.version = m.version + 1
  BY <1>1, <1>2
<1>5. Credentials'
  BY <1>2, <1>4 DEF Credentials, Rotating
<1> QED
  BY <1>2, <1>3, <1>4, <1>5 DEF Rotating

LEMMA CancelCredentialChanges ==
    ASSUME RowsTyped, Credentials, NEW m, CancelCredential(m)
    PROVE  /\ supplier' \in SupplierRow /\ sealed' \in Nat /\ UNCHANGED <<site, relation, channel>>
           /\ Credentials'
           /\ supplier'.version = m.version + 1 /\ supplier.version = m.version
           /\ supplier'.pending = supplier'.current /\ supplier'.current = supplier.current
<1>1. supplier' = [status |-> supplier.status, version |-> supplier.version + 1,
                   current |-> supplier.current, pending |-> supplier.current]
  <2>1. supplier.version + 1 \in Nat /\ supplier \in SupplierRow /\ supplier.current \in CredentialRow
    BY SupplierFields
  <2>2. supplier' = [supplier EXCEPT !.version = supplier.version + 1, !.pending = supplier.current]
    BY Zenon DEF CancelCredential
  <2> QED
    BY <2>1, <2>2, CandidateSaved
<1>2. /\ UNCHANGED <<site, relation, channel, sealed>> /\ supplier.version = m.version
      /\ revoked' = revoked \cup {supplier.pending.key} /\ Rotating
  BY DEF CancelCredential
<1>3. supplier' \in SupplierRow /\ sealed' \in Nat
  BY <1>1, <1>2, SupplierFields DEF SupplierRow
<1>4. /\ supplier'.pending = supplier.current /\ supplier'.current = supplier.current
      /\ supplier'.version = m.version + 1
  BY <1>1, <1>2
<1>5. Credentials'
  BY <1>2, <1>4 DEF Credentials, Rotating
<1> QED
  BY <1>2, <1>3, <1>4, <1>5

LEMMA RotateCredentialChanges ==
    ASSUME RowsTyped, Credentials, NEW m, RotateCredential(m)
    PROVE  /\ supplier' \in SupplierRow /\ sealed' \in Nat /\ UNCHANGED <<site, relation, channel>>
           /\ Credentials'
           /\ supplier'.version = m.version + 1 /\ supplier.version = m.version
           /\ \A s \in Sites : channel[s].key # supplier'.pending.key
           /\ supplier'.current = supplier.current \/ Deployed = {}
           /\ supplier'.pending.key = sealed + 1
           /\ supplier'.current \in {supplier.current, supplier'.pending}
<1> DEFINE next == [key |-> sealed + 1, version |-> supplier.pending.version + 1]
           current == IF Deployed = {} THEN next ELSE supplier.current
<1>1. next \in CredentialRow /\ next.key = sealed + 1 /\ current \in CredentialRow
  BY SupplierFields DEF CredentialRow
<1>2. supplier' = [supplier EXCEPT !.version = supplier.version + 1, !.pending = next, !.current = current]
  BY Zenon DEF RotateCredential
<1> HIDE DEF next
<1>3. /\ current = next \/ current = supplier.current
      /\ current = supplier.current \/ Deployed = {}
  OBVIOUS
<1> HIDE DEF current
<1>4. supplier' = [status |-> supplier.status, version |-> supplier.version + 1, current |-> current, pending |-> next]
  <2>1. supplier.version + 1 \in Nat /\ supplier \in SupplierRow
    BY SupplierFields
  <2> QED
    BY ZenonT(30), <1>1, <1>2, <2>1, RotationSaved
<1>5. /\ UNCHANGED <<site, relation, channel>> /\ supplier.version = m.version
      /\ sealed < MaxCredentials /\ sealed' = sealed + 1
      /\ revoked' = IF Rotating THEN revoked \cup {supplier.pending.key} ELSE revoked
  BY DEF RotateCredential, Replaced
<1>6. supplier' \in SupplierRow /\ sealed' \in Nat
  <2>1. supplier.version + 1 \in Nat /\ supplier.status \in Statuses /\ sealed + 1 \in Nat
    BY SupplierFields
  <2> QED
    BY <1>1, <1>4, <1>5, <2>1 DEF SupplierRow
<1>7. supplier'.pending = next /\ supplier'.current = current /\ supplier'.version = m.version + 1
  BY <1>4, <1>5
<1>8. \A s \in Sites : channel[s].key # sealed + 1 /\ channel[s].key \in {NoCredential} \cup 1 .. sealed'
  BY <1>5, CredentialAssumption, SupplierFields DEF Credentials
<1>9. /\ revoked' \subseteq 1 .. sealed /\ supplier.current.key \in (1 .. sealed) \ revoked'
  BY <1>5, SupplierFields DEF Credentials
<1>10. /\ revoked' \subseteq 1 .. sealed' /\ supplier.current.key \in (1 .. sealed') \ revoked'
       /\ sealed + 1 \in (1 .. sealed') \ revoked' /\ sealed + 1 # supplier.current.key
  BY <1>5, <1>9, SupplierFields
<1>11. Credentials'
  <2>1. supplier'.pending.key = sealed + 1
    BY <1>1, <1>7
  <2>2. supplier'.current.key = sealed + 1 \/ supplier'.current.key = supplier.current.key
    BY <1>1, <1>3, <1>7
  <2>3. supplier'.pending # supplier'.current => supplier'.current.key = supplier.current.key
    BY <1>1, <1>3, <1>7
  <2> QED
    BY <1>5, <1>8, <1>10, <2>1, <2>2, <2>3 DEF Credentials, Rotating
<1> QED
  BY <1>1, <1>3, <1>5, <1>6, <1>7, <1>8, <1>11

LEMMA SupplierMutation ==
    ASSUME RowsTyped, Deployments, NewestPlanIsCurrent, Credentials,
           NEW m \in Asked, m.kind \in OfSupplier, NEW bases \in [Sites -> Nat],
           \/ m.kind = "supplier" /\ SaveSupplier(m)
           \/ m.kind = "rotate" /\ RotateCredential(m)
           \/ m.kind = "cancel" /\ CancelCredential(m),
           Publish(Locks(m), m.kind, bases, price)
    PROVE  Mutated(m) /\ supplier.version = m.version /\ supplier'.version = m.version + 1
<1>1. m.kind = "supplier" => m.status \in Statuses
  BY DEF Asked
<1>2. /\ supplier' \in SupplierRow /\ sealed' \in Nat /\ UNCHANGED <<site, relation, channel>>
      /\ Credentials'
      /\ supplier'.version = m.version + 1 /\ supplier.version = m.version
      /\ (supplier'.pending # supplier'.current) =>
           \/ supplier'.pending = supplier.pending /\ Rotating
           \/ \A s \in Sites : channel[s].key # supplier'.pending.key
      /\ supplier'.current = supplier.current \/ Deployed = {}
  <2>1. CASE m.kind = "supplier" /\ SaveSupplier(m)
    BY <1>1, <2>1, SaveSupplierChanges
  <2>2. CASE m.kind = "rotate" /\ RotateCredential(m)
    BY <2>2, RotateCredentialChanges
  <2>3. CASE m.kind = "cancel" /\ CancelCredential(m)
    BY <2>3, CancelCredentialChanges
  <2> QED
    BY <2>1, <2>2, <2>3
<1>3. Locks(m) = Deployed
  BY DEF Locks, SitesOfSupplier
<1>4. /\ RowsTyped' /\ Deployments' /\ NewestPlanIsCurrent'
      /\ Published(Deployed, price)
  <2>1. Publish(Deployed, m.kind, bases, price)
    BY <1>3
  <2> QED
    BY <1>2, <2>1, SupplierPublished
<1>5. ASSUME NEW s \in Sites
      PROVE  /\ \A i \in DOMAIN plan[s] : i \in DOMAIN plan'[s] /\ plan'[s][i] = plan[s][i]
             /\ op'[s] = "succeeded" => op[s] = "succeeded" /\ plan'[s] = plan[s]
             /\ relation[s].deployed => s \in Deployed
  BY <1>4 DEF Published, Deployed
<1> QED
  BY <1>2, <1>3, <1>4, <1>5 DEF Mutated
-----------------------------------------------------------------------------
(***************************************************************************)
(* The mutations of a site.                                                *)
(***************************************************************************)
\* Versions grow, what was deployed stays so, and no price becomes a draft again.
Grown ==
    /\ supplier'.version >= supplier.version
    /\ \A s \in Sites :
         /\ site'[s].version >= site[s].version
         /\ relation[s].deployed => relation'[s].deployed /\ relation'[s].version >= relation[s].version
         /\ \A i \in DOMAIN price[s] :
              /\ i \in DOMAIN price'[s]
              /\ price[s][i].status # "draft" => price'[s][i].status # "draft"

LEMMA SiteFields ==
    ASSUME RowsTyped, NEW s \in Sites
    PROVE  /\ site[s] \in SiteRow /\ site[s].version \in Nat /\ site[s].status \in Statuses
           /\ relation[s] \in RelationRow /\ relation[s].version \in Nat /\ relation[s].deployed \in BOOLEAN
           /\ price[s] \in Seq(PriceRow) /\ plan[s] \in Seq(PlanRow) /\ supplier.version \in Nat
  BY DEF RowsTyped, SiteRow, RelationRow, SupplierRow

\* What publishing leaves of the prices.
LEMMA PricesGrow ==
    ASSUME NEW touched, NEW prices, Published(touched, prices),
           \A s \in Sites : \A i \in DOMAIN price[s] :
               i \in DOMAIN prices[s] /\ (price[s][i].status # "draft" => prices[s][i].status # "draft")
    PROVE  \A s \in Sites : \A i \in DOMAIN price[s] :
               i \in DOMAIN price'[s] /\ (price[s][i].status # "draft" => price'[s][i].status # "draft")
<1>1. \A s \in Sites : /\ DOMAIN price'[s] = DOMAIN prices[s]
                       /\ \A i \in DOMAIN prices[s] : price'[s][i].status = prices[s][i].status
  BY Zenon DEF Published
<1> QED
  BY Zenon, <1>1

LEMMA SaveSiteMutation ==
    ASSUME RowsTyped, Deployments, NewestPlanIsCurrent, Credentials,
           NEW m \in Asked, m.kind = "site", NEW bases \in [Sites -> Nat],
           SaveSite(m), Publish(Locks(m), m.kind, bases, price)
    PROVE  Mutated(m) /\ Grown /\ site[m.site].version = m.version /\ site'[m.site].version > m.version
<1> DEFINE t == m.site
<1>1. t \in Sites /\ m.status \in Statuses /\ m.kind \notin OfSupplier /\ Locks(m) = {t}
  BY DEF Asked, OfSupplier, Locks
<1>2. /\ site' = [site EXCEPT ![t] = [status |-> m.status, version |-> site[t].version + 1]]
      /\ site[t].version = m.version
      /\ UNCHANGED <<supplier, revoked, sealed, relation, channel>>
  BY Zenon DEF SaveSite
<1>3. site[t].version + 1 \in Nat /\ site \in [Sites -> SiteRow] /\ relation \in [Sites -> RelationRow]
      /\ price \in [Sites -> Seq(PriceRow)]
  BY <1>1, SiteFields DEF RowsTyped
<1> HIDE DEF t
<1>4. site' \in [Sites -> SiteRow] /\ site'[t].version = site[t].version + 1
      /\ \A s \in Sites : s # t => site'[s] = site[s]
  BY <1>1, <1>2, <1>3 DEF SiteRow
<1>5. Mutated(m) /\ Published({t}, price)
  <2>1. IF relation[t].deployed THEN \E i \in DOMAIN price[t] : InForce(price[t]) = {i} ELSE price[t] = <<>>
    BY <1>1, PricesInForce
  <2>2. Publish({t}, m.kind, bases, price) /\ m.site = t
    BY <1>1 DEF t
  <2> QED
    BY <1>1, <1>2, <1>3, <1>4, <2>1, <2>2, SitePublished
<1>6. Grown
  <2>1. \A s \in Sites : site'[s].version >= site[s].version /\ relation[s].version \in Nat
    BY <1>1, <1>4, SiteFields
  <2>2. relation' = relation /\ supplier' = supplier /\ supplier.version \in Nat
    BY <1>1, <1>2, SiteFields
  <2> QED
    BY <1>5, <2>1, <2>2, PricesGrow DEF Grown
<1> QED
  BY <1>1, <1>2, <1>3, <1>4, <1>5, <1>6, SiteFields DEF t

\* A decision on a relation, an operator's or an older plan's.
LEMMA DecisionMutation ==
    ASSUME RowsTyped, Deployments, NewestPlanIsCurrent, Credentials,
           NEW m \in Asked, m.kind \notin OfSupplier, NEW bases \in [Sites -> Nat], NEW st \in Statuses,
           relation[m.site].deployed,
           relation' = [relation EXCEPT ![m.site].desired = st, ![m.site].version = @ + 1],
           UNCHANGED <<supplier, revoked, sealed, site, channel>>,
           Publish({m.site}, m.kind, bases, price)
    PROVE  Mutated(m) /\ Grown /\ relation'[m.site].version > relation[m.site].version /\ relation'[m.site].deployed
<1> DEFINE t == m.site
<1>1. t \in Sites
  BY DEF Asked, OfSupplier
<1>2. /\ site \in [Sites -> SiteRow] /\ relation \in [Sites -> RelationRow]
      /\ price \in [Sites -> Seq(PriceRow)]
  BY DEF RowsTyped
<1>3. /\ relation' \in [Sites -> RelationRow]
      /\ relation'[t] = [deployed |-> relation[t].deployed, desired |-> st, version |-> relation[t].version + 1]
      /\ \A s \in Sites : s # t => relation'[s] = relation[s]
  <2>1. relation' = [relation EXCEPT ![t] = [relation[t] EXCEPT !.desired = st, !.version = relation[t].version + 1]]
    BY Zenon
  <2>2. relation[t] \in RelationRow /\ relation[t].version + 1 \in Nat
    BY <1>1, SiteFields
  <2> HIDE DEF t
  <2>3. [relation[t] EXCEPT !.desired = st, !.version = relation[t].version + 1] =
            [deployed |-> relation[t].deployed, desired |-> st, version |-> relation[t].version + 1]
    BY <2>2, DecisionSaved
  <2>4. relation' = [relation EXCEPT ![t] =
                        [deployed |-> relation[t].deployed, desired |-> st, version |-> relation[t].version + 1]]
    BY Zenon, <2>1, <2>3
  <2>5. [deployed |-> relation[t].deployed, desired |-> st, version |-> relation[t].version + 1] \in RelationRow
    BY <2>2 DEF RelationRow
  <2> DEFINE row == [deployed |-> relation[t].deployed, desired |-> st, version |-> relation[t].version + 1]
  <2>6. relation' = [relation EXCEPT ![t] = row] /\ row \in RelationRow
    BY Zenon, <2>4, <2>5
  <2> HIDE DEF row
  <2>7. /\ relation' \in [Sites -> RelationRow] /\ relation'[t] = row
        /\ \A s \in Sites : s # t => relation'[s] = relation[s]
    BY <1>1, <1>2, <2>6
  <2> QED
    BY Zenon, <2>7 DEF row
<1> HIDE DEF t
<1>4. relation'[t].deployed /\ relation'[t].version = relation[t].version + 1
  BY <1>3 DEF t
<1>5. Mutated(m) /\ Published({t}, price)
  <2>1. IF relation'[t].deployed THEN \E i \in DOMAIN price[t] : InForce(price[t]) = {i} ELSE price[t] = <<>>
    BY <1>1, <1>4, PricesInForce DEF t
  <2>2. Publish({t}, m.kind, bases, price) /\ m.site = t
    BY DEF t
  <2>3. site' \in [Sites -> SiteRow] /\ \A s \in Sites : site'[s] = site[s]
    BY <1>2
  <2> QED
    BY <1>1, <1>2, <1>3, <1>4, <2>1, <2>2, <2>3, SitePublished
<1>6. Grown
  <2>1. \A s \in Sites : /\ site'[s].version >= site[s].version
                         /\ relation[s].deployed => relation'[s].deployed /\ relation'[s].version >= relation[s].version
    BY <1>1, <1>3, <1>4, SiteFields
  <2>2. supplier'.version >= supplier.version
    BY <1>1, SiteFields
  <2> QED
    BY <1>5, <2>1, <2>2, PricesGrow DEF Grown
<1>7. relation'[t].version > relation[t].version
  BY <1>1, <1>4, SiteFields
<1> QED
  BY <1>4, <1>5, <1>6, <1>7 DEF t

LEMMA RestoreMutation ==
    ASSUME RowsTyped, Deployments, NewestPlanIsCurrent, Credentials,
           NEW m \in Asked, m.kind = "restore", NEW bases \in [Sites -> Nat],
           Restore(m), Publish(Locks(m), m.kind, bases, price)
    PROVE  Mutated(m) /\ Grown
<1> DEFINE st == IF plan[m.site][m.plan].enabled THEN "enabled" ELSE "disabled"
<1>1. /\ m.site \in Sites /\ m.kind \notin OfSupplier /\ Locks(m) = {m.site}
  BY DEF Asked, OfSupplier, Locks
<1>2. /\ m.plan \in DOMAIN plan[m.site]
      /\ relation' = [relation EXCEPT ![m.site].desired = st, ![m.site].version = @ + 1]
      /\ UNCHANGED <<supplier, revoked, sealed, site, channel>>
  BY Zenon DEF Restore
<1>3. st \in Statuses
  BY DEF Statuses
<1> HIDE DEF st
<1>4. relation[m.site].deployed
  <2>1. DOMAIN plan[m.site] = 1 .. Len(plan[m.site]) /\ Len(<<>>) = 0
    BY <1>1, SiteFields, SequenceOf, EmptySeq
  <2>2. plan[m.site] # <<>>
    BY <1>2, <2>1
  <2> QED
    BY <1>1, <2>2 DEF Deployments
<1> QED
  BY <1>1, <1>2, <1>3, <1>4, DecisionMutation

LEMMA SyncMutation ==
    ASSUME RowsTyped, Deployments, NewestPlanIsCurrent, Credentials,
           NEW m \in Asked, m.kind = "sync", NEW bases \in [Sites -> Nat],
           Tables, Publish(Locks(m), m.kind, bases, price)
    PROVE  Mutated(m) /\ Grown
<1>1. /\ m.site \in Sites /\ m.kind \notin OfSupplier /\ Locks(m) = {m.site}
  BY DEF Asked, OfSupplier, Locks
<1>2. UNCHANGED <<supplier, revoked, sealed, site, relation, channel>>
  BY DEF Tables
<1>3. /\ site \in [Sites -> SiteRow] /\ relation \in [Sites -> RelationRow]
      /\ price \in [Sites -> Seq(PriceRow)]
  BY DEF RowsTyped
<1>4. Mutated(m) /\ Published({m.site}, price)
  <2>1. IF relation[m.site].deployed THEN \E i \in DOMAIN price[m.site] : InForce(price[m.site]) = {i}
        ELSE price[m.site] = <<>>
    BY <1>1, PricesInForce
  <2>2. Publish({m.site}, m.kind, bases, price)
    BY <1>1
  <2>3. /\ site' \in [Sites -> SiteRow] /\ relation' \in [Sites -> RelationRow]
        /\ \A s \in Sites : site'[s] = site[s] /\ relation'[s] = relation[s]
        /\ IF relation'[m.site].deployed THEN \E i \in DOMAIN price[m.site] : InForce(price[m.site]) = {i}
           ELSE price[m.site] = <<>>
        /\ relation[m.site].deployed <=> relation'[m.site].deployed
    BY <1>2, <1>3, <2>1
  <2> QED
    BY <1>1, <1>2, <1>3, <2>2, <2>3, SitePublished
<1>5. Grown
  <2>1. \A s \in Sites : site'[s] = site[s] /\ relation'[s] = relation[s]
    BY <1>2
  <2>2. supplier' = supplier /\ supplier.version \in Nat
    BY <1>1, <1>2, SiteFields
  <2> QED
    BY <1>4, <2>1, <2>2, PricesGrow, SiteFields DEF Grown
<1> QED
  BY <1>4, <1>5

LEMMA SaveRelationMutation ==
    ASSUME RowsTyped, Deployments, NewestPlanIsCurrent, Credentials,
           NEW m \in Asked, m.kind = "relation", NEW bases \in [Sites -> Nat],
           SaveRelation(m), Publish(Locks(m), m.kind, bases, price)
    PROVE  /\ Mutated(m) /\ Grown
           /\ relation[m.site].version = m.version
           /\ relation'[m.site].version > m.version /\ relation'[m.site].deployed
<1>1. /\ m.site \in Sites /\ m.kind \notin OfSupplier /\ Locks(m) = {m.site} /\ m.status \in Statuses
  BY DEF Asked, OfSupplier, Locks
<1>2. /\ relation[m.site].deployed /\ relation[m.site].version = m.version
      /\ relation' = [relation EXCEPT ![m.site].desired = m.status, ![m.site].version = @ + 1]
      /\ UNCHANGED <<supplier, revoked, sealed, site, channel>>
  BY Zenon DEF SaveRelation
<1> QED
  BY <1>1, <1>2, DecisionMutation

LEMMA DeployMutation ==
    ASSUME RowsTyped, Deployments, NewestPlanIsCurrent, Credentials,
           NEW m \in Asked, m.kind = "deploy", NEW bases \in [Sites -> Nat], NEW basis \in Nat,
           Deploy(m),
           Publish({m.site}, m.kind, bases, [price EXCEPT ![m.site] = <<[status |-> "published", basis |-> basis]>>])
    PROVE  Mutated(m) /\ Grown /\ ~relation[m.site].deployed /\ relation'[m.site].deployed
<1> DEFINE t == m.site
           first == <<[status |-> "published", basis |-> basis]>>
           prices == [price EXCEPT ![t] = first]
<1>1. t \in Sites /\ m.kind \notin OfSupplier
  BY DEF Asked, OfSupplier
<1>2. /\ site[t].status = "enabled" /\ ~relation[t].deployed
      /\ relation' = [relation EXCEPT ![t] = [deployed |-> TRUE, desired |-> "enabled", version |-> 1]]
      /\ UNCHANGED <<supplier, revoked, sealed, site, channel>>
  BY DEF Deploy
<1>3. /\ site \in [Sites -> SiteRow] /\ relation \in [Sites -> RelationRow]
      /\ price \in [Sites -> Seq(PriceRow)]
  BY DEF RowsTyped
<1>4. Publish({t}, m.kind, bases, prices) /\ m.site = t
  OBVIOUS
<1>5. first \in Seq(PriceRow) /\ 1 \in DOMAIN first /\ InForce(first) = {1}
  BY DEF PriceRow, InForce
<1> HIDE DEF first
<1>6. prices \in [Sites -> Seq(PriceRow)] /\ prices[t] = first /\ \A s \in Sites : s # t => prices[s] = price[s]
  BY <1>1, <1>3, <1>5
<1> HIDE DEF t, prices
<1>7. /\ relation' \in [Sites -> RelationRow]
      /\ relation'[t].deployed /\ relation'[t].version = 1
      /\ \A s \in Sites : s # t => relation'[s] = relation[s]
  BY <1>1, <1>2, <1>3 DEF RelationRow, Statuses
<1>8. /\ site' \in [Sites -> SiteRow] /\ \A s \in Sites : site'[s] = site[s]
      /\ site'[t].status = "enabled"
  BY <1>1, <1>2, <1>3
<1>9. \E i \in DOMAIN prices[t] : InForce(prices[t]) = {i}
  BY <1>5, <1>6
<1>10. Mutated(m) /\ Published({t}, prices)
  BY <1>1, <1>2, <1>4, <1>6, <1>7, <1>8, <1>9, SitePublished
<1>11. Grown
  <2>1. price[t] = <<>> /\ DOMAIN <<>> = {}
    <3>1. price[t] = <<>>
      BY <1>1, <1>2 DEF Deployments
    <3> QED
      BY <3>1
  <2>2. \A s \in Sites : \A i \in DOMAIN price[s] :
          i \in DOMAIN prices[s] /\ (price[s][i].status # "draft" => prices[s][i].status # "draft")
    BY <1>6, <2>1
  <2>3. \A s \in Sites : \A i \in DOMAIN price[s] :
          i \in DOMAIN price'[s] /\ (price[s][i].status # "draft" => price'[s][i].status # "draft")
    BY <1>10, <2>2, PricesGrow
  <2>4. \A s \in Sites : /\ site'[s].version >= site[s].version
                         /\ relation[s].deployed => relation'[s].deployed /\ relation'[s].version >= relation[s].version
    BY <1>2, <1>7, <1>8, SiteFields
  <2>5. supplier'.version >= supplier.version
    BY <1>1, <1>2, SiteFields
  <2> QED
    BY <2>3, <2>4, <2>5 DEF Grown
<1> QED
  BY <1>2, <1>7, <1>10, <1>11 DEF t

LEMMA PublishPriceRows ==
    ASSUME RowsTyped, NEW m \in Asked, m.kind = "publish", NEW basis, Publishable(m, basis)
    PROVE  /\ m.site \in Sites /\ m.price \in DOMAIN price[m.site]
           /\ PublishPrice(m) \in [Sites -> Seq(PriceRow)]
           /\ InForce(PublishPrice(m)[m.site]) = {m.price}
           /\ DOMAIN PublishPrice(m)[m.site] = DOMAIN price[m.site]
           /\ PublishPrice(m)[m.site][m.price].status # "draft"
           /\ \A s \in Sites : s # m.site => PublishPrice(m)[s] = price[s]
           /\ \A i \in DOMAIN price[m.site] :
                 price[m.site][i].status # "draft" => PublishPrice(m)[m.site][i].status # "draft"
<1> DEFINE t == m.site
           q == price[t]
           row(i) == IF i = m.price THEN [q[i] EXCEPT !.status = "published"]
                     ELSE IF q[i].status \in {"published", "applied"}
                     THEN [q[i] EXCEPT !.status = "superseded"] ELSE q[i]
           r == [i \in DOMAIN q |-> row(i)]
<1>1. t \in Sites /\ m.price \in Nat \ {0}
  BY DEF Asked
<1>2. m.price = Len(q) /\ price \in [Sites -> Seq(PriceRow)] /\ q \in Seq(PriceRow)
  BY <1>1 DEF RowsTyped, Publishable
<1>3. PublishPrice(m) = [price EXCEPT ![t] = r]
  BY Zenon DEF PublishPrice
<1>4. m.price \in DOMAIN q /\ \A i \in DOMAIN q : q[i] \in PriceRow
  BY <1>1, <1>2, SequenceOf
<1>5. ASSUME NEW i \in DOMAIN q
      PROVE  /\ row(i) \in PriceRow
             /\ row(i).status \in {"published", "applied"} <=> i = m.price
             /\ q[i].status # "draft" => row(i).status # "draft"
             /\ i = m.price => row(i).status # "draft"
  <2> HIDE DEF q
  <2>1. q[i] \in PriceRow
    BY <1>4
  <2>2. /\ [q[i] EXCEPT !.status = "published"] = [status |-> "published", basis |-> q[i].basis]
        /\ [q[i] EXCEPT !.status = "superseded"] = [status |-> "superseded", basis |-> q[i].basis]
    BY <2>1, PriceSaved
  <2>3. row(i) = IF i = m.price THEN [status |-> "published", basis |-> q[i].basis]
                 ELSE IF q[i].status \in {"published", "applied"}
                 THEN [status |-> "superseded", basis |-> q[i].basis] ELSE q[i]
    BY Zenon, <2>2
  <2> HIDE DEF row
  <2> QED
    BY <2>1, <2>3 DEF PriceRow
<1> HIDE DEF row
<1>6. DOMAIN r = DOMAIN q /\ \A i \in DOMAIN q : r[i] = row(i)
  BY Zenon
<1>7. r = [i \in DOMAIN q |-> r[i]]
  BY Zenon
<1> HIDE DEF q, r
<1>8. r \in Seq(PriceRow)
  BY <1>2, <1>5, <1>6, <1>7, Rewritten
<1>9. InForce(r) = {m.price}
  BY <1>4, <1>5, <1>6 DEF InForce
<1> HIDE DEF t
<1>10. /\ PublishPrice(m) \in [Sites -> Seq(PriceRow)] /\ PublishPrice(m)[t] = r
       /\ \A s \in Sites : s # t => PublishPrice(m)[s] = price[s]
  BY <1>1, <1>2, <1>3, <1>8
<1> QED
  BY <1>1, <1>4, <1>5, <1>6, <1>9, <1>10 DEF t, q

LEMMA PublishMutation ==
    ASSUME RowsTyped, Deployments, NewestPlanIsCurrent, Credentials,
           NEW m \in Asked, m.kind = "publish", NEW bases \in [Sites -> Nat], NEW basis,
           Publishable(m, basis),
           relation' = [relation EXCEPT ![m.site].version = @ + 1],
           UNCHANGED <<supplier, revoked, sealed, site, channel>>,
           Publish({m.site}, m.kind, bases, PublishPrice(m))
    PROVE  /\ Mutated(m) /\ Grown
           /\ m.price \in DOMAIN price[m.site] /\ price[m.site][m.price].status = "draft"
           /\ m.price \in DOMAIN price'[m.site] /\ price'[m.site][m.price].status # "draft"
<1> DEFINE t == m.site
           prices == PublishPrice(m)
<1>1. /\ t \in Sites /\ m.price \in DOMAIN price[t]
      /\ prices \in [Sites -> Seq(PriceRow)] /\ InForce(prices[t]) = {m.price}
      /\ DOMAIN prices[t] = DOMAIN price[t] /\ prices[t][m.price].status # "draft"
      /\ \A s \in Sites : s # t => prices[s] = price[s]
      /\ \A i \in DOMAIN price[t] : price[t][i].status # "draft" => prices[t][i].status # "draft"
  BY PublishPriceRows
<1>2. Publish({t}, m.kind, bases, prices) /\ m.site = t /\ m.kind \notin OfSupplier
  BY DEF OfSupplier
<1>3. price[t][m.price].status = "draft"
  BY DEF Publishable
<1>4. site \in [Sites -> SiteRow] /\ relation \in [Sites -> RelationRow]
  BY DEF RowsTyped
<1>5. relation' = [relation EXCEPT ![t] = [relation[t] EXCEPT !.version = relation[t].version + 1]]
  BY Zenon
<1> HIDE DEF t, prices
<1>6. /\ relation' \in [Sites -> RelationRow]
      /\ relation'[t].deployed = relation[t].deployed /\ relation'[t].version = relation[t].version + 1
      /\ \A s \in Sites : s # t => relation'[s] = relation[s]
  <2>1. relation[t] \in RelationRow /\ relation[t].version + 1 \in Nat
    BY <1>1, SiteFields
  <2>2. [relation[t] EXCEPT !.version = relation[t].version + 1] =
            [deployed |-> relation[t].deployed, desired |-> relation[t].desired, version |-> relation[t].version + 1]
    BY Z3, <2>1 DEF RelationRow
  <2>3. relation' = [relation EXCEPT ![t] = [deployed |-> relation[t].deployed, desired |-> relation[t].desired,
                                             version |-> relation[t].version + 1]]
    BY Zenon, <1>5, <2>2
  <2>4. [deployed |-> relation[t].deployed, desired |-> relation[t].desired,
         version |-> relation[t].version + 1] \in RelationRow
    BY <2>1 DEF RelationRow
  <2> DEFINE row == [deployed |-> relation[t].deployed, desired |-> relation[t].desired,
                     version |-> relation[t].version + 1]
  <2>5. row.deployed = relation[t].deployed /\ row.version = relation[t].version + 1
    OBVIOUS
  <2>6. relation' = [relation EXCEPT ![t] = row] /\ row \in RelationRow
    BY Zenon, <2>3, <2>4
  <2> HIDE DEF row
  <2>7. relation' \in [Sites -> RelationRow] /\ relation'[t] = row
        /\ \A s \in Sites : s # t => relation'[s] = relation[s]
    BY <1>1, <1>4, <2>6
  <2> QED
    BY <2>5, <2>7
<1>7. relation[t].deployed
  BY <1>1 DEF Deployments
<1>8. /\ site' \in [Sites -> SiteRow] /\ \A s \in Sites : site'[s] = site[s]
      /\ UNCHANGED <<supplier, revoked, sealed, channel>>
  BY <1>4
<1>9. \E i \in DOMAIN prices[t] : InForce(prices[t]) = {i}
  BY <1>1
<1>10. Mutated(m) /\ Published({t}, prices)
  BY <1>1, <1>2, <1>6, <1>7, <1>8, <1>9, SitePublished
<1>11. Grown
  <2>1. \A s \in Sites : \A i \in DOMAIN price[s] :
          i \in DOMAIN prices[s] /\ (price[s][i].status # "draft" => prices[s][i].status # "draft")
    BY <1>1
  <2>2. \A s \in Sites : \A i \in DOMAIN price[s] :
          i \in DOMAIN price'[s] /\ (price[s][i].status # "draft" => price'[s][i].status # "draft")
    BY <1>10, <2>1, PricesGrow
  <2>3. \A s \in Sites : /\ site'[s].version >= site[s].version
                         /\ relation[s].deployed => relation'[s].deployed /\ relation'[s].version >= relation[s].version
    BY <1>1, <1>6, <1>7, <1>8, SiteFields
  <2>4. supplier'.version >= supplier.version
    BY <1>1, <1>8, SiteFields
  <2> QED
    BY <2>2, <2>3, <2>4 DEF Grown
<1>12. m.price \in DOMAIN price'[t] /\ price'[t][m.price].status # "draft"
  BY <1>1, <1>10 DEF Published
<1> QED
  BY <1>1, <1>3, <1>10, <1>11, <1>12 DEF t

LEMMA DraftMutation ==
    ASSUME RowsTyped, Deployments, NewestPlanIsCurrent, Credentials,
           NEW m \in Asked, m.kind = "draft", NEW basis \in Nat,
           relation[m.site].deployed, Tables, price' = DraftPrice(m.site, basis), UNCHANGED <<plan, op>>
    PROVE  Mutated(m) /\ Grown
<1> DEFINE t == m.site
           row == [status |-> "draft", basis |-> basis]
<1>1. t \in Sites /\ m.kind \notin OfSupplier /\ row \in PriceRow
  BY DEF Asked, OfSupplier, PriceRow
<1>2. price \in [Sites -> Seq(PriceRow)] /\ price' = [price EXCEPT ![t] = Append(price[t], row)]
  BY Zenon DEF RowsTyped, DraftPrice
<1>3. row.status = "draft"
  OBVIOUS
<1> HIDE DEF row, t
<1>4. /\ Append(price[t], row) \in Seq(PriceRow)
      /\ \A i \in DOMAIN price[t] : i \in DOMAIN Append(price[t], row) /\ Append(price[t], row)[i] = price[t][i]
      /\ Append(price[t], row)[Len(price[t]) + 1] = row
      /\ DOMAIN Append(price[t], row) = DOMAIN price[t] \cup {Len(price[t]) + 1}
  <2>1. price[t] \in Seq(PriceRow)
    BY <1>1, <1>2
  <2> QED
    BY <1>1, <2>1, Appended
<1>5. /\ price' \in [Sites -> Seq(PriceRow)] /\ price'[t] = Append(price[t], row)
      /\ \A s \in Sites : s # t => price'[s] = price[s]
  BY <1>1, <1>2, <1>4
<1>6. InForce(price'[t]) = InForce(price[t])
  BY <1>3, <1>4, <1>5 DEF InForce
<1>7. \A s \in Sites : /\ InForce(price'[s]) = InForce(price[s])
                       /\ \A i \in DOMAIN price[s] : i \in DOMAIN price'[s] /\ price'[s][i] = price[s][i]
  BY <1>4, <1>5, <1>6
<1>8. \A s \in Sites : Current(s)' = Current(s)
  BY <1>7 DEF Current, InForce
<1>9. UNCHANGED <<supplier, revoked, sealed, site, relation, channel, plan, op>>
  BY DEF Tables
<1>10. RowsTyped'
  BY <1>5, <1>9 DEF RowsTyped
<1>11. Credentials' /\ (Rotating' <=> Rotating)
  BY <1>9 DEF Credentials, Rotating
<1>12. Deployments'
  <2> SUFFICES ASSUME NEW s \in Sites
               PROVE  IF relation[s].deployed
                      THEN plan[s] # <<>> /\ \E i \in DOMAIN price'[s] : Current(s) = {i}
                      ELSE /\ plan[s] = <<>> /\ price'[s] = <<>> /\ op[s] = "none"
                           /\ ~channel[s].bound /\ channel[s].key = NoCredential
    BY <1>8, <1>9 DEF Deployments
  <2>1. CASE relation[s].deployed
    BY <1>7, <2>1 DEF Deployments
  <2>2. CASE ~relation[s].deployed
    BY <1>5, <2>2 DEF Deployments, t
  <2> QED
    BY <2>1, <2>2
<1>13. NewestPlanIsCurrent'
  BY <1>8, <1>9 DEF NewestPlanIsCurrent, Deployed, NewestPlan
<1>14. Mutated(m)
  BY <1>9, <1>10, <1>11, <1>12, <1>13 DEF Mutated, Rotating
<1>15. Grown
  BY <1>1, <1>7, <1>9, SiteFields DEF Grown
<1> QED
  BY <1>14, <1>15

LEMMA ApplyEffect ==
    ASSUME RowsTyped, Deployments, NewestPlanIsCurrent, Credentials,
           NEW m \in Asked, NEW basis \in Nat, Apply(m, basis)
    PROVE  Mutated(m) /\ Grown /\ (m.kind \notin Repeatable => ~Spent(m) /\ Spent(m)')
<1> DEFINE bases == [s \in Sites |-> IF m.kind \notin OfSupplier /\ s = m.site THEN basis ELSE Unknown]
           all == Publish(Locks(m), m.kind, bases, price)
           first == [price EXCEPT ![m.site] = <<[status |-> "published", basis |-> basis]>>]
<1>1. bases \in [Sites -> Nat]
  BY DEF Unknown
<1>2. \/ m.kind = "site" /\ SaveSite(m) /\ all
      \/ m.kind = "supplier" /\ SaveSupplier(m) /\ all
      \/ m.kind = "rotate" /\ RotateCredential(m) /\ all
      \/ m.kind = "cancel" /\ CancelCredential(m) /\ all
      \/ m.kind = "restore" /\ Restore(m) /\ all
      \/ m.kind = "sync" /\ Tables /\ all
      \/ m.kind = "relation" /\ SaveRelation(m) /\ all
      \/ m.kind = "deploy" /\ Deploy(m) /\ Publish({m.site}, m.kind, bases, first)
      \/ m.kind = "draft" /\ relation[m.site].deployed
         /\ Tables /\ price' = DraftPrice(m.site, basis) /\ UNCHANGED <<plan, op>>
      \/ m.kind = "publish" /\ Publishable(m, basis)
         /\ relation' = [relation EXCEPT ![m.site].version = @ + 1]
         /\ UNCHANGED <<supplier, revoked, sealed, site, channel>>
         /\ Publish({m.site}, m.kind, bases, PublishPrice(m))
  BY Zenon DEF Apply
<1> HIDE DEF bases
<1>3. supplier.version \in Nat /\ (m.kind \notin OfSupplier => m.site \in Sites)
  BY DEF RowsTyped, SupplierRow, Asked, OfSupplier
<1>4. CASE m.kind \in OfSupplier
  <2>1. /\ \/ m.kind = "supplier" /\ SaveSupplier(m)
           \/ m.kind = "rotate" /\ RotateCredential(m)
           \/ m.kind = "cancel" /\ CancelCredential(m)
        /\ all
    BY <1>2, <1>4 DEF OfSupplier
  <2>2. Mutated(m) /\ supplier.version = m.version /\ supplier'.version = m.version + 1
    BY <1>1, <1>4, <2>1, SupplierMutation
  <2>3. UNCHANGED <<site, relation>>
    BY <2>1 DEF SaveSupplier, RotateCredential, CancelCredential
  <2>4. Published(Deployed, price)
    <3>1. supplier' \in SupplierRow /\ sealed' \in Nat /\ channel' = channel
      BY <2>2 DEF Mutated, RowsTyped
    <3>2. Publish(Deployed, m.kind, bases, price)
      BY <1>4, <2>1 DEF Locks, SitesOfSupplier
    <3> QED
      BY <1>1, <2>3, <3>1, <3>2, SupplierPublished
  <2>5. Grown
    <3>1. \A s \in Sites : \A i \in DOMAIN price[s] :
            i \in DOMAIN price'[s] /\ (price[s][i].status # "draft" => price'[s][i].status # "draft")
      BY <2>4, PricesGrow
    <3>2. \A s \in Sites : /\ site'[s].version >= site[s].version
                           /\ relation[s].deployed => relation'[s].deployed /\ relation'[s].version >= relation[s].version
      BY <2>3, SiteFields
    <3>3. supplier'.version >= supplier.version
      BY <1>3, <2>2
    <3> QED
      BY <3>1, <3>2, <3>3 DEF Grown
  <2>6. ~Spent(m)
    BY <1>3, <1>4, <2>2 DEF Spent
  <2>7. Spent(m)'
    BY <1>3, <1>4, <2>2 DEF Spent, OfSupplier
  <2> QED
    BY <2>2, <2>5, <2>6, <2>7
<1>5. CASE m.kind = "site"
  <2>1. /\ Mutated(m) /\ Grown
        /\ site[m.site].version = m.version /\ site'[m.site].version > m.version
    BY <1>1, <1>2, <1>5, SaveSiteMutation DEF OfSupplier
  <2>2. site[m.site].version \in Nat
    BY <1>3, <1>5, SiteFields DEF OfSupplier
  <2>3. ~Spent(m) /\ Spent(m)'
    BY <1>5, <2>1, <2>2 DEF Spent, OfSupplier
  <2> QED
    BY <2>1, <2>3
<1>6. CASE m.kind = "restore"
  BY <1>1, <1>2, <1>6, RestoreMutation DEF Repeatable
<1>7. CASE m.kind = "sync"
  BY <1>1, <1>2, <1>7, SyncMutation DEF Repeatable
<1>8. CASE m.kind = "relation"
  <2>1. /\ Mutated(m) /\ Grown
        /\ relation[m.site].version = m.version
        /\ relation'[m.site].version > m.version /\ relation'[m.site].deployed
    BY <1>1, <1>2, <1>8, SaveRelationMutation
  <2>2. relation[m.site].version \in Nat
    BY <1>3, <1>8, SiteFields DEF OfSupplier
  <2>3. ~Spent(m) /\ Spent(m)'
    BY <1>8, <2>1, <2>2 DEF Spent, OfSupplier
  <2> QED
    BY <2>1, <2>3
<1>9. CASE m.kind = "deploy"
  <2>1. Mutated(m) /\ Grown /\ ~relation[m.site].deployed /\ relation'[m.site].deployed
    BY <1>1, <1>2, <1>9, DeployMutation
  <2>2. ~Spent(m) /\ Spent(m)'
    BY <1>9, <2>1 DEF Spent, OfSupplier
  <2> QED
    BY <2>1, <2>2
<1>10. CASE m.kind = "draft"
  <2> HIDE DEF first
  <2> QED
    BY <1>2, <1>10, DraftMutation DEF Repeatable
<1>11. CASE m.kind = "publish"
  <2>1. /\ Mutated(m) /\ Grown
        /\ m.price \in DOMAIN price[m.site] /\ price[m.site][m.price].status = "draft"
        /\ m.price \in DOMAIN price'[m.site] /\ price'[m.site][m.price].status # "draft"
    <3>1. /\ Publishable(m, basis)
          /\ relation' = [relation EXCEPT ![m.site].version = @ + 1]
          /\ UNCHANGED <<supplier, revoked, sealed, site, channel>>
          /\ Publish({m.site}, m.kind, bases, PublishPrice(m))
      BY Zenon, <1>2, <1>11
    <3> QED
      BY Zenon, <1>1, <1>11, <3>1, PublishMutation
  <2>2. ~Spent(m) /\ Spent(m)'
    BY <1>11, <2>1 DEF Spent, OfSupplier
  <2> QED
    BY <2>1, <2>2
<1> QED
  BY <1>2, <1>4, <1>5, <1>6, <1>7, <1>8, <1>9, <1>10, <1>11 DEF OfSupplier
-----------------------------------------------------------------------------
(***************************************************************************)
(* The runs.  A run holds its site's lock, so that the plan it carries out *)
(* stays the newest one, and the gateway is left where the last operation  *)
(* put it.                                                                 *)
(***************************************************************************)
GatewayRow == [state : ManagedState, basis : Nat]

LEMMA ManagedFields ==
    ASSUME NEW r \in ManagedState
    PROVE  /\ r.status \in {"absent", "stopped", "enabled"}
           /\ r.key \in Nat /\ r.version \in Nat /\ r.price \in Nat
           /\ \A p \in Nat : [r EXCEPT !.price = p] = [status |-> r.status, key |-> r.key, version |-> r.version, price |-> p]
  BY Z3 DEF ManagedState

LEMMA NoChannelFields ==
    /\ NoChannel \in ManagedState /\ NoChannel.status = "absent"
  BY CredentialAssumption DEF NoChannel, ManagedState

LEMMA RunFields ==
    ASSUME RunsTyped, NEW s \in Sites
    PROVE  /\ gateway[s] \in GatewayRow /\ gateway[s].state \in ManagedState /\ gateway[s].basis \in Nat
           /\ Busy(s) <=> run[s] \in RunRow
           /\ Busy(s) => /\ run[s].pc \in {"put", "confirm", "prices", "complete"}
                         /\ run[s].op \in Nat /\ run[s].before \in ManagedState /\ run[s].plan \in RunPlan
                         /\ run[s].plan.key \in Nat /\ run[s].plan.version \in Nat /\ run[s].plan.price \in Nat
                         /\ run[s].plan.enabled \in BOOLEAN /\ run[s].plan.available \in BOOLEAN
           /\ ~Busy(s) <=> run[s] = Idle
<1>1. gateway[s] \in GatewayRow /\ (run[s] = Idle \/ run[s] \in RunRow)
  BY DEF RunsTyped, GatewayRow
<1>2. gateway[s].state \in ManagedState /\ gateway[s].basis \in Nat
  BY <1>1 DEF GatewayRow
<1>3. Idle.pc = "idle"
  BY DEF Idle
<1>4. CASE run[s] = Idle
  <2>1. Idle \notin RunRow
    BY <1>3 DEF RunRow
  <2> QED
    BY <1>1, <1>2, <1>3, <1>4, <2>1 DEF Busy
<1>5. CASE run[s] \in RunRow
  <2>1. /\ run[s].pc \in {"put", "confirm", "prices", "complete"} /\ run[s].op \in Nat
        /\ run[s].before \in ManagedState /\ run[s].plan \in RunPlan
    BY <1>5 DEF RunRow
  <2>2. /\ run[s].plan.key \in Nat /\ run[s].plan.version \in Nat /\ run[s].plan.price \in Nat
        /\ run[s].plan.enabled \in BOOLEAN /\ run[s].plan.available \in BOOLEAN
    BY <2>1 DEF RunPlan
  <2> QED
    BY <1>1, <1>2, <1>3, <1>5, <2>1, <2>2 DEF Busy
<1> QED
  BY <1>1, <1>4, <1>5

\* What a plan makes of the state that was read.
LEMMA ManagedServes ==
    ASSUME NEW now \in ManagedState, NEW p \in PlanRow, NEW q \in RunPlan,
           q.key = p.key, q.version = p.version, q.enabled = p.enabled, q.price = p.price, q.available
    PROVE  /\ Managed(now, q) \in ManagedState /\ Serves(Managed(now, q), p)
           /\ Managed(now, q).key \in {now.key, p.key}
           /\ now.key = p.key => Managed(now, q).key = p.key
<1>1. /\ p.key \in Nat /\ p.version \in Nat /\ p.price \in Nat /\ p.enabled \in BOOLEAN
      /\ now.status \in {"absent", "stopped", "enabled"} /\ now.key \in Nat /\ now.version \in Nat
  BY ManagedFields DEF PlanRow
<1>2. CASE p.enabled
  <2>1. Managed(now, q) = [status |-> "enabled", key |-> p.key, version |-> p.version, price |-> p.price]
    BY <1>2 DEF Managed
  <2>2. Managed(NoChannel, p) = [status |-> "enabled", key |-> p.key, version |-> p.version, price |-> p.price]
    BY <1>2 DEF Managed
  <2>3. Managed(now, q) \in ManagedState /\ Managed(now, q).price = p.price /\ Managed(now, q).key = p.key
    BY <1>1, <2>1 DEF ManagedState
  <2> QED
    BY <1>2, <2>1, <2>2, <2>3 DEF Serves
<1>3. CASE ~p.enabled /\ now.status = "absent"
  <2>1. Managed(now, q) = [now EXCEPT !.price = p.price]
    BY Zenon, <1>3 DEF Managed
  <2>2. Managed(now, q) = [status |-> "absent", key |-> now.key, version |-> now.version, price |-> p.price]
    BY <1>1, <1>3, <2>1, ManagedFields
  <2>3. /\ Managed(now, q) \in ManagedState /\ Managed(now, q).price = p.price /\ Managed(now, q).key = now.key
        /\ Managed(now, q).status = "absent"
    BY <1>1, <2>2 DEF ManagedState
  <2> QED
    BY <1>3, <2>3 DEF Serves
<1>4. CASE ~p.enabled /\ now.status # "absent"
  <2>1. Managed(now, q) = [status |-> "stopped", key |-> p.key, version |-> p.version, price |-> p.price]
    BY <1>4 DEF Managed
  <2>2. /\ Managed(now, q) \in ManagedState /\ Managed(now, q).price = p.price /\ Managed(now, q).key = p.key
        /\ Managed(now, q).status = "stopped"
    BY <1>1, <2>1 DEF ManagedState
  <2> QED
    BY <1>4, <2>2 DEF Serves
<1> QED
  BY <1>1, <1>2, <1>3, <1>4

\* What Busy tells of a site.
LEMMA BusySite ==
    ASSUME OpsInv, NEW s \in Sites, Busy(s)
    PROVE  /\ relation[s].deployed /\ site[s].status = "enabled" /\ op[s] # "succeeded"
           /\ NewestPlan(s) \in Nat \ {0} /\ NewestPlan(s) \in DOMAIN plan[s]
           /\ plan[s][NewestPlan(s)] \in PlanRow
           /\ run[s].op = NewestPlan(s) /\ run[s].plan.available
           /\ run[s].plan.key = supplier.pending.key /\ run[s].plan.version = supplier.pending.version
           /\ plan[s][NewestPlan(s)].key = supplier.pending.key
           /\ run[s].plan.enabled = plan[s][NewestPlan(s)].enabled
           /\ run[s].plan.price = plan[s][NewestPlan(s)].price
           /\ supplier.pending.key \in (1 .. sealed) \ revoked
<1>1. /\ relation[s].deployed /\ site[s].status = "enabled" /\ op[s] # "succeeded"
      /\ run[s].op = NewestPlan(s) /\ run[s].plan.available
      /\ run[s].plan.key = plan[s][NewestPlan(s)].key /\ run[s].plan.version = plan[s][NewestPlan(s)].version
      /\ run[s].plan.enabled = plan[s][NewestPlan(s)].enabled
      /\ run[s].plan.price = plan[s][NewestPlan(s)].price
  BY DEF OpsInv, RunsAreCurrent
<1>2. plan[s] \in Seq(PlanRow) /\ plan[s] # <<>>
  BY <1>1 DEF OpsInv, RowsTyped, Deployments
<1>3. NewestPlan(s) \in Nat \ {0} /\ NewestPlan(s) \in DOMAIN plan[s] /\ plan[s][NewestPlan(s)] \in PlanRow
  BY <1>2, SequenceOf DEF NewestPlan
<1>4. /\ plan[s][NewestPlan(s)].key = supplier.pending.key
      /\ plan[s][NewestPlan(s)].version = supplier.pending.version
  <2>1. [key |-> plan[s][NewestPlan(s)].key, version |-> plan[s][NewestPlan(s)].version] = supplier.pending
    BY <1>1 DEF OpsInv, NewestPlanIsCurrent, Deployed
  <2> QED
    BY <2>1
<1> QED
  BY <1>1, <1>3, <1>4 DEF OpsInv, Credentials

\* Only the operations have changed.
LEMMA OnlyOperations ==
    ASSUME OpsInv, UNCHANGED <<supplier, revoked, sealed, site, relation, price, plan, channel>>,
           op' \in [Sites -> OpStatus], \A s \in Sites : op'[s] = op[s] \/ relation[s].deployed
    PROVE  RowsTyped' /\ Deployments' /\ Credentials' /\ NewestPlanIsCurrent'
<1>1. RowsTyped' /\ Credentials'
  BY DEF OpsInv, RowsTyped, Credentials, Rotating
<1>2. \A s \in Sites : Current(s)' = Current(s)
  BY DEF Current
<1>3. Deployments'
  BY <1>2 DEF OpsInv, Deployments
<1>4. NewestPlanIsCurrent'
  BY <1>2 DEF OpsInv, NewestPlanIsCurrent, Deployed, NewestPlan
<1> QED
  BY <1>1, <1>3, <1>4

\* A run's next place.
LEMMA RunGoes ==
    ASSUME RunsTyped, NEW s \in Sites, Busy(s), NEW place \in {"put", "confirm", "prices", "complete"},
           Goto(s, place)
    PROVE  /\ run' \in [Sites -> {Idle} \cup RunRow] /\ Busy(s)'
           /\ run'[s].pc = place /\ run'[s].op = run[s].op /\ run'[s].plan = run[s].plan
           /\ \A q \in Sites : q # s => run'[q] = run[q]
<1>1. run[s] \in RunRow /\ run \in [Sites -> {Idle} \cup RunRow]
  BY RunFields DEF RunsTyped
<1>2. run' = [run EXCEPT ![s] = [run[s] EXCEPT !.pc = place]]
  BY Zenon DEF Goto
<1>3. [run[s] EXCEPT !.pc = place] = [pc |-> place, op |-> run[s].op, before |-> run[s].before, plan |-> run[s].plan]
  BY Z3, <1>1 DEF RunRow
<1> DEFINE row == [pc |-> place, op |-> run[s].op, before |-> run[s].before, plan |-> run[s].plan]
<1>4. row \in RunRow /\ row.pc = place /\ row.op = run[s].op /\ row.plan = run[s].plan
  BY <1>1 DEF RunRow
<1>5. run' = [run EXCEPT ![s] = row]
  BY Zenon, <1>2, <1>3
<1> HIDE DEF row
<1>6. run' \in [Sites -> {Idle} \cup RunRow] /\ run'[s] = row /\ \A q \in Sites : q # s => run'[q] = run[q]
  BY <1>1, <1>4, <1>5
<1> QED
  BY <1>4, <1>6 DEF Busy

LEMMA RunEnds ==
    ASSUME RunsTyped, NEW s \in Sites, run' = [run EXCEPT ![s] = Idle]
    PROVE  /\ run' \in [Sites -> {Idle} \cup RunRow] /\ ~Busy(s)' /\ run'[s].pc = "idle"
           /\ \A q \in Sites : q # s => run'[q] = run[q]
<1>1. run'[s] = Idle /\ \A q \in Sites : q # s => run'[q] = run[q]
  BY DEF RunsTyped
<1>2. run' \in [Sites -> {Idle} \cup RunRow]
  BY DEF RunsTyped
<1> QED
  BY <1>1, <1>2 DEF Busy, Idle

\* An operation goes to the gateway, or nothing does.
LEMMA PutEffect ==
    ASSUME OpsInv, NEW s \in Sites, Busy(s),
           \/ UNCHANGED remote
           \/ gateway[s].state = run[s].before /\ Install(s)
    PROVE  /\ gateway' \in [Sites -> GatewayRow] /\ answered' \in [Sites -> {NoAnswer} \cup AnswerRow]
           /\ \A q \in Sites : q # s => gateway'[q] = gateway[q] /\ answered'[q] = answered[q]
           /\ answered'[s].op # 0 =>
                /\ answered'[s].op \in 1 .. NewestPlan(s)
                /\ gateway'[s].state = answered'[s].left
                /\ Serves(gateway'[s].state, plan[s][answered'[s].op])
           /\ gateway'[s].state.key \in {gateway[s].state.key, supplier.pending.key}
           /\ gateway[s].state.key = supplier.pending.key => gateway'[s].state.key = supplier.pending.key
           /\ answered'[s].op \in {answered[s].op, run[s].op}
           /\ Install(s) => answered'[s].op = run[s].op
<1> DEFINE p == plan[s][NewestPlan(s)]
           w == Wanted(s)
           row == [op |-> run[s].op, expected |-> run[s].before, left |-> w, basis |-> gateway[s].basis]
<1>1. /\ run[s].op = NewestPlan(s) /\ run[s].op \in Nat \ {0} /\ p \in PlanRow /\ p.key = supplier.pending.key
      /\ run[s].plan.key = p.key /\ run[s].plan.version = p.version
      /\ run[s].plan.enabled = p.enabled /\ run[s].plan.price = p.price /\ run[s].plan.available
  <2>1. run[s].plan.version = p.version
    BY DEF OpsInv, RunsAreCurrent
  <2> QED
    BY <2>1, BusySite
<1>2. /\ run[s].before \in ManagedState /\ run[s].plan \in RunPlan /\ gateway[s].basis \in Nat
      /\ gateway[s].state \in ManagedState /\ gateway[s] \in GatewayRow
  BY RunFields DEF OpsInv
<1>3. /\ gateway \in [Sites -> GatewayRow] /\ answered \in [Sites -> {NoAnswer} \cup AnswerRow]
  BY DEF OpsInv, RunsTyped, GatewayRow
<1>4. /\ answered[s].op # 0 =>
            /\ answered[s].op \in 1 .. NewestPlan(s)
            /\ gateway[s].state = answered[s].left
            /\ Serves(gateway[s].state, plan[s][answered[s].op])
  BY DEF OpsInv, AnswersServe
<1> HIDE DEF p
<1>5. CASE gateway[s].state = run[s].before /\ Install(s)
  <2>1. /\ w \in ManagedState /\ Serves(w, p)
        /\ w.key \in {run[s].before.key, p.key}
        /\ run[s].before.key = p.key => w.key = p.key
    BY <1>1, <1>2, ManagedServes DEF Wanted
  <2>2. /\ gateway' = [gateway EXCEPT ![s] = [gateway[s] EXCEPT !.state = w]]
        /\ answered' = [answered EXCEPT ![s] = row]
    BY Zenon, <1>5 DEF Install
  <2> HIDE DEF w
  <2>3. [gateway[s] EXCEPT !.state = w] = [state |-> w, basis |-> gateway[s].basis]
    BY Z3, <1>2 DEF GatewayRow
  <2> DEFINE state == [state |-> w, basis |-> gateway[s].basis]
  <2>4. state \in GatewayRow /\ state.state = w
    BY <1>2, <2>1 DEF GatewayRow
  <2>5. gateway' = [gateway EXCEPT ![s] = state]
    BY Zenon, <2>2, <2>3
  <2>6. row \in AnswerRow /\ row.op = run[s].op /\ row.left = w
    BY <1>1, <1>2, <2>1 DEF AnswerRow
  <2> HIDE DEF row, state
  <2>7. /\ gateway' \in [Sites -> GatewayRow] /\ gateway'[s] = state
        /\ \A q \in Sites : q # s => gateway'[q] = gateway[q]
    BY <1>3, <2>4, <2>5
  <2>8. /\ answered' \in [Sites -> {NoAnswer} \cup AnswerRow] /\ answered'[s] = row
        /\ \A q \in Sites : q # s => answered'[q] = answered[q]
    BY <1>3, <2>2, <2>6
  <2>9. plan[s][answered'[s].op] = p /\ answered'[s].op \in 1 .. NewestPlan(s)
    BY <1>1, <2>6, <2>8 DEF p
  <2> QED
    BY <1>1, <1>5, <2>1, <2>4, <2>6, <2>7, <2>8, <2>9
<1>6. CASE UNCHANGED remote /\ ~Install(s)
  BY <1>3, <1>4, <1>6 DEF remote
<1>7. CASE UNCHANGED remote /\ Install(s)
  <2>1. answered' = [answered EXCEPT ![s] = row] /\ answered' = answered
    BY Zenon, <1>7 DEF Install, remote
  <2>2. row.op = run[s].op
    OBVIOUS
  <2> HIDE DEF row
  <2>3. answered'[s].op = run[s].op
    BY <1>3, <2>1, <2>2
  <2> QED
    BY <1>3, <1>4, <1>7, <2>3 DEF remote
<1> QED
  BY <1>5, <1>6, <1>7

LEMMA RunMoves ==
    ASSUME OpsInv, NEW s \in Sites, Busy(s),
           UNCHANGED <<supplier, revoked, sealed, site, relation, price, plan, channel>>,
           NEW st \in OpStatus \ {"succeeded"}, op' = [op EXCEPT ![s] = st],
           \/ UNCHANGED remote
           \/ gateway[s].state = run[s].before /\ Install(s),
           \/ run' = [run EXCEPT ![s] = Idle]
           \/ Goto(s, "confirm") /\ answered'[s].op = run[s].op
    PROVE  OpsInv'
<1>1. /\ relation[s].deployed /\ site[s].status = "enabled" /\ run[s].plan.available
      /\ run[s].op = NewestPlan(s)
  BY BusySite
<1>2. op' \in [Sites -> OpStatus] /\ op'[s] = st /\ \A q \in Sites : q # s => op'[q] = op[q]
  BY DEF OpsInv, RowsTyped
<1>3. RowsTyped' /\ Deployments' /\ Credentials' /\ NewestPlanIsCurrent'
  BY <1>1, <1>2, OnlyOperations
<1>4. /\ run' \in [Sites -> {Idle} \cup RunRow]
      /\ \A q \in Sites : q # s => run'[q] = run[q]
      /\ \/ ~Busy(s)' /\ run'[s].pc = "idle"
         \/ /\ Busy(s)' /\ run'[s].pc = "confirm" /\ run'[s].op = run[s].op /\ run'[s].plan = run[s].plan
            /\ answered'[s].op = run[s].op
  <2>1. CASE run' = [run EXCEPT ![s] = Idle]
    BY <2>1, RunEnds DEF OpsInv
  <2>2. CASE Goto(s, "confirm") /\ answered'[s].op = run[s].op
    BY <2>2, RunGoes DEF OpsInv
  <2> QED
    BY <2>1, <2>2
<1>5. /\ gateway' \in [Sites -> GatewayRow] /\ answered' \in [Sites -> {NoAnswer} \cup AnswerRow]
      /\ \A q \in Sites : q # s => gateway'[q] = gateway[q] /\ answered'[q] = answered[q]
      /\ answered'[s].op # 0 =>
           /\ answered'[s].op \in 1 .. NewestPlan(s)
           /\ gateway'[s].state = answered'[s].left
           /\ Serves(gateway'[s].state, plan[s][answered'[s].op])
      /\ gateway[s].state.key = supplier.pending.key => gateway'[s].state.key = supplier.pending.key
  BY PutEffect
<1>6. RunsTyped'
  BY <1>4, <1>5 DEF RunsTyped, GatewayRow
<1>7. plan' = plan /\ \A q \in Sites : NewestPlan(q)' = NewestPlan(q)
  BY DEF NewestPlan
<1>8. \A q \in Sites : q # s => (Busy(q)' <=> Busy(q))
  BY <1>4 DEF Busy
<1>9. RunsAreCurrent'
  <2> SUFFICES ASSUME NEW q \in Sites, Busy(q)'
               PROVE  /\ relation[q].deployed /\ site[q].status = "enabled"
                      /\ run'[q].op = NewestPlan(q) /\ run'[q].plan.available
                      /\ run'[q].plan.key = plan[q][NewestPlan(q)].key
                      /\ run'[q].plan.version = plan[q][NewestPlan(q)].version
                      /\ run'[q].plan.enabled = plan[q][NewestPlan(q)].enabled
                      /\ run'[q].plan.price = plan[q][NewestPlan(q)].price
                      /\ op'[q] # "succeeded"
    BY <1>7 DEF RunsAreCurrent
  <2>1. CASE q = s
    BY <1>2, <1>4, <2>1 DEF OpsInv, RunsAreCurrent
  <2>2. CASE q # s
    BY <1>2, <1>4, <1>8, <2>2 DEF OpsInv, RunsAreCurrent
  <2> QED
    BY <2>1, <2>2
<1>10. AnswersServe'
  <2> SUFFICES ASSUME NEW q \in Sites
               PROVE  /\ answered'[q].op # 0 => /\ answered'[q].op \in 1 .. NewestPlan(q)
                                                /\ gateway'[q].state = answered'[q].left
                                                /\ Serves(gateway'[q].state, plan[q][answered'[q].op])
                      /\ run'[q].pc \in {"confirm", "prices", "complete"} => answered'[q].op = run'[q].op
                      /\ op'[q] = "succeeded" => answered'[q].op = NewestPlan(q) /\ answered'[q].op # 0
    BY <1>7 DEF AnswersServe
  <2>1. CASE q = s
    BY <1>2, <1>4, <1>5, <2>1
  <2>2. CASE q # s
    BY <1>2, <1>4, <1>5, <2>2 DEF OpsInv, AnswersServe
  <2> QED
    BY <2>1, <2>2
<1>11. ConfirmedIsInstalled'
  BY <1>5 DEF OpsInv, ConfirmedIsInstalled, Rotating
<1> QED
  BY <1>3, <1>6, <1>9, <1>10, <1>11 DEF OpsInv

LEMMA StartStep ==
    ASSUME OpsInv, NEW s \in Sites, Start(s)
    PROVE  OpsInv'
<1> DEFINE p == plan[s][NewestPlan(s)]
           available == Available(p)
           row == [pc |-> "put", op |-> NewestPlan(s), before |-> gateway[s].state,
                   plan |-> [key |-> p.key, version |-> p.version, enabled |-> p.enabled, price |-> p.price,
                             basis |-> p.basis, available |-> available]]
<1>1. /\ ~Busy(s) /\ op[s] \in {"pending", "running"}
      /\ UNCHANGED <<supplier, revoked, sealed, site, relation, price, plan, channel>>
      /\ UNCHANGED remote
      /\ \/ /\ site[s].status = "enabled" /\ op' = [op EXCEPT ![s] = "running"]
            /\ run' = [run EXCEPT ![s] = row]
         \/ op' = [op EXCEPT ![s] = "manual"] /\ run' = [run EXCEPT ![s] = Idle]
  BY Zenon DEF Start, Open, Read, MarkSyncRunning, FailOperation, MarkSyncFailed
<1>2. relation[s].deployed /\ plan[s] # <<>>
  BY <1>1 DEF OpsInv, Deployments
<1>3. NewestPlan(s) \in Nat \ {0} /\ p \in PlanRow
  BY <1>2, SequenceOf DEF OpsInv, RowsTyped, NewestPlan
<1>4. /\ op' \in [Sites -> OpStatus] /\ op'[s] \in {"running", "manual"}
      /\ \A q \in Sites : q # s => op'[q] = op[q]
  BY <1>1 DEF OpsInv, RowsTyped, OpStatus
<1>5. RowsTyped' /\ Deployments' /\ Credentials' /\ NewestPlanIsCurrent'
  BY <1>1, <1>2, <1>4, OnlyOperations
<1>6. available \in BOOLEAN
  BY DEF Available
<1>7. site[s].status = "enabled" => available
  <2>1. site[s].status = "enabled" => [key |-> p.key, version |-> p.version] = supplier.pending
    BY <1>2 DEF OpsInv, NewestPlanIsCurrent, Deployed
  <2>2. supplier.pending.key \notin revoked
    BY DEF OpsInv, Credentials
  <2> QED
    BY <2>1, <2>2 DEF Available
<1> HIDE DEF available, p
<1>8. /\ row.pc = "put" /\ row.op = NewestPlan(s) /\ row.plan.key = p.key /\ row.plan.version = p.version
      /\ row.plan.price = p.price
  OBVIOUS
<1>9. row.plan.enabled = p.enabled /\ row.plan.available = available
  OBVIOUS
<1>10. row \in RunRow
  <2>1. /\ p.key \in Nat /\ p.version \in Nat /\ p.enabled \in BOOLEAN /\ p.price \in Nat /\ p.basis \in Nat
    BY <1>3 DEF PlanRow
  <2>2. gateway[s].state \in ManagedState
    BY RunFields DEF OpsInv
  <2>3. row.plan \in RunPlan
    BY <1>6, <2>1 DEF RunPlan
  <2>4. row = [pc |-> "put", op |-> NewestPlan(s), before |-> gateway[s].state, plan |-> row.plan]
    BY Zenon
  <2> HIDE DEF row
  <2> QED
    BY <1>3, <2>2, <2>3, <2>4 DEF RunRow
<1> HIDE DEF row
<1>11. /\ run' \in [Sites -> {Idle} \cup RunRow]
       /\ \A q \in Sites : q # s => run'[q] = run[q]
       /\ \/ run'[s] = row /\ site[s].status = "enabled" /\ op'[s] = "running"
          \/ run'[s] = Idle
  BY <1>1, <1>4, <1>10 DEF OpsInv, RunsTyped, RowsTyped
<1>12. RunsTyped'
  BY <1>1, <1>11 DEF OpsInv, RunsTyped, remote
<1>13. plan' = plan /\ \A q \in Sites : NewestPlan(q)' = NewestPlan(q)
  BY <1>1 DEF NewestPlan
<1>14. RunsAreCurrent'
  <2> SUFFICES ASSUME NEW q \in Sites, Busy(q)'
               PROVE  /\ relation[q].deployed /\ site[q].status = "enabled"
                      /\ run'[q].op = NewestPlan(q) /\ run'[q].plan.available
                      /\ run'[q].plan.key = plan[q][NewestPlan(q)].key
                      /\ run'[q].plan.version = plan[q][NewestPlan(q)].version
                      /\ run'[q].plan.enabled = plan[q][NewestPlan(q)].enabled
                      /\ run'[q].plan.price = plan[q][NewestPlan(q)].price
                      /\ op'[q] # "succeeded"
    BY <1>1, <1>13 DEF RunsAreCurrent
  <2>1. CASE q = s
    <3>1. run'[s] = row /\ site[s].status = "enabled"
      BY <1>11, <2>1 DEF Busy, Idle
    <3>2. row.plan.available
      BY Zenon, <1>7, <1>9, <3>1
    <3> QED
      BY <1>2, <1>4, <1>8, <1>9, <2>1, <3>1, <3>2 DEF p
  <2>2. CASE q # s
    <3>1. Busy(q)
      BY <1>11, <2>2 DEF Busy
    <3> QED
      BY <1>4, <1>11, <2>2, <3>1 DEF OpsInv, RunsAreCurrent
  <2> QED
    BY <2>1, <2>2
<1>15. AnswersServe'
  <2> SUFFICES ASSUME NEW q \in Sites
               PROVE  /\ answered[q].op # 0 => /\ answered[q].op \in 1 .. NewestPlan(q)
                                               /\ gateway[q].state = answered[q].left
                                               /\ Serves(gateway[q].state, plan[q][answered[q].op])
                      /\ run'[q].pc \in {"confirm", "prices", "complete"} => answered[q].op = run'[q].op
                      /\ op'[q] = "succeeded" => answered[q].op = NewestPlan(q) /\ answered[q].op # 0
    BY <1>1, <1>13 DEF AnswersServe, remote
  <2>1. CASE q = s
    <3>1. run'[s].pc \in {"put", "idle"}
      BY <1>8, <1>11 DEF Idle
    <3> QED
      BY <1>4, <2>1, <3>1 DEF OpsInv, AnswersServe
  <2>2. CASE q # s
    BY <1>4, <1>11, <2>2 DEF OpsInv, AnswersServe
  <2> QED
    BY <2>1, <2>2
<1>16. ConfirmedIsInstalled'
  BY <1>1 DEF OpsInv, ConfirmedIsInstalled, Rotating, remote
<1> QED
  BY <1>5, <1>12, <1>14, <1>15, <1>16 DEF OpsInv

LEMMA PutStep ==
    ASSUME OpsInv, NEW s \in Sites, Put(s)
    PROVE  OpsInv'
<1>1. Busy(s)
  BY DEF Put, At, Busy
<1>2. op' = [op EXCEPT ![s] = op'[s]] /\ op'[s] \in OpStatus \ {"succeeded"}
      /\ UNCHANGED <<supplier, revoked, sealed, site, relation, price, plan, channel>>
  <2>1. op \in [Sites -> OpStatus] /\ op[s] # "succeeded"
    BY <1>1, BusySite DEF OpsInv, RowsTyped
  <2>2. \/ UNCHANGED tables
        \/ FailOperation(s, "manual")
    BY DEF Put, Answered
  <2> QED
    BY <2>1, <2>2 DEF tables, FailOperation, MarkSyncFailed, OpStatus
<1>3. /\ \/ UNCHANGED remote
         \/ gateway[s].state = run[s].before /\ Install(s)
      /\ \/ run' = [run EXCEPT ![s] = Idle]
         \/ Goto(s, "confirm") /\ answered'[s].op = run[s].op
  <2>1. CASE Accepts(s) /\ Install(s) /\ Answered(s, Wanted(s), gateway[s].basis)
    <3>1. gateway[s].state = run[s].before
      BY <2>1 DEF Accepts
    <3>2. answered'[s].op = run[s].op
      BY <1>1, <2>1, <3>1, PutEffect
    <3> QED
      BY <2>1, <3>1, <3>2 DEF Answered, FailOperation
  <2>2. CASE Known(s) /\ Answered(s, answered[s].left, answered[s].basis) /\ UNCHANGED remote
    BY <2>2 DEF Known, Answered, FailOperation, remote
  <2>3. CASE Refuses(s) /\ FailOperation(s, "manual") /\ UNCHANGED remote
    BY <2>3 DEF FailOperation
  <2> QED
    BY <2>1, <2>2, <2>3 DEF Put
<1> QED
  BY <1>1, <1>2, <1>3, RunMoves

LEMMA PutUnansweredStep ==
    ASSUME OpsInv, NEW s \in Sites, PutUnanswered(s)
    PROVE  OpsInv'
<1>1. Busy(s)
  BY DEF PutUnanswered, At, Busy
<1>2. /\ op' = [op EXCEPT ![s] = "pending"] /\ run' = [run EXCEPT ![s] = Idle]
      /\ UNCHANGED <<supplier, revoked, sealed, site, relation, price, plan, channel>>
  BY DEF PutUnanswered, Unanswered, FailOperation, MarkSyncFailed
<1>3. \/ UNCHANGED remote
      \/ gateway[s].state = run[s].before /\ Install(s)
  BY DEF PutUnanswered, Accepts
<1> QED
  BY <1>1, <1>2, <1>3, RunMoves DEF OpStatus

LEMMA AbortStep ==
    ASSUME OpsInv, NEW s \in Sites, Abort(s)
    PROVE  OpsInv'
<1>1. Busy(s) /\ run' = [run EXCEPT ![s] = Idle] /\ UNCHANGED <<tables, remote>>
  BY DEF Abort
<1>2. op \in [Sites -> OpStatus] /\ op[s] # "succeeded"
  BY <1>1, BusySite DEF OpsInv, RowsTyped
<1>3. op' = [op EXCEPT ![s] = op[s]] /\ op[s] \in OpStatus \ {"succeeded"}
      /\ UNCHANGED <<supplier, revoked, sealed, site, relation, price, plan, channel>>
  BY <1>1, <1>2 DEF tables
<1> QED
  BY <1>1, <1>3, RunMoves

\* A run that has its answer goes on.
LEMMA RunProceeds ==
    ASSUME OpsInv, NEW s \in Sites, run[s].pc \in {"confirm", "prices"}, NEW place \in {"prices", "complete"},
           Goto(s, place), UNCHANGED <<site, plan, op, remote>>,
           \A q \in Sites : relation'[q].deployed = relation[q].deployed
    PROVE  RunsTyped' /\ RunsAreCurrent' /\ AnswersServe'
<1>1. Busy(s) /\ answered[s].op = run[s].op
  BY DEF Busy, OpsInv, AnswersServe
<1>2. /\ run' \in [Sites -> {Idle} \cup RunRow] /\ Busy(s)'
      /\ run'[s].pc = place /\ run'[s].op = run[s].op /\ run'[s].plan = run[s].plan
      /\ \A q \in Sites : q # s => run'[q] = run[q]
  BY <1>1, RunGoes DEF OpsInv
<1>3. RunsTyped'
  BY <1>2 DEF OpsInv, RunsTyped, remote
<1>4. \A q \in Sites : Busy(q)' <=> Busy(q)
  BY <1>1, <1>2 DEF Busy
<1>5. RunsAreCurrent'
  <2> SUFFICES ASSUME NEW q \in Sites, Busy(q)
               PROVE  /\ relation[q].deployed /\ site[q].status = "enabled"
                      /\ run'[q].op = NewestPlan(q) /\ run'[q].plan.available
                      /\ run'[q].plan.key = plan[q][NewestPlan(q)].key
                      /\ run'[q].plan.version = plan[q][NewestPlan(q)].version
                      /\ run'[q].plan.enabled = plan[q][NewestPlan(q)].enabled
                      /\ run'[q].plan.price = plan[q][NewestPlan(q)].price
                      /\ op[q] # "succeeded"
    BY <1>4 DEF RunsAreCurrent, NewestPlan
  <2>1. run'[q].op = run[q].op /\ run'[q].plan = run[q].plan
    BY <1>2
  <2> QED
    BY <2>1 DEF OpsInv, RunsAreCurrent
<1>6. AnswersServe'
  <2> SUFFICES ASSUME NEW q \in Sites
               PROVE  /\ answered[q].op # 0 => /\ answered[q].op \in 1 .. NewestPlan(q)
                                               /\ gateway[q].state = answered[q].left
                                               /\ Serves(gateway[q].state, plan[q][answered[q].op])
                      /\ run'[q].pc \in {"confirm", "prices", "complete"} => answered[q].op = run'[q].op
                      /\ op[q] = "succeeded" => answered[q].op = NewestPlan(q) /\ answered[q].op # 0
    BY DEF AnswersServe, NewestPlan, remote
  <2>1. run'[q].pc \in {"confirm", "prices", "complete"} => answered[q].op = run'[q].op
    BY <1>1, <1>2 DEF OpsInv, AnswersServe
  <2> QED
    BY <2>1 DEF OpsInv, AnswersServe
<1> QED
  BY <1>3, <1>5, <1>6

LEMMA ConfirmStep ==
    ASSUME OpsInv, NEW s \in Sites, Confirm(s)
    PROVE  OpsInv'
<1> DEFINE row == [bound |-> gateway[s].state.status # "absent",
                   key |-> IF CredentialApplied(s) THEN run[s].plan.key ELSE channel[s].key,
                   version |-> IF CredentialApplied(s) THEN run[s].plan.version ELSE channel[s].version]
           bound == gateway[s].state.status # "absent"
           decided == [deployed |-> relation[s].deployed, desired |-> "enabled", version |-> relation[s].version + 1]
<1>1. /\ run[s].pc = "confirm" /\ Busy(s) /\ Goto(s, "prices")
      /\ UNCHANGED <<supplier, revoked, sealed, site, price, plan, op, remote>>
  BY DEF Confirm, At, Busy
<1>2. channel' = [channel EXCEPT ![s] = row]
  BY Zenon DEF Confirm, ConfirmChannel
<1>3. relation' = [relation EXCEPT ![s] = [relation[s] EXCEPT !.desired = "enabled", !.version = relation[s].version + 1]]
  BY Zenon DEF Confirm
<1>4. RowsTyped /\ RunsTyped /\ Deployments /\ Credentials
  BY DEF OpsInv
<1>5. relation[s] \in RelationRow /\ relation[s].version + 1 \in Nat /\ relation[s].deployed
  BY <1>1, <1>4, SiteFields, BusySite
<1>6. relation' = [relation EXCEPT ![s] = decided]
  BY Zenon, <1>3, <1>5, DecisionSaved DEF Statuses
<1>7. decided \in RelationRow /\ decided.deployed = relation[s].deployed
  BY <1>5 DEF RelationRow, Statuses
<1> HIDE DEF decided
<1>8. relation' \in [Sites -> RelationRow] /\ \A q \in Sites : relation'[q].deployed = relation[q].deployed
  BY <1>4, <1>6, <1>7 DEF RowsTyped
<1>9. RunsTyped' /\ RunsAreCurrent' /\ AnswersServe'
  BY <1>1, <1>8, RunProceeds
<1>10. /\ row.bound = bound /\ bound \in BOOLEAN
       /\ row.key \in {run[s].plan.key, channel[s].key}
       /\ row.version \in {run[s].plan.version, channel[s].version}
       /\ row = [bound |-> row.bound, key |-> row.key, version |-> row.version]
  OBVIOUS
<1>11. row.key \in {NoCredential} \cup 1 .. sealed /\ row \in ChannelRow
  <2>1. run[s].plan.key \in 1 .. sealed /\ run[s].plan.key \in Nat /\ run[s].plan.version \in Nat
    BY <1>1, <1>4, BusySite, RunFields
  <2>2. /\ channel[s].key \in {NoCredential} \cup 1 .. sealed
        /\ channel[s].key \in Nat /\ channel[s].version \in Nat
    BY <1>4 DEF RowsTyped, Credentials, ChannelRow
  <2>3. row.bound \in BOOLEAN
    BY Zenon, <1>10
  <2> HIDE DEF row
  <2> QED
    BY <1>10, <2>1, <2>2, <2>3 DEF ChannelRow
<1> HIDE DEF row
<1>12. /\ channel' \in [Sites -> ChannelRow] /\ channel'[s] = row
       /\ \A q \in Sites : q # s => channel'[q] = channel[q]
  BY <1>2, <1>4, <1>11 DEF RowsTyped
<1>13. RowsTyped'
  BY <1>1, <1>4, <1>8, <1>12 DEF RowsTyped
<1>14. \A q \in Sites : Current(q)' = Current(q)
  BY <1>1 DEF Current
<1>15. Deployments'
  BY <1>1, <1>4, <1>5, <1>8, <1>12, <1>14 DEF Deployments
<1>16. Credentials'
  BY <1>1, <1>4, <1>11, <1>12 DEF Credentials, Rotating
<1>17. NewestPlanIsCurrent'
  BY <1>1, <1>8, <1>14 DEF OpsInv, NewestPlanIsCurrent, Deployed, NewestPlan
<1>18. bound => gateway[s].state.key = supplier.pending.key
  <2>1. answered[s].op = NewestPlan(s) /\ answered[s].op # 0
    BY <1>1, BusySite DEF OpsInv, AnswersServe
  <2>2. Serves(gateway[s].state, plan[s][NewestPlan(s)])
    BY <2>1 DEF OpsInv, AnswersServe
  <2> QED
    BY <1>1, <2>2, BusySite DEF Serves
<1>19. ConfirmedIsInstalled'
  <2> SUFFICES ASSUME Rotating', NEW q \in Sites, channel'[q].bound, channel'[q].key = supplier.pending.key
               PROVE  gateway[q].state.key = supplier.pending.key
    BY <1>1 DEF ConfirmedIsInstalled, remote
  <2>1. CASE q = s
    <3>1. row.bound
      BY <1>12, <2>1
    <3>2. bound
      BY Zenon, <1>10, <3>1
    <3> QED
      BY <1>18, <2>1, <3>2
  <2>2. CASE q # s
    BY <1>1, <1>12, <2>2 DEF OpsInv, ConfirmedIsInstalled, Rotating
  <2> QED
    BY <2>1, <2>2
<1> QED
  BY <1>9, <1>13, <1>15, <1>16, <1>17, <1>19 DEF OpsInv

LEMMA ConfirmPricesStep ==
    ASSUME OpsInv, NEW s \in Sites, ConfirmPrices(s)
    PROVE  OpsInv'
<1> DEFINE q == price[s]
           row(i) == IF i = run[s].plan.price /\ q[i].status = "published" THEN [q[i] EXCEPT !.status = "applied"] ELSE q[i]
           r == [i \in DOMAIN q |-> row(i)]
<1>1. /\ run[s].pc = "prices" /\ Goto(s, "complete") /\ price' = [price EXCEPT ![s] = r]
      /\ UNCHANGED <<supplier, revoked, sealed, site, relation, plan, op, channel, remote>>
  BY Zenon DEF ConfirmPrices, At
<1>2. RowsTyped /\ Deployments /\ Credentials /\ price \in [Sites -> Seq(PriceRow)] /\ q \in Seq(PriceRow)
  BY DEF OpsInv, RowsTyped
<1>3. ASSUME NEW i \in DOMAIN q
      PROVE  row(i) \in PriceRow /\ (row(i).status \in {"published", "applied"} <=> q[i].status \in {"published", "applied"})
  <2> HIDE DEF q
  <2>1. q[i] \in PriceRow
    BY <1>2, SequenceOf
  <2>2. [q[i] EXCEPT !.status = "applied"] = [status |-> "applied", basis |-> q[i].basis]
    BY <2>1, PriceSaved
  <2>3. \/ row(i) = [status |-> "applied", basis |-> q[i].basis] /\ q[i].status = "published"
        \/ row(i) = q[i]
    BY Zenon, <2>2
  <2> HIDE DEF row
  <2> QED
    BY <2>1, <2>3 DEF PriceRow
<1> HIDE DEF row
<1>4. DOMAIN r = DOMAIN q /\ r = [i \in DOMAIN q |-> r[i]] /\ \A i \in DOMAIN q : r[i] = row(i)
  BY Zenon
<1> HIDE DEF q, r
<1>5. r \in Seq(PriceRow)
  BY <1>2, <1>3, <1>4, Rewritten
<1>6. InForce(r) = InForce(q)
  BY <1>3, <1>4 DEF InForce
<1>7. /\ price' \in [Sites -> Seq(PriceRow)] /\ price'[s] = r
      /\ \A t \in Sites : t # s => price'[t] = price[t]
  BY <1>1, <1>2, <1>5
<1>8. \A t \in Sites : InForce(price'[t]) = InForce(price[t]) /\ DOMAIN price'[t] = DOMAIN price[t]
  BY <1>4, <1>6, <1>7 DEF q
<1>9. \A t \in Sites : Current(t)' = Current(t)
  BY <1>8 DEF Current, InForce
<1>10. RunsTyped' /\ RunsAreCurrent' /\ AnswersServe'
  <2>1. \A t \in Sites : relation'[t].deployed = relation[t].deployed
    BY <1>1
  <2> QED
    BY <1>1, <2>1, RunProceeds
<1>11. RowsTyped' /\ Credentials'
  BY <1>1, <1>2, <1>7 DEF RowsTyped, Credentials, Rotating
<1>12. relation[s].deployed
  BY <1>1, BusySite DEF Busy
<1>13. Deployments'
  BY <1>1, <1>2, <1>7, <1>8, <1>9, <1>12 DEF Deployments
<1>14. NewestPlanIsCurrent'
  BY <1>1, <1>9 DEF OpsInv, NewestPlanIsCurrent, Deployed, NewestPlan
<1>15. ConfirmedIsInstalled'
  BY <1>1 DEF OpsInv, ConfirmedIsInstalled, Rotating, remote
<1> QED
  BY <1>10, <1>11, <1>13, <1>14, <1>15 DEF OpsInv

LEMMA CompleteStep ==
    ASSUME OpsInv, NEW s \in Sites, Complete(s)
    PROVE  OpsInv'
<1>1. /\ run[s].pc = "complete" /\ Busy(s) /\ run' = [run EXCEPT ![s] = Idle]
      /\ op' = [op EXCEPT ![s] = "succeeded"]
      /\ UNCHANGED <<revoked, sealed, site, relation, price, plan, channel, remote>>
      /\ \/ supplier' = supplier
         \/ supplier' = [supplier EXCEPT !.current = supplier.pending]
  BY DEF Complete, At, Busy, MarkSyncSucceeded
<1>2. RowsTyped /\ RunsTyped /\ Deployments /\ Credentials
  BY DEF OpsInv
<1>3. /\ supplier' \in SupplierRow /\ supplier'.pending = supplier.pending /\ supplier'.status = supplier.status
      /\ \/ supplier'.current = supplier.current
         \/ supplier'.current = supplier.pending
  <2>1. CASE supplier' = supplier
    BY <1>2, <2>1 DEF RowsTyped
  <2>2. CASE supplier' = [supplier EXCEPT !.current = supplier.pending]
    <3>1. supplier' = [status |-> supplier.status, version |-> supplier.version, current |-> supplier.pending, pending |-> supplier.pending]
      BY <1>2, <2>2, SupplierFields, PromotionSaved
    <3> QED
      BY <1>2, <3>1, SupplierFields DEF SupplierRow
  <2> QED
    BY <1>1, <2>1, <2>2
<1>4. op' \in [Sites -> OpStatus] /\ \A q \in Sites : q # s => op'[q] = op[q]
  BY <1>1, <1>2 DEF RowsTyped, OpStatus
<1>5. /\ run' \in [Sites -> {Idle} \cup RunRow] /\ ~Busy(s)' /\ run'[s].pc = "idle"
      /\ \A q \in Sites : q # s => run'[q] = run[q]
  BY <1>1, <1>2, RunEnds
<1>6. relation[s].deployed /\ run[s].op = NewestPlan(s) /\ NewestPlan(s) # 0
  BY <1>1, BusySite
<1>7. answered[s].op = NewestPlan(s)
  BY <1>1, <1>6 DEF OpsInv, AnswersServe
<1>8. \A q \in Sites : Current(q)' = Current(q) /\ NewestPlan(q)' = NewestPlan(q)
  BY <1>1 DEF Current, NewestPlan
<1>9. RowsTyped'
  BY <1>1, <1>2, <1>3, <1>4 DEF RowsTyped
<1>10. RunsTyped'
  BY <1>1, <1>2, <1>5 DEF RunsTyped, remote
<1>11. Deployments'
  BY <1>1, <1>2, <1>4, <1>6, <1>8 DEF Deployments
<1>12. Credentials'
  BY <1>1, <1>2, <1>3 DEF Credentials, Rotating
<1>13. NewestPlanIsCurrent'
  BY <1>1, <1>3, <1>8 DEF OpsInv, NewestPlanIsCurrent, Deployed
<1>14. RunsAreCurrent'
  <2> SUFFICES ASSUME NEW q \in Sites, Busy(q)'
               PROVE  /\ relation[q].deployed /\ site[q].status = "enabled"
                      /\ run'[q].op = NewestPlan(q) /\ run'[q].plan.available
                      /\ run'[q].plan.key = plan[q][NewestPlan(q)].key
                      /\ run'[q].plan.version = plan[q][NewestPlan(q)].version
                      /\ run'[q].plan.enabled = plan[q][NewestPlan(q)].enabled
                      /\ run'[q].plan.price = plan[q][NewestPlan(q)].price
                      /\ op'[q] # "succeeded"
    BY <1>1, <1>8 DEF RunsAreCurrent
  <2>1. q # s /\ run'[q] = run[q] /\ op'[q] = op[q]
    BY <1>4, <1>5
  <2>2. Busy(q)
    BY <2>1 DEF Busy
  <2> QED
    BY <2>1, <2>2 DEF OpsInv, RunsAreCurrent
<1>15. AnswersServe'
  <2> SUFFICES ASSUME NEW q \in Sites
               PROVE  /\ answered[q].op # 0 => /\ answered[q].op \in 1 .. NewestPlan(q)
                                               /\ gateway[q].state = answered[q].left
                                               /\ Serves(gateway[q].state, plan[q][answered[q].op])
                      /\ run'[q].pc \in {"confirm", "prices", "complete"} => answered[q].op = run'[q].op
                      /\ op'[q] = "succeeded" => answered[q].op = NewestPlan(q) /\ answered[q].op # 0
    BY <1>1, <1>8 DEF AnswersServe, remote
  <2>1. CASE q = s
    BY <1>5, <1>6, <1>7, <2>1 DEF OpsInv, AnswersServe
  <2>2. CASE q # s
    BY <1>4, <1>5, <2>2 DEF OpsInv, AnswersServe
  <2> QED
    BY <2>1, <2>2
<1>16. ConfirmedIsInstalled'
  BY <1>1, <1>3 DEF OpsInv, ConfirmedIsInstalled, Rotating, remote
<1> QED
  BY <1>9, <1>10, <1>11, <1>12, <1>13, <1>14, <1>15, <1>16 DEF OpsInv

\* Steps that change neither the tables nor the runs.
LEMMA QuietStep ==
    ASSUME OpsInv, UNCHANGED <<tables, run, answered>>,
           gateway' \in [Sites -> GatewayRow], \A s \in Sites : gateway'[s].state = gateway[s].state
    PROVE  OpsInv'
<1>1. UNCHANGED <<supplier, revoked, sealed, site, relation, price, plan, op, channel, run, answered>>
  BY DEF tables
<1>2. \A s \in Sites : /\ Current(s)' = Current(s) /\ NewestPlan(s)' = NewestPlan(s)
                       /\ Busy(s)' <=> Busy(s)
  BY <1>1 DEF Current, NewestPlan, Busy
<1>3. RowsTyped' /\ Credentials'
  BY <1>1 DEF OpsInv, RowsTyped, Credentials, Rotating
<1>4. RunsTyped'
  BY <1>1 DEF OpsInv, RunsTyped, GatewayRow
<1>5. Deployments' /\ NewestPlanIsCurrent'
  BY <1>1, <1>2 DEF OpsInv, Deployments, NewestPlanIsCurrent, Deployed
<1>6. RunsAreCurrent'
  BY <1>1, <1>2 DEF OpsInv, RunsAreCurrent
<1>7. AnswersServe'
  BY <1>1, <1>2 DEF OpsInv, AnswersServe
<1>8. ConfirmedIsInstalled'
  BY <1>1 DEF OpsInv, ConfirmedIsInstalled, Rotating
<1> QED
  BY <1>3, <1>4, <1>5, <1>6, <1>7, <1>8 DEF OpsInv

\* New prices leave what the gateway manages.
LEMMA RebaseKeepsStates ==
    ASSUME RunsTyped, NEW s \in Sites, Rebase(s)
    PROVE  gateway' \in [Sites -> GatewayRow] /\ \A q \in Sites : gateway'[q].state = gateway[q].state
<1>1. gateway \in [Sites -> GatewayRow] /\ gateway[s] \in GatewayRow /\ gateway[s].basis + 1 \in Nat
  BY RunFields DEF RunsTyped, GatewayRow
<1>2. gateway' = [gateway EXCEPT ![s] = [gateway[s] EXCEPT !.basis = gateway[s].basis + 1]]
  BY Zenon DEF Rebase
<1>3. [gateway[s] EXCEPT !.basis = gateway[s].basis + 1] = [state |-> gateway[s].state, basis |-> gateway[s].basis + 1]
  BY Z3, <1>1 DEF GatewayRow
<1> DEFINE row == [state |-> gateway[s].state, basis |-> gateway[s].basis + 1]
<1>4. gateway' = [gateway EXCEPT ![s] = row]
  BY Zenon, <1>2, <1>3
<1>5. row \in GatewayRow /\ row.state = gateway[s].state
  BY <1>1 DEF GatewayRow
<1> HIDE DEF row
<1> QED
  BY <1>1, <1>4, <1>5

LEMMA RebaseStep ==
    ASSUME OpsInv, NEW s \in Sites, Rebase(s)
    PROVE  OpsInv'
<1>1. gateway' \in [Sites -> GatewayRow] /\ \A q \in Sites : gateway'[q].state = gateway[q].state
  BY RebaseKeepsStates DEF OpsInv
<1>2. UNCHANGED <<tables, run, answered>>
  BY DEF Rebase
<1> QED
  BY <1>1, <1>2, QuietStep
-----------------------------------------------------------------------------
(***************************************************************************)
(* The requests.                                                           *)
(***************************************************************************)
\* What a client that carries a request knows.
LEMMA Carried ==
    ASSUME AskInv, NEW c \in Clients, ask[c] # IdleClient
    PROVE  /\ ask[c].key \in Keys /\ ask[c].basis \in Nat
           /\ request[ask[c].key] \in Asked
  BY DEF AskInv

LEMMA MutateStep ==
    ASSUME OpsInv, AskInv, NEW c \in Clients, Mutate(c)
    PROVE  OpsInv'
<1> DEFINE k == ask[c].key
           m == request[k]
<1>1. ask[c] # IdleClient /\ UNCHANGED <<remote, run>>
  BY DEF Mutate
<1>2. k \in Keys /\ ask[c].basis \in Nat /\ m \in Asked
  BY <1>1, Carried
<1>3. CASE UNCHANGED tables
  <2>1. gateway' \in [Sites -> GatewayRow] /\ \A s \in Sites : gateway'[s].state = gateway[s].state
    BY <1>1 DEF OpsInv, RunsTyped, GatewayRow, remote
  <2> QED
    BY <1>1, <1>3, <2>1, QuietStep DEF remote
<1>4. CASE Free(m) /\ Apply(m, ask[c].basis)
  <2>1. RowsTyped /\ RunsTyped /\ Deployments /\ Credentials /\ NewestPlanIsCurrent
    BY DEF OpsInv
  <2> HIDE DEF m, k
  <2>2. Mutated(m)
    BY <1>2, <1>4, <2>1, ApplyEffect
  <2>3. /\ RowsTyped' /\ Deployments' /\ Credentials' /\ NewestPlanIsCurrent'
        /\ channel' = channel
    BY <2>2 DEF Mutated
  <2>4. ASSUME NEW s \in Sites
        PROVE  /\ \A i \in DOMAIN plan[s] : i \in DOMAIN plan'[s] /\ plan'[s][i] = plan[s][i]
               /\ op'[s] = "succeeded" => op[s] = "succeeded" /\ plan'[s] = plan[s]
               /\ relation[s].deployed /\ s \notin Locks(m) =>
                    plan'[s] = plan[s] /\ op'[s] = op[s] /\ site'[s] = site[s] /\ relation'[s] = relation[s]
    BY <2>2 DEF Mutated
  <2>5. UNCHANGED <<gateway, answered, run>>
    BY <1>1 DEF remote
  <2>6. RunsTyped'
    BY <2>1, <2>5 DEF RunsTyped
  <2>7. RunsAreCurrent'
    <3> SUFFICES ASSUME NEW s \in Sites, Busy(s)
                 PROVE  /\ relation'[s].deployed /\ site'[s].status = "enabled"
                        /\ run[s].op = NewestPlan(s)' /\ run[s].plan.available
                        /\ run[s].plan.key = plan'[s][NewestPlan(s)'].key
                        /\ run[s].plan.version = plan'[s][NewestPlan(s)'].version
                        /\ run[s].plan.enabled = plan'[s][NewestPlan(s)'].enabled
                        /\ run[s].plan.price = plan'[s][NewestPlan(s)'].price
                        /\ op'[s] # "succeeded"
      BY <2>5 DEF RunsAreCurrent, Busy, NewestPlan
    <3>1. relation[s].deployed
      BY DEF OpsInv, RunsAreCurrent
    <3>2. s \notin Locks(m)
      BY <1>4 DEF Free
    <3>3. plan'[s] = plan[s] /\ op'[s] = op[s] /\ site'[s] = site[s] /\ relation'[s] = relation[s]
      BY <2>4, <3>1, <3>2
    <3>4. NewestPlan(s)' = NewestPlan(s)
      BY <3>3 DEF NewestPlan
    <3> QED
      BY <3>3, <3>4 DEF OpsInv, RunsAreCurrent
  <2>8. AnswersServe'
    <3> SUFFICES ASSUME NEW s \in Sites
                 PROVE  /\ answered[s].op # 0 => /\ answered[s].op \in 1 .. NewestPlan(s)'
                                                 /\ gateway[s].state = answered[s].left
                                                 /\ Serves(gateway[s].state, plan'[s][answered[s].op])
                        /\ run[s].pc \in {"confirm", "prices", "complete"} => answered[s].op = run[s].op
                        /\ op'[s] = "succeeded" => answered[s].op = NewestPlan(s)' /\ answered[s].op # 0
      BY <2>5 DEF AnswersServe
    <3>1. /\ answered[s].op # 0 => /\ answered[s].op \in 1 .. NewestPlan(s)
                                   /\ gateway[s].state = answered[s].left
                                   /\ Serves(gateway[s].state, plan[s][answered[s].op])
          /\ run[s].pc \in {"confirm", "prices", "complete"} => answered[s].op = run[s].op
          /\ op[s] = "succeeded" => answered[s].op = NewestPlan(s) /\ answered[s].op # 0
      BY DEF OpsInv, AnswersServe
    <3>2. DOMAIN plan[s] = 1 .. NewestPlan(s) /\ DOMAIN plan'[s] = 1 .. NewestPlan(s)'
      <4>1. plan[s] \in Seq(PlanRow) /\ plan'[s] \in Seq(PlanRow)
        BY <2>1, <2>3 DEF RowsTyped
      <4> QED
        BY <4>1, SequenceOf DEF NewestPlan
    <3>3. answered[s].op # 0 => /\ answered[s].op \in 1 .. NewestPlan(s)'
                                /\ plan'[s][answered[s].op] = plan[s][answered[s].op]
      BY <2>4, <3>1, <3>2
    <3>4. op'[s] = "succeeded" => NewestPlan(s)' = NewestPlan(s) /\ op[s] = "succeeded"
      BY <2>4 DEF NewestPlan
    <3> QED
      BY <3>1, <3>3, <3>4
  <2>9. ConfirmedIsInstalled'
    <3> SUFFICES ASSUME supplier'.pending # supplier'.current, NEW s \in Sites,
                        channel[s].bound, channel[s].key = supplier'.pending.key
                 PROVE  gateway[s].state.key = supplier'.pending.key
      BY <2>3, <2>5 DEF ConfirmedIsInstalled, Rotating
    <3>1. supplier'.pending = supplier.pending /\ Rotating
      BY <2>2 DEF Mutated
    <3> QED
      BY <3>1 DEF OpsInv, ConfirmedIsInstalled
  <2> QED
    BY <2>3, <2>6, <2>7, <2>8, <2>9 DEF OpsInv
<1> QED
  BY <1>3, <1>4 DEF Mutate

LEMMA InputsAreAsked ==
    ASSUME RowsTyped, NEW m \in Inputs
    PROVE  m \in Asked
<1>1. CASE m \in SupplierInputs
  BY <1>1 DEF SupplierInputs, Asked, RowsTyped, SupplierRow, Statuses
<1>2. ASSUME NEW s \in Sites, m \in SiteInputs(s)
      PROVE  m \in Asked
  <2>1. site[s].version \in Nat /\ relation[s].version \in Nat
    BY SiteFields
  <2> QED
    BY <1>2, <2>1 DEF SiteInputs, Asked, Statuses
<1>3. ASSUME NEW s \in Sites, m \in PlanInputs(s)
      PROVE  m \in Asked
  <2>1. DOMAIN plan[s] = 1 .. Len(plan[s]) /\ Len(plan[s]) \in Nat
        /\ DOMAIN price[s] = 1 .. Len(price[s]) /\ Len(price[s]) \in Nat
    BY SiteFields, SequenceOf
  <2>2. \A i \in DOMAIN plan[s] : i \in Nat
    BY <2>1
  <2>3. \A i \in DOMAIN price[s] : i \in Nat \ {0}
    BY <2>1
  <2> QED
    BY <1>3, <2>2, <2>3 DEF PlanInputs, Asked
<1> QED
  BY <1>1, <1>2, <1>3 DEF Inputs

LEMMA AskedIsARequest == \A m \in Asked : m # NoRequest
<1>1. \A m \in Asked : m.kind # "none"
  BY DEF Asked
<1>2. NoRequest.kind = "none"
  BY DEF NoRequest
<1> QED
  BY <1>1, <1>2

LEMMA PrepareEffect ==
    ASSUME OpsInv, AskInv, NEW c \in Clients, NEW k \in Keys, Prepare(c, k)
    PROVE  /\ AskInv'
           /\ UNCHANGED <<tables, record, taken, expired, remote, run>>
           /\ \A q \in Keys : request[q] # NoRequest => request'[q] = request[q]
<1>1. PICK m \in IF request[k] = NoRequest THEN Inputs ELSE {request[k]} :
        /\ Preparable(m)
        /\ request' = [request EXCEPT ![k] = m]
        /\ \E basis \in ReadBasis(m) : ask' = [ask EXCEPT ![c] = [key |-> k, basis |-> basis]]
  BY DEF Prepare
<1>2. PICK basis \in ReadBasis(m) : ask' = [ask EXCEPT ![c] = [key |-> k, basis |-> basis]]
  BY <1>1
<1>3. m \in Asked
  BY <1>1, InputsAreAsked DEF OpsInv, AskInv
<1>4. UNCHANGED <<tables, record, taken, expired, remote, run>>
  BY DEF Prepare
<1>5. basis \in Nat
  <2>1. m.kind \in {"draft", "publish", "sync", "deploy"} => m.site \in Sites
    BY <1>3 DEF Asked
  <2>2. m.kind \in {"draft", "publish", "sync", "deploy"} => gateway[m.site].basis \in Nat
    BY <2>1, RunFields DEF OpsInv
  <2> QED
    BY <1>2, <2>2 DEF ReadBasis, Unknown
<1>6. request \in [Keys -> {NoRequest} \cup Asked] /\ ask \in [Clients -> {IdleClient} \cup [key : Keys, basis : Nat]]
  BY DEF AskInv
<1>7. /\ request' \in [Keys -> {NoRequest} \cup Asked] /\ request'[k] = m
      /\ \A q \in Keys : q # k => request'[q] = request[q]
  BY <1>1, <1>3, <1>6
<1>8. m # NoRequest /\ (request[k] # NoRequest => m = request[k])
  BY <1>1, <1>3, AskedIsARequest
<1> DEFINE row == [key |-> k, basis |-> basis]
<1>9. row \in [key : Keys, basis : Nat] /\ row.key = k
  BY <1>5
<1> HIDE DEF row
<1>10. /\ ask' \in [Clients -> {IdleClient} \cup [key : Keys, basis : Nat]] /\ ask'[c] = row
       /\ \A d \in Clients : d # c => ask'[d] = ask[d]
  BY <1>2, <1>6, <1>9 DEF row
<1>11. \A d \in Clients : ask'[d] # IdleClient => request'[ask'[d].key] # NoRequest
  <2> SUFFICES ASSUME NEW d \in Clients, ask'[d] # IdleClient
               PROVE  request'[ask'[d].key] # NoRequest
    OBVIOUS
  <2>1. CASE d = c
    BY <1>7, <1>8, <1>9, <1>10, <2>1
  <2>2. CASE d # c
    <3>1. ask'[d] = ask[d] /\ ask[d] # IdleClient
      BY <1>10, <2>2
    <3>2. ask[d].key \in Keys /\ request[ask[d].key] # NoRequest
      BY <3>1, Carried DEF AskInv
    <3> QED
      BY <1>7, <1>8, <3>1, <3>2
  <2> QED
    BY <2>1, <2>2
<1>12. AskInv'
  BY <1>4, <1>7, <1>10, <1>11 DEF AskInv
<1> QED
  BY <1>4, <1>7, <1>8, <1>12

LEMMA AskStep ==
    ASSUME OpsInv, AskInv, [Next]_vars
    PROVE  AskInv'
<1>1. ASSUME NEW c \in Clients, NEW k \in Keys, Prepare(c, k) PROVE AskInv'
  BY <1>1, PrepareEffect
<1>2. ASSUME NEW c \in Clients, Mutate(c) PROVE AskInv'
  <2>1. ask[c] # IdleClient /\ ask[c].key \in Keys
    BY <1>2, Carried DEF Mutate
  <2>2. /\ request' = request /\ ask' = [ask EXCEPT ![c] = IdleClient]
        /\ \/ UNCHANGED <<record, taken>>
           \/ /\ record' = [record EXCEPT ![ask[c].key] = TRUE]
              /\ taken' = [taken EXCEPT ![ask[c].key] = taken[ask[c].key] + 1]
    BY <1>2 DEF Mutate
  <2>3. record \in [Keys -> BOOLEAN] /\ taken \in [Keys -> Nat] /\ taken[ask[c].key] + 1 \in Nat
    BY <2>1 DEF AskInv
  <2>4. record' \in [Keys -> BOOLEAN] /\ taken' \in [Keys -> Nat]
    BY <2>1, <2>2, <2>3
  <2> QED
    BY <2>2, <2>4 DEF AskInv
<1>3. ASSUME NEW c \in Clients, Refuse(c) PROVE AskInv'
  BY <1>3 DEF Refuse, AskInv
<1>4. ASSUME NEW k \in Keys, Expire(k) PROVE AskInv'
  BY <1>4 DEF Expire, AskInv
<1>5. CASE UNCHANGED requests
  BY <1>5 DEF requests, AskInv
<1>6. ASSUME NEW s \in Sites,
             Start(s) \/ Put(s) \/ PutUnanswered(s) \/ Confirm(s) \/ ConfirmPrices(s) \/ Complete(s)
             \/ Abort(s) \/ Rebase(s)
      PROVE  UNCHANGED requests
  BY <1>6 DEF Start, Put, PutUnanswered, Confirm, ConfirmPrices, Complete, Abort, Rebase, KeepRequests, requests
<1> QED
  BY <1>1, <1>2, <1>3, <1>4, <1>5, <1>6 DEF Next, vars

LEMMA OpsStep ==
    ASSUME OpsInv, AskInv, [Next]_vars
    PROVE  OpsInv'
<1>1. ASSUME UNCHANGED <<tables, remote, run>> PROVE OpsInv'
  <2>1. gateway' \in [Sites -> GatewayRow] /\ \A s \in Sites : gateway'[s].state = gateway[s].state
    BY <1>1 DEF OpsInv, RunsTyped, GatewayRow, remote
  <2> QED
    BY <1>1, <2>1, QuietStep DEF remote
<1>2. ASSUME NEW c \in Clients, NEW k \in Keys, Prepare(c, k) PROVE OpsInv'
  BY <1>1, <1>2, PrepareEffect
<1>3. ASSUME NEW c \in Clients, Refuse(c) PROVE OpsInv'
  BY <1>1, <1>3 DEF Refuse
<1>4. ASSUME NEW k \in Keys, Expire(k) PROVE OpsInv'
  BY <1>1, <1>4 DEF Expire
<1>5. CASE UNCHANGED vars
  BY <1>1, <1>5 DEF vars
<1> QED
  BY <1>2, <1>3, <1>4, <1>5, MutateStep, StartStep, PutStep, PutUnansweredStep, ConfirmStep, ConfirmPricesStep,
     CompleteStep, AbortStep, RebaseStep DEF Next

LEMMA OpsInit == Init => OpsInv /\ AskInv /\ TakenInv
<1> SUFFICES ASSUME Init PROVE OpsInv /\ AskInv /\ TakenInv
  OBVIOUS
<1> DEFINE one == [key |-> 1, version |-> 1]
           first == <<[status |-> "applied", basis |-> 1]>>
<1>1. PICK there \in SUBSET Sites :
        /\ relation = [s \in Sites |-> IF s \in there THEN [deployed |-> TRUE, desired |-> "enabled", version |-> 2]
                                       ELSE [deployed |-> FALSE, desired |-> "enabled", version |-> 0]]
        /\ price = [s \in Sites |-> IF s \in there THEN first ELSE <<>>]
        /\ plan = [s \in Sites |-> IF s \in there THEN <<FirstPlan>> ELSE <<>>]
        /\ op = [s \in Sites |-> IF s \in there THEN "succeeded" ELSE "none"]
        /\ channel = [s \in Sites |-> IF s \in there THEN [bound |-> TRUE, key |-> 1, version |-> 1]
                                      ELSE [bound |-> FALSE, key |-> NoCredential, version |-> 0]]
        /\ gateway = [s \in Sites |-> IF s \in there THEN [state |-> Served, basis |-> 1]
                                      ELSE [state |-> NoChannel, basis |-> 1]]
        /\ answered = [s \in Sites |-> IF s \in there
                                       THEN [op |-> 1, expected |-> NoChannel, left |-> Served, basis |-> 1] ELSE NoAnswer]
  BY Zenon DEF Init
<1>2. /\ supplier = [status |-> "enabled", version |-> 1, current |-> one, pending |-> one]
      /\ revoked = {} /\ sealed = 1
      /\ site = [s \in Sites |-> [status |-> "enabled", version |-> 1]]
      /\ run = [s \in Sites |-> Idle]
  BY Zenon DEF Init
<1>3. /\ request = [k \in Keys |-> NoRequest] /\ record = [k \in Keys |-> FALSE]
      /\ ask = [c \in Clients |-> IdleClient]
      /\ taken = [k \in Keys |-> 0] /\ expired = {}
  BY Zenon DEF Init
<1>4. AskInv
  BY <1>3 DEF AskInv
<1>5. TakenInv
  BY <1>3 DEF TakenInv
<1>6. NoCredential \in Nat
  BY CredentialAssumption
<1>7. /\ FirstPlan \in PlanRow /\ FirstPlan.key = 1 /\ FirstPlan.version = 1 /\ FirstPlan.price = 1
      /\ FirstPlan.enabled
  BY DEF FirstPlan, PlanRow
<1>8. /\ Served = Managed(NoChannel, FirstPlan)
      /\ Served = [status |-> "enabled", key |-> 1, version |-> 1, price |-> 1]
  BY DEF Served, Managed, FirstPlan
<1>9. Served \in ManagedState /\ Served.status = "enabled" /\ Served.key = 1 /\ Served.price = 1
  BY <1>8 DEF ManagedState
<1>10. Serves(Served, FirstPlan)
  BY <1>7, <1>8, <1>9 DEF Serves
<1>11. one \in CredentialRow /\ one.key = 1 /\ one.version = 1
  BY DEF CredentialRow
<1>12. /\ first \in Seq(PriceRow) /\ DOMAIN first = {1} /\ first[1].status = "applied"
       /\ <<>> \in Seq(PriceRow) /\ <<>> \in Seq(PlanRow)
       /\ <<FirstPlan>> \in Seq(PlanRow) /\ Len(<<FirstPlan>>) = 1 /\ <<FirstPlan>>[1] = FirstPlan /\ <<FirstPlan>> # <<>>
  BY <1>7 DEF PriceRow
<1> HIDE DEF first
<1>13. RowsTyped
  <2>1. supplier \in SupplierRow
    BY <1>2, <1>11 DEF SupplierRow, Statuses
  <2>2. site \in [Sites -> SiteRow] /\ sealed \in Nat
    BY <1>2 DEF SiteRow, Statuses
  <2>3. relation \in [Sites -> RelationRow]
    BY <1>1 DEF RelationRow, Statuses
  <2>4. price \in [Sites -> Seq(PriceRow)] /\ plan \in [Sites -> Seq(PlanRow)]
    BY <1>1, <1>12
  <2>5. op \in [Sites -> OpStatus]
    BY <1>1 DEF OpStatus
  <2>6. channel \in [Sites -> ChannelRow]
    BY <1>1, <1>6 DEF ChannelRow
  <2> QED
    BY <2>1, <2>2, <2>3, <2>4, <2>5, <2>6 DEF RowsTyped
<1>14. RunsTyped
  <2>1. [op |-> 1, expected |-> NoChannel, left |-> Served, basis |-> 1] \in AnswerRow
    BY <1>9, NoChannelFields DEF AnswerRow
  <2>2. answered \in [Sites -> {NoAnswer} \cup AnswerRow]
    BY <1>1, <2>1
  <2>3. gateway \in [Sites -> [state : ManagedState, basis : Nat]]
    BY <1>1, <1>9, NoChannelFields
  <2> QED
    BY <1>2, <2>2, <2>3 DEF RunsTyped
<1>15. InForce(first) = {1} /\ \A s \in there : s \in Sites /\ price[s] = first /\ Current(s) = {1}
  <2>1. InForce(first) = {1}
    BY <1>12 DEF InForce
  <2>2. \A s \in there : s \in Sites /\ price[s] = first
    BY <1>1
  <2> QED
    BY <2>1, <2>2, CurrentIsInForce
<1>16. Deployments
  <2> SUFFICES ASSUME NEW s \in Sites
               PROVE  IF relation[s].deployed
                      THEN plan[s] # <<>> /\ \E i \in DOMAIN price[s] : Current(s) = {i}
                      ELSE /\ plan[s] = <<>> /\ price[s] = <<>> /\ op[s] = "none"
                           /\ ~channel[s].bound /\ channel[s].key = NoCredential
    BY DEF Deployments
  <2>1. CASE s \in there
    <3>1. relation[s].deployed /\ plan[s] = <<FirstPlan>> /\ 1 \in DOMAIN price[s] /\ Current(s) = {1}
      BY <1>1, <1>12, <1>15, <2>1
    <3> QED
      BY <1>12, <3>1
  <2>2. CASE s \notin there
    BY <1>1, <2>2
  <2> QED
    BY <2>1, <2>2
<1>17. supplier.pending = one /\ supplier.current = one /\ supplier.status = "enabled" /\ ~Rotating
  BY <1>2 DEF Rotating
<1>18. Credentials
  <2>1. \A s \in Sites : channel[s].key \in {NoCredential, 1}
    BY <1>1
  <2>2. sealed = 1 /\ 1 \in 1 .. 1
    BY <1>2
  <2>3. \A s \in Sites : channel[s].key \in {NoCredential} \cup 1 .. sealed
    BY Zenon, <2>1, <2>2
  <2> QED
    BY <1>2, <1>11, <1>17, <2>3 DEF Credentials
<1>19. NewestPlanIsCurrent
  <2> SUFFICES ASSUME NEW s \in Sites, relation[s].deployed
               PROVE  /\ [key |-> plan[s][NewestPlan(s)].key, version |-> plan[s][NewestPlan(s)].version] = supplier.pending
                      /\ plan[s][NewestPlan(s)].price \in Current(s)
                      /\ supplier.status = "disabled" => ~plan[s][NewestPlan(s)].enabled
    BY DEF NewestPlanIsCurrent, Deployed
  <2>1. s \in there
    BY <1>1
  <2>2. plan[s] = <<FirstPlan>> /\ Current(s) = {1}
    BY <1>1, <1>15, <2>1
  <2>3. plan[s][NewestPlan(s)] = FirstPlan
    BY <1>12, <2>2 DEF NewestPlan
  <2> QED
    BY <1>7, <1>17, <2>2, <2>3
<1>20. RunsAreCurrent
  BY <1>2 DEF RunsAreCurrent, Busy, Idle
<1>21. AnswersServe
  <2> SUFFICES ASSUME NEW s \in Sites
               PROVE  /\ answered[s].op # 0 => /\ answered[s].op \in 1 .. NewestPlan(s)
                                               /\ gateway[s].state = answered[s].left
                                               /\ Serves(gateway[s].state, plan[s][answered[s].op])
                      /\ run[s].pc \in {"confirm", "prices", "complete"} => answered[s].op = run[s].op
                      /\ op[s] = "succeeded" => answered[s].op = NewestPlan(s) /\ answered[s].op # 0
    BY DEF AnswersServe
  <2>1. run[s].pc = "idle"
    BY <1>2 DEF Idle
  <2>2. CASE s \in there
    <3>1. /\ answered[s].op = 1 /\ answered[s].left = Served /\ gateway[s].state = Served
          /\ plan[s] = <<FirstPlan>>
      BY <1>1, <2>2
    <3>2. NewestPlan(s) = 1 /\ plan[s][1] = FirstPlan
      BY <1>12, <3>1 DEF NewestPlan
    <3> QED
      BY <1>10, <2>1, <3>1, <3>2
  <2>3. CASE s \notin there
    <3>1. answered[s].op = 0 /\ op[s] = "none"
      BY <1>1, <2>3 DEF NoAnswer
    <3> QED
      BY <2>1, <3>1
  <2> QED
    BY <2>2, <2>3
<1>22. ConfirmedIsInstalled
  BY <1>17 DEF ConfirmedIsInstalled
<1> QED
  BY <1>4, <1>5, <1>13, <1>14, <1>16, <1>18, <1>19, <1>20, <1>21, <1>22 DEF OpsInv

\* What a request left behind is still there after any step.
LEMMA SpentStays ==
    ASSUME OpsInv, OpsInv', Grown, NEW m \in Asked, Spent(m)
    PROVE  Spent(m)'
<1>1. /\ supplier.version \in Nat /\ supplier'.version \in Nat
      /\ \A s \in Sites : /\ site[s].version \in Nat /\ relation[s].version \in Nat
                          /\ site'[s].version \in Nat /\ relation'[s].version \in Nat
  <2>1. RowsTyped /\ RowsTyped'
    BY DEF OpsInv
  <2> QED
    BY <2>1 DEF RowsTyped, SupplierRow, SiteRow, RelationRow
<1>2. /\ m.kind \in OfSupplier => m.version \in Nat
      /\ m.kind \in {"site", "relation"} => m.version \in Nat /\ m.site \in Sites
      /\ m.kind \in {"deploy", "publish"} => m.site \in Sites
  BY DEF Asked, OfSupplier
<1>3. supplier'.version >= supplier.version
  BY DEF Grown
<1>4. m.kind \in OfSupplier => supplier'.version > m.version
  BY <1>1, <1>2, <1>3 DEF Spent
<1>5. m.kind = "site" => site'[m.site].version > m.version
  BY <1>1, <1>2 DEF Spent, Grown
<1>6. m.kind \in {"relation", "deploy"} => relation'[m.site].deployed
  BY <1>2 DEF Spent, Grown
<1>7. m.kind = "relation" => relation'[m.site].version > m.version
  BY <1>1, <1>2 DEF Spent, Grown
<1>8. m.kind = "publish" => m.price \in DOMAIN price'[m.site] /\ price'[m.site][m.price].status # "draft"
  BY <1>2 DEF Spent, Grown
<1> QED
  BY <1>4, <1>5, <1>6, <1>7, <1>8 DEF Spent

\* A run only makes versions grow and prices applied.
LEMMA RunsGrow ==
    ASSUME OpsInv, OpsInv', NEW s \in Sites,
           \/ Start(s) \/ Put(s) \/ PutUnanswered(s) \/ Confirm(s) \/ ConfirmPrices(s) \/ Complete(s)
           \/ Abort(s) \/ Rebase(s)
    PROVE  Grown
<1>1. /\ supplier.version \in Nat
      /\ \A q \in Sites : site[q].version \in Nat /\ relation[q].version \in Nat
  BY SiteFields DEF OpsInv, RowsTyped, SupplierRow
<1>2. ASSUME UNCHANGED <<supplier, site, relation, price>> PROVE Grown
  BY <1>1, <1>2 DEF Grown
<1>3. CASE Start(s) \/ Put(s) \/ PutUnanswered(s) \/ Abort(s) \/ Rebase(s)
  <2>1. UNCHANGED <<supplier, site, relation, price>>
    BY <1>3 DEF Start, Put, Answered, PutUnanswered, Unanswered, FailOperation, Abort, Rebase, tables
  <2> QED
    BY <1>2, <2>1
<1>4. CASE Confirm(s)
  <2>1. /\ relation' = [relation EXCEPT ![s] = [relation[s] EXCEPT !.desired = "enabled", !.version = relation[s].version + 1]]
        /\ UNCHANGED <<supplier, site, price>>
    BY Zenon, <1>4 DEF Confirm
  <2>2. relation[s] \in RelationRow /\ relation[s].version + 1 \in Nat /\ relation \in [Sites -> RelationRow]
    BY <1>1, SiteFields DEF OpsInv, RowsTyped
  <2> DEFINE decided == [deployed |-> relation[s].deployed, desired |-> "enabled", version |-> relation[s].version + 1]
  <2>3. relation' = [relation EXCEPT ![s] = decided]
    BY Zenon, <2>1, <2>2, DecisionSaved DEF Statuses
  <2>4. decided.deployed = relation[s].deployed /\ decided.version = relation[s].version + 1
    OBVIOUS
  <2> HIDE DEF decided
  <2>5. relation'[s] = decided /\ \A q \in Sites : q # s => relation'[q] = relation[q]
    BY <2>2, <2>3
  <2>6. \A q \in Sites : relation[q].deployed => relation'[q].deployed /\ relation'[q].version >= relation[q].version
    BY <1>1, <2>4, <2>5
  <2> QED
    BY <1>1, <2>1, <2>6 DEF Grown
<1>5. CASE ConfirmPrices(s)
  <2> DEFINE q == price[s]
             row(i) == IF i = run[s].plan.price /\ q[i].status = "published" THEN [q[i] EXCEPT !.status = "applied"] ELSE q[i]
             r == [i \in DOMAIN q |-> row(i)]
  <2>1. price' = [price EXCEPT ![s] = r] /\ UNCHANGED <<supplier, site, relation>>
    BY Zenon, <1>5 DEF ConfirmPrices
  <2>2. price \in [Sites -> Seq(PriceRow)] /\ \A i \in DOMAIN q : q[i] \in PriceRow
    BY SequenceOf DEF OpsInv, RowsTyped
  <2>3. ASSUME NEW i \in DOMAIN q PROVE q[i].status # "draft" => row(i).status # "draft"
    <3> HIDE DEF q
    <3>1. [q[i] EXCEPT !.status = "applied"] = [status |-> "applied", basis |-> q[i].basis]
      BY <2>2, PriceSaved
    <3>2. row(i) = [status |-> "applied", basis |-> q[i].basis] \/ row(i) = q[i]
      BY Zenon, <3>1
    <3> HIDE DEF row
    <3> QED
      BY <3>2
  <2> HIDE DEF row
  <2>4. DOMAIN r = DOMAIN q /\ \A i \in DOMAIN q : r[i] = row(i)
    BY Zenon
  <2> HIDE DEF r
  <2>5. \A t \in Sites : \A i \in DOMAIN price[t] :
          i \in DOMAIN price'[t] /\ (price[t][i].status # "draft" => price'[t][i].status # "draft")
    <3>1. price'[s] = r /\ \A t \in Sites : t # s => price'[t] = price[t]
      BY <2>1, <2>2
    <3> QED
      BY <2>3, <2>4, <3>1
  <2> QED
    BY <1>1, <2>1, <2>5 DEF Grown
<1>6. CASE Complete(s)
  <2>1. /\ UNCHANGED <<site, relation, price>>
        /\ supplier' = supplier \/ supplier' = [supplier EXCEPT !.current = supplier.pending]
    BY <1>6 DEF Complete
  <2>2. supplier \in SupplierRow /\ supplier.pending \in CredentialRow
    BY SupplierFields DEF OpsInv
  <2>3. [supplier EXCEPT !.current = supplier.pending] =
            [status |-> supplier.status, version |-> supplier.version, current |-> supplier.pending, pending |-> supplier.pending]
    BY <2>2, PromotionSaved
  <2>4. supplier' = supplier \/ supplier' = [status |-> supplier.status, version |-> supplier.version,
                                             current |-> supplier.pending, pending |-> supplier.pending]
    BY Zenon, <2>1, <2>3
  <2>5. supplier'.version = supplier.version
    BY <2>4
  <2> QED
    BY <1>1, <2>1, <2>5 DEF Grown
<1> QED
  BY <1>3, <1>4, <1>5, <1>6

LEMMA TakenStep ==
    ASSUME OpsInv, OpsInv', AskInv, AskInv', TakenInv, [Next]_vars
    PROVE  TakenInv'
<1>1. /\ record \in [Keys -> BOOLEAN] /\ taken \in [Keys -> Nat] /\ request \in [Keys -> {NoRequest} \cup Asked]
  BY DEF AskInv
<1>2. /\ supplier.version \in Nat
      /\ \A s \in Sites : site[s].version \in Nat /\ relation[s].version \in Nat
  BY SiteFields DEF OpsInv, RowsTyped, SupplierRow
\* A step that does not count: what was left behind is still there.
<1>3. ASSUME Grown, UNCHANGED <<record, taken, expired>>,
             \A k \in Keys : request[k] # NoRequest => request'[k] = request[k]
      PROVE  TakenInv'
  <2> SUFFICES ASSUME NEW k \in Keys
               PROVE  /\ taken[k] = 0 \/ (request'[k] # NoRequest /\ (request'[k].kind \in Repeatable \/ Spent(request[k])'))
                      /\ k \notin expired => taken[k] = IF record[k] THEN 1 ELSE 0
                      /\ k \in expired /\ ~record[k] => taken[k] = 1
                      /\ k \in expired /\ record[k] => taken[k] \in 1 .. 2
                      /\ taken[k] = 2 => request'[k].kind \in Repeatable
    BY <1>3 DEF TakenInv
  <2>1. /\ k \notin expired => taken[k] = IF record[k] THEN 1 ELSE 0
        /\ k \in expired /\ ~record[k] => taken[k] = 1
        /\ k \in expired /\ record[k] => taken[k] \in 1 .. 2
    BY DEF TakenInv
  <2>2. CASE taken[k] = 0
    BY <2>1, <2>2
  <2>3. CASE taken[k] # 0
    <3>1. request[k] # NoRequest /\ (request[k].kind \in Repeatable \/ Spent(request[k]))
      BY <2>3 DEF TakenInv
    <3>2. request'[k] = request[k] /\ request[k] \in Asked
      BY <1>1, <1>3, <3>1
    <3>3. PICK m \in Asked : m = request[k] /\ m = request'[k]
      BY <3>2
    <3>4. m.kind \in Repeatable \/ Spent(m)'
      BY <1>3, <3>1, <3>3, SpentStays
    <3>5. request'[k].kind \in Repeatable \/ Spent(request[k])'
      BY <3>3, <3>4 DEF Spent
    <3> QED
      BY <2>1, <3>1, <3>2, <3>5 DEF TakenInv
  <2> QED
    BY <2>2, <2>3
<1>4. ASSUME UNCHANGED tables PROVE Grown
  BY <1>2, <1>4 DEF Grown, tables
<1>5. ASSUME NEW c \in Clients, NEW k \in Keys, Prepare(c, k) PROVE TakenInv'
  BY <1>3, <1>4, <1>5, PrepareEffect
<1>6. ASSUME NEW c \in Clients, Refuse(c) PROVE TakenInv'
  BY <1>3, <1>4, <1>6 DEF Refuse
<1>7. CASE UNCHANGED vars
  BY <1>3, <1>4, <1>7 DEF vars, requests
<1>8. ASSUME NEW s \in Sites,
             Start(s) \/ Put(s) \/ PutUnanswered(s) \/ Confirm(s) \/ ConfirmPrices(s) \/ Complete(s)
             \/ Abort(s) \/ Rebase(s)
      PROVE  TakenInv'
  <2>1. UNCHANGED requests
    BY <1>8 DEF Start, Put, PutUnanswered, Confirm, ConfirmPrices, Complete, Abort, Rebase, KeepRequests, requests
  <2>2. Grown
    BY <1>8, RunsGrow
  <2> QED
    BY <1>3, <2>1, <2>2 DEF requests
<1>9. ASSUME NEW x \in Keys, Expire(x) PROVE TakenInv'
  <2>1. /\ x \notin expired /\ record[x] /\ expired' = expired \cup {x}
        /\ record' = [record EXCEPT ![x] = FALSE] /\ UNCHANGED <<tables, request, taken>>
    BY <1>9 DEF Expire
  <2>2. record'[x] = FALSE /\ \A k \in Keys : k # x => record'[k] = record[k]
    BY <1>1, <2>1
  <2>3. taken[x] = 1
    BY <2>1 DEF TakenInv
  <2>4. \A k \in Keys : Spent(request[k])' <=> Spent(request[k])
    BY <2>1 DEF Spent, tables
  <2> SUFFICES ASSUME NEW k \in Keys
               PROVE  /\ taken[k] = 0 \/ (request[k] # NoRequest /\ (request[k].kind \in Repeatable \/ Spent(request[k])))
                      /\ k \notin expired' => taken[k] = IF record'[k] THEN 1 ELSE 0
                      /\ k \in expired' /\ ~record'[k] => taken[k] = 1
                      /\ k \in expired' /\ record'[k] => taken[k] \in 1 .. 2
                      /\ taken[k] = 2 => request[k].kind \in Repeatable
    BY <2>1, <2>4 DEF TakenInv, Spent, tables
  <2>5. /\ taken[k] = 0 \/ (request[k] # NoRequest /\ (request[k].kind \in Repeatable \/ Spent(request[k])))
        /\ taken[k] = 2 => request[k].kind \in Repeatable
    BY DEF TakenInv
  <2>6. /\ k \notin expired' => taken[k] = IF record'[k] THEN 1 ELSE 0
        /\ k \in expired' /\ ~record'[k] => taken[k] = 1
        /\ k \in expired' /\ record'[k] => taken[k] \in 1 .. 2
    BY <2>1, <2>2, <2>3 DEF TakenInv
  <2> QED
    BY <2>5, <2>6
<1>10. ASSUME NEW c \in Clients, Mutate(c) PROVE TakenInv'
  <2>0. ask[c] # IdleClient /\ ask[c].key \in Keys /\ request[ask[c].key] \in Asked
    BY <1>10, Carried DEF Mutate
  <2> PICK x \in Keys : x = ask[c].key
    BY <2>0
  <2> PICK basis \in Nat : basis = ask[c].basis
    BY <2>0, Carried
  <2> PICK m \in Asked : m = request[x]
    BY <2>0
  <2>1. m # NoRequest
    BY AskedIsARequest
  <2>2. UNCHANGED <<request, expired>>
    BY <1>10 DEF Mutate
  <2>3. CASE Replayed(x)
    <3>1. UNCHANGED <<tables, record, taken>>
      BY <1>10, <2>3 DEF Mutate
    <3> QED
      BY <1>3, <1>4, <2>2, <3>1
  <2>4. CASE ~Replayed(x)
    <3>1. /\ Apply(m, basis)
          /\ record' = [record EXCEPT ![x] = TRUE]
          /\ taken' = [taken EXCEPT ![x] = taken[x] + 1]
      BY <1>10, <2>4 DEF Mutate
    <3>2. ~record[x]
      BY <2>4 DEF Replayed
    <3>3. Grown /\ (m.kind \notin Repeatable => ~Spent(m) /\ Spent(m)')
      BY <3>1, ApplyEffect DEF OpsInv
    <3>4. record'[x] = TRUE /\ taken'[x] = taken[x] + 1
          /\ \A k \in Keys : k # x => record'[k] = record[k] /\ taken'[k] = taken[k]
      BY <1>1, <2>1, <3>1
    <3> SUFFICES ASSUME NEW k \in Keys
                 PROVE  /\ taken'[k] = 0 \/ (request'[k] # NoRequest /\ (request'[k].kind \in Repeatable \/ Spent(request[k])'))
                        /\ k \notin expired => taken'[k] = IF record'[k] THEN 1 ELSE 0
                        /\ k \in expired /\ ~record'[k] => taken'[k] = 1
                        /\ k \in expired /\ record'[k] => taken'[k] \in 1 .. 2
                        /\ taken'[k] = 2 => request'[k].kind \in Repeatable
      BY <2>2 DEF TakenInv
    <3>5. CASE k = x
      <4>1. request'[k] = m
        BY <2>2, <3>5
      <4>2. m.kind \in Repeatable \/ Spent(request[k])'
        BY <3>3, <4>1 DEF Spent
      <4>3. x \notin expired => taken[x] = 0
        BY <2>1, <3>2 DEF TakenInv
      <4>4. x \in expired => taken[x] = 1
        BY <2>1, <3>2 DEF TakenInv
      <4>5. taken[x] = 1 => m.kind \in Repeatable
        <5>1. taken[x] = 1 => m.kind \in Repeatable \/ Spent(m)
          BY <2>1 DEF TakenInv
        <5> QED
          BY <3>3, <5>1
      <4> QED
        BY <2>1, <3>4, <3>5, <4>1, <4>2, <4>3, <4>4, <4>5
    <3>6. CASE k # x
      <4>1. /\ k \notin expired => taken[k] = IF record[k] THEN 1 ELSE 0
            /\ k \in expired /\ ~record[k] => taken[k] = 1
            /\ k \in expired /\ record[k] => taken[k] \in 1 .. 2
            /\ taken[k] = 2 => request[k].kind \in Repeatable
        BY DEF TakenInv
      <4>2. taken'[k] = taken[k] /\ record'[k] = record[k] /\ request'[k] = request[k]
        BY <2>2, <3>4, <3>6
      <4>3. CASE taken[k] = 0
        BY <4>1, <4>2, <4>3
      <4>4. CASE taken[k] # 0
        <5>1. request[k] # NoRequest /\ (request[k].kind \in Repeatable \/ Spent(request[k]))
          BY <4>4 DEF TakenInv
        <5>2. PICK n \in Asked : n = request[k] /\ n = request'[k]
          BY <1>1, <4>2, <5>1
        <5>3. n.kind \in Repeatable \/ Spent(n)'
          BY <3>3, <5>1, <5>2, SpentStays
        <5>4. request'[k].kind \in Repeatable \/ Spent(request[k])'
          BY <5>2, <5>3 DEF Spent
        <5> QED
          BY <4>1, <4>2, <5>1, <5>4
      <4> QED
        BY <4>3, <4>4
    <3> QED
      BY <3>5, <3>6
  <2> QED
    BY <2>3, <2>4
<1> QED
  BY <1>5, <1>6, <1>7, <1>8, <1>9, <1>10 DEF Next
-----------------------------------------------------------------------------
(***************************************************************************)
(* The theorems.                                                           *)
(***************************************************************************)
(* Every reachable state keeps the tables typed and consistent, the runs   *)
(* on their sites' newest plans, and the requests' effects accounted for.  *)
THEOREM OperationsInvariant == Spec => [](OpsInv /\ AskInv /\ TakenInv)
<1>1. OpsInv /\ AskInv /\ TakenInv /\ [Next]_vars => (OpsInv /\ AskInv /\ TakenInv)'
  BY OpsStep, AskStep, TakenStep
<1> QED
  BY <1>1, OpsInit, PTL DEF Spec

(* A request takes effect once for as long as its record is kept, and only *)
(* once ever if it expects a version or makes what may exist once          *)
(* (MutateOperations' record; the version of its updates).                 *)
THEOREM RequestsAreTakenOnce == Spec => []TakenOnce
<1>1. AskInv /\ TakenInv => TakenOnce
  <2> SUFFICES ASSUME AskInv, TakenInv, NEW k \in Keys
               PROVE  taken[k] <= IF request[k] # NoRequest /\ request[k].kind \in Repeatable /\ k \in expired THEN 2 ELSE 1
    BY DEF TakenOnce
  <2>1. /\ k \notin expired => taken[k] = IF record[k] THEN 1 ELSE 0
        /\ k \in expired /\ ~record[k] => taken[k] = 1
        /\ k \in expired /\ record[k] => taken[k] \in 1 .. 2
        /\ taken[k] = 2 => request[k] # NoRequest /\ request[k].kind \in Repeatable
    BY DEF TakenInv
  <2>2. taken[k] \in {0, 1, 2}
    <3>1. CASE k \notin expired
      BY <2>1, <3>1
    <3>2. CASE k \in expired
      BY <2>1, <3>2 DEF AskInv
    <3> QED
      BY <3>1, <3>2
  <2> QED
    BY <2>1, <2>2
<1> QED
  BY <1>1, OperationsInvariant, PTL

(* The newest plan of a site under management has the credential to        *)
(* install, the price in force, and serves nothing of a stopped supplier,  *)
(* whatever the order of the operators' changes (MutateOperations).        *)
THEOREM PlansAreCurrent == Spec => []NewestPlanIsCurrent
<1>1. OpsInv => NewestPlanIsCurrent
  BY DEF OpsInv
<1> QED
  BY <1>1, OperationsInvariant, PTL

(* When the newest plan has succeeded, the gateway serves it, through lost *)
(* answers, repeated puts and refused ones (runManagedSite).               *)
THEOREM SuccessServes == Spec => []SuccessIsServed
<1>1. OpsInv => SuccessIsServed
  <2> SUFFICES ASSUME OpsInv, NEW s \in Sites, op[s] = "succeeded"
               PROVE  /\ gateway[s].state.price = plan[s][NewestPlan(s)].price
                      /\ IF plan[s][NewestPlan(s)].enabled
                         THEN gateway[s].state = Managed(NoChannel, plan[s][NewestPlan(s)])
                         ELSE gateway[s].state.status \in {"absent", "stopped"}
    BY DEF SuccessIsServed
  <2>1. Serves(gateway[s].state, plan[s][NewestPlan(s)])
    BY DEF OpsInv, AnswersServe
  <2> QED
    BY <2>1 DEF Serves
<1> QED
  BY <1>1, OperationsInvariant, PTL

(* No put installs a credential that has been revoked (lockTargets and     *)
(* AcquireSiteLock: a rotation waits for the runs that send the candidate).*)
THEOREM RevokedStaysOut == Spec => RevokedIsNotInstalled
<1>1. OpsInv /\ [Next]_vars =>
        [\A s \in Sites : gateway'[s].state.key # gateway[s].state.key => gateway'[s].state.key \notin revoked]_vars
  <2> SUFFICES ASSUME OpsInv, Next, NEW q \in Sites, gateway'[q].state.key # gateway[q].state.key
               PROVE  gateway'[q].state.key \notin revoked
    OBVIOUS
  <2>1. supplier.pending.key \notin revoked
    BY DEF OpsInv, Credentials
  <2>2. ASSUME NEW s \in Sites, Put(s) \/ PutUnanswered(s)
        PROVE  gateway'[q].state.key \notin revoked
    <3>1. Busy(s)
      BY <2>2 DEF Put, PutUnanswered, At, Busy
    <3>2. \/ UNCHANGED remote
          \/ gateway[s].state = run[s].before /\ Install(s)
      BY <2>2 DEF Put, PutUnanswered, Accepts
    <3>3. /\ \A p \in Sites : p # s => gateway'[p] = gateway[p]
          /\ gateway'[s].state.key \in {gateway[s].state.key, supplier.pending.key}
      BY <3>1, <3>2, PutEffect
    <3> QED
      BY <2>1, <3>3
  <2>3. ASSUME NEW s \in Sites, Rebase(s)
        PROVE  FALSE
    <3>1. gateway'[q].state = gateway[q].state
      BY <2>3, RebaseKeepsStates DEF OpsInv
    <3> QED
      BY <3>1
  <2>4. ASSUME UNCHANGED gateway PROVE FALSE
    BY <2>4
  <2>5. ASSUME NEW c \in Clients, (\E k \in Keys : Prepare(c, k)) \/ Mutate(c) \/ Refuse(c)
        PROVE  FALSE
    BY <2>4, <2>5 DEF Prepare, Mutate, Refuse, remote
  <2>6. ASSUME NEW k \in Keys, Expire(k) PROVE FALSE
    BY <2>4, <2>6 DEF Expire, remote
  <2>7. ASSUME NEW s \in Sites, Start(s) \/ Confirm(s) \/ ConfirmPrices(s) \/ Complete(s) \/ Abort(s)
        PROVE  FALSE
    BY <2>4, <2>7 DEF Start, Read, Confirm, ConfirmPrices, Complete, Abort, remote
  <2> QED
    BY <2>2, <2>3, <2>5, <2>6, <2>7 DEF Next
<1> QED
  BY <1>1, OperationsInvariant, PTL DEF Spec, RevokedIsNotInstalled

(* A credential becomes the supplier's current one only when every channel *)
(* in use has it (PromoteConfirmedSupplierCredential).                     *)
THEOREM PromotedIsThere == Spec => PromotedIsInstalled
<1>1. OpsInv /\ AskInv /\ [Next]_vars =>
        [supplier'.current # supplier.current =>
           \A s \in Deployed : channel[s].bound => gateway[s].state.key = supplier'.current.key]_vars
  <2> SUFFICES ASSUME OpsInv, AskInv, Next, supplier'.current # supplier.current,
                      NEW q \in Deployed, channel[q].bound
               PROVE  gateway[q].state.key = supplier'.current.key
    OBVIOUS
  <2>1. ASSUME NEW c \in Clients, Mutate(c) PROVE FALSE
    <3>1. ask[c] # IdleClient /\ ask[c].key \in Keys /\ request[ask[c].key] \in Asked /\ ask[c].basis \in Nat
      BY <2>1, Carried DEF Mutate
    <3>2. CASE UNCHANGED tables
      BY <3>2 DEF tables
    <3>3. CASE Apply(request[ask[c].key], ask[c].basis)
      <4> PICK m \in Asked : m = request[ask[c].key]
        BY <3>1
      <4>1. Apply(m, ask[c].basis)
        BY <3>3
      <4>2. Mutated(m)
        BY <3>1, <4>1, ApplyEffect DEF OpsInv
      <4> QED
        BY <4>2 DEF Mutated
    <3> QED
      BY <2>1, <3>2, <3>3 DEF Mutate
  <2>2. ASSUME NEW s \in Sites, Complete(s)
        PROVE  gateway[q].state.key = supplier'.current.key
    <3>1. EverySiteConfirmed /\ supplier' = [supplier EXCEPT !.current = supplier.pending]
      BY <2>2 DEF Complete
    <3>2. supplier \in SupplierRow /\ supplier.pending \in CredentialRow
      BY SupplierFields DEF OpsInv
    <3>3. supplier'.current = supplier.pending
      BY <3>1, <3>2, PromotionSaved
    <3>4. Rotating
      BY <3>3 DEF Rotating
    <3>5. q \in Sites /\ channel[q].key = supplier.pending.key
      BY <3>1 DEF EverySiteConfirmed, Deployed
    <3> QED
      BY <3>3, <3>4, <3>5 DEF OpsInv, ConfirmedIsInstalled
  <2>3. ASSUME UNCHANGED supplier PROVE FALSE
    BY <2>3
  <2>4. ASSUME NEW c \in Clients, (\E k \in Keys : Prepare(c, k)) \/ Refuse(c)
        PROVE  FALSE
    BY <2>3, <2>4 DEF Prepare, Refuse, tables
  <2>5. ASSUME NEW k \in Keys, Expire(k) PROVE FALSE
    BY <2>3, <2>5 DEF Expire, tables
  <2>6. ASSUME NEW s \in Sites,
               Start(s) \/ Put(s) \/ PutUnanswered(s) \/ Confirm(s) \/ ConfirmPrices(s) \/ Abort(s) \/ Rebase(s)
        PROVE  FALSE
    <3>1. UNCHANGED supplier
      BY <2>6 DEF Start, Put, Answered, PutUnanswered, Unanswered, FailOperation, Confirm, ConfirmPrices, Abort, Rebase, tables
    <3> QED
      BY <2>3, <3>1
  <2> QED
    BY <2>1, <2>2, <2>4, <2>5, <2>6 DEF Next
<1> QED
  BY <1>1, OperationsInvariant, PTL DEF Spec, PromotedIsInstalled
-----------------------------------------------------------------------------
(***************************************************************************)
(* The steps of Operations are steps of RotationContract.                  *)
(***************************************************************************)
\* A confirmed channel is one that the gateway has, as no put takes it away.
BoundIsThere == \A s \in Sites : channel[s].bound => gateway[s].state.status # "absent"

\* Nothing that the contract speaks of has changed.
LEMMA ContractStutters ==
    ASSUME UNCHANGED <<revoked, sealed, channel>>, supplier'.current = supplier.current,
           supplier'.pending = supplier.pending,
           \A s \in Sites : gateway'[s].state = gateway[s].state
    PROVE  UNCHANGED Contract!rotation /\ (BoundIsThere => BoundIsThere')
BY DEF Contract!rotation, BoundIsThere

LEMMA RotationIsOn ==
    ASSUME Credentials
    PROVE  Contract!Rotating <=> Rotating
BY DEF Contract!Rotating, Credentials, Rotating

\* A rotation makes a credential, revokes the candidate it replaces, and is over at once without sites.
LEMMA RotateIsRotate ==
    ASSUME RowsTyped, Deployments, Credentials, NEW m, RotateCredential(m), UNCHANGED gateway
    PROVE  Contract!Next
<1> DEFINE k == sealed + 1
<1>1. /\ supplier'.pending.key = k /\ supplier'.current \in {supplier.current, supplier'.pending}
      /\ supplier'.current = supplier.current \/ Deployed = {}
  BY RotateCredentialChanges
<1>2. /\ sealed < MaxCredentials /\ sealed' = k /\ channel' = channel
      /\ revoked' = IF Rotating THEN revoked \cup {supplier.pending.key} ELSE revoked
  BY DEF RotateCredential, Replaced
<1>3. sealed \in Nat /\ MaxCredentials \in Nat
  BY CredentialAssumption DEF RowsTyped
<1>4. k \in 1 .. MaxCredentials /\ k \notin 1 .. sealed /\ 1 .. sealed' = (1 .. sealed) \cup {k}
  BY <1>2, <1>3
<1>5. supplier'.current.key = supplier.current.key \/ (Deployed = {} /\ supplier'.current.key = k)
  BY <1>1
<1>6. Deployed = {} => {s \in Sites : channel[s].bound} = {}
  BY DEF Deployments, Deployed
<1> HIDE DEF k
<1>7. Contract!Rotate(k)
  BY <1>1, <1>2, <1>4, <1>5, <1>6, RotationIsOn DEF Contract!Rotate
<1> QED
  BY <1>4, <1>7 DEF Contract!Next

LEMMA CancelIsCancel ==
    ASSUME RowsTyped, Credentials, NEW m, CancelCredential(m), UNCHANGED gateway
    PROVE  Contract!Next
<1>1. supplier'.pending = supplier'.current /\ supplier'.current = supplier.current
  BY CancelCredentialChanges
<1>2. /\ Rotating /\ revoked' = revoked \cup {supplier.pending.key}
      /\ UNCHANGED <<sealed, channel>>
  BY DEF CancelCredential
<1>3. Contract!Cancel
  BY <1>1, <1>2, RotationIsOn DEF Contract!Cancel
<1> QED
  BY <1>3 DEF Contract!Next

\* A mutation rotates, cancels, or leaves the credentials alone.
LEMMA MutateKeepsContract ==
    ASSUME OpsInv, AskInv, BoundIsThere, NEW c \in Clients, Mutate(c)
    PROVE  [Contract!Next]_(Contract!rotation) /\ BoundIsThere'
<1> DEFINE m == request[ask[c].key]
<1>1. gateway' = gateway /\ ask[c] # IdleClient
  BY DEF Mutate, remote
<1>2. m \in Asked /\ ask[c].basis \in Nat
  BY <1>1, Carried
<1>3. CASE UNCHANGED tables
  BY <1>1, <1>3, ContractStutters DEF tables
<1>4. CASE Apply(m, ask[c].basis)
  <2> HIDE DEF m
  <2>1. Mutated(m)
    BY <1>2, <1>4, ApplyEffect DEF OpsInv
  <2>2. BoundIsThere'
    BY <1>1, <2>1 DEF Mutated, BoundIsThere
  <2>3. \/ RotateCredential(m)
        \/ CancelCredential(m)
        \/ m.kind = "supplier" /\ SaveSupplier(m)
        \/ UNCHANGED <<supplier, revoked, sealed>>
    BY <1>4 DEF Apply, SaveSite, Restore, Tables, SaveRelation, Deploy
  <2>4. CASE m.kind = "supplier" /\ SaveSupplier(m)
    <3>1. m.status \in Statuses
      BY <1>2, <2>4 DEF Asked
    <3>2. supplier'.current = supplier.current /\ supplier'.pending = supplier.pending
      BY <2>4, <3>1, SaveSupplierChanges DEF OpsInv
    <3>3. UNCHANGED <<revoked, sealed, channel>>
      BY <2>4 DEF SaveSupplier
    <3> QED
      BY <1>1, <2>2, <3>2, <3>3, ContractStutters
  <2>5. CASE UNCHANGED <<supplier, revoked, sealed>>
    BY <1>1, <2>1, <2>5, ContractStutters DEF Mutated
  <2> QED
    BY <1>1, <2>2, <2>3, <2>4, <2>5, RotateIsRotate, CancelIsCancel DEF OpsInv
<1> QED
  BY <1>3, <1>4 DEF Mutate, tables

\* A put gives the gateway the candidate, or leaves its credential.
LEMMA PutIsSend ==
    ASSUME OpsInv, BoundIsThere, NEW s \in Sites, Put(s) \/ PutUnanswered(s)
    PROVE  [Contract!Next]_(Contract!rotation) /\ BoundIsThere'
<1>1. Busy(s)
  BY DEF Put, PutUnanswered, At, Busy
<1>2. UNCHANGED <<supplier, revoked, sealed, channel>>
  BY DEF Put, Answered, PutUnanswered, Unanswered, FailOperation, tables
<1>3. UNCHANGED remote \/ (gateway[s].state = run[s].before /\ Install(s))
  BY DEF Put, PutUnanswered, Accepts
<1>4. /\ \A q \in Sites : q # s => gateway'[q] = gateway[q]
      /\ gateway'[s].state.key \in {gateway[s].state.key, supplier.pending.key}
  BY <1>1, <1>3, PutEffect
<1>5. gateway[s].state.status # "absent" => gateway'[s].state.status # "absent"
  <2>1. CASE Install(s) /\ gateway[s].state = run[s].before
    <3>1. gateway' = [gateway EXCEPT ![s] = [gateway[s] EXCEPT !.state = Wanted(s)]]
      BY Zenon, <2>1 DEF Install
    <3>2. gateway[s] \in GatewayRow /\ gateway \in [Sites -> GatewayRow]
      BY RunFields DEF OpsInv, RunsTyped, GatewayRow
    <3> DEFINE w == Wanted(s)
    <3>3. gateway[s].state.status # "absent" => w.status # "absent"
      BY <2>1 DEF Wanted, Managed
    <3> HIDE DEF w
    <3>4. [gateway[s] EXCEPT !.state = w].state = w
      BY <3>2 DEF GatewayRow
    <3> DEFINE row == [gateway[s] EXCEPT !.state = w]
    <3>5. gateway' = [gateway EXCEPT ![s] = row] /\ row.state = w
      BY Zenon, <3>1, <3>4 DEF w
    <3> HIDE DEF row
    <3>6. gateway'[s].state = w
      BY <3>2, <3>5
    <3> QED
      BY <3>3, <3>6
  <2>2. CASE UNCHANGED remote
    BY <2>2 DEF remote
  <2> QED
    BY <1>3, <2>1, <2>2
<1>6. BoundIsThere'
  BY <1>2, <1>4, <1>5 DEF BoundIsThere
<1> DEFINE held == [q \in Sites |-> gateway[q].state.key]
<1>7. CASE gateway'[s].state.key = gateway[s].state.key
  <2>1. held' = held
    BY <1>4, <1>7
  <2> QED
    BY <1>2, <1>6, <2>1 DEF Contract!rotation
<1>8. CASE gateway'[s].state.key = supplier.pending.key
  <2>1. held' = [held EXCEPT ![s] = supplier.pending.key]
    BY <1>4, <1>8
  <2>2. Contract!Send(s)
    BY <1>2, <2>1 DEF Contract!Send
  <2> QED
    BY <1>6, <2>2 DEF Contract!Next
<1> QED
  BY <1>4, <1>7, <1>8

\* A confirmation takes into use what carries the candidate.
LEMMA ConfirmIsUse ==
    ASSUME OpsInv, BoundIsThere, NEW s \in Sites, Confirm(s)
    PROVE  [Contract!Next]_(Contract!rotation) /\ BoundIsThere'
<1> DEFINE row == [bound |-> gateway[s].state.status # "absent",
                   key |-> IF CredentialApplied(s) THEN run[s].plan.key ELSE channel[s].key,
                   version |-> IF CredentialApplied(s) THEN run[s].plan.version ELSE channel[s].version]
           bound == gateway[s].state.status # "absent"
<1>1. run[s].pc = "confirm" /\ Busy(s) /\ UNCHANGED <<supplier, revoked, sealed, plan, gateway>>
  BY DEF Confirm, At, Busy, remote
<1>2. channel' = [channel EXCEPT ![s] = row]
  BY Zenon DEF Confirm, ConfirmChannel
<1>3. row.bound <=> bound
  BY Zenon
<1> HIDE DEF row
<1>4. /\ channel'[s].bound <=> bound
      /\ \A q \in Sites : q # s => channel'[q] = channel[q]
  BY <1>2, <1>3 DEF OpsInv, RowsTyped
<1>5. BoundIsThere'
  BY <1>1, <1>4 DEF BoundIsThere
<1>6. bound => gateway[s].state.key = supplier.pending.key
  <2>1. answered[s].op = NewestPlan(s) /\ answered[s].op # 0
    BY <1>1, BusySite DEF OpsInv, AnswersServe
  <2>2. Serves(gateway[s].state, plan[s][NewestPlan(s)])
    BY <2>1 DEF OpsInv, AnswersServe
  <2> QED
    BY <1>1, <2>2, BusySite DEF Serves
<1>7. CASE bound
  <2>1. {q \in Sites : channel'[q].bound} = {q \in Sites : channel[q].bound} \cup {s}
    BY <1>4, <1>7
  <2>2. Contract!Use(s)
    BY <1>1, <1>6, <1>7, <2>1 DEF Contract!Use
  <2> QED
    BY <1>5, <2>2 DEF Contract!Next
<1>8. CASE ~bound
  <2>1. {q \in Sites : channel'[q].bound} = {q \in Sites : channel[q].bound}
    BY <1>4, <1>8 DEF BoundIsThere
  <2> QED
    BY <1>1, <1>5, <2>1 DEF Contract!rotation
<1> QED
  BY <1>7, <1>8

\* A completed run promotes the candidate only when every channel in use has it.
LEMMA CompleteIsPromote ==
    ASSUME OpsInv, BoundIsThere, NEW s \in Sites, Complete(s)
    PROVE  [Contract!Next]_(Contract!rotation) /\ BoundIsThere'
<1>1. UNCHANGED <<revoked, sealed, channel, gateway>>
  BY DEF Complete, remote
<1>2. CASE supplier' = supplier
  BY <1>1, <1>2, ContractStutters
<1>3. CASE EverySiteConfirmed /\ supplier' = [supplier EXCEPT !.current = supplier.pending]
  <2>1. supplier \in SupplierRow /\ supplier.pending \in CredentialRow
    BY SupplierFields DEF OpsInv
  <2>2. supplier'.current = supplier.pending /\ supplier'.pending = supplier.pending
    BY <1>3, <2>1, PromotionSaved
  <2>3. CASE ~Rotating
    BY <1>1, <2>2, <2>3, ContractStutters DEF Rotating
  <2>4. CASE Rotating
    <3>1. \A q \in Sites : channel[q].bound => gateway[q].state.key = supplier.pending.key
      <4> SUFFICES ASSUME NEW q \in Sites, channel[q].bound
                   PROVE  gateway[q].state.key = supplier.pending.key
        OBVIOUS
      <4>1. q \in Deployed
        BY DEF OpsInv, Deployments, Deployed
      <4>2. channel[q].key = supplier.pending.key
        BY <1>3, <4>1 DEF EverySiteConfirmed
      <4> QED
        BY <2>4, <4>2 DEF OpsInv, ConfirmedIsInstalled
    <3>2. Contract!Promote
      BY <1>1, <2>2, <3>1 DEF Contract!Promote
    <3>3. BoundIsThere'
      BY <1>1 DEF BoundIsThere
    <3> QED
      BY <3>2, <3>3 DEF Contract!Next
  <2> QED
    BY <2>3, <2>4
<1> QED
  BY <1>2, <1>3 DEF Complete

\* The operators' changes and the runs of all sites, in any order and with all
\* faults, are a rotation: only the candidate goes to the gateways, what carries
\* it comes into use and stays so, the candidate becomes current when all that is
\* in use carries it, and what is replaced before is revoked and not made again
\* (rotateCredential, cancelCredential, PromoteConfirmedSupplierCredential).
THEOREM OperationsImplementRotation == Spec => Rotation
<1>1. Init => Contract!Init /\ BoundIsThere
  <2> SUFFICES ASSUME Init PROVE Contract!Init /\ BoundIsThere
    OBVIOUS
  <2>1. PICK there \in SUBSET Sites :
          /\ channel = [s \in Sites |-> IF s \in there THEN [bound |-> TRUE, key |-> 1, version |-> 1]
                                        ELSE [bound |-> FALSE, key |-> NoCredential, version |-> 0]]
          /\ gateway = [s \in Sites |-> IF s \in there THEN [state |-> Served, basis |-> 1]
                                        ELSE [state |-> NoChannel, basis |-> 1]]
    BY Zenon DEF Init
  <2>2. /\ supplier.current.key = 1 /\ supplier.pending.key = 1
        /\ revoked = {} /\ sealed = 1 /\ 1 \in 1 .. MaxCredentials /\ NoCredential # 1
    BY CredentialAssumption DEF Init
  <2>3. Served.key = 1 /\ Served.status = "enabled" /\ NoChannel.key = NoCredential
    BY DEF Served, Managed, FirstPlan, NoChannel
  <2>4. \A s \in Sites : /\ channel[s].bound <=> s \in there
                         /\ gateway[s].state = IF s \in there THEN Served ELSE NoChannel
    BY <2>1
  <2>5. {s \in Sites : channel[s].bound} = {s \in Sites : gateway[s].state.key = 1}
    BY <2>2, <2>3, <2>4
  <2>6. 1 .. sealed = {1}
    BY <2>2
  <2>7. Contract!Init
    BY <2>2, <2>5, <2>6 DEF Contract!Init
  <2>8. BoundIsThere
    BY <2>3, <2>4 DEF BoundIsThere
  <2> QED
    BY <2>7, <2>8
<1>2. OpsInv /\ AskInv /\ BoundIsThere /\ [Next]_vars
        => [Contract!Next]_(Contract!rotation) /\ BoundIsThere'
  <2> SUFFICES ASSUME OpsInv, AskInv, BoundIsThere, [Next]_vars
               PROVE  [Contract!Next]_(Contract!rotation) /\ BoundIsThere'
    OBVIOUS
  <2>1. ASSUME UNCHANGED <<supplier, revoked, sealed, channel, gateway>>
        PROVE  UNCHANGED Contract!rotation /\ BoundIsThere'
    BY <2>1, ContractStutters
  <2>2. ASSUME NEW c \in Clients, (\E k \in Keys : Prepare(c, k)) \/ Refuse(c)
        PROVE  UNCHANGED Contract!rotation /\ BoundIsThere'
    BY <2>1, <2>2 DEF Prepare, Refuse, tables, remote
  <2>3. ASSUME NEW k \in Keys, Expire(k)
        PROVE  UNCHANGED Contract!rotation /\ BoundIsThere'
    BY <2>1, <2>3 DEF Expire, tables, remote
  <2>4. ASSUME NEW s \in Sites, Start(s) \/ ConfirmPrices(s) \/ Abort(s)
        PROVE  UNCHANGED Contract!rotation /\ BoundIsThere'
    BY <2>1, <2>4 DEF Start, Read, FailOperation, ConfirmPrices, Abort, tables, remote
  <2>5. ASSUME NEW s \in Sites, Rebase(s)
        PROVE  UNCHANGED Contract!rotation /\ BoundIsThere'
    <3>1. \A q \in Sites : gateway'[q].state = gateway[q].state
      BY <2>5, RebaseKeepsStates DEF OpsInv
    <3> QED
      BY <2>5, <3>1, ContractStutters DEF Rebase, tables
  <2>6. CASE UNCHANGED vars
    BY <2>1, <2>6 DEF vars, tables, remote
  <2> QED
    BY <2>2, <2>3, <2>4, <2>5, <2>6, MutateKeepsContract, PutIsSend, ConfirmIsUse, CompleteIsPromote DEF Next
<1> QED
  BY <1>1, <1>2, OperationsInvariant, PTL DEF Spec, Rotation, Contract!Spec
=============================================================================
