----------------------------- MODULE ManagedSync -----------------------------
(***************************************************************************)
(* One run of a site's plan through New API's managed endpoints: read the  *)
(* state, put the whole plan with the state that was read, check and       *)
(* confirm what comes back.                                                *)
(*                                                                         *)
(* Covered: application/reconciliation/site_managed_sync.go, the adapter   *)
(* gateway/newapi/managed_sync.go and the gateway behind it as the run     *)
(* uses it: a put compares the state it expects, is atomic, and is         *)
(* answered from a record when its operation identifier was seen before.   *)
(* A site has one channel.  A channel shows its credential's version, not  *)
(* the credential.                                                         *)
(***************************************************************************)
EXTENDS Naturals

CONSTANTS
    Sites,
    NoCredential   \* the key of a channel that does not exist

VARIABLES
    gateway,   \* New API of each site: its billing basis and the managed state
    answered,  \* the operation (number of a plan) put last, the state it expected and left
    run        \* the locals of runManagedSite for each site

remote == <<gateway, answered>>

(* What the adapter makes of the gateway's state.                          *)
ManagedState == [status : {"absent", "stopped", "enabled"}, key : Nat, version : Nat, price : Nat]

NoChannel == [status |-> "absent", key |-> NoCredential, version |-> 0, price |-> 0]
NoAnswer == [op |-> 0]
Idle == [pc |-> "idle"]

(* What a channel and its group become by a plan's put; a plan that stops  *)
(* a channel that does not exist creates none.                             *)
Managed(now, plan) ==
    IF ~plan.enabled
    THEN IF now.status = "absent" THEN [now EXCEPT !.price = plan.price]
         ELSE [status |-> "stopped", key |-> IF plan.available THEN plan.key ELSE now.key,
               version |-> plan.version, price |-> plan.price]
    ELSE [status |-> "enabled", key |-> plan.key, version |-> plan.version, price |-> plan.price]

At(s, place) == run[s].pc = place
Goto(s, place) == run' = [run EXCEPT ![s].pc = place]

(* ReadManagedState, what runManagedSite refuses, and the request it       *)
(* builds: the plan with the state that was read.  Only a credential that  *)
(* is not revoked can be sent.                                             *)
Readable(s, plan, available) ==
    /\ gateway[s].basis = plan.basis
    /\ plan.enabled => available

Read(s, n, plan, available) ==
    /\ Readable(s, plan, available)
    /\ run' = [run EXCEPT ![s] = [pc |-> "put", op |-> n, before |-> gateway[s].state,
                                  plan |-> [key |-> plan.key, version |-> plan.version,
                                            enabled |-> plan.enabled, price |-> plan.price,
                                            basis |-> plan.basis, available |-> available]]]
    /\ UNCHANGED remote

Wanted(s) == Managed(run[s].before, run[s].plan)

(* ApplyManagedState as the gateway carries it out: it accepts a new       *)
(* operation on the state it expects, refuses it otherwise, and answers an *)
(* operation it knows from its record; when only the expected state        *)
(* differs it may also refuse.                                             *)
Accepts(s) == answered[s].op # run[s].op /\ gateway[s].state = run[s].before

Install(s) ==
    /\ gateway' = [gateway EXCEPT ![s].state = Wanted(s)]
    /\ answered' = [answered EXCEPT ![s] = [op |-> run[s].op, expected |-> run[s].before, left |-> Wanted(s),
                                        basis |-> gateway[s].basis]]

Known(s) == answered[s].op = run[s].op
Refuses(s) == IF Known(s) THEN answered[s].expected # run[s].before ELSE ~Accepts(s)

(* The answered state's basis, and verifySiteState.                        *)
Verified(s, state, basis) ==
    /\ basis = run[s].plan.basis /\ state.price = run[s].plan.price
    /\ IF run[s].plan.enabled THEN state.status = "enabled" ELSE state.status \in {"absent", "stopped"}

(* Whether the put changed the credential is inferred from the version the *)
(* channel showed before.                                                  *)
CredentialApplied(s) ==
    /\ run[s].plan.available
    /\ run[s].before.status = "absent" \/ run[s].before.version # run[s].plan.version
=============================================================================
