--------------------------- MODULE RotationContract ---------------------------
(***************************************************************************)
(* What a credential rotation promises, without requests, plans, runs,     *)
(* versions or lost answers: a supplier has a current credential and a     *)
(* candidate, which are one unless a rotation is going on.  The gateways   *)
(* are only ever given the candidate, a channel comes into use with the    *)
(* candidate and stays in use, and the candidate becomes current once all  *)
(* channels in use have it.  What is replaced before is revoked, and no    *)
(* credential is made twice.                                               *)
(***************************************************************************)
CONSTANTS Sites,
          Credentials   \* all that can ever be made

VARIABLES made,       \* credentials made
          current,    \* the supplier's confirmed credential
          candidate,  \* the one to install
          revoked,    \* those replaced before they were confirmed
          installed,  \* what the gateway of each site has
          inUse       \* sites whose channel is confirmed

rotation == <<made, current, candidate, revoked, installed, inUse>>

Rotating == candidate # current

Init ==
    /\ current \in Credentials /\ candidate = current
    /\ made = {current} /\ revoked = {}
    /\ inUse = {s \in Sites : installed[s] = current}

\* A new candidate takes the place of the old one; a supplier without a channel has it at once.
Rotate(k) ==
    /\ k \notin made /\ made' = made \cup {k}
    /\ candidate' = k
    /\ revoked' = IF Rotating THEN revoked \cup {candidate} ELSE revoked
    /\ current' = current \/ (inUse = {} /\ current' = k)
    /\ UNCHANGED <<installed, inUse>>

\* The rotation is given up.
Cancel ==
    /\ Rotating
    /\ candidate' = current
    /\ revoked' = revoked \cup {candidate}
    /\ UNCHANGED <<made, current, installed, inUse>>

\* A gateway gets the candidate.
Send(s) ==
    /\ installed' = [installed EXCEPT ![s] = candidate]
    /\ UNCHANGED <<made, current, candidate, revoked, inUse>>

\* A channel that has the candidate is confirmed.
Use(s) ==
    /\ installed[s] = candidate
    /\ inUse' = inUse \cup {s}
    /\ UNCHANGED <<made, current, candidate, revoked, installed>>

\* The rotation is over.
Promote ==
    /\ \A s \in inUse : installed[s] = candidate
    /\ current' = candidate
    /\ UNCHANGED <<made, candidate, revoked, installed, inUse>>

Next ==
    \/ \E k \in Credentials : Rotate(k)
    \/ Cancel
    \/ \E s \in Sites : Send(s) \/ Use(s)
    \/ Promote

Spec == Init /\ [][Next]_rotation
=============================================================================
