------------------------- MODULE RecoveryLifecycle -------------------------
(***************************************************************************)
(* What the durable recovery service promises its callers, with nothing    *)
(* between a decision and its effect: a recovery moves through six stages  *)
(* in one order, each stage adds its own evidence about the one selected   *)
(* candidate, and proposer, approver and deployment controller are three   *)
(* different people.  DurableRecovery implements it with concurrent        *)
(* callers, optimistic versions and database transactions.                 *)
(***************************************************************************)
EXTENDS Naturals

CONSTANTS
  Recoveries, Actors, Candidates,
  Draft,     \* what a candidate was solved for: [recovery, version, legal]
  RolesOf,   \* the roles an actor's token may carry
  None

VARIABLE recovery   \* the stored state of each recovery, None before it exists

Statuses == {"solving", "awaiting_validation", "awaiting_joint_feasibility",
             "awaiting_approval", "approved", "deployment_authorized"}

\* What a legality certificate is bound to.
Certificate == [candidate: Candidates, version: 1..6]

Snapshot == [status: Statuses, version: 1..6, proposer: Actors,
             candidate: Candidates \cup {None}, certificate: Certificate \cup {None},
             hold: Candidates \cup {None}, approver: Actors \cup {None},
             controller: Actors \cup {None}]

\* The snapshot each command leaves behind, from the one it found.
Created(a) ==
  [status |-> "solving", version |-> 1, proposer |-> a, candidate |-> None,
   certificate |-> None, hold |-> None, approver |-> None, controller |-> None]

Selected(s, c) ==
  [s EXCEPT !.status = "awaiting_validation", !.version = @ + 1, !.candidate = c,
            !.certificate = None, !.hold = None, !.approver = None, !.controller = None]

Validated(s, cert) ==
  [s EXCEPT !.status = "awaiting_joint_feasibility", !.version = @ + 1, !.certificate = cert]

Feasible(s, h) ==
  [s EXCEPT !.status = "awaiting_approval", !.version = @ + 1, !.hold = h]

Approved(s, a) ==
  [s EXCEPT !.status = "approved", !.version = @ + 1, !.approver = a]

Authorized(s, a) ==
  [s EXCEPT !.status = "deployment_authorized", !.version = @ + 1, !.controller = a]

----------------------------------------------------------------------------
Init == recovery = [r \in Recoveries |-> None]

Set(r, s) == recovery' = [recovery EXCEPT ![r] = s]

Create(r, a) ==
  /\ recovery[r] = None
  /\ Set(r, Created(a))

Select(r, c) ==
  /\ recovery[r] # None
  /\ recovery[r].status = "solving"
  /\ Draft[c].recovery = r
  /\ Draft[c].version = recovery[r].version
  /\ Draft[c].legal
  /\ Set(r, Selected(recovery[r], c))

Validate(r) ==
  /\ recovery[r] # None
  /\ recovery[r].status = "awaiting_validation"
  /\ Set(r, Validated(recovery[r], [candidate |-> recovery[r].candidate,
                                    version |-> recovery[r].version]))

PassFeasibility(r) ==
  /\ recovery[r] # None
  /\ recovery[r].status = "awaiting_joint_feasibility"
  /\ Set(r, Feasible(recovery[r], recovery[r].candidate))

Approve(r, a) ==
  /\ recovery[r] # None
  /\ recovery[r].status = "awaiting_approval"
  /\ "duty-manager" \in RolesOf[a]
  /\ a # recovery[r].proposer
  /\ Set(r, Approved(recovery[r], a))

Authorize(r, a) ==
  /\ recovery[r] # None
  /\ recovery[r].status = "approved"
  /\ "deployment-controller" \in RolesOf[a]
  /\ a \notin {recovery[r].proposer, recovery[r].approver}
  /\ Set(r, Authorized(recovery[r], a))

Next ==
  \E r \in Recoveries :
    \/ \E a \in Actors : Create(r, a) \/ Approve(r, a) \/ Authorize(r, a)
    \/ \E c \in Candidates : Select(r, c)
    \/ Validate(r)
    \/ PassFeasibility(r)

Spec == Init /\ [][Next]_recovery
============================================================================
