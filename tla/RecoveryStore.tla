--------------------------- MODULE RecoveryStore ---------------------------
(***************************************************************************)
(* The synthetic recovery store behind the demo API, deployment/           *)
(* recovery_api.py: decisions, validation, approval, shadow deployment and *)
(* compensation of recoveries, over the hold registry and the deployment   *)
(* registry.                                                               *)
(*                                                                         *)
(* The endpoints run on a thread pool.  A method that takes the store's    *)
(* lock is one action.  Two requests are not: the validation endpoint      *)
(* compares the selection before validate takes the lock, and              *)
(* compensate_deployment changes the recovery without it.                  *)
(*                                                                         *)
(* The store writes recoveries to a file and reads them back at a restart; *)
(* both registries live in memory.  A request that is refused before it    *)
(* reaches a registry changes nothing and is not a step.                   *)
(*                                                                         *)
(* deploy is always refused, since no code makes a candidate's             *)
(* joint_feasibility deployable; so every deployment is a simulated one,   *)
(* acknowledged in full, and retry finds no failed command.                *)
(***************************************************************************)
EXTENDS Naturals

CONSTANTS
  Clients,       \* threads that serve a request
  Actors,
  Managers,      \* the actors whose role is duty-manager
  Disruptions,
  Recoveries,    \* the recovery identifiers uuid4 can return
  Candidates,
  Solved,        \* the candidates a recovery is created with
  Scheduled,     \* the candidates its scheduler can add
  Legal,         \* the candidates the rules engine finds nothing against
  Needs,         \* the resources of a candidate's assignments
  Resources, HoldIds,
  Deployments,   \* the deployment identifiers uuid4 can return
  Ttl, MaxTime,  \* the registry's ttl_seconds, and the bound on its clock
  MaxVersion,    \* bound: how far a recovery's version goes
  None

VARIABLES
  now, hold, live, index, conflict,   \* the hold registry
  recovery,    \* _recoveries
  kept,        \* candidate["resource_hold"]: the hold each candidate remembers
  certified,   \* candidates with a signed legality certificate
  deployment,  \* the deployment registry
  request      \* what each thread has read and not finished

registry == <<now, hold, live, index, conflict>>
vars == <<registry, recovery, kept, certified, deployment, request>>

Tenant == "synthetic-airline"
Operator == "operator"     \* a hold's owner, which the store never asks for

Holds == INSTANCE ResourceHolds
  WITH Tenants <- {Tenant}, Owners <- {Operator}, MinTtl <- Ttl, MaxTtl <- Ttl

Status == {"awaiting_intervention", "superseded", "validating", "held", "awaiting_review",
           "awaiting_joint_feasibility", "approved", "deployed", "requires_new_recovery"}

Approval == [actor: Actors, candidate: Candidates \cup {None}]

Recovery == [disruption: Disruptions, proposer: Actors, status: Status,
             version: 1..MaxVersion, selected: Candidates \cup {None},
             validated: BOOLEAN, approvals: SUBSET Approval,
             deployment: Deployments \cup {None}, candidates: SUBSET Candidates]

\* What became of the registry's record of a deployment.  A restart forgets it,
\* perhaps in the middle of the request that was compensating it.
Record == {"registered", "forgotten", "interrupted"}

Deployment == [recovery: Recoveries, candidate: Candidates,
               status: {"complete", "requires_new_recovery"}, record: Record]

\* A validation between its two reads; a compensation before and after it has
\* read the recovery's version.
Request == [recovery: Recoveries, candidate: Candidates, version: 1..MaxVersion]
             \cup [deployment: Deployments, version: 0..(MaxVersion - 1)]

ASSUME StoreAssumption ==
  /\ Ttl \in Nat \ {0} /\ MaxTime \in Nat /\ MaxVersion \in Nat \ {0}
  /\ Solved \in [Recoveries -> SUBSET Candidates]
  /\ Scheduled \in [Recoveries -> SUBSET Candidates]
  /\ Needs \in [Candidates -> (SUBSET Resources) \ {{}}]
  /\ None \notin Candidates \cup Deployments \cup HoldIds
  /\ None \notin Recovery /\ None \notin Deployment /\ None \notin Request
  /\ None \notin Holds!Hold

----------------------------------------------------------------------------
Exists(r) == recovery[r] # None

\* _version, for a caller that sends the current version; and the bound.
Version(r) == Exists(r) /\ recovery[r].version < MaxVersion

Store(r, new) == recovery' = [recovery EXCEPT ![r] = new]

\* recovery.update({...}), with state_version + 1.
Advanced(r, status) ==
  [recovery[r] EXCEPT !.status = status, !.version = @ + 1]

\* Mutant: a candidate's own record of its hold is believed.
RemembersHold(c) == kept[c] # None

\* assert_current, on the hold the candidate remembers.
AssertCurrent(c) ==
  /\ kept[c] # None
  /\ Holds!Found(kept[c])
  /\ hold[kept[c]].candidate = c

----------------------------------------------------------------------------
(* Methods under the store's lock.                                          *)

\* The earlier recoveries a new one for disruption d supersedes.
Prior(d) == {r \in Recoveries : Exists(r) /\ recovery[r].disruption = d}

\* Mutant: they are marked and keep their resources.
MarkOnly(prior) == UNCHANGED registry

\* release_all_for_recovery, of each of them.
ReleasePrior(prior) ==
  IF prior = {} THEN UNCHANGED registry
  ELSE /\ Holds!Drop({h \in live \ Holds!Expired : hold[h].recovery \in prior})
       /\ conflict' = Holds!NoConflict
       /\ UNCHANGED <<now, hold>>

\* Mutant: the first version is counted from zero.
FromZero(r, d, a) ==
  [disruption |-> d, proposer |-> a, status |-> "awaiting_intervention", version |-> 0,
   selected |-> None, validated |-> FALSE, approvals |-> {}, deployment |-> None,
   candidates |-> Solved[r]]

Created(r, d, a) ==
  [disruption |-> d, proposer |-> a, status |-> "awaiting_intervention", version |-> 1,
   selected |-> None, validated |-> FALSE, approvals |-> {}, deployment |-> None,
   candidates |-> Solved[r]]

Create(r, d, a) ==
  /\ ~Exists(r)
  /\ ReleasePrior(Prior(d))
  /\ recovery' = [s \in Recoveries |->
       IF s = r THEN Created(r, d, a)
       ELSE IF s \in Prior(d) THEN [recovery[s] EXCEPT !.status = "superseded"]
       ELSE recovery[s]]
  /\ UNCHANGED <<kept, certified, deployment, request>>

\* decide_tier3_suggestion, approve: the scheduler's option becomes a candidate.
ApproveSuggestion(r, c) ==
  /\ Version(r)
  /\ c \in Scheduled[r] \ recovery[r].candidates
  /\ Store(r, [Advanced(r, "awaiting_review") EXCEPT !.candidates = @ \cup {c}])
  /\ UNCHANGED <<registry, kept, certified, deployment, request>>

\* Its other actions change the queue of suggestions, and the version.
DecideSuggestion(r) ==
  /\ Version(r)
  /\ Store(r, Advanced(r, recovery[r].status))
  /\ UNCHANGED <<registry, kept, certified, deployment, request>>

\* decide, with the actions that take a hold.
Selectable(r, c, action) ==
  /\ Version(r)
  /\ c \in recovery[r].candidates
  /\ action = "approve" => c \in Legal

Select(r, c, action) ==
  /\ Selectable(r, c, action)
  /\ \E h \in HoldIds :
       /\ Holds!Acquire(h, Tenant, r, c, Needs[c], Operator, Ttl)
       /\ kept' = [kept EXCEPT ![c] = h]
  /\ Store(r, [Advanced(r, IF action = "hold" THEN "held" ELSE "validating")
                 EXCEPT !.selected = c])
  /\ UNCHANGED <<certified, deployment, request>>

\* resource_conflict, also over the candidate's own earlier hold.
SelectRefused(r, c, action) ==
  /\ Selectable(r, c, action)
  /\ Holds!AcquireRefused(Tenant, Needs[c])
  /\ UNCHANGED <<recovery, kept, certified, deployment, request>>

\* decide, reject: the candidate's hold is given back if it is still there.
Reject(r, c) ==
  /\ Version(r)
  /\ c \in recovery[r].candidates
  /\ IF kept[c] = None THEN UNCHANGED registry
     ELSE IF Holds!Found(kept[c]) THEN Holds!ReleaseForRecovery(kept[c], r)
     ELSE Holds!Look
  /\ kept' = [kept EXCEPT ![c] = None]
  /\ Store(r, [Advanced(r, "awaiting_review") EXCEPT !.selected = None])
  /\ UNCHANGED <<certified, deployment, request>>

Approve(r, a) ==
  /\ Version(r)
  /\ recovery[r].validated
  /\ a \in Managers
  /\ a # recovery[r].proposer
  /\ Store(r, [Advanced(r, "approved") EXCEPT
                 !.approvals = @ \cup {[actor |-> a, candidate |-> recovery[r].selected]}])
  /\ UNCHANGED <<registry, kept, certified, deployment, request>>

Simulate(r, d) ==
  /\ Version(r)
  /\ recovery[r].selected # None
  /\ recovery[r].validated
  /\ recovery[r].approvals # {}
  /\ deployment[d] = None
  /\ deployment' = [deployment EXCEPT ![d] =
       [recovery |-> r, candidate |-> recovery[r].selected, status |-> "complete",
        record |-> "registered"]]
  /\ Store(r, [Advanced(r, "deployed") EXCEPT !.deployment = d])
  /\ UNCHANGED <<registry, kept, certified, request>>

\* The registry's compensate: every plan has a passenger command, which is
\* irreversible, and there is nothing to compensate a second time.
CompensateInRegistry(d) ==
  /\ deployment[d] # None
  /\ deployment[d].record = "registered"
  /\ deployment[d].status = "complete"
  /\ deployment' = [deployment EXCEPT ![d].status = "requires_new_recovery"]

\* What a compensation does to the recovery, given the version it read.
Compensated(r, v) ==
  [recovery[r] EXCEPT !.status = "requires_new_recovery", !.validated = FALSE, !.version = v + 1]

\* rollback, which no endpoint calls.
Rollback(r) ==
  /\ Version(r)
  /\ recovery[r].deployment # None
  /\ CompensateInRegistry(recovery[r].deployment)
  /\ Store(r, Compensated(r, recovery[r].version))
  /\ UNCHANGED <<registry, kept, certified, request>>

----------------------------------------------------------------------------
(* Requests that read before they act.                                      *)

Begin(x, q) ==
  /\ request[x] = None
  /\ request' = [request EXCEPT ![x] = q]

Finish(x) == request' = [request EXCEPT ![x] = None]

Validating(x, r) ==
  /\ request[x] # None
  /\ "candidate" \in DOMAIN request[x]
  /\ request[x].recovery = r

\* validate_candidate: the named candidate is the selected one.  The caller
\* sends a version it has read, by now perhaps an old one.
AskValidation(x, r, c, v) ==
  /\ Exists(r)
  /\ recovery[r].selected = c
  /\ v <= recovery[r].version
  /\ Begin(x, [recovery |-> r, candidate |-> c, version |-> v])
  /\ UNCHANGED <<registry, recovery, kept, certified, deployment>>

\* Mutant: validate trusts the endpoint's check.
AnyVersion(x, r) == Validating(x, r)

\* validate's _version, in the second read.
SameVersion(x, r) == Validating(x, r) /\ request[x].version = recovery[r].version

\* The hold registry is asked, and sweeps, when the earlier checks have passed.
ReachesRegistry(x, r) ==
  SameVersion(x, r) /\ recovery[r].selected # None /\ kept[recovery[r].selected] # None

Validate(x, r) ==
  LET c == recovery[r].selected
  IN /\ ReachesRegistry(x, r)
     /\ Version(r)
     /\ AssertCurrent(c)
     /\ c \in Legal
     /\ Holds!Look
     /\ certified' = certified \cup {c}
     /\ Store(r, [Advanced(r, "awaiting_joint_feasibility") EXCEPT !.validated = TRUE])
     /\ Finish(x)
     /\ UNCHANGED <<kept, deployment>>

ValidateRefused(x, r) ==
  /\ Validating(x, r)
  /\ ~(ReachesRegistry(x, r) /\ AssertCurrent(recovery[r].selected) /\ recovery[r].selected \in Legal)
  /\ IF ReachesRegistry(x, r) THEN Holds!Look ELSE UNCHANGED registry
  /\ Finish(x)
  /\ UNCHANGED <<recovery, kept, certified, deployment>>

Compensating(x, d) ==
  /\ request[x] # None
  /\ "deployment" \in DOMAIN request[x]
  /\ request[x].deployment = d

\* compensate_deployment: first the registry, under the registry's lock.
Compensate(x, d) ==
  /\ CompensateInRegistry(d)
  /\ Begin(x, [deployment |-> d, version |-> 0])
  /\ UNCHANGED <<registry, recovery, kept, certified>>

\* Then the arguments of recovery.update are evaluated, ...
ReadVersion(x, d) ==
  /\ Compensating(x, d)
  /\ request[x].version = 0
  /\ Version(deployment[d].recovery)
  /\ request' = [request EXCEPT ![x].version = recovery[deployment[d].recovery].version]
  /\ UNCHANGED <<registry, recovery, kept, certified, deployment>>

\* Mutant: the update is given up when somebody else was faster.
OnlyIfUnchanged(r, v) ==
  IF recovery[r].version = v THEN Compensated(r, v) ELSE recovery[r]

\* ... and applied.
WriteBack(r, v) == Compensated(r, v)

UpdateRecovery(x, d) ==
  /\ Compensating(x, d)
  /\ request[x].version # 0
  /\ LET r == deployment[d].recovery IN Store(r, WriteBack(r, request[x].version))
  /\ Finish(x)
  /\ UNCHANGED <<registry, kept, certified, deployment>>

----------------------------------------------------------------------------
\* What the registry knows of a deployment after a restart: nothing.
Forgotten(d) ==
  [deployment[d] EXCEPT !.record = IF \E x \in Clients : Compensating(x, d) THEN "interrupted"
                                   ELSE IF @ = "registered" THEN "forgotten" ELSE @]

\* The process restarts: the file has the recoveries with their candidates;
\* holds and deployments are gone, and so are the threads.
Restart ==
  /\ live' = {}
  /\ index' = [s \in Holds!Slots |-> None]
  /\ conflict' = Holds!NoConflict
  /\ deployment' = [d \in Deployments |->
       IF deployment[d] = None THEN None ELSE Forgotten(d)]
  /\ request' = [x \in Clients |-> None]
  /\ UNCHANGED <<now, hold, recovery, kept, certified>>

Tick ==
  /\ Holds!Tick
  /\ UNCHANGED <<recovery, kept, certified, deployment, request>>

Init ==
  /\ Holds!Init
  /\ recovery = [r \in Recoveries |-> None]
  /\ kept = [c \in Candidates |-> None]
  /\ certified = {}
  /\ deployment = [d \in Deployments |-> None]
  /\ request = [x \in Clients |-> None]

Method(r) ==
  \/ \E d \in Disruptions, a \in Actors : Create(r, d, a)
  \/ DecideSuggestion(r) \/ Rollback(r)
  \/ \E c \in Candidates : ApproveSuggestion(r, c) \/ Reject(r, c)
  \/ \E c \in Candidates, action \in {"approve", "override", "hold"} :
       Select(r, c, action) \/ SelectRefused(r, c, action)
  \/ \E a \in Actors : Approve(r, a)
  \/ \E d \in Deployments : Simulate(r, d)

Thread(x) ==
  \/ \E r \in Recoveries : Validate(x, r) \/ ValidateRefused(x, r)
  \/ \E r \in Recoveries, c \in Candidates, v \in 1..MaxVersion : AskValidation(x, r, c, v)
  \/ \E d \in Deployments : Compensate(x, d) \/ ReadVersion(x, d) \/ UpdateRecovery(x, d)

Next ==
  \/ \E r \in Recoveries : Method(r)
  \/ \E x \in Clients : Thread(x)
  \/ Tick \/ Restart

Spec == Init /\ [][Next]_vars

----------------------------------------------------------------------------
(* Properties                                                               *)

\* Every record, hold and request has the shape the code gives it.
TypeOK ==
  /\ Holds!TypeOK
  /\ recovery \in [Recoveries -> Recovery \cup {None}]
  /\ kept \in [Candidates -> HoldIds \cup {None}]
  /\ certified \subseteq Candidates
  /\ deployment \in [Deployments -> Deployment \cup {None}]
  /\ request \in [Clients -> Request \cup {None}]

\* "Their resource holds must be released, or the crew, aircraft and gates
\* they reserved stay locked": as long as a recovery counts as superseded it
\* holds nothing.
SupersededHoldsNothing ==
  \A h \in live : recovery[hold[h].recovery].status # "superseded"

\* Two plans that could both be validated now never need the same crew,
\* aircraft or gate, although a candidate remembers its hold beyond expiry,
\* supersession and restart, when the registry has long forgotten it.
ValidatablePlansAreDisjoint ==
  \A c, d \in Candidates :
    AssertCurrent(c) /\ AssertCurrent(d) /\ c # d => Needs[c] \cap Needs[d] = {}

\* No recovery goes on being shown as deployed when its deployment has been
\* compensated, except while the request that did it is still running, and
\* after a crash that ended that request between the registry's compensation
\* and the update of the recovery (recovery_api.py:642-647): then nothing ever
\* corrects what is shown.
CompensationIsShown ==
  \A r \in Recoveries, d \in Deployments :
    (/\ Exists(r) /\ recovery[r].status = "deployed" /\ recovery[r].deployment = d
     /\ deployment[d].status = "requires_new_recovery")
      => \/ \E x \in Clients : Compensating(x, d)
         \/ deployment[d].record = "interrupted"

\* The endpoint's check of the selection is stale when validate runs; what is
\* validated is nevertheless the candidate the caller named, as long as the
\* recovery was never deployed: a compensation may turn its version back.
NamedPlanIsValidated ==
  [][\A x \in Clients, r \in Recoveries :
       Validate(x, r) /\ recovery[r].deployment = None
         => recovery[r].selected = request[x].candidate]_vars

----------------------------------------------------------------------------
(* What the repository says and the code does not do.                       *)

\* recovery_api.py, simulate_deployment: "Validate the plan before deployment",
\* "A duty-manager approval is required before deployment".
DeployedPlanIsApproved ==
  \A d \in Deployments : deployment[d] # None =>
    /\ deployment[d].candidate \in certified
    /\ \E ap \in recovery[deployment[d].recovery].approvals : ap.candidate = deployment[d].candidate
============================================================================
